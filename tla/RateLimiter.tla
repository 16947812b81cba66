---------------------------- MODULE RateLimiter ----------------------------
(***************************************************************************)
(* The rate limiter of the hello-world example: class RateLimiter of       *)
(* src/examples/rate_limiter.cpp over one buffer of STSChecker, for the    *)
(* horizon `timesteps' that examples/main.cpp passes.                      *)
(***************************************************************************)
EXTENDS STSChecker

CONSTANT timesteps  \* m: number of timesteps that are unrolled

ASSUME RateLimiterAssumption == timesteps \in Nat \ {0} /\ num_bufs = 1

VARIABLES
  S,    \* S[0] of the code: 1 when the limiter sends in this timestep
  t,    \* the timestep
  sent  \* sum(O[0]) up to this timestep

rlVars == <<I, E, D, B, O, C, S, t, sent>>

\* The limiter sends one packet when its state is 1.  The backlog is not read.
out(s, o) == o \in [Bufs -> 0 .. md] /\ o[0] = (IF s = 1 THEN 1 ELSE 0)

init(b, s) == s = IF b[0] THEN 1 ELSE 0

\* MUTANT of trs: the state follows the backlog.
trs_FollowBacklog(s, bp, sp) == sp = IF bp[0] THEN 1 ELSE 0

\* The state flips in a timestep in which the buffer is backlogged.
trs(s, bp, sp) == sp = IF bp[0] THEN 1 - s ELSE s

Init ==
  /\ t = 0
  /\ arrivals(Empty, I, E, D, B)
  /\ init(B, S)
  /\ out(S, O)
  /\ departures(Empty, E, O, C)
  /\ sent = O[0]

Next ==
  /\ t < timesteps - 1
  /\ t' = t + 1
  /\ arrivals(C, I', E', D', B')
  /\ trs(S, B', S')
  /\ out(S', O')
  /\ departures(C, E', O', C')
  /\ sent' = sent + O'[0]

Spec == Init /\ [][Next]_rlVars

-----------------------------------------------------------------------------
\* RateLimiter::query, for every prefix of the run: at most one packet in every
\* two timesteps, 5 in the 10 timesteps of the example.
RateLimited == 2 * sent <= t + 2

\* Readme.md: "with any traffic that sends at least 5 packets (within the 10
\* timesteps) into the rate limiter".  No input is excluded before the horizon.
Receptive ==
  t < timesteps - 1 =>
    \A inp \in [Bufs -> 0 .. me] : ENABLED (I' = inp /\ Next)
=============================================================================
