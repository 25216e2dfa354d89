----------------------------- MODULE MCPipeline -----------------------------
(* A small instance of Pipeline for TLC. *)
EXTENDS Pipeline

CONSTANTS r1, r2, ann, bob

\* A login in the middle of a second, and one at the start of the next.
PastLogins == {-1, 0}

Base ==
    [appEnv |-> "production", jwtSecret |-> Secret(32, FALSE), jwtIssuer |-> Unset,
     jwtExpiry |-> 1, docs |-> FALSE, metricsEnabled |-> Unset, metricsToken |-> "token",
     limitLogin |-> 1, limitTopup |-> 1, limitTransfer |-> 0]

\* The first three are served with, the others are refused.
SomeEnvironments ==
    {Base,
     [Base EXCEPT !.metricsToken = Unset, !.metricsEnabled = FALSE],
     [Base EXCEPT !.appEnv = "dev", !.jwtSecret = Unset, !.metricsToken = Unset,
                  !.docs = TRUE],
     [Base EXCEPT !.metricsToken = Unset],
     [Base EXCEPT !.metricsToken = "blank", !.metricsEnabled = Garbage],
     [Base EXCEPT !.jwtSecret = Secret(31, FALSE)],
     [Base EXCEPT !.jwtIssuer = "blank"]}
=============================================================================
