---------------------------- MODULE MCCoderTurns ----------------------------
(* Small instances of CoderTurns for TLC.                                  *)
EXTENDS CoderTurns

CONSTANTS v1, v2, r1, r2, r3, c1, c2, c3

\* Every conversation has one runner.
OneRunnerEach == (r1 :> c1) @@ (r2 :> c2) @@ (r3 :> c3)
TwoRunners == (r1 :> c1) @@ (r2 :> c2)

\* r1's conversation is opened again as r2 once r1's agent has exited.
Reopened == (r1 :> c1) @@ (r2 :> c1) @@ (r3 :> c2)

=============================================================================
