-------------------------- MODULE MCBackgroundTasks --------------------------
(* Small instances of BackgroundTasks for TLC.                             *)
EXTENDS BackgroundTasks

CONSTANTS t1, t2

\* No hazard, or one at a time.
EachHazard == {{}} \cup {{h} : h \in AllHazards}
TaskEnds == Tasks \X Reasons

=============================================================================
