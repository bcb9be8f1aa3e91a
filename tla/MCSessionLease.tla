--------------------------- MODULE MCSessionLease ---------------------------
(* Small instances of SessionLease for TLC.                                *)
EXTENDS SessionLease

CONSTANTS w1, w2, s1

\* No hazard, or one at a time.
EachHazard == {{}} \cup {{h} : h \in AllHazards}
Orderly == {{}}

=============================================================================
