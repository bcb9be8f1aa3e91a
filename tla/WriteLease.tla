----------------------------- MODULE WriteLease -----------------------------
(***************************************************************************)
(* The per-workspace write-lease (terminal-server workspace_lease.py): who *)
(* may mutate the workspace, and the FIFO of conversations queued for it.  *)
(* A lease is a record; every method of the class is an operator that      *)
(* returns the lease it leaves behind.  None of the methods awaits, so a   *)
(* caller composes several of them in one step.  Time is abstracted to     *)
(* "expired": has the holder held for longer than stale_after_seconds?     *)
(***************************************************************************)
EXTENDS Naturals, Sequences, SequencesExt

CONSTANTS
    Convs,      \* conversation ids, the holders a turn acquires under
    Reverts,    \* the unique holder ids minted by new_revert_holder
    Nobody      \* Python's None

ASSUME HoldersAssumption ==
    /\ Nobody \notin Convs \cup Reverts
    /\ Convs \cap Reverts = {}

Holders == Convs \cup Reverts

Leases == [holder : Holders \cup {Nobody}, expired : BOOLEAN, waiters : Seq(Convs)]

FreeLease == [holder |-> Nobody, expired |-> FALSE, waiters |-> << >>]

WithoutWaiter(l, h) == [l EXCEPT !.waiters = RemoveFirst(@, h)]

\* Seeded fault: a grant that leaves the holder's FIFO slot behind.
GrantKeepingSlot(l, h) == [l EXCEPT !.holder = h, !.expired = FALSE]

\* Holding and waiting are mutually exclusive: a grant leaves the FIFO, and
\* restarts the clock that decides staleness.
Grant(l, h) ==
    [WithoutWaiter(l, h) EXCEPT !.holder = h, !.expired = FALSE]

\* try_acquire answers True: free, already ours, or past its TTL.
CanAcquire(l, h) == l.holder \in {Nobody, h} \/ l.expired

\* The lease after a try_acquire that answered True; re-entry restamps nothing.
Acquired(l, h) == IF l.holder = h THEN l ELSE Grant(l, h)

\* Guarded by identity: a release by anyone but the holder changes nothing.
Released(l, h) ==
    IF l.holder = h THEN [l EXCEPT !.holder = Nobody, !.expired = FALSE] ELSE l

WithWaiter(l, h) ==
    IF h \in ToSet(l.waiters) THEN l ELSE [l EXCEPT !.waiters = Append(@, h)]

=============================================================================
