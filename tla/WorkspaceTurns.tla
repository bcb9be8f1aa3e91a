--------------------------- MODULE WorkspaceTurns ---------------------------
(***************************************************************************)
(* What the coder conversations of one workspace promise together, without *)
(* runners, tasks or a waiter FIFO: one conversation or one revert owns    *)
(* the workspace at a time, only the owner acts on the worktree, and a     *)
(* follow-up that was accepted stays parked until its turn begins, its     *)
(* author withdraws it, or its conversation is dropped.                    *)
(***************************************************************************)
EXTENDS Naturals

CONSTANTS Convs, Reverts, Nobody

VARIABLES
    owner,      \* who may mutate the workspace
    acting,     \* who is mutating it
    parked,     \* how many follow-ups each conversation has waiting
    drawn       \* the owner's turn is a parked follow-up, not prompted yet

vars == <<owner, acting, parked, drawn>>

Init ==
    /\ owner = Nobody
    /\ acting = {}
    /\ parked = [c \in Convs |-> 0]
    /\ drawn = FALSE

Parks(c) ==
    /\ parked' = [parked EXCEPT ![c] = @ + 1]
    /\ UNCHANGED <<owner, acting, drawn>>

Withdraws(c) ==
    /\ parked[c] > 0
    /\ parked' = [parked EXCEPT ![c] = @ - 1]
    /\ UNCHANGED <<owner, acting, drawn>>

\* A message that did not wait.  One sent as a follow-up to an idle
\* conversation parks behind the others and draws the oldest at once.
Begins(c) ==
    /\ owner = Nobody /\ acting = {}
    /\ owner' = c
    /\ drawn' \in BOOLEAN
    /\ UNCHANGED <<acting, parked>>

\* The next follow-up; a conversation may go straight on to its own.
BeginsParked(c) ==
    /\ owner \in {Nobody, c} /\ acting = {} /\ ~drawn
    /\ parked[c] > 0
    /\ owner' = c
    /\ parked' = [parked EXCEPT ![c] = @ - 1]
    /\ drawn' = TRUE
    /\ UNCHANGED acting

\* The agent, if it is still there, has the prompt.
Prompts(c) ==
    /\ owner = c /\ acting = {}
    /\ acting' \in {{}, {c}}
    /\ drawn' = FALSE
    /\ UNCHANGED <<owner, parked>>

Rests(c) ==
    /\ acting = {c}
    /\ acting' = {}
    /\ UNCHANGED <<owner, parked, drawn>>

LetsGo(c) ==
    /\ owner = c /\ acting = {} /\ ~drawn
    /\ owner' = Nobody
    /\ UNCHANGED <<acting, parked, drawn>>

\* A follow-up that was never prompted waits again.
GivesBack(c) ==
    /\ owner = c /\ acting = {} /\ drawn
    /\ owner' = Nobody
    /\ parked' = [parked EXCEPT ![c] = @ + 1]
    /\ drawn' = FALSE
    /\ UNCHANGED acting

\* Dropping a conversation forgets its follow-ups, and lets go of the
\* workspace now or later.
Forgets(c) ==
    /\ c \notin acting
    /\ parked' = [parked EXCEPT ![c] = 0]
    /\ IF owner = c THEN owner' \in {c, Nobody} /\ drawn' = FALSE
                    ELSE UNCHANGED <<owner, drawn>>
    /\ UNCHANGED acting

RestoreBegins(v) ==
    /\ owner = Nobody /\ acting = {}
    /\ owner' = v
    /\ acting' = {v}
    /\ UNCHANGED <<parked, drawn>>

RestoreEnds(v) ==
    /\ owner = v
    /\ owner' = Nobody
    /\ acting' = {}
    /\ UNCHANGED <<parked, drawn>>

Next ==
    \/ \E c \in Convs :
          \/ Parks(c) \/ Withdraws(c) \/ Begins(c) \/ BeginsParked(c)
          \/ Prompts(c) \/ Rests(c) \/ LetsGo(c) \/ GivesBack(c) \/ Forgets(c)
    \/ \E v \in Reverts : RestoreBegins(v) \/ RestoreEnds(v)

Spec == Init /\ [][Next]_vars

=============================================================================
