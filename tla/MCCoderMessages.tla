-------------------------- MODULE MCCoderMessages --------------------------
(* Small instances of CoderMessages for TLC.                               *)
EXTENDS CoderMessages

CONSTANTS m1, m2

\* Resends to a queue behind others and across failed starts, and over a restart;
\* a client over a restart; a restart in a bookkeeping; restarts within a step;
\* files that overflow; an /open within a stop or after an exit.
Resends == [sends |-> 3, fails |-> 2, restarts |-> 0, room |-> 20, hazard |-> "none",
            others |-> TRUE, asks |-> FALSE, follows |-> {}]
Retries == [Resends EXCEPT !.fails = 1, !.sends = 2, !.restarts = 1]
Reopened == [Resends EXCEPT !.fails = 0, !.restarts = 1, !.others = FALSE]
Followed == [Reopened EXCEPT !.sends = 2, !.asks = TRUE, !.follows = {1, 2}]
Late == [Followed EXCEPT !.hazard = "late", !.follows = {1}]
InStep == [Late EXCEPT !.hazard = "in_step", !.asks = FALSE, !.restarts = 2]
InStepAsked == [Late EXCEPT !.hazard = "in_step", !.sends = 1, !.restarts = 2]
Overflowing == [Followed EXCEPT !.room = 3, !.sends = 1, !.restarts = 2]
Overlapping == [Late EXCEPT !.hazard = "overlap", !.asks = FALSE]
OverlapAsked == [Late EXCEPT !.hazard = "overlap", !.sends = 1]
EachScope == {Resends, Retries, Reopened, Followed, Late, InStep, InStepAsked,
              Overflowing, Overlapping, OverlapAsked}

=============================================================================
