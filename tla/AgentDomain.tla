----------------------------- MODULE AgentDomain -----------------------------
(***************************************************************************)
(* The run records of internal/domain/agent: what a round leaves in the    *)
(* registry, which of its states are live, and which runs spend one of a   *)
(* role's attempts at its subject.                                         *)
(***************************************************************************)
EXTENDS Integers

RunStatuses == {"Absent", "Queued", "Admitted", "Running", "Succeeded",
                "Failed", "Cancelled", "Stalled", "HostFailed"}

LiveStatuses == {"Queued", "Admitted", "Running"}

\* What a live run may end as; nothing leads out of these.
Outcomes == RunStatuses \ (LiveStatuses \cup {"Absent"})

NoRun == [role |-> "none", status |-> "Absent", number |-> 0]

\* Mutants: a fault of the host is an attempt of the agent; a run a restart cut
\* short is not one.
EveryRunCounts(r) == r.status # "Absent"

OnlyFinishedRunsCount(r) == r.status \notin {"Absent", "HostFailed", "Stalled"}

\* A round the host never ran does not spend an attempt, every other one does.
CountsTowardRoundLimit(r) == r.status \notin {"Absent", "HostFailed"}

\* The number the next attempt at the subject of these runs takes.
NextRound(runs) ==
    LET counted == {runs[r].number : r \in {s \in DOMAIN runs : CountsTowardRoundLimit(runs[s])}}
    IN  IF counted = {} THEN 1
        ELSE 1 + CHOOSE n \in counted : \A m \in counted : m <= n
=============================================================================
