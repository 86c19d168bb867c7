----------------------------- MODULE MCIssueLoop -----------------------------
(***************************************************************************)
(* Values of the parameters of IssueLoop for TLC.  Issues are numbered, and *)
(* in a chain every issue waits for the ones before it, which are below it  *)
(* in the tree.                                                             *)
(***************************************************************************)
EXTENDS IssueLoop

NoWaits == [i \in Issues |-> {}]
Alone == [i \in Issues |-> {i}]

Chain == [i \in Issues |-> {j \in Issues : j < i}]
ChainSubtree == [i \in Issues |-> {j \in Issues : j <= i}]

\* What the worker's tick does for a Ready epic, without and with what follows
\* an approval.
Volley == {"dispatch", "open"}
Tick == Volley \cup {"sweep", "complete"}

\* The worker alone, or racing with the requests of a person.
With(worker, person) ==
    [c \in Callers |-> IF c = "worker" THEN worker ELSE person]

OnlyVolley == With(Volley, {})
TickAndRequests == With(Tick, {"merge", "close-pr", "reset"})
TickAndDelivery == With(Tick, {"merge", "close-issue", "close-epic"})
TickAndMerge == With(Tick, {"merge"})
VolleyAndClose == With(Volley, {"close-pr"})
VolleyAndReset == With(Volley, {"reset"})
TwoOpeners == With(Volley, {"open"})
ReviewAndMerge == With(Volley \cup {"sweep"}, {"merge"})

\* Requests are served one at a time (mutationMu): the closer is what an import of
\* a refined tree does to the record while a request merges it.
MergeAndClose == [c \in Callers |->
    CASE c = "worker" -> Volley [] c = "merger" -> {"merge"} [] c = "closer" -> {"close-pr"}]
=============================================================================
