----------------------------- MODULE Aggregates -----------------------------
(***************************************************************************)
(* What the use cases take a project's store for (application.Workspace):   *)
(* epics that are created, changed and listed in single steps.  A change is *)
(* applied to the epic as it is by then or not at all, a list is of one     *)
(* moment, and what a caller was told is done stays done, crashes included. *)
(* An epic is the set of the calls that made and changed it: IssueLoop,     *)
(* Drafting and Plan say what the changes are, and take their one UpdateEpic *)
(* for one step because of this module.                                     *)
(***************************************************************************)
CONSTANTS
    Epics,
    Callers,    \* goroutines of the worker and of requests
    Calls,      \* what tells one call from another
    NoEpic,
    Nothing

VARIABLES
    store,      \* store[e], the calls epic e is made of
    call,       \* call[t], what t asked and how far it is
    told        \* told[e], the calls whose callers were told they are done

aggVars == <<store, call, told>>

Listing == [Epics -> (SUBSET Calls) \cup {NoEpic}]

Idle == [at |-> "idle", kind |-> "none", epic |-> Nothing, n |-> Nothing,
         answer |-> "none", seen |-> Nothing, since |-> Nothing]

Asked == [at : {"asked"}, kind : {"create", "change", "list"}, epic : Epics, n : Calls,
          answer : {"none"}, seen : {Nothing}, since : [Epics -> SUBSET Calls] \cup {Nothing}]

Acted == [at : {"acted"}, kind : {"create", "change"}, epic : Epics, n : Calls,
          answer : {"done", "refused", "failed"}, seen : {Nothing}, since : {Nothing}]

Listed == [at : {"acted"}, kind : {"list"}, epic : Epics, n : Calls,
           answer : {"done", "failed"}, seen : Listing \cup {Nothing},
           since : [Epics -> SUBSET Calls]]

TypeOK ==
    /\ store \in Listing
    /\ call \in [Callers -> {Idle} \cup Asked \cup Acted \cup Listed]
    /\ told \in [Epics -> SUBSET Calls]

Init ==
    /\ store \in [Epics -> {{}, NoEpic}]
    /\ call = [t \in Callers |-> Idle]
    /\ told = [e \in Epics |-> {}]

Ask(t) ==
    /\ call[t] = Idle
    /\ \E kind \in {"create", "change", "list"}, e \in Epics, n \in Calls :
         call' = [call EXCEPT ![t] = [at |-> "asked", kind |-> kind, epic |-> e, n |-> n,
                                      answer |-> "none", seen |-> Nothing,
                                      since |-> IF kind = "list" THEN told ELSE Nothing]]
    /\ UNCHANGED <<store, told>>

Acts(t, answer, seen) ==
    call' = [call EXCEPT ![t].at = "acted", ![t].answer = answer, ![t].seen = seen]

\* A new epic has an id no epic has.
Create(t) ==
    /\ call[t].at = "asked" /\ call[t].kind = "create"
    /\ store[call[t].epic] = NoEpic
    /\ store' = [store EXCEPT ![call[t].epic] = {call[t].n}]
    /\ Acts(t, "done", Nothing)
    /\ UNCHANGED told

Change(t) ==
    /\ call[t].at = "asked" /\ call[t].kind = "change"
    /\ store[call[t].epic] # NoEpic
    /\ store' = [store EXCEPT ![call[t].epic] = @ \cup {call[t].n}]
    /\ Acts(t, "done", Nothing)
    /\ UNCHANGED told

List(t) ==
    /\ call[t].at = "asked" /\ call[t].kind = "list"
    /\ Acts(t, "done", store)
    /\ UNCHANGED <<store, told>>

\* The epic or the change itself refuses, or the database fails.
Refuse(t) ==
    /\ call[t].at = "asked"
    /\ \/ call[t].kind # "list" /\ Acts(t, "refused", Nothing)
       \/ Acts(t, "failed", Nothing)
    /\ UNCHANGED <<store, told>>

Answer(t) ==
    /\ call[t].at = "acted"
    /\ call' = [call EXCEPT ![t] = Idle]
    /\ told' = IF call[t].answer = "done" /\ call[t].kind # "list"
               THEN [told EXCEPT ![call[t].epic] = @ \cup {call[t].n}]
               ELSE told
    /\ UNCHANGED store

\* The daemon is killed: whoever asked is gone.
Crash ==
    /\ call' = [t \in Callers |-> Idle]
    /\ UNCHANGED <<store, told>>

Next ==
    \/ \E t \in Callers : Ask(t) \/ Create(t) \/ Change(t) \/ List(t) \/ Refuse(t) \/ Answer(t)
    \/ Crash

Spec == Init /\ [][Next]_aggVars
-----------------------------------------------------------------------------
\* What a caller was told is done is in the epic, whatever other callers, failing
\* statements and crashes came after it (Repository.UpdateEpic, Store.WriteEpic).
ToldIsKept == \A e \in Epics : told[e] # {} => store[e] # NoEpic /\ told[e] \subseteq store[e]

\* A list has in it all that anybody had been told when it was asked for: the
\* loop that lists after a round was saved sees that round (Repository.ListEpics).
ListIsFresh ==
    \A t \in Callers : call[t].at = "acted" /\ call[t].kind = "list" /\ call[t].answer = "done" =>
        \A e \in Epics : call[t].since[e] # {} =>
            call[t].seen[e] # NoEpic /\ call[t].since[e] \subseteq call[t].seen[e]
=============================================================================
