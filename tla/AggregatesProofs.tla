--------------------------- MODULE AggregatesProofs ---------------------------
(***************************************************************************)
(* What a store that Aggregates describes is good for, proved for any       *)
(* number of epics and callers.  StoreProofs proves Store to be such a one. *)
(***************************************************************************)
EXTENDS Aggregates, TLAPS

\* What has been asked, and what has been done, is of its kind.
Shaped ==
    \A t \in Callers :
        \/ call[t] = Idle
        \/ /\ call[t] \in Asked
           /\ call[t].kind = "list" => call[t].since \in [Epics -> SUBSET Calls]
           /\ call[t].kind # "list" => call[t].since = Nothing
        \/ call[t] \in Acted
        \/ call[t] \in Listed

\* A change that is done is in its epic before its caller is told.
Done ==
    \A t \in Callers : call[t].at = "acted" /\ call[t].kind # "list" /\ call[t].answer = "done" =>
        store[call[t].epic] # NoEpic /\ call[t].n \in store[call[t].epic]

\* What a list has to have in it has been told by now.
Since ==
    \A t \in Callers : call[t].at = "asked" /\ call[t].kind = "list" =>
        \A e \in Epics : call[t].since[e] \subseteq told[e]

IInv == TypeOK /\ Shaped /\ ToldIsKept /\ Done /\ Since /\ ListIsFresh

\* Nothing is asked or told to begin with, and the epics there are stay.
LEMMA Initially == Init => IInv
<1> SUFFICES ASSUME Init PROVE IInv
  OBVIOUS
<1>1. TypeOK /\ Shaped
  <2>1. store \in Listing
    BY DEF Init, Listing
  <2>2. QED
    BY <2>1 DEF Init, TypeOK, Shaped
<1>2. \A t \in Callers : call[t].at = "idle"
  BY DEF Init, Idle
<1>3. ToldIsKept /\ Done /\ Since /\ ListIsFresh
  BY <1>2 DEF Init, ToldIsKept, Done, Since, ListIsFresh
<1>4. QED
  BY <1>1, <1>3 DEF IInv

\* Every step of a caller, and the death of all, keeps the invariant.
LEMMA Inductive ==
    ASSUME NoEpic \notin SUBSET Calls, IInv, [Next]_aggVars
    PROVE  IInv'
<1>0. /\ store \in Listing /\ told \in [Epics -> SUBSET Calls] /\ Shaped
      /\ call \in [Callers -> {Idle} \cup Asked \cup Acted \cup Listed]
  BY DEF IInv, TypeOK
<1>1. CASE UNCHANGED aggVars
  BY <1>1 DEF aggVars, IInv, TypeOK, Shaped, ToldIsKept, Done, Since, ListIsFresh
<1>2. CASE Crash
  <2>1. TypeOK' /\ Shaped'
    BY <1>0, <1>2 DEF Crash, TypeOK, Shaped
  <2>2. \A t \in Callers : call'[t].at = "idle"
    BY <1>2 DEF Crash, Idle
  <2>3. ToldIsKept' /\ Done' /\ Since' /\ ListIsFresh'
    BY <1>2, <2>2 DEF Crash, IInv, ToldIsKept, Done, Since, ListIsFresh
  <2>4. QED
    BY <2>1, <2>3 DEF IInv
<1>3. ASSUME NEW t \in Callers, Ask(t)
      PROVE  IInv'
  <2>1. PICK kind \in {"create", "change", "list"}, e \in Epics, n \in Calls :
           call' = [call EXCEPT ![t] = [at |-> "asked", kind |-> kind, epic |-> e, n |-> n,
                                        answer |-> "none", seen |-> Nothing,
                                        since |-> IF kind = "list" THEN told ELSE Nothing]]
    BY <1>3 DEF Ask
  <2> DEFINE c == [at |-> "asked", kind |-> kind, epic |-> e, n |-> n, answer |-> "none",
                   seen |-> Nothing, since |-> IF kind = "list" THEN told ELSE Nothing]
  <2>2. c \in Asked
    BY <1>0 DEF Asked
  <2>3. /\ c.at = "asked" /\ c.kind = kind
        /\ kind = "list" => c.since = told
        /\ kind # "list" => c.since = Nothing
    OBVIOUS
  <2> HIDE DEF c
  <2>4. /\ call' = [call EXCEPT ![t] = c]
        /\ UNCHANGED <<store, told>>
    BY <1>3, <2>1 DEF Ask, c
  <2>5. \A u \in Callers : call'[u] = IF u = t THEN c ELSE call[u]
    BY <1>0, <2>4
  <2>6. TypeOK'
    BY <1>0, <2>2, <2>4 DEF TypeOK
  <2>7. Shaped'
    BY <1>0, <2>2, <2>3, <2>5 DEF Shaped
  <2>8. ToldIsKept' /\ Done' /\ ListIsFresh'
    BY <2>3, <2>4, <2>5 DEF IInv, ToldIsKept, Done, ListIsFresh
  <2>9. Since'
    BY <2>3, <2>4, <2>5 DEF IInv, Since
  <2>10. QED
    BY <2>6, <2>7, <2>8, <2>9 DEF IInv
<1>4. ASSUME NEW t \in Callers, Answer(t)
      PROVE  IInv'
  <2>1. /\ call[t].at = "acted"
        /\ call' = [call EXCEPT ![t] = Idle]
        /\ UNCHANGED store
        /\ told' = IF call[t].answer = "done" /\ call[t].kind # "list"
                   THEN [told EXCEPT ![call[t].epic] = @ \cup {call[t].n}] ELSE told
    BY <1>4 DEF Answer
  <2>2. call[t].epic \in Epics /\ call[t].n \in Calls
    BY <1>0, <2>1 DEF Shaped, Idle, Asked, Acted, Listed
  <2>3. Idle.at = "idle" /\ \A u \in Callers : call'[u] = IF u = t THEN Idle ELSE call[u]
    BY <1>0, <2>1 DEF Idle
  <2>4. told' \in [Epics -> SUBSET Calls] /\ \A e \in Epics : told[e] \subseteq told'[e]
    BY <1>0, <2>1, <2>2
  <2>5. TypeOK' /\ Shaped'
    BY <1>0, <2>1, <2>3, <2>4 DEF TypeOK, Shaped
  <2>6. ToldIsKept'
    BY <1>0, <2>1, <2>2 DEF IInv, ToldIsKept, Done
  <2>7. Done' /\ ListIsFresh'
    BY <2>1, <2>3 DEF IInv, Done, ListIsFresh
  <2>8. Since'
    <3>1. ASSUME NEW u \in Callers, call'[u].at = "asked", call'[u].kind = "list", NEW e \in Epics
          PROVE  call'[u].since[e] \subseteq told'[e]
      <4>1. call'[u] = call[u] /\ call[u].since[e] \subseteq told[e]
        BY <2>3, <3>1 DEF IInv, Since
      <4>2. QED
        BY <2>4, <4>1
    <3>2. QED
      BY <3>1 DEF Since
  <2>9. QED
    BY <2>5, <2>6, <2>7, <2>8 DEF IInv
<1>5. ASSUME NEW t \in Callers, Create(t) \/ Change(t) \/ List(t) \/ Refuse(t)
      PROVE  IInv'
  <2>1. PICK answer \in {"done", "refused", "failed"}, seen \in Listing \cup {Nothing} :
           /\ Acts(t, answer, seen)
           /\ call[t].kind = "list" => UNCHANGED store /\ answer # "refused"
           /\ call[t].kind = "list" /\ answer = "done" => seen = store
           /\ call[t].kind # "list" => seen = Nothing
           /\ call[t].kind # "list" /\ answer = "done" =>
                store' = [store EXCEPT ![call[t].epic] =
                            IF call[t].kind = "create" THEN {call[t].n} ELSE @ \cup {call[t].n}]
           /\ call[t].kind = "change" /\ answer = "done" => store[call[t].epic] # NoEpic
           /\ call[t].kind = "create" /\ answer = "done" => store[call[t].epic] = NoEpic
           /\ answer # "done" => UNCHANGED store
    <3>1. CASE Create(t)
      BY <3>1 DEF Create
    <3>2. CASE Change(t)
      BY <3>2 DEF Change
    <3>3. CASE List(t)
      BY <1>0, <3>3 DEF List
    <3>4. CASE Refuse(t)
      BY <3>4 DEF Refuse
    <3>5. QED
      BY <1>5, <3>1, <3>2, <3>3, <3>4
  <2>2. /\ call[t].at = "asked" /\ UNCHANGED told
        /\ call[t] \in Asked /\ call[t].kind = "list" => call[t].since \in [Epics -> SUBSET Calls]
        /\ call[t].kind # "list" => call[t].since = Nothing
    BY <1>0, <1>5 DEF Create, Change, List, Refuse, Shaped, Idle, Acted, Listed
  <2>3. call[t] \in Asked
    BY <1>0, <2>2 DEF Shaped, Idle, Acted, Listed
  <2> DEFINE c == [call[t] EXCEPT !.at = "acted", !.answer = answer, !.seen = seen]
             e == call[t].epic
             n == call[t].n
  <2>4. /\ e \in Epics /\ n \in Calls
        /\ c.at = "acted" /\ c.kind = call[t].kind /\ c.epic = e /\ c.n = n
        /\ c.answer = answer /\ c.seen = seen /\ c.since = call[t].since
        /\ c \in Acted \cup Listed
    BY <2>1, <2>2, <2>3 DEF Asked, Acted, Listed
  <2>5. call' = [call EXCEPT ![t] = c]
    BY <1>0, <2>1 DEF Acts
  <2> HIDE DEF c, e, n
  <2>6. \A u \in Callers : call'[u] = IF u = t THEN c ELSE call[u]
    BY <1>0, <2>5
  <2>7. call[t].kind \in {"create", "change", "list"}
    BY <2>3 DEF Asked
  <2>8. /\ store' \in Listing
        /\ \A f \in Epics : store[f] # NoEpic => store'[f] # NoEpic /\ store[f] \subseteq store'[f]
        /\ call[t].kind # "list" /\ answer = "done" => store'[e] # NoEpic /\ n \in store'[e]
    <3>1. CASE ~(call[t].kind # "list" /\ answer = "done")
      BY <1>0, <2>1, <3>1
    <3>2. CASE call[t].kind = "create" /\ answer = "done"
      <4>1. store[e] = NoEpic /\ store' = [store EXCEPT ![e] = {n}]
        BY <2>1, <3>2 DEF e, n
      <4>2. {n} \in SUBSET Calls /\ {n} # NoEpic
        BY <2>4
      <4>3. store' \in Listing
        BY <1>0, <2>4, <4>1, <4>2 DEF Listing
      <4>4. store'[e] = {n} /\ \A f \in Epics : f # e => store'[f] = store[f]
        BY <1>0, <2>4, <4>1 DEF Listing
      <4>5. QED
        BY <4>1, <4>2, <4>3, <4>4
    <3>3. CASE call[t].kind = "change" /\ answer = "done"
      <4>1. store[e] # NoEpic /\ store' = [store EXCEPT ![e] = store[e] \cup {n}]
        BY <2>1, <3>3 DEF e, n
      <4>2. store[e] \cup {n} \in SUBSET Calls /\ store[e] \cup {n} # NoEpic
        BY <1>0, <2>4, <4>1 DEF Listing
      <4>3. store' \in Listing
        BY <1>0, <2>4, <4>1, <4>2 DEF Listing
      <4>4. store'[e] = store[e] \cup {n} /\ \A f \in Epics : f # e => store'[f] = store[f]
        BY <1>0, <2>4, <4>1 DEF Listing
      <4>5. QED
        BY <4>1, <4>2, <4>3, <4>4
    <3>4. QED
      BY <2>7, <3>1, <3>2, <3>3
  <2>9. TypeOK' /\ Shaped'
    BY <1>0, <2>2, <2>4, <2>5, <2>6, <2>8 DEF TypeOK, Shaped
  <2>10. ToldIsKept'
    BY <2>2, <2>8 DEF IInv, ToldIsKept
  <2>11. Done'
    <3>1. ASSUME NEW u \in Callers, u # t, call[u].at = "acted", call[u].kind # "list",
                 call[u].answer = "done"
          PROVE  store'[call[u].epic] # NoEpic /\ call[u].n \in store'[call[u].epic]
      <4>1. call[u].epic \in Epics
        BY <1>0, <3>1 DEF Shaped, Idle, Asked, Acted, Listed
      <4>2. QED
        BY <2>8, <3>1, <4>1 DEF IInv, Done
    <3>2. QED
      BY <2>4, <2>6, <2>8, <3>1 DEF Done
  <2>12. Since'
    BY <2>2, <2>4, <2>6 DEF IInv, Since
  <2>13. ListIsFresh'
    <3>1. call[t].kind = "list" /\ answer = "done" =>
             \A f \in Epics : call[t].since[f] # {} =>
                seen[f] # NoEpic /\ call[t].since[f] \subseteq seen[f]
      BY <2>1, <2>2 DEF IInv, Since, ToldIsKept
    <3>2. QED
      BY <2>4, <2>6, <3>1 DEF IInv, ListIsFresh
  <2>14. QED
    BY <2>9, <2>10, <2>11, <2>12, <2>13 DEF IInv
<1>6. QED
  BY <1>1, <1>2, <1>3, <1>4, <1>5 DEF Next

\* The invariant the theorems below rest on: a change is in its epic before its
\* caller hears of it, and a list is asked to have no more than has been told.
THEOREM Invariant ==
    ASSUME NoEpic \notin SUBSET Calls
    PROVE  Spec => []IInv
<1>1. Init => IInv
  BY Initially
<1>2. IInv /\ [Next]_aggVars => IInv'
  BY Inductive
<1>3. QED
  BY <1>1, <1>2, PTL DEF Spec

\* What a caller was told is done is in the epic for good, whatever other callers
\* do and however often the daemon dies (Repository.UpdateEpic).
THEOREM WhatIsToldIsKept ==
    ASSUME NoEpic \notin SUBSET Calls
    PROVE  Spec => []ToldIsKept
<1>1. IInv => ToldIsKept
  BY DEF IInv
<1>2. Spec => []IInv
  BY Invariant
<1>3. QED
  BY <1>1, <1>2, PTL

\* A list has in it all that anybody was told before it was asked for
\* (Repository.ListEpics).
THEOREM ListsAreFresh ==
    ASSUME NoEpic \notin SUBSET Calls
    PROVE  Spec => []ListIsFresh
<1>1. IInv => ListIsFresh
  BY DEF IInv
<1>2. Spec => []IInv
  BY Invariant
<1>3. QED
  BY <1>1, <1>2, PTL
=============================================================================
