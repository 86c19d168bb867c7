---------------------------- MODULE DraftingProofs ----------------------------
(***************************************************************************)
(* Proofs about Drafting, for every set of issues, limit and bound: the    *)
(* types, that the runs of an epic agree with its rounds, and that an epic *)
(* is given up on only when its attempts are spent, and not by the host.   *)
(***************************************************************************)
EXTENDS Drafting, TLAPS, NaturalsInduction, WellFoundedInduction

-----------------------------------------------------------------------------
(* The number of the next round.                                            *)

\* A bounded, non-empty set of numbers has a greatest one (nextRound's loop).
LEMMA BoundedHasMaximum ==
    ASSUME NEW S \in SUBSET Nat, NEW b \in Nat, S # {}, \A n \in S : n <= b
    PROVE  \E n \in S : \A m \in S : m <= n
  <1> DEFINE U == {k \in Nat : \A n \in S : n <= k}
  <1>1. PICK k \in U : \A j \in U : ~ (<<j, k>> \in OpToRel(<, Nat))
    <2>1. b \in U /\ U \subseteq Nat
      OBVIOUS
    <2> HIDE DEF U
    <2> QED  BY <2>1, NatLessThanWellFounded, WFMin
  <1>2. \A j \in U : ~ (j < k)
    BY <1>1 DEF OpToRel
  <1>3. k \in S
    <2> SUFFICES ASSUME k \notin S PROVE FALSE
      OBVIOUS
    <2>1. k \in Nat /\ \A n \in S : n <= k /\ n # k
      BY <1>1
    <2>2. PICK n \in S : TRUE
      OBVIOUS
    <2>3. k - 1 \in Nat
      BY <2>1, <2>2
    <2>4. \A m \in S : m <= k - 1
      BY <2>1
    <2>5. k - 1 \in U
      BY <2>3, <2>4
    <2> QED  BY <1>2, <2>1, <2>5
  <1> QED  BY <1>1, <1>3

\* No attempt gets a number that a counted run has, or a smaller one.
LEMMA NextRoundIsAhead ==
    ASSUME NEW runs \in [Runs -> Run], \A r \in Runs : runs[r].number <= MaxRounds
    PROVE  /\ NextRound(runs) \in Nat
           /\ \A r \in Runs : CountsTowardRoundLimit(runs[r]) => runs[r].number < NextRound(runs)
  <1> DEFINE counted == {runs[r].number : r \in {s \in DOMAIN runs : CountsTowardRoundLimit(runs[s])}}
  <1>1. counted \in SUBSET Nat /\ \A n \in counted : n <= MaxRounds
    BY DEF Run
  <1>2. \A r \in Runs : CountsTowardRoundLimit(runs[r]) => runs[r].number \in counted
    OBVIOUS
  <1>3. NextRound(runs) = IF counted = {} THEN 1
                          ELSE 1 + CHOOSE n \in counted : \A m \in counted : m <= n
    BY DEF NextRound
  <1> HIDE DEF counted
  <1>4. CASE counted = {}
    BY <1>2, <1>3, <1>4
  <1>5. CASE counted # {}
    <2> DEFINE top == CHOOSE n \in counted : \A m \in counted : m <= n
    <2>1. \E n \in counted : \A m \in counted : m <= n
      BY <1>1, <1>5, BoundedHasMaximum, DraftingLimits
    <2>2. top \in counted /\ \A m \in counted : m <= top
      BY <2>1
    <2>3. NextRound(runs) = 1 + top
      BY <1>3, <1>5
    <2>4. \A r \in Runs : runs[r].number \in Nat
      BY DEF Run
    <2> HIDE DEF top
    <2> QED  BY <1>1, <1>2, <2>2, <2>3, <2>4
  <1> QED  BY <1>4, <1>5

-----------------------------------------------------------------------------
(* Types.                                                                   *)

NumbersBounded == \A r \in Runs : run[r].number <= MaxRounds

\* A save of a run's status, and the end of the round's own run.
LEMMA SavesAreTyped ==
    ASSUME TypeOK, NumbersBounded, NEW r \in Runs, NEW s \in RunStatuses, SaveRun(r, s)
    PROVE  run' \in [Runs -> Run] /\ NumbersBounded'
  BY DEF TypeOK, NumbersBounded, SaveRun, Run

LEMMA EndsAreTyped ==
    ASSUME TypeOK, NumbersBounded, NEW s \in RunStatuses, EndRun(s), round.run # 0
    PROVE  run' \in [Runs -> Run] /\ NumbersBounded'
  <1>1. round.run \in Runs
    BY DEF TypeOK, Round
  <1>2. PICK t \in RunStatuses : SaveRun(round.run, t)
    BY DEF EndRun, RunStatuses
  <1> QED  BY <1>1, <1>2, SavesAreTyped

\* Stalling any set of runs.
LEMMA StallsAreTyped ==
    ASSUME TypeOK, NumbersBounded, NEW S,
           run' = [r \in Runs |-> IF r \in S THEN [run[r] EXCEPT !.status = "Stalled"] ELSE run[r]]
    PROVE  run' \in [Runs -> Run] /\ NumbersBounded'
  BY DEF TypeOK, NumbersBounded, Run, RunStatuses

LEMMA IdleRoundIsTyped ==
    /\ IdleRound \in Round
    /\ IdleRound.at = "idle" /\ IdleRound.role = "none" /\ IdleRound.run = 0
  BY DEF IdleRound, Round, RoundSteps, EpicStates

LEMMA TypesStep ==
    ASSUME TypeOK, NumbersBounded, [Next]_vars
    PROVE  TypeOK' /\ NumbersBounded'
  <1> USE IdleRoundIsTyped
  <1> DEFINE RunTyped == run' \in [Runs -> Run] /\ NumbersBounded'
             RoundTyped == /\ round' \in Round
                           /\ round'.at = "idle" <=> round'.role = "none"
                           /\ round'.at \in {"booting", "working", "completed"} <=> round'.run # 0
             TreeTyped == /\ epic' \in EpicStates
                          /\ passes' \in Nat
                          /\ issue' \in [Issues -> {"Absent", "Open", "Closed"}]
             RestTyped == /\ cancel' \in {0} \cup Runs
                          /\ recovered' \in BOOLEAN
                          /\ events' \in 0..MaxEvents
                          /\ landed' \in [Runs -> EpicStates \cup {"none"}]
             Goal == RunTyped /\ RoundTyped /\ TreeTyped /\ RestTyped
  <1> SUFFICES Goal
    BY DEF TypeOK
  <1>0. /\ UNCHANGED run => RunTyped
        /\ UNCHANGED round => RoundTyped
        /\ UNCHANGED tree => TreeTyped
        /\ UNCHANGED <<cancel, recovered, events, landed>> => RestTyped
        /\ round' = IdleRound => RoundTyped
    BY DEF TypeOK, NumbersBounded, tree
  <1>1. CASE UNCHANGED vars
    BY <1>0, <1>1 DEF vars, tree
  <1>2. CASE Recover
    <2>1. RunTyped
      BY <1>0, <1>2, StallsAreTyped DEF Recover
    <2> QED  BY <1>0, <1>2, <2>1 DEF Recover, TypeOK
  <1>3. CASE Dispatch
    <2>1. RoundTyped
      BY <1>3 DEF Dispatch, EpicRole, Round, RoundSteps, DraftingRoles, IdleRound
    <2> QED  BY <1>0, <1>3, <2>1 DEF Dispatch
  <1>4. CASE RoundRead
    <2>1. RoundTyped
      BY <1>4 DEF RoundRead, TypeOK, Round, RoundSteps, Planned
    <2> QED  BY <1>0, <1>4, <2>1 DEF RoundRead
  <1>5. CASE RoundList
    <2>1. NextRound(run) \in Nat
      BY NextRoundIsAhead DEF TypeOK, NumbersBounded
    <2>2. RoundTyped
      BY <1>5, <2>1 DEF RoundList, TypeOK, Round, RoundSteps, LiveRuns
    <2> QED  BY <1>0, <1>5, <2>2 DEF RoundList
  <1>6. CASE RoundReap
    <2>1. RunTyped
      BY <1>6, StallsAreTyped DEF RoundReap
    <2>2. RoundTyped
      BY <1>6 DEF RoundReap, TypeOK, Round, RoundSteps
    <2> QED  BY <1>0, <1>6, <2>1, <2>2 DEF RoundReap
  <1>7. CASE RoundRefine
    <2>1. RoundTyped
      BY <1>7 DEF RoundRefine, TypeOK, Round, EpicStates
    <2>2. TreeTyped
      BY <1>7 DEF RoundRefine, ApplyEpic, EpicTarget, EpicStates, TypeOK
    <2> QED  BY <1>0, <1>7, <2>1, <2>2 DEF RoundRefine
  <1>8. CASE RoundGiveUp
    <2>1. TreeTyped
      BY <1>8 DEF RoundGiveUp, ApplyEpic, EpicTarget, EpicStates, TypeOK
    <2> QED  BY <1>0, <1>8, <2>1 DEF RoundGiveUp
  <1>9. CASE RoundRefused \/ RoundTurnedAway
    BY <1>0, <1>9 DEF RoundRefused, RoundTurnedAway
  <1>10. CASE RoundBegin
    <2>1. PICK r \in Runs :
             /\ run' = [run EXCEPT ![r] = [role |-> round.role, status |-> "Admitted",
                                           number |-> round.next]]
             /\ round' = [round EXCEPT !.at = "booting", !.run = r]
      BY <1>10 DEF RoundBegin
    <2>2. round.next \in Nat /\ round.next <= MaxRounds
      BY <1>10, DraftingLimits DEF RoundBegin, OutOfRounds, TypeOK, Round
    <2>3. [role |-> round.role, status |-> "Admitted", number |-> round.next] \in Run
      BY <2>2 DEF TypeOK, Round, Run, RunStatuses
    <2>4. RunTyped
      BY <2>1, <2>2, <2>3 DEF TypeOK, NumbersBounded
    <2>5. r # 0
      BY DEF Runs
    <2>6. round' \in Round
      BY <2>1 DEF TypeOK, Round, RoundSteps
    <2>7. round'.at = "booting" /\ round'.run = r /\ round'.role = round.role
      BY <2>1 DEF TypeOK, Round
    <2>8. round.at = "reaped"
      BY <1>10 DEF RoundBegin
    <2>9. RoundTyped
      BY <2>5, <2>6, <2>7, <2>8 DEF TypeOK
    <2> QED  BY <1>0, <1>10, <2>4, <2>9 DEF RoundBegin
  <1>11. CASE RoundStart
    <2>1. RunTyped
      BY <1>11, SavesAreTyped DEF RoundStart, TypeOK, Round, RunStatuses
    <2>2. RoundTyped
      BY <1>11 DEF RoundStart, TypeOK, Round, RoundSteps
    <2> QED  BY <1>0, <1>11, <2>1, <2>2 DEF RoundStart
  <1>12. CASE RoundHostFail
    <2>1. RunTyped
      BY <1>12, EndsAreTyped DEF RoundHostFail, TypeOK, RunStatuses
    <2>2. events' \in 0..MaxEvents
      BY <1>12, DraftingLimits DEF RoundHostFail, Spend, TypeOK
    <2> QED  BY <1>0, <1>12, <2>1, <2>2 DEF RoundHostFail, EndRun, TypeOK
  <1>13. CASE RoundFail
    <2>1. RunTyped
      BY <1>13, EndsAreTyped DEF RoundFail, TypeOK, RunStatuses
    <2> QED  BY <1>0, <1>13, <2>1 DEF RoundFail, EndRun
  <1>14. CASE RoundRefined
    <2>1. TreeTyped
      BY <1>14 DEF RoundRefined, Import, ApplyEpic, EpicTarget, EpicStates, TypeOK
    <2>2. RoundTyped
      BY <1>14 DEF RoundRefined, TypeOK, Round, RoundSteps
    <2> QED  BY <1>0, <1>14, <2>1, <2>2 DEF RoundRefined, TypeOK
  <1>15. CASE RoundReviewed
    <2>1. TreeTyped
      BY <1>15 DEF RoundReviewed, RecordDraftingPass, ApplyEpic, EpicTarget, EpicStates, TypeOK
    <2>2. RoundTyped
      BY <1>15 DEF RoundReviewed, TypeOK, Round, RoundSteps
    <2> QED  BY <1>0, <1>15, <2>1, <2>2 DEF RoundReviewed, TypeOK
  <1>16. CASE RoundSucceed
    <2>1. RunTyped
      BY <1>16, SavesAreTyped DEF RoundSucceed, TypeOK, Round, RunStatuses
    <2> QED  BY <1>0, <1>16, <2>1 DEF RoundSucceed
  <1>17. CASE \E r \in Runs : CancelRead(r)
    <2>1. events' \in 0..MaxEvents
      BY <1>17, DraftingLimits DEF CancelRead, Spend, TypeOK
    <2> QED  BY <1>0, <1>17, <2>1 DEF CancelRead, TypeOK
  <1>18. CASE CancelAct
    <2>1. RunTyped
      BY <1>0, <1>18, SavesAreTyped DEF CancelAct, TypeOK, RunStatuses
    <2>2. RoundTyped
      <3>1. CASE UNCHANGED round
        BY <1>0, <3>1
      <3>2. CASE round' = [round EXCEPT !.cancelled = TRUE]
        BY <3>2 DEF TypeOK, Round
      <3> QED  BY <1>18, <3>1, <3>2 DEF CancelAct
    <2> QED  BY <1>0, <1>18, <2>1, <2>2 DEF CancelAct, TypeOK
  <1>19. CASE \E next \in EpicStates : TransitionEpicState(next)
    <2>1. events' \in 0..MaxEvents
      BY <1>19, DraftingLimits DEF TransitionEpicState, Spend, TypeOK
    <2> QED  BY <1>0, <1>19, <2>1 DEF TransitionEpicState, TypeOK
  <1>20. CASE \E i \in Issues : CreateIssue(i) \/ CloseIssue(i)
    <2>1. events' \in 0..MaxEvents
      BY <1>20, DraftingLimits DEF CreateIssue, CloseIssue, Spend, TypeOK
    <2>2. TreeTyped
      BY <1>20 DEF CreateIssue, CloseIssue, TypeOK
    <2> QED  BY <1>0, <1>20, <2>1, <2>2 DEF CreateIssue, CloseIssue, TypeOK
  <1>21. CASE Crash
    <2>1. events' \in 0..MaxEvents
      BY <1>21, DraftingLimits DEF Crash, Spend, TypeOK
    <2> QED  BY <1>0, <1>21, <2>1 DEF Crash, TypeOK
  <1> HIDE DEF Goal
  <1> QED
    BY <1>1, <1>2, <1>3, <1>4, <1>5, <1>6, <1>7, <1>8, <1>9, <1>10, <1>11, <1>12,
       <1>13, <1>14, <1>15, <1>16, <1>17, <1>18, <1>19, <1>20, <1>21
       DEF Next, Worker, RoundStep, Person

-----------------------------------------------------------------------------
(* The inductive invariant.                                                 *)

\* What a round has listed is all that can be live until it begins its own run,
\* and no round is in flight before the first tick of a process.
LeftoversListed ==
    /\ ~recovered => round.at = "idle"
    /\ round.at = "listed" => LiveRuns \subseteq round.orphans
    /\ round.at # "listed" => round.orphans = {}
    /\ round.at = "reaped" => LiveRuns = {}

\* The number a round holds is ahead of every attempt that was made, those it is
\* about to stall included: one of them may have been cancelled meanwhile.
NumbersAhead ==
    LET made == Spent \cup round.orphans
    IN  /\ \A p, q \in made : run[p].number = run[q].number => p = q
        /\ round.at \in {"listed", "reaped"} => \A r \in made : run[r].number < round.next

\* The run in flight has landed exactly when its round says so.
OutcomeInFlight ==
    /\ round.at \in {"booting", "working"} => landed[round.run] = "none"
    /\ round.at = "completed" => landed[round.run] # "none"

IInv == /\ TypeOK
        /\ NumbersBounded
        /\ OneLiveRun
        /\ LeftoversListed
        /\ NumbersAhead
        /\ OutcomeMatchesWork
        /\ OutcomeInFlight

-----------------------------------------------------------------------------
(* How a step changes the runs.                                             *)

\* A save moves the status of one run and nothing else.
LEMMA SavesChangeOneRun ==
    ASSUME TypeOK, NEW r \in Runs, NEW s, SaveRun(r, s)
    PROVE  /\ run'[r].status = s /\ run'[r].number = run[r].number
           /\ \A q \in Runs \ {r} : run'[q] = run[q]
  BY DEF TypeOK, SaveRun, Run

\* The end of a round saves an outcome of its own run, and the round is over.
LEMMA EndsChangeOneRun ==
    ASSUME TypeOK, NEW s \in Outcomes, EndRun(s), round.run # 0
    PROVE  /\ round.run \in Runs
           /\ round' = IdleRound
           /\ run'[round.run].status \in {s, "Cancelled"}
           /\ run'[round.run].number = run[round.run].number
           /\ \A q \in Runs \ {round.run} : run'[q] = run[q]
  <1>1. round.run \in Runs
    BY DEF TypeOK, Round
  <1>2. PICK t \in {s, "Cancelled"} : SaveRun(round.run, t)
    BY DEF EndRun
  <1> QED  BY <1>1, <1>2, SavesChangeOneRun DEF EndRun

\* Stalling a set of runs keeps every number.
LEMMA StallsChangeStatus ==
    ASSUME TypeOK, NEW S,
           run' = [r \in Runs |-> IF r \in S THEN [run[r] EXCEPT !.status = "Stalled"] ELSE run[r]]
    PROVE  /\ \A r \in Runs : run'[r].number = run[r].number
           /\ \A r \in Runs \cap S : run'[r].status = "Stalled"
           /\ \A r \in Runs \ S : run'[r] = run[r]
  BY DEF TypeOK, Run

-----------------------------------------------------------------------------
(* One live run.                                                            *)

\* The run of the round in flight is the only live one.
LEMMA RunInFlightIsLive ==
    ASSUME TypeOK, OneLiveRun, round.run # 0
    PROVE  round.run \in Runs /\ LiveRuns = {round.run}
  <1>1. round.run \in Runs
    BY DEF TypeOK, Round
  <1>2. round.at \in {"booting", "working", "completed"}
    BY DEF TypeOK
  <1>3. round.run \in LiveRuns
    BY <1>1, <1>2 DEF OneLiveRun, LiveRuns, LiveStatuses
  <1> QED  BY <1>1, <1>3 DEF OneLiveRun

LEMMA LiveStep ==
    ASSUME TypeOK, OneLiveRun, LeftoversListed, [Next]_vars
    PROVE  OneLiveRun' /\ LeftoversListed'
  <1> DEFINE Goal == OneLiveRun' /\ LeftoversListed'
  <1> SUFFICES Goal
    OBVIOUS
  <1>a. IdleRound.at = "idle" /\ IdleRound.orphans = {} /\ IdleRound.run = 0
    BY DEF IdleRound
  <1>b. ASSUME LiveRuns' \subseteq LiveRuns, round' = IdleRound
        PROVE  Goal
    BY <1>a, <1>b DEF OneLiveRun, LeftoversListed
  <1>c. UNCHANGED run => LiveRuns' = LiveRuns
    BY DEF LiveRuns
  <1>d. ASSUME NEW s \in Outcomes, EndRun(s), round.run # 0
        PROVE  Goal
    <2>1. LiveRuns' \subseteq LiveRuns
      BY <1>d, EndsChangeOneRun DEF LiveRuns, Outcomes, RunStatuses, LiveStatuses
    <2> QED  BY <1>b, <1>d, <2>1 DEF EndRun
  <1>e. ASSUME UNCHANGED <<run, round, recovered>>
        PROVE  Goal
    BY <1>c, <1>e DEF OneLiveRun, LeftoversListed
  <1>1. CASE UNCHANGED vars
    BY <1>e, <1>1 DEF vars
  <1>2. CASE Recover
    <2>1. round.at = "idle" /\ UNCHANGED round
      BY <1>2 DEF Recover, LeftoversListed
    <2>2. CASE UNCHANGED run
      BY <1>2, <2>1, <2>2, <1>c DEF Recover, OneLiveRun, LeftoversListed
    <2>3. CASE ~ UNCHANGED run
      <3>1. LiveRuns' = {}
        BY <1>2, <2>3, StallsChangeStatus DEF Recover, LiveRuns, LiveStatuses
      <3> QED  BY <1>2, <2>1, <3>1 DEF OneLiveRun, LeftoversListed
    <2> QED  BY <2>2, <2>3
  <1>3. CASE Dispatch
    <2>1. round'.at = "dispatched" /\ round'.orphans = {} /\ recovered'
      BY <1>3 DEF Dispatch, IdleRound
    <2> QED  BY <1>3, <1>c, <2>1 DEF Dispatch, OneLiveRun, LeftoversListed
  <1>4. CASE RoundRead
    <2>1. round'.at = "read" /\ round'.orphans = round.orphans /\ round.at = "dispatched"
      BY <1>4 DEF RoundRead, TypeOK, Round
    <2> QED  BY <1>4, <1>c, <2>1 DEF RoundRead, OneLiveRun, LeftoversListed
  <1>5. CASE RoundList
    <2>1. round'.at = "listed" /\ round'.orphans = LiveRuns /\ round.at = "read"
      BY <1>5 DEF RoundList, TypeOK, Round
    <2> QED  BY <1>5, <1>c, <2>1 DEF RoundList, OneLiveRun, LeftoversListed
  <1>6. CASE RoundReap
    <2>1. round'.at = "reaped" /\ round'.orphans = {} /\ round.at = "listed"
      BY <1>6 DEF RoundReap, TypeOK, Round
    <2>2. LiveRuns' = {}
      <3>1. /\ \A r \in Runs \cap round.orphans : run'[r].status = "Stalled"
            /\ \A r \in Runs \ round.orphans : run'[r] = run[r]
        BY <1>6, StallsChangeStatus DEF RoundReap
      <3>2. LiveRuns \subseteq round.orphans
        BY <2>1 DEF LeftoversListed
      <3> QED  BY <3>1, <3>2 DEF LiveRuns, LiveStatuses
    <2> QED  BY <1>6, <2>1, <2>2 DEF RoundReap, OneLiveRun, LeftoversListed
  <1>7. CASE RoundRefine
    <2>1. round'.at = "reaped" /\ round'.orphans = round.orphans /\ round.at = "reaped"
      BY <1>7 DEF RoundRefine, TypeOK, Round
    <2> QED  BY <1>7, <1>c, <2>1 DEF RoundRefine, OneLiveRun, LeftoversListed
  <1>8. CASE RoundGiveUp \/ RoundRefused \/ RoundTurnedAway
    BY <1>8, <1>b, <1>c DEF RoundGiveUp, RoundRefused, RoundTurnedAway
  <1>9. CASE RoundBegin
    <2>1. PICK r \in Runs :
             /\ run' = [run EXCEPT ![r] = [role |-> round.role, status |-> "Admitted",
                                           number |-> round.next]]
             /\ round' = [round EXCEPT !.at = "booting", !.run = r]
      BY <1>9 DEF RoundBegin
    <2>2. round.at = "reaped" /\ LiveRuns = {} /\ round.orphans = {}
      BY <1>9 DEF RoundBegin, LeftoversListed
    <2>3. run'[r].status = "Admitted" /\ \A q \in Runs \ {r} : run'[q] = run[q]
      BY <2>1 DEF TypeOK
    <2>4. LiveRuns' = {r}
      BY <2>2, <2>3 DEF LiveRuns, LiveStatuses
    <2>5. round'.at = "booting" /\ round'.run = r /\ round'.orphans = round.orphans
      BY <2>1 DEF TypeOK, Round
    <2>6. recovered'
      BY <1>9, <2>2 DEF RoundBegin, LeftoversListed, TypeOK
    <2> QED  BY <2>2, <2>3, <2>4, <2>5, <2>6 DEF OneLiveRun, LeftoversListed
  <1>10. CASE RoundStart
    <2>1. round.at = "booting" /\ round.run # 0
      BY <1>10 DEF RoundStart, TypeOK
    <2>2. round.run \in Runs /\ LiveRuns = {round.run}
      BY <2>1, RunInFlightIsLive
    <2>3. run'[round.run].status = "Running" /\ \A q \in Runs \ {round.run} : run'[q] = run[q]
      BY <1>10, <2>2, SavesChangeOneRun DEF RoundStart
    <2>4. LiveRuns' = {round.run}
      BY <2>2, <2>3 DEF LiveRuns, LiveStatuses
    <2>5. round'.at = "working" /\ round'.run = round.run /\ round'.orphans = round.orphans
      BY <1>10 DEF RoundStart, TypeOK, Round
    <2> QED  BY <1>10, <2>1, <2>3, <2>4, <2>5 DEF RoundStart, OneLiveRun, LeftoversListed
  <1>11. CASE RoundHostFail
    BY <1>11, <1>d DEF RoundHostFail, TypeOK, Outcomes, RunStatuses, LiveStatuses
  <1>12. CASE RoundFail
    BY <1>12, <1>d DEF RoundFail, TypeOK, Outcomes, RunStatuses, LiveStatuses
  <1>13. CASE RoundRefined \/ RoundReviewed
    <2>1. round.at = "working" /\ UNCHANGED <<run, recovered>>
      BY <1>13 DEF RoundRefined, RoundReviewed
    <2>2. round'.at = "completed" /\ round'.run = round.run /\ round'.orphans = round.orphans
      BY <1>13 DEF RoundRefined, RoundReviewed, TypeOK, Round
    <2> QED  BY <1>c, <2>1, <2>2 DEF OneLiveRun, LeftoversListed
  <1>14. CASE RoundSucceed
    <2>1. round.run # 0
      BY <1>14 DEF RoundSucceed, TypeOK
    <2>2. round.run \in Runs
      BY <2>1 DEF TypeOK, Round
    <2>3. LiveRuns' \subseteq LiveRuns
      BY <1>14, <2>2, SavesChangeOneRun DEF RoundSucceed, LiveRuns, LiveStatuses
    <2> QED  BY <1>14, <1>b, <2>3 DEF RoundSucceed
  <1>15. CASE CancelAct
    <2>1. CASE cancel = round.run
      <3>1. round' = [round EXCEPT !.cancelled = TRUE] /\ UNCHANGED <<run, recovered>>
        BY <1>15, <2>1 DEF CancelAct
      <3>2. round'.at = round.at /\ round'.run = round.run /\ round'.orphans = round.orphans
        BY <3>1 DEF TypeOK, Round
      <3> QED  BY <1>c, <3>1, <3>2 DEF OneLiveRun, LeftoversListed
    <2>2. CASE cancel # round.run
      <3>1. SaveRun(cancel, "Cancelled") /\ UNCHANGED <<round, recovered>> /\ cancel \in Runs
        BY <1>15, <2>2 DEF CancelAct, TypeOK
      <3>2. run'[cancel].status = "Cancelled" /\ \A q \in Runs \ {cancel} : run'[q] = run[q]
        BY <3>1, SavesChangeOneRun
      <3>3. LiveRuns' \subseteq LiveRuns
        BY <3>1, <3>2 DEF LiveRuns, LiveStatuses
      <3>4. round.run # 0 => round.run \in Runs /\ run'[round.run] = run[round.run]
        BY <2>2, <3>2 DEF TypeOK, Round
      <3>5. round.at \in {"booting", "working", "completed"} => round.run # 0
        BY DEF TypeOK
      <3> QED  BY <3>1, <3>3, <3>4, <3>5 DEF OneLiveRun, LeftoversListed
    <2> QED  BY <2>1, <2>2
  <1>16. CASE \/ \E r \in Runs : CancelRead(r)
              \/ \E next \in EpicStates : TransitionEpicState(next)
              \/ \E i \in Issues : CreateIssue(i) \/ CloseIssue(i)
    BY <1>e, <1>16 DEF CancelRead, TransitionEpicState, CreateIssue, CloseIssue
  <1>17. CASE Crash
    BY <1>b, <1>c, <1>17 DEF Crash
  <1> HIDE DEF Goal
  <1> QED
    BY <1>1, <1>2, <1>3, <1>4, <1>5, <1>6, <1>7, <1>8, <1>9, <1>10, <1>11, <1>12,
       <1>13, <1>14, <1>15, <1>16, <1>17 DEF Next, Worker, RoundStep, Person

-----------------------------------------------------------------------------
(* The numbers of attempts.                                                 *)

LEMMA NumbersStep ==
    ASSUME TypeOK, NumbersBounded, OneLiveRun, LeftoversListed, NumbersAhead, [Next]_vars
    PROVE  NumbersAhead'
  <1> DEFINE Goal == NumbersAhead'
  <1> SUFFICES Goal
    OBVIOUS
  <1>a. Spent \subseteq Runs /\ round.orphans \subseteq Runs /\ LiveRuns \subseteq Spent
    BY DEF Spent, LiveRuns, LiveStatuses, TypeOK, Round
  <1>b. ASSUME Spent' \cup round'.orphans \subseteq Spent \cup round.orphans,
               \A r \in Runs : run'[r].number = run[r].number,
               \/ round'.at \notin {"listed", "reaped"}
               \/ round.at \in {"listed", "reaped"} /\ round'.next = round.next
        PROVE  Goal
    BY <1>a, <1>b DEF NumbersAhead
  <1>c. UNCHANGED run => Spent' = Spent /\ \A r \in Runs : run'[r].number = run[r].number
    BY DEF Spent
  <1>d. IdleRound.at = "idle" /\ IdleRound.orphans = {}
    BY DEF IdleRound
  <1>e. ASSUME UNCHANGED run, round' = IdleRound
        PROVE  Goal
    BY <1>b, <1>c, <1>d, <1>e
  <1>f. ASSUME UNCHANGED run, UNCHANGED round
        PROVE  Goal
    BY <1>b, <1>c, <1>f
  <1>g. ASSUME NEW r \in Spent, \A q \in Runs \ {r} : run'[q] = run[q]
        PROVE  Spent' \subseteq Spent
    BY <1>g DEF Spent
  <1>h. ASSUME NEW s \in Outcomes, EndRun(s), round.run # 0
        PROVE  Goal
    <2>1. round.run \in Spent
      BY <1>a, <1>h, RunInFlightIsLive
    <2>2. Spent' \subseteq Spent
      BY <1>g, <1>h, <2>1, EndsChangeOneRun
    <2>3. \A q \in Runs : run'[q].number = run[q].number
      BY <1>h, EndsChangeOneRun
    <2> QED  BY <1>b, <1>d, <1>h, <2>2, <2>3 DEF EndRun
  <1>1. CASE UNCHANGED vars
    BY <1>f, <1>1 DEF vars
  <1>2. CASE Recover
    <2>1. round.at = "idle" /\ UNCHANGED round
      BY <1>2 DEF Recover, LeftoversListed
    <2>2. CASE UNCHANGED run
      BY <1>f, <2>1, <2>2
    <2>3. CASE ~ UNCHANGED run
      <3>1. /\ \A r \in Runs : run'[r].number = run[r].number
            /\ \A r \in Runs \ LiveRuns : run'[r] = run[r]
        BY <1>2, <2>3, StallsChangeStatus DEF Recover
      <3>2. Spent' \subseteq Spent
        BY <1>a, <3>1 DEF Spent
      <3> QED  BY <1>b, <2>1, <3>1, <3>2
    <2> QED  BY <2>2, <2>3
  <1>3. CASE Dispatch
    <2>1. round'.at = "dispatched" /\ round'.orphans = {}
      BY <1>3 DEF Dispatch, IdleRound
    <2> QED  BY <1>b, <1>c, <1>3, <2>1 DEF Dispatch
  <1>4. CASE RoundRead
    <2>1. round'.at = "read" /\ round'.orphans = round.orphans
      BY <1>4 DEF RoundRead, TypeOK, Round
    <2> QED  BY <1>b, <1>c, <1>4, <2>1 DEF RoundRead
  <1>5. CASE RoundList
    <2>1. round'.at = "listed" /\ round'.orphans = LiveRuns /\ round'.next = NextRound(run)
      BY <1>5 DEF RoundList, TypeOK, Round
    <2>2. UNCHANGED run /\ Spent' \cup round'.orphans = Spent
      BY <1>a, <1>c, <1>5, <2>1 DEF RoundList
    <2>3. \A r \in Spent : run[r].number < NextRound(run)
      <3>1. \A r \in Runs : CountsTowardRoundLimit(run[r]) => run[r].number < NextRound(run)
        BY NextRoundIsAhead DEF TypeOK, NumbersBounded
      <3> QED  BY <3>1 DEF Spent, CountsTowardRoundLimit
    <2> QED  BY <1>a, <2>1, <2>2, <2>3 DEF NumbersAhead
  <1>6. CASE RoundReap
    <2>1. /\ round'.at = "reaped" /\ round'.orphans = {} /\ round'.next = round.next
          /\ round.at = "listed"
      BY <1>6 DEF RoundReap, TypeOK, Round
    <2>2. /\ \A r \in Runs : run'[r].number = run[r].number
          /\ \A r \in Runs \ round.orphans : run'[r] = run[r]
      BY <1>6, StallsChangeStatus DEF RoundReap
    <2>3. Spent' \subseteq Spent \cup round.orphans
      BY <2>2 DEF Spent
    <2> QED  BY <1>b, <2>1, <2>2, <2>3
  <1>7. CASE RoundRefine
    <2>1. /\ round'.at = "reaped" /\ round'.orphans = round.orphans /\ round'.next = round.next
          /\ round.at = "reaped"
      BY <1>7 DEF RoundRefine, TypeOK, Round
    <2> QED  BY <1>b, <1>c, <1>7, <2>1 DEF RoundRefine
  <1>8. CASE RoundGiveUp \/ RoundRefused \/ RoundTurnedAway
    BY <1>8, <1>e DEF RoundGiveUp, RoundRefused, RoundTurnedAway
  <1>9. CASE RoundBegin
    <2>1. PICK r \in Runs :
             /\ IsNextRun(r)
             /\ run' = [run EXCEPT ![r] = [role |-> round.role, status |-> "Admitted",
                                           number |-> round.next]]
             /\ round' = [round EXCEPT !.at = "booting", !.run = r]
      BY <1>9 DEF RoundBegin
    <2>2. round.at = "reaped" /\ round.orphans = {} /\ round.next \in Nat
      BY <1>9 DEF RoundBegin, LeftoversListed, TypeOK, Round
    <2>3. run'[r].number = round.next /\ \A q \in Runs \ {r} : run'[q] = run[q]
      BY <2>1 DEF TypeOK
    <2>4. r \notin Spent /\ Spent' \subseteq Spent \cup {r}
      BY <2>1, <2>3 DEF Spent, IsNextRun
    <2>5. round'.at = "booting" /\ round'.orphans = {}
      BY <2>1, <2>2 DEF TypeOK, Round
    <2>6. \A q \in Spent : run'[q].number < round.next
      BY <1>a, <2>2, <2>3, <2>4 DEF NumbersAhead
    <2>7. \A q \in Spent : run'[q].number \in Nat
      BY <1>a, <2>3, <2>4 DEF TypeOK, Run
    <2>8. \A p, q \in Spent : run'[p].number = run'[q].number => p = q
      BY <1>a, <2>3, <2>4 DEF NumbersAhead
    <2>9. \A q \in Spent : run'[q].number # run'[r].number
      BY <2>2, <2>3, <2>6, <2>7
    <2> QED  BY <2>4, <2>5, <2>8, <2>9 DEF NumbersAhead
  <1>10. CASE RoundStart
    <2>1. round.run # 0
      BY <1>10 DEF RoundStart, TypeOK
    <2>2. round.run \in Runs /\ round.run \in Spent
      BY <1>a, <2>1, RunInFlightIsLive
    <2>3. /\ \A q \in Runs \ {round.run} : run'[q] = run[q]
          /\ run'[round.run].number = run[round.run].number
      BY <1>10, <2>2, SavesChangeOneRun DEF RoundStart
    <2>4. Spent' \subseteq Spent
      BY <1>g, <2>2, <2>3
    <2>5. round'.at = "working" /\ round'.orphans = round.orphans
      BY <1>10 DEF RoundStart, TypeOK, Round
    <2> QED  BY <1>b, <2>3, <2>4, <2>5
  <1>11. CASE RoundHostFail
    BY <1>11, <1>h DEF RoundHostFail, TypeOK, Outcomes, RunStatuses, LiveStatuses
  <1>12. CASE RoundFail
    BY <1>12, <1>h DEF RoundFail, TypeOK, Outcomes, RunStatuses, LiveStatuses
  <1>13. CASE RoundRefined \/ RoundReviewed
    <2>1. round'.at = "completed" /\ round'.orphans = round.orphans
      BY <1>13 DEF RoundRefined, RoundReviewed, TypeOK, Round
    <2> QED  BY <1>b, <1>c, <1>13, <2>1 DEF RoundRefined, RoundReviewed
  <1>14. CASE RoundSucceed
    <2>1. round.run # 0
      BY <1>14 DEF RoundSucceed, TypeOK
    <2>2. round.run \in Runs /\ round.run \in Spent
      BY <1>a, <2>1, RunInFlightIsLive
    <2>3. /\ \A q \in Runs \ {round.run} : run'[q] = run[q]
          /\ run'[round.run].number = run[round.run].number
      BY <1>14, <2>2, SavesChangeOneRun DEF RoundSucceed
    <2>4. Spent' \subseteq Spent
      BY <1>g, <2>2, <2>3
    <2> QED  BY <1>b, <1>d, <1>14, <2>3, <2>4 DEF RoundSucceed
  <1>15. CASE CancelAct
    <2>1. CASE cancel = round.run
      <3>1. round' = [round EXCEPT !.cancelled = TRUE] /\ UNCHANGED run
        BY <1>15, <2>1 DEF CancelAct
      <3>2. round'.at = round.at /\ round'.orphans = round.orphans /\ round'.next = round.next
        BY <3>1 DEF TypeOK, Round
      <3> QED  BY <1>b, <1>c, <3>1, <3>2
    <2>2. CASE cancel # round.run
      <3>1. SaveRun(cancel, "Cancelled") /\ UNCHANGED round /\ cancel \in Runs
        BY <1>15, <2>2 DEF CancelAct, TypeOK
      <3>2. /\ run'[cancel].status = "Cancelled" /\ run'[cancel].number = run[cancel].number
            /\ \A q \in Runs \ {cancel} : run'[q] = run[q]
        BY <3>1, SavesChangeOneRun
      <3>3. Spent' \subseteq Spent
        BY <3>1, <3>2 DEF Spent
      <3> QED  BY <1>b, <3>1, <3>2, <3>3
    <2> QED  BY <2>1, <2>2
  <1>16. CASE \/ \E r \in Runs : CancelRead(r)
              \/ \E next \in EpicStates : TransitionEpicState(next)
              \/ \E i \in Issues : CreateIssue(i) \/ CloseIssue(i)
    BY <1>f, <1>16 DEF CancelRead, TransitionEpicState, CreateIssue, CloseIssue
  <1>17. CASE Crash
    BY <1>e, <1>17 DEF Crash
  <1> HIDE DEF Goal
  <1> QED
    BY <1>1, <1>2, <1>3, <1>4, <1>5, <1>6, <1>7, <1>8, <1>9, <1>10, <1>11, <1>12,
       <1>13, <1>14, <1>15, <1>16, <1>17 DEF Next, Worker, RoundStep, Person

-----------------------------------------------------------------------------
(* What a run says of its outcome.                                          *)

LEMMA OutcomeStep ==
    ASSUME TypeOK, OneLiveRun, LeftoversListed, OutcomeMatchesWork, OutcomeInFlight, [Next]_vars
    PROVE  OutcomeMatchesWork' /\ OutcomeInFlight'
  <1> DEFINE Goal == OutcomeMatchesWork' /\ OutcomeInFlight'
  <1> SUFFICES Goal
    OBVIOUS
  <1>a. IdleRound.at = "idle" /\ "none" \notin EpicStates
    BY DEF IdleRound, EpicStates
  <1>b. ASSUME UNCHANGED <<run, landed>>, round' = IdleRound
        PROVE  Goal
    BY <1>a, <1>b DEF OutcomeMatchesWork, OutcomeInFlight
  <1>c. ASSUME UNCHANGED <<run, landed, round>>
        PROVE  Goal
    BY <1>c DEF OutcomeMatchesWork, OutcomeInFlight
  <1>d. ASSUME UNCHANGED <<run, landed>>,
               round'.at \notin {"booting", "working", "completed"}
        PROVE  Goal
    BY <1>d DEF OutcomeMatchesWork, OutcomeInFlight
  <1>e. ASSUME NEW r \in Runs, UNCHANGED landed,
               \A q \in Runs \ {r} : run'[q] = run[q],
               run'[r].status = "Succeeded" => landed[r] # "none",
               run'[r].status \in {"Absent", "Admitted", "Failed", "HostFailed"} => landed[r] = "none"
        PROVE  OutcomeMatchesWork'
    BY <1>e DEF OutcomeMatchesWork
  <1>f. ASSUME NEW s \in {"Failed", "HostFailed"}, EndRun(s), UNCHANGED landed,
               round.at \in {"booting", "working"}
        PROVE  Goal
    <2>1. landed[round.run] = "none" /\ round.run # 0
      BY <1>f DEF OutcomeInFlight, TypeOK
    <2>2. s \in Outcomes
      BY DEF Outcomes, RunStatuses, LiveStatuses
    <2>3. /\ round.run \in Runs /\ round' = IdleRound
          /\ run'[round.run].status \in {s, "Cancelled"}
          /\ \A q \in Runs \ {round.run} : run'[q] = run[q]
      BY <1>f, <2>1, <2>2, EndsChangeOneRun
    <2> QED  BY <1>a, <1>e, <1>f, <2>1, <2>3 DEF OutcomeInFlight
  <1>g. ASSUME NEW S \in SUBSET Runs, UNCHANGED landed,
               round'.at \notin {"booting", "working", "completed"},
               run' = [r \in Runs |-> IF r \in S THEN [run[r] EXCEPT !.status = "Stalled"] ELSE run[r]]
        PROVE  Goal
    BY <1>g, StallsChangeStatus DEF OutcomeMatchesWork, OutcomeInFlight
  <1>1. CASE UNCHANGED vars
    BY <1>c, <1>1 DEF vars
  <1>2. CASE Recover
    <2>1. round'.at = "idle" /\ UNCHANGED <<round, landed>> /\ LiveRuns \subseteq Runs
      BY <1>2 DEF Recover, LeftoversListed, LiveRuns
    <2> QED  BY <1>2, <1>c, <1>g, <2>1 DEF Recover
  <1>3. CASE Dispatch
    <2>1. round'.at = "dispatched"
      BY <1>3 DEF Dispatch, IdleRound
    <2> QED  BY <1>3, <1>d, <2>1 DEF Dispatch
  <1>4. CASE RoundRead
    <2>1. round'.at = "read"
      BY <1>4 DEF RoundRead, TypeOK, Round
    <2> QED  BY <1>4, <1>d, <2>1 DEF RoundRead
  <1>5. CASE RoundList
    <2>1. round'.at = "listed"
      BY <1>5 DEF RoundList, TypeOK, Round
    <2> QED  BY <1>5, <1>d, <2>1 DEF RoundList
  <1>6. CASE RoundReap
    <2>1. round'.at = "reaped" /\ round.orphans \subseteq Runs
      BY <1>6 DEF RoundReap, TypeOK, Round
    <2> QED  BY <1>6, <1>g, <2>1 DEF RoundReap
  <1>7. CASE RoundRefine
    <2>1. round'.at = "reaped"
      BY <1>7 DEF RoundRefine, TypeOK, Round
    <2> QED  BY <1>7, <1>d, <2>1 DEF RoundRefine
  <1>8. CASE RoundGiveUp \/ RoundRefused \/ RoundTurnedAway
    BY <1>8, <1>b DEF RoundGiveUp, RoundRefused, RoundTurnedAway
  <1>9. CASE RoundBegin
    <2>1. PICK r \in Runs :
             /\ IsNextRun(r)
             /\ run' = [run EXCEPT ![r] = [role |-> round.role, status |-> "Admitted",
                                           number |-> round.next]]
             /\ round' = [round EXCEPT !.at = "booting", !.run = r]
      BY <1>9 DEF RoundBegin
    <2>2. landed[r] = "none"
      BY <2>1 DEF IsNextRun, OutcomeMatchesWork
    <2>3. run'[r].status = "Admitted" /\ \A q \in Runs \ {r} : run'[q] = run[q]
      BY <2>1 DEF TypeOK
    <2>4. UNCHANGED landed
      BY <1>9 DEF RoundBegin
    <2>5. OutcomeMatchesWork'
      BY <1>e, <2>2, <2>3, <2>4
    <2>6. round'.at = "booting" /\ round'.run = r
      BY <2>1 DEF TypeOK, Round
    <2> QED  BY <2>2, <2>4, <2>5, <2>6 DEF OutcomeInFlight
  <1>10. CASE RoundStart
    <2>1. round.run \in Runs /\ round.at = "booting"
      BY <1>10 DEF RoundStart, TypeOK, Round
    <2>2. run'[round.run].status = "Running" /\ \A q \in Runs \ {round.run} : run'[q] = run[q]
      BY <1>10, <2>1, SavesChangeOneRun DEF RoundStart
    <2>3. UNCHANGED landed /\ round'.at = "working" /\ round'.run = round.run
      BY <1>10 DEF RoundStart, TypeOK, Round
    <2> QED  BY <1>e, <2>1, <2>2, <2>3 DEF OutcomeInFlight
  <1>11. CASE RoundHostFail
    BY <1>11, <1>f DEF RoundHostFail
  <1>12. CASE RoundFail
    BY <1>12, <1>f DEF RoundFail
  <1>13. CASE RoundRefined \/ RoundReviewed
    <2>1. /\ round.at = "working" /\ round.run \in Runs /\ UNCHANGED run
          /\ landed' = [landed EXCEPT ![round.run] = epic']
          /\ round' = [round EXCEPT !.at = "completed"]
      BY <1>13 DEF RoundRefined, RoundReviewed, TypeOK, Round
    <2>2. epic' \in EpicStates
      BY <1>13 DEF RoundRefined, RoundReviewed, RecordDraftingPass, ApplyEpic, EpicTarget, EpicStates
    <2>3. landed'[round.run] # "none" /\ \A q \in Runs \ {round.run} : landed'[q] = landed[q]
      BY <1>a, <2>1, <2>2 DEF TypeOK
    <2>4. run[round.run].status = "Running"
      BY <2>1 DEF OneLiveRun
    <2>5. OutcomeMatchesWork'
      BY <2>1, <2>3, <2>4 DEF OutcomeMatchesWork
    <2>6. round'.at = "completed" /\ round'.run = round.run
      BY <2>1 DEF TypeOK, Round
    <2> QED  BY <2>3, <2>5, <2>6 DEF OutcomeInFlight
  <1>14. CASE RoundSucceed
    <2>1. round.run \in Runs /\ landed[round.run] # "none"
      BY <1>14 DEF RoundSucceed, OutcomeInFlight, TypeOK, Round
    <2>2. run'[round.run].status = "Succeeded" /\ \A q \in Runs \ {round.run} : run'[q] = run[q]
      BY <1>14, <2>1, SavesChangeOneRun DEF RoundSucceed
    <2>3. UNCHANGED landed /\ round' = IdleRound
      BY <1>14 DEF RoundSucceed
    <2> QED  BY <1>a, <1>e, <2>1, <2>2, <2>3 DEF OutcomeInFlight
  <1>15. CASE CancelAct
    <2>1. CASE cancel = round.run
      <3>1. round' = [round EXCEPT !.cancelled = TRUE] /\ UNCHANGED <<run, landed>>
        BY <1>15, <2>1 DEF CancelAct
      <3>2. round'.at = round.at /\ round'.run = round.run
        BY <3>1 DEF TypeOK, Round
      <3> QED  BY <3>1, <3>2 DEF OutcomeMatchesWork, OutcomeInFlight
    <2>2. CASE cancel # round.run
      <3>1. SaveRun(cancel, "Cancelled") /\ UNCHANGED <<round, landed>> /\ cancel \in Runs
        BY <1>15, <2>2 DEF CancelAct, TypeOK
      <3>2. run'[cancel].status = "Cancelled" /\ \A q \in Runs \ {cancel} : run'[q] = run[q]
        BY <3>1, SavesChangeOneRun
      <3> QED  BY <1>e, <3>1, <3>2 DEF OutcomeInFlight
    <2> QED  BY <2>1, <2>2
  <1>16. CASE \/ \E r \in Runs : CancelRead(r)
              \/ \E next \in EpicStates : TransitionEpicState(next)
              \/ \E i \in Issues : CreateIssue(i) \/ CloseIssue(i)
    BY <1>c, <1>16 DEF CancelRead, TransitionEpicState, CreateIssue, CloseIssue
  <1>17. CASE Crash
    BY <1>b, <1>17 DEF Crash
  <1> HIDE DEF Goal
  <1> QED
    BY <1>1, <1>2, <1>3, <1>4, <1>5, <1>6, <1>7, <1>8, <1>9, <1>10, <1>11, <1>12,
       <1>13, <1>14, <1>15, <1>16, <1>17 DEF Next, Worker, RoundStep, Person

-----------------------------------------------------------------------------
(* Which numbers are taken.                                                 *)

Made == {r \in Runs : run[r].status # "Absent"}

\* Every number below m is that of an attempt that counts: it is over, or under
\* way, and no fault of the host ended it.
CountedBelow(m) ==
    \A n \in 1..(m - 1) : \E r \in Runs : run[r].number = n /\ CountsTowardRoundLimit(run[r])

\* No attempt is numbered past one that does not count.  An attempt the host
\* failed gives its number back, which is safe because it has the greatest.
NoGaps ==
    /\ round.orphans \cup ({cancel} \ {0}) \subseteq Made
    /\ \A r \in Made : CountedBelow(run[r].number)
    /\ round.at \in {"listed", "reaped"} =>
          CountedBelow(round.next) /\ \A r \in Made : run[r].number <= round.next
    /\ round.at \in {"booting", "working", "completed"} =>
          \A r \in Made : run[r].number <= run[round.run].number

\* The next attempt is the first, or the one after an attempt that counts.
LEMMA NextRoundIsNext ==
    ASSUME NEW runs \in [Runs -> Run], \A r \in Runs : runs[r].number <= MaxRounds
    PROVE  \/ NextRound(runs) = 1
           \/ \E r \in Runs : /\ CountsTowardRoundLimit(runs[r])
                              /\ NextRound(runs) = 1 + runs[r].number
  <1> DEFINE counted == {runs[r].number : r \in {s \in DOMAIN runs : CountsTowardRoundLimit(runs[s])}}
  <1>1. counted \in SUBSET Nat /\ \A n \in counted : n <= MaxRounds
    BY DEF Run
  <1>2. \A n \in counted : \E r \in Runs : CountsTowardRoundLimit(runs[r]) /\ runs[r].number = n
    OBVIOUS
  <1>3. NextRound(runs) = IF counted = {} THEN 1
                          ELSE 1 + CHOOSE n \in counted : \A m \in counted : m <= n
    BY DEF NextRound
  <1> HIDE DEF counted
  <1>4. CASE counted = {}
    BY <1>3, <1>4
  <1>5. CASE counted # {}
    <2>1. \E n \in counted : \A m \in counted : m <= n
      BY <1>1, <1>5, BoundedHasMaximum, DraftingLimits
    <2> QED  BY <1>2, <1>3, <1>5, <2>1
  <1> QED  BY <1>4, <1>5

\* What a listing finds: all numbers below the next are taken, and none above it.
LEMMA ListingLeavesNoGap ==
    ASSUME TypeOK, NumbersBounded, NoGaps
    PROVE  CountedBelow(NextRound(run)) /\ \A r \in Made : run[r].number <= NextRound(run)
  <1>1. \A r \in Runs : run[r].number \in Nat /\ (CountsTowardRoundLimit(run[r]) => r \in Made)
    BY DEF TypeOK, Run, Made, CountsTowardRoundLimit
  <1>2. /\ NextRound(run) \in Nat
        /\ \A r \in Runs : CountsTowardRoundLimit(run[r]) => run[r].number < NextRound(run)
    BY NextRoundIsAhead DEF TypeOK, NumbersBounded
  <1>3. \/ NextRound(run) = 1
        \/ \E r \in Runs : CountsTowardRoundLimit(run[r]) /\ NextRound(run) = 1 + run[r].number
    BY NextRoundIsNext DEF TypeOK, NumbersBounded
  <1>4. \A r \in Made : CountedBelow(run[r].number)
    BY DEF NoGaps
  <1>5. CountedBelow(NextRound(run))
    <2>1. CASE NextRound(run) = 1
      BY <2>1 DEF CountedBelow
    <2>2. ASSUME NEW r \in Runs, CountsTowardRoundLimit(run[r]), NextRound(run) = 1 + run[r].number
          PROVE  CountedBelow(NextRound(run))
      <3> SUFFICES ASSUME NEW n \in 1..(NextRound(run) - 1)
                   PROVE  \E q \in Runs : run[q].number = n /\ CountsTowardRoundLimit(run[q])
        BY DEF CountedBelow
      <3>1. n = run[r].number \/ n \in 1..(run[r].number - 1)
        BY <1>1, <2>2
      <3>2. CountedBelow(run[r].number)
        BY <1>1, <1>4, <2>2
      <3> QED  BY <2>2, <3>1, <3>2 DEF CountedBelow
    <2> QED  BY <1>3, <2>1, <2>2
  <1>6. \A r \in Made : run[r].number <= NextRound(run)
    <2> SUFFICES ASSUME NEW r \in Made, run[r].number > NextRound(run) PROVE FALSE
      BY <1>1, <1>2 DEF Made
    <2>1. run[r].number \in Nat /\ CountedBelow(run[r].number)
      BY <1>1, <1>4 DEF Made
    <2>2. NextRound(run) >= 1
      BY <1>1, <1>3
    <2>3. NextRound(run) \in 1..(run[r].number - 1)
      BY <1>2, <2>1, <2>2
    <2>4. PICK q \in Runs : run[q].number = NextRound(run) /\ CountsTowardRoundLimit(run[q])
      BY <2>1, <2>3 DEF CountedBelow
    <2> QED  BY <1>2, <2>4
  <1> QED  BY <1>5, <1>6

\* A step that keeps the runs made, their numbers and all that count.
LEMMA KeepsNoGaps ==
    ASSUME TypeOK, NoGaps,
           \A r \in Runs : /\ run'[r].number = run[r].number
                           /\ CountsTowardRoundLimit(run[r]) => CountsTowardRoundLimit(run'[r]),
           Made' = Made,
           round'.orphans \subseteq Made, cancel' \in Made \cup {0},
           round'.at \in {"listed", "reaped"} =>
              round.at \in {"listed", "reaped"} /\ round'.next = round.next,
           round'.at \in {"booting", "working", "completed"} =>
              round.at \in {"booting", "working", "completed"} /\ round'.run = round.run
    PROVE  NoGaps'
  <1>1. \A r \in Made : CountedBelow(run[r].number)'
    <2> SUFFICES ASSUME NEW r \in Made PROVE CountedBelow(run[r].number)'
      OBVIOUS
    <2>1. \A n \in 1..(run[r].number - 1) :
             \E q \in Runs : run[q].number = n /\ CountsTowardRoundLimit(run[q])
      BY DEF NoGaps, CountedBelow
    <2>2. run'[r].number = run[r].number
      BY DEF Made
    <2> QED  BY <2>1, <2>2 DEF CountedBelow
  <1>2. round'.at \in {"listed", "reaped"} =>
           CountedBelow(round.next)' /\ \A r \in Made' : run'[r].number <= round'.next
    <2> SUFFICES ASSUME round'.at \in {"listed", "reaped"}
                 PROVE  CountedBelow(round.next)' /\ \A r \in Made' : run'[r].number <= round'.next
      OBVIOUS
    <2>1. CountedBelow(round.next) /\ \A r \in Made : run[r].number <= round.next
      BY DEF NoGaps
    <2>2. round'.next = round.next
      OBVIOUS
    <2>3. \A n \in 1..(round.next - 1) :
             \E q \in Runs : run'[q].number = n /\ CountsTowardRoundLimit(run'[q])
      BY <2>1 DEF CountedBelow
    <2> QED  BY <2>1, <2>2, <2>3 DEF CountedBelow, Made
  <1>3. round'.at \in {"booting", "working", "completed"} =>
           \A r \in Made' : run'[r].number <= run'[round'.run].number
    <2> SUFFICES ASSUME round'.at \in {"booting", "working", "completed"}
                 PROVE  \A r \in Made' : run'[r].number <= run'[round'.run].number
      OBVIOUS
    <2>1. round.run \in Runs /\ round'.run = round.run
      BY DEF TypeOK, Round
    <2> QED  BY <2>1 DEF NoGaps, Made
  <1> QED  BY <1>1, <1>2, <1>3 DEF NoGaps

LEMMA GapsStep ==
    ASSUME TypeOK, NumbersBounded, OneLiveRun, LeftoversListed, NoGaps, [Next]_vars
    PROVE  NoGaps'
  <1> DEFINE Goal == NoGaps'
             Keeps(r) == /\ run'[r].number = run[r].number
                         /\ CountsTowardRoundLimit(run[r]) => CountsTowardRoundLimit(run'[r])
  <1> SUFFICES Goal
    OBVIOUS
  <1>a. IdleRound.at = "idle" /\ IdleRound.orphans = {}
    BY DEF IdleRound
  <1>b. /\ round.orphans \subseteq Made /\ cancel \in Made \cup {0}
        /\ LiveRuns \subseteq Made
    BY DEF NoGaps, TypeOK, LiveRuns, Made, LiveStatuses
  <1>c. UNCHANGED run => Made' = Made /\ \A r \in Runs : Keeps(r)
    BY DEF Made
  <1>d. ASSUME Made' = Made, \A r \in Runs : Keeps(r), round'.at \notin {"listed", "reaped"},
               round'.at \notin {"booting", "working", "completed"},
               round'.orphans \subseteq Made, cancel' \in Made \cup {0}
        PROVE  Goal
    BY <1>d, KeepsNoGaps
  <1>e. ASSUME Made' = Made, \A r \in Runs : Keeps(r), round'.at = round.at,
               round'.next = round.next, round'.run = round.run,
               round'.orphans = round.orphans, cancel' \in Made \cup {0}
        PROVE  Goal
    BY <1>b, <1>e, KeepsNoGaps
  <1>f. ASSUME UNCHANGED <<run, cancel>>, round' = IdleRound
        PROVE  Goal
    BY <1>a, <1>b, <1>c, <1>d, <1>f
  <1>g. ASSUME NEW r \in Made, NEW s \in RunStatuses \ {"Absent", "HostFailed"}, SaveRun(r, s)
        PROVE  Made' = Made /\ \A q \in Runs : Keeps(q)
    <2>1. r \in Runs
      BY DEF Made
    <2>2. /\ run'[r].status = s /\ run'[r].number = run[r].number
          /\ \A q \in Runs \ {r} : run'[q] = run[q]
      BY <1>g, <2>1, SavesChangeOneRun
    <2> QED  BY <2>1, <2>2 DEF Made, CountsTowardRoundLimit
  <1>h. ASSUME NEW S \in SUBSET Made,
               run' = [r \in Runs |-> IF r \in S THEN [run[r] EXCEPT !.status = "Stalled"] ELSE run[r]]
        PROVE  Made' = Made /\ \A q \in Runs : Keeps(q)
    <2>1. /\ \A r \in Runs : run'[r].number = run[r].number
          /\ \A r \in Runs \cap S : run'[r].status = "Stalled"
          /\ \A r \in Runs \ S : run'[r] = run[r]
      BY <1>h, StallsChangeStatus
    <2> QED  BY <2>1 DEF Made, CountsTowardRoundLimit
  <1> HIDE DEF Goal
  <1>1. CASE UNCHANGED vars
    BY <1>b, <1>c, <1>e, <1>1 DEF vars
  <1>2. CASE Recover
    <2>1. round.at = "idle" /\ UNCHANGED <<round, cancel>>
      BY <1>2 DEF Recover, LeftoversListed
    <2>2. Made' = Made /\ \A q \in Runs : Keeps(q)
      BY <1>2, <1>b, <1>c, <1>h DEF Recover
    <2> QED  BY <1>b, <1>e, <2>1, <2>2
  <1>3. CASE Dispatch
    <2>1. round'.at = "dispatched" /\ round'.orphans = {}
      BY <1>3 DEF Dispatch, IdleRound
    <2>2. UNCHANGED <<run, cancel>>
      BY <1>3 DEF Dispatch
    <2> QED  BY <1>b, <1>c, <1>d, <2>1, <2>2
  <1>4. CASE RoundRead
    <2>1. round'.at = "read" /\ round'.orphans = round.orphans
      BY <1>4 DEF RoundRead, TypeOK, Round
    <2>2. UNCHANGED <<run, cancel>>
      BY <1>4 DEF RoundRead
    <2> QED  BY <1>b, <1>c, <1>d, <2>1, <2>2
  <1>5. CASE RoundList
    <2>1. round'.at = "listed" /\ round'.orphans = LiveRuns /\ round'.next = NextRound(run)
      BY <1>5 DEF RoundList, TypeOK, Round
    <2>2. UNCHANGED <<run, cancel>>
      BY <1>5 DEF RoundList
    <2>3. CountedBelow(NextRound(run)) /\ \A r \in Made : run[r].number <= NextRound(run)
      BY ListingLeavesNoGap
    <2>4. (\A r \in Made : CountedBelow(run[r].number))'
      BY <2>2 DEF NoGaps, CountedBelow, Made
    <2>5. CountedBelow(round.next)' /\ \A r \in Made' : run'[r].number <= round'.next
      BY <2>1, <2>2, <2>3 DEF CountedBelow, Made
    <2>6. (round.orphans \cup ({cancel} \ {0}) \subseteq Made)'
      BY <1>b, <1>c, <2>1, <2>2
    <2> QED  BY <2>1, <2>4, <2>5, <2>6 DEF NoGaps, Goal
  <1>6. CASE RoundReap
    <2>1. /\ round'.at = "reaped" /\ round'.orphans = {} /\ round'.next = round.next
          /\ round.at = "listed" /\ UNCHANGED cancel
      BY <1>6 DEF RoundReap, TypeOK, Round
    <2>2. Made' = Made /\ \A q \in Runs : Keeps(q)
      BY <1>6, <1>b, <1>h DEF RoundReap
    <2> QED  BY <1>b, <2>1, <2>2, KeepsNoGaps DEF Goal
  <1>7. CASE RoundRefine
    <2>1. /\ round'.at = round.at /\ round'.orphans = round.orphans
          /\ round'.next = round.next /\ round'.run = round.run
      BY <1>7 DEF RoundRefine, TypeOK, Round
    <2>2. UNCHANGED <<run, cancel>>
      BY <1>7 DEF RoundRefine
    <2> QED  BY <1>b, <1>c, <1>e, <2>1, <2>2
  <1>8. CASE RoundGiveUp \/ RoundRefused \/ RoundTurnedAway
    BY <1>8, <1>f DEF RoundGiveUp, RoundRefused, RoundTurnedAway
  <1>9. CASE RoundBegin
    <2>1. PICK r \in Runs :
             /\ IsNextRun(r)
             /\ run' = [run EXCEPT ![r] = [role |-> round.role, status |-> "Admitted",
                                           number |-> round.next]]
             /\ round' = [round EXCEPT !.at = "booting", !.run = r]
      BY <1>9 DEF RoundBegin
    <2>2. round.at = "reaped" /\ round.orphans = {} /\ UNCHANGED cancel
      BY <1>9 DEF RoundBegin, LeftoversListed
    <2>3. /\ run'[r].number = round.next /\ run'[r].status = "Admitted"
          /\ \A q \in Runs \ {r} : run'[q] = run[q]
      BY <2>1 DEF TypeOK
    <2>4. r \notin Made /\ Made' = Made \cup {r}
      BY <2>1, <2>3 DEF Made, IsNextRun
    <2>5. round'.at = "booting" /\ round'.orphans = {} /\ round'.run = r
      BY <2>1, <2>2 DEF TypeOK, Round
    <2>6. CountedBelow(round.next) /\ \A q \in Made : run[q].number <= round.next
      BY <2>2 DEF NoGaps
    <2>7. \A n : (\E q \in Runs : run[q].number = n /\ CountsTowardRoundLimit(run[q]))
              => \E q \in Runs : run'[q].number = n /\ CountsTowardRoundLimit(run'[q])
      BY <2>3, <2>4 DEF Made, CountsTowardRoundLimit
    <2>8. (\A q \in Made : CountedBelow(run[q].number))'
      <3> SUFFICES ASSUME NEW q \in Made'
                   PROVE  \A n \in 1..(run'[q].number - 1) :
                             \E p \in Runs : run'[p].number = n /\ CountsTowardRoundLimit(run'[p])
        BY DEF CountedBelow
      <3>1. CASE q = r
        BY <2>3, <2>6, <2>7, <3>1 DEF CountedBelow
      <3>2. CASE q # r
        <4>1. q \in Made /\ run'[q] = run[q]
          BY <2>3, <2>4, <3>2 DEF Made
        <4>2. CountedBelow(run[q].number)
          BY <4>1 DEF NoGaps
        <4> QED  BY <2>7, <4>1, <4>2 DEF CountedBelow
      <3> QED  BY <3>1, <3>2
    <2>9. \A q \in Made' : run'[q].number <= run'[r].number
      <3>1. run'[r].number <= run'[r].number
        BY <2>3 DEF TypeOK, Round
      <3> QED  BY <2>3, <2>4, <2>6, <3>1 DEF Made
    <2>10. (round.orphans \cup ({cancel} \ {0}) \subseteq Made)'
      BY <1>b, <2>2, <2>4, <2>5
    <2> QED  BY <2>5, <2>8, <2>9, <2>10 DEF NoGaps, Goal
  <1>10. CASE RoundStart
    <2>1. round.run # 0
      BY <1>10 DEF RoundStart, TypeOK
    <2>2. round.run \in Made
      BY <1>b, <2>1, RunInFlightIsLive
    <2>3. "Running" \in RunStatuses \ {"Absent", "HostFailed"}
      BY DEF RunStatuses
    <2>4. Made' = Made /\ \A q \in Runs : Keeps(q)
      BY <1>10, <1>g, <2>2, <2>3 DEF RoundStart
    <2>5. /\ round'.at = "working" /\ round'.run = round.run
          /\ round'.orphans = round.orphans /\ round.at = "booting" /\ UNCHANGED cancel
      BY <1>10 DEF RoundStart, TypeOK, Round
    <2> QED  BY <1>b, <2>4, <2>5, KeepsNoGaps DEF Goal
  <1>11. CASE RoundHostFail
    <2>1. round.at \in {"booting", "working"} /\ round.run # 0 /\ EndRun("HostFailed") /\ UNCHANGED cancel
      BY <1>11 DEF RoundHostFail, TypeOK
    <2>2. /\ round.run \in Runs /\ round' = IdleRound
          /\ run'[round.run].status \in {"HostFailed", "Cancelled"}
          /\ run'[round.run].number = run[round.run].number
          /\ \A q \in Runs \ {round.run} : run'[q] = run[q]
      BY <2>1, EndsChangeOneRun DEF Outcomes, RunStatuses, LiveStatuses
    <2>3. round.run \in Made
      BY <1>b, <2>1, RunInFlightIsLive
    <2>4. Made' = Made /\ \A q \in Runs : run'[q].number = run[q].number
      BY <2>2, <2>3 DEF Made
    <2>5. \A q \in Made : run[q].number <= run[round.run].number
      BY <2>1 DEF NoGaps
    <2>6. (\A q \in Made : CountedBelow(run[q].number))'
      <3> SUFFICES ASSUME NEW q \in Made, NEW n \in 1..(run[q].number - 1)
                   PROVE  \E p \in Runs : run'[p].number = n /\ CountsTowardRoundLimit(run'[p])
        BY <2>4 DEF CountedBelow, Made
      <3>1. CountedBelow(run[q].number)
        BY DEF NoGaps
      <3>2. PICK p \in Runs : run[p].number = n /\ CountsTowardRoundLimit(run[p])
        BY <3>1 DEF CountedBelow
      <3>3. run[q].number \in Nat /\ run[round.run].number \in Nat /\ run[q].number <= run[round.run].number
        BY <2>2, <2>5 DEF Made, TypeOK, Run
      <3>4. p # round.run
        BY <3>2, <3>3
      <3> QED  BY <2>2, <3>2, <3>4
    <2>7. (round.orphans \cup ({cancel} \ {0}) \subseteq Made)'
      BY <1>a, <1>b, <2>1, <2>2, <2>4
    <2> QED  BY <1>a, <2>2, <2>6, <2>7 DEF NoGaps, Goal
  <1>12. CASE RoundFail
    <2>1. round.run # 0 /\ EndRun("Failed") /\ UNCHANGED cancel
      BY <1>12 DEF RoundFail, TypeOK
    <2>2. round.run \in Made
      BY <1>b, <2>1, RunInFlightIsLive
    <2>3. PICK s \in {"Failed", "Cancelled"} : SaveRun(round.run, s)
      BY <2>1 DEF EndRun
    <2>4. s \in RunStatuses \ {"Absent", "HostFailed"}
      BY DEF RunStatuses
    <2>5. Made' = Made /\ \A q \in Runs : Keeps(q)
      BY <1>g, <2>2, <2>3, <2>4
    <2> QED  BY <1>a, <1>b, <1>d, <2>1, <2>5 DEF EndRun
  <1>13. CASE RoundRefined \/ RoundReviewed
    <2>1. /\ round'.at = "completed" /\ round'.orphans = round.orphans
          /\ round'.run = round.run /\ round.at = "working" /\ UNCHANGED <<run, cancel>>
      BY <1>13 DEF RoundRefined, RoundReviewed, TypeOK, Round
    <2> QED  BY <1>b, <1>c, <2>1, KeepsNoGaps DEF Goal
  <1>14. CASE RoundSucceed
    <2>1. round.run # 0
      BY <1>14 DEF RoundSucceed, TypeOK
    <2>2. round.run \in Made
      BY <1>b, <2>1, RunInFlightIsLive
    <2>3. "Succeeded" \in RunStatuses \ {"Absent", "HostFailed"}
      BY DEF RunStatuses
    <2>4. Made' = Made /\ \A q \in Runs : Keeps(q)
      BY <1>14, <1>g, <2>2, <2>3 DEF RoundSucceed
    <2>5. round' = IdleRound /\ UNCHANGED cancel
      BY <1>14 DEF RoundSucceed
    <2> QED  BY <1>a, <1>b, <1>d, <2>4, <2>5
  <1>15. CASE CancelAct
    <2>1. cancel \in Made /\ cancel' = 0
      BY <1>15, <1>b DEF CancelAct
    <2>2. CASE cancel = round.run
      <3>1. round' = [round EXCEPT !.cancelled = TRUE] /\ UNCHANGED run
        BY <1>15, <2>2 DEF CancelAct
      <3>2. /\ round'.at = round.at /\ round'.orphans = round.orphans
            /\ round'.next = round.next /\ round'.run = round.run
        BY <3>1 DEF TypeOK, Round
      <3> QED  BY <1>c, <1>e, <2>1, <3>1, <3>2
    <2>3. CASE cancel # round.run
      <3>1. SaveRun(cancel, "Cancelled") /\ UNCHANGED round
        BY <1>15, <2>3 DEF CancelAct
      <3>2. "Cancelled" \in RunStatuses \ {"Absent", "HostFailed"}
        BY DEF RunStatuses
      <3>3. Made' = Made /\ \A q \in Runs : Keeps(q)
        BY <1>g, <2>1, <3>1, <3>2
      <3> QED  BY <1>e, <2>1, <3>1, <3>3
    <2> QED  BY <2>2, <2>3
  <1>16. CASE \E r \in Runs : CancelRead(r)
    <2>1. cancel' \in Made /\ UNCHANGED <<run, round>>
      BY <1>b, <1>16 DEF CancelRead
    <2> QED  BY <1>c, <1>e, <2>1
  <1>17. CASE \/ \E next \in EpicStates : TransitionEpicState(next)
              \/ \E i \in Issues : CreateIssue(i) \/ CloseIssue(i)
    <2>1. UNCHANGED <<run, round, cancel>>
      BY <1>17 DEF TransitionEpicState, CreateIssue, CloseIssue
    <2> QED  BY <1>b, <1>c, <1>e, <2>1
  <1>18. CASE Crash
    BY <1>a, <1>c, <1>d, <1>18 DEF Crash
  <1> QED
    BY <1>1, <1>2, <1>3, <1>4, <1>5, <1>6, <1>7, <1>8, <1>9, <1>10, <1>11, <1>12,
       <1>13, <1>14, <1>15, <1>16, <1>17, <1>18 DEF Next, Worker, RoundStep, Person

-----------------------------------------------------------------------------
(* The theorems.                                                            *)

\* The drafting half starts in the invariant and never leaves it.
LEMMA DraftingInvariant == Spec => []IInv
  <1>1. Init => IInv
    <2> SUFFICES ASSUME Init PROVE IInv
      OBVIOUS
    <2> USE IdleRoundIsTyped
    <2>1. TypeOK
      <3>1. NoRun \in Run
        BY DEF NoRun, Run, RunStatuses
      <3>2. events \in 0..MaxEvents
        BY DraftingLimits DEF Init
      <3>3. round \in Round /\ round.at = "idle" /\ round.role = "none" /\ round.run = 0
        BY DEF Init
      <3> QED  BY <3>1, <3>2, <3>3 DEF Init, TypeOK, EpicStates
    <2>2. NumbersBounded
      BY DraftingLimits DEF Init, NumbersBounded, NoRun
    <2>3. LiveRuns = {} /\ Spent = {} /\ round.orphans = {} /\ round.at = "idle"
      BY DEF Init, LiveRuns, Spent, LiveStatuses, NoRun, IdleRound
    <2>4. OneLiveRun /\ LeftoversListed /\ NumbersAhead
      BY <2>3 DEF OneLiveRun, LeftoversListed, NumbersAhead
    <2>5. OutcomeMatchesWork /\ OutcomeInFlight
      BY <2>3 DEF Init, OutcomeMatchesWork, OutcomeInFlight, NoRun
    <2> QED  BY <2>1, <2>2, <2>4, <2>5 DEF IInv
  <1>2. IInv /\ [Next]_vars => IInv'
    <2> SUFFICES ASSUME IInv, [Next]_vars PROVE IInv'
      OBVIOUS
    <2>1. TypeOK' /\ NumbersBounded'
      BY TypesStep DEF IInv
    <2>2. OneLiveRun' /\ LeftoversListed'
      BY LiveStep DEF IInv
    <2>3. NumbersAhead'
      BY NumbersStep DEF IInv
    <2>4. OutcomeMatchesWork' /\ OutcomeInFlight'
      BY OutcomeStep DEF IInv
    <2> QED  BY <2>1, <2>2, <2>3, <2>4 DEF IInv
  <1> QED  BY <1>1, <1>2, PTL DEF Spec

\* Every variable of the drafting half keeps its type.
THEOREM DraftingTypeCorrect == Spec => []TypeOK
  <1>1. IInv => TypeOK
    BY DEF IInv
  <1> QED  BY <1>1, DraftingInvariant, PTL

\* At most one run of the epic is live, it is that of the round in flight, and
\* nobody else moves its status (reapOrphaned, CancelAgentRun, the first tick).
THEOREM OneRunIsLive == Spec => []OneLiveRun
  <1>1. IInv => OneLiveRun
    BY DEF IInv
  <1> QED  BY <1>1, DraftingInvariant, PTL

\* Over the life of an epic no two attempts of the agent share a number, and none
\* is past the round limit, whatever is cancelled, stalled or begun after a crash.
THEOREM AttemptsAreRationed == Spec => []AttemptsRationed
  <1>1. IInv => AttemptsRationed
    BY DEF IInv, NumbersBounded, NumbersAhead, AttemptsRationed
  <1> QED  BY <1>1, DraftingInvariant, PTL

\* A run that says it succeeded has its outcome in the epic, and an outcome in the
\* epic is never recorded as a failure of the agent or of the host.
THEOREM OutcomesMatchWork == Spec => []OutcomeMatchesWork
  <1>1. IInv => OutcomeMatchesWork
    BY DEF IInv
  <1> QED  BY <1>1, DraftingInvariant, PTL

\* donsy gives up on an epic only when every attempt its profile allows was spent
\* on an agent's success or failure, a cancel or a restart: a fault of the host,
\* however often and whenever it strikes, leaves the number it had to the next
\* attempt (CountsTowardRoundLimit, nextRound).
THEOREM GivesUpWhenSpent == Spec => FailsOnlyWhenSpent
  <1> DEFINE Spends == \A n \in 1..MaxRounds :
                 \E r \in Runs : run[r].number = n /\ run[r].status \notin {"Absent", "HostFailed"}
  <1>1. Init => NoGaps
    <2> SUFFICES ASSUME Init PROVE NoGaps
      OBVIOUS
    <2>1. Made = {} /\ round.orphans = {} /\ round.at = "idle" /\ cancel = 0
      BY DEF Init, Made, NoRun, IdleRound
    <2> QED  BY <2>1 DEF NoGaps
  <1>2. IInv /\ NoGaps /\ [Next]_vars => NoGaps'
    BY GapsStep DEF IInv
  <1>3. ASSUME IInv, NoGaps, RoundGiveUp
        PROVE  Spends
    <2>1. round.at = "reaped" /\ round.next > MaxRounds /\ round.next \in Nat
      BY <1>3 DEF RoundGiveUp, OutOfRounds, IInv, TypeOK, Round
    <2>2. CountedBelow(round.next)
      BY <1>3, <2>1 DEF NoGaps
    <2>3. \A n \in 1..MaxRounds : n \in 1..(round.next - 1)
      BY <2>1, DraftingLimits
    <2> QED  BY <2>2, <2>3 DEF CountedBelow, CountsTowardRoundLimit
  <1>4. ASSUME [Next]_vars, epic' = "Failed", epic # "Failed", round' # round
        PROVE  RoundGiveUp
    <2>1. ~ (RoundRefine \/ RoundRefined \/ RoundReviewed)
      BY <1>4 DEF RoundRefine, RoundRefined, RoundReviewed, RecordDraftingPass, ApplyEpic, EpicTarget
    <2>2. UNCHANGED epic \/ UNCHANGED round \/ RoundGiveUp
      BY <1>4, <2>1 DEF Next, vars, tree, Worker, RoundStep, Person, Recover, Dispatch, RoundRead,
         RoundList, RoundReap, RoundRefused, RoundTurnedAway, RoundBegin, RoundStart, RoundHostFail,
         RoundFail, RoundSucceed, CancelRead, CancelAct, TransitionEpicState, CreateIssue,
         CloseIssue, Crash
    <2> QED  BY <1>4, <2>2
  <1>5. IInv /\ NoGaps /\ [Next]_vars =>
           [epic' = "Failed" /\ epic # "Failed" /\ round' # round => Spends]_vars
    BY <1>3, <1>4
  <1> QED  BY <1>1, <1>2, <1>5, DraftingInvariant, PTL DEF Spec, FailsOnlyWhenSpent
=============================================================================
