--------------------------- MODULE IssueLoopProofs ---------------------------
(***************************************************************************)
(* Proofs about IssueLoop, for every set of issues and callers and every    *)
(* bound.  First what holds whatever callers do: the types, the counters of *)
(* a record, what is settled, pushed and merged.  Then what holds under     *)
(* assumptions about who does what, each stated where it is needed: one     *)
(* open record, a working copy of one's own, phases with a record, an       *)
(* approval for what is in Pr, and branches cut from delivered work.        *)
(***************************************************************************)
EXTENDS IssueLoop, TLAPS

-----------------------------------------------------------------------------
(* What the updates of a record return.                                     *)

\* Every update of a record (RecordCodingRound, RecordMergeRound,
\* RecordExternalPush, RecordReview, GrantCodingRound) returns a record.
LEMMA UpdatesAreTyped ==
    ASSUME NEW r \in Record, NEW approved \in BOOLEAN, NEW head \in SUBSET Commits
    PROVE  /\ RecordCodingRound(r) \in Record
           /\ RecordMergeRound(r) \in Record
           /\ RecordExternalPush(r) \in Record
           /\ RecordReview(r, approved, head) \in Record
           /\ GrantCodingRound(r) \in Record
  <1>1. InvalidateReview(r) \in Record
    BY DEF InvalidateReview, Record
  <1>2. RecordExternalPush(r) \in Record
    BY <1>1 DEF RecordExternalPush, Record
  <1>3. RecordMergeRound(r) \in Record
    <2>1. InvalidateReview(r).rounds + 1 \in Nat
      BY <1>1 DEF Record
    <2> QED  BY <1>1, <2>1 DEF RecordMergeRound, Record
  <1>4. ASSUME NEW s \in Record
        PROVE  [s EXCEPT !.limit = ~CanCode(s)] \in Record
    <2>1. (~CanCode(s)) \in BOOLEAN
      OBVIOUS
    <2> QED  BY <2>1 DEF Record
  <1>5. RecordCodingRound(r) \in Record
    <2> DEFINE counted == [r EXCEPT !.rounds = r.rounds + 1, !.coding = r.coding + 1]
    <2>1. r.rounds + 1 \in Nat /\ r.coding + 1 \in Nat
      BY DEF Record
    <2>2. counted \in Record
      BY <2>1 DEF Record
    <2>3. InvalidateReview(counted) \in Record
      BY <2>2 DEF InvalidateReview, Record
    <2>4. (~CanCode(counted)) \in BOOLEAN
      OBVIOUS
    <2> HIDE DEF counted
    <2>5. [InvalidateReview(counted) EXCEPT !.limit = ~CanCode(counted)] \in Record
      BY <2>3, <2>4 DEF Record
    <2>6. RecordCodingRound(r) = [InvalidateReview(counted) EXCEPT !.limit = ~CanCode(counted)]
      BY DEF RecordCodingRound, counted
    <2> QED  BY <2>5, <2>6
  <1>6. RecordReview(r, approved, head) \in Record
    BY DEF RecordReview, Record
  <1>7. GrantCodingRound(r) \in Record
    <2> DEFINE more == [r EXCEPT !.granted = r.granted + 1]
    <2>1. more \in Record
      BY DEF Record
    <2> HIDE DEF more
    <2>2. [more EXCEPT !.limit = ~CanCode(more)] \in Record
      BY <2>1, <1>4
    <2> QED  BY <2>2 DEF GrantCodingRound, more
  <1> QED  BY <1>2, <1>3, <1>5, <1>6, <1>7

\* A record AddPullRequest makes, and the one that was never made.
LEMMA NewRecordsAreTyped ==
    ASSUME NEW i \in Issues \cup {NoIssue}
    PROVE  NewRecord(i) \in Record /\ NoRecord \in Record
  BY DEF NewRecord, NoRecord, Record, RecordStatuses

\* A record with another status, or marked stale.
LEMMA RecordFieldsAreTyped ==
    ASSUME TypeOK, NEW p, NEW status \in RecordStatuses
    PROVE  /\ [pr EXCEPT ![p].status = status] \in [Records -> Record]
           /\ [pr EXCEPT ![p].stale = TRUE] \in [Records -> Record]
  <1>1. CASE p \in Records
    <2>1. /\ [pr[p] EXCEPT !.status = status] \in Record
          /\ [pr[p] EXCEPT !.stale = TRUE] \in Record
      <3>1. pr[p] \in Record
        BY <1>1, TypeOK DEF TypeOK
      <3> QED  BY <3>1 DEF Record
    <2>2. /\ [pr EXCEPT ![p].status = status] = [pr EXCEPT ![p] = [pr[p] EXCEPT !.status = status]]
          /\ [pr EXCEPT ![p].stale = TRUE] = [pr EXCEPT ![p] = [pr[p] EXCEPT !.stale = TRUE]]
      BY <1>1, TypeOK DEF TypeOK
    <2>3. pr \in [Records -> Record]
      BY TypeOK DEF TypeOK
    <2> QED  BY <2>1, <2>2, <2>3
  <1>2. CASE p \notin Records
    BY <1>2, TypeOK DEF TypeOK
  <1> QED  BY <1>1, <1>2

\* The updates of the aggregate that several use cases make keep its types.
LEMMA AggregateIsTyped ==
    ASSUME TypeOK
    PROVE  /\ \A i, next : MoveIssue(i, next) /\ next \in IssueStates
                  => issue' \in [Issues -> IssueStates]
           /\ \A i : AddPullRequest(i)
                  => issue' \in [Issues -> IssueStates] /\ pr' \in [Records -> Record]
           /\ \A p, status : TransitionPullRequest(p, status) /\ status \in RecordStatuses
                  => issue' \in [Issues -> IssueStates] /\ pr' \in [Records -> Record]
           /\ \A p : MarkStale(p)
                  => issue' \in [Issues -> IssueStates] /\ pr' \in [Records -> Record]
           /\ \A closing : CloseAll(closing)
                  => issue' \in [Issues -> IssueStates] /\ pr' \in [Records -> Record]
  <1>1. ASSUME NEW i, NEW next, MoveIssue(i, next), next \in IssueStates
        PROVE  issue' \in [Issues -> IssueStates]
    BY <1>1, TypeOK DEF MoveIssue, TypeOK
  <1>2. ASSUME NEW i, AddPullRequest(i)
        PROVE  issue' \in [Issues -> IssueStates] /\ pr' \in [Records -> Record]
    <2>1. issue' \in [Issues -> IssueStates]
      BY <1>1, <1>2 DEF AddPullRequest, IssueStates
    <2>2. NewRecord(i) \in Record
      BY <1>2, NewRecordsAreTyped DEF AddPullRequest, MoveIssue
    <2> QED  BY <1>2, <2>1, <2>2, TypeOK DEF AddPullRequest, TypeOK
  <1>3. ASSUME NEW p, NEW status, TransitionPullRequest(p, status), status \in RecordStatuses
        PROVE  issue' \in [Issues -> IssueStates] /\ pr' \in [Records -> Record]
    <2>1. issue' \in [Issues -> IssueStates]
      BY <1>1, <1>3 DEF TransitionPullRequest, IssueStates
    <2>2. pr' \in [Records -> Record]
      BY <1>3, TypeOK, RecordFieldsAreTyped DEF TransitionPullRequest
    <2> QED  BY <2>1, <2>2
  <1>4. ASSUME NEW p, MarkStale(p)
        PROVE  issue' \in [Issues -> IssueStates] /\ pr' \in [Records -> Record]
    <2>1. issue' \in [Issues -> IssueStates]
      BY <1>1, <1>4 DEF MarkStale, IssueStates
    <2>2. "Open" \in RecordStatuses
      BY DEF RecordStatuses
    <2>3. pr' \in [Records -> Record]
      BY <1>4, <2>2, TypeOK, RecordFieldsAreTyped DEF MarkStale
    <2> QED  BY <2>1, <2>3
  <1>5. ASSUME NEW closing, CloseAll(closing)
        PROVE  issue' \in [Issues -> IssueStates] /\ pr' \in [Records -> Record]
    <2>1. issue' \in [Issues -> IssueStates]
      BY <1>5, TypeOK DEF CloseAll, TypeOK, IssueStates
    <2>2. \A p \in Records : [pr[p] EXCEPT !.status = "Closed"] \in Record
      BY TypeOK DEF TypeOK, Record, RecordStatuses
    <2>3. pr' \in [Records -> Record]
      BY <1>5, <2>2, TypeOK DEF CloseAll, TypeOK
    <2> QED  BY <2>1, <2>3
  <1> QED  BY <1>1, <1>2, <1>3, <1>4, <1>5

-----------------------------------------------------------------------------
(* Types.                                                                   *)

\* A record that was made has an issue, for good.
RecordsNamed == \A p \in Records : pr[p].status # "Absent" => pr[p].issue \in Issues

\* A merge under way is of a record that was made.
MergesNamed == \A c \in Callers : call[c].at = "merge-land" =>
                   call[c].pr \in Records /\ pr[call[c].pr].status # "Absent"

\* Setting some fields of a round or of a call to values of their types.
LEMMA IdleIsTyped == IdleRound \in Round /\ IdleCall \in Call
  BY DEF IdleRound, IdleCall, Round, Call, RoundSteps, CallSteps

LEMMA RoundFieldsAreTyped ==
    ASSUME TypeOK, NEW i \in Issues, NEW at \in RoundSteps, NEW head \in SUBSET Commits
    PROVE  /\ [round EXCEPT ![i].at = at] \in [Issues -> Round]
           /\ [round EXCEPT ![i].at = at, ![i].head = head] \in [Issues -> Round]
  <1>1. /\ [round[i] EXCEPT !.at = at] \in Round
        /\ [round[i] EXCEPT !.at = at, !.head = head] \in Round
    <2>1. round[i] \in Round
      BY TypeOK DEF TypeOK
    <2> QED  BY <2>1 DEF Round
  <1>2. /\ [round EXCEPT ![i].at = at] = [round EXCEPT ![i] = [round[i] EXCEPT !.at = at]]
        /\ [round EXCEPT ![i].at = at, ![i].head = head]
              = [round EXCEPT ![i] = [round[i] EXCEPT !.at = at, !.head = head]]
    BY TypeOK DEF TypeOK
  <1> QED  BY <1>1, <1>2, TypeOK DEF TypeOK

\* The steps of a round keep the types.
LEMMA RoundsAreTyped ==
    ASSUME TypeOK, NEW i \in Issues, RoundStep(i) \/ RoundFail(i)
    PROVE  TypeOK'
  <1> USE ConstantsAreTyped
  <1>1. CASE RoundRead(i)
    <2>1. PICK p \in Records :
                round' = [round EXCEPT ![i].at = "picked", ![i].pr = p]
      BY <1>1 DEF RoundRead
    <2>2. [round[i] EXCEPT !.at = "picked", !.pr = p] \in Round
      BY TypeOK DEF TypeOK, Round, RoundSteps
    <2>3. round' = [round EXCEPT ![i] = [round[i] EXCEPT !.at = "picked", !.pr = p]]
      BY <2>1, TypeOK DEF TypeOK
    <2>4. round' \in [Issues -> Round]
      BY <2>2, <2>3, TypeOK DEF TypeOK
    <2> QED  BY <1>1, <2>4, TypeOK DEF RoundRead, TypeOK, store, git
  <1>2. CASE RoundStop(i)
    BY <1>2, TypeOK, IdleIsTyped DEF RoundStop, TypeOK, store, git
  <1>3. CASE RoundCheckout(i)
    <2>1. StartOf(i) \in SUBSET Commits
      BY TypeOK DEF StartOf, TypeOK
    <2>2. round' \in [Issues -> Round]
      <3>1. "working" \in RoundSteps
        BY DEF RoundSteps
      <3> QED  BY <1>3, <2>1, <3>1, TypeOK, RoundFieldsAreTyped DEF RoundCheckout
    <2> QED  BY <1>3, <2>1, <2>2, TypeOK DEF RoundCheckout, TypeOK, store
  <1>4. CASE RoundPublish(i)
    <2>1. checkout[i] \cup {fresh} \in SUBSET Commits /\ fresh' \in 1..MaxCommits + 1
      BY <1>4, TypeOK DEF RoundPublish, TypeOK, Commits
    <2>2. round' \in [Issues -> Round]
      <3>1. "published" \in RoundSteps /\ {} \in SUBSET Commits
        BY DEF RoundSteps
      <3> QED  BY <1>4, <3>1, TypeOK, RoundFieldsAreTyped DEF RoundPublish
    <2> QED  BY <1>4, <2>1, <2>2, TypeOK DEF RoundPublish, TypeOK, store
  <1>5. CASE RoundRecord(i)
    <2>1. pr' \in [Records -> Record]
      <3>1. \A r \in Record : RecordCodingRound(r) \in Record /\ RecordMergeRound(r) \in Record
        BY UpdatesAreTyped
      <3> QED  BY <1>5, <3>1, TypeOK DEF RoundRecord, TypeOK
    <2>2. issue' \in [Issues -> IssueStates]
      BY <1>5, AggregateIsTyped, TypeOK DEF RoundRecord, IssueStates
    <2>3. round' \in [Issues -> Round]
      BY <1>5, IdleIsTyped, TypeOK DEF RoundRecord, TypeOK
    <2> QED  BY <1>5, <2>1, <2>2, <2>3, TypeOK DEF RoundRecord, TypeOK, git
  <1>6. ASSUME NEW approved \in BOOLEAN, RoundReview(i, approved)
        PROVE  TypeOK'
    <2>1. pr' \in [Records -> Record]
      <3>1. checkout[i] \in SUBSET Commits
        BY TypeOK DEF TypeOK
      <3>2. \A r \in Record : RecordReview(r, approved, checkout[i]) \in Record
        BY <3>1, UpdatesAreTyped
      <3> QED  BY <1>6, <3>2, TypeOK DEF RoundReview, TypeOK
    <2>2. issue' \in [Issues -> IssueStates]
      BY <1>6, AggregateIsTyped, TypeOK DEF RoundReview, IssueStates
    <2>3. round' \in [Issues -> Round]
      BY <1>6, IdleIsTyped, TypeOK DEF RoundReview, TypeOK
    <2> QED  BY <1>6, <2>1, <2>2, <2>3, TypeOK DEF RoundReview, TypeOK, git
  <1>7. CASE RoundFail(i)
    BY <1>7, TypeOK, IdleIsTyped DEF RoundFail, TypeOK, store, git
  <1> QED  BY <1>1, <1>2, <1>3, <1>4, <1>5, <1>6, <1>7 DEF RoundStep

\* Setting some fields of caller c's call to values of their types.
LEMMA CallFieldsAreTyped ==
    ASSUME TypeOK, NEW c \in Callers, NEW at \in CallSteps, NEW p \in {0} \cup Records,
           NEW seen \in SUBSET Commits, NEW todo \in SUBSET Issues
    PROVE  /\ [call EXCEPT ![c].at = at] \in [Callers -> Call]
           /\ [call EXCEPT ![c].at = at, ![c].todo = todo] \in [Callers -> Call]
           /\ [call EXCEPT ![c].at = at, ![c].pr = p] \in [Callers -> Call]
           /\ [call EXCEPT ![c].at = at, ![c].pr = p, ![c].seen = seen] \in [Callers -> Call]
  <1>1. /\ [call[c] EXCEPT !.at = at] \in Call
        /\ [call[c] EXCEPT !.at = at, !.todo = todo] \in Call
        /\ [call[c] EXCEPT !.at = at, !.pr = p] \in Call
        /\ [call[c] EXCEPT !.at = at, !.pr = p, !.seen = seen] \in Call
    BY TypeOK DEF TypeOK, Call
  <1>2. /\ [call EXCEPT ![c].at = at]
              = [call EXCEPT ![c] = [call[c] EXCEPT !.at = at]]
        /\ [call EXCEPT ![c].at = at, ![c].todo = todo]
              = [call EXCEPT ![c] = [call[c] EXCEPT !.at = at, !.todo = todo]]
        /\ [call EXCEPT ![c].at = at, ![c].pr = p]
              = [call EXCEPT ![c] = [call[c] EXCEPT !.at = at, !.pr = p]]
        /\ [call EXCEPT ![c].at = at, ![c].pr = p, ![c].seen = seen]
              = [call EXCEPT ![c] = [call[c] EXCEPT !.at = at, !.pr = p, !.seen = seen]]
    BY TypeOK DEF TypeOK
  <1> QED  BY <1>1, <1>2, TypeOK DEF TypeOK

\* The steps of a use case keep the types.
LEMMA CallsAreTyped ==
    ASSUME TypeOK, RecordsNamed, MergesNamed,
           NEW c \in Callers, CallStart(c) \/ CallStep(c) \/ CallFail(c)
    PROVE  TypeOK'
  <1> USE ConstantsAreTyped, RecordsNamed, MergesNamed
  <1>call. \A d \in SUBSET Issues : Deleting(d) \in Call
    BY IdleIsTyped DEF Deleting, IdleCall, Call, CallSteps
  <1>1. CASE OpenRead(c)
    <2> DEFINE due == {i \in Issues : /\ issue[i] = "Open"
                                      /\ ~Blocked(issue, Waits, i)
                                      /\ OpenRecords(i) = {}}
    <2>1. due \in SUBSET Issues /\ "open-cut" \in CallSteps
      BY DEF CallSteps
    <2>2. call' = [call EXCEPT ![c].at = "open-cut", ![c].todo = due]
      BY <1>1 DEF OpenRead
    <2> HIDE DEF due
    <2>3. call' \in [Callers -> Call]
      BY <2>1, <2>2, TypeOK, CallFieldsAreTyped
    <2> QED  BY <1>1, <2>3, TypeOK DEF OpenRead, TypeOK, store, git
  <1>2. CASE OpenCut(c)
    <2>1. PICK i \in call[c].todo :
             /\ checkout' = [checkout EXCEPT ![i] = StartOf(i)]
             /\ branch' = [branch EXCEPT ![i] = StartOf(i)]
             /\ call' = [call EXCEPT ![c].at = "open-record", ![c].issue = i,
                                     ![c].todo = @ \ {i}]
      BY <1>2 DEF OpenCut
    <2>2. i \in Issues /\ StartOf(i) \in SUBSET Commits
      BY TypeOK DEF TypeOK, Call, StartOf
    <2>3. [call[c] EXCEPT !.at = "open-record", !.issue = i, !.todo = @ \ {i}] \in Call
      <3>1. call[c] \in Call
        BY TypeOK DEF TypeOK
      <3> QED  BY <2>2, <3>1 DEF Call, CallSteps
    <2>4. call' = [call EXCEPT ![c] =
                     [call[c] EXCEPT !.at = "open-record", !.issue = i, !.todo = @ \ {i}]]
      BY <2>1, TypeOK DEF TypeOK
    <2>5. call' \in [Callers -> Call]
      BY <2>3, <2>4, TypeOK DEF TypeOK
    <2> QED  BY <1>2, <2>1, <2>2, <2>5, TypeOK DEF OpenCut, TypeOK, store
  <1>3. CASE OpenRecord(c)
    <2>1. (IF call[c].todo = {} THEN IdleCall
           ELSE [call[c] EXCEPT !.at = "open-cut", !.issue = NoIssue]) \in Call
      BY IdleIsTyped, TypeOK DEF TypeOK, Call, CallSteps
    <2>2. call' \in [Callers -> Call]
      BY <1>3, <2>1, TypeOK DEF OpenRecord, TypeOK
    <2> QED  BY <1>3, <2>2, AggregateIsTyped, TypeOK DEF OpenRecord, TypeOK, git
  <1>4. ASSUME NEW p \in Records, SweepRead(c, p) \/ MergeRead(c, p) \/ ResetRead(c, p)
        PROVE  TypeOK'
    <2>1. pr[p].reviewed \in SUBSET Commits
      BY TypeOK DEF TypeOK, Record
    <2>2. call' \in [Callers -> Call]
      <3> {"sweep-inspect", "merge-land", "reset-drain"} \subseteq CallSteps /\ p \in {0} \cup Records
        BY DEF CallSteps
      <3>1. CASE SweepRead(c, p)
        BY <2>1, <3>1, TypeOK, CallFieldsAreTyped DEF SweepRead
      <3>2. CASE MergeRead(c, p)
        BY <3>2, TypeOK, CallFieldsAreTyped DEF MergeRead
      <3>3. CASE ResetRead(c, p)
        BY <3>3, TypeOK, CallFieldsAreTyped DEF ResetRead
      <3> QED  BY <1>4, <3>1, <3>2, <3>3
    <2> QED  BY <1>4, <2>2, TypeOK DEF SweepRead, MergeRead, ResetRead, TypeOK, store, git
  <1>5. CASE SweepInspect(c)
    <2> DEFINE at == SweepVerdict(branch[pr[call[c].pr].issue], call[c].seen)
    <2>1. at \in CallSteps
      BY DEF SweepVerdict, CallSteps
    <2>2. (IF at = "idle" THEN IdleCall ELSE [call[c] EXCEPT !.at = at]) \in Call
      BY <2>1, IdleIsTyped, TypeOK DEF TypeOK, Call
    <2> HIDE DEF at
    <2>3. call' \in [Callers -> Call]
      BY <1>5, <2>2, TypeOK DEF SweepInspect, TypeOK, at
    <2> QED  BY <1>5, <2>3, TypeOK DEF SweepInspect, TypeOK, store, git
  <1>6. CASE SweepStale(c) \/ MergeStale(c)
    BY <1>6, AggregateIsTyped, IdleIsTyped, TypeOK DEF SweepStale, MergeStale, TypeOK, git
  <1>7. CASE SweepPush(c)
    <2>1. \A r \in Record : RecordExternalPush(r) \in Record
      BY UpdatesAreTyped
    <2>2. pr' \in [Records -> Record]
      BY <1>7, <2>1, TypeOK DEF SweepPush, TypeOK
    <2>3. issue' \in [Issues -> IssueStates]
      BY <1>7, AggregateIsTyped DEF SweepPush, IssueStates
    <2> QED  BY <1>7, <2>2, <2>3, IdleIsTyped, TypeOK DEF SweepPush, TypeOK, git
  <1>8. CASE CompleteRead(c) \/ CompleteApply(c)
    <2>1. EpicTarget("done") \in EpicStates
      BY DEF EpicTarget, EpicStates
    <2>2. call' \in [Callers -> Call]
      <3>1. [call EXCEPT ![c].at = "complete"] \in [Callers -> Call]
        BY TypeOK, CallFieldsAreTyped DEF CallSteps
      <3> QED  BY <1>8, <3>1, IdleIsTyped, TypeOK DEF CompleteRead, CompleteApply, TypeOK
    <2> QED  BY <1>8, <2>1, <2>2, TypeOK DEF CompleteRead, CompleteApply, TypeOK, store, git
  <1>9. ASSUME NEW p \in Records, ClosePullRequest(c, p)
        PROVE  TypeOK'
    <2>1. pr[p].issue \in Issues
      BY <1>9 DEF ClosePullRequest, TransitionPullRequest, MoveIssue
    <2>2. call' \in [Callers -> Call]
      <3>1. {pr[p].issue} \in SUBSET Issues /\ "delete" \in CallSteps
        BY <2>1 DEF CallSteps
      <3> QED  BY <1>9, <3>1, TypeOK, CallFieldsAreTyped DEF ClosePullRequest
    <2>3. issue' \in [Issues -> IssueStates] /\ pr' \in [Records -> Record]
      BY <1>9, AggregateIsTyped DEF ClosePullRequest, RecordStatuses
    <2> QED  BY <1>9, <2>2, <2>3, TypeOK DEF ClosePullRequest, TypeOK, git
  <1>10. CASE CloseEpic(c)
    <2>1. EpicTarget("close") \in EpicStates /\ Abandoned(Issues) \in SUBSET Issues
      BY DEF EpicTarget, EpicStates, Abandoned
    <2> QED  BY <1>10, <2>1, <1>call, AggregateIsTyped, TypeOK DEF CloseEpic, TypeOK, git
  <1>11. ASSUME NEW i \in Issues, CloseIssue(c, i)
         PROVE  TypeOK'
    <2>1. Abandoned(Subtree[i]) \in SUBSET Issues
      BY DEF Abandoned
    <2> QED  BY <1>11, <2>1, <1>call, AggregateIsTyped, TypeOK DEF CloseIssue, TypeOK, git
  <1>12. CASE DeleteBranch(c)
    <2>1. PICK i \in call[c].todo :
             /\ \/ /\ branch' = [branch EXCEPT ![i] = {}]
                   /\ checkout' = [checkout EXCEPT ![i] = {}]
                \/ UNCHANGED <<branch, checkout>>
             /\ call' = [call EXCEPT ![c] = Deleting(call[c].todo \ {i})]
      BY <1>12 DEF DeleteBranch
    <2>2. call[c].todo \ {i} \in SUBSET Issues
      BY TypeOK DEF TypeOK, Call
    <2> QED  BY <1>12, <2>1, <2>2, <1>call, TypeOK DEF DeleteBranch, TypeOK, store
  <1>13. CASE MergeLand(c)
    <2> DEFINE head == branch[pr[call[c].pr].issue]
    <2>1. head \in SUBSET Commits
      BY <1>13, TypeOK DEF MergeLand, MergesNamed, RecordsNamed, TypeOK
    <2>2. base' \in SUBSET Commits /\ landed' \in [Records -> SUBSET Commits]
      BY <1>13, <2>1, TypeOK DEF MergeLand, TypeOK
    <2>3. call' \in [Callers -> Call]
      <3>1. /\ "merge-record" \in CallSteps /\ "merge-stale" \in CallSteps
            /\ 0 \in {0} \cup Records /\ {} \in SUBSET Commits /\ {} \in SUBSET Issues
        BY DEF CallSteps
      <3>2. \/ call' = [call EXCEPT ![c].at = "merge-record"]
            \/ call' = [call EXCEPT ![c].at = "merge-stale"]
        BY <1>13 DEF MergeLand
      <3>3. ASSUME NEW at \in CallSteps
            PROVE  [call EXCEPT ![c].at = at] \in [Callers -> Call]
        BY <3>1, TypeOK, CallFieldsAreTyped
      <3> QED  BY <3>1, <3>2, <3>3
    <2> QED  BY <1>13, <2>2, <2>3, TypeOK DEF MergeLand, TypeOK, store
  <1>14. CASE MergeRecord(c)
    <2>1. pr[call[c].pr].issue \in Issues
      BY <1>14 DEF MergeRecord, TransitionPullRequest, MoveIssue
    <2>2. issue' \in [Issues -> IssueStates] /\ pr' \in [Records -> Record]
      BY <1>14, AggregateIsTyped DEF MergeRecord, RecordStatuses
    <2> QED  BY <1>14, <2>1, <2>2, <1>call, TypeOK DEF MergeRecord, TypeOK, git
  <1>15. CASE ResetDrained(c)
    <2>1. call' \in [Callers -> Call]
      <3>1. /\ "reset-delete" \in CallSteps /\ 0 \in {0} \cup Records
            /\ {} \in SUBSET Commits /\ {} \in SUBSET Issues
        BY DEF CallSteps
      <3> QED  BY <1>15, <3>1, TypeOK, CallFieldsAreTyped DEF ResetDrained
    <2> QED  BY <1>15, <2>1, TypeOK DEF ResetDrained, TypeOK, store, git
  <1>16. CASE ResetDelete(c)
    <2>1. call' \in [Callers -> Call]
      BY <1>16, TypeOK, CallFieldsAreTyped DEF ResetDelete, CallSteps
    <2> QED  BY <1>16, <2>1, TypeOK DEF ResetDelete, TypeOK, store
  <1>17. CASE ResetClose(c)
    <2>1. issue' \in [Issues -> IssueStates] /\ pr' \in [Records -> Record]
      BY <1>17, AggregateIsTyped DEF ResetClose, RecordStatuses
    <2> QED  BY <1>17, <2>1, IdleIsTyped, TypeOK DEF ResetClose, TypeOK, git
  <1>18. CASE CallFail(c)
    BY <1>18, IdleIsTyped, TypeOK DEF CallFail, TypeOK, store, git
  <1>19. ASSUME NEW i \in Issues, Dispatch(c, i)
         PROVE  TypeOK'
    <2>1. PICK p \in Records :
             round' = [round EXCEPT ![i].at = "dispatched", ![i].role = RoleOf(p)]
      BY <1>19 DEF Dispatch, OpenRecords
    <2>2. RoleOf(p) \in IssueRoles \cup {"none"}
      BY DEF RoleOf, IssueRole, IssueRoles
    <2>3. [round[i] EXCEPT !.at = "dispatched", !.role = RoleOf(p)] \in Round
      BY <2>2, TypeOK DEF TypeOK, Round, RoundSteps
    <2>4. round' = [round EXCEPT ![i] =
                      [round[i] EXCEPT !.at = "dispatched", !.role = RoleOf(p)]]
      BY <2>1, TypeOK DEF TypeOK
    <2>5. round' \in [Issues -> Round]
      BY <2>3, <2>4, TypeOK DEF TypeOK
    <2> QED  BY <1>19, <2>5, TypeOK DEF Dispatch, TypeOK, store, git
  <1> QED
    BY <1>1, <1>2, <1>3, <1>4, <1>5, <1>6, <1>7, <1>8, <1>9, <1>10, <1>11, <1>12, <1>13,
       <1>14, <1>15, <1>16, <1>17, <1>18, <1>19 DEF CallStart, CallStep

\* What a person or the outside does in one step keeps the types.
LEMMA OutsideIsTyped ==
    ASSUME TypeOK, Outside
    PROVE  TypeOK'
  <1> USE ConstantsAreTyped
  <1>1. ASSUME NEW p \in Records, Grant(p)
        PROVE  TypeOK'
    <2>1. GrantCodingRound(pr[p]) \in Record
      BY UpdatesAreTyped, TypeOK DEF TypeOK
    <2> QED  BY <1>1, <2>1, TypeOK DEF Grant, TypeOK, git
  <1>2. ASSUME NEW i \in Issues, CreatePullRequest(i)
        PROVE  TypeOK'
    BY <1>2, AggregateIsTyped, TypeOK DEF CreatePullRequest, TypeOK, git
  <1>3. ASSUME NEW next \in EpicStates, TransitionEpic(next)
        PROVE  TypeOK'
    BY <1>3, TypeOK DEF TransitionEpic, TypeOK, git
  <1>4. ASSUME NEW i \in Issues, HandPush(i)
        PROVE  TypeOK'
    <2>1. PICK merged \in {{}, base} :
             branch' = [branch EXCEPT ![i] = @ \cup merged \cup {fresh}]
      BY <1>4 DEF HandPush
    <2>2. fresh \in Commits /\ fresh' \in 1..MaxCommits + 1
      BY <1>4, TypeOK DEF HandPush, TypeOK, Commits
    <2>3. branch[i] \in SUBSET Commits /\ merged \in SUBSET Commits
      BY TypeOK DEF TypeOK
    <2>4. branch[i] \cup merged \cup {fresh} \in SUBSET Commits
      BY <2>2, <2>3
    <2> QED  BY <1>4, <2>1, <2>2, <2>4, TypeOK DEF HandPush, TypeOK, store
  <1>5. CASE BaseMoves
    BY <1>5, TypeOK DEF BaseMoves, TypeOK, Commits, store
  <1>6. CASE Crash
    BY <1>6, IdleIsTyped, TypeOK DEF Crash, TypeOK, store, git
  <1> QED  BY <1>1, <1>2, <1>3, <1>4, <1>5, <1>6 DEF Outside

\* Every step keeps every state well typed.
LEMMA TypesStep ==
    ASSUME TypeOK, RecordsNamed, MergesNamed, [Next]_vars
    PROVE  TypeOK'
  <1>1. CASE UNCHANGED vars
    BY <1>1, TypeOK DEF vars, store, git, TypeOK
  <1>2. CASE \E i \in Issues : RoundStep(i) \/ RoundFail(i)
    BY <1>2, RoundsAreTyped
  <1>3. CASE \E c \in Callers : CallStart(c) \/ CallStep(c) \/ CallFail(c)
    BY <1>3, CallsAreTyped
  <1>4. CASE Outside
    BY <1>4, OutsideIsTyped
  <1> QED  BY <1>1, <1>2, <1>3, <1>4 DEF Next

-----------------------------------------------------------------------------
(* What a step may make of a record.  Every invariant about records follows  *)
(* from this case split instead of from the actions one by one.              *)

Made(p) == pr[p].status = "Absent" /\ \E i \in Issues : pr'[p] = NewRecord(i)

Coded(p) ==
    /\ \E i \in Issues : round[i].at = "published" /\ round[i].role = "coding"
                            /\ round[i].pr = p /\ round'[i] = IdleRound
    /\ pr'[p] = RecordCodingRound(pr[p])

Judged(p) == \E approved \in BOOLEAN, head \in (SUBSET Commits) \ {{}} :
                 pr'[p] = RecordReview(pr[p], approved, head)

Settled(p) == \E status \in {"Merged", "Closed"} :
                  pr[p].status = "Open" /\ pr'[p] = [pr[p] EXCEPT !.status = status]

Granted(p) == pr[p].status = "Open" /\ pr'[p] = GrantCodingRound(pr[p])

RecordStep(p) ==
    \/ pr'[p] = pr[p]
    \/ Made(p) \/ Coded(p) \/ Judged(p) \/ Settled(p) \/ Granted(p)
    \/ pr'[p] = RecordMergeRound(pr[p])
    \/ pr'[p] = RecordExternalPush(pr[p])
    \/ pr'[p] = [pr[p] EXCEPT !.stale = TRUE]

\* Every step makes one of the updates of the aggregate of a record, or none, and
\* counts a coding round only when a coding round of that record ends.
LEMMA RecordsStep ==
    ASSUME TypeOK, [Next]_vars, NEW p \in Records
    PROVE  RecordStep(p)
  <1>1. ASSUME NEW i \in Issues, RoundRecord(i)
        PROVE  RecordStep(p)
    BY <1>1, TypeOK DEF RoundRecord, TypeOK, RecordStep, Coded
  <1>2. ASSUME NEW i \in Issues, NEW approved \in BOOLEAN, RoundReview(i, approved)
        PROVE  RecordStep(p)
    <2>1. checkout[i] \in (SUBSET Commits) \ {{}}
      BY <1>2, TypeOK DEF RoundReview, TypeOK
    <2>2. pr' = [pr EXCEPT ![round[i].pr] =
                    RecordReview(pr[round[i].pr], approved, checkout[i])]
      BY <1>2 DEF RoundReview
    <2>3. CASE p = round[i].pr
      <3>1. pr'[p] = RecordReview(pr[p], approved, checkout[i])
        BY <2>2, <2>3, TypeOK DEF TypeOK
      <3>2. Judged(p)
        BY <2>1, <3>1 DEF Judged
      <3> QED  BY <3>2 DEF RecordStep
    <2>4. CASE p # round[i].pr
      BY <2>2, <2>4, TypeOK DEF TypeOK, RecordStep
    <2> QED  BY <2>3, <2>4
  <1>3. ASSUME NEW i, AddPullRequest(i)
        PROVE  RecordStep(p)
    BY <1>3, TypeOK DEF AddPullRequest, IsNextRecord, MoveIssue, TypeOK, RecordStep, Made
  <1>4. ASSUME NEW q, NEW status \in {"Merged", "Closed"}, TransitionPullRequest(q, status)
        PROVE  RecordStep(p)
    BY <1>4, TypeOK DEF TransitionPullRequest, TypeOK, RecordStep, Settled
  <1>5. ASSUME NEW q, MarkStale(q)
        PROVE  RecordStep(p)
    BY <1>5, TypeOK DEF MarkStale, TypeOK, RecordStep
  <1>6. ASSUME NEW closing, CloseAll(closing)
        PROVE  RecordStep(p)
    BY <1>6, TypeOK DEF CloseAll, TypeOK, RecordStep, Settled
  <1>7. ASSUME NEW c \in Callers, SweepPush(c)
        PROVE  RecordStep(p)
    BY <1>7, TypeOK DEF SweepPush, TypeOK, RecordStep
  <1>8. ASSUME NEW q \in Records, Grant(q)
        PROVE  RecordStep(p)
    BY <1>8, TypeOK DEF Grant, TypeOK, RecordStep, Granted
  <1>9. CASE UNCHANGED pr
    BY <1>9 DEF RecordStep
  <1>10. ASSUME NEW i \in Issues, RoundStep(i) \/ RoundFail(i)
         PROVE  RecordStep(p)
    BY <1>1, <1>2, <1>9, <1>10
       DEF RoundStep, RoundRead, RoundStop, RoundCheckout, RoundPublish, RoundFail, store
  <1>11. ASSUME NEW c \in Callers, CallStart(c)
         PROVE  RecordStep(p)
    BY <1>4, <1>6, <1>9, <1>11
       DEF CallStart, OpenRead, CompleteRead, CloseEpic, Dispatch, CloseIssue, SweepRead,
           ClosePullRequest, MergeRead, ResetRead, store
  <1>12. ASSUME NEW c \in Callers, CallStep(c) \/ CallFail(c)
         PROVE  RecordStep(p)
    BY <1>3, <1>4, <1>5, <1>7, <1>9, <1>12
       DEF CallStep, OpenCut, OpenRecord, SweepInspect, SweepStale, CompleteApply,
           DeleteBranch, MergeLand, MergeRecord, MergeStale, ResetDrained, ResetDelete,
           ResetClose, CallFail, store
  <1>13. CASE Outside
    BY <1>3, <1>8, <1>9, <1>13
       DEF Outside, CreatePullRequest, TransitionEpic, HandPush, BaseMoves, Crash, store
  <1> QED  BY <1>9, <1>10, <1>11, <1>12, <1>13 DEF Next, vars, store

-----------------------------------------------------------------------------
(* The inductive invariant.                                                 *)

\* A round that has read its record holds a record of its own issue, and a coding
\* round in flight still has the allowance it is about to spend: only a round of
\* the same issue could spend it, and there is one round per issue.
RoundsHold ==
    \A i \in Issues :
        round[i].at \in {"picked", "working", "published"} =>
            /\ round[i].pr \in Records
            /\ pr[round[i].pr].status # "Absent"
            /\ pr[round[i].pr].issue = i
            /\ round[i].role = "coding" => CanCode(pr[round[i].pr])

IInv == TypeOK /\ RecordsNamed /\ MergesNamed /\ RoundsHold /\ CodingRationed

\* A record that was made keeps its issue.
LEMMA RecordsKeepTheirIssue ==
    ASSUME TypeOK, [Next]_vars, NEW p \in Records, pr[p].status # "Absent"
    PROVE  pr'[p].status # "Absent" /\ pr'[p].issue = pr[p].issue
  <1>1. pr[p] \in Record
    BY TypeOK DEF TypeOK
  <1>2. RecordStep(p)
    BY RecordsStep
  <1> QED
    BY <1>1, <1>2
       DEF RecordStep, Made, Coded, Judged, Settled, Granted, Record, RecordStatuses,
           RecordCodingRound, RecordMergeRound, RecordExternalPush, RecordReview,
           GrantCodingRound, InvalidateReview

\* Only a coding round of a record spends its allowance.
LEMMA OnlyCodingSpends ==
    ASSUME TypeOK, [Next]_vars, NEW p \in Records, pr[p].status # "Absent", ~Coded(p)
    PROVE  /\ CanCode(pr[p]) => CanCode(pr'[p])
           /\ pr[p].coding <= MaxCodingRounds + pr[p].granted
                 => pr'[p].coding <= MaxCodingRounds + pr'[p].granted
  <1>1. pr[p] \in Record
    BY TypeOK DEF TypeOK
  <1>2. RecordStep(p)
    BY RecordsStep
  <1>3. \/ pr'[p].coding = pr[p].coding /\ pr'[p].granted = pr[p].granted
        \/ pr'[p].coding = pr[p].coding /\ pr'[p].granted = pr[p].granted + 1
    BY <1>1, <1>2
       DEF RecordStep, Made, Judged, Settled, Granted, Record, RecordStatuses,
           RecordMergeRound, RecordExternalPush, RecordReview,
           GrantCodingRound, InvalidateReview
  <1> QED  BY <1>1, <1>3, MaxCodingRoundsIsPositive DEF CanCode, Record

\* What a step may make of the round of an issue.
LEMMA RoundsStep ==
    ASSUME TypeOK, [Next]_vars, NEW i \in Issues
    PROVE  \/ round'[i] = round[i]
           \/ round'[i].at \in {"idle", "dispatched"}
           \/ /\ pr' = pr
              /\ \E p \in Records :
                    /\ pr[p].issue = i /\ pr[p].status = "Open"
                    /\ RoleOf(p) = round[i].role
                    /\ round'[i].pr = p /\ round'[i].role = round[i].role
           \/ /\ pr' = pr
              /\ round[i].at \in {"picked", "working"}
              /\ round'[i].pr = round[i].pr /\ round'[i].role = round[i].role
  <1> DEFINE Goal == \/ round'[i] = round[i]
                     \/ round'[i].at \in {"idle", "dispatched"}
                     \/ /\ pr' = pr
                        /\ \E p \in Records :
                              /\ pr[p].issue = i /\ pr[p].status = "Open"
                              /\ RoleOf(p) = round[i].role
                              /\ round'[i].pr = p /\ round'[i].role = round[i].role
                     \/ /\ pr' = pr
                        /\ round[i].at \in {"picked", "working"}
                        /\ round'[i].pr = round[i].pr /\ round'[i].role = round[i].role
  <1> SUFFICES Goal
    OBVIOUS
  <1>1. CASE UNCHANGED round
    BY <1>1
  <1>2. ASSUME NEW j \in Issues, RoundRead(j)
        PROVE  Goal
    <2>1. PICK p \in Records :
             /\ pr[p].issue = j /\ pr[p].status = "Open"
             /\ RoleOf(p) = round[j].role
             /\ round' = [round EXCEPT ![j].at = "picked", ![j].pr = p]
      BY <1>2 DEF RoundRead, IsOpenRecordFor, OpenRecords
    <2>2. pr' = pr
      BY <1>2 DEF RoundRead, store
    <2>3. i = j => round'[i].pr = p /\ round'[i].role = round[i].role
      BY <2>1, TypeOK DEF TypeOK, Round
    <2>4. i # j => round'[i] = round[i]
      BY <2>1, TypeOK DEF TypeOK
    <2> QED  BY <2>1, <2>2, <2>3, <2>4
  <1>3. ASSUME NEW j \in Issues, RoundCheckout(j) \/ RoundPublish(j)
        PROVE  Goal
    <2>1. pr' = pr
      BY <1>3 DEF RoundCheckout, RoundPublish, store
    <2>2. i = j => /\ round[i].at \in {"picked", "working"}
                   /\ round'[i].pr = round[i].pr /\ round'[i].role = round[i].role
      BY <1>3, TypeOK DEF RoundCheckout, RoundPublish, TypeOK, Round
    <2>3. i # j => round'[i] = round[i]
      BY <1>3, TypeOK DEF RoundCheckout, RoundPublish, TypeOK
    <2> QED  BY <2>1, <2>2, <2>3
  <1>4. ASSUME NEW j \in Issues, round' = [round EXCEPT ![j] = IdleRound]
        PROVE  Goal
    BY <1>4, TypeOK DEF TypeOK, IdleRound
  <1>5. ASSUME NEW c \in Callers, NEW j \in Issues, Dispatch(c, j)
        PROVE  Goal
    <2>1. PICK role : round' = [round EXCEPT ![j].at = "dispatched", ![j].role = role]
      BY <1>5 DEF Dispatch
    <2>2. i = j => round'[i].at = "dispatched"
      BY <2>1, TypeOK DEF TypeOK, Round
    <2>3. i # j => round'[i] = round[i]
      BY <2>1, TypeOK DEF TypeOK
    <2> QED  BY <2>2, <2>3
  <1>6. CASE Crash
    BY <1>6 DEF Crash, IdleRound
  <1> HIDE DEF Goal
  <1>7. ASSUME NEW j \in Issues, RoundStep(j) \/ RoundFail(j)
        PROVE  Goal
    BY <1>2, <1>3, <1>4, <1>7
       DEF RoundStep, RoundStop, RoundRecord, RoundReview, RoundFail
  <1>8. ASSUME NEW c \in Callers, CallStart(c) \/ CallStep(c) \/ CallFail(c)
        PROVE  Goal
    <2>1. CASE CallStart(c)
      <3>1. OpenRead(c) \/ CompleteRead(c) \/ CloseEpic(c) => UNCHANGED round
        BY DEF OpenRead, CompleteRead, CloseEpic
      <3>2. \A j \in Issues : CloseIssue(c, j) => UNCHANGED round
        BY DEF CloseIssue
      <3>3. \A p \in Records :
               SweepRead(c, p) \/ ClosePullRequest(c, p) \/ MergeRead(c, p) \/ ResetRead(c, p)
                  => UNCHANGED round
        BY DEF SweepRead, ClosePullRequest, MergeRead, ResetRead
      <3> QED  BY <1>1, <1>5, <2>1, <3>1, <3>2, <3>3 DEF CallStart
    <2>2. CASE CallStep(c)
      <3>1. OpenCut(c) \/ OpenRecord(c) \/ SweepInspect(c) \/ SweepStale(c) \/ SweepPush(c)
               \/ CompleteApply(c) \/ DeleteBranch(c) => UNCHANGED round
        BY DEF OpenCut, OpenRecord, SweepInspect, SweepStale, SweepPush, CompleteApply,
               DeleteBranch
      <3>2. MergeLand(c) \/ MergeRecord(c) \/ MergeStale(c) \/ ResetDrained(c)
               \/ ResetDelete(c) \/ ResetClose(c) => UNCHANGED round
        BY DEF MergeLand, MergeRecord, MergeStale, ResetDrained, ResetDelete, ResetClose
      <3> QED  BY <1>1, <2>2, <3>1, <3>2 DEF CallStep
    <2>3. CASE CallFail(c)
      BY <1>1, <2>3 DEF CallFail
    <2> QED  BY <1>8, <2>1, <2>2, <2>3
  <1>9. CASE Outside
    BY <1>1, <1>6, <1>9
       DEF Outside, Grant, CreatePullRequest, TransitionEpic, HandPush, BaseMoves
  <1> QED  BY <1>1, <1>7, <1>8, <1>9 DEF Next, vars

\* An inspection ends its sweep, or finds the approved branch stale or pushed to.
LEMMA InspectionsEnd ==
    ASSUME TypeOK, NEW d \in Callers, SweepInspect(d)
    PROVE  /\ \A e \in Callers \ {d} : call'[e] = call[e]
           /\ call'[d].at \in {"idle", "sweep-stale", "sweep-push"}
  <1> DEFINE at == SweepVerdict(branch[pr[call[d].pr].issue], call[d].seen)
  <1>1. at \in {"idle", "sweep-stale", "sweep-push"}
    BY DEF SweepVerdict
  <1>2. call' = [call EXCEPT ![d] = IF at = "idle" THEN IdleCall ELSE [@ EXCEPT !.at = at]]
    BY DEF SweepInspect
  <1>3. call \in [Callers -> Call]
    BY TypeOK DEF TypeOK
  <1> HIDE DEF at
  <1>4. call'[d] = IF at = "idle" THEN IdleCall ELSE [call[d] EXCEPT !.at = at]
    BY <1>2, <1>3
  <1>5. call[d] \in Call
    BY <1>3
  <1>6. CASE at = "idle"
    BY <1>2, <1>3, <1>4, <1>6 DEF IdleCall
  <1>7. CASE at # "idle"
    BY <1>1, <1>2, <1>3, <1>4, <1>5, <1>7 DEF Call
  <1> QED  BY <1>6, <1>7

\* A merge that is about to publish was asked for with an open record.
LEMMA MergesStep ==
    ASSUME TypeOK, [Next]_vars, NEW c \in Callers, call'[c].at = "merge-land"
    PROVE  \/ call'[c] = call[c]
           \/ /\ pr' = pr
              /\ call'[c].pr \in Records /\ pr[call'[c].pr].status = "Open"
  <1> DEFINE Goal == \/ call'[c] = call[c]
                     \/ /\ pr' = pr
                        /\ call'[c].pr \in Records /\ pr[call'[c].pr].status = "Open"
  <1> SUFFICES Goal
    OBVIOUS
  <1>1. CASE UNCHANGED call
    BY <1>1
  <1>2. ASSUME NEW d \in Callers, NEW p \in Records, MergeRead(d, p)
        PROVE  Goal
    <2>1. /\ pr' = pr /\ pr[p].status = "Open"
          /\ call' = [call EXCEPT ![d].at = "merge-land", ![d].pr = p]
      BY <1>2 DEF MergeRead, store
    <2>2. c = d => call'[c].pr = p
      BY <2>1, TypeOK DEF TypeOK, Call
    <2>3. c # d => call'[c] = call[c]
      BY <2>1, TypeOK DEF TypeOK
    <2> QED  BY <2>1, <2>2, <2>3
  <1>3. ASSUME NEW d \in Callers,
               \A e \in Callers \ {d} : call'[e] = call[e],
               call'[d].at # "merge-land"
        PROVE  Goal
    BY <1>3
  <1>4. CASE Crash
    BY <1>4 DEF Crash, IdleCall
  <1> HIDE DEF Goal
  <1>idle. \A d \in SUBSET Issues : Deleting(d).at # "merge-land"
    BY DEF Deleting, IdleCall
  <1>5. ASSUME NEW d \in Callers, CallStart(d)
        PROVE  Goal
    <2>1. CASE OpenRead(d)
      BY <1>3, <2>1, TypeOK DEF OpenRead, TypeOK, Call
    <2>2. CASE CompleteRead(d)
      BY <1>3, <2>2, TypeOK DEF CompleteRead, TypeOK, Call
    <2>3. CASE CloseEpic(d)
      BY <1>3, <1>idle, <2>3, TypeOK DEF CloseEpic, Abandoned, TypeOK
    <2>4. ASSUME NEW i \in Issues, CloseIssue(d, i)
          PROVE  Goal
      <3>1. Abandoned(Subtree[i]) \in SUBSET Issues
        BY ConstantsAreTyped DEF Abandoned
      <3> QED  BY <1>3, <1>idle, <2>4, <3>1, TypeOK DEF CloseIssue, TypeOK
    <2>5. ASSUME NEW p \in Records, SweepRead(d, p) \/ ClosePullRequest(d, p) \/ ResetRead(d, p)
          PROVE  Goal
      BY <1>3, <2>5, TypeOK DEF SweepRead, ClosePullRequest, ResetRead, TypeOK, Call
    <2>6. ASSUME NEW i \in Issues, Dispatch(d, i)
          PROVE  Goal
      BY <1>1, <2>6 DEF Dispatch
    <2> QED  BY <1>2, <1>5, <2>1, <2>2, <2>3, <2>4, <2>5, <2>6 DEF CallStart
  <1>6. ASSUME NEW d \in Callers, CallStep(d) \/ CallFail(d)
        PROVE  Goal
    <2>1. CASE OpenCut(d)
      BY <1>3, <2>1, TypeOK DEF OpenCut, TypeOK, Call
    <2>2. CASE OpenRecord(d)
      BY <1>3, <2>2, TypeOK DEF OpenRecord, IdleCall, TypeOK, Call
    <2>3. CASE SweepInspect(d)
      BY <1>3, <2>3, TypeOK, InspectionsEnd
    <2>4. CASE DeleteBranch(d)
      BY <1>3, <1>idle, <2>4, TypeOK DEF DeleteBranch, TypeOK, Call
    <2>5. CASE MergeLand(d)
      BY <1>3, <2>5, TypeOK DEF MergeLand, TypeOK, Call
    <2>6. CASE MergeRecord(d)
      <3>1. pr[call[d].pr].issue \in Issues
        BY <2>6 DEF MergeRecord, TransitionPullRequest, MoveIssue
      <3> QED  BY <1>3, <1>idle, <2>6, <3>1, TypeOK DEF MergeRecord, TypeOK
    <2>7. CASE ResetDrained(d) \/ ResetDelete(d)
      BY <1>3, <2>7, TypeOK DEF ResetDrained, ResetDelete, TypeOK, Call
    <2>8. CASE SweepStale(d) \/ SweepPush(d) \/ CompleteApply(d) \/ MergeStale(d)
                  \/ ResetClose(d) \/ CallFail(d)
      BY <1>3, <2>8, TypeOK
         DEF SweepStale, SweepPush, CompleteApply, MergeStale, ResetClose, CallFail,
             IdleCall, TypeOK
    <2> QED
      BY <1>6, <2>1, <2>2, <2>3, <2>4, <2>5, <2>6, <2>7, <2>8 DEF CallStep
  <1>7. ASSUME NEW i \in Issues, RoundStep(i) \/ RoundFail(i)
        PROVE  Goal
    BY <1>1, <1>7
       DEF RoundStep, RoundRead, RoundStop, RoundCheckout, RoundPublish, RoundRecord,
           RoundReview, RoundFail
  <1>8. CASE Outside
    BY <1>1, <1>4, <1>8
       DEF Outside, Grant, CreatePullRequest, TransitionEpic, HandPush, BaseMoves
  <1> QED  BY <1>1, <1>5, <1>6, <1>7, <1>8 DEF Next, vars

-----------------------------------------------------------------------------
(* Verdicts and settled issues.                                             *)

\* No update of a record leaves an approval of a round it did not see.
LEMMA VerdictsStep ==
    ASSUME TypeOK, VerdictCoversRounds, [Next]_vars
    PROVE  VerdictCoversRounds'
  <1> SUFFICES ASSUME NEW p \in Records, pr'[p].approved
               PROVE  pr'[p].reviews = pr'[p].rounds /\ pr'[p].reviewed # {}
    BY DEF VerdictCoversRounds, Records
  <1>1. /\ pr[p] \in Record /\ RecordStep(p)
        /\ pr[p].approved => pr[p].reviews = pr[p].rounds /\ pr[p].reviewed # {}
    BY RecordsStep, TypeOK, VerdictCoversRounds DEF TypeOK, VerdictCoversRounds
  <1>2. CASE Judged(p)
    BY <1>1, <1>2 DEF Judged, RecordReview, Record
  <1>3. CASE Made(p)
    BY <1>3 DEF Made, NewRecord
  <1>4. CASE \/ Coded(p) \/ pr'[p] = RecordMergeRound(pr[p])
             \/ pr'[p] = RecordExternalPush(pr[p])
    BY <1>1, <1>4
       DEF Coded, RecordCodingRound, RecordMergeRound, RecordExternalPush,
           InvalidateReview, Record
  <1>5. CASE \/ pr'[p] = pr[p] \/ Settled(p) \/ Granted(p)
             \/ pr'[p] = [pr[p] EXCEPT !.stale = TRUE]
    BY <1>1, <1>5 DEF Settled, Granted, GrantCodingRound, Record
  <1> QED  BY <1>1, <1>2, <1>3, <1>4, <1>5 DEF RecordStep

\* The flag follows the counters it is computed from: it is never left up where a
\* coding round is still allowed, and never down where every round was judged, none
\* is allowed and the last verdict asked for changes.
FlagFollowsCounters ==
    \A p \in Records :
        /\ pr[p].reviews <= pr[p].rounds
        /\ pr[p].limit => ~CanCode(pr[p])
        /\ pr[p].reviews = pr[p].rounds /\ ~pr[p].approved /\ ~CanCode(pr[p])
              => pr[p].limit

LEMMA FlagsStep ==
    ASSUME TypeOK, FlagFollowsCounters, [Next]_vars
    PROVE  FlagFollowsCounters'
  <1> DEFINE Honest(r) ==
                /\ r.reviews <= r.rounds
                /\ r.limit => ~CanCode(r)
                /\ r.reviews = r.rounds /\ ~r.approved /\ ~CanCode(r) => r.limit
  <1> SUFFICES ASSUME NEW p \in Records
               PROVE  Honest(pr'[p])
    BY DEF FlagFollowsCounters, Records, CanCode
  <1>1. pr[p] \in Record /\ RecordStep(p) /\ Honest(pr[p])
    BY RecordsStep, TypeOK, FlagFollowsCounters DEF TypeOK, FlagFollowsCounters
  <1> USE MaxCodingRoundsIsPositive DEF CanCode
  <1>2. CASE Made(p)
    BY <1>2 DEF Made, NewRecord
  <1>3. CASE Coded(p)
    BY <1>1, <1>3 DEF Coded, RecordCodingRound, InvalidateReview, Record
  <1>4. CASE Judged(p)
    <2>1. PICK approved \in BOOLEAN, head \in SUBSET Commits :
             pr'[p] = RecordReview(pr[p], approved, head)
      BY <1>4 DEF Judged
    <2>2. /\ pr'[p].reviews = pr[p].rounds /\ pr'[p].rounds = pr[p].rounds
          /\ pr'[p].coding = pr[p].coding /\ pr'[p].granted = pr[p].granted
          /\ pr'[p].approved = approved
          /\ pr'[p].limit = (~approved /\ ~CanCode(pr[p]))
      BY <1>1, <2>1 DEF RecordReview, Record
    <2>3. pr[p].rounds \in Nat
      BY <1>1 DEF Record
    <2>4. CanCode(pr'[p]) <=> CanCode(pr[p])
      BY <2>2
    <2>5. pr'[p].limit <=> ~pr'[p].approved /\ ~CanCode(pr'[p])
      BY <2>2, <2>4, Zenon
    <2>6. pr'[p].reviews <= pr'[p].rounds
      BY <2>2, <2>3
    <2> QED  BY <2>5, <2>6, Zenon
  <1>5. CASE Granted(p)
    BY <1>1, <1>5 DEF Granted, GrantCodingRound, Record
  <1>6. CASE pr'[p] = RecordMergeRound(pr[p]) \/ pr'[p] = RecordExternalPush(pr[p])
    <2>1. /\ pr'[p].rounds = pr[p].rounds + 1 /\ pr'[p].reviews = pr[p].reviews
          /\ pr'[p].coding = pr[p].coding /\ pr'[p].granted = pr[p].granted
          /\ pr'[p].limit = pr[p].limit
      BY <1>1, <1>6 DEF RecordMergeRound, RecordExternalPush, InvalidateReview, Record
    <2>2. pr[p].rounds \in Nat /\ pr[p].reviews \in Nat
      BY <1>1 DEF Record
    <2>3. CanCode(pr'[p]) <=> CanCode(pr[p])
      BY <2>1
    <2>4. pr'[p].reviews < pr'[p].rounds
      BY <1>1, <2>1, <2>2
    <2>5. pr'[p].limit => ~CanCode(pr'[p])
      BY <1>1, <2>1, <2>3
    <2> QED  BY <2>1, <2>2, <2>4, <2>5
  <1>7. CASE pr'[p] = pr[p] \/ Settled(p) \/ pr'[p] = [pr[p] EXCEPT !.stale = TRUE]
    BY <1>1, <1>7 DEF Settled, Record
  <1> QED  BY <1>1, <1>2, <1>3, <1>4, <1>5, <1>6, <1>7 DEF RecordStep

\* Whatever a step does to the issues, it goes through issueTransition or through
\* CloseIssue, and neither moves an issue out of Merged or Closed.
LEMMA SettledStep ==
    ASSUME TypeOK, [Next]_vars, NEW i \in Issues, issue[i] \in SettledStates
    PROVE  issue'[i] = issue[i]
  <1> DEFINE Kept == issue'[i] = issue[i]
  <1> SUFFICES Kept
    OBVIOUS
  <1>1. CASE UNCHANGED issue
    BY <1>1
  <1>2. ASSUME NEW j, NEW next, MoveIssue(j, next),
               next \in {"Open", "Coding", "Review", "Pr", "Stale", "Merged"}
        PROVE  Kept
    <2>1. CASE i = j
      <3>1. issue[i] = next \/ issue[i] \in IssueSources(next)
        BY <1>2, <2>1 DEF MoveIssue, IssueMayMoveTo
      <3>2. issue[i] \notin IssueSources(next)
        BY <1>2 DEF IssueSources, SettledStates
      <3> QED  BY <1>2, <2>1, <3>1, <3>2, TypeOK DEF MoveIssue, TypeOK
    <2>2. CASE i # j
      BY <1>2, <2>2, TypeOK DEF MoveIssue, TypeOK
    <2> QED  BY <2>1, <2>2
  <1>3. ASSUME NEW closing, CloseAll(closing)
        PROVE  Kept
    BY <1>3 DEF CloseAll, SettledStates
  <1> HIDE DEF Kept
  <1>4. ASSUME NEW j, AddPullRequest(j)
        PROVE  Kept
    BY <1>2, <1>4 DEF AddPullRequest
  <1>5. ASSUME NEW p, NEW status, TransitionPullRequest(p, status)
        PROVE  Kept
    BY <1>2, <1>5 DEF TransitionPullRequest
  <1>6. ASSUME NEW p, MarkStale(p)
        PROVE  Kept
    BY <1>2, <1>6 DEF MarkStale
  <1>7. ASSUME NEW j \in Issues, RoundStep(j) \/ RoundFail(j)
        PROVE  Kept
    <2>1. CASE RoundRecord(j)
      BY <1>2, <2>1 DEF RoundRecord
    <2>2. ASSUME NEW approved \in BOOLEAN, RoundReview(j, approved)
          PROVE  Kept
      BY <1>2, <2>2 DEF RoundReview
    <2> QED
      BY <1>1, <1>7, <2>1, <2>2
         DEF RoundStep, RoundRead, RoundStop, RoundCheckout, RoundPublish, RoundFail, store
  <1>8. ASSUME NEW c \in Callers, CallStart(c)
        PROVE  Kept
    BY <1>1, <1>3, <1>5, <1>8
       DEF CallStart, OpenRead, CompleteRead, CloseEpic, Dispatch, CloseIssue, SweepRead,
           ClosePullRequest, MergeRead, ResetRead, store
  <1>9. ASSUME NEW c \in Callers, CallStep(c) \/ CallFail(c)
        PROVE  Kept
    <2>1. CASE SweepPush(c)
      BY <1>2, <2>1 DEF SweepPush
    <2> QED
      BY <1>1, <1>4, <1>5, <1>6, <1>9, <2>1
         DEF CallStep, OpenCut, OpenRecord, SweepInspect, SweepStale, CompleteApply,
             DeleteBranch, MergeLand, MergeRecord, MergeStale, ResetDrained, ResetDelete,
             ResetClose, CallFail, store
  <1>10. CASE Outside
    BY <1>1, <1>4, <1>10
       DEF Outside, Grant, CreatePullRequest, TransitionEpic, HandPush, BaseMoves, Crash,
           store
  <1> QED  BY <1>1, <1>7, <1>8, <1>9, <1>10 DEF Next, vars, store

-----------------------------------------------------------------------------
(* Branches, and what has landed.                                           *)

\* A branch is cut again as it is, pushed to without force, or deleted.
LEMMA BranchesStep ==
    ASSUME TypeOK, [Next]_vars, NEW i \in Issues
    PROVE  branch'[i] = {} \/ branch[i] \subseteq branch'[i]
  <1> DEFINE Grown == branch'[i] = {} \/ branch[i] \subseteq branch'[i]
  <1> SUFFICES Grown
    OBVIOUS
  <1>1. CASE UNCHANGED branch
    BY <1>1
  <1>2. ASSUME NEW j \in Issues, RoundPublish(j)
        PROVE  Grown
    <2>1. /\ branch[j] \subseteq checkout[j]
          /\ branch' = [branch EXCEPT ![j] = checkout[j] \cup {fresh}]
      BY <1>2 DEF RoundPublish
    <2> QED  BY <2>1, TypeOK DEF TypeOK
  <1>3. ASSUME NEW c \in Callers, OpenCut(c)
        PROVE  Grown
    <2>1. PICK j \in call[c].todo : branch' = [branch EXCEPT ![j] = StartOf(j)]
      BY <1>3 DEF OpenCut
    <2>2. branch[j] \subseteq StartOf(j)
      BY DEF StartOf
    <2> QED  BY <2>1, <2>2, TypeOK DEF TypeOK
  <1>4. ASSUME NEW c \in Callers, DeleteBranch(c) \/ ResetDelete(c)
        PROVE  Grown
    <2>1. \/ UNCHANGED branch
          \/ \E j : branch' = [branch EXCEPT ![j] = {}]
      BY <1>4 DEF DeleteBranch, ResetDelete
    <2> QED  BY <2>1, TypeOK DEF TypeOK
  <1>5. ASSUME NEW j \in Issues, HandPush(j)
        PROVE  Grown
    <2>1. PICK merged \in {{}, base} :
             branch' = [branch EXCEPT ![j] = branch[j] \cup merged \cup {fresh}]
      BY <1>5 DEF HandPush
    <2> QED  BY <2>1, TypeOK DEF TypeOK
  <1> HIDE DEF Grown
  <1>6. ASSUME NEW j \in Issues, RoundStep(j) \/ RoundFail(j)
        PROVE  Grown
    BY <1>1, <1>2, <1>6
       DEF RoundStep, RoundRead, RoundStop, RoundCheckout, RoundRecord, RoundReview,
           RoundFail, git
  <1>7. ASSUME NEW c \in Callers, CallStart(c)
        PROVE  Grown
    <2>1. OpenRead(c) \/ CompleteRead(c) \/ CloseEpic(c) => UNCHANGED branch
      BY DEF OpenRead, CompleteRead, CloseEpic, git
    <2>2. \A j \in Issues : Dispatch(c, j) \/ CloseIssue(c, j) => UNCHANGED branch
      BY DEF Dispatch, CloseIssue, git
    <2>3. \A p \in Records :
             SweepRead(c, p) \/ ClosePullRequest(c, p) \/ MergeRead(c, p) \/ ResetRead(c, p)
                => UNCHANGED branch
      BY DEF SweepRead, ClosePullRequest, MergeRead, ResetRead, git
    <2> QED  BY <1>1, <1>7, <2>1, <2>2, <2>3 DEF CallStart
  <1>8. ASSUME NEW c \in Callers, CallStep(c) \/ CallFail(c)
        PROVE  Grown
    BY <1>1, <1>3, <1>4, <1>8
       DEF CallStep, OpenRecord, SweepInspect, SweepStale, SweepPush, CompleteApply,
           MergeLand, MergeRecord, MergeStale, ResetDrained, ResetClose, CallFail, git
  <1>9. CASE Outside
    BY <1>1, <1>5, <1>9
       DEF Outside, Grant, CreatePullRequest, TransitionEpic, BaseMoves, Crash, git
  <1> QED  BY <1>1, <1>6, <1>7, <1>8, <1>9 DEF Next, vars, git

\* A step of another caller leaves a call alone, and no step but MergeLand brings
\* one to where it records a merge, none but CompleteRead to where it applies Done.
LEMMA RecordingStep ==
    ASSUME TypeOK, [Next]_vars, NEW c \in Callers,
           call'[c].at \in {"merge-record", "complete"}
    PROVE  \/ call'[c] = call[c]
           \/ MergeLand(c) /\ call'[c].pr = call[c].pr
           \/ CompleteRead(c) /\ call'[c].at = "complete"
  <1> DEFINE Goal == \/ call'[c] = call[c]
                     \/ MergeLand(c) /\ call'[c].pr = call[c].pr
                     \/ CompleteRead(c) /\ call'[c].at = "complete"
  <1> SUFFICES Goal
    OBVIOUS
  <1>1. CASE UNCHANGED call
    BY <1>1
  <1>2. ASSUME NEW d \in Callers,
               \A e \in Callers \ {d} : call'[e] = call[e],
               call'[d].at \notin {"merge-record", "complete"}
        PROVE  Goal
    BY <1>2
  <1>3. CASE Crash
    BY <1>3 DEF Crash, IdleCall
  <1>4. ASSUME NEW d \in Callers, MergeLand(d)
        PROVE  Goal
    <2>1. \A e \in Callers \ {d} : call'[e] = call[e]
      BY <1>4, TypeOK DEF MergeLand, TypeOK, Call
    <2>2. call'[d].pr = call[d].pr
      BY <1>4, TypeOK DEF MergeLand, TypeOK, Call
    <2> QED  BY <1>4, <2>1, <2>2
  <1> HIDE DEF Goal
  <1>idle. \A d \in SUBSET Issues : Deleting(d).at \notin {"merge-record", "complete"}
    BY DEF Deleting, IdleCall
  <1>5. ASSUME NEW d \in Callers, CallStart(d)
        PROVE  Goal
    <2>1. CASE OpenRead(d)
      <3>1. PICK due : call' = [call EXCEPT ![d].at = "open-cut", ![d].todo = due]
        BY <2>1 DEF OpenRead
      <3> QED  BY <1>2, <3>1, TypeOK DEF TypeOK, Call
    <2>2. CASE CompleteRead(d)
      <3>1. call' = [call EXCEPT ![d].at = "complete"]
        BY <2>2 DEF CompleteRead
      <3>2. CASE d = c
        BY <2>2, <3>1, <3>2, TypeOK DEF TypeOK, Call, Goal
      <3>3. CASE d # c
        BY <3>1, <3>3, TypeOK DEF TypeOK, Goal
      <3> QED  BY <3>2, <3>3
    <2>3. CASE CloseEpic(d)
      BY <1>2, <1>idle, <2>3, TypeOK DEF CloseEpic, Abandoned, TypeOK
    <2>4. ASSUME NEW i \in Issues, CloseIssue(d, i)
          PROVE  Goal
      <3>1. Abandoned(Subtree[i]) \in SUBSET Issues
        BY ConstantsAreTyped DEF Abandoned
      <3> QED  BY <1>2, <1>idle, <2>4, <3>1, TypeOK DEF CloseIssue, TypeOK
    <2>5. ASSUME NEW p \in Records,
                 SweepRead(d, p) \/ ClosePullRequest(d, p) \/ MergeRead(d, p) \/ ResetRead(d, p)
          PROVE  Goal
      BY <1>2, <2>5, TypeOK
         DEF SweepRead, ClosePullRequest, MergeRead, ResetRead, TypeOK, Call
    <2>6. ASSUME NEW i \in Issues, Dispatch(d, i)
          PROVE  Goal
      BY <1>1, <2>6 DEF Dispatch
    <2> QED  BY <1>5, <2>1, <2>2, <2>3, <2>4, <2>5, <2>6 DEF CallStart
  <1>6. ASSUME NEW d \in Callers, CallStep(d) \/ CallFail(d)
        PROVE  Goal
    <2>1. CASE OpenCut(d)
      BY <1>2, <2>1, TypeOK DEF OpenCut, TypeOK, Call
    <2>2. CASE OpenRecord(d)
      BY <1>2, <2>2, TypeOK DEF OpenRecord, IdleCall, TypeOK, Call
    <2>3. CASE SweepInspect(d)
      BY <1>2, <2>3, TypeOK, InspectionsEnd
    <2>4. CASE DeleteBranch(d)
      BY <1>2, <1>idle, <2>4, TypeOK DEF DeleteBranch, TypeOK, Call
    <2>5. CASE MergeRecord(d)
      <3>1. pr[call[d].pr].issue \in Issues
        BY <2>5 DEF MergeRecord, TransitionPullRequest, MoveIssue
      <3> QED  BY <1>2, <1>idle, <2>5, <3>1, TypeOK DEF MergeRecord, TypeOK
    <2>6. CASE ResetDrained(d) \/ ResetDelete(d)
      BY <1>2, <2>6, TypeOK DEF ResetDrained, ResetDelete, TypeOK, Call
    <2>7. CASE SweepStale(d) \/ SweepPush(d) \/ CompleteApply(d) \/ MergeStale(d)
                  \/ ResetClose(d) \/ CallFail(d)
      BY <1>2, <2>7, TypeOK
         DEF SweepStale, SweepPush, CompleteApply, MergeStale, ResetClose, CallFail,
             IdleCall, TypeOK
    <2> QED
      BY <1>4, <1>6, <2>1, <2>2, <2>3, <2>4, <2>5, <2>6, <2>7 DEF CallStep
  <1>7. ASSUME NEW i \in Issues, RoundStep(i) \/ RoundFail(i)
        PROVE  Goal
    BY <1>1, <1>7
       DEF RoundStep, RoundRead, RoundStop, RoundCheckout, RoundPublish, RoundRecord,
           RoundReview, RoundFail
  <1>8. CASE Outside
    BY <1>1, <1>3, <1>8
       DEF Outside, Grant, CreatePullRequest, TransitionEpic, HandPush, BaseMoves
  <1> QED  BY <1>1, <1>5, <1>6, <1>7, <1>8 DEF Next, vars

\* What has landed stays, on a default branch that only grows, and only a merge
\* adds to it.
LEMMA LandedStep ==
    ASSUME TypeOK, [Next]_vars
    PROVE  \/ landed' = landed /\ base \subseteq base'
           \/ \E c \in Callers : MergeLand(c)
  <1> DEFINE Goal == \/ landed' = landed /\ base \subseteq base'
                     \/ \E c \in Callers : MergeLand(c)
  <1> SUFFICES Goal
    OBVIOUS
  <1>1. CASE UNCHANGED <<landed, base>>
    BY <1>1
  <1>2. CASE BaseMoves
    BY <1>2 DEF BaseMoves
  <1>3. ASSUME NEW c \in Callers, MergeLand(c)
        PROVE  Goal
    BY <1>3
  <1> HIDE DEF Goal
  <1>4. ASSUME NEW j \in Issues, RoundStep(j) \/ RoundFail(j)
        PROVE  Goal
    BY <1>1, <1>4
       DEF RoundStep, RoundRead, RoundStop, RoundCheckout, RoundPublish, RoundRecord,
           RoundReview, RoundFail, git
  <1>5. ASSUME NEW c \in Callers, CallStart(c)
        PROVE  Goal
    <2>1. OpenRead(c) \/ CompleteRead(c) \/ CloseEpic(c) => UNCHANGED <<landed, base>>
      BY DEF OpenRead, CompleteRead, CloseEpic, git
    <2>2. \A j \in Issues : Dispatch(c, j) \/ CloseIssue(c, j) => UNCHANGED <<landed, base>>
      BY DEF Dispatch, CloseIssue, git
    <2>3. \A p \in Records :
             SweepRead(c, p) \/ ClosePullRequest(c, p) \/ MergeRead(c, p) \/ ResetRead(c, p)
                => UNCHANGED <<landed, base>>
      BY DEF SweepRead, ClosePullRequest, MergeRead, ResetRead, git
    <2> QED  BY <1>1, <1>5, <2>1, <2>2, <2>3 DEF CallStart
  <1>6. ASSUME NEW c \in Callers, CallStep(c) \/ CallFail(c)
        PROVE  Goal
    <2>1. OpenCut(c) \/ DeleteBranch(c) \/ ResetDelete(c) => UNCHANGED <<landed, base>>
      BY DEF OpenCut, DeleteBranch, ResetDelete
    <2> QED
      BY <1>1, <1>3, <1>6, <2>1
         DEF CallStep, OpenRecord, SweepInspect, SweepStale, SweepPush, CompleteApply,
             MergeRecord, MergeStale, ResetDrained, ResetClose, CallFail, git
  <1>7. CASE Outside
    BY <1>1, <1>2, <1>7
       DEF Outside, Grant, CreatePullRequest, TransitionEpic, HandPush, Crash, git
  <1> QED  BY <1>1, <1>4, <1>5, <1>6, <1>7 DEF Next, vars, git

\* A record becomes merged only where a merge that published it records it.
LEMMA MergedStep ==
    ASSUME TypeOK, [Next]_vars, NEW p \in Records,
           pr[p].status # "Merged", pr'[p].status = "Merged"
    PROVE  \E c \in Callers : call[c].at = "merge-record" /\ call[c].pr = p
  <1>1. pr' # pr
    OBVIOUS
  <1>2. ASSUME NEW i \in Issues, RoundStep(i) \/ RoundFail(i)
        PROVE  FALSE
    <2>1. CASE RoundRecord(i)
      BY <2>1, TypeOK
         DEF RoundRecord, TypeOK, Record, RecordCodingRound, RecordMergeRound,
             InvalidateReview
    <2>2. ASSUME NEW approved \in BOOLEAN, RoundReview(i, approved)
          PROVE  FALSE
      BY <2>2, TypeOK DEF RoundReview, TypeOK, Record, RecordReview
    <2> QED
      BY <1>1, <1>2, <2>1, <2>2
         DEF RoundStep, RoundRead, RoundStop, RoundCheckout, RoundPublish, RoundFail, store
  <1>3. ASSUME NEW i, AddPullRequest(i)
        PROVE  FALSE
    BY <1>3, TypeOK DEF AddPullRequest, TypeOK, NewRecord
  <1>4. ASSUME NEW q, TransitionPullRequest(q, "Closed")
        PROVE  FALSE
    BY <1>4, TypeOK DEF TransitionPullRequest, TypeOK, Record
  <1>5. ASSUME NEW q, MarkStale(q)
        PROVE  FALSE
    BY <1>5, TypeOK DEF MarkStale, TypeOK, Record
  <1>6. ASSUME NEW closing, CloseAll(closing)
        PROVE  FALSE
    BY <1>6, TypeOK DEF CloseAll, TypeOK, Record
  <1>7. ASSUME NEW c \in Callers, CallStart(c)
        PROVE  FALSE
    <2>1. OpenRead(c) \/ CompleteRead(c) => pr' = pr
      BY DEF OpenRead, CompleteRead, store
    <2>2. CloseEpic(c) => CloseAll(Issues)
      BY DEF CloseEpic
    <2>3. \A i \in Issues : (Dispatch(c, i) => pr' = pr) /\ (CloseIssue(c, i) => CloseAll(Subtree[i]))
      BY DEF Dispatch, CloseIssue, store
    <2>4. \A q \in Records : ClosePullRequest(c, q) => TransitionPullRequest(q, "Closed")
      BY DEF ClosePullRequest
    <2>5. \A q \in Records : SweepRead(c, q) \/ MergeRead(c, q) \/ ResetRead(c, q) => pr' = pr
      BY DEF SweepRead, MergeRead, ResetRead, store
    <2> QED  BY <1>1, <1>4, <1>6, <1>7, <2>1, <2>2, <2>3, <2>4, <2>5 DEF CallStart
  <1>8. ASSUME NEW c \in Callers, CallStep(c) \/ CallFail(c)
        PROVE  call[c].at = "merge-record" /\ call[c].pr = p
    <2>1. CASE SweepPush(c)
      BY <2>1, TypeOK DEF SweepPush, TypeOK, Record, RecordExternalPush, InvalidateReview
    <2>2. CASE MergeRecord(c)
      BY <2>2, TypeOK DEF MergeRecord, TransitionPullRequest, TypeOK, Record
    <2>3. CASE OpenRecord(c) \/ SweepStale(c) \/ MergeStale(c) \/ ResetClose(c)
      BY <1>3, <1>4, <1>5, <2>3 DEF OpenRecord, SweepStale, MergeStale, ResetClose
    <2> QED
      BY <1>1, <1>8, <2>1, <2>2, <2>3
         DEF CallStep, OpenCut, SweepInspect, CompleteApply, DeleteBranch, MergeLand,
             ResetDrained, ResetDelete, CallFail, store
  <1>9. ASSUME Outside
        PROVE  FALSE
    <2>1. ASSUME NEW q \in Records, Grant(q)
          PROVE  FALSE
      BY <2>1, TypeOK DEF Grant, TypeOK, Record, GrantCodingRound
    <2> QED
      BY <1>1, <1>3, <1>9, <2>1
         DEF Outside, CreatePullRequest, TransitionEpic, HandPush, BaseMoves, Crash, store
  <1> QED  BY <1>1, <1>2, <1>7, <1>8, <1>9 DEF Next, vars, store

\* A merge that is to be recorded has published, and what was published is on the
\* default branch.
Publications ==
    /\ \A c \in Callers : call[c].at = "merge-record" =>
          call[c].pr \in Records /\ landed[call[c].pr] # {}
    /\ \A p \in Records : landed[p] \subseteq base

LEMMA PublicationsStep ==
    ASSUME TypeOK, MergesNamed, Publications, MergedLanded, [Next]_vars
    PROVE  (Publications /\ MergedLanded)'
  <1>1. \A p \in Records : landed[p] # {} => landed'[p] # {}
    <2>1. ASSUME NEW c \in Callers, MergeLand(c), NEW p \in Records, landed[p] # {}
          PROVE  landed'[p] # {}
      BY <2>1, TypeOK DEF MergeLand, TypeOK
    <2> QED  BY <2>1, LandedStep
  <1>2. \A p \in Records : landed'[p] \subseteq base'
    <2>1. ASSUME NEW c \in Callers, MergeLand(c), NEW p \in Records
          PROVE  landed'[p] \subseteq base'
      BY <2>1, TypeOK DEF MergeLand, TypeOK, Publications
    <2> QED  BY <2>1, LandedStep DEF Publications
  <1>3. ASSUME NEW c \in Callers, call'[c].at = "merge-record"
        PROVE  call'[c].pr \in Records /\ landed'[call'[c].pr] # {}
    <2>1. CASE call'[c] = call[c]
      BY <1>1, <1>3, <2>1 DEF Publications
    <2>2. CASE MergeLand(c) /\ call'[c].pr = call[c].pr
      <3>1. call[c].pr \in Records /\ call[c].at = "merge-land"
        BY <2>2 DEF MergeLand, MergesNamed
      <3>2. base \subseteq branch[pr[call[c].pr].issue]
        BY <1>3, <2>2, TypeOK DEF MergeLand, TypeOK, Call
      <3>3. landed'[call[c].pr] = branch[pr[call[c].pr].issue] /\ branch[pr[call[c].pr].issue] # {}
        BY <2>2, <3>1, <3>2, TypeOK DEF MergeLand, TypeOK
      <3> QED  BY <2>2, <3>1, <3>3
    <2>3. ~(call'[c].at = "complete")
      BY <1>3
    <2> QED  BY <1>3, <2>1, <2>2, <2>3, RecordingStep
  <1>4. ASSUME NEW p \in Records, pr'[p].status = "Merged"
        PROVE  landed'[p] # {}
    BY <1>1, <1>4, MergedStep DEF MergedLanded, Publications
  <1>5. Publications'
    BY <1>2, <1>3 DEF Publications, Records
  <1>6. MergedLanded'
    BY <1>2, <1>4 DEF MergedLanded, Records
  <1> QED  BY <1>5, <1>6

-----------------------------------------------------------------------------
(* Delivery.                                                                *)

\* Only CompleteEpic makes an epic Done where nobody picks its state by hand.
LEMMA DoneStep ==
    ASSUME "transition" \notin Events, [Next]_vars, epic # "Done", epic' = "Done"
    PROVE  \E c \in Callers : call[c].at = "complete"
  <1>1. epic' # epic
    OBVIOUS
  <1>2. \A i \in Issues : RoundStep(i) \/ RoundFail(i) => epic' = epic
    BY DEF RoundStep, RoundRead, RoundStop, RoundCheckout, RoundPublish, RoundRecord,
           RoundReview, RoundFail, store
  <1>3. ASSUME NEW c \in Callers, CallStart(c)
        PROVE  FALSE
    <2>1. CloseEpic(c) => epic' = "Closed"
      BY DEF CloseEpic, EpicTarget
    <2>2. OpenRead(c) \/ CompleteRead(c) => epic' = epic
      BY DEF OpenRead, CompleteRead, store
    <2>3. \A i \in Issues : Dispatch(c, i) \/ CloseIssue(c, i) => epic' = epic
      BY DEF Dispatch, CloseIssue, store
    <2>4. \A p \in Records :
             SweepRead(c, p) \/ ClosePullRequest(c, p) \/ MergeRead(c, p) \/ ResetRead(c, p)
                => epic' = epic
      BY DEF SweepRead, ClosePullRequest, MergeRead, ResetRead, store
    <2> QED  BY <1>1, <1>3, <2>1, <2>2, <2>3, <2>4 DEF CallStart
  <1>4. ASSUME NEW c \in Callers, CallStep(c) \/ CallFail(c)
        PROVE  call[c].at = "complete"
    BY <1>1, <1>4
       DEF CallStep, OpenCut, OpenRecord, SweepInspect, SweepStale, SweepPush, CompleteApply,
           DeleteBranch, MergeLand, MergeRecord, MergeStale, ResetDrained, ResetDelete,
           ResetClose, CallFail, store
  <1>5. ~Outside
    BY <1>1
       DEF Outside, Grant, CreatePullRequest, TransitionEpic, HandPush, BaseMoves, Crash, store
  <1> QED  BY <1>1, <1>2, <1>3, <1>4, <1>5 DEF Next, vars, store

\* Done is applied on a read that is old by then; what it read still holds.
DeliveredWhenRead == \A c \in Callers : call[c].at = "complete" => Delivered(issue)

LEMMA DeliveryStep ==
    ASSUME "transition" \notin Events, TypeOK, RecordsNamed, MergesNamed,
           DeliveredWhenRead, DoneIsDelivered, [Next]_vars
    PROVE  (DeliveredWhenRead /\ DoneIsDelivered)'
  <1>1. Delivered(issue) => Delivered(issue')
    <2>1. TypeOK'
      BY TypesStep
    <2>2. DOMAIN issue = Issues /\ DOMAIN issue' = Issues
      BY <2>1, TypeOK DEF TypeOK
    <2> QED  BY <2>2, SettledStep DEF Delivered
  <1>2. ASSUME NEW c \in Callers, call'[c].at = "complete"
        PROVE  Delivered(issue')
    <2>1. CASE call'[c] = call[c]
      BY <1>1, <1>2, <2>1 DEF DeliveredWhenRead
    <2>2. CASE CompleteRead(c)
      BY <1>1, <2>2 DEF CompleteRead
    <2>3. CASE MergeLand(c)
      BY <1>2, <2>3, TypeOK DEF MergeLand, TypeOK, Call
    <2> QED  BY <1>2, <2>1, <2>2, <2>3, RecordingStep
  <1>3. epic' = "Done" => Delivered(issue')
    BY <1>1, DoneStep DEF DoneIsDelivered, DeliveredWhenRead
  <1> QED  BY <1>2, <1>3 DEF DeliveredWhenRead, DoneIsDelivered

-----------------------------------------------------------------------------
(* The theorems.                                                            *)

LEMMA InitIsInductive == Init => IInv
  <1> SUFFICES ASSUME Init PROVE IInv
    OBVIOUS
  <1> USE ConstantsAreTyped
  <1>1. TypeOK
    <2>1. NoRecord \in Record
      BY NewRecordsAreTyped
    <2> QED  BY <2>1, IdleIsTyped DEF Init, TypeOK, EpicStates, IssueStates, Commits
  <1>2. RecordsNamed /\ MergesNamed /\ RoundsHold
    BY DEF Init, RecordsNamed, MergesNamed, RoundsHold, NoRecord, NewRecord, IdleRound, IdleCall
  <1>3. CodingRationed
    BY MaxCodingRoundsIsPositive DEF Init, CodingRationed, NoRecord, NewRecord
  <1> QED  BY <1>1, <1>2, <1>3 DEF IInv

LEMMA StepIsInductive == IInv /\ [Next]_vars => IInv'
  <1> SUFFICES ASSUME TypeOK, RecordsNamed, MergesNamed, RoundsHold, CodingRationed,
                      [Next]_vars
               PROVE  IInv'
    BY DEF IInv
  <1>1. TypeOK'
    BY TypesStep
  <1>2. RecordsNamed'
    <2> SUFFICES ASSUME NEW p \in Records, pr'[p].status # "Absent"
                 PROVE  pr'[p].issue \in Issues
      BY DEF RecordsNamed, Records
    <2>1. CASE pr[p].status # "Absent"
      BY <2>1, RecordsKeepTheirIssue, RecordsNamed DEF RecordsNamed
    <2>2. CASE pr[p].status = "Absent"
      <3>1. pr[p] \in Record /\ RecordStep(p)
        BY RecordsStep, TypeOK DEF TypeOK
      <3>2. Made(p)
        BY <2>2, <3>1
           DEF RecordStep, Coded, Judged, Settled, Granted, Record, RecordCodingRound,
               RecordMergeRound, RecordExternalPush, RecordReview, InvalidateReview
      <3> QED  BY <3>2 DEF Made, NewRecord
    <2> QED  BY <2>1, <2>2
  <1>3. MergesNamed'
    <2> SUFFICES ASSUME NEW c \in Callers, call'[c].at = "merge-land"
                 PROVE  call'[c].pr \in Records /\ pr'[call'[c].pr].status # "Absent"
      BY DEF MergesNamed, Records
    <2>1. CASE call'[c] = call[c]
      BY <2>1, RecordsKeepTheirIssue, MergesNamed DEF MergesNamed
    <2>2. CASE call'[c] # call[c]
      BY <2>2, MergesStep
    <2> QED  BY <2>1, <2>2
  <1>4. RoundsHold'
    <2> SUFFICES ASSUME NEW i \in Issues,
                        round'[i].at \in {"picked", "working", "published"}
                 PROVE  /\ round'[i].pr \in Records
                        /\ pr'[round'[i].pr].status # "Absent"
                        /\ pr'[round'[i].pr].issue = i
                        /\ round'[i].role = "coding" => CanCode(pr'[round'[i].pr])
      BY DEF RoundsHold, Records, CanCode
    <2>1. CASE round'[i] = round[i]
      <3> DEFINE p == round[i].pr
      <3>1. /\ p \in Records /\ pr[p].status # "Absent" /\ pr[p].issue = i
            /\ round[i].role = "coding" => CanCode(pr[p])
        BY <2>1, RoundsHold DEF RoundsHold
      <3>2. ~Coded(p)
        <4> SUFFICES ASSUME NEW j \in Issues, round[j].at = "published",
                            round[j].pr = p, round'[j] = IdleRound
                     PROVE  FALSE
          BY DEF Coded
        <4>1. i = j
          BY <3>1, RoundsHold DEF RoundsHold
        <4> QED  BY <4>1 DEF IdleRound
      <3> HIDE DEF p
      <3>3. pr'[p].status # "Absent" /\ pr'[p].issue = i
        BY <3>1, RecordsKeepTheirIssue
      <3>4. CanCode(pr[p]) => CanCode(pr'[p])
        BY <3>1, <3>2, OnlyCodingSpends
      <3> QED  BY <2>1, <3>1, <3>3, <3>4 DEF p
    <2>2. ASSUME NEW p \in Records, pr' = pr, pr[p].issue = i, pr[p].status = "Open",
                 RoleOf(p) = round[i].role, round'[i].pr = p, round'[i].role = round[i].role
          PROVE  /\ round'[i].pr \in Records
                 /\ pr'[round'[i].pr].status # "Absent"
                 /\ pr'[round'[i].pr].issue = i
                 /\ round'[i].role = "coding" => CanCode(pr'[round'[i].pr])
      <3>1. RoleOf(p) = "coding" => CanCode(pr[p])
        BY DEF RoleOf, IssueRole
      <3> QED  BY <2>2, <3>1
    <2>3. CASE /\ pr' = pr
               /\ round[i].at \in {"picked", "working"}
               /\ round'[i].pr = round[i].pr /\ round'[i].role = round[i].role
      BY <2>3, RoundsHold DEF RoundsHold
    <2> QED  BY <2>1, <2>2, <2>3, RoundsStep
  <1>5. CodingRationed'
    <2> SUFFICES ASSUME NEW p \in Records
                 PROVE  pr'[p].coding <= MaxCodingRounds + pr'[p].granted
      BY DEF CodingRationed, Records
    <2>1. pr[p] \in Record /\ pr[p].coding <= MaxCodingRounds + pr[p].granted
      BY TypeOK, CodingRationed DEF TypeOK, CodingRationed
    <2>2. CASE Coded(p)
      <3>1. CanCode(pr[p])
        BY <2>2, RoundsHold DEF Coded, RoundsHold
      <3>2. pr'[p].coding = pr[p].coding + 1 /\ pr'[p].granted = pr[p].granted
        BY <2>1, <2>2 DEF Coded, RecordCodingRound, InvalidateReview, Record
      <3> QED  BY <2>1, <3>1, <3>2, MaxCodingRoundsIsPositive DEF CanCode, Record
    <2>3. CASE Made(p)
      BY <2>3, MaxCodingRoundsIsPositive DEF Made, NewRecord
    <2>4. CASE ~Coded(p) /\ ~Made(p) /\ pr[p].status = "Absent"
      <3>1. RecordStep(p)
        BY RecordsStep
      <3>2. pr'[p].coding = pr[p].coding /\ pr'[p].granted = pr[p].granted
        BY <2>1, <2>4, <3>1
           DEF RecordStep, Judged, Settled, Granted, Record, RecordMergeRound,
               RecordExternalPush, RecordReview, InvalidateReview
      <3> QED  BY <2>1, <3>2
    <2> QED  BY <2>1, <2>2, <2>3, <2>4, OnlyCodingSpends
  <1> QED  BY <1>1, <1>2, <1>3, <1>4, <1>5 DEF IInv

\* Every state of the loop is well typed, for every epic and every set of
\* concurrent callers.
THEOREM TypeCorrect == Spec => []TypeOK
  <1>1. Spec => []IInv
    BY InitIsInductive, StepIsInductive, PTL DEF Spec
  <1>2. IInv => TypeOK
    BY DEF IInv
  <1> QED  BY <1>1, <1>2, PTL

\* No pull request ever spends more coding rounds than the limit and what people
\* granted, however rounds, requests, failures and restarts interleave.
THEOREM CodingIsRationed == Spec => []CodingRationed
  <1>1. Spec => []IInv
    BY InitIsInductive, StepIsInductive, PTL DEF Spec
  <1>2. IInv => CodingRationed
    BY DEF IInv
  <1> QED  BY <1>1, <1>2, PTL

\* No approval survives a round it did not see, whoever made the round: a coding
\* or merge round, a push by hand the sweep found, or a late write of a round that
\* started from an old copy of the epic.
THEOREM VerdictsCoverRounds == Spec => []VerdictCoversRounds
  <1>1. Init => VerdictCoversRounds
    BY DEF Init, VerdictCoversRounds, NoRecord, NewRecord
  <1>2. TypeOK /\ VerdictCoversRounds /\ [Next]_vars => VerdictCoversRounds'
    BY VerdictsStep
  <1> QED  BY <1>1, <1>2, TypeCorrect, PTL DEF Spec

\* A record the loop has given up on carries the flag a person looks for, and one
\* that carries it may not be coded on, for every limit and every number of grants.
THEOREM LimitFlagIsHonest == Spec => []RoundLimitFlagHonest
  <1>1. Init => FlagFollowsCounters
    BY MaxCodingRoundsIsPositive DEF Init, FlagFollowsCounters, NoRecord, NewRecord, CanCode
  <1>2. TypeOK /\ FlagFollowsCounters /\ [Next]_vars => FlagFollowsCounters'
    BY FlagsStep
  <1>3. TypeOK /\ FlagFollowsCounters => RoundLimitFlagHonest
    <2> SUFFICES ASSUME TypeOK, FlagFollowsCounters, NEW p \in Records
                 PROVE  /\ pr[p].limit => ~CanCode(pr[p])
                        /\ /\ pr[p].status = "Open" /\ RoleOf(p) = "none" /\ epic = "Ready"
                           /\ ~pr[p].approved /\ ~Blocked(issue, Waits, pr[p].issue)
                           => pr[p].limit
      BY DEF RoundLimitFlagHonest
    <2>1. pr[p] \in Record
      BY TypeOK DEF TypeOK
    <2>2. pr[p].reviews \in Nat /\ pr[p].rounds \in Nat
      BY <2>1 DEF Record
    <2> QED  BY <2>2, FlagFollowsCounters DEF FlagFollowsCounters, RoleOf, IssueRole
  <1> QED  BY <1>1, <1>2, <1>3, TypeCorrect, PTL DEF Spec

\* An issue that is merged or closed never moves again, whatever rounds, sweeps,
\* merges and closes of it are still under way.
THEOREM SettledIsFinal == Spec => SettledForever
  <1>1. TypeOK /\ [Next]_vars =>
            [\A i \in Issues : issue[i] \in SettledStates => issue'[i] = issue[i]]_vars
    BY SettledStep
  <1> QED  BY <1>1, TypeCorrect, PTL DEF Spec, SettledForever

\* A branch only ever gains commits or is deleted: no push of a round, of an
\* opening or of a person loses a commit of another.
THEOREM BranchesOnlyGrow == Spec => BranchOnlyGrows
  <1>1. TypeOK /\ [Next]_vars =>
            [\A i \in Issues : branch'[i] = {} \/ branch[i] \subseteq branch'[i]]_vars
    BY BranchesStep
  <1> QED  BY <1>1, TypeCorrect, PTL DEF Spec, BranchOnlyGrows

\* A record that says it is merged has its commits on the default branch for good,
\* however merges, closes, deletions and crashes interleave.
THEOREM MergesHaveLanded == Spec => []MergedLanded
  <1>1. Init => Publications /\ MergedLanded
    BY DEF Init, Publications, MergedLanded, NoRecord, NewRecord, IdleCall
  <1>2. IInv => TypeOK /\ MergesNamed
    BY DEF IInv
  <1>3. TypeOK /\ MergesNamed /\ Publications /\ MergedLanded /\ [Next]_vars
            => (Publications /\ MergedLanded)'
    BY PublicationsStep
  <1>4. Spec => []IInv
    BY InitIsInductive, StepIsInductive, PTL DEF Spec
  <1> QED  BY <1>1, <1>2, <1>3, <1>4, PTL DEF Spec

\* An epic CompleteEpic made Done is delivered, although Done is applied on a read
\* that other calls and rounds have overtaken; a person may pick Done at any time,
\* which is left out by the assumption on Events.
THEOREM DoneMeansDelivered ==
    ASSUME "transition" \notin Events
    PROVE  Spec => []DoneIsDelivered
  <1>1. Init => DeliveredWhenRead /\ DoneIsDelivered
    BY DEF Init, DeliveredWhenRead, DoneIsDelivered, IdleCall
  <1>2. IInv /\ DeliveredWhenRead /\ DoneIsDelivered /\ [Next]_vars
            => (DeliveredWhenRead /\ DoneIsDelivered)'
    BY DeliveryStep DEF IInv
  <1>3. Spec => []IInv
    BY InitIsInductive, StepIsInductive, PTL DEF Spec
  <1> QED  BY <1>1, <1>2, <1>3, PTL DEF Spec

-----------------------------------------------------------------------------
(* Calls, rounds, records and issues, one at a time.  What a step may make   *)
(* of each is split once here; the invariants below follow from these cases. *)

OpenSteps == {"open-cut", "open-record"}
SweepSteps == {"sweep-inspect", "sweep-stale", "sweep-push"}
MergeSteps == {"merge-land", "merge-record", "merge-stale"}
ResetSteps == {"reset-drain", "reset-delete", "reset-close"}

\* A call that is about a record is about one that was made, and a caller does
\* what it may be asked for.
CallsKnown ==
    \A c \in Callers :
        /\ call[c].at \in SweepSteps \cup MergeSteps \cup ResetSteps
              => call[c].pr \in Records /\ pr[call[c].pr].status # "Absent"
        /\ call[c].at \in OpenSteps => "open" \in Duties[c]
        /\ call[c].at \in SweepSteps => "sweep" \in Duties[c]
        /\ call[c].at \in MergeSteps => "merge" \in Duties[c]
        /\ call[c].at \in ResetSteps => "reset" \in Duties[c]

\* What a step may make of a call.
CallMove(c) ==
    \/ call'[c] = call[c]
    \/ call'[c].at \in {"idle", "delete", "complete"}
    \/ OpenRead(c) \/ OpenCut(c) \/ OpenRecord(c)
    \/ \E p \in Records : SweepRead(c, p) \/ MergeRead(c, p) \/ ResetRead(c, p)
    \/ SweepInspect(c) \/ MergeLand(c) \/ ResetDrained(c) \/ ResetDelete(c)

\* A call moves by a step of its own, or ends with the daemon.
LEMMA CallsMove ==
    ASSUME TypeOK, [Next]_vars, NEW c \in Callers
    PROVE  CallMove(c)
  <1>1. CASE UNCHANGED call
    BY <1>1 DEF CallMove
  <1>2. ASSUME NEW d \in Callers, \A e \in Callers \ {d} : call'[e] = call[e],
               \/ call'[d].at \in {"idle", "delete", "complete"}
               \/ OpenRead(d) \/ OpenCut(d) \/ OpenRecord(d)
               \/ \E p \in Records : SweepRead(d, p) \/ MergeRead(d, p) \/ ResetRead(d, p)
               \/ SweepInspect(d) \/ MergeLand(d) \/ ResetDrained(d) \/ ResetDelete(d)
        PROVE  CallMove(c)
    BY <1>2 DEF CallMove
  <1>3. \A todo : Deleting(todo).at \in {"idle", "delete"}
    BY DEF Deleting, IdleCall
  <1>4. ASSUME NEW d \in Callers, CallStart(d)
        PROVE  CallMove(c)
    <2>1. CASE OpenRead(d)
      BY <1>2, <2>1, TypeOK DEF OpenRead, TypeOK
    <2>2. CASE CompleteRead(d)
      BY <1>2, <2>2, TypeOK DEF CompleteRead, TypeOK, Call
    <2>3. CASE CloseEpic(d)
      BY <1>2, <1>3, <2>3, TypeOK DEF CloseEpic, TypeOK
    <2>4. ASSUME NEW i \in Issues, CloseIssue(d, i)
          PROVE  CallMove(c)
      BY <1>2, <1>3, <2>4, TypeOK DEF CloseIssue, TypeOK
    <2>5. ASSUME NEW p \in Records, SweepRead(d, p) \/ MergeRead(d, p) \/ ResetRead(d, p)
          PROVE  CallMove(c)
      <3>1. \A e \in Callers \ {d} : call'[e] = call[e]
        BY <2>5, TypeOK DEF SweepRead, MergeRead, ResetRead, TypeOK
      <3> QED  BY <1>2, <2>5, <3>1
    <2>6. ASSUME NEW p \in Records, ClosePullRequest(d, p)
          PROVE  CallMove(c)
      BY <1>2, <2>6, TypeOK DEF ClosePullRequest, TypeOK, Call
    <2>7. ASSUME NEW i \in Issues, Dispatch(d, i)
          PROVE  CallMove(c)
      BY <1>1, <2>7 DEF Dispatch
    <2> QED  BY <1>4, <2>1, <2>2, <2>3, <2>4, <2>5, <2>6, <2>7 DEF CallStart
  <1>5. ASSUME NEW d \in Callers, CallStep(d) \/ CallFail(d)
        PROVE  CallMove(c)
    <2>1. CASE OpenCut(d)
      BY <1>2, <2>1, TypeOK DEF OpenCut, TypeOK
    <2>2. CASE OpenRecord(d)
      BY <1>2, <2>2, TypeOK DEF OpenRecord, TypeOK
    <2>3. CASE SweepInspect(d)
      BY <1>2, <2>3, TypeOK DEF SweepInspect, TypeOK
    <2>4. CASE DeleteBranch(d)
      BY <1>2, <1>3, <2>4, TypeOK DEF DeleteBranch, TypeOK
    <2>5. CASE MergeLand(d)
      BY <1>2, <2>5, TypeOK DEF MergeLand, TypeOK
    <2>6. CASE MergeRecord(d)
      BY <1>2, <1>3, <2>6, TypeOK DEF MergeRecord, TypeOK
    <2>7. CASE ResetDrained(d) \/ ResetDelete(d)
      BY <1>2, <2>7, TypeOK DEF ResetDrained, ResetDelete, TypeOK
    <2>8. CASE SweepStale(d) \/ SweepPush(d) \/ CompleteApply(d) \/ MergeStale(d)
                  \/ ResetClose(d) \/ CallFail(d)
      BY <1>2, <2>8, TypeOK
         DEF SweepStale, SweepPush, CompleteApply, MergeStale, ResetClose, CallFail,
             IdleCall, TypeOK
    <2> QED
      BY <1>5, <2>1, <2>2, <2>3, <2>4, <2>5, <2>6, <2>7, <2>8 DEF CallStep
  <1>6. ASSUME NEW i \in Issues, RoundStep(i) \/ RoundFail(i)
        PROVE  CallMove(c)
    BY <1>1, <1>6
       DEF RoundStep, RoundRead, RoundStop, RoundCheckout, RoundPublish, RoundRecord,
           RoundReview, RoundFail
  <1>7. CASE Outside
    <2>1. CASE Crash
      BY <2>1 DEF Crash, IdleCall, CallMove
    <2>2. CASE ~Crash
      BY <1>1, <1>7, <2>2
         DEF Outside, Grant, CreatePullRequest, TransitionEpic, HandPush, BaseMoves
    <2> QED  BY <2>1, <2>2
  <1> QED  BY <1>1, <1>4, <1>5, <1>6, <1>7 DEF Next, vars

\* A call that opens pull requests does nothing else.
LEMMA OpeningGoesOn ==
    ASSUME TypeOK, NEW c \in Callers
    PROVE  /\ OpenRead(c) => call'[c].at = "open-cut" /\ "open" \in Duties[c]
           /\ OpenCut(c) \/ OpenRecord(c) =>
                 call[c].at \in OpenSteps /\ call'[c].at \in OpenSteps \cup {"idle"}
  <1>1. OpenRead(c) => call'[c].at = "open-cut" /\ "open" \in Duties[c]
    BY TypeOK DEF OpenRead, CanStart, TypeOK, Call
  <1>2. OpenCut(c) => call[c].at \in OpenSteps /\ call'[c].at \in OpenSteps
    BY TypeOK DEF OpenCut, TypeOK, Call, OpenSteps
  <1>3. ASSUME OpenRecord(c)
        PROVE  call[c].at \in OpenSteps /\ call'[c].at \in OpenSteps \cup {"idle"}
    <2>1. call'[c] \in {IdleCall, [call[c] EXCEPT !.at = "open-cut", !.issue = NoIssue]}
      BY <1>3, TypeOK DEF OpenRecord, TypeOK
    <2>2. [call[c] EXCEPT !.at = "open-cut", !.issue = NoIssue].at = "open-cut"
      BY TypeOK DEF TypeOK, Call
    <2> QED  BY <1>3, <2>1, <2>2 DEF OpenRecord, OpenSteps, IdleCall
  <1> QED  BY <1>1, <1>2, <1>3

\* What a call knows stays true.
LEMMA CallsKnownStep ==
    ASSUME TypeOK, CallsKnown, [Next]_vars
    PROVE  CallsKnown'
  <1> DEFINE Known(at, p, c) ==
                 /\ at \in SweepSteps \cup MergeSteps \cup ResetSteps
                       => p \in Records /\ pr'[p].status # "Absent"
                 /\ at \in OpenSteps => "open" \in Duties[c]
                 /\ at \in SweepSteps => "sweep" \in Duties[c]
                 /\ at \in MergeSteps => "merge" \in Duties[c]
                 /\ at \in ResetSteps => "reset" \in Duties[c]
  <1> SUFFICES ASSUME NEW c \in Callers
               PROVE  Known(call'[c].at, call'[c].pr, c)
    BY DEF CallsKnown, Records, OpenSteps, SweepSteps, MergeSteps, ResetSteps
  <1>1. \A p \in Records : pr[p].status # "Absent" => pr'[p].status # "Absent"
    BY RecordsKeepTheirIssue
  <1>2. Known(call[c].at, call[c].pr, c)
    BY <1>1, CallsKnown DEF CallsKnown
  <1>3. CASE call'[c] = call[c]
    BY <1>2, <1>3
  <1>4. CASE call'[c].at \in {"idle", "delete", "complete"}
    BY <1>4 DEF OpenSteps, SweepSteps, MergeSteps, ResetSteps
  <1>5. CASE OpenRead(c)
    BY <1>5, OpeningGoesOn DEF OpenSteps, SweepSteps, MergeSteps, ResetSteps
  <1>6. CASE OpenCut(c) \/ OpenRecord(c)
    BY <1>2, <1>6, OpeningGoesOn DEF OpenSteps, SweepSteps, MergeSteps, ResetSteps
  <1>7. ASSUME NEW p \in Records, SweepRead(c, p) \/ MergeRead(c, p) \/ ResetRead(c, p)
        PROVE  Known(call'[c].at, call'[c].pr, c)
    <2>1. call'[c].pr = p /\ pr'[p].status # "Absent"
      BY <1>7, TypeOK DEF SweepRead, MergeRead, ResetRead, TypeOK, Call, store
    <2>2. \/ call'[c].at = "sweep-inspect" /\ "sweep" \in Duties[c]
          \/ call'[c].at = "merge-land" /\ "merge" \in Duties[c]
          \/ call'[c].at = "reset-drain" /\ "reset" \in Duties[c]
      BY <1>7, TypeOK DEF SweepRead, MergeRead, ResetRead, CanStart, TypeOK, Call
    <2> QED  BY <2>1, <2>2 DEF OpenSteps, SweepSteps, MergeSteps, ResetSteps
  <1>8. CASE SweepInspect(c)
    <2>1. /\ call[c].at \in SweepSteps
          /\ \/ call'[c].at = "idle"
             \/ call'[c].at \in SweepSteps /\ call'[c].pr = call[c].pr
      BY <1>8, TypeOK
         DEF SweepInspect, SweepVerdict, TypeOK, Call, SweepSteps, IdleCall
    <2> QED  BY <1>2, <2>1 DEF OpenSteps, SweepSteps, MergeSteps, ResetSteps
  <1>9. CASE MergeLand(c)
    <2>1. /\ call[c].at \in MergeSteps /\ call'[c].at \in MergeSteps
          /\ call'[c].pr = call[c].pr
      BY <1>9, TypeOK DEF MergeLand, TypeOK, Call, MergeSteps
    <2> QED  BY <1>2, <2>1 DEF OpenSteps, SweepSteps, MergeSteps, ResetSteps
  <1>10. CASE ResetDrained(c) \/ ResetDelete(c)
    <2>1. /\ call[c].at \in ResetSteps /\ call'[c].at \in ResetSteps
          /\ call'[c].pr = call[c].pr
      BY <1>10, TypeOK DEF ResetDrained, ResetDelete, TypeOK, Call, ResetSteps
    <2> QED  BY <1>2, <2>1 DEF OpenSteps, SweepSteps, MergeSteps, ResetSteps
  <1>11. CallMove(c)
    BY CallsMove
  <1> HIDE DEF Known
  <1> QED
    BY <1>3, <1>4, <1>5, <1>6, <1>7, <1>8, <1>9, <1>10, <1>11 DEF CallMove

HasNoneOpen(i) == \A p \in Records : ~(pr[p].issue = i /\ pr[p].status = "Open")

\* An opening starts from a read of what is due, and its list only shrinks.
LEMMA OpeningsRead ==
    ASSUME TypeOK, NEW c \in Callers, OpenRead(c)
    PROVE  /\ UNCHANGED <<store, git, round>>
           /\ \A i \in call'[c].todo : /\ i \in Issues /\ issue[i] = "Open"
                                        /\ ~Blocked(issue, Waits, i) /\ HasNoneOpen(i)
  <1>1. call[c] \in Call
    BY TypeOK DEF TypeOK
  <1>2. UNCHANGED <<store, git, round>>
    BY DEF OpenRead
  <1>3. call'[c].todo = {i \in Issues : /\ issue[i] = "Open"
                                        /\ ~Blocked(issue, Waits, i)
                                        /\ OpenRecords(i) = {}}
    BY <1>1, TypeOK DEF OpenRead, TypeOK, Call
  <1> QED  BY <1>2, <1>3 DEF OpenRecords, HasNoneOpen

LEMMA OpeningsShrink ==
    ASSUME TypeOK, [Next]_vars, NEW c \in Callers, call'[c].at \in OpenSteps, ~OpenRead(c)
    PROVE  call[c].at \in OpenSteps /\ call'[c].todo \subseteq call[c].todo
  <1>1. call[c] \in Call
    BY TypeOK DEF TypeOK
  <1>2. CASE call'[c] = call[c]
    BY <1>2
  <1>3. CASE OpenCut(c)
    <2>1. PICK i \in call[c].todo : call' = [call EXCEPT ![c].at = "open-record",
                                                        ![c].issue = i,
                                                        ![c].todo = call[c].todo \ {i}]
      BY <1>3 DEF OpenCut
    <2> QED  BY <1>1, <1>3, <2>1, TypeOK DEF TypeOK, Call, OpenCut, OpenSteps
  <1>4. CASE OpenRecord(c)
    <2>1. /\ call[c].at \in OpenSteps
          /\ call'[c] \in {IdleCall, [call[c] EXCEPT !.at = "open-cut", !.issue = NoIssue]}
      BY <1>4, TypeOK DEF OpenRecord, TypeOK, OpenSteps
    <2>2. [call[c] EXCEPT !.at = "open-cut", !.issue = NoIssue].todo = call[c].todo
      BY <1>1 DEF Call
    <2>3. IdleCall.todo = {}
      BY DEF IdleCall
    <2> QED  BY <2>1, <2>2, <2>3
  <1>5. \A p \in Records : ~(SweepRead(c, p) \/ MergeRead(c, p) \/ ResetRead(c, p))
    BY <1>1, TypeOK DEF SweepRead, MergeRead, ResetRead, TypeOK, Call, OpenSteps
  <1>6. ~SweepInspect(c)
    <2>1. SweepInspect(c) => call'[c].at \in {"idle", "sweep-stale", "sweep-push"}
      BY <1>1, TypeOK DEF SweepInspect, SweepVerdict, IdleCall, TypeOK, Call
    <2> QED  BY <2>1 DEF OpenSteps
  <1>7. ~(MergeLand(c) \/ ResetDrained(c) \/ ResetDelete(c))
    BY <1>1, TypeOK DEF MergeLand, ResetDrained, ResetDelete, TypeOK, Call, OpenSteps
  <1>8. CallMove(c)
    BY CallsMove
  <1> QED
    BY <1>2, <1>3, <1>4, <1>5, <1>6, <1>7, <1>8 DEF CallMove, OpenSteps

\* What a step may make of the round of an issue.
RoundMove(i) ==
    \/ round'[i] = round[i]
    \/ round'[i].at = "idle"
    \/ \E c \in Callers : Dispatch(c, i)
    \/ RoundRead(i) \/ RoundCheckout(i) \/ RoundPublish(i)

\* A round moves by a step of its own.
LEMMA RoundsMove ==
    ASSUME TypeOK, [Next]_vars, NEW i \in Issues
    PROVE  RoundMove(i)
  <1>1. CASE UNCHANGED round
    BY <1>1 DEF RoundMove
  <1>2. ASSUME NEW j \in Issues, RoundStep(j) \/ RoundFail(j)
        PROVE  RoundMove(i)
    <2>1. CASE RoundRead(j)
      <3>1. j # i => round'[i] = round[i]
        BY <2>1, TypeOK DEF RoundRead, TypeOK
      <3> QED  BY <2>1, <3>1 DEF RoundMove
    <2>2. CASE RoundCheckout(j)
      <3>1. j # i => round'[i] = round[i]
        BY <2>2, TypeOK DEF RoundCheckout, TypeOK
      <3> QED  BY <2>2, <3>1 DEF RoundMove
    <2>3. CASE RoundPublish(j)
      <3>1. j # i => round'[i] = round[i]
        BY <2>3, TypeOK DEF RoundPublish, TypeOK
      <3> QED  BY <2>3, <3>1 DEF RoundMove
    <2>4. CASE round' = [round EXCEPT ![j] = IdleRound]
      <3>1. round'[i] = IF i = j THEN IdleRound ELSE round[i]
        BY <2>4, TypeOK DEF TypeOK
      <3> QED  BY <3>1 DEF RoundMove, IdleRound
    <2> QED
      BY <1>2, <2>1, <2>2, <2>3, <2>4
         DEF RoundStep, RoundStop, RoundRecord, RoundReview, RoundFail
  <1>3. ASSUME NEW c \in Callers, NEW j \in Issues, Dispatch(c, j)
        PROVE  RoundMove(i)
    <2>1. j # i => round'[i] = round[i]
      BY <1>3, TypeOK DEF Dispatch, TypeOK
    <2> QED  BY <1>3, <2>1 DEF RoundMove
  <1>4. ASSUME NEW c \in Callers, CallStart(c)
        PROVE  RoundMove(i)
    <2>1. OpenRead(c) \/ CompleteRead(c) \/ CloseEpic(c) => UNCHANGED round
      BY DEF OpenRead, CompleteRead, CloseEpic
    <2>2. \A j \in Issues : CloseIssue(c, j) => UNCHANGED round
      BY DEF CloseIssue
    <2>3. \A p \in Records :
             SweepRead(c, p) \/ ClosePullRequest(c, p) \/ MergeRead(c, p) \/ ResetRead(c, p)
                => UNCHANGED round
      BY DEF SweepRead, ClosePullRequest, MergeRead, ResetRead
    <2> QED  BY <1>1, <1>3, <1>4, <2>1, <2>2, <2>3 DEF CallStart
  <1>5. ASSUME NEW c \in Callers, CallStep(c) \/ CallFail(c)
        PROVE  RoundMove(i)
    BY <1>1, <1>5
       DEF CallStep, OpenCut, OpenRecord, SweepInspect, SweepStale, SweepPush,
           CompleteApply, DeleteBranch, MergeLand, MergeRecord, MergeStale, ResetDrained,
           ResetDelete, ResetClose, CallFail
  <1>6. CASE Outside
    <2>1. CASE Crash
      BY <2>1 DEF Crash, IdleRound, RoundMove
    <2>2. CASE ~Crash
      BY <1>1, <1>6, <2>2
         DEF Outside, Grant, CreatePullRequest, TransitionEpic, HandPush, BaseMoves
    <2> QED  BY <2>1, <2>2
  <1> QED  BY <1>1, <1>2, <1>4, <1>5, <1>6 DEF Next, vars

\* What a step may make of the branch of an issue and of its working copy.
BranchMove(i) ==
    \/ branch'[i] = branch[i] /\ checkout'[i] = checkout[i]
    \/ branch'[i] = {} /\ checkout'[i] = {}
    \/ \E c \in Callers : /\ OpenCut(c) /\ i \in call[c].todo
                          /\ branch'[i] = StartOf(i) /\ checkout'[i] = StartOf(i)
    \/ RoundCheckout(i) \/ RoundPublish(i) \/ HandPush(i)

\* A branch and its working copy go together: only the issue's own round checks it
\* out or pushes, only an opening cuts it, and who deletes one deletes both.
LEMMA BranchesMove ==
    ASSUME TypeOK, [Next]_vars, NEW i \in Issues
    PROVE  BranchMove(i)
  <1>1. CASE UNCHANGED <<branch, checkout>>
    BY <1>1 DEF BranchMove
  <1>2. ASSUME NEW j \in Issues, RoundStep(j) \/ RoundFail(j)
        PROVE  BranchMove(i)
    <2>1. CASE RoundCheckout(j)
      <3>1. j # i => branch'[i] = branch[i] /\ checkout'[i] = checkout[i]
        BY <2>1, TypeOK DEF RoundCheckout, TypeOK
      <3> QED  BY <2>1, <3>1 DEF BranchMove
    <2>2. CASE RoundPublish(j)
      <3>1. j # i => branch'[i] = branch[i] /\ checkout'[i] = checkout[i]
        BY <2>2, TypeOK DEF RoundPublish, TypeOK
      <3> QED  BY <2>2, <3>1 DEF BranchMove
    <2> QED
      BY <1>1, <1>2, <2>1, <2>2
         DEF RoundStep, RoundRead, RoundStop, RoundRecord, RoundReview, RoundFail, git
  <1>3. ASSUME NEW c \in Callers, OpenCut(c)
        PROVE  BranchMove(i)
    <2>1. PICK j \in call[c].todo : /\ checkout' = [checkout EXCEPT ![j] = StartOf(j)]
                                    /\ branch' = [branch EXCEPT ![j] = StartOf(j)]
      BY <1>3 DEF OpenCut
    <2>2. CASE j = i
      <3>1. i \in call[c].todo /\ branch'[i] = StartOf(i) /\ checkout'[i] = StartOf(i)
        BY <2>1, <2>2, TypeOK DEF TypeOK
      <3> QED  BY <1>3, <3>1 DEF BranchMove
    <2>3. CASE j # i
      <3>1. branch'[i] = branch[i] /\ checkout'[i] = checkout[i]
        BY <2>1, <2>3, TypeOK DEF TypeOK
      <3> QED  BY <3>1 DEF BranchMove
    <2> QED  BY <2>2, <2>3
  <1>4. ASSUME NEW c \in Callers, DeleteBranch(c) \/ ResetDelete(c)
        PROVE  BranchMove(i)
    <2>1. \/ UNCHANGED <<branch, checkout>>
          \/ \E j : /\ branch' = [branch EXCEPT ![j] = {}]
                    /\ checkout' = [checkout EXCEPT ![j] = {}]
      BY <1>4 DEF DeleteBranch, ResetDelete
    <2>2. ASSUME NEW j, branch' = [branch EXCEPT ![j] = {}],
                 checkout' = [checkout EXCEPT ![j] = {}]
          PROVE  BranchMove(i)
      <3>1. \/ branch'[i] = branch[i] /\ checkout'[i] = checkout[i]
            \/ branch'[i] = {} /\ checkout'[i] = {}
        BY <2>2, TypeOK DEF TypeOK
      <3> QED  BY <3>1 DEF BranchMove
    <2> QED  BY <1>1, <2>1, <2>2
  <1>5. ASSUME NEW j \in Issues, HandPush(j)
        PROVE  BranchMove(i)
    <2>1. j # i => branch'[i] = branch[i] /\ checkout'[i] = checkout[i]
      BY <1>5, TypeOK DEF HandPush, TypeOK
    <2> QED  BY <1>5, <2>1 DEF BranchMove
  <1>6. ASSUME NEW c \in Callers, CallStart(c)
        PROVE  BranchMove(i)
    <2>1. OpenRead(c) \/ CompleteRead(c) \/ CloseEpic(c) => UNCHANGED <<branch, checkout>>
      BY DEF OpenRead, CompleteRead, CloseEpic, git
    <2>2. \A j \in Issues : Dispatch(c, j) \/ CloseIssue(c, j) => UNCHANGED <<branch, checkout>>
      BY DEF Dispatch, CloseIssue, git
    <2>3. \A p \in Records :
             SweepRead(c, p) \/ ClosePullRequest(c, p) \/ MergeRead(c, p) \/ ResetRead(c, p)
                => UNCHANGED <<branch, checkout>>
      BY DEF SweepRead, ClosePullRequest, MergeRead, ResetRead, git
    <2> QED  BY <1>1, <1>6, <2>1, <2>2, <2>3 DEF CallStart
  <1>7. ASSUME NEW c \in Callers, CallStep(c) \/ CallFail(c)
        PROVE  BranchMove(i)
    <2>1. CASE OpenCut(c) \/ DeleteBranch(c) \/ ResetDelete(c)
      BY <1>3, <1>4, <2>1
    <2>2. CASE ~(OpenCut(c) \/ DeleteBranch(c) \/ ResetDelete(c))
      BY <1>1, <1>7, <2>2
         DEF CallStep, OpenRecord, SweepInspect, SweepStale, SweepPush, CompleteApply,
             MergeLand, MergeRecord, MergeStale, ResetDrained, ResetClose, CallFail, git
    <2> QED  BY <2>1, <2>2
  <1>8. CASE Outside
    BY <1>1, <1>5, <1>8
       DEF Outside, Grant, CreatePullRequest, TransitionEpic, BaseMoves, Crash, git
  <1> QED  BY <1>1, <1>2, <1>6, <1>7, <1>8 DEF Next, vars, git

\* What a step may make of the issues and the records: the end of a round, or an
\* update that leaves Git and the rounds alone.
AggregateMove ==
    \/ UNCHANGED <<issue, pr>>
    \/ \E i \in Issues : RoundRecord(i) \/ \E approved \in BOOLEAN : RoundReview(i, approved)
    \/ \E c \in Callers :
          \/ OpenRecord(c) \/ SweepPush(c) \/ SweepStale(c) \/ MergeStale(c)
          \/ MergeRecord(c) \/ ResetClose(c)
          \/ \E p \in Records : ClosePullRequest(c, p)
          \/ \E closing \in SUBSET Issues : CloseAll(closing) /\ UNCHANGED <<git, round>>
    \/ \E i \in Issues : CreatePullRequest(i)
    \/ \E p \in Records : Grant(p)

LEMMA AggregateMoves ==
    ASSUME [Next]_vars
    PROVE  AggregateMove
  <1> USE ConstantsAreTyped
  <1>1. CASE UNCHANGED <<issue, pr>>
    BY <1>1 DEF AggregateMove
  <1>2. ASSUME NEW i \in Issues, RoundStep(i) \/ RoundFail(i)
        PROVE  AggregateMove
    <2>1. CASE RoundRecord(i) \/ \E approved \in BOOLEAN : RoundReview(i, approved)
      BY <2>1 DEF AggregateMove
    <2>2. CASE ~(RoundRecord(i) \/ \E approved \in BOOLEAN : RoundReview(i, approved))
      BY <1>1, <1>2, <2>2
         DEF RoundStep, RoundRead, RoundStop, RoundCheckout, RoundPublish, RoundFail, store
    <2> QED  BY <2>1, <2>2
  <1>3. ASSUME NEW c \in Callers, CallStart(c)
        PROVE  AggregateMove
    <2>1. OpenRead(c) \/ CompleteRead(c) => UNCHANGED <<issue, pr>>
      BY DEF OpenRead, CompleteRead, store
    <2>2. CASE CloseEpic(c)
      <3>1. CloseAll(Issues) /\ UNCHANGED <<git, round>>
        BY <2>2 DEF CloseEpic
      <3> QED  BY <3>1 DEF AggregateMove
    <2>3. ASSUME NEW j \in Issues, CloseIssue(c, j)
          PROVE  AggregateMove
      <3>1. CloseAll(Subtree[j]) /\ UNCHANGED <<git, round>> /\ Subtree[j] \in SUBSET Issues
        BY <2>3 DEF CloseIssue
      <3> QED  BY <3>1 DEF AggregateMove
    <2>4. \A j \in Issues : Dispatch(c, j) => UNCHANGED <<issue, pr>>
      BY DEF Dispatch, store
    <2>5. \A p \in Records :
             SweepRead(c, p) \/ MergeRead(c, p) \/ ResetRead(c, p) => UNCHANGED <<issue, pr>>
      BY DEF SweepRead, MergeRead, ResetRead, store
    <2>6. ASSUME NEW p \in Records, ClosePullRequest(c, p)
          PROVE  AggregateMove
      BY <2>6 DEF AggregateMove
    <2> QED  BY <1>1, <1>3, <2>1, <2>2, <2>3, <2>4, <2>5, <2>6 DEF CallStart
  <1>4. ASSUME NEW c \in Callers, CallStep(c) \/ CallFail(c)
        PROVE  AggregateMove
    <2>1. CASE \/ OpenRecord(c) \/ SweepPush(c) \/ SweepStale(c) \/ MergeStale(c)
               \/ MergeRecord(c) \/ ResetClose(c)
      BY <2>1 DEF AggregateMove
    <2>2. CASE ~(\/ OpenRecord(c) \/ SweepPush(c) \/ SweepStale(c) \/ MergeStale(c)
                 \/ MergeRecord(c) \/ ResetClose(c))
      BY <1>1, <1>4, <2>2
         DEF CallStep, OpenCut, SweepInspect, CompleteApply, DeleteBranch, MergeLand,
             ResetDrained, ResetDelete, CallFail, store
    <2> QED  BY <2>1, <2>2
  <1>5. CASE Outside
    <2>1. CASE \/ \E i \in Issues : CreatePullRequest(i)
               \/ \E p \in Records : Grant(p)
      BY <2>1 DEF AggregateMove
    <2>2. CASE ~(\/ \E i \in Issues : CreatePullRequest(i)
                 \/ \E p \in Records : Grant(p))
      BY <1>1, <1>5, <2>2 DEF Outside, TransitionEpic, HandPush, BaseMoves, Crash, store
    <2> QED  BY <2>1, <2>2
  <1> QED  BY <1>1, <1>2, <1>3, <1>4, <1>5 DEF Next, vars, store

\* What a step may make of one record, and where it leaves the record's issue.
Same(p) == pr'[p].status = pr[p].status /\ pr'[p].issue = pr[p].issue

Opened(p) ==
    \E j \in Issues :
        /\ pr[p].status = "Absent" /\ pr'[p] = NewRecord(j) /\ issue'[j] = "Coding"
        /\ \/ \E c \in Callers : OpenRecord(c) /\ call[c].issue = j
           \/ CreatePullRequest(j)

Invalidated(p) ==
    LET i == pr[p].issue
    IN  /\ Same(p) /\ ~pr'[p].approved /\ (pr'[p].stale => pr[p].stale)
        /\ issue'[i] = "Review"
        /\ \/ RoundRecord(i) /\ round[i].pr = p
           \/ \E c \in Callers : SweepPush(c) /\ call[c].pr = p

Reviewed(p) ==
    LET i == pr[p].issue
    IN  \E approved \in BOOLEAN :
            /\ RoundReview(i, approved) /\ round[i].pr = p
            /\ Same(p) /\ pr'[p].stale = pr[p].stale
            /\ pr'[p].approved = approved /\ pr'[p].reviewed = checkout[i]
            /\ issue'[i] = IF approved THEN "Pr" ELSE "Coding"

Flagged(p) ==
    /\ Same(p) /\ pr'[p].approved = pr[p].approved /\ pr'[p].reviewed = pr[p].reviewed
    /\ \/ pr'[p].stale = pr[p].stale
       \/ /\ pr'[p].stale
          /\ issue'[pr[p].issue] = "Stale" /\ issue[pr[p].issue] \in {"Pr", "Stale"}

Ended(p) ==
    /\ pr[p].status = "Open"
    /\ \/ pr'[p] = [pr[p] EXCEPT !.status = "Merged"] /\ issue'[pr[p].issue] = "Merged"
             /\ \E c \in Callers : MergeRecord(c) /\ call[c].pr = p
       \/ pr'[p] = [pr[p] EXCEPT !.status = "Closed"] /\ issue'[pr[p].issue] = "Closed"
       \/ pr'[p] = [pr[p] EXCEPT !.status = "Closed"] /\ issue'[pr[p].issue] = "Open"
             /\ \E c \in Callers : "close-pr" \in Duties[c] \/ "reset" \in Duties[c]

RecordMove(p) ==
    pr'[p] = pr[p] \/ Opened(p) \/ Invalidated(p) \/ Reviewed(p) \/ Flagged(p) \/ Ended(p)

\* A record that has just been made is as NewRecord leaves it.
LEMMA OpenedIsNew ==
    ASSUME NEW p \in Records, Opened(p)
    PROVE  /\ pr[p].status = "Absent" /\ pr'[p].status = "Open"
           /\ ~pr'[p].stale /\ ~pr'[p].approved
           /\ pr'[p].issue \in Issues /\ issue'[pr'[p].issue] = "Coding"
  <1>1. PICK j \in Issues : /\ pr[p].status = "Absent" /\ pr'[p] = NewRecord(j)
                            /\ issue'[j] = "Coding"
    BY DEF Opened
  <1>2. /\ NewRecord(j).status = "Open" /\ NewRecord(j).issue = j
        /\ ~NewRecord(j).stale /\ ~NewRecord(j).approved
    BY DEF NewRecord
  <1> QED  BY <1>1, <1>2

\* A transition of an issue that is made is one of the table's.
LEMMA IssueMoves ==
    ASSUME TypeOK, NEW i, NEW next, MoveIssue(i, next)
    PROVE  /\ i \in Issues
           /\ issue[i] = next \/ issue[i] \in IssueSources(next)
           /\ \A j \in Issues : issue'[j] = IF j = i THEN next ELSE issue[j]
  BY TypeOK DEF MoveIssue, IssueMayMoveTo, TypeOK

\* A record is opened, invalidated with its issue back in Review, judged, flagged
\* or ended, by nothing but the step that says so.
LEMMA RecordsMove ==
    ASSUME TypeOK, RecordsNamed, RoundsHold, CallsKnown, [Next]_vars, NEW p \in Records
    PROVE  RecordMove(p)
  <1>1. pr \in [Records -> Record] /\ pr[p] \in Record
    BY TypeOK DEF TypeOK
  <1>2. CASE pr' = pr
    BY <1>2 DEF RecordMove
  <1>3. ASSUME NEW i \in Issues, RoundRecord(i)
        PROVE  RecordMove(p)
    <2>1. /\ round[i].pr \in Records /\ pr[round[i].pr].issue = i
          /\ MoveIssue(pr[round[i].pr].issue, "Review")
      BY <1>3, RoundsHold DEF RoundRecord, RoundsHold
    <2>2. CASE p # round[i].pr
      <3>1. pr'[p] = pr[p]
        BY <1>1, <1>3, <2>2 DEF RoundRecord
      <3> QED  BY <3>1 DEF RecordMove
    <2>3. CASE p = round[i].pr
      <3>1. pr'[p] \in {RecordCodingRound(pr[p]), RecordMergeRound(pr[p])}
        BY <1>1, <1>3, <2>3 DEF RoundRecord
      <3>2. Same(p) /\ ~pr'[p].approved /\ (pr'[p].stale => pr[p].stale)
        BY <1>1, <3>1
           DEF RecordCodingRound, RecordMergeRound, InvalidateReview, Record, Same
      <3>3. issue'[pr[p].issue] = "Review"
        BY <2>1, <2>3, IssueMoves
      <3> QED  BY <1>3, <2>1, <2>3, <3>2, <3>3 DEF RecordMove, Invalidated
    <2> QED  BY <2>2, <2>3
  <1>4. ASSUME NEW i \in Issues, NEW approved \in BOOLEAN, RoundReview(i, approved)
        PROVE  RecordMove(p)
    <2>1. /\ round[i].pr \in Records /\ pr[round[i].pr].issue = i
          /\ MoveIssue(pr[round[i].pr].issue, IF approved THEN "Pr" ELSE "Coding")
      BY <1>4, RoundsHold DEF RoundReview, RoundsHold
    <2>2. CASE p # round[i].pr
      <3>1. pr'[p] = pr[p]
        BY <1>1, <1>4, <2>2 DEF RoundReview
      <3> QED  BY <3>1 DEF RecordMove
    <2>3. CASE p = round[i].pr
      <3>1. pr'[p] = RecordReview(pr[p], approved, checkout[i])
        BY <1>1, <1>4, <2>3 DEF RoundReview
      <3>2. /\ Same(p) /\ pr'[p].stale = pr[p].stale
            /\ pr'[p].approved = approved /\ pr'[p].reviewed = checkout[i]
        BY <1>1, <3>1 DEF RecordReview, Record, Same
      <3>3. issue'[pr[p].issue] = IF approved THEN "Pr" ELSE "Coding"
        BY <2>1, <2>3, IssueMoves
      <3>4. Reviewed(p)
        BY <1>4, <2>1, <2>3, <3>2, <3>3 DEF Reviewed
      <3> QED  BY <3>4 DEF RecordMove
    <2> QED  BY <2>2, <2>3
  <1>5. ASSUME NEW j, AddPullRequest(j),
               \/ \E c \in Callers : OpenRecord(c) /\ call[c].issue = j
               \/ CreatePullRequest(j)
        PROVE  RecordMove(p)
    <2>1. PICK q \in Records : pr[q].status = "Absent" /\ pr' = [pr EXCEPT ![q] = NewRecord(j)]
      BY <1>5 DEF AddPullRequest, IsNextRecord
    <2>2. j \in Issues /\ issue'[j] = "Coding"
      BY <1>5, IssueMoves DEF AddPullRequest
    <2>3. CASE p # q
      <3>1. pr'[p] = pr[p]
        BY <1>1, <2>1, <2>3
      <3> QED  BY <3>1 DEF RecordMove
    <2>4. CASE p = q
      <3>1. pr[p].status = "Absent" /\ pr'[p] = NewRecord(j)
        BY <1>1, <2>1, <2>4
      <3>2. Opened(p)
        BY <1>5, <2>2, <3>1 DEF Opened
      <3> QED  BY <3>2 DEF RecordMove
    <2> QED  BY <2>3, <2>4
  <1>6. ASSUME NEW c \in Callers, SweepPush(c)
        PROVE  RecordMove(p)
    <2>1. /\ call[c].pr \in Records
          /\ pr' = [pr EXCEPT ![call[c].pr] = RecordExternalPush(pr[call[c].pr])]
          /\ MoveIssue(pr[call[c].pr].issue, "Review")
      BY <1>6, CallsKnown DEF SweepPush, CallsKnown, SweepSteps
    <2>2. CASE p # call[c].pr
      <3>1. pr'[p] = pr[p]
        BY <1>1, <2>1, <2>2
      <3> QED  BY <3>1 DEF RecordMove
    <2>3. CASE p = call[c].pr
      <3>1. pr'[p] = RecordExternalPush(pr[p])
        BY <1>1, <2>1, <2>3
      <3>2. Same(p) /\ ~pr'[p].approved /\ (pr'[p].stale => pr[p].stale)
        BY <1>1, <3>1 DEF RecordExternalPush, InvalidateReview, Record, Same
      <3>3. issue'[pr[p].issue] = "Review"
        BY <2>1, <2>3, IssueMoves
      <3> QED  BY <1>6, <2>3, <3>2, <3>3 DEF RecordMove, Invalidated
    <2> QED  BY <2>2, <2>3
  <1>7. ASSUME NEW q \in Records, MarkStale(q)
        PROVE  RecordMove(p)
    <2>1. /\ pr' = [pr EXCEPT ![q].stale = TRUE] /\ issue'[pr[q].issue] = "Stale"
          /\ issue[pr[q].issue] = "Stale" \/ issue[pr[q].issue] \in IssueSources("Stale")
      BY <1>7, IssueMoves DEF MarkStale
    <2>2. issue[pr[q].issue] \in {"Pr", "Stale"}
      BY <2>1 DEF IssueSources
    <2>3. CASE p # q
      <3>1. pr'[p] = pr[p]
        BY <1>1, <2>1, <2>3
      <3> QED  BY <3>1 DEF RecordMove
    <2>4. CASE p = q
      <3>1. Same(p) /\ pr'[p].approved = pr[p].approved /\ pr'[p].reviewed = pr[p].reviewed
        BY <1>1, <2>1, <2>4 DEF Record, Same
      <3>2. pr'[p].stale
        BY <1>1, <2>1, <2>4 DEF Record
      <3> QED  BY <2>1, <2>2, <2>4, <3>1, <3>2 DEF RecordMove, Flagged
    <2> QED  BY <2>3, <2>4
  <1>8. ASSUME NEW q \in Records, Grant(q)
        PROVE  RecordMove(p)
    <2>1. pr' = [pr EXCEPT ![q] = GrantCodingRound(pr[q])]
      BY <1>8 DEF Grant
    <2>2. CASE p # q
      <3>1. pr'[p] = pr[p]
        BY <1>1, <2>1, <2>2
      <3> QED  BY <3>1 DEF RecordMove
    <2>3. CASE p = q
      <3>1. pr'[p] = GrantCodingRound(pr[p])
        BY <1>1, <2>1, <2>3
      <3>2. /\ Same(p) /\ pr'[p].approved = pr[p].approved
            /\ pr'[p].reviewed = pr[p].reviewed /\ pr'[p].stale = pr[p].stale
        BY <1>1, <3>1 DEF GrantCodingRound, Record, Same
      <3> QED  BY <3>2 DEF RecordMove, Flagged
    <2> QED  BY <2>2, <2>3
  <1>9. ASSUME NEW c \in Callers, MergeRecord(c)
        PROVE  RecordMove(p)
    <2>1. /\ call[c].pr \in Records /\ TransitionPullRequest(call[c].pr, "Merged")
      BY <1>9, CallsKnown DEF MergeRecord, CallsKnown, MergeSteps
    <2>2. issue'[pr[call[c].pr].issue] = "Merged" /\ pr[call[c].pr].status = "Open"
      BY <2>1, IssueMoves DEF TransitionPullRequest
    <2>3. pr'[p] = IF p = call[c].pr THEN [pr[p] EXCEPT !.status = "Merged"] ELSE pr[p]
      BY <1>1, <2>1 DEF TransitionPullRequest
    <2> QED  BY <1>9, <2>2, <2>3 DEF RecordMove, Ended
  <1>10. ASSUME NEW c \in Callers, NEW q \in Records, TransitionPullRequest(q, "Closed"),
                "close-pr" \in Duties[c] \/ "reset" \in Duties[c]
         PROVE  RecordMove(p)
    <2>1. issue'[pr[q].issue] = "Open" /\ pr[q].status = "Open"
      BY <1>10, IssueMoves DEF TransitionPullRequest
    <2>2. pr'[p] = IF p = q THEN [pr[p] EXCEPT !.status = "Closed"] ELSE pr[p]
      BY <1>1, <1>10 DEF TransitionPullRequest
    <2> QED  BY <1>10, <2>1, <2>2 DEF RecordMove, Ended
  <1>11. ASSUME NEW closing, CloseAll(closing)
         PROVE  RecordMove(p)
    <2> DEFINE abandoned == {i \in closing : issue[i] # "Merged"}
    <2>1. /\ pr'[p] = IF pr[p].status = "Open" /\ pr[p].issue \in abandoned
                      THEN [pr[p] EXCEPT !.status = "Closed"] ELSE pr[p]
          /\ \A i \in Issues : i \in abandoned => issue'[i] = "Closed"
      BY <1>11 DEF CloseAll
    <2>2. pr[p].status = "Open" => pr[p].issue \in Issues
      BY RecordsNamed DEF RecordsNamed
    <2> HIDE DEF abandoned
    <2> QED  BY <2>1, <2>2 DEF RecordMove, Ended
  <1>12. ASSUME NEW c \in Callers, SweepStale(c) \/ MergeStale(c)
         PROVE  RecordMove(p)
    <2>1. call[c].pr \in Records /\ MarkStale(call[c].pr)
      BY <1>12, CallsKnown DEF SweepStale, MergeStale, CallsKnown, SweepSteps, MergeSteps
    <2> QED  BY <1>7, <2>1
  <1>13. ASSUME NEW c \in Callers, ResetClose(c) \/ \E q \in Records : ClosePullRequest(c, q)
         PROVE  RecordMove(p)
    <2>1. ResetClose(c) => /\ call[c].pr \in Records /\ "reset" \in Duties[c]
                           /\ TransitionPullRequest(call[c].pr, "Closed")
      BY CallsKnown DEF ResetClose, CallsKnown, ResetSteps
    <2>2. \A q \in Records : ClosePullRequest(c, q)
             => "close-pr" \in Duties[c] /\ TransitionPullRequest(q, "Closed")
      BY DEF ClosePullRequest, CanStart
    <2> QED  BY <1>10, <1>13, <2>1, <2>2
  <1>14. ASSUME NEW c \in Callers, OpenRecord(c)
         PROVE  RecordMove(p)
    BY <1>5, <1>14 DEF OpenRecord
  <1>15. ASSUME NEW i \in Issues, CreatePullRequest(i)
         PROVE  RecordMove(p)
    BY <1>5, <1>15 DEF CreatePullRequest
  <1>16. AggregateMove
    BY AggregateMoves
  <1> QED
    BY <1>2, <1>3, <1>4, <1>6, <1>8, <1>9, <1>11, <1>12, <1>13, <1>14, <1>15, <1>16
       DEF AggregateMove

\* What a step may make of the state of one issue.
IssueMove(i) ==
    \/ issue'[i] = issue[i]
    \/ /\ issue'[i] = "Coding" /\ issue[i] \in {"Open", "Review"}
       /\ RoundReview(i, FALSE) \/ \E p \in Records : Opened(p) /\ pr'[p].issue = i
    \/ /\ issue'[i] = "Review" /\ issue[i] \in {"Coding", "Stale", "Pr"}
       /\ RoundRecord(i) \/ \E c \in Callers : SweepPush(c) /\ pr[call[c].pr].issue = i
    \/ issue'[i] = "Pr" /\ issue[i] = "Review" /\ RoundReview(i, TRUE)
    \/ issue'[i] = "Stale" /\ issue[i] = "Pr"
    \/ issue'[i] = "Open" /\ issue[i] \notin SettledStates
    \/ /\ issue'[i] = "Merged" /\ issue[i] = "Pr"
       /\ \E q \in Records : /\ pr[q].status = "Open" /\ pr[q].issue = i
                            /\ pr'[q].status = "Merged"
    \/ /\ issue'[i] = "Closed" /\ issue[i] \notin SettledStates
       /\ \A q \in Records : pr[q].issue = i => pr'[q].status # "Open"

\* An issue moves along its table, and between two phases only by the round of its
\* own or by the sweep.
LEMMA IssuesMove ==
    ASSUME TypeOK, RecordsNamed, RoundsHold, CallsKnown, [Next]_vars, NEW i \in Issues
    PROVE  IssueMove(i)
  <1> DEFINE Moved(j, next) ==
                 /\ issue[j] = next \/ issue[j] \in IssueSources(next)
                 /\ issue'[i] = IF i = j THEN next ELSE issue[i]
  <1>move. ASSUME NEW j, NEW next, MoveIssue(j, next)
           PROVE  Moved(j, next)
    BY <1>move, IssueMoves
  <1>1. CASE issue' = issue
    BY <1>1 DEF IssueMove
  <1>2. ASSUME NEW j \in Issues, RoundRecord(j)
        PROVE  IssueMove(i)
    <2>1. pr[round[j].pr].issue = j /\ MoveIssue(pr[round[j].pr].issue, "Review")
      BY <1>2, RoundsHold DEF RoundRecord, RoundsHold
    <2>2. Moved(j, "Review")
      BY <1>move, <2>1
    <2> QED  BY <1>2, <2>2 DEF IssueMove, IssueSources
  <1>3. ASSUME NEW j \in Issues, NEW approved \in BOOLEAN, RoundReview(j, approved)
        PROVE  IssueMove(i)
    <2>1. /\ pr[round[j].pr].issue = j
          /\ MoveIssue(pr[round[j].pr].issue, IF approved THEN "Pr" ELSE "Coding")
      BY <1>3, RoundsHold DEF RoundReview, RoundsHold
    <2>2. CASE approved
      <3>1. RoundReview(j, TRUE) /\ MoveIssue(j, "Pr")
        BY <1>3, <2>1, <2>2
      <3>2. Moved(j, "Pr")
        BY <1>move, <3>1
      <3> QED  BY <3>1, <3>2 DEF IssueMove, IssueSources
    <2>3. CASE ~approved
      <3>1. RoundReview(j, FALSE) /\ MoveIssue(j, "Coding")
        BY <1>3, <2>1, <2>3
      <3>2. Moved(j, "Coding")
        BY <1>move, <3>1
      <3> QED  BY <3>1, <3>2 DEF IssueMove, IssueSources
    <2> QED  BY <2>2, <2>3
  <1>4. ASSUME NEW j, AddPullRequest(j),
               \/ \E c \in Callers : OpenRecord(c) /\ call[c].issue = j
               \/ CreatePullRequest(j)
        PROVE  IssueMove(i)
    <2>1. PICK q \in Records : pr[q].status = "Absent" /\ pr' = [pr EXCEPT ![q] = NewRecord(j)]
      BY <1>4 DEF AddPullRequest, IsNextRecord
    <2>2. /\ j \in Issues /\ issue'[j] = "Coding" /\ issue[j] \in {"Coding", "Open", "Review"}
          /\ i # j => issue'[i] = issue[i]
      BY <1>4, IssueMoves DEF AddPullRequest, IssueSources
    <2>3. pr'[q] = NewRecord(j) /\ pr'[q].issue = j
      BY <2>1, TypeOK DEF TypeOK, NewRecord
    <2>4. Opened(q)
      BY <1>4, <2>1, <2>2, <2>3 DEF Opened
    <2> QED  BY <2>2, <2>3, <2>4 DEF IssueMove
  <1>5. ASSUME NEW c \in Callers, SweepPush(c)
        PROVE  IssueMove(i)
    <2>1. MoveIssue(pr[call[c].pr].issue, "Review")
      BY <1>5 DEF SweepPush
    <2>2. Moved(pr[call[c].pr].issue, "Review")
      BY <1>move, <2>1
    <2> QED  BY <1>5, <2>2 DEF IssueMove, IssueSources
  <1>6. ASSUME NEW c \in Callers, SweepStale(c) \/ MergeStale(c)
        PROVE  IssueMove(i)
    <2>1. MoveIssue(pr[call[c].pr].issue, "Stale")
      BY <1>6 DEF SweepStale, MergeStale, MarkStale
    <2>2. Moved(pr[call[c].pr].issue, "Stale")
      BY <1>move, <2>1
    <2> QED  BY <2>2 DEF IssueMove, IssueSources
  <1>7. ASSUME NEW q, TransitionPullRequest(q, "Closed")
        PROVE  IssueMove(i)
    <2>1. MoveIssue(pr[q].issue, "Open")
      BY <1>7 DEF TransitionPullRequest
    <2>2. Moved(pr[q].issue, "Open")
      BY <1>move, <2>1
    <2> QED  BY <2>2 DEF IssueMove, IssueSources
  <1>8. ASSUME NEW closing, CloseAll(closing)
        PROVE  IssueMove(i)
    <2> DEFINE abandoned == {j \in closing : issue[j] # "Merged"}
    <2>1. /\ issue'[i] = IF i \in abandoned THEN "Closed" ELSE issue[i]
          /\ \A q \in Records :
                pr'[q] = IF pr[q].status = "Open" /\ pr[q].issue \in abandoned
                         THEN [pr[q] EXCEPT !.status = "Closed"] ELSE pr[q]
      BY <1>8 DEF CloseAll
    <2>2. i \in abandoned => issue[i] # "Merged"
      OBVIOUS
    <2> HIDE DEF abandoned
    <2>3. ASSUME i \in abandoned, NEW q \in Records, pr[q].issue = i
          PROVE  pr'[q].status # "Open"
      BY <2>1, <2>3, TypeOK DEF TypeOK, Record
    <2> QED  BY <2>1, <2>2, <2>3 DEF IssueMove, SettledStates
  <1>9. ASSUME NEW c \in Callers,
               ResetClose(c) \/ \E q \in Records : ClosePullRequest(c, q)
        PROVE  IssueMove(i)
    BY <1>7, <1>9 DEF ResetClose, ClosePullRequest
  <1>merge. ASSUME NEW c \in Callers, MergeRecord(c)
            PROVE  IssueMove(i)
    <2>1. call[c].pr \in Records /\ TransitionPullRequest(call[c].pr, "Merged")
      BY <1>merge, CallsKnown DEF MergeRecord, CallsKnown, MergeSteps
    <2>2. MoveIssue(pr[call[c].pr].issue, "Merged") /\ pr[call[c].pr].status = "Open"
      BY <2>1 DEF TransitionPullRequest
    <2>3. pr'[call[c].pr].status = "Merged"
      BY <2>1, TypeOK DEF TransitionPullRequest, TypeOK, Record
    <2>4. Moved(pr[call[c].pr].issue, "Merged")
      BY <1>move, <2>2
    <2> QED  BY <2>1, <2>2, <2>3, <2>4 DEF IssueMove, IssueSources
  <1>10. ASSUME NEW c \in Callers, OpenRecord(c)
         PROVE  IssueMove(i)
    BY <1>4, <1>10 DEF OpenRecord
  <1>11. ASSUME NEW j \in Issues, CreatePullRequest(j)
         PROVE  IssueMove(i)
    BY <1>4, <1>11 DEF CreatePullRequest
  <1>12. ASSUME NEW p \in Records, Grant(p)
         PROVE  IssueMove(i)
    BY <1>1, <1>12 DEF Grant
  <1>13. AggregateMove
    BY AggregateMoves
  <1> QED
    BY <1>1, <1>2, <1>3, <1>5, <1>6, <1>8, <1>9, <1>10, <1>11, <1>12, <1>13, <1>merge
       DEF AggregateMove

\* What every behaviour keeps, whoever may do what.
Basis == IInv /\ CallsKnown

LEMMA BasisHolds == Spec => []Basis
  <1>1. Init => Basis
    BY InitIsInductive
       DEF Init, Basis, CallsKnown, IdleCall, OpenSteps, SweepSteps, MergeSteps, ResetSteps
  <1>2. Basis /\ [Next]_vars => Basis'
    BY StepIsInductive, CallsKnownStep DEF Basis, IInv
  <1> QED  BY <1>1, <1>2, PTL DEF Spec

\* An open record was open before, or has just been made.
LEMMA OpenStays ==
    ASSUME Basis, [Next]_vars, NEW p \in Records, pr'[p].status = "Open"
    PROVE  \/ pr[p].status = "Open" /\ pr'[p].issue = pr[p].issue
           \/ Opened(p)
  <1>1. pr[p] \in Record
    BY DEF Basis, IInv, TypeOK
  <1>2. RecordMove(p)
    BY RecordsMove DEF Basis, IInv
  <1> QED
    BY <1>1, <1>2 DEF RecordMove, Invalidated, Reviewed, Flagged, Ended, Same, Record

-----------------------------------------------------------------------------
(* One opener.  With one caller that opens pull requests, and none made by   *)
(* hand, the claim of epic_progress.go is kept: an issue has at most one.    *)

OneOpener ==
    /\ "create" \notin Events
    /\ \A c, d \in Callers : "open" \in Duties[c] /\ "open" \in Duties[d] => c = d

\* What is about to be opened has no open record, and will not have one before.
OpenersAhead ==
    \A c \in Callers :
        call[c].at \in OpenSteps =>
            /\ \A i \in call[c].todo : HasNoneOpen(i)
            /\ call[c].at = "open-record" => /\ call[c].issue \notin call[c].todo
                                             /\ HasNoneOpen(call[c].issue)

OpenAreUnsettled ==
    \A p \in Records : pr[p].status = "Open" => issue[pr[p].issue] \notin SettledStates

OneEach == OneOpenRecord /\ OpenersAhead /\ OpenAreUnsettled

\* Only the opener makes a record, and for the issue it has just cut.
LEMMA OpenedByOpener ==
    ASSUME OneOpener, NEW p \in Records, Opened(p)
    PROVE  \E c \in Callers : OpenRecord(c) /\ call[c].issue = pr'[p].issue
  BY DEF OneOpener, Opened, CreatePullRequest, NewRecord

\* While it is opening pull requests, nobody else opens one.
LEMMA NobodyElseOpens ==
    ASSUME OneOpener, Basis, [Next]_vars, NEW c \in Callers, call[c].at \in OpenSteps,
           NEW i, HasNoneOpen(i), ~(OpenRecord(c) /\ call[c].issue = i),
           NEW p \in Records, pr'[p].issue = i
    PROVE  pr'[p].status # "Open"
  <1> SUFFICES ASSUME pr'[p].status = "Open"
               PROVE  FALSE
    OBVIOUS
  <1>1. ~(pr[p].status = "Open" /\ pr[p].issue = i)
    BY DEF HasNoneOpen
  <1>2. Opened(p)
    BY <1>1, OpenStays
  <1>3. PICK d \in Callers : OpenRecord(d) /\ call[d].issue = i
    BY <1>2, OpenedByOpener
  <1>4. "open" \in Duties[c] /\ "open" \in Duties[d]
    BY <1>3 DEF Basis, CallsKnown, OpenRecord, OpenSteps
  <1> QED  BY <1>3, <1>4 DEF OneOpener

LEMMA OneEachStep ==
    ASSUME OneOpener, Basis, OneEach, [Next]_vars
    PROVE  OneEach'
  <1>1. TypeOK /\ RecordsNamed /\ CallsKnown
    BY DEF Basis, IInv
  <1>2. ASSUME NEW p \in Records, NEW q \in Records, Opened(p), pr'[q].status = "Open",
               pr'[q].issue = pr'[p].issue
        PROVE  p = q
    <2>1. PICK c \in Callers : OpenRecord(c) /\ call[c].issue = pr'[p].issue
      BY <1>2, OpenedByOpener
    <2>2. HasNoneOpen(pr'[p].issue)
      BY <2>1 DEF OneEach, OpenersAhead, OpenRecord, OpenSteps
    <2>3. pr[q].status # "Open" \/ pr[q].issue # pr'[p].issue
      BY <2>2 DEF HasNoneOpen
    <2>4. PICK r \in Records : pr' = [pr EXCEPT ![r] = NewRecord(call[c].issue)]
      BY <2>1 DEF OpenRecord, AddPullRequest
    <2>5. pr[p].status = "Absent" /\ pr'[p].status = "Open"
      BY <1>2 DEF Opened, NewRecord
    <2>6. p = r
      BY <1>1, <2>4, <2>5 DEF TypeOK
    <2>7. q # r => pr'[q] = pr[q]
      BY <1>1, <2>4 DEF TypeOK
    <2> QED  BY <1>2, <2>3, <2>6, <2>7
  <1>3. OneOpenRecord'
    <2> SUFFICES ASSUME NEW p \in Records, NEW q \in Records, pr'[p].status = "Open",
                        pr'[q].status = "Open", pr'[p].issue = pr'[q].issue
                 PROVE  p = q
      BY DEF OneOpenRecord, Records
    <2>1. CASE Opened(p)
      BY <1>2, <2>1
    <2>2. CASE Opened(q)
      BY <1>2, <2>2
    <2>3. CASE ~Opened(p) /\ ~Opened(q)
      BY <2>3, OpenStays DEF OneEach, OneOpenRecord
    <2> QED  BY <2>1, <2>2, <2>3
  <1>4. OpenAreUnsettled'
    <2> SUFFICES ASSUME NEW p \in Records, pr'[p].status = "Open"
                 PROVE  issue'[pr'[p].issue] \notin SettledStates
      BY DEF OpenAreUnsettled, Records
    <2>1. CASE Opened(p)
      BY <2>1 DEF Opened, NewRecord, SettledStates
    <2>2. CASE ~Opened(p)
      <3> DEFINE i == pr[p].issue
      <3>1. pr[p].status = "Open" /\ pr'[p].issue = i
        BY <2>2, OpenStays
      <3>2. i \in Issues /\ issue[i] \notin SettledStates
        BY <1>1, <3>1 DEF RecordsNamed, OneEach, OpenAreUnsettled
      <3> SUFFICES ASSUME issue'[i] \in SettledStates
                   PROVE  FALSE
        BY <3>1
      <3>3. IssueMove(i)
        BY <3>2, IssuesMove DEF Basis, IInv
      <3>4. CASE \E q \in Records : /\ pr[q].status = "Open" /\ pr[q].issue = i
                                   /\ pr'[q].status = "Merged"
        BY <3>1, <3>4 DEF OneEach, OneOpenRecord
      <3>5. CASE \A q \in Records : pr[q].issue = i => pr'[q].status # "Open"
        BY <3>5
      <3> QED  BY <3>2, <3>3, <3>4, <3>5 DEF IssueMove, SettledStates
    <2> QED  BY <2>1, <2>2
  <1>5. OpenersAhead'
    <2> DEFINE NoneWillBe(i) == \A p \in Records : ~(pr'[p].issue = i /\ pr'[p].status = "Open")
               Ahead(now) == /\ \A i \in now.todo : NoneWillBe(i)
                             /\ now.at = "open-record" => /\ now.issue \notin now.todo
                                                          /\ NoneWillBe(now.issue)
    <2> SUFFICES ASSUME NEW c \in Callers, call'[c].at \in OpenSteps
                 PROVE  Ahead(call'[c])
      BY DEF OpenersAhead, HasNoneOpen, Records, OpenSteps
    <2>1. call[c].at \in OpenSteps =>
             /\ \A i \in call[c].todo : HasNoneOpen(i)
             /\ call[c].at = "open-record" => /\ call[c].issue \notin call[c].todo
                                              /\ HasNoneOpen(call[c].issue)
      BY DEF OneEach, OpenersAhead
    <2>2. pr' = pr => \A i : HasNoneOpen(i) => NoneWillBe(i)
      BY DEF HasNoneOpen
    <2>3. call[c] \in Call
      BY <1>1 DEF TypeOK
    <2>4. ASSUME call[c].at \in OpenSteps, NEW i, HasNoneOpen(i),
                 ~(OpenRecord(c) /\ call[c].issue = i)
          PROVE  NoneWillBe(i)
      BY <2>4, NobodyElseOpens
    <2>5. CASE OpenRecord(c)
      <3>1. /\ call[c].at = "open-record"
            /\ call'[c] \in {IdleCall, [call[c] EXCEPT !.at = "open-cut", !.issue = NoIssue]}
        BY <1>1, <2>5 DEF OpenRecord, TypeOK
      <3>2. /\ IdleCall.at = "idle"
            /\ [call[c] EXCEPT !.at = "open-cut", !.issue = NoIssue].at = "open-cut"
            /\ [call[c] EXCEPT !.at = "open-cut", !.issue = NoIssue].todo = call[c].todo
        BY <2>3 DEF IdleCall, Call
      <3>3. call'[c].at # "open-record" /\ call'[c].todo = call[c].todo
        BY <3>1, <3>2 DEF OpenSteps
      <3>4. call[c].at \in OpenSteps
        BY <3>1 DEF OpenSteps
      <3>5. \A i \in call[c].todo : NoneWillBe(i)
        BY <2>1, <2>4, <3>1, <3>4
      <3> QED  BY <3>3, <3>5
    <2>6. CASE call'[c] = call[c] /\ ~OpenRecord(c)
      <3>1. call[c].at \in OpenSteps
        BY <2>6
      <3>2. \A i : HasNoneOpen(i) => NoneWillBe(i)
        BY <2>4, <2>6, <3>1
      <3> HIDE DEF NoneWillBe
      <3> QED  BY <2>1, <2>6, <3>1, <3>2
    <2>7. CASE OpenRead(c)
      <3>1. pr' = pr /\ call'[c].at = "open-cut"
        BY <1>1, <2>3, <2>7 DEF OpenRead, store, TypeOK, Call
      <3>2. \A i \in call'[c].todo : HasNoneOpen(i)
        BY <1>1, <2>3, <2>7 DEF OpenRead, TypeOK, Call, OpenRecords, HasNoneOpen
      <3> QED  BY <2>2, <3>1, <3>2
    <2>8. CASE OpenCut(c)
      <3>1. PICK i \in call[c].todo : call' = [call EXCEPT ![c].at = "open-record",
                                                          ![c].issue = i,
                                                          ![c].todo = call[c].todo \ {i}]
        BY <2>8 DEF OpenCut
      <3>2. call'[c].issue = i /\ call'[c].todo = call[c].todo \ {i}
        BY <1>1, <2>3, <3>1 DEF TypeOK, Call
      <3>3. pr' = pr /\ call[c].at \in OpenSteps
        BY <2>8 DEF OpenCut, store, OpenSteps
      <3>4. \A j \in call[c].todo : NoneWillBe(j)
        BY <2>1, <2>2, <3>3
      <3> HIDE DEF NoneWillBe
      <3> QED  BY <3>1, <3>2, <3>4
    <2>9. \A p \in Records : ~(SweepRead(c, p) \/ MergeRead(c, p) \/ ResetRead(c, p))
      BY <1>1, <2>3 DEF SweepRead, MergeRead, ResetRead, TypeOK, Call, OpenSteps
    <2>10. ~(SweepInspect(c) \/ MergeLand(c) \/ ResetDrained(c) \/ ResetDelete(c))
      <3>1. ~SweepInspect(c)
        <4>1. SweepInspect(c) =>
                 call'[c].at \in {"idle", "sweep-stale", "sweep-push"}
          BY <1>1, <2>3 DEF SweepInspect, SweepVerdict, IdleCall, TypeOK, Call
        <4> QED  BY <4>1 DEF OpenSteps
      <3> QED
        BY <1>1, <2>3, <3>1 DEF MergeLand, ResetDrained, ResetDelete, TypeOK, Call, OpenSteps
    <2>11. CallMove(c)
      BY <1>1, CallsMove
    <2> HIDE DEF Ahead
    <2> QED
      BY <2>5, <2>6, <2>7, <2>8, <2>9, <2>10, <2>11 DEF CallMove, OpenSteps
  <1> QED  BY <1>3, <1>4, <1>5 DEF OneEach

LEMMA OneEachHolds ==
    ASSUME OneOpener
    PROVE  Spec => []OneEach
  <1>1. Init => OneEach
    BY DEF Init, OneEach, OneOpenRecord, OpenersAhead, OpenAreUnsettled, NoRecord, NewRecord,
           IdleCall, OpenSteps
  <1>2. Basis /\ OneEach /\ [Next]_vars => OneEach'
    BY OneEachStep
  <1> QED  BY <1>1, <1>2, BasisHolds, PTL DEF Spec

\* An issue has at most one open record where one caller opens them and nobody makes
\* one by hand, however openings, closes, merges, failures and crashes interleave.
THEOREM IssuesHaveOneRecord ==
    ASSUME OneOpener
    PROVE  Spec => []OneOpenRecord
  <1>1. OneEach => OneOpenRecord
    BY DEF OneEach
  <1> QED  BY <1>1, OneEachHolds, PTL

\* Only an opening checks a branch out besides the round of the issue, so the copy is
\* held where openings are of issues without an open record, or without a round.
LEMMA WorkingCopyStep ==
    ASSUME Basis, WorkingCopyHeld, [Next]_vars,
           \A c \in Callers : OpenCut(c) =>
               \A i \in call[c].todo : HasNoneOpen(i) \/ round[i].at = "idle"
    PROVE  WorkingCopyHeld'
  <1> SUFFICES ASSUME NEW i \in Issues, round'[i].at = "working",
                      pr'[round'[i].pr].status = "Open"
               PROVE  checkout'[i] \in {round'[i].head, {}}
    BY DEF WorkingCopyHeld
  <1>1. TypeOK /\ RoundsHold
    BY DEF Basis, IInv
  <1>2. round[i] \in Round
    BY <1>1 DEF TypeOK
  <1>3. CASE RoundCheckout(i)
    BY <1>1, <1>2, <1>3 DEF RoundCheckout, TypeOK, Round
  <1>4. ASSUME round'[i] = round[i], ~RoundCheckout(i)
        PROVE  checkout'[i] \in {round'[i].head, {}}
    <2> DEFINE p == round[i].pr
    <2>1. p \in Records /\ pr[p].status # "Absent" /\ pr[p].issue = i
      BY <1>1, <1>4 DEF RoundsHold
    <2>2. pr[p].status = "Open"
      BY <1>4, <2>1, OpenStays DEF Opened
    <2>3. checkout[i] \in {round[i].head, {}}
      BY <1>4, <2>2 DEF WorkingCopyHeld
    <2>4. ~HasNoneOpen(i) /\ round[i].at = "working"
      BY <1>4, <2>1, <2>2 DEF HasNoneOpen
    <2>5. \A c \in Callers : OpenCut(c) => i \notin call[c].todo
      BY <2>4
    <2>6. ~RoundPublish(i)
      BY <1>1, <1>2, <1>4 DEF RoundPublish, TypeOK, Round
    <2>7. HandPush(i) => checkout' = checkout
      BY DEF HandPush
    <2>8. BranchMove(i)
      BY <1>1, BranchesMove
    <2> QED  BY <1>4, <2>3, <2>5, <2>6, <2>7, <2>8 DEF BranchMove
  <1>5. ASSUME NEW c \in Callers, Dispatch(c, i)
        PROVE  FALSE
    BY <1>1, <1>2, <1>5 DEF Dispatch, TypeOK, Round
  <1>6. ~RoundRead(i) /\ ~RoundPublish(i)
    BY <1>1, <1>2 DEF RoundRead, RoundPublish, TypeOK, Round
  <1>7. RoundMove(i)
    BY <1>1, RoundsMove
  <1> QED  BY <1>3, <1>4, <1>5, <1>6, <1>7 DEF RoundMove

\* The working copy stays under the round that uses it, so a verdict is about the head
\* the reviewer was given: nobody but the round itself checks the branch of an open
\* record out (CodeWorkspace.Checkout), and who deletes the branch deletes the copy.
THEOREM WorkingCopyIsHeld ==
    ASSUME OneOpener
    PROVE  Spec => []WorkingCopyHeld
  <1>1. Init => WorkingCopyHeld
    BY DEF Init, WorkingCopyHeld, IdleRound
  <1>2. OneEach =>
           \A c \in Callers : OpenCut(c) =>
               \A i \in call[c].todo : HasNoneOpen(i) \/ round[i].at = "idle"
    BY DEF OneEach, OpenersAhead, OpenCut, OpenSteps
  <1>3. Basis /\ OneEach /\ WorkingCopyHeld /\ [Next]_vars => WorkingCopyHeld'
    BY <1>2, WorkingCopyStep
  <1> QED  BY <1>1, <1>3, BasisHolds, OneEachHolds, PTL DEF Spec

-----------------------------------------------------------------------------
(* Phases.                                                                  *)

\* Nobody closes one record of an issue, or resets it, under a round of it.
NobodyCloses == \A c \in Callers : "close-pr" \notin Duties[c] /\ "reset" \notin Duties[c]

\* A record ends with its issue.
EndedWithIssue ==
    \A p \in Records :
        pr[p].status \in {"Merged", "Closed"} => issue[pr[p].issue] \in SettledStates

\* A record stays open until its issue is settled.
LEMMA RecordsOutliveRounds ==
    ASSUME NobodyCloses, Basis, [Next]_vars, NEW p \in Records
    PROVE  /\ pr[p].status = "Open" /\ issue'[pr[p].issue] \notin SettledStates
                 => pr'[p].status = "Open" /\ pr'[p].issue = pr[p].issue
           /\ pr[p].status \notin {"Merged", "Closed"} /\ pr'[p].status \in {"Merged", "Closed"}
                 => issue'[pr'[p].issue] \in SettledStates
  <1>1. pr[p] \in Record
    BY DEF Basis, IInv, TypeOK
  <1>2. RecordMove(p)
    BY RecordsMove DEF Basis, IInv
  <1>3. Opened(p) => pr[p].status = "Absent" /\ pr'[p].status = "Open"
    BY DEF Opened, NewRecord
  <1>4. Ended(p) => pr'[p].issue = pr[p].issue /\ issue'[pr[p].issue] \in {"Merged", "Closed"}
    BY <1>1 DEF Ended, NobodyCloses, Record
  <1> QED
    BY <1>2, <1>3, <1>4
       DEF RecordMove, Invalidated, Reviewed, Flagged, Same, SettledStates

LEMMA PhasesStep ==
    ASSUME NobodyCloses, Basis, EndedWithIssue, PhaseHasRecord, [Next]_vars
    PROVE  (EndedWithIssue /\ PhaseHasRecord)'
  <1>1. TypeOK /\ RecordsNamed /\ RoundsHold
    BY DEF Basis, IInv
  <1>2. ASSUME NEW p \in Records, pr'[p].status \in {"Merged", "Closed"}
        PROVE  issue'[pr'[p].issue] \in SettledStates
    <2>1. CASE pr[p].status \in {"Merged", "Closed"}
      <3>1. pr[p].issue \in Issues /\ issue[pr[p].issue] \in SettledStates
        BY <1>1, <2>1 DEF RecordsNamed, EndedWithIssue
      <3>2. pr'[p].issue = pr[p].issue
        BY <1>1, <2>1, RecordsKeepTheirIssue
      <3>3. issue'[pr[p].issue] = issue[pr[p].issue]
        BY <1>1, <3>1, SettledStep
      <3> QED  BY <3>1, <3>2, <3>3
    <2> QED  BY <1>2, <2>1, RecordsOutliveRounds
  <1>3. ASSUME NEW i \in Issues, issue'[i] \notin SettledStates \cup {"Open"}
        PROVE  \E p \in Records : pr'[p].issue = i /\ pr'[p].status = "Open"
    <2>1. ASSUME NEW p \in Records, pr[p].status = "Open", pr[p].issue = i
          PROVE  pr'[p].issue = i /\ pr'[p].status = "Open"
      BY <1>3, <2>1, RecordsOutliveRounds
    <2>2. CASE issue[i] \notin SettledStates \cup {"Open"}
      BY <2>1, <2>2 DEF PhaseHasRecord, OpenRecords
    <2>3. issue[i] \notin SettledStates
      BY <1>1, <1>3, SettledStep
    <2>4. CASE issue[i] = "Open"
      <3>1. \/ RoundReview(i, FALSE)
            \/ \E p \in Records : Opened(p) /\ pr'[p].issue = i
        BY <1>1, <1>3, <2>4, IssuesMove DEF IssueMove, SettledStates, Basis
      <3>2. CASE RoundReview(i, FALSE)
        <4> DEFINE p == round[i].pr
        <4>1. p \in Records /\ pr[p].status # "Absent" /\ pr[p].issue = i
          BY <1>1, <3>2 DEF RoundReview, RoundsHold
        <4>2. pr[p].status = "Open"
          BY <1>1, <2>3, <4>1 DEF EndedWithIssue, TypeOK, Record, RecordStatuses
        <4> QED  BY <2>1, <4>1, <4>2
      <3>3. ASSUME NEW p \in Records, Opened(p), pr'[p].issue = i
            PROVE  pr'[p].status = "Open"
        BY <3>3 DEF Opened, NewRecord
      <3> QED  BY <3>1, <3>2, <3>3
    <2> QED  BY <2>2, <2>3, <2>4
  <1>4. EndedWithIssue'
    BY <1>2 DEF EndedWithIssue, Records
  <1>5. PhaseHasRecord'
    BY <1>3 DEF PhaseHasRecord, OpenRecords, Records
  <1> QED  BY <1>4, <1>5

\* An issue in one of the loop's phases has a record some round can pick up, as long
\* as nobody closes or resets a single record: the round of a record that was closed
\* would leave its issue in a phase of a record that is gone.
THEOREM PhasesHaveRecords ==
    ASSUME NobodyCloses
    PROVE  Spec => []PhaseHasRecord
  <1>1. Init => EndedWithIssue /\ PhaseHasRecord
    BY DEF Init, EndedWithIssue, PhaseHasRecord, NoRecord, NewRecord
  <1>2. Basis /\ EndedWithIssue /\ PhaseHasRecord /\ [Next]_vars
            => (EndedWithIssue /\ PhaseHasRecord)'
    BY PhasesStep
  <1> QED  BY <1>1, <1>2, BasisHolds, PTL DEF Spec

-----------------------------------------------------------------------------
(* Records made by hand.  The working copy is held beside them as well, where *)
(* one caller opens and dispatches, as the worker's tick does.               *)

OneScheduler ==
    \A c, d \in Callers :
        /\ Duties[c] \cap {"dispatch", "open"} # {}
        /\ Duties[d] \cap {"dispatch", "open"} # {}
        => c = d

\* A round is of an issue that has an open record, or is settled.
RoundsAreOfOpen ==
    \A i \in Issues : round[i].at # "idle" => issue[i] \in SettledStates \/ ~HasNoneOpen(i)

\* Nothing runs on an issue that is about to be opened.
OpenersAreAlone ==
    \A c \in Callers :
        call[c].at \in OpenSteps => \A i \in call[c].todo : round[i].at = "idle"

LEMMA RoundsAreOfOpenStep ==
    ASSUME NobodyCloses, Basis, RoundsAreOfOpen, [Next]_vars
    PROVE  RoundsAreOfOpen'
  <1> SUFFICES ASSUME NEW i \in Issues, round'[i].at # "idle", issue'[i] \notin SettledStates
               PROVE  \E p \in Records : pr'[p].issue = i /\ pr'[p].status = "Open"
    BY DEF RoundsAreOfOpen, HasNoneOpen, Records
  <1>0. TypeOK
    BY DEF Basis, IInv
  <1>1. RoundMove(i)
    BY <1>0, RoundsMove
  <1>2. ASSUME NEW p \in Records, pr[p].issue = i, pr[p].status = "Open"
        PROVE  pr'[p].issue = i /\ pr'[p].status = "Open"
    BY <1>2, RecordsOutliveRounds
  <1>3. CASE round[i].at # "idle"
    <2>1. issue[i] \notin SettledStates
      BY <1>0, SettledStep
    <2>2. PICK p \in Records : pr[p].issue = i /\ pr[p].status = "Open"
      BY <1>3, <2>1 DEF RoundsAreOfOpen, HasNoneOpen
    <2> QED  BY <1>2, <2>2
  <1>4. ASSUME NEW c \in Callers, Dispatch(c, i)
        PROVE  \E p \in Records : pr'[p].issue = i /\ pr'[p].status = "Open"
    <2>1. PICK p \in Records : pr[p].issue = i /\ pr[p].status = "Open"
      BY <1>4 DEF Dispatch, OpenRecords
    <2> QED  BY <1>2, <2>1
  <1>5. CASE round'[i] = round[i]
    BY <1>3, <1>5
  <1>6. CASE RoundRead(i) \/ RoundCheckout(i) \/ RoundPublish(i)
    BY <1>3, <1>6 DEF RoundRead, RoundCheckout, RoundPublish
  <1> QED  BY <1>1, <1>4, <1>5, <1>6 DEF RoundMove

LEMMA OpenersAreAloneStep ==
    ASSUME OneScheduler, Basis, RoundsAreOfOpen, OpenersAreAlone, [Next]_vars
    PROVE  OpenersAreAlone'
  <1> SUFFICES ASSUME NEW c \in Callers, call'[c].at \in OpenSteps, NEW i \in call'[c].todo
               PROVE  round'[i].at = "idle"
    BY DEF OpenersAreAlone, OpenSteps
  <1>0. TypeOK /\ CallsKnown
    BY DEF Basis, IInv
  <1>1. CASE OpenRead(c)
    <2>1. i \in Issues /\ issue[i] = "Open" /\ HasNoneOpen(i) /\ round' = round
      BY <1>0, <1>1, OpeningsRead
    <2> QED  BY <2>1 DEF RoundsAreOfOpen, SettledStates
  <1>2. CASE call[c].at \in OpenSteps /\ call'[c].todo \subseteq call[c].todo
    <2>1. i \in Issues /\ round[i].at = "idle"
      BY <1>0, <1>2 DEF OpenersAreAlone, TypeOK, Call
    <2>2. ASSUME NEW d \in Callers
          PROVE  ~Dispatch(d, i)
      <3>1. "open" \in Duties[c]
        BY <1>0, <1>2 DEF CallsKnown
      <3>2. Dispatch(d, i) => d = c /\ call[d].at = "idle"
        BY <3>1 DEF Dispatch, OneScheduler
      <3> QED  BY <1>2, <3>2 DEF OpenSteps
    <2>3. ~(RoundRead(i) \/ RoundCheckout(i) \/ RoundPublish(i))
      BY <2>1 DEF RoundRead, RoundCheckout, RoundPublish
    <2>4. RoundMove(i)
      BY <1>0, <2>1, RoundsMove
    <2> QED  BY <2>1, <2>2, <2>3, <2>4 DEF RoundMove
  <1> QED  BY <1>0, <1>1, <1>2, OpeningsShrink

\* The working copy is also held where people make records by hand, with one caller
\* that opens and dispatches and nobody who closes or resets a single record: a round
\* that was dispatched for a record closed since could otherwise pick up one made by
\* hand while the worker is about to cut the same branch.
THEOREM WorkingCopyIsHeldBesideHands ==
    ASSUME OneScheduler, NobodyCloses
    PROVE  Spec => []WorkingCopyHeld
  <1>1. Init => RoundsAreOfOpen /\ OpenersAreAlone /\ WorkingCopyHeld
    BY DEF Init, RoundsAreOfOpen, OpenersAreAlone, WorkingCopyHeld, IdleRound, IdleCall,
           OpenSteps
  <1>2. OpenersAreAlone =>
           \A c \in Callers : OpenCut(c) =>
               \A i \in call[c].todo : HasNoneOpen(i) \/ round[i].at = "idle"
    BY DEF OpenersAreAlone, OpenCut, OpenSteps
  <1>3. Basis /\ RoundsAreOfOpen /\ OpenersAreAlone /\ WorkingCopyHeld /\ [Next]_vars
            => (RoundsAreOfOpen /\ OpenersAreAlone /\ WorkingCopyHeld)'
    BY <1>2, RoundsAreOfOpenStep, OpenersAreAloneStep, WorkingCopyStep
  <1> QED  BY <1>1, <1>3, BasisHolds, PTL DEF Spec

-----------------------------------------------------------------------------
(* Approvals.  The worker opens, dispatches and sweeps in one goroutine, one *)
(* tick after the other, so a sweep under way has no round beside it that    *)
(* was dispatched since.                                                     *)

OneWorker ==
    /\ "create" \notin Events
    /\ \A c, d \in Callers :
          /\ Duties[c] \cap {"dispatch", "open", "sweep"} # {}
          /\ Duties[d] \cap {"dispatch", "open", "sweep"} # {}
          => c = d

InFlight(i) == round[i].at \in {"picked", "working", "published"}

\* A round whose record is gone leaves its issue alone until it ends.
GoneRecordsWait ==
    \A i \in Issues :
        InFlight(i) /\ pr[round[i].pr].status # "Open"
            => issue[i] \in {"Open", "Coding"} \cup SettledStates

\* Nothing runs on an issue in Pr, or under a sweep.
PrIsQuiet == \A i \in Issues : issue[i] = "Pr" => round[i].at = "idle"

SweepIsAlone ==
    \A c \in Callers : call[c].at \in SweepSteps => round[pr[call[c].pr].issue].at = "idle"

\* What the stale flag of an open record says of its issue, and the reverse.
StaleIsNotPr ==
    \A p \in Records : pr[p].status = "Open" /\ pr[p].stale => issue[pr[p].issue] # "Pr"

StaleIsFlagged ==
    \A p \in Records :
        pr[p].status = "Open" /\ issue[pr[p].issue] = "Stale" => pr[p].stale \/ pr[p].approved

\* A reviewer is not at work on a stale branch.
ReviewIsOfFresh ==
    \A i \in Issues :
        /\ round[i].at \in {"picked", "working"} /\ round[i].role = "pr-reviewer"
        /\ pr[round[i].pr].status = "Open"
        => ~pr[round[i].pr].stale /\ issue[i] # "Stale"

Volley ==
    /\ GoneRecordsWait /\ PrIsQuiet /\ SweepIsAlone
    /\ StaleIsNotPr /\ StaleIsFlagged /\ ReviewIsOfFresh
    /\ PrIsApproved

\* What the steps below start from.
VolleyBasis == Basis /\ OneEach /\ VerdictCoversRounds /\ Volley

LEMMA WorkerOpens == ASSUME OneWorker PROVE OneOpener
  BY DEF OneWorker, OneOpener

\* The record of a round is one of its issue that was made.
LEMMA RoundsRecord ==
    ASSUME Basis, NEW i \in Issues, InFlight(i)
    PROVE  /\ round[i].pr \in Records /\ pr[round[i].pr].status # "Absent"
           /\ pr[round[i].pr].issue = i /\ pr[round[i].pr] \in Record
  BY DEF Basis, IInv, RoundsHold, InFlight, TypeOK

\* A review that approves is of the open record of its issue, and writes to it.
LEMMA ApprovalIsOfOpen ==
    ASSUME Basis, Volley, NEW i \in Issues, RoundReview(i, TRUE), issue[i] = "Review"
    PROVE  LET q == round[i].pr
           IN  /\ q \in Records /\ pr[q].status = "Open" /\ pr[q].issue = i
               /\ pr'[q].status = "Open" /\ pr'[q].issue = i /\ pr'[q].approved
               /\ pr'[q].reviewed = checkout[i] /\ pr'[q].stale = pr[q].stale
  <1> DEFINE q == round[i].pr
  <1>1. InFlight(i) /\ pr' = [pr EXCEPT ![q] = RecordReview(pr[q], TRUE, checkout[i])]
    BY DEF RoundReview, InFlight
  <1>2. q \in Records /\ pr[q].status # "Absent" /\ pr[q].issue = i /\ pr[q] \in Record
    BY <1>1, RoundsRecord
  <1>3. pr[q].status = "Open"
    BY <1>1 DEF Volley, GoneRecordsWait, SettledStates
  <1>4. pr'[q] = RecordReview(pr[q], TRUE, checkout[i])
    BY <1>1, <1>2 DEF Basis, IInv, TypeOK
  <1> QED  BY <1>2, <1>3, <1>4 DEF RecordReview, Record

\* What dispatching or reading a record tells of it.
LEMMA RolesTell ==
    ASSUME TypeOK, VerdictCoversRounds, NEW p \in Records
    PROVE  /\ RoleOf(p) # "none" => pr[p].stale \/ ~pr[p].approved
           /\ RoleOf(p) = "pr-reviewer" => ~pr[p].stale /\ ~pr[p].approved
           /\ RoleOf(p) # "none" => ~Blocked(issue, Waits, pr[p].issue)
  <1>1. pr[p].approved => ~(pr[p].reviews < pr[p].rounds)
    BY DEF VerdictCoversRounds, TypeOK, Record
  <1> QED  BY <1>1 DEF RoleOf, IssueRole

\* A round that ends is not the same round any more, and one that records or reviews
\* was in flight.
LEMMA EndingRounds ==
    ASSUME Basis, NEW i \in Issues
    PROVE  /\ RoundRecord(i) => InFlight(i) /\ round'[i].at = "idle"
           /\ \A approved \in BOOLEAN :
                 RoundReview(i, approved) =>
                     /\ InFlight(i) /\ round'[i].at = "idle"
                     /\ round[i].at = "working" /\ round[i].role = "pr-reviewer"
  BY DEF Basis, IInv, TypeOK, RoundRecord, RoundReview, InFlight, IdleRound

\* Where one step may take an issue, its round and its branch.
LEMMA IssueMovesOn ==
    ASSUME Basis, [Next]_vars, NEW i \in Issues
    PROVE  /\ RoundMove(i) /\ IssueMove(i) /\ BranchMove(i)
           /\ round[i] \in Round /\ issue[i] \in IssueStates
  BY RoundsMove, IssuesMove, BranchesMove DEF Basis, IInv, TypeOK

\* A step of a round that does not end it leaves the aggregate alone.
LEMMA RunningRounds ==
    ASSUME Basis, NEW i \in Issues
    PROVE  /\ RoundRead(i) => /\ UNCHANGED store /\ round[i].at = "dispatched"
                              /\ round'[i].at = "picked" /\ round'[i].role = round[i].role
                              /\ \E p \in Records : /\ IsOpenRecordFor(i, p)
                                                    /\ RoleOf(p) = round[i].role
                                                    /\ round'[i].pr = p
           /\ RoundCheckout(i) => /\ UNCHANGED store /\ round[i].at = "picked"
                                  /\ round'[i].at = "working"
                                  /\ round'[i].role = round[i].role
                                  /\ round'[i].pr = round[i].pr
           /\ RoundPublish(i) => /\ UNCHANGED store /\ round[i].at = "working"
                                 /\ round'[i].at = "published"
                                 /\ round'[i].pr = round[i].pr
  <1>1. round \in [Issues -> Round] /\ round[i] \in Round
    BY DEF Basis, IInv, TypeOK
  <1>2. RoundRead(i) => /\ UNCHANGED store /\ round[i].at = "dispatched"
                        /\ round'[i].at = "picked" /\ round'[i].role = round[i].role
                        /\ \E p \in Records : /\ IsOpenRecordFor(i, p)
                                              /\ RoleOf(p) = round[i].role
                                              /\ round'[i].pr = p
    <2> SUFFICES ASSUME RoundRead(i)
                 PROVE  /\ UNCHANGED store /\ round[i].at = "dispatched"
                        /\ round'[i].at = "picked" /\ round'[i].role = round[i].role
                        /\ \E p \in Records : /\ IsOpenRecordFor(i, p)
                                              /\ RoleOf(p) = round[i].role
                                              /\ round'[i].pr = p
      OBVIOUS
    <2>1. PICK p \in Records :
             /\ IsOpenRecordFor(i, p) /\ RoleOf(p) = round[i].role
             /\ round' = [round EXCEPT ![i].at = "picked", ![i].pr = p]
      BY DEF RoundRead
    <2>2. round'[i] = [round[i] EXCEPT !.at = "picked", !.pr = p]
      BY <1>1, <2>1
    <2>3. round'[i].at = "picked" /\ round'[i].role = round[i].role /\ round'[i].pr = p
      BY <1>1, <2>2 DEF Round
    <2>4. UNCHANGED store /\ round[i].at = "dispatched"
      BY DEF RoundRead
    <2> QED  BY <2>1, <2>3, <2>4
  <1>3. RoundCheckout(i) => /\ UNCHANGED store /\ round[i].at = "picked"
                            /\ round'[i].at = "working"
                            /\ round'[i].role = round[i].role
                            /\ round'[i].pr = round[i].pr
    BY <1>1 DEF RoundCheckout, Round
  <1>4. RoundPublish(i) => /\ UNCHANGED store /\ round[i].at = "working"
                           /\ round'[i].at = "published"
                           /\ round'[i].pr = round[i].pr
    BY <1>1 DEF RoundPublish, Round
  <1> QED  BY <1>2, <1>3, <1>4

\* The record of a round in flight that is open after a step was open before it.
LEMMA RoundsRecordStays ==
    ASSUME Basis, [Next]_vars, NEW i \in Issues, InFlight(i),
           pr'[round[i].pr].status = "Open"
    PROVE  pr[round[i].pr].status = "Open"
  BY RoundsRecord, OpenStays DEF Opened

LEMMA GoneRecordsWaitStep ==
    ASSUME VolleyBasis, [Next]_vars
    PROVE  GoneRecordsWait'
  <1> SUFFICES ASSUME NEW i \in Issues, InFlight(i)', pr'[round'[i].pr].status # "Open"
               PROVE  issue'[i] \in {"Open", "Coding"} \cup SettledStates
    BY DEF GoneRecordsWait, InFlight
  <1>0. Basis /\ Volley
    BY DEF VolleyBasis
  <1>1. RoundMove(i) /\ IssueMove(i) /\ round[i] \in Round
    BY <1>0, IssueMovesOn
  <1>2. CASE round'[i] = round[i]
    <2> DEFINE p == round[i].pr
    <2>1. InFlight(i)
      BY <1>2 DEF InFlight
    <2>2. p \in Records /\ pr[p].issue = i
      BY <1>0, <2>1, RoundsRecord
    <2>3. CASE pr[p].status = "Open"
      <3>1. RecordMove(p)
        BY <1>0, <2>2, RecordsMove DEF Basis, IInv
      <3>2. ~Same(p)
        BY <1>2, <2>3 DEF Same
      <3>3. Ended(p)
        BY <1>2, <2>3, <3>1, <3>2
           DEF RecordMove, Opened, Invalidated, Reviewed, Flagged
      <3> QED  BY <2>2, <3>3 DEF Ended, SettledStates
    <2>4. CASE pr[p].status # "Open"
      <3>1. issue[i] \in {"Open", "Coding"} \cup SettledStates
        BY <1>0, <2>1, <2>4 DEF Volley, GoneRecordsWait
      <3>2. ~RoundRecord(i)
        BY <1>0, <1>2, <2>1, EndingRounds DEF InFlight
      <3>3. ASSUME NEW c \in Callers, SweepPush(c)
            PROVE  pr[call[c].pr].issue # i
        BY <1>0, <2>1, <3>3 DEF Volley, SweepIsAlone, SweepPush, SweepSteps, InFlight
      <3> QED  BY <1>1, <3>1, <3>2, <3>3 DEF IssueMove, SettledStates
    <2> QED  BY <2>3, <2>4
  <1>3. \A c \in Callers : ~Dispatch(c, i)
    BY <1>0, <1>1 DEF Dispatch, InFlight, Basis, IInv, TypeOK, Round
  <1>4. ~RoundRead(i)
    <2> SUFFICES ASSUME RoundRead(i)
                 PROVE  FALSE
      OBVIOUS
    <2>1. PICK p \in Records : IsOpenRecordFor(i, p) /\ round'[i].pr = p
      BY <1>0, RunningRounds
    <2>2. pr' = pr /\ pr[p].status = "Open"
      BY <1>0, <2>1, RunningRounds DEF store, IsOpenRecordFor, OpenRecords
    <2> QED  BY <2>1, <2>2
  <1>5. CASE RoundCheckout(i) \/ RoundPublish(i)
    <2>1. UNCHANGED store /\ InFlight(i) /\ round'[i].pr = round[i].pr
      BY <1>0, <1>5, RunningRounds DEF InFlight
    <2> QED  BY <1>0, <2>1 DEF store, Volley, GoneRecordsWait
  <1> QED  BY <1>1, <1>2, <1>3, <1>4, <1>5 DEF RoundMove, InFlight

LEMMA PrIsQuietStep ==
    ASSUME VolleyBasis, [Next]_vars
    PROVE  PrIsQuiet'
  <1> SUFFICES ASSUME NEW i \in Issues, issue'[i] = "Pr"
               PROVE  round'[i].at = "idle"
    BY DEF PrIsQuiet
  <1>0. Basis /\ Volley /\ VerdictCoversRounds /\ OneOpenRecord /\ TypeOK
    BY DEF VolleyBasis, OneEach, Basis, IInv
  <1>1. RoundMove(i) /\ IssueMove(i)
    BY <1>0, IssueMovesOn
  <1>2. CASE issue[i] = "Pr"
    <2>1. round[i].at = "idle"
      BY <1>0, <1>2 DEF Volley, PrIsQuiet
    <2>2. ASSUME NEW c \in Callers
          PROVE  ~Dispatch(c, i)
      <3> SUFFICES ASSUME NEW p \in OpenRecords(i), RoleOf(p) # "none"
                   PROVE  FALSE
        BY DEF Dispatch
      <3>1. PICK q \in OpenRecords(i) : pr[q].approved
        BY <1>0, <1>2 DEF Volley, PrIsApproved
      <3>2. p = q /\ p \in Records /\ pr[p].status = "Open" /\ pr[p].issue = i
        BY <1>0 DEF OneOpenRecord, OpenRecords
      <3>3. ~pr[p].stale
        BY <1>0, <1>2, <3>2 DEF Volley, StaleIsNotPr
      <3> QED  BY <1>0, <3>1, <3>2, <3>3, RolesTell
    <2>3. ~(RoundRead(i) \/ RoundCheckout(i) \/ RoundPublish(i))
      BY <2>1 DEF RoundRead, RoundCheckout, RoundPublish
    <2> QED  BY <1>1, <2>1, <2>2, <2>3 DEF RoundMove
  <1>3. CASE issue[i] # "Pr"
    BY <1>0, <1>1, <1>3, EndingRounds DEF IssueMove
  <1> QED  BY <1>2, <1>3

LEMMA PrIsApprovedStep ==
    ASSUME VolleyBasis, [Next]_vars
    PROVE  PrIsApproved'
  <1> SUFFICES ASSUME NEW i \in Issues, issue'[i] = "Pr"
               PROVE  \E p \in Records : /\ pr'[p].status = "Open" /\ pr'[p].issue = i
                                        /\ pr'[p].approved
    BY DEF PrIsApproved, OpenRecords, Records
  <1>0. Basis /\ Volley
    BY DEF VolleyBasis
  <1>1. CASE issue[i] = "Pr"
    <2>1. PICK p \in Records : pr[p].status = "Open" /\ pr[p].issue = i /\ pr[p].approved
      BY <1>0, <1>1 DEF Volley, PrIsApproved, OpenRecords
    <2>2. RecordMove(p)
      BY <1>0, RecordsMove DEF Basis, IInv
    <2>3. ~Reviewed(p)
      BY <1>0, <1>1, <2>1, EndingRounds DEF Reviewed, Volley, PrIsQuiet, InFlight
    <2>4. ~Opened(p) /\ ~Invalidated(p) /\ ~Ended(p)
      BY <2>1 DEF Opened, Invalidated, Ended
    <2> QED  BY <2>1, <2>2, <2>3, <2>4 DEF RecordMove, Flagged, Same
  <1>2. CASE issue[i] # "Pr"
    <2>1. issue[i] = "Review" /\ RoundReview(i, TRUE)
      BY <1>0, <1>2, IssueMovesOn DEF IssueMove
    <2> QED  BY <1>0, <2>1, ApprovalIsOfOpen
  <1> QED  BY <1>1, <1>2

\* A sweep starts on an issue in Pr, where nothing runs, and the worker that sweeps
\* dispatches nothing meanwhile.
LEMMA SweepIsAloneStep ==
    ASSUME OneWorker, VolleyBasis, [Next]_vars
    PROVE  SweepIsAlone'
  <1> SUFFICES ASSUME NEW c \in Callers, call'[c].at \in SweepSteps
               PROVE  round'[pr'[call'[c].pr].issue].at = "idle"
    BY DEF SweepIsAlone, SweepSteps
  <1>0. Basis /\ Volley /\ TypeOK /\ RecordsNamed /\ CallsKnown
    BY DEF VolleyBasis, Basis, IInv
  <1>1. call[c] \in Call
    BY <1>0 DEF TypeOK
  <1>2. CASE call'[c] = call[c]
    <2> DEFINE p == call[c].pr
               i == pr[p].issue
    <2>1. p \in Records /\ pr[p].status # "Absent" /\ "sweep" \in Duties[c]
      BY <1>0, <1>2 DEF CallsKnown
    <2>2. i \in Issues /\ round[i].at = "idle" /\ pr'[p].issue = i
      BY <1>0, <1>2, <2>1, RecordsKeepTheirIssue DEF RecordsNamed, Volley, SweepIsAlone
    <2>3. ASSUME NEW d \in Callers
          PROVE  ~Dispatch(d, i)
      <3>1. Dispatch(d, i) => c = d /\ call[d].at = "idle"
        BY <2>1 DEF Dispatch, OneWorker
      <3> QED  BY <1>2, <3>1 DEF SweepSteps
    <2>4. ~(RoundRead(i) \/ RoundCheckout(i) \/ RoundPublish(i))
      BY <2>2 DEF RoundRead, RoundCheckout, RoundPublish
    <2>5. RoundMove(i)
      BY <1>0, <2>2, IssueMovesOn
    <2> QED  BY <1>2, <2>2, <2>3, <2>4, <2>5 DEF RoundMove
  <1>3. ASSUME NEW p \in Records, SweepRead(c, p)
        PROVE  round'[pr'[call'[c].pr].issue].at = "idle"
    <2>1. /\ pr' = pr /\ round' = round /\ call'[c].pr = p
          /\ pr[p].status = "Open" /\ issue[pr[p].issue] = "Pr"
      BY <1>0, <1>1, <1>3 DEF SweepRead, store, TypeOK, Call
    <2>2. pr[p].issue \in Issues
      BY <1>0, <2>1 DEF RecordsNamed
    <2> QED  BY <1>0, <2>1, <2>2 DEF Volley, PrIsQuiet
  <1>4. CASE SweepInspect(c)
    <2>1. pr' = pr /\ round' = round /\ call[c].at = "sweep-inspect"
      BY <1>4 DEF SweepInspect, store
    <2>2. \/ call'[c].at = "idle"
          \/ call'[c].pr = call[c].pr
      BY <1>0, <1>1, <1>4 DEF SweepInspect, TypeOK, Call, IdleCall
    <2> QED  BY <1>0, <2>1, <2>2 DEF Volley, SweepIsAlone, SweepSteps
  <1>5. \A p \in Records : ~(MergeRead(c, p) \/ ResetRead(c, p))
    BY <1>0, <1>1 DEF MergeRead, ResetRead, TypeOK, Call, SweepSteps
  <1>6. ~(MergeLand(c) \/ ResetDrained(c) \/ ResetDelete(c))
    BY <1>0, <1>1 DEF MergeLand, ResetDrained, ResetDelete, TypeOK, Call, SweepSteps
  <1>7. ~(OpenRead(c) \/ OpenCut(c) \/ OpenRecord(c))
    BY <1>0, OpeningGoesOn DEF OpenSteps, SweepSteps
  <1>8. CallMove(c)
    BY <1>0, CallsMove
  <1> QED
    BY <1>2, <1>3, <1>4, <1>5, <1>6, <1>7, <1>8 DEF CallMove, SweepSteps

LEMMA StaleIsNotPrStep ==
    ASSUME VolleyBasis, [Next]_vars
    PROVE  StaleIsNotPr'
  <1> SUFFICES ASSUME NEW p \in Records, pr'[p].status = "Open", pr'[p].stale,
                      issue'[pr'[p].issue] = "Pr"
               PROVE  FALSE
    BY DEF StaleIsNotPr, Records
  <1> DEFINE i == pr[p].issue
  <1>0. Basis /\ Volley /\ OneOpenRecord /\ RecordsNamed
    BY DEF VolleyBasis, OneEach, Basis, IInv
  <1>1. ~Opened(p)
    BY OpenedIsNew
  <1>2. pr[p].status = "Open" /\ pr'[p].issue = i
    BY <1>0, <1>1, OpenStays
  <1>3. i \in Issues
    BY <1>0, <1>2 DEF RecordsNamed
  <1>4. RecordMove(p)
    BY <1>0, RecordsMove DEF Basis, IInv
  <1>5. CASE RoundReview(i, TRUE) /\ issue[i] = "Review"
    <2>1. round[i].pr = p
      BY <1>0, <1>2, <1>3, <1>5, ApprovalIsOfOpen DEF OneOpenRecord
    <2>2. ~pr[p].stale
      BY <1>0, <1>2, <1>3, <1>5, <2>1, EndingRounds DEF Volley, ReviewIsOfFresh
    <2> QED  BY <1>0, <1>3, <1>5, <2>1, <2>2, ApprovalIsOfOpen
  <1>6. CASE ~(RoundReview(i, TRUE) /\ issue[i] = "Review")
    <2>1. issue[i] = "Pr"
      BY <1>0, <1>2, <1>3, <1>6, IssueMovesOn DEF IssueMove
    <2>2. ~pr[p].stale
      BY <1>0, <1>2, <2>1 DEF Volley, StaleIsNotPr
    <2>3. ~Reviewed(p)
      BY <1>0, <1>3, <2>1, EndingRounds DEF Reviewed, Volley, PrIsQuiet, InFlight
    <2>4. ~Ended(p) /\ ~Invalidated(p)
      BY <1>2 DEF Ended, Invalidated
    <2> QED  BY <1>1, <1>2, <1>4, <2>2, <2>3, <2>4 DEF RecordMove, Flagged
  <1> QED  BY <1>5, <1>6

LEMMA StaleIsFlaggedStep ==
    ASSUME VolleyBasis, [Next]_vars
    PROVE  StaleIsFlagged'
  <1> SUFFICES ASSUME NEW p \in Records, pr'[p].status = "Open",
                      issue'[pr'[p].issue] = "Stale"
               PROVE  pr'[p].stale \/ pr'[p].approved
    BY DEF StaleIsFlagged, Records
  <1> DEFINE i == pr[p].issue
  <1>0. Basis /\ Volley /\ OneOpenRecord /\ RecordsNamed
    BY DEF VolleyBasis, OneEach, Basis, IInv
  <1>1. ~Opened(p)
    BY OpenedIsNew
  <1>2. pr[p].status = "Open" /\ pr'[p].issue = i
    BY <1>0, <1>1, OpenStays
  <1>3. i \in Issues
    BY <1>0, <1>2 DEF RecordsNamed
  <1>4. RecordMove(p)
    BY <1>0, RecordsMove DEF Basis, IInv
  <1>5. issue[i] \in {"Stale", "Pr"}
    BY <1>0, <1>2, <1>3, IssueMovesOn DEF IssueMove
  <1>6. pr[p].stale \/ pr[p].approved
    <2>1. CASE issue[i] = "Stale"
      BY <1>0, <1>2, <2>1 DEF Volley, StaleIsFlagged
    <2>2. CASE issue[i] = "Pr"
      <3>1. PICK q \in Records : pr[q].status = "Open" /\ pr[q].issue = i /\ pr[q].approved
        BY <1>0, <1>3, <2>2 DEF Volley, PrIsApproved, OpenRecords
      <3> QED  BY <1>0, <1>2, <3>1 DEF OneOpenRecord
    <2> QED  BY <1>5, <2>1, <2>2
  <1>7. ~Ended(p) /\ ~Invalidated(p) /\ ~Reviewed(p)
    BY <1>2 DEF Ended, Invalidated, Reviewed
  <1> QED  BY <1>1, <1>4, <1>6, <1>7 DEF RecordMove, Flagged

LEMMA ReviewIsOfFreshStep ==
    ASSUME VolleyBasis, [Next]_vars
    PROVE  ReviewIsOfFresh'
  <1> SUFFICES ASSUME NEW i \in Issues, round'[i].at \in {"picked", "working"},
                      round'[i].role = "pr-reviewer", pr'[round'[i].pr].status = "Open"
               PROVE  ~pr'[round'[i].pr].stale /\ issue'[i] # "Stale"
    BY DEF ReviewIsOfFresh
  <1>0. Basis /\ Volley /\ VerdictCoversRounds /\ TypeOK
    BY DEF VolleyBasis, Basis, IInv
  <1>1. RoundMove(i) /\ IssueMove(i) /\ round[i] \in Round
    BY <1>0, IssueMovesOn
  <1>2. CASE round'[i] = round[i]
    <2> DEFINE p == round[i].pr
    <2>1. InFlight(i)
      BY <1>2 DEF InFlight
    <2>2. p \in Records /\ pr[p].status = "Open" /\ pr[p].issue = i
      BY <1>0, <1>2, <2>1, RoundsRecord, RoundsRecordStays
    <2>3. ~pr[p].stale /\ issue[i] # "Stale"
      BY <1>0, <1>2, <2>2 DEF Volley, ReviewIsOfFresh
    <2>4. issue[i] # "Pr"
      BY <1>0, <2>1 DEF Volley, PrIsQuiet, InFlight
    <2>5. issue'[i] # "Stale"
      BY <1>1, <2>3, <2>4 DEF IssueMove
    <2>6. RecordMove(p)
      BY <1>0, <2>2, RecordsMove DEF Basis, IInv
    <2>7. ~Opened(p)
      BY <2>2 DEF Opened
    <2>8. ~Ended(p)
      BY <1>0, <1>2, <2>2 DEF Ended, TypeOK, Record
    <2>9. ~pr'[p].stale
      <3>1. CASE Reviewed(p) \/ Invalidated(p)
        BY <2>3, <3>1 DEF Reviewed, Invalidated
      <3>2. CASE Flagged(p)
        BY <2>2, <2>3, <2>5, <3>2 DEF Flagged
      <3> QED  BY <2>3, <2>6, <2>7, <2>8, <3>1, <3>2 DEF RecordMove
    <2> QED  BY <1>2, <2>5, <2>9
  <1>3. CASE RoundRead(i)
    <2>1. PICK p \in Records : /\ IsOpenRecordFor(i, p) /\ RoleOf(p) = round[i].role
                               /\ round'[i].pr = p
      BY <1>0, <1>3, RunningRounds
    <2>2. /\ pr' = pr /\ issue' = issue /\ round'[i].role = round[i].role
          /\ pr[p].status = "Open" /\ pr[p].issue = i
      BY <1>0, <1>3, <2>1, RunningRounds DEF store, IsOpenRecordFor, OpenRecords
    <2>3. ~pr[p].stale /\ ~pr[p].approved
      BY <1>0, <2>1, <2>2, RolesTell
    <2>4. issue[i] # "Stale"
      BY <1>0, <2>2, <2>3 DEF Volley, StaleIsFlagged
    <2> QED  BY <2>1, <2>2, <2>3, <2>4
  <1>4. CASE RoundCheckout(i)
    <2>1. /\ UNCHANGED store /\ round[i].at = "picked" /\ round'[i].role = round[i].role
          /\ round'[i].pr = round[i].pr
      BY <1>0, <1>4, RunningRounds
    <2> QED  BY <1>0, <2>1 DEF store, Volley, ReviewIsOfFresh
  <1>5. ~RoundPublish(i)
    BY <1>0, RunningRounds
  <1>6. \A c \in Callers : ~Dispatch(c, i)
    BY <1>0, <1>1 DEF Dispatch, TypeOK, Round
  <1> QED  BY <1>1, <1>2, <1>3, <1>4, <1>5, <1>6 DEF RoundMove

LEMMA VolleyHolds ==
    ASSUME OneWorker
    PROVE  Spec => []VolleyBasis
  <1>1. Init => Volley
    BY DEF Init, Volley, GoneRecordsWait, PrIsQuiet, SweepIsAlone, StaleIsNotPr,
           StaleIsFlagged, ReviewIsOfFresh, PrIsApproved, InFlight, IdleRound, IdleCall,
           SweepSteps, NoRecord, NewRecord
  <1>2. Basis /\ OneEach /\ VerdictCoversRounds /\ Volley /\ [Next]_vars => Volley'
    BY GoneRecordsWaitStep, PrIsQuietStep, SweepIsAloneStep, StaleIsNotPrStep,
       StaleIsFlaggedStep, ReviewIsOfFreshStep, PrIsApprovedStep DEF VolleyBasis, Volley
  <1>3. Basis /\ OneEach /\ VerdictCoversRounds /\ Volley => VolleyBasis
    BY DEF VolleyBasis
  <1>4. Spec => []OneEach
    BY WorkerOpens, OneEachHolds
  <1> QED  BY <1>1, <1>2, <1>3, <1>4, BasisHolds, VerdictsCoverRounds, PTL DEF Spec

\* An issue in Pr has an approved open record, whatever rounds of records that were
\* closed, merged or reset are still running.  The sweep is why the assumption is
\* needed: a push seen by a sweep that another round has overtaken would put the issue
\* back in Review under the round of a record that is gone.
THEOREM PrHasApproval ==
    ASSUME OneWorker
    PROVE  Spec => []PrIsApproved
  <1>1. VolleyBasis => PrIsApproved
    BY DEF VolleyBasis, Volley
  <1> QED  BY <1>1, VolleyHolds, PTL

\* The branch under a reviewer is the working copy the verdict will be about, unless
\* it has been deleted.
ReviewIsOfBranch ==
    \A i \in Issues :
        /\ round[i].at = "working" /\ round[i].role = "pr-reviewer"
        /\ pr[round[i].pr].status = "Open"
        => branch[i] \in {checkout[i], {}}

\* The branch of an issue with an open record is deleted, pushed to by the round of
\* the issue, or left alone.
LEMMA OpenBranchesMove ==
    ASSUME "hand-push" \notin Events, Basis, OneEach, [Next]_vars, NEW i \in Issues,
           NEW p \in Records, pr[p].status = "Open", pr[p].issue = i
    PROVE  \/ branch'[i] = branch[i] /\ checkout'[i] = checkout[i]
           \/ branch'[i] = {} /\ checkout'[i] = {}
           \/ RoundCheckout(i) \/ RoundPublish(i)
  <1>1. ~HasNoneOpen(i)
    BY DEF HasNoneOpen
  <1>2. \A c \in Callers : OpenCut(c) => i \notin call[c].todo
    BY <1>1 DEF OneEach, OpenersAhead, OpenCut, OpenSteps
  <1>3. ~HandPush(i)
    BY DEF HandPush
  <1>4. BranchMove(i)
    BY IssueMovesOn
  <1> QED  BY <1>2, <1>3, <1>4 DEF BranchMove

LEMMA ReviewIsOfBranchStep ==
    ASSUME "hand-push" \notin Events, VolleyBasis, ReviewIsOfBranch, [Next]_vars
    PROVE  ReviewIsOfBranch'
  <1> SUFFICES ASSUME NEW i \in Issues, round'[i].at = "working",
                      round'[i].role = "pr-reviewer", pr'[round'[i].pr].status = "Open"
               PROVE  branch'[i] \in {checkout'[i], {}}
    BY DEF ReviewIsOfBranch
  <1>0. Basis /\ OneEach /\ TypeOK
    BY DEF VolleyBasis, Basis, IInv
  <1>1. RoundMove(i) /\ round[i] \in Round
    BY <1>0, IssueMovesOn
  <1>2. CASE RoundCheckout(i)
    BY <1>0, <1>2 DEF RoundCheckout, StartOf, TypeOK
  <1>3. ASSUME round'[i] = round[i], ~RoundCheckout(i)
        PROVE  branch'[i] \in {checkout'[i], {}}
    <2> DEFINE p == round[i].pr
    <2>1. InFlight(i)
      BY <1>3 DEF InFlight
    <2>2. p \in Records /\ pr[p].status = "Open" /\ pr[p].issue = i
      BY <1>0, <1>3, <2>1, RoundsRecord, RoundsRecordStays
    <2>3. branch[i] \in {checkout[i], {}}
      BY <1>3, <2>2 DEF ReviewIsOfBranch
    <2>4. ~RoundPublish(i)
      BY <1>0, <1>3, RunningRounds
    <2> QED  BY <1>0, <1>3, <2>2, <2>3, <2>4, OpenBranchesMove
  <1>4. ~RoundRead(i) /\ ~RoundPublish(i)
    BY <1>0, RunningRounds
  <1>5. \A c \in Callers : ~Dispatch(c, i)
    BY <1>0, <1>1 DEF Dispatch, TypeOK, Round
  <1> QED  BY <1>1, <1>2, <1>3, <1>4, <1>5 DEF RoundMove

LEMMA ApprovalMatchesStep ==
    ASSUME "hand-push" \notin Events, VolleyBasis, ReviewIsOfBranch, ApprovalMatchesBranch,
           [Next]_vars
    PROVE  ApprovalMatchesBranch'
  <1> SUFFICES ASSUME NEW i \in Issues, NEW p \in Records, pr'[p].status = "Open",
                      pr'[p].issue = i, pr'[p].approved, issue'[i] = "Pr"
               PROVE  branch'[i] \in {pr'[p].reviewed, {}}
    BY DEF ApprovalMatchesBranch, OpenRecords, Records
  <1>0. Basis /\ OneEach /\ Volley /\ OneOpenRecord /\ TypeOK
    BY DEF VolleyBasis, OneEach, Basis, IInv
  <1>1. pr[p].status = "Open" /\ pr[p].issue = i
    BY <1>0, OpenStays, OpenedIsNew
  <1>2. CASE issue[i] = "Pr"
    <2>1. round[i].at = "idle"
      BY <1>0, <1>2 DEF Volley, PrIsQuiet
    <2>2. ~Reviewed(p)
      BY <1>0, <1>1, <2>1, EndingRounds DEF Reviewed, InFlight
    <2>3. ~Opened(p) /\ ~Invalidated(p) /\ ~Ended(p)
      BY <1>1 DEF Opened, Invalidated, Ended
    <2>4. RecordMove(p)
      BY <1>0, RecordsMove DEF Basis, IInv
    <2>5. pr'[p].approved = pr[p].approved /\ pr'[p].reviewed = pr[p].reviewed
      BY <2>2, <2>3, <2>4 DEF RecordMove, Flagged
    <2>6. branch[i] \in {pr[p].reviewed, {}}
      BY <1>1, <1>2, <2>5 DEF ApprovalMatchesBranch, OpenRecords
    <2>7. ~RoundCheckout(i) /\ ~RoundPublish(i)
      BY <1>0, <2>1, RunningRounds
    <2> QED  BY <1>0, <1>1, <2>5, <2>6, <2>7, OpenBranchesMove
  <1>3. CASE issue[i] # "Pr"
    <2> DEFINE q == round[i].pr
    <2>1. RoundReview(i, TRUE) /\ issue[i] = "Review"
      BY <1>0, <1>3, IssueMovesOn DEF IssueMove
    <2>2. /\ q \in Records /\ pr[q].status = "Open" /\ pr[q].issue = i
          /\ pr'[q].reviewed = checkout[i]
      BY <1>0, <2>1, ApprovalIsOfOpen
    <2>3. p = q
      BY <1>0, <1>1, <2>2 DEF OneOpenRecord
    <2>4. round[i].at = "working" /\ round[i].role = "pr-reviewer" /\ branch' = branch
      BY <2>1 DEF RoundReview, git
    <2>5. branch[i] \in {checkout[i], {}}
      BY <2>2, <2>4 DEF ReviewIsOfBranch
    <2> QED  BY <2>2, <2>3, <2>4, <2>5
  <1> QED  BY <1>2, <1>3

\* What a person sees in Pr is what was judged: with no push by hand the branch is
\* exactly the head the verdict names, or it is being deleted.
THEOREM ApprovedIsReviewed ==
    ASSUME OneWorker, "hand-push" \notin Events
    PROVE  Spec => []ApprovalMatchesBranch
  <1>1. Init => ReviewIsOfBranch /\ ApprovalMatchesBranch
    BY DEF Init, ReviewIsOfBranch, ApprovalMatchesBranch, IdleRound
  <1>2. VolleyBasis /\ ReviewIsOfBranch /\ ApprovalMatchesBranch /\ [Next]_vars
            => (ReviewIsOfBranch /\ ApprovalMatchesBranch)'
    BY ReviewIsOfBranchStep, ApprovalMatchesStep
  <1> QED  BY <1>1, <1>2, VolleyHolds, PTL DEF Spec

-----------------------------------------------------------------------------
(* Work that waits.  What a branch is cut from contains what its issue waited *)
(* for, with one caller that opens and one that merges.  A merge is a request *)
(* and mutationMu lets through one request at a time that changes anything.   *)

OneMerger == \A c, d \in Callers : "merge" \in Duties[c] /\ "merge" \in Duties[d] => c = d

\* A head for issue i that contains everything i waits on.
CutFrom(head, i) ==
    head # {} =>
        \A j \in Waits[i] :
            /\ issue[j] \in SettledStates
            /\ \A p \in Records :
                  pr[p].issue = j /\ pr[p].status = "Merged" => landed[p] \subseteq head

HeadsHaveWork == \A i \in Issues : CutFrom(branch[i], i) /\ CutFrom(checkout[i], i)

\* Nothing is opened, dispatched or run on an issue that waits.
OpenersWait ==
    \A c \in Callers :
        call[c].at \in OpenSteps => \A i \in call[c].todo : ~Blocked(issue, Waits, i)

RoundsWait ==
    \A i \in Issues :
        /\ round[i].at # "idle" => round[i].role # "none"
        /\ InFlight(i) => ~Blocked(issue, Waits, i)

\* A merge that is about to publish is of a record nobody has recorded as merged.
MergesAreNew ==
    \A c \in Callers : call[c].at = "merge-land" => pr[call[c].pr].status # "Merged"

Waiting == HeadsHaveWork /\ OpenersWait /\ RoundsWait /\ MergesAreNew

\* What they start from.
WaitingBasis ==
    Basis /\ OneEach /\ MergedLanded /\ Publications /\ Waiting

\* A settled issue stays settled, and what landed for it is what had landed.
LEMMA SettledWorkStays ==
    ASSUME WaitingBasis, [Next]_vars, NEW j \in Issues, issue[j] \in SettledStates
    PROVE  /\ issue'[j] = issue[j]
           /\ \A p \in Records :
                 pr'[p].issue = j /\ pr'[p].status = "Merged" =>
                     pr[p].issue = j /\ pr[p].status = "Merged" /\ landed'[p] = landed[p]
  <1>0. Basis /\ OneEach /\ TypeOK /\ CallsKnown /\ MergesAreNew
    BY DEF WaitingBasis, Waiting, Basis, IInv
  <1>1. issue'[j] = issue[j]
    BY <1>0, SettledStep
  <1>2. ASSUME NEW p \in Records, pr'[p].issue = j, pr'[p].status = "Merged"
        PROVE  pr[p].issue = j /\ pr[p].status = "Merged"
    <2>1. RecordMove(p)
      BY <1>0, RecordsMove DEF Basis, IInv
    <2>2. pr[p] \in Record
      BY <1>0 DEF TypeOK
    <2>3. ~Opened(p)
      BY <1>2, OpenedIsNew
    <2>4. ~Ended(p)
      <3>1. Ended(p) => pr[p].status = "Open" /\ pr'[p].issue = pr[p].issue
        BY <2>2 DEF Ended, Record
      <3> QED  BY <1>0, <1>2, <3>1 DEF OneEach, OpenAreUnsettled
    <2> QED  BY <1>2, <2>1, <2>3, <2>4 DEF RecordMove, Invalidated, Reviewed, Flagged, Same
  <1>3. ASSUME NEW p \in Records, pr[p].status = "Merged"
        PROVE  landed'[p] = landed[p]
    <2>1. ASSUME NEW c \in Callers, MergeLand(c)
          PROVE  landed'[p] = landed[p]
      <3>1. call[c].pr # p
        BY <1>0, <1>3, <2>1 DEF MergesAreNew, MergeLand
      <3> QED  BY <1>0, <2>1, <3>1 DEF MergeLand, TypeOK
    <2> QED  BY <1>0, <2>1, LandedStep
  <1> QED  BY <1>1, <1>2, <1>3

\* An issue that no longer waits never waits again.
LEMMA NeverBlockedAgain ==
    ASSUME TypeOK, [Next]_vars, NEW i \in Issues, ~Blocked(issue, Waits, i)
    PROVE  ~Blocked(issue, Waits, i)'
  <1>1. Waits[i] \subseteq Issues
    BY ConstantsAreTyped
  <1>2. \A j \in Waits[i] : issue'[j] = issue[j]
    BY <1>1, SettledStep DEF Blocked
  <1> QED  BY <1>2 DEF Blocked

\* A head that contains an issue's work goes on containing it, and so does what grows
\* out of it.
LEMMA HeadsKeepWork ==
    ASSUME WaitingBasis, [Next]_vars, NEW i \in Issues, NEW head, NEW more,
           CutFrom(head, i), head # {}, head \subseteq more
    PROVE  \A j \in Waits[i] :
              /\ issue'[j] \in SettledStates
              /\ \A p \in Records :
                    pr'[p].issue = j /\ pr'[p].status = "Merged" => landed'[p] \subseteq more
  <1> SUFFICES ASSUME NEW j \in Waits[i]
               PROVE  /\ issue'[j] \in SettledStates
                      /\ \A p \in Records :
                            pr'[p].issue = j /\ pr'[p].status = "Merged"
                                => landed'[p] \subseteq more
    OBVIOUS
  <1>1. j \in Issues
    BY ConstantsAreTyped
  <1>2. /\ issue[j] \in SettledStates
        /\ \A p \in Records :
              pr[p].issue = j /\ pr[p].status = "Merged" => landed[p] \subseteq head
    BY DEF CutFrom
  <1> QED  BY <1>1, <1>2, SettledWorkStays

\* What an issue that does not wait is cut from contains its work.
LEMMA StartsHaveWork ==
    ASSUME WaitingBasis, NEW i \in Issues, ~Blocked(issue, Waits, i)
    PROVE  CutFrom(StartOf(i), i)
  <1>1. CASE branch[i] # {}
    BY <1>1 DEF StartOf, WaitingBasis, Waiting, HeadsHaveWork
  <1>2. CASE branch[i] = {}
    BY <1>2 DEF StartOf, CutFrom, Blocked, WaitingBasis, Publications
  <1> QED  BY <1>1, <1>2

LEMMA HeadsHaveWorkStep ==
    ASSUME WaitingBasis, [Next]_vars
    PROVE  HeadsHaveWork'
  <1> DEFINE Has(head, i) ==
                 head # {} =>
                     \A j \in Waits[i] :
                         /\ issue'[j] \in SettledStates
                         /\ \A p \in Records :
                               pr'[p].issue = j /\ pr'[p].status = "Merged"
                                   => landed'[p] \subseteq head
  <1> SUFFICES ASSUME NEW i \in Issues
               PROVE  Has(branch'[i], i) /\ Has(checkout'[i], i)
    BY DEF HeadsHaveWork, CutFrom, Records
  <1>0. Basis /\ TypeOK /\ HeadsHaveWork /\ OpenersWait /\ RoundsWait
    BY DEF WaitingBasis, Waiting, Basis, IInv
  <1>1. CutFrom(branch[i], i) /\ CutFrom(checkout[i], i)
    BY <1>0 DEF HeadsHaveWork
  <1>2. ASSUME NEW head, CutFrom(head, i)
        PROVE  Has(head, i)
    BY <1>2, HeadsKeepWork
  <1>3. Has({}, i)
    OBVIOUS
  <1>4. ASSUME NEW head, NEW more, CutFrom(head, i), head # {}, head \subseteq more
        PROVE  Has(more, i)
    BY <1>4, HeadsKeepWork
  <1> HIDE DEF Has
  <1>5. ASSUME NEW c \in Callers, OpenCut(c), i \in call[c].todo
        PROVE  Has(StartOf(i), i)
    <2>1. ~Blocked(issue, Waits, i)
      BY <1>0, <1>5 DEF OpenersWait, OpenCut, OpenSteps
    <2> QED  BY <1>2, <2>1, StartsHaveWork
  <1>6. CASE RoundCheckout(i)
    <2>1. ~Blocked(issue, Waits, i)
      BY <1>0, <1>6 DEF RoundsWait, RoundCheckout, InFlight
    <2>2. Has(StartOf(i), i)
      BY <1>2, <2>1, StartsHaveWork
    <2>3. branch' = branch /\ checkout'[i] = StartOf(i)
      BY <1>0, <1>6 DEF RoundCheckout, TypeOK
    <2> QED  BY <1>1, <1>2, <2>2, <2>3
  <1>7. CASE RoundPublish(i)
    <2>1. /\ branch'[i] = checkout[i] \cup {fresh} /\ checkout'[i] = checkout[i] \cup {fresh}
          /\ checkout[i] # {}
      BY <1>0, <1>7 DEF RoundPublish, TypeOK
    <2>2. Has(checkout[i] \cup {fresh}, i)
      BY <1>1, <1>4, <2>1
    <2> QED  BY <2>1, <2>2
  <1>8. CASE HandPush(i)
    <2>1. branch[i] # {} /\ branch[i] \subseteq branch'[i] /\ checkout' = checkout
      BY <1>0, <1>8 DEF HandPush, TypeOK
    <2>2. Has(branch'[i], i)
      BY <1>1, <1>4, <2>1
    <2> QED  BY <1>1, <1>2, <2>1, <2>2
  <1>9. BranchMove(i)
    BY <1>0, IssueMovesOn
  <1>10. CASE branch'[i] = branch[i] /\ checkout'[i] = checkout[i]
    BY <1>1, <1>2, <1>10
  <1>11. CASE branch'[i] = {} /\ checkout'[i] = {}
    BY <1>3, <1>11
  <1> QED  BY <1>5, <1>6, <1>7, <1>8, <1>9, <1>10, <1>11 DEF BranchMove

LEMMA OpenersWaitStep ==
    ASSUME WaitingBasis, [Next]_vars
    PROVE  OpenersWait'
  <1> DEFINE Free(i) == ~Blocked(issue, Waits, i)'
  <1> SUFFICES ASSUME NEW c \in Callers, call'[c].at \in OpenSteps
               PROVE  \A i \in call'[c].todo : Free(i)
    BY DEF OpenersWait, OpenSteps
  <1>0. Basis /\ TypeOK /\ OpenersWait
    BY DEF WaitingBasis, Waiting, Basis, IInv
  <1>1. \A i \in Issues : ~Blocked(issue, Waits, i) => Free(i)
    BY <1>0, NeverBlockedAgain
  <1> HIDE DEF Free
  <1>2. CASE call[c].at \in OpenSteps /\ call'[c].todo \subseteq call[c].todo
    <2>1. call[c].todo \subseteq Issues
      BY <1>0 DEF TypeOK, Call
    <2> QED  BY <1>0, <1>1, <1>2, <2>1 DEF OpenersWait
  <1>3. CASE OpenRead(c)
    BY <1>0, <1>1, <1>3, OpeningsRead
  <1> QED  BY <1>0, <1>2, <1>3, OpeningsShrink

LEMMA RoundsWaitStep ==
    ASSUME WaitingBasis, VerdictCoversRounds, [Next]_vars
    PROVE  RoundsWait'
  <1> SUFFICES ASSUME NEW i \in Issues, round'[i].at # "idle"
               PROVE  /\ round'[i].role # "none"
                      /\ InFlight(i)' => ~Blocked(issue, Waits, i)'
    BY DEF RoundsWait, InFlight
  <1>0. Basis /\ TypeOK /\ RoundsWait
    BY DEF WaitingBasis, Waiting, Basis, IInv
  <1>1. RoundMove(i) /\ round[i] \in Round
    BY <1>0, IssueMovesOn
  <1>2. ~Blocked(issue, Waits, i) => ~Blocked(issue, Waits, i)'
    BY <1>0, NeverBlockedAgain
  <1>3. CASE round'[i] = round[i]
    BY <1>0, <1>2, <1>3 DEF RoundsWait, InFlight
  <1>4. ASSUME NEW c \in Callers, Dispatch(c, i)
        PROVE  round'[i].role # "none" /\ ~InFlight(i)'
    <2>1. PICK p \in Records :
             /\ RoleOf(p) # "none"
             /\ round' = [round EXCEPT ![i].at = "dispatched", ![i].role = RoleOf(p)]
      BY <1>4 DEF Dispatch, OpenRecords
    <2>2. round'[i] = [round[i] EXCEPT !.at = "dispatched", !.role = RoleOf(p)]
      BY <1>0, <2>1 DEF TypeOK
    <2>3. round'[i].at = "dispatched" /\ round'[i].role = RoleOf(p)
      BY <1>1, <2>2 DEF Round
    <2> QED  BY <2>1, <2>3 DEF InFlight
  <1>5. CASE RoundRead(i)
    <2>1. PICK p \in Records : IsOpenRecordFor(i, p) /\ RoleOf(p) = round[i].role
      BY <1>0, <1>5, RunningRounds
    <2>2. round'[i].role = round[i].role /\ round[i].at = "dispatched"
      BY <1>0, <1>5, RunningRounds
    <2>3. round[i].role # "none"
      BY <1>0, <2>2 DEF RoundsWait
    <2>4. pr[p].issue = i
      BY <2>1 DEF IsOpenRecordFor, OpenRecords
    <2>5. ~Blocked(issue, Waits, i)
      BY <1>0, <2>1, <2>3, <2>4, RolesTell
    <2> QED  BY <1>2, <2>2, <2>3, <2>5
  <1>6. CASE RoundCheckout(i) \/ RoundPublish(i)
    <2>1. InFlight(i) /\ round[i].at # "idle"
      BY <1>0, <1>6, RunningRounds DEF InFlight
    <2>2. round'[i].role = round[i].role
      BY <1>0, <1>1, <1>6 DEF RoundCheckout, RoundPublish, TypeOK, Round
    <2> QED  BY <1>0, <1>2, <2>1, <2>2 DEF RoundsWait
  <1> QED  BY <1>1, <1>3, <1>4, <1>5, <1>6 DEF RoundMove

LEMMA MergesAreNewStep ==
    ASSUME OneMerger, WaitingBasis, [Next]_vars
    PROVE  MergesAreNew'
  <1> SUFFICES ASSUME NEW c \in Callers, call'[c].at = "merge-land",
                      pr'[call'[c].pr].status = "Merged"
               PROVE  FALSE
    BY DEF MergesAreNew
  <1>0. Basis /\ TypeOK /\ CallsKnown /\ MergesAreNew
    BY DEF WaitingBasis, Waiting, Basis, IInv
  <1>1. call[c] \in Call
    BY <1>0 DEF TypeOK
  <1>2. CASE call'[c] = call[c]
    <2> DEFINE p == call[c].pr
    <2>1. p \in Records /\ "merge" \in Duties[c] /\ pr[p].status # "Merged"
      BY <1>0, <1>2 DEF CallsKnown, MergeSteps, MergesAreNew
    <2>2. PICK d \in Callers : call[d].at = "merge-record"
      BY <1>0, <1>2, <2>1, MergedStep
    <2>3. d = c
      BY <1>0, <2>1, <2>2 DEF CallsKnown, MergeSteps, OneMerger
    <2> QED  BY <1>2, <2>2, <2>3
  <1>3. ASSUME NEW p \in Records, MergeRead(c, p)
        PROVE  FALSE
    BY <1>0, <1>1, <1>3 DEF MergeRead, store, TypeOK, Call
  <1>4. \A p \in Records : ~(SweepRead(c, p) \/ ResetRead(c, p))
    BY <1>0, <1>1 DEF SweepRead, ResetRead, TypeOK, Call
  <1>5. ~(OpenRead(c) \/ OpenCut(c) \/ OpenRecord(c))
    BY <1>0, OpeningGoesOn DEF OpenSteps
  <1>6. ~SweepInspect(c)
    BY <1>0, <1>1 DEF SweepInspect, SweepVerdict, IdleCall, TypeOK, Call
  <1>7. ~(MergeLand(c) \/ ResetDrained(c) \/ ResetDelete(c))
    BY <1>0, <1>1 DEF MergeLand, ResetDrained, ResetDelete, TypeOK, Call
  <1>8. CallMove(c)
    BY <1>0, CallsMove
  <1> QED  BY <1>2, <1>3, <1>4, <1>5, <1>6, <1>7, <1>8 DEF CallMove

\* An issue's branch is cut only after what it waits on is settled, and it contains
\* what was merged for that, from its first commit to its last: neither an opening that
\* works from an old read, nor a merge that ends late, makes it otherwise.  A second
\* caller that merges could land more for a record already recorded as merged;
\* mutationMu (server.go) leaves no second one.
THEOREM BranchesHaveTheWork ==
    ASSUME OneOpener, OneMerger
    PROVE  Spec => []CutFromDeliveredWork
  <1>1. Init => Publications /\ Waiting
    BY DEF Init, Publications, Waiting, HeadsHaveWork, CutFrom, OpenersWait, RoundsWait,
           MergesAreNew, InFlight, IdleRound, IdleCall, OpenSteps
  <1>2. Basis /\ MergedLanded /\ Publications /\ [Next]_vars => Publications'
    BY PublicationsStep DEF Basis, IInv
  <1>3. /\ Basis /\ OneEach /\ MergedLanded /\ Publications /\ Waiting
        /\ VerdictCoversRounds /\ [Next]_vars
        => Waiting'
    BY HeadsHaveWorkStep, OpenersWaitStep, RoundsWaitStep, MergesAreNewStep
       DEF WaitingBasis, Waiting
  <1>4. Waiting => CutFromDeliveredWork
    BY DEF Waiting, HeadsHaveWork, CutFrom, CutFromDeliveredWork
  <1> QED
    BY <1>1, <1>2, <1>3, <1>4, BasisHolds, OneEachHolds, MergesHaveLanded,
       VerdictsCoverRounds, PTL DEF Spec
=============================================================================
