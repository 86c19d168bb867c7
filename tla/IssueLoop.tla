------------------------------ MODULE IssueLoop ------------------------------
(***************************************************************************)
(* The execution half of donsy: one Ready epic, its issues and the pull    *)
(* request records cut for them, the Git remote they are pushed to, the    *)
(* rounds the worker dispatches and the use cases a person or the worker   *)
(* calls.                                                                  *)
(*                                                                         *)
(* The store serialises every UpdateEpic, so a read-modify-write of the    *)
(* aggregate is one step; everything else a use case does between two of   *)
(* them (a fetch, a push, a sandbox run, a branch delete) is a step of its *)
(* own, and what was read before it may be stale after it.  A round is the *)
(* goroutine of one issue (round[i]); any other use case in progress is a  *)
(* call of a caller (call[c]): the worker's tick, or an HTTP request, of   *)
(* which the API serves one at a time that changes anything (mutationMu).  *)
(***************************************************************************)
EXTENDS EpicDomain

CONSTANTS
    Issues,         \* the non-root issues of the epic
    NoIssue,        \* no issue
    Waits,          \* Waits[i]: the children of i and what its BlockedBy names
    Subtree,        \* Subtree[i]: i and everything below it
    Callers,        \* concurrent callers of use cases
    Duties,         \* Duties[c]: the use cases caller c may be asked for
    Events,         \* what else may happen: see EventNames
    MaxRecords,     \* bound: pull request records ever made
    MaxCommits      \* bound: commits ever made after the first

DutyNames == {"dispatch", "open", "sweep", "complete", "close-pr",
              "close-issue", "close-epic", "merge", "reset"}

EventNames == {"grant", "create", "transition", "hand-push", "base-moves",
               "fail", "lose", "crash"}

ASSUME ConstantsAreTyped ==
    /\ NoIssue \notin Issues
    /\ Waits \in [Issues -> SUBSET Issues]
    /\ Subtree \in [Issues -> SUBSET Issues]
    /\ Duties \in [Callers -> SUBSET DutyNames]
    /\ Events \subseteq EventNames
    /\ MaxRecords \in Nat
    /\ MaxCommits \in Nat

VARIABLES
    epic,       \* state of the epic
    issue,      \* issue[i]: its state
    pr,         \* pr[p]: the p-th pull request record made
    branch,     \* branch[i]: head on the remote of the branch named after i
    checkout,   \* checkout[i]: local head of that branch in i's working copy
    base,       \* head of the default branch on the remote
    fresh,      \* the next commit
    round,      \* round[i]: the round in flight on issue i
    call,       \* call[c]: the use case caller c is in the middle of
    landed      \* history: landed[p] is the head Merge published for record p

store == <<epic, issue, pr>>
git == <<branch, checkout, base, fresh>>
vars == <<store, git, round, call, landed>>

Records == 1..MaxRecords
Commits == 0..MaxCommits

IdleRound == [at |-> "idle", role |-> "none", pr |-> 0, head |-> {}]

IdleCall == [at |-> "idle", issue |-> NoIssue, pr |-> 0, seen |-> {}, todo |-> {}]

NoRecord == [NewRecord(NoIssue) EXCEPT !.status = "Absent"]

RoundSteps == {"idle", "dispatched", "picked", "working", "published"}

CallSteps == {"idle", "open-cut", "open-record", "sweep-inspect", "sweep-stale",
              "sweep-push", "complete", "delete", "merge-land", "merge-record",
              "merge-stale", "reset-drain", "reset-delete", "reset-close"}

Record == [issue : Issues \cup {NoIssue}, status : RecordStatuses,
           rounds : Nat, reviews : Nat, coding : Nat, granted : Nat,
           approved : BOOLEAN, reviewed : SUBSET Commits,
           limit : BOOLEAN, stale : BOOLEAN]

Round == [at : RoundSteps, role : IssueRoles \cup {"none"},
          pr : {0} \cup Records, head : SUBSET Commits]

Call == [at : CallSteps, issue : Issues \cup {NoIssue}, pr : {0} \cup Records,
         seen : SUBSET Commits, todo : SUBSET Issues]

TypeOK ==
    /\ epic \in EpicStates
    /\ issue \in [Issues -> IssueStates]
    /\ pr \in [Records -> Record]
    /\ branch \in [Issues -> SUBSET Commits]
    /\ checkout \in [Issues -> SUBSET Commits]
    /\ base \in SUBSET Commits
    /\ fresh \in 1..MaxCommits + 1
    /\ round \in [Issues -> Round]
    /\ call \in [Callers -> Call]
    /\ landed \in [Records -> SUBSET Commits]

\* A person has just moved the drafted epic to Ready.
Init ==
    /\ epic = "Ready"
    /\ issue = [i \in Issues |-> "Open"]
    /\ pr = [p \in Records |-> NoRecord]
    /\ branch = [i \in Issues |-> {}]
    /\ checkout = [i \in Issues |-> {}]
    /\ base = {0}
    /\ fresh = 1
    /\ round = [i \in Issues |-> IdleRound]
    /\ call = [c \in Callers |-> IdleCall]
    /\ landed = [p \in Records |-> {}]

-----------------------------------------------------------------------------
(* Reading the aggregate *)

OpenRecords(i) == {p \in Records : pr[p].issue = i /\ pr[p].status = "Open"}

\* Epic.OpenPullRequestFor: the first open record in the order they were made.
IsOpenRecordFor(i, p) == p \in OpenRecords(i) /\ \A q \in OpenRecords(i) : p <= q

RoleOf(p) == IssueRole(epic, Blocked(issue, Waits, pr[p].issue), pr[p])

\* The identifier the next record gets.
IsNextRecord(p) ==
    /\ pr[p].status = "Absent"
    /\ \A q \in Records : q < p => pr[q].status # "Absent"

\* Updates of the aggregate that several use cases make.  A transition that is
\* not legal is the error that drops the whole update.
MoveIssue(i, next) ==
    /\ i \in Issues
    /\ IssueMayMoveTo(issue[i], next)
    /\ issue' = [issue EXCEPT ![i] = next]

AddPullRequest(i) ==
    /\ \E p \in Records : IsNextRecord(p) /\ pr' = [pr EXCEPT ![p] = NewRecord(i)]
    /\ MoveIssue(i, "Coding")

\* Mutant: a merged record leaves its issue where it is.
TransitionPullRequestOnly(p, status) ==
    /\ pr[p].status = "Open"
    /\ pr' = [pr EXCEPT ![p].status = status]
    /\ IF status = "Merged" THEN UNCHANGED issue ELSE MoveIssue(pr[p].issue, "Open")

TransitionPullRequest(p, status) ==
    /\ pr[p].status = "Open"
    /\ pr' = [pr EXCEPT ![p].status = status]
    /\ MoveIssue(pr[p].issue, IF status = "Merged" THEN "Merged" ELSE "Open")

\* Mutant: the flag is set and the issue stays in Pr.
MarkStaleOnly(p) ==
    /\ pr' = [pr EXCEPT ![p].stale = TRUE]
    /\ issue[pr[p].issue] \in {"Pr", "Stale"}
    /\ UNCHANGED issue

MarkStale(p) ==
    /\ pr' = [pr EXCEPT ![p].stale = TRUE]
    /\ MoveIssue(pr[p].issue, "Stale")

\* Mutant: a merged issue is closed with the rest.
CloseAllOfThem(closing) ==
    /\ issue' = [i \in Issues |-> IF i \in closing THEN "Closed" ELSE issue[i]]
    /\ pr' = [p \in Records |->
                IF pr[p].status = "Open" /\ pr[p].issue \in closing
                THEN [pr[p] EXCEPT !.status = "Closed"] ELSE pr[p]]

\* Epic.CloseIssue over a set of issues: merged ones are left alone, every other
\* one is closed with its open records.
CloseAll(closing) ==
    LET abandoned == {i \in closing : issue[i] # "Merged"}
    IN  /\ issue' = [i \in Issues |-> IF i \in abandoned THEN "Closed" ELSE issue[i]]
        /\ pr' = [p \in Records |->
                    IF pr[p].status = "Open" /\ pr[p].issue \in abandoned
                    THEN [pr[p] EXCEPT !.status = "Closed"] ELSE pr[p]]

\* The issues whose branch CloseAll(closing) leaves to be deleted.
Abandoned(closing) ==
    {i \in closing : issue[i] # "Merged" /\ OpenRecords(i) # {}}
-----------------------------------------------------------------------------
(* Rounds: the goroutine EpicWorker.dispatch starts for one issue.          *)

\* One round per issue: round[i] is the worker's in-flight entry.
Dispatch(c, i) ==
    /\ "dispatch" \in Duties[c]
    /\ call[c].at = "idle"
    /\ round[i].at = "idle"
    /\ \E p \in OpenRecords(i) :
          /\ RoleOf(p) # "none"
          /\ round' = [round EXCEPT ![i].at = "dispatched", ![i].role = RoleOf(p)]
    /\ UNCHANGED <<store, git, call, landed>>

\* The round reads the epic for itself and keeps that copy to its end.  The
\* sandbox was specified for the dispatched role, so a record whose role has
\* changed since is refused.
RoundRead(i) ==
    /\ round[i].at = "dispatched"
    /\ \E p \in Records :
          /\ IsOpenRecordFor(i, p)
          /\ RoleOf(p) = round[i].role
          /\ round' = [round EXCEPT ![i].at = "picked", ![i].pr = p]
    /\ UNCHANGED <<store, git, call, landed>>

\* Nothing is left to do for the issue, or the role is no longer the one asked.
RoundStop(i) ==
    /\ round[i].at = "dispatched"
    /\ \A p \in Records : IsOpenRecordFor(i, p) => RoleOf(p) # round[i].role
    /\ round' = [round EXCEPT ![i] = IdleRound]
    /\ UNCHANGED <<store, git, call, landed>>

\* CodeWorkspace.Checkout: the local branch becomes the published one, or base.
StartOf(i) == IF branch[i] # {} THEN branch[i] ELSE base

RoundCheckout(i) ==
    /\ round[i].at = "picked"
    /\ checkout' = [checkout EXCEPT ![i] = StartOf(i)]
    /\ round' = [round EXCEPT ![i].at = "working", ![i].head = StartOf(i)]
    /\ UNCHANGED <<store, branch, base, fresh, call, landed>>

\* Mutant: the push forces.
RoundForcePublish(i) ==
    /\ round[i].at = "working"
    /\ round[i].role \in {"coding", "merge"}
    /\ checkout[i] # {}
    /\ fresh <= MaxCommits
    /\ LET new == checkout[i] \cup {fresh}
       IN  /\ checkout' = [checkout EXCEPT ![i] = new]
           /\ branch' = [branch EXCEPT ![i] = new]
    /\ fresh' = fresh + 1
    /\ round' = [round EXCEPT ![i].at = "published"]
    /\ UNCHANGED <<store, base, call, landed>>

\* CommitAll and Push of a coding or a merge round.  The guest sees .git read
\* only and the host commits with one parent, so the new commit brings nothing
\* else into the branch.  A push never forces.
RoundPublish(i) ==
    /\ round[i].at = "working"
    /\ round[i].role \in {"coding", "merge"}
    /\ checkout[i] # {}
    /\ branch[i] \subseteq checkout[i]
    /\ fresh <= MaxCommits
    /\ LET new == checkout[i] \cup {fresh}
       IN  /\ checkout' = [checkout EXCEPT ![i] = new]
           /\ branch' = [branch EXCEPT ![i] = new]
    /\ fresh' = fresh + 1
    /\ round' = [round EXCEPT ![i].at = "published"]
    /\ UNCHANGED <<store, base, call, landed>>

\* The update that ends a coding or a merge round.
RoundRecord(i) ==
    LET p == round[i].pr
    IN  /\ round[i].at = "published"
        /\ pr' = [pr EXCEPT ![p] = IF round[i].role = "coding"
                                   THEN RecordCodingRound(@) ELSE RecordMergeRound(@)]
        /\ MoveIssue(pr[p].issue, "Review")
        /\ round' = [round EXCEPT ![i] = IdleRound]
        /\ UNCHANGED <<epic, git, call, landed>>

\* The update that ends a review round: the verdict is recorded against the
\* head the working copy has now.
RoundReview(i, approved) ==
    LET p == round[i].pr
    IN  /\ round[i].at = "working"
        /\ round[i].role = "pr-reviewer"
        /\ checkout[i] # {}
        /\ pr' = [pr EXCEPT ![p] = RecordReview(@, approved, checkout[i])]
        /\ MoveIssue(pr[p].issue, IF approved THEN "Pr" ELSE "Coding")
        /\ round' = [round EXCEPT ![i] = IdleRound]
        /\ UNCHANGED <<epic, git, call, landed>>

\* Any step may fail: no room on the host, Git, the sandbox, the agent, the
\* gate, a cancel, a refused push.  "lose" is the failure after the push: the
\* update was refused or never written, and the published commit goes uncounted.
RoundFail(i) ==
    /\ round[i].at # "idle"
    /\ (IF round[i].at = "published" THEN "lose" ELSE "fail") \in Events
    /\ round' = [round EXCEPT ![i] = IdleRound]
    /\ UNCHANGED <<store, git, call, landed>>

RoundStep(i) ==
    \/ RoundRead(i) \/ RoundStop(i) \/ RoundCheckout(i)
    \/ RoundPublish(i) \/ RoundRecord(i)
    \/ \E approved \in BOOLEAN : RoundReview(i, approved)
-----------------------------------------------------------------------------
(* Use cases in progress.                                                   *)

CanStart(c, duty) == duty \in Duties[c] /\ call[c].at = "idle"

\* Mutant: an issue that has its branch and its record is opened again.
OpenReadAgain(c) ==
    LET due == {i \in Issues : issue[i] \notin SettledStates /\ ~Blocked(issue, Waits, i)}
    IN  /\ CanStart(c, "open")
        /\ epic = "Ready"
        /\ due # {}
        /\ call' = [call EXCEPT ![c].at = "open-cut", ![c].todo = due]
        /\ UNCHANGED <<store, git, round, landed>>

\* OpenPullRequests: the issues to open are picked from one read.
OpenRead(c) ==
    LET due == {i \in Issues : /\ issue[i] = "Open"
                               /\ ~Blocked(issue, Waits, i)
                               /\ OpenRecords(i) = {}}
    IN  /\ CanStart(c, "open")
        /\ epic = "Ready"
        /\ due # {}
        /\ call' = [call EXCEPT ![c].at = "open-cut", ![c].todo = due]
        /\ UNCHANGED <<store, git, round, landed>>

\* Checkout and Push of one branch, before its record exists.
OpenCut(c) ==
    /\ call[c].at = "open-cut"
    /\ \E i \in call[c].todo :
          /\ checkout' = [checkout EXCEPT ![i] = StartOf(i)]
          /\ branch' = [branch EXCEPT ![i] = StartOf(i)]
          /\ call' = [call EXCEPT ![c].at = "open-record", ![c].issue = i,
                                  ![c].todo = @ \ {i}]
    /\ UNCHANGED <<store, base, fresh, round, landed>>

OpenRecord(c) ==
    /\ call[c].at = "open-record"
    /\ AddPullRequest(call[c].issue)
    /\ call' = [call EXCEPT ![c] =
                   IF @.todo = {} THEN IdleCall
                   ELSE [@ EXCEPT !.at = "open-cut", !.issue = NoIssue]]
    /\ UNCHANGED <<epic, git, round, landed>>

\* ReviewApprovedBranches, one approved record at a time.
SweepRead(c, p) ==
    /\ CanStart(c, "sweep")
    /\ pr[p].status = "Open" /\ pr[p].approved
    /\ issue[pr[p].issue] = "Pr"
    /\ call' = [call EXCEPT ![c].at = "sweep-inspect", ![c].pr = p,
                            ![c].seen = pr[p].reviewed]
    /\ UNCHANGED <<store, git, round, landed>>

\* What the fetch says: behind base, pushed to by somebody else, or neither.
SweepVerdict(head, reviewed) ==
    IF head = {} THEN "idle"
    ELSE IF ~(base \subseteq head) THEN "sweep-stale"
    ELSE IF head # reviewed THEN "sweep-push"
    ELSE "idle"

SweepInspect(c) ==
    LET at == SweepVerdict(branch[pr[call[c].pr].issue], call[c].seen)
    IN  /\ call[c].at = "sweep-inspect"
        /\ call' = [call EXCEPT ![c] = IF at = "idle" THEN IdleCall
                                       ELSE [@ EXCEPT !.at = at]]
        /\ UNCHANGED <<store, git, round, landed>>

SweepStale(c) ==
    /\ call[c].at = "sweep-stale"
    /\ MarkStale(call[c].pr)
    /\ call' = [call EXCEPT ![c] = IdleCall]
    /\ UNCHANGED <<epic, git, round, landed>>

SweepPush(c) ==
    LET p == call[c].pr
    IN  /\ call[c].at = "sweep-push"
        /\ pr' = [pr EXCEPT ![p] = RecordExternalPush(@)]
        /\ MoveIssue(pr[p].issue, "Review")
        /\ call' = [call EXCEPT ![c] = IdleCall]
        /\ UNCHANGED <<epic, git, round, landed>>

\* Mutant: an epic without an open record is taken for delivered.
CompleteReadIdle(c) ==
    /\ CanStart(c, "complete")
    /\ epic = "Ready"
    /\ \A p \in Records : pr[p].status # "Open"
    /\ call' = [call EXCEPT ![c].at = "complete"]
    /\ UNCHANGED <<store, git, round, landed>>

\* CompleteEpic reads whether everything landed, then applies Done.
CompleteRead(c) ==
    /\ CanStart(c, "complete")
    /\ epic = "Ready"
    /\ Delivered(issue)
    /\ call' = [call EXCEPT ![c].at = "complete"]
    /\ UNCHANGED <<store, git, round, landed>>

CompleteApply(c) ==
    /\ call[c].at = "complete"
    /\ epic \in EpicSources("done")
    /\ epic' = EpicTarget("done")
    /\ call' = [call EXCEPT ![c] = IdleCall]
    /\ UNCHANGED <<issue, pr, git, round, landed>>

\* TransitionPullRequest to Closed; the branch goes after the record.
ClosePullRequest(c, p) ==
    /\ CanStart(c, "close-pr")
    /\ TransitionPullRequest(p, "Closed")
    /\ call' = [call EXCEPT ![c].at = "delete", ![c].todo = {pr[p].issue}]
    /\ UNCHANGED <<epic, git, round, landed>>

Deleting(todo) ==
    IF todo = {} THEN IdleCall ELSE [IdleCall EXCEPT !.at = "delete", !.todo = todo]

CloseIssue(c, i) ==
    /\ CanStart(c, "close-issue")
    /\ CloseAll(Subtree[i])
    /\ call' = [call EXCEPT ![c] = Deleting(Abandoned(Subtree[i]))]
    /\ UNCHANGED <<epic, git, round, landed>>

\* Epic.Close closes the tree under the root with the epic.
CloseEpic(c) ==
    /\ CanStart(c, "close-epic")
    /\ epic \in EpicSources("close")
    /\ epic' = EpicTarget("close")
    /\ CloseAll(Issues)
    /\ call' = [call EXCEPT ![c] = Deleting(Abandoned(Issues))]
    /\ UNCHANGED <<git, round, landed>>

\* CodeWorkspace.DeleteBranch drops the remote branch and the working copy; one
\* that fails is reported and the next is tried.
DeleteBranch(c) ==
    /\ call[c].at = "delete"
    /\ \E i \in call[c].todo :
          /\ \/ /\ branch' = [branch EXCEPT ![i] = {}]
                /\ checkout' = [checkout EXCEPT ![i] = {}]
             \/ /\ "fail" \in Events
                /\ UNCHANGED <<branch, checkout>>
          /\ call' = [call EXCEPT ![c] = Deleting(call[c].todo \ {i})]
    /\ UNCHANGED <<store, base, fresh, round, landed>>

\* Mutant: the merge is recorded before it is published.
MergeReadFirst(c, p) ==
    /\ CanStart(c, "merge")
    /\ pr[p].status = "Open"
    /\ call' = [call EXCEPT ![c].at = "merge-record", ![c].pr = p]
    /\ UNCHANGED <<store, git, round, landed>>

\* MergePullRequest: an open record is all it asks for.
MergeRead(c, p) ==
    /\ CanStart(c, "merge")
    /\ pr[p].status = "Open"
    /\ call' = [call EXCEPT ![c].at = "merge-land", ![c].pr = p]
    /\ UNCHANGED <<store, git, round, landed>>

\* CodeWorkspace.Merge: base is fast-forwarded to the remote head, or a conflict.
MergeLand(c) ==
    LET p == call[c].pr
        head == branch[pr[p].issue]
    IN  /\ call[c].at = "merge-land"
        /\ head # {}
        /\ IF base \subseteq head
           THEN /\ base' = head
                /\ landed' = [landed EXCEPT ![p] = head]
                /\ call' = [call EXCEPT ![c].at = "merge-record"]
           ELSE /\ call' = [call EXCEPT ![c].at = "merge-stale"]
                /\ UNCHANGED <<base, landed>>
        /\ UNCHANGED <<store, branch, checkout, fresh, round>>

MergeRecord(c) ==
    LET p == call[c].pr
    IN  /\ call[c].at = "merge-record"
        /\ TransitionPullRequest(p, "Merged")
        /\ call' = [call EXCEPT ![c] = Deleting({pr[p].issue})]
        /\ UNCHANGED <<epic, git, round, landed>>

MergeStale(c) ==
    /\ call[c].at = "merge-stale"
    /\ MarkStale(call[c].pr)
    /\ call' = [call EXCEPT ![c] = IdleCall]
    /\ UNCHANGED <<epic, git, round, landed>>

\* ResetIssue: cancel what runs on the issue and wait for it, delete the branch
\* and the working copy, then close the record.  A round has a live run record
\* from the start of its sandbox to its last write.
ResetRead(c, p) ==
    /\ CanStart(c, "reset")
    /\ pr[p].status = "Open"
    /\ call' = [call EXCEPT ![c].at = "reset-drain", ![c].pr = p]
    /\ UNCHANGED <<store, git, round, landed>>

HasLiveRun(i) == round[i].at \in {"working", "published"}

ResetDrained(c) ==
    /\ call[c].at = "reset-drain"
    /\ ~HasLiveRun(pr[call[c].pr].issue)
    /\ call' = [call EXCEPT ![c].at = "reset-delete"]
    /\ UNCHANGED <<store, git, round, landed>>

ResetDelete(c) ==
    LET i == pr[call[c].pr].issue
    IN  /\ call[c].at = "reset-delete"
        /\ branch' = [branch EXCEPT ![i] = {}]
        /\ checkout' = [checkout EXCEPT ![i] = {}]
        /\ call' = [call EXCEPT ![c].at = "reset-close"]
        /\ UNCHANGED <<store, base, fresh, round, landed>>

ResetClose(c) ==
    /\ call[c].at = "reset-close"
    /\ TransitionPullRequest(call[c].pr, "Closed")
    /\ call' = [call EXCEPT ![c] = IdleCall]
    /\ UNCHANGED <<epic, git, round, landed>>

\* A call that meets an error, or whose update is dropped, ends where it is.
CallFail(c) ==
    /\ "fail" \in Events
    /\ call[c].at # "idle"
    /\ call' = [call EXCEPT ![c] = IdleCall]
    /\ UNCHANGED <<store, git, round, landed>>

CallStart(c) ==
    \/ OpenRead(c) \/ CompleteRead(c) \/ CloseEpic(c)
    \/ \E i \in Issues : Dispatch(c, i) \/ CloseIssue(c, i)
    \/ \E p \in Records :
          SweepRead(c, p) \/ ClosePullRequest(c, p) \/ MergeRead(c, p) \/ ResetRead(c, p)

CallStep(c) ==
    \/ OpenCut(c) \/ OpenRecord(c)
    \/ SweepInspect(c) \/ SweepStale(c) \/ SweepPush(c)
    \/ CompleteApply(c) \/ DeleteBranch(c)
    \/ MergeLand(c) \/ MergeRecord(c) \/ MergeStale(c)
    \/ ResetDrained(c) \/ ResetDelete(c) \/ ResetClose(c)
-----------------------------------------------------------------------------
(* One-step requests of a person, and what happens outside donsy.           *)

Grant(p) ==
    /\ "grant" \in Events
    /\ pr[p].status = "Open"
    /\ ~CanCode(pr[p])
    /\ pr' = [pr EXCEPT ![p] = GrantCodingRound(@)]
    /\ UNCHANGED <<epic, issue, git, round, call, landed>>

\* A record made by hand; its head is taken to be the issue's branch.
CreatePullRequest(i) ==
    /\ "create" \in Events
    /\ AddPullRequest(i)
    /\ UNCHANGED <<epic, git, round, call, landed>>

\* The state a person picks for the epic, Closed included.
TransitionEpic(next) ==
    /\ "transition" \in Events
    /\ EpicMayMoveTo(epic, next)
    /\ epic' = next
    /\ UNCHANGED <<issue, pr, git, round, call, landed>>

\* Somebody commits to the branch, perhaps after merging base into it.
HandPush(i) ==
    /\ "hand-push" \in Events
    /\ branch[i] # {}
    /\ fresh <= MaxCommits
    /\ \E merged \in {{}, base} :
          branch' = [branch EXCEPT ![i] = @ \cup merged \cup {fresh}]
    /\ fresh' = fresh + 1
    /\ UNCHANGED <<store, checkout, base, round, call, landed>>

\* Somebody commits to the default branch.
BaseMoves ==
    /\ "base-moves" \in Events
    /\ fresh <= MaxCommits
    /\ base' = base \cup {fresh}
    /\ fresh' = fresh + 1
    /\ UNCHANGED <<store, branch, checkout, round, call, landed>>

\* The daemon dies and starts again: what was in memory is gone.
Crash ==
    /\ "crash" \in Events
    /\ round' = [i \in Issues |-> IdleRound]
    /\ call' = [c \in Callers |-> IdleCall]
    /\ UNCHANGED <<store, git, landed>>

Outside ==
    \/ \E p \in Records : Grant(p)
    \/ \E i \in Issues : CreatePullRequest(i) \/ HandPush(i)
    \/ \E next \in EpicStates : TransitionEpic(next)
    \/ BaseMoves
    \/ Crash

Next ==
    \/ \E i \in Issues : RoundStep(i) \/ RoundFail(i)
    \/ \E c \in Callers : CallStart(c) \/ CallStep(c) \/ CallFail(c)
    \/ Outside

Spec == Init /\ [][Next]_vars
-----------------------------------------------------------------------------
(* What the loop promises.                                                  *)

\* The coder and the reviewer cannot disagree for ever: a record never spends
\* more coding rounds than the limit and what people granted on top of it,
\* although the round that spends one started from a copy of the epic read long
\* before (PullRequest.CanCode, EpicWorker.inflight).
CodingRationed ==
    \A p \in Records : pr[p].coding <= MaxCodingRounds + pr[p].granted

\* A verdict is dropped by everything that changes the branch after it: an
\* approved record has no unjudged round, and names the commits it approves.
VerdictCoversRounds ==
    \A p \in Records :
        pr[p].approved => pr[p].reviews = pr[p].rounds /\ pr[p].reviewed # {}

\* A record the loop has given up on says so, and one that says so has really
\* been given up on: FlagRoundLimit against the counters it is computed from.
RoundLimitFlagHonest ==
    \A p \in Records :
        LET r == pr[p]
        IN  /\ r.limit => ~CanCode(r)
            /\ r.status = "Open" /\ RoleOf(p) = "none" /\ epic = "Ready"
                  /\ ~r.approved /\ ~Blocked(issue, Waits, r.issue) => r.limit

\* An issue is in Pr only while an open record of it holds an approval, whatever
\* rounds of closed records are still running.
PrIsApproved ==
    \A i \in Issues : issue[i] = "Pr" => \E p \in OpenRecords(i) : pr[p].approved

\* What a person sees in Pr is what was judged: without pushes by hand the branch
\* is exactly the reviewed head, unless it is being deleted.
ApprovalMatchesBranch ==
    \A i \in Issues : \A p \in OpenRecords(i) :
        issue[i] = "Pr" /\ pr[p].approved => branch[i] \in {pr[p].reviewed, {}}

\* No merge is on record whose commits are not on the default branch
\* (MergePullRequest publishes before it writes).
MergedLanded ==
    \A p \in Records :
        pr[p].status = "Merged" => landed[p] # {} /\ landed[p] \subseteq base

\* An issue's branch is cut only after what it waits on is settled, from a
\* default branch that already contains that work, and keeps containing it.
CutFromDeliveredWork ==
    \A i \in Issues : branch[i] # {} =>
        \A j \in Waits[i] :
            /\ issue[j] \in SettledStates
            /\ \A p \in Records :
                  pr[p].issue = j /\ pr[p].status = "Merged" => landed[p] \subseteq branch[i]

\* The working copy stays under the round that uses it: nothing else checks the
\* branch out again while the record of the round is open, so a verdict is about
\* the head the reviewer was given.
WorkingCopyHeld ==
    \A i \in Issues :
        round[i].at = "working" /\ pr[round[i].pr].status = "Open"
            => checkout[i] \in {round[i].head, {}}

\* An issue in one of the loop's phases has a record some round can pick up.
PhaseHasRecord ==
    \A i \in Issues :
        issue[i] \notin SettledStates \cup {"Open"} => OpenRecords(i) # {}

\* CompleteEpic applies Done on a read that may be old; the epic is delivered
\* all the same, because no settled issue ever moves again.
DoneIsDelivered == epic = "Done" => Delivered(issue)

\* No round, sweep or close that was under way moves a settled issue.
SettledForever ==
    [][\A i \in Issues : issue[i] \in SettledStates => issue'[i] = issue[i]]_vars

\* A failed or crashed round never loses a commit that was counted, and nobody
\* else's push is overwritten: a branch only ever gains commits or is deleted.
BranchOnlyGrows ==
    [][\A i \in Issues : branch'[i] = {} \/ branch[i] \subseteq branch'[i]]_vars
-----------------------------------------------------------------------------
(* What the source claims and the code does not keep.                       *)

\* epic_progress.go: "An issue has at most one at a time".
OneOpenRecord ==
    \A p, q \in Records :
        pr[p].status = "Open" /\ pr[q].status = "Open" /\ pr[p].issue = pr[q].issue
            => p = q

\* open_pull_requests.go: "a record always points at a branch that exists".
RecordHasBranch ==
    \A p \in Records : pr[p].status = "Open" => branch[pr[p].issue] # {}

\* pull_request_flag.go: stale is a "branch [that] no longer contains its base",
\* and "The merge role clears it".
ClearingStaleCatchesUp ==
    [][\A p \in Records : pr[p].stale /\ ~pr'[p].stale =>
            base \subseteq branch[pr[p].issue]]_vars

\* merge_pull_request.go: a record "that is already closed or merged" is not
\* merged again.  What closes it between a merge's read and its push is the import
\* of a refined tree, which Duties gives to a caller of its own.
OnlyOpenRecordsLand ==
    [][\A p \in Records : landed'[p] # landed[p] => pr[p].status = "Open"]_vars

\* reset_issue.go: a reset makes the issue "eligible for a clean new branch".
ResetIsClean ==
    [][\A c \in Callers :
            call[c].at = "reset-close" /\ pr[call[c].pr].status = "Open"
               /\ pr'[call[c].pr].status = "Closed"
            => branch[pr[call[c].pr].issue] = {}]_vars
-----------------------------------------------------------------------------
(* Progress.  The worker ticks for as long as the daemon runs and retries a  *)
(* failed round for ever, so its own steps are weakly fair; that a step       *)
(* retried without end succeeds in the end is assumed of the host, the remote *)
(* and the agent, and is the strong fairness.                                 *)

Fairness ==
    /\ \A c \in Callers :
          /\ WF_vars(OpenRead(c)) /\ SF_vars(OpenCut(c)) /\ SF_vars(OpenRecord(c))
          /\ \A i \in Issues : WF_vars(Dispatch(c, i))
    /\ \A i \in Issues :
          /\ SF_vars(RoundRead(i)) /\ WF_vars(RoundStop(i))
          /\ SF_vars(RoundCheckout(i)) /\ SF_vars(RoundPublish(i))
          /\ SF_vars(RoundRecord(i))
          /\ SF_vars(\E approved \in BOOLEAN : RoundReview(i, approved))

FairSpec == Spec /\ Fairness

\* The volley between coder and reviewer ends, in an approval or at the limit,
\* and with one of the two on the record for a person to see.
VolleyEnds ==
    \A i \in Issues : issue[i] = "Open" /\ Waits[i] = {} ~>
        [](\E p \in OpenRecords(i) :
              pr[p].approved \/ (pr[p].limit /\ pr[p].reviews = pr[p].rounds))
=============================================================================
