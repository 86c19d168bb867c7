----------------------------- MODULE EpicDomain -----------------------------
(***************************************************************************)
(* The epic aggregate of internal/domain/epic: the state machines of an    *)
(* epic, an issue and a pull request record, the counters and flags of a   *)
(* record, and IssueRole, the pure function that picks the next role.      *)
(* Everything here is an operator on values; the modules that extend this  *)
(* one hold the variables.                                                 *)
(*                                                                         *)
(* A commit is a number and a Git head is the SET of commits it contains,  *)
(* so "a is an ancestor of b" is a \subseteq b and the empty set is the    *)
(* head that does not exist (the empty string in ReviewedHead, a branch    *)
(* that is not on the remote).                                             *)
(***************************************************************************)
EXTENDS Integers

CONSTANT
    MaxCodingRounds     \* coding passes one pull request gets unasked

ASSUME MaxCodingRoundsIsPositive == MaxCodingRounds \in Nat \ {0}

-----------------------------------------------------------------------------
(* Epics *)

EpicStates == {"Concept", "Refine", "Review", "ChangesRequested", "Proposed",
               "Ready", "Done", "Closed", "Failed"}

EpicEvents == {"refine", "review", "request-changes", "propose", "ready",
               "done", "close", "fail", "reset"}

\* The states an event may be applied in, and the state it leads to.
EpicSources(event) ==
    CASE event = "refine"          -> {"Concept", "ChangesRequested"}
      [] event = "review"          -> {"Refine", "ChangesRequested"}
      [] event = "request-changes" -> {"Review", "Proposed", "Ready"}
      [] event = "propose"         -> {"Review"}
      [] event = "ready"           -> {"Proposed"}
      [] event = "done"            -> {"Ready"}
      [] event = "close"           -> EpicStates \ {"Closed"}
      [] event = "fail"            -> EpicStates \ {"Closed", "Failed"}
      [] event = "reset"           -> {"Failed"}

EpicTarget(event) ==
    CASE event = "refine"          -> "Refine"
      [] event = "review"          -> "Review"
      [] event = "request-changes" -> "ChangesRequested"
      [] event = "propose"         -> "Proposed"
      [] event = "ready"           -> "Ready"
      [] event = "done"            -> "Done"
      [] event = "close"           -> "Closed"
      [] event = "fail"            -> "Failed"
      [] event = "reset"           -> "Concept"

\* Epic.TransitionTo: the same state is a silent success, any other must be one
\* event away.
EpicMayMoveTo(state, next) ==
    \/ state = next
    \/ \E event \in EpicEvents :
            state \in EpicSources(event) /\ next = EpicTarget(event)

-----------------------------------------------------------------------------
(* Issues *)

IssueStates == {"Open", "Coding", "Review", "Pr", "Stale", "Merged", "Closed"}

\* Issue.settled: nothing moves an issue out of these.
SettledStates == {"Merged", "Closed"}

\* Mutant: an approval moves an issue whose code was never under review.
IssueSourcesLate(next) ==
    CASE next = "Open"   -> IssueStates \ SettledStates
      [] next = "Closed" -> IssueStates \ SettledStates
      [] next = "Coding" -> {"Open", "Review"}
      [] next = "Review" -> {"Coding", "Stale", "Pr"}
      [] next = "Pr"     -> {"Review", "Coding"}
      [] next = "Stale"  -> {"Pr"}
      [] next = "Merged" -> {"Pr"}

IssueSources(next) ==
    CASE next = "Open"   -> IssueStates \ SettledStates
      [] next = "Closed" -> IssueStates \ SettledStates
      [] next = "Coding" -> {"Open", "Review"}
      [] next = "Review" -> {"Coding", "Stale", "Pr"}
      [] next = "Pr"     -> {"Review"}
      [] next = "Stale"  -> {"Pr"}
      [] next = "Merged" -> {"Pr"}

\* Issue.TransitionTo: the same state is a silent success, even a settled one.
IssueMayMoveTo(state, next) == state = next \/ state \in IssueSources(next)

\* Mutant: an approved issue no longer holds up the ones that wait for it.
BlockedUntilApproved(issue, waits, i) ==
    \E j \in waits[i] : issue[j] \notin SettledStates \cup {"Pr"}

\* Epic.Blocked: an issue waits for its children and for what BlockedBy names.
\* waits is the union of the two, which a Ready epic no longer changes.
Blocked(issue, waits, i) == \E j \in waits[i] : issue[j] \notin SettledStates

\* Epic.Delivered over the non-root issues; an epic without one is not delivered.
Delivered(issue) ==
    /\ DOMAIN issue # {}
    /\ \A i \in DOMAIN issue : issue[i] \in SettledStates

-----------------------------------------------------------------------------
(* Pull request records.  "Absent" is an identifier no record was made for. *)

RecordStatuses == {"Absent", "Open", "Merged", "Closed"}

\* FlagRoundLimit and FlagStale are the flags a role or a person acts on.
NewRecord(i) ==
    [issue |-> i, status |-> "Open", rounds |-> 0, reviews |-> 0, coding |-> 0,
     granted |-> 0, approved |-> FALSE, reviewed |-> {}, limit |-> FALSE,
     stale |-> FALSE]

\* Mutant: one coding round too many.
CanCodeInclusive(r) == r.coding <= MaxCodingRounds + r.granted

CanCode(r) == r.coding < MaxCodingRounds + r.granted

InvalidateReview(r) == [r EXCEPT !.approved = FALSE, !.reviewed = {}]

\* Mutant: a coding round is a round like any other.
RecordCodingRoundUncounted(r) ==
    [InvalidateReview(r) EXCEPT !.rounds = @ + 1, !.limit = ~CanCode(r)]

RecordCodingRound(r) ==
    LET counted == [r EXCEPT !.rounds = @ + 1, !.coding = @ + 1]
    IN  [InvalidateReview(counted) EXCEPT !.limit = ~CanCode(counted)]

RecordMergeRound(r) ==
    [InvalidateReview(r) EXCEPT !.rounds = @ + 1, !.stale = FALSE]

\* Mutant: the approval survives a push by hand.
RecordExternalPushOnly(r) == [r EXCEPT !.rounds = @ + 1]

RecordExternalPush(r) == [InvalidateReview(r) EXCEPT !.rounds = @ + 1]

RecordReview(r, approved, head) ==
    [r EXCEPT !.reviews = r.rounds, !.approved = approved, !.reviewed = head,
              !.limit = ~approved /\ ~CanCode(r)]

\* Mutants: the flag outlives the grant; a grant is taken away instead of given.
GrantCodingRoundOnly(r) == [r EXCEPT !.granted = @ + 1]

GrantCodingRoundSpent(r) ==
    LET granted == [r EXCEPT !.granted = @ - 1]
    IN  [granted EXCEPT !.limit = ~CanCode(granted)]

GrantCodingRound(r) ==
    LET granted == [r EXCEPT !.granted = @ + 1]
    IN  [granted EXCEPT !.limit = ~CanCode(granted)]

-----------------------------------------------------------------------------
(* Roles *)

IssueRoles == {"coding", "pr-reviewer", "merge"}

\* What should run next for record r of a Ready epic, or "none".
IssueRole(epic, blocked, r) ==
    IF epic # "Ready" \/ r.status # "Open" \/ blocked THEN "none"
    ELSE IF r.stale THEN "merge"
    ELSE IF r.reviews < r.rounds THEN "pr-reviewer"
    ELSE IF ~r.approved /\ CanCode(r) THEN "coding"
    ELSE "none"

\* The role that advances an epic in its drafting half, or "none".
EpicRole(epic) ==
    CASE epic \in {"Concept", "ChangesRequested", "Refine"} -> "refiner"
      [] epic = "Review" -> "issue-reviewer"
      [] OTHER -> "none"
=============================================================================
