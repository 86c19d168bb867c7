------------------------------- MODULE Drafting -------------------------------
(***************************************************************************)
(* The drafting half of donsy: one epic between Concept and Proposed, the  *)
(* rounds in which a refiner writes its issue tree and a reviewer judges   *)
(* it, the run records those rounds leave, and the person who edits, moves *)
(* and cancels meanwhile.                                                  *)
(*                                                                         *)
(* A round is one goroutine (round); it reads the epic once and works from *)
(* that copy until the update that lands its outcome, which the store      *)
(* applies to the epic as it is by then.  The registry of runs is another  *)
(* store, written in steps of their own, and RunSupervisor is the part of  *)
(* round that a cancel reaches: it knows exactly the run in flight.        *)
(***************************************************************************)
EXTENDS EpicDomain, AgentDomain, FiniteSets

CONSTANTS
    Issues,             \* the issues below the root, made or not
    MaxRounds,          \* the limit of both roles: roundLimit(profile)
    MaxDraftingPasses,  \* refine-review cycles before the tree is proposed anyway
    MaxRuns,            \* bound: run records ever made
    MaxEvents           \* bound: what persons, the host and crashes may still do

ASSUME DraftingLimits ==
    /\ MaxRounds \in Nat \ {0}
    /\ MaxDraftingPasses \in Nat \ {0}
    /\ MaxRuns \in Nat
    /\ MaxEvents \in Nat

VARIABLES
    epic,       \* state of the epic
    passes,     \* Epic.DraftingPasses
    issue,      \* issue[i]: "Absent", "Open" (any unsettled state) or "Closed"
    run,        \* run[r]: the r-th run record made
    round,      \* the round in flight on the epic
    cancel,     \* the run a CancelAgentRun in progress has read, or 0
    recovered,  \* EpicWorker.recovered: the first tick of this process has been
    events,     \* how many more outside events there may be
    landed      \* history: landed[r] is where run r's outcome moved the epic

tree == <<epic, passes, issue>>
vars == <<tree, run, round, cancel, recovered, events, landed>>

Runs == 1..MaxRuns

IdleRound == [at |-> "idle", role |-> "none", seen |-> "Concept", known |-> {},
              next |-> 0, orphans |-> {}, run |-> 0, cancelled |-> FALSE]

RoundSteps == {"idle", "dispatched", "read", "listed", "reaped", "booting",
               "working", "completed"}

DraftingRoles == {"refiner", "issue-reviewer"}

Round == [at : RoundSteps, role : DraftingRoles \cup {"none"}, seen : EpicStates,
          known : SUBSET Issues, next : Nat, orphans : SUBSET Runs,
          run : {0} \cup Runs, cancelled : BOOLEAN]

Run == [role : DraftingRoles \cup {"none"}, status : RunStatuses, number : Nat]

TypeOK ==
    /\ epic \in EpicStates
    /\ passes \in Nat
    /\ issue \in [Issues -> {"Absent", "Open", "Closed"}]
    /\ run \in [Runs -> Run]
    /\ round \in Round
    /\ round.at = "idle" <=> round.role = "none"
    /\ round.at \in {"booting", "working", "completed"} <=> round.run # 0
    /\ cancel \in {0} \cup Runs
    /\ recovered \in BOOLEAN
    /\ events \in 0..MaxEvents
    /\ landed \in [Runs -> EpicStates \cup {"none"}]

\* A person has written an epic, which has only its root issue.
Init ==
    /\ epic = "Concept"
    /\ passes = 0
    /\ issue = [i \in Issues |-> "Absent"]
    /\ run = [r \in Runs |-> NoRun]
    /\ round = IdleRound
    /\ cancel = 0
    /\ recovered = FALSE
    /\ events = MaxEvents
    /\ landed = [r \in Runs |-> "none"]

-----------------------------------------------------------------------------
(* Helpers *)

Planned == {i \in Issues : issue[i] = "Open"}

LiveRuns == {r \in Runs : run[r].status \in LiveStatuses}

\* Epic.Apply inside an update: refused where the event is not legal.
ApplyEpic(event) == epic \in EpicSources(event) /\ epic' = EpicTarget(event)

\* AgentRun.Apply on a copy whose status is known to be live, then the save that
\* overwrites whatever the record holds.
SaveRun(r, status) == run' = [run EXCEPT ![r].status = status]

\* The round's own run ends; one that somebody cancelled ends Cancelled.
EndRun(status) ==
    /\ SaveRun(round.run, IF round.cancelled THEN "Cancelled" ELSE status)
    /\ round' = IdleRound

\* One more of the bounded outside events.
Spend == events > 0 /\ events' = events - 1

-----------------------------------------------------------------------------
(* The worker *)

\* The first tick of a process stalls whatever a crash left live.  It counts as
\* done even when the registry could not be read.
Recover ==
    /\ ~recovered
    /\ recovered' = TRUE
    /\ \/ run' = [r \in Runs |->
                    IF r \in LiveRuns THEN [run[r] EXCEPT !.status = "Stalled"] ELSE run[r]]
       \/ UNCHANGED run
    /\ UNCHANGED <<tree, round, cancel, events, landed>>

\* Mutant: an epic interrupted while it is refined has no role.
DispatchFromRest ==
    /\ recovered
    /\ round.at = "idle"
    /\ EpicRole(epic) # "none"
    /\ epic # "Refine"
    /\ round' = [IdleRound EXCEPT !.at = "dispatched", !.role = EpicRole(epic)]
    /\ UNCHANGED <<tree, run, cancel, recovered, events, landed>>

\* One round per epic: round is the worker's in-flight entry.
Dispatch ==
    /\ recovered
    /\ round.at = "idle"
    /\ EpicRole(epic) # "none"
    /\ round' = [IdleRound EXCEPT !.at = "dispatched", !.role = EpicRole(epic)]
    /\ UNCHANGED <<tree, run, cancel, recovered, events, landed>>

-----------------------------------------------------------------------------
(* The round, up to its sandbox.                                            *)

\* The round reads the epic for itself; the sandbox was specified for the role
\* it was dispatched with.
RoundRead ==
    /\ round.at = "dispatched"
    /\ EpicRole(epic) = round.role
    /\ round' = [round EXCEPT !.at = "read", !.seen = epic, !.known = Planned]
    /\ UNCHANGED <<tree, run, cancel, recovered, events, landed>>

RoundList ==
    /\ round.at = "read"
    /\ round' = [round EXCEPT !.at = "listed", !.next = NextRound(run),
                              !.orphans = LiveRuns]
    /\ UNCHANGED <<tree, run, cancel, recovered, events, landed>>

\* Mutant: what a dead process left running is left alone.
RoundReapNothing ==
    /\ round.at = "listed"
    /\ round' = [round EXCEPT !.at = "reaped", !.orphans = {}]
    /\ UNCHANGED <<tree, run, cancel, recovered, events, landed>>

\* reapOrphaned: a live run of an epic whose round has only just started was left
\* by a process that is gone.  Written from the list, whatever happened since.
RoundReap ==
    /\ round.at = "listed"
    /\ run' = [r \in Runs |-> IF r \in round.orphans
                              THEN [run[r] EXCEPT !.status = "Stalled"] ELSE run[r]]
    /\ round' = [round EXCEPT !.at = "reaped", !.orphans = {}]
    /\ UNCHANGED <<tree, cancel, recovered, events, landed>>

\* The epic is committed to Refine before its run exists.
StillToRefine == round.role = "refiner" /\ round.seen # "Refine"

RoundRefine ==
    /\ round.at = "reaped"
    /\ StillToRefine
    /\ ApplyEpic("refine")
    /\ round' = [round EXCEPT !.seen = "Refine"]
    /\ UNCHANGED <<passes, issue, run, cancel, recovered, events, landed>>

OutOfRounds == round.next > MaxRounds

\* failEpicForRoundLimit, on the epic as it is by now.
RoundGiveUp ==
    /\ round.at = "reaped"
    /\ ~StillToRefine
    /\ OutOfRounds
    /\ ApplyEpic("fail")
    /\ round' = IdleRound
    /\ UNCHANGED <<passes, issue, run, cancel, recovered, events, landed>>

\* The role is no longer the one dispatched, or a person moved the epic to where
\* the update is not legal.
RoundRefused ==
    /\ \/ round.at = "dispatched" /\ EpicRole(epic) # round.role
       \/ /\ round.at = "reaped" /\ StillToRefine
          /\ epic \notin EpicSources("refine")
       \/ /\ round.at = "reaped" /\ ~StillToRefine /\ OutOfRounds
          /\ epic \notin EpicSources("fail")
    /\ round' = IdleRound
    /\ UNCHANGED <<tree, run, cancel, recovered, events, landed>>

\* The host has no room for the sandbox, or staging its mounts failed.
RoundTurnedAway ==
    /\ round.at = "reaped"
    /\ ~StillToRefine
    /\ ~OutOfRounds
    /\ round' = IdleRound
    /\ UNCHANGED <<tree, run, cancel, recovered, events, landed>>
-----------------------------------------------------------------------------
(* The round, from its run record to its outcome.                           *)

IsNextRun(r) == run[r].status = "Absent" /\ \A q \in Runs : q < r => run[q].status # "Absent"

\* Queued and Admitted are saved one after the other, with nothing of the round
\* between them that anybody could see.  The supervisor knows the run from here
\* to IdleRound.
RoundBegin ==
    /\ round.at = "reaped"
    /\ ~StillToRefine
    /\ ~OutOfRounds
    /\ \E r \in Runs :
          /\ IsNextRun(r)
          /\ run' = [run EXCEPT ![r] = [role |-> round.role, status |-> "Admitted",
                                        number |-> round.next]]
          /\ round' = [round EXCEPT !.at = "booting", !.run = r]
    /\ UNCHANGED <<tree, cancel, recovered, events, landed>>

RoundStart ==
    /\ round.at = "booting"
    /\ SaveRun(round.run, "Running")
    /\ round' = [round EXCEPT !.at = "working"]
    /\ UNCHANGED <<tree, cancel, recovered, events, landed>>

\* Mutant: the sandbox is stopped only after the outcome has landed.
RoundHostFailLate ==
    /\ round.at \in {"booting", "working", "completed"}
    /\ IF round.cancelled THEN UNCHANGED events ELSE Spend
    /\ EndRun("HostFailed")
    /\ UNCHANGED <<tree, cancel, recovered, landed>>

\* Building, starting or stopping the sandbox failed, a guard stopped the agent,
\* or it died: a fault of the host, unless somebody cancelled the run.
RoundHostFail ==
    /\ round.at \in {"booting", "working"}
    /\ IF round.cancelled THEN UNCHANGED events ELSE Spend
    /\ EndRun("HostFailed")
    /\ UNCHANGED <<tree, cancel, recovered, landed>>

\* The agent had its turn and what it left cannot be used, or the epic is no
\* longer where its outcome is legal.
RoundFail ==
    /\ round.at = "working"
    /\ EndRun("Failed")
    /\ UNCHANGED <<tree, cancel, recovered, events, landed>>

\* IssueTreeStore.Read against the epic as it is now: an issue the tree still has
\* keeps the state it has now, one it has not is closed, a file without a known
\* identifier is a new issue.  hasPlannedWork refuses a tree with nothing open.
Import(kept, made) ==
    LET imported == [i \in Issues |->
                        IF i \in made THEN "Open"
                        ELSE IF issue[i] = "Open" /\ i \notin kept THEN "Closed"
                        ELSE issue[i]]
    IN  /\ \E i \in Issues : imported[i] = "Open"
        /\ issue' = imported

RoundRefined ==
    /\ round.at = "working"
    /\ round.role = "refiner"
    /\ \E kept \in SUBSET round.known, made \in SUBSET {i \in Issues : issue[i] = "Absent"} :
          Import(kept, made)
    /\ ApplyEpic("review")
    /\ landed' = [landed EXCEPT ![round.run] = epic']
    /\ round' = [round EXCEPT !.at = "completed"]
    /\ UNCHANGED <<passes, run, cancel, recovered, events>>

\* Past the last pass the tree is proposed whatever the verdict.
RecordDraftingPass(approved) ==
    /\ ApplyEpic(IF approved \/ passes + 1 >= MaxDraftingPasses THEN "propose" ELSE "request-changes")
    /\ passes' = passes + 1

RoundReviewed ==
    /\ round.at = "working"
    /\ round.role = "issue-reviewer"
    /\ \E approved \in BOOLEAN : RecordDraftingPass(approved)
    /\ landed' = [landed EXCEPT ![round.run] = epic']
    /\ round' = [round EXCEPT !.at = "completed"]
    /\ UNCHANGED <<issue, run, cancel, recovered, events>>

\* The outcome is in the tracker before the registry says so.  A cancel that came
\* too late is forgotten.
RoundSucceed ==
    /\ round.at = "completed"
    /\ SaveRun(round.run, "Succeeded")
    /\ round' = IdleRound
    /\ UNCHANGED <<tree, cancel, recovered, events, landed>>

-----------------------------------------------------------------------------
(* Persons, and crashes.                                                    *)

\* CancelAgentRun reads the run, finds it live, and only then asks the
\* supervisor for it.
CancelRead(r) ==
    /\ cancel = 0
    /\ r \in LiveRuns
    /\ Spend
    /\ cancel' = r
    /\ UNCHANGED <<tree, run, round, recovered, landed>>

\* The run in flight is signalled and records its own end.  Any other is taken
\* for a leftover and recorded from the copy that was read.
CancelAct ==
    /\ cancel # 0
    /\ IF cancel = round.run
       THEN round' = [round EXCEPT !.cancelled = TRUE] /\ UNCHANGED run
       ELSE SaveRun(cancel, "Cancelled") /\ UNCHANGED round
    /\ cancel' = 0
    /\ UNCHANGED <<tree, recovered, events, landed>>

TransitionEpicState(next) ==
    /\ next # epic
    /\ EpicMayMoveTo(epic, next)
    /\ Spend
    /\ epic' = next
    /\ UNCHANGED <<passes, issue, run, round, cancel, recovered, landed>>

CreateIssue(i) ==
    /\ issue[i] = "Absent"
    /\ Spend
    /\ issue' = [issue EXCEPT ![i] = "Open"]
    /\ UNCHANGED <<epic, passes, run, round, cancel, recovered, landed>>

CloseIssue(i) ==
    /\ issue[i] = "Open"
    /\ Spend
    /\ issue' = [issue EXCEPT ![i] = "Closed"]
    /\ UNCHANGED <<epic, passes, run, round, cancel, recovered, landed>>

\* The daemon dies and starts again: what was in memory is gone.
Crash ==
    /\ Spend
    /\ round' = IdleRound
    /\ cancel' = 0
    /\ recovered' = FALSE
    /\ UNCHANGED <<tree, run, landed>>

Worker == Recover \/ Dispatch

RoundStep ==
    \/ RoundRead \/ RoundList \/ RoundReap \/ RoundRefine \/ RoundGiveUp
    \/ RoundRefused \/ RoundBegin \/ RoundStart
    \/ RoundHostFail \/ RoundFail \/ RoundRefined \/ RoundReviewed \/ RoundSucceed

Person ==
    \/ \E r \in Runs : CancelRead(r)
    \/ CancelAct
    \/ \E next \in EpicStates : TransitionEpicState(next)
    \/ \E i \in Issues : CreateIssue(i) \/ CloseIssue(i)

Next == Worker \/ RoundStep \/ RoundTurnedAway \/ Person \/ Crash

Spec == Init /\ [][Next]_vars

\* The worker ticks for ever, a round's steps end (the runtime is bounded by
\* roundTimeout), and the host is not for ever full when a round asks for it.
FairSpec == Spec /\ WF_vars(Worker) /\ WF_vars(RoundStep) /\ SF_vars(RoundBegin)
-----------------------------------------------------------------------------
(* What drafting promises.                                                  *)

\* At most one run of the epic is live, and while a round is in flight it is that
\* round's, in the status the round left it in: nobody else ends it, and the
\* leftovers of a crash are ended before it begins (reapOrphaned, CancelAgentRun).
OneLiveRun ==
    /\ \A p, q \in LiveRuns : p = q
    /\ round.at = "booting" => run[round.run].status = "Admitted"
    /\ round.at \in {"working", "completed"} => run[round.run].status = "Running"

\* Attempts the agent got and nobody cancelled.
Spent == {r \in Runs : run[r].status \notin {"Absent", "HostFailed", "Cancelled"}}

\* Those attempts, over the life of the epic and through every reset, never
\* share a number, and no number is past the limit (nextRound,
\* CountsTowardRoundLimit).
AttemptsRationed ==
    /\ \A r \in Runs : run[r].number <= MaxRounds
    /\ \A p, q \in Spent : run[p].number = run[q].number => p = q

\* A run reports success only for an outcome that landed, and one that landed is
\* never blamed on the agent or the host, wherever the daemon dies (succeed).
OutcomeMatchesWork ==
    \A r \in Runs :
        /\ run[r].status = "Succeeded" => landed[r] # "none"
        /\ landed[r] # "none" => run[r].status \notin {"Absent", "Admitted", "Failed", "HostFailed"}

\* The loop fails an epic only when every number up to the limit was used by an
\* attempt that no fault of the host ended: it succeeded or failed, or was cancelled
\* or cut short by a restart, which spends it even if the agent had not begun.
FailsOnlyWhenSpent ==
    [][epic' = "Failed" /\ epic # "Failed" /\ round' # round =>
          \A n \in 1..MaxRounds :
              \E r \in Runs : run[r].number = n /\ run[r].status \notin {"Absent", "HostFailed"}]_vars

\* Left alone, drafting hands the epic back or gives up on it, also when a crash
\* interrupted it after it was committed to Refine.
DraftingEnds == EpicRole(epic) # "none" ~> EpicRole(epic) = "none"
-----------------------------------------------------------------------------
(* What the source claims and the code does not keep.                       *)

\* cancel_agent_run.go: "False means the run had already finished - a lost race".
OutcomeIsFinal ==
    [][\A r \in Runs : run[r].status \in Outcomes => run'[r].status = run[r].status]_vars
=============================================================================
