------------------------------- MODULE Worker -------------------------------
(***************************************************************************)
(* The scheduler (EpicWorker).  One goroutine, Run, ticks: it lists every   *)
(* project's epics, reconciles its sandboxes and hands each subject that    *)
(* has a role to a goroutine of its own.  Rounds answer on a buffered       *)
(* channel.  Everything else -- what is in flight, what is held back after  *)
(* failures -- belongs to Run alone and is only as true as what it heard.   *)
(* What a round does is IssueLoop and Drafting, what reconciliation does    *)
(* is Sandboxes; here they only take their time, fail, and come back.       *)
(***************************************************************************)
EXTENDS Integers, Sequences, FiniteSets

CONSTANTS
    Projects,
    Subjects,
    EpicSubjects,           \* those that are epics; the others are issues
    ProjectOf,
    maxConcurrentRounds,    \* slots, and the room of the results channel
    hostFailureBreaker,
    Work,                   \* bound: rounds each subject has to be given
    MaxEvents               \* bound: failures, rounds turned away, moves

NoProject == "no project"

ASSUME WorkerLimits ==
    /\ NoProject \notin Projects
    /\ IsFiniteSet(Subjects)
    /\ EpicSubjects \subseteq Subjects
    /\ ProjectOf \in [Subjects -> Projects]
    /\ maxConcurrentRounds \in Nat \ {0}
    /\ hostFailureBreaker \in Nat \ {0}
    /\ Work \in [Subjects -> Nat]
    /\ MaxEvents \in Nat

VARIABLES
    tick,       \* where Run is, and what this tick has read
    recovered,  \* the first tick has run
    inflight,   \* EpicWorker.inflight
    retries,    \* EpicWorker.retries
    slots,      \* tokens in the rounds channel
    results,    \* the results channel
    rounds,     \* rounds[s]: the goroutine of s
    left,       \* left[s]: rounds until no role is left for s
    cancelled,  \* Run's context
    events,     \* how many more failures and moves there may be
    sore,       \* history: s failed and has not been held since
    hostRow     \* history: rounds in a row the host failed s

scheduler == <<tick, recovered, inflight, retries>>
channels == <<slots, results>>
history == <<sore, hostRow>>
vars == <<scheduler, channels, rounds, left, cancelled, events, history>>

Errors == {"none", "plain", "host"}

Result == [subject : Subjects, err : Errors]

IdleTick(at) == [at |-> at, project |-> NoProject, todo |-> {}, recovering |-> FALSE,
                 ready |-> {}, spared |-> {}]

Tick == [at : {"drain", "projects", "reconcile", "dispatch", "select", "waiting", "returned"},
         project : Projects \cup {NoProject},
         todo : SUBSET Projects,
         recovering : BOOLEAN,
         ready : SUBSET Subjects,
         spared : SUBSET Subjects]

\* A subject without an entry in the map.
NoRetry == [hostFailures |-> 0, held |-> "no"]

NoRound == [at |-> "none", err |-> "none"]

TypeOK ==
    /\ tick \in Tick
    /\ tick.at \in {"reconcile", "dispatch"} <=> tick.project # NoProject
    /\ recovered \in BOOLEAN
    /\ inflight \in SUBSET Subjects
    /\ retries \in [Subjects -> [hostFailures : Nat, held : {"no", "backoff", "cooldown"}]]
    /\ slots \in Nat
    /\ results \in Seq(Result)
    /\ rounds \in [Subjects -> [at : {"none", "running", "sending"},
                                err : Errors]]
    /\ left \in [Subjects -> Nat]
    /\ cancelled \in BOOLEAN
    /\ events \in 0..MaxEvents
    /\ sore \in [Subjects -> BOOLEAN]
    /\ hostRow \in [Subjects -> Nat]

\* Run ticks before it first waits.
Init ==
    /\ tick = IdleTick("drain")
    /\ recovered = FALSE
    /\ inflight = {}
    /\ retries = [s \in Subjects |-> NoRetry]
    /\ slots = 0
    /\ results = <<>>
    /\ rounds = [s \in Subjects |-> NoRound]
    /\ left = Work
    /\ cancelled = FALSE
    /\ events = MaxEvents
    /\ sore = [s \in Subjects |-> FALSE]
    /\ hostRow = [s \in Subjects |-> 0]
-----------------------------------------------------------------------------
(* Helpers *)

In(p) == {s \in Subjects : ProjectOf[s] = p}

Spend == events > 0 /\ events' = events - 1

Idle == \A s \in Subjects : rounds[s].at = "none"

\* The hold a failed round arms.  How long it is -- doubled by every failure, up
\* to the cap -- is HoldOver's choice.
Booked(held, err) ==
    LET hostFailures == IF err = "host" THEN held.hostFailures + 1 ELSE 0
    IN [hostFailures |-> hostFailures,
        held |-> IF hostFailures >= hostFailureBreaker THEN "cooldown" ELSE "backoff"]

\* Mutant: a round that is drained is forgotten and its failure with it.
RecordForgets(result) ==
    /\ inflight' = inflight \ {result.subject}
    /\ UNCHANGED retries

\* Mutant: a round that failed stays in flight.
RecordGood(result) ==
    /\ inflight' = IF result.err = "none" THEN inflight \ {result.subject} ELSE inflight
    /\ retries' = [retries EXCEPT ![result.subject] =
                     IF result.err = "none" THEN NoRetry ELSE Booked(@, result.err)]

\* EpicWorker.record: the round is no longer in flight, and its outcome booked.
Record(result) ==
    /\ inflight' = inflight \ {result.subject}
    /\ retries' = [retries EXCEPT ![result.subject] =
                     IF result.err = "none" THEN NoRetry ELSE Booked(@, result.err)]

-----------------------------------------------------------------------------
(* Run *)

\* A result heard while waiting for the ticker.
Hear ==
    /\ tick.at = "select"
    /\ results # <<>>
    /\ Record(Head(results))
    /\ results' = Tail(results)
    /\ UNCHANGED <<tick, recovered, slots, rounds, left, cancelled, events, history>>

StartTick ==
    /\ tick.at = "select"
    /\ tick' = IdleTick("drain")
    /\ UNCHANGED <<recovered, inflight, retries, channels, rounds, left, cancelled, events,
                   history>>

Drain ==
    /\ tick.at = "drain"
    /\ results # <<>>
    /\ Record(Head(results))
    /\ results' = Tail(results)
    /\ UNCHANGED <<tick, recovered, slots, rounds, left, cancelled, events, history>>

\* Mutant: nothing records that recovery has been.
ListProjectsRecovering ==
    /\ tick.at = "drain"
    /\ results = <<>>
    /\ \/ /\ tick' = [IdleTick("projects") EXCEPT !.todo = Projects,
                                                  !.recovering = ~recovered]
          /\ UNCHANGED events
       \/ Spend /\ tick' = IdleTick("select")
    /\ UNCHANGED <<recovered, inflight, retries, channels, rounds, left, cancelled, history>>

\* projects.List, once the channel is empty.  The first tick that gets the list
\* recovers, whatever becomes of each project in it.
ListProjects ==
    /\ tick.at = "drain"
    /\ results = <<>>
    /\ \/ /\ tick' = [IdleTick("projects") EXCEPT !.todo = Projects,
                                                  !.recovering = ~recovered]
          /\ recovered' = TRUE
          /\ UNCHANGED events
       \/ Spend /\ tick' = IdleTick("select") /\ UNCHANGED recovered
    /\ UNCHANGED <<inflight, retries, channels, rounds, left, cancelled, history>>

\* The epics of a project and what reconciliation is called with; a project
\* whose epics cannot be read has no tick.
ReadEpics(p) ==
    /\ tick.at = "projects"
    /\ p \in tick.todo
    /\ \/ /\ tick' = [tick EXCEPT !.at = "reconcile", !.project = p, !.todo = @ \ {p},
                                  !.ready = {s \in In(p) : left[s] > 0},
                                  !.spared = inflight \cap In(p)]
          /\ UNCHANGED events
       \/ Spend /\ tick' = [tick EXCEPT !.todo = @ \ {p}]
    /\ UNCHANGED <<recovered, inflight, retries, channels, rounds, left, cancelled, history>>

\* Reconciliation is over: what it could not reconcile has no round this time.
\* An epic's role is the one listed, an issue's is read again.
Reconciled ==
    LET still == {s \in In(tick.project) :
                     IF s \in EpicSubjects THEN s \in tick.ready ELSE left[s] > 0}
    IN
    /\ tick.at = "reconcile"
    /\ \E unreconciled \in SUBSET tick.ready :
          /\ IF unreconciled = {} \/ cancelled THEN UNCHANGED events ELSE Spend
          /\ tick' = [tick EXCEPT !.at = "dispatch", !.ready = still \ unreconciled,
                                  !.spared = {}]
    /\ UNCHANGED <<recovered, inflight, retries, channels, rounds, left, cancelled, history>>

Free(s) == s \notin inflight /\ retries[s].held = "no"

\* Mutant: the scheduler does not mark the subject in flight.
StartUnmarked(s) ==
    /\ rounds' = [rounds EXCEPT ![s] = [at |-> "running", err |-> "none"]]
    /\ slots' = slots + 1
    /\ UNCHANGED inflight

Start(s) ==
    /\ rounds' = [rounds EXCEPT ![s] = [at |-> "running", err |-> "none"]]
    /\ slots' = slots + 1
    /\ inflight' = inflight \cup {s}

\* EpicWorker.dispatch.  A subject that is busy, held or past the ceiling waits
\* for another tick.
Dispatch(s) ==
    /\ tick.at = "dispatch"
    /\ s \in tick.ready
    /\ tick' = [tick EXCEPT !.ready = @ \ {s}]
    /\ IF Free(s) /\ slots < maxConcurrentRounds
       THEN Start(s)
       ELSE UNCHANGED <<rounds, slots, inflight>>
    /\ UNCHANGED <<recovered, retries, results, left, cancelled, events, history>>

ProjectDone ==
    /\ tick.at = "dispatch"
    /\ tick.ready = {}
    /\ tick' = [tick EXCEPT !.at = "projects", !.project = NoProject]
    /\ UNCHANGED <<recovered, inflight, retries, channels, rounds, left, cancelled, events,
                   history>>

TickDone ==
    /\ tick.at = "projects"
    /\ tick.todo = {}
    /\ tick' = IdleTick("select")
    /\ UNCHANGED <<recovered, inflight, retries, channels, rounds, left, cancelled, events,
                   history>>

Stop ==
    /\ tick.at = "select"
    /\ cancelled
    /\ tick' = IdleTick("waiting")
    /\ UNCHANGED <<recovered, inflight, retries, channels, rounds, left, cancelled, events,
                   history>>

\* running.Wait.
MayReturn == Idle

Return ==
    /\ tick.at = "waiting"
    /\ MayReturn
    /\ tick' = IdleTick("returned")
    /\ UNCHANGED <<recovered, inflight, retries, channels, rounds, left, cancelled, events,
                   history>>

RunStep ==
    \/ Hear \/ StartTick \/ Drain \/ ListProjects \/ Reconciled \/ ProjectDone \/ TickDone
    \/ Stop \/ Return
    \/ \E p \in Projects : ReadEpics(p)
    \/ \E s \in Subjects : Dispatch(s)

-----------------------------------------------------------------------------
(* A round's goroutine *)

\* hostFailed asks the run it was handed, and end has failed a copy of it.
HostError(status) == IF status = "HostFailed" THEN "host" ELSE "plain"

SlotsAfter(err) == slots - 1

\* How a round ends: with work done, with nothing left to do, turned away by a
\* full host, failed by the agent (or a panic, or a dead context), or failed by
\* the host while admitted or running.  Its slot is free before it answers.
RoundEnds(s) ==
    /\ rounds[s].at = "running"
    /\ \/ /\ left' = [left EXCEPT ![s] = IF @ > 0 THEN @ - 1 ELSE 0]
          /\ rounds' = [rounds EXCEPT ![s] = [at |-> "sending", err |-> "none"]]
          /\ sore' = [sore EXCEPT ![s] = FALSE]
          /\ hostRow' = [hostRow EXCEPT ![s] = 0]
          /\ UNCHANGED events
       \/ /\ Spend
          /\ rounds' = [rounds EXCEPT ![s] = [at |-> "sending", err |-> "none"]]
          /\ sore' = [sore EXCEPT ![s] = FALSE]
          /\ hostRow' = [hostRow EXCEPT ![s] = 0]
          /\ UNCHANGED left
       \/ /\ IF cancelled THEN UNCHANGED events ELSE Spend
          /\ rounds' = [rounds EXCEPT ![s] = [at |-> "sending", err |-> "plain"]]
          /\ sore' = [sore EXCEPT ![s] = TRUE]
          /\ hostRow' = [hostRow EXCEPT ![s] = 0]
          /\ UNCHANGED left
       \/ /\ Spend
          /\ \E status \in {"Admitted", "Running"} :
                rounds' = [rounds EXCEPT ![s] = [at |-> "sending", err |-> HostError(status)]]
          /\ sore' = [sore EXCEPT ![s] = TRUE]
          /\ hostRow' = [hostRow EXCEPT ![s] = @ + 1]
          /\ UNCHANGED left
    /\ slots' = SlotsAfter(rounds'[s].err)
    /\ UNCHANGED <<scheduler, results, cancelled>>

Send(s) ==
    /\ rounds[s].at = "sending"
    /\ Len(results) < maxConcurrentRounds
    /\ results' = Append(results, [subject |-> s, err |-> rounds[s].err])
    /\ rounds' = [rounds EXCEPT ![s] = NoRound]
    /\ UNCHANGED <<scheduler, slots, left, cancelled, events, history>>

\* Mutant: an unguarded send.
NobodyListensNever == FALSE

\* The context is done, and nobody may be listening any more.
NobodyListens == cancelled

Drop(s) ==
    /\ rounds[s].at = "sending"
    /\ NobodyListens
    /\ rounds' = [rounds EXCEPT ![s] = NoRound]
    /\ UNCHANGED <<scheduler, channels, left, cancelled, events, history>>

RoundStep(s) == RoundEnds(s) \/ Drop(s)

-----------------------------------------------------------------------------
(* Time and the world *)

HoldOver(s) ==
    /\ retries[s].held # "no"
    /\ retries' = [retries EXCEPT ![s].held = "no"]
    /\ sore' = [sore EXCEPT ![s] = FALSE]
    /\ UNCHANGED <<tick, recovered, inflight, channels, rounds, left, cancelled, events, hostRow>>

\* A person or another round takes the subject's role away.
Settle(s) ==
    /\ Spend
    /\ left[s] > 0
    /\ left' = [left EXCEPT ![s] = 0]
    /\ UNCHANGED <<scheduler, channels, rounds, cancelled, history>>

Cancel ==
    /\ ~cancelled
    /\ cancelled' = TRUE
    /\ UNCHANGED <<scheduler, channels, rounds, left, events, history>>

Next ==
    \/ RunStep
    \/ \E s \in Subjects : RoundStep(s) \/ Send(s) \/ HoldOver(s) \/ Settle(s)
    \/ Cancel

Spec == Init /\ [][Next]_vars

\* The ticker ticks and the tick's calls are bounded, rounds are cut off by their
\* timeout, senders queue, holds run out, and select picks among what is ready.
Fairness ==
    /\ WF_vars(RunStep)
    /\ SF_vars(Stop)
    /\ \A s \in Subjects : WF_vars(RoundStep(s)) /\ SF_vars(Send(s)) /\ WF_vars(HoldOver(s))

FairSpec == Spec /\ Fairness

-----------------------------------------------------------------------------
(* Properties *)

Pending(s) == {i \in 1..Len(results) : results[i].subject = s}

\* What Run believes in flight is what is: a round is in the map from before its
\* goroutine starts until its one result is heard, and no subject is lost in it.
InFlightHonest ==
    \A s \in Subjects :
        /\ rounds[s].at # "none" => s \in inflight /\ Pending(s) = {}
        /\ Pending(s) # {} => s \in inflight /\ Cardinality(Pending(s)) = 1
        /\ s \in inflight /\ ~cancelled => rounds[s].at # "none" \/ Pending(s) # {}

\* The ceiling holds, and a slot is taken exactly while a round runs.
SlotsHonest ==
    /\ slots = Cardinality({s \in Subjects : rounds[s].at = "running"})
    /\ slots <= maxConcurrentRounds

\* Reconciliation never works on a subject with a round it was not told of, and
\* a pass that stalls every live run meets none of this process.
ReconcileSpares ==
    tick.at = "reconcile" =>
        \A s \in In(tick.project) :
            rounds[s].at = "running" => s \in tick.spared /\ ~tick.recovering

\* No subject that failed runs again before a hold of it has run out, wherever
\* its result was heard.
FailureHolds ==
    [][\A s \in Subjects :
          rounds[s].at = "none" /\ rounds'[s].at = "running" => ~sore[s]]_vars

\* Run returns when no round is left that could write to a closed registry.
ReturnsQuiet == tick.at = "returned" => Idle

\* What has work is given its rounds, whatever else runs, fails or is held.
WorkGetsDone == <>(cancelled \/ \A s \in Subjects : left[s] = 0)

\* A shutdown ends, though nobody drains results any more.
ShutdownEnds == cancelled ~> tick.at = "returned"

\* epic_worker.go: "hostFailureBreaker trips a subject that the host has failed to
\* run this many times in a row".
BreakerTrips ==
    \A s \in Subjects :
        hostRow[s] >= hostFailureBreaker /\ s \notin inflight /\ retries[s].held # "no"
            => retries[s].held = "cooldown"
=============================================================================
