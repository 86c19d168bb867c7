------------------------------ MODULE Sandboxes ------------------------------
(***************************************************************************)
(* The machines rounds work on.  Every project has a virtual machine (a     *)
(* Colima profile), every subject a sandbox in it: a container, a line of   *)
(* the ledger naming it, and a record in the registry.  Three kinds of      *)
(* actor work on them: rounds, each a goroutine that reserves, ensures,     *)
(* starts and stops its own; the scheduler's tick, which reconciles records *)
(* with what is there, reclaims what nobody needs and stops a quiet host;   *)
(* and a person who resets an issue.  The daemon may die between any two    *)
(* steps, the machines outlive it.                                          *)
(***************************************************************************)
EXTENDS Integers, FiniteSets

CONSTANTS
    Projects,
    Sandboxes,      \* one per subject that rounds work on
    ProjectOf,      \* the project of each
    MaxHeld,        \* agent containers half of a profile's memory holds
    MaxProfiles,    \* profiles the share of the machine holds
    Rounds,         \* bound: how often each subject is dispatched
    MaxEvents       \* bound: what hosts, persons and crashes may do

NoOne == "no one"

ASSUME SandboxLimits ==
    /\ IsFiniteSet(Sandboxes)
    /\ NoOne \notin Sandboxes \cup Projects
    /\ ProjectOf \in [Sandboxes -> Projects]
    /\ MaxHeld \in Nat \ {0}
    /\ MaxProfiles \in Nat \ {0}
    /\ Rounds \in [Sandboxes -> Nat]
    /\ MaxEvents \in Nat

VARIABLES
    up,         \* up[p]: the profile's machine is running
    firewall,   \* firewall[p]: its egress rules are in the kernel
    prepared,   \* Client.prepared[p]: what this process believes of them
    lock,       \* lock[p]: who holds the profile's lock
    box,        \* box[s]: the container, as docker would report it
    ledger,     \* ledger[s]: a record file names the container
    reserved,   \* Client.reserved
    record,     \* record[s]: Sandbox.Status in the registry
    old,        \* old[s]: UpdatedAt is past idleAfter and maxRuntime
    run,        \* run[s]: the subject's last run record
    round,      \* round[s]: the goroutine working on s
    left,       \* left[s]: rounds the subject may still be given
    finished,   \* finished[s]: the subject is terminal
    tick,       \* the reconciliation in progress
    quiet,      \* quiet[p]: lastBusy and hostReleased
    recovered,  \* recovered[p]: the project's first tick of this process is over
    person,     \* a reset in progress
    events      \* how many more outside events there may be

hosts == <<up, firewall, prepared, lock>>
containers == <<box, ledger>>
registry == <<record, old, run>>
worker == <<tick, quiet, recovered>>
vars == <<hosts, containers, reserved, registry, round, left, finished, worker,
          person, events>>

RoundSteps == {"idle", "dispatched", "listed", "reserved", "booting", "pruning",
               "ensuring", "creating", "starting", "working"}

\* The steps at which a round has been handed its container.
Holding == {"starting", "working"}

\* The steps at which Ensure holds the profile's lock.
Locked == {"pruning", "ensuring", "creating"}

Round == [at : RoundSteps, listed : SUBSET Projects]
IdleRound == [at |-> "idle", listed |-> {}]

Tick == [at : {"idle", "scan", "delete"},
         project : Projects \cup {NoOne},
         todo : SUBSET Sandboxes,
         inflight : SUBSET Sandboxes,
         live : SUBSET Sandboxes,
         busy : BOOLEAN,
         unreconciled : SUBSET Sandboxes,
         sandbox : Sandboxes \cup {NoOne}]
IdleTick == [at |-> "idle", project |-> NoOne, todo |-> {}, inflight |-> {},
             live |-> {}, busy |-> FALSE, unreconciled |-> {}, sandbox |-> NoOne]

Person == [at : {"idle", "drained", "deleted"}, sandbox : Sandboxes \cup {NoOne}]
IdlePerson == [at |-> "idle", sandbox |-> NoOne]

TypeOK ==
    /\ up \in [Projects -> BOOLEAN]
    /\ firewall \in [Projects -> BOOLEAN]
    /\ prepared \in [Projects -> BOOLEAN]
    /\ lock \in [Projects -> Sandboxes \cup {NoOne}]
    /\ box \in [Sandboxes -> {"none", "stopped", "running", "dead"}]
    /\ ledger \in [Sandboxes -> BOOLEAN]
    /\ reserved \in SUBSET Sandboxes
    /\ record \in [Sandboxes -> {"Absent", "Stopped", "Running", "Broken"}]
    /\ old \in [Sandboxes -> BOOLEAN]
    /\ run \in [Sandboxes -> {"none", "live", "over"}]
    /\ round \in [Sandboxes -> Round]
    /\ left \in [Sandboxes -> Nat]
    /\ finished \in [Sandboxes -> BOOLEAN]
    /\ tick \in Tick
    /\ tick.at = "idle" <=> tick.project = NoOne
    /\ tick.at = "delete" <=> tick.sandbox # NoOne
    /\ quiet \in [Projects -> {"unseen", "busy", "quiet", "released"}]
    /\ recovered \in [Projects -> BOOLEAN]
    /\ person \in Person
    /\ person.at = "idle" <=> person.sandbox = NoOne
    /\ events \in 0..MaxEvents

\* A machine donsy has not worked on yet.
Init ==
    /\ up = [p \in Projects |-> FALSE]
    /\ firewall = up
    /\ prepared = up
    /\ lock = [p \in Projects |-> NoOne]
    /\ box = [s \in Sandboxes |-> "none"]
    /\ ledger = [s \in Sandboxes |-> FALSE]
    /\ reserved = {}
    /\ record = [s \in Sandboxes |-> "Absent"]
    /\ old = [s \in Sandboxes |-> FALSE]
    /\ run = [s \in Sandboxes |-> "none"]
    /\ round = [s \in Sandboxes |-> IdleRound]
    /\ left = Rounds
    /\ finished = [s \in Sandboxes |-> FALSE]
    /\ tick = IdleTick
    /\ quiet = [p \in Projects |-> "unseen"]
    /\ recovered = up
    /\ person = IdlePerson
    /\ events = MaxEvents

-----------------------------------------------------------------------------
(* Helpers *)

In(p) == {s \in Sandboxes : ProjectOf[s] = p}

InFlight(p) == {s \in In(p) : round[s].at # "idle"}

\* Subjects that may come to have a round ready.
Eligible(p) == {s \in In(p) : ~finished[s] /\ left[s] > 0}

Spend == events > 0 /\ events' = events - 1

\* Client.Inspect: the ledger decides whether there is anything to ask about,
\* and a machine that is down is never started to ask it.
Observed(s) ==
    IF ~ledger[s] \/ (up[ProjectOf[s]] /\ box[s] = "none") THEN "Absent"
    ELSE IF ~up[ProjectOf[s]] \/ box[s] = "stopped" THEN "Stopped"
    ELSE IF box[s] = "running" THEN "Running" ELSE "Broken"

\* SaveSandbox stamps UpdatedAt.
SaveSandbox(s, status) ==
    /\ record' = [record EXCEPT ![s] = status]
    /\ old' = [old EXCEPT ![s] = FALSE]

Advance(s, at) == round' = [round EXCEPT ![s].at = at]

\* The lock is given back when the round leaves Ensure.
Unlock(s) == lock' = [p \in Projects |-> IF lock[p] = s THEN NoOne ELSE lock[p]]

\* Mutant: a round that fails inside Ensure keeps the lock.
RoundOverLocked(s) ==
    /\ round' = [round EXCEPT ![s] = IdleRound]
    /\ reserved' = reserved \ {s}
    /\ UNCHANGED lock

\* The round returns: its reservation goes and the scheduler hears of it.
RoundOver(s) ==
    /\ round' = [round EXCEPT ![s] = IdleRound]
    /\ reserved' = reserved \ {s}
    /\ Unlock(s)

EndRun(s) == run' = [run EXCEPT ![s] = "over"]

-----------------------------------------------------------------------------
(* A round *)

\* reapOrphaned, and the listing of profiles Reserve makes before it locks.
RoundList(s) ==
    /\ round[s].at = "dispatched"
    /\ run' = [run EXCEPT ![s] = IF @ = "live" THEN "over" ELSE @]
    /\ round' = [round EXCEPT ![s] = [at |-> "listed", listed |-> {p \in Projects : up[p]}]]
    /\ UNCHANGED <<hosts, containers, reserved, record, old, left, finished, worker,
                   person, events>>

\* admitSandbox and admitProfile, against a listing and the reservations.
Admitted(s, listed) ==
    /\ s \notin reserved
    /\ Cardinality(reserved \cap In(ProjectOf[s])) < MaxHeld
    /\ \/ ProjectOf[s] \in listed
       \/ Cardinality((listed \cup {ProjectOf[r] : r \in reserved}) \ {ProjectOf[s]}) < MaxProfiles

\* Admission either reserves or sends the round home until a later tick.
RoundReserve(s) ==
    /\ round[s].at = "listed"
    /\ IF Admitted(s, round[s].listed)
       THEN reserved' = reserved \cup {s} /\ Advance(s, "reserved") /\ UNCHANGED lock
       ELSE RoundOver(s)
    /\ UNCHANGED <<up, firewall, prepared, containers, registry, left, finished, worker,
                   person, events>>

\* The checkout, the mounts and the run's first two saves.
RoundBegin(s) ==
    /\ round[s].at = "reserved"
    /\ \/ /\ Advance(s, "booting")
          /\ run' = [run EXCEPT ![s] = "live"]
          /\ UNCHANGED <<reserved, lock, events>>
       \/ Spend /\ RoundOver(s) /\ UNCHANGED run
    /\ UNCHANGED <<up, firewall, prepared, containers, record, old, left, finished,
                   worker, person>>

\* A round the host could not carry ends here, whatever it already has.
HostFail(s) ==
    /\ EndRun(s)
    /\ RoundOver(s)

\* Mutant: a machine prepared once in this process is not prepared again.
TrustedOnce(p) == prepared[p]

\* What this process knows of the rules: nothing, of a machine that is down.
Trusted(p) == up[p] /\ prepared[p]

\* startProfileLocked succeeds: the machine runs, behind its firewall.
Boots(p) ==
    /\ up' = [up EXCEPT ![p] = TRUE]
    /\ firewall' = [firewall EXCEPT ![p] = @ \/ ~Trusted(p)]
    /\ prepared' = [prepared EXCEPT ![p] = TRUE]

\* It fails: the machine does not start, or starts and cannot be prepared.
BootFails(p) ==
    \/ ~up[p] /\ UNCHANGED <<up, firewall, prepared>>
    \/ /\ ~Trusted(p)
       /\ up' = [up EXCEPT ![p] = TRUE]
       /\ prepared' = [prepared EXCEPT ![p] = FALSE]
       /\ UNCHANGED firewall

\* pruneOrphanContainers: what no record names goes.
Pruned(p) == [s \in Sandboxes |-> IF s \in In(p) /\ ~ledger[s] THEN "none" ELSE box[s]]

\* Ensure takes the profile's lock and brings the machine up.
RoundBoot(s) ==
    LET p == ProjectOf[s] IN
    /\ round[s].at = "booting"
    /\ lock[p] = NoOne
    /\ \/ /\ Boots(p)
          /\ lock' = [lock EXCEPT ![p] = s]
          /\ Advance(s, IF up[p] THEN "ensuring" ELSE "pruning")
          /\ UNCHANGED <<reserved, run, events>>
       \/ Spend /\ BootFails(p) /\ HostFail(s)
    /\ UNCHANGED <<containers, record, old, left, finished, worker, person>>

\* A machine that was just started is cleared before anything is made in it.
RoundPrune(s) ==
    LET p == ProjectOf[s] IN
    /\ round[s].at = "pruning"
    /\ \/ /\ up[p]
          /\ box' = Pruned(p)
          /\ Advance(s, "ensuring")
          /\ UNCHANGED <<lock, reserved, run, events>>
       \/ /\ \/ ~up[p] /\ UNCHANGED events
             \/ Spend
          /\ HostFail(s)
          /\ UNCHANGED box
    /\ UNCHANGED <<up, firewall, prepared, ledger, record, old, left, finished, worker, person>>

\* containerStatus, asked of docker by name: the ledger is not consulted.
Found(s) == box[s] # "none"

\* A container made from what the round asks for is used as it is; any other is
\* removed and the record written, before a new one is made.
RoundEnsure(s) ==
    LET p == ProjectOf[s] IN
    /\ round[s].at = "ensuring"
    /\ \/ /\ up[p]
          /\ Found(s)
          /\ Advance(s, "starting")
          /\ SaveSandbox(s, "Stopped")
          /\ Unlock(s)
          /\ UNCHANGED <<containers, reserved, run, events>>
       \/ /\ up[p]
          /\ box' = [box EXCEPT ![s] = "none"]
          /\ ledger' = [ledger EXCEPT ![s] = TRUE]
          /\ Advance(s, "creating")
          /\ UNCHANGED <<lock, reserved, registry, events>>
       \/ /\ \/ ~up[p] /\ UNCHANGED events
             \/ Spend
          /\ HostFail(s)
          /\ UNCHANGED <<containers, record, old>>
    /\ UNCHANGED <<up, firewall, prepared, left, finished, worker, person>>

\* docker create, and the record of a stopped sandbox.
RoundCreate(s) ==
    LET p == ProjectOf[s] IN
    /\ round[s].at = "creating"
    /\ \/ /\ up[p]
          /\ box' = [box EXCEPT ![s] = "stopped"]
          /\ Advance(s, "starting")
          /\ SaveSandbox(s, "Stopped")
          /\ Unlock(s)
          /\ UNCHANGED <<reserved, run, events>>
       \/ /\ \/ ~up[p] /\ UNCHANGED events
             \/ Spend
          /\ HostFail(s)
          /\ UNCHANGED <<box, record, old>>
    /\ UNCHANGED <<up, firewall, prepared, ledger, left, finished, worker, person>>

\* Start brings the machine up once more and starts the container unless it
\* runs.  One that starts but never becomes ready is left running; a save that
\* fails leaves the run live.
RoundStart(s) ==
    LET p == ProjectOf[s]
        there == IF up[p] THEN box ELSE Pruned(p)
        started == [there EXCEPT ![s] = "running"]
    IN
    /\ round[s].at = "starting"
    /\ lock[p] = NoOne
    /\ \/ /\ there[s] \in {"stopped", "running"}
          /\ Boots(p)
          /\ box' = started
          /\ SaveSandbox(s, "Running")
          /\ Advance(s, "working")
          /\ UNCHANGED <<lock, reserved, run, events>>
       \/ /\ there[s] \in {"none", "dead"}
          /\ Boots(p)
          /\ box' = there
          /\ HostFail(s)
          /\ UNCHANGED <<record, old, events>>
       \/ Spend /\ BootFails(p) /\ HostFail(s) /\ UNCHANGED <<box, record, old>>
       \/ /\ Spend
          /\ there[s] \in {"stopped", "running"}
          /\ Boots(p)
          /\ box' = started
          /\ RoundOver(s)
          /\ \/ EndRun(s) /\ UNCHANGED <<record, old>>
             \/ SaveSandbox(s, "Running") /\ UNCHANGED run
    /\ UNCHANGED <<ledger, left, finished, worker, person>>

\* The agent has finished or was cut off: the container is stopped whatever came
\* of it, and the run's outcome recorded.
RoundStop(s) ==
    LET p == ProjectOf[s] IN
    /\ round[s].at = "working"
    /\ \/ /\ box' = IF up[p] /\ box[s] = "running" THEN [box EXCEPT ![s] = "stopped"] ELSE box
          /\ SaveSandbox(s, "Stopped")
          /\ UNCHANGED events
       \/ Spend /\ SaveSandbox(s, "Broken") /\ UNCHANGED box
    /\ EndRun(s)
    /\ RoundOver(s)
    /\ UNCHANGED <<up, firewall, prepared, ledger, left, finished, worker, person>>

RoundStep(s) ==
    \/ RoundList(s) \/ RoundReserve(s) \/ RoundBegin(s) \/ RoundBoot(s) \/ RoundPrune(s)
    \/ RoundEnsure(s) \/ RoundCreate(s) \/ RoundStart(s) \/ RoundStop(s)

-----------------------------------------------------------------------------
(* The scheduler's tick *)

\* While subjects have work that is ready or running, only their sandboxes are
\* looked at.
ToReconcile(p, priority) == IF priority # {} THEN priority ELSE In(p)

\* What a tick is called with and reads first.  On the project's first tick no
\* run of this process can be live, so every live one is stalled.
TickStart(p) ==
    LET live == {s \in In(p) : run[s] = "live"} IN
    \E ready \in SUBSET Eligible(p) :
    LET priority == ready \cup {s \in InFlight(p) : ~finished[s]} IN
    /\ tick.at = "idle"
    /\ recovered' = [recovered EXCEPT ![p] = TRUE]
    /\ run' = [s \in Sandboxes |-> IF ~recovered[p] /\ s \in live THEN "over" ELSE run[s]]
    /\ tick' = [at |-> "scan", project |-> p,
                todo |-> ToReconcile(p, priority),
                inflight |-> InFlight(p),
                live |-> IF recovered[p] THEN live ELSE {},
                busy |-> priority # {},
                unreconciled |-> {},
                sandbox |-> NoOne]
    /\ UNCHANGED <<hosts, containers, reserved, record, old, round, left, finished, quiet,
                   person, events>>

\* The project's epics or runs cannot be read: it has no tick this time.
TickSkip(p) ==
    /\ tick.at = "idle"
    /\ Spend
    /\ recovered' = [recovered EXCEPT ![p] = TRUE]
    /\ UNCHANGED <<hosts, containers, reserved, registry, round, left, finished, tick,
                   quiet, person>>

\* Mutant: a live run claims its container however old it is.
UnownedByRuns(s) == s \notin tick.live \/ finished[s]

\* No live run claims it, or the one that does is overdue, or the work is over.
Unowned(s) == s \notin tick.live \/ old[s] \/ finished[s]

\* Mutant: a tick minds the run records and not the rounds in flight.
OffLimitsByRuns(s) == s \in tick.live

\* A sandbox whose round is running is left alone altogether.
OffLimits(s) == s \in tick.inflight

\* The status a pass leaves a sandbox with before it reclaims anything.
Settled(s) == IF Observed(s) = "Running" /\ Unowned(s) THEN "Stopped" ELSE Observed(s)

\* Client.StopNow and the runs that claimed the container.
ForceStop(s) ==
    IF Observed(s) = "Running" /\ Unowned(s)
    THEN /\ box' = [box EXCEPT ![s] = "stopped"]
         /\ run' = [run EXCEPT ![s] = IF s \in tick.live THEN "over" ELSE @]
    ELSE UNCHANGED <<box, run>>

\* Finished work goes at once, a broken sandbox so that it can be made again,
\* an idle one for its disk.  One that was stopped in this pass is not idle.
Reclaimable(s) ==
    \/ finished[s] /\ Settled(s) # "Absent"
    \/ Settled(s) = "Broken"
    \/ old[s] /\ Observed(s) = "Stopped"

Visited(s) == [tick EXCEPT !.todo = @ \ {s}]

\* One sandbox that needs no reclaiming.
TickRefresh(s) ==
    /\ tick.at = "scan" /\ s \in tick.todo /\ ~OffLimits(s)
    /\ ~Reclaimable(s)
    /\ ForceStop(s)
    /\ tick' = [Visited(s) EXCEPT !.busy = @ \/ Settled(s) = "Running"]
    /\ IF record[s] = Settled(s) /\ Settled(s) = Observed(s) /\ ~finished[s]
       THEN UNCHANGED <<record, old>>
       ELSE SaveSandbox(s, Settled(s))
    /\ UNCHANGED <<hosts, ledger, reserved, round, left, finished, quiet, recovered, person,
                   events>>

\* One to be reclaimed: Delete asks whether the machine runs, and removes the
\* container if it does.
TickDelete(s) ==
    /\ tick.at = "scan" /\ s \in tick.todo /\ ~OffLimits(s)
    /\ Reclaimable(s)
    /\ box' = [box EXCEPT ![s] =
                 IF up[ProjectOf[s]] THEN "none" ELSE @]
    /\ run' = [run EXCEPT ![s] =
                 IF Observed(s) = "Running" /\ s \in tick.live THEN "over" ELSE @]
    /\ tick' = [Visited(s) EXCEPT !.at = "delete", !.sandbox = s]
    /\ UNCHANGED <<hosts, ledger, reserved, record, old, round, left, finished, quiet,
                   recovered, person, events>>

\* The rest of Delete and of reclaim: the ledger's line goes, then the record.
TickForget ==
    /\ tick.at = "delete"
    /\ ledger' = [ledger EXCEPT ![tick.sandbox] = FALSE]
    /\ SaveSandbox(tick.sandbox, "Absent")
    /\ tick' = [tick EXCEPT !.at = "scan", !.sandbox = NoOne]
    /\ UNCHANGED <<hosts, box, reserved, run, round, left, finished, quiet, recovered,
                   person, events>>

TickPass(s) ==
    /\ tick.at = "scan" /\ s \in tick.todo /\ OffLimits(s)
    /\ tick' = Visited(s)
    /\ UNCHANGED <<hosts, containers, reserved, registry, round, left, finished, quiet,
                   recovered, person, events>>

\* Inspecting, stopping or deleting one sandbox fails; the pass goes on.
TickFail(s) ==
    /\ Spend
    /\ \/ tick.at = "scan" /\ s \in tick.todo /\ ~OffLimits(s)
       \/ tick.at = "delete" /\ s = tick.sandbox
    /\ tick' = [Visited(s) EXCEPT !.at = "scan", !.sandbox = NoOne,
                                  !.unreconciled = @ \cup {s}]
    /\ UNCHANGED <<hosts, containers, reserved, registry, round, left, finished, quiet,
                   recovered, person>>

\* ReapExpiredContainers: what has run or sat for too long goes.
Reaped(p) ==
    [s \in Sandboxes |->
        IF s \notin In(p) \/ ~up[p] \/ ~old[s] THEN box[s]
        ELSE IF box[s] = "running" THEN "stopped" ELSE "none"]

Busy == tick.busy \/ tick.inflight # {} \/ tick.unreconciled # {}

\* Mutant: quiet counts from the last time this process saw the project busy.
SeenQuietOnlyBusy(q) == q

\* A project this process has never looked at counts as busy now.
SeenQuiet(q) == IF q = "unseen" THEN "busy" ELSE q

StopMachine(p) ==
    /\ up' = [up EXCEPT ![p] = FALSE]
    /\ firewall' = [firewall EXCEPT ![p] = FALSE]

\* StopProfile asks docker itself whether anything runs.
Clear(p) == \A s \in In(p) : Reaped(p)[s] # "running"

\* Docker or colima fails on the way: some of the containers are gone, or all of
\* them are and the machine may have stopped with its client none the wiser.
ReleaseFails(p) ==
    /\ Spend
    /\ \/ /\ \E S \in SUBSET In(p) :
                box' = [s \in Sandboxes |-> IF s \in S THEN Reaped(p)[s] ELSE box[s]]
          /\ UNCHANGED <<up, firewall>>
       \/ /\ box' = Reaped(p)
          /\ up[p] /\ Clear(p) /\ StopMachine(p)
    /\ UNCHANGED <<prepared, quiet>>

\* releaseHost.  Rounds are dispatched whether or not it fails.
TickRelease ==
    LET p == tick.project IN
    /\ tick.at = "scan" /\ tick.todo = {}
    /\ \/ /\ Busy
          /\ quiet' = [quiet EXCEPT ![p] = "busy"]
          /\ UNCHANGED <<up, firewall, prepared, box, events>>
       \/ /\ ~Busy
          /\ quiet[p] # "quiet"
          /\ quiet' = [quiet EXCEPT ![p] = SeenQuiet(@)]
          /\ UNCHANGED <<up, firewall, prepared, box, events>>
       \/ /\ ~Busy
          /\ quiet[p] = "quiet"
          /\ box' = Reaped(p)
          /\ IF up[p] /\ Clear(p)
             THEN /\ StopMachine(p)
                  /\ prepared' = [prepared EXCEPT ![p] = FALSE]
                  /\ quiet' = [quiet EXCEPT ![p] = "released"]
             ELSE UNCHANGED <<up, firewall, prepared, quiet>>
          /\ UNCHANGED events
       \/ /\ ~Busy
          /\ quiet[p] = "quiet"
          /\ ReleaseFails(p)
    /\ \E S \in SUBSET (Eligible(p) \ (tick.unreconciled \cup tick.inflight)) :
          /\ round' = [s \in Sandboxes |->
                         IF s \in S THEN [IdleRound EXCEPT !.at = "dispatched"] ELSE round[s]]
          /\ left' = [s \in Sandboxes |-> IF s \in S THEN left[s] - 1 ELSE left[s]]
    /\ tick' = IdleTick
    /\ UNCHANGED <<lock, ledger, reserved, registry, finished, recovered, person>>

TickStep ==
    \/ \E s \in Sandboxes : TickRefresh(s) \/ TickDelete(s) \/ TickPass(s) \/ TickFail(s)
    \/ TickForget \/ TickRelease

-----------------------------------------------------------------------------
(* A person's reset of an issue *)

\* Its rounds are cancelled, and no live run of the subject is left.
PersonDrained(s) ==
    /\ person.at = "idle"
    /\ Spend
    /\ run[s] # "live"
    /\ record[s] # "Absent"
    /\ person' = [at |-> "drained", sandbox |-> s]
    /\ UNCHANGED <<hosts, containers, reserved, registry, round, left, finished, worker>>

PersonDelete ==
    /\ person.at = "drained"
    /\ box' = [box EXCEPT ![person.sandbox] =
                 IF up[ProjectOf[person.sandbox]] THEN "none" ELSE @]
    /\ person' = [person EXCEPT !.at = "deleted"]
    /\ UNCHANGED <<hosts, ledger, reserved, registry, round, left, finished, worker, events>>

PersonForget ==
    /\ person.at = "deleted"
    /\ ledger' = [ledger EXCEPT ![person.sandbox] = FALSE]
    /\ SaveSandbox(person.sandbox, "Absent")
    /\ run' = [run EXCEPT ![person.sandbox] = "none"]
    /\ person' = IdlePerson
    /\ UNCHANGED <<hosts, box, reserved, round, left, finished, worker, events>>

PersonStep == (\E s \in Sandboxes : PersonDrained(s)) \/ PersonDelete \/ PersonForget

-----------------------------------------------------------------------------
(* Time, the world and crashes *)

\* idleAfter and maxRuntime pass since the record was last stamped.
Ages(s) ==
    /\ ~old[s]
    /\ record[s] # "Absent" \/ box[s] # "none"
    /\ old' = [old EXCEPT ![s] = TRUE]
    /\ UNCHANGED <<hosts, containers, reserved, record, run, round, left, finished, worker,
                   person, events>>

\* hostIdleAfter passes since the project was last busy.
QuietGrows(p) ==
    /\ quiet[p] = "busy"
    /\ quiet' = [quiet EXCEPT ![p] = "quiet"]
    /\ UNCHANGED <<hosts, containers, reserved, registry, round, left, finished, tick,
                   recovered, person, events>>

\* The subject reaches a state no round follows.
Finishes(s) ==
    /\ Spend
    /\ ~finished[s]
    /\ finished' = [finished EXCEPT ![s] = TRUE]
    /\ UNCHANGED <<hosts, containers, reserved, registry, round, left, worker, person>>

\* Docker loses a container, or a machine goes down and its rules with it.
Dies(s) ==
    /\ Spend
    /\ box[s] # "none"
    /\ box' = [box EXCEPT ![s] = "dead"]
    /\ UNCHANGED <<hosts, ledger, reserved, registry, round, left, finished, worker, person>>

Outage(p) ==
    /\ Spend
    /\ up[p]
    /\ up' = [up EXCEPT ![p] = FALSE]
    /\ firewall' = [firewall EXCEPT ![p] = FALSE]
    /\ box' = [s \in Sandboxes |->
                 IF s \in In(p) /\ box[s] = "running" THEN "stopped" ELSE box[s]]
    /\ UNCHANGED <<prepared, lock, ledger, reserved, registry, round, left, finished, worker,
                   person>>

\* The process is gone; machines, containers and files are not.
Crash ==
    /\ Spend
    /\ prepared' = [p \in Projects |-> FALSE]
    /\ lock' = [p \in Projects |-> NoOne]
    /\ reserved' = {}
    /\ round' = [s \in Sandboxes |-> IdleRound]
    /\ tick' = IdleTick
    /\ quiet' = [p \in Projects |-> "unseen"]
    /\ recovered' = [p \in Projects |-> FALSE]
    /\ person' = IdlePerson
    /\ UNCHANGED <<up, firewall, containers, registry, left, finished>>

World ==
    \/ \E s \in Sandboxes : Ages(s) \/ Finishes(s) \/ Dies(s)
    \/ \E p \in Projects : QuietGrows(p) \/ Outage(p)
    \/ Crash

Next ==
    \/ \E s \in Sandboxes : RoundStep(s)
    \/ \E p \in Projects : TickStart(p) \/ TickSkip(p)
    \/ TickStep
    \/ PersonStep
    \/ World

Spec == Init /\ [][Next]_vars

Dispatched(s) == TickRelease /\ round[s].at = "idle" /\ round'[s].at = "dispatched"

\* Goroutines run, the ticker ticks, clocks advance, and a subject that stays
\* eligible is dispatched in the end: its hold runs out, a slot comes free.
Fairness ==
    /\ \A s \in Sandboxes : WF_vars(RoundStep(s))
    /\ \A p \in Projects : SF_vars(TickStart(p))
    /\ WF_vars(TickStep)
    /\ WF_vars(PersonDelete \/ PersonForget)
    /\ \A s \in Sandboxes : WF_vars(Ages(s)) /\ SF_vars(Dispatched(s))
    /\ \A p \in Projects : SF_vars(QuietGrows(p))

FairSpec == Spec /\ Fairness

-----------------------------------------------------------------------------
(* Properties *)

\* An agent only works in a machine whose egress rules are in the kernel:
\* "in-kernel rules do not survive a reboot" (prepare.go), machines come and go
\* beside the flag in memory that says they were applied.
WorksBehindFirewall ==
    \A s \in Sandboxes :
        round[s].at = "working" /\ box[s] = "running" => firewall[ProjectOf[s]]

\* The containers rounds work in never take more of a profile's memory than
\* admitSandbox leaves them, however many rounds are dispatched at once.
WorkWithinMemory ==
    \A p \in Projects :
        Cardinality({s \in In(p) : round[s].at \notin {"idle", "dispatched", "listed"}}) <= MaxHeld

\* Ensure is serialised per profile: two rounds of a project never start, prune
\* and create in its machine at once, and nothing outside Ensure holds the lock.
OneEnsures ==
    \A s \in Sandboxes :
        round[s].at \in Locked <=> lock[ProjectOf[s]] = s

Lease == INSTANCE SandboxLease WITH
    held <- [s \in Sandboxes |-> round[s].at \in Holding /\ ledger[s]],
    asked <- [s \in Sandboxes |-> person.sandbox = s],
    up <- [s \in Sandboxes |-> up[ProjectOf[s]]],
    box <- box

\* A round's container is its own until it lets go (SandboxLease): no sweep,
\* pruning or reaping stops or removes it, though all of them judge from
\* snapshots (ReconcileSandboxesCommand.InFlight, Client.StopProfile).
LeaseKept == Lease!Spec

\* A container that runs for nobody does not run for ever, whatever left it
\* behind: a crash, a start that was never ready, a stop that failed, a run
\* record nobody ended.
LeftoverStops ==
    \A s \in Sandboxes :
        (box[s] = "running" /\ ledger[s] /\ round[s].at = "idle")
            ~> (box[s] # "running" \/ ~ledger[s] \/ round[s].at # "idle")

\* Once a project has had its rounds its machine is stopped, or the scheduler
\* has stopped it and has not seen the project busy since.
HostLetGo == \A p \in Projects : <>[](~up[p] \/ quiet[p] = "released")

\* The same without the scheduler's word for it.  hostReleased is only taken
\* back by a pass that sees the project busy.
HostReleased == \A p \in Projects : <>[]~up[p]

\* ledger.go: "a container no record names is one nothing can find again".
RunningIsNamed ==
    \A s \in Sandboxes : round[s].at = "working" /\ box[s] = "running" => ledger[s]

\* capacity.go: reserving "is what makes this budget hold under concurrent
\* rounds".
HostWithinBudget == Cardinality({p \in Projects : up[p]}) <= MaxProfiles
=============================================================================
