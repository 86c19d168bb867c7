# A TLA+ model of donsy

`donsy` is a daemon that drives AI agents through the life of an *epic*: it drafts
a tree of issues, and once a person accepts the tree it cuts a branch for every
issue, lets a coding agent and a reviewing agent take turns on it, keeps approved
branches fresh, and lets a person merge them. This directory models that
machinery in TLA+, checks it with TLC on small instances and proves what matters
most of it with TLAPS.

## 1. The system

| Part (under `src/`) | State it keeps | Operations | Modelled in |
|---|---|---|---|
| Daemon process, `cmd/donsy` | its place in startup and shutdown | claim and move the workspace, serve, take down in order | `Daemon` |
| Instance lock, `adapters/instancelock` | a lock file, held by the kernel for a process | acquire (refused while held), release | `Daemon` |
| Worker, `usecases/epic_worker.go` | what is in flight, what is held back after failures | tick: drain results, reconcile, open, sweep, complete, dispatch; shutdown | `Worker` |
| Epic drafting, `usecases/run_epic_agent.go`, `agent_round.go` | the copy of the epic a round read; a run record | read, refine or review, record | `Drafting` |
| Runs and supervision, `run_supervisor.go`, `cancel_agent_run.go` | run records, cancel functions of live runs | begin, cancel, end, drain | `Drafting`, `IssueLoop` |
| File store, `adapters/filestore` | the issue tree as files | write, read back | `Plan` |
| Epic aggregate, `internal/domain/epic` | states of the epic and its issues, the tree and its waits, pull request records with counters and flags | transitions, rounds, grants, close, import | `EpicDomain`, `Plan` |
| Issue rounds, `usecases/run_issue_agent.go`, `agent_round.go` | the copy of the epic a round read | read, check out, work, push, record | `IssueLoop` |
| Opening, sweep, merge, close, reset, complete, `usecases` | what each has read so far | one use case each | `IssueLoop` |
| Code workspace, `adapters/workspace` | one working copy per issue, the Git remote | check out, push, merge, delete, inspect | `IssueLoop` |
| Sandbox reconciliation, `usecases/reconcile_sandboxes.go` | sandbox records, when a project was last busy | settle, force-stop, reclaim, release a quiet host | `Sandboxes` |
| Colima host, `adapters/colima` | machines, containers, the ledger, reservations, a lock per profile | reserve, ensure, start, stop, delete, inspect | `Sandboxes` |
| Project store, `adapters/projectstore` | one SQLite file per project: epics in five tables, settings, links | open and migrate, create, change, list, set up | `Store` |
| HTTP API, `internal/httpapi` | none | one use case per request, beside the worker | callers in `IssueLoop`, events elsewhere |

One daemon serves all projects. Its worker is a single goroutine that ticks; every
round it dispatches is a goroutine of its own, and so is every HTTP request. Requests
that change anything are served one at a time (`mutationMu` of `httpapi/server.go`), so
what races is the worker's tick, the rounds, and one request. All of them go through
the same stores, the same working copies, the same machines and the same remote.

What is hard here is not any single operation but their interleaving. The store
makes each `UpdateEpic` atomic and nothing else: a round reads the epic, works for
many minutes in a sandbox and then writes what it decided from that old copy; a
merge or a close spans a store update and a Git operation and can stop between the
two; a reconciliation pass judges from runs and rounds it listed at its start; a
machine outlives the process that started it; the daemon can be killed anywhere.
The hazards this leads to are listed, line by line, in `PROJECT.json`.

What makes each part correct:

* **Aggregate and rounds** - the volley between coder and reviewer is bounded; a
  verdict counts only for the commits it was given on; the flags a person acts on
  agree with the counters; no issue is left in a phase nothing will pick up.
* **Plan** - whatever the refiner writes and people do meanwhile, some issue that is
  left waits for nothing, a wait goes only when it is over or the refiner took it out,
  and no work is undone.
* **Git** - nobody's commits are lost; a record marked merged has landed; a waiting
  issue starts from the work it waited for.
* **Drafting** - the epic reaches a state a person decides in, or fails, in a
  bounded number of passes; what a person decided meanwhile stands.
* **Worker** - one round per subject, a ceiling on rounds, progress despite failed
  rounds, a hold after each failure, a shutdown that ends.
* **Sandboxes** - a round's container is its own; an agent works behind the firewall;
  what is left behind is stopped; a quiet machine is stopped.
* **Store** - every call is one step on the epic as it is by then, through failures
  and deaths; a migration loses nothing.
* **Process** - one process has the workspace, and takes it down in order.

## 2. The modules

    AgentDomain  EpicDomain
         \        /     \
          Drafting     IssueLoop     Plan     Worker    Daemon
             |            |            |         |         |
       DraftingProofs IssueLoopProofs PlanProofs WorkerProofs DaemonProofs

    Store ---- implements ----> Aggregates        Sandboxes ---- implements ----> SandboxLease
      |                            |                  |
    StoreProofs -- instantiates -> AggregatesProofs   SandboxesProofs

`IssueLoop`, `Drafting` and `Plan` take an `UpdateEpic` for one step; that is what
`Store` shows of the statements it consists of. `Worker` takes a round and a
reconciliation for something that takes its time and may fail; `IssueLoop`,
`Drafting` and `Sandboxes` say what they do. `Sandboxes` starts rounds only at the
end of a project's tick and tells each tick what was in flight when it began;
`Worker` shows that the scheduler keeps to that (`ReconcileSpares`). The `MC` modules
give parameters values for TLC.

**`EpicDomain`** holds the pure part of the aggregate as operators on values: the
state machines (`EpicSources`, `IssueSources`), `Blocked`, `Delivered`, the updates
of a record (`RecordCodingRound`, `RecordReview`, ...) and the role functions. A
commit is a number and a Git head is the *set* of commits it contains: "is an
ancestor of" is inclusion, a merge is a union, and the empty set is a branch that
does not exist or the empty `ReviewedHead`.

**`IssueLoop`** (extends `EpicDomain`) is the execution half of one epic from the
moment a person moves it to Ready.

| Variable | In the code |
|---|---|
| `epic`, `issue`, `pr` | the aggregate in the store |
| `branch[i]` | head of the issue's branch on the remote (`Epic.BranchName`) |
| `checkout[i]` | head of that branch in the issue's working copy |
| `base` | head of the default branch on the remote |
| `round[i]` | the goroutine `EpicWorker.dispatch` started for issue `i`, with the copy it read (`pr`, `role`) |
| `call[c]` | the use case caller `c` is in the middle of: the worker's tick, or an HTTP request |
| `landed[p]` | history: what `CodeWorkspace.Merge` published for record `p` |

A store update is one step; every Git operation, and every wait for a sandbox, is a
step of its own. A use case is therefore a short chain of steps - `OpenRead`,
`OpenCut`, `OpenRecord`; `MergeRead`, `MergeLand`, `MergeRecord` or `MergeStale`;
`ResetRead`, `ResetDrained`, `ResetDelete`, `ResetClose`; `RoundRead`,
`RoundCheckout`, `RoundPublish`, `RoundRecord` or `RoundReview` - and what it
remembers between them is in `call` or `round`, and may be stale. An update whose
transition is refused has no successor; the call then ends through `CallFail` or
`RoundFail`, as the error does in the code. `Duties` says which use cases each caller
may be asked for and `Events` what else may happen: grants, records made by hand,
transitions by hand, pushes by hand, a default branch that moves, failing steps
(`fail`), a round that pushed and could not record it (`lose`) and a killed daemon
(`crash`). A run turns on what its question needs.

**`AgentDomain`** holds the statuses of a run record, which runs spend an attempt
(`CountsTowardRoundLimit`) and the number of the next one (`NextRound`).

**`Drafting`** (extends `EpicDomain` and `AgentDomain`) is the drafting half of one
epic: the rounds of refiner and issue reviewer between Concept and Proposed.

| Variable | In the code |
|---|---|
| `epic`, `passes`, `issue` | the aggregate in the store; every unsettled state of an issue is `"Open"` |
| `run[r]` | the run records of the epic, in the registry |
| `round` | the goroutine in flight: the state and issues it read (`seen`, `known`), the number and the leftovers it listed (`next`, `orphans`), its run, and whether the supervisor was told to cancel it |
| `cancel` | the run a `CancelAgentRun` in progress has read |
| `recovered` | whether this process has had its first tick, which stalls live runs |
| `events` | how many more outside events there may be |
| `landed[r]` | history: where the outcome of run `r` moved the epic |

A round is `RoundRead`, `RoundList`, `RoundReap`, `RoundRefine`, `RoundBegin`,
`RoundStart`, then `RoundRefined` or `RoundReviewed` and `RoundSucceed`; it may end
earlier as refused, turned away by the host, given up at the round limit, failed by
the agent or failed by the host. The store of epics and the registry of runs are
written in different steps. `Import` is what reading the refiner's tree back does to
the state of each issue; what it does to the tree is `Plan`.

**`Plan`** is the issue tree and its way through the refiner's hands.

| Variable | In the code |
|---|---|
| `phase` | whether the epic is being drafted or is Ready |
| `issue[i]` | state, `ParentID`, `Repository` and `BlockedBy` of an issue; `"None"` until it is made |
| `open` | issues with an open pull request |
| `round`, `file[i]` | a refiner's round, and the tree in the directory mounted into its sandbox |
| `taken[i]` | history: the waits the refiner took out of the file of issue `i` in this round |

`RoundWrite` is `IssueTreeStore.Write`; `WriteFile`, `MoveFile`, `DropFile`, `Block`
and `Unblock` are what an agent can do to a tree of files, and a reference that is
rewritten is one taken out and one added; `RoundImport` is
`IssueTreeStore.Read` with everything `Read` and `Validate` do on the way: closing
what was omitted, resolving paths, refusing unknown names and loops. `CreateIssue`,
`CloseIssue`, `RequestChanges`, `OpenPullRequest` and `Merge` are what people and the
loop do to the same tree before, during and after. A path that names nothing is
`Nowhere`. `Below` is the recursive walk down the tree as the smallest closed set,
so that it can be proved about.

**`Worker`** is `EpicWorker`: `Run`'s goroutine and the rounds it starts.

| Variable | In the code |
|---|---|
| `tick` | where `Run` is, and what this tick has read of the project it is at |
| `recovered` | the flag that makes the first tick a recovering one |
| `inflight`, `retries` | the maps only `Run` touches |
| `slots`, `results` | the two buffered channels |
| `rounds[s]` | the goroutine of subject `s`: running, or trying to send its result |
| `left[s]`, `cancelled` | what work subject `s` still has; `Run`'s context |
| `sore`, `hostRow` | history: failed and not held since; host failures in a row |

`Hear`, `StartTick` and `Stop` are the cases of `Run`'s select; `Drain`,
`ListProjects`, `ReadEpics`, `Reconciled`, `Dispatch`, `ProjectDone` and `TickDone` are
a tick, in the order of the code; `RoundEnds`, `Send` and `Drop` are a round's
goroutine. How long a hold is, is left to `HoldOver`: every hold runs out.

**`Sandboxes`** is the machines: rounds, the reconciling tick and a person's reset on
one side, the colima adapter on the other.

| Variable | In the code |
|---|---|
| `up[p]`, `firewall[p]`, `box[s]` | the world: a profile's machine, the egress rules in its kernel, the container of a sandbox |
| `prepared[p]`, `lock[p]`, `reserved` | the client's maps, in memory |
| `ledger[s]` | the file that names the container |
| `record[s]`, `old[s]`, `run[s]` | the registry: sandbox status, its `UpdatedAt` past the limits, the last run record |
| `round[s]` | the goroutine working on `s`, with the profiles it listed |
| `tick`, `quiet[p]`, `recovered[p]` | the reconciliation in progress with its snapshot; `lastBusy`/`hostReleased`; first tick |
| `person` | a reset that has drained the subject's runs |

A round is `RoundList`, `RoundReserve`, `RoundBegin`, `RoundBoot`, `RoundPrune`,
`RoundEnsure`, `RoundCreate`, `RoundStart`, `RoundStop`; each can fail where the code
can. A tick is `TickStart`, then `TickRefresh`, `TickDelete` and `TickForget`,
`TickPass` or `TickFail` for each sandbox, then `TickRelease`, which also dispatches;
reaping the containers or stopping the machine may fail on the way (`ReleaseFails`), and
a later tick tries again.
**`SandboxLease`** is what a round is promised of its container, and
`Sandboxes` implements it under the mapping in `Lease`: a sandbox is held from the
moment `Ensure` returns it, for as long as its line is in the ledger.

**`Store`** is a project's SQLite file, statement by statement: `task[t].todo` is the
list of statements the call of goroutine `t` still has to execute, taken from the
code (`OpenStore`, `Migrate`, `WriteEpic`, `UpdateEpic`, ...); `tx` is the transaction
on the one connection, `disk` what is committed, `lock` the `sync.Mutex` of the
`Repository`, `handle` whether the store is open. A statement may fail (`Fails`), which
rolls back and closes a store that was being opened; the daemon may be killed at any
step. An epic is the set of calls whose changes are in it, once for each of the five
tables with rows of it, so a lost or half-written change is a set that lacks a call
or differs between tables. **`Aggregates`** is what the use cases take the store for
- each call one step - and `Store` implements it (`OneStep`): a call is acted on when
it commits.

**`Daemon`** is the life of a process. Directories have an identity apart from the
paths `legacy` and `root`, because a lock stays with the file while the directory is
renamed. `prepareRoot` is `StatLegacy`, `StatRoot`, `Mkdir`, `Open`, `Flock`,
`Recheck`, `Rename`; `serve` and the deferred calls of `runDaemon` are `Start` to
`Exit`. go-merge, the program whose workspace donsy takes over, is not in the
repository; `OldLaunch`, `OldFlock` and `OldServe` are what `prepareRoot` expects of
it.

### What is abstracted

* `IssueLoop`: the push gate, the mount, settings, the reaping of old runs, the
  reservation of a host and the sandbox itself can only fail a round: they are
  `RoundFail`. Commit and push are one step, since between them only the working copy
  has changed and the next checkout resets it. Deleting the remote branch and removing
  the working copy are one step. The sweep reads and fetches for all approved records
  at once; the model takes one record at a time, which allows every order of the
  answers. `FlagBlocked`, resynced on every opening, is read by no role and left out. A
  record made by hand names its own branches; the model takes its head to be the
  issue's branch. Comments, titles, commit messages and diffs are left out.
* `Drafting`: the tree is flat (it is `Plan`'s), and a file that cannot be read is a
  round that fails; saving Queued and Admitted is one step, and so are the last save
  of a run and its release by the supervisor; the hold between retries is `Worker`'s;
  the Ready half is `IssueLoop`'s.
* The API: `IssueLoop`, `Store` and `Drafting` put no lock around requests, so a caller
  that is a request may overlap another one in them. `mutationMu` excludes that, and
  what the models allow is more than the program does.
* `Plan`: opening a pull request and a merge are one step each; titles, bodies, front
  matter and file names are left out, so a renamed file is a path that names nothing.
* `Worker`: purging finished work only removes directories of settled epics and is
  left out; the calls a tick makes for an issue are `IssueLoop`'s. A panic in a round
  and a dead context are failures like any other.
* `Sandboxes`: `old` stands for both idle time and maximal runtime, and all clocks may
  pass a limit at any moment. Images, mounts, credentials, transcripts and probing the
  container until it is ready are steps that can only fail. Session volumes are left
  out: no role continues a session (`sessionContinuationEnabled` is false). A machine
  goes down beside donsy (`Outage`) and stays down until donsy starts it. One that
  somebody starts again by hand while the daemon still takes it for prepared comes up
  without its rules, and `startProfileLocked` would not notice: `WorksBehindFirewall`
  does not cover that.
* `Store`: blobs and the overrides of a repository have no writer among the use cases
  and are left out; a profile is its agent and whether it has a round limit. The run has
  one epic, so keys of two epics never clash in it; the theorems are for any number.
* `Daemon`: the staging path, which nothing in the repository creates, and the
  endpoint and token files, which are written under the lock.

## 3. The runs

| Run | Instance | Shows |
|---|---|---|
| `rounds` | 1 issue, 2 records, limit 2, 3 commits, worker and person | the counters ration coding rounds over grants; the round-limit flag is true exactly when the loop gave up; Pr means approved, and approved means this head |
| `delivery` | 2 issues in a chain, 2 records, limit 1, 2 commits, crashes | a merged record is on the default branch; a waiting issue is cut from what it waited for; no phase without a record; Done only for delivered epics; settled issues never move |
| `outside` | 1 issue, 2 records, limit 1, 3 commits, everything a person does outside | working copies stay under their round; approvals do not survive a round they did not see; no push overwrites a commit |
| `progress` | 2 issues, limit 2, 4 commits, fairness | every round is judged; the volley ends |
| `drafting` | 2 issues, limit 4, 2 passes, 6 runs, any 2 outside events, fairness | one live run; attempts never share a number or pass the limit; success means the outcome landed; an epic fails only when no attempt is left, and faults of the host use none; drafting ends |
| `plan` | 3 issues, 2 repositories, every acyclic tree with every set of waits, 2 edits, 3 outside events, symmetry | something that is left is always unblocked; an import keeps the state of what it keeps; a live wait goes only if the refiner itself took it out |
| `worker` | 2 projects, 3 subjects, 2 slots, 1 event, shutdown at any point, fairness | what is in flight is what runs; reconciliation is told of every round; a failure is held; work gets done; a shutdown ends |
| `sandboxes` | 2 subjects of 1 project, one round each, 1 outside event, fairness | agents work behind the firewall; `Ensure` is serial; the lease is kept; leftovers are stopped; a quiet host is let go |
| `store` | 1 epic, 2 goroutines, 2 calls of 6 kinds, a new or an old file, 1 failing statement, 1 death | every call is one step; no statement is refused by the schema; profiles are changed by their own calls only; every call is answered |
| `daemon` | 2 launches of donsy, 1 of go-merge, any workspace to start with, kills anywhere | one process has the workspace; it stays in place; machines are stopped by a process alone; quitting ends |
| `breaker` (violation) | as `worker`, 2 events, breaker at 2 | the breaker for a broken host never trips |
| `moved` (violation) | as `plan`, 1 repository, 2 outside events | an issue is left in Coding with its record closed |

**Why the bounds are enough.** In `IssueLoop` everything the properties relate is per
issue, so one issue suffices except where issues wait for one another. Two records
are a record and its successor after a close, which is where stale rounds bite; a
third repeats the second. One coding round reaches the limit, two let a request for
changes be answered, and grants go beyond both. Three commits are enough for a coding
commit, a foreign push and a move of the default branch in any order; in `progress`
the commit bound equals the coding rounds two issues can spend, and only failures
before the push are enabled, so no bound stops a fair behaviour. Two callers show
every race of two use cases. Deadlock is not checked in any run: an epic that is done
or waits for a person stops, and so do a worker without work, a store without calls
and processes that have ended.

In `drafting` four attempts are two full cycles, which is what two passes need; two
outside events are a cancel and the host failure it races with, a crash and a cancel
of what it left, or a person moving the epic there and back; two runs more than the
limit are as many as those events can add, so the bound on runs never stops a round.

In `plan` three issues are a wait, what it waits for, and one to hang either under;
two edits can move an issue and drop where it was, take a reference out and put another
in, or break a reference and take out what is left of it; three outside events can reopen a
plan, make an issue and settle one. Loops of waits through the tree need two issues.
In `worker` two slots and three subjects make one wait; two projects separate "in
flight" from "in flight here"; one failure, refusal, settlement or lost listing meets
every step. In `sandboxes` two subjects of one project share the machine, its lock
and its memory, and one outside event of any kind meets every step of a round, a tick
or a reset. The lease, the firewall and the
lock are proved for every bound. In `store` two calls are a race, and
one failure and one death, in either order, meet every statement; a death between the
opening of one process and that of the next meets every state a migration can be
left in. In `daemon` two launches race for the same lock with go-merge beside them.

**Fairness.** `IssueLoop`: the worker ticks for as long as the daemon lives and
retries a failed round without end, so dispatch and opening are weakly fair, as are
steps that cannot fail; a step that can fail is strongly fair: that one of infinitely
many retries succeeds is assumed of the host, the remote and the agent, and not of
donsy. Nothing is assumed of people: merges, grants and closes are not fair, and
liveness stops where they take over. `Drafting`: the worker and the steps of a round
are weakly fair, because `roundTimeout` and the silence guard end every round, and
beginning a round is strongly fair: a host that is full again and again lets one in
eventually. `Worker`: `Run`'s steps are weakly fair (the ticker ticks, its calls have
timeouts), and so are a round's end and the end of a hold; `Stop` is strongly fair,
because Go's select picks among the ready cases at random; and so is `Send`, because a
channel serves its senders in turn. `Sandboxes`: rounds and the tick's steps are weakly
fair for the same reasons; a tick that has to begin is strongly fair, because ticks of
projects alternate; clocks pass every limit; a subject that stays eligible is
dispatched in the end (`WorkGetsDone` of `Worker`). `Store`: a goroutine's own steps are
weakly fair, and taking the lock is strongly fair because a `sync.Mutex` hands itself
to a waiter that starves. `Daemon`: the main goroutine runs; rounds and requests may
hang for ever. Failures, crashes and what hosts do to machines are bounded events:
that they do not go on for ever is assumed.

## 4. What is proved

Everything below holds for every value of the constants that the module's named
assumptions admit: any sets of issues, subjects, projects, callers, launches, any
bound. Each property was checked with TLC on an instance before it was proved.

| Module | Theorems | Inductive invariant |
|---|---|---|
| `IssueLoopProofs`, for any duties and events | `TypeCorrect`, `CodingIsRationed`, `VerdictsCoverRounds`, `LimitFlagIsHonest`, `SettledIsFinal`, `BranchesOnlyGrow`, `MergesHaveLanded` | `RecordsNamed`, `MergesNamed`, `RoundsHold`, `FlagFollowsCounters`, `Publications` |
| `IssueLoopProofs`, under an assumption on them | `DoneMeansDelivered`, `IssuesHaveOneRecord`, `WorkingCopyIsHeld`, `WorkingCopyIsHeldBesideHands`, `PhasesHaveRecords`, `PrHasApproval`, `ApprovedIsReviewed`, `BranchesHaveTheWork` | `DeliveredWhenRead`, `OneEach`, `OpenersAreAlone`, `RoundsAreOfOpen`, `EndedWithIssue`, `Volley`, `ReviewIsOfBranch`, `Waiting` |
| `DraftingProofs` | `DraftingTypeCorrect`, `OneRunIsLive`, `AttemptsAreRationed`, `OutcomesMatchWork`, `GivesUpWhenSpent` | `LeftoversListed`, `NumbersAhead`, `NumbersBounded`, `OutcomeInFlight`, `NoGaps` |
| `PlanProofs` | `PlanTypeCorrect`, `WorkIsNeverStuck`, `ImportsKeepWork`, `WaitsOnlyTakenOut`, `SettledIsFinal` | `Sound`, `Working`, `Filed`, `Named`, `WaitsKnown` |
| `WorkerProofs` | `WorkerTypeCorrect`, `FlightsAreKnown`, `ReconcilingSpares`, `FailuresAreHeld`, `CeilingHolds`, `ReturnsAreQuiet` | `Flights`, `Sores`, `Ticks`, `SlotsHonest` |
| `SandboxesProofs` | `SandboxesTypeCorrect`, `AgentsAreBehindFirewall`, `EnsuringIsSerial`, `MemoryHolds`, `LeaseIsKept` | `Sealed`, `Locks`, `Budget`, `Snapshot` |
| `DaemonProofs` | `DaemonTypeCorrect`, `OneDaemon`, `WorkspaceStays`, `MachinesGoLast`, `QuietAtTheEnd` | `Fresh`, `Placed`, `Held`, `Quiet` |
| `AggregatesProofs` | `WhatIsToldIsKept`, `ListsAreFresh` | `Shaped`, `Done`, `Since` |
| `StoreProofs` | `TypesHold`, `StatementsDoApply`, `ProfilesAreKept`, `CallsAreSingleSteps`, `FileKeepsWhatIsTold` | `FileSound`, `CallSound` with `Stands`, `Creations` |

**IssueLoop.** `MergesNamed` and `RecordsNamed` say that a merge about to publish has a
record, and a record an issue, without which the head it fetches has no type.
`CodingRationed` needs `RoundsHold`: a coding round in flight still has the allowance
it checked when it read its record. That is inductive because only the round of the
same issue can spend it (`OnlyCodingSpends`), there is one round per issue
(`RoundsStep`), a record never changes its issue, and everything else only adds
allowance. `RecordsStep` carries the argument: it splits a step by what it does to one
record (made, coded, judged, settled, granted, ...) instead of by action, so that the
invariants about records are proved from nine cases rather than thirty actions;
`FlagFollowsCounters` is one of them, and is stronger than the flag's promise because
a merge round or a push by hand leaves the flag alone and only a later verdict settles
it. `Publications` says what a merge between its push and its record has done: it has
published a head, and every published head is in the default branch, which only grows.
`DeliveredWhenRead` says that a `CompleteEpic` that read the epic as delivered still
finds it so, because `SettledStep` lets no settled issue move. `DoneMeansDelivered`
assumes `"transition" \notin Events`: the store lets a person pick Done at any time.

The rest of what `IssueLoop` keeps depends on who does what beside whom, and each
theorem names what it needs of `Duties` and `Events`. The worker is one goroutine, so
of it alone all of these hold; what they exclude is a person's request beside it.

| Assumption | What it says | Theorems |
|---|---|---|
| `OneOpener` | one caller opens pull requests, none is made by hand | `IssuesHaveOneRecord`, `WorkingCopyIsHeld`, `BranchesHaveTheWork` |
| `OneScheduler` | one caller dispatches and opens | `WorkingCopyIsHeldBesideHands` |
| `OneWorker` | one caller dispatches, opens and sweeps, no record is made by hand | `PrHasApproval`, `ApprovedIsReviewed` |
| `OneMerger` | one caller merges, as `mutationMu` sees to | `BranchesHaveTheWork` |
| `NobodyCloses` | nobody closes or resets a single record (whole issues and epics may be) | `PhasesHaveRecords`, `WorkingCopyIsHeldBesideHands` |
| `"hand-push" \notin Events` | nobody pushes to an issue's branch by hand | `ApprovedIsReviewed` |

Section 5 has the races behind `OneOpener` and `NobodyCloses`; the one behind
`OneWorker` is described below. `OneMerger` excludes nothing the API lets through: merges
are requests, and `mutationMu` serves one request at a time. Every run satisfies the assumption of a theorem
about each property it checks, so none of them is vacuous.

`OneEach` is one open record per issue together with why: what an opening is about to
record has no open record (`OpenersAhead`), because only that opening could have made
one since it read the issue, and an open record's issue is not settled
(`OpenAreUnsettled`). From it the working copy is held: a checkout by somebody else
would be an opening of an issue that has an open record. Beside records made by hand
that argument is gone, and `OpenersAreAlone` replaces it: while the one scheduler is
opening an issue, no round is in flight there, because rounds start from the same
goroutine (`RoundsAreOfOpen`). `EndedWithIssue` - a record ends with its issue - is all
`PhaseHasRecord` needs, and is exactly what closing a single record breaks.

`Volley` is the argument for approvals. An issue in Pr has nothing running on it
(`PrIsQuiet`), and neither has one a sweep is looking at (`SweepIsAlone`); a round whose
record was closed, merged or reset finds its issue where its own update is refused or
harmless until it ends (`GoneRecordsWait`); an open record that is stale is not in Pr, a
stale issue's record is stale or approved (`StaleIsNotPr`, `StaleIsFlagged`), and a
reviewer at work has a record that is not stale (`ReviewIsOfFresh`). `PrIsApproved` is
not inductive without them, and not an invariant without `OneWorker`: a sweep that saw a
push and is overtaken by another round of the issue puts it back under review while a
round of a record that is gone still runs. It takes three records, more than any run
has. `ReviewIsOfBranch` then says that the branch is the working copy under review,
unless it is deleted, which only a push by hand could change.

`Waiting` is the argument for waits. Every branch and working copy of an issue contains
what was merged for the issues it waits on (`HeadsHaveWork`), and an issue that is being
opened or worked on no longer waits (`OpenersWait`, `RoundsWait`); since settled issues
stay settled, what an opening read of its waits is still true when it cuts. A merge that
is about to publish is of a record nobody has recorded as merged (`MergesAreNew`), so
what landed for a merged record has landed before anybody is cut from it. Without
`mutationMu` a second merge of the same record could land more after that.

All of them split a step by its effect - on a call (`CallMove`), a round
(`RoundMove`), a branch (`BranchMove`), a record (`RecordMove`) and an issue
(`IssueMove`) - and prove the effect of every action once.

**Drafting.** The invariant says what a round knows between its steps.
`LeftoversListed`: what a round listed is all that can be live until it begins its own
run, because nobody else makes a run and no round is in flight before the first tick
of a process; so after `RoundReap` nothing is live, and the run that `RoundBegin`
makes is the only one. `NumbersAhead`: the number a round holds is larger than that of
every attempt made *and* of every leftover it is about to stall. The leftovers matter:
one of them may be cancelled between the list and the save, which takes it out of the
attempts, and the save then puts it back. That `nextRound` is ahead of what it counts
(`NextRoundIsAhead`) needs the numbers to have a maximum (`BoundedHasMaximum`), and so
the bound on numbers. `OutcomeInFlight`: the run in flight has landed exactly when its
round has come to `completed`, which is why ending it earlier may blame the host or
the agent and later may not. `NoGaps`, for `GivesUpWhenSpent`: every number below that
of a run made, and below the number a round holds, is that of an attempt that counts: it is under way
or over, and not by a fault of the host. A run the host failed takes its number out of what counts; that leaves no
gap only because the run in flight has the greatest number of all, which is the other
half of `NoGaps`. A run that was cancelled or cut short by a restart before its agent had
begun does count.

**Plan.** `Sound`: the stored tree has no loop of waits, counting a parent's wait for
its children. It survives what people do because making an issue adds one that
nothing waits for yet, and an import because `Accepted` looks for loops in the tree as
it is *after* the import, with issues people made meanwhile. From it: if work is left
and all of it waits, the unsettled issues are a set in which each waits for another,
which `Acyclic` forbids. `Working` (an open record's issue is in work), `Filed` and
`WaitsKnown` are what the import of a tree that was written earlier needs to be typed.
`Named` is the argument for waits: what an issue waited for its file still names, or has
lost the name of - then the plan is refused - or is not in the tree - then it is closed -
or is in `taken`. `ImportedTree` says what an import is, issue by issue.

**Worker.** `Flights` relates the four places a round can be: the map, a goroutine, the
channel, and nowhere; after a cancel a round may be dropped without being heard.
`Sores`: a subject that failed has a result that says so on its way, or is held.
`Ticks`: what a tick read of a project is that project's. `ReconcilingSpares` follows
because a round is in the map from before its goroutine starts and the map is read at
the start of the same project's tick.

**Sandboxes.** `Sealed`: a running machine that the flag in memory trusts has its rules
in the kernel, and so has a machine with a running container. It survives an outage
although the flag does not change, because a machine that is down is not trusted.
`Locks`: the lock is with the round inside `Ensure` and with nobody else. `Budget`: what
is past admission has a reservation. `Snapshot`: what a tick knew at its start is out
of date only by rounds that are over; no round can have begun since, because rounds
begin only at the end of a tick. That is what makes it safe to judge from it, and
`LeaseIsKept` - the whole refinement of `SandboxLease`, initial states and steps -
rests on it.

**Daemon.** `Placed` and `Held`: a process that has a directory open is at a directory
that exists, and one that owns the workspace holds its lock. The lock is per
directory and survives the rename, so two owners would hold the same lock. `Quiet`:
what may still run in a process at each stage of its end.

**Aggregates.** Under `NoEpic \notin SUBSET Calls`, in a store whose calls are single
steps a change whose caller was told of it is in its epic for good, and a list has
all that was told before it was asked for. That the store has such calls is proved
in `StoreProofs`.

**Store.** `task[t].todo` is what is left of one of four programs, and the invariant
says where: `Stands` names the program and the statement it is at, and `StageAt`,
`OpenAt`, `RebuildAt` and `ProjectAt` say for the `k`-th statement of each what the ones
before it have made of the transaction and of what was read. `FileSound` says that
outside a transaction nothing is half done: no table is half migrated, and an epic's
rows agree in all five tables. It survives a failure or a death at any statement
because neither touches `disk`. Two facts about the code carry the rest: whoever
executes statements has the lock (`CallSound`), so the rows a change read are those in
the file when it writes; and the epic a call is to create is nobody else's
(`Creations`). A step of a program either `Advances` by one statement, `Finishes` a
stage, `Refuses` what was asked or `Fails`. From the invariant,
`StatementsDoApply` and `ProfilesAreKept` follow statement by statement, and
`CallsAreSingleSteps` is the whole refinement: the statement that ends a call, by which a
change is committed and a list has read all it needs, is the step of `Aggregates`, and
all others stutter.
`FileKeepsWhatIsTold` carries the two theorems of `AggregatesProofs` over it.

**Only model-checked.** Liveness, because fairness and ENABLED are out of the prover's
reach: `VolleyEnds`, `DraftingEnds`, `WorkGetsDone`, `ShutdownEnds`, `LeftoverStops`,
`HostLetGo`, `EveryCallAnswered`, `QuitEnds`. Every safety and action property of a
passing run is proved. The type invariant of `SandboxLease` is documentation.

## 5. What does not hold

Two runs expect a violation. In `breaker`, `hostFailed` gets the run by value, so the
status it looks at is never `HostFailed` and no failure counts toward
`hostFailureBreaker`. In `moved`, `IssueTreeStore.Read` closes omitted issues in the old
tree with all that is below them, records included, and then puts the refiner's
version of the kept ones over it: an issue that moved out from under an omitted one is
in work with its record closed.

The following are also stated in the modules, mostly in the words of a comment of the
source, and TLC refutes each on an instance like that of the run named. They are races
or corners a reader of the code should know of.

| Property | Steps that refute it |
|---|---|
| `OneOpenRecord` (`IssueLoop`: "An issue has at most one at a time") | the worker's tick and a person's request to open both read the issue as open; both cut, and both record; or a person's own record is made between. With one opener it holds (`IssuesHaveOneRecord`) |
| `RecordHasBranch` (`IssueLoop`) | a record is closed; the worker opens the next one of the issue and cuts its branch, by the same name; the close's deletion then removes it |
| `ClearingStaleCatchesUp` (`IssueLoop`) | a merge round has pushed its merge; the default branch moves; the round's record clears the stale flag |
| `OnlyOpenRecordsLand` (`IssueLoop`) | a merge reads an open record; the record is closed; the merge publishes. Closing it is a request too and waits for the merge, but the import of a refined tree that leaves the issue out closes its record in the worker (`RoundImport` of `Plan`): an epic that was sent back to drafting while one of its records waited for its merge. The second caller that closes stands for it |
| `ResetIsClean` (`IssueLoop`) | a round is dispatched and has read the issue before its run exists; a reset drains and deletes the branch; the round pushes it again; the reset closes the record |
| `PhaseHasRecord` with closes of single records (`IssueLoop`) | a reviewer works; its record is closed and the issue rewound; the verdict moves the issue into a phase of its own with no record open. Without such closes it holds (`PhasesHaveRecords`) |
| `OutcomeIsFinal` (`Drafting`) | a cancel reads a run as live; the round ends it; the cancel saves it Cancelled |
| `RunningIsNamed` (`Sandboxes`) | a stopped machine's idle sandbox is reclaimed: the container cannot be removed, its line is; a round starts the machine and fails to prepare it, so the next round finds it running and prunes nothing; it finds the container by name and works in it, named by no line. A reset that races with the next round of its issue leads to the same |
| `HostReleased` (`Sandboxes`) | the tick that stops a quiet machine dispatches a round, which starts the machine and is over before the next tick; nothing then takes `hostReleased` back, and the machine stays up |
| `HostWithinBudget` (`Sandboxes`) | a round lists the running profiles; a round of another project boots its machine, ends, and drops its reservation; the first is admitted on its old list, and two machines run where one fits |
| `CanRestart` (`Daemon`) | go-merge is launched where donsy has moved the workspace, and makes its own again; both paths then exist, and every later launch of donsy refuses |
| `CanBeWritten` (`Plan`) | a person makes an issue in one repository under a parent in another; the tree cannot be written as files, and drafting rounds fail |
| `RefusedLoopsStall` (`Plan`) | a loop of waits through an issue that is closed, and stalls nobody, makes the plan refused |

Seen while modelling, and part of what the modules say:

* A round that the host turned away answers without an error, and so clears the
  retries of a subject that was failing (`RoundEnds`).
* The first tick that gets the list of projects is the recovering one even if the
  epics of a project cannot be read; that project's live runs are not stalled then
  (`ListProjects`, `ReadEpics`).
* An issue a person makes during a refiner's round, in no tree the refiner saw, is
  closed as omitted when that tree is read (`Omitted`).
* An import closes records without deleting their branches.
* `store_setup.go:60` says that a store with roles and no repositories can still
  refine epics; `resolveEpicRepositories` refuses to create one there (`Resolve`).
* An epic's repositories are read before the epic is written, under another hold of
  the lock (`Stages`).

## 6. Not modelled

* `netomatic`, prompts, OpenCode, GitHub, logs: text and I/O, or another process, with
  no state machine of their own.
* HTTP decoding and encoding, and the events the API streams.
* The project registry beyond the runs and sandboxes in `Drafting` and `Sandboxes`:
  rows written by single statements. `DeleteProjectRuntime`
  takes two, in no transaction, and the pool of open stores is synchronised with the
  list of projects without a lock across both.
* Images, mounts, session volumes, credentials, transcripts, deleting a profile, and
  the purge of finished work.
* `Quit` and `Force` of the instance lock, which no program of the repository calls.
* The store's blobs and a repository's overrides, which no use case writes.
* Comments, titles, diffs, front matter and branch names.

## 7. What is left

1. A property that tells a reviewer's verdict that comes late from what a person asked
   for meanwhile, and the revival of a failed epic, in `Drafting`.
2. What a person's requests leave intact: `PrIsApproved` and `CutFromDeliveredWork` in a
   form that holds beside records made by hand.
3. The progress of what the liveness properties measure, as action properties that can
   be proved: the volley spends a bounded number of rounds, a plan loses an issue that
   waits with every merge.
4. The registry and its pool of stores.
