-------------------------------- MODULE Store --------------------------------
(***************************************************************************)
(* A project's store: the SQLite file, the transactions on its one          *)
(* connection, the lock of the Repository that guards them, and the calls   *)
(* of the use cases as the statements they execute one by one.  A statement *)
(* may fail and the daemon may be killed between any two.  The file may be  *)
(* new, or one an older version left with a distro column in the settings   *)
(* tables (migrateSettingsSchema).                                          *)
(* An epic is the set of the calls that made and changed it, once per table *)
(* that holds rows of it: Aggregates is what is made of that.               *)
(***************************************************************************)
EXTENDS Integers, Sequences

CONSTANTS
    Epics,
    Callers,        \* goroutines
    Repositories,
    Roles,
    NoEpic,
    Nothing,
    Kinds,          \* what the callers of an instance ask
    MaxCalls,       \* bound: calls
    MaxFailures,    \* bound: statements that fail
    MaxCrashes      \* bound: deaths of the daemon

\* What a call may ask: make an epic, change one, list them, set the agent of a role,
\* of every role, or the repositories.
KindNames == {"create", "change", "list", "role", "setup", "link"}

ASSUME StoreConstants ==
    /\ Kinds \subseteq KindNames
    /\ Nothing \notin Callers \cup Roles
    /\ \A changes \in SUBSET (1..MaxCalls) : changes # NoEpic
    /\ MaxCalls \in Nat /\ MaxFailures \in Nat /\ MaxCrashes \in Nat

VARIABLES
    disk,       \* the database as it is committed
    tx,         \* the open transaction: whose it is, and the database in it
    handle,     \* Repository.store is open
    lock,       \* who holds Repository.lock
    task,       \* task[t], the call of t
    calls,
    failures,
    crashes,
    told        \* history: changes whose callers were told they are done

vars == <<disk, tx, handle, lock, task, calls, failures, crashes, told>>

Call == 1..MaxCalls

\* The tables with rows of an epic, each but the first referring to one before it.
Parts == <<"epics", "issues", "issue_comments", "pull_requests", "pull_request_comments">>
PartNames == {Parts[i] : i \in DOMAIN Parts}

SettingsTables == {"agent_settings", "repository_settings"}

\* agent 0 is no agent, -1 one an older version assigned, another the call's.
Profile == [agent : -1..MaxCalls, limited : BOOLEAN]
NoProfile == [agent |-> 0, limited |-> FALSE]
Settings == [Roles -> Profile]
NoSettings == [r \in Roles |-> NoProfile]

Table == [shape : {"absent", "legacy", "current"}, row : Settings]
Absent == [shape |-> "absent", row |-> NoSettings]

Rows == [PartNames -> [Epics -> {NoEpic} \cup SUBSET Call]]

Database == [base : BOOLEAN,            \* the tables that need no migration are there
             project : BOOLEAN,         \* the row of project_metadata
             links : SUBSET Repositories,
             settings : [SettingsTables -> Table],
             temporary : [SettingsTables -> Table],
             rows : Rows]

NoTx == [of |-> Nothing, db |-> Nothing]
NoRows == [p \in PartNames |-> [e \in Epics |-> NoEpic]]

\* since is what callers had been told when a list was asked for.
Op == [kind : Kinds, epic : Epics, role : Roles \cup {Nothing},
       links : SUBSET Repositories, n : Call, since : [Epics -> SUBSET Call] \cup {Nothing}]

S(do, on) == [do |-> do, on |-> on]

\* A statement, or a step of the program between two, and what it is about.
Verbs == {"begin", "commit", "create", "inspect", "build", "copy", "drop", "rename", "ensure",
          "keep", "name", "require", "unlink", "link", "resolve", "select", "assign", "replace",
          "read", "change", "delete", "insert"}
Subjects == PartNames \cup SettingsTables
            \cup {"base", "tx", "project", "handle", "links", "settings", "epic"}
Instruction == [do : Verbs, on : Subjects]

Idle == [at |-> "idle", op |-> Nothing, stage |-> 1, todo |-> <<>>, rows |-> NoRows,
         settings |-> NoSettings, answer |-> "none"]

Task == [at : {"idle", "waiting", "running", "answering"}, op : Op \cup {Nothing},
         stage : {1, 2}, todo : Seq(Instruction), rows : Rows,
         settings : Settings, answer : {"none", "done", "refused", "failed"}]

TypeOK ==
    /\ disk \in Database
    /\ tx = NoTx \/ tx \in [of : Callers, db : Database]
    /\ handle \in BOOLEAN
    /\ lock \in Callers \cup {Nothing}
    /\ task \in [Callers -> Task]
    /\ calls \in 0..MaxCalls
    /\ failures \in 0..MaxFailures
    /\ crashes \in 0..MaxCrashes
    /\ told \in [Epics -> SUBSET Call]
-----------------------------------------------------------------------------
(* What a call executes *)

\* The tables of an older version's store are not touched by IF NOT EXISTS.
Schema == <<S("create", "base"), S("create", "agent_settings"), S("create", "repository_settings")>>

Rebuild(table) == <<S("build", table), S("copy", table), S("drop", table), S("rename", table)>>

\* Mutant: the migration's statements one by one, in no transaction.
MigrateUnguarded == <<S("inspect", "agent_settings"), S("inspect", "repository_settings")>>

Migrate ==
    <<S("begin", "tx"), S("inspect", "agent_settings"), S("inspect", "repository_settings"),
      S("commit", "tx")>>

OpenStore == Schema \o Migrate \o <<S("ensure", "project"), S("keep", "handle")>>

WriteProject ==
    <<S("begin", "tx"), S("name", "project"), S("unlink", "links"), S("commit", "tx")>>

ReplaceRepositories ==
    <<S("begin", "tx"), S("require", "project"), S("unlink", "links"), S("link", "links"),
      S("commit", "tx")>>

UpdateAgentSettings ==
    <<S("select", "settings"), S("assign", "settings"), S("replace", "settings")>>

ReadRows == [i \in DOMAIN Parts |-> S("read", Parts[i])]
ReadEpics == <<S("begin", "tx")>> \o ReadRows \o <<S("commit", "tx")>>

\* Mutant: an issue's comments before the issue.
InsertCommentsFirst ==
    <<S("insert", "epics"), S("insert", "issue_comments"), S("insert", "issues"),
      S("insert", "pull_requests"), S("insert", "pull_request_comments")>>

InsertRows == [i \in DOMAIN Parts |-> S("insert", Parts[i])]

\* Mutant: the rows replaced in no transaction.
WriteEpicUnguarded == <<S("delete", "epics")>> \o InsertRows

WriteEpic == <<S("begin", "tx"), S("delete", "epics")>> \o InsertRows \o <<S("commit", "tx")>>

UpdateEpic == ReadEpics \o <<S("change", "epic")>> \o WriteEpic

\* The mutations of InitialiseStore, each under the lock by itself: the roles first,
\* so that what a failure between the two leaves is of some use.
Initialise(op) ==
    IF op.links = {} THEN <<UpdateAgentSettings>>
    ELSE <<UpdateAgentSettings, ReplaceRepositories>>

\* What a call does each time it holds the lock.
Stages(op) ==
    CASE op.kind = "create" -> << <<S("resolve", "links")>>, WriteEpic>>
      [] op.kind = "change" -> <<UpdateEpic>>
      [] op.kind = "list" -> <<ReadEpics>>
      [] op.kind = "role" -> <<UpdateAgentSettings>>
      [] op.kind = "setup" -> Initialise(op)
      [] op.kind = "link" -> <<ReplaceRepositories>>
-----------------------------------------------------------------------------
Init ==
    /\ \/ disk = [base |-> FALSE, project |-> FALSE, links |-> {},
                  settings |-> [s \in SettingsTables |-> Absent],
                  temporary |-> [s \in SettingsTables |-> Absent], rows |-> NoRows]
       \/ \E set \in [Roles -> {[agent |-> 0, limited |-> TRUE], [agent |-> -1, limited |-> FALSE]}] :
            disk = [base |-> TRUE, project |-> TRUE, links |-> Repositories,
                    settings |-> [s \in SettingsTables |-> [shape |-> "legacy", row |-> set]],
                    temporary |-> [s \in SettingsTables |-> Absent],
                    rows |-> [p \in PartNames |-> [e \in Epics |-> {}]]]
    /\ tx = NoTx
    /\ handle = FALSE
    /\ lock = Nothing
    /\ task = [t \in Callers |-> Idle]
    /\ calls = 0 /\ failures = 0 /\ crashes = 0
    /\ told = [e \in Epics |-> {}]

\* A new epic's id is no other's.
Fresh(e) ==
    /\ disk.rows["epics"][e] = NoEpic
    /\ \A t \in Callers : task[t].at # "idle" => task[t].op.kind # "create" \/ task[t].op.epic # e

Ask(t) ==
    /\ task[t].at = "idle"
    /\ calls < MaxCalls
    /\ calls' = calls + 1
    /\ \E kind \in Kinds, e \in Epics, r \in Roles \cup {Nothing}, links \in SUBSET Repositories :
         /\ kind = "create" => Fresh(e)
         /\ kind = "role" <=> r # Nothing
         /\ kind \notin {"create", "setup", "link"} => links = {}
         /\ task' = [task EXCEPT ![t] = [Idle EXCEPT !.at = "waiting",
                       !.op = [kind |-> kind, epic |-> e, role |-> r, links |-> links,
                               n |-> calls + 1,
                               since |-> IF kind = "list" THEN told ELSE Nothing]]]
    /\ UNCHANGED <<disk, tx, handle, lock, failures, crashes, told>>

\* Repository.mutate and the readers beside it: the lock, and the store opened
\* under it by whoever comes first.
Lock(t) ==
    /\ task[t].at = "waiting"
    /\ lock = Nothing
    /\ lock' = t
    /\ task' = [task EXCEPT ![t].at = "running",
                            ![t].todo = (IF handle THEN <<>> ELSE OpenStore)
                                        \o Stages(task[t].op)[task[t].stage]]
    /\ UNCHANGED <<disk, tx, handle, calls, failures, crashes, told>>
-----------------------------------------------------------------------------
(* Statements *)

Working(t) == IF tx.of = t THEN tx.db ELSE disk

\* t's next statement is do, and the one connection is not another's.
At(t, do) ==
    /\ task[t].at = "running"
    /\ task[t].todo # <<>> /\ Head(task[t].todo).do = do
    /\ tx.of \in {t, Nothing}

On(t) == Head(task[t].todo).on

\* The call leaves the lock, for its next mutation or for good.
Leave(t, answer) ==
    /\ lock' = Nothing
    /\ LET k == task[t] IN
       task' = [task EXCEPT ![t] =
         IF answer = "done" /\ k.stage < Len(Stages(k.op))
         THEN [k EXCEPT !.at = "waiting", !.stage = k.stage + 1, !.todo = <<>>]
         ELSE [k EXCEPT !.at = "answering", !.todo = <<>>, !.answer = answer]]

\* On to what is left to do, with what was read.
Proceed(t, todo, rows, settings) ==
    IF todo = <<>>
    THEN Leave(t, "done")
    ELSE /\ task' = [task EXCEPT ![t].todo = todo, ![t].rows = rows, ![t].settings = settings]
         /\ UNCHANGED lock

Then(t) == Proceed(t, Tail(task[t].todo), task[t].rows, task[t].settings)

\* A statement's effect is the transaction's until it commits.
Put(t, db) ==
    /\ IF tx.of = t THEN tx' = [tx EXCEPT !.db = db] /\ UNCHANGED disk
       ELSE disk' = db /\ UNCHANGED tx
    /\ UNCHANGED <<handle, calls, failures, crashes, told>>

Keeps == UNCHANGED <<disk, tx, handle, calls, failures, crashes, told>>

\* The database takes the statement: names are free, keys are new, references exist.
Takes(t) ==
    LET s == Head(task[t].todo)
        db == Working(t)
        e == task[t].op.epic
    IN CASE s.do = "build" -> db.temporary[s.on].shape = "absent"
         [] s.do \in {"copy", "rename"} -> db.temporary[s.on].shape # "absent"
         [] s.do = "require" -> db.project
         [] s.do = "replace" -> db.settings["agent_settings"].shape = "current"
         [] s.do = "insert" ->
              /\ db.rows[s.on][e] = NoEpic
              /\ \A i \in DOMAIN Parts : Parts[i] = s.on /\ i > 1 =>
                   db.rows[Parts[IF s.on = "pull_requests" THEN 2 ELSE i - 1]][e] # NoEpic
         [] OTHER -> TRUE

Begin(t) ==
    /\ At(t, "begin")
    /\ tx' = [of |-> t, db |-> disk]
    /\ Then(t)
    /\ UNCHANGED <<disk, handle, calls, failures, crashes, told>>

Commit(t) ==
    /\ At(t, "commit")
    /\ disk' = tx.db
    /\ tx' = NoTx
    /\ Then(t)
    /\ UNCHANGED <<handle, calls, failures, crashes, told>>

CreateTable(t) ==
    /\ At(t, "create")
    /\ LET db == Working(t) IN
       Put(t, IF On(t) = "base" THEN [db EXCEPT !.base = TRUE]
              ELSE IF db.settings[On(t)].shape = "absent"
              THEN [db EXCEPT !.settings[On(t)] = [Absent EXCEPT !.shape = "current"]]
              ELSE db)
    /\ Then(t)

Inspect(t) ==
    /\ At(t, "inspect")
    /\ LET legacy == Working(t).settings[On(t)].shape = "legacy" IN
       Proceed(t, (IF legacy THEN Rebuild(On(t)) ELSE <<>>) \o Tail(task[t].todo),
               task[t].rows, task[t].settings)
    /\ Keeps

BuildTable(t) ==
    /\ At(t, "build") /\ Takes(t)
    /\ Put(t, [Working(t) EXCEPT !.temporary[On(t)] = [Absent EXCEPT !.shape = "current"]])
    /\ Then(t)

CopyRows(t) ==
    /\ At(t, "copy") /\ Takes(t)
    /\ Put(t, [Working(t) EXCEPT !.temporary[On(t)].row = Working(t).settings[On(t)].row])
    /\ Then(t)

DropTable(t) ==
    /\ At(t, "drop")
    /\ Put(t, [Working(t) EXCEPT !.settings[On(t)] = Absent])
    /\ Then(t)

RenameTable(t) ==
    /\ At(t, "rename") /\ Takes(t)
    /\ Put(t, [Working(t) EXCEPT !.settings[On(t)] = Working(t).temporary[On(t)],
                                 !.temporary[On(t)] = Absent])
    /\ Then(t)

\* ensureProject: metadata that is there survives.
EnsureProject(t) ==
    /\ At(t, "ensure")
    /\ Proceed(t, (IF Working(t).project THEN <<>> ELSE WriteProject) \o Tail(task[t].todo),
               task[t].rows, task[t].settings)
    /\ Keeps

KeepHandle(t) ==
    /\ At(t, "keep")
    /\ handle' = TRUE
    /\ Then(t)
    /\ UNCHANGED <<disk, tx, calls, failures, crashes, told>>

NameProject(t) ==
    /\ At(t, "name")
    /\ Put(t, [Working(t) EXCEPT !.project = TRUE])
    /\ Then(t)

RequireProject(t) ==
    /\ At(t, "require") /\ Takes(t)
    /\ Then(t)
    /\ Keeps

Unlink(t) ==
    /\ At(t, "unlink")
    /\ Put(t, [Working(t) EXCEPT !.links = {}])
    /\ Then(t)

LinkRepositories(t) ==
    /\ At(t, "link")
    /\ Put(t, [Working(t) EXCEPT !.links = task[t].op.links])
    /\ Then(t)

\* resolveEpicRepositories: an epic of no repository is refused.
Resolve(t) ==
    /\ At(t, "resolve")
    /\ LET links == Working(t).links IN
       IF links # {} /\ task[t].op.links \subseteq links THEN Then(t) ELSE Leave(t, "refused")
    /\ Keeps

SelectSettings(t) ==
    /\ At(t, "select")
    /\ Proceed(t, Tail(task[t].todo), task[t].rows,
               Working(t).settings["agent_settings"].row)
    /\ Keeps

\* The roles a call is about.
About(op) == IF op.kind = "setup" THEN Roles ELSE IF op.kind = "role" THEN {op.role} ELSE {}

\* Only the agent of a profile is replaced.
Assigned(op, settings) ==
    [r \in Roles |-> IF r \in About(op) THEN [settings[r] EXCEPT !.agent = op.n] ELSE settings[r]]

AssignRoles(t) ==
    /\ At(t, "assign")
    /\ Proceed(t, Tail(task[t].todo), task[t].rows, Assigned(task[t].op, task[t].settings))
    /\ Keeps

ReplaceSettings(t) ==
    /\ At(t, "replace") /\ Takes(t)
    /\ Put(t, [Working(t) EXCEPT !.settings["agent_settings"].row = task[t].settings])
    /\ Then(t)

\* One epic's rows, or for a list every epic's.
ReadPart(t) ==
    /\ At(t, "read")
    /\ LET about == IF task[t].op.kind = "list" THEN Epics ELSE {task[t].op.epic}
           rows == [e \in Epics |-> IF e \in about THEN Working(t).rows[On(t)][e] ELSE NoEpic]
       IN IF task[t].op.kind = "change" /\ rows[task[t].op.epic] = NoEpic
          THEN /\ Leave(t, "refused")
               /\ tx' = NoTx
               /\ UNCHANGED <<disk, handle, calls, failures, crashes, told>>
          ELSE /\ Proceed(t, Tail(task[t].todo), [task[t].rows EXCEPT ![On(t)] = rows],
                          task[t].settings)
               /\ Keeps

\* The use case's function, and the aggregate's Validate after it.
ChangeEpic(t) ==
    /\ At(t, "change")
    /\ \/ Leave(t, "refused")
       \/ Proceed(t, Tail(task[t].todo),
                  [p \in PartNames |-> [task[t].rows[p] EXCEPT ![task[t].op.epic] = @ \cup {task[t].op.n}]],
                  task[t].settings)
    /\ Keeps

\* What refers to a deleted row goes with it.
DeleteEpic(t) ==
    /\ At(t, "delete")
    /\ Put(t, [Working(t) EXCEPT !.rows = [p \in PartNames |-> [@[p] EXCEPT ![task[t].op.epic] = NoEpic]]])
    /\ Then(t)

InsertPart(t) ==
    /\ At(t, "insert") /\ Takes(t)
    /\ LET op == task[t].op IN
       Put(t, [Working(t) EXCEPT !.rows[On(t)][op.epic] =
                 IF op.kind = "create" THEN {op.n} ELSE task[t].rows[On(t)][op.epic]])
    /\ Then(t)

\* Mutant: the failing call keeps the lock.
FailsLocked(t) ==
    /\ task[t].at = "running" /\ task[t].todo # <<>> /\ tx.of \in {t, Nothing}
    /\ Takes(t) => failures < MaxFailures
    /\ failures' = failures + (IF Takes(t) THEN 1 ELSE 0)
    /\ tx' = NoTx
    /\ task' = [task EXCEPT ![t].at = "answering", ![t].todo = <<>>, ![t].answer = "failed"]
    /\ UNCHANGED <<disk, handle, lock, calls, crashes, told>>

\* A statement fails: the transaction is rolled back and the caller told.  A store
\* that was being opened is closed again.
Fails(t) ==
    /\ task[t].at = "running" /\ task[t].todo # <<>> /\ tx.of \in {t, Nothing}
    /\ Takes(t) => failures < MaxFailures
    /\ failures' = failures + (IF Takes(t) THEN 1 ELSE 0)
    /\ tx' = NoTx
    /\ Leave(t, "failed")
    /\ UNCHANGED <<disk, handle, calls, crashes, told>>

Answer(t) ==
    /\ task[t].at = "answering"
    /\ task' = [task EXCEPT ![t] = Idle]
    /\ told' = IF task[t].answer = "done" /\ task[t].op.kind \in {"create", "change"}
               THEN [told EXCEPT ![task[t].op.epic] = @ \cup {task[t].op.n}]
               ELSE told
    /\ UNCHANGED <<disk, tx, handle, lock, calls, failures, crashes>>

\* The journal is rolled back by the next opening.
Crash ==
    /\ crashes < MaxCrashes
    /\ crashes' = crashes + 1
    /\ tx' = NoTx
    /\ handle' = FALSE
    /\ lock' = Nothing
    /\ task' = [t \in Callers |-> Idle]
    /\ UNCHANGED <<disk, calls, failures, told>>

Statement(t) ==
    \/ Begin(t) \/ Commit(t) \/ CreateTable(t) \/ Inspect(t) \/ BuildTable(t) \/ CopyRows(t)
    \/ DropTable(t) \/ RenameTable(t) \/ EnsureProject(t) \/ KeepHandle(t) \/ NameProject(t)
    \/ RequireProject(t) \/ Unlink(t) \/ LinkRepositories(t) \/ Resolve(t) \/ SelectSettings(t)
    \/ AssignRoles(t) \/ ReplaceSettings(t) \/ ReadPart(t) \/ ChangeEpic(t) \/ DeleteEpic(t)
    \/ InsertPart(t) \/ Fails(t)

Next ==
    \/ \E t \in Callers : Ask(t) \/ Lock(t) \/ Statement(t) \/ Answer(t)
    \/ Crash

\* Goroutines run, and the lock is a sync.Mutex, which lets nobody wait for ever.
Fairness ==
    \A t \in Callers : SF_vars(Lock(t)) /\ WF_vars(Statement(t)) /\ WF_vars(Answer(t))

Spec == Init /\ [][Next]_vars /\ Fairness
-----------------------------------------------------------------------------
(* Properties *)

\* An epic as its five tables have it, which they agree on.
Whole(rows, e) ==
    IF \A p \in PartNames : rows[p][e] = rows["epics"][e] THEN rows["epics"][e] ELSE Nothing

\* A call is acted on when it commits, and in "answering" on it waits to be told.
CallOf(t) ==
    LET k == task[t] IN
    IF k.at = "idle" \/ k.op.kind \notin {"create", "change", "list"}
    THEN [at |-> "idle", kind |-> "none", epic |-> Nothing, n |-> Nothing,
          answer |-> "none", seen |-> Nothing, since |-> Nothing]
    ELSE [at |-> IF k.at = "answering" THEN "acted" ELSE "asked",
          kind |-> k.op.kind, epic |-> k.op.epic, n |-> k.op.n, answer |-> k.answer,
          seen |-> IF k.op.kind = "list" /\ k.answer = "done"
                   THEN [e \in Epics |-> Whole(k.rows, e)] ELSE Nothing,
          since |-> k.op.since]

A == INSTANCE Aggregates WITH
    Calls <- Call,
    store <- [e \in Epics |-> Whole(disk.rows, e)],
    call <- [t \in Callers |-> CallOf(t)]

\* Whatever fails and wherever the daemon dies, an epic is created, changed and
\* listed in one step: no change is lost to another caller's, none is half
\* written, and no list is of two moments (repository.go:186-210, store.go:411-422).
OneStep == A!Spec

\* No statement of a call is refused by the schema: the migration finds its names
\* free after any earlier death, and rows go in after what they refer to and
\* after what had their keys (store.go:149-176, 474-527).
StatementsApply ==
    \A t \in Callers : task[t].at = "running" /\ task[t].todo # <<>> /\ tx.of \in {t, Nothing} => Takes(t)

\* A profile in a settings table is changed by a call for its role, to that call's
\* agent and its round limit left alone, and by nothing else: not by the
\* migration of an older version's table, a failure, a death, or a call for
\* another role that read the row before (set_agent_role.go:35-41, store.go:122-176).
ProfilesKept ==
    [][\A s \in SettingsTables, r \in Roles :
         LET old == disk.settings[s].row[r]
             new == disk'.settings[s].row[r]
         IN old # new =>
              /\ s = "agent_settings" /\ new.limited = old.limited
              /\ \E t \in Callers : lock = t /\ r \in About(task[t].op) /\ new.agent = task[t].op.n
      ]_vars

\* Every call is answered, whichever call before it failed and where.
EveryCallAnswered == \A t \in Callers : task[t].at = "waiting" ~> task[t].at = "idle"
=============================================================================
