----------------------------- MODULE StoreProofs -----------------------------
(***************************************************************************)
(* Theorems about Store, for any file, epics, roles, repositories, callers  *)
(* and any calls, failures and deaths: a store whose calls are statements   *)
(* executed one by one is a store whose calls are single steps.             *)
(* The invariant says, for each statement of each program, what the         *)
(* statements before it have made of the transaction and of what was read.  *)
(***************************************************************************)
EXTENDS Store, SequenceTheorems, TLAPS

\* What is left of a program from its k-th statement on.
Rest(s, k) == SubSeq(s, k, Len(s))

-----------------------------------------------------------------------------
(* The invariant.                                                           *)

\* The program t executes under the lock, after the store is open.
Code(t) == Stages(task[t].op)[task[t].stage]

\* A migrated database: both settings tables are those of this version.
Current(db) == \A s \in SettingsTables : db.settings[s].shape = "current"

\* Between two transactions the file has no table half migrated and no epic half
\* written, whoever is doing what, and an open store is a migrated one.
FileSound ==
    /\ disk.temporary = [s \in SettingsTables |-> Absent]
    /\ \A s \in SettingsTables : disk.settings[s].shape = "absent" => disk.settings[s] = Absent
    /\ handle => disk.project /\ Current(disk)
    /\ \A p \in PartNames : disk.rows[p] = disk.rows["epics"]

\* The table's profiles are where they were, or would be if this were committed.
Carried(db, s) ==
    /\ db.temporary[s] = Absent
    /\ db.settings[s].shape # "absent"
    /\ db.settings[s].row = disk.settings[s].row

InTx(t) == tx.of = t /\ tx.db \in Database

\* Before the k-th statement of OpenStore.
OpenAt(t, k) ==
    /\ ~handle
    /\ IF k \in 5..7
       THEN /\ InTx(t) /\ tx.db.rows = disk.rows
            /\ \A s \in SettingsTables : Carried(tx.db, s)
            /\ k > 5 => tx.db.settings["agent_settings"].shape = "current"
            /\ k > 6 => tx.db.settings["repository_settings"].shape = "current"
       ELSE tx = NoTx
    /\ k > 2 => disk.settings["agent_settings"].shape # "absent"
    /\ k > 3 => disk.settings["repository_settings"].shape # "absent"
    /\ k > 7 => Current(disk)
    /\ k > 8 => disk.project

\* Before the j-th statement that rebuilds table s.
RebuildAt(t, s, j) ==
    /\ ~handle
    /\ InTx(t) /\ tx.db.rows = disk.rows
    /\ \A u \in SettingsTables : disk.settings[u].shape # "absent"
    /\ \A u \in SettingsTables \ {s} : Carried(tx.db, u)
    /\ s = "repository_settings" => tx.db.settings["agent_settings"].shape = "current"
    /\ j = 1 => tx.db.temporary[s] = Absent
    /\ j > 1 => tx.db.temporary[s].shape = "current"
    /\ IF j < 3 THEN tx.db.settings[s].row = disk.settings[s].row
       ELSE tx.db.temporary[s].row = disk.settings[s].row

\* A transaction that has not touched what the epics and the settings are in.
Aside(t) ==
    /\ InTx(t)
    /\ tx.db.settings = disk.settings /\ tx.db.temporary = disk.temporary
    /\ tx.db.rows = disk.rows

\* Before the j-th statement of WriteProject.
ProjectAt(t, j) ==
    /\ ~handle /\ Current(disk)
    /\ IF j = 1 THEN tx = NoTx ELSE Aside(t)
    /\ j > 2 => tx.db.project

\* Before the k-th statement of ReplaceRepositories.
LinkingAt(t, k) ==
    IF k = 1 THEN tx = NoTx ELSE Aside(t) /\ tx.db.project = disk.project

\* Before the k-th statement of UpdateAgentSettings.
SettingAt(t, k) ==
    LET row == disk.settings["agent_settings"].row
    IN  /\ tx = NoTx
        /\ k = 2 => task[t].settings = row
        /\ k = 3 => task[t].settings = Assigned(task[t].op, row)

\* The epics a reader reads.
Read(op) == IF op.kind = "list" THEN Epics ELSE {op.epic}

\* The first n tables are read, as they still are.
HasRead(t, n) ==
    \A i \in DOMAIN Parts : i <= n =>
        /\ \A e \in Read(task[t].op) : task[t].rows[Parts[i]][e] = disk.rows[Parts[i]][e]
        /\ task[t].op.kind = "change" => disk.rows["epics"][task[t].op.epic] # NoEpic

\* Before the k-th statement of ReadEpics.
ReadingAt(t, k) ==
    /\ IF k = 1 THEN tx = NoTx ELSE tx = [of |-> t, db |-> disk]
    /\ HasRead(t, k - 2)

\* The epic as the call leaves it.
Written(op) ==
    IF op.kind = "create" THEN {op.n} ELSE disk.rows["epics"][op.epic] \cup {op.n}

\* Before the k-th statement of WriteEpic.
WritingAt(t, k) ==
    LET op == task[t].op
    IN  IF k = 1 THEN tx = NoTx
        ELSE /\ InTx(t)
             /\ tx.db.settings = disk.settings /\ tx.db.temporary = disk.temporary
             /\ tx.db.project = disk.project
             /\ \A p \in PartNames, e \in Epics \ {op.epic} : tx.db.rows[p][e] = disk.rows[p][e]
             /\ k > 2 => \A i \in DOMAIN Parts :
                   tx.db.rows[Parts[i]][op.epic] = IF i < k - 2 THEN Written(op) ELSE NoEpic

\* What a change makes of the epic it read.
Changed(t) ==
    LET op == task[t].op
    IN  /\ disk.rows["epics"][op.epic] # NoEpic
        /\ \A p \in PartNames : task[t].rows[p][op.epic] = Written(op)

\* Before the k-th statement of a call's own program.
StageAt(t, k) ==
    LET kind == task[t].op.kind
        stage == task[t].stage
    IN  /\ handle
        /\ kind = "create" => IF stage = 1 THEN tx = NoTx ELSE WritingAt(t, k)
        /\ kind = "list" => ReadingAt(t, k)
        /\ kind = "change" =>
              IF k < 8 THEN ReadingAt(t, k)
              ELSE IF k = 8 THEN tx = NoTx /\ HasRead(t, 5)
              ELSE Changed(t) /\ WritingAt(t, k - 8)
        /\ kind = "role" \/ (kind = "setup" /\ stage = 1) => SettingAt(t, k)
        /\ kind = "link" \/ (kind = "setup" /\ stage = 2) => LinkingAt(t, k)

\* The statement of OpenStore that follows the inspection of table s.
AfterInspect(s) == IF s = "agent_settings" THEN 6 ELSE 7

\* Where the program of a call under the lock stands.
Stands(t) ==
    \/ \E k \in 1..Len(Code(t)) :
          task[t].todo = Rest(Code(t), k) \o <<>> /\ StageAt(t, k)
    \/ \E k \in 1..Len(OpenStore) :
          task[t].todo = Rest(OpenStore, k) \o Code(t) /\ OpenAt(t, k)
    \/ \E s \in SettingsTables, j \in 1..Len(Rebuild("agent_settings")) :
          /\ task[t].todo = Rest(Rebuild(s), j) \o (Rest(OpenStore, AfterInspect(s)) \o Code(t))
          /\ RebuildAt(t, s, j)
    \/ \E j \in 1..Len(WriteProject) :
          /\ task[t].todo = Rest(WriteProject, j) \o (Rest(OpenStore, 9) \o Code(t))
          /\ ProjectAt(t, j)

\* A call that waits or runs has no answer, and one that runs has the lock.
CallSound(t) ==
    LET k == task[t]
    IN  /\ k.at = "running" <=> lock = t
        /\ k.at = "idle" <=> k = Idle
        /\ k.at # "idle" =>
              /\ k.op \in Op
              /\ k.op.kind = "role" => k.op.role \in Roles
              /\ IF k.op.kind = "list" THEN k.op.since \in [Epics -> SUBSET Call]
                 ELSE k.op.since = Nothing
        /\ k.at \in {"waiting", "running"} =>
              k.answer = "none" /\ k.stage <= Len(Stages(k.op))
        /\ k.at = "running" => Stands(t)

\* The epic a call is to create is nobody else's, and is not there yet.
Creations ==
    /\ \A t \in Callers :
          task[t].at \in {"waiting", "running"} /\ task[t].op.kind = "create" =>
             disk.rows["epics"][task[t].op.epic] = NoEpic
    /\ \A t, u \in Callers :
          /\ t # u /\ task[t].at # "idle" /\ task[u].at # "idle"
          /\ task[t].op.kind = "create" /\ task[u].op.kind = "create"
          => task[t].op.epic # task[u].op.epic

IInv ==
    /\ TypeOK
    /\ FileSound
    /\ \A t \in Callers : CallSound(t)
    /\ lock = Nothing => tx = NoTx
    /\ Creations

-----------------------------------------------------------------------------
(* Programs.                                                                *)

\* The head of what is left of a program is its next statement, and behind it is
\* what is left from the statement after that.
LEMMA RestOf ==
    ASSUME NEW s \in Seq(Instruction), NEW r \in Seq(Instruction), NEW k \in 1..Len(s)
    PROVE  /\ Rest(s, k) \o r # <<>>
           /\ Head(Rest(s, k) \o r) = s[k]
           /\ Tail(Rest(s, k) \o r) = Rest(s, k + 1) \o r
           /\ Rest(s, Len(s) + 1) \o r = r
           /\ Rest(s, k) \o r \in Seq(Instruction)
<1>1. /\ Len(s) \in Nat /\ \A i \in 1..Len(s) : s[i] \in Instruction
      /\ Len(r) \in Nat /\ k \in Int /\ 1 <= k /\ k <= Len(s)
  OBVIOUS
<1>2. /\ Rest(s, k) \in Seq(Instruction) /\ Len(Rest(s, k)) = Len(s) - k + 1
      /\ \A i \in 1..(Len(s) - k + 1) : Rest(s, k)[i] = s[k + i - 1]
  BY <1>1, SubSeqProperties DEF Rest
<1>3. /\ Rest(s, k + 1) \in Seq(Instruction) /\ Len(Rest(s, k + 1)) = Len(s) - k
      /\ \A i \in 1..(Len(s) - k) : Rest(s, k + 1)[i] = s[k + i]
  BY <1>1, SubSeqProperties DEF Rest
<1>4. /\ Rest(s, k) \o r \in Seq(Instruction) /\ Len(Rest(s, k) \o r) = Len(s) - k + 1 + Len(r)
      /\ (Rest(s, k) \o r)[1] = s[k]
  <2>1. 1 \in 1..Len(Rest(s, k)) /\ k + 1 - 1 = k
    BY <1>1, <1>2
  <2> QED  BY <1>1, <1>2, <2>1, ConcatProperties
<1>5. Rest(s, k) \o r # <<>> /\ Head(Rest(s, k) \o r) = s[k]
  BY <1>1, <1>4
<1>6. Tail(Rest(s, k) \o r) = Rest(s, k + 1) \o r
  <2>1. /\ Tail(Rest(s, k) \o r) \in Seq(Instruction)
        /\ Len(Tail(Rest(s, k) \o r)) = Len(s) - k + Len(r)
        /\ \A i \in 1..(Len(s) - k + Len(r)) : Tail(Rest(s, k) \o r)[i] = (Rest(s, k) \o r)[i + 1]
    BY <1>1, <1>4, <1>5, HeadTailProperties
  <2>2. /\ Rest(s, k + 1) \o r \in Seq(Instruction)
        /\ Len(Rest(s, k + 1) \o r) = Len(s) - k + Len(r)
    BY <1>3, ConcatProperties
  <2>3. ASSUME NEW i \in 1..(Len(s) - k + Len(r))
        PROVE  (Rest(s, k) \o r)[i + 1] = (Rest(s, k + 1) \o r)[i]
    <3>1. (Rest(s, k) \o r)[i + 1] = IF i <= Len(s) - k THEN s[k + i] ELSE r[i - (Len(s) - k)]
      <4>1. (Rest(s, k) \o r)[i + 1] = IF i + 1 <= Len(s) - k + 1 THEN Rest(s, k)[i + 1]
                                          ELSE r[i + 1 - (Len(s) - k + 1)]
        BY <1>1, <1>2, ConcatProperties
      <4>2. i + 1 - (Len(s) - k + 1) = i - (Len(s) - k) /\ k + (i + 1) - 1 = k + i
        BY <1>1
      <4> QED  BY <1>1, <1>2, <4>1, <4>2
    <3>2. (Rest(s, k + 1) \o r)[i] = IF i <= Len(s) - k THEN s[k + i] ELSE r[i - (Len(s) - k)]
      BY <1>1, <1>3, ConcatProperties
    <3>3. CASE i <= Len(s) - k
      BY <3>1, <3>2, <3>3
    <3>4. CASE ~(i <= Len(s) - k)
      BY <3>1, <3>2, <3>4
    <3> QED  BY <3>3, <3>4
  <2> QED BY <2>1, <2>2, <2>3, SeqEqual
<1>7. Rest(s, Len(s) + 1) = <<>>
  BY <1>1, SubSeqEmpty DEF Rest
<1> QED
  BY <1>4, <1>5, <1>6, <1>7, ConcatEmptySeq

\* The tables by name.
LEMMA PartsAre ==
    /\ DOMAIN Parts = 1..5 /\ Len(Parts) = 5
    /\ Parts[1] = "epics" /\ Parts[2] = "issues" /\ Parts[3] = "issue_comments"
    /\ Parts[4] = "pull_requests" /\ Parts[5] = "pull_request_comments"
    /\ PartNames = {"epics", "issues", "issue_comments", "pull_requests", "pull_request_comments"}
  <1>1. /\ DOMAIN Parts = 1..5 /\ Len(Parts) = 5
        /\ Parts[1] = "epics" /\ Parts[2] = "issues" /\ Parts[3] = "issue_comments"
        /\ Parts[4] = "pull_requests" /\ Parts[5] = "pull_request_comments"
    BY DEF Parts
  <1> QED
    BY <1>1 DEF PartNames

\* A verb and a subject make an instruction.
LEMMA InstructionsAre == \A do \in Verbs, on \in Subjects : S(do, on) \in Instruction
  BY DEF S, Instruction

\* The statements of two programs in a row, and of three.
LEMMA BothInARow ==
    \A a, b \in Seq(Instruction) :
        /\ a \o b \in Seq(Instruction) /\ Len(a \o b) = Len(a) + Len(b)
        /\ \A i \in 1..Len(a) : (a \o b)[i] = a[i]
        /\ \A i \in 1..Len(b) : (a \o b)[Len(a) + i] = b[i]
  OBVIOUS

\* Three programs, as two.
LEMMA InARow ==
    \A a, b, c \in Seq(Instruction) :
        LET p == a \o b \o c
        IN  /\ p \in Seq(Instruction) /\ Len(p) = Len(a) + Len(b) + Len(c)
            /\ \A i \in 1..Len(a) : p[i] = a[i]
            /\ \A i \in 1..Len(b) : p[Len(a) + i] = b[i]
            /\ \A i \in 1..Len(c) : p[Len(a) + Len(b) + i] = c[i]
<1> SUFFICES ASSUME NEW a \in Seq(Instruction), NEW b \in Seq(Instruction),
                    NEW c \in Seq(Instruction)
             PROVE  LET p == a \o b \o c
                    IN  /\ p \in Seq(Instruction) /\ Len(p) = Len(a) + Len(b) + Len(c)
                        /\ \A i \in 1..Len(a) : p[i] = a[i]
                        /\ \A i \in 1..Len(b) : p[Len(a) + i] = b[i]
                        /\ \A i \in 1..Len(c) : p[Len(a) + Len(b) + i] = c[i]
  OBVIOUS
<1> DEFINE two == a \o b
<1>1. /\ two \in Seq(Instruction) /\ Len(two) = Len(a) + Len(b)
      /\ \A i \in 1..Len(a) : two[i] = a[i]
      /\ \A i \in 1..Len(b) : two[Len(a) + i] = b[i]
  BY BothInARow, Zenon
<1> HIDE DEF two
<1>2. /\ two \o c \in Seq(Instruction) /\ Len(two \o c) = Len(two) + Len(c)
      /\ \A i \in 1..Len(two) : (two \o c)[i] = two[i]
      /\ \A i \in 1..Len(c) : (two \o c)[Len(two) + i] = c[i]
  <2>1. two \in Seq(Instruction)
    BY <1>1
  <2> QED  BY <2>1, BothInARow, Zenon
<1>3. /\ Len(a) \in Nat /\ Len(b) \in Nat
      /\ \A i \in 1..Len(a) : i \in 1..Len(two)
      /\ \A i \in 1..Len(b) : Len(a) + i \in 1..Len(two)
  BY <1>1
<1>4. \A i \in 1..Len(a) : (two \o c)[i] = a[i]
  BY <1>1, <1>2, <1>3
<1>5. \A i \in 1..Len(b) : (two \o c)[Len(a) + i] = b[i]
  BY <1>1, <1>2, <1>3
<1>6. \A i \in 1..Len(c) : (two \o c)[Len(a) + Len(b) + i] = c[i]
  BY <1>1, <1>2
<1>7. two \o c = a \o b \o c
  BY DEF two
<1> QED
  BY <1>1, <1>2, <1>4, <1>5, <1>6, <1>7

\* The four statements that rebuild a table.
LEMMA RebuildIs ==
    ASSUME NEW s \in SettingsTables
    PROVE  /\ Rebuild(s) \in Seq(Instruction) /\ Len(Rebuild(s)) = 4
           /\ Rebuild(s)[1] = S("build", s) /\ Rebuild(s)[2] = S("copy", s)
           /\ Rebuild(s)[3] = S("drop", s) /\ Rebuild(s)[4] = S("rename", s)
  <1>1. \A do \in Verbs : S(do, s) \in Instruction
    BY InstructionsAre DEF Subjects
  <1>2. /\ S("build", s) \in Instruction /\ S("copy", s) \in Instruction
        /\ S("drop", s) \in Instruction /\ S("rename", s) \in Instruction
    BY <1>1 DEF Verbs
  <1> QED
    BY <1>2 DEF Rebuild

\* The four that write the project.
LEMMA WriteProjectIs ==
    /\ WriteProject \in Seq(Instruction) /\ Len(WriteProject) = 4
    /\ WriteProject[1] = S("begin", "tx") /\ WriteProject[2] = S("name", "project")
    /\ WriteProject[3] = S("unlink", "links") /\ WriteProject[4] = S("commit", "tx")
  <1>1. /\ S("begin", "tx") \in Instruction /\ S("name", "project") \in Instruction
        /\ S("unlink", "links") \in Instruction /\ S("commit", "tx") \in Instruction
    BY InstructionsAre DEF Verbs, Subjects
  <1> QED
    BY <1>1 DEF WriteProject

\* The five that replace its repositories.
LEMMA ReplaceRepositoriesIs ==
    LET p == ReplaceRepositories
    IN  /\ p \in Seq(Instruction) /\ Len(p) = 5
        /\ p[1] = S("begin", "tx") /\ p[2] = S("require", "project")
        /\ p[3] = S("unlink", "links") /\ p[4] = S("link", "links") /\ p[5] = S("commit", "tx")
  <1>1. /\ S("begin", "tx") \in Instruction /\ S("require", "project") \in Instruction
        /\ S("unlink", "links") \in Instruction /\ S("link", "links") \in Instruction
        /\ S("commit", "tx") \in Instruction
    BY InstructionsAre DEF Verbs, Subjects
  <1> QED
    BY <1>1 DEF ReplaceRepositories

\* The three that assign an agent.
LEMMA UpdateAgentSettingsIs ==
    LET p == UpdateAgentSettings
    IN  /\ p \in Seq(Instruction) /\ Len(p) = 3
        /\ p[1] = S("select", "settings") /\ p[2] = S("assign", "settings")
        /\ p[3] = S("replace", "settings")
  <1>1. /\ S("select", "settings") \in Instruction /\ S("assign", "settings") \in Instruction
        /\ S("replace", "settings") \in Instruction
    BY InstructionsAre DEF Verbs, Subjects
  <1> QED
    BY <1>1 DEF UpdateAgentSettings

\* The nine that open a store, the migration in their middle.
LEMMA OpenStoreIs ==
    /\ OpenStore \in Seq(Instruction) /\ Len(OpenStore) = 9
    /\ OpenStore[1] = S("create", "base")
    /\ OpenStore[2] = S("create", "agent_settings")
    /\ OpenStore[3] = S("create", "repository_settings")
    /\ OpenStore[4] = S("begin", "tx")
    /\ OpenStore[5] = S("inspect", "agent_settings")
    /\ OpenStore[6] = S("inspect", "repository_settings")
    /\ OpenStore[7] = S("commit", "tx")
    /\ OpenStore[8] = S("ensure", "project")
    /\ OpenStore[9] = S("keep", "handle")
  <1> DEFINE opened == <<S("ensure", "project"), S("keep", "handle")>>
  <1>1. /\ S("create", "base") \in Instruction /\ S("create", "agent_settings") \in Instruction
        /\ S("create", "repository_settings") \in Instruction
        /\ S("inspect", "agent_settings") \in Instruction
        /\ S("inspect", "repository_settings") \in Instruction
        /\ S("begin", "tx") \in Instruction /\ S("commit", "tx") \in Instruction
        /\ S("ensure", "project") \in Instruction /\ S("keep", "handle") \in Instruction
    BY InstructionsAre DEF Verbs, Subjects, SettingsTables
  <1>2. /\ Schema \in Seq(Instruction) /\ Migrate \in Seq(Instruction)
        /\ opened \in Seq(Instruction)
    BY <1>1 DEF Schema, Migrate
  <1>3. Len(Schema) = 3 /\ Len(Migrate) = 4 /\ Len(opened) = 2
    BY DEF Schema, Migrate
  <1>4. /\ Schema[1] = S("create", "base") /\ Schema[2] = S("create", "agent_settings")
        /\ Schema[3] = S("create", "repository_settings")
        /\ Migrate[1] = S("begin", "tx") /\ Migrate[2] = S("inspect", "agent_settings")
        /\ Migrate[3] = S("inspect", "repository_settings") /\ Migrate[4] = S("commit", "tx")
        /\ opened[1] = S("ensure", "project") /\ opened[2] = S("keep", "handle")
    BY DEF Schema, Migrate
  <1>5. OpenStore = Schema \o Migrate \o opened
    BY DEF OpenStore
  <1> HIDE DEF opened
  <1>6. /\ OpenStore \in Seq(Instruction)
        /\ Len(OpenStore) = Len(Schema) + Len(Migrate) + Len(opened)
        /\ \A i \in 1..Len(Schema) : OpenStore[i] = Schema[i]
        /\ \A i \in 1..Len(Migrate) : OpenStore[Len(Schema) + i] = Migrate[i]
        /\ \A i \in 1..Len(opened) : OpenStore[Len(Schema) + Len(Migrate) + i] = opened[i]
    <2>1. Schema \in Seq(Instruction) /\ Migrate \in Seq(Instruction) /\ opened \in Seq(Instruction)
      BY <1>2
    <2>2. LET p == Schema \o Migrate \o opened
          IN  /\ p \in Seq(Instruction) /\ Len(p) = Len(Schema) + Len(Migrate) + Len(opened)
              /\ \A i \in 1..Len(Schema) : p[i] = Schema[i]
              /\ \A i \in 1..Len(Migrate) : p[Len(Schema) + i] = Migrate[i]
              /\ \A i \in 1..Len(opened) : p[Len(Schema) + Len(Migrate) + i] = opened[i]
      BY <2>1, InARow, Zenon
    <2> QED  BY <1>5, <2>2
  <1>7. /\ OpenStore[1] = Schema[1] /\ OpenStore[2] = Schema[2] /\ OpenStore[3] = Schema[3]
        /\ OpenStore[Len(Schema) + 1] = Migrate[1] /\ OpenStore[Len(Schema) + 2] = Migrate[2]
    BY <1>3, <1>6
  <1>8. /\ OpenStore[Len(Schema) + 3] = Migrate[3] /\ OpenStore[Len(Schema) + 4] = Migrate[4]
        /\ OpenStore[Len(Schema) + Len(Migrate) + 1] = opened[1]
        /\ OpenStore[Len(Schema) + Len(Migrate) + 2] = opened[2]
    BY <1>3, <1>6
  <1> QED
    BY <1>3, <1>4, <1>6, <1>7, <1>8

\* The seven that read epics, five of them a table each.
LEMMA ReadEpicsIs ==
    /\ ReadEpics \in Seq(Instruction) /\ Len(ReadEpics) = 7
    /\ ReadEpics[1] = S("begin", "tx") /\ ReadEpics[7] = S("commit", "tx")
    /\ \A i \in 1..5 : ReadEpics[1 + i] = S("read", Parts[i])
  <1> DEFINE first == <<S("begin", "tx")>>
             last == <<S("commit", "tx")>>
  <1>1. S("begin", "tx") \in Instruction /\ S("commit", "tx") \in Instruction
    BY InstructionsAre DEF Verbs, Subjects
  <1>2. \A p \in PartNames : S("read", p) \in Instruction
    BY InstructionsAre DEF Verbs, Subjects
  <1>3. \A i \in 1..5 : Parts[i] \in PartNames
    BY PartsAre DEF PartNames
  <1>4. ReadRows \in Seq(Instruction) /\ Len(ReadRows) = 5
    BY <1>2, <1>3, PartsAre DEF ReadRows
  <1>5. \A i \in 1..5 : ReadRows[i] = S("read", Parts[i])
    BY PartsAre DEF ReadRows
  <1>6. first \in Seq(Instruction) /\ Len(first) = 1 /\ first[1] = S("begin", "tx")
    BY <1>1
  <1>7. last \in Seq(Instruction) /\ Len(last) = 1 /\ last[1] = S("commit", "tx")
    BY <1>1
  <1>8. ReadEpics = first \o ReadRows \o last
    BY DEF ReadEpics
  <1> HIDE DEF first, last
  <1>9. /\ ReadEpics \in Seq(Instruction)
        /\ Len(ReadEpics) = Len(first) + Len(ReadRows) + Len(last)
        /\ \A i \in 1..Len(first) : ReadEpics[i] = first[i]
        /\ \A i \in 1..Len(ReadRows) : ReadEpics[Len(first) + i] = ReadRows[i]
        /\ \A i \in 1..Len(last) : ReadEpics[Len(first) + Len(ReadRows) + i] = last[i]
    <2>1. first \in Seq(Instruction) /\ last \in Seq(Instruction)
      BY <1>6, <1>7
    <2>2. ReadRows \in Seq(Instruction)
      BY <1>4
    <2>3. LET p == first \o ReadRows \o last
          IN  /\ p \in Seq(Instruction) /\ Len(p) = Len(first) + Len(ReadRows) + Len(last)
              /\ \A i \in 1..Len(first) : p[i] = first[i]
              /\ \A i \in 1..Len(ReadRows) : p[Len(first) + i] = ReadRows[i]
              /\ \A i \in 1..Len(last) : p[Len(first) + Len(ReadRows) + i] = last[i]
      BY <2>1, <2>2, InARow, Zenon
    <2> QED  BY <1>8, <2>3
  <1>10. ReadEpics[1] = first[1] /\ ReadEpics[Len(first) + Len(ReadRows) + 1] = last[1]
    BY <1>6, <1>7, <1>9
  <1>11. \A i \in 1..5 : ReadEpics[Len(first) + i] = S("read", Parts[i])
    BY <1>4, <1>5, <1>9
  <1> QED
    BY <1>4, <1>6, <1>7, <1>9, <1>10, <1>11

\* The eight that write one.
LEMMA WriteEpicIs ==
    /\ WriteEpic \in Seq(Instruction) /\ Len(WriteEpic) = 8
    /\ WriteEpic[1] = S("begin", "tx") /\ WriteEpic[2] = S("delete", "epics")
    /\ WriteEpic[8] = S("commit", "tx")
    /\ \A i \in 1..5 : WriteEpic[2 + i] = S("insert", Parts[i])
  <1> DEFINE first == <<S("begin", "tx"), S("delete", "epics")>>
             last == <<S("commit", "tx")>>
  <1>1. S("begin", "tx") \in Instruction /\ S("commit", "tx") \in Instruction
    BY InstructionsAre DEF Verbs, Subjects
  <1>2. \A p \in PartNames : S("insert", p) \in Instruction /\ S("delete", p) \in Instruction
    BY InstructionsAre DEF Verbs, Subjects
  <1>3. /\ \A i \in 1..5 : Parts[i] \in PartNames
        /\ "epics" \in PartNames
    BY PartsAre DEF PartNames
  <1>4. InsertRows \in Seq(Instruction) /\ Len(InsertRows) = 5
    BY <1>2, <1>3, PartsAre DEF InsertRows
  <1>5. \A i \in 1..5 : InsertRows[i] = S("insert", Parts[i])
    BY PartsAre DEF InsertRows
  <1>6. /\ first \in Seq(Instruction) /\ Len(first) = 2 /\ first[1] = S("begin", "tx")
        /\ first[2] = S("delete", "epics")
    BY <1>1, <1>2, <1>3
  <1>7. last \in Seq(Instruction) /\ Len(last) = 1 /\ last[1] = S("commit", "tx")
    BY <1>1
  <1>8. WriteEpic = first \o InsertRows \o last
    BY DEF WriteEpic
  <1> HIDE DEF first, last
  <1>9. /\ WriteEpic \in Seq(Instruction)
        /\ Len(WriteEpic) = Len(first) + Len(InsertRows) + Len(last)
        /\ \A i \in 1..Len(first) : WriteEpic[i] = first[i]
        /\ \A i \in 1..Len(InsertRows) : WriteEpic[Len(first) + i] = InsertRows[i]
        /\ \A i \in 1..Len(last) : WriteEpic[Len(first) + Len(InsertRows) + i] = last[i]
    <2>1. first \in Seq(Instruction) /\ last \in Seq(Instruction)
      BY <1>6, <1>7
    <2>2. InsertRows \in Seq(Instruction)
      BY <1>4
    <2>3. LET p == first \o InsertRows \o last
          IN  /\ p \in Seq(Instruction) /\ Len(p) = Len(first) + Len(InsertRows) + Len(last)
              /\ \A i \in 1..Len(first) : p[i] = first[i]
              /\ \A i \in 1..Len(InsertRows) : p[Len(first) + i] = InsertRows[i]
              /\ \A i \in 1..Len(last) : p[Len(first) + Len(InsertRows) + i] = last[i]
      BY <2>1, <2>2, InARow, Zenon
    <2> QED  BY <1>8, <2>3
  <1>10. /\ WriteEpic[1] = first[1] /\ WriteEpic[2] = first[2]
         /\ WriteEpic[Len(first) + Len(InsertRows) + 1] = last[1]
    BY <1>6, <1>7, <1>9
  <1>11. \A i \in 1..5 : WriteEpic[Len(first) + i] = S("insert", Parts[i])
    BY <1>4, <1>5, <1>9
  <1> QED
    BY <1>4, <1>6, <1>7, <1>9, <1>10, <1>11

\* A change reads, then changes what it read, then writes.
LEMMA UpdateEpicIs ==
    /\ UpdateEpic \in Seq(Instruction) /\ Len(UpdateEpic) = 16
    /\ \A i \in 1..7 : UpdateEpic[i] = ReadEpics[i]
    /\ UpdateEpic[8] = S("change", "epic")
    /\ \A i \in 1..8 : UpdateEpic[8 + i] = WriteEpic[i]
  <1> DEFINE change == <<S("change", "epic")>>
  <1>1. S("change", "epic") \in Instruction
    BY InstructionsAre DEF Verbs, Subjects
  <1>2. change \in Seq(Instruction) /\ Len(change) = 1 /\ change[1] = S("change", "epic")
    BY <1>1
  <1>3. UpdateEpic = ReadEpics \o change \o WriteEpic
    BY DEF UpdateEpic
  <1> HIDE DEF change
  <1>4. /\ UpdateEpic \in Seq(Instruction)
        /\ Len(UpdateEpic) = Len(ReadEpics) + Len(change) + Len(WriteEpic)
        /\ \A i \in 1..Len(ReadEpics) : UpdateEpic[i] = ReadEpics[i]
        /\ \A i \in 1..Len(change) : UpdateEpic[Len(ReadEpics) + i] = change[i]
        /\ \A i \in 1..Len(WriteEpic) :
              UpdateEpic[Len(ReadEpics) + Len(change) + i] = WriteEpic[i]
    <2>1. change \in Seq(Instruction)
      BY <1>2
    <2>2. ReadEpics \in Seq(Instruction) /\ WriteEpic \in Seq(Instruction)
      BY ReadEpicsIs, WriteEpicIs, Zenon
    <2>3. LET p == ReadEpics \o change \o WriteEpic
          IN  /\ p \in Seq(Instruction) /\ Len(p) = Len(ReadEpics) + Len(change) + Len(WriteEpic)
              /\ \A i \in 1..Len(ReadEpics) : p[i] = ReadEpics[i]
              /\ \A i \in 1..Len(change) : p[Len(ReadEpics) + i] = change[i]
              /\ \A i \in 1..Len(WriteEpic) : p[Len(ReadEpics) + Len(change) + i] = WriteEpic[i]
      BY <2>1, <2>2, InARow, Zenon
    <2> QED  BY <1>3, <2>3
  <1>5. UpdateEpic[Len(ReadEpics) + 1] = change[1]
    BY <1>2, <1>4
  <1> QED
    BY <1>2, <1>4, <1>5, ReadEpicsIs, WriteEpicIs

\* What each kind of call executes.
LEMMA StagesAre ==
    ASSUME NEW op
    PROVE  /\ op.kind = "create" =>
                 /\ Len(Stages(op)) = 2
                 /\ Stages(op)[1] = <<S("resolve", "links")>> /\ Stages(op)[2] = WriteEpic
           /\ op.kind = "change" => Len(Stages(op)) = 1 /\ Stages(op)[1] = UpdateEpic
           /\ op.kind = "list" => Len(Stages(op)) = 1 /\ Stages(op)[1] = ReadEpics
           /\ op.kind = "role" => Len(Stages(op)) = 1 /\ Stages(op)[1] = UpdateAgentSettings
           /\ op.kind = "setup" =>
                 /\ Len(Stages(op)) \in {1, 2} /\ Stages(op)[1] = UpdateAgentSettings
                 /\ Len(Stages(op)) = 2 => Stages(op)[2] = ReplaceRepositories
           /\ op.kind = "link" => Len(Stages(op)) = 1 /\ Stages(op)[1] = ReplaceRepositories
<1>1. CASE op.kind = "create"  BY <1>1 DEF Stages
<1>2. CASE op.kind = "change"  BY <1>2 DEF Stages
<1>3. CASE op.kind = "list"  BY <1>3 DEF Stages
<1>4. CASE op.kind = "role"  BY <1>4 DEF Stages
<1>5. CASE op.kind = "setup"  BY <1>5 DEF Stages, Initialise
<1>6. CASE op.kind = "link"  BY <1>6 DEF Stages
<1> QED
  BY <1>1, <1>2, <1>3, <1>4, <1>5, <1>6, Zenon

\* Which is a program, and not an empty one.
LEMMA StageIsAProgram ==
    ASSUME NEW op, op.kind \in KindNames, NEW stage \in {1, 2}, stage <= Len(Stages(op))
    PROVE  Stages(op)[stage] \in Seq(Instruction) /\ Len(Stages(op)[stage]) > 0
<1> DEFINE Program(p) == p \in Seq(Instruction) /\ Len(p) > 0
           One(p) == Len(Stages(op)) = 1 /\ Stages(op)[1] = p
<1>1. Program(<<S("resolve", "links")>>)
  <2>1. S("resolve", "links") \in Instruction
    BY InstructionsAre DEF Verbs, Subjects
  <2> QED  BY <2>1
<1>2. Program(WriteEpic)  BY WriteEpicIs
<1>3. Program(UpdateEpic)  BY UpdateEpicIs
<1>4. Program(ReadEpics)  BY ReadEpicsIs
<1>5. Program(UpdateAgentSettings)  BY UpdateAgentSettingsIs
<1>6. Program(ReplaceRepositories)  BY ReplaceRepositoriesIs
<1>7. CASE op.kind = "create"
  <2>1. /\ Len(Stages(op)) = 2
        /\ Stages(op)[1] = <<S("resolve", "links")>> /\ Stages(op)[2] = WriteEpic
    BY <1>7, StagesAre
  <2> HIDE DEF Program
  <2>2. Program(Stages(op)[stage])
    <3>1. CASE stage = 1
      BY <3>1, <2>1, <1>1
    <3>2. CASE stage = 2
      BY <3>2, <2>1, <1>2
    <3> QED  BY <3>1, <3>2
  <2> QED  BY <2>2 DEF Program
<1>8. ASSUME NEW p, Program(p), One(p)
      PROVE  Stages(op)[stage] \in Seq(Instruction) /\ Len(Stages(op)[stage]) > 0
  <2>1. stage = 1
    BY <1>8
  <2> QED  BY <1>8, <2>1
<1>9. CASE op.kind = "setup"
  <2>1. /\ Len(Stages(op)) \in {1, 2} /\ Stages(op)[1] = UpdateAgentSettings
        /\ Len(Stages(op)) = 2 => Stages(op)[2] = ReplaceRepositories
    BY <1>9, StagesAre
  <2> HIDE DEF Program
  <2>2. Program(Stages(op)[stage])
    <3>1. CASE stage = 1
      BY <3>1, <2>1, <1>5
    <3>2. CASE stage = 2
      <4>1. Len(Stages(op)) = 2
        <5>1. CASE Len(Stages(op)) = 1
          BY <3>2, <5>1
        <5> QED  BY <2>1, <5>1
      <4> QED  BY <3>2, <4>1, <2>1, <1>6
    <3> QED  BY <3>1, <3>2
  <2> QED  BY <2>2 DEF Program
<1>10. CASE op.kind = "change"
  <2>1. One(UpdateEpic)
    BY <1>10, StagesAre, Zenon
  <2> QED  BY <2>1, <1>3, <1>8
<1>11. CASE op.kind = "list"
  <2>1. One(ReadEpics)
    BY <1>11, StagesAre, Zenon
  <2> QED  BY <2>1, <1>4, <1>8
<1>12. CASE op.kind = "role"
  <2>1. One(UpdateAgentSettings)
    BY <1>12, StagesAre, Zenon
  <2> QED  BY <2>1, <1>5, <1>8
<1>13. CASE op.kind = "link"
  <2>1. One(ReplaceRepositories)
    BY <1>13, StagesAre, Zenon
  <2> QED  BY <2>1, <1>6, <1>8
<1>14. op.kind \in {"create", "change", "list", "role", "setup", "link"}
  BY DEF KindNames
<1> QED
  BY <1>7, <1>9, <1>10, <1>11, <1>12, <1>13, <1>14

-----------------------------------------------------------------------------
(* One statement.                                                           *)

\* A statement that does not fail is the one its name says.
Named(t, do) ==
    /\ do = "begin" => Begin(t)
    /\ do = "commit" => Commit(t)
    /\ do = "create" => CreateTable(t)
    /\ do = "inspect" => Inspect(t)
    /\ do = "build" => BuildTable(t)
    /\ do = "copy" => CopyRows(t)
    /\ do = "drop" => DropTable(t)
    /\ do = "rename" => RenameTable(t)
    /\ do = "ensure" => EnsureProject(t)
    /\ do = "keep" => KeepHandle(t)
    /\ do = "name" => NameProject(t)
    /\ do = "require" => RequireProject(t)
    /\ do = "unlink" => Unlink(t)
    /\ do = "link" => LinkRepositories(t)
    /\ do = "resolve" => Resolve(t)
    /\ do = "select" => SelectSettings(t)
    /\ do = "assign" => AssignRoles(t)
    /\ do = "replace" => ReplaceSettings(t)
    /\ do = "read" => ReadPart(t)
    /\ do = "change" => ChangeEpic(t)
    /\ do = "delete" => DeleteEpic(t)
    /\ do = "insert" => InsertPart(t)

\* A call whose statement executes is running, and the statement is its next one.
LEMMA WhatRuns ==
    ASSUME NEW t \in Callers, Statement(t), ~Fails(t)
    PROVE  /\ task[t].at = "running" /\ task[t].todo # <<>> /\ tx.of \in {t, Nothing}
           /\ Named(t, Head(task[t].todo).do)
<1> DEFINE do == Head(task[t].todo).do
<1>1. Begin(t) => At(t, "begin")
  BY DEF Begin
<1>2. Commit(t) => At(t, "commit")
  BY DEF Commit
<1>3. CreateTable(t) => At(t, "create")
  BY DEF CreateTable
<1>4. Inspect(t) => At(t, "inspect")
  BY DEF Inspect
<1>5. BuildTable(t) => At(t, "build")
  BY DEF BuildTable
<1>6. CopyRows(t) => At(t, "copy")
  BY DEF CopyRows
<1>7. DropTable(t) => At(t, "drop")
  BY DEF DropTable
<1>8. RenameTable(t) => At(t, "rename")
  BY DEF RenameTable
<1>9. EnsureProject(t) => At(t, "ensure")
  BY DEF EnsureProject
<1>10. KeepHandle(t) => At(t, "keep")
  BY DEF KeepHandle
<1>11. NameProject(t) => At(t, "name")
  BY DEF NameProject
<1>12. RequireProject(t) => At(t, "require")
  BY DEF RequireProject
<1>13. Unlink(t) => At(t, "unlink")
  BY DEF Unlink
<1>14. LinkRepositories(t) => At(t, "link")
  BY DEF LinkRepositories
<1>15. Resolve(t) => At(t, "resolve")
  BY DEF Resolve
<1>16. SelectSettings(t) => At(t, "select")
  BY DEF SelectSettings
<1>17. AssignRoles(t) => At(t, "assign")
  BY DEF AssignRoles
<1>18. ReplaceSettings(t) => At(t, "replace")
  BY DEF ReplaceSettings
<1>19. ReadPart(t) => At(t, "read")
  BY DEF ReadPart
<1>20. ChangeEpic(t) => At(t, "change")
  BY DEF ChangeEpic
<1>21. DeleteEpic(t) => At(t, "delete")
  BY DEF DeleteEpic
<1>22. InsertPart(t) => At(t, "insert")
  BY DEF InsertPart
<1>23. \A verb : At(t, verb) =>
             /\ do = verb
             /\ task[t].at = "running" /\ task[t].todo # <<>> /\ tx.of \in {t, Nothing}
  BY DEF At
<1> HIDE DEF do
<1> QED
  BY <1>1, <1>2, <1>3, <1>4, <1>5, <1>6, <1>7, <1>8, <1>9, <1>10, <1>11, <1>12, <1>13, <1>14, <1>15, <1>16, <1>17, <1>18, <1>19, <1>20, <1>21, <1>22, <1>23 DEF Statement, Named, do

\* The call of t goes on, with what it has read.
Moves(t, todo, rows, settings) ==
    /\ lock' = lock
    /\ task' \in [Callers -> Task]
    /\ \A u \in Callers \ {t} : task'[u] = task[u]
    /\ task'[t].at = "running" /\ task'[t].todo = todo
    /\ task'[t].rows = rows /\ task'[t].settings = settings
    /\ task'[t].op = task[t].op /\ task'[t].stage = task[t].stage
    /\ task'[t].answer = task[t].answer

\* A call with something left to do goes on to it.
LEMMA ProceedMoves ==
    ASSUME TypeOK, NEW t \in Callers, task[t].at = "running",
           NEW todo \in Seq(Instruction), NEW rows \in Rows, NEW settings \in Settings,
           Proceed(t, todo, rows, settings), todo # <<>>
    PROVE  Moves(t, todo, rows, settings)
<1>1. /\ task \in [Callers -> Task] /\ task[t] \in Task
  BY DEF TypeOK
<1>2. /\ lock' = lock
      /\ task' = [task EXCEPT ![t] = [task[t] EXCEPT !.todo = todo, !.rows = rows,
                                                    !.settings = settings]]
  BY <1>1 DEF Proceed
<1> DEFINE new == [task[t] EXCEPT !.todo = todo, !.rows = rows, !.settings = settings]
<1>3. /\ new \in Task /\ new.at = task[t].at /\ new.todo = todo /\ new.rows = rows
      /\ new.settings = settings /\ new.op = task[t].op /\ new.stage = task[t].stage
      /\ new.answer = task[t].answer
  BY <1>1 DEF Task
<1> HIDE DEF new
<1>4. task' = [task EXCEPT ![t] = new]
  BY <1>2 DEF new
<1>5. task'[t] = new /\ task' \in [Callers -> Task] /\ \A u \in Callers \ {t} : task'[u] = task[u]
  BY <1>1, <1>3, <1>4
<1> QED
  BY <1>2, <1>3, <1>5 DEF Moves

\* A settings table of a database and its profiles are of their types.
LEMMA Tables ==
    ASSUME NEW db \in Database, NEW s \in SettingsTables
    PROVE  /\ db.settings[s] \in Table /\ db.temporary[s] \in Table
           /\ db.settings[s].shape \in {"absent", "legacy", "current"}
           /\ db.settings[s].row \in Settings /\ db.temporary[s].row \in Settings
  BY DEF Database, Table

\* No table, and an empty one of this version.
LEMMA AbsentIs == /\ Absent \in Table /\ [Absent EXCEPT !.shape = "current"] \in Table
                  /\ Absent.shape = "absent" /\ Absent.row = NoSettings
                  /\ [Absent EXCEPT !.shape = "current"].shape = "current"
                  /\ [Absent EXCEPT !.shape = "current"].row = NoSettings
<1>1. NoProfile \in Profile
  BY StoreConstants DEF NoProfile, Profile
<1>2. NoSettings \in Settings
  BY <1>1 DEF NoSettings, Settings
<1> QED
  BY <1>2 DEF Absent, Table

\* What a statement writes to: the transaction of its caller, or the file.
LEMMA PutIs ==
    ASSUME TypeOK, NEW t \in Callers, NEW db \in Database, Put(t, db)
    PROVE  /\ UNCHANGED <<handle, calls, failures, crashes, told>>
           /\ tx = NoTx => disk' = db /\ tx' = NoTx
           /\ tx.of = t =>
                /\ disk' = disk /\ tx' \in [of : Callers, db : Database]
                /\ tx'.of = t /\ tx'.db = db
<1>1. UNCHANGED <<handle, calls, failures, crashes, told>>
  BY DEF Put
<1>2. ASSUME tx = NoTx
      PROVE  disk' = db /\ tx' = NoTx
  <2>1. tx.of # t
    BY <1>2, StoreConstants DEF NoTx
  <2> QED  BY <1>2, <2>1 DEF Put
<1>3. ASSUME tx.of = t
      PROVE  /\ disk' = disk /\ tx' \in [of : Callers, db : Database]
             /\ tx'.of = t /\ tx'.db = db
  <2>1. tx # NoTx
    BY <1>3, StoreConstants DEF NoTx
  <2>2. tx \in [of : Callers, db : Database]
    BY <2>1 DEF TypeOK
  <2>3. disk' = disk /\ tx' = [tx EXCEPT !.db = db]
    BY <1>3 DEF Put
  <2> QED  BY <1>3, <2>2, <2>3
<1> QED
  BY <1>1, <1>2, <1>3

\* A statement works on the file, or on its own transaction.
LEMMA WorkingIs ==
    ASSUME TypeOK, NEW t \in Callers
    PROVE  /\ tx = NoTx => Working(t) = disk /\ Working(t) \in Database
           /\ InTx(t) => Working(t) = tx.db /\ Working(t) \in Database
<1>1. tx = NoTx => tx.of # t
  BY StoreConstants DEF NoTx
<1> QED
  BY <1>1 DEF Working, InTx, TypeOK

-----------------------------------------------------------------------------
(* What a statement does to the invariant.                                  *)

\* The k-th statement of program p is executed, with r behind p.
Turn(t, p, r, k) ==
    /\ TypeOK /\ FileSound
    /\ p \in Seq(Instruction) /\ r \in Seq(Instruction) /\ k \in 1..Len(p)
    /\ task[t].todo = Rest(p, k) \o r
    /\ Statement(t) /\ ~Fails(t)

\* What is left of the program after its k-th statement.
LEMMA TurnIs ==
    ASSUME NEW t \in Callers, NEW p, NEW r, NEW k, Turn(t, p, r, k)
    PROVE  /\ Head(task[t].todo) = p[k]
           /\ Tail(task[t].todo) = Rest(p, k + 1) \o r
           /\ Tail(task[t].todo) \in Seq(Instruction)
           /\ k < Len(p) \/ r # <<>> => Tail(task[t].todo) # <<>>
           /\ task[t].rows \in Rows /\ task[t].settings \in Settings
<1>1. p \in Seq(Instruction) /\ r \in Seq(Instruction) /\ k \in 1..Len(p)
  BY DEF Turn
<1>2. task[t].todo = Rest(p, k) \o r
  BY DEF Turn
<1>3. /\ Head(Rest(p, k) \o r) = p[k] /\ Tail(Rest(p, k) \o r) = Rest(p, k + 1) \o r
      /\ Rest(p, Len(p) + 1) \o r = r
  BY <1>1, RestOf, Zenon
<1>4. Rest(p, k + 1) \o r \in Seq(Instruction) /\ (k < Len(p) \/ r # <<>> => Rest(p, k + 1) \o r # <<>>)
  <2>1. CASE k < Len(p)
    <3>1. k + 1 \in 1..Len(p)
      BY <1>1, <2>1
    <3> QED  BY <1>1, <3>1, RestOf, Zenon
  <2>2. CASE ~(k < Len(p))
    <3>1. k = Len(p)
      BY <1>1, <2>2
    <3>2. Rest(p, k + 1) \o r = r
      BY <1>3, <3>1
    <3> QED  BY <1>1, <2>2, <3>2
  <2> QED  BY <2>1, <2>2
<1>5. task[t].rows \in Rows /\ task[t].settings \in Settings
  BY DEF Turn, TypeOK, Task
<1> QED
  BY <1>2, <1>3, <1>4, <1>5

\* The call goes on to the statement after its k-th.
LEMMA TurnMoves ==
    ASSUME NEW t \in Callers, NEW p, NEW r, NEW k, Turn(t, p, r, k),
           NEW rows \in Rows, NEW settings \in Settings,
           Proceed(t, Tail(task[t].todo), rows, settings), k < Len(p) \/ r # <<>>
    PROVE  Moves(t, Rest(p, k + 1) \o r, rows, settings)
<1>1. TypeOK /\ task[t].at = "running"
  BY WhatRuns DEF Turn
<1>2. /\ Tail(task[t].todo) = Rest(p, k + 1) \o r /\ Tail(task[t].todo) \in Seq(Instruction)
      /\ Tail(task[t].todo) # <<>>
  BY TurnIs
<1>3. Moves(t, Tail(task[t].todo), rows, settings)
  BY <1>1, <1>2, ProceedMoves
<1> QED
  BY <1>2, <1>3

\* The whole of a program, and what is left after its last statement.
LEMMA WholeProgram ==
    ASSUME NEW p \in Seq(Instruction), NEW r \in Seq(Instruction)
    PROVE  Rest(p, 1) = p /\ Rest(p, Len(p) + 1) \o r = r /\ Rest(p, 1) \o <<>> = p
<1>1. Rest(p, 1) = p
  BY SubSeqFull DEF Rest
<1>2. Rest(p, Len(p) + 1) = <<>>
  BY SubSeqEmpty DEF Rest
<1> QED
  BY <1>1, <1>2, ConcatEmptySeq

\* What a statement that leaves the epics and the profiles where they are does to
\* the file.
Filed ==
    /\ UNCHANGED <<calls, failures, crashes, told>>
    /\ disk' \in Database /\ handle' \in BOOLEAN
    /\ tx' = NoTx \/ tx' \in [of : Callers, db : Database]
    /\ disk'.rows = disk.rows
    /\ \A s \in SettingsTables : disk'.settings[s].row = disk.settings[s].row
    /\ FileSound'

Advances(t) ==
    /\ Moves(t, task'[t].todo, task'[t].rows, task'[t].settings)
    /\ Filed
    /\ Stands(t)'

\* A file that has only gained the project row is as sound as it was.
LEMMA FiledAlike ==
    ASSUME TypeOK, FileSound, disk' \in Database, disk'.settings = disk.settings,
           disk'.temporary = disk.temporary, disk'.rows = disk.rows,
           disk.project => disk'.project, handle' = handle,
           UNCHANGED <<calls, failures, crashes, told>>,
           tx' = NoTx \/ tx' \in [of : Callers, db : Database]
    PROVE  Filed
  BY DEF Filed, FileSound, Current, TypeOK

\* A call that stands in its own program has advanced.
LEMMA AdvancesInStage ==
    ASSUME NEW t \in Callers, NEW rows, NEW settings, NEW k \in 1..Len(Code(t)),
           Moves(t, Rest(Code(t), k) \o <<>>, rows, settings), StageAt(t, k)', Filed
    PROVE  Advances(t)
  BY DEF Advances, Moves, Stands, Code

\* So has one in the opening of the store,
LEMMA AdvancesInOpen ==
    ASSUME NEW t \in Callers, NEW rows, NEW settings, NEW k \in 1..9,
           Moves(t, Rest(OpenStore, k) \o Code(t), rows, settings), OpenAt(t, k)', Filed
    PROVE  Advances(t)
  BY OpenStoreIs DEF Advances, Moves, Stands, Code

\* in the rebuilding of a table,
LEMMA AdvancesInRebuild ==
    ASSUME NEW t \in Callers, NEW rows, NEW settings, NEW s \in SettingsTables, NEW j \in 1..4,
           Moves(t, Rest(Rebuild(s), j) \o (Rest(OpenStore, AfterInspect(s)) \o Code(t)),
                 rows, settings),
           RebuildAt(t, s, j)', Filed
    PROVE  Advances(t)
  BY RebuildIs DEF Advances, Moves, Stands, Code, SettingsTables

\* or in the writing of the project.
LEMMA AdvancesInProject ==
    ASSUME NEW t \in Callers, NEW rows, NEW settings, NEW j \in 1..4,
           Moves(t, Rest(WriteProject, j) \o (Rest(OpenStore, 9) \o Code(t)), rows, settings),
           ProjectAt(t, j)', Filed
    PROVE  Advances(t)
  BY WriteProjectIs DEF Advances, Moves, Stands, Code

\* What a running call executes is a program.
LEMMA CodeIs ==
    ASSUME TypeOK, NEW t \in Callers, CallSound(t), task[t].at = "running"
    PROVE  /\ Code(t) \in Seq(Instruction) /\ Len(Code(t)) > 0 /\ Code(t) # <<>>
           /\ task[t].op \in Op /\ task[t].op.kind \in KindNames
<1>1. task[t].op \in Op /\ task[t].stage <= Len(Stages(task[t].op)) /\ task[t].stage \in {1, 2}
  BY DEF CallSound, TypeOK, Task
<1>2. task[t].op.kind \in KindNames
  BY <1>1, StoreConstants DEF Op
<1>3. Code(t) \in Seq(Instruction) /\ Len(Code(t)) > 0
  BY <1>1, <1>2, StageIsAProgram DEF Code
<1> QED
  BY <1>1, <1>2, <1>3

\* The statement that runs.
LEMMA TurnRuns ==
    ASSUME NEW t \in Callers, NEW p, NEW r, NEW k, Turn(t, p, r, k),
           NEW do, NEW on, p[k] = S(do, on)
    PROVE  /\ Named(t, do) /\ On(t) = on
           /\ task[t].at = "running" /\ tx.of \in {t, Nothing}
           /\ TypeOK /\ FileSound
<1>1. Head(task[t].todo).do = do /\ On(t) = on
  BY TurnIs DEF S, On
<1>2. Statement(t) /\ ~Fails(t) /\ TypeOK /\ FileSound
  BY DEF Turn
<1> QED
  BY <1>1, <1>2, WhatRuns

\* The schema: a table that is not there is made, one that is there is left alone.
LEMMA CreatesTable ==
    ASSUME NEW t \in Callers, TypeOK, FileSound, tx = NoTx, CreateTable(t),
           NEW s \in SettingsTables, On(t) = s
    PROVE  /\ Filed /\ tx' = NoTx /\ handle' = handle
           /\ disk'.settings[s].shape # "absent"
           /\ \A u \in SettingsTables \ {s} : disk'.settings[u] = disk.settings[u]
<1>1. disk \in Database /\ Working(t) = disk
  BY WorkingIs DEF TypeOK
<1>2. s # "base"
  BY DEF SettingsTables
<1>3. Put(t, IF disk.settings[s].shape = "absent"
             THEN [disk EXCEPT !.settings[s] = [Absent EXCEPT !.shape = "current"]] ELSE disk)
  BY <1>1, <1>2 DEF CreateTable
<1>4. CASE disk.settings[s].shape = "absent"
  <2>1. PICK made : made = [Absent EXCEPT !.shape = "current"]
    OBVIOUS
  <2>2. made \in Table /\ made.shape = "current" /\ made.row = NoSettings
    BY <2>1, AbsentIs
  <2>3. PICK new : new = [disk EXCEPT !.settings[s] = made]
    OBVIOUS
  <2>4. /\ new \in Database /\ new.rows = disk.rows /\ new.settings[s] = made
        /\ new.project = disk.project
        /\ new.temporary = disk.temporary
        /\ \A u \in SettingsTables \ {s} : new.settings[u] = disk.settings[u]
    BY <1>1, <2>2, <2>3 DEF Database
  <2>5. Put(t, new)
    BY <1>3, <1>4, <2>1, <2>3
  <2>6. /\ disk' = new /\ tx' = NoTx
        /\ UNCHANGED <<handle, calls, failures, crashes, told>>
    BY <2>4, <2>5, PutIs
  <2>7. disk.settings[s].row = NoSettings
    BY <1>4, AbsentIs DEF FileSound
  <2>8. \A u \in SettingsTables : disk'.settings[u].row = disk.settings[u].row
    BY <2>2, <2>4, <2>6, <2>7
  <2>9. FileSound'
    BY <1>4, <2>2, <2>4, <2>6 DEF FileSound, Current
  <2> QED
    BY <2>2, <2>4, <2>6, <2>8, <2>9 DEF Filed, TypeOK
<1>5. CASE disk.settings[s].shape # "absent"
  <2>1. disk' = disk /\ tx' = NoTx /\ UNCHANGED <<handle, calls, failures, crashes, told>>
    BY <1>1, <1>3, <1>5, PutIs
  <2> QED
    BY <1>1, <1>5, <2>1 DEF Filed, FileSound, Current, TypeOK
<1> QED
  BY <1>4, <1>5

\* The three statements of the schema.
LEMMA SchemaAdvances ==
    ASSUME NEW t \in Callers, NEW k \in 1..3, CallSound(t),
           Turn(t, OpenStore, Code(t), k), OpenAt(t, k)
    PROVE  Advances(t)
<1>1. TypeOK /\ FileSound /\ tx = NoTx /\ ~handle /\ disk \in Database
  BY DEF Turn, OpenAt, TypeOK
<1>2. k < Len(OpenStore) /\ k + 1 \in 1..9 /\ Len(OpenStore) = 9
  BY OpenStoreIs
<1>3. OpenStore[k] = S("create", <<"base", "agent_settings", "repository_settings">>[k])
  BY OpenStoreIs
<1>4. CreateTable(t) /\ On(t) = <<"base", "agent_settings", "repository_settings">>[k]
  BY <1>3, TurnRuns DEF Named
<1>5. Moves(t, Rest(OpenStore, k + 1) \o Code(t), task[t].rows, task[t].settings)
  BY <1>2, <1>4, TurnIs, TurnMoves DEF CreateTable, Then
<1>6. CASE k = 1
  <2>1. PICK new : new = [disk EXCEPT !.base = TRUE]
    OBVIOUS
  <2>2. /\ new \in Database /\ new.project = disk.project /\ new.settings = disk.settings
        /\ new.temporary = disk.temporary /\ new.rows = disk.rows
    BY <1>1, <2>1 DEF Database
  <2>3. disk' = new /\ tx' = NoTx /\ UNCHANGED <<handle, calls, failures, crashes, told>>
    <3>1. Put(t, new)
      BY <1>1, <1>4, <1>6, <2>1, WorkingIs DEF CreateTable
    <3> QED  BY <1>1, <2>2, <3>1, PutIs
  <2>4. Filed
    BY <1>1, <2>2, <2>3, FiledAlike
  <2>5. OpenAt(t, 2)'
    BY <1>1, <2>3 DEF OpenAt
  <2> QED
    BY <1>2, <1>5, <1>6, <2>4, <2>5, AdvancesInOpen
<1>7. CASE k = 2
  <2>1. On(t) = "agent_settings" /\ "agent_settings" \in SettingsTables
    BY <1>4, <1>7 DEF SettingsTables
  <2>2. Filed /\ tx' = NoTx /\ handle' = handle /\ disk'.settings["agent_settings"].shape # "absent"
    BY <1>1, <1>4, <2>1, CreatesTable
  <2>3. OpenAt(t, 3)'
    BY <1>1, <2>2 DEF OpenAt
  <2> QED
    BY <1>2, <1>5, <1>7, <2>2, <2>3, AdvancesInOpen
<1>8. CASE k = 3
  <2>1. /\ On(t) = "repository_settings" /\ "repository_settings" \in SettingsTables
        /\ "agent_settings" \in SettingsTables \ {"repository_settings"}
    BY <1>4, <1>8 DEF SettingsTables
  <2>2. /\ Filed /\ tx' = NoTx /\ handle' = handle
        /\ disk'.settings["repository_settings"].shape # "absent"
        /\ disk'.settings["agent_settings"] = disk.settings["agent_settings"]
    BY <1>1, <1>4, <2>1, CreatesTable
  <2>3. disk.settings["agent_settings"].shape # "absent"
    BY <1>8 DEF OpenAt
  <2>4. OpenAt(t, 4)'
    BY <1>1, <2>2, <2>3 DEF OpenAt
  <2> QED
    BY <1>2, <1>5, <1>8, <2>2, <2>4, AdvancesInOpen
<1> QED
  BY <1>6, <1>7, <1>8

\* BEGIN and COMMIT, in any program.
LEMMA Begins ==
    ASSUME TypeOK, NEW t \in Callers, Begin(t)
    PROVE  /\ tx' = [of |-> t, db |-> disk] /\ tx' \in [of : Callers, db : Database]
           /\ InTx(t)' /\ disk' \in Database
           /\ UNCHANGED <<disk, handle, calls, failures, crashes, told>>
           /\ Proceed(t, Tail(task[t].todo), task[t].rows, task[t].settings)
  BY DEF TypeOK, Begin, InTx, Then

\* A commit files the transaction of its caller.
LEMMA Commits ==
    ASSUME TypeOK, NEW t \in Callers, Commit(t), InTx(t)
    PROVE  /\ tx' = NoTx /\ disk' = tx.db /\ disk' \in Database
           /\ UNCHANGED <<handle, calls, failures, crashes, told>>
           /\ Proceed(t, Tail(task[t].todo), task[t].rows, task[t].settings)
  BY DEF TypeOK, Commit, InTx, Then

\* Beginning a transaction leaves the file alone.
LEMMA BeginFiled ==
    ASSUME TypeOK, FileSound, NEW t \in Callers, Begin(t)
    PROVE  Filed
<1>1. /\ disk' = disk /\ handle' = handle /\ UNCHANGED <<calls, failures, crashes, told>>
      /\ tx' \in [of : Callers, db : Database] /\ disk' \in Database
  BY Begins
<1> QED
  BY <1>1, FiledAlike

\* So does a step that touches neither.
LEMMA KeepsFiled ==
    ASSUME TypeOK, FileSound, Keeps
    PROVE  Filed
  BY FiledAlike DEF Keeps, TypeOK

\* A table inspected in the migration: rebuilt if it is an older version's.
LEMMA InspectAdvances ==
    ASSUME NEW t \in Callers, NEW k \in {5, 6}, CallSound(t),
           Turn(t, OpenStore, Code(t), k), OpenAt(t, k)
    PROVE  Advances(t)
<1> DEFINE s == IF k = 5 THEN "agent_settings" ELSE "repository_settings"
<1>1. /\ TypeOK /\ FileSound /\ ~handle /\ InTx(t) /\ task[t].at = "running"
      /\ tx.db.rows = disk.rows /\ \A u \in SettingsTables : Carried(tx.db, u)
      /\ k = 6 => tx.db.settings["agent_settings"].shape = "current"
  BY WhatRuns DEF Turn, OpenAt
<1>2. /\ disk.settings["agent_settings"].shape # "absent"
      /\ disk.settings["repository_settings"].shape # "absent"
  BY DEF OpenAt
<1>3. k < Len(OpenStore) /\ k + 1 \in 1..9 /\ AfterInspect(s) = k + 1 /\ s \in SettingsTables
  BY OpenStoreIs DEF AfterInspect, SettingsTables
<1>4. Inspect(t) /\ On(t) = s
  <2>1. OpenStore[k] = S("inspect", s)
    BY OpenStoreIs
  <2> QED  BY <2>1, TurnRuns DEF Named
<1>5. /\ Inspect(t) /\ Working(t) = tx.db
      /\ Tail(task[t].todo) = Rest(OpenStore, k + 1) \o Code(t)
      /\ Tail(task[t].todo) \in Seq(Instruction) /\ Tail(task[t].todo) # <<>>
      /\ task[t].rows \in Rows /\ task[t].settings \in Settings
  <2>1. Working(t) = tx.db
    BY <1>1, WorkingIs
  <2>2. k < Len(OpenStore)
    BY <1>3
  <2>3. /\ Tail(task[t].todo) = Rest(OpenStore, k + 1) \o Code(t)
        /\ Tail(task[t].todo) \in Seq(Instruction) /\ Tail(task[t].todo) # <<>>
        /\ task[t].rows \in Rows /\ task[t].settings \in Settings
    BY <2>2, TurnIs
  <2> QED  BY <1>4, <2>1, <2>3
<1>6. Keeps /\ Filed
  BY <1>1, <1>5, KeepsFiled DEF Inspect
<1>7. /\ tx' = tx /\ disk' = disk /\ handle' = handle
  BY <1>6 DEF Keeps
<1> HIDE DEF s
<1>8. CASE tx.db.settings[s].shape = "legacy"
  <2>1. Proceed(t, Rebuild(s) \o Tail(task[t].todo), task[t].rows, task[t].settings)
    BY <1>4, <1>5, <1>8 DEF Inspect
  <2>2. /\ Rest(Rebuild(s), 1) = Rebuild(s)
        /\ Rebuild(s) \o Tail(task[t].todo) \in Seq(Instruction)
        /\ Rebuild(s) \o Tail(task[t].todo) # <<>>
    <3>1. Rebuild(s) \in Seq(Instruction) /\ 1 \in 1..Len(Rebuild(s))
      BY <1>3, RebuildIs
    <3>2. Rest(Rebuild(s), 1) = Rebuild(s)
      BY <1>5, <3>1, WholeProgram
    <3> QED  BY <1>5, <3>1, <3>2, RestOf
  <2>3. Moves(t, Rest(Rebuild(s), 1) \o (Rest(OpenStore, AfterInspect(s)) \o Code(t)),
              task[t].rows, task[t].settings)
    <3>1. Moves(t, Rebuild(s) \o Tail(task[t].todo), task[t].rows, task[t].settings)
      BY <1>1, <1>5, <2>1, <2>2, ProceedMoves
    <3> QED  BY <1>3, <1>5, <2>2, <3>1
  <2>4. RebuildAt(t, s, 1)'
    <3>1. InTx(t)'
      BY <1>1, <1>7 DEF InTx
    <3>2. /\ \A u \in SettingsTables : disk.settings[u].shape # "absent"
          /\ s = "repository_settings" => tx.db.settings["agent_settings"].shape = "current"
      BY <1>1, <1>2, <1>3 DEF SettingsTables, s
    <3> QED  BY <1>1, <1>3, <1>7, <3>1, <3>2 DEF RebuildAt, Carried
  <2> QED
    BY <1>3, <1>6, <2>3, <2>4, AdvancesInRebuild
<1>9. CASE tx.db.settings[s].shape # "legacy"
  <2>1. <<>> \o Tail(task[t].todo) = Tail(task[t].todo)
    BY <1>5, ConcatEmptySeq
  <2>2. Proceed(t, Tail(task[t].todo), task[t].rows, task[t].settings)
    BY <1>4, <1>5, <1>9, <2>1 DEF Inspect
  <2>3. Moves(t, Rest(OpenStore, k + 1) \o Code(t), task[t].rows, task[t].settings)
    BY <1>1, <1>5, <2>2, ProceedMoves
  <2>4. tx.db.settings[s].shape = "current"
    BY <1>1, <1>3, <1>9, Tables DEF InTx, Carried
  <2>5. OpenAt(t, k + 1)'
    <3>1. InTx(t)'
      BY <1>1, <1>7 DEF InTx
    <3>2. CASE k = 5
      <4>1. s = "agent_settings"
        BY <3>2 DEF s
      <4>2. OpenAt(t, 6)'
        BY <1>1, <1>2, <1>7, <2>4, <3>1, <4>1 DEF OpenAt, Carried
      <4> QED  BY <3>2, <4>2
    <3>3. CASE k = 6
      <4>1. s = "repository_settings"
        BY <3>3 DEF s
      <4>2. OpenAt(t, 7)'
        BY <1>1, <1>2, <1>7, <2>4, <3>1, <3>3, <4>1 DEF OpenAt, Carried
      <4> QED  BY <3>3, <4>2
    <3> QED  BY <3>2, <3>3
  <2> QED
    BY <1>3, <1>6, <2>3, <2>5, AdvancesInOpen
<1> QED
  BY <1>8, <1>9

\* The beginning and the commit of the migration.
LEMMA MigrateAdvances ==
    ASSUME NEW t \in Callers, NEW k \in {4, 7}, CallSound(t),
           Turn(t, OpenStore, Code(t), k), OpenAt(t, k)
    PROVE  Advances(t)
<1>1. /\ TypeOK /\ FileSound /\ ~handle /\ task[t].rows \in Rows /\ task[t].settings \in Settings
      /\ k < Len(OpenStore)
  <2>1. TypeOK /\ FileSound
    BY DEF Turn
  <2>2. ~handle
    BY DEF OpenAt
  <2> QED  BY <2>1, <2>2, TurnIs, OpenStoreIs
<1>2. /\ disk.settings["agent_settings"].shape # "absent"
      /\ disk.settings["repository_settings"].shape # "absent"
  BY DEF OpenAt
<1>3. CASE k = 4
  <2>1. Begin(t)
    <3>1. OpenStore[k] = S("begin", "tx")
      BY <1>3, OpenStoreIs
    <3> QED  BY <3>1, TurnRuns DEF Named
  <2>2. Filed
    BY <1>1, <2>1, BeginFiled
  <2>3. Moves(t, Rest(OpenStore, k + 1) \o Code(t), task[t].rows, task[t].settings)
    BY <1>1, <2>1, Begins, TurnMoves
  <2>4. OpenAt(t, 5)'
    <3>1. /\ InTx(t)' /\ disk' = disk /\ handle' = handle /\ tx'.db = disk
      BY <1>1, <2>1, Begins
    <3>2. \A s \in SettingsTables : disk.settings[s].shape # "absent" /\ disk.temporary[s] = Absent
      BY <1>1, <1>2 DEF SettingsTables, FileSound
    <3> QED  BY <1>1, <1>2, <3>1, <3>2 DEF OpenAt, Carried
  <2> QED
    BY <1>3, <2>2, <2>3, <2>4, AdvancesInOpen
<1>4. CASE k = 7
  <2>1. Commit(t)
    <3>1. OpenStore[k] = S("commit", "tx")
      BY <1>4, OpenStoreIs
    <3> QED  BY <3>1, TurnRuns DEF Named
  <2>2. /\ InTx(t) /\ tx.db.rows = disk.rows /\ \A s \in SettingsTables : Carried(tx.db, s)
        /\ tx.db.settings["agent_settings"].shape = "current"
        /\ tx.db.settings["repository_settings"].shape = "current"
    BY <1>4 DEF OpenAt
  <2>3. /\ tx' = NoTx /\ disk' = tx.db /\ disk' \in Database
        /\ UNCHANGED <<handle, calls, failures, crashes, told>>
        /\ Proceed(t, Tail(task[t].todo), task[t].rows, task[t].settings)
    BY <1>1, <2>1, <2>2, Commits
  <2>4. Moves(t, Rest(OpenStore, k + 1) \o Code(t), task[t].rows, task[t].settings)
    BY <1>1, <2>3, TurnMoves
  <2>5. Current(tx.db)
    BY <2>2 DEF Current, SettingsTables
  <2>6. FileSound'
    <3>1. tx.db.temporary = [s \in SettingsTables |-> Absent]
      BY <2>2 DEF Carried, InTx, Database
    <3>2. \A p \in PartNames : tx.db.rows[p] = tx.db.rows["epics"]
      BY <1>1, <2>2 DEF FileSound
    <3>3. \A s \in SettingsTables : tx.db.settings[s].shape # "absent"
      BY <2>2 DEF Carried
    <3> QED  BY <1>1, <2>3, <3>1, <3>2, <3>3 DEF FileSound
  <2>7. Filed
    BY <1>1, <2>2, <2>3, <2>6 DEF Filed, TypeOK, Carried
  <2>8. OpenAt(t, 8)'
    <3>1. Current(disk)'
      BY <2>3, <2>5 DEF Current
    <3> QED  BY <1>1, <2>2, <2>3, <3>1 DEF OpenAt
  <2> QED
    BY <1>4, <2>4, <2>7, <2>8, AdvancesInOpen
<1> QED
  BY <1>3, <1>4

\* A stage of a call begins with no transaction open.
LEMMA StageBegins ==
    ASSUME NEW t \in Callers, handle', tx' = NoTx
    PROVE  StageAt(t, 1)'
<1>1. SettingAt(t, 1)' /\ LinkingAt(t, 1)' /\ WritingAt(t, 1)'
  BY DEF SettingAt, LinkingAt, WritingAt
<1>2. ReadingAt(t, 1)'
  <2>1. \A i \in DOMAIN Parts : ~(i <= 1 - 2)
    BY PartsAre
  <2>2. HasRead(t, 1 - 2)'
    BY <2>1 DEF HasRead
  <2> QED  BY <2>2 DEF ReadingAt
<1> QED
  BY <1>1, <1>2 DEF StageAt

\* The project's row, and the store kept open.
LEMMA OpenedAdvances ==
    ASSUME NEW t \in Callers, NEW k \in {8, 9}, CallSound(t),
           Turn(t, OpenStore, Code(t), k), OpenAt(t, k)
    PROVE  Advances(t)
<1>1. /\ TypeOK /\ FileSound /\ ~handle /\ tx = NoTx /\ Current(disk)
      /\ task[t].at = "running"
  BY WhatRuns DEF Turn, OpenAt
<1>2. /\ task[t].rows \in Rows /\ task[t].settings \in Settings
      /\ Tail(task[t].todo) = Rest(OpenStore, k + 1) \o Code(t)
      /\ Tail(task[t].todo) \in Seq(Instruction)
  BY TurnIs
<1>3. /\ disk.settings["agent_settings"].shape # "absent"
      /\ disk.settings["repository_settings"].shape # "absent"
  BY DEF OpenAt
<1>4. Code(t) \in Seq(Instruction) /\ Code(t) # <<>> /\ 1 \in 1..Len(Code(t))
  BY <1>1, CodeIs
<1>5. Tail(task[t].todo) # <<>>
  BY <1>4, TurnIs
<1>6. CASE k = 8
  <2>1. EnsureProject(t)
    <3>1. OpenStore[k] = S("ensure", "project")
      BY <1>6, OpenStoreIs
    <3> QED  BY <3>1, TurnRuns DEF Named
  <2>2. Keeps /\ Filed
    BY <1>1, <2>1, KeepsFiled DEF EnsureProject
  <2>3. tx' = tx /\ disk' = disk /\ handle' = handle /\ Working(t) = disk
    BY <1>1, <2>2, WorkingIs DEF Keeps
  <2>4. Current(disk)'
    BY <1>1, <2>3 DEF Current
  <2>5. CASE disk.project
    <3>1. <<>> \o Tail(task[t].todo) = Tail(task[t].todo)
      BY <1>2, ConcatEmptySeq
    <3>2. Proceed(t, Tail(task[t].todo), task[t].rows, task[t].settings)
      BY <2>1, <2>3, <2>5, <3>1 DEF EnsureProject
    <3>3. Moves(t, Rest(OpenStore, 9) \o Code(t), task[t].rows, task[t].settings)
      <4>1. Moves(t, Tail(task[t].todo), task[t].rows, task[t].settings)
        BY <1>1, <1>2, <1>5, <3>2, ProceedMoves
      <4>2. k + 1 = 9
        BY <1>6
      <4> QED  BY <1>2, <4>1, <4>2
    <3>4. OpenAt(t, 9)'
      BY <1>1, <1>3, <2>3, <2>4, <2>5 DEF OpenAt
    <3> QED
      BY <2>2, <3>3, <3>4, AdvancesInOpen
  <2>6. CASE ~disk.project
    <3>1. Proceed(t, WriteProject \o Tail(task[t].todo), task[t].rows, task[t].settings)
      BY <2>1, <2>3, <2>6 DEF EnsureProject
    <3>2. /\ Rest(WriteProject, 1) = WriteProject
          /\ WriteProject \o Tail(task[t].todo) \in Seq(Instruction)
          /\ WriteProject \o Tail(task[t].todo) # <<>>
      <4>1. WriteProject \in Seq(Instruction) /\ 1 \in 1..Len(WriteProject)
        BY WriteProjectIs
      <4>2. Rest(WriteProject, 1) = WriteProject
        BY <1>2, <4>1, WholeProgram
      <4> QED  BY <1>2, <4>1, <4>2, RestOf
    <3>3. Moves(t, Rest(WriteProject, 1) \o (Rest(OpenStore, 9) \o Code(t)),
                task[t].rows, task[t].settings)
      <4>1. Moves(t, WriteProject \o Tail(task[t].todo), task[t].rows, task[t].settings)
        BY <1>1, <1>2, <3>1, <3>2, ProceedMoves
      <4>2. k + 1 = 9
        BY <1>6
      <4> QED  BY <1>2, <3>2, <4>1, <4>2
    <3>4. ProjectAt(t, 1)'
      BY <1>1, <2>3, <2>4 DEF ProjectAt
    <3> QED
      BY <2>2, <3>3, <3>4, AdvancesInProject
  <2> QED
    BY <2>5, <2>6
<1>7. CASE k = 9
  <2>1. KeepHandle(t)
    <3>1. OpenStore[k] = S("keep", "handle")
      BY <1>7, OpenStoreIs
    <3> QED  BY <3>1, TurnRuns DEF Named
  <2>2. /\ handle' = TRUE /\ UNCHANGED <<disk, tx, calls, failures, crashes, told>>
        /\ Proceed(t, Tail(task[t].todo), task[t].rows, task[t].settings)
    BY <2>1 DEF KeepHandle, Then
  <2>3. Rest(OpenStore, k + 1) \o Code(t) = Rest(Code(t), 1) \o <<>>
    <3>1. Rest(OpenStore, Len(OpenStore) + 1) \o Code(t) = Code(t)
      BY <1>4, OpenStoreIs, WholeProgram
    <3>2. Rest(Code(t), 1) \o <<>> = Code(t)
      BY <1>4, WholeProgram
    <3>3. k + 1 = Len(OpenStore) + 1
      BY <1>7, OpenStoreIs
    <3> QED  BY <3>1, <3>2, <3>3
  <2>4. Moves(t, Rest(Code(t), 1) \o <<>>, task[t].rows, task[t].settings)
    <3>1. Moves(t, Tail(task[t].todo), task[t].rows, task[t].settings)
      BY <1>1, <1>2, <1>5, <2>2, ProceedMoves
    <3> QED  BY <1>2, <2>3, <3>1
  <2>5. disk.project
    BY <1>7 DEF OpenAt
  <2>6. FileSound'
    BY <1>1, <2>2, <2>5 DEF FileSound, Current
  <2>7. Filed
    BY <1>1, <2>2, <2>6 DEF Filed, TypeOK
  <2>8. StageAt(t, 1)'
    BY <1>1, <2>2, StageBegins
  <2> QED
    BY <1>4, <2>4, <2>7, <2>8, AdvancesInStage
<1> QED
  BY <1>6, <1>7

\* Every statement of the opening of a store.
LEMMA OpenAdvances ==
    ASSUME NEW t \in Callers, NEW k \in 1..Len(OpenStore), CallSound(t),
           Turn(t, OpenStore, Code(t), k), OpenAt(t, k)
    PROVE  Advances(t)
<1>1. k \in 1..3 \/ k \in {4, 7} \/ k \in {5, 6} \/ k \in {8, 9}
  BY OpenStoreIs
<1> QED
  BY <1>1, SchemaAdvances, MigrateAdvances, InspectAdvances, OpenedAdvances

\* A statement's effect in its caller's transaction.
LEMMA PutInTx ==
    ASSUME TypeOK, FileSound, NEW t \in Callers, InTx(t), NEW db \in Database, Put(t, db)
    PROVE  /\ Filed /\ InTx(t)' /\ tx'.db = db
           /\ disk' = disk /\ handle' = handle
<1>1. /\ UNCHANGED <<handle, calls, failures, crashes, told>>
      /\ disk' = disk /\ tx' \in [of : Callers, db : Database]
      /\ tx'.of = t /\ tx'.db = db /\ disk' \in Database
  BY PutIs DEF InTx, TypeOK
<1>2. Filed
  BY <1>1, FiledAlike
<1> QED
  BY <1>1, <1>2 DEF InTx

\* One row written over in a settings table: in the table being built, and in
\* the one in use.
Copied(db, s, row) == [db EXCEPT !.temporary[s].row = row]
Replaced(db, s, row) == [db EXCEPT !.settings[s].row = row]

\* The copy reaches the row of that new table and nothing else.
LEMMA CopiedRow ==
    ASSUME NEW db \in Database, NEW s \in SettingsTables, NEW row \in Settings
    PROVE  LET new == Copied(db, s, row)
           IN  /\ new \in Database /\ new.rows = db.rows /\ new.settings = db.settings
               /\ new.temporary[s].row = row /\ new.temporary[s].shape = db.temporary[s].shape
               /\ \A u \in SettingsTables \ {s} : new.temporary[u] = db.temporary[u]
  BY DEF Copied, Database, Table

\* The replacement reaches the row of that table and nothing else.
LEMMA ReplacedRow ==
    ASSUME NEW db \in Database, NEW s \in SettingsTables, NEW row \in Settings
    PROVE  LET new == Replaced(db, s, row)
           IN  /\ new \in Database /\ new.rows = db.rows /\ new.temporary = db.temporary
               /\ new.project = db.project
               /\ new.settings[s].row = row /\ new.settings[s].shape = db.settings[s].shape
               /\ \A u \in SettingsTables \ {s} : new.settings[u] = db.settings[u]
  BY DEF Replaced, Database, Table

\* The four statements that rebuild an older version's table.
LEMMA RebuildAdvances ==
    ASSUME NEW t \in Callers, NEW s \in SettingsTables, NEW j \in 1..4, CallSound(t),
           Turn(t, Rebuild(s), Rest(OpenStore, AfterInspect(s)) \o Code(t), j), RebuildAt(t, s, j)
    PROVE  Advances(t)
<1> DEFINE r == Rest(OpenStore, AfterInspect(s)) \o Code(t)
<1>1. /\ TypeOK /\ FileSound /\ task[t].at = "running"
      /\ task[t].rows \in Rows /\ task[t].settings \in Settings
  <2>1. TypeOK /\ FileSound
    BY DEF Turn
  <2> QED  BY <2>1, TurnIs, WhatRuns DEF Turn
<1>2. /\ ~handle /\ InTx(t) /\ tx.db.rows = disk.rows /\ tx.db \in Database
      /\ \A u \in SettingsTables : disk.settings[u].shape # "absent"
      /\ \A u \in SettingsTables \ {s} : Carried(tx.db, u)
      /\ s = "repository_settings" => tx.db.settings["agent_settings"].shape = "current"
  BY DEF RebuildAt, InTx
<1>3. Working(t) = tx.db
  BY <1>1, <1>2, WorkingIs
<1>4. r \in Seq(Instruction) /\ r # <<>> /\ Rest(Rebuild(s), 4 + 1) \o r = r
  <2>1. Code(t) \in Seq(Instruction)
    BY <1>1, CodeIs
  <2>2. OpenStore \in Seq(Instruction) /\ AfterInspect(s) \in 1..Len(OpenStore)
    BY OpenStoreIs DEF AfterInspect
  <2>3. r \in Seq(Instruction) /\ r # <<>>
    BY <2>1, <2>2, RestOf
  <2> HIDE DEF r
  <2>4. Rebuild(s) \in Seq(Instruction) /\ Len(Rebuild(s)) = 4
    BY RebuildIs
  <2>5. Rest(Rebuild(s), Len(Rebuild(s)) + 1) \o r = r
    BY <2>3, <2>4, WholeProgram
  <2> QED  BY <2>3, <2>4, <2>5
<1>5. ASSUME Then(t)
      PROVE  Moves(t, Rest(Rebuild(s), j + 1) \o r, task[t].rows, task[t].settings)
  <2> HIDE DEF r
  <2>1. Turn(t, Rebuild(s), r, j)
    BY DEF r
  <2> QED  BY <1>1, <1>4, <1>5, <2>1, TurnMoves DEF Then
<1>6. ASSUME NEW do, NEW i \in 1..4, i = j, Rebuild(s)[i] = S(do, s)
      PROVE  Named(t, do) /\ On(t) = s
  BY <1>6, TurnRuns
<1> HIDE DEF r
<1>7. CASE j = 1
  <2>1. BuildTable(t) /\ On(t) = s
    BY <1>6, <1>7, RebuildIs DEF Named
  <2>2. PICK made : made = [Absent EXCEPT !.shape = "current"]
    OBVIOUS
  <2>3. made \in Table /\ made.shape = "current"
    BY <2>2, AbsentIs
  <2>4. PICK new : new = [tx.db EXCEPT !.temporary[s] = made]
    OBVIOUS
  <2>5. /\ new \in Database /\ new.rows = tx.db.rows /\ new.temporary[s] = made
        /\ new.settings = tx.db.settings
        /\ \A u \in SettingsTables \ {s} : new.temporary[u] = tx.db.temporary[u]
    BY <1>2, <2>3, <2>4 DEF Database
  <2>6. Put(t, new) /\ Then(t)
    BY <1>3, <2>1, <2>2, <2>4 DEF BuildTable
  <2>7. Filed /\ InTx(t)' /\ tx'.db = new /\ disk' = disk /\ handle' = handle
    BY <1>1, <1>2, <2>5, <2>6, PutInTx
  <2>8. tx.db.settings[s].row = disk.settings[s].row
    BY <1>7 DEF RebuildAt
  <2>9. \A u \in SettingsTables \ {s} : Carried(new, u)
    BY <1>2, <2>5 DEF Carried
  <2>10. RebuildAt(t, s, 2)'
    BY <1>2, <2>3, <2>5, <2>7, <2>8, <2>9 DEF RebuildAt, Carried
  <2>11. Moves(t, Rest(Rebuild(s), 2) \o r, task[t].rows, task[t].settings)
    BY <1>5, <1>7, <2>6
  <2> QED
    BY <2>7, <2>10, <2>11, AdvancesInRebuild DEF r
<1>8. CASE j = 2
  <2>1. CopyRows(t) /\ On(t) = s
    BY <1>6, <1>8, RebuildIs DEF Named
  <2>2. PICK row : row = tx.db.settings[s].row
    OBVIOUS
  <2>3. /\ row \in Settings /\ tx.db.temporary[s].shape = "current"
        /\ row = disk.settings[s].row
    BY <1>2, <1>8, <2>2, Tables DEF RebuildAt
  <2>4. PICK new : new = [tx.db EXCEPT !.temporary[s].row = row]
    OBVIOUS
  <2>5. /\ new \in Database /\ new.rows = tx.db.rows
        /\ new.temporary[s].row = row /\ new.temporary[s].shape = tx.db.temporary[s].shape
        /\ new.settings = tx.db.settings
        /\ \A u \in SettingsTables \ {s} : new.temporary[u] = tx.db.temporary[u]
    <3>1. tx.db \in Database /\ row \in Settings
      BY <1>2, <2>3
    <3>2. new = Copied(tx.db, s, row)
      BY <2>4, Zenon DEF Copied
    <3> QED  BY <3>1, <3>2, CopiedRow
  <2>6. Put(t, new) /\ Then(t)
    BY <1>3, <2>1, <2>2, <2>4 DEF CopyRows
  <2>7. Filed /\ InTx(t)' /\ tx'.db = new /\ disk' = disk /\ handle' = handle
    BY <1>1, <1>2, <2>5, <2>6, PutInTx
  <2>8. \A u \in SettingsTables \ {s} : Carried(new, u)
    BY <1>2, <2>5 DEF Carried
  <2>9. RebuildAt(t, s, 3)'
    BY <1>2, <2>3, <2>5, <2>7, <2>8 DEF RebuildAt, Carried
  <2>10. Moves(t, Rest(Rebuild(s), 3) \o r, task[t].rows, task[t].settings)
    BY <1>5, <1>8, <2>6
  <2> QED
    BY <2>7, <2>9, <2>10, AdvancesInRebuild DEF r
<1>9. CASE j = 3
  <2>1. DropTable(t) /\ On(t) = s
    BY <1>6, <1>9, RebuildIs DEF Named
  <2>2. PICK new : new = [tx.db EXCEPT !.settings[s] = Absent]
    OBVIOUS
  <2>3. /\ new \in Database /\ new.rows = tx.db.rows /\ new.temporary = tx.db.temporary
        /\ \A u \in SettingsTables \ {s} : new.settings[u] = tx.db.settings[u]
    BY <1>2, <2>2, AbsentIs DEF Database
  <2>4. Put(t, new) /\ Then(t)
    BY <1>3, <2>1, <2>2 DEF DropTable
  <2>5. Filed /\ InTx(t)' /\ tx'.db = new /\ disk' = disk /\ handle' = handle
    BY <1>1, <1>2, <2>3, <2>4, PutInTx
  <2>6. /\ tx.db.temporary[s].shape = "current"
        /\ tx.db.temporary[s].row = disk.settings[s].row
    BY <1>9 DEF RebuildAt
  <2>7. \A u \in SettingsTables \ {s} : Carried(new, u)
    BY <1>2, <2>3 DEF Carried
  <2>8. s = "repository_settings" => new.settings["agent_settings"].shape = "current"
    BY <1>2, <2>3 DEF SettingsTables
  <2>9. RebuildAt(t, s, 4)'
    BY <1>2, <2>3, <2>5, <2>6, <2>7, <2>8 DEF RebuildAt, Carried
  <2>10. Moves(t, Rest(Rebuild(s), 4) \o r, task[t].rows, task[t].settings)
    BY <1>5, <1>9, <2>4
  <2> QED
    BY <2>5, <2>9, <2>10, AdvancesInRebuild DEF r
<1>10. CASE j = 4
  <2>1. RenameTable(t) /\ On(t) = s
    BY <1>6, <1>10, RebuildIs DEF Named
  <2>2. PICK table : table = tx.db.temporary[s]
    OBVIOUS
  <2>3. /\ table \in Table /\ table.shape = "current" /\ table.row = disk.settings[s].row
    BY <1>2, <1>10, <2>2, Tables DEF RebuildAt
  <2>4. PICK new : new = [tx.db EXCEPT !.settings[s] = table, !.temporary[s] = Absent]
    OBVIOUS
  <2>5. /\ new \in Database /\ new.rows = tx.db.rows
        /\ new.settings[s] = table /\ new.temporary[s] = Absent
    BY <1>2, <2>3, <2>4, AbsentIs DEF Database
  <2>6. \A u \in SettingsTables \ {s} : /\ new.settings[u] = tx.db.settings[u]
                                         /\ new.temporary[u] = tx.db.temporary[u]
    BY <1>2, <2>3, <2>4, AbsentIs DEF Database
  <2>7. Put(t, new) /\ Then(t)
    BY <1>3, <2>1, <2>2, <2>4 DEF RenameTable
  <2>8. Filed /\ InTx(t)' /\ tx'.db = new /\ disk' = disk /\ handle' = handle
    BY <1>1, <1>2, <2>5, <2>7, PutInTx
  <2>9. \A u \in SettingsTables : Carried(new, u)
    BY <1>2, <2>3, <2>5, <2>6 DEF Carried
  <2>10. OpenAt(t, AfterInspect(s))'
    <3>1. CASE s = "agent_settings"
      <4>1. OpenAt(t, 6)'
        BY <1>2, <2>3, <2>5, <2>8, <2>9, <3>1 DEF OpenAt, Carried, SettingsTables
      <4> QED  BY <3>1, <4>1 DEF AfterInspect
    <3>2. CASE s = "repository_settings"
      <4>1. new.settings["agent_settings"].shape = "current"
        BY <1>2, <2>6, <3>2 DEF SettingsTables
      <4>2. OpenAt(t, 7)'
        BY <1>2, <2>3, <2>5, <2>8, <2>9, <3>2, <4>1 DEF OpenAt, Carried, SettingsTables
      <4> QED  BY <3>2, <4>2 DEF AfterInspect
    <3> QED  BY <3>1, <3>2 DEF SettingsTables
  <2>11. Moves(t, r, task[t].rows, task[t].settings)
    BY <1>4, <1>5, <1>10, <2>7
  <2>12. AfterInspect(s) \in 1..9
    BY DEF AfterInspect
  <2> QED
    BY <2>8, <2>10, <2>11, <2>12, AdvancesInOpen DEF r
<1> QED
  BY <1>7, <1>8, <1>9, <1>10

\* A transaction that touches neither the epics nor the settings, begun, carried
\* on and committed.
LEMMA AsideBegins ==
    ASSUME TypeOK, FileSound, NEW t \in Callers, Begin(t)
    PROVE  /\ Filed /\ Aside(t)' /\ disk' = disk /\ handle' = handle /\ tx'.db = disk
           /\ Then(t)
<1>1. /\ disk' = disk /\ handle' = handle /\ InTx(t)' /\ tx' = [of |-> t, db |-> disk]
  BY Begins
<1>2. tx'.db = disk
  BY <1>1
<1> QED
  BY <1>1, <1>2, BeginFiled DEF Aside, Begin

\* A write to such a transaction.
LEMMA AsidePuts ==
    ASSUME TypeOK, FileSound, NEW t \in Callers, Aside(t), NEW db \in Database,
           db.settings = tx.db.settings, db.temporary = tx.db.temporary, db.rows = tx.db.rows,
           Put(t, db)
    PROVE  /\ Filed /\ Aside(t)' /\ disk' = disk /\ handle' = handle /\ tx'.db = db
<1>1. Filed /\ InTx(t)' /\ tx'.db = db /\ disk' = disk /\ handle' = handle
  BY PutInTx DEF Aside
<1> QED
  BY <1>1 DEF Aside

\* Its commit.
LEMMA AsideCommits ==
    ASSUME TypeOK, FileSound, NEW t \in Callers, Aside(t), disk.project => tx.db.project, Commit(t)
    PROVE  /\ Filed /\ tx' = NoTx /\ disk' = tx.db /\ handle' = handle
           /\ disk'.settings = disk.settings
           /\ Then(t)
<1>1. /\ tx' = NoTx /\ disk' = tx.db /\ disk' \in Database
      /\ UNCHANGED <<handle, calls, failures, crashes, told>>
  BY Commits DEF Aside
<1>2. /\ disk'.settings = disk.settings /\ disk'.temporary = disk.temporary
      /\ disk'.rows = disk.rows
      /\ disk.project => disk'.project
  BY <1>1 DEF Aside
<1>3. Filed
  <2>1. FileSound'
    BY <1>1, <1>2 DEF FileSound, Current
  <2> QED  BY <1>1, <1>2, <2>1 DEF Filed, TypeOK
<1> QED
  BY <1>1, <1>2, <1>3 DEF Commit

\* The project's row and its links, written when the file is new.
LEMMA ProjectAdvances ==
    ASSUME NEW t \in Callers, NEW j \in 1..4, CallSound(t),
           Turn(t, WriteProject, Rest(OpenStore, 9) \o Code(t), j), ProjectAt(t, j)
    PROVE  Advances(t)
<1> DEFINE r == Rest(OpenStore, 9) \o Code(t)
<1>1. /\ TypeOK /\ FileSound /\ task[t].at = "running"
      /\ task[t].rows \in Rows /\ task[t].settings \in Settings
  <2>1. TypeOK /\ FileSound
    BY DEF Turn
  <2> QED  BY <2>1, TurnIs, WhatRuns DEF Turn
<1>2. ~handle /\ Current(disk) /\ (j # 1 => Aside(t)) /\ (j = 1 => tx = NoTx)
  BY DEF ProjectAt
<1>3. j # 1 => Working(t) = tx.db /\ tx.db \in Database
  BY <1>1, <1>2, WorkingIs DEF Aside, InTx
<1>4. r \in Seq(Instruction) /\ r # <<>> /\ Rest(WriteProject, 4 + 1) \o r = r
  <2>1. Code(t) \in Seq(Instruction)
    BY <1>1, CodeIs
  <2>2. OpenStore \in Seq(Instruction) /\ 9 \in 1..Len(OpenStore)
    BY OpenStoreIs
  <2>3. r \in Seq(Instruction) /\ r # <<>>
    BY <2>1, <2>2, RestOf
  <2> HIDE DEF r
  <2>4. WriteProject \in Seq(Instruction) /\ Len(WriteProject) = 4
    BY WriteProjectIs
  <2>5. Rest(WriteProject, Len(WriteProject) + 1) \o r = r
    BY <2>3, <2>4, WholeProgram
  <2> QED  BY <2>3, <2>4, <2>5
<1>5. ASSUME Then(t)
      PROVE  Moves(t, Rest(WriteProject, j + 1) \o r, task[t].rows, task[t].settings)
  <2> HIDE DEF r
  <2>1. Turn(t, WriteProject, r, j)
    BY DEF r
  <2> QED  BY <1>1, <1>4, <1>5, <2>1, TurnMoves DEF Then
<1>6. ASSUME NEW do, NEW on, NEW i \in 1..4, i = j, WriteProject[i] = S(do, on)
      PROVE  Named(t, do)
  BY <1>6, TurnRuns
<1> HIDE DEF r
<1>7. CASE j = 1
  <2>1. Begin(t)
    BY <1>6, <1>7, WriteProjectIs DEF Named
  <2>2. /\ Filed /\ Aside(t)' /\ disk' = disk /\ handle' = handle /\ Then(t)
    BY <1>1, <2>1, AsideBegins
  <2>3. ProjectAt(t, 2)'
    BY <1>2, <2>2 DEF ProjectAt, Current
  <2>4. Moves(t, Rest(WriteProject, 2) \o r, task[t].rows, task[t].settings)
    BY <1>5, <1>7, <2>2
  <2> QED
    BY <2>2, <2>3, <2>4, AdvancesInProject DEF r
<1>8. CASE j = 2
  <2>1. NameProject(t)
    BY <1>6, <1>8, WriteProjectIs DEF Named
  <2>2. PICK new : new = [tx.db EXCEPT !.project = TRUE]
    OBVIOUS
  <2>3. /\ new \in Database /\ new.rows = tx.db.rows /\ new.temporary = tx.db.temporary
        /\ new.settings = tx.db.settings /\ new.project = TRUE
    <3>1. tx.db \in Database
      BY <1>3, <1>8
    <3> QED  BY <2>2, <3>1 DEF Database
  <2>4. Put(t, new) /\ Then(t)
    <3>1. Working(t) = tx.db
      BY <1>3, <1>8
    <3> QED  BY <2>1, <2>2, <3>1 DEF NameProject
  <2>5. Filed /\ Aside(t)' /\ disk' = disk /\ handle' = handle /\ tx'.db = new
    BY <1>1, <1>2, <1>8, <2>3, <2>4, AsidePuts
  <2>6. ProjectAt(t, 3)'
    BY <1>2, <2>3, <2>5 DEF ProjectAt, Current
  <2>7. Moves(t, Rest(WriteProject, 3) \o r, task[t].rows, task[t].settings)
    BY <1>5, <1>8, <2>4
  <2> QED
    BY <2>5, <2>6, <2>7, AdvancesInProject DEF r
<1>9. CASE j = 3
  <2>1. Unlink(t)
    BY <1>6, <1>9, WriteProjectIs DEF Named
  <2>2. PICK new : new = [tx.db EXCEPT !.links = {}]
    OBVIOUS
  <2>3. /\ new \in Database /\ new.rows = tx.db.rows /\ new.temporary = tx.db.temporary
        /\ new.settings = tx.db.settings /\ new.project = tx.db.project
    <3>1. tx.db \in Database
      BY <1>3, <1>9
    <3> QED  BY <2>2, <3>1 DEF Database
  <2>4. Put(t, new) /\ Then(t)
    <3>1. Working(t) = tx.db
      BY <1>3, <1>9
    <3> QED  BY <2>1, <2>2, <3>1 DEF Unlink
  <2>5. Filed /\ Aside(t)' /\ disk' = disk /\ handle' = handle /\ tx'.db = new
    BY <1>1, <1>2, <1>9, <2>3, <2>4, AsidePuts
  <2>6. tx.db.project
    BY <1>9 DEF ProjectAt
  <2>7. ProjectAt(t, 4)'
    <3>1. (tx.db.project)' = tx.db.project
      BY <2>3, <2>5
    <3>2. (tx.db.project)'
      BY <2>6, <3>1
    <3> QED  BY <1>2, <2>5, <3>2 DEF ProjectAt, Current
  <2>8. Moves(t, Rest(WriteProject, 4) \o r, task[t].rows, task[t].settings)
    BY <1>5, <1>9, <2>4
  <2> QED
    BY <2>5, <2>7, <2>8, AdvancesInProject DEF r
<1>10. CASE j = 4
  <2>1. Commit(t)
    BY <1>6, <1>10, WriteProjectIs DEF Named
  <2>2. tx.db.project /\ Aside(t)
    BY <1>10 DEF ProjectAt
  <2>3. /\ Filed /\ tx' = NoTx /\ disk' = tx.db /\ handle' = handle
        /\ disk'.settings = disk.settings /\ Then(t)
    BY <1>1, <2>1, <2>2, AsideCommits
  <2>4. OpenAt(t, 9)'
    BY <1>2, <2>2, <2>3 DEF OpenAt, Current, SettingsTables
  <2>5. Moves(t, r, task[t].rows, task[t].settings)
    BY <1>4, <1>5, <1>10, <2>3
  <2> QED
    BY <2>3, <2>4, <2>5, AdvancesInOpen DEF r
<1> QED
  BY <1>7, <1>8, <1>9, <1>10

\* What a finished stage has done to the epics, or seen of them.
Effect(t) ==
    LET op == task[t].op
    IN  /\ IF op.kind = "change" \/ (op.kind = "create" /\ task[t].stage = 2)
           THEN \A p \in PartNames, e \in Epics :
                   disk'.rows[p][e] = IF e = op.epic THEN Written(op) ELSE disk.rows[p][e]
           ELSE disk'.rows = disk.rows
        /\ op.kind = "change" => disk.rows["epics"][op.epic] # NoEpic
        /\ op.kind = "list" =>
              \A p \in PartNames, e \in Epics : task[t].rows[p][e] = disk.rows[p][e]

\* The last statement of a stage.
Finishes(t) ==
    /\ Leave(t, "done")
    /\ UNCHANGED <<handle, calls, failures, crashes, told>>
    /\ tx' = NoTx /\ disk' \in Database /\ FileSound'
    /\ \A s \in SettingsTables :
          \/ disk'.settings[s].row = disk.settings[s].row
          \/ /\ s = "agent_settings"
             /\ disk'.settings[s].row = Assigned(task[t].op, disk.settings[s].row)
    /\ Effect(t)

\* After the last statement of a stage the call leaves the lock.
LEMMA TurnEnds ==
    ASSUME NEW t \in Callers, NEW p, Turn(t, p, <<>>, Len(p)), Then(t)
    PROVE  Leave(t, "done")
<1>1. p \in Seq(Instruction) /\ <<>> \in Seq(Instruction)
  BY DEF Turn
<1>2. Tail(task[t].todo) = Rest(p, Len(p) + 1) \o <<>>
  BY TurnIs
<1>3. Tail(task[t].todo) = <<>>
  BY <1>1, <1>2, WholeProgram
<1> QED
  BY <1>3 DEF Then, Proceed

\* Assigned settings are settings.
LEMMA AssignedIs ==
    ASSUME NEW op \in Op, NEW settings \in Settings
    PROVE  Assigned(op, settings) \in Settings
<1>1. op.n \in -1..MaxCalls
  BY StoreConstants DEF Op, Call
<1>2. \A r \in Roles : settings[r] \in Profile /\ [settings[r] EXCEPT !.agent = op.n] \in Profile
  BY <1>1 DEF Settings, Profile
<1> QED
  BY <1>2 DEF Assigned, Settings

\* The profiles of roles: read, assigned and written back in statements of their own.
LEMMA SettingRuns ==
    ASSUME NEW t \in Callers, NEW k \in 1..3, CallSound(t), handle,
           Code(t) = UpdateAgentSettings, Turn(t, UpdateAgentSettings, <<>>, k), SettingAt(t, k),
           task[t].op.kind = "role" \/ (task[t].op.kind = "setup" /\ task[t].stage = 1)
    PROVE  Advances(t) \/ Finishes(t)
<1>1. /\ TypeOK /\ FileSound /\ task[t].at = "running" /\ disk \in Database
      /\ task[t].rows \in Rows /\ task[t].settings \in Settings /\ task[t].op \in Op
  <2>1. TypeOK /\ FileSound
    BY DEF Turn
  <2> QED  BY <2>1, TurnIs, WhatRuns, CodeIs DEF Turn, TypeOK
<1>2. tx = NoTx /\ Working(t) = disk
  BY <1>1, WorkingIs DEF SettingAt
<1>3. PICK row : row = disk.settings["agent_settings"].row
  OBVIOUS
<1>4. row \in Settings /\ "agent_settings" \in SettingsTables
  BY <1>1, <1>3, Tables DEF SettingsTables
<1>5. ASSUME NEW do, NEW on, NEW i \in 1..3, i = k, UpdateAgentSettings[i] = S(do, on)
      PROVE  Named(t, do) /\ On(t) = on
  BY <1>5, TurnRuns
<1>6. ASSUME NEW settings \in Settings, k < 3,
             Proceed(t, Tail(task[t].todo), task[t].rows, settings)
      PROVE  /\ Moves(t, Rest(UpdateAgentSettings, k + 1) \o <<>>, task[t].rows, settings)
             /\ k + 1 \in 1..Len(Code(t))
  <2>1. k < Len(UpdateAgentSettings) /\ k + 1 \in 1..Len(Code(t))
    BY <1>6, UpdateAgentSettingsIs
  <2>2. task[t].rows \in Rows
    BY <1>1
  <2> QED  BY <1>6, <2>1, <2>2, TurnMoves
<1>7. ASSUME NEW settings, NEW j, handle', SettingAt(t, j)',
             Moves(t, Rest(UpdateAgentSettings, j) \o <<>>, task[t].rows, settings)
      PROVE  StageAt(t, j)'
  BY <1>7 DEF StageAt, Moves
<1>8. CASE k = 1
  <2>1. SelectSettings(t)
    BY <1>5, <1>8, UpdateAgentSettingsIs DEF Named
  <2>2. Keeps /\ Filed /\ Proceed(t, Tail(task[t].todo), task[t].rows, row)
    BY <1>1, <1>2, <1>3, <2>1, KeepsFiled DEF SelectSettings
  <2>3. /\ Moves(t, Rest(UpdateAgentSettings, 2) \o <<>>, task[t].rows, row)
        /\ 2 \in 1..Len(Code(t))
    BY <1>4, <1>6, <1>8, <2>2
  <2>4. SettingAt(t, 2)' /\ handle'
    BY <1>2, <1>3, <2>2, <2>3 DEF SettingAt, Keeps, Moves
  <2> QED
    BY <1>7, <2>2, <2>3, <2>4, AdvancesInStage
<1>9. CASE k = 2
  <2>1. AssignRoles(t)
    BY <1>5, <1>9, UpdateAgentSettingsIs DEF Named
  <2>2. PICK set : set = Assigned(task[t].op, row)
    OBVIOUS
  <2>3. set \in Settings /\ task[t].settings = row
    BY <1>1, <1>3, <1>4, <1>9, <2>2, AssignedIs DEF SettingAt
  <2>4. Keeps /\ Filed /\ Proceed(t, Tail(task[t].todo), task[t].rows, set)
    BY <1>1, <2>1, <2>2, <2>3, KeepsFiled DEF AssignRoles
  <2>5. /\ Moves(t, Rest(UpdateAgentSettings, 3) \o <<>>, task[t].rows, set)
        /\ 3 \in 1..Len(Code(t))
    BY <1>6, <1>9, <2>3, <2>4
  <2>6. SettingAt(t, 3)' /\ handle'
    <3>1. set = Assigned(task'[t].op, disk'.settings["agent_settings"].row)
      BY <1>3, <2>2, <2>4, <2>5 DEF Keeps, Moves, Assigned, About
    <3> QED  BY <1>2, <2>4, <2>5, <3>1 DEF SettingAt, Keeps, Moves
  <2> QED
    BY <1>7, <2>4, <2>5, <2>6, AdvancesInStage
<1>10. CASE k = 3
  <2>1. ReplaceSettings(t)
    BY <1>5, <1>10, UpdateAgentSettingsIs DEF Named
  <2>2. task[t].settings = Assigned(task[t].op, disk.settings["agent_settings"].row)
    BY <1>10 DEF SettingAt
  <2>3. PICK new : new = [disk EXCEPT !.settings["agent_settings"].row = task[t].settings]
    OBVIOUS
  <2>4. /\ new \in Database /\ new.rows = disk.rows /\ new.temporary = disk.temporary
        /\ new.settings["agent_settings"].row = task[t].settings
        /\ new.settings["agent_settings"].shape = disk.settings["agent_settings"].shape
        /\ new.project = disk.project
        /\ \A u \in SettingsTables \ {"agent_settings"} : new.settings[u] = disk.settings[u]
    <3>1. disk \in Database /\ task[t].settings \in Settings
      BY <1>1 DEF TypeOK
    <3>2. new = Replaced(disk, "agent_settings", task[t].settings)
      BY <2>3, Zenon DEF Replaced
    <3> QED  BY <1>4, <3>1, <3>2, ReplacedRow
  <2>5. \A u \in SettingsTables : u # "agent_settings" => new.settings[u] = disk.settings[u]
    BY <2>4
  <2>6. Put(t, new) /\ Then(t)
    BY <1>2, <2>1, <2>3 DEF ReplaceSettings
  <2>7. disk' = new /\ tx' = NoTx /\ UNCHANGED <<handle, calls, failures, crashes, told>>
    BY <1>1, <1>2, <2>4, <2>6, PutIs
  <2>8. Leave(t, "done")
    <3>1. k = Len(UpdateAgentSettings)
      BY <1>10, UpdateAgentSettingsIs
    <3> QED  BY <2>6, <3>1, TurnEnds
  <2>9. FileSound'
    <3>1. \A s \in SettingsTables : new.settings[s].shape = "current"
      BY <1>1, <2>4, <2>5 DEF FileSound, Current
    <3> QED  BY <1>1, <2>4, <2>7, <3>1 DEF FileSound, Current
  <2>10. \A s \in SettingsTables :
           \/ disk'.settings[s].row = disk.settings[s].row
           \/ /\ s = "agent_settings"
              /\ disk'.settings[s].row = Assigned(task[t].op, disk.settings[s].row)
    BY <2>2, <2>4, <2>5, <2>7
  <2>11. Effect(t)
    BY <2>4, <2>7 DEF Effect
  <2> QED
    BY <2>4, <2>7, <2>8, <2>9, <2>10, <2>11 DEF Finishes
<1> QED
  BY <1>8, <1>9, <1>10

\* A call's repositories, replaced in one transaction.
LEMMA LinkingRuns ==
    ASSUME NEW t \in Callers, NEW k \in 1..5, CallSound(t), handle,
           Code(t) = ReplaceRepositories, Turn(t, ReplaceRepositories, <<>>, k), LinkingAt(t, k),
           task[t].op.kind = "link" \/ (task[t].op.kind = "setup" /\ task[t].stage = 2)
    PROVE  Advances(t) \/ Finishes(t)
<1>1. /\ TypeOK /\ FileSound /\ task[t].at = "running" /\ disk \in Database
      /\ task[t].rows \in Rows /\ task[t].settings \in Settings /\ task[t].op \in Op
  <2>1. TypeOK /\ FileSound
    BY DEF Turn
  <2> QED  BY <2>1, TurnIs, WhatRuns, CodeIs DEF Turn, TypeOK
<1>2. ASSUME NEW do, NEW on, NEW i \in 1..5, i = k, ReplaceRepositories[i] = S(do, on)
      PROVE  Named(t, do)
  BY <1>2, TurnRuns
<1>3. ASSUME k < 5, Then(t)
      PROVE  /\ Moves(t, Rest(ReplaceRepositories, k + 1) \o <<>>, task[t].rows, task[t].settings)
             /\ k + 1 \in 1..Len(Code(t))
  <2>1. k < Len(ReplaceRepositories) /\ k + 1 \in 1..Len(Code(t))
    BY <1>3, ReplaceRepositoriesIs
  <2>2. task[t].rows \in Rows /\ task[t].settings \in Settings
    BY <1>1
  <2> QED  BY <1>3, <2>1, <2>2, TurnMoves DEF Then
<1>4. ASSUME k < 5, Then(t), Filed, handle', Aside(t)', (tx.db.project)' = (disk.project)'
      PROVE  Advances(t)
  <2>1. /\ Moves(t, Rest(Code(t), k + 1) \o <<>>, task[t].rows, task[t].settings)
        /\ k + 1 \in 1..Len(Code(t))
    BY <1>3, <1>4
  <2>2. k + 1 # 1
    OBVIOUS
  <2>3. LinkingAt(t, k + 1)'
    BY <1>4, <2>2 DEF LinkingAt
  <2>4. StageAt(t, k + 1)'
    BY <1>4, <2>1, <2>3 DEF StageAt, Moves
  <2> QED
    BY <1>4, <2>1, <2>4, AdvancesInStage
<1>5. k # 1 => Aside(t) /\ tx.db.project = disk.project
  BY DEF LinkingAt
<1>6. k # 1 => Working(t) = tx.db /\ tx.db \in Database
  BY <1>1, <1>5, WorkingIs DEF Aside, InTx
<1>7. CASE k = 1
  <2>1. Begin(t)
    BY <1>2, <1>7, ReplaceRepositoriesIs DEF Named
  <2>2. Filed /\ Aside(t)' /\ disk' = disk /\ handle' = handle /\ tx'.db = disk /\ Then(t)
    BY <1>1, <2>1, AsideBegins
  <2> QED
    BY <1>4, <1>7, <2>2
<1>8. CASE k = 2
  <2>1. RequireProject(t)
    BY <1>2, <1>8, ReplaceRepositoriesIs DEF Named
  <2>2. Keeps /\ Filed /\ Then(t)
    BY <1>1, <2>1, KeepsFiled DEF RequireProject
  <2>3. tx' = tx /\ disk' = disk /\ handle' = handle /\ Aside(t)'
    BY <1>5, <1>8, <2>2 DEF Keeps, Aside, InTx
  <2> QED
    BY <1>4, <1>5, <1>8, <2>2, <2>3
<1>9. ASSUME NEW links \in SUBSET Repositories, k \in {3, 4},
             Put(t, [Working(t) EXCEPT !.links = links]), Then(t)
      PROVE  Advances(t)
  <2>1. /\ Working(t) = tx.db /\ tx.db \in Database /\ k < 5
        /\ Aside(t) /\ tx.db.project = disk.project
    BY <1>5, <1>6, <1>9
  <2>2. PICK new : new = [tx.db EXCEPT !.links = links]
    OBVIOUS
  <2>3. /\ new \in Database /\ new.rows = tx.db.rows /\ new.temporary = tx.db.temporary
        /\ new.settings = tx.db.settings /\ new.project = tx.db.project
    BY <2>1, <2>2 DEF Database
  <2>4. Put(t, new)
    BY <1>9, <2>1, <2>2
  <2>5. Filed /\ Aside(t)' /\ disk' = disk /\ handle' = handle /\ tx'.db = new
    BY <1>1, <2>1, <2>3, <2>4, AsidePuts
  <2>6. (tx.db.project)' = (disk.project)'
    BY <2>1, <2>3, <2>5
  <2> QED
    BY <1>4, <1>9, <2>1, <2>5, <2>6
<1>10. CASE k = 3
  <2>1. Unlink(t)
    BY <1>2, <1>10, ReplaceRepositoriesIs DEF Named
  <2> QED
    BY <1>9, <1>10, <2>1 DEF Unlink
<1>11. CASE k = 4
  <2>1. LinkRepositories(t)
    BY <1>2, <1>11, ReplaceRepositoriesIs DEF Named
  <2>2. task[t].op.links \in SUBSET Repositories
    BY <1>1 DEF Op
  <2> QED
    BY <1>9, <1>11, <2>1, <2>2 DEF LinkRepositories
<1>12. CASE k = 5
  <2>1. Commit(t)
    BY <1>2, <1>12, ReplaceRepositoriesIs DEF Named
  <2>2. Aside(t) /\ (disk.project => tx.db.project)
    BY <1>5, <1>12
  <2>3. Filed /\ tx' = NoTx /\ handle' = handle /\ Then(t)
    BY <1>1, <2>1, <2>2, AsideCommits
  <2>4. Leave(t, "done")
    <3>1. k = Len(ReplaceRepositories)
      BY <1>12, ReplaceRepositoriesIs
    <3> QED  BY <2>3, <3>1, TurnEnds
  <2>5. Effect(t)
    BY <2>3 DEF Effect, Filed
  <2> QED
    BY <2>3, <2>4, <2>5 DEF Finishes, Filed
<1> QED
  BY <1>7, <1>8, <1>10, <1>11, <1>12

\* The epic, the change or the links of a call are refused.
Refuses(t) ==
    /\ task[t].op.kind \in {"create", "change"}
    /\ Leave(t, "refused")
    /\ tx' = NoTx
    /\ UNCHANGED <<disk, handle, calls, failures, crashes, told>>

\* No two tables have one name.
LEMMA PartsDiffer == \A i, j \in 1..5 : Parts[i] = Parts[j] => i = j
  BY PartsAre

\* Every table has its place.
LEMMA PartsNamed == \A p \in PartNames : \E i \in 1..5 : p = Parts[i]
  BY PartsAre DEF PartNames

\* A table read, by a list or by a change, as it is on disk.
LEMMA ReadsPart ==
    ASSUME NEW t \in Callers, NEW i \in 1..5, NEW p, TypeOK, FileSound, CallSound(t), handle,
           p \in Seq(Instruction), Len(p) > i + 1, Code(t) = p, Turn(t, p, <<>>, i + 1),
           p[i + 1] = S("read", Parts[i]), ReadingAt(t, i + 1),
           task[t].op.kind \in {"list", "change"}
    PROVE  \/ Refuses(t)
           \/ /\ Filed /\ handle' /\ ReadingAt(t, i + 2)'
              /\ Moves(t, Rest(p, i + 2) \o <<>>, task'[t].rows, task[t].settings)
<1>1. /\ task[t].at = "running" /\ disk \in Database /\ task[t].op \in Op
      /\ task[t].rows \in Rows /\ task[t].settings \in Settings
      /\ ReadPart(t) /\ On(t) = Parts[i]
  <2>1. ReadPart(t) /\ On(t) = Parts[i] /\ task[t].at = "running"
    BY TurnRuns DEF Named
  <2> QED  BY <2>1, TurnIs, CodeIs DEF TypeOK
<1>2. tx = [of |-> t, db |-> disk] /\ HasRead(t, i - 1)
  <2>1. i + 1 # 1 /\ i + 1 - 2 = i - 1
    OBVIOUS
  <2> QED  BY <2>1 DEF ReadingAt
<1>3. Working(t) = disk
  BY <1>2 DEF Working
<1>4. PICK rows : rows = [e \in Epics |-> IF e \in Read(task[t].op)
                                         THEN disk.rows[Parts[i]][e] ELSE NoEpic]
  OBVIOUS
<1>5. Parts[i] \in PartNames /\ task[t].op.epic \in Epics
  BY <1>1, PartsAre DEF Op, PartNames
<1>6. rows \in [Epics -> {NoEpic} \cup SUBSET Call]
  <2>1. disk.rows \in Rows
    BY <1>1 DEF Database
  <2> QED  BY <1>4, <1>5, <2>1 DEF Rows
<1>7. IF task[t].op.kind = "change" /\ rows[task[t].op.epic] = NoEpic
      THEN /\ Leave(t, "refused")
           /\ tx' = NoTx
           /\ UNCHANGED <<disk, handle, calls, failures, crashes, told>>
      ELSE /\ Proceed(t, Tail(task[t].todo), [task[t].rows EXCEPT ![Parts[i]] = rows],
                      task[t].settings)
           /\ Keeps
  BY <1>1, <1>3, <1>4 DEF ReadPart, Read
<1>8. CASE task[t].op.kind = "change" /\ rows[task[t].op.epic] = NoEpic
  BY <1>7, <1>8 DEF Refuses
<1>9. CASE ~(task[t].op.kind = "change" /\ rows[task[t].op.epic] = NoEpic)
  <2>1. PICK all : all = [task[t].rows EXCEPT ![Parts[i]] = rows]
    OBVIOUS
  <2>2. all \in Rows /\ all[Parts[i]] = rows
        /\ \A q \in PartNames : q # Parts[i] => all[q] = task[t].rows[q]
    BY <1>1, <1>5, <1>6, <2>1 DEF Rows
  <2>3. Proceed(t, Tail(task[t].todo), all, task[t].settings) /\ Keeps
    BY <1>7, <1>9, <2>1
  <2>4. Filed
    BY <2>3, KeepsFiled
  <2>5. Moves(t, Rest(p, i + 2) \o <<>>, all, task[t].settings)
    <3>1. i + 1 < Len(p) /\ i + 1 + 1 = i + 2
      OBVIOUS
    <3>2. Moves(t, Rest(p, i + 1 + 1) \o <<>>, all, task[t].settings)
      BY <1>1, <2>2, <2>3, <3>1, TurnMoves
    <3> QED  BY <3>1, <3>2
  <2>6. /\ task'[t].rows = all /\ task'[t].op = task[t].op
        /\ disk' = disk /\ tx' = tx /\ handle' = handle
    BY <2>3, <2>5 DEF Moves, Keeps
  <2>7. ASSUME NEW j \in 1..5, j <= i
        PROVE  /\ \A e \in Read(task[t].op) : all[Parts[j]][e] = disk.rows[Parts[j]][e]
               /\ task[t].op.kind = "change" => disk.rows["epics"][task[t].op.epic] # NoEpic
    <3>1. CASE j = i
      <4>1. \A e \in Read(task[t].op) : rows[e] = disk.rows[Parts[i]][e]
        BY <1>1, <1>4 DEF Read, Op
      <4>2. ASSUME task[t].op.kind = "change"
            PROVE  disk.rows["epics"][task[t].op.epic] # NoEpic
        <5>1. rows[task[t].op.epic] = disk.rows[Parts[i]][task[t].op.epic]
          BY <1>4, <1>5, <4>2 DEF Read
        <5>2. disk.rows[Parts[i]] = disk.rows["epics"]
          BY <1>5 DEF FileSound
        <5> QED  BY <1>9, <4>2, <5>1, <5>2
      <4> QED  BY <2>2, <3>1, <4>1, <4>2
    <3>2. CASE j # i
      <4>1. j <= i - 1 /\ j \in DOMAIN Parts
        BY <2>7, <3>2, PartsAre
      <4>2. Parts[j] # Parts[i] /\ Parts[j] \in PartNames
        BY <3>2, PartsDiffer, PartsAre DEF PartNames
      <4>3. all[Parts[j]] = task[t].rows[Parts[j]]
        BY <2>2, <4>2
      <4> QED  BY <1>2, <4>1, <4>3 DEF HasRead
    <3> QED  BY <3>1, <3>2
  <2>8. HasRead(t, i)'
    BY <2>6, <2>7, PartsAre DEF HasRead
  <2>9. ReadingAt(t, i + 2)'
    <3>1. i + 2 # 1 /\ i + 2 - 2 = i
      OBVIOUS
    <3> QED  BY <1>2, <2>6, <2>8, <3>1 DEF ReadingAt
  <2> QED
    BY <2>4, <2>5, <2>6, <2>9
<1> QED
  BY <1>8, <1>9

\* The tables read in one transaction: a list, and the first half of a change.
LEMMA ReadingRuns ==
    ASSUME NEW t \in Callers, NEW k \in 1..7, NEW p, CallSound(t), handle,
           p \in Seq(Instruction), Code(t) = p, Turn(t, p, <<>>, k), ReadingAt(t, k),
           \A i \in 1..7 : p[i] = ReadEpics[i],
           \/ task[t].op.kind = "list" /\ Len(p) = 7
           \/ task[t].op.kind = "change" /\ Len(p) = 16
    PROVE  Advances(t) \/ Finishes(t) \/ Refuses(t)
<1>1. /\ TypeOK /\ FileSound /\ disk \in Database
      /\ task[t].rows \in Rows /\ task[t].settings \in Settings
  <2>1. TypeOK /\ FileSound
    BY DEF Turn
  <2> QED  BY <2>1, TurnIs DEF TypeOK
<1>2. /\ p[1] = S("begin", "tx") /\ p[7] = S("commit", "tx")
      /\ \A i \in 1..5 : p[i + 1] = S("read", Parts[i])
  <2>1. \A i \in 1..5 : ReadEpics[i + 1] = S("read", Parts[i]) /\ i + 1 \in 1..7
    <3>1. \A i \in 1..5 : 1 + i = i + 1
      OBVIOUS
    <3> QED  BY <3>1, ReadEpicsIs
  <2> QED  BY <2>1, ReadEpicsIs
<1>3. ASSUME NEW rows, NEW settings, NEW j \in 1..7, handle', Filed, ReadingAt(t, j)',
             Moves(t, Rest(p, j) \o <<>>, rows, settings)
      PROVE  Advances(t)
  <2>1. j < 8 /\ j \in 1..Len(Code(t))
    OBVIOUS
  <2>2. StageAt(t, j)'
    BY <1>3, <2>1 DEF StageAt, Moves
  <2> QED
    BY <1>3, <2>1, <2>2, AdvancesInStage
<1>4. CASE k = 1
  <2>1. Begin(t)
    BY <1>2, <1>4, TurnRuns DEF Named
  <2>2. /\ tx' = [of |-> t, db |-> disk] /\ UNCHANGED <<disk, handle>> /\ Filed
        /\ Proceed(t, Tail(task[t].todo), task[t].rows, task[t].settings)
    BY <1>1, <2>1, Begins, BeginFiled
  <2>3. Moves(t, Rest(p, 2) \o <<>>, task[t].rows, task[t].settings)
    <3>1. 1 < Len(p) /\ 1 + 1 = 2
      OBVIOUS
    <3>2. Moves(t, Rest(p, 1 + 1) \o <<>>, task[t].rows, task[t].settings)
      BY <1>1, <1>4, <2>2, <3>1, TurnMoves
    <3> QED  BY <3>1, <3>2
  <2>4. ReadingAt(t, 2)'
    <3>1. \A i \in DOMAIN Parts : ~(i <= 2 - 2)
      BY PartsAre
    <3> QED  BY <2>2, <3>1 DEF ReadingAt, HasRead
  <2> QED
    BY <1>3, <2>2, <2>3, <2>4
<1>5. CASE k \in 2..6
  <2>1. PICK i \in 1..5 : k = i + 1
    <3>1. k - 1 \in 1..5 /\ k = (k - 1) + 1
      BY <1>5
    <3> QED  BY <3>1
  <2>2. Len(p) > i + 1 /\ i + 2 \in 1..7
    OBVIOUS
  <2>3. Turn(t, p, <<>>, i + 1) /\ ReadingAt(t, i + 1) /\ p[i + 1] = S("read", Parts[i])
    BY <1>2, <2>1
  <2>4. \/ Refuses(t)
        \/ /\ Filed /\ handle' /\ ReadingAt(t, i + 2)'
           /\ Moves(t, Rest(p, i + 2) \o <<>>, task'[t].rows, task[t].settings)
    BY <1>1, <2>2, <2>3, ReadsPart
  <2> QED
    BY <1>3, <2>2, <2>4
<1>6. CASE k = 7
  <2>1. Commit(t)
    BY <1>2, <1>6, TurnRuns DEF Named
  <2>2. tx = [of |-> t, db |-> disk] /\ HasRead(t, 5)
    <3>1. k # 1 /\ k - 2 = 5
      BY <1>6
    <3> QED  BY <3>1 DEF ReadingAt
  <2>3. InTx(t) /\ tx.db = disk
    BY <1>1, <2>2 DEF InTx
  <2>4. /\ tx' = NoTx /\ disk' = disk /\ UNCHANGED <<handle, calls, failures, crashes, told>>
        /\ Then(t)
    BY <1>1, <2>1, <2>3, Commits DEF Commit
  <2>5. Filed
    BY <1>1, <2>4, FiledAlike
  <2>6. CASE task[t].op.kind = "list" /\ Len(p) = 7
    <3>1. Leave(t, "done")
      BY <1>6, <2>4, <2>6, TurnEnds
    <3>2. \A q \in PartNames, e \in Epics : task[t].rows[q][e] = disk.rows[q][e]
      <4> TAKE q \in PartNames, e \in Epics
      <4>1. PICK i \in 1..5 : q = Parts[i]
        BY PartsNamed
      <4>2. i \in DOMAIN Parts /\ i <= 5
        BY PartsAre
      <4>3. Read(task[t].op) = Epics
        BY <2>6 DEF Read
      <4>4. task[t].rows[Parts[i]][e] = disk.rows[Parts[i]][e]
        BY <2>2, <4>2, <4>3 DEF HasRead
      <4> QED  BY <4>1, <4>4
    <3>3. Effect(t)
      BY <2>4, <2>6, <3>2 DEF Effect
    <3> QED
      BY <2>4, <2>5, <3>1, <3>3 DEF Finishes, Filed
  <2>7. CASE task[t].op.kind = "change" /\ Len(p) = 16
    <3>1. Moves(t, Rest(p, 8) \o <<>>, task[t].rows, task[t].settings)
      <4>1. 7 < Len(p) /\ 7 + 1 = 8
        BY <2>7
      <4>2. Moves(t, Rest(p, 7 + 1) \o <<>>, task[t].rows, task[t].settings)
        BY <1>1, <1>6, <2>4, <4>1, TurnMoves DEF Then
      <4> QED  BY <4>1, <4>2
    <3>2. HasRead(t, 5)'
      BY <2>2, <2>4, <3>1 DEF HasRead, Moves
    <3>3. StageAt(t, 8)'
      BY <2>4, <2>7, <3>1, <3>2 DEF StageAt, Moves
    <3>4. 8 \in 1..Len(Code(t))
      BY <2>7
    <3> QED
      BY <2>5, <3>1, <3>3, <3>4, AdvancesInStage
  <2> QED
    BY <2>6, <2>7
<1> QED
  BY <1>4, <1>5, <1>6

\* An epic as a call leaves it is an epic.
LEMMA WrittenIs ==
    ASSUME TypeOK, NEW op \in Op, op.kind = "create" \/ disk.rows["epics"][op.epic] # NoEpic
    PROVE  Written(op) \in SUBSET Call
<1>1. /\ op.n \in Call /\ op.epic \in Epics /\ "epics" \in PartNames /\ disk.rows \in Rows
  BY PartsAre DEF Op, TypeOK, Database
<1>2. disk.rows["epics"][op.epic] \in {NoEpic} \cup SUBSET Call
  BY <1>1 DEF Rows
<1> QED
  BY <1>1, <1>2 DEF Written

\* An epic deleted and inserted again, table by table, in one transaction: a
\* creation, and the second half of a change.
LEMMA WritingRuns ==
    ASSUME NEW t \in Callers, NEW k \in 1..8, NEW o \in {0, 8}, NEW p, CallSound(t), handle,
           p \in Seq(Instruction), Code(t) = p, Turn(t, p, <<>>, o + k), WritingAt(t, k),
           Len(p) = o + 8, \A i \in 1..8 : p[o + i] = WriteEpic[i],
           \/ task[t].op.kind = "create" /\ task[t].stage = 2 /\ o = 0
           \/ task[t].op.kind = "change" /\ o = 8 /\ Changed(t)
    PROVE  Advances(t) \/ Finishes(t)
<1> DEFINE op == task[t].op
<1>1. /\ TypeOK /\ FileSound /\ disk \in Database /\ disk.rows \in Rows /\ task[t].op \in Op
      /\ task[t].rows \in Rows /\ task[t].settings \in Settings
      /\ task[t].op.epic \in Epics /\ task[t].op.n \in Call
  <2>1. TypeOK /\ FileSound /\ task[t].at = "running"
    BY WhatRuns DEF Turn
  <2> QED  BY <2>1, TurnIs, CodeIs DEF TypeOK, Op, Database
<1>2. /\ p[o + 1] = S("begin", "tx") /\ p[o + 2] = S("delete", "epics")
      /\ p[o + 8] = S("commit", "tx")
      /\ \A i \in 1..5 : p[o + (2 + i)] = S("insert", Parts[i])
  <2>1. \A i \in 1..5 : 2 + i \in 1..8 /\ WriteEpic[2 + i] = S("insert", Parts[i])
    BY WriteEpicIs
  <2>2. p[o + 1] = WriteEpic[1] /\ p[o + 2] = WriteEpic[2] /\ p[o + 8] = WriteEpic[8]
    OBVIOUS
  <2> QED  BY <2>1, <2>2, WriteEpicIs
<1>3. ASSUME Then(t), k < 8
      PROVE  Moves(t, Rest(p, o + k + 1) \o <<>>, task[t].rows, task[t].settings)
  <2>1. o + k < Len(p)
    BY <1>3
  <2> QED  BY <1>1, <1>3, <2>1, TurnMoves DEF Then
<1>4. ASSUME NEW j \in 1..8, j = k + 1, Then(t), Filed, handle', disk' = disk, WritingAt(t, j)'
      PROVE  Advances(t)
  <2>1. Moves(t, Rest(p, o + j) \o <<>>, task[t].rows, task[t].settings)
    <3>1. k < 8 /\ o + j = o + k + 1
      BY <1>4
    <3> QED  BY <1>3, <1>4, <3>1
  <2>2. CASE task[t].op.kind = "create" /\ task[t].stage = 2 /\ o = 0
    <3>1. o + j = j /\ j \in 1..Len(Code(t))
      BY <2>2
    <3>2. StageAt(t, j)'
      BY <1>4, <2>1, <2>2 DEF StageAt, Moves
    <3> QED
      BY <1>4, <2>1, <3>1, <3>2, AdvancesInStage
  <2>3. CASE task[t].op.kind = "change" /\ o = 8 /\ Changed(t)
    <3>1. /\ 8 + j \in 1..Len(Code(t)) /\ 8 + j - 8 = j /\ ~(8 + j < 8) /\ 8 + j # 8
          /\ o + j = 8 + j
      BY <2>3
    <3>2. Changed(t)'
      BY <1>4, <2>1, <2>3 DEF Changed, Written, Moves
    <3>3. StageAt(t, 8 + j)'
      BY <1>4, <2>1, <2>3, <3>1, <3>2 DEF StageAt, Moves
    <3> QED
      BY <1>4, <2>1, <3>1, <3>3, AdvancesInStage
  <2> QED
    BY <2>2, <2>3
<1>5. Written(op) \in SUBSET Call
  BY <1>1, WrittenIs DEF Changed
<1>6. k # 1 => /\ InTx(t) /\ tx.db \in Database
               /\ tx.db.settings = disk.settings /\ tx.db.temporary = disk.temporary
               /\ tx.db.project = disk.project
               /\ \A q \in PartNames, e \in Epics \ {op.epic} : tx.db.rows[q][e] = disk.rows[q][e]
  <2> SUFFICES ASSUME k # 1
               PROVE  /\ InTx(t) /\ tx.db \in Database
                      /\ tx.db.settings = disk.settings /\ tx.db.temporary = disk.temporary
                      /\ tx.db.project = disk.project
                      /\ \A q \in PartNames, e \in Epics \ {op.epic} : tx.db.rows[q][e] = disk.rows[q][e]
    OBVIOUS
  <2>1. /\ InTx(t)
        /\ tx.db.settings = disk.settings /\ tx.db.temporary = disk.temporary
        /\ tx.db.project = disk.project
    BY DEF WritingAt
  <2>2. \A q \in PartNames, e \in Epics \ {task[t].op.epic} : tx.db.rows[q][e] = disk.rows[q][e]
    BY Zenon DEF WritingAt
  <2>3. tx.db \in Database
    BY <2>1 DEF InTx
  <2> QED  BY <2>1, <2>2, <2>3
<1>7. k # 1 => Working(t) = tx.db
  BY <1>1, <1>6, WorkingIs
<1>8. ASSUME k # 1, Then(t), NEW new \in Database, Put(t, new), NEW j \in 1..8, j = k + 1,
             new.settings = tx.db.settings, new.temporary = tx.db.temporary,
             new.project = tx.db.project,
             \A q \in PartNames, e \in Epics \ {op.epic} : new.rows[q][e] = tx.db.rows[q][e],
             \A i \in 1..5 : new.rows[Parts[i]][op.epic] = IF i < j - 2 THEN Written(op) ELSE NoEpic
      PROVE  Advances(t)
  <2>1. Filed /\ InTx(t)' /\ tx'.db = new /\ disk' = disk /\ handle' = handle
    BY <1>1, <1>6, <1>8, PutInTx
  <2>2. task'[t].op = op
    <3>1. k < 8
      BY <1>8
    <3> QED  BY <1>3, <1>8, <3>1 DEF Moves
  <2>3. WritingAt(t, j)'
    <3>1. \A q \in PartNames, e \in Epics \ {op.epic} : new.rows[q][e] = disk.rows[q][e]
      BY <1>6, <1>8
    <3>2. Written(op)' = Written(op)
      BY <2>1, <2>2 DEF Written
    <3>3. j # 1
      BY <1>8
    <3>4. /\ tx'.db.settings = disk'.settings /\ tx'.db.temporary = disk'.temporary
          /\ tx'.db.project = disk'.project
      BY <1>6, <1>8, <2>1
    <3>5. \A q \in PartNames, e \in Epics \ {task'[t].op.epic} : tx'.db.rows[q][e] = disk'.rows[q][e]
      BY <2>1, <2>2, <3>1
    <3>6. \A i \in DOMAIN Parts :
             tx'.db.rows[Parts[i]][task'[t].op.epic]
               = IF i < j - 2 THEN Written(task[t].op)' ELSE NoEpic
      BY <1>8, <2>1, <2>2, <3>2, PartsAre
    <3> QED  BY <2>1, <3>3, <3>4, <3>5, <3>6, Zenon DEF WritingAt
  <2> QED
    BY <1>4, <1>8, <2>1, <2>3
<1>9. CASE k = 1
  <2>1. Begin(t)
    BY <1>2, <1>9, TurnRuns DEF Named
  <2>2. /\ tx'.db = disk /\ InTx(t)' /\ disk' = disk /\ handle' = handle /\ Filed /\ Then(t)
    <3>1. tx' = [of |-> t, db |-> disk] /\ InTx(t)' /\ UNCHANGED <<disk, handle>> /\ Filed
      BY <1>1, <2>1, Begins, BeginFiled
    <3> QED  BY <2>1, <3>1 DEF Begin
  <2>3. WritingAt(t, 2)'
    BY <2>2 DEF WritingAt
  <2> QED
    BY <1>4, <1>9, <2>2, <2>3
<1>10. CASE k = 2
  <2>1. DeleteEpic(t)
    BY <1>2, <1>10, TurnRuns DEF Named
  <2>2. PICK rows : rows = [q \in PartNames |-> [tx.db.rows[q] EXCEPT ![op.epic] = NoEpic]]
    OBVIOUS
  <2>3. tx.db \in Database /\ tx.db.rows \in Rows
    BY <1>6, <1>10 DEF Database
  <2>4. /\ rows \in Rows
        /\ \A q \in PartNames : rows[q][op.epic] = NoEpic
        /\ \A q \in PartNames, e \in Epics \ {op.epic} : rows[q][e] = tx.db.rows[q][e]
    BY <1>1, <2>2, <2>3 DEF Rows
  <2>5. PICK new : new = [tx.db EXCEPT !.rows = rows]
    OBVIOUS
  <2>6. /\ new \in Database /\ new.rows = rows /\ new.settings = tx.db.settings
        /\ new.temporary = tx.db.temporary /\ new.project = tx.db.project
    BY <2>3, <2>4, <2>5 DEF Database
  <2>7. Put(t, new) /\ Then(t)
    <3>1. Working(t) = tx.db
      BY <1>7, <1>10
    <3>2. /\ Put(t, [tx.db EXCEPT !.rows = [q \in PartNames |-> [@[q] EXCEPT ![op.epic] = NoEpic]]])
          /\ Then(t)
      BY <2>1, <3>1 DEF DeleteEpic
    <3>3. new = [tx.db EXCEPT !.rows = [q \in PartNames |-> [@[q] EXCEPT ![op.epic] = NoEpic]]]
      BY <2>2, <2>3, <2>5 DEF Database
    <3> QED  BY <3>2, <3>3
  <2>8. \A i \in 1..5 : new.rows[Parts[i]][op.epic] = IF i < 3 - 2 THEN Written(op) ELSE NoEpic
    <3> TAKE i \in 1..5
    <3>1. ~(i < 3 - 2) /\ Parts[i] \in PartNames
      BY PartsAre DEF PartNames
    <3> QED  BY <2>4, <2>6, <3>1
  <2>9. 3 = k + 1 /\ k # 1 /\ 3 \in 1..8
    BY <1>10
  <2>10. \A q \in PartNames, e \in Epics \ {op.epic} : new.rows[q][e] = tx.db.rows[q][e]
    BY <2>4, <2>6
  <2>11. /\ new \in Database /\ new.settings = tx.db.settings /\ new.temporary = tx.db.temporary
         /\ new.project = tx.db.project
    BY <2>6
  <2> QED
    BY <1>8, <2>7, <2>8, <2>9, <2>10, <2>11
<1>11. CASE k \in 3..7
  <2>1. PICK i \in 1..5 : k = 2 + i
    <3>1. k - 2 \in 1..5 /\ k = 2 + (k - 2)
      BY <1>11
    <3> QED  BY <3>1
  <2>2. InsertPart(t) /\ On(t) = Parts[i]
    <3>1. p[o + k] = S("insert", Parts[i])
      BY <1>2, <2>1
    <3>2. Named(t, "insert") /\ On(t) = Parts[i]
      BY <3>1, TurnRuns
    <3> QED  BY <3>2 DEF Named
  <2>3. Parts[i] \in PartNames
    BY PartsAre DEF PartNames
  <2>4. k # 1 /\ tx.db \in Database /\ tx.db.rows \in Rows
    BY <1>6, <1>11 DEF Database
  <2>5. PICK row : row = IF op.kind = "create" THEN {op.n} ELSE task[t].rows[Parts[i]][op.epic]
    OBVIOUS
  <2>6. row = Written(op)
    <3>1. CASE op.kind = "create"
      BY <2>5, <3>1 DEF Written
    <3>2. CASE op.kind = "change"
      BY <2>3, <2>5, <3>2 DEF Changed
    <3> QED  BY <3>1, <3>2
  <2>7. PICK new : new = [tx.db EXCEPT !.rows[Parts[i]][op.epic] = row]
    OBVIOUS
  <2>8. /\ new \in Database /\ new.settings = tx.db.settings
        /\ new.temporary = tx.db.temporary /\ new.project = tx.db.project
        /\ new.rows[Parts[i]][op.epic] = row
        /\ \A q \in PartNames, e \in Epics :
              q # Parts[i] \/ e # op.epic => new.rows[q][e] = tx.db.rows[q][e]
    BY <1>1, <1>5, <2>3, <2>4, <2>6, <2>7 DEF Database, Rows
  <2>9. Put(t, new) /\ Then(t)
    BY <1>7, <2>2, <2>4, <2>5, <2>7 DEF InsertPart
  <2>10. \A j \in 1..5 : new.rows[Parts[j]][op.epic] = IF j < (3 + i) - 2 THEN Written(op) ELSE NoEpic
    <3> TAKE j \in 1..5
    <3>1. CASE j = i
      <4>1. j < (3 + i) - 2
        BY <3>1
      <4> QED  BY <2>6, <2>8, <3>1, <4>1
    <3>2. CASE j # i
      <4>1. Parts[j] \in PartNames /\ Parts[j] # Parts[i] /\ j \in DOMAIN Parts
        BY <3>2, PartsAre, PartsDiffer DEF PartNames
      <4>2. new.rows[Parts[j]][op.epic] = tx.db.rows[Parts[j]][op.epic]
        BY <1>1, <2>8, <4>1
      <4>3. k > 2 /\ (j < k - 2 <=> j < (3 + i) - 2)
        BY <2>1, <3>2
      <4>4. tx.db.rows[Parts[j]][op.epic] = IF j < k - 2 THEN Written(op) ELSE NoEpic
        BY <2>4, <4>1, <4>3 DEF WritingAt
      <4> QED  BY <4>2, <4>3, <4>4
    <3> QED  BY <3>1, <3>2
  <2>11. 3 + i = k + 1 /\ 3 + i \in 1..8
    BY <2>1
  <2>12. \A q \in PartNames, e \in Epics \ {op.epic} : new.rows[q][e] = tx.db.rows[q][e]
    BY <2>8
  <2> QED
    BY <1>8, <2>4, <2>8, <2>9, <2>10, <2>11, <2>12
<1>12. CASE k = 8
  <2>1. Commit(t)
    BY <1>2, <1>12, TurnRuns DEF Named
  <2>2. /\ InTx(t) /\ tx.db.settings = disk.settings /\ tx.db.temporary = disk.temporary
        /\ tx.db.project = disk.project
        /\ \A q \in PartNames, e \in Epics \ {op.epic} : tx.db.rows[q][e] = disk.rows[q][e]
    BY <1>6, <1>12
  <2>3. /\ tx' = NoTx /\ disk' = tx.db /\ disk' \in Database
        /\ UNCHANGED <<handle, calls, failures, crashes, told>> /\ Then(t)
    BY <1>1, <2>1, <2>2, Commits DEF Commit
  <2>4. \A q \in PartNames : tx.db.rows[q][op.epic] = Written(op)
    <3> TAKE q \in PartNames
    <3>1. PICK i \in 1..5 : q = Parts[i]
      BY PartsNamed
    <3>2. i \in DOMAIN Parts /\ k > 2 /\ i < k - 2 /\ k # 1
      BY <1>12, PartsAre
    <3>3. tx.db.rows[Parts[i]][op.epic] = Written(op)
      BY <3>2 DEF WritingAt
    <3> QED  BY <3>1, <3>3
  <2>5. Effect(t)
    <3>1. \A q \in PartNames, e \in Epics :
             disk'.rows[q][e] = IF e = op.epic THEN Written(op) ELSE disk.rows[q][e]
      BY <2>2, <2>3, <2>4
    <3>2. op.kind = "change" => disk.rows["epics"][op.epic] # NoEpic
      BY DEF Changed
    <3> QED  BY <3>1, <3>2 DEF Effect
  <2>6. FileSound'
    <3>1. \A q \in PartNames : tx.db.rows[q] = tx.db.rows["epics"]
      <4> TAKE q \in PartNames
      <4>1. "epics" \in PartNames /\ tx.db.rows \in Rows
        BY <2>2, PartsAre DEF InTx, Database
      <4>2. \A e \in Epics : tx.db.rows[q][e] = tx.db.rows["epics"][e]
        <5> TAKE e \in Epics
        <5>1. CASE e = op.epic
          BY <2>4, <4>1, <5>1
        <5>2. CASE e # op.epic
          <6>1. disk.rows[q] = disk.rows["epics"]
            BY <1>1 DEF FileSound
          <6>2. tx.db.rows[q][e] = disk.rows[q][e] /\ tx.db.rows["epics"][e] = disk.rows["epics"][e]
            BY <2>2, <4>1, <5>2
          <6> QED  BY <6>1, <6>2
        <5> QED  BY <5>1, <5>2
      <4> QED  BY <4>1, <4>2 DEF Rows
    <3>2. handle' => disk'.project /\ Current(disk)'
      BY <1>1, <2>2, <2>3 DEF FileSound, Current
    <3> QED  BY <1>1, <2>2, <2>3, <3>1, <3>2 DEF FileSound
  <2>7. Leave(t, "done")
    <3>1. o + k = Len(p)
      BY <1>12
    <3> QED  BY <2>3, <3>1, TurnEnds
  <2> QED
    BY <2>2, <2>3, <2>5, <2>6, <2>7 DEF Finishes
<1> QED
  BY <1>9, <1>10, <1>11, <1>12

\* The links of an epic to be, looked at in no transaction.
LEMMA ResolveRuns ==
    ASSUME NEW t \in Callers, CallSound(t), handle, tx = NoTx,
           Code(t) = <<S("resolve", "links")>>, Turn(t, Code(t), <<>>, 1),
           task[t].op.kind = "create", task[t].stage = 1
    PROVE  Finishes(t) \/ Refuses(t)
<1>1. Len(Code(t)) = 1 /\ Code(t)[1] = S("resolve", "links")
  OBVIOUS
<1>2. Resolve(t) /\ TypeOK /\ FileSound
  BY <1>1, TurnRuns DEF Named
<1>3. Keeps /\ (Then(t) \/ Leave(t, "refused"))
  BY <1>2 DEF Resolve
<1>4. Filed /\ tx' = NoTx /\ UNCHANGED <<disk, handle>>
  BY <1>2, <1>3, KeepsFiled DEF Keeps
<1>5. CASE Then(t)
  <2>1. Leave(t, "done")
    BY <1>1, <1>5, TurnEnds
  <2>2. Effect(t)
    BY <1>4 DEF Effect, Filed
  <2> QED
    BY <1>4, <2>1, <2>2 DEF Finishes, Filed
<1>6. CASE Leave(t, "refused")
  BY <1>3, <1>4, <1>6 DEF Refuses, Keeps
<1> QED
  BY <1>3, <1>5, <1>6

\* The use case's function between the reading and the writing of a change.
LEMMA ChangeRuns ==
    ASSUME NEW t \in Callers, CallSound(t), handle, tx = NoTx, HasRead(t, 5),
           Turn(t, Code(t), <<>>, 8), Len(Code(t)) = 16, Code(t)[8] = S("change", "epic"),
           task[t].op.kind = "change"
    PROVE  Advances(t) \/ Refuses(t)
<1> DEFINE op == task[t].op
<1>1. ChangeEpic(t) /\ TypeOK /\ FileSound /\ task[t].at = "running"
  BY TurnRuns DEF Named
<1>2. /\ op \in Op /\ op.epic \in Epics /\ op.n \in Call
      /\ task[t].rows \in Rows /\ task[t].settings \in Settings
  BY <1>1, TurnIs, CodeIs DEF Op
<1>3. PICK rows : rows = [p \in PartNames |-> [task[t].rows[p] EXCEPT ![op.epic] = @ \cup {op.n}]]
  OBVIOUS
<1>4. \/ Leave(t, "refused")
      \/ Proceed(t, Tail(task[t].todo), rows, task[t].settings)
  BY <1>1, <1>3 DEF ChangeEpic
<1>5. Keeps /\ Filed /\ UNCHANGED <<disk, tx, handle>>
  BY <1>1, KeepsFiled DEF ChangeEpic, Keeps
<1>6. CASE Leave(t, "refused")
  BY <1>5, <1>6 DEF Refuses, Keeps
<1>7. CASE Proceed(t, Tail(task[t].todo), rows, task[t].settings)
  <2>1. /\ disk.rows["epics"][op.epic] # NoEpic
        /\ \A p \in PartNames : task[t].rows[p][op.epic] = disk.rows["epics"][op.epic]
    <3>1. /\ 1 \in DOMAIN Parts /\ op.epic \in Read(op)
          /\ \A i \in 1..5 : i \in DOMAIN Parts /\ i <= 5
      BY PartsAre DEF Read
    <3>2. disk.rows["epics"][op.epic] # NoEpic
      BY <3>1 DEF HasRead
    <3>3. \A i \in 1..5 : task[t].rows[Parts[i]][op.epic] = disk.rows[Parts[i]][op.epic]
      BY <3>1 DEF HasRead
    <3>4. \A p \in PartNames : disk.rows[p] = disk.rows["epics"]
      BY <1>1 DEF FileSound
    <3>5. \A i \in 1..5 : Parts[i] \in PartNames
      BY PartsAre DEF PartNames
    <3>6. \A i \in 1..5 : task[t].rows[Parts[i]][op.epic] = disk.rows["epics"][op.epic]
      <4> TAKE i \in 1..5
      <4>1. disk.rows[Parts[i]] = disk.rows["epics"]
        BY <3>4, <3>5
      <4>2. task[t].rows[Parts[i]][op.epic] = disk.rows[Parts[i]][op.epic]
        BY <3>3
      <4>3. disk.rows[Parts[i]][op.epic] = disk.rows["epics"][op.epic]
        BY <4>1, Zenon
      <4> QED  BY <4>2, <4>3, Zenon
    <3> QED  BY <3>2, <3>6, PartsNamed
  <2>2. Written(op) = disk.rows["epics"][op.epic] \cup {op.n} /\ Written(op) \in SUBSET Call
    BY <1>1, <1>2, <2>1, WrittenIs DEF Written
  <2>3. \A p \in PartNames : rows[p][op.epic] = Written(op)
    BY <1>2, <1>3, <2>1, <2>2 DEF Rows
  <2>4. rows \in Rows
    BY <1>2, <1>3, <2>1, <2>2 DEF Rows
  <2>5. Moves(t, Rest(Code(t), 9) \o <<>>, rows, task[t].settings)
    <3>1. 8 < Len(Code(t)) /\ 8 + 1 = 9
      OBVIOUS
    <3>2. Moves(t, Rest(Code(t), 8 + 1) \o <<>>, rows, task[t].settings)
      BY <1>2, <1>7, <2>4, <3>1, TurnMoves
    <3> QED  BY <3>1, <3>2
  <2>6. Changed(t)'
    BY <1>5, <2>1, <2>2, <2>3, <2>5 DEF Changed, Written, Moves
  <2>7. WritingAt(t, 1)'
    BY <1>5 DEF WritingAt
  <2>8. StageAt(t, 9)'
    <3>1. 9 - 8 = 1 /\ ~(9 < 8) /\ 9 # 8
      OBVIOUS
    <3> QED  BY <1>5, <2>5, <2>6, <2>7, <3>1 DEF StageAt, Moves
  <2>9. 9 \in 1..Len(Code(t))
    OBVIOUS
  <2> QED
    BY <1>5, <2>5, <2>8, <2>9, AdvancesInStage
<1> QED
  BY <1>4, <1>6, <1>7

\* A statement of a stage.
LEMMA StageRuns ==
    ASSUME NEW t \in Callers, CallSound(t), NEW k \in 1..Len(Code(t)),
           Turn(t, Code(t), <<>>, k), StageAt(t, k)
    PROVE  Advances(t) \/ Finishes(t) \/ Refuses(t)
<1> DEFINE op == task[t].op
<1>1. /\ TypeOK /\ task[t].at = "running" /\ op.kind \in KindNames
      /\ Code(t) \in Seq(Instruction)
      /\ task[t].stage \in {1, 2} /\ task[t].stage <= Len(Stages(op))
      /\ Code(t) = Stages(op)[task[t].stage] /\ handle
  <2>1. TypeOK /\ task[t].at = "running"
    BY WhatRuns DEF Turn
  <2> QED  BY <2>1, CodeIs DEF CallSound, TypeOK, Task, Code, StageAt
<1>2. CASE op.kind = "create" /\ task[t].stage = 1
  <2>1. Code(t) = <<S("resolve", "links")>>
    BY <1>1, <1>2, StagesAre
  <2>2. Len(Code(t)) = 1
    BY <2>1
  <2>3. k = 1
    BY <2>2
  <2>4. tx = NoTx
    BY <1>2 DEF StageAt
  <2> QED
    BY <1>1, <1>2, <2>1, <2>3, <2>4, ResolveRuns
<1>3. CASE op.kind = "create" /\ task[t].stage = 2
  <2>1. Code(t) = WriteEpic
    BY <1>1, <1>3, StagesAre
  <2>2. WritingAt(t, k)
    BY <1>3 DEF StageAt
  <2>3. Len(Code(t)) = 0 + 8 /\ k \in 1..8 /\ 0 + k = k
    BY <2>1, WriteEpicIs
  <2>4. \A i \in 1..8 : Code(t)[0 + i] = WriteEpic[i]
    BY <2>1
  <2>5. Turn(t, Code(t), <<>>, 0 + k)
    BY <2>3
  <2> QED
    BY <1>1, <1>3, <2>2, <2>3, <2>4, <2>5, WritingRuns
<1>4. CASE op.kind = "change"
  <2>1. Code(t) = UpdateEpic
    BY <1>1, <1>4, StagesAre
  <2>2. Len(Code(t)) = 16
    BY <2>1, UpdateEpicIs
  <2>3. CASE k < 8
    <3>1. k \in 1..7 /\ \A i \in 1..7 : Code(t)[i] = ReadEpics[i]
      BY <2>1, <2>3, UpdateEpicIs
    <3>2. ReadingAt(t, k)
      BY <1>4, <2>3 DEF StageAt
    <3> QED
      BY <1>1, <1>4, <2>2, <3>1, <3>2, ReadingRuns
  <2>4. CASE k = 8
    <3>1. tx = NoTx /\ HasRead(t, 5)
      BY <1>4, <2>4 DEF StageAt
    <3>2. Code(t)[8] = S("change", "epic")
      BY <2>1, UpdateEpicIs
    <3> QED
      BY <1>1, <1>4, <2>2, <2>4, <3>1, <3>2, ChangeRuns
  <2>5. CASE k > 8
    <3>1. Changed(t) /\ WritingAt(t, k - 8)
      BY <1>4, <2>5 DEF StageAt
    <3>2. Len(Code(t)) = 8 + 8 /\ k - 8 \in 1..8 /\ 8 + (k - 8) = k
      BY <2>2, <2>5
    <3>3. \A i \in 1..8 : Code(t)[8 + i] = WriteEpic[i]
      BY <2>1, UpdateEpicIs
    <3>4. Turn(t, Code(t), <<>>, 8 + (k - 8))
      BY <3>2
    <3>5. PICK j \in 1..8 : j = k - 8
      BY <3>2
    <3>6. Turn(t, Code(t), <<>>, 8 + j) /\ WritingAt(t, j)
      BY <3>1, <3>4, <3>5
    <3> QED
      BY <1>1, <1>4, <3>1, <3>2, <3>3, <3>6, WritingRuns
  <2> QED
    BY <2>3, <2>4, <2>5
<1>5. CASE op.kind = "list"
  <2>1. Code(t) = ReadEpics /\ ReadingAt(t, k)
    BY <1>1, <1>5, StagesAre DEF StageAt
  <2>2. Len(Code(t)) = 7 /\ k \in 1..7 /\ \A i \in 1..7 : Code(t)[i] = ReadEpics[i]
    BY <2>1, ReadEpicsIs
  <2> QED
    BY <1>1, <1>5, <2>1, <2>2, ReadingRuns
<1>6. CASE op.kind = "role" \/ (op.kind = "setup" /\ task[t].stage = 1)
  <2>1. Code(t) = UpdateAgentSettings /\ SettingAt(t, k)
    BY <1>1, <1>6, StagesAre DEF StageAt
  <2>2. k \in 1..3
    BY <2>1, UpdateAgentSettingsIs
  <2> QED
    BY <1>1, <1>6, <2>1, <2>2, SettingRuns
<1>7. CASE op.kind = "link" \/ (op.kind = "setup" /\ task[t].stage = 2)
  <2>1. Code(t) = ReplaceRepositories /\ LinkingAt(t, k)
    BY <1>1, <1>7, StagesAre DEF StageAt
  <2>2. k \in 1..5
    BY <2>1, ReplaceRepositoriesIs
  <2> QED
    BY <1>1, <1>7, <2>1, <2>2, LinkingRuns
<1>8. op.kind \in {"create", "change", "list", "role", "setup", "link"}
  BY <1>1 DEF KindNames
<1> QED
  BY <1>1, <1>2, <1>3, <1>4, <1>5, <1>6, <1>7, <1>8

\* The program of a call and what is behind the opening of the store.
LEMMA WhereItStands ==
    ASSUME NEW t \in Callers, TypeOK, FileSound, CallSound(t), Statement(t), ~Fails(t)
    PROVE  \/ \E k \in 1..Len(Code(t)) : Turn(t, Code(t), <<>>, k) /\ StageAt(t, k)
           \/ \E k \in 1..Len(OpenStore) : Turn(t, OpenStore, Code(t), k) /\ OpenAt(t, k)
           \/ \E s \in SettingsTables, j \in 1..4 :
                 /\ Turn(t, Rebuild(s), Rest(OpenStore, AfterInspect(s)) \o Code(t), j)
                 /\ RebuildAt(t, s, j)
           \/ \E j \in 1..4 :
                 /\ Turn(t, WriteProject, Rest(OpenStore, 9) \o Code(t), j)
                 /\ ProjectAt(t, j)
<1>1. task[t].at = "running" /\ Stands(t)
  BY WhatRuns DEF CallSound
<1>2. Code(t) \in Seq(Instruction) /\ <<>> \in Seq(Instruction)
  BY <1>1, CodeIs
<1>3. \A k \in 1..9 : Rest(OpenStore, k) \o Code(t) \in Seq(Instruction)
  BY <1>2, OpenStoreIs, RestOf
<1>4. ASSUME NEW k \in 1..Len(Code(t)), task[t].todo = Rest(Code(t), k) \o <<>>
      PROVE  Turn(t, Code(t), <<>>, k)
  BY <1>2, <1>4 DEF Turn
<1>5. ASSUME NEW k \in 1..Len(OpenStore), task[t].todo = Rest(OpenStore, k) \o Code(t)
      PROVE  Turn(t, OpenStore, Code(t), k)
  BY <1>2, <1>5, OpenStoreIs DEF Turn
<1>6. ASSUME NEW s \in SettingsTables, NEW j \in 1..4,
             task[t].todo = Rest(Rebuild(s), j) \o (Rest(OpenStore, AfterInspect(s)) \o Code(t))
      PROVE  Turn(t, Rebuild(s), Rest(OpenStore, AfterInspect(s)) \o Code(t), j)
  <2>1. Rest(OpenStore, AfterInspect(s)) \o Code(t) \in Seq(Instruction)
    <3>1. AfterInspect(s) \in 1..9
      BY DEF AfterInspect
    <3> QED  BY <1>3, <3>1
  <2> QED
    BY <1>6, <2>1, RebuildIs DEF Turn
<1>7. ASSUME NEW j \in 1..4, task[t].todo = Rest(WriteProject, j) \o (Rest(OpenStore, 9) \o Code(t))
      PROVE  Turn(t, WriteProject, Rest(OpenStore, 9) \o Code(t), j)
  BY <1>3, <1>7, WriteProjectIs DEF Turn
<1>8. Len(Rebuild("agent_settings")) = 4 /\ Len(WriteProject) = 4
  BY RebuildIs, WriteProjectIs DEF SettingsTables
<1> QED
  BY <1>1, <1>4, <1>5, <1>6, <1>7, <1>8 DEF Stands

\* What a statement does: its call goes on or leaves the lock, done, refused or failed.
LEMMA StatementRuns ==
    ASSUME NEW t \in Callers, TypeOK, FileSound, CallSound(t), Statement(t)
    PROVE  Advances(t) \/ Finishes(t) \/ Refuses(t) \/ Fails(t)
<1> SUFFICES ASSUME ~Fails(t)
             PROVE  Advances(t) \/ Finishes(t) \/ Refuses(t)
  OBVIOUS
<1>1. ASSUME NEW k \in 1..Len(Code(t)), Turn(t, Code(t), <<>>, k), StageAt(t, k)
      PROVE  Advances(t) \/ Finishes(t) \/ Refuses(t)
  BY <1>1, StageRuns
<1>2. ASSUME NEW k \in 1..Len(OpenStore), Turn(t, OpenStore, Code(t), k), OpenAt(t, k)
      PROVE  Advances(t)
  BY <1>2, OpenAdvances
<1>3. ASSUME NEW s \in SettingsTables, NEW j \in 1..4,
             Turn(t, Rebuild(s), Rest(OpenStore, AfterInspect(s)) \o Code(t), j), RebuildAt(t, s, j)
      PROVE  Advances(t)
  BY <1>3, RebuildAdvances
<1>4. ASSUME NEW j \in 1..4, Turn(t, WriteProject, Rest(OpenStore, 9) \o Code(t), j),
             ProjectAt(t, j)
      PROVE  Advances(t)
  BY <1>4, ProjectAdvances
<1> QED
  BY <1>1, <1>2, <1>3, <1>4, WhereItStands

-----------------------------------------------------------------------------
(* The invariant is one.                                                    *)

\* A call holds the lock once or twice.
LEMMA StagesAreFew ==
    ASSUME NEW op, op.kind \in KindNames
    PROVE  Len(Stages(op)) \in {1, 2}
  BY StagesAre DEF KindNames

\* A call that leaves the lock waits for its next stage or is to be answered.
LEMMA LeaveIs ==
    ASSUME TypeOK, NEW t \in Callers, CallSound(t), task[t].at = "running",
           NEW answer \in {"done", "refused", "failed"}, Leave(t, answer)
    PROVE  /\ lock' = Nothing
           /\ task' \in [Callers -> Task]
           /\ \A u \in Callers \ {t} : task'[u] = task[u]
           /\ task'[t].op = task[t].op /\ task'[t].rows = task[t].rows
           /\ IF answer = "done" /\ task[t].stage < Len(Stages(task[t].op))
              THEN /\ task'[t].at = "waiting" /\ task'[t].answer = "none"
                   /\ task[t].stage = 1 /\ task'[t].stage = 2 /\ Len(Stages(task[t].op)) = 2
              ELSE task'[t].at = "answering" /\ task'[t].answer = answer
           /\ CallSound(t)'
<1> DEFINE next == answer = "done" /\ task[t].stage < Len(Stages(task[t].op))
           new == IF next THEN [task[t] EXCEPT !.at = "waiting", !.stage = task[t].stage + 1, !.todo = <<>>]
                  ELSE [task[t] EXCEPT !.at = "answering", !.todo = <<>>, !.answer = answer]
<1>1. /\ task \in [Callers -> Task] /\ task[t] \in Task /\ task[t].stage \in {1, 2}
      /\ task[t].op \in Op /\ task[t].op.kind \in KindNames
      /\ Len(Stages(task[t].op)) \in {1, 2} /\ task[t].answer = "none"
  <2>1. task[t].op.kind \in KindNames /\ task[t].op \in Op
    BY CodeIs
  <2>2. Len(Stages(task[t].op)) \in {1, 2}
    BY <2>1, StagesAreFew
  <2> QED  BY <2>1, <2>2 DEF TypeOK, Task, CallSound
<1>2. lock' = Nothing /\ task' = [task EXCEPT ![t] = new]
  BY DEF Leave
<1>3. next => task[t].stage = 1 /\ task[t].stage + 1 = 2 /\ Len(Stages(task[t].op)) = 2
  <2>1. \A i, j \in {1, 2} : i < j => i = 1 /\ i + 1 = 2 /\ j = 2
    OBVIOUS
  <2> QED  BY <1>1, <2>1
<1>4. /\ new \in Task /\ new.op = task[t].op /\ new.rows = task[t].rows
      /\ IF next THEN new.at = "waiting" /\ new.answer = "none" /\ new.stage = 2
         ELSE new.at = "answering" /\ new.answer = answer
  <2>1. <<>> \in Seq(Instruction)
    OBVIOUS
  <2>2. CASE next
    BY <1>1, <1>3, <2>1, <2>2 DEF Task
  <2>3. CASE ~next
    BY <1>1, <2>1, <2>3 DEF Task
  <2> QED  BY <2>2, <2>3
<1> HIDE DEF new
<1>5. task'[t] = new /\ task' \in [Callers -> Task] /\ \A u \in Callers \ {t} : task'[u] = task[u]
  BY <1>1, <1>2, <1>4
<1>6. CallSound(t)'
  <2>1. lock' # t
    BY <1>2, StoreConstants
  <2>2. new.at # "idle" /\ new # Idle /\ new.at # "running"
    BY <1>4 DEF Idle
  <2>3. new.at = "waiting" => new.answer = "none" /\ new.stage <= Len(Stages(new.op))
    BY <1>3, <1>4
  <2>4. /\ new.op \in Op
        /\ new.op.kind = "role" => new.op.role \in Roles
        /\ IF new.op.kind = "list" THEN new.op.since \in [Epics -> SUBSET Call]
           ELSE new.op.since = Nothing
    BY <1>1, <1>4 DEF CallSound
  <2> QED
    BY <1>5, <2>1, <2>2, <2>3, <2>4 DEF CallSound
<1> QED
  BY <1>2, <1>3, <1>4, <1>5, <1>6

\* Nothing that the place of u in its program is about has changed.
LEMMA StillStands ==
    ASSUME NEW u \in Callers, Stands(u), task'[u] = task[u], UNCHANGED <<disk, tx, handle>>
    PROVE  Stands(u)'
<1>1. Code(u)' = Code(u)
  BY DEF Code
<1>2. HasRead(u, 5)' = HasRead(u, 5)
  BY DEF HasRead
<1>3. \A k : ReadingAt(u, k)' = ReadingAt(u, k)
  BY DEF ReadingAt, HasRead
<1>4. \A k : WritingAt(u, k)' = WritingAt(u, k)
  BY DEF WritingAt, Written, InTx
<1>5. Changed(u)' = Changed(u)
  BY DEF Changed, Written
<1>6. \A k : SettingAt(u, k)' = SettingAt(u, k)
  BY DEF SettingAt
<1>7. \A k : LinkingAt(u, k)' = LinkingAt(u, k)
  BY DEF LinkingAt, Aside, InTx
<1>8. \A k : StageAt(u, k) => StageAt(u, k)'
  BY <1>2, <1>3, <1>4, <1>5, <1>6, <1>7 DEF StageAt
<1>9. \A k : OpenAt(u, k) => OpenAt(u, k)'
  BY DEF OpenAt, InTx, Carried, Current
<1>10. \A s, j : RebuildAt(u, s, j) => RebuildAt(u, s, j)'
  BY DEF RebuildAt, InTx, Carried
<1>11. \A j : ProjectAt(u, j) => ProjectAt(u, j)'
  BY DEF ProjectAt, Aside, InTx, Current
<1> QED
  BY <1>1, <1>8, <1>9, <1>10, <1>11 DEF Stands

\* A call that neither takes nor holds the lock is where it was.
LEMMA StaysSound ==
    ASSUME NEW u \in Callers, CallSound(u), task'[u] = task[u],
           \/ lock' = lock /\ UNCHANGED <<disk, tx, handle>>
           \/ task[u].at # "running" /\ lock' # u
    PROVE  CallSound(u)'
<1>1. lock' = u <=> lock = u
  BY DEF CallSound
<1>2. task[u].at = "running" => Stands(u)'
  BY StillStands DEF CallSound
<1> QED
  BY <1>1, <1>2 DEF CallSound

\* The epics to be made are still to be made.
LEMMA StillToCreate ==
    ASSUME TypeOK, Creations,
           \A u \in Callers : task'[u].at # "idle" => task[u].at # "idle" /\ task'[u].op = task[u].op,
           \A u \in Callers : task'[u].at \in {"waiting", "running"} =>
              /\ task[u].at \in {"waiting", "running"}
              /\ task[u].op.kind = "create" =>
                    disk'.rows["epics"][task[u].op.epic] = disk.rows["epics"][task[u].op.epic]
    PROVE  Creations'
  BY DEF Creations

\* A goroutine with no call.
LEMMA IdleIsATask == Idle \in Task /\ Idle.at = "idle"
<1>1. <<>> \in Seq(Instruction)
  OBVIOUS
<1>2. NoSettings \in Settings
  BY StoreConstants DEF NoSettings, NoProfile, Settings, Profile
<1>3. NoRows \in Rows
  BY DEF NoRows, Rows
<1> QED
  BY <1>1, <1>2, <1>3 DEF Idle, Task

\* The store of a daemon that has just started.
LEMMA InitIsSound == Init => IInv
<1> SUFFICES ASSUME Init
             PROVE  IInv
  OBVIOUS
<1>1. NoRows \in Rows /\ \A p \in PartNames : NoRows[p] = NoRows["epics"]
  BY PartsAre DEF NoRows, Rows
<1>2. Absent.shape = "absent" /\ Absent \in Table
  BY AbsentIs DEF Absent
<1>3. disk \in Database /\ FileSound
  <2>1. handle = FALSE
    BY DEF Init
  <2>2. CASE disk = [base |-> FALSE, project |-> FALSE, links |-> {},
                     settings |-> [s \in SettingsTables |-> Absent],
                     temporary |-> [s \in SettingsTables |-> Absent], rows |-> NoRows]
    BY <1>1, <1>2, <2>1, <2>2 DEF Database, FileSound
  <2>3. ASSUME NEW set \in [Roles -> {[agent |-> 0, limited |-> TRUE], [agent |-> -1, limited |-> FALSE]}],
               disk = [base |-> TRUE, project |-> TRUE, links |-> Repositories,
                       settings |-> [s \in SettingsTables |-> [shape |-> "legacy", row |-> set]],
                       temporary |-> [s \in SettingsTables |-> Absent],
                       rows |-> [p \in PartNames |-> [e \in Epics |-> {}]]]
        PROVE  disk \in Database /\ FileSound
    <3>1. set \in Settings
      <4>1. [agent |-> 0, limited |-> TRUE] \in Profile /\ [agent |-> -1, limited |-> FALSE] \in Profile
        BY StoreConstants DEF Profile
      <4>2. \A r \in Roles : set[r] \in Profile
        BY <4>1
      <4> QED  BY <4>2 DEF Settings
    <3>2. [shape |-> "legacy", row |-> set] \in Table
      BY <3>1 DEF Table
    <3>3. [p \in PartNames |-> [e \in Epics |-> {}]] \in Rows
      BY DEF Rows
    <3>4. disk \in Database
      BY <1>2, <2>3, <3>2, <3>3 DEF Database
    <3>5. FileSound
      BY <1>2, <2>1, <2>3, PartsAre DEF FileSound
    <3> QED  BY <3>4, <3>5
  <2> QED
    BY <2>2, <2>3 DEF Init
<1>4. task \in [Callers -> Task] /\ told \in [Epics -> SUBSET Call]
  BY IdleIsATask DEF Init
<1>5. TypeOK
  <2>1. 0 \in 0..MaxCalls /\ 0 \in 0..MaxFailures /\ 0 \in 0..MaxCrashes
    BY StoreConstants
  <2>2. /\ tx = NoTx /\ handle = FALSE /\ lock = Nothing
        /\ calls = 0 /\ failures = 0 /\ crashes = 0
    BY DEF Init
  <2> QED  BY <1>3, <1>4, <2>1, <2>2 DEF TypeOK
<1>6. \A t \in Callers : CallSound(t)
  BY StoreConstants DEF Init, CallSound, Idle
<1>7. Creations
  BY DEF Init, Creations, Idle
<1> QED
  BY <1>3, <1>5, <1>6, <1>7 DEF IInv, Init

\* A call is asked for: a new epic is nobody else's.
LEMMA AskKeeps == ASSUME IInv, NEW t \in Callers, Ask(t) PROVE IInv'
<1>1. /\ TypeOK /\ FileSound /\ Creations /\ (lock = Nothing => tx = NoTx)
      /\ \A u \in Callers : CallSound(u)
  BY DEF IInv
<1>2. PICK kind \in Kinds, e \in Epics, r \in Roles \cup {Nothing}, links \in SUBSET Repositories :
        /\ kind = "create" => Fresh(e)
        /\ kind = "role" <=> r # Nothing
        /\ task' = [task EXCEPT ![t] = [Idle EXCEPT !.at = "waiting",
                      !.op = [kind |-> kind, epic |-> e, role |-> r, links |-> links,
                              n |-> calls + 1,
                              since |-> IF kind = "list" THEN told ELSE Nothing]]]
  BY DEF Ask
<1> DEFINE op == [kind |-> kind, epic |-> e, role |-> r, links |-> links, n |-> calls + 1,
                  since |-> IF kind = "list" THEN told ELSE Nothing]
           new == [Idle EXCEPT !.at = "waiting", !.op = op]
<1>3. /\ task[t].at = "idle" /\ calls' = calls + 1 /\ calls + 1 \in Call /\ calls' \in 0..MaxCalls
      /\ UNCHANGED <<disk, tx, handle, lock, failures, crashes, told>>
  BY <1>1, StoreConstants DEF Ask, TypeOK, Call
<1>4. told \in [Epics -> SUBSET Call] /\ task \in [Callers -> Task]
  BY <1>1 DEF TypeOK
<1>5. /\ op \in Op /\ op.kind \in KindNames /\ op.kind = kind /\ op.epic = e
      /\ op.kind = "role" => op.role \in Roles
      /\ IF op.kind = "list" THEN op.since \in [Epics -> SUBSET Call] ELSE op.since = Nothing
  BY <1>2, <1>3, <1>4, StoreConstants DEF Op
<1> HIDE DEF op
<1>6. /\ new \in Task /\ new.at = "waiting" /\ new.op = op /\ new.stage = 1 /\ new.answer = "none"
  BY <1>5, IdleIsATask DEF Task, Idle
<1> HIDE DEF new
<1>7. task' = [task EXCEPT ![t] = new]
  BY <1>2 DEF new, op
<1>8. /\ task' \in [Callers -> Task] /\ task'[t] = new
      /\ \A u \in Callers \ {t} : task'[u] = task[u]
  BY <1>4, <1>6, <1>7
<1>9. TypeOK'
  BY <1>1, <1>3, <1>8 DEF TypeOK
<1>10. FileSound' /\ (lock' = Nothing => tx' = NoTx)
  BY <1>1, <1>3 DEF FileSound, Current
<1>11. CallSound(t)'
  <2>1. lock # t
    BY <1>1, <1>3 DEF CallSound
  <2>2. 1 <= Len(Stages(op))
    BY <1>5, StagesAreFew
  <2>3. new # Idle
    BY <1>6, IdleIsATask
  <2> QED
    BY <1>3, <1>5, <1>6, <1>8, <2>1, <2>2, <2>3 DEF CallSound
<1>12. \A u \in Callers : CallSound(u)'
  BY <1>1, <1>3, <1>8, <1>11, StaysSound
<1>13. Creations'
  <2>1. kind = "create" =>
          /\ disk.rows["epics"][e] = NoEpic
          /\ \A u \in Callers : task[u].at # "idle" => task[u].op.kind # "create" \/ task[u].op.epic # e
    BY <1>2 DEF Fresh
  <2> QED
    BY <1>1, <1>3, <1>5, <1>6, <1>8, <2>1 DEF Creations
<1> QED
  BY <1>9, <1>10, <1>12, <1>13 DEF IInv

\* It takes the lock, and its program begins.
LEMMA LockKeeps == ASSUME IInv, NEW t \in Callers, Lock(t) PROVE IInv'
<1>1. /\ TypeOK /\ FileSound /\ Creations /\ tx = NoTx
      /\ \A u \in Callers : CallSound(u)
  BY DEF IInv, Lock
<1> DEFINE todo == (IF handle THEN <<>> ELSE OpenStore) \o Code(t)
           new == [task[t] EXCEPT !.at = "running", !.todo = todo]
<1>2. /\ task[t].at = "waiting" /\ lock = Nothing /\ lock' = t
      /\ UNCHANGED <<disk, tx, handle, calls, failures, crashes, told>>
  BY DEF Lock
<1>3. /\ task \in [Callers -> Task] /\ task[t] \in Task /\ task[t].op \in Op
      /\ task[t].stage \in {1, 2} /\ task[t].stage <= Len(Stages(task[t].op))
      /\ task[t].answer = "none"
  BY <1>1, <1>2 DEF TypeOK, Task, CallSound
<1>4. Code(t) \in Seq(Instruction) /\ Len(Code(t)) > 0
  BY <1>3, StageIsAProgram, StoreConstants DEF Code, Op
<1>5. /\ handle => todo = Code(t)
      /\ ~handle => todo = OpenStore \o Code(t)
      /\ todo \in Seq(Instruction)
  <2>1. <<>> \o Code(t) = Code(t)
    BY <1>4, ConcatEmptySeq
  <2>2. OpenStore \o Code(t) \in Seq(Instruction)
    BY <1>4, OpenStoreIs, BothInARow
  <2> QED  BY <1>4, <2>1, <2>2
<1> HIDE DEF todo
<1>6. task' = [task EXCEPT ![t] = new]
  BY <1>3 DEF Lock, Code, todo
<1>7. /\ new \in Task /\ new.at = "running" /\ new.op = task[t].op /\ new.stage = task[t].stage
      /\ new.answer = "none" /\ new.todo = todo
  BY <1>3, <1>5 DEF Task
<1> HIDE DEF new
<1>8. /\ task' \in [Callers -> Task] /\ task'[t] = new
      /\ \A u \in Callers \ {t} : task'[u] = task[u]
  BY <1>3, <1>6, <1>7
<1>9. TypeOK'
  BY <1>1, <1>2, <1>8 DEF TypeOK
<1>10. FileSound' /\ lock' # Nothing
  BY <1>1, <1>2, StoreConstants DEF FileSound, Current
<1>11. Code(t)' = Code(t)
  BY <1>7, <1>8 DEF Code
<1>12. Stands(t)'
  <2>1. CASE handle
    <3>1. task'[t].todo = Rest(Code(t), 1) \o <<>>
      BY <1>4, <1>5, <1>7, <1>8, <2>1, WholeProgram
    <3>2. StageAt(t, 1)'
      BY <1>1, <1>2, <2>1, StageBegins
    <3>3. 1 \in 1..Len(Code(t))
      BY <1>4
    <3> QED
      BY <1>11, <3>1, <3>2, <3>3 DEF Stands
  <2>2. CASE ~handle
    <3>1. task'[t].todo = Rest(OpenStore, 1) \o Code(t)
      BY <1>4, <1>5, <1>7, <1>8, <2>2, WholeProgram, OpenStoreIs
    <3>2. OpenAt(t, 1)'
      BY <1>1, <1>2, <2>2 DEF OpenAt
    <3>3. 1 \in 1..Len(OpenStore)
      BY OpenStoreIs
    <3> QED
      BY <1>11, <3>1, <3>2, <3>3 DEF Stands
  <2> QED
    BY <2>1, <2>2
<1>13. CallSound(t)'
  <2>1. new # Idle
    BY <1>7, IdleIsATask
  <2> QED
    BY <1>1, <1>2, <1>3, <1>7, <1>8, <1>12, <2>1 DEF CallSound
<1>14. \A u \in Callers \ {t} : CallSound(u)'
  <2> TAKE u \in Callers \ {t}
  <2>1. task[u].at # "running" /\ lock' # u
    BY <1>1, <1>2, StoreConstants DEF CallSound
  <2> QED
    BY <1>1, <1>8, <2>1, StaysSound
<1>15. Creations'
  BY <1>1, <1>2, <1>7, <1>8, StillToCreate
<1> QED
  BY <1>9, <1>10, <1>13, <1>14, <1>15 DEF IInv

\* Its caller is told.
LEMMA AnswerKeeps == ASSUME IInv, NEW t \in Callers, Answer(t) PROVE IInv'
<1>1. /\ TypeOK /\ FileSound /\ Creations /\ (lock = Nothing => tx = NoTx)
      /\ \A u \in Callers : CallSound(u)
  BY DEF IInv
<1>2. /\ task[t].at = "answering" /\ task' = [task EXCEPT ![t] = Idle]
      /\ UNCHANGED <<disk, tx, handle, lock, calls, failures, crashes>>
  BY DEF Answer
<1>3. /\ task \in [Callers -> Task] /\ told \in [Epics -> SUBSET Call] /\ task[t].op \in Op
  BY <1>1, <1>2 DEF TypeOK, CallSound
<1>4. /\ task' \in [Callers -> Task] /\ task'[t] = Idle
      /\ \A u \in Callers \ {t} : task'[u] = task[u]
  BY <1>2, <1>3, IdleIsATask
<1>5. told' \in [Epics -> SUBSET Call]
  <2>1. task[t].op.epic \in Epics /\ task[t].op.n \in Call
    BY <1>3 DEF Op
  <2> QED  BY <1>3, <2>1 DEF Answer
<1>6. TypeOK'
  BY <1>1, <1>2, <1>4, <1>5 DEF TypeOK
<1>7. FileSound' /\ (lock' = Nothing => tx' = NoTx)
  BY <1>1, <1>2 DEF FileSound, Current
<1>8. CallSound(t)'
  <2>1. lock # t
    BY <1>1, <1>2 DEF CallSound
  <2> QED  BY <1>2, <1>4, <2>1, IdleIsATask DEF CallSound
<1>9. \A u \in Callers : CallSound(u)'
  BY <1>1, <1>2, <1>4, <1>8, StaysSound
<1>10. Creations'
  BY <1>1, <1>2, <1>4, IdleIsATask, StillToCreate
<1> QED
  BY <1>6, <1>7, <1>9, <1>10 DEF IInv

\* The daemon dies, and only what is committed is left.
LEMMA CrashKeeps == ASSUME IInv, Crash PROVE IInv'
<1>1. TypeOK /\ FileSound
  BY DEF IInv
<1>2. /\ tx' = NoTx /\ handle' = FALSE /\ lock' = Nothing /\ task' = [t \in Callers |-> Idle]
      /\ crashes < MaxCrashes /\ crashes' = crashes + 1
      /\ UNCHANGED <<disk, calls, failures, told>>
  BY DEF Crash
<1>3. crashes' \in 0..MaxCrashes
  BY <1>1, <1>2, StoreConstants DEF TypeOK
<1>4. TypeOK'
  BY <1>1, <1>2, <1>3, IdleIsATask DEF TypeOK
<1>5. FileSound'
  BY <1>1, <1>2 DEF FileSound
<1>6. \A t \in Callers : task'[t] = Idle /\ lock' # t
  BY <1>2, StoreConstants
<1>7. \A t \in Callers : CallSound(t)'
  BY <1>6, IdleIsATask DEF CallSound
<1>8. Creations'
  BY <1>6, IdleIsATask DEF Creations
<1> QED
  BY <1>2, <1>4, <1>5, <1>7, <1>8 DEF IInv

\* A statement that runs has the lock, and the others have not.
LEMMA HasTheLock ==
    ASSUME IInv, NEW t \in Callers, task[t].at = "running"
    PROVE  /\ lock = t /\ lock # Nothing
           /\ \A u \in Callers \ {t} : task[u].at # "running" /\ lock # u
           /\ TypeOK /\ FileSound /\ Creations /\ task \in [Callers -> Task]
           /\ \A u \in Callers : CallSound(u)
  BY StoreConstants DEF IInv, CallSound, TypeOK

\* The call that leaves the lock is sound, and so are the others.
LEMMA LeaversAreSound ==
    ASSUME IInv, NEW t \in Callers, task[t].at = "running",
           NEW answer \in {"done", "refused", "failed"}, Leave(t, answer)
    PROVE  \A u \in Callers : CallSound(u)'
<1>1. /\ TypeOK /\ CallSound(t) /\ \A u \in Callers \ {t} : task[u].at # "running" /\ CallSound(u)
  BY HasTheLock
<1>2. /\ lock' = Nothing /\ CallSound(t)' /\ \A u \in Callers \ {t} : task'[u] = task[u]
  BY <1>1, LeaveIs
<1>3. \A u \in Callers \ {t} : CallSound(u)'
  <2> TAKE u \in Callers \ {t}
  <2>1. task'[u] = task[u] /\ task[u].at # "running" /\ lock' # u /\ CallSound(u)
    BY <1>1, <1>2, StoreConstants
  <2> QED  BY <2>1, StaysSound
<1> QED
  BY <1>2, <1>3

\* A call goes on: the others have not the lock.
LEMMA AdvancesKeeps ==
    ASSUME IInv, NEW t \in Callers, task[t].at = "running", Advances(t)
    PROVE  IInv'
<1>1. /\ TypeOK /\ FileSound /\ Creations /\ lock = t /\ lock # Nothing
      /\ \A u \in Callers : CallSound(u)
      /\ \A u \in Callers \ {t} : task[u].at # "running" /\ lock # u
  BY HasTheLock
<1>2. /\ lock' = lock /\ task' \in [Callers -> Task]
      /\ \A u \in Callers \ {t} : task'[u] = task[u]
      /\ task'[t].at = "running" /\ task'[t].op = task[t].op
      /\ task'[t].stage = task[t].stage /\ task'[t].answer = task[t].answer
      /\ Stands(t)' /\ Filed
  BY DEF Advances, Moves
<1>3. TypeOK'
  BY <1>1, <1>2 DEF TypeOK, Filed
<1>4. FileSound' /\ disk'.rows = disk.rows
  BY <1>2 DEF Filed
<1>5. CallSound(t)'
  <2>1. task'[t] # Idle /\ task'[t].at # "idle"
    BY <1>2, IdleIsATask
  <2> QED  BY <1>1, <1>2, <2>1 DEF CallSound
<1>6. \A u \in Callers \ {t} : CallSound(u)'
  <2> TAKE u \in Callers \ {t}
  <2>1. task'[u] = task[u] /\ task[u].at # "running" /\ lock' # u /\ CallSound(u)
    BY <1>1, <1>2
  <2> QED  BY <2>1, StaysSound
<1>7. Creations'
  BY <1>1, <1>2, <1>4, StillToCreate
<1>8. lock' # Nothing
  BY <1>1, <1>2
<1> QED
  BY <1>3, <1>4, <1>5, <1>6, <1>7, <1>8 DEF IInv

\* A call finishes a stage: no other was to make the epic it wrote.
LEMMA FinishesKeeps ==
    ASSUME IInv, NEW t \in Callers, task[t].at = "running", Finishes(t)
    PROVE  IInv'
<1> DEFINE op == task[t].op
<1>1. /\ TypeOK /\ FileSound /\ Creations /\ CallSound(t) /\ task \in [Callers -> Task]
      /\ op \in Op
  BY HasTheLock, CodeIs
<1>2. /\ Leave(t, "done") /\ UNCHANGED <<handle, calls, failures, crashes, told>>
      /\ tx' = NoTx /\ disk' \in Database /\ FileSound' /\ Effect(t)
  BY DEF Finishes
<1>3. /\ lock' = Nothing /\ task' \in [Callers -> Task]
      /\ \A u \in Callers \ {t} : task'[u] = task[u]
      /\ task'[t].op = op
      /\ task'[t].at = "waiting" => task[t].stage = 1
      /\ task'[t].at \in {"waiting", "answering"}
  BY <1>1, <1>2, LeaveIs
<1>4. TypeOK'
  BY <1>1, <1>2, <1>3 DEF TypeOK
<1>5. \A u \in Callers : CallSound(u)'
  BY <1>2, LeaversAreSound
<1>6. Creations'
  <2>1. CASE op.kind = "change" \/ (op.kind = "create" /\ task[t].stage = 2)
    <3>1. \A e \in Epics : e # op.epic => disk'.rows["epics"][e] = disk.rows["epics"][e]
      BY <1>2, <2>1, PartsAre DEF Effect
    <3>2. op.kind = "change" => disk.rows["epics"][op.epic] # NoEpic
      BY <1>2 DEF Effect
    <3>3. ASSUME NEW u \in Callers \ {t}, task[u].at \in {"waiting", "running"},
                 task[u].op.kind = "create"
          PROVE  disk'.rows["epics"][task[u].op.epic] = disk.rows["epics"][task[u].op.epic]
      <4>1. disk.rows["epics"][task[u].op.epic] = NoEpic
        BY <1>1, <3>3 DEF Creations
      <4>2. op.kind = "create" => op.epic # task[u].op.epic
        BY <1>1, <3>3 DEF Creations
      <4>3. task[u].op.epic \in Epics
        <5>1. task[u].op \in Op
          BY <3>3 DEF IInv, CallSound
        <5> QED  BY <5>1 DEF Op
      <4> QED  BY <2>1, <3>1, <3>2, <4>1, <4>2, <4>3
    <3>4. op.kind = "create" => task'[t].at \notin {"waiting", "running"}
      BY <1>3, <2>1
    <3> QED
      BY <1>1, <1>3, <3>3, <3>4, StillToCreate
  <2>2. CASE ~(op.kind = "change" \/ (op.kind = "create" /\ task[t].stage = 2))
    <3>1. disk'.rows = disk.rows
      BY <1>2, <2>2 DEF Effect
    <3> QED
      BY <1>1, <1>3, <3>1, StillToCreate
  <2> QED
    BY <2>1, <2>2
<1> QED
  BY <1>2, <1>4, <1>5, <1>6 DEF IInv

\* A call is refused or fails, its transaction rolled back.
LEMMA GivesUpKeeps ==
    ASSUME IInv, NEW t \in Callers, task[t].at = "running", Refuses(t) \/ Fails(t)
    PROVE  IInv'
<1>1. /\ TypeOK /\ FileSound /\ Creations /\ CallSound(t)
  BY HasTheLock
<1>2. PICK answer \in {"refused", "failed"} : Leave(t, answer)
  BY DEF Refuses, Fails
<1>3. /\ tx' = NoTx /\ UNCHANGED <<disk, handle, calls, crashes, told>>
      /\ failures' \in 0..MaxFailures
  <2>1. CASE Refuses(t)
    BY <1>1, <2>1 DEF Refuses, TypeOK
  <2>2. CASE Fails(t)
    <3>1. failures \in 0..MaxFailures /\ (Takes(t) => failures < MaxFailures)
      BY <1>1, <2>2 DEF Fails, TypeOK
    <3>2. failures' = IF Takes(t) THEN failures + 1 ELSE failures
      BY <2>2, <3>1 DEF Fails
    <3> QED  BY <2>2, <3>1, <3>2, StoreConstants DEF Fails
  <2> QED  BY <2>1, <2>2
<1>4. /\ lock' = Nothing /\ task' \in [Callers -> Task]
      /\ \A u \in Callers \ {t} : task'[u] = task[u]
      /\ task'[t].op = task[t].op /\ task'[t].at = "answering"
  BY <1>1, <1>2, LeaveIs
<1>5. TypeOK'
  BY <1>1, <1>3, <1>4 DEF TypeOK
<1>6. FileSound'
  BY <1>1, <1>3 DEF FileSound, Current
<1>7. \A u \in Callers : CallSound(u)'
  BY <1>2, LeaversAreSound
<1>8. Creations'
  BY <1>1, <1>3, <1>4, StillToCreate
<1> QED
  BY <1>3, <1>5, <1>6, <1>7, <1>8 DEF IInv

\* Whatever a statement does.
LEMMA StatementKeeps == ASSUME IInv, NEW t \in Callers, Statement(t) PROVE IInv'
<1>1. task[t].at = "running"
  BY WhatRuns DEF Fails
<1>2. Advances(t) \/ Finishes(t) \/ Refuses(t) \/ Fails(t)
  BY <1>1, HasTheLock, StatementRuns
<1> QED
  BY <1>1, <1>2, AdvancesKeeps, FinishesKeeps, GivesUpKeeps

\* Whatever step is taken.
LEMMA NextKeeps == IInv /\ [Next]_vars => IInv'
<1> SUFFICES ASSUME IInv, [Next]_vars
             PROVE  IInv'
  OBVIOUS
<1>1. CASE UNCHANGED vars
  <2>1. TypeOK' /\ FileSound' /\ Creations' /\ (lock' = Nothing => tx' = NoTx)
    BY <1>1 DEF IInv, TypeOK, FileSound, Current, Creations, vars
  <2>2. \A t \in Callers : CallSound(t)'
    BY <1>1, StaysSound DEF IInv, vars
  <2> QED  BY <2>1, <2>2 DEF IInv
<1>2. ASSUME NEW t \in Callers, Ask(t)
      PROVE  IInv'
  BY <1>2, AskKeeps
<1>3. ASSUME NEW t \in Callers, Lock(t)
      PROVE  IInv'
  BY <1>3, LockKeeps
<1>4. ASSUME NEW t \in Callers, Statement(t)
      PROVE  IInv'
  BY <1>4, StatementKeeps
<1>5. ASSUME NEW t \in Callers, Answer(t)
      PROVE  IInv'
  BY <1>5, AnswerKeeps
<1>6. CASE Crash
  BY <1>6, CrashKeeps
<1> QED
  BY <1>1, <1>2, <1>3, <1>4, <1>5, <1>6 DEF Next

\* The file, the transaction, the lock and every call are where the statements
\* before have brought them, whatever fails and wherever the daemon dies.
THEOREM Soundness == Spec => []IInv
<1>1. Init => IInv
  BY InitIsSound
<1>2. IInv /\ [Next]_vars => IInv'
  BY NextKeeps
<1> QED
  BY <1>1, <1>2, PTL DEF Spec

\* Every value the store's calls keep is of its type (repository.go, store.go).
THEOREM TypesHold == Spec => []TypeOK
<1>1. IInv => TypeOK
  BY DEF IInv
<1> QED
  BY <1>1, Soundness, PTL

-----------------------------------------------------------------------------
(* What follows from it.                                                    *)

\* A statement applies when what its kind asks of the database is so.
LEMMA Applies ==
    ASSUME NEW t \in Callers, NEW do, NEW on, Head(task[t].todo) = S(do, on),
           do = "build" => Working(t).temporary[on].shape = "absent",
           do \in {"copy", "rename"} => Working(t).temporary[on].shape # "absent",
           do = "require" => Working(t).project,
           do = "replace" => Working(t).settings["agent_settings"].shape = "current",
           do = "insert" =>
              /\ Working(t).rows[on][task[t].op.epic] = NoEpic
              /\ \A i \in DOMAIN Parts : Parts[i] = on /\ i > 1 =>
                   Working(t).rows[Parts[IF on = "pull_requests" THEN 2 ELSE i - 1]][task[t].op.epic] # NoEpic
    PROVE  Takes(t)
<1>1. Head(task[t].todo).do = do /\ Head(task[t].todo).on = on
  BY DEF S
<1> QED
  BY <1>1 DEF Takes

\* The other statements always do.
LEMMA AlwaysApplies ==
    ASSUME NEW t \in Callers, NEW do, NEW on, Head(task[t].todo) = S(do, on),
           do \notin {"build", "copy", "rename", "require", "replace", "insert"}
    PROVE  Takes(t)
  BY Applies

\* No statement of an opening can be refused outside a rebuild.
LEMMA OpenApplies ==
    ASSUME NEW t \in Callers, NEW k \in 1..Len(OpenStore), Head(task[t].todo) = OpenStore[k]
    PROVE  Takes(t)
<1>1. /\ k = 1 => Head(task[t].todo) = S("create", "base")
      /\ k = 2 => Head(task[t].todo) = S("create", "agent_settings")
      /\ k = 3 => Head(task[t].todo) = S("create", "repository_settings")
      /\ k = 4 => Head(task[t].todo) = S("begin", "tx")
      /\ k = 5 => Head(task[t].todo) = S("inspect", "agent_settings")
      /\ k = 6 => Head(task[t].todo) = S("inspect", "repository_settings")
      /\ k = 7 => Head(task[t].todo) = S("commit", "tx")
      /\ k = 8 => Head(task[t].todo) = S("ensure", "project")
      /\ k = 9 => Head(task[t].todo) = S("keep", "handle")
  BY OpenStoreIs
<1>2. k \in 1..9
  BY OpenStoreIs
<1>3. PICK do \in {"create", "begin", "inspect", "commit", "ensure", "keep"}, on \in Subjects :
        Head(task[t].todo) = S(do, on)
  BY <1>1, <1>2 DEF Subjects, SettingsTables
<1> QED
  BY <1>3, AlwaysApplies

\* The names a rebuild needs are free, and those it reads are there.
LEMMA RebuildApplies ==
    ASSUME NEW t \in Callers, TypeOK, NEW s \in SettingsTables, NEW j \in 1..4, RebuildAt(t, s, j),
           Head(task[t].todo) = Rebuild(s)[j]
    PROVE  Takes(t)
<1>1. /\ InTx(t)
      /\ j = 1 => tx.db.temporary[s] = Absent
      /\ j > 1 => tx.db.temporary[s].shape = "current"
  BY DEF RebuildAt
<1>2. Working(t) = tx.db
  BY <1>1, WorkingIs
<1>3. PICK do \in {"build", "copy", "drop", "rename"} :
        Head(task[t].todo) = S(do, s) /\ (do = "build" <=> j = 1)
  <2>1. CASE j = 1  BY <2>1, RebuildIs
  <2>2. CASE j = 2  BY <2>2, RebuildIs
  <2>3. CASE j = 3  BY <2>3, RebuildIs
  <2>4. CASE j = 4  BY <2>4, RebuildIs
  <2> QED  BY <2>1, <2>2, <2>3, <2>4
<1>4. CASE j = 1
  <2>1. do = "build" /\ tx.db.temporary[s].shape = "absent"
    BY <1>1, <1>3, <1>4 DEF Absent
  <2> QED  BY <1>2, <1>3, <2>1, Applies
<1>5. CASE j # 1
  <2>1. do \in {"copy", "drop", "rename"} /\ tx.db.temporary[s].shape # "absent"
    BY <1>1, <1>3, <1>5
  <2> QED  BY <1>2, <1>3, <2>1, Applies
<1> QED
  BY <1>4, <1>5

\* The project's row is written whatever is there.
LEMMA ProjectApplies ==
    ASSUME NEW t \in Callers, NEW j \in 1..4, Head(task[t].todo) = WriteProject[j]
    PROVE  Takes(t)
<1>1. PICK do \in {"begin", "name", "unlink", "commit"}, on \in Subjects :
        Head(task[t].todo) = S(do, on)
  <2>1. CASE j = 1  BY <2>1, WriteProjectIs DEF Subjects
  <2>2. CASE j = 2  BY <2>2, WriteProjectIs DEF Subjects
  <2>3. CASE j = 3  BY <2>3, WriteProjectIs DEF Subjects
  <2>4. CASE j = 4  BY <2>4, WriteProjectIs DEF Subjects
  <2> QED  BY <2>1, <2>2, <2>3, <2>4
<1> QED
  BY <1>1, AlwaysApplies

\* Repositories are linked to a project that is there.
LEMMA LinkingApplies ==
    ASSUME NEW t \in Callers, TypeOK, FileSound, handle, NEW k \in 1..5, LinkingAt(t, k),
           Head(task[t].todo) = ReplaceRepositories[k]
    PROVE  Takes(t)
<1>1. CASE k = 2
  <2>1. Aside(t) /\ tx.db.project = disk.project
    BY <1>1 DEF LinkingAt
  <2>2. Working(t).project
    BY <2>1, WorkingIs DEF Aside, FileSound
  <2>3. Head(task[t].todo) = S("require", "project")
    BY <1>1, ReplaceRepositoriesIs
  <2> QED  BY <2>2, <2>3, Applies
<1>2. CASE k # 2
  <2>1. PICK do \in {"begin", "unlink", "link", "commit"}, on \in Subjects :
          Head(task[t].todo) = S(do, on)
    <3>1. CASE k = 1  BY <3>1, ReplaceRepositoriesIs DEF Subjects
    <3>2. CASE k = 3  BY <3>2, ReplaceRepositoriesIs DEF Subjects
    <3>3. CASE k = 4  BY <3>3, ReplaceRepositoriesIs DEF Subjects
    <3>4. CASE k = 5  BY <3>4, ReplaceRepositoriesIs DEF Subjects
    <3> QED  BY <1>2, <3>1, <3>2, <3>3, <3>4
  <2> QED  BY <2>1, AlwaysApplies
<1> QED
  BY <1>1, <1>2

\* An agent is written to a table of this version.
LEMMA SettingApplies ==
    ASSUME NEW t \in Callers, TypeOK, FileSound, handle, NEW k \in 1..3, SettingAt(t, k),
           Head(task[t].todo) = UpdateAgentSettings[k]
    PROVE  Takes(t)
<1>1. CASE k = 3
  <2>1. Working(t) = disk
    BY WorkingIs DEF SettingAt
  <2>2. Working(t).settings["agent_settings"].shape = "current"
    BY <2>1 DEF FileSound, Current, SettingsTables
  <2>3. Head(task[t].todo) = S("replace", "settings")
    BY <1>1, UpdateAgentSettingsIs
  <2> QED  BY <2>2, <2>3, Applies
<1>2. CASE k # 3
  <2>1. PICK do \in {"select", "assign"} : Head(task[t].todo) = S(do, "settings")
    <3>1. CASE k = 1  BY <3>1, UpdateAgentSettingsIs
    <3>2. CASE k = 2  BY <3>2, UpdateAgentSettingsIs
    <3> QED  BY <1>2, <3>1, <3>2
  <2> QED  BY <2>1, AlwaysApplies
<1> QED
  BY <1>1, <1>2

\* Reading is never refused by the schema.
LEMMA ReadingApplies ==
    ASSUME NEW t \in Callers, NEW k \in 1..7, Head(task[t].todo) = ReadEpics[k]
    PROVE  Takes(t)
<1>1. CASE k = 1 \/ k = 7
  <2>1. PICK do \in {"begin", "commit"} : Head(task[t].todo) = S(do, "tx")
    BY <1>1, ReadEpicsIs
  <2> QED  BY <2>1, AlwaysApplies
<1>2. CASE k \in 2..6
  <2>1. k - 1 \in 1..5 /\ 1 + (k - 1) = k
    BY <1>2
  <2>2. Head(task[t].todo) = S("read", Parts[k - 1])
    BY <2>1, ReadEpicsIs
  <2> QED  BY <2>2, AlwaysApplies
<1> QED
  BY <1>1, <1>2

\* A table's rows go in when the table they refer to has its rows and this one has
\* none: five tables, of which pull_requests refers to issues.
LEMMA WritingApplies ==
    ASSUME NEW t \in Callers, TypeOK, NEW k \in 1..8, WritingAt(t, k),
           Head(task[t].todo) = WriteEpic[k], Written(task[t].op) \in SUBSET Call
    PROVE  Takes(t)
<1>1. CASE k \in 1..2 \/ k = 8
  <2>1. PICK do \in {"begin", "delete", "commit"}, on \in Subjects : Head(task[t].todo) = S(do, on)
    <3>1. CASE k = 1  BY <3>1, WriteEpicIs DEF Subjects
    <3>2. CASE k = 2  BY <3>2, WriteEpicIs, PartsAre DEF Subjects
    <3>3. CASE k = 8  BY <3>3, WriteEpicIs DEF Subjects
    <3> QED  BY <1>1, <3>1, <3>2, <3>3
  <2> QED  BY <2>1, AlwaysApplies
<1>2. CASE k \in 3..7
  <2>1. PICK i \in 1..5 : k = 2 + i
    <3>1. k - 2 \in 1..5 /\ k = 2 + (k - 2)
      BY <1>2
    <3> QED  BY <3>1
  <2>2. Head(task[t].todo) = S("insert", Parts[i])
    BY <2>1, WriteEpicIs
  <2>3. /\ InTx(t)
        /\ \A j \in 1..5 : tx.db.rows[Parts[j]][task[t].op.epic]
                              = IF j < i THEN Written(task[t].op) ELSE NoEpic
    <3>1. k # 1 /\ k > 2 /\ DOMAIN Parts = 1..5
      BY <1>2, PartsAre
    <3>2. \A j \in 1..5 : j < k - 2 <=> j < i
      BY <2>1
    <3> QED  BY <3>1, <3>2 DEF WritingAt
  <2>4. Working(t) = tx.db
    BY <2>3, WorkingIs
  <2>5. Written(task[t].op) # NoEpic
    BY StoreConstants DEF Call
  <2>6. tx.db.rows[Parts[i]][task[t].op.epic] = NoEpic
    BY <2>3
  <2>7. ASSUME NEW j \in DOMAIN Parts, Parts[j] = Parts[i], j > 1
        PROVE  tx.db.rows[Parts[IF Parts[i] = "pull_requests" THEN 2 ELSE j - 1]][task[t].op.epic] # NoEpic
    <3>1. j = i /\ j \in 1..5
      BY <2>7, PartsAre, PartsDiffer
    <3>2. Parts[i] = "pull_requests" => i = 4
      BY PartsAre, PartsDiffer
    <3>3. PICK n \in 1..5 : n = (IF Parts[i] = "pull_requests" THEN 2 ELSE j - 1) /\ n < i
      <4>1. CASE Parts[i] = "pull_requests"
        BY <3>2, <4>1
      <4>2. CASE Parts[i] # "pull_requests"
        BY <2>7, <3>1, <4>2
      <4> QED  BY <4>1, <4>2
    <3>4. tx.db.rows[Parts[n]][task[t].op.epic] # NoEpic
      BY <2>3, <2>5, <3>3
    <3> QED  BY <3>3, <3>4
  <2> QED  BY <2>2, <2>4, <2>6, <2>7, Applies
<1> QED
  BY <1>1, <1>2

\* Nor is any statement of a call's own program.
LEMMA StageApplies ==
    ASSUME NEW t \in Callers, TypeOK, FileSound, CallSound(t), task[t].at = "running",
           NEW k \in 1..Len(Code(t)), StageAt(t, k), Head(task[t].todo) = Code(t)[k]
    PROVE  Takes(t)
<1> DEFINE op == task[t].op
<1>1. /\ op \in Op /\ op.kind \in KindNames /\ handle
      /\ task[t].stage \in {1, 2} /\ task[t].stage <= Len(Stages(op))
      /\ Code(t) = Stages(op)[task[t].stage]
  BY CodeIs DEF CallSound, TypeOK, Task, Code, StageAt
<1>2. CASE op.kind = "create" /\ task[t].stage = 1
  <2>1. Code(t) = <<S("resolve", "links")>>
    BY <1>1, <1>2, StagesAre
  <2>2. k = 1
    BY <2>1
  <2>3. Head(task[t].todo) = S("resolve", "links")
    BY <2>1, <2>2
  <2> QED  BY <2>3, AlwaysApplies
<1>3. CASE op.kind = "create" /\ task[t].stage = 2
  <2>1. Code(t) = WriteEpic
    BY <1>1, <1>3, StagesAre
  <2>2. WritingAt(t, k) /\ k \in 1..8
    BY <1>3, <2>1, WriteEpicIs DEF StageAt
  <2>3. Written(op) \in SUBSET Call
    BY <1>1, <1>3, WrittenIs
  <2> QED  BY <2>1, <2>2, <2>3, WritingApplies
<1>4. CASE op.kind = "change"
  <2>1. Code(t) = UpdateEpic /\ k \in 1..16
    <3>1. Code(t) = UpdateEpic
      BY <1>1, <1>4, StagesAre
    <3> QED  BY <3>1, UpdateEpicIs
  <2>2. CASE k < 8
    <3>1. k \in 1..7
      BY <2>1, <2>2
    <3>2. Head(task[t].todo) = ReadEpics[k]
      BY <2>1, <3>1, UpdateEpicIs
    <3> QED  BY <3>1, <3>2, ReadingApplies
  <2>3. CASE k = 8
    <3>1. Head(task[t].todo) = S("change", "epic")
      BY <2>1, <2>3, UpdateEpicIs
    <3> QED  BY <3>1, AlwaysApplies
  <2>4. CASE k > 8
    <3>1. Changed(t) /\ WritingAt(t, k - 8)
      BY <1>4, <2>4 DEF StageAt
    <3>2. PICK j \in 1..8 : j = k - 8 /\ 8 + j = k
      <4>1. k - 8 \in 1..8 /\ 8 + (k - 8) = k
        BY <2>1, <2>4
      <4> QED  BY <4>1
    <3>3. Head(task[t].todo) = WriteEpic[j]
      BY <2>1, <3>2, UpdateEpicIs
    <3>4. Written(op) \in SUBSET Call
      BY <1>1, <3>1, WrittenIs DEF Changed
    <3> QED  BY <3>1, <3>2, <3>3, <3>4, WritingApplies
  <2> QED  BY <2>1, <2>2, <2>3, <2>4
<1>5. CASE op.kind = "list"
  <2>1. Code(t) = ReadEpics
    BY <1>1, <1>5, StagesAre
  <2>2. k \in 1..7
    BY <2>1, ReadEpicsIs
  <2> QED  BY <2>1, <2>2, ReadingApplies
<1>6. CASE op.kind = "role" \/ (op.kind = "setup" /\ task[t].stage = 1)
  <2>1. Code(t) = UpdateAgentSettings /\ SettingAt(t, k)
    BY <1>1, <1>6, StagesAre DEF StageAt
  <2>2. k \in 1..3
    BY <2>1, UpdateAgentSettingsIs
  <2> QED  BY <1>1, <2>1, <2>2, SettingApplies
<1>7. CASE op.kind = "link" \/ (op.kind = "setup" /\ task[t].stage = 2)
  <2>1. Code(t) = ReplaceRepositories /\ LinkingAt(t, k)
    BY <1>1, <1>7, StagesAre DEF StageAt
  <2>2. k \in 1..5
    BY <2>1, ReplaceRepositoriesIs
  <2> QED  BY <1>1, <2>1, <2>2, LinkingApplies
<1>8. op.kind \in {"create", "change", "list", "role", "setup", "link"}
  BY <1>1 DEF KindNames
<1> QED
  BY <1>1, <1>2, <1>3, <1>4, <1>5, <1>6, <1>7, <1>8

\* So no statement of a running call is.
LEMMA RunningApplies == IInv => StatementsApply
<1> SUFFICES ASSUME IInv, NEW t \in Callers, task[t].at = "running"
             PROVE  Takes(t)
  BY DEF StatementsApply
<1>1. TypeOK /\ FileSound /\ CallSound(t) /\ Stands(t)
  BY DEF IInv, CallSound
<1>2. Code(t) \in Seq(Instruction) /\ <<>> \in Seq(Instruction)
  BY <1>1, CodeIs
<1>3. \A k \in 1..9 : Rest(OpenStore, k) \o Code(t) \in Seq(Instruction)
  BY <1>2, OpenStoreIs, RestOf
<1>4. ASSUME NEW k \in 1..Len(Code(t)), task[t].todo = Rest(Code(t), k) \o <<>>, StageAt(t, k)
      PROVE  Takes(t)
  <2>1. Head(task[t].todo) = Code(t)[k]
    BY <1>2, <1>4, RestOf
  <2> QED  BY <1>1, <1>4, <2>1, StageApplies
<1>5. ASSUME NEW k \in 1..Len(OpenStore), task[t].todo = Rest(OpenStore, k) \o Code(t)
      PROVE  Takes(t)
  <2>1. OpenStore \in Seq(Instruction) /\ Code(t) \in Seq(Instruction) /\ k \in 1..Len(OpenStore)
    BY <1>2, OpenStoreIs
  <2>2. Head(Rest(OpenStore, k) \o Code(t)) = OpenStore[k]
    BY <2>1, RestOf, Zenon
  <2> QED  BY <1>5, <2>2, OpenApplies
<1>6. ASSUME NEW s \in SettingsTables, NEW j \in 1..4, RebuildAt(t, s, j),
             task[t].todo = Rest(Rebuild(s), j) \o (Rest(OpenStore, AfterInspect(s)) \o Code(t))
      PROVE  Takes(t)
  <2>1. Rest(OpenStore, AfterInspect(s)) \o Code(t) \in Seq(Instruction)
    <3>1. AfterInspect(s) \in 1..9
      BY DEF AfterInspect
    <3> QED  BY <1>3, <3>1
  <2>2. Rebuild(s) \in Seq(Instruction) /\ j \in 1..Len(Rebuild(s))
    BY RebuildIs
  <2>3. Head(Rest(Rebuild(s), j) \o (Rest(OpenStore, AfterInspect(s)) \o Code(t))) = Rebuild(s)[j]
    BY <2>1, <2>2, RestOf, Zenon
  <2> QED  BY <1>1, <1>6, <2>3, RebuildApplies
<1>7. ASSUME NEW j \in 1..4, task[t].todo = Rest(WriteProject, j) \o (Rest(OpenStore, 9) \o Code(t))
      PROVE  Takes(t)
  <2>1. Rest(OpenStore, 9) \o Code(t) \in Seq(Instruction)
    BY <1>3
  <2>2. WriteProject \in Seq(Instruction) /\ j \in 1..Len(WriteProject)
    BY WriteProjectIs
  <2>3. Head(Rest(WriteProject, j) \o (Rest(OpenStore, 9) \o Code(t))) = WriteProject[j]
    BY <2>1, <2>2, RestOf, Zenon
  <2> QED  BY <1>7, <2>3, ProjectApplies
<1>8. Len(Rebuild("agent_settings")) = 4 /\ Len(WriteProject) = 4
  BY RebuildIs, WriteProjectIs DEF SettingsTables
<1> QED
  BY <1>1, <1>4, <1>5, <1>6, <1>7, <1>8 DEF Stands

\* No statement of a call is refused by the schema, whatever was interrupted before
\* it: names are free in a migration done again, and an epic's rows go in after
\* what they refer to (store.go:149-176, 474-527).
THEOREM StatementsDoApply == Spec => []StatementsApply
  BY RunningApplies, Soundness, PTL

\* A step that changes a profile is the last of a call that assigns its role.
LEMMA StepKeepsProfiles ==
    ASSUME IInv, [Next]_vars, NEW s \in SettingsTables, NEW r \in Roles,
           disk.settings[s].row[r] # disk'.settings[s].row[r]
    PROVE  /\ s = "agent_settings"
           /\ disk'.settings[s].row[r].limited = disk.settings[s].row[r].limited
           /\ \E t \in Callers : /\ lock = t /\ r \in About(task[t].op)
                                 /\ disk'.settings[s].row[r].agent = task[t].op.n
<1>1. disk' # disk
  OBVIOUS
<1>2. PICK t \in Callers : Statement(t)
  BY <1>1 DEF Next, vars, Ask, Lock, Answer, Crash
<1>3. /\ task[t].at = "running" /\ lock = t /\ TypeOK /\ FileSound /\ CallSound(t)
  <2>1. task[t].at = "running"
    BY <1>2, WhatRuns DEF Fails
  <2> QED  BY <2>1, HasTheLock
<1>4. ~Refuses(t) /\ ~Fails(t)
  BY <1>1 DEF Refuses, Fails
<1>5. ~Advances(t)
  BY DEF Advances, Filed
<1>6. Finishes(t)
  BY <1>2, <1>3, <1>4, <1>5, StatementRuns
<1>7. /\ s = "agent_settings"
      /\ disk'.settings[s].row = Assigned(task[t].op, disk.settings[s].row)
  BY <1>6 DEF Finishes
<1>8. disk.settings[s].row[r] \in Profile
  BY <1>3, Tables DEF TypeOK, Settings
<1>9. disk'.settings[s].row[r] =
         IF r \in About(task[t].op) THEN [disk.settings[s].row[r] EXCEPT !.agent = task[t].op.n]
         ELSE disk.settings[s].row[r]
  BY <1>7 DEF Assigned
<1>10. r \in About(task[t].op)
  BY <1>9
<1> QED
  BY <1>3, <1>7, <1>8, <1>9, <1>10 DEF Profile

\* A profile changes by a call for its role alone, to that call's agent, its round
\* limit left alone: not by the migration of an older version's table, a failure, a
\* death, or a call for another role (set_agent_role.go:35-41, store.go:122-176).
THEOREM ProfilesAreKept == Spec => ProfilesKept
<1>1. IInv /\ [Next]_vars =>
        [\A s \in SettingsTables, r \in Roles :
           LET old == disk.settings[s].row[r]
               new == disk'.settings[s].row[r]
           IN old # new =>
                /\ s = "agent_settings" /\ new.limited = old.limited
                /\ \E t \in Callers : lock = t /\ r \in About(task[t].op) /\ new.agent = task[t].op.n
        ]_vars
  BY StepKeepsProfiles
<1> QED
  BY <1>1, Soundness, PTL DEF Spec, ProfilesKept

-----------------------------------------------------------------------------
(* The store is one of single steps.                                        *)

\* The epics and the calls as Aggregates has them.
Kept == [e \in Epics |-> Whole(disk.rows, e)]
Asking == [t \in Callers |-> CallOf(t)]

\* The tables agree on every epic.
LEMMA KeptIs ==
    ASSUME TypeOK, FileSound
    PROVE  Kept = [e \in Epics |-> disk.rows["epics"][e]]
<1>1. \A e \in Epics, p \in PartNames : disk.rows[p][e] = disk.rows["epics"][e]
  BY DEF FileSound
<1>2. \A e \in Epics : Whole(disk.rows, e) = disk.rows["epics"][e]
  BY <1>1 DEF Whole
<1> QED
  BY <1>2 DEF Kept

\* Rows that are as they were make the epics they made.
LEMMA KeptIsStill ==
    ASSUME disk'.rows = disk.rows
    PROVE  Kept' = Kept
  BY DEF Kept, Whole

\* A call of the epics, and what the abstract store has of it.
OfEpics(t) == task[t].at # "idle" /\ task[t].op.kind \in {"create", "change", "list"}

\* A call as the abstract store has it.
LEMMA CallOfIs ==
    ASSUME NEW t \in Callers
    PROVE  /\ ~OfEpics(t) => CallOf(t) = A!Idle
           /\ OfEpics(t) =>
                CallOf(t) =
                  [at |-> IF task[t].at = "answering" THEN "acted" ELSE "asked",
                   kind |-> task[t].op.kind, epic |-> task[t].op.epic, n |-> task[t].op.n,
                   answer |-> task[t].answer,
                   seen |-> IF task[t].op.kind = "list" /\ task[t].answer = "done"
                            THEN [e \in Epics |-> Whole(task[t].rows, e)] ELSE Nothing,
                   since |-> task[t].op.since]
  BY DEF OfEpics, CallOf, A!Idle

\* A call nothing of which has changed that the abstract store has of it.
LEMMA SameCall ==
    ASSUME NEW t \in Callers, task'[t].op = task[t].op, task'[t].answer = task[t].answer,
           task'[t].at = "idle" <=> task[t].at = "idle",
           task'[t].at = "answering" <=> task[t].at = "answering",
           task'[t].rows = task[t].rows \/ task[t].answer # "done"
    PROVE  CallOf(t)' = CallOf(t)
  BY DEF CallOf, Whole

\* A step the abstract store does not see.
LEMMA Unseen ==
    ASSUME Kept' = Kept, told' = told, \A t \in Callers : CallOf(t)' = CallOf(t)
    PROVE  UNCHANGED A!aggVars
  BY DEF A!aggVars, Kept

\* What the abstract store has of a call, replaced.
LEMMA Asks ==
    ASSUME NEW t \in Callers, NEW new, CallOf(t)' = new,
           \A u \in Callers \ {t} : CallOf(u)' = CallOf(u)
    PROVE  Asking' = [Asking EXCEPT ![t] = new]
  BY DEF Asking

\* A call of the epics that is to be answered has been acted on.
LEMMA Acting ==
    ASSUME NEW t \in Callers, NEW answer, NEW seen, OfEpics(t),
           task'[t].at = "answering", task'[t].op = task[t].op, task'[t].answer = answer,
           seen = IF task[t].op.kind = "list" /\ answer = "done"
                  THEN [e \in Epics |-> Whole(task'[t].rows, e)] ELSE Nothing,
           \A u \in Callers \ {t} : task'[u] = task[u]
    PROVE  A!Acts(t, answer, seen)
<1> DEFINE op == task[t].op
           new == [at |-> "acted", kind |-> op.kind, epic |-> op.epic, n |-> op.n,
                   answer |-> answer, seen |-> seen, since |-> op.since]
<1>1. PICK at, saw :
        /\ at = IF task[t].at = "answering" THEN "acted" ELSE "asked"
        /\ saw = IF op.kind = "list" /\ task[t].answer = "done"
                 THEN [e \in Epics |-> Whole(task[t].rows, e)] ELSE Nothing
  OBVIOUS
<1> DEFINE old == [at |-> at, kind |-> op.kind, epic |-> op.epic, n |-> op.n,
                   answer |-> task[t].answer, seen |-> saw, since |-> op.since]
<1>2. CallOf(t) = old
  BY <1>1, CallOfIs
<1>3. CallOf(t)' = new
  <2>1. OfEpics(t)' /\ task'[t].op.kind = op.kind
    BY DEF OfEpics
  <2>2. op.kind \in {"create", "change", "list"} /\ task'[t].at # "idle"
    BY DEF OfEpics
  <2>3. \A e \in Epics : Whole(task[t].rows, e)' = Whole(task'[t].rows, e)
    BY DEF Whole
  <2> QED
    BY <2>2, <2>3 DEF CallOf
<1>4. new = [old EXCEPT !.at = "acted", !.answer = answer, !.seen = seen]
  <2> DEFINE Records == [at : {at, "acted"}, kind : {op.kind}, epic : {op.epic}, n : {op.n},
                         answer : {task[t].answer, answer}, seen : {seen, saw}, since : {op.since}]
  <2>1. new \in Records /\ new.at = "acted" /\ new.answer = answer /\ new.seen = seen
    OBVIOUS
  <2>2. old \in Records
    OBVIOUS
  <2> HIDE DEF old, new
  <2>3. PICK x : x = [old EXCEPT !.at = "acted", !.answer = answer, !.seen = seen]
    OBVIOUS
  <2>4. x \in Records /\ x.at = "acted" /\ x.answer = answer /\ x.seen = seen
    BY <2>2, <2>3
  <2>5. x = new
    BY <2>1, <2>4
  <2> QED  BY <2>3, <2>5
<1> HIDE DEF new, old
<1>5. \A u \in Callers \ {t} : CallOf(u)' = CallOf(u)
  BY SameCall
<1>6. Asking' = [Asking EXCEPT ![t] = new]
  BY <1>3, <1>5, Asks
<1>7. Asking[t] = old
  BY <1>2 DEF Asking
<1>8. Asking' = [Asking EXCEPT ![t].at = "acted", ![t].answer = answer, ![t].seen = seen]
  BY <1>4, <1>6, <1>7 DEF Asking
<1> QED
  BY <1>8 DEF Asking, A!Acts

\* An empty file, or one an older version left, is a store of single steps.
LEMMA InitIsOfOneStep == Init => A!Init
<1> SUFFICES ASSUME Init
             PROVE  A!Init
  OBVIOUS
<1>1. TypeOK /\ FileSound
  BY InitIsSound DEF IInv
<1>2. Kept \in [Epics -> {{}, NoEpic}]
  <2>1. "epics" \in PartNames
    BY PartsAre
  <2>2. disk.rows = NoRows \/ disk.rows = [p \in PartNames |-> [e \in Epics |-> {}]]
    <3>1. CASE disk = [base |-> FALSE, project |-> FALSE, links |-> {},
                       settings |-> [s \in SettingsTables |-> Absent],
                       temporary |-> [s \in SettingsTables |-> Absent], rows |-> NoRows]
      BY <3>1
    <3>2. ASSUME NEW set, disk = [base |-> TRUE, project |-> TRUE, links |-> Repositories,
                       settings |-> [s \in SettingsTables |-> [shape |-> "legacy", row |-> set]],
                       temporary |-> [s \in SettingsTables |-> Absent],
                       rows |-> [p \in PartNames |-> [e \in Epics |-> {}]]]
          PROVE  disk.rows = [p \in PartNames |-> [e \in Epics |-> {}]]
      BY <3>2
    <3> QED  BY <3>1, <3>2 DEF Init
  <2>3. \A e \in Epics : disk.rows["epics"][e] \in {{}, NoEpic}
    BY <2>1, <2>2 DEF NoRows
  <2> QED  BY <1>1, <2>3, KeptIs
<1>3. Asking = [t \in Callers |-> A!Idle]
  <2>1. \A t \in Callers : task[t].at = "idle"
    BY IdleIsATask DEF Init
  <2>2. \A t \in Callers : CallOf(t) = A!Idle
    BY <2>1, CallOfIs DEF OfEpics
  <2> QED  BY <2>2 DEF Asking
<1>4. told = [e \in Epics |-> {}]
  BY DEF Init
<1> QED
  BY <1>2, <1>3, <1>4 DEF A!Init, Kept, Asking

\* A call of epics is asked for, and one of settings is not seen.
LEMMA AskIsOne ==
    ASSUME IInv, NEW t \in Callers, Ask(t)
    PROVE  A!Ask(t) \/ UNCHANGED A!aggVars
<1>1. /\ task[t].at = "idle" /\ TypeOK /\ task \in [Callers -> Task]
      /\ UNCHANGED <<disk, tx, handle, lock, failures, crashes, told>>
  BY DEF Ask, IInv, TypeOK
<1>2. PICK kind \in Kinds, e \in Epics, r \in Roles \cup {Nothing}, links \in SUBSET Repositories :
        task' = [task EXCEPT ![t] = [Idle EXCEPT !.at = "waiting",
                   !.op = [kind |-> kind, epic |-> e, role |-> r, links |-> links, n |-> calls + 1,
                           since |-> IF kind = "list" THEN told ELSE Nothing]]]
  BY DEF Ask
<1> DEFINE since == IF kind = "list" THEN told ELSE Nothing
<1>3. /\ task'[t].at = "waiting" /\ task'[t].answer = "none"
      /\ task'[t].op.kind = kind /\ task'[t].op.epic = e /\ task'[t].op.n = calls + 1
      /\ task'[t].op.since = since
      /\ \A u \in Callers \ {t} : task'[u] = task[u]
  BY <1>1, <1>2 DEF Idle
<1>4. \A u \in Callers \ {t} : CallOf(u)' = CallOf(u)
  BY <1>3, SameCall
<1>5. Kept' = Kept
  BY <1>1, KeptIsStill
<1>6. CallOf(t) = A!Idle
  BY <1>1, CallOfIs DEF OfEpics
<1>7. CASE kind \in {"create", "change", "list"}
  <2> DEFINE new == [at |-> "asked", kind |-> kind, epic |-> e, n |-> calls + 1,
                     answer |-> "none", seen |-> Nothing, since |-> since]
  <2>1. CallOf(t)' = new
    BY <1>3, <1>7 DEF CallOf
  <2>2. Asking' = [Asking EXCEPT ![t] = new]
    BY <1>4, <2>1, Asks
  <2>3. calls + 1 \in Call
    BY <1>1, StoreConstants DEF Ask, TypeOK, Call
  <2>4. Asking[t] = A!Idle
    BY <1>6 DEF Asking
  <2>5. \E kind_ \in {"create", "change", "list"}, e_ \in Epics, n \in Call :
          Asking' = [Asking EXCEPT ![t] =
                       [at |-> "asked", kind |-> kind_, epic |-> e_, n |-> n, answer |-> "none",
                        seen |-> Nothing, since |-> IF kind_ = "list" THEN told ELSE Nothing]]
    BY <1>7, <2>2, <2>3, Zenon
  <2> QED
    BY <1>1, <1>5, <2>4, <2>5, Zenon DEF A!Ask, Asking, Kept
<1>8. CASE kind \notin {"create", "change", "list"}
  <2>1. CallOf(t)' = CallOf(t)
    BY <1>3, <1>6, <1>8 DEF CallOf, A!Idle
  <2> QED
    BY <1>1, <1>4, <1>5, <2>1, Unseen
<1> QED
  BY <1>7, <1>8

\* The lock is not seen.
LEMMA LockIsNone ==
    ASSUME IInv, NEW t \in Callers, Lock(t)
    PROVE  UNCHANGED A!aggVars
<1>1. /\ task[t].at = "waiting" /\ task \in [Callers -> Task] /\ task[t].answer = "none"
      /\ UNCHANGED <<disk, told>>
  BY DEF Lock, IInv, TypeOK, CallSound
<1>2. /\ task'[t].at = "running" /\ task'[t].op = task[t].op /\ task'[t].answer = task[t].answer
      /\ task'[t].rows = task[t].rows
      /\ \A u \in Callers \ {t} : task'[u] = task[u]
  <2>1. PICK todo : task' = [task EXCEPT ![t] = [task[t] EXCEPT !.at = "running", !.todo = todo]]
    BY <1>1 DEF Lock
  <2>2. task[t] \in Task
    BY <1>1
  <2> QED  BY <1>1, <2>1, <2>2 DEF Task
<1>3. \A u \in Callers : CallOf(u)' = CallOf(u)
  BY <1>1, <1>2, SameCall
<1> QED
  BY <1>1, <1>3, KeptIsStill, Unseen

\* An answer about epics is an answer.
LEMMA AnswerIsOne ==
    ASSUME IInv, NEW t \in Callers, Answer(t)
    PROVE  A!Answer(t) \/ UNCHANGED A!aggVars
<1>1. /\ task[t].at = "answering" /\ task \in [Callers -> Task] /\ UNCHANGED disk
      /\ task' = [task EXCEPT ![t] = Idle]
  BY DEF Answer, IInv, TypeOK
<1>2. task'[t] = Idle /\ \A u \in Callers \ {t} : task'[u] = task[u]
  BY <1>1
<1>3. \A u \in Callers \ {t} : CallOf(u)' = CallOf(u)
  BY <1>2, SameCall
<1>4. CallOf(t)' = A!Idle
  BY <1>2, IdleIsATask DEF CallOf, A!Idle
<1>5. Kept' = Kept
  BY <1>1, KeptIsStill
<1>6. CASE OfEpics(t)
  <2>1. Asking' = [Asking EXCEPT ![t] = A!Idle]
    BY <1>3, <1>4, Asks
  <2>2. /\ Asking[t].at = "acted" /\ Asking[t].kind = task[t].op.kind
        /\ Asking[t].epic = task[t].op.epic /\ Asking[t].n = task[t].op.n
        /\ Asking[t].answer = task[t].answer
    BY <1>1, <1>6, CallOfIs DEF Asking
  <2>3. told' = IF Asking[t].answer = "done" /\ Asking[t].kind # "list"
                THEN [told EXCEPT ![Asking[t].epic] = @ \cup {Asking[t].n}] ELSE told
    <3>1. task[t].op.kind \in {"create", "change"} <=> task[t].op.kind # "list"
      BY <1>6 DEF OfEpics
    <3> QED  BY <2>2, <3>1 DEF Answer
  <2> QED
    BY <1>5, <2>1, <2>2, <2>3, Zenon DEF A!Answer, Asking, Kept
<1>7. CASE ~OfEpics(t)
  <2>1. CallOf(t)' = CallOf(t)
    BY <1>4, <1>7, CallOfIs
  <2>2. told' = told
    <3>1. task[t].op.kind \notin {"create", "change"}
      BY <1>1, <1>7 DEF OfEpics
    <3> QED  BY <3>1 DEF Answer
  <2> QED
    BY <1>3, <1>5, <2>1, <2>2, Unseen
<1> QED
  BY <1>6, <1>7

\* A death is a death.
LEMMA CrashIsOne ==
    ASSUME IInv, Crash
    PROVE  A!Crash
<1>1. task' = [t \in Callers |-> Idle] /\ UNCHANGED <<disk, told>>
  BY DEF Crash
<1>2. \A t \in Callers : CallOf(t)' = A!Idle
  BY <1>1, IdleIsATask DEF CallOf, A!Idle
<1>3. Asking' = [t \in Callers |-> A!Idle]
  BY <1>2 DEF Asking
<1>4. Kept' = Kept
  BY <1>1, KeptIsStill
<1> QED
  BY <1>1, <1>3, <1>4 DEF A!Crash, Asking, Kept

\* A statement in the middle of a stage is not seen, not even a commit.
LEMMA AdvancesIsNone ==
    ASSUME IInv, NEW t \in Callers, task[t].at = "running", Advances(t)
    PROVE  UNCHANGED A!aggVars
<1>1. /\ task'[t].at = "running" /\ task'[t].op = task[t].op /\ task'[t].answer = task[t].answer
      /\ \A u \in Callers \ {t} : task'[u] = task[u]
      /\ disk'.rows = disk.rows /\ told' = told
  BY DEF Advances, Moves, Filed
<1>2. task[t].answer # "done"
  BY DEF IInv, CallSound
<1>3. \A u \in Callers : CallOf(u)' = CallOf(u)
  BY <1>1, <1>2, SameCall
<1> QED
  BY <1>1, <1>3, KeptIsStill, Unseen

\* A refusal or a failure is one.
LEMMA GivesUpIsOne ==
    ASSUME IInv, NEW t \in Callers, task[t].at = "running", Refuses(t) \/ Fails(t)
    PROVE  A!Refuse(t) \/ UNCHANGED A!aggVars
<1>1. TypeOK /\ CallSound(t)
  BY HasTheLock
<1>2. PICK answer \in {"refused", "failed"} :
        /\ Leave(t, answer)
        /\ answer = "refused" => task[t].op.kind \in {"create", "change"}
  BY DEF Refuses, Fails
<1>3. UNCHANGED <<disk, told>>
  BY DEF Refuses, Fails
<1>4. /\ \A u \in Callers \ {t} : task'[u] = task[u]
      /\ task'[t].op = task[t].op /\ task'[t].at = "answering" /\ task'[t].answer = answer
      /\ task'[t].rows = task[t].rows
  BY <1>1, <1>2, LeaveIs
<1>5. Kept' = Kept
  BY <1>3, KeptIsStill
<1>6. CASE OfEpics(t)
  <2>1. A!Acts(t, answer, Nothing)
    BY <1>2, <1>4, <1>6, Acting
  <2>2. Asking[t].at = "asked" /\ Asking[t].kind = task[t].op.kind
    BY <1>6, CallOfIs DEF Asking
  <2>3. answer = "refused" => Asking[t].kind # "list"
    BY <1>2, <2>2
  <2>4. (Asking[t].kind # "list" /\ A!Acts(t, "refused", Nothing)) \/ A!Acts(t, "failed", Nothing)
    BY <2>1, <2>3
  <2> QED
    BY <1>3, <1>5, <2>2, <2>4, Zenon DEF A!Refuse, Asking, Kept
<1>7. CASE ~OfEpics(t)
  <2>1. CallOf(t) = A!Idle
    BY <1>7, CallOfIs
  <2>2. ~OfEpics(t)'
    BY <1>4, <1>7 DEF OfEpics
  <2>3. CallOf(t)' = A!Idle
    BY <2>2 DEF OfEpics, CallOf, A!Idle
  <2>4. \A u \in Callers \ {t} : CallOf(u)' = CallOf(u)
    BY <1>4, SameCall
  <2>5. \A u \in Callers : CallOf(u)' = CallOf(u)
    BY <2>1, <2>3, <2>4
  <2> QED
    BY <1>3, <1>5, <2>5, Unseen
<1> QED
  BY <1>6, <1>7

\* The last statement of a stage creates, changes or lists, or is not seen.
LEMMA FinishesIsOne ==
    ASSUME IInv, NEW t \in Callers, task[t].at = "running", Finishes(t)
    PROVE  A!Create(t) \/ A!Change(t) \/ A!List(t) \/ UNCHANGED A!aggVars
<1> DEFINE op == task[t].op
           next == task[t].stage < Len(Stages(op))
<1>1. /\ TypeOK /\ FileSound /\ Creations /\ CallSound(t) /\ op \in Op
      /\ op.kind \in KindNames /\ task[t].answer = "none" /\ op.epic \in Epics
      /\ task[t].stage \in {1, 2}
  BY HasTheLock, CodeIs DEF CallSound, Op, TypeOK, Task
<1>2. /\ Leave(t, "done") /\ told' = told /\ Effect(t) /\ disk' \in Database /\ FileSound'
  BY DEF Finishes
<1>3. /\ \A u \in Callers \ {t} : task'[u] = task[u]
      /\ task'[t].op = op /\ task'[t].rows = task[t].rows
      /\ IF next THEN /\ task'[t].at = "waiting" /\ task'[t].answer = "none"
                      /\ task[t].stage = 1 /\ Len(Stages(op)) = 2
         ELSE task'[t].at = "answering" /\ task'[t].answer = "done"
  BY <1>1, <1>2, LeaveIs
<1>4. \A u \in Callers \ {t} : CallOf(u)' = CallOf(u)
  BY <1>3, SameCall
<1>5. Kept = [e \in Epics |-> disk.rows["epics"][e]] /\ Kept' = [e \in Epics |-> disk'.rows["epics"][e]]
  <2>1. \A p \in PartNames, e \in Epics : disk'.rows[p][e] = disk'.rows["epics"][e]
    BY <1>2 DEF FileSound
  <2>2. \A e \in Epics : Whole(disk.rows, e)' = disk'.rows["epics"][e]
    BY <2>1 DEF Whole
  <2> QED  BY <1>1, <2>2, KeptIs DEF Kept
<1>6. CASE ~OfEpics(t)
  <2>1. CallOf(t) = A!Idle /\ CallOf(t)' = A!Idle
    <3>1. ~OfEpics(t)'
      BY <1>3, <1>6 DEF OfEpics
    <3> QED  BY <1>6, <3>1, CallOfIs DEF OfEpics, CallOf, A!Idle
  <2>2. disk'.rows = disk.rows
    <3>1. op.kind \notin {"create", "change"}
      BY <1>6 DEF OfEpics
    <3> QED  BY <1>2, <3>1 DEF Effect
  <2>3. \A u \in Callers : CallOf(u)' = CallOf(u)
    BY <1>4, <2>1
  <2> QED
    BY <1>2, <2>2, <2>3, KeptIsStill, Unseen
<1>7. CASE OfEpics(t) /\ next
  <2>1. op.kind = "create" /\ task[t].stage = 1
    BY <1>3, <1>7, StagesAre DEF OfEpics
  <2>2. disk'.rows = disk.rows
    BY <1>2, <2>1 DEF Effect
  <2>3. CallOf(t)' = CallOf(t)
    BY <1>1, <1>3, <1>7, SameCall
  <2>4. \A u \in Callers : CallOf(u)' = CallOf(u)
    BY <1>4, <2>3
  <2> QED
    BY <1>2, <2>2, <2>4, KeptIsStill, Unseen
<1>8. CASE OfEpics(t) /\ ~next
  <2>1. /\ Asking[t].at = "asked" /\ Asking[t].kind = op.kind /\ Asking[t].epic = op.epic
        /\ Asking[t].n = op.n
    BY <1>8, CallOfIs DEF Asking
  <2>2. ASSUME op.kind \in {"create", "change"}
        PROVE  A!Acts(t, "done", Nothing)
    BY <1>3, <1>8, <2>2, Acting
  <2>3. ASSUME \A e \in Epics :
                  disk'.rows["epics"][e] = IF e = op.epic THEN Written(op) ELSE disk.rows["epics"][e]
        PROVE  Kept' = [Kept EXCEPT ![op.epic] = Written(op)]
    BY <1>1, <1>5, <2>3
  <2>4. CASE op.kind = "create"
    <3>1. task[t].stage = 2
      BY <1>1, <1>8, <2>4, StagesAre
    <3>2. disk.rows["epics"][op.epic] = NoEpic
      BY <1>1, <2>4 DEF Creations
    <3>3. \A e \in Epics :
             disk'.rows["epics"][e] = IF e = op.epic THEN Written(op) ELSE disk.rows["epics"][e]
      BY <1>2, <2>4, <3>1, PartsAre DEF Effect
    <3>4. Kept' = [Kept EXCEPT ![op.epic] = {op.n}] /\ Kept[op.epic] = NoEpic
      BY <1>1, <1>5, <2>3, <2>4, <3>2, <3>3 DEF Written
    <3>5. A!Acts(t, "done", Nothing)
      BY <2>2, <2>4
    <3> QED
      BY <1>2, <2>1, <2>4, <3>4, <3>5, Zenon DEF A!Create, Asking, Kept
  <2>5. CASE op.kind = "change"
    <3>1. disk.rows["epics"][op.epic] # NoEpic
      BY <1>2, <2>5 DEF Effect
    <3>2. \A e \in Epics :
             disk'.rows["epics"][e] = IF e = op.epic THEN Written(op) ELSE disk.rows["epics"][e]
      BY <1>2, <2>5, PartsAre DEF Effect
    <3>3. Written(op) = Kept[op.epic] \cup {op.n}
      BY <1>1, <1>5, <2>5 DEF Written
    <3>4. Kept' = [Kept EXCEPT ![op.epic] = Kept[op.epic] \cup {op.n}] /\ Kept[op.epic] # NoEpic
      BY <1>1, <1>5, <2>3, <3>1, <3>2, <3>3
    <3>5. A!Acts(t, "done", Nothing)
      BY <2>2, <2>5
    <3> QED
      BY <1>2, <2>1, <2>5, <3>4, <3>5, Zenon DEF A!Change, Asking, Kept
  <2>6. CASE op.kind = "list"
    <3>1. \A p \in PartNames, e \in Epics : task[t].rows[p][e] = disk.rows[p][e]
      BY <1>2, <2>6 DEF Effect
    <3>2. \A e \in Epics : Whole(task'[t].rows, e) = disk.rows["epics"][e]
      <4> TAKE e \in Epics
      <4>1. \A p \in PartNames : task'[t].rows[p][e] = disk.rows["epics"][e]
        <5> TAKE p \in PartNames
        <5>1. disk.rows[p] = disk.rows["epics"]
          BY <1>1 DEF FileSound
        <5>2. task'[t].rows[p][e] = disk.rows[p][e]
          BY <1>3, <3>1
        <5> QED  BY <5>1, <5>2, Zenon
      <4> QED  BY <4>1, PartsAre DEF Whole
    <3>3. Kept = [e \in Epics |-> Whole(task'[t].rows, e)]
      BY <1>5, <3>2
    <3>4. A!Acts(t, "done", Kept)
      BY <1>3, <1>8, <2>6, <3>3, Acting
    <3>5. Kept' = Kept
      BY <1>2, <2>6, KeptIsStill DEF Effect
    <3> QED
      BY <1>2, <2>1, <2>6, <3>4, <3>5, Zenon DEF A!List, Asking, Kept
  <2> QED
    BY <1>8, <2>4, <2>5, <2>6 DEF OfEpics
<1> QED
  BY <1>6, <1>7, <1>8

\* A step of the store is one of the abstract store's, or none it sees.
LEMMA StepIsOne == IInv /\ [Next]_vars => [A!Next]_(A!aggVars)
<1> SUFFICES ASSUME IInv, [Next]_vars
             PROVE  A!Next \/ UNCHANGED A!aggVars
  OBVIOUS
<1>1. CASE UNCHANGED vars
  <2>1. Kept' = Kept /\ told' = told /\ \A t \in Callers : CallOf(t)' = CallOf(t)
    BY <1>1, KeptIsStill, SameCall DEF vars
  <2> QED  BY <2>1, Unseen
<1>2. ASSUME NEW t \in Callers, Ask(t)
      PROVE  A!Next \/ UNCHANGED A!aggVars
  BY <1>2, AskIsOne DEF A!Next
<1>3. ASSUME NEW t \in Callers, Lock(t)
      PROVE  UNCHANGED A!aggVars
  BY <1>3, LockIsNone
<1>4. ASSUME NEW t \in Callers, Statement(t)
      PROVE  A!Next \/ UNCHANGED A!aggVars
  <2>1. task[t].at = "running"
    BY <1>4, WhatRuns DEF Fails
  <2>2. Advances(t) \/ Finishes(t) \/ Refuses(t) \/ Fails(t)
    BY <1>4, <2>1, HasTheLock, StatementRuns
  <2>3. \/ A!Create(t) \/ A!Change(t) \/ A!List(t) \/ A!Refuse(t)
        \/ UNCHANGED A!aggVars
    BY <2>1, <2>2, AdvancesIsNone, FinishesIsOne, GivesUpIsOne
  <2> QED  BY <2>3 DEF A!Next
<1>5. ASSUME NEW t \in Callers, Answer(t)
      PROVE  A!Next \/ UNCHANGED A!aggVars
  BY <1>5, AnswerIsOne DEF A!Next
<1>6. CASE Crash
  BY <1>6, CrashIsOne DEF A!Next
<1> QED
  BY <1>1, <1>2, <1>3, <1>4, <1>5, <1>6 DEF Next

\* The store whose calls are statements, any of which may fail and after any of
\* which the daemon may die, is the store whose epics are created, changed and
\* listed in single steps (repository.go:186-210, store.go:411-422).
THEOREM CallsAreSingleSteps == Spec => OneStep
<1>1. Init => A!Init
  BY InitIsOfOneStep
<1>2. IInv /\ [Next]_vars => [A!Next]_(A!aggVars)
  BY StepIsOne
<1> QED
  BY <1>1, <1>2, Soundness, PTL DEF Spec, OneStep, A!Spec

-----------------------------------------------------------------------------
(* What Aggregates promises, of the file.                                   *)

P == INSTANCE AggregatesProofs WITH
    Calls <- Call,
    store <- [e \in Epics |-> Whole(disk.rows, e)],
    call <- [t \in Callers |-> CallOf(t)]

\* The abstract store is the one AggregatesProofs is about.
LEMMA SameStore ==
    /\ A!Init => P!Init
    /\ A!Next => P!Next
    /\ UNCHANGED A!aggVars => UNCHANGED P!aggVars
<1>1. A!Init => P!Init
  BY Zenon DEF A!Init, P!Init, A!Idle, P!Idle
<1>2. UNCHANGED A!aggVars => UNCHANGED P!aggVars
  BY Zenon DEF A!aggVars, P!aggVars
<1>3. ASSUME NEW t \in Callers
      PROVE  /\ A!Ask(t) => P!Ask(t)
             /\ A!Create(t) => P!Create(t)
             /\ A!Change(t) => P!Change(t)
             /\ A!List(t) => P!List(t)
             /\ A!Refuse(t) => P!Refuse(t)
             /\ A!Answer(t) => P!Answer(t)
  <2>1. A!Ask(t) => P!Ask(t)
    BY Zenon DEF A!Ask, P!Ask, A!Idle, P!Idle
  <2>2. A!Create(t) => P!Create(t)
    BY Zenon DEF A!Create, P!Create, A!Acts, P!Acts
  <2>3. A!Change(t) => P!Change(t)
    BY Zenon DEF A!Change, P!Change, A!Acts, P!Acts
  <2>4. A!List(t) => P!List(t)
    BY Zenon DEF A!List, P!List, A!Acts, P!Acts
  <2>5. A!Refuse(t) => P!Refuse(t)
    BY Zenon DEF A!Refuse, P!Refuse, A!Acts, P!Acts
  <2>6. A!Answer(t) => P!Answer(t)
    BY Zenon DEF A!Answer, P!Answer, A!Idle, P!Idle
  <2> QED  BY <2>1, <2>2, <2>3, <2>4, <2>5, <2>6
<1>4. A!Crash => P!Crash
  BY Zenon DEF A!Crash, P!Crash, A!Idle, P!Idle
<1> QED
  BY <1>1, <1>2, <1>3, <1>4 DEF A!Next, P!Next

\* What a caller was told is done is in the file, and a list has in it what had been
\* told, whatever other callers did, failed to do or died of (repository.go:186-210).
THEOREM FileKeepsWhatIsTold == Spec => [](P!ToldIsKept /\ P!ListIsFresh)
<1>1. NoEpic \notin SUBSET Call
  BY StoreConstants DEF Call
<1>2. Init => P!IInv
  BY InitIsOfOneStep, SameStore, P!Initially
<1>3. IInv /\ P!IInv /\ [Next]_vars => P!IInv'
  <2> SUFFICES ASSUME IInv, P!IInv, [Next]_vars
               PROVE  P!IInv'
    OBVIOUS
  <2>1. P!Next \/ UNCHANGED P!aggVars
    BY StepIsOne, SameStore
  <2> QED  BY <1>1, <2>1, P!Inductive
<1>4. P!IInv => P!ToldIsKept /\ P!ListIsFresh
  BY DEF P!IInv
<1> QED
  BY <1>2, <1>3, <1>4, Soundness, PTL DEF Spec
=============================================================================
