----------------------------- MODULE WorkerProofs -----------------------------
(***************************************************************************)
(* What Worker promises, proved for any number of projects and subjects and *)
(* any limits.                                                              *)
(***************************************************************************)
EXTENDS Worker, TLAPS, FiniteSetTheorems

Places == 1..Len(results)

\* A subject has a goroutine, or one result on its way, or neither; and it is in
\* flight while it has either.
Flights ==
    /\ \A i, j \in Places : results[i].subject = results[j].subject => i = j
    /\ \A i \in Places : results[i].subject \in inflight
    /\ \A s \in Subjects : rounds[s].at # "none" =>
          s \in inflight /\ \A i \in Places : results[i].subject # s
    /\ \A s \in inflight : cancelled \/ rounds[s].at # "none" \/ \E i \in Places : results[i].subject = s

\* A failure is in a round's answer until it is a hold.
Sores ==
    /\ \A s \in inflight : retries[s].held = "no"
    /\ \A s \in Subjects : rounds[s].at = "running" \/ (rounds[s].at = "sending" /\ rounds[s].err = "none")
                              => ~sore[s]
    /\ \A i \in Places : results[i].err = "none" => ~sore[results[i].subject]
    /\ \A s \in Subjects : sore[s] /\ s \notin inflight => retries[s].held # "no"

\* What a tick has read, and how that stays true while rounds go on beside it.
Ticks ==
    /\ tick.project \notin tick.todo
    /\ tick.at \in {"reconcile", "dispatch"} <=> tick.project # NoProject
    /\ tick.ready \subseteq In(tick.project)
    /\ tick.at \in {"projects", "reconcile", "dispatch"} => recovered
    /\ ~recovered => \A s \in Subjects : rounds[s].at = "none"
    /\ tick.at = "reconcile" =>
          \A s \in In(tick.project) : rounds[s].at = "running" => s \in tick.spared
    /\ tick.recovering =>
          \A s \in Subjects : rounds[s].at # "none" =>
             /\ ProjectOf[s] \notin tick.todo
             /\ tick.at = "reconcile" => ProjectOf[s] # tick.project
    /\ tick.at = "returned" => Idle

IInv == TypeOK /\ Flights /\ Sores /\ Ticks /\ SlotsHonest
-----------------------------------------------------------------------------
(* The tick *)

\* What the scheduler does to its own tick changes no round and no answer; it is
\* enough that what it then believes is so.
LEMMA TickStep ==
    ASSUME IInv, UNCHANGED <<inflight, retries, channels, rounds, left, cancelled, history>>,
           tick' \in Tick, recovered' \in BOOLEAN, events' \in 0..MaxEvents, Ticks'
    PROVE  IInv'
<1>1. TypeOK'
  BY DEF IInv, TypeOK, Ticks, channels, history
<1>2. Flights' /\ Sores' /\ SlotsHonest'
  BY DEF IInv, Flights, Sores, SlotsHonest, Places, channels, history
<1>3. QED
  BY <1>1, <1>2 DEF IInv

\* The bound on failures and moves is kept.
LEMMA Spent == IInv /\ (Spend \/ UNCHANGED events) => events' \in 0..MaxEvents
BY WorkerLimits DEF IInv, TypeOK, Spend

\* A tick that has read nothing is about no project.
LEMMA IdleTicks ==
    ASSUME NEW at \in {"drain", "projects", "select", "waiting", "returned"}
    PROVE  /\ IdleTick(at) \in Tick
           /\ IdleTick(at).at = at /\ IdleTick(at).project = NoProject
           /\ IdleTick(at).todo = {} /\ IdleTick(at).ready = {} /\ ~IdleTick(at).recovering
BY DEF IdleTick, Tick

\* Run's own steps between two hand-outs of rounds.
LEMMA RunTicks ==
    ASSUME IInv,
           \/ StartTick \/ ListProjects \/ Reconciled \/ ProjectDone \/ TickDone \/ Stop \/ Return
           \/ \E p \in Projects : ReadEpics(p)
    PROVE  IInv'
<1>0. /\ tick \in Tick /\ recovered \in BOOLEAN /\ Ticks /\ Flights
      /\ inflight \subseteq Subjects /\ events \in 0..MaxEvents
      /\ NoProject \notin Projects
      /\ IdleTick("projects") \in Tick
  BY WorkerLimits, IdleTicks DEF IInv, TypeOK
<1>1. CASE StartTick \/ TickDone \/ Stop
  <2>1. PICK at \in {"drain", "select", "waiting"} : tick' = IdleTick(at)
    BY <1>1 DEF StartTick, TickDone, Stop
  <2>2. UNCHANGED <<recovered, inflight, retries, channels, rounds, left, cancelled, events, history>>
    BY <1>1 DEF StartTick, TickDone, Stop
  <2>3. tick' \in Tick /\ Ticks'
    BY <1>0, <2>1, <2>2, IdleTicks DEF Ticks, In
  <2>4. QED
    BY <1>0, <2>2, <2>3, TickStep
<1>2. CASE Return
  <2>1. tick' = IdleTick("returned") /\ Idle
        /\ UNCHANGED <<recovered, inflight, retries, channels, rounds, left, cancelled, events, history>>
    BY <1>2 DEF Return, MayReturn
  <2>2. tick' \in Tick /\ Ticks'
    BY <1>0, <2>1, IdleTicks DEF Ticks, In, Idle
  <2>3. QED
    BY <1>0, <2>1, <2>2, TickStep
<1>3. CASE ListProjects
  <2>1. CASE tick' = IdleTick("select") /\ UNCHANGED recovered
    <3>1. tick' \in Tick /\ Ticks'
      BY <1>0, <1>3, <2>1, IdleTicks DEF Ticks, In, ListProjects
    <3>2. QED
      BY <1>0, <1>3, <2>1, <3>1, TickStep, Spent DEF ListProjects
  <2>2. CASE /\ tick' = [IdleTick("projects") EXCEPT !.todo = Projects, !.recovering = ~recovered]
             /\ recovered' = TRUE
    <3>1. /\ tick' \in Tick
          /\ tick'.at = "projects" /\ tick'.project = NoProject /\ tick'.todo = Projects
          /\ tick'.ready = {} /\ tick'.recovering = ~recovered
      BY <1>0, <2>2 DEF IdleTick, Tick
    <3>2. Ticks'
      BY <1>0, <1>3, <2>2, <3>1 DEF Ticks, In, ListProjects
    <3>3. QED
      BY <1>0, <1>3, <2>2, <3>1, <3>2, TickStep, Spent DEF ListProjects
  <2>3. QED
    BY <1>3, <2>1, <2>2 DEF ListProjects
<1>4. CASE \E p \in Projects : ReadEpics(p)
  <2>1. PICK p \in Projects : ReadEpics(p)
    BY <1>4
  <2>2. CASE tick' = [tick EXCEPT !.todo = @ \ {p}]
    <3>1. /\ tick' \in Tick
          /\ tick'.at = "projects" /\ tick'.project = tick.project /\ tick'.todo = tick.todo \ {p}
          /\ tick'.ready = tick.ready /\ tick'.recovering = tick.recovering
      BY <1>0, <2>1, <2>2 DEF Tick, ReadEpics
    <3>2. Ticks'
      BY <1>0, <2>1, <3>1 DEF Ticks, In, ReadEpics
    <3>3. QED
      BY <1>0, <2>1, <3>1, <3>2, TickStep, Spent DEF ReadEpics
  <2>3. CASE tick' = [tick EXCEPT !.at = "reconcile", !.project = p, !.todo = @ \ {p},
                                  !.ready = {s \in In(p) : left[s] > 0},
                                  !.spared = inflight \cap In(p)]
    <3>1. /\ tick' \in Tick
          /\ tick'.at = "reconcile" /\ tick'.project = p /\ tick'.todo = tick.todo \ {p}
          /\ tick'.ready \subseteq In(p) /\ tick'.recovering = tick.recovering
          /\ tick'.spared = inflight \cap In(p)
      BY <1>0, <2>1, <2>3 DEF Tick, ReadEpics, In
    <3>2. \A s \in In(p) : rounds[s].at = "running" => s \in inflight \cap In(p)
      BY <1>0 DEF Flights, In
    <3>3. Ticks'
      BY <1>0, <2>1, <3>1, <3>2 DEF Ticks, In, ReadEpics
    <3>4. QED
      BY <1>0, <2>1, <3>1, <3>3, TickStep, Spent DEF ReadEpics
  <2>4. QED
    BY <2>1, <2>2, <2>3 DEF ReadEpics
<1>5. CASE Reconciled
  <2> DEFINE still == {s \in In(tick.project) :
                         IF s \in EpicSubjects THEN s \in tick.ready ELSE left[s] > 0}
  <2>1. PICK unreconciled \in SUBSET tick.ready :
           tick' = [tick EXCEPT !.at = "dispatch", !.ready = still \ unreconciled, !.spared = {}]
    BY <1>5 DEF Reconciled
  <2>2. still \subseteq In(tick.project) /\ still \subseteq Subjects
    BY DEF In
  <2> HIDE DEF still
  <2>3. /\ tick' \in Tick
        /\ tick'.at = "dispatch" /\ tick'.project = tick.project /\ tick'.todo = tick.todo
        /\ tick'.ready \subseteq In(tick.project) /\ tick'.recovering = tick.recovering
    BY <1>0, <2>1, <2>2 DEF Tick
  <2>4. tick.at = "reconcile" /\ UNCHANGED <<recovered, rounds>>
    BY <1>5 DEF Reconciled
  <2>5. Ticks'
    BY <1>0, <2>3, <2>4 DEF Ticks, In
  <2>6. QED
    BY <1>0, <1>5, <2>3, <2>5, TickStep, Spent DEF Reconciled
<1>6. CASE ProjectDone
  <2>1. /\ tick' \in Tick
        /\ tick'.at = "projects" /\ tick'.project = NoProject /\ tick'.todo = tick.todo
        /\ tick'.ready = {} /\ tick'.recovering = tick.recovering
    BY <1>0, <1>6 DEF ProjectDone, Tick
  <2>2. Ticks'
    BY <1>0, <1>6, <2>1 DEF Ticks, In, ProjectDone, Tick
  <2>3. QED
    BY <1>0, <1>6, <2>1, <2>2, TickStep DEF ProjectDone
<1>7. QED
  BY <1>1, <1>2, <1>3, <1>4, <1>5, <1>6
-----------------------------------------------------------------------------
(* Results and rounds *)

\* What is left of a queue when its head is taken.
LEMMA Taken ==
    ASSUME NEW q \in Seq(Result), q # <<>>
    PROVE  /\ Tail(q) \in Seq(Result) /\ Head(q) \in Result
           /\ Len(q) \in Nat \ {0} /\ Len(Tail(q)) = Len(q) - 1
           /\ Head(q) = q[1]
           /\ \A i \in 1..Len(Tail(q)) : i + 1 \in 1..Len(q) /\ i + 1 # 1 /\ Tail(q)[i] = q[i + 1]
           /\ \A j \in 1..Len(q) : j = 1 \/ (j - 1 \in 1..Len(Tail(q)) /\ Tail(q)[j - 1] = q[j])
OBVIOUS

\* Hearing a result ends its subject's flight and books a failure as a hold
\* (EpicWorker.record).
LEMMA HearStep ==
    ASSUME IInv, Hear \/ Drain
    PROVE  IInv'
<1> DEFINE q == Tail(results)
           h == Head(results)
<1>1. /\ results \in Seq(Result) /\ results # <<>>
      /\ results' = q
      /\ Record(h)
      /\ UNCHANGED <<tick, recovered, slots, rounds, left, cancelled, events, history>>
  BY DEF IInv, TypeOK, Hear, Drain
<1>2. /\ q \in Seq(Result) /\ h \in Result /\ h = results[1]
      /\ 1 \in Places
      /\ Len(q) = Len(results) - 1 /\ Len(results) \in Nat \ {0}
      /\ \A i \in 1..Len(q) : i + 1 \in Places /\ i + 1 # 1 /\ q[i] = results[i + 1]
      /\ \A j \in Places : j = 1 \/ (j - 1 \in 1..Len(q) /\ q[j - 1] = results[j])
  BY <1>1, Taken DEF Places
<1> HIDE DEF q, h
<1>3. /\ h.subject \in Subjects /\ h.err \in Errors
      /\ inflight' = inflight \ {h.subject}
      /\ retries' = [retries EXCEPT ![h.subject] =
                       IF h.err = "none" THEN NoRetry ELSE Booked(@, h.err)]
  BY <1>1, <1>2 DEF Record, Result
<1>4. retries \in [Subjects -> [hostFailures : Nat, held : {"no", "backoff", "cooldown"}]]
  BY DEF IInv, TypeOK
<1>5. \A held \in [hostFailures : Nat, held : {"no", "backoff", "cooldown"}] :
        /\ Booked(held, h.err) \in [hostFailures : Nat, held : {"no", "backoff", "cooldown"}]
        /\ Booked(held, h.err).held # "no"
  BY DEF Booked
<1>6. /\ retries' \in [Subjects -> [hostFailures : Nat, held : {"no", "backoff", "cooldown"}]]
      /\ h.err # "none" => retries'[h.subject].held # "no"
      /\ \A s \in Subjects : s # h.subject => retries'[s] = retries[s]
  BY <1>3, <1>4, <1>5 DEF NoRetry
<1>7. TypeOK'
  BY <1>1, <1>2, <1>3, <1>6 DEF IInv, TypeOK, history
<1>8. Places' = 1..Len(q) /\ results' = q
  BY <1>1 DEF Places
<1>9. \A i \in 1..Len(q) : q[i].subject # h.subject
  BY <1>2 DEF IInv, Flights
<1>10. Flights'
  <2>0. /\ \A i, j \in Places : results[i].subject = results[j].subject => i = j
        /\ \A i \in Places : results[i].subject \in inflight
    BY DEF IInv, Flights
  <2>1. /\ \A i, j \in 1..Len(q) : q[i].subject = q[j].subject => i = j
        /\ \A i \in 1..Len(q) : q[i].subject \in inflight'
    <3>1. \A i, j \in 1..Len(q) : q[i].subject = q[j].subject => i = j
      <4> SUFFICES ASSUME NEW i \in 1..Len(q), NEW j \in 1..Len(q), q[i].subject = q[j].subject
                   PROVE  i = j
        OBVIOUS
      <4>1. /\ i + 1 \in Places /\ q[i] = results[i + 1]
            /\ j + 1 \in Places /\ q[j] = results[j + 1]
        BY <1>2
      <4>2. results[i + 1].subject = results[j + 1].subject
        BY <4>1
      <4>3. i + 1 = j + 1
        BY <2>0, <4>1, <4>2, Zenon
      <4>4. QED
        BY <4>3
    <3>2. \A i \in 1..Len(q) : q[i].subject \in inflight
      BY <1>2, <2>0
    <3>3. QED
      BY <1>3, <1>9, <3>1, <3>2
  <2>2. \A s \in Subjects : rounds[s].at # "none" =>
           s \in inflight' /\ \A i \in 1..Len(q) : q[i].subject # s
    BY <1>2, <1>3 DEF IInv, Flights
  <2>3. \A s \in inflight' :
           cancelled \/ rounds[s].at # "none" \/ \E i \in 1..Len(q) : q[i].subject = s
    BY <1>2, <1>3 DEF IInv, Flights
  <2>4. QED
    BY <1>1, <1>8, <2>1, <2>2, <2>3 DEF Flights
<1>11. Sores'
  <2>1. \A s \in inflight' : retries'[s].held = "no"
    BY <1>3, <1>6 DEF IInv, Sores, TypeOK
  <2>2. \A i \in 1..Len(q) : q[i].err = "none" => ~sore[q[i].subject]
    <3>1. \A i \in Places : results[i].err = "none" => ~sore[results[i].subject]
      BY DEF IInv, Sores
    <3>2. ASSUME NEW i \in 1..Len(q), q[i].err = "none"
          PROVE  ~sore[q[i].subject]
      <4>1. i + 1 \in Places /\ q[i] = results[i + 1]
        BY <1>2
      <4>2. results[i + 1].err = "none"
        BY <3>2, <4>1
      <4>3. QED
        BY <3>1, <4>1, <4>2, Zenon
    <3>3. QED
      BY <3>2
  <2>3. \A s \in Subjects : sore[s] /\ s \notin inflight' => retries'[s].held # "no"
    BY <1>2, <1>3, <1>6 DEF IInv, Sores, Errors
  <2>4. QED
    BY <1>1, <1>8, <2>1, <2>2, <2>3 DEF IInv, Sores, history
<1>12. Ticks' /\ SlotsHonest'
  BY <1>1 DEF IInv, Ticks, SlotsHonest, Idle
<1>13. QED
  BY <1>7, <1>10, <1>11, <1>12 DEF IInv

\* How many rounds are running when one more does, or one less.
LEMMA Counted ==
    ASSUME NEW A, NEW s, IsFiniteSet(A)
    PROVE  /\ s \notin A => Cardinality(A \cup {s}) = Cardinality(A) + 1
           /\ s \in A => Cardinality(A \ {s}) = Cardinality(A) - 1 /\ Cardinality(A) > 0
           /\ Cardinality(A) \in Nat
<1>1. Cardinality(A) \in Nat
  BY FS_CardinalityType
<1>2. s \notin A => Cardinality(A \cup {s}) = Cardinality(A) + 1
  BY FS_AddElement
<1>3. s \in A => Cardinality(A \ {s}) = Cardinality(A) - 1
  BY FS_RemoveElement
<1>4. s \in A => Cardinality(A) # 0
  BY FS_EmptySet
<1>5. QED
  BY <1>1, <1>2, <1>3, <1>4

Running == {s \in Subjects : rounds[s].at = "running"}

\* Handing out a round marks its subject in flight and takes it a slot
\* (EpicWorker.dispatch).
LEMMA DispatchStep ==
    ASSUME IInv, NEW s \in Subjects, Dispatch(s)
    PROVE  IInv'
<1>1. /\ tick \in Tick /\ Ticks /\ tick.at = "dispatch" /\ s \in tick.ready
      /\ tick' = [tick EXCEPT !.ready = @ \ {s}]
      /\ UNCHANGED <<recovered, retries, results, left, cancelled, events, history>>
  BY DEF IInv, TypeOK, Dispatch
<1>2. /\ tick' \in Tick
      /\ tick'.at = "dispatch" /\ tick'.project = tick.project /\ tick'.todo = tick.todo
      /\ tick'.ready \subseteq tick.ready /\ tick'.recovering = tick.recovering
  BY <1>1 DEF Tick
<1>3. ProjectOf[s] = tick.project
  BY <1>1 DEF Ticks, In
<1>4. CASE UNCHANGED <<rounds, slots, inflight>>
  <2>1. TypeOK'
    BY <1>1, <1>2, <1>4 DEF IInv, TypeOK, history
  <2>2. Ticks'
    BY <1>1, <1>2, <1>4 DEF Ticks, Idle, In
  <2>3. Flights' /\ Sores' /\ SlotsHonest'
    BY <1>1, <1>4 DEF IInv, Flights, Sores, SlotsHonest, Places, history
  <2>4. QED
    BY <2>1, <2>2, <2>3 DEF IInv
<1>5. CASE Free(s) /\ slots < maxConcurrentRounds /\ Start(s)
  <2>1. /\ rounds \in [Subjects -> [at : {"none", "running", "sending"}, err : Errors]]
        /\ rounds' = [rounds EXCEPT ![s] = [at |-> "running", err |-> "none"]]
        /\ inflight' = inflight \cup {s}
        /\ slots' = slots + 1
        /\ s \notin inflight /\ retries[s].held = "no"
        /\ \A i \in Places : results[i].subject # s
        /\ rounds[s].at = "none"
    BY <1>5 DEF IInv, TypeOK, Start, Free, Flights
  <2>2. TypeOK'
    BY <1>1, <1>2, <2>1 DEF IInv, TypeOK, Errors, history
  <2>3. Places' = Places /\ results' = results
    BY <1>1 DEF Places
  <2>4. Flights'
    BY <1>1, <2>1, <2>3 DEF IInv, Flights
  <2>5. ~sore[s]
    BY <2>1 DEF IInv, Sores
  <2>6. Sores'
    BY <1>1, <2>1, <2>3, <2>5 DEF IInv, Sores, history
  <2>7. Ticks'
    BY <1>1, <1>2, <1>3, <2>1 DEF Ticks, In
  <2>8. SlotsHonest'
    <3>1. Running' = Running \cup {s} /\ s \notin Running
      BY <2>1 DEF Running
    <3>2. IsFiniteSet(Running)
      BY FS_Subset, WorkerLimits DEF Running
    <3>3. slots = Cardinality(Running) /\ slots \in Nat
      BY DEF IInv, TypeOK, SlotsHonest, Running
    <3>4. slots' = Cardinality(Running')
      BY <2>1, <3>1, <3>2, <3>3, Counted
    <3>5. QED
      BY <1>5, <2>1, <3>3, <3>4, WorkerLimits DEF SlotsHonest, Running
  <2>9. QED
    BY <2>2, <2>4, <2>6, <2>7, <2>8 DEF IInv
<1>6. QED
  BY <1>4, <1>5 DEF Dispatch

\* A round ends, and frees its slot before it answers (EpicWorker.run).
LEMMA EndStep ==
    ASSUME IInv, NEW s \in Subjects, RoundEnds(s)
    PROVE  IInv'
<1>1. PICK err \in Errors, hurt \in BOOLEAN, row \in {0, hostRow[s] + 1},
           rest \in {left, [left EXCEPT ![s] = IF @ > 0 THEN @ - 1 ELSE 0]} :
        /\ rounds' = [rounds EXCEPT ![s] = [at |-> "sending", err |-> err]]
        /\ sore' = [sore EXCEPT ![s] = hurt]
        /\ err = "none" => ~hurt
        /\ hostRow' = [hostRow EXCEPT ![s] = row]
        /\ left' = rest
        /\ Spend \/ UNCHANGED events
  BY Zenon DEF RoundEnds, Errors, HostError
<1>2. /\ rounds[s].at = "running" /\ slots' = slots - 1
      /\ UNCHANGED <<tick, recovered, inflight, retries, results, cancelled>>
  BY DEF RoundEnds, SlotsAfter, scheduler
<1>3. /\ rounds \in [Subjects -> [at : {"none", "running", "sending"}, err : Errors]]
      /\ sore \in [Subjects -> BOOLEAN] /\ hostRow \in [Subjects -> Nat]
      /\ left \in [Subjects -> Nat] /\ slots \in Nat
  BY DEF IInv, TypeOK
<1>4. Running' = Running \ {s} /\ s \in Running /\ slots = Cardinality(Running)
  BY <1>1, <1>2, <1>3 DEF Running, IInv, SlotsHonest
<1>5. IsFiniteSet(Running)
  BY FS_Subset, WorkerLimits DEF Running
<1>6. slots' = Cardinality(Running') /\ slots' \in Nat
  BY <1>2, <1>3, <1>4, <1>5, Counted
<1>7. SlotsHonest'
  BY <1>2, <1>3, <1>6, WorkerLimits DEF IInv, SlotsHonest, Running
<1>8. TypeOK'
  <2>1. rest \in [Subjects -> Nat]
    BY <1>1, <1>3
  <2>2. row \in Nat
    BY <1>1, <1>3
  <2>3. events' \in 0..MaxEvents
    BY <1>1, Spent
  <2>4. QED
    BY <1>1, <1>2, <1>3, <1>6, <2>1, <2>2, <2>3 DEF IInv, TypeOK
<1>9. Flights'
  BY <1>1, <1>2, <1>3 DEF IInv, Flights, Places
<1>10. Sores'
  <2>1. s \in inflight /\ \A i \in Places : results[i].subject # s
    BY <1>2 DEF IInv, Flights
  <2>2. QED
    BY <1>1, <1>2, <1>3, <2>1 DEF IInv, Sores, Places
<1>11. Ticks'
  BY <1>1, <1>2, <1>3 DEF IInv, Ticks, In, Idle
<1>12. QED
  BY <1>7, <1>8, <1>9, <1>10, <1>11 DEF IInv

\* A goroutine that is over leaves its result on the channel, behind the others.
LEMMA SendStep ==
    ASSUME IInv, NEW s \in Subjects, Send(s)
    PROVE  IInv'
<1> DEFINE q == Append(results, [subject |-> s, err |-> rounds[s].err])
<1>1. /\ rounds[s].at = "sending"
      /\ results' = q
      /\ rounds' = [rounds EXCEPT ![s] = NoRound]
      /\ UNCHANGED <<scheduler, slots, left, cancelled, events, history>>
  BY DEF Send
<1>2. /\ rounds \in [Subjects -> [at : {"none", "running", "sending"}, err : Errors]]
      /\ results \in Seq(Result)
  BY DEF IInv, TypeOK
<1>3. rounds[s].err \in Errors /\ [subject |-> s, err |-> rounds[s].err] \in Result
  BY <1>2 DEF Result
<1>4. /\ q \in Seq(Result) /\ Len(q) = Len(results) + 1 /\ Len(results) \in Nat
      /\ \A i \in Places : i \in 1..Len(q) /\ i # Len(q) /\ q[i] = results[i]
      /\ \A i \in 1..Len(q) : i = Len(q) \/ i \in Places
      /\ Len(q) \in 1..Len(q)
      /\ q[Len(q)].subject = s /\ q[Len(q)].err = rounds[s].err
  BY <1>2, <1>3 DEF Places
<1> HIDE DEF q
<1>5. TypeOK'
  BY <1>1, <1>2, <1>4 DEF IInv, TypeOK, scheduler, history, NoRound, Errors
<1>6. Places' = 1..Len(q)
  BY <1>1 DEF Places
<1>7. s \in inflight /\ \A i \in Places : results[i].subject # s
  BY <1>1 DEF IInv, Flights
<1>8. Flights'
  <2>1. \A i, j \in 1..Len(q) : q[i].subject = q[j].subject => i = j
    BY <1>4, <1>7 DEF IInv, Flights
  <2>2. \A i \in 1..Len(q) : q[i].subject \in inflight
    BY <1>4, <1>7 DEF IInv, Flights
  <2>3. \A t \in Subjects : rounds'[t].at # "none" =>
           t \in inflight /\ \A i \in 1..Len(q) : q[i].subject # t
    BY <1>1, <1>2, <1>4 DEF IInv, Flights, NoRound
  <2>4. \A t \in inflight : cancelled \/ rounds'[t].at # "none" \/ \E i \in 1..Len(q) : q[i].subject = t
    BY <1>1, <1>2, <1>4 DEF IInv, Flights, NoRound
  <2>5. QED
    BY <1>1, <1>6, <2>1, <2>2, <2>3, <2>4 DEF Flights, scheduler
<1>9. Sores'
  <2>1. \A i \in 1..Len(q) : q[i].err = "none" => ~sore[q[i].subject]
    BY <1>1, <1>4 DEF IInv, Sores
  <2>2. \A t \in Subjects : rounds'[t].at = "running" \/ (rounds'[t].at = "sending" /\ rounds'[t].err = "none")
                              => ~sore[t]
    BY <1>1, <1>2 DEF IInv, Sores, NoRound
  <2>3. QED
    BY <1>1, <1>6, <2>1, <2>2 DEF IInv, Sores, scheduler, history
<1>10. Ticks'
  BY <1>1, <1>2 DEF IInv, Ticks, In, Idle, scheduler, NoRound
<1>11. SlotsHonest'
  <2>1. Running' = Running
    BY <1>1, <1>2 DEF Running, NoRound
  <2>2. QED
    BY <1>1, <2>1 DEF IInv, SlotsHonest, Running
<1>12. QED
  BY <1>5, <1>8, <1>9, <1>10, <1>11 DEF IInv

\* After a cancellation nobody needs the answer: what is in flight stays so, and
\* nothing is handed out for it again.
LEMMA DropStep ==
    ASSUME IInv, NEW s \in Subjects, Drop(s)
    PROVE  IInv'
<1>1. /\ rounds[s].at = "sending" /\ cancelled
      /\ rounds' = [rounds EXCEPT ![s] = NoRound]
      /\ UNCHANGED <<scheduler, channels, left, cancelled, events, history>>
      /\ rounds \in [Subjects -> [at : {"none", "running", "sending"}, err : Errors]]
  BY DEF Drop, NobodyListens, IInv, TypeOK
<1>2. TypeOK'
  BY <1>1 DEF IInv, TypeOK, scheduler, channels, history, NoRound, Errors
<1>3. Flights' /\ Sores'
  BY <1>1 DEF IInv, Flights, Sores, Places, scheduler, channels, history, NoRound
<1>4. Ticks'
  BY <1>1 DEF IInv, Ticks, In, Idle, scheduler, NoRound
<1>5. SlotsHonest'
  <2>1. Running' = Running
    BY <1>1 DEF Running, NoRound
  <2>2. QED
    BY <1>1, <2>1 DEF IInv, SlotsHonest, Running, channels
<1>6. QED
  BY <1>2, <1>3, <1>4, <1>5 DEF IInv

\* A hold runs out, a subject loses its role, or the daemon is asked to stop.
LEMMA WorldStep ==
    ASSUME IInv, Cancel \/ \E s \in Subjects : HoldOver(s) \/ Settle(s)
    PROVE  IInv'
<1>1. UNCHANGED <<tick, recovered, inflight, channels, rounds>>
  BY DEF Cancel, HoldOver, Settle, scheduler
<1>2. Ticks' /\ SlotsHonest'
  BY <1>1 DEF IInv, Ticks, In, Idle, SlotsHonest, channels
<1>3. CASE Cancel
  <2>1. /\ cancelled' \in BOOLEAN /\ events' \in 0..MaxEvents
        /\ cancelled => cancelled'
        /\ UNCHANGED <<sore, retries, left, hostRow>>
    BY <1>3, Spent DEF Cancel, IInv, TypeOK, scheduler, history
  <2>2. TypeOK'
    BY <1>1, <2>1 DEF IInv, TypeOK, channels
  <2>3. Flights'
    BY <1>1, <2>1 DEF IInv, Flights, Places, channels
  <2>4. Sores'
    BY <1>1, <2>1 DEF IInv, Sores, Places, channels
  <2>5. QED
    BY <1>2, <2>2, <2>3, <2>4 DEF IInv
<1>4. ASSUME NEW s \in Subjects, Settle(s) PROVE IInv'
  <2>1. events' \in 0..MaxEvents /\ left' \in [Subjects -> Nat]
    BY <1>4, Spent DEF Settle, IInv, TypeOK
  <2>2. UNCHANGED <<sore, retries, cancelled, hostRow>>
    BY <1>4 DEF Settle, scheduler, history
  <2>3. TypeOK'
    BY <1>1, <2>1, <2>2 DEF IInv, TypeOK, channels
  <2>4. Flights'
    BY <1>1, <2>2 DEF IInv, Flights, Places, channels
  <2>5. Sores'
    BY <1>1, <2>2 DEF IInv, Sores, Places, channels
  <2>6. QED
    BY <1>2, <2>3, <2>4, <2>5 DEF IInv
<1>5. ASSUME NEW s \in Subjects, HoldOver(s) PROVE IInv'
  <2>1. /\ retries \in [Subjects -> [hostFailures : Nat, held : {"no", "backoff", "cooldown"}]]
        /\ sore \in [Subjects -> BOOLEAN]
        /\ retries' = [retries EXCEPT ![s].held = "no"]
        /\ sore' = [sore EXCEPT ![s] = FALSE]
        /\ UNCHANGED <<left, cancelled, events, hostRow>>
    BY <1>5 DEF HoldOver, IInv, TypeOK
  <2>2. /\ retries' \in [Subjects -> [hostFailures : Nat, held : {"no", "backoff", "cooldown"}]]
        /\ \A t \in Subjects : retries'[t].held = IF t = s THEN "no" ELSE retries[t].held
    BY <2>1
  <2>3. TypeOK' /\ Flights'
    BY <1>1, <2>1, <2>2 DEF IInv, TypeOK, Flights, Places, channels
  <2>4. Sores'
    BY <1>1, <2>1, <2>2 DEF IInv, TypeOK, Sores, Places, channels
  <2>5. QED
    BY <1>2, <2>3, <2>4 DEF IInv
<1>6. QED
  BY <1>3, <1>4, <1>5

\* A new process has no round, and holds nobody back (NewEpicWorker).
LEMMA Initially == Init => IInv
<1> SUFFICES ASSUME Init PROVE IInv
  OBVIOUS
<1>1. TypeOK
  <2>1. tick \in Tick /\ tick.at = "drain" /\ tick.project = NoProject
    BY IdleTicks DEF Init
  <2>2. results \in Seq(Result) /\ events \in 0..MaxEvents /\ left \in [Subjects -> Nat]
    BY WorkerLimits DEF Init
  <2>3. QED
    BY <2>1, <2>2 DEF Init, TypeOK, NoRetry, NoRound, Errors
<1>2. Flights /\ Sores
  BY DEF Init, Flights, Sores, Places, NoRound
<1>3. Ticks
  BY IdleTicks DEF Init, Ticks, In, NoRound
<1>4. SlotsHonest
  <2>1. Running = {}
    BY DEF Init, Running, NoRound
  <2>2. Cardinality(Running) = 0
    BY <2>1, FS_EmptySet
  <2>3. slots = 0 /\ 0 <= maxConcurrentRounds
    BY WorkerLimits DEF Init
  <2>4. QED
    BY <2>2, <2>3 DEF SlotsHonest, Running
<1>5. QED
  BY <1>1, <1>2, <1>3, <1>4 DEF IInv

\* Every step of the scheduler, of the rounds beside it and of the world keeps it.
LEMMA Inductive == IInv /\ [Next]_vars => IInv'
<1> SUFFICES ASSUME IInv, [Next]_vars PROVE IInv'
  OBVIOUS
<1>1. CASE UNCHANGED vars
  <2>1. UNCHANGED <<tick, recovered, inflight, retries, slots, results, rounds, left, cancelled,
                    events, sore, hostRow>>
    BY <1>1 DEF vars, scheduler, channels, history
  <2>2. QED
    BY <2>1 DEF IInv, TypeOK, Flights, Sores, Ticks, SlotsHonest, Places, In, Idle
<1>2. CASE RunStep
  BY <1>2, RunTicks, HearStep, DispatchStep DEF RunStep
<1>3. ASSUME NEW s \in Subjects, RoundStep(s) \/ Send(s) PROVE IInv'
  BY <1>3, EndStep, SendStep, DropStep DEF RoundStep
<1>4. CASE Cancel \/ \E s \in Subjects : HoldOver(s) \/ Settle(s)
  BY <1>4, WorldStep
<1>5. QED
  BY <1>1, <1>2, <1>3, <1>4 DEF Next
-----------------------------------------------------------------------------
(* The theorems *)

\* The invariant the theorems below rest on: what is in flight has exactly one
\* round or one result, and what a tick has read of that is not too little.
THEOREM Invariant == Spec => []IInv
<1>1. Init => IInv
  BY Initially
<1>2. IInv /\ [Next]_vars => IInv'
  BY Inductive
<1>3. QED
  BY <1>1, <1>2, PTL DEF Spec

\* The scheduler's maps, its channels and its rounds keep their types.
THEOREM WorkerTypeCorrect == Spec => []TypeOK
<1>1. IInv => TypeOK
  BY DEF IInv
<1>2. QED
  BY <1>1, Invariant, PTL

\* What Run believes in flight is what is in flight (EpicWorker.inflight).
THEOREM FlightsAreKnown == Spec => []InFlightHonest
<1>1. IInv => InFlightHonest
  <2> SUFFICES ASSUME IInv, NEW s \in Subjects
               PROVE  /\ rounds[s].at # "none" => s \in inflight /\ Pending(s) = {}
                      /\ Pending(s) # {} => s \in inflight /\ Cardinality(Pending(s)) = 1
                      /\ s \in inflight /\ ~cancelled => rounds[s].at # "none" \/ Pending(s) # {}
    BY DEF InFlightHonest
  <2>1. Pending(s) = {i \in Places : results[i].subject = s}
    BY DEF Pending, Places
  <2>2. rounds[s].at # "none" => s \in inflight /\ Pending(s) = {}
    BY <2>1 DEF IInv, Flights
  <2>3. ASSUME NEW i \in Pending(s)
        PROVE  s \in inflight /\ Cardinality(Pending(s)) = 1
    <3>1. Pending(s) = {i}
      BY <2>1, <2>3 DEF IInv, Flights
    <3>2. Cardinality({i}) = 1
      BY FS_Singleton
    <3>3. results[i].subject = s /\ s \in inflight
      BY <2>1, <2>3 DEF IInv, Flights
    <3>4. QED
      BY <3>1, <3>2, <3>3
  <2>4. s \in inflight /\ ~cancelled => rounds[s].at # "none" \/ Pending(s) # {}
    BY <2>1 DEF IInv, Flights
  <2>5. QED
    BY <2>2, <2>3, <2>4
<1>2. QED
  BY <1>1, Invariant, PTL

\* Reconciliation is told of every round it could disturb, and the pass after a
\* start meets none of this process (EpicWorker.tick, ReconcileSandboxes).
THEOREM ReconcilingSpares == Spec => []ReconcileSpares
<1>1. IInv => ReconcileSpares
  <2> SUFFICES ASSUME IInv, tick.at = "reconcile", NEW s \in In(tick.project),
                      rounds[s].at = "running"
               PROVE  s \in tick.spared /\ ~tick.recovering
    BY DEF ReconcileSpares
  <2>1. s \in Subjects /\ ProjectOf[s] = tick.project
    BY DEF In
  <2>2. QED
    BY <2>1 DEF IInv, Ticks
<1>2. QED
  BY <1>1, Invariant, PTL

\* A subject that failed has a hold of it run out before it runs again, wherever
\* its result was heard (EpicWorker.record, EpicWorker.dispatch).
THEOREM FailuresAreHeld == Spec => FailureHolds
<1>1. IInv /\ [Next]_vars =>
        \A s \in Subjects : rounds[s].at = "none" /\ rounds'[s].at = "running" => ~sore[s]
  <2> SUFFICES ASSUME IInv, [Next]_vars, NEW s \in Subjects,
                      rounds[s].at = "none", rounds'[s].at = "running"
               PROVE  ~sore[s]
    OBVIOUS
  <2>1. rounds \in [Subjects -> [at : {"none", "running", "sending"}, err : Errors]]
    BY DEF IInv, TypeOK
  <2>2. ~UNCHANGED rounds
    BY <2>1
  <2>3. ASSUME NEW t \in Subjects, RoundEnds(t) \/ Send(t) \/ Drop(t) PROVE FALSE
    <3>1. rounds[t].at # "none" /\ rounds'[t].at # "running"
      BY <2>1, <2>3 DEF RoundEnds, Send, Drop, NoRound
    <3>2. \A u \in Subjects : u # t => rounds'[u] = rounds[u]
      BY <2>1, <2>3 DEF RoundEnds, Send, Drop
    <3>3. QED
      BY <3>1, <3>2
  <2>4. PICK t \in Subjects : Dispatch(t)
    BY <2>2, <2>3 DEF Next, RunStep, RoundStep, Hear, StartTick, Drain, ListProjects, Reconciled,
           ProjectDone, TickDone, Stop, Return, ReadEpics, HoldOver, Settle, Cancel, vars
  <2>5. Free(t) /\ Start(t)
    BY <2>2, <2>4 DEF Dispatch
  <2>6. t = s
    BY <2>1, <2>5 DEF Start
  <2>7. QED
    BY <2>5, <2>6 DEF Free, IInv, Sores
<1>2. QED
  BY <1>1, Invariant, PTL DEF Spec, FailureHolds

\* The ceiling on rounds holds, and a slot is taken exactly while a round runs.
THEOREM CeilingHolds == Spec => []SlotsHonest
<1>1. IInv => SlotsHonest
  BY DEF IInv
<1>2. QED
  BY <1>1, Invariant, PTL

\* Run returns when no round is left that could write (running.Wait).
THEOREM ReturnsAreQuiet == Spec => []ReturnsQuiet
<1>1. IInv => ReturnsQuiet
  BY DEF IInv, Ticks, ReturnsQuiet
<1>2. QED
  BY <1>1, Invariant, PTL
=============================================================================
