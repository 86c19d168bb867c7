--------------------------- MODULE SandboxesProofs ---------------------------
(***************************************************************************)
(* What Sandboxes promises, proved for any number of projects, subjects and *)
(* rounds: machines are behind their firewall while an agent works, Ensure  *)
(* is serialised, the budget of a profile holds, and a round's container is *)
(* its own (the refinement of SandboxLease).                                *)
(***************************************************************************)
EXTENDS Sandboxes, TLAPS, FiniteSetTheorems

\* The steps a round takes before it has a reservation.
Unreserved == {"idle", "dispatched", "listed"}

\* What the flag in memory says of a running machine is so, and no container
\* runs without its machine's rules.
Sealed ==
    /\ \A p \in Projects : up[p] /\ prepared[p] => firewall[p]
    /\ \A s \in Sandboxes : box[s] = "running" => firewall[ProjectOf[s]]

\* A profile's lock is with the round of it that is inside Ensure.
Locks ==
    /\ OneEnsures
    /\ \A p \in Projects : lock[p] # NoOne => ProjectOf[lock[p]] = p

\* Rounds past admission are those with a reservation, and no profile has more
\* than its memory holds.
Budget ==
    /\ \A s \in Sandboxes : s \in reserved <=> round[s].at \notin Unreserved
    /\ \A p \in Projects : Cardinality(reserved \cap In(p)) <= MaxHeld

\* Rounds start at the end of a tick and nowhere else, so a tick's snapshot of
\* what is in flight may be out of date only by rounds that are over.
Snapshot ==
    tick.at # "idle" =>
        /\ tick.todo \subseteq In(tick.project)
        /\ \A s \in In(tick.project) : round[s].at # "idle" => s \in tick.inflight
        /\ tick.at = "delete" => tick.sandbox \in In(tick.project) \ tick.inflight

IInv == TypeOK /\ Sealed /\ Locks /\ Budget /\ Snapshot

-----------------------------------------------------------------------------
(* Steps that a round takes *)

\* A round that moves on from one step past admission to another keeps its
\* reservation, and one that was in flight still is.
LEMMA MovesOn ==
    ASSUME IInv, NEW s \in Sandboxes, NEW at \in RoundSteps \ Unreserved,
           round[s].at \notin Unreserved, Advance(s, at), UNCHANGED <<reserved, tick>>
    PROVE  Budget' /\ Snapshot' /\ round' \in [Sandboxes -> Round]
           /\ \A r \in Sandboxes : round'[r].at = IF r = s THEN at ELSE round[r].at
<1>1. round \in [Sandboxes -> Round]
  BY DEF IInv, TypeOK
<1>2. round' \in [Sandboxes -> Round]
  BY <1>1 DEF Advance, Round, Unreserved
<1>3. \A r \in Sandboxes : round'[r].at = IF r = s THEN at ELSE round[r].at
  BY <1>1 DEF Advance, Round
<1>4. Budget'
  BY <1>3 DEF IInv, Budget, In
<1>5. Snapshot'
  BY <1>3 DEF IInv, Snapshot, In, Unreserved
<1>6. QED
  BY <1>2, <1>3, <1>4, <1>5

\* A round that is over has no reservation and no lock.
LEMMA Over ==
    ASSUME IInv, NEW s \in Sandboxes, RoundOver(s), UNCHANGED tick
    PROVE  /\ Locks' /\ Budget' /\ Snapshot'
           /\ round' \in [Sandboxes -> Round]
           /\ reserved' \in SUBSET Sandboxes
           /\ lock' \in [Projects -> Sandboxes \cup {NoOne}]
           /\ \A r \in Sandboxes : round'[r].at = IF r = s THEN "idle" ELSE round[r].at
<1>1. round \in [Sandboxes -> Round] /\ lock \in [Projects -> Sandboxes \cup {NoOne}]
  BY DEF IInv, TypeOK
<1>2. round' \in [Sandboxes -> Round]
  BY <1>1 DEF RoundOver, Round, IdleRound, RoundSteps
<1>3. \A r \in Sandboxes : round'[r].at = IF r = s THEN "idle" ELSE round[r].at
  BY <1>1 DEF RoundOver, IdleRound
<1>4. lock' \in [Projects -> Sandboxes \cup {NoOne}]
  BY <1>1 DEF RoundOver, Unlock
<1>5. \A p \in Projects : lock'[p] = IF lock[p] = s THEN NoOne ELSE lock[p]
  BY DEF RoundOver, Unlock
<1>6. Locks'
  BY <1>3, <1>5, SandboxLimits DEF IInv, Locks, OneEnsures, Locked
<1>7. reserved' \in SUBSET Sandboxes /\ reserved' = reserved \ {s}
  BY DEF IInv, TypeOK, RoundOver
<1>8. ASSUME NEW p \in Projects PROVE Cardinality(reserved' \cap In(p)) <= MaxHeld
  <2>1. IsFiniteSet(reserved \cap In(p))
    BY SandboxLimits, FS_Subset DEF In
  <2>2. reserved' \cap In(p) \subseteq reserved \cap In(p)
    BY <1>7
  <2>3. /\ Cardinality(reserved' \cap In(p)) <= Cardinality(reserved \cap In(p))
        /\ Cardinality(reserved' \cap In(p)) \in Nat
        /\ Cardinality(reserved \cap In(p)) \in Nat
    BY <2>1, <2>2, FS_Subset, FS_CardinalityType
  <2>4. QED
    BY <2>3, SandboxLimits DEF IInv, Budget
<1>9. Budget'
  BY <1>3, <1>7, <1>8 DEF IInv, Budget, In, Unreserved
<1>10. Snapshot'
  BY <1>3 DEF IInv, Snapshot, In
<1>11. QED
  BY <1>2, <1>3, <1>4, <1>6, <1>7, <1>9, <1>10

\* The machine a round brings up runs behind its rules (startProfileLocked).
LEMMA BootIsSealed ==
    ASSUME IInv, NEW p \in Projects, Boots(p),
           \A s \in Sandboxes : box'[s] = "running" => box[s] = "running" \/ ProjectOf[s] = p
    PROVE  /\ Sealed'
           /\ up' \in [Projects -> BOOLEAN] /\ firewall' \in [Projects -> BOOLEAN]
           /\ prepared' \in [Projects -> BOOLEAN]
<1>1. /\ up' \in [Projects -> BOOLEAN] /\ firewall' \in [Projects -> BOOLEAN]
      /\ prepared' \in [Projects -> BOOLEAN]
  BY DEF IInv, TypeOK, Boots, Trusted
<1>2. firewall'[p] = TRUE
  BY DEF IInv, TypeOK, Boots, Trusted, Sealed
<1>3. \A q \in Projects \ {p} : up'[q] = up[q] /\ prepared'[q] = prepared[q] /\ firewall'[q] = firewall[q]
  BY DEF IInv, TypeOK, Boots
<1>4. Sealed'
  BY <1>2, <1>3, SandboxLimits DEF IInv, Sealed
<1>5. QED
  BY <1>1, <1>4

\* A machine that could not be prepared is not believed to have its rules.
LEMMA FailedBootIsSealed ==
    ASSUME IInv, NEW p \in Projects, BootFails(p), UNCHANGED box
    PROVE  /\ Sealed'
           /\ up' \in [Projects -> BOOLEAN] /\ firewall' \in [Projects -> BOOLEAN]
           /\ prepared' \in [Projects -> BOOLEAN]
<1>1. CASE UNCHANGED <<up, firewall, prepared>>
  BY <1>1 DEF IInv, TypeOK, Sealed
<1>2. CASE /\ up' = [up EXCEPT ![p] = TRUE]
           /\ prepared' = [prepared EXCEPT ![p] = FALSE]
           /\ UNCHANGED firewall
  <2>1. \A q \in Projects : up'[q] /\ prepared'[q] => up[q] /\ prepared[q]
    BY <1>2 DEF IInv, TypeOK
  <2>2. QED
    BY <1>2, <2>1 DEF IInv, TypeOK, Sealed
<1>3. QED
  BY <1>1, <1>2 DEF BootFails

\* Nothing but a boot puts rules in place, and nothing is started without one.
LEMMA NothingStarts ==
    ASSUME IInv, UNCHANGED <<up, firewall, prepared>>,
           \A s \in Sandboxes : box'[s] = "running" => box[s] = "running"
    PROVE  Sealed'
BY DEF IInv, Sealed

\* What the world may still do is bounded.
LEMMA Spent == ASSUME TypeOK, Spend PROVE events' \in 0..MaxEvents
BY SandboxLimits DEF TypeOK, Spend

-----------------------------------------------------------------------------
(* Every step of a round *)

\* Before admission: listing the profiles.
LEMMA ListStep == ASSUME IInv, NEW s \in Sandboxes, RoundList(s) PROVE IInv'
<1> USE DEF RoundList, hosts, containers, worker
<1>1. round' \in [Sandboxes -> Round]
  BY DEF IInv, TypeOK, Round, RoundSteps
<1>2. \A r \in Sandboxes : round'[r].at = IF r = s THEN "listed" ELSE round[r].at
  BY DEF IInv, TypeOK, Round
<1>3. run' \in [Sandboxes -> {"none", "live", "over"}]
  BY DEF IInv, TypeOK
<1>4. TypeOK'
  BY <1>1, <1>3 DEF IInv, TypeOK
<1>5. Sealed'
  BY DEF IInv, Sealed
<1>6. Locks'
  BY <1>2 DEF IInv, Locks, OneEnsures, Locked
<1>7. Budget' /\ Snapshot'
  BY <1>2 DEF IInv, Budget, Snapshot, In, Unreserved
<1>8. QED
  BY <1>4, <1>5, <1>6, <1>7 DEF IInv

\* Admission: a reservation within the budget, or the end of the round.
LEMMA ReserveStep == ASSUME IInv, NEW s \in Sandboxes, RoundReserve(s) PROVE IInv'
<1> USE DEF RoundReserve, containers, registry, worker
<1>1. Sealed'
  BY DEF IInv, Sealed
<1>2. CASE RoundOver(s)
  <2>1. TypeOK'
    BY <1>2, Over DEF IInv, TypeOK
  <2>2. QED
    BY <1>1, <1>2, <2>1, Over DEF IInv
<1>3. CASE Admitted(s, round[s].listed) /\ reserved' = reserved \cup {s} /\ Advance(s, "reserved")
           /\ UNCHANGED lock
  <2>1. round' \in [Sandboxes -> Round]
    BY <1>3 DEF IInv, TypeOK, Round, RoundSteps, Advance
  <2>2. \A r \in Sandboxes : round'[r].at = IF r = s THEN "reserved" ELSE round[r].at
    BY <1>3 DEF IInv, TypeOK, Round, Advance
  <2>3. TypeOK'
    BY <1>3, <2>1 DEF IInv, TypeOK
  <2>4. Locks'
    BY <1>3, <2>2 DEF IInv, Locks, OneEnsures, Locked
  <2>5. ASSUME NEW p \in Projects PROVE Cardinality(reserved' \cap In(p)) <= MaxHeld
    <3>1. IsFiniteSet(reserved \cap In(p))
      BY SandboxLimits, FS_Subset DEF In
    <3>2. CASE p = ProjectOf[s]
      <4>1. reserved' \cap In(p) = (reserved \cap In(p)) \cup {s} /\ s \notin reserved \cap In(p)
        BY <1>3, <3>2 DEF In, Admitted
      <4>2. Cardinality(reserved' \cap In(p)) = Cardinality(reserved \cap In(p)) + 1
        BY <3>1, <4>1, FS_AddElement
      <4>3. Cardinality(reserved \cap In(p)) < MaxHeld /\ Cardinality(reserved \cap In(p)) \in Nat
        BY <1>3, <3>1, <3>2, FS_CardinalityType DEF Admitted
      <4>4. QED
        BY <4>2, <4>3, SandboxLimits
    <3>3. CASE p # ProjectOf[s]
      <4>1. reserved' \cap In(p) = reserved \cap In(p)
        BY <1>3, <3>3 DEF In
      <4>2. QED
        BY <4>1 DEF IInv, Budget
    <3>4. QED
      BY <3>2, <3>3
  <2>6. Budget'
    BY <1>3, <2>2, <2>5 DEF IInv, Budget, In, Unreserved
  <2>7. Snapshot'
    BY <2>2 DEF IInv, Snapshot, In
  <2>8. QED
    BY <1>1, <2>3, <2>4, <2>6, <2>7 DEF IInv
<1>4. QED
  BY <1>2, <1>3

\* The checkout and the run's first saves.
LEMMA BeginStep == ASSUME IInv, NEW s \in Sandboxes, RoundBegin(s) PROVE IInv'
<1> USE DEF RoundBegin, containers, worker
<1>1. Sealed'
  BY DEF IInv, Sealed
<1>2. CASE Spend /\ RoundOver(s) /\ UNCHANGED run
  <2>1. TypeOK'
    BY <1>2, Over, Spent DEF IInv, TypeOK
  <2>2. QED
    BY <1>1, <1>2, <2>1, Over DEF IInv
<1>3. CASE Advance(s, "booting") /\ run' = [run EXCEPT ![s] = "live"] /\ UNCHANGED <<reserved, lock, events>>
  <2>1. /\ Budget' /\ Snapshot' /\ round' \in [Sandboxes -> Round]
        /\ \A r \in Sandboxes : round'[r].at = IF r = s THEN "booting" ELSE round[r].at
    BY <1>3, MovesOn DEF RoundSteps, Unreserved
  <2>2. TypeOK'
    BY <1>3, <2>1 DEF IInv, TypeOK
  <2>3. Locks'
    BY <1>3, <2>1 DEF IInv, Locks, OneEnsures, Locked
  <2>4. QED
    BY <1>1, <2>1, <2>2, <2>3 DEF IInv
<1>4. QED
  BY <1>2, <1>3

\* Inside Ensure, and out of it: a round that moves on keeps the lock, gives it
\* back, or was never near it.
LEMMA MovesOnLocked ==
    ASSUME IInv, NEW s \in Sandboxes, NEW at \in RoundSteps \ Unreserved,
           round[s].at \notin Unreserved, Advance(s, at), UNCHANGED tick,
           UNCHANGED reserved,
           \/ UNCHANGED lock /\ (at \in Locked <=> round[s].at \in Locked)
           \/ Unlock(s) /\ at \notin Locked
           \/ /\ lock[ProjectOf[s]] = NoOne
              /\ lock' = [lock EXCEPT ![ProjectOf[s]] = s]
              /\ at \in Locked
    PROVE  /\ Locks' /\ Budget' /\ Snapshot' /\ round' \in [Sandboxes -> Round]
           /\ lock' \in [Projects -> Sandboxes \cup {NoOne}]
           /\ \A r \in Sandboxes : round'[r].at = IF r = s THEN at ELSE round[r].at
<1>1. /\ Budget' /\ Snapshot' /\ round' \in [Sandboxes -> Round]
      /\ \A r \in Sandboxes : round'[r].at = IF r = s THEN at ELSE round[r].at
  BY MovesOn
<1>2. lock \in [Projects -> Sandboxes \cup {NoOne}] /\ ProjectOf \in [Sandboxes -> Projects]
      /\ NoOne \notin Sandboxes
  BY SandboxLimits DEF IInv, TypeOK
<1>3. CASE UNCHANGED lock /\ (at \in Locked <=> round[s].at \in Locked)
  BY <1>1, <1>2, <1>3 DEF IInv, Locks, OneEnsures
<1>4. CASE Unlock(s) /\ at \notin Locked
  <2>1. lock' \in [Projects -> Sandboxes \cup {NoOne}]
    BY <1>2, <1>4 DEF Unlock
  <2>2. \A p \in Projects : lock'[p] = IF lock[p] = s THEN NoOne ELSE lock[p]
    BY <1>4 DEF Unlock
  <2>3. QED
    BY <1>1, <1>2, <1>4, <2>1, <2>2 DEF IInv, Locks, OneEnsures
<1>5. CASE /\ lock[ProjectOf[s]] = NoOne
           /\ lock' = [lock EXCEPT ![ProjectOf[s]] = s]
           /\ at \in Locked
  <2>1. lock' \in [Projects -> Sandboxes \cup {NoOne}]
    BY <1>2, <1>5
  <2>2. \A p \in Projects : lock'[p] = IF p = ProjectOf[s] THEN s ELSE lock[p]
    BY <1>2, <1>5
  <2>3. QED
    BY <1>1, <1>2, <1>5, <2>1, <2>2 DEF IInv, Locks, OneEnsures
<1>6. QED
  BY <1>3, <1>4, <1>5

\* The types of what the registry is told.
LEMMA SaveTypes ==
    ASSUME TypeOK, NEW s \in Sandboxes,
           NEW status \in {"Absent", "Stopped", "Running", "Broken"}, SaveSandbox(s, status)
    PROVE  /\ record' \in [Sandboxes -> {"Absent", "Stopped", "Running", "Broken"}]
           /\ old' \in [Sandboxes -> BOOLEAN]
BY DEF TypeOK, SaveSandbox

LEMMA EndTypes ==
    ASSUME TypeOK, NEW s \in Sandboxes, EndRun(s)
    PROVE  run' \in [Sandboxes -> {"none", "live", "over"}]
BY DEF TypeOK, EndRun

\* Ensure takes the lock and brings the machine up.
LEMMA BootStep == ASSUME IInv, NEW s \in Sandboxes, RoundBoot(s) PROVE IInv'
<1> DEFINE p == ProjectOf[s]
<1>1. p \in Projects /\ TypeOK
  BY SandboxLimits DEF IInv
<1>2. /\ UNCHANGED <<box, ledger, record, old, left, finished, tick, quiet, recovered, person>>
      /\ round[s].at = "booting" /\ lock[p] = NoOne
  BY DEF RoundBoot, containers, worker
<1>3. CASE Spend /\ BootFails(p) /\ HostFail(s)
  <2>1. Sealed' /\ up' \in [Projects -> BOOLEAN] /\ firewall' \in [Projects -> BOOLEAN]
        /\ prepared' \in [Projects -> BOOLEAN]
    BY <1>1, <1>2, <1>3, FailedBootIsSealed
  <2>2. RoundOver(s) /\ EndRun(s)
    BY <1>3 DEF HostFail
  <2>3. TypeOK'
    BY <1>1, <1>2, <1>3, <2>1, <2>2, Over, Spent, EndTypes DEF TypeOK
  <2>4. QED
    BY <1>2, <2>1, <2>2, <2>3, Over DEF IInv
<1>4. CASE /\ Boots(p)
           /\ lock' = [lock EXCEPT ![p] = s]
           /\ Advance(s, IF up[p] THEN "ensuring" ELSE "pruning")
           /\ UNCHANGED <<reserved, run, events>>
  <2>1. Sealed' /\ up' \in [Projects -> BOOLEAN] /\ firewall' \in [Projects -> BOOLEAN]
        /\ prepared' \in [Projects -> BOOLEAN]
    BY <1>1, <1>2, <1>4, BootIsSealed
  <2>2. PICK at \in {"ensuring", "pruning"} : Advance(s, at)
    BY <1>4
  <2>3. at \in RoundSteps \ Unreserved /\ at \in Locked /\ round[s].at \notin Unreserved
    BY <1>2, <2>2 DEF RoundSteps, Unreserved, Locked
  <2>4. Locks' /\ Budget' /\ Snapshot' /\ round' \in [Sandboxes -> Round]
        /\ lock' \in [Projects -> Sandboxes \cup {NoOne}]
    BY <1>2, <1>4, <2>2, <2>3, MovesOnLocked
  <2>5. TypeOK'
    BY <1>1, <1>2, <1>4, <2>1, <2>4 DEF TypeOK
  <2>6. QED
    BY <2>1, <2>4, <2>5 DEF IInv
<1>5. QED
  BY <1>3, <1>4 DEF RoundBoot

\* A machine that was just started is cleared of containers no record names.
LEMMA PruneStep == ASSUME IInv, NEW s \in Sandboxes, RoundPrune(s) PROVE IInv'
<1> DEFINE p == ProjectOf[s]
<1>1. TypeOK
  BY DEF IInv
<1>2. /\ UNCHANGED <<up, firewall, prepared, ledger, record, old, left, finished, tick, quiet,
                     recovered, person>>
      /\ round[s].at = "pruning"
  BY DEF RoundPrune, worker
<1>3. CASE /\ up[p]
           /\ box' = Pruned(p)
           /\ Advance(s, "ensuring")
           /\ UNCHANGED <<lock, reserved, run, events>>
  <2>1. Locks' /\ Budget' /\ Snapshot' /\ round' \in [Sandboxes -> Round]
    BY <1>2, <1>3, MovesOnLocked DEF RoundSteps, Unreserved, Locked
  <2>2. /\ box' \in [Sandboxes -> {"none", "stopped", "running", "dead"}]
        /\ \A r \in Sandboxes : box'[r] = "running" => box[r] = "running"
    BY <1>1, <1>3 DEF TypeOK, Pruned
  <2>3. Sealed'
    BY <1>2, <2>2, NothingStarts
  <2>4. TypeOK'
    BY <1>1, <1>2, <1>3, <2>1, <2>2 DEF TypeOK
  <2>5. QED
    BY <2>1, <2>3, <2>4 DEF IInv
<1>4. CASE (UNCHANGED events \/ Spend) /\ HostFail(s) /\ UNCHANGED box
  <2>1. RoundOver(s) /\ EndRun(s)
    BY <1>4 DEF HostFail
  <2>2. events' \in 0..MaxEvents
    BY <1>1, <1>4, Spent DEF TypeOK
  <2>3. TypeOK'
    BY <1>1, <1>2, <1>4, <2>1, <2>2, Over, EndTypes DEF TypeOK
  <2>4. Sealed'
    BY <1>2, <1>4, NothingStarts
  <2>5. QED
    BY <1>2, <2>1, <2>3, <2>4, Over DEF IInv
<1>5. QED
  BY <1>3, <1>4 DEF RoundPrune

\* A container found is used, any other removed and its record written.
LEMMA EnsureStep == ASSUME IInv, NEW s \in Sandboxes, RoundEnsure(s) PROVE IInv'
<1> DEFINE p == ProjectOf[s]
<1>1. TypeOK
  BY DEF IInv
<1>2. /\ UNCHANGED <<up, firewall, prepared, left, finished, tick, quiet, recovered, person>>
      /\ round[s].at = "ensuring"
  BY DEF RoundEnsure, worker
<1>3. CASE /\ Advance(s, "starting")
           /\ SaveSandbox(s, "Stopped")
           /\ Unlock(s)
           /\ UNCHANGED <<containers, reserved, run, events>>
  <2>1. Locks' /\ Budget' /\ Snapshot' /\ round' \in [Sandboxes -> Round]
        /\ lock' \in [Projects -> Sandboxes \cup {NoOne}]
    BY <1>2, <1>3, MovesOnLocked DEF RoundSteps, Unreserved, Locked
  <2>2. Sealed'
    BY <1>2, <1>3, NothingStarts DEF containers
  <2>3. TypeOK'
    BY <1>1, <1>2, <1>3, <2>1, SaveTypes DEF TypeOK, containers
  <2>4. QED
    BY <2>1, <2>2, <2>3 DEF IInv
<1>4. CASE /\ box' = [box EXCEPT ![s] = "none"]
           /\ ledger' = [ledger EXCEPT ![s] = TRUE]
           /\ Advance(s, "creating")
           /\ UNCHANGED <<lock, reserved, registry, events>>
  <2>1. Locks' /\ Budget' /\ Snapshot' /\ round' \in [Sandboxes -> Round]
    BY <1>2, <1>4, MovesOnLocked DEF RoundSteps, Unreserved, Locked
  <2>2. \A r \in Sandboxes : box'[r] = "running" => box[r] = "running"
    BY <1>1, <1>4 DEF TypeOK
  <2>3. Sealed'
    BY <1>2, <2>2, NothingStarts
  <2>4. TypeOK'
    BY <1>1, <1>2, <1>4, <2>1 DEF TypeOK, registry
  <2>5. QED
    BY <2>1, <2>3, <2>4 DEF IInv
<1>5. CASE (UNCHANGED events \/ Spend) /\ HostFail(s) /\ UNCHANGED <<containers, record, old>>
  <2>1. RoundOver(s) /\ EndRun(s)
    BY <1>5 DEF HostFail
  <2>2. events' \in 0..MaxEvents
    BY <1>1, <1>5, Spent DEF TypeOK
  <2>3. TypeOK'
    BY <1>1, <1>2, <1>5, <2>1, <2>2, Over, EndTypes DEF TypeOK, containers
  <2>4. Sealed'
    BY <1>2, <1>5, NothingStarts DEF containers
  <2>5. QED
    BY <1>2, <2>1, <2>3, <2>4, Over DEF IInv
<1>6. QED
  BY <1>3, <1>4, <1>5 DEF RoundEnsure

\* A new container, and the record of a stopped sandbox.
LEMMA CreateStep == ASSUME IInv, NEW s \in Sandboxes, RoundCreate(s) PROVE IInv'
<1>1. TypeOK
  BY DEF IInv
<1>2. /\ UNCHANGED <<up, firewall, prepared, ledger, left, finished, tick, quiet, recovered,
                     person>>
      /\ round[s].at = "creating"
  BY DEF RoundCreate, worker
<1>3. CASE /\ box' = [box EXCEPT ![s] = "stopped"]
           /\ Advance(s, "starting")
           /\ SaveSandbox(s, "Stopped")
           /\ Unlock(s)
           /\ UNCHANGED <<reserved, run, events>>
  <2>1. Locks' /\ Budget' /\ Snapshot' /\ round' \in [Sandboxes -> Round]
        /\ lock' \in [Projects -> Sandboxes \cup {NoOne}]
    BY <1>2, <1>3, MovesOnLocked DEF RoundSteps, Unreserved, Locked
  <2>2. \A r \in Sandboxes : box'[r] = "running" => box[r] = "running"
    BY <1>1, <1>3 DEF TypeOK
  <2>3. Sealed'
    BY <1>2, <2>2, NothingStarts
  <2>4. TypeOK'
    BY <1>1, <1>2, <1>3, <2>1, SaveTypes DEF TypeOK
  <2>5. QED
    BY <2>1, <2>3, <2>4 DEF IInv
<1>4. CASE (UNCHANGED events \/ Spend) /\ HostFail(s) /\ UNCHANGED <<box, record, old>>
  <2>1. RoundOver(s) /\ EndRun(s)
    BY <1>4 DEF HostFail
  <2>2. events' \in 0..MaxEvents
    BY <1>1, <1>4, Spent DEF TypeOK
  <2>3. TypeOK'
    BY <1>1, <1>2, <1>4, <2>1, <2>2, Over, EndTypes DEF TypeOK
  <2>4. Sealed'
    BY <1>2, <1>4, NothingStarts
  <2>5. QED
    BY <1>2, <2>1, <2>3, <2>4, Over DEF IInv
<1>5. QED
  BY <1>3, <1>4 DEF RoundCreate

\* Start brings the machine up once more before it starts anything in it.
LEMMA StartStep == ASSUME IInv, NEW s \in Sandboxes, RoundStart(s) PROVE IInv'
<1> DEFINE p == ProjectOf[s]
           there == IF up[p] THEN box ELSE Pruned(p)
           started == [there EXCEPT ![s] = "running"]
           boxes == {"none", "stopped", "running", "dead"}
<1>1. TypeOK /\ p \in Projects
  BY SandboxLimits DEF IInv
<1>2. /\ UNCHANGED <<ledger, left, finished, tick, quiet, recovered, person>>
      /\ round[s].at = "starting" /\ lock[p] = NoOne
  BY DEF RoundStart, worker
<1>3. /\ there \in [Sandboxes -> boxes] /\ started \in [Sandboxes -> boxes]
      /\ \A r \in Sandboxes : there[r] = "running" => box[r] = "running"
      /\ \A r \in Sandboxes : started[r] = "running" => box[r] = "running" \/ ProjectOf[r] = p
  BY <1>1 DEF TypeOK, Pruned
<1> HIDE DEF there, started, p, boxes
<1>4. ASSUME Boots(p), box' \in {there, started}
      PROVE  /\ Sealed' /\ box' \in [Sandboxes -> boxes]
             /\ up' \in [Projects -> BOOLEAN] /\ firewall' \in [Projects -> BOOLEAN]
             /\ prepared' \in [Projects -> BOOLEAN]
  BY <1>1, <1>3, <1>4, BootIsSealed
<1>5. CASE /\ Boots(p)
           /\ box' = started
           /\ SaveSandbox(s, "Running")
           /\ Advance(s, "working")
           /\ UNCHANGED <<lock, reserved, run, events>>
  <2>1. Locks' /\ Budget' /\ Snapshot' /\ round' \in [Sandboxes -> Round]
    BY <1>2, <1>5, MovesOnLocked DEF RoundSteps, Unreserved, Locked
  <2>2. TypeOK'
    BY <1>1, <1>2, <1>4, <1>5, <2>1, SaveTypes DEF TypeOK, boxes
  <2>3. QED
    BY <1>4, <1>5, <2>1, <2>2 DEF IInv
<1>6. CASE /\ Boots(p)
           /\ box' = there
           /\ HostFail(s)
           /\ UNCHANGED <<record, old, events>>
  <2>1. RoundOver(s) /\ EndRun(s)
    BY <1>6 DEF HostFail
  <2>2. TypeOK'
    BY <1>1, <1>2, <1>4, <1>6, <2>1, Over, EndTypes DEF TypeOK, boxes
  <2>3. QED
    BY <1>2, <1>4, <1>6, <2>1, <2>2, Over DEF IInv
<1>7. CASE Spend /\ BootFails(p) /\ HostFail(s) /\ UNCHANGED <<box, record, old>>
  <2>1. RoundOver(s) /\ EndRun(s)
    BY <1>7 DEF HostFail
  <2>2. Sealed' /\ up' \in [Projects -> BOOLEAN] /\ firewall' \in [Projects -> BOOLEAN]
        /\ prepared' \in [Projects -> BOOLEAN]
    BY <1>1, <1>7, FailedBootIsSealed
  <2>3. TypeOK'
    BY <1>1, <1>2, <1>7, <2>1, <2>2, Over, Spent, EndTypes DEF TypeOK
  <2>4. QED
    BY <1>2, <2>1, <2>2, <2>3, Over DEF IInv
<1>8. CASE /\ Spend
           /\ Boots(p)
           /\ box' = started
           /\ RoundOver(s)
           /\ \/ EndRun(s) /\ UNCHANGED <<record, old>>
              \/ SaveSandbox(s, "Running") /\ UNCHANGED run
  <2>1. TypeOK'
    BY <1>1, <1>2, <1>4, <1>8, Over, Spent, EndTypes, SaveTypes DEF TypeOK, boxes
  <2>2. QED
    BY <1>2, <1>4, <1>8, <2>1, Over DEF IInv
<1>9. QED
  BY <1>5, <1>6, <1>7, <1>8 DEF RoundStart, p, there, started

\* The agent is done and its container stopped.
LEMMA StopStep == ASSUME IInv, NEW s \in Sandboxes, RoundStop(s) PROVE IInv'
<1>1. TypeOK
  BY DEF IInv
<1>2. /\ UNCHANGED <<up, firewall, prepared, ledger, left, finished, tick, quiet, recovered,
                     person>>
      /\ EndRun(s) /\ RoundOver(s)
  BY DEF RoundStop, worker
<1>3. /\ box' \in [Sandboxes -> {"none", "stopped", "running", "dead"}]
      /\ \A r \in Sandboxes : box'[r] = "running" => box[r] = "running"
  BY <1>1 DEF RoundStop, TypeOK
<1>4. Sealed'
  BY <1>2, <1>3, NothingStarts
<1>5. events' \in 0..MaxEvents
  BY <1>1, Spent DEF RoundStop, TypeOK
<1>6. /\ record' \in [Sandboxes -> {"Absent", "Stopped", "Running", "Broken"}]
      /\ old' \in [Sandboxes -> BOOLEAN]
  BY <1>1, SaveTypes DEF RoundStop
<1>7. TypeOK'
  BY <1>1, <1>2, <1>3, <1>5, <1>6, Over, EndTypes DEF TypeOK
<1>8. QED
  BY <1>2, <1>4, <1>7, Over DEF IInv

LEMMA RoundKeeps == ASSUME IInv, NEW s \in Sandboxes, RoundStep(s) PROVE IInv'
BY ListStep, ReserveStep, BeginStep, BootStep, PruneStep, EnsureStep, CreateStep, StartStep,
   StopStep DEF RoundStep

-----------------------------------------------------------------------------
(* Every step of the scheduler, of a person and of the world *)

\* What no round is part of leaves locks and reservations alone.
LEMMA NoRoundMoves ==
    ASSUME IInv, UNCHANGED <<round, reserved, lock>>
    PROVE  Locks' /\ Budget'
BY DEF IInv, Locks, OneEnsures, Budget, In

Statuses == {"Absent", "Stopped", "Running", "Broken"}

LEMMA StatusTypes ==
    ASSUME TypeOK, NEW s \in Sandboxes
    PROVE  Observed(s) \in Statuses /\ Settled(s) \in Statuses
BY DEF Observed, Settled, Statuses

\* What a tick reads first covers the rounds that are in flight.
LEMMA TickStartStep == ASSUME IInv, NEW p \in Projects, TickStart(p) PROVE IInv'
<1>1. TypeOK /\ NoOne \notin Projects /\ NoOne \notin Sandboxes
  BY SandboxLimits DEF IInv
<1>2. /\ UNCHANGED <<up, firewall, prepared, lock, box, ledger, reserved, record, old, round,
                     left, finished, quiet, person, events>>
      /\ recovered' = [recovered EXCEPT ![p] = TRUE]
  BY DEF TickStart, hosts, containers
<1>3. run' \in [Sandboxes -> {"none", "live", "over"}]
  BY <1>1 DEF TickStart, TypeOK
<1>4. PICK ready \in SUBSET Eligible(p) :
        LET priority == ready \cup {s \in InFlight(p) : ~finished[s]}
            live == {s \in In(p) : run[s] = "live"}
        IN  tick' = [at |-> "scan", project |-> p,
                     todo |-> ToReconcile(p, priority),
                     inflight |-> InFlight(p),
                     live |-> IF recovered[p] THEN live ELSE {},
                     busy |-> priority # {},
                     unreconciled |-> {},
                     sandbox |-> NoOne]
  BY DEF TickStart
<1>5. /\ tick'.at = "scan" /\ tick'.project = p /\ tick'.todo \subseteq In(p)
      /\ tick'.inflight = InFlight(p) /\ tick'.sandbox = NoOne
  BY <1>4 DEF ToReconcile, Eligible, InFlight
<1>6. tick' \in Tick
  <2> DEFINE priority == ready \cup {s \in InFlight(p) : ~finished[s]}
             live == {s \in In(p) : run[s] = "live"}
  <2>1. ToReconcile(p, priority) \in SUBSET Sandboxes /\ InFlight(p) \in SUBSET Sandboxes
        /\ (IF recovered[p] THEN live ELSE {}) \in SUBSET Sandboxes
    BY DEF ToReconcile, Eligible, InFlight, In
  <2> HIDE DEF live
  <2>2. tick' = [at |-> "scan", project |-> p,
                     todo |-> ToReconcile(p, priority),
                     inflight |-> InFlight(p),
                     live |-> IF recovered[p] THEN live ELSE {},
                     busy |-> priority # {},
                     unreconciled |-> {},
                     sandbox |-> NoOne]
    BY <1>4 DEF live
  <2> HIDE DEF priority
  <2>3. QED
    BY <2>1, <2>2 DEF Tick
<1>7. TypeOK'
  BY <1>1, <1>2, <1>3, <1>5, <1>6 DEF TypeOK
<1>8. Snapshot'
  BY <1>2, <1>5 DEF Snapshot, InFlight, In
<1>9. Sealed'
  BY <1>2 DEF IInv, Sealed
<1>10. QED
  BY <1>2, <1>7, <1>8, <1>9, NoRoundMoves DEF IInv

LEMMA TickSkipStep == ASSUME IInv, NEW p \in Projects, TickSkip(p) PROVE IInv'
<1>1. /\ UNCHANGED <<up, firewall, prepared, lock, box, ledger, reserved, record, old, run,
                     round, left, finished, tick, quiet, person>>
      /\ recovered' = [recovered EXCEPT ![p] = TRUE] /\ Spend
  BY DEF TickSkip, hosts, containers, registry
<1>2. TypeOK'
  BY <1>1, Spent DEF IInv, TypeOK
<1>3. Sealed' /\ Snapshot'
  BY <1>1 DEF IInv, Sealed, Snapshot, In
<1>4. QED
  BY <1>1, <1>2, <1>3, NoRoundMoves DEF IInv

\* A pass over one sandbox.
LEMMA Visiting ==
    ASSUME IInv, NEW s \in Sandboxes, tick.at = "scan", s \in tick.todo,
           NEW b \in BOOLEAN, NEW U \in SUBSET Sandboxes,
           tick' = [tick EXCEPT !.todo = @ \ {s}, !.busy = b, !.unreconciled = U],
           UNCHANGED round
    PROVE  Snapshot' /\ tick' \in Tick /\ tick'.at = "scan" /\ tick'.sandbox = NoOne
           /\ tick'.project # NoOne
<1>1. tick \in Tick
  BY DEF IInv, TypeOK
<1>2. /\ tick'.at = "scan" /\ tick'.project = tick.project /\ tick'.sandbox = tick.sandbox
      /\ tick'.todo = tick.todo \ {s} /\ tick'.inflight = tick.inflight
  BY <1>1 DEF Tick
<1>3. tick' \in Tick
  BY <1>1 DEF Tick
<1>4. Snapshot'
  BY <1>2 DEF IInv, Snapshot, In
<1>5. QED
  BY <1>2, <1>3, <1>4 DEF IInv, TypeOK

LEMMA RefreshStep == ASSUME IInv, NEW s \in Sandboxes, TickRefresh(s) PROVE IInv'
<1>1. TypeOK
  BY DEF IInv
<1>2. /\ UNCHANGED <<up, firewall, prepared, lock, ledger, reserved, round, left, finished,
                     quiet, recovered, person, events>>
      /\ tick.at = "scan" /\ s \in tick.todo
  BY DEF TickRefresh, hosts
<1>3. /\ box' \in [Sandboxes -> {"none", "stopped", "running", "dead"}]
      /\ run' \in [Sandboxes -> {"none", "live", "over"}]
      /\ \A r \in Sandboxes : box'[r] = "running" => box[r] = "running"
  BY <1>1 DEF TickRefresh, ForceStop, TypeOK
<1>4. /\ record' \in [Sandboxes -> {"Absent", "Stopped", "Running", "Broken"}]
      /\ old' \in [Sandboxes -> BOOLEAN]
  <2>1. CASE UNCHANGED <<record, old>>
    BY <1>1, <2>1 DEF TypeOK
  <2>2. CASE SaveSandbox(s, Settled(s))
    BY <1>1, <2>2, StatusTypes, SaveTypes DEF Statuses
  <2>3. QED
    BY <2>1, <2>2 DEF TickRefresh
<1>5. Snapshot' /\ tick' \in Tick /\ tick'.at = "scan" /\ tick'.sandbox = NoOne
      /\ tick'.project # NoOne
  <2>1. tick \in Tick
    BY <1>1 DEF TypeOK
  <2>2. tick' = [tick EXCEPT !.todo = @ \ {s}, !.busy = (tick.busy \/ Settled(s) = "Running"),
                             !.unreconciled = tick.unreconciled]
    BY <2>1 DEF TickRefresh, Visited, Tick
  <2>3. tick.unreconciled \in SUBSET Sandboxes /\ (tick.busy \/ Settled(s) = "Running") \in BOOLEAN
    BY <2>1 DEF Tick
  <2>4. QED
    BY <1>2, <2>2, <2>3, Visiting
<1>6. TypeOK'
  BY <1>1, <1>2, <1>3, <1>4, <1>5 DEF TypeOK
<1>7. Sealed'
  BY <1>2, <1>3, NothingStarts
<1>8. QED
  BY <1>2, <1>5, <1>6, <1>7, NoRoundMoves DEF IInv

LEMMA PassStep == ASSUME IInv, NEW s \in Sandboxes, TickPass(s) PROVE IInv'
<1>1. TypeOK /\ tick \in Tick
  BY DEF IInv, TypeOK
<1>2. /\ UNCHANGED <<up, firewall, prepared, lock, box, ledger, reserved, record, old, run,
                     round, left, finished, quiet, recovered, person, events>>
      /\ tick.at = "scan" /\ s \in tick.todo
  BY DEF TickPass, hosts, containers, registry
<1>3. Snapshot' /\ tick' \in Tick /\ tick'.at = "scan" /\ tick'.sandbox = NoOne
      /\ tick'.project # NoOne
  <2>1. tick' = [tick EXCEPT !.todo = @ \ {s}, !.busy = tick.busy, !.unreconciled = tick.unreconciled]
    BY <1>1 DEF TickPass, Visited, Tick
  <2>2. tick.unreconciled \in SUBSET Sandboxes /\ tick.busy \in BOOLEAN
    BY <1>1 DEF Tick
  <2>3. QED
    BY <1>2, <2>1, <2>2, Visiting
<1>4. TypeOK'
  BY <1>1, <1>2, <1>3 DEF TypeOK
<1>5. Sealed'
  BY <1>2 DEF IInv, Sealed
<1>6. QED
  BY <1>2, <1>3, <1>4, <1>5, NoRoundMoves DEF IInv

LEMMA FailStep == ASSUME IInv, NEW s \in Sandboxes, TickFail(s) PROVE IInv'
<1>1. TypeOK /\ tick \in Tick
  BY DEF IInv, TypeOK
<1>2. /\ UNCHANGED <<up, firewall, prepared, lock, box, ledger, reserved, record, old, run,
                     round, left, finished, quiet, recovered, person>>
      /\ tick.at # "idle" /\ Spend
  BY DEF TickFail, hosts, containers, registry
<1>3. tick' = [tick EXCEPT !.todo = @ \ {s}, !.at = "scan", !.sandbox = NoOne,
                           !.unreconciled = @ \cup {s}]
  BY <1>1 DEF TickFail, Visited, Tick
<1>4. /\ tick' \in Tick /\ tick'.at = "scan" /\ tick'.sandbox = NoOne
      /\ tick'.project = tick.project /\ tick'.todo \subseteq tick.todo
      /\ tick'.inflight = tick.inflight
  BY <1>1, <1>3 DEF Tick
<1>5. Snapshot'
  BY <1>2, <1>4 DEF IInv, Snapshot, In
<1>6. TypeOK'
  BY <1>1, <1>2, <1>4, Spent DEF TypeOK
<1>7. Sealed'
  BY <1>2 DEF IInv, Sealed
<1>8. QED
  BY <1>2, <1>5, <1>6, <1>7, NoRoundMoves DEF IInv

\* What a tick deletes is in no round it has seen, and so in none.
LEMMA DeleteStep == ASSUME IInv, NEW s \in Sandboxes, TickDelete(s) PROVE IInv'
<1>1. TypeOK /\ tick \in Tick /\ NoOne \notin Sandboxes
  BY SandboxLimits DEF IInv, TypeOK
<1>2. /\ UNCHANGED <<up, firewall, prepared, lock, ledger, reserved, record, old, round, left,
                     finished, quiet, recovered, person, events>>
      /\ tick.at = "scan" /\ s \in tick.todo /\ s \notin tick.inflight
  BY DEF TickDelete, hosts, OffLimits
<1>3. /\ box' \in [Sandboxes -> {"none", "stopped", "running", "dead"}]
      /\ run' \in [Sandboxes -> {"none", "live", "over"}]
      /\ \A r \in Sandboxes : box'[r] = "running" => box[r] = "running"
  BY <1>1 DEF TickDelete, TypeOK
<1>4. tick' = [tick EXCEPT !.todo = @ \ {s}, !.at = "delete", !.sandbox = s]
  BY <1>1 DEF TickDelete, Visited, Tick
<1>5. /\ tick' \in Tick /\ tick'.at = "delete" /\ tick'.sandbox = s
      /\ tick'.project = tick.project /\ tick'.todo \subseteq tick.todo
      /\ tick'.inflight = tick.inflight
  BY <1>1, <1>4 DEF Tick
<1>6. Snapshot'
  BY <1>2, <1>5 DEF IInv, Snapshot, In
<1>7. TypeOK'
  BY <1>1, <1>2, <1>3, <1>5 DEF TypeOK
<1>8. Sealed'
  BY <1>2, <1>3, NothingStarts
<1>9. QED
  BY <1>2, <1>6, <1>7, <1>8, NoRoundMoves DEF IInv

LEMMA ForgetStep == ASSUME IInv, TickForget PROVE IInv'
<1>1. TypeOK /\ tick \in Tick
  BY DEF IInv, TypeOK
<1>2. /\ UNCHANGED <<up, firewall, prepared, lock, box, reserved, run, round, left,
                     finished, quiet, recovered, person, events>>
      /\ tick.at = "delete"
      /\ ledger' = [ledger EXCEPT ![tick.sandbox] = FALSE]
      /\ SaveSandbox(tick.sandbox, "Absent")
      /\ tick' = [tick EXCEPT !.at = "scan", !.sandbox = NoOne]
  BY DEF TickForget, hosts
<1>3. tick.sandbox \in Sandboxes
  BY <1>1, <1>2 DEF TypeOK, Tick
<1>4. /\ tick' \in Tick /\ tick'.at = "scan" /\ tick'.sandbox = NoOne
      /\ tick'.project = tick.project /\ tick'.todo = tick.todo
      /\ tick'.inflight = tick.inflight
  BY <1>1, <1>2 DEF Tick
<1>5. Snapshot'
  BY <1>2, <1>4 DEF IInv, Snapshot, In
<1>6. TypeOK'
  BY <1>1, <1>2, <1>3, <1>4, SaveTypes DEF TypeOK
<1>7. Sealed'
  BY <1>2 DEF IInv, Sealed
<1>8. QED
  BY <1>2, <1>5, <1>6, <1>7, NoRoundMoves DEF IInv

\* A machine is stopped when nothing runs in it, and rounds are given out when
\* the tick is over.
LEMMA ReleaseStep == ASSUME IInv, TickRelease PROVE IInv'
<1> DEFINE p == tick.project
<1>1. TypeOK /\ tick \in Tick /\ NoOne \notin Sandboxes \cup Projects
  BY SandboxLimits DEF IInv, TypeOK
<1>2. /\ UNCHANGED <<lock, ledger, reserved, record, old, run, finished, recovered, person>>
      /\ tick.at = "scan" /\ tick' = IdleTick
  BY DEF TickRelease, registry
<1>3. p \in Projects
  BY <1>1, <1>2 DEF TypeOK, Tick
<1>4. /\ up' \in [Projects -> BOOLEAN] /\ firewall' \in [Projects -> BOOLEAN]
      /\ prepared' \in [Projects -> BOOLEAN]
      /\ quiet' \in [Projects -> {"unseen", "busy", "quiet", "released"}]
      /\ box' \in [Sandboxes -> {"none", "stopped", "running", "dead"}]
      /\ events' \in 0..MaxEvents
      /\ Sealed'
  <2>0. events' \in 0..MaxEvents
    <3>1. UNCHANGED events \/ Spend
      BY DEF TickRelease, ReleaseFails
    <3> QED
      BY <1>1, <3>1, Spent DEF TypeOK
  <2>1. CASE /\ UNCHANGED <<up, firewall, prepared, box>>
             /\ quiet' = [quiet EXCEPT ![p] = "busy"] \/ quiet' = [quiet EXCEPT ![p] = SeenQuiet(@)]
    <3>1. Sealed'
      BY <2>1 DEF IInv, Sealed
    <3>2. QED
      BY <1>1, <1>3, <2>0, <2>1, <3>1 DEF TypeOK, SeenQuiet
  <2>2. CASE /\ \E S \in SUBSET Sandboxes :
                  box' = [s \in Sandboxes |-> IF s \in S THEN Reaped(p)[s] ELSE box[s]]
             /\ UNCHANGED <<up, firewall, prepared, quiet>>
    <3>1. PICK S \in SUBSET Sandboxes :
            box' = [s \in Sandboxes |-> IF s \in S THEN Reaped(p)[s] ELSE box[s]]
      BY <2>2
    <3>2. \A r \in Sandboxes : Reaped(p)[r] \in {box[r], "stopped", "none"}
      BY DEF Reaped
    <3>3. \A r \in Sandboxes : box'[r] \in {box[r], "stopped", "none"}
      BY <3>1, <3>2
    <3>4. box' \in [Sandboxes -> {"none", "stopped", "running", "dead"}]
      BY <1>1, <3>1, <3>2 DEF TypeOK
    <3>5. Sealed'
      BY <2>2, <3>3, NothingStarts
    <3>6. QED
      BY <1>1, <2>0, <2>2, <3>4, <3>5 DEF TypeOK
  <2>3. CASE /\ box' = Reaped(p) /\ Clear(p) /\ StopMachine(p)
             /\ prepared' \in {prepared, [prepared EXCEPT ![p] = FALSE]}
             /\ quiet' \in {quiet, [quiet EXCEPT ![p] = "released"]}
    <3>0. /\ up' = [up EXCEPT ![p] = FALSE]
          /\ firewall' = [firewall EXCEPT ![p] = FALSE]
      BY <2>3 DEF StopMachine
    <3>1. \A r \in Sandboxes : box'[r] = "running" => box[r] = "running" /\ ProjectOf[r] # p
      BY <2>3 DEF Clear, Reaped, In
    <3>2. \A q \in Projects : up'[q] /\ prepared'[q] => firewall'[q]
      BY <1>1, <1>3, <2>3, <3>0 DEF IInv, TypeOK, Sealed
    <3>3. \A r \in Sandboxes : box'[r] = "running" => firewall'[ProjectOf[r]]
      BY <1>1, <3>0, <3>1, SandboxLimits DEF IInv, TypeOK, Sealed
    <3>4. Sealed'
      BY <3>2, <3>3 DEF Sealed
    <3>5. box' \in [Sandboxes -> {"none", "stopped", "running", "dead"}]
      BY <1>1, <2>3 DEF TypeOK, Reaped
    <3>6. QED
      BY <1>1, <1>3, <2>0, <2>3, <3>0, <3>4, <3>5 DEF TypeOK
  <2>4. CASE ReleaseFails(p)
    BY <2>2, <2>3, <2>4 DEF ReleaseFails, In
  <2>5. CASE box' = Reaped(p) /\ UNCHANGED <<up, firewall, prepared, quiet>>
    <3>1. box' = [s \in Sandboxes |-> IF s \in Sandboxes THEN Reaped(p)[s] ELSE box[s]]
      BY <2>5 DEF Reaped
    <3> QED
      BY <2>2, <2>5, <3>1
  <2>6. QED
    BY <2>1, <2>3, <2>4, <2>5 DEF TickRelease
<1>5. PICK S \in SUBSET (Eligible(p) \ (tick.unreconciled \cup tick.inflight)) :
        /\ round' = [s \in Sandboxes |->
                       IF s \in S THEN [IdleRound EXCEPT !.at = "dispatched"] ELSE round[s]]
        /\ left' = [s \in Sandboxes |-> IF s \in S THEN left[s] - 1 ELSE left[s]]
  BY DEF TickRelease
<1>6. \A s \in S : s \in Sandboxes /\ round[s].at = "idle" /\ left[s] > 0
  BY <1>2, <1>5 DEF IInv, Snapshot, Eligible, In
<1>7. round' \in [Sandboxes -> Round] /\ left' \in [Sandboxes -> Nat]
  BY <1>1, <1>5, <1>6 DEF TypeOK, Round, IdleRound, RoundSteps
<1>8. \A s \in Sandboxes : round'[s].at = IF s \in S THEN "dispatched" ELSE round[s].at
  BY <1>5 DEF IdleRound
<1>9. Locks'
  BY <1>2, <1>6, <1>8 DEF IInv, Locks, OneEnsures, Locked
<1>10. Budget'
  BY <1>2, <1>6, <1>8 DEF IInv, Budget, In, Unreserved
<1>11. Snapshot' /\ tick' \in Tick
  BY <1>2 DEF Snapshot, IdleTick, Tick
<1>12. TypeOK'
  BY <1>1, <1>2, <1>4, <1>7, <1>11 DEF TypeOK, IdleTick
<1>13. QED
  BY <1>4, <1>9, <1>10, <1>11, <1>12 DEF IInv

\* A reset of an issue takes its container and its records.
LEMMA PersonKeeps == ASSUME IInv, PersonStep PROVE IInv'
<1>1. TypeOK /\ person \in Person /\ NoOne \notin Sandboxes
  BY SandboxLimits DEF IInv, TypeOK
<1>2. UNCHANGED <<up, firewall, prepared, lock, reserved, round, left, finished, tick, quiet,
                  recovered>>
  BY DEF PersonStep, PersonDrained, PersonDelete, PersonForget, hosts, worker
<1>3. Snapshot' /\ Locks' /\ Budget'
  BY <1>2, NoRoundMoves DEF IInv, Snapshot, In
<1>4. ASSUME NEW s \in Sandboxes, PersonDrained(s) PROVE IInv'
  <2>1. UNCHANGED <<box, ledger, record, old, run>> /\ Spend
        /\ person' = [at |-> "drained", sandbox |-> s]
    BY <1>4 DEF PersonDrained, containers, registry
  <2>2. TypeOK'
    BY <1>1, <1>2, <2>1, Spent DEF TypeOK, Person
  <2>3. Sealed'
    BY <1>2, <2>1 DEF IInv, Sealed
  <2>4. QED
    BY <1>3, <2>2, <2>3 DEF IInv
<1>5. CASE PersonDelete
  <2>1. UNCHANGED <<ledger, record, old, run, events>> /\ person.at = "drained"
        /\ person' = [person EXCEPT !.at = "deleted"]
    BY <1>5 DEF PersonDelete, registry
  <2>2. person' \in Person /\ person'.at = "deleted" /\ person'.sandbox = person.sandbox
        /\ person.sandbox # NoOne
    BY <1>1, <2>1 DEF Person, TypeOK
  <2>3. /\ box' \in [Sandboxes -> {"none", "stopped", "running", "dead"}]
        /\ \A r \in Sandboxes : box'[r] = "running" => box[r] = "running"
    BY <1>1, <1>5 DEF PersonDelete, TypeOK
  <2>4. TypeOK'
    BY <1>1, <1>2, <2>1, <2>2, <2>3 DEF TypeOK
  <2>5. Sealed'
    BY <1>2, <2>3, NothingStarts
  <2>6. QED
    BY <1>3, <2>4, <2>5 DEF IInv
<1>6. CASE PersonForget
  <2>1. /\ UNCHANGED <<box, events>> /\ person.at = "deleted" /\ person' = IdlePerson
        /\ ledger' = [ledger EXCEPT ![person.sandbox] = FALSE]
        /\ SaveSandbox(person.sandbox, "Absent")
        /\ run' = [run EXCEPT ![person.sandbox] = "none"]
    BY <1>6 DEF PersonForget
  <2>2. person.sandbox \in Sandboxes
    BY <1>1, <2>1 DEF TypeOK, Person
  <2>3. TypeOK'
    BY <1>1, <1>2, <2>1, <2>2, SaveTypes DEF TypeOK, Person, IdlePerson
  <2>4. Sealed'
    BY <1>2, <2>1 DEF IInv, Sealed
  <2>5. QED
    BY <1>3, <2>3, <2>4 DEF IInv
<1>7. QED
  BY <1>4, <1>5, <1>6 DEF PersonStep

\* Time passes, machines and containers fail, and the daemon dies.
LEMMA WorldKeeps == ASSUME IInv, World PROVE IInv'
<1>1. TypeOK
  BY DEF IInv
<1>2. ASSUME NEW s \in Sandboxes, Ages(s) \/ Finishes(s) \/ Dies(s) PROVE IInv'
  <2>1. UNCHANGED <<up, firewall, prepared, lock, ledger, reserved, record, run, round, left,
                    tick, quiet, recovered, person>>
    BY <1>2 DEF Ages, Finishes, Dies, hosts, containers, registry, worker
  <2>2. /\ box' \in [Sandboxes -> {"none", "stopped", "running", "dead"}]
        /\ \A r \in Sandboxes : box'[r] = "running" => box[r] = "running"
        /\ old' \in [Sandboxes -> BOOLEAN] /\ finished' \in [Sandboxes -> BOOLEAN]
    BY <1>1, <1>2 DEF Ages, Finishes, Dies, TypeOK, containers, registry
  <2>3. events' \in 0..MaxEvents
    BY <1>1, <1>2, Spent DEF Ages, Finishes, Dies, TypeOK
  <2>4. TypeOK'
    BY <1>1, <2>1, <2>2, <2>3 DEF TypeOK
  <2>5. Sealed'
    BY <2>1, <2>2, NothingStarts
  <2>6. Snapshot'
    BY <2>1 DEF IInv, Snapshot, In
  <2>7. QED
    BY <2>1, <2>4, <2>5, <2>6, NoRoundMoves DEF IInv
<1>3. ASSUME NEW p \in Projects, QuietGrows(p) \/ Outage(p) PROVE IInv'
  <2>1. UNCHANGED <<prepared, lock, ledger, reserved, record, old, run, round, left, finished,
                    tick, recovered, person>>
    BY <1>3 DEF QuietGrows, Outage, hosts, containers, registry, worker
  <2>2. Snapshot' /\ Locks' /\ Budget'
    BY <2>1, NoRoundMoves DEF IInv, Snapshot, In
  <2>3. CASE QuietGrows(p)
    <3>1. UNCHANGED <<up, firewall, box, events>> /\ quiet' = [quiet EXCEPT ![p] = "quiet"]
      BY <2>3 DEF QuietGrows, hosts, containers
    <3>2. TypeOK' /\ Sealed'
      BY <1>1, <2>1, <3>1 DEF TypeOK, IInv, Sealed
    <3>3. QED
      BY <2>2, <3>2 DEF IInv
  <2>4. CASE Outage(p)
    <3>1. /\ Spend /\ UNCHANGED quiet
          /\ up' = [up EXCEPT ![p] = FALSE] /\ firewall' = [firewall EXCEPT ![p] = FALSE]
          /\ box' = [s \in Sandboxes |->
                       IF s \in In(p) /\ box[s] = "running" THEN "stopped" ELSE box[s]]
      BY <2>4 DEF Outage, worker
    <3>2. box' \in [Sandboxes -> {"none", "stopped", "running", "dead"}]
      BY <1>1, <3>1 DEF TypeOK
    <3>3. \A r \in Sandboxes : box'[r] = "running" => box[r] = "running" /\ ProjectOf[r] # p
      BY <3>1 DEF In
    <3>4. \A q \in Projects : up'[q] /\ prepared'[q] => firewall'[q]
      BY <1>1, <2>1, <3>1 DEF IInv, TypeOK, Sealed
    <3>5. \A r \in Sandboxes : box'[r] = "running" => firewall'[ProjectOf[r]]
      BY <1>1, <3>1, <3>3, SandboxLimits DEF IInv, TypeOK, Sealed
    <3>6. TypeOK'
      BY <1>1, <2>1, <3>1, <3>2, Spent DEF TypeOK
    <3>7. QED
      BY <2>2, <3>4, <3>5, <3>6 DEF IInv, Sealed
  <2>5. QED
    BY <1>3, <2>3, <2>4
<1>4. CASE Crash
  <2>1. /\ Spend /\ UNCHANGED <<up, firewall, box, ledger, record, old, run, left, finished>>
        /\ prepared' = [p \in Projects |-> FALSE]
        /\ lock' = [p \in Projects |-> NoOne]
        /\ reserved' = {}
        /\ round' = [s \in Sandboxes |-> IdleRound]
        /\ tick' = IdleTick
        /\ quiet' = [p \in Projects |-> "unseen"]
        /\ recovered' = [p \in Projects |-> FALSE]
        /\ person' = IdlePerson
    BY <1>4 DEF Crash, containers, registry
  <2>2. TypeOK'
    BY <1>1, <2>1, Spent DEF TypeOK, IdleTick, Tick, IdlePerson, Person, IdleRound, Round, RoundSteps
  <2>3. Sealed'
    BY <2>1 DEF IInv, Sealed
  <2>4. Locks'
    BY <2>1, SandboxLimits DEF Locks, OneEnsures, Locked, IdleRound
  <2>5. Budget'
    <3>1. \A p \in Projects : reserved' \cap In(p) = {}
      BY <2>1
    <3>2. \A p \in Projects : Cardinality(reserved' \cap In(p)) <= MaxHeld
      BY <3>1, FS_EmptySet, SandboxLimits
    <3>3. QED
      BY <2>1, <3>2 DEF Budget, IdleRound, Unreserved, In
  <2>6. Snapshot'
    BY <2>1 DEF Snapshot, IdleTick
  <2>7. QED
    BY <2>2, <2>3, <2>4, <2>5, <2>6 DEF IInv
<1>5. QED
  BY <1>2, <1>3, <1>4 DEF World

-----------------------------------------------------------------------------
(* The invariant *)

LEMMA Initially == Init => IInv
<1> SUFFICES ASSUME Init PROVE IInv
  OBVIOUS
<1>1. TypeOK
  BY SandboxLimits DEF Init, TypeOK, IdleRound, Round, RoundSteps, IdleTick, Tick, IdlePerson, Person
<1>2. Sealed /\ Snapshot
  BY DEF Init, Sealed, Snapshot, IdleTick
<1>3. Locks
  BY SandboxLimits DEF Init, Locks, OneEnsures, Locked, IdleRound
<1>4. Budget
  <2>1. \A p \in Projects : reserved \cap In(p) = {}
    BY DEF Init
  <2>2. \A p \in Projects : Cardinality(reserved \cap In(p)) <= MaxHeld
    BY <2>1, FS_EmptySet, SandboxLimits
  <2>3. QED
    BY <2>2 DEF Init, Budget, IdleRound, Unreserved
<1>5. QED
  BY <1>1, <1>2, <1>3, <1>4 DEF IInv

LEMMA Idles == ASSUME IInv, UNCHANGED vars PROVE IInv'
<1>1. UNCHANGED <<up, firewall, prepared, lock, box, ledger, reserved, record, old, run, round,
                  left, finished, tick, quiet, recovered, person, events>>
  BY DEF vars, hosts, containers, registry, worker
<1>2. TypeOK' /\ Sealed' /\ Snapshot'
  BY <1>1 DEF IInv, TypeOK, Sealed, Snapshot, In
<1>3. QED
  BY <1>1, <1>2, NoRoundMoves DEF IInv

\* The invariant the theorems rest on.
LEMMA Invariant == Spec => []IInv
<1>1. Init => IInv
  BY Initially
<1>2. IInv /\ [Next]_vars => IInv'
  <2> SUFFICES ASSUME IInv, [Next]_vars PROVE IInv'
    OBVIOUS
  <2>1. CASE TickStep
    BY <2>1, RefreshStep, DeleteStep, PassStep, FailStep, ForgetStep, ReleaseStep DEF TickStep
  <2>2. CASE UNCHANGED vars
    BY <2>2, Idles
  <2>3. QED
    BY <2>1, <2>2, RoundKeeps, TickStartStep, TickSkipStep, PersonKeeps, WorldKeeps DEF Next
<1>3. QED
  BY <1>1, <1>2, PTL DEF Spec

\* Every variable keeps to its type, whatever the number of rounds.
THEOREM SandboxesTypeCorrect == Spec => []TypeOK
<1>1. IInv => TypeOK
  BY DEF IInv
<1>2. QED
  BY <1>1, Invariant, PTL

\* An agent only works behind its machine's firewall (prepare.go, Client.prepared):
\* the rules are gone whenever a machine goes down, whoever brings it up again.
THEOREM AgentsAreBehindFirewall == Spec => []WorksBehindFirewall
<1>1. IInv => WorksBehindFirewall
  BY DEF IInv, Sealed, WorksBehindFirewall
<1>2. QED
  BY <1>1, Invariant, PTL

\* Ensure is serialised per profile (Client.lockFor).
THEOREM EnsuringIsSerial == Spec => []OneEnsures
<1>1. IInv => OneEnsures
  BY DEF IInv, Locks
<1>2. QED
  BY <1>1, Invariant, PTL

\* The rounds past admission fit in a profile's memory (capacity.go, Reserve),
\* for any number of rounds that ask at once.
THEOREM MemoryHolds == Spec => []WorkWithinMemory
<1>1. IInv => WorkWithinMemory
  <2> SUFFICES ASSUME IInv, NEW p \in Projects
               PROVE  Cardinality({s \in In(p) : round[s].at \notin {"idle", "dispatched", "listed"}}) <= MaxHeld
    BY DEF WorkWithinMemory
  <2>1. {s \in In(p) : round[s].at \notin {"idle", "dispatched", "listed"}} = reserved \cap In(p)
    BY DEF IInv, Budget, Unreserved, In
  <2>2. QED
    BY <2>1 DEF IInv, Budget
<1>2. QED
  BY <1>1, Invariant, PTL

-----------------------------------------------------------------------------
(* A round's container is its own: Sandboxes implements SandboxLease *)

held == [s \in Sandboxes |-> round[s].at \in Holding /\ ledger[s]]
asked == [s \in Sandboxes |-> person.sandbox = s]
ups == [s \in Sandboxes |-> up[ProjectOf[s]]]

LeaseStep == Lease!Next \/ UNCHANGED <<held, asked, ups, box>>

\* What is done beside the rounds that hold a container.
LEMMA Besides ==
    ASSUME IInv, IInv', NEW S \in SUBSET Sandboxes,
           \A s \in Sandboxes : held[s] /\ ups[s] => ups'[s],
           \A s \in Sandboxes \ S : held[s] => box'[s] = box[s]
    PROVE  Lease!Beside(S)
<1>1. up \in [Projects -> BOOLEAN] /\ up' \in [Projects -> BOOLEAN]
  BY DEF IInv, TypeOK
<1>2. ups' \in [Sandboxes -> BOOLEAN]
  BY <1>1, SandboxLimits DEF ups
<1>3. box' \in [Sandboxes -> {"none", "stopped", "running", "dead"}]
  BY DEF IInv, TypeOK
<1>4. QED
  BY <1>2, <1>3 DEF Lease!Beside, Lease!Boxes, held, ups

LEMMA Collects ==
    ASSUME IInv, IInv', UNCHANGED <<held, asked>>,
           \A s \in Sandboxes : held[s] /\ ups[s] => ups'[s],
           \A s \in Sandboxes : held[s] => box'[s] = box[s]
    PROVE  LeaseStep
<1>1. Lease!Beside({})
  BY Besides
<1>2. Lease!Collect
  BY <1>1 DEF Lease!Collect, held, asked
<1>3. QED
  BY <1>2 DEF LeaseStep, Lease!Next

\* Machines that a round boots stay up, those it fails to boot as they are.
LEMMA Boot ==
    ASSUME IInv, NEW p \in Projects, Boots(p) \/ BootFails(p)
    PROVE  \A s \in Sandboxes : ups[s] => ups'[s]
BY SandboxLimits DEF IInv, TypeOK, Boots, BootFails, ups

\* Before a round holds its container: the steps up to Ensure's last.
LEMMA LeaseBefore ==
    ASSUME IInv, IInv', NEW s \in Sandboxes,
           RoundList(s) \/ RoundReserve(s) \/ RoundBegin(s) \/ RoundBoot(s) \/ RoundPrune(s)
    PROVE  LeaseStep
<1>1. round[s].at \in {"dispatched", "listed", "reserved", "booting", "pruning"}
      /\ UNCHANGED <<ledger, person>>
  BY DEF RoundList, RoundReserve, RoundBegin, RoundBoot, RoundPrune, containers
<1>2. /\ round'[s].at \notin Holding
      /\ \A r \in Sandboxes \ {s} : round'[r] = round[r]
  BY DEF IInv, TypeOK, Round, RoundList, RoundReserve, RoundBegin, RoundBoot, RoundPrune, HostFail,
         RoundOver, Advance, IdleRound, Holding
<1>3. UNCHANGED <<held, asked>>
  BY <1>1, <1>2 DEF held, asked, Holding
<1>4. \A r \in Sandboxes : ups[r] => ups'[r]
  <2>1. CASE RoundBoot(s)
    BY <2>1, Boot, SandboxLimits DEF RoundBoot
  <2>2. CASE ~RoundBoot(s)
    BY <2>2 DEF RoundList, RoundReserve, RoundBegin, RoundPrune, hosts, ups
  <2>3. QED
    BY <2>1, <2>2
<1>5. \A r \in Sandboxes : held[r] => box'[r] = box[r]
  BY DEF held, RoundList, RoundReserve, RoundBegin, RoundBoot, RoundPrune, containers, Pruned,
         IInv, TypeOK
<1>6. QED
  BY <1>3, <1>4, <1>5, Collects

\* Ensure's last step hands the container over.
LEMMA LeaseHandOver ==
    ASSUME IInv, IInv', NEW s \in Sandboxes, RoundEnsure(s) \/ RoundCreate(s)
    PROVE  LeaseStep
<1>1. /\ round[s].at \in {"ensuring", "creating"} /\ ~held[s]
      /\ UNCHANGED <<up, person>>
  BY DEF RoundEnsure, RoundCreate, held, Holding
<1>2. /\ \A r \in Sandboxes \ {s} : round'[r] = round[r] /\ box'[r] = box[r] /\ ledger'[r] = ledger[r]
      /\ round'[s].at \in {"idle", "creating", "starting"}
      /\ round'[s].at = "starting" => box'[s] # "none"
  BY DEF IInv, TypeOK, Round, RoundEnsure, RoundCreate, HostFail, RoundOver, Advance, IdleRound,
         containers, Found
<1>3. UNCHANGED <<asked, ups>>
  BY <1>1 DEF asked, ups
<1>4. \A r \in Sandboxes \ {s} : held'[r] = held[r]
  BY <1>2 DEF held
<1>5. CASE held'[s]
  <2>1. held' = [held EXCEPT ![s] = TRUE]
    BY <1>4, <1>5 DEF held
  <2>2. box'[s] # "none"
    BY <1>2, <1>5 DEF held, Holding
  <2>3. Lease!Beside({s})
    BY <1>2, <1>3, Besides
  <2>4. Lease!Acquire(s)
    BY <1>1, <1>3, <2>1, <2>2, <2>3 DEF Lease!Acquire, held, asked
  <2>5. QED
    BY <2>4 DEF LeaseStep, Lease!Next
<1>6. CASE ~held'[s]
  <2>1. UNCHANGED held
    BY <1>1, <1>4, <1>6 DEF held
  <2>2. QED
    BY <1>1, <1>2, <1>3, <2>1, Collects
<1>7. QED
  BY <1>5, <1>6

\* The round starts its container, or lets go of it.
LEMMA LeaseStart ==
    ASSUME IInv, IInv', NEW s \in Sandboxes, RoundStart(s)
    PROVE  LeaseStep
<1> DEFINE p == ProjectOf[s]
           there == IF up[p] THEN box ELSE Pruned(p)
           started == [there EXCEPT ![s] = "running"]
<1>1. /\ round[s].at = "starting" /\ UNCHANGED <<ledger, person>> /\ p \in Projects
      /\ box \in [Sandboxes -> {"none", "stopped", "running", "dead"}]
  BY SandboxLimits DEF RoundStart, IInv, TypeOK
<1>2. \A r \in Sandboxes : ups[r] => ups'[r]
  BY <1>1, Boot DEF RoundStart
<1>3. UNCHANGED asked
  BY <1>1 DEF asked
<1>4. \A r \in Sandboxes : ledger[r] => there[r] = box[r]
  BY <1>1 DEF Pruned
<1>5. there \in [Sandboxes -> {"none", "stopped", "running", "dead"}]
  BY <1>1 DEF Pruned
<1> HIDE DEF there
<1>6. box' \in {started, there, box}
  BY DEF RoundStart, there
<1>7. \A r \in Sandboxes \ {s} : held[r] => box'[r] = box[r]
  BY <1>1, <1>4, <1>5, <1>6 DEF held
<1>8. \A r \in Sandboxes \ {s} : round'[r] = round[r]
  BY DEF RoundStart, HostFail, RoundOver, Advance, IInv, TypeOK
<1>9. round'[s].at \in {"idle", "working"}
  BY DEF RoundStart, HostFail, RoundOver, Advance, IInv, TypeOK, Round, IdleRound
<1>10. \A r \in Sandboxes \ {s} : held'[r] = held[r]
  BY <1>1, <1>8 DEF held
<1>11. CASE ~held[s]
  <2>1. ~held'[s]
    BY <1>1, <1>11 DEF held, Holding
  <2>2. UNCHANGED held
    BY <1>10, <1>11, <2>1 DEF held
  <2>3. \A r \in Sandboxes : held[r] => box'[r] = box[r]
    BY <1>7, <1>11
  <2>4. QED
    BY <1>2, <1>3, <2>2, <2>3, Collects
<1>12. CASE held[s]
  <2>1. Lease!Beside({s})
    BY <1>2, <1>7, Besides
  <2>2. ledger[s] /\ there[s] = box[s]
    BY <1>4, <1>12 DEF held
  <2>3. started[s] = "running"
    BY <1>5
  <2>4. CASE round'[s].at = "working"
    <3>1. box'[s] = "running"
      BY <1>1, <2>3, <2>4 DEF RoundStart, HostFail, RoundOver, IdleRound, IInv, TypeOK, there
    <3>2. held'[s]
      BY <1>1, <2>2, <2>4 DEF held, Holding
    <3>3. UNCHANGED held
      BY <1>10, <1>12, <3>2 DEF held
    <3>4. Lease!Use(s)
      BY <1>3, <1>12, <2>1, <3>1, <3>3 DEF Lease!Use, held, asked
    <3>5. QED
      BY <3>4 DEF LeaseStep, Lease!Next
  <2>5. CASE round'[s].at = "idle"
    <3>1. ~held'[s]
      BY <2>5 DEF held, Holding
    <3>2. held' = [held EXCEPT ![s] = FALSE]
      BY <1>10, <3>1 DEF held
    <3>3. box'[s] \in {box[s], "stopped", "running"}
      BY <1>6, <2>2, <2>3
    <3>4. Lease!Release(s)
      BY <1>3, <1>12, <2>1, <3>2, <3>3 DEF Lease!Release, held, asked
    <3>5. QED
      BY <3>4 DEF LeaseStep, Lease!Next
  <2>6. QED
    BY <1>9, <2>4, <2>5
<1>13. QED
  BY <1>11, <1>12

LEMMA LeaseStop ==
    ASSUME IInv, IInv', NEW s \in Sandboxes, RoundStop(s)
    PROVE  LeaseStep
<1>1. /\ UNCHANGED <<up, ledger, person>> /\ RoundOver(s)
      /\ \A r \in Sandboxes \ {s} : box'[r] = box[r]
      /\ box'[s] \in {box[s], "stopped"}
  BY DEF RoundStop, IInv, TypeOK
<1>2. UNCHANGED <<asked, ups>>
  BY <1>1 DEF asked, ups
<1>3. ~held'[s] /\ \A r \in Sandboxes \ {s} : held'[r] = held[r]
  BY <1>1 DEF RoundOver, IdleRound, held, Holding, IInv, TypeOK
<1>4. CASE held[s]
  <2>1. held' = [held EXCEPT ![s] = FALSE]
    BY <1>3 DEF held
  <2>2. Lease!Beside({s})
    BY <1>1, <1>2, Besides
  <2>3. Lease!Release(s)
    BY <1>1, <1>2, <1>4, <2>1, <2>2 DEF Lease!Release, held, asked
  <2>4. QED
    BY <2>3 DEF LeaseStep, Lease!Next
<1>5. CASE ~held[s]
  <2>1. UNCHANGED held
    BY <1>3, <1>5 DEF held
  <2>2. QED
    BY <1>1, <1>2, <1>5, <2>1, Collects
<1>6. QED
  BY <1>4, <1>5

\* The scheduler's tick keeps to what no round it has seen is in, and no round
\* has begun since it looked.
LEMMA LeaseTick ==
    ASSUME IInv, IInv', TickStep
    PROVE  LeaseStep
<1>1. UNCHANGED person
  BY DEF TickStep, TickRefresh, TickDelete, TickPass, TickFail, TickForget, TickRelease
<1>2. UNCHANGED asked
  BY <1>1 DEF asked
<1>3. tick.at # "idle" => \A r \in In(tick.project) : held[r] => r \in tick.inflight
  BY DEF IInv, Snapshot, held, Holding, In
<1>4. ASSUME NEW s \in Sandboxes, TickRefresh(s) \/ TickDelete(s)
      PROVE  LeaseStep
  <2>1. /\ UNCHANGED <<up, ledger, round>> /\ tick.at = "scan" /\ s \in tick.todo
        /\ s \notin tick.inflight
        /\ \A r \in Sandboxes \ {s} : box'[r] = box[r]
    BY <1>4 DEF TickRefresh, TickDelete, ForceStop, OffLimits, hosts, IInv, TypeOK
  <2>2. ~held[s]
    BY <1>3, <2>1 DEF IInv, Snapshot
  <2>3. UNCHANGED <<held, ups>>
    BY <2>1 DEF held, ups
  <2>4. QED
    BY <1>2, <2>1, <2>2, <2>3, Collects
<1>5. ASSUME NEW s \in Sandboxes, TickPass(s) \/ TickFail(s)
      PROVE  LeaseStep
  <2>1. UNCHANGED <<up, ledger, round, box>>
    BY <1>5 DEF TickPass, TickFail, hosts, containers
  <2>2. QED
    BY <1>2, <2>1 DEF LeaseStep, held, ups
<1>6. CASE TickForget
  <2>1. /\ UNCHANGED <<up, round, box>> /\ tick.at = "delete"
        /\ ledger' = [ledger EXCEPT ![tick.sandbox] = FALSE]
    BY <1>6 DEF TickForget, hosts
  <2>2. tick.sandbox \in Sandboxes /\ ~held[tick.sandbox]
    BY <1>3, <2>1 DEF IInv, Snapshot, In
  <2>3. \A r \in Sandboxes : held'[r] = held[r]
    BY <2>1, <2>2 DEF held, IInv, TypeOK
  <2>4. UNCHANGED held
    BY <2>3 DEF held
  <2>5. QED
    BY <1>2, <2>1, <2>4 DEF LeaseStep, ups
<1>7. CASE TickRelease
  <2>1. tick.at = "scan" /\ UNCHANGED ledger
    BY <1>7 DEF TickRelease
  <2>2. PICK S \in SUBSET (Eligible(tick.project) \ (tick.unreconciled \cup tick.inflight)) :
          round' = [s \in Sandboxes |->
                      IF s \in S THEN [IdleRound EXCEPT !.at = "dispatched"] ELSE round[s]]
    BY <1>7 DEF TickRelease
  <2>3. \A r \in S : ~held[r]
    BY <1>3, <2>1, <2>2 DEF Eligible, In
  <2>4. \A r \in Sandboxes : held'[r] = held[r]
    BY <2>1, <2>2, <2>3 DEF held, IdleRound, Holding
  <2>5. UNCHANGED held
    BY <2>4 DEF held
  <2>6. CASE UNCHANGED <<up, box>>
    BY <1>2, <2>5, <2>6 DEF LeaseStep, ups
  <2>7. CASE /\ tick.inflight = {}
             /\ \A r \in Sandboxes \ In(tick.project) : box'[r] = box[r]
             /\ up' \in {up, [up EXCEPT ![tick.project] = FALSE]}
    <3>1. \A r \in Sandboxes : held[r] => ProjectOf[r] # tick.project
      BY <1>3, <2>1, <2>7 DEF In
    <3>2. \A r \in Sandboxes : held[r] => box'[r] = box[r]
      BY <2>7, <3>1 DEF In
    <3>3. \A r \in Sandboxes : held[r] /\ ups[r] => ups'[r]
      BY <2>7, <3>1, SandboxLimits DEF ups, IInv, TypeOK
    <3>4. QED
      BY <1>2, <2>5, <3>2, <3>3, Collects
  <2>8. CASE Busy \/ quiet[tick.project] # "quiet"
    BY <1>7, <2>6, <2>8 DEF TickRelease
  <2>9. CASE ~Busy /\ quiet[tick.project] = "quiet"
    <3>1. tick.inflight = {}
      BY <2>9 DEF Busy
    <3>2. \A r \in Sandboxes \ In(tick.project) : Reaped(tick.project)[r] = box[r]
      BY DEF Reaped
    <3>3. \/ UNCHANGED <<up, box>>
          \/ box' = Reaped(tick.project) /\ up' \in {up, [up EXCEPT ![tick.project] = FALSE]}
          \/ ReleaseFails(tick.project)
      BY <1>7 DEF TickRelease, StopMachine
    <3>4. ReleaseFails(tick.project) =>
            /\ \A r \in Sandboxes \ In(tick.project) : box'[r] = box[r]
            /\ up' \in {up, [up EXCEPT ![tick.project] = FALSE]}
      BY <3>2 DEF ReleaseFails, StopMachine
    <3> QED
      BY <2>6, <2>7, <3>1, <3>2, <3>3, <3>4
  <2>10. QED
    BY <2>8, <2>9
<1>8. QED
  BY <1>4, <1>5, <1>6, <1>7 DEF TickStep

\* A reset takes the container of the issue it is for, whoever holds it.
LEMMA LeasePerson ==
    ASSUME IInv, IInv', PersonStep
    PROVE  LeaseStep
<1>1. UNCHANGED <<up, round>>
  BY DEF PersonStep, PersonDrained, PersonDelete, PersonForget, hosts
<1>2. UNCHANGED ups
  BY <1>1 DEF ups
<1>3. ASSUME NEW s \in Sandboxes, PersonDrained(s) PROVE LeaseStep
  <2>1. UNCHANGED <<box, ledger>> /\ person.sandbox = NoOne /\ person'.sandbox = s
    BY <1>3 DEF PersonDrained, containers, IInv, TypeOK
  <2>2. UNCHANGED held
    BY <1>1, <2>1 DEF held
  <2>3. asked' = [asked EXCEPT ![s] = TRUE]
    BY <2>1, SandboxLimits DEF asked
  <2>4. Lease!Ask(s)
    BY <1>2, <2>1, <2>2, <2>3 DEF Lease!Ask, held, asked, ups
  <2>5. QED
    BY <2>4 DEF LeaseStep, Lease!Next
<1>4. ASSUME person.at # "idle"
      PROVE  person.sandbox \in Sandboxes /\ asked[person.sandbox]
  BY <1>4 DEF IInv, TypeOK, Person, asked
<1>5. CASE PersonDelete
  <2>1. /\ UNCHANGED ledger /\ person.at = "drained" /\ person'.sandbox = person.sandbox
        /\ box' = box \/ box' = [box EXCEPT ![person.sandbox] = "none"]
    BY <1>5 DEF PersonDelete, IInv, TypeOK, Person
  <2>2. UNCHANGED <<held, asked>>
    BY <1>1, <2>1 DEF held, asked
  <2>3. CASE box' = box
    BY <1>2, <2>2, <2>3 DEF LeaseStep
  <2>4. CASE box' = [box EXCEPT ![person.sandbox] = "none"]
    <3>1. Lease!Seize(person.sandbox)
      BY <1>2, <1>4, <2>1, <2>2, <2>4 DEF Lease!Seize, held, asked, ups
    <3>2. QED
      BY <1>4, <2>1, <3>1 DEF LeaseStep, Lease!Next
  <2>5. QED
    BY <2>1, <2>3, <2>4
<1>6. CASE PersonForget
  <2>1. PICK s \in Sandboxes :
          /\ person.sandbox = s /\ asked[s]
          /\ UNCHANGED box /\ person'.sandbox = NoOne
          /\ ledger' = [ledger EXCEPT ![s] = FALSE]
    BY <1>4, <1>6 DEF PersonForget, IdlePerson
  <2>2. held' = [held EXCEPT ![s] = FALSE]
    BY <1>1, <2>1 DEF held, IInv, TypeOK
  <2>3. asked' = [asked EXCEPT ![s] = FALSE]
    BY <2>1, SandboxLimits DEF asked
  <2>4. Lease!Revoke(s)
    BY <1>2, <2>1, <2>2, <2>3 DEF Lease!Revoke, held, asked, ups
  <2>5. QED
    BY <2>4 DEF LeaseStep, Lease!Next
<1>7. QED
  BY <1>3, <1>5, <1>6 DEF PersonStep

\* What the world does to a container and to machines, it does to leases.
LEMMA LeaseWorld ==
    ASSUME IInv, IInv', World
    PROVE  LeaseStep
<1>1. ASSUME NEW s \in Sandboxes, Ages(s) \/ Finishes(s) PROVE LeaseStep
  <2>1. UNCHANGED <<up, box, ledger, round, person>>
    BY <1>1 DEF Ages, Finishes, hosts, containers
  <2>2. QED
    BY <2>1 DEF LeaseStep, held, asked, ups
<1>2. ASSUME NEW s \in Sandboxes, Dies(s) PROVE LeaseStep
  <2>1. /\ UNCHANGED <<up, ledger, round, person>> /\ box[s] # "none"
        /\ box' = [box EXCEPT ![s] = "dead"]
    BY <1>2 DEF Dies, hosts
  <2>2. Lease!Die(s)
    BY <2>1 DEF Lease!Die, held, asked, ups
  <2>3. QED
    BY <2>2 DEF LeaseStep, Lease!Next
<1>3. ASSUME NEW p \in Projects, QuietGrows(p) PROVE LeaseStep
  <2>1. UNCHANGED <<up, box, ledger, round, person>>
    BY <1>3 DEF QuietGrows, hosts, containers
  <2>2. QED
    BY <2>1 DEF LeaseStep, held, asked, ups
<1>4. ASSUME NEW p \in Projects, Outage(p) PROVE LeaseStep
  <2>1. /\ UNCHANGED <<ledger, round, person>> /\ up[p]
        /\ up' = [up EXCEPT ![p] = FALSE]
        /\ box' = [s \in Sandboxes |->
                     IF s \in In(p) /\ box[s] = "running" THEN "stopped" ELSE box[s]]
    BY <1>4 DEF Outage
  <2>2. UNCHANGED <<held, asked>>
    BY <2>1 DEF held, asked
  <2>3. \A s \in Sandboxes : ups'[s] = (ups[s] /\ s \notin In(p))
    <3>1. \A s \in Sandboxes : ups[s] \in BOOLEAN
      BY SandboxLimits DEF ups, IInv, TypeOK
    <3>2. \A s \in Sandboxes : s \in In(p) => ups'[s] = FALSE
      BY <2>1, SandboxLimits DEF ups, In, IInv, TypeOK
    <3>3. \A s \in Sandboxes : s \notin In(p) => ups'[s] = ups[s]
      BY <2>1, SandboxLimits DEF ups, In, IInv, TypeOK
    <3>4. QED
      BY <3>1, <3>2, <3>3, Zenon
  <2>4. ups' = [s \in Sandboxes |-> ups[s] /\ s \notin In(p)]
    BY <2>3 DEF ups
  <2>5. \A s \in In(p) : ups[s]
    BY <2>1 DEF ups, In
  <2>6. Lease!Outage(In(p))
    BY <2>1, <2>2, <2>4, <2>5 DEF Lease!Outage, held, asked, ups
  <2>7. In(p) \in SUBSET Sandboxes
    BY DEF In
  <2>8. QED
    BY <2>6, <2>7 DEF LeaseStep, Lease!Next
<1>5. CASE Crash
  <2>1. /\ UNCHANGED <<up, box, ledger>> /\ person'.sandbox = NoOne
        /\ \A s \in Sandboxes : round'[s].at = "idle"
    BY <1>5 DEF Crash, containers, IdlePerson, IdleRound
  <2>2. held' = [s \in Sandboxes |-> FALSE] /\ asked' = [s \in Sandboxes |-> FALSE] /\ UNCHANGED ups
    BY <2>1, SandboxLimits DEF held, asked, ups, Holding
  <2>3. Lease!Crash
    BY <2>1, <2>2 DEF Lease!Crash, held, asked, ups
  <2>4. QED
    BY <2>3 DEF LeaseStep, Lease!Next
<1>6. QED
  BY <1>1, <1>2, <1>3, <1>4, <1>5 DEF World

\* Every step is one the lease allows.
LEMMA LeaseSteps == ASSUME IInv, IInv', [Next]_vars PROVE LeaseStep
<1>1. ASSUME NEW s \in Sandboxes, RoundStep(s) PROVE LeaseStep
  BY <1>1, LeaseBefore, LeaseHandOver, LeaseStart, LeaseStop DEF RoundStep
<1>2. ASSUME NEW p \in Projects, TickStart(p) \/ TickSkip(p) PROVE LeaseStep
  <2>1. UNCHANGED <<up, box, ledger, round, person>>
    BY <1>2 DEF TickStart, TickSkip, hosts, containers
  <2>2. QED
    BY <2>1 DEF LeaseStep, held, asked, ups
<1>3. CASE UNCHANGED vars
  <2>1. UNCHANGED <<up, box, ledger, round, person>>
    BY <1>3 DEF vars, hosts, containers
  <2>2. QED
    BY <2>1 DEF LeaseStep, held, asked, ups
<1>4. QED
  BY <1>1, <1>2, <1>3, LeaseTick, LeasePerson, LeaseWorld DEF Next

\* A round's container is its own until it lets go: no sweep, pruning or reaping
\* takes what a round holds, though each judges from a snapshot
\* (ReconcileSandboxesCommand.InFlight, Client.StopProfile).
THEOREM LeaseIsKept == Spec => LeaseKept
<1>1. Init => Lease!Init
  <2> SUFFICES ASSUME Init PROVE Lease!Init
    OBVIOUS
  <2>1. \A s \in Sandboxes : held[s] = FALSE /\ asked[s] = FALSE /\ ups[s] = FALSE
    BY SandboxLimits DEF Init, held, asked, ups, IdleRound, IdlePerson, Holding
  <2>2. /\ held = [s \in Sandboxes |-> FALSE]
        /\ asked = [s \in Sandboxes |-> FALSE]
        /\ ups = [s \in Sandboxes |-> FALSE]
    BY <2>1 DEF held, asked, ups
  <2>3. QED
    BY <2>2 DEF Init, Lease!Init, held, asked, ups
<1>2. IInv /\ IInv' /\ [Next]_vars => [Lease!Next]_(Lease!leaseVars)
  BY LeaseSteps DEF LeaseStep, Lease!leaseVars, held, asked, ups
<1>3. QED
  BY <1>1, <1>2, Invariant, PTL DEF Spec, LeaseKept, Lease!Spec
=============================================================================
