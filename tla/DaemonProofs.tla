----------------------------- MODULE DaemonProofs -----------------------------
(***************************************************************************)
(* What Daemon promises, proved for any number of launches of donsy and of  *)
(* go-merge and wherever a workspace is to start with.                      *)
(***************************************************************************)
EXTENDS Daemon, TLAPS

Ats == Before \cup Claiming \cup Owning \cup After

\* A directory is made once, by the one it is named for.
Fresh(q, r, leg, ro) ==
    r.at \in {"off", "stat", "statRoot", "mkdir"} => leg # q /\ ro # q

\* The directory a process has open is still at one of the paths, and it knows at
\* which of them it opened it.
Placed(r, leg, ro) ==
    /\ r.dir = NoDir <=> r.at \in Before \cup {"over"}
    /\ r.dir # NoDir => r.dir \in {leg, ro}
    /\ r.root /\ r.dir # NoDir => r.dir = ro
    /\ r.at \in {"off", "stat", "statRoot", "mkdir", "openLegacy"} => ~r.root

\* Whoever has the lock has it until it releases it, and serves from the place it
\* locked.
Held(q, r, leg, ro, lk) ==
    /\ r.at \in {"recheck", "rename"} \cup Owning => lk[r.dir] = q
    /\ q \in Procs /\ r.at \in Owning => ro = r.dir
    /\ q \in OldProcs /\ r.at = "serving" => leg = r.dir
    /\ q \in OldProcs => r.at \in {"off", "openLegacy", "flock", "recheck", "serving", "over"}

\* Where the worker and a request may still be, and when they are late.
Quiet(r) ==
    /\ r.worker # "none" => r.at \in (Owning \ {"starting"}) \cup {"exit"}
    /\ r.request => r.at \in {"serving", "drainApi"} \/ r.late
    /\ r.at = "hosts" => r.worker = "done"
    /\ r.at \in {"close", "release", "exit"} /\ r.worker \in {"running", "stopping"} => r.late

Fine(q, r, leg, ro, lk) ==
    Fresh(q, r, leg, ro) /\ Placed(r, leg, ro) /\ Held(q, r, leg, ro, lk) /\ Quiet(r)

PathsOK(leg, ro, lk) ==
    /\ leg \in Dirs \cup {NoDir}
    /\ ro \in Dirs \cup {NoDir}
    /\ leg = ro => leg = NoDir
    /\ lk \in [Dirs -> AllProcs \cup {NoOne}]

IInv ==
    /\ PathsOK(legacy, root, lock)
    /\ hosts \in BOOLEAN
    /\ proc \in [AllProcs -> Process]
    /\ \A q \in AllProcs : Fine(q, proc[q], legacy, root, lock)

\* A step of one process that leaves the paths and the locks alone is judged by
\* that process alone.
LEMMA StepOfOne ==
    ASSUME IInv, NEW p \in AllProcs, NEW r \in Process,
           proc' = [proc EXCEPT ![p] = r], Fine(p, r, legacy, root, lock),
           UNCHANGED <<legacy, root, lock>>, hosts' \in BOOLEAN
    PROVE  IInv'
<1>1. proc' \in [AllProcs -> Process]
  BY DEF IInv
<1>2. \A q \in AllProcs : Fine(q, proc[q], legacy, root, lock)
  BY DEF IInv
<1>3. \A q \in AllProcs : proc'[q] = IF q = p THEN r ELSE proc[q]
  BY DEF IInv
<1>4. \A q \in AllProcs : Fine(q, proc'[q], legacy, root, lock)
  BY <1>2, <1>3
<1>5. PathsOK(legacy, root, lock)
  BY DEF IInv
<1>6. QED
  BY <1>1, <1>4, <1>5 DEF IInv

\* A process that releases its lock leaves the locks of others.
LEMMA ReleaseStep ==
    ASSUME IInv, NEW p \in AllProcs, NEW r \in Process,
           proc' = [proc EXCEPT ![p] = r], Drop(p), Fine(p, r, legacy, root, lock'),
           UNCHANGED <<legacy, root, hosts>>
    PROVE  IInv'
<1>1. proc' \in [AllProcs -> Process]
  BY DEF IInv
<1>2. \A q \in AllProcs : Fine(q, proc[q], legacy, root, lock)
  BY DEF IInv
<1>3. \A q \in AllProcs : proc'[q] = IF q = p THEN r ELSE proc[q]
  BY DEF IInv
<1>4. ASSUME NEW q \in AllProcs, q # p
      PROVE  Fine(q, proc[q], legacy, root, lock')
  <2>1. Held(q, proc[q], legacy, root, lock)
    BY <1>2 DEF Fine
  <2>2. proc[q].dir \in Dirs \cup {NoDir}
    BY DEF IInv, Process
  <2>3. proc[q].at \in {"recheck", "rename"} \cup Owning => proc[q].dir \in Dirs
    BY <1>2, <2>2 DEF Fine, Placed, Before, Owning
  <2>4. Held(q, proc[q], legacy, root, lock')
    BY <1>4, <2>1, <2>3 DEF Held, Drop
  <2>5. QED
    BY <1>2, <2>4 DEF Fine
<1>5. \A q \in AllProcs : Fine(q, proc'[q], legacy, root, lock')
  BY <1>3, <1>4
<1>6. PathsOK(legacy, root, lock')
  BY DEF IInv, PathsOK, Drop
<1>7. QED
  BY <1>1, <1>5, <1>6 DEF IInv

\* What a process is when it is over.
LEMMA Ended ==
    ASSUME IInv, NEW p \in AllProcs, Gone(p), NEW lk
    PROVE  \E r \in Process : proc' = [proc EXCEPT ![p] = r] /\ Fine(p, r, legacy, root, lk)
<1> DEFINE r == [Unlaunched EXCEPT !.at = "over", !.late = proc[p].late]
<1>1. proc[p].late \in BOOLEAN
  BY DEF IInv, Process
<1>2. r \in Process
  BY <1>1 DEF Unlaunched, Process, After
<1>3. r.at = "over" /\ r.dir = NoDir /\ r.worker = "none" /\ ~r.request /\ ~r.root
  BY DEF Unlaunched
<1>4. Fine(p, r, legacy, root, lk)
  BY <1>3 DEF Fine, Fresh, Placed, Held, Quiet, Owning, Before
<1>5. QED
  BY <1>2, <1>4 DEF Gone

-----------------------------------------------------------------------------
(* The steps *)

\* Before anything is launched there is at most one workspace, at one of the paths.
LEMMA Initially == Init => IInv
<1> SUFFICES ASSUME Init PROVE IInv
  OBVIOUS
<1>1. PathsOK(legacy, root, lock)
  BY DEF Init, PathsOK, Dirs
<1>2. hosts \in BOOLEAN /\ proc \in [AllProcs -> Process]
  BY DEF Init, Unlaunched, Process, Before
<1>3. \A q \in AllProcs : legacy # q /\ root # q
  BY DaemonParameters DEF Init
<1>4. \A q \in AllProcs : Fine(q, proc[q], legacy, root, lock)
  BY <1>3 DEF Init, Unlaunched, Fine, Fresh, Placed, Held, Quiet, Before, Owning
<1>5. QED
  BY <1>1, <1>2, <1>4 DEF IInv

\* What a process sees at the paths, and what it opens there
\* (prepareRoot, instancelock.Acquire).
LEMMA LookStep ==
    ASSUME IInv, NEW p \in AllProcs,
           \/ p \in Procs /\ (Launch(p) \/ StatLegacy(p) \/ StatRoot(p))
           \/ Open(p)
    PROVE  IInv'
<1>1. /\ proc[p] \in Process
      /\ Fine(p, proc[p], legacy, root, lock)
      /\ PathsOK(legacy, root, lock)
      /\ hosts \in BOOLEAN
      /\ p \notin OldProcs \/ p \notin Procs
      /\ proc \in [AllProcs -> Process]
  BY DaemonParameters DEF IInv
<1>2. CASE p \in Procs /\ Launch(p)
  <2> DEFINE r == [proc[p] EXCEPT !.at = "stat"]
  <2>1. r \in Process
    BY <1>1 DEF Process, Before
  <2>2. Fine(p, r, legacy, root, lock)
    BY <1>1, <1>2 DEF Launch, Process, Fine, Fresh, Placed, Held, Quiet, Before, Owning
  <2>3. QED
    BY <1>1, <1>2, <2>1, <2>2, StepOfOne DEF Launch, To
<1>3. CASE p \in Procs /\ StatLegacy(p)
  <2> DEFINE r == [proc[p] EXCEPT !.at = "statRoot", !.legacy = legacy # NoDir]
  <2>1. r \in Process
    BY <1>1 DEF Process, Before
  <2>2. Fine(p, r, legacy, root, lock)
    BY <1>1, <1>3 DEF StatLegacy, Process, Fine, Fresh, Placed, Held, Quiet, Before, Owning
  <2>3. QED
    BY <1>1, <1>3, <2>1, <2>2, StepOfOne DEF StatLegacy
<1>4. CASE p \in Procs /\ StatRoot(p)
  <2>1. CASE Gone(p)
    BY <1>1, <1>4, <2>1, Ended, StepOfOne DEF StatRoot
  <2>2. CASE ~(proc[p].legacy /\ root # NoDir)
    <3> DEFINE r == [proc[p] EXCEPT !.root = root # NoDir,
                       !.at = IF root # NoDir THEN "openRoot"
                              ELSE IF proc[p].legacy THEN "openLegacy" ELSE "mkdir"]
    <3>1. r \in Process
      BY <1>1 DEF Process, Before
    <3>2. Fine(p, r, legacy, root, lock)
      BY <1>1, <1>4 DEF StatRoot, Process, Fine, Fresh, Placed, Held, Quiet, Before, Owning
    <3>3. proc' = [proc EXCEPT ![p] = r]
      BY <1>1, <1>4, <2>2 DEF StatRoot
    <3>4. QED
      BY <1>1, <1>4, <3>1, <3>2, <3>3, StepOfOne DEF StatRoot
  <2>3. QED
    BY <1>4, <2>1, <2>2 DEF StatRoot
<1>5. CASE Open(p)
  <2> DEFINE dir == IF proc[p].at = "openRoot" THEN root ELSE legacy
  <2>1. CASE dir = NoDir
    BY <1>1, <1>5, <2>1, Ended, StepOfOne DEF Open
  <2>2. CASE dir # NoDir
    <3> DEFINE r == [proc[p] EXCEPT !.at = "flock", !.dir = dir]
    <3>1. r \in Process
      BY <1>1 DEF Process, Claiming, PathsOK
    <3>2. Fine(p, r, legacy, root, lock)
      BY <1>1, <1>5, <2>2
         DEF Open, Process, Fine, Fresh, Placed, Held, Quiet, Before, Owning
    <3>3. QED
      BY <1>1, <1>5, <2>2, <3>1, <3>2, StepOfOne DEF Open
  <2>3. QED
    BY <2>1, <2>2
<1>6. QED
  BY <1>2, <1>3, <1>4, <1>5

\* While a daemon has the workspace its steps leave the lock and the directory it
\* has, and the invariant is a matter of its worker and its requests (serve).
LEMMA Serving ==
    ASSUME IInv, NEW p \in Procs, NEW r \in Process,
           proc' = [proc EXCEPT ![p] = r], UNCHANGED <<legacy, root, lock>>, hosts' \in BOOLEAN,
           r.dir = proc[p].dir, r.root = proc[p].root,
           proc[p].at \in Owning, r.at \in Owning, Quiet(r)
    PROVE  IInv'
<1>1. Fine(p, proc[p], legacy, root, lock) /\ p \in AllProcs /\ p \notin OldProcs
  BY DaemonParameters DEF IInv, AllProcs
<1>2. Fine(p, r, legacy, root, lock)
  BY <1>1 DEF Fine, Fresh, Placed, Held, Before, Owning
<1>3. QED
  BY <1>1, <1>2, StepOfOne

\* What a daemon does once it has the workspace, up to the release of the lock.
LEMMA ServeStep ==
    ASSUME IInv, NEW p \in Procs,
           \/ Start(p) \/ Quit(p) \/ DrainApi(p) \/ StopWorker(p) \/ WaitWorker(p)
           \/ ShutdownHosts(p) \/ CloseRegistry(p) \/ Request(p)
    PROVE  IInv'
<1>1. /\ proc[p] \in Process
      /\ Quiet(proc[p])
      /\ hosts \in BOOLEAN
      /\ proc \in [AllProcs -> Process]
      /\ p \in AllProcs
  BY DEF IInv, AllProcs, Fine
<1>2. CASE Start(p) /\ proc'[p].at = "serving"
  <2> DEFINE r == [proc[p] EXCEPT !.at = "serving", !.worker = "running"]
  <2>1. proc' = [proc EXCEPT ![p] = r]
    BY <1>1, <1>2 DEF Start, To, Process
  <2>2. r \in Process
    BY <1>1 DEF Process, Owning
  <2>3. r.dir = proc[p].dir /\ r.root = proc[p].root
    BY <1>1 DEF Process
  <2>4. proc[p].at \in Owning /\ r.at \in Owning
    BY <1>1, <1>2 DEF Start, To, Process, Owning
  <2>5. Quiet(r)
    BY <1>1, <1>2 DEF Start, To, Quiet, Owning, Process
  <2>6. QED
    BY <1>1, <1>2, <2>1, <2>2, <2>3, <2>4, <2>5, Serving DEF Start, To
<1>3. CASE Start(p) /\ proc'[p].at # "serving"
  <2> DEFINE r == [proc[p] EXCEPT !.at = "release"]
  <2>1. proc' = [proc EXCEPT ![p] = r]
    BY <1>1, <1>3 DEF Start, To, Process
  <2>2. r \in Process
    BY <1>1 DEF Process, Owning
  <2>3. r.dir = proc[p].dir /\ r.root = proc[p].root
    BY <1>1 DEF Process
  <2>4. proc[p].at \in Owning /\ r.at \in Owning
    BY <1>1, <1>3 DEF Start, To, Process, Owning
  <2>5. Quiet(r)
    BY <1>1, <1>3 DEF Start, To, Quiet, Owning, Process
  <2>6. QED
    BY <1>1, <1>3, <2>1, <2>2, <2>3, <2>4, <2>5, Serving DEF Start, To
<1>4. CASE Quit(p)
  <2> DEFINE r == [proc[p] EXCEPT !.at = "drainApi"]
  <2>1. proc' = [proc EXCEPT ![p] = r]
    BY <1>1, <1>4 DEF Quit, To
  <2>2. r \in Process
    BY <1>1 DEF Process, Owning
  <2>3. r.dir = proc[p].dir /\ r.root = proc[p].root
    BY <1>1 DEF Process
  <2>4. proc[p].at \in Owning /\ r.at \in Owning
    BY <1>1, <1>4 DEF Quit, To, Process, Owning
  <2>5. Quiet(r)
    BY <1>1, <1>4 DEF Quit, To, Quiet, Owning, Process
  <2>6. QED
    BY <1>1, <1>4, <2>1, <2>2, <2>3, <2>4, <2>5, Serving DEF Quit, To
<1>5. CASE DrainApi(p) /\ ~proc[p].request
  <2> DEFINE r == [proc[p] EXCEPT !.at = "stopWorker"]
  <2>1. proc' = [proc EXCEPT ![p] = r]
    BY <1>1, <1>5 DEF DrainApi, To
  <2>2. r \in Process
    BY <1>1 DEF Process, Owning
  <2>3. r.dir = proc[p].dir /\ r.root = proc[p].root
    BY <1>1 DEF Process
  <2>4. proc[p].at \in Owning /\ r.at \in Owning
    BY <1>1, <1>5 DEF DrainApi, To, Process, Owning
  <2>5. Quiet(r)
    BY <1>1, <1>5 DEF DrainApi, To, Quiet, Owning, Process
  <2>6. QED
    BY <1>1, <1>5, <2>1, <2>2, <2>3, <2>4, <2>5, Serving DEF DrainApi, To
<1>6. CASE DrainApi(p) /\ proc[p].request
  <2> DEFINE r == [proc[p] EXCEPT !.at = "stopWorker", !.late = TRUE]
  <2>1. proc' = [proc EXCEPT ![p] = r]
    BY <1>1, <1>6 DEF DrainApi, To
  <2>2. r \in Process
    BY <1>1 DEF Process, Owning
  <2>3. r.dir = proc[p].dir /\ r.root = proc[p].root
    BY <1>1 DEF Process
  <2>4. proc[p].at \in Owning /\ r.at \in Owning
    BY <1>1, <1>6 DEF DrainApi, To, Process, Owning
  <2>5. Quiet(r)
    BY <1>1, <1>6 DEF DrainApi, To, Quiet, Owning, Process
  <2>6. QED
    BY <1>1, <1>6, <2>1, <2>2, <2>3, <2>4, <2>5, Serving DEF DrainApi, To
<1>7. CASE StopWorker(p)
  <2> DEFINE r == [proc[p] EXCEPT !.at = "waitWorker", !.worker = "stopping"]
  <2>1. proc' = [proc EXCEPT ![p] = r]
    BY <1>1, <1>7 DEF StopWorker
  <2>2. r \in Process
    BY <1>1 DEF Process, Owning
  <2>3. r.dir = proc[p].dir /\ r.root = proc[p].root
    BY <1>1 DEF Process
  <2>4. proc[p].at \in Owning /\ r.at \in Owning
    BY <1>1, <1>7 DEF StopWorker, Process, Owning
  <2>5. Quiet(r)
    BY <1>1, <1>7 DEF StopWorker, Quiet, Owning, Process
  <2>6. QED
    BY <1>1, <1>7, <2>1, <2>2, <2>3, <2>4, <2>5, Serving DEF StopWorker
<1>8. CASE WaitWorker(p) /\ proc[p].worker = "done"
  <2> DEFINE r == [proc[p] EXCEPT !.at = "hosts"]
  <2>1. proc' = [proc EXCEPT ![p] = r]
    BY <1>1, <1>8 DEF WaitWorker, To
  <2>2. r \in Process
    BY <1>1 DEF Process, Owning
  <2>3. r.dir = proc[p].dir /\ r.root = proc[p].root
    BY <1>1 DEF Process
  <2>4. proc[p].at \in Owning /\ r.at \in Owning
    BY <1>1, <1>8 DEF WaitWorker, To, Process, Owning
  <2>5. Quiet(r)
    BY <1>1, <1>8 DEF WaitWorker, To, Quiet, Owning, Process
  <2>6. QED
    BY <1>1, <1>8, <2>1, <2>2, <2>3, <2>4, <2>5, Serving DEF WaitWorker, To
<1>9. CASE WaitWorker(p) /\ proc[p].worker # "done"
  <2> DEFINE r == [proc[p] EXCEPT !.at = "close", !.late = TRUE]
  <2>1. proc' = [proc EXCEPT ![p] = r]
    BY <1>1, <1>9 DEF WaitWorker, To
  <2>2. r \in Process
    BY <1>1 DEF Process, Owning
  <2>3. r.dir = proc[p].dir /\ r.root = proc[p].root
    BY <1>1 DEF Process
  <2>4. proc[p].at \in Owning /\ r.at \in Owning
    BY <1>1, <1>9 DEF WaitWorker, To, Process, Owning
  <2>5. Quiet(r)
    BY <1>1, <1>9 DEF WaitWorker, To, Quiet, Owning, Process
  <2>6. QED
    BY <1>1, <1>9, <2>1, <2>2, <2>3, <2>4, <2>5, Serving DEF WaitWorker, To
<1>10. CASE ShutdownHosts(p)
  <2> DEFINE r == [proc[p] EXCEPT !.at = "close"]
  <2>1. proc' = [proc EXCEPT ![p] = r]
    BY <1>1, <1>10 DEF ShutdownHosts, To
  <2>2. r \in Process
    BY <1>1 DEF Process, Owning
  <2>3. r.dir = proc[p].dir /\ r.root = proc[p].root
    BY <1>1 DEF Process
  <2>4. proc[p].at \in Owning /\ r.at \in Owning
    BY <1>1, <1>10 DEF ShutdownHosts, To, Process, Owning
  <2>5. Quiet(r)
    BY <1>1, <1>10 DEF ShutdownHosts, To, Quiet, Owning, Process
  <2>6. QED
    BY <1>1, <1>10, <2>1, <2>2, <2>3, <2>4, <2>5, Serving DEF ShutdownHosts, To
<1>11. CASE CloseRegistry(p)
  <2> DEFINE r == [proc[p] EXCEPT !.at = "release"]
  <2>1. proc' = [proc EXCEPT ![p] = r]
    BY <1>1, <1>11 DEF CloseRegistry, To
  <2>2. r \in Process
    BY <1>1 DEF Process, Owning
  <2>3. r.dir = proc[p].dir /\ r.root = proc[p].root
    BY <1>1 DEF Process
  <2>4. proc[p].at \in Owning /\ r.at \in Owning
    BY <1>1, <1>11 DEF CloseRegistry, To, Process, Owning
  <2>5. Quiet(r)
    BY <1>1, <1>11 DEF CloseRegistry, To, Quiet, Owning, Process
  <2>6. QED
    BY <1>1, <1>11, <2>1, <2>2, <2>3, <2>4, <2>5, Serving DEF CloseRegistry, To
<1>12. CASE Request(p)
  <2> DEFINE r == [proc[p] EXCEPT !.request = TRUE]
  <2>1. proc' = [proc EXCEPT ![p] = r]
    BY <1>1, <1>12 DEF Request
  <2>2. r \in Process
    BY <1>1 DEF Process, Owning
  <2>3. r.dir = proc[p].dir /\ r.root = proc[p].root
    BY <1>1 DEF Process
  <2>4. proc[p].at \in Owning /\ r.at \in Owning
    BY <1>1, <1>12 DEF Request, Process, Owning
  <2>5. Quiet(r)
    BY <1>1, <1>12 DEF Request, Quiet, Owning, Process
  <2>6. QED
    BY <1>1, <1>12, <2>1, <2>2, <2>3, <2>4, <2>5, Serving DEF Request
<1>13. QED
  BY <1>2, <1>3, <1>4, <1>5, <1>6, <1>7, <1>8, <1>9, <1>10, <1>11, <1>12

\* A request ends, the worker ends, or a round brings a machine up, whatever the
\* main goroutine is at.
LEMMA BesideStep ==
    ASSUME IInv, NEW p \in Procs, RequestEnds(p) \/ Boot(p) \/ WorkerEnds(p)
    PROVE  IInv'
<1>1. /\ proc[p] \in Process
      /\ Fine(p, proc[p], legacy, root, lock)
      /\ hosts \in BOOLEAN
      /\ p \in AllProcs
      /\ proc \in [AllProcs -> Process]
  BY DEF IInv, AllProcs
<1>2. CASE Boot(p)
  BY <1>1, <1>2 DEF Boot, IInv
<1>3. CASE RequestEnds(p)
  <2> DEFINE r == [proc[p] EXCEPT !.request = FALSE]
  <2>1. r \in Process
    BY <1>1 DEF Process
  <2>2. Fine(p, r, legacy, root, lock)
    BY <1>1 DEF Process, Fine, Fresh, Placed, Held, Quiet
  <2>3. QED
    BY <1>1, <1>3, <2>1, <2>2, StepOfOne DEF RequestEnds
<1>4. CASE WorkerEnds(p)
  <2> DEFINE r == [proc[p] EXCEPT !.worker = "done"]
  <2>1. r \in Process
    BY <1>1 DEF Process
  <2>2. Fine(p, r, legacy, root, lock)
    BY <1>1, <1>4 DEF WorkerEnds, Process, Fine, Fresh, Placed, Held, Quiet
  <2>3. QED
    BY <1>1, <1>4, <2>1, <2>2, StepOfOne DEF WorkerEnds
<1>5. QED
  BY <1>2, <1>3, <1>4

\* The lock goes to one process, and only when nobody has it (instancelock.Acquire).
LEMMA LockStep ==
    ASSUME IInv, NEW p \in AllProcs,
           proc[p].at = "flock", lock[proc[p].dir] = NoOne,
           To(p, "recheck"), lock' = [lock EXCEPT ![proc[p].dir] = p],
           UNCHANGED <<legacy, root, hosts>>
    PROVE  IInv'
<1>1. /\ proc[p] \in Process
      /\ Fine(p, proc[p], legacy, root, lock)
      /\ PathsOK(legacy, root, lock)
      /\ hosts \in BOOLEAN
      /\ p \in Procs => p \notin OldProcs
      /\ proc \in [AllProcs -> Process]
      /\ \A q \in AllProcs : Fine(q, proc[q], legacy, root, lock)
  BY DaemonParameters DEF IInv
<1> DEFINE r == [proc[p] EXCEPT !.at = "recheck"]
<1>2. r \in Process /\ proc' = [proc EXCEPT ![p] = r]
  BY <1>1 DEF Process, Claiming, To
<1>3. proc[p].dir \in Dirs
  BY <1>1 DEF Process, Fine, Placed, Before
<1>4. PathsOK(legacy, root, lock')
  BY <1>1, <1>3 DEF PathsOK
<1>5. Fine(p, r, legacy, root, lock')
  BY <1>1, <1>3 DEF Process, Fine, Fresh, Placed, Held, Quiet, Before, Owning, PathsOK
<1>6. ASSUME NEW q \in AllProcs, q # p
      PROVE  Fine(q, proc[q], legacy, root, lock')
  <2>1. proc[q].at \in {"recheck", "rename"} \cup Owning => lock[proc[q].dir] # NoOne
    BY <1>1, DaemonParameters DEF Fine, Held
  <2>2. \A d \in Dirs : d # proc[p].dir => lock'[d] = lock[d]
    BY <1>1 DEF PathsOK
  <2>3. proc[q].at \in {"recheck", "rename"} \cup Owning => proc[q].dir \in Dirs
    BY <1>1 DEF IInv, Process, Fine, Placed, Before, Owning
  <2>4. Held(q, proc[q], legacy, root, lock')
    BY <1>1, <2>1, <2>2, <2>3 DEF Fine, Held
  <2>5. QED
    BY <1>1, <2>4 DEF Fine
<1>7. \A q \in AllProcs : Fine(q, proc'[q], legacy, root, lock')
  BY <1>1, <1>2, <1>5, <1>6
<1>8. proc' \in [AllProcs -> Process]
  BY <1>1, <1>2
<1>9. QED
  BY <1>1, <1>4, <1>7, <1>8 DEF IInv

\* A directory that is made at the legacy path is new: nobody has it open
\* (prepareRoot).
LEMMA MakeStep ==
    ASSUME IInv, NEW p \in AllProcs,
           \/ p \in Procs /\ proc[p].at = "mkdir"
           \/ p \in OldProcs /\ proc[p].at = "off",
           legacy' = IF legacy = NoDir THEN p ELSE legacy,
           To(p, "openLegacy"), UNCHANGED <<root, lock, hosts>>
    PROVE  IInv'
<1>1. /\ proc[p] \in Process
      /\ Fine(p, proc[p], legacy, root, lock)
      /\ PathsOK(legacy, root, lock)
      /\ hosts \in BOOLEAN
      /\ p \in Procs => p \notin OldProcs
      /\ proc \in [AllProcs -> Process]
      /\ \A q \in AllProcs : Fine(q, proc[q], legacy, root, lock)
  BY DaemonParameters DEF IInv
<1> DEFINE r == [proc[p] EXCEPT !.at = "openLegacy"]
<1>2. r \in Process /\ proc' = [proc EXCEPT ![p] = r]
  BY <1>1 DEF Process, Before, To
<1>3. legacy # p /\ root # p /\ p # NoDir
  BY <1>1, DaemonParameters DEF Fine, Fresh
<1>4. PathsOK(legacy', root, lock)
  BY <1>1, <1>3 DEF PathsOK, Dirs
<1>5. Fine(p, r, legacy', root, lock)
  BY <1>1 DEF Process, Fine, Fresh, Placed, Held, Quiet, Before, Owning
<1>6. ASSUME NEW q \in AllProcs, q # p
      PROVE  Fine(q, proc[q], legacy', root, lock)
  <2>1. proc[q].dir # NoDir => proc[q].dir \in {legacy', root}
    BY <1>1 DEF Fine, Placed
  <2>2. q \in OldProcs /\ proc[q].at = "serving" => proc[q].dir # NoDir
    BY <1>1 DEF Fine, Placed, Before
  <2>3. QED
    BY <1>1, <1>6, <2>1, <2>2 DEF Fine, Fresh, Placed, Held
<1>7. \A q \in AllProcs : Fine(q, proc'[q], legacy', root, lock)
  BY <1>1, <1>2, <1>5, <1>6
<1>8. proc' \in [AllProcs -> Process]
  BY <1>1, <1>2
<1>9. QED
  BY <1>1, <1>4, <1>7, <1>8 DEF IInv

\* What is moved is what the mover has locked, and nobody serves from it: whatever
\* else was at the legacy path would have come there after a move, and then there
\* is a root (renameNoReplace).
LEMMA MoveStep ==
    ASSUME IInv, NEW p \in Procs,
           proc[p].at = "rename", legacy # NoDir, root = NoDir,
           root' = legacy, legacy' = NoDir, To(p, "starting"), UNCHANGED <<lock, hosts>>
    PROVE  IInv'
<1>0. p \in AllProcs
  BY DEF AllProcs
<1>1. /\ proc[p] \in Process
      /\ Fine(p, proc[p], legacy, root, lock)
      /\ PathsOK(legacy, root, lock)
      /\ hosts \in BOOLEAN
      /\ p \in Procs => p \notin OldProcs
      /\ proc \in [AllProcs -> Process]
      /\ \A q \in AllProcs : Fine(q, proc[q], legacy, root, lock)
  BY <1>0, DaemonParameters DEF IInv
<1> DEFINE r == [proc[p] EXCEPT !.at = "starting"]
<1>2. r \in Process /\ proc' = [proc EXCEPT ![p] = r]
  BY <1>0, <1>1 DEF Process, Owning, To
<1>3. proc[p].dir = legacy /\ lock[legacy] = p
  BY <1>1 DEF Fine, Placed, Held, Before
<1>4. PathsOK(legacy', root', lock)
  BY <1>1 DEF PathsOK
<1>5. Fine(p, r, legacy', root', lock)
  BY <1>0, <1>1, <1>3 DEF Process, Fine, Fresh, Placed, Held, Quiet, Before, Owning
<1>6. ASSUME NEW q \in AllProcs, q # p
      PROVE  Fine(q, proc[q], legacy', root', lock)
  <2>1. /\ Fine(q, proc[q], legacy, root, lock)
        /\ q # NoDir
    BY <1>1, DaemonParameters
  <2>2. Fresh(q, proc[q], legacy', root')
    BY <2>1 DEF Fine, Fresh
  <2>3. Placed(proc[q], legacy', root')
    BY <2>1 DEF Fine, Placed
  <2>4. ~(q \in Procs /\ proc[q].at \in Owning)
    BY <2>1 DEF Fine, Placed, Held, Owning, Before
  <2>5. ~(q \in OldProcs /\ proc[q].at = "serving")
    BY <1>3, <1>6, <2>1 DEF Fine, Held, Owning
  <2>6. Held(q, proc[q], legacy', root', lock)
    BY <2>1, <2>4, <2>5 DEF Fine, Held
  <2>7. QED
    BY <2>1, <2>2, <2>3, <2>6 DEF Fine
<1>7. \A q \in AllProcs : Fine(q, proc'[q], legacy', root', lock)
  BY <1>0, <1>1, <1>2, <1>5, <1>6
<1>8. proc' \in [AllProcs -> Process]
  BY <1>0, <1>1, <1>2
<1>9. QED
  BY <1>1, <1>4, <1>7, <1>8 DEF IInv

\* A process that gives up, ends or is killed lets go of its lock and of nothing else.
LEMMA EndStep ==
    ASSUME IInv, NEW p \in AllProcs, UNCHANGED <<legacy, root, hosts>>,
           GiveUp(p) \/ (Gone(p) /\ UNCHANGED lock)
    PROVE  IInv'
<1>1. CASE GiveUp(p)
  BY <1>1, Ended, ReleaseStep DEF GiveUp
<1>2. CASE Gone(p) /\ UNCHANGED lock
  BY <1>2, Ended, StepOfOne DEF IInv
<1>3. QED
  BY <1>1, <1>2

\* The lock is dropped when the registry is closed (instancelock.Release).
LEMMA ReleasedStep ==
    ASSUME IInv, NEW p \in Procs, Release(p)
    PROVE  IInv'
<1>0. p \in AllProcs
  BY DEF AllProcs
<1>1. /\ proc[p] \in Process
      /\ Fine(p, proc[p], legacy, root, lock)
      /\ PathsOK(legacy, root, lock)
      /\ hosts \in BOOLEAN
      /\ p \in Procs => p \notin OldProcs
      /\ proc \in [AllProcs -> Process]
      /\ \A q \in AllProcs : Fine(q, proc[q], legacy, root, lock)
  BY <1>0, DaemonParameters DEF IInv
<1> DEFINE r == [proc[p] EXCEPT !.at = "exit"]
<1>2. r \in Process /\ proc' = [proc EXCEPT ![p] = r]
  BY <1>0, <1>1 DEF Process, After, To, Release
<1>3. Fine(p, r, legacy, root, lock')
  BY <1>0, <1>1 DEF Release, Process, Fine, Fresh, Placed, Held, Quiet, Before, Owning
<1>4. QED
  BY <1>0, <1>2, <1>3, ReleaseStep DEF Release

\* prepareRoot under the lock: the paths are looked at again, and the legacy
\* workspace is moved or kept.
LEMMA ClaimStep ==
    ASSUME IInv, NEW p \in Procs, Flock(p) \/ Mkdir(p) \/ Recheck(p) \/ Rename(p)
    PROVE  IInv'
<1>1. /\ proc[p] \in Process
      /\ Fine(p, proc[p], legacy, root, lock)
      /\ p \in AllProcs /\ p \notin OldProcs
      /\ proc \in [AllProcs -> Process]
      /\ hosts \in BOOLEAN
  BY DaemonParameters DEF IInv, AllProcs
<1>2. CASE Flock(p)
  BY <1>1, <1>2, LockStep, EndStep DEF Flock, Contended, Refused
<1>3. CASE Mkdir(p)
  BY <1>1, <1>3, MakeStep DEF Mkdir
<1>4. CASE Rename(p)
  BY <1>1, <1>4, MoveStep, EndStep DEF Rename
<1>5. CASE Recheck(p)
  <2>1. CASE GiveUp(p)
    BY <1>1, <1>5, <2>1, EndStep DEF Recheck
  <2>2. CASE ~GiveUp(p)
    <3> DEFINE r == [proc[p] EXCEPT !.at = IF proc[p].root THEN "starting" ELSE "rename"]
    <3>1. r \in Process
      BY <1>1 DEF Process, Claiming, Owning
    <3>2. proc' = [proc EXCEPT ![p] = r] /\ UNCHANGED lock
      BY <1>1, <1>5, <2>2 DEF Recheck, To
    <3>3. Fine(p, r, legacy, root, lock)
      BY <1>1, <1>5 DEF Recheck, Process, Fine, Fresh, Placed, Held, Quiet, Before, Owning
    <3>4. QED
      BY <1>1, <1>5, <3>1, <3>2, <3>3, StepOfOne DEF Recheck
  <2>3. QED
    BY <2>1, <2>2
<1>6. QED
  BY <1>2, <1>3, <1>4, <1>5

\* go-merge contends for the same lock, and serves from a directory that is still
\* its root.
LEMMA OldStepKeeps ==
    ASSUME IInv, NEW p \in OldProcs, OldStep(p)
    PROVE  IInv'
<1>1. /\ proc[p] \in Process
      /\ Fine(p, proc[p], legacy, root, lock)
      /\ p \in AllProcs /\ p \notin Procs
      /\ proc \in [AllProcs -> Process]
      /\ hosts \in BOOLEAN
  BY DaemonParameters DEF IInv, AllProcs
<1>2. CASE OldLaunch(p)
  BY <1>1, <1>2, MakeStep DEF OldLaunch
<1>3. CASE Open(p)
  BY <1>1, <1>3, LookStep
<1>4. CASE OldFlock(p)
  BY <1>1, <1>4, LockStep, EndStep DEF OldFlock
<1>5. CASE OldServe(p)
  <2>1. CASE legacy # proc[p].dir
    BY <1>1, <1>5, <2>1, EndStep DEF OldServe
  <2>2. CASE legacy = proc[p].dir
    <3> DEFINE r == [proc[p] EXCEPT !.at = "serving"]
    <3>1. r \in Process
      BY <1>1 DEF Process, Owning
    <3>2. proc' = [proc EXCEPT ![p] = r] /\ UNCHANGED lock
      BY <1>1, <1>5, <2>2 DEF OldServe, To
    <3>3. Fine(p, r, legacy, root, lock)
      BY <1>1, <1>5, <2>2
         DEF OldServe, Process, Fine, Fresh, Placed, Held, Quiet, Before, Owning
    <3>4. QED
      BY <1>1, <1>5, <3>1, <3>2, <3>3, StepOfOne DEF OldServe
  <2>3. QED
    BY <2>1, <2>2
<1>6. QED
  BY <1>2, <1>3, <1>4, <1>5 DEF OldStep

\* Every step of every launch keeps the invariant, and so does a kill at any point.
LEMMA Inductive == IInv /\ [Next]_vars => IInv'
<1> SUFFICES ASSUME IInv, [Next]_vars PROVE IInv'
  OBVIOUS
<1>0. Procs \subseteq AllProcs
  BY DEF AllProcs
<1>1. CASE UNCHANGED vars
  BY <1>1 DEF vars, IInv
<1>2. ASSUME NEW p \in Procs, Launch(p) \/ Prepare(p) PROVE IInv'
  BY <1>0, <1>2, LookStep, ClaimStep DEF Prepare
<1>3. ASSUME NEW p \in Procs, Serve(p) \/ Quit(p) PROVE IInv'
  <2>1. CASE Release(p)
    BY <2>1, ReleasedStep
  <2>2. CASE Exit(p)
    BY <1>0, <2>2, EndStep DEF Exit
  <2>3. QED
    BY <1>3, <2>1, <2>2, ServeStep DEF Serve
<1>4. ASSUME NEW p \in Procs, Request(p) \/ RequestEnds(p) \/ Boot(p) \/ WorkerEnds(p)
      PROVE  IInv'
  BY <1>4, ServeStep, BesideStep
<1>5. ASSUME NEW p \in OldProcs, OldStep(p) PROVE IInv'
  BY <1>5, OldStepKeeps
<1>6. ASSUME NEW p \in AllProcs, Kill(p) PROVE IInv'
  BY <1>6, EndStep DEF Kill
<1>7. QED
  BY <1>1, <1>2, <1>3, <1>4, <1>5, <1>6 DEF Next
-----------------------------------------------------------------------------
(* The theorems *)

\* The invariant the theorems below rest on: whoever is past the lock holds it,
\* and the directory it holds is at the path it took it for.
THEOREM Invariant == Spec => []IInv
<1>1. Init => IInv
  BY Initially
<1>2. IInv /\ [Next]_vars => IInv'
  BY Inductive
<1>3. QED
  BY <1>1, <1>2, PTL DEF Spec

\* Paths, locks and processes keep their types, and a process has a directory open
\* exactly while it is between opening its lock file and its end.
THEOREM DaemonTypeCorrect == Spec => []TypeOK
<1>1. IInv => TypeOK
  BY DEF IInv, PathsOK, Fine, Placed, TypeOK
<1>2. QED
  BY <1>1, Invariant, PTL

\* However many are launched, and whoever is killed at whatever step, one process
\* at a time has the workspace (instancelock.Acquire, prepareRoot).
THEOREM OneDaemon == Spec => []OneOwner
<1>1. IInv => OneOwner
  BY DEF IInv, Fine, Held, OneOwner, Owns, AllProcs
<1>2. QED
  BY <1>1, Invariant, PTL

\* No launch moves a workspace another serves from, donsy's or go-merge's
\* (prepareRoot's second look, renameNoReplace).
THEOREM WorkspaceStays == Spec => []OwnedStaysPut
<1>1. IInv => OwnedStaysPut
  BY DEF IInv, Fine, Held, OwnedStaysPut, Owns, Owning, AllProcs
<1>2. QED
  BY <1>1, Invariant, PTL

\* The registry closes and the lock goes after the worker and the requests, unless
\* they had outlived their grace (runDaemon's deferred calls).
THEOREM QuietAtTheEnd == Spec => []ClosedQuiet
<1>1. IInv => ClosedQuiet
  BY DEF IInv, Fine, Quiet, ClosedQuiet, Alive, AllProcs
<1>2. QED
  BY <1>1, Invariant, PTL

\* Machines are only stopped when no worker may be using them (shutdownHosts after
\* the worker is waited for).
THEOREM MachinesGoLast == Spec => HostsDownAlone
<1>1. IInv /\ [Next]_vars => (hosts /\ ~hosts' => \A p \in Procs : Alive(p) => proc[p].at = "exit")
  <2> SUFFICES ASSUME IInv, [Next]_vars, hosts, ~hosts', NEW q \in Procs, Alive(q)
               PROVE  proc[q].at = "exit"
    OBVIOUS
  <2>1. PICK p \in Procs : ShutdownHosts(p)
    BY DEF Next, vars, Launch, Prepare, StatLegacy, StatRoot, Mkdir, Open, Flock, Recheck, Rename,
           Serve, Start, DrainApi, StopWorker, WaitWorker, CloseRegistry, Release, Exit,
           Quit, Request, RequestEnds, Boot, WorkerEnds, OldStep, OldLaunch, OldFlock, OldServe, Kill
  <2>2. Owns(p) /\ proc[p].worker = "done"
    BY <2>1 DEF IInv, Fine, Quiet, ShutdownHosts, Owns, Owning, AllProcs
  <2>3. proc[q].at \in Owning \cup {"exit"}
    BY DEF IInv, Fine, Quiet, Alive, AllProcs
  <2>4. OneOwner
    BY DEF IInv, Fine, Held, OneOwner, Owns, AllProcs
  <2>5. QED
    BY <2>2, <2>3, <2>4 DEF OneOwner, Owns, Alive
<1>2. QED
  BY <1>1, Invariant, PTL DEF Spec, HostsDownAlone
=============================================================================
