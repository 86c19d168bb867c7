------------------------------- MODULE Daemon -------------------------------
(***************************************************************************)
(* The life of a daemon process: how it claims the workspace (prepareRoot   *)
(* and the lock file in it), what it runs (serve), and the order in which   *)
(* it takes that down.  Several may be launched at once, on a machine that  *)
(* is new, that go-merge -- the program donsy grew out of -- has a          *)
(* workspace on, or that donsy has already moved.  Any may be killed at any *)
(* step; the kernel then drops its lock.                                    *)
(*                                                                         *)
(* A lock belongs to the file, which stays in its directory when the        *)
(* directory is renamed, so directories have an identity apart from the     *)
(* paths.  The staging path, which nothing here creates, is left out.       *)
(***************************************************************************)
EXTENDS FiniteSets

CONSTANTS
    Procs,      \* launches of donsy
    OldProcs,   \* launches of go-merge
    Installed   \* where a workspace may be to start with

AllProcs == Procs \cup OldProcs
NoOne == "no one"
NoDir == "no directory"
Old == "old workspace"

ASSUME DaemonParameters ==
    /\ Procs \cap OldProcs = {}
    /\ AllProcs \cap {NoOne, NoDir, Old} = {}
    /\ Installed \subseteq {"nowhere", "legacy", "root"}

VARIABLES
    legacy,     \* the directory at the path go-merge uses
    root,       \* the directory at the path donsy uses
    lock,       \* lock[d]: who holds the lock file in d
    proc,       \* proc[p]: the process
    hosts       \* project machines are running

vars == <<legacy, root, lock, proc, hosts>>

\* A directory is named for who made it.
Dirs == {Old} \cup AllProcs

Before == {"off", "stat", "statRoot", "mkdir", "openRoot", "openLegacy"}
Claiming == {"flock", "recheck", "rename"}
Owning == {"starting", "serving", "drainApi", "stopWorker", "waitWorker", "hosts", "close",
           "release"}
After == {"exit", "over"}

Process == [at : Before \cup Claiming \cup Owning \cup After,
            legacy : BOOLEAN,       \* what it saw at the paths
            root : BOOLEAN,
            dir : Dirs \cup {NoDir},
            worker : {"none", "running", "stopping", "done"},
            request : BOOLEAN,      \* an API request is being handled
            late : BOOLEAN]         \* history: a grace period ran out

Unlaunched == [at |-> "off", legacy |-> FALSE, root |-> FALSE, dir |-> NoDir,
               worker |-> "none", request |-> FALSE, late |-> FALSE]

TypeOK ==
    /\ legacy \in Dirs \cup {NoDir}
    /\ root \in Dirs \cup {NoDir}
    /\ lock \in [Dirs -> AllProcs \cup {NoOne}]
    /\ proc \in [AllProcs -> Process]
    /\ \A p \in AllProcs : proc[p].dir = NoDir <=> proc[p].at \in Before \cup {"over"}
    /\ hosts \in BOOLEAN

Init ==
    /\ \E where \in Installed :
          /\ legacy = IF where = "legacy" THEN Old ELSE NoDir
          /\ root = IF where = "root" THEN Old ELSE NoDir
    /\ lock = [d \in Dirs |-> NoOne]
    /\ proc = [p \in AllProcs |-> Unlaunched]
    /\ hosts = FALSE

-----------------------------------------------------------------------------
(* Helpers *)

To(p, at) == proc' = [proc EXCEPT ![p].at = at]

Drop(p) == lock' = [d \in Dirs |-> IF lock[d] = p THEN NoOne ELSE lock[d]]

Alive(p) == proc[p].worker \in {"running", "stopping"}

\* The process ends, and what it ran with it.
Gone(p) ==
    proc' = [proc EXCEPT ![p] = [Unlaunched EXCEPT !.at = "over", !.late = proc[p].late]]

\* A launch that gives up, its lock released.
GiveUp(p) == Gone(p) /\ Drop(p)

-----------------------------------------------------------------------------
(* prepareRoot *)

Launch(p) ==
    /\ proc[p].at = "off"
    /\ To(p, "stat")
    /\ UNCHANGED <<legacy, root, lock, hosts>>

StatLegacy(p) ==
    /\ proc[p].at = "stat"
    /\ proc' = [proc EXCEPT ![p].at = "statRoot", ![p].legacy = legacy # NoDir]
    /\ UNCHANGED <<legacy, root, lock, hosts>>

\* Which way it goes is decided by what was at either path, one after the other.
StatRoot(p) ==
    /\ proc[p].at = "statRoot"
    /\ LET sawRoot == root # NoDir
       IN IF proc[p].legacy /\ sawRoot THEN Gone(p)
          ELSE proc' = [proc EXCEPT
                  ![p].root = sawRoot,
                  ![p].at = IF sawRoot THEN "openRoot"
                            ELSE IF proc[p].legacy THEN "openLegacy" ELSE "mkdir"]
    /\ UNCHANGED <<legacy, root, lock, hosts>>

\* A new installation claims the legacy root too.
Mkdir(p) ==
    /\ proc[p].at = "mkdir"
    /\ legacy' = IF legacy = NoDir THEN p ELSE legacy
    /\ To(p, "openLegacy")
    /\ UNCHANGED <<root, lock, hosts>>

\* os.OpenFile creates the lock file but not its directory.
Open(p) ==
    /\ proc[p].at \in {"openRoot", "openLegacy"}
    /\ LET dir == IF proc[p].at = "openRoot" THEN root ELSE legacy
       IN IF dir = NoDir THEN Gone(p)
          ELSE proc' = [proc EXCEPT ![p].at = "flock", ![p].dir = dir]
    /\ UNCHANGED <<legacy, root, lock, hosts>>

\* Mutant: donsy's lock file has a name of its own.
ContendedByOwn(dir) == lock[dir] \in Procs

\* Mutant: an instance that finds the lock free takes it for shared use.
ContendedShared(dir) == lock[dir] \in OldProcs

Contended(dir) == lock[dir] # NoOne

\* HeldError: the launch fails.
Refused(p) == Gone(p)

\* instancelock.Acquire.
Flock(p) ==
    /\ proc[p].at = "flock"
    /\ IF Contended(proc[p].dir)
       THEN Refused(p) /\ UNCHANGED lock
       ELSE To(p, "recheck") /\ lock' = [lock EXCEPT ![proc[p].dir] = p]
    /\ UNCHANGED <<legacy, root, hosts>>

\* Under the lock, the other path must still be empty.
Recheck(p) ==
    /\ proc[p].at = "recheck"
    /\ IF (IF proc[p].root THEN legacy ELSE root) # NoDir
       THEN GiveUp(p)
       ELSE To(p, IF proc[p].root THEN "starting" ELSE "rename") /\ UNCHANGED lock
    /\ UNCHANGED <<legacy, root, hosts>>

\* renameNoReplace moves whatever the legacy path now names.
Rename(p) ==
    /\ proc[p].at = "rename"
    /\ IF legacy # NoDir /\ root = NoDir
       THEN /\ root' = legacy
            /\ legacy' = NoDir
            /\ To(p, "starting")
            /\ UNCHANGED lock
       ELSE GiveUp(p) /\ UNCHANGED <<legacy, root>>
    /\ UNCHANGED hosts

-----------------------------------------------------------------------------
(* runDaemon and serve *)

\* The registry, the tooling, the listener: what fails gives the lock back.
Start(p) ==
    /\ proc[p].at = "starting"
    /\ \/ proc' = [proc EXCEPT ![p].at = "serving", ![p].worker = "running"]
       \/ To(p, "release")
    /\ UNCHANGED <<legacy, root, lock, hosts>>

Request(p) ==
    /\ proc[p].at = "serving"
    /\ ~proc[p].request
    /\ proc' = [proc EXCEPT ![p].request = TRUE]
    /\ UNCHANGED <<legacy, root, lock, hosts>>

RequestEnds(p) ==
    /\ proc[p].request
    /\ proc' = [proc EXCEPT ![p].request = FALSE]
    /\ UNCHANGED <<legacy, root, lock, hosts>>

\* A round of the worker brings a machine up.
Boot(p) ==
    /\ Alive(p)
    /\ ~hosts
    /\ hosts' = TRUE
    /\ UNCHANGED <<legacy, root, lock, proc>>

\* EpicWorker.Run returns, its rounds over.
WorkerEnds(p) ==
    /\ proc[p].worker = "stopping"
    /\ proc' = [proc EXCEPT ![p].worker = "done"]
    /\ UNCHANGED <<legacy, root, lock, hosts>>

\* A signal, or the HTTP server fails.
Quit(p) ==
    /\ proc[p].at = "serving"
    /\ To(p, "drainApi")
    /\ UNCHANGED <<legacy, root, lock, hosts>>

\* Shutdown waits for requests, ten seconds at most.
DrainApi(p) ==
    /\ proc[p].at = "drainApi"
    /\ \/ ~proc[p].request /\ To(p, "stopWorker")
       \/ proc[p].request /\ proc' = [proc EXCEPT ![p].at = "stopWorker", ![p].late = TRUE]
    /\ UNCHANGED <<legacy, root, lock, hosts>>

StopWorker(p) ==
    /\ proc[p].at = "stopWorker"
    /\ proc' = [proc EXCEPT ![p].at = "waitWorker", ![p].worker = "stopping"]
    /\ UNCHANGED <<legacy, root, lock, hosts>>

\* Mutant: the machines are stopped even if the worker did not stop in time.
WaitWorkerImpatient(p) ==
    /\ proc[p].at = "waitWorker"
    /\ proc' = [proc EXCEPT ![p].at = "hosts", ![p].late = @ \/ proc[p].worker # "done"]
    /\ UNCHANGED <<legacy, root, lock, hosts>>

\* Mutant: there is no grace period.
WaitWorkerForever(p) ==
    /\ proc[p].at = "waitWorker"
    /\ proc[p].worker = "done"
    /\ To(p, "hosts")
    /\ UNCHANGED <<legacy, root, lock, hosts>>

\* shutdownGrace: a worker that takes longer is left to the next launch.
WaitWorker(p) ==
    /\ proc[p].at = "waitWorker"
    /\ \/ proc[p].worker = "done" /\ To(p, "hosts")
       \/ /\ proc[p].worker # "done"
          /\ proc' = [proc EXCEPT ![p].at = "close", ![p].late = TRUE]
    /\ UNCHANGED <<legacy, root, lock, hosts>>

\* shutdownHosts stops what it can in its time.
ShutdownHosts(p) ==
    /\ proc[p].at = "hosts"
    /\ hosts' \in {FALSE, hosts}
    /\ To(p, "close")
    /\ UNCHANGED <<legacy, root, lock>>

\* The deferred calls of runDaemon, last first: the registry closes, then the
\* lock is released, then the process ends.
CloseRegistry(p) ==
    /\ proc[p].at = "close"
    /\ To(p, "release")
    /\ UNCHANGED <<legacy, root, lock, hosts>>

Release(p) ==
    /\ proc[p].at = "release"
    /\ Drop(p)
    /\ To(p, "exit")
    /\ UNCHANGED <<legacy, root, hosts>>

Exit(p) ==
    /\ proc[p].at = "exit"
    /\ Gone(p)
    /\ UNCHANGED <<legacy, root, lock, hosts>>

Kill(p) ==
    /\ proc[p].at \notin {"off", "over"}
    /\ GiveUp(p)
    /\ UNCHANGED <<legacy, root, hosts>>

Prepare(p) ==
    \/ StatLegacy(p) \/ StatRoot(p) \/ Mkdir(p) \/ Open(p) \/ Flock(p) \/ Recheck(p) \/ Rename(p)

Serve(p) ==
    \/ Start(p) \/ DrainApi(p) \/ StopWorker(p) \/ WaitWorker(p) \/ ShutdownHosts(p)
    \/ CloseRegistry(p) \/ Release(p) \/ Exit(p)

-----------------------------------------------------------------------------
(* go-merge, as far as prepareRoot expects it: it makes its root, takes the lock
   in it and serves from it. *)

OldLaunch(p) ==
    /\ proc[p].at = "off"
    /\ legacy' = IF legacy = NoDir THEN p ELSE legacy
    /\ To(p, "openLegacy")
    /\ UNCHANGED <<root, lock, hosts>>

OldFlock(p) ==
    /\ proc[p].at = "flock"
    /\ IF lock[proc[p].dir] # NoOne
       THEN Gone(p) /\ UNCHANGED lock
       ELSE To(p, "recheck") /\ lock' = [lock EXCEPT ![proc[p].dir] = p]
    /\ UNCHANGED <<legacy, root, hosts>>

\* It serves from the directory it locked if that is still its root.
OldServe(p) ==
    /\ proc[p].at = "recheck"
    /\ IF legacy = proc[p].dir
       THEN To(p, "serving") /\ UNCHANGED lock
       ELSE GiveUp(p)
    /\ UNCHANGED <<legacy, root, hosts>>

OldStep(p) == OldLaunch(p) \/ Open(p) \/ OldFlock(p) \/ OldServe(p)

Next ==
    \/ \E p \in Procs :
          \/ Launch(p) \/ Prepare(p) \/ Serve(p) \/ Quit(p)
          \/ Request(p) \/ RequestEnds(p) \/ Boot(p) \/ WorkerEnds(p)
    \/ \E p \in OldProcs : OldStep(p)
    \/ \E p \in AllProcs : Kill(p)

Spec == Init /\ [][Next]_vars

\* The main goroutine runs; rounds and requests may hang.
FairSpec == Spec /\ \A p \in Procs : WF_vars(Prepare(p) \/ Serve(p))

-----------------------------------------------------------------------------
(* Properties *)

Owns(p) == proc[p].at \in Owning

\* However many are launched, on whatever is installed, one has the workspace.
OneOwner == \A p, q \in Procs : Owns(p) /\ Owns(q) => p = q

\* A workspace stays where its owner took it, locked, until the owner lets go: no
\* other launch, donsy's or go-merge's, moves it from under it.
OwnedStaysPut ==
    /\ \A p \in Procs : Owns(p) => root = proc[p].dir /\ lock[root] = p
    /\ \A p \in OldProcs : proc[p].at = "serving" => legacy = proc[p].dir /\ lock[legacy] = p

\* The machines are only stopped when no worker may be using them: not the
\* process's own, nor another's but one that ran out of time and is about to end
\* with its process.
HostsDownAlone ==
    [][hosts /\ ~hosts' => \A p \in Procs : Alive(p) => proc[p].at = "exit"]_vars

\* The registry closes, and the lock goes, after everything that writes to the
\* workspace has ended, unless it outlived the time it was given.
ClosedQuiet ==
    \A p \in Procs :
        proc[p].at \in {"release", "exit"} /\ (Alive(p) \/ proc[p].request) => proc[p].late

\* A daemon that is asked to quit ends, whatever hangs in it.
QuitEnds == \A p \in Procs : proc[p].at = "drainApi" ~> proc[p].at = "over"

\* config_test.go: prepareRoot "CreatesNewRootAndCanRestart".  What the launches
\* leave behind is a workspace the next one can use.
CanRestart ==
    (\A p \in AllProcs : proc[p].at \in {"off", "over"}) => legacy = NoDir \/ root = NoDir
=============================================================================
