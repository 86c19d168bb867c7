----------------------------- MODULE SandboxLease -----------------------------
(***************************************************************************)
(* What a round is promised about its sandbox: from the moment Ensure hands *)
(* it over until the round lets go, the container is the round's alone, and *)
(* the machine it is in is not stopped.  Everything else -- the sweep, the  *)
(* pruning of a machine that just started, the reaping of a quiet one --    *)
(* keeps to what nobody holds.  Only a person who resets the subject, the   *)
(* container dying and the machine going down reach a sandbox that is held. *)
(***************************************************************************)
CONSTANT Sandboxes

VARIABLES
    held,   \* held[s]: a round is working in s
    asked,  \* asked[s]: a person's reset is deleting s
    up,     \* up[s]: the machine s lives in is running
    box     \* box[s]: the container of s

leaseVars == <<held, asked, up, box>>

Boxes == {"none", "stopped", "running", "dead"}

TypeOK ==
    /\ held \in [Sandboxes -> BOOLEAN]
    /\ asked \in [Sandboxes -> BOOLEAN]
    /\ up \in [Sandboxes -> BOOLEAN]
    /\ box \in [Sandboxes -> Boxes]

Init ==
    /\ held = [s \in Sandboxes |-> FALSE]
    /\ asked = held
    /\ up = held
    /\ box = [s \in Sandboxes |-> "none"]

\* What everyone may do to what nobody holds, and nobody to what another than s
\* does: machines start, and stop under no holder; containers come and go.
Beside(S) ==
    /\ up' \in [Sandboxes -> BOOLEAN]
    /\ box' \in [Sandboxes -> Boxes]
    /\ \A r \in Sandboxes : held[r] /\ up[r] => up'[r]
    /\ \A r \in Sandboxes \ S : held[r] => box'[r] = box[r]

\* Ensure found or made a container, and the round has it from here.
Acquire(s) ==
    /\ ~held[s]
    /\ held' = [held EXCEPT ![s] = TRUE]
    /\ Beside({s})
    /\ box'[s] # "none"
    /\ UNCHANGED asked

\* The holder starts its container.
Use(s) ==
    /\ held[s]
    /\ Beside({s})
    /\ box'[s] = "running"
    /\ UNCHANGED <<held, asked>>

\* The holder lets go, its container stopped, left running or as it was.
Release(s) ==
    /\ held[s]
    /\ held' = [held EXCEPT ![s] = FALSE]
    /\ Beside({s})
    /\ box'[s] \in {box[s], "stopped", "running"}
    /\ UNCHANGED asked

\* Starting, stopping and removing what nobody holds.
Collect ==
    /\ Beside({})
    /\ UNCHANGED <<held, asked>>

\* A person asks for a reset, which takes the container whoever holds it and
\* ends with the lease.
Ask(s) ==
    /\ asked' = [asked EXCEPT ![s] = TRUE]
    /\ UNCHANGED <<held, up, box>>

Seize(s) ==
    /\ asked[s]
    /\ box' = [box EXCEPT ![s] = "none"]
    /\ UNCHANGED <<held, asked, up>>

Revoke(s) ==
    /\ asked[s]
    /\ asked' = [asked EXCEPT ![s] = FALSE]
    /\ held' = [held EXCEPT ![s] = FALSE]
    /\ UNCHANGED <<up, box>>

\* A container dies by itself.
Die(s) ==
    /\ box[s] # "none"
    /\ box' = [box EXCEPT ![s] = "dead"]
    /\ UNCHANGED <<held, asked, up>>

\* Machines go down, and the containers running in them stop.
Outage(S) ==
    /\ \A s \in S : up[s]
    /\ up' = [s \in Sandboxes |-> up[s] /\ s \notin S]
    /\ box' = [s \in Sandboxes |-> IF s \in S /\ box[s] = "running" THEN "stopped" ELSE box[s]]
    /\ UNCHANGED <<held, asked>>

\* The daemon is gone and its rounds with it; the containers are not.
Crash ==
    /\ held' = [s \in Sandboxes |-> FALSE]
    /\ asked' = [s \in Sandboxes |-> FALSE]
    /\ UNCHANGED <<up, box>>

Next ==
    \/ \E s \in Sandboxes : Acquire(s) \/ Use(s) \/ Release(s)
    \/ \E s \in Sandboxes : Ask(s) \/ Seize(s) \/ Revoke(s) \/ Die(s)
    \/ \E S \in SUBSET Sandboxes : Outage(S)
    \/ Collect \/ Crash

Spec == Init /\ [][Next]_leaseVars
=============================================================================
