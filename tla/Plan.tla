--------------------------------- MODULE Plan ---------------------------------
(***************************************************************************)
(* The issue tree of an epic, and how it goes through the refiner's hands.  *)
(* A round writes the tree as files (IssueTreeStore.Write): a folder for a  *)
(* repository, a file for an issue, a folder beside it for what is below    *)
(* it, and what an issue waits for as paths.  The refiner edits the files.  *)
(* The round reads them back (IssueTreeStore.Read) into the epic as it is   *)
(* by then: people make and close issues meanwhile, and a plan that is      *)
(* refined again has issues that are being worked on.                       *)
(* What a round is beside that is Drafting, what happens to a record        *)
(* between its opening and its merge is IssueLoop.                          *)
(***************************************************************************)
EXTENDS Naturals

CONSTANTS
    Issues,         \* every issue there may come to be, but the root
    Root,           \* the epic restated
    Repositories,
    Nowhere,        \* what a path names that is no file's
    MaxEdits,       \* bound: edits of the refiner
    MaxEvents       \* bound: what people and the loop do

ASSUME PlanConstants ==
    /\ Root \notin Issues
    /\ Nowhere \notin Issues
    /\ MaxEdits \in Nat
    /\ MaxEvents \in Nat

VARIABLES
    phase,      \* the epic is being drafted, or Ready
    issue,      \* issue[i], "None" of it until it is made
    open,       \* issues with an open pull request
    round,      \* a refiner's round is under way
    file,       \* file[i], of the tree mounted in its sandbox
    taken,      \* history: taken[i], waits the refiner itself took out of i's file
    edits,
    events

epic == <<phase, issue, open>>
vars == <<epic, round, file, taken, edits, events>>

Issue == [state : {"None", "Open", "Coding", "Merged", "Closed"},
          parent : Issues \cup {Root},
          repository : Repositories,
          blockedBy : SUBSET Issues]

File == [there : BOOLEAN,
         parent : Issues \cup {Root},
         repository : Repositories,
         blockedBy : SUBSET (Issues \cup {Nowhere})]

TypeOK ==
    /\ phase \in {"drafting", "ready"}
    /\ issue \in [Issues -> Issue]
    /\ open \in SUBSET Issues
    /\ round \in {"idle", "refining"}
    /\ file \in [Issues -> File]
    /\ taken \in [Issues -> SUBSET Issues]
    /\ edits \in 0..MaxEdits
    /\ events \in 0..MaxEvents
-----------------------------------------------------------------------------
(* The tree *)

Known(tree) == {i \in Issues : tree[i].state # "None"}

Settled(i, tree) == tree[i].state \in {"Merged", "Closed"}

\* traverseIssuesDown from each of roots: what every set has that has them and
\* with each issue its children.
Below(roots, parents) ==
    {i \in DOMAIN parents :
        \A S \in SUBSET DOMAIN parents :
            roots \subseteq S /\ (\A j \in DOMAIN parents : parents[j] \in S => j \in S) => i \in S}

Parents(tree) == [i \in Known(tree) |-> tree[i].parent]

\* Epic.Blocked: by its children and by what it names.
Blocked(i, tree) ==
    \E j \in Known(tree) :
        ~Settled(j, tree) /\ (tree[j].parent = i \/ j \in tree[i].blockedBy)

WaitsFor(i, tree) == {j \in Known(tree) : tree[j].parent = i \/ j \in tree[i].blockedBy}

\* waitsAcyclic, which finds an issue that is blocked by itself or by an ancestor
\* and a hierarchy in a circle too.
Acyclic(tree) ==
    \A S \in SUBSET Known(tree) :
        (\A i \in S : WaitsFor(i, tree) \cap S # {}) => S = {}

\* An epic as its first plan made it: any tree of open issues.
Init ==
    /\ phase = "ready"
    /\ issue \in [Issues -> {t \in Issue : t.state \in {"None", "Open"}}]
    /\ \A i \in Known(issue) :
          /\ issue[i].parent \in Known(issue) \cup {Root}
          /\ issue[i].parent # Root => issue[i].repository = issue[issue[i].parent].repository
          /\ issue[i].blockedBy \subseteq Known(issue)
    /\ \E r \in Repositories :
          \A i \in Issues \ Known(issue) :
              issue[i] = [state |-> "None", parent |-> Root, repository |-> r, blockedBy |-> {}]
    /\ Acyclic(issue)
    /\ open = {}
    /\ round = "idle"
    /\ \E r \in Repositories :
          file = [i \in Issues |-> [there |-> FALSE, parent |-> Root, repository |-> r,
                                    blockedBy |-> {}]]
    /\ taken = [i \in Issues |-> {}]
    /\ edits = MaxEdits
    /\ events = MaxEvents

Spend == events > 0 /\ events' = events - 1

\* Epic.CloseIssue, with every issue below and every open record of theirs.
CloseIssues(roots, tree) ==
    LET closing == Below(roots, Parents(tree)) IN
    [i \in Issues |-> IF i \in closing /\ tree[i].state # "Merged"
                      THEN [tree[i] EXCEPT !.state = "Closed"] ELSE tree[i]]

RecordsLeft(roots, tree) == open \ {i \in Below(roots, Parents(tree)) : tree[i].state # "Merged"}

-----------------------------------------------------------------------------
(* A round *)

\* treePaths: a closed issue hides what is below it.
Shown ==
    Known(issue) \ Below({i \in Known(issue) : issue[i].state = "Closed"}, Parents(issue))

\* validateTreeStructure: a folder has one repository.
OneRepository ==
    \A i \in Shown : issue[i].parent \in Shown =>
        issue[i].repository = issue[issue[i].parent].repository

\* IssueTreeStore.Write clears the directory first.
Written ==
    [i \in Issues |->
        [there |-> i \in Shown,
         parent |-> issue[i].parent,
         repository |-> issue[i].repository,
         blockedBy |-> IF i \in Shown THEN issue[i].blockedBy \cap Shown ELSE {}]]

RoundWrite ==
    /\ phase = "drafting"
    /\ round = "idle"
    /\ OneRepository
    /\ file' = Written
    /\ taken' = [i \in Issues |-> {}]
    /\ round' = "refining"
    /\ UNCHANGED <<epic, edits, events>>

Staged(i, state) ==
    [state |-> IF state = "None" THEN "Open" ELSE state,
     parent |-> file[i].parent,
     repository |-> file[i].repository,
     blockedBy |-> file[i].blockedBy]

Omitted == {i \in Known(issue) : ~file[i].there /\ issue[i].state # "Closed"}

\* Mutant: the issues that were left out are closed when the new tree is in place.
ImportedLate ==
    LET staged == [i \in Issues |-> IF file[i].there THEN Staged(i, issue[i].state) ELSE issue[i]]
        closed == CloseIssues(Omitted, issue)
    IN [i \in Issues |-> [staged[i] EXCEPT !.state =
           IF i \in Known(issue) THEN closed[i].state ELSE @]]

\* IssueTreeStore.Read: what the tree leaves out is closed, with what was below
\* it, and then what it holds takes the place of what was there.
Imported ==
    [i \in Issues |-> IF file[i].there THEN Staged(i, issue[i].state)
                      ELSE CloseIssues(Omitted, issue)[i]]

\* Mutant: a reference nothing answers is dropped.
ResolvedDropping(tree) == [i \in Issues |-> [tree[i] EXCEPT !.blockedBy = @ \ {Nowhere}]]

\* resolveBlockedBy leaves it for Accepted to refuse.
Resolved(tree) == tree

\* Mutant: loops are looked for among the references, not through the tree.
AcceptedByName(tree) ==
    /\ \A i \in Issues : Nowhere \notin tree[i].blockedBy
    /\ \A S \in SUBSET Known(tree) :
          (\A i \in S : tree[i].blockedBy \cap S # {}) => S = {}
    /\ \E i \in Known(tree) : tree[i].state # "Closed"

Accepted(tree) ==
    /\ \A i \in Issues : Nowhere \notin tree[i].blockedBy
    /\ Acyclic(tree)
    /\ \E i \in Known(tree) : tree[i].state # "Closed"

\* completeEpicRun, and the reviewer's and a person's approval.
RoundImport ==
    /\ round = "refining"
    /\ Accepted(Resolved(Imported))
    /\ issue' = Resolved(Imported)
    /\ open' = RecordsLeft(Omitted, issue)
    /\ phase' = "ready"
    /\ round' = "idle"
    /\ UNCHANGED <<file, taken, edits, events>>

\* A plan that is refused, a round that fails, or a crash.
RoundFail ==
    /\ round = "refining"
    /\ round' = "idle"
    /\ UNCHANGED <<epic, file, taken, edits, events>>

-----------------------------------------------------------------------------
(* The refiner's edits *)

Edit == round = "refining" /\ edits > 0 /\ edits' = edits - 1

Files == {i \in Issues : file[i].there}

FileParents == [i \in Files |-> file[i].parent]

\* References to what is no longer where it was.
Unlinked(gone, files) ==
    [i \in Issues |->
        IF files[i].blockedBy \cap gone = {} THEN files[i]
        ELSE [files[i] EXCEPT !.blockedBy = (@ \ gone) \cup {Nowhere}]]

\* A new file has no ID until it is read.
WriteFile(i, under, repository) ==
    /\ Edit
    /\ issue[i].state = "None" /\ ~file[i].there
    /\ under # Root => repository = file[under].repository
    /\ file' = [file EXCEPT ![i] = [there |-> TRUE, parent |-> under,
                                    repository |-> repository, blockedBy |-> {}]]
    /\ UNCHANGED <<epic, round, taken, events>>

\* An issue is moved with its folder; what names it may be rewritten with it.
MoveFile(i, under, repository) ==
    LET moved == Below({i}, FileParents)
        there == [j \in Issues |->
                    IF j \in moved
                    THEN [file[j] EXCEPT !.repository = repository,
                                         !.parent = IF j = i THEN under ELSE @]
                    ELSE file[j]]
    IN
    /\ Edit
    /\ file[i].there /\ under \notin moved
    /\ under # Root => repository = file[under].repository
    /\ file' \in {there, Unlinked(moved, there)}
    /\ UNCHANGED <<epic, round, taken, events>>

\* Without its file an issue's folder is not read.
DropFile(i) ==
    LET gone == Below({i}, FileParents) IN
    /\ Edit
    /\ file[i].there
    /\ file' = Unlinked(gone, [j \in Issues |-> IF j \in gone THEN [file[j] EXCEPT !.there = FALSE, !.blockedBy = {}]
                                                  ELSE file[j]])
    /\ UNCHANGED <<epic, round, taken, events>>

Block(i, by) ==
    /\ Edit
    /\ file[i].there /\ file[by].there
    /\ file' = [file EXCEPT ![i].blockedBy = @ \cup {by}]
    /\ UNCHANGED <<epic, round, taken, events>>

\* A reference is taken out: one that names nothing any more goes with whatever
\* the issue waited for that its file has lost the name of.
Unblock(i, by) ==
    /\ Edit
    /\ file[i].there /\ by \in file[i].blockedBy
    /\ file' = [file EXCEPT ![i].blockedBy = @ \ {by}]
    /\ taken' = [taken EXCEPT ![i] =
                    @ \cup IF by = Nowhere THEN issue[i].blockedBy \ file[i].blockedBy ELSE {by}]
    /\ UNCHANGED <<epic, round, events>>

-----------------------------------------------------------------------------
(* People and the loop *)

\* CreateIssueUseCase and Epic.AddIssue: under any issue, in any repository.
CreateIssue(i, under, repository) ==
    /\ Spend
    /\ issue[i].state = "None" /\ ~file[i].there
    /\ under \in Known(issue) \cup {Root}
    /\ issue' = [issue EXCEPT ![i] = [state |-> "Open", parent |-> under,
                                      repository |-> repository, blockedBy |-> {}]]
    /\ UNCHANGED <<phase, open, round, file, taken, edits>>

CloseIssue(i) ==
    /\ Spend
    /\ i \in Known(issue)
    /\ issue' = CloseIssues({i}, issue)
    /\ open' = RecordsLeft({i}, issue)
    /\ UNCHANGED <<phase, round, file, taken, edits>>

RequestChanges ==
    /\ Spend
    /\ phase = "ready"
    /\ phase' = "drafting"
    /\ UNCHANGED <<issue, open, round, file, taken, edits>>

\* OpenPullRequestsUseCase, in one step.
OpenPullRequest(i) ==
    /\ Spend
    /\ phase = "ready"
    /\ issue[i].state = "Open" /\ ~Blocked(i, issue) /\ i \notin open
    /\ issue' = [issue EXCEPT ![i].state = "Coding"]
    /\ open' = open \cup {i}
    /\ UNCHANGED <<phase, round, file, taken, edits>>

\* The rounds of an issue and the merge of its record, whatever the epic's state.
Merge(i) ==
    /\ Spend
    /\ i \in open
    /\ issue' = [issue EXCEPT ![i].state = "Merged"]
    /\ open' = open \ {i}
    /\ UNCHANGED <<phase, round, file, taken, edits>>

RefinerStep ==
    \/ \E i \in Issues, under \in Files \cup {Root}, r \in Repositories :
          WriteFile(i, under, r) \/ MoveFile(i, under, r)
    \/ \E i \in Issues : DropFile(i) \/ \E by \in Issues : Block(i, by)
    \/ \E i \in Issues, by \in Issues \cup {Nowhere} : Unblock(i, by)

Next ==
    \/ RoundWrite \/ RoundImport \/ RoundFail
    \/ RefinerStep
    \/ RequestChanges
    \/ \E i \in Issues : CloseIssue(i) \/ OpenPullRequest(i) \/ Merge(i)
    \/ \E i \in Issues, under \in Issues \cup {Root}, r \in Repositories : CreateIssue(i, under, r)

Spec == Init /\ [][Next]_vars

-----------------------------------------------------------------------------
(* Properties *)

Importing == round = "refining" /\ phase' # phase

\* While work is left, some of it waits for nothing: no plan that was accepted,
\* and nothing people do to it, leaves issues waiting for each other for ever.
SomethingIsUnblocked ==
    (\E i \in Known(issue) : ~Settled(i, issue))
        => \E i \in Known(issue) : ~Settled(i, issue) /\ ~Blocked(i, issue)

\* An issue the refiner kept, wherever it put it, is as far as the loop and
\* people had taken it by the time the tree was read.
PlannedIsKept ==
    [][Importing => \A i \in Known(issue) : file[i].there => issue'[i].state = issue[i].state]_vars

\* An issue stops waiting for another only if that one is settled or the refiner
\* itself took the reference out of its file, which Read believes: no move of a
\* file, no issue left out or hidden and no older tree loses a wait by itself
\* (blockedByPaths: a blocker missing from the tree "holds nothing up").
WaitsSurvive ==
    [][\A i \in Issues : \A j \in issue[i].blockedBy \ issue'[i].blockedBy :
          issue'[j].state \in {"Merged", "Closed"} \/ (Importing /\ j \in taken[i])]_vars

\* What is merged or closed stays that, under every import of an older tree.
SettledStays ==
    [][\A i \in Issues : Settled(i, issue) => issue'[i].state = issue[i].state]_vars

\* issue_state.go: an issue is rewound "rather than strand it in a phase no round
\* will ever pick up".
WorkHasRecord == \A i \in Issues : issue[i].state = "Coding" => i \in open

\* issue_tree_store_write.go and Epic.Validate: an epic that is stored can be
\* written as files.
CanBeWritten == OneRepository

\* epic_progress.go: waitsAcyclic rejects "a loop in 'waits for', which would leave
\* every issue on it stalled forever": a plan is not refused when every loop in it
\* runs through settled issues.
RefusedLoopsStall ==
    round = "refining" /\ (\A i \in Issues : Nowhere \notin file[i].blockedBy) /\ ~Acyclic(Imported)
        => \E S \in SUBSET {i \in Known(Imported) : ~Settled(i, Imported)} :
              S # {} /\ \A i \in S : WaitsFor(i, Imported) \cap S # {}
=============================================================================
