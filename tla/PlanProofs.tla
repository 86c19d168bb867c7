------------------------------ MODULE PlanProofs ------------------------------
(***************************************************************************)
(* What Plan promises, proved for every set of issues and repositories and  *)
(* any number of edits and events.                                          *)
(***************************************************************************)
EXTENDS Plan, TLAPS

\* What waits for what has no loop, through the tree and what issues name, and
\* the parent of an issue is one too.
Sound ==
    /\ Acyclic(issue)
    /\ \A i \in Known(issue) : issue[i].parent \in Known(issue) \cup {Root}

\* A record is open for an issue that is being worked on.
Working == \A i \in open : i \in Issues /\ issue[i].state = "Coding"

\* The files are a tree of files that name files.
Filed ==
    /\ \A i \in Files : file[i].parent \in Files \cup {Root}
    /\ \A i \in Issues : file[i].blockedBy \subseteq Files \cup {Nowhere}

\* What an issue waited for when the tree was written its file still names, or has
\* lost the name of, or the refiner took out, or it is not in the tree.
Named ==
    round = "refining" =>
        /\ phase = "drafting"
        /\ \A i \in Files : \A j \in issue[i].blockedBy :
              \/ j \in file[i].blockedBy \/ Nowhere \in file[i].blockedBy
              \/ j \in taken[i] \/ j \notin Files

\* Only what there is is waited for, and only by what there is.
WaitsKnown ==
    \A i \in Issues : /\ issue[i].blockedBy \subseteq Known(issue)
                      /\ i \notin Known(issue) => issue[i].blockedBy = {}

IInv == TypeOK /\ Sound /\ Working /\ Filed /\ Named /\ WaitsKnown
-----------------------------------------------------------------------------
(* The tree *)

\* Waits are of the shape of the tree, whatever its issues' states
\* (waitsAcyclic looks at no state).
LEMMA SameShape ==
    ASSUME NEW t, NEW u,
           Known(t) = Known(u),
           \A i \in Issues : t[i].parent = u[i].parent /\ t[i].blockedBy = u[i].blockedBy,
           Acyclic(t)
    PROVE  Acyclic(u)
<1>1. \A i \in Known(u) : WaitsFor(i, u) = WaitsFor(i, t)
  BY DEF WaitsFor, Known
<1>2. QED
  BY <1>1, Z3 DEF Acyclic

\* What is below something that is below a root is below the root
\* (Epic.traverseIssuesDown).
LEMMA BelowClosed ==
    ASSUME NEW parents, NEW roots, NEW i \in DOMAIN parents,
           parents[i] \in Below(roots, parents)
    PROVE  i \in Below(roots, parents)
<1>1. SUFFICES ASSUME NEW S \in SUBSET DOMAIN parents, roots \subseteq S,
                      \A j \in DOMAIN parents : parents[j] \in S => j \in S
               PROVE  i \in S
  BY DEF Below
<1>2. parents[i] \in S
  BY <1>1 DEF Below
<1>3. QED
  BY <1>1, <1>2

\* A root is below itself.
LEMMA RootsBelow ==
    ASSUME NEW parents, NEW roots, NEW i \in DOMAIN parents, i \in roots
    PROVE  i \in Below(roots, parents)
BY DEF Below

\* Closing leaves the shape of a tree, what is known of it and what is merged
\* (Epic.CloseIssue).
LEMMA Closing ==
    ASSUME NEW tree \in [Issues -> Issue], NEW roots
    PROVE  LET closed == CloseIssues(roots, tree) IN
           /\ closed \in [Issues -> Issue]
           /\ Known(closed) = Known(tree)
           /\ \A i \in Issues : /\ closed[i].parent = tree[i].parent
                                /\ closed[i].blockedBy = tree[i].blockedBy
                                /\ closed[i].state \in {tree[i].state, "Closed"}
                                /\ Settled(i, tree) => closed[i].state = tree[i].state
<1> DEFINE closing == Below(roots, Parents(tree))
<1> DEFINE closed == CloseIssues(roots, tree)
<1>1. closing \subseteq Known(tree)
  BY DEF Below, Parents
<1>2. closed = [i \in Issues |-> IF i \in closing /\ tree[i].state # "Merged"
                                 THEN [tree[i] EXCEPT !.state = "Closed"] ELSE tree[i]]
  BY DEF CloseIssues
<1> HIDE DEF closing, closed
<1>3. ASSUME NEW i \in Issues
      PROVE  /\ closed[i] \in Issue
             /\ closed[i].state = "None" <=> tree[i].state = "None"
             /\ closed[i].parent = tree[i].parent
             /\ closed[i].blockedBy = tree[i].blockedBy
             /\ closed[i].state \in {tree[i].state, "Closed"}
             /\ Settled(i, tree) => closed[i].state = tree[i].state
  <2>1. tree[i] \in Issue
    OBVIOUS
  <2>2. CASE i \in closing /\ tree[i].state # "Merged"
    <3>1. closed[i] = [tree[i] EXCEPT !.state = "Closed"]
      BY <1>2, <2>2
    <3>2. tree[i].state # "None"
      BY <1>1, <2>2 DEF Known
    <3>3. QED
      BY <2>1, <2>2, <3>1, <3>2 DEF Issue, Settled
  <2>3. CASE ~(i \in closing /\ tree[i].state # "Merged")
    BY <1>2, <2>1, <2>3
  <2>4. QED
    BY <2>2, <2>3
<1>4. closed \in [Issues -> Issue]
  BY <1>2, <1>3
<1>5. Known(closed) = Known(tree)
  BY <1>3 DEF Known
<1>6. QED
  BY <1>3, <1>4, <1>5 DEF closed
-----------------------------------------------------------------------------
(* The steps *)

\* A plan a round starts from satisfies the invariant: a tree without loops, no
\* work begun, and no files yet (Init).
LEMMA Initially == Init => IInv
<1> SUFFICES ASSUME Init PROVE IInv
  OBVIOUS
<1>1. issue \in [Issues -> Issue]
  BY DEF Init
<1>2. Files = {}
  BY DEF Init, Files
<1>3. TypeOK
  BY <1>1, PlanConstants DEF Init, TypeOK, File
<1>4. Sound /\ Working
  BY DEF Init, Sound, Working
<1>5. Filed
  BY <1>2 DEF Init, Filed
<1>6. WaitsKnown
  <2>1. \A i \in Known(issue) : issue[i].blockedBy \subseteq Known(issue)
    BY DEF Init
  <2>2. \A i \in Issues \ Known(issue) : issue[i].blockedBy = {}
    <3>1. PICK r \in Repositories : \A i \in Issues \ Known(issue) :
             issue[i] = [state |-> "None", parent |-> Root, repository |-> r, blockedBy |-> {}]
      BY DEF Init
    <3>2. ASSUME NEW i \in Issues \ Known(issue) PROVE issue[i].blockedBy = {}
      <4>1. issue[i] = [state |-> "None", parent |-> Root, repository |-> r, blockedBy |-> {}]
        BY <3>1, <3>2
      <4> QED
        BY <4>1
    <3> QED
      BY <3>2
  <2> QED
    BY <2>1, <2>2 DEF WaitsKnown
<1>7. QED
  BY <1>3, <1>4, <1>5, <1>6 DEF IInv, Named, Init

\* The field of a record that says whether a file is there.
LEMMA WrittenThere ==
    ASSUME NEW f, NEW P, NEW x, NEW y, NEW z,
           f = [there |-> P, parent |-> x, repository |-> y, blockedBy |-> z]
    PROVE  f.there <=> P
OBVIOUS

\* Writing the tree for a round makes files of what is not settled, and each names
\* what its issue waits for (IssueTreeStore.Write).
LEMMA WriteStep == IInv /\ RoundWrite => IInv'
<1> SUFFICES ASSUME IInv, RoundWrite PROVE IInv'
  OBVIOUS
<1> USE DEF RoundWrite, epic
<1>1. Shown \subseteq Known(issue) /\ Known(issue) \subseteq Issues
  BY DEF Shown, Known
<1>2. \A i \in Shown : issue[i].parent \in Shown \cup {Root}
  <2> SUFFICES ASSUME NEW i \in Shown, issue[i].parent # Root
               PROVE  issue[i].parent \in Shown
    OBVIOUS
  <2> DEFINE closed == {k \in Known(issue) : issue[k].state = "Closed"}
  <2> DEFINE parents == Parents(issue)
  <2>1. issue[i].parent \in Known(issue)
    BY <1>1 DEF IInv, Sound
  <2>2. i \in DOMAIN parents /\ parents[i] = issue[i].parent
    BY <1>1 DEF Parents
  <2>3. i \notin Below(closed, parents)
    BY DEF Shown
  <2> HIDE DEF closed, parents
  <2>4. parents[i] \notin Below(closed, parents)
    BY <2>2, <2>3, BelowClosed
  <2> QED
    BY <2>1, <2>2, <2>4 DEF Shown, closed, parents
<1>3. file' = [i \in Issues |->
                 [there |-> i \in Shown, parent |-> issue[i].parent,
                  repository |-> issue[i].repository,
                  blockedBy |-> IF i \in Shown THEN issue[i].blockedBy \cap Shown ELSE {}]]
  BY DEF Written
<1>4. Files' = Shown
  <2>1. \A i \in Issues : file'[i].there <=> i \in Shown
    <3> SUFFICES ASSUME NEW i \in Issues PROVE file'[i].there <=> i \in Shown
      OBVIOUS
    <3>1. file'[i] = [there |-> i \in Shown, parent |-> issue[i].parent,
                      repository |-> issue[i].repository,
                      blockedBy |-> IF i \in Shown THEN issue[i].blockedBy \cap Shown ELSE {}]
      BY <1>3
    <3> QED
      BY <3>1, WrittenThere
  <2> QED
    BY <1>1, <2>1 DEF Files
<1>5. TypeOK'
  <2>1. \A i \in Issues : issue[i] \in Issue
    BY DEF IInv, TypeOK
  <2>2. file' \in [Issues -> File]
    BY <1>1, <1>3, <2>1 DEF Issue, File
  <2> QED
    BY <2>2 DEF IInv, TypeOK
<1>6. Filed'
  BY <1>1, <1>2, <1>3, <1>4 DEF Filed
<1>7. Named'
  BY <1>1, <1>3, <1>4 DEF Named
<1>8. (Sound /\ Working /\ WaitsKnown)'
  BY DEF IInv, Sound, Working, WaitsKnown, Acyclic, WaitsFor, Known
<1>9. QED
  BY <1>5, <1>6, <1>7, <1>8 DEF IInv

\* What an import makes of the epic, whatever the refiner's tree is by then.
LEMMA ImportedTree ==
    ASSUME IInv, round = "refining", Accepted(Imported)
    PROVE  /\ Imported \in [Issues -> Issue]
           /\ Known(Imported) = Known(issue) \cup Files
           /\ \A i \in Files : /\ Imported[i].parent = file[i].parent
                               /\ Imported[i].blockedBy = file[i].blockedBy
                               /\ issue[i].state # "None" => Imported[i].state = issue[i].state
           /\ \A i \in Issues \ Files :
                /\ Imported[i].parent = issue[i].parent
                /\ Imported[i].blockedBy = issue[i].blockedBy
                /\ Imported[i].state \in {issue[i].state, "Closed"}
                /\ i \in Known(issue) => Settled(i, Imported)
           /\ \A i \in Issues : Settled(i, issue) => Imported[i].state = issue[i].state
<1> DEFINE closed == CloseIssues(Omitted, issue)
<1> DEFINE tree == Imported
<1>1. tree = [i \in Issues |-> IF file[i].there THEN Staged(i, issue[i].state) ELSE closed[i]]
  BY DEF Imported
<1>2. /\ closed \in [Issues -> Issue] /\ Known(closed) = Known(issue)
      /\ \A i \in Issues : /\ closed[i].parent = issue[i].parent
                           /\ closed[i].blockedBy = issue[i].blockedBy
                           /\ closed[i].state \in {issue[i].state, "Closed"}
                           /\ Settled(i, issue) => closed[i].state = issue[i].state
  BY Closing DEF IInv, TypeOK
<1>3. ASSUME NEW i \in Known(issue), ~file[i].there
      PROVE  Settled(i, closed)
  <2>1. i \in Issues
    BY <1>3 DEF Known
  <2>2. CASE issue[i].state \in {"Closed", "Merged"}
    BY <1>2, <2>1, <2>2 DEF Settled
  <2>3. CASE issue[i].state \notin {"Closed", "Merged"}
    <3>1. i \in Omitted /\ i \in DOMAIN Parents(issue)
      BY <1>3, <2>3 DEF Omitted, Parents
    <3>2. i \in Below(Omitted, Parents(issue))
      BY <3>1, RootsBelow
    <3>3. closed[i] = [issue[i] EXCEPT !.state = "Closed"]
      BY <2>1, <2>3, <3>2 DEF CloseIssues
    <3>4. issue[i] \in Issue
      BY <2>1 DEF IInv, TypeOK
    <3> QED
      BY <3>3, <3>4 DEF Settled, Issue
  <2> QED
    BY <2>2, <2>3
<1> HIDE DEF closed
<1>4. ASSUME NEW i \in Files
      PROVE  /\ tree[i].parent = file[i].parent
             /\ tree[i].blockedBy = file[i].blockedBy
             /\ tree[i].state = IF issue[i].state = "None" THEN "Open" ELSE issue[i].state
             /\ tree[i] \in Issue
  <2>1. i \in Issues /\ tree[i] = Staged(i, issue[i].state)
    BY <1>1, <1>4 DEF Files
  <2>2. file[i] \in File /\ issue[i] \in Issue
    BY <2>1 DEF IInv, TypeOK
  <2>3. Nowhere \notin tree[i].blockedBy
    BY <2>1 DEF Accepted
  <2> HIDE DEF tree
  <2> QED
    BY <2>1, <2>2, <2>3 DEF Staged, File, Issue
<1>5. \A i \in Issues \ Files : tree[i] = closed[i]
  BY <1>1 DEF Files
<1>6. tree \in [Issues -> Issue]
  BY <1>1, <1>2, <1>4, <1>5 DEF Files
<1>7. Known(tree) = Known(issue) \cup Files
  <2>1. \A i \in Files : i \in Known(tree)
    BY <1>4 DEF Known, Files
  <2>2. \A i \in Issues \ Files : i \in Known(tree) <=> i \in Known(issue)
    BY <1>2, <1>5 DEF Known
  <2> QED
    BY <2>1, <2>2 DEF Known, Files
<1>8. \A i \in (Issues \ Files) \cap Known(issue) : Settled(i, tree)
  BY <1>3, <1>5 DEF Settled, Files
<1>9. \A i \in Issues : Settled(i, issue) => tree[i].state = issue[i].state
  BY <1>2, <1>4, <1>5 DEF Settled, Files
<1>10. QED
  BY <1>2, <1>4, <1>5, <1>6, <1>7, <1>8, <1>9

\* An import that is accepted leaves a tree without loops whose waits are all
\* known; one that is refused changes nothing (RunEpicAgentUseCase.completeEpicRun).
LEMMA ImportStep == IInv /\ RoundImport => IInv'
<1> SUFFICES ASSUME IInv, RoundImport PROVE IInv'
  OBVIOUS
<1> DEFINE tree == Imported
<1>1. /\ round = "refining" /\ Accepted(tree) /\ issue' = tree
      /\ open' = RecordsLeft(Omitted, issue)
      /\ phase' = "ready" /\ round' = "idle" /\ UNCHANGED <<file, taken, edits, events>>
  BY DEF RoundImport, Resolved
<1>2. /\ tree \in [Issues -> Issue]
      /\ Known(tree) = Known(issue) \cup Files
      /\ \A i \in Files : /\ tree[i].parent = file[i].parent
                          /\ tree[i].blockedBy = file[i].blockedBy
                          /\ issue[i].state # "None" => tree[i].state = issue[i].state
      /\ \A i \in Issues \ Files : /\ tree[i].parent = issue[i].parent
                                   /\ tree[i].blockedBy = issue[i].blockedBy
      /\ \A i \in Issues \ Files : i \in Known(issue) => Settled(i, tree)
  BY <1>1, ImportedTree
<1>3. \A i \in Issues : i \notin Files =>
         tree[i] = CloseIssues(Omitted, issue)[i]
  BY DEF Imported, Files
<1> HIDE DEF tree
<1>4. TypeOK'
  <2>1. open' \subseteq Issues
    BY <1>1 DEF RecordsLeft, IInv, TypeOK
  <2> QED
    BY <1>1, <1>2, <2>1 DEF IInv, TypeOK
<1>5. Sound'
  <2>1. Acyclic(issue')
    BY <1>1 DEF Accepted
  <2>2. \A i \in Known(issue') : issue'[i].parent \in Known(issue') \cup {Root}
    <3> SUFFICES ASSUME NEW i \in Known(tree)
                 PROVE  tree[i].parent \in Known(tree) \cup {Root}
      BY <1>1
    <3>1. CASE i \in Files
      BY <1>2, <3>1 DEF IInv, Filed
    <3>2. CASE i \notin Files
      <4>1. i \in Known(issue) /\ i \in Issues \ Files
        BY <1>2, <3>2 DEF Known
      <4> QED
        BY <1>2, <4>1 DEF IInv, Sound
    <3> QED
      BY <3>1, <3>2
  <2> QED
    BY <2>1, <2>2 DEF Sound
<1>6. Working'
  <2> SUFFICES ASSUME NEW i \in open' PROVE i \in Issues /\ tree[i].state = "Coding"
    BY <1>1 DEF Working
  <2>1. i \in open /\ ~(i \in Below(Omitted, Parents(issue)) /\ issue[i].state # "Merged")
    BY <1>1 DEF RecordsLeft
  <2>2. i \in Issues /\ issue[i].state = "Coding"
    BY <2>1 DEF IInv, Working
  <2>3. CASE i \in Files
    BY <1>2, <2>2, <2>3
  <2>4. CASE i \notin Files
    <3>1. CloseIssues(Omitted, issue)[i] = issue[i]
      BY <2>1, <2>2 DEF CloseIssues
    <3> QED
      BY <1>3, <2>2, <2>4, <3>1
  <2> QED
    BY <2>2, <2>3, <2>4
<1>7. WaitsKnown'
  <2> SUFFICES ASSUME NEW i \in Issues
               PROVE  /\ tree[i].blockedBy \subseteq Known(tree)
                      /\ i \notin Known(tree) => tree[i].blockedBy = {}
    BY <1>1 DEF WaitsKnown
  <2>1. CASE i \in Files
    <3>1. Nowhere \notin tree[i].blockedBy
      BY <1>1 DEF Accepted
    <3> QED
      BY <1>2, <2>1, <3>1 DEF IInv, Filed
  <2>2. CASE i \notin Files
    BY <1>2, <2>2 DEF IInv, WaitsKnown
  <2> QED
    BY <2>1, <2>2
<1>8. Filed' /\ Named'
  BY <1>1 DEF IInv, Filed, Named, Files
<1>9. QED
  BY <1>4, <1>5, <1>6, <1>7, <1>8 DEF IInv

\* An edit changes the files alone: what is left to show is that they stay a tree
\* that has what the issues waited for.
LEMMA EditStep ==
    ASSUME IInv, Edit, UNCHANGED <<epic, round, events>>,
           file' \in [Issues -> File], taken' \in [Issues -> SUBSET Issues], Filed',
           \A i \in Files' : \A j \in issue[i].blockedBy :
              \/ j \in file'[i].blockedBy \/ Nowhere \in file'[i].blockedBy
              \/ j \in taken'[i] \/ j \notin Files'
    PROVE  IInv'
<1> USE DEF epic
<1>1. TypeOK'
  BY PlanConstants DEF IInv, TypeOK, Edit
<1>2. (Sound /\ Working /\ WaitsKnown)'
  BY DEF IInv, Sound, Working, WaitsKnown, Acyclic, WaitsFor, Known
<1>3. Named'
  BY DEF IInv, Named, Edit
<1>4. QED
  BY <1>1, <1>2, <1>3 DEF IInv

\* A new file of the refiner's has its place below another or at the top, and
\* replaces none that an issue waits for.
LEMMA WriteFileStep ==
    ASSUME IInv, NEW i \in Issues, NEW under \in Files \cup {Root}, NEW r \in Repositories,
           WriteFile(i, under, r)
    PROVE  IInv'
<1>1. /\ Edit /\ issue[i].state = "None" /\ ~file[i].there
      /\ UNCHANGED <<epic, round, taken, events>>
      /\ file' = [file EXCEPT ![i] = [there |-> TRUE, parent |-> under, repository |-> r,
                                      blockedBy |-> {}]]
  BY DEF WriteFile
<1>2. file \in [Issues -> File] /\ under \in Issues \cup {Root}
  BY DEF IInv, TypeOK, Files
<1>3. file' \in [Issues -> File]
  BY <1>1, <1>2 DEF File
<1>4. Files' = Files \cup {i}
  BY <1>1, <1>2 DEF Files
<1>5. Filed'
  <2>1. ASSUME NEW k \in Files' PROVE file'[k].parent \in Files' \cup {Root}
    BY <1>1, <1>2, <1>4, <2>1 DEF IInv, Filed, Files
  <2>2. ASSUME NEW k \in Issues PROVE file'[k].blockedBy \subseteq Files' \cup {Nowhere}
    BY <1>1, <1>2, <1>4, <2>2 DEF IInv, Filed
  <2> QED
    BY <2>1, <2>2 DEF Filed
<1>6. ASSUME NEW k \in Files', NEW j \in issue[k].blockedBy
      PROVE  \/ j \in file'[k].blockedBy \/ Nowhere \in file'[k].blockedBy
             \/ j \in taken[k] \/ j \notin Files'
  <2>1. k \in Issues
    BY <1>6 DEF Files
  <2>2. j \in Known(issue) /\ k \in Known(issue)
    BY <1>6, <2>1 DEF IInv, WaitsKnown
  <2>3. j # i /\ k # i
    BY <1>1, <2>2 DEF Known
  <2>4. k \in Files /\ file'[k] = file[k]
    BY <1>1, <1>2, <1>4, <1>6, <2>1, <2>3
  <2>5. \/ j \in file[k].blockedBy \/ Nowhere \in file[k].blockedBy
        \/ j \in taken[k] \/ j \notin Files
    BY <1>1, <2>4 DEF IInv, Named, Edit
  <2> QED
    BY <1>4, <2>3, <2>4, <2>5
<1>7. QED
  BY <1>1, <1>3, <1>5, <1>6, EditStep DEF IInv, TypeOK

\* A reference to what is gone becomes one to nowhere, and no other is touched.
LEMMA UnlinkedFiles ==
    ASSUME NEW files \in [Issues -> File], NEW gone
    PROVE  /\ Unlinked(gone, files) \in [Issues -> File]
           /\ \A k \in Issues :
                LET new == Unlinked(gone, files)[k] IN
                /\ new.there = files[k].there /\ new.parent = files[k].parent
                /\ new.blockedBy \subseteq (files[k].blockedBy \ gone) \cup {Nowhere}
                /\ files[k].blockedBy \subseteq new.blockedBy \/ Nowhere \in new.blockedBy
<1>1. ASSUME NEW k \in Issues
      PROVE  LET new == Unlinked(gone, files)[k] IN
             /\ new \in File
             /\ new.there = files[k].there /\ new.parent = files[k].parent
             /\ new.blockedBy \subseteq (files[k].blockedBy \ gone) \cup {Nowhere}
             /\ files[k].blockedBy \subseteq new.blockedBy \/ Nowhere \in new.blockedBy
  <2>1. files[k] \in File
    OBVIOUS
  <2>2. CASE files[k].blockedBy \cap gone = {}
    <3>1. Unlinked(gone, files)[k] = files[k]
      BY <2>2 DEF Unlinked
    <3> QED
      BY <2>1, <2>2, <3>1
  <2>3. CASE files[k].blockedBy \cap gone # {}
    <3>1. Unlinked(gone, files)[k] =
            [files[k] EXCEPT !.blockedBy = (files[k].blockedBy \ gone) \cup {Nowhere}]
      BY <2>3 DEF Unlinked
    <3> QED
      BY <2>1, <3>1 DEF File
  <2> QED
    BY <2>2, <2>3
<1>2. DOMAIN Unlinked(gone, files) = Issues
  BY DEF Unlinked
<1>3. Unlinked(gone, files) = [k \in Issues |-> Unlinked(gone, files)[k]]
  BY DEF Unlinked
<1>4. QED
  BY <1>1, <1>3

\* Moving a file leaves the others in the tree, and what named it by its old path
\* names nothing there is.
LEMMA MoveFileStep ==
    ASSUME IInv, NEW i \in Issues, NEW under \in Files \cup {Root}, NEW r \in Repositories,
           MoveFile(i, under, r)
    PROVE  IInv'
<1> DEFINE moved == Below({i}, FileParents)
<1> DEFINE there == [j \in Issues |->
                       IF j \in moved
                       THEN [file[j] EXCEPT !.repository = r,
                                            !.parent = IF j = i THEN under ELSE @]
                       ELSE file[j]]
<1>1. /\ Edit /\ UNCHANGED <<epic, round, taken, events>>
      /\ file' \in {there, Unlinked(moved, there)}
  BY DEF MoveFile
<1> HIDE DEF moved
<1>2. under \in Issues \cup {Root}
  BY DEF Files
<1>3. ASSUME NEW k \in Issues
      PROVE  /\ there[k] \in File
             /\ there[k].there = file[k].there /\ there[k].blockedBy = file[k].blockedBy
             /\ there[k].parent \in {file[k].parent, under}
  <2>1. file[k] \in File
    BY DEF IInv, TypeOK
  <2> QED
    BY <1>2, <2>1 DEF File
<1>4. there \in [Issues -> File]
  BY <1>3
<1> HIDE DEF there
<1>5. /\ file' \in [Issues -> File]
      /\ \A k \in Issues :
           /\ file'[k].there = file[k].there
           /\ file'[k].parent \in {file[k].parent, under}
           /\ file'[k].blockedBy \subseteq file[k].blockedBy \cup {Nowhere}
           /\ file[k].blockedBy \subseteq file'[k].blockedBy \/ Nowhere \in file'[k].blockedBy
  <2>1. CASE file' = there
    BY <1>3, <1>4, <2>1
  <2>2. CASE file' = Unlinked(moved, there)
    BY <1>3, <1>4, <2>2, UnlinkedFiles
  <2> QED
    BY <1>1, <2>1, <2>2
<1>6. Files' = Files
  BY <1>5 DEF Files
<1>7. Filed'
  BY <1>5, <1>6 DEF IInv, Filed, Files
<1>8. \A k \in Files' : \A j \in issue[k].blockedBy :
         \/ j \in file'[k].blockedBy \/ Nowhere \in file'[k].blockedBy
             \/ j \in taken[k] \/ j \notin Files'
  BY <1>1, <1>5, <1>6 DEF IInv, Named, Edit, Files
<1>9. QED
  BY <1>1, <1>5, <1>7, <1>8, EditStep DEF IInv, TypeOK

\* Deleting a folder deletes all that is below it: what is left is a tree, and what
\* named a deleted file names nothing there is.
LEMMA DropFileStep ==
    ASSUME IInv, NEW i \in Issues, DropFile(i)
    PROVE  IInv'
<1> DEFINE gone == Below({i}, FileParents)
<1> DEFINE left == [j \in Issues |-> IF j \in gone
                                     THEN [file[j] EXCEPT !.there = FALSE, !.blockedBy = {}]
                                     ELSE file[j]]
<1>1. Edit /\ UNCHANGED <<epic, round, taken, events>> /\ file' = Unlinked(gone, left)
  BY DEF DropFile
<1>2. \A k \in Files \ gone : file[k].parent \notin gone
  <2> SUFFICES ASSUME NEW k \in Files, file[k].parent \in gone PROVE k \in gone
    OBVIOUS
  <2>1. k \in DOMAIN FileParents /\ FileParents[k] = file[k].parent
    BY DEF FileParents
  <2> QED
    BY <2>1, BelowClosed
<1> HIDE DEF gone
<1>3. ASSUME NEW k \in Issues
      PROVE  /\ left[k] \in File
             /\ left[k].there <=> file[k].there /\ k \notin gone
             /\ left[k].parent = file[k].parent
             /\ left[k].blockedBy \subseteq file[k].blockedBy
             /\ k \notin gone => left[k].blockedBy = file[k].blockedBy
  <2>1. file[k] \in File
    BY DEF IInv, TypeOK
  <2> QED
    BY <2>1 DEF File
<1>4. left \in [Issues -> File]
  BY <1>3
<1> HIDE DEF left
<1>5. /\ file' \in [Issues -> File]
      /\ \A k \in Issues :
           /\ file'[k].there = left[k].there /\ file'[k].parent = left[k].parent
           /\ file'[k].blockedBy \subseteq (left[k].blockedBy \ gone) \cup {Nowhere}
           /\ left[k].blockedBy \subseteq file'[k].blockedBy \/ Nowhere \in file'[k].blockedBy
  BY <1>1, <1>4, UnlinkedFiles
<1>6. Files' = Files \ gone
  BY <1>3, <1>5 DEF Files
<1>7. Filed'
  <2>1. ASSUME NEW k \in Files' PROVE file'[k].parent \in Files' \cup {Root}
    <3>1. k \in Files \ gone /\ k \in Issues /\ file'[k].parent = file[k].parent
      BY <1>3, <1>5, <1>6, <2>1 DEF Files
    <3> QED
      BY <1>2, <1>6, <3>1 DEF IInv, Filed
  <2>2. ASSUME NEW k \in Issues PROVE file'[k].blockedBy \subseteq Files' \cup {Nowhere}
    BY <1>3, <1>5, <1>6, <2>2 DEF IInv, Filed
  <2> QED
    BY <2>1, <2>2 DEF Filed
<1>8. ASSUME NEW k \in Files', NEW j \in issue[k].blockedBy
      PROVE  \/ j \in file'[k].blockedBy \/ Nowhere \in file'[k].blockedBy
             \/ j \in taken[k] \/ j \notin Files'
  <2>1. k \in Files /\ k \in Issues /\ left[k].blockedBy = file[k].blockedBy
    BY <1>3, <1>6, <1>8 DEF Files
  <2>2. \/ j \in file[k].blockedBy \/ Nowhere \in file[k].blockedBy
        \/ j \in taken[k] \/ j \notin Files
    BY <1>1, <1>8, <2>1 DEF IInv, Named, Edit
  <2> QED
    BY <1>5, <1>6, <2>1, <2>2
<1>9. QED
  BY <1>1, <1>5, <1>7, <1>8, EditStep DEF IInv, TypeOK

\* A reference the refiner adds is to a file there is, and takes no other away.
LEMMA BlockStep ==
    ASSUME IInv, NEW i \in Issues, NEW by \in Issues, Block(i, by)
    PROVE  IInv'
<1>1. /\ Edit /\ UNCHANGED <<epic, round, taken, events>> /\ file[by].there
      /\ file' = [file EXCEPT ![i].blockedBy = @ \cup {by}]
  BY DEF Block
<1>2. ASSUME NEW k \in Issues
      PROVE  /\ file'[k] \in File
             /\ file'[k].there = file[k].there /\ file'[k].parent = file[k].parent
             /\ file[k].blockedBy \subseteq file'[k].blockedBy
             /\ file'[k].blockedBy \subseteq file[k].blockedBy \cup {by}
  <2>1. file \in [Issues -> File] /\ file[k] \in File
    BY DEF IInv, TypeOK
  <2>2. CASE k = i
    BY <1>1, <2>1, <2>2 DEF File
  <2>3. CASE k # i
    BY <1>1, <2>1, <2>3
  <2> QED
    BY <2>2, <2>3
<1>3. file' \in [Issues -> File]
  BY <1>1, <1>2 DEF IInv, TypeOK
<1>4. Files' = Files
  BY <1>2 DEF Files
<1>5. Filed'
  BY <1>1, <1>2, <1>4 DEF IInv, Filed, Files
<1>6. \A k \in Files' : \A j \in issue[k].blockedBy :
         \/ j \in file'[k].blockedBy \/ Nowhere \in file'[k].blockedBy
             \/ j \in taken[k] \/ j \notin Files'
  BY <1>1, <1>2, <1>4 DEF IInv, Named, Edit, Files
<1>7. QED
  BY <1>1, <1>3, <1>5, <1>6, EditStep DEF IInv, TypeOK

\* A reference the refiner takes out is written down as taken, and so is what the
\* file had lost the name of when the reference named nothing.
LEMMA UnblockStep ==
    ASSUME IInv, NEW i \in Issues, NEW by \in Issues \cup {Nowhere}, Unblock(i, by)
    PROVE  IInv'
<1> DEFINE lost == IF by = Nowhere THEN issue[i].blockedBy \ file[i].blockedBy ELSE {by}
<1>1. /\ Edit /\ UNCHANGED <<epic, round, events>>
      /\ file' = [file EXCEPT ![i].blockedBy = @ \ {by}]
      /\ taken' = [taken EXCEPT ![i] = @ \cup lost]
  BY DEF Unblock
<1>2. /\ file \in [Issues -> File] /\ taken \in [Issues -> SUBSET Issues]
      /\ issue[i].blockedBy \subseteq Issues
  BY DEF IInv, TypeOK, Issue
<1>3. lost \subseteq Issues
  BY <1>2
<1>4. ASSUME NEW k \in Issues
      PROVE  /\ file'[k] \in File
             /\ file'[k].there = file[k].there /\ file'[k].parent = file[k].parent
             /\ file'[k].blockedBy = IF k = i THEN file[k].blockedBy \ {by} ELSE file[k].blockedBy
  <2>1. file[k] \in File
    BY <1>2
  <2>2. CASE k = i
    BY <1>1, <1>2, <2>1, <2>2 DEF File
  <2>3. CASE k # i
    BY <1>1, <1>2, <2>1, <2>3
  <2> QED
    BY <2>2, <2>3
<1>5. \A k \in Issues : taken'[k] = IF k = i THEN taken[k] \cup lost ELSE taken[k]
  BY <1>1, <1>2
<1>6. file' \in [Issues -> File]
  BY <1>1, <1>2, <1>4
<1>7. taken' \in [Issues -> SUBSET Issues]
  BY <1>1, <1>2, <1>3
<1>8. Files' = Files
  BY <1>4 DEF Files
<1>9. Filed'
  BY <1>4, <1>8 DEF IInv, Filed, Files
<1>10. ASSUME NEW k \in Files', NEW j \in issue[k].blockedBy
       PROVE  \/ j \in file'[k].blockedBy \/ Nowhere \in file'[k].blockedBy
              \/ j \in taken'[k] \/ j \notin Files'
  <2>1. k \in Files /\ k \in Issues
    BY <1>8, <1>10 DEF Files
  <2>2. \/ j \in file[k].blockedBy \/ Nowhere \in file[k].blockedBy
        \/ j \in taken[k] \/ j \notin Files
    BY <1>1, <1>10, <2>1 DEF IInv, Named, Edit
  <2>3. CASE k # i
    BY <1>4, <1>5, <1>8, <2>1, <2>2, <2>3
  <2>4. CASE k = i
    <3>1. CASE by = Nowhere
      <4>1. lost = issue[k].blockedBy \ file[k].blockedBy
        BY <2>4, <3>1
      <4> HIDE DEF lost
      <4>2. j \in file[k].blockedBy \/ j \in taken'[k]
        BY <1>5, <1>10, <2>1, <2>4, <4>1
      <4>3. j # Nowhere
        BY <2>1, <1>10, PlanConstants DEF IInv, TypeOK, Issue
      <4> QED
        BY <1>4, <2>1, <2>4, <3>1, <4>2, <4>3
    <3>2. CASE by # Nowhere
      <4>1. lost = {by}
        BY <3>2
      <4> HIDE DEF lost
      <4> QED
        BY <1>4, <1>5, <1>8, <2>1, <2>2, <2>4, <3>2, <4>1
    <3> QED
      BY <3>1, <3>2
  <2> QED
    BY <2>3, <2>4
<1>11. QED
  BY <1>1, <1>6, <1>7, <1>9, <1>10, EditStep

\* Issues move on and the tree they are in stays as it is.
LEMMA StatesStep ==
    ASSUME IInv, issue' \in [Issues -> Issue], Known(issue') = Known(issue),
           \A i \in Issues : issue'[i].parent = issue[i].parent
                             /\ issue'[i].blockedBy = issue[i].blockedBy,
           open' \subseteq Issues, Working',
           events' \in 0..MaxEvents, UNCHANGED <<phase, round, file, taken, edits>>
    PROVE  IInv'
<1>1. TypeOK'
  BY DEF IInv, TypeOK
<1>2. Acyclic(issue')
  BY SameShape DEF IInv, Sound
<1>3. Sound'
  <2>1. \A i \in Known(issue) : issue'[i].parent = issue[i].parent
    BY DEF Known
  <2> QED
    BY <1>2, <2>1 DEF IInv, Sound
<1>4. WaitsKnown'
  BY DEF IInv, WaitsKnown
<1>5. (Filed /\ Named)'
  BY DEF IInv, Filed, Named, Files
<1>6. QED
  BY <1>1, <1>3, <1>4, <1>5 DEF IInv

\* The bound on a person's and the loop's events is kept.
LEMMA Spent == IInv /\ Spend => events' \in 0..MaxEvents
BY PlanConstants DEF IInv, TypeOK, Spend

\* Closing an issue closes all below it with their records, and leaves the tree as
\* it is (Epic.CloseIssue).
LEMMA CloseStep ==
    ASSUME IInv, NEW i \in Issues, CloseIssue(i)
    PROVE  IInv'
<1>1. /\ Spend /\ issue' = CloseIssues({i}, issue) /\ open' = RecordsLeft({i}, issue)
      /\ UNCHANGED <<phase, round, file, taken, edits>>
  BY DEF CloseIssue
<1>2. /\ issue' \in [Issues -> Issue] /\ Known(issue') = Known(issue)
      /\ \A k \in Issues : issue'[k].parent = issue[k].parent
                           /\ issue'[k].blockedBy = issue[k].blockedBy
  BY <1>1, Closing DEF IInv, TypeOK
<1>3. open' \subseteq Issues
  BY <1>1 DEF RecordsLeft, IInv, TypeOK
<1>4. Working'
  <2> SUFFICES ASSUME NEW k \in open' PROVE k \in Issues /\ issue'[k].state = "Coding"
    BY DEF Working
  <2>1. k \in open /\ ~(k \in Below({i}, Parents(issue)) /\ issue[k].state # "Merged")
    BY <1>1 DEF RecordsLeft
  <2>2. k \in Issues /\ issue[k].state = "Coding"
    BY <2>1 DEF IInv, Working
  <2>3. issue'[k] = issue[k]
    BY <1>1, <2>1, <2>2 DEF CloseIssues
  <2> QED
    BY <2>2, <2>3
<1>5. events' \in 0..MaxEvents
  BY <1>1, Spent
<1>6. QED
  BY <1>1, <1>2, <1>3, <1>4, <1>5, StatesStep

\* Opening a record and merging it.
LEMMA WorkStep ==
    ASSUME IInv, NEW i \in Issues, OpenPullRequest(i) \/ Merge(i)
    PROVE  IInv'
<1>1. PICK state \in {"Coding", "Merged"} :
        /\ Spend /\ UNCHANGED <<phase, round, file, taken, edits>>
        /\ issue' = [issue EXCEPT ![i].state = state]
        /\ state = "Coding" => open' = open \cup {i}
        /\ state = "Merged" => open' = open \ {i}
  BY DEF OpenPullRequest, Merge
<1>2. issue \in [Issues -> Issue] /\ i \in Known(issue)
  BY DEF IInv, TypeOK, Working, OpenPullRequest, Merge, Known
<1>3. ASSUME NEW k \in Issues
      PROVE  /\ issue'[k] \in Issue
             /\ issue'[k].parent = issue[k].parent /\ issue'[k].blockedBy = issue[k].blockedBy
             /\ issue'[k].state = IF k = i THEN state ELSE issue[k].state
  BY <1>1, <1>2 DEF Issue
<1>4. issue' \in [Issues -> Issue]
  BY <1>1, <1>2, <1>3
<1>5. Known(issue') = Known(issue)
  BY <1>2, <1>3 DEF Known
<1>6. open' \subseteq Issues /\ Working'
  BY <1>1, <1>3 DEF IInv, TypeOK, Working
<1>7. events' \in 0..MaxEvents
  BY <1>1, Spent
<1>8. QED
  BY <1>1, <1>3, <1>4, <1>5, <1>6, <1>7, StatesStep

\* Nothing waits for a new issue but its parent, and it waits for nothing.
LEMMA CreateStep ==
    ASSUME IInv, NEW i \in Issues, NEW under \in Issues \cup {Root}, NEW r \in Repositories,
           CreateIssue(i, under, r)
    PROVE  IInv'
<1>1. /\ Spend /\ issue[i].state = "None" /\ ~file[i].there
      /\ under \in Known(issue) \cup {Root}
      /\ issue' = [issue EXCEPT ![i] = [state |-> "Open", parent |-> under,
                                        repository |-> r, blockedBy |-> {}]]
      /\ UNCHANGED <<phase, open, round, file, taken, edits>>
  BY DEF CreateIssue
<1>2. issue \in [Issues -> Issue] /\ i \notin Known(issue)
  BY <1>1 DEF IInv, TypeOK, Known
<1>3. /\ issue' \in [Issues -> Issue]
      /\ issue'[i].state = "Open" /\ issue'[i].parent = under /\ issue'[i].blockedBy = {}
      /\ \A k \in Issues : k # i => issue'[k] = issue[k]
  BY <1>1, <1>2 DEF Issue
<1>4. Known(issue') = Known(issue) \cup {i}
  BY <1>1, <1>3 DEF Known
<1>5. WaitsFor(i, issue') = {}
  <2>1. i # Root /\ i # under
    BY <1>1, <1>2, PlanConstants
  <2>2. \A k \in Known(issue) : issue'[k].parent # i
    BY <1>2, <1>3, <2>1 DEF IInv, Sound, Known
  <2> QED
    BY <1>3, <1>4, <2>1, <2>2 DEF WaitsFor
<1>6. \A k \in Known(issue) : WaitsFor(k, issue') \subseteq WaitsFor(k, issue) \cup {i}
  BY <1>2, <1>3, <1>4 DEF WaitsFor, Known
<1>7. Acyclic(issue')
  <2> SUFFICES ASSUME NEW S \in SUBSET Known(issue'),
                      \A k \in S : WaitsFor(k, issue') \cap S # {}
               PROVE  S = {}
    BY DEF Acyclic
  <2>1. i \notin S
    BY <1>5
  <2>2. S \in SUBSET Known(issue) /\ \A k \in S : WaitsFor(k, issue) \cap S # {}
    BY <1>4, <1>6, <2>1
  <2> QED
    BY <2>2 DEF IInv, Sound, Acyclic
<1>8. Sound'
  <2>1. ASSUME NEW k \in Known(issue') PROVE issue'[k].parent \in Known(issue') \cup {Root}
    BY <1>1, <1>2, <1>3, <1>4, <2>1 DEF IInv, Sound, Known
  <2> QED
    BY <1>7, <2>1 DEF Sound
<1>9. Working'
  BY <1>1, <1>3 DEF IInv, Working
<1>10. WaitsKnown'
  BY <1>1, <1>2, <1>3, <1>4 DEF IInv, WaitsKnown
<1>11. TypeOK'
  BY <1>1, <1>3, Spent DEF IInv, TypeOK
<1>12. (Filed /\ Named)'
  BY <1>1, <1>3 DEF IInv, Filed, Named, Files
<1>13. QED
  BY <1>8, <1>9, <1>10, <1>11, <1>12 DEF IInv

\* Every step, of the refiner, of a person or of the loop, keeps the invariant.
LEMMA Inductive == IInv /\ [Next]_vars => IInv'
<1> SUFFICES ASSUME IInv, [Next]_vars PROVE IInv'
  OBVIOUS
<1>1. CASE RoundWrite
  BY <1>1, WriteStep
<1>2. CASE RoundImport
  BY <1>2, ImportStep
<1>3. CASE RoundFail
  BY <1>3 DEF RoundFail, epic, IInv, TypeOK, Sound, Working, Filed, Named, WaitsKnown, Files,
              Known, Acyclic, WaitsFor
<1>4. CASE RefinerStep
  BY <1>4, WriteFileStep, MoveFileStep, DropFileStep, BlockStep, UnblockStep DEF RefinerStep, Files
<1>5. CASE RequestChanges
  BY <1>5, Spent DEF RequestChanges, IInv, TypeOK, Sound, Working, Filed, Named, WaitsKnown,
                     Files, Known, Acyclic, WaitsFor
<1>6. CASE \E i \in Issues : CloseIssue(i) \/ OpenPullRequest(i) \/ Merge(i)
  BY <1>6, CloseStep, WorkStep
<1>7. CASE \E i \in Issues, under \in Issues \cup {Root}, r \in Repositories : CreateIssue(i, under, r)
  BY <1>7, CreateStep
<1>8. CASE UNCHANGED vars
  BY <1>8 DEF vars, epic, IInv, TypeOK, Sound, Working, Filed, Named, WaitsKnown, Files, Known,
              Acyclic, WaitsFor
<1>9. QED
  BY <1>1, <1>2, <1>3, <1>4, <1>5, <1>6, <1>7, <1>8 DEF Next
-----------------------------------------------------------------------------
(* The theorems *)

\* The invariant the theorems below rest on: the plan has no loop of waits, and
\* the files of a round in flight still say what its issues waited for.
THEOREM Invariant == Spec => []IInv
<1>1. Init => IInv
  BY Initially
<1>2. IInv /\ [Next]_vars => IInv'
  BY Inductive
<1>3. QED
  BY <1>1, <1>2, PTL DEF Spec

\* The tree, its files and its records are of their types for every set of issues
\* and repositories: nothing an import accepts names an issue that is not there.
THEOREM PlanTypeCorrect == Spec => []TypeOK
<1>1. IInv => TypeOK
  BY DEF IInv
<1>2. QED
  BY <1>1, Invariant, PTL

\* As long as work is left some of it can be done, whatever tree a refiner makes
\* and whatever people make, close and merge (waitsAcyclic, Epic.Blocked).
THEOREM WorkIsNeverStuck == Spec => []SomethingIsUnblocked
<1>1. IInv => SomethingIsUnblocked
  <2> SUFFICES ASSUME IInv, NEW i \in Known(issue), ~Settled(i, issue),
                      \A k \in Known(issue) : Settled(k, issue) \/ Blocked(k, issue)
               PROVE  FALSE
    BY DEF SomethingIsUnblocked
  <2> DEFINE left == {k \in Known(issue) : ~Settled(k, issue)}
  <2>1. left \in SUBSET Known(issue) /\ left # {}
    OBVIOUS
  <2>2. ASSUME NEW k \in left PROVE WaitsFor(k, issue) \cap left # {}
    BY <2>2 DEF Blocked, WaitsFor
  <2> HIDE DEF left
  <2>3. left = {}
    BY <2>1, <2>2 DEF IInv, Sound, Acyclic
  <2> QED
    BY <2>1, <2>3
<1>2. QED
  BY <1>1, Invariant, PTL

\* The steps that change issues, for the action properties below.
LEMMA StateSteps ==
    ASSUME IInv, [Next]_vars, NEW i \in Issues
    PROVE  /\ Settled(i, issue) => issue'[i].state = issue[i].state
           /\ RoundImport \/ issue[i].blockedBy \subseteq issue'[i].blockedBy
<1>1. CASE RoundImport
  <2>1. Settled(i, issue) => Imported[i].state = issue[i].state
    BY <1>1, ImportedTree DEF RoundImport, Resolved
  <2> QED
    BY <1>1, <2>1 DEF RoundImport, Resolved
<1>2. CASE \E k \in Issues : CloseIssue(k)
  BY <1>2, Closing DEF CloseIssue, IInv, TypeOK
<1>3. CASE \E k \in Issues : OpenPullRequest(k) \/ Merge(k)
  <2>1. PICK k \in Issues, state \in {"Coding", "Merged"} :
          /\ issue' = [issue EXCEPT ![k].state = state]
          /\ issue[k].state \in {"Open", "Coding"}
    BY <1>3 DEF OpenPullRequest, Merge, IInv, Working
  <2>2. issue \in [Issues -> Issue] /\ issue[i] \in Issue
    BY DEF IInv, TypeOK
  <2>3. issue'[i].blockedBy = issue[i].blockedBy
    BY <2>1, <2>2 DEF Issue
  <2>4. i # k => issue'[i] = issue[i]
    BY <2>1, <2>2
  <2> QED
    BY <2>1, <2>3, <2>4 DEF Settled
<1>4. CASE \E k \in Issues, under \in Issues \cup {Root}, r \in Repositories :
             CreateIssue(k, under, r)
  <2>1. PICK k \in Issues : /\ issue[k].state = "None"
                            /\ \A j \in Issues : j # k => issue'[j] = issue[j]
    <3>1. issue \in [Issues -> Issue]
      BY DEF IInv, TypeOK
    <3> QED
      BY <1>4, <3>1 DEF CreateIssue
  <2>2. issue[k].blockedBy = {}
    BY <2>1 DEF IInv, WaitsKnown, Known
  <2> QED
    BY <2>1, <2>2 DEF Settled
<1>5. CASE issue' = issue
  BY <1>5
<1>6. QED
  BY <1>1, <1>2, <1>3, <1>4, <1>5
     DEF Next, vars, epic, RoundWrite, RoundFail, RefinerStep, WriteFile, MoveFile, DropFile,
         Block, Unblock, RequestChanges

\* What is merged or closed is never taken up again, by no import of a tree that
\* was written when it was still open (IssueTreeStore.Read).
THEOREM SettledIsFinal == Spec => SettledStays
<1>1. IInv /\ [Next]_vars => [\A i \in Issues : Settled(i, issue) => issue'[i].state = issue[i].state]_vars
  BY StateSteps
<1>2. QED
  BY <1>1, Invariant, PTL DEF Spec, SettledStays

\* An import leaves an issue it keeps as far as it had come by then, and only an
\* import takes the epic on while its plan is being refined.
THEOREM ImportsKeepWork == Spec => PlannedIsKept
<1>1. IInv /\ [Next]_vars =>
        [Importing => \A i \in Known(issue) : file[i].there => issue'[i].state = issue[i].state]_vars
  <2> SUFFICES ASSUME IInv, Next, Importing, NEW i \in Known(issue), file[i].there
               PROVE  issue'[i].state = issue[i].state
    OBVIOUS
  <2>1. phase = "drafting"
    BY DEF IInv, Named, Importing
  <2>2. RoundImport
    BY <2>1 DEF Importing, Next, epic, RoundWrite, RoundFail, RefinerStep, WriteFile, MoveFile,
                DropFile, Block, Unblock, Edit, RequestChanges, CloseIssue, OpenPullRequest,
                Merge, CreateIssue
  <2>3. i \in Files /\ issue[i].state # "None"
    BY DEF Files, Known
  <2> QED
    BY <2>2, <2>3, ImportedTree DEF RoundImport, Resolved
<1>2. QED
  BY <1>1, Invariant, PTL DEF Spec, PlannedIsKept

\* No wait is lost by itself while what is waited for is still to be done: through
\* every edit of the tree between its writing and its import, a live wait that is
\* gone is one the refiner took out of the file (blockedByPaths, resolveBlockedBy).
THEOREM WaitsOnlyTakenOut == Spec => WaitsSurvive
<1>1. IInv /\ [Next]_vars =>
        [\A i \in Issues : \A j \in issue[i].blockedBy \ issue'[i].blockedBy :
            issue'[j].state \in {"Merged", "Closed"} \/ (Importing /\ j \in taken[i])]_vars
  <2> SUFFICES ASSUME IInv, Next, NEW i \in Issues,
                      NEW j \in issue[i].blockedBy \ issue'[i].blockedBy,
                      ~(Importing /\ j \in taken[i])
               PROVE  issue'[j].state \in {"Merged", "Closed"}
    OBVIOUS
  <2>1. RoundImport
    BY StateSteps
  <2>2. /\ round = "refining" /\ Accepted(Imported) /\ issue' = Imported /\ phase' = "ready"
    BY <2>1 DEF RoundImport, Resolved
  <2>3. j \in Known(issue) /\ j \in Issues
    BY DEF IInv, WaitsKnown, Known
  <2>4. i \in Files /\ issue'[i].blockedBy = file[i].blockedBy
    BY <2>2, ImportedTree
  <2>5. Nowhere \notin file[i].blockedBy
    BY <2>2, <2>4 DEF Accepted
  <2>6. j \notin taken[i]
    BY <2>2 DEF Importing, IInv, Named
  <2>7. j \notin Files
    BY <2>2, <2>4, <2>5, <2>6 DEF IInv, Named
  <2>8. Settled(j, Imported)
    BY <2>2, <2>3, <2>7, ImportedTree
  <2> QED
    BY <2>2, <2>8 DEF Settled
<1>2. QED
  BY <1>1, Invariant, PTL DEF Spec, WaitsSurvive
=============================================================================
