--------------------------- MODULE TuiPanelsProofs ---------------------------
(***************************************************************************)
(* Proofs about TuiPanels, for any files, branches, panels and bounds,     *)
(* about TuiGraph, for any histories, searches and pages, about the screen *)
(* of TuiScreen, and about TuiKeys, for any remapped shortcuts, plans and  *)
(* bounds.                                                                 *)
(***************************************************************************)
EXTENDS TuiPanels, TuiGraph, TuiKeys, FiniteSetTheorems, SequenceTheorems,
        WellFoundedInduction, TLAPS

(***************************************************************************)
(* The file under the cursor of the conflicts panel.                       *)
(***************************************************************************)

\* Every nonempty set of numbers has a least one.
LEMMA LeastNumber ==
  ASSUME NEW T, T \subseteq Nat, T # {}
  PROVE  \E x \in T : \A y \in T : x <= y
<1> DEFINE R == OpToRel(<, Nat)
<1>1. IsWellFoundedOn(R, Nat)
  BY NatLessThanWellFounded
<1>2. R = {pair \in Nat \X Nat : pair[1] < pair[2]}
  BY DEF OpToRel
<1> HIDE DEF R
<1>3. PICK x \in T : \A y \in T : ~ (<<y, x>> \in R)
  BY <1>1, WFMin
<1>4. \A y \in T : ~ (y < x)
  BY <1>2, <1>3
<1> QED BY <1>3, <1>4

\* The elements of a finite set of numbers, counted from the least one.
LEMMA NthNumber ==
  ASSUME NEW S, S \subseteq Nat, IsFiniteSet(S), NEW n \in Nat, n < Cardinality(S)
  PROVE  \E f \in S : Cardinality({g \in S : g < f}) = n
<1> DEFINE Below(f) == {g \in S : g < f}
           Missing == {k \in Nat : k < Cardinality(S) /\ \A f \in S : Cardinality(Below(f)) # k}
<1>1. \A g \in S : g \in Nat
  OBVIOUS
<1>2. SUFFICES ASSUME Missing # {} PROVE FALSE
  OBVIOUS
<1>3. PICK k \in Missing : \A other \in Missing : k <= other
  BY <1>2, LeastNumber
<1>4. Cardinality(S) \in Nat
  BY FS_CardinalityType
<1>5. CASE k = 0
  <2>1. S # {}
    BY <1>3, <1>4, <1>5, FS_EmptySet
  <2>2. PICK f \in S : \A g \in S : f <= g
    BY <2>1, LeastNumber
  <2>3. Below(f) = {}
    <3>1. \A g \in S : ~ (g < f)
      BY <1>1, <2>2
    <3> QED BY <3>1
  <2>4. Cardinality(Below(f)) = 0
    BY <2>3, FS_EmptySet
  <2> QED BY <1>3, <1>5, <2>4
<1>6. CASE k # 0
  <2>1. k \in Nat /\ k - 1 \in Nat /\ k - 1 \notin Missing /\ k - 1 < Cardinality(S)
    BY <1>3, <1>4, <1>6
  <2>2. PICK f \in S : Cardinality(Below(f)) = k - 1
    BY <2>1
  <2> DEFINE upTo == Below(f) \cup {f}
             above == {g \in S : g > f}
  <2>3. IsFiniteSet(Below(f)) /\ f \notin Below(f)
    BY FS_Subset
  <2>4. Cardinality(upTo) = k
    <3>1. Cardinality(upTo) = Cardinality(Below(f)) + 1
      BY <2>3, FS_AddElement
    <3> QED BY <2>1, <2>2, <3>1
  <2>5. above # {}
    <3>1. ASSUME above = {} PROVE S = upTo
      <4>1. \A g \in S : g < f \/ g = f \/ g > f
        BY <1>1
      <4>2. \A g \in S : ~ (g > f)
        BY <3>1
      <4> QED BY <4>1, <4>2
    <3> QED BY <1>3, <1>4, <2>4, <3>1
  <2>6. PICK h \in above : \A g \in above : h <= g
    BY <2>5, LeastNumber
  <2>7. Below(h) = upTo
    <3>1. \A g \in S : g < h <=> ~ (g > f)
      BY <1>1, <2>6
    <3>2. \A g \in S : ~ (g > f) <=> g < f \/ g = f
      BY <1>1
    <3> QED BY <3>1, <3>2
  <2> QED BY <1>3, <2>4, <2>6, <2>7
<1> QED BY <1>5, <1>6

USE PanelsAssumption, FilesAssumption, BoundsAssumption

\* What the conflicts panel highlights is one of the files in conflict.
LEMMA HighlightedIsConflicted ==
  ASSUME TypeOK, Highlighted # Nothing
  PROVE  Highlighted \in ConflictedFiles /\ Highlighted \in Files
<1>1. ConflictedFiles \subseteq Files
  BY DEF ConflictedFiles, TypeOK, AllPanels, Worlds
<1>2. ConflictedFiles \subseteq Nat /\ IsFiniteSet(ConflictedFiles)
  BY <1>1, FS_Subset
<1>3. cursor \in Nat /\ cursor < Cardinality(ConflictedFiles)
  BY DEF Highlighted, TypeOK
<1>4. \E f \in ConflictedFiles : Cardinality({g \in ConflictedFiles : g < f}) = cursor
  BY <1>2, <1>3, NthNumber
<1> QED BY <1>1, <1>3, <1>4 DEF Highlighted

(***************************************************************************)
(* The type invariant.                                                     *)
(***************************************************************************)
LEMMA WorldFields ==
  ASSUME NEW w \in Worlds
  PROVE  /\ w.version \in 0..MaxChanges /\ w.changed \in SUBSET Files
         /\ w.branches \in SUBSET Names /\ w.conflicts \in {Nothing} \cup SUBSET Files
BY DEF Worlds

LEMMA ChangeToType ==
  ASSUME TypeOK, NEW changed \in SUBSET Files, NEW branches \in SUBSET Names,
         NEW conflicts \in {Nothing} \cup SUBSET Files,
         ChangeTo(changed, branches, conflicts)
  PROVE  world' \in Worlds /\ world'.version = world.version + 1
<1>1. world.version \in 0..MaxChanges
  BY WorldFields DEF TypeOK
<1> QED BY <1>1 DEF ChangeTo, Worlds

LEMMA LoadsOfType ==
  ASSUME TypeOK, NEW g \in 1..MaxGeneration PROVE LoadsOf(g) \subseteq Loads
BY DEF TypeOK, LoadsOf, Loads

LEMMA TypeInit == Init => TypeOK
<1> SUFFICES ASSUME Init PROVE TypeOK
  OBVIOUS
<1>1. blaming \in BOOLEAN /\ opened \in BOOLEAN /\ ~ opened
  BY Zenon DEF Init
<1>2. world \in Worlds
  BY DEF Init, Worlds
<1>3. shown \in [AllPanels -> [world : Worlds, takenAt : 0..MaxGeneration]]
  <2>1. ShownNothing \in [world : Worlds, takenAt : 0..MaxGeneration]
    BY DEF ShownNothing, Nowhere, Worlds
  <2> QED BY <2>1 DEF Init
<1>4. panels \in PanelSets /\ loads \subseteq Loads
  BY DEF Init, LoadsOf, Loads
<1>5. /\ generation = 1 /\ askedAt = 0 /\ selected = Nothing
      /\ diff = Nothing /\ diffId = 0 /\ diffs = {} /\ blame = Nothing /\ blameId = 0 /\ blames = {}
      /\ selection = Nothing /\ pending = Nothing /\ rename = Nothing
      /\ cursor = 0 /\ inspected = Nothing /\ sides = {}
  BY DEF Init
<1> QED BY <1>1, <1>2, <1>3, <1>4, <1>5 DEF TypeOK

LEMMA TypeStep == TypeOK /\ [Next]_vars => TypeOK'
<1> SUFFICES ASSUME TypeOK, [Next]_vars PROVE TypeOK'
  OBVIOUS
<1> USE DEF refreshed, fileViews, branchViews, conflictViews
<1>1. ASSUME Change PROVE TypeOK'
  <2>1. world' \in Worlds
    BY <1>1, ChangeToType, WorldFields DEF Change, TypeOK
  <2> QED BY <1>1, <2>1 DEF Change, TypeOK, ConflictedFiles
<1>2. ASSUME RefreshCommands, UNCHANGED <<panels, world, shown, fileViews, conflictViews, selection, pending>>,
             rename' \in {Nothing} \cup Renames
      PROVE  TypeOK'
  <2>1. generation + 1 \in 1..MaxGeneration /\ world.version \in 0..MaxChanges
    BY <1>2, WorldFields DEF RefreshCommands, TypeOK
  <2>2. loads' \subseteq Loads
    BY <1>2, <2>1, LoadsOfType DEF RefreshCommands, TypeOK
  <2> QED BY <1>2, <2>1, <2>2 DEF RefreshCommands, TypeOK, ConflictedFiles
<1>3. ASSUME Refresh PROVE TypeOK'
  BY <1>2, <1>3 DEF Refresh, TypeOK
<1>4. ASSUME NEW l \in loads, Read(l) \/ ReadFails(l) PROVE TypeOK'
  <2>1. l \in Loads /\ [l EXCEPT !.answer = world] \in Loads
    BY DEF TypeOK, Loads
  <2>2. loads' \subseteq Loads
    BY <1>4, <2>1 DEF Read, ReadFails, TypeOK
  <2> QED BY <1>4, <2>2 DEF Read, ReadFails, TypeOK, ConflictedFiles
\* A panel's answer is taken or dropped.
<1>5. ASSUME NEW l \in loads, NEW panel \in AllPanels, Arrives(l, panel), Show(l)
      PROVE  /\ loads' \subseteq Loads
             /\ shown' \in [AllPanels -> [world : Worlds, takenAt : 0..MaxGeneration]]
             /\ \A p \in AllPanels : p # panel => shown'[p] = shown[p]
             /\ shown'[panel].world = l.answer
             /\ l.answer \in Worlds
  <2>1. l \in Loads /\ l.panel = panel /\ l.answer \in Worlds
    BY <1>5 DEF TypeOK, Loads, Arrives
  <2> QED BY <1>5, <2>1 DEF Arrives, Show, TypeOK
<1>6. ASSUME NEW l \in loads, StatusRefreshed(l) PROVE TypeOK'
  <2>1. CASE IsCurrent(l)
    <3>1. /\ loads' \subseteq Loads
          /\ shown' \in [AllPanels -> [world : Worlds, takenAt : 0..MaxGeneration]]
          /\ shown'["conflicts"] = shown["conflicts"]
      BY <1>5, <1>6, <2>1 DEF StatusRefreshed, AllPanels
    <3>2. blaming' \in BOOLEAN
      BY <1>6, <2>1 DEF StatusRefreshed
    <3> QED BY <1>6, <2>1, <3>1, <3>2 DEF StatusRefreshed, TypeOK, ConflictedFiles
  <2>2. CASE ~ IsCurrent(l)
    BY <1>6, <2>2 DEF StatusRefreshed, Arrives, TypeOK, ConflictedFiles
  <2> QED BY <2>1, <2>2
<1>7. ASSUME NEW l \in loads, BranchesLoaded(l) PROVE TypeOK'
  <2>1. CASE IsCurrent(l)
    <3>1. /\ loads' \subseteq Loads
          /\ shown' \in [AllPanels -> [world : Worlds, takenAt : 0..MaxGeneration]]
          /\ shown'["conflicts"] = shown["conflicts"]
      BY <1>5, <1>7, <2>1 DEF BranchesLoaded, AllPanels
    <3> QED BY <1>7, <2>1, <3>1 DEF BranchesLoaded, TypeOK, ConflictedFiles
  <2>2. CASE ~ IsCurrent(l)
    BY <1>7, <2>2 DEF BranchesLoaded, Arrives, TypeOK, ConflictedFiles
  <2> QED BY <2>1, <2>2
<1>8. ASSUME NEW l \in loads, InProgressOperationLoaded(l) PROVE TypeOK'
  <2>1. CASE IsCurrent(l)
    <3>1. /\ loads' \subseteq Loads
          /\ shown' \in [AllPanels -> [world : Worlds, takenAt : 0..MaxGeneration]]
          /\ shown'["conflicts"].world = l.answer
          /\ l.answer \in Worlds
      BY <1>5, <1>8, <2>1 DEF InProgressOperationLoaded, AllPanels
    <3>2. UNCHANGED <<panels, world, generation, askedAt, sides, fileViews, branchViews>>
      BY <1>8 DEF InProgressOperationLoaded
    <3>3. CASE l.answer.conflicts = Nothing
      <4>1. opened' = FALSE /\ cursor' = 0 /\ inspected' = Nothing
        BY <1>8, <2>1, <3>3 DEF InProgressOperationLoaded
      <4> QED BY <3>1, <3>2, <4>1 DEF TypeOK
    <3>4. CASE l.answer.conflicts # Nothing
      <4>1. IsFiniteSet(l.answer.conflicts)
        BY <3>1, <3>4, WorldFields, FS_Subset
      <4>2. Cardinality(l.answer.conflicts) \in Nat
        BY <4>1, FS_CardinalityType
      <4>3. ConflictedFiles' = l.answer.conflicts
        BY <3>1, <3>4 DEF ConflictedFiles
      <4>4. /\ cursor' \in Nat
            /\ cursor' < Cardinality(l.answer.conflicts) \/ cursor' = 0
            /\ UNCHANGED <<opened, inspected>>
        BY <1>8, <2>1, <3>4, <4>2 DEF InProgressOperationLoaded, TypeOK
      <4> QED BY <3>1, <3>2, <4>3, <4>4 DEF TypeOK
    <3> QED BY <3>3, <3>4
  <2>2. CASE ~ IsCurrent(l)
    BY <1>8, <2>2 DEF InProgressOperationLoaded, Arrives, TypeOK, ConflictedFiles
  <2> QED BY <2>1, <2>2
<1>9. ASSUME NEW file \in Files, LoadSelectedDiff(file) PROVE TypeOK'
  <2>1. diffId + 1 \in 1..MaxRequests
    BY <1>9 DEF LoadSelectedDiff, TypeOK
  <2>2. blaming' \in BOOLEAN
    BY <1>9 DEF LoadSelectedDiff
  <2> QED BY <1>9, <2>1, <2>2 DEF LoadSelectedDiff, TypeOK, Requests, ConflictedFiles
<1>10. ASSUME ToggleBlameView PROVE TypeOK'
  <2>1. blaming' \in BOOLEAN
    BY <1>10 DEF ToggleBlameView
  <2>2. blameId' \in 0..MaxRequests /\ blames' \subseteq Requests
    <3>1. CASE blaming' /\ selected # Nothing
      BY <1>10, <3>1 DEF ToggleBlameView, TypeOK, Requests
    <3>2. CASE ~ (blaming' /\ selected # Nothing)
      BY <1>10, <3>2 DEF ToggleBlameView, TypeOK
    <3> QED BY <3>1, <3>2
  <2> QED BY <1>10, <2>1, <2>2 DEF ToggleBlameView, TypeOK, ConflictedFiles
<1>11. ASSUME NEW r \in diffs, NEW ok \in BOOLEAN, DiffLoaded(r, ok) PROVE TypeOK'
  <2>1. r.file \in Files
    BY DEF TypeOK, Requests
  <2> QED BY <1>11, <2>1 DEF DiffLoaded, TypeOK, ConflictedFiles
<1>12. ASSUME NEW r \in blames, NEW ok \in BOOLEAN, BlameLoaded(r, ok) PROVE TypeOK'
  <2>1. r.file \in Files
    BY DEF TypeOK, Requests
  <2> QED BY <1>12, <2>1 DEF BlameLoaded, TypeOK, ConflictedFiles
<1>13. ASSUME \/ \E name \in Names : SelectBranch(name)
              \/ \E old, new \in Names : DispatchRename(old, new)
              \/ DispatchOther
       PROVE  TypeOK'
  <2>1. UNCHANGED <<refreshed, fileViews, conflictViews>>
    BY <1>13 DEF SelectBranch, DispatchRename, DispatchOther
  <2>2. /\ selection' \in {Nothing} \cup Names
        /\ pending' \in {Nothing} \cup [old : Names, new : Names]
        /\ rename' \in {Nothing} \cup Renames
    BY <1>13 DEF SelectBranch, DispatchRename, DispatchOther, TypeOK, Renames
  <2> QED BY <2>1, <2>2 DEF TypeOK, ConflictedFiles
<1>14. ASSUME NEW ok \in BOOLEAN, RenameBranch(ok) PROVE TypeOK'
  <2>1. rename \in Renames
    BY <1>14 DEF RenameBranch, TypeOK
  <2>2. world' \in Worlds
    <3>1. CASE ok
      <4>1. (world.branches \ {rename.old}) \cup {rename.new} \in SUBSET Names
        BY <2>1, WorldFields DEF TypeOK, Renames
      <4> QED BY <1>14, <3>1, <4>1, ChangeToType, WorldFields DEF RenameBranch, TypeOK
    <3>2. CASE ~ ok
      BY <1>14, <3>2 DEF RenameBranch, TypeOK
    <3> QED BY <3>1, <3>2
  <2>3. rename' \in Renames
    BY <1>14, <2>1 DEF RenameBranch, Renames
  <2> QED BY <1>14, <2>2, <2>3 DEF RenameBranch, TypeOK, ConflictedFiles
<1>15. ASSUME RenameFinished PROVE TypeOK'
  <2>1. CASE rename.at = "ok"
    BY <1>2, <1>15, <2>1 DEF RenameFinished
  <2>2. CASE rename.at # "ok"
    BY <1>15, <2>2 DEF RenameFinished, TypeOK, ConflictedFiles
  <2> QED BY <2>1, <2>2
<1>16. ASSUME ToggleConflictsPanel PROVE TypeOK'
  <2>1. opened' \in BOOLEAN /\ cursor' \in Nat /\ (opened' => cursor' = 0)
    <3>1. CASE opened /\ opened' = FALSE /\ UNCHANGED cursor
      BY <3>1 DEF TypeOK
    <3>2. CASE opened' = TRUE /\ cursor' = 0
      BY <3>2
    <3> QED BY <1>16, <3>1, <3>2 DEF ToggleConflictsPanel
  <2> QED BY <1>16, <2>1 DEF ToggleConflictsPanel, TypeOK
<1>17. ASSUME InspectConflict PROVE TypeOK'
  BY <1>17, HighlightedIsConflicted DEF InspectConflict, TypeOK, ConflictedFiles
<1>18. ASSUME NEW next \in 0..Cardinality(Files), MoveConflictCursor(next) PROVE TypeOK'
  <2>1. next \in Nat /\ ConflictedFiles' = ConflictedFiles
    BY <1>18 DEF MoveConflictCursor, ConflictedFiles
  <2> QED BY <1>18, <2>1 DEF MoveConflictCursor, TypeOK
<1>19. ASSUME NEW path \in sides, NEW ok \in BOOLEAN, ConflictSidesLoaded(path, ok) PROVE TypeOK'
  BY <1>19 DEF ConflictSidesLoaded, TypeOK, ConflictedFiles
<1>20. ASSUME NEW file \in Files, ConflictResolved(file) PROVE TypeOK'
  <2>1. world' \in Worlds /\ world.version + 1 \in 0..MaxChanges
    <3>1. world.version \in 0..MaxChanges /\ world.version < MaxChanges
      BY <1>20, WorldFields DEF ConflictResolved, TypeOK, ChangeTo
    <3>2. world.conflicts \ {file} \in SUBSET Files
      BY <1>20, WorldFields DEF ConflictResolved, TypeOK
    <3>3. world.changed \in SUBSET Files /\ world.branches \in SUBSET Names
      BY WorldFields DEF TypeOK
    <3> QED BY <1>20, <3>1, <3>2, <3>3, ChangeToType DEF ConflictResolved
  <2>2. generation + 1 \in 1..MaxGeneration
    BY <1>20 DEF ConflictResolved, TypeOK
  <2>3. loads' \subseteq Loads
    BY <1>20, <2>2, LoadsOfType DEF ConflictResolved, TypeOK
  <2> QED BY <1>20, <2>1, <2>2, <2>3 DEF ConflictResolved, TypeOK, ConflictedFiles
<1>21. CASE UNCHANGED vars
  BY <1>21 DEF vars, TypeOK, ConflictedFiles
<1> QED
  BY <1>1, <1>3, <1>4, <1>6, <1>7, <1>8, <1>9, <1>10, <1>11, <1>12, <1>13, <1>14, <1>15, <1>16,
     <1>17, <1>18, <1>19, <1>20, <1>21 DEF Next

\* The panels are well-formed, and the cursor of the conflicts panel never
\* leaves its list, although the list is replaced under it.
THEOREM TypeCorrect == Spec => []TypeOK
BY TypeInit, TypeStep, PTL DEF Spec

-----------------------------------------------------------------------------
(***************************************************************************)
(* Panels are current.  A load of the latest refresh was issued after it,  *)
(* so what it read is not older than the refresh; a load of an earlier one *)
(* is told by its generation, and no panel is ahead of the session's.      *)
(***************************************************************************)
LoadsAreTimely ==
    \A l \in loads :
        /\ l.generation <= generation
        /\ l.generation = generation /\ l.answer # Nothing => l.answer.version >= askedAt

ShownIsTimely ==
    \A p \in AllPanels :
        /\ shown[p].takenAt <= generation
        /\ shown[p].takenAt = generation => shown[p].world.version >= askedAt

FreshInv == askedAt <= world.version /\ LoadsAreTimely /\ ShownIsTimely

LEMMA FreshInit == Init => FreshInv
<1> SUFFICES ASSUME Init PROVE FreshInv
  OBVIOUS
<1>1. world.version = 0 /\ askedAt = 0 /\ generation = 1
  BY DEF Init
<1>2. \A l \in loads : l.generation = 1 /\ l.answer = Nothing
  BY DEF Init, LoadsOf
<1>3. \A p \in AllPanels : shown[p].takenAt = 0
  BY DEF Init, ShownNothing
<1> QED BY <1>1, <1>2, <1>3 DEF FreshInv, LoadsAreTimely, ShownIsTimely

\* The numbers the freshness of panels is about.
LEMMA Numbers ==
  ASSUME TypeOK
  PROVE  /\ generation \in Nat /\ askedAt \in Nat /\ world.version \in Nat
         /\ \A l \in loads : l.generation \in Nat /\ l.panel \in AllPanels
         /\ \A l \in loads : l.answer # Nothing => l.answer \in Worlds /\ l.answer.version \in Nat
         /\ \A p \in AllPanels : shown[p].takenAt \in Nat /\ shown[p].world.version \in Nat
BY WorldFields DEF TypeOK, Loads

\* Steps that leave the refreshes alone, but for what is in the repository.
LEMMA WorldMovesOn ==
  ASSUME TypeOK, FreshInv, UNCHANGED <<generation, askedAt, loads, shown>>,
         world' = world \/ world'.version = world.version + 1
  PROVE  FreshInv'
BY Numbers DEF FreshInv, LoadsAreTimely, ShownIsTimely

\* A new refresh: no load in flight and no panel is of its generation yet.
LEMMA NextRefresh ==
  ASSUME TypeOK, FreshInv, generation' = generation + 1,
         loads' = loads \cup LoadsOf(generation + 1), UNCHANGED shown,
         askedAt' <= world'.version
  PROVE  FreshInv'
<1>1. \A l \in LoadsOf(generation + 1) : l.generation = generation + 1 /\ l.answer = Nothing
  BY DEF LoadsOf
<1>2. LoadsAreTimely'
  BY <1>1, Numbers DEF FreshInv, LoadsAreTimely
<1>3. ShownIsTimely'
  BY Numbers DEF FreshInv, ShownIsTimely
<1> QED BY <1>2, <1>3 DEF FreshInv

\* An answer of a panel is taken if it is current, or dropped.
LEMMA AnswerTaken ==
  ASSUME TypeOK, FreshInv, NEW l \in loads, NEW panel \in AllPanels, Arrives(l, panel),
         IF IsCurrent(l) THEN Show(l) ELSE UNCHANGED shown,
         UNCHANGED <<world, generation, askedAt>>
  PROVE  FreshInv'
<1>1. LoadsAreTimely'
  BY DEF Arrives, FreshInv, LoadsAreTimely
<1>2. CASE IsCurrent(l)
  <2>1. \A p \in AllPanels :
           shown'[p] = IF p = l.panel THEN [world |-> l.answer, takenAt |-> generation]
                       ELSE shown[p]
    BY <1>2 DEF Show, TypeOK
  <2>2. l.answer.version >= askedAt
    BY <1>2 DEF IsCurrent, Arrives, FreshInv, LoadsAreTimely
  <2> QED BY <1>1, <2>1, <2>2, Numbers DEF FreshInv, ShownIsTimely
<1>3. CASE ~ IsCurrent(l)
  BY <1>1, <1>3 DEF FreshInv, ShownIsTimely
<1> QED BY <1>2, <1>3

LEMMA FreshStep == TypeOK /\ FreshInv /\ [Next]_vars => FreshInv'
<1> SUFFICES ASSUME TypeOK, FreshInv, [Next]_vars PROVE FreshInv'
  OBVIOUS
<1> USE DEF refreshed
<1>1. ASSUME Change PROVE FreshInv'
  <2>1. world'.version = world.version + 1
    BY <1>1 DEF Change, ChangeTo
  <2> QED BY <1>1, <2>1, WorldMovesOn DEF Change
<1>2. ASSUME Refresh PROVE FreshInv'
  BY <1>2, Numbers, NextRefresh DEF Refresh, RefreshCommands
<1>3. ASSUME NEW l \in loads, Read(l) PROVE FreshInv'
  <2> DEFINE answered == [l EXCEPT !.answer = world]
  <2>1. answered.generation = l.generation /\ answered.answer = world
    BY DEF TypeOK, Loads
  <2>2. loads' = (loads \ {l}) \cup {answered} /\ UNCHANGED <<world, generation, askedAt, shown>>
    BY <1>3 DEF Read
  <2> HIDE DEF answered
  <2> QED BY <2>1, <2>2, Numbers DEF FreshInv, LoadsAreTimely, ShownIsTimely
<1>4. ASSUME NEW l \in loads, ReadFails(l) PROVE FreshInv'
  BY <1>4 DEF ReadFails, FreshInv, LoadsAreTimely, ShownIsTimely
<1>5. ASSUME NEW l \in loads, StatusRefreshed(l) PROVE FreshInv'
  BY <1>5, AnswerTaken DEF StatusRefreshed, AllPanels
<1>6. ASSUME NEW l \in loads, BranchesLoaded(l) PROVE FreshInv'
  BY <1>6, AnswerTaken DEF BranchesLoaded, AllPanels
<1>7. ASSUME NEW l \in loads, InProgressOperationLoaded(l) PROVE FreshInv'
  BY <1>7, AnswerTaken DEF InProgressOperationLoaded, AllPanels
<1>8. ASSUME NEW ok \in BOOLEAN, RenameBranch(ok) PROVE FreshInv'
  <2>1. world' = world \/ world'.version = world.version + 1
    BY <1>8 DEF RenameBranch, ChangeTo
  <2> QED BY <1>8, <2>1, WorldMovesOn DEF RenameBranch
<1>9. ASSUME RenameFinished PROVE FreshInv'
  <2>1. CASE rename.at = "ok"
    BY <1>9, <2>1, Numbers, NextRefresh DEF RenameFinished, RefreshCommands
  <2>2. CASE rename.at # "ok"
    BY <1>9, <2>2, WorldMovesOn DEF RenameFinished
  <2> QED BY <2>1, <2>2
<1>10. ASSUME NEW file \in Files, ConflictResolved(file) PROVE FreshInv'
  <2>1. world'.version = world.version + 1
    BY <1>10 DEF ConflictResolved, ChangeTo
  <2> QED BY <1>10, <2>1, Numbers, NextRefresh DEF ConflictResolved
<1>11. ASSUME UNCHANGED refreshed PROVE FreshInv'
  BY <1>11, WorldMovesOn
<1>12. ASSUME \/ \E file \in Files : LoadSelectedDiff(file)
              \/ ToggleBlameView
              \/ \E r \in diffs, ok \in BOOLEAN : DiffLoaded(r, ok)
              \/ \E r \in blames, ok \in BOOLEAN : BlameLoaded(r, ok)
              \/ \E name \in Names : SelectBranch(name)
              \/ \E old, new \in Names : DispatchRename(old, new)
              \/ DispatchOther \/ ToggleConflictsPanel \/ InspectConflict
              \/ \E next \in 0..Cardinality(Files) : MoveConflictCursor(next)
              \/ \E path \in sides, ok \in BOOLEAN : ConflictSidesLoaded(path, ok)
       PROVE  FreshInv'
  <2>1. UNCHANGED refreshed
    BY <1>12 DEF LoadSelectedDiff, ToggleBlameView, DiffLoaded, BlameLoaded, SelectBranch,
       DispatchRename, DispatchOther, ToggleConflictsPanel, InspectConflict,
       MoveConflictCursor, ConflictSidesLoaded
  <2> QED BY <1>11, <2>1
<1>13. CASE UNCHANGED vars
  BY <1>11, <1>13 DEF vars
<1> QED
  BY <1>1, <1>2, <1>3, <1>4, <1>5, <1>6, <1>7, <1>8, <1>9, <1>10, <1>12, <1>13 DEF Next

\* A panel that has been reloaded since the last refresh is not older than it,
\* in whatever order the answers of overlapping refreshes arrive.
THEOREM Freshness == Spec => []CurrentIsFresh
<1>1. TypeOK => panels \subseteq AllPanels
  BY DEF TypeOK
<1>2. TypeOK /\ FreshInv => CurrentIsFresh
  BY <1>1 DEF FreshInv, ShownIsTimely, CurrentIsFresh
<1> QED BY <1>2, FreshInit, FreshStep, TypeCorrect, PTL DEF Spec

-----------------------------------------------------------------------------
(***************************************************************************)
(* The diff: the one that carries the latest request id is the selected    *)
(* file's, as long as one is selected.                                     *)
(***************************************************************************)
LatestDiffIsSelected ==
    \A r \in diffs :
        /\ r.id <= diffId
        /\ r.id = diffId /\ selected # Nothing => r.file = selected

DiffInv == LatestDiffIsSelected /\ DiffIsOfSelectedFile

LEMMA DiffStep == TypeOK /\ DiffInv /\ [Next]_vars => DiffInv'
<1> SUFFICES ASSUME TypeOK, DiffInv, [Next]_vars PROVE DiffInv'
  OBVIOUS
<1> USE DEF fileViews, DiffInv, LatestDiffIsSelected, DiffIsOfSelectedFile
<1>1. diffId \in Nat /\ \A r \in diffs : r.id \in Nat
  BY DEF TypeOK, Requests
<1>2. ASSUME NEW l \in loads, StatusRefreshed(l) PROVE DiffInv'
  BY <1>2 DEF StatusRefreshed
<1>3. ASSUME NEW file \in Files, LoadSelectedDiff(file) PROVE DiffInv'
  BY <1>1, <1>3 DEF LoadSelectedDiff
<1>4. ASSUME NEW r \in diffs, NEW ok \in BOOLEAN, DiffLoaded(r, ok) PROVE DiffInv'
  BY <1>4 DEF DiffLoaded
<1>5. ASSUME UNCHANGED <<selected, diff, diffId, diffs>> PROVE DiffInv'
  BY <1>5
<1>6. ASSUME \/ Change \/ Refresh
             \/ \E l \in loads : \/ Read(l) \/ ReadFails(l) \/ BranchesLoaded(l)
                                 \/ InProgressOperationLoaded(l)
             \/ \E file \in Files : ConflictResolved(file)
             \/ ToggleBlameView
             \/ \E r \in blames, ok \in BOOLEAN : BlameLoaded(r, ok)
             \/ \E name \in Names : SelectBranch(name)
             \/ \E old, new \in Names : DispatchRename(old, new)
             \/ DispatchOther \/ RenameFinished
             \/ \E ok \in BOOLEAN : RenameBranch(ok)
             \/ ToggleConflictsPanel \/ InspectConflict
             \/ \E next \in 0..Cardinality(Files) : MoveConflictCursor(next)
             \/ \E path \in sides, ok \in BOOLEAN : ConflictSidesLoaded(path, ok)
      PROVE  DiffInv'
  <2>1. UNCHANGED <<selected, diff, diffId, diffs>>
    BY <1>6 DEF Change, Refresh, Read, ReadFails, BranchesLoaded, InProgressOperationLoaded,
       ConflictResolved, ToggleBlameView, BlameLoaded, SelectBranch, DispatchRename,
       DispatchOther, RenameFinished, RenameBranch, ToggleConflictsPanel, InspectConflict,
       MoveConflictCursor, ConflictSidesLoaded
  <2> QED BY <1>5, <2>1
<1>7. CASE UNCHANGED vars
  BY <1>5, <1>7 DEF vars
<1> HIDE DEF DiffInv
<1> QED BY <1>2, <1>3, <1>4, <1>6, <1>7 DEF Next

\* However late diffs arrive, the one next to a selected file is that file's.
THEOREM DiffOfSelected == Spec => []DiffIsOfSelectedFile
<1>1. Init => DiffInv
  BY DEF Init, DiffInv, LatestDiffIsSelected, DiffIsOfSelectedFile
<1>2. DiffInv => DiffIsOfSelectedFile
  BY DEF DiffInv
<1> QED BY <1>1, <1>2, DiffStep, TypeCorrect, PTL DEF Spec
-----------------------------------------------------------------------------
(***************************************************************************)
(* The screen, for every size and everything shown.                        *)
(***************************************************************************)

\* From the smallest terminal that is not refused on, whatever is listed: no panel of the
\* four that are looked at is squeezed out, the column on the left fits, five of its rows
\* and the help included, and three rows of a diff stay below the changed files (render,
\* render_chrome_column, render_diff_panel, render_detail_column), also where the count
\* of what is listed wraps around in a u16.
THEOREM EveryPanelHasRoom ==
  ASSUME NEW width \in Nat, NEW height \in Nat, ~ TooSmall(width, height),
         NEW entries \in Nat, NEW references \in Nat
  PROVE  LET chrome == ChromeRows(PanelsHeight(height))
             detail == DetailRows(PanelsHeight(height), references)
             box == Inner(DiffHeight(height))
             changes == ChangesHeight(box, entries)
         IN /\ CentreWidth(width) >= 28
            /\ CommitsHeight(height) >= 9
            /\ chrome.nav >= 5
            /\ chrome.brand + chrome.nav + chrome.card + chrome.help <= Inner(PanelsHeight(height))
            /\ Len(Brand(Inner(PanelsHeight(height)) >= 26)) = chrome.brand
            /\ detail.references \in 5..12 /\ detail.branches >= 5
            /\ changes >= 3 /\ box - changes >= 3
<1>1. CentreWidth(width) >= 28
  BY DEF CentreWidth, ColumnWidths, TooSmall, MinWidth
<1> DEFINE space == PanelsHeight(height)
<1>2. space \in Nat /\ space >= 17
  BY DEF PanelsHeight, TooSmall, MinHeight
<1> HIDE DEF space
<1>3. Share(55, space) >= 9 /\ space - Share(55, space) >= 8 /\ Share(55, space) \in Nat
  BY <1>2 DEF Share
<1>8. Len(Brand(Inner(space) >= 26)) = ChromeRows(space).brand
  BY <1>2 DEF Brand, ChromeRows, Inner, Less
<1>4. ChromeRows(space).nav >= 5
      /\ ChromeRows(space).brand + ChromeRows(space).nav + ChromeRows(space).card + ChromeRows(space).help <= Inner(space)
  BY <1>2 DEF ChromeRows, Inner, Less, Lesser, Greater, NavSlots
<1>5. DetailRows(space, references).references \in 5..12
      /\ DetailRows(space, references).branches >= 5
  BY <1>2 DEF DetailRows, Less, Lesser, Greater, Clamp, U16
<1>6. ASSUME NEW inner \in Nat, inner >= 6
      PROVE  ChangesHeight(inner, entries) >= 3 /\ inner - ChangesHeight(inner, entries) >= 3
  BY <1>6 DEF ChangesHeight, Clamp, Lesser, Greater, U16
<1>7. Inner(DiffHeight(height)) \in Nat /\ Inner(DiffHeight(height)) >= 6
  BY <1>2, <1>3 DEF DiffHeight, CommitsHeight, Inner, Less, Greater, space
<1> QED
  BY <1>1, <1>3, <1>4, <1>5, <1>6, <1>7, <1>8 DEF CommitsHeight, space

\* lay_row: a row is as wide as it should be, whatever had to be cut, unless what is on the
\* right alone is wider.
THEOREM RowsEndAtTheEdge ==
  ASSUME NEW total \in Nat, NEW left \in Nat, NEW right \in 0..total
  PROVE  RowWidths(total, left, right) = {total}
  BY DEF RowWidths, Clipped, Less, Greater

\* diff_line: the band of an added or removed line reaches the edge, wide characters or not,
\* and the cells left to fill are never fewer than none.
THEOREM LinesEndAtTheEdge ==
  ASSUME NEW total \in Nat, total >= NumberCells, NEW code \in Nat,
         NEW used \in Clipped(code, Less(total, NumberCells))
  PROVE  used <= Less(total, NumberCells) /\ DiffRowWidths(total, code, TRUE) = {total}
  BY DEF DiffRowWidths, Clipped, Less, Greater, NumberCells

\* render_status_bar: no terminal that is not refused hides the chip of a key.
THEOREM EveryChipShown ==
  ASSUME NEW width \in Nat, width >= MinWidth, NEW lowColor \in BOOLEAN
  PROVE  ChipsShown(lowColor, width) = 1..6
<1>1. /\ ChipCosts(lowColor)[1] = 15 /\ ChipCosts(lowColor)[2] \in {10, 12}
      /\ ChipCosts(lowColor)[3] = 13 /\ ChipCosts(lowColor)[4] = 12
      /\ ChipCosts(lowColor)[5] = 10 /\ ChipCosts(lowColor)[6] = 10
  BY DEF ChipCosts
<1>2. \A n \in 1..6 : CostsUpTo(lowColor, n) <= 72
  BY <1>1 DEF CostsUpTo
<1>3. \A n \in 1..6 : CostsUpTo(lowColor, n) \in Nat
  BY <1>1 DEF CostsUpTo
<1> QED BY <1>2, <1>3 DEF ChipsShown, MinWidth

\* relative_time: at least one of the unit, as many as have passed, and never so many that
\* the text grows.
THEOREM AgesAreWhole ==
  ASSUME NEW now \in Int, NEW then \in Int, now - then >= 60
  PROVE  LET age == Age(now, then)
         IN /\ age.unit \in DOMAIN AgeUnits
            /\ age.count >= 1
            /\ age.count * AgeUnits[age.unit] <= now - then
            /\ now - then < (age.count + 1) * AgeUnits[age.unit]
            /\ age.unit # "year" => age.count < 60
  BY DEF Age, AgeUnits
\* centered_rect: every overlay lies within the screen, with room for a line of its own.
THEOREM PopupsAreInside ==
  ASSUME NEW overlay \in DOMAIN PopupSize, NEW width \in Nat, NEW height \in Nat,
         ~ TooSmall(width, height)
  PROVE  LET across == Popup(PopupSize[overlay][1], width)
             down == Popup(PopupSize[overlay][2], height)
         IN /\ across.from >= 0 /\ across.to <= width /\ across.to - across.from >= 38
            /\ down.from >= 0 /\ down.to <= height /\ down.to - down.from >= 5
<1>1. PopupSize[overlay] \in {<<80, 70>>, <<70, 60>>, <<75, 65>>, <<50, 40>>, <<70, 70>>, <<70, 45>>,
                             <<75, 75>>, <<75, 50>>, <<50, 25>>, <<60, 40>>, <<60, 75>>}
  BY DEF PopupSize
<1>2. PopupSize[overlay][1] \in {50, 60, 70, 75, 80}
      /\ PopupSize[overlay][2] \in {25, 40, 45, 50, 60, 65, 70, 75}
  BY <1>1
<1>3. ASSUME NEW p \in {50, 60, 70, 75, 80}
      PROVE  LET across == Popup(p, width)
             IN across.from >= 0 /\ across.to <= width /\ across.to - across.from >= 38
  BY DEF Popup, Share, TooSmall, MinWidth
<1>4. ASSUME NEW p \in {25, 40, 45, 50, 60, 65, 70, 75}
      PROVE  LET down == Popup(p, height)
             IN down.from >= 0 /\ down.to <= height /\ down.to - down.from >= 5
  BY DEF Popup, Share, TooSmall, MinHeight
<1> QED BY <1>2, <1>3, <1>4

\* The division by hand rounds down.
LEMMA QuotientDown ==
  ASSUME NEW z \in Int
  PROVE  Quotient(IF z >= 0 THEN z ELSE z - 146096, 146097) = z \div 146097
<1>1. CASE z >= 0
  BY <1>1, SMTT(20) DEF Quotient
<1>2. CASE z < 0 /\ ~ (z - 146096 >= 0)
  <2>1. (146096 - z) \div 146097 = - (z \div 146097)
    BY <1>2, SMTT(20)
  <2> QED BY <1>2, <2>1, SMTT(20) DEF Quotient
<1> QED BY <1>1, <1>2, SMTT(20)

\* The day is one of its era, before 1970 as well.
LEMMA EraBounds ==
  ASSUME NEW days \in Int
  PROVE  Era(days) \in Int /\ DayOfEra(days) \in Int /\ DayOfEra(days) >= 0 /\ DayOfEra(days) <= 146096
<1> DEFINE z == days + 719468
<1>1. z \in Int /\ Era(days) = z \div 146097 /\ DayOfEra(days) = z - Era(days) * 146097
  BY QuotientDown, SMTT(20) DEF Era, DayOfEra
<1> QED BY <1>1, SMTT(20)
\* The same in inequalities, where no division is left.
LEMMA DayOfYearBounds ==
  ASSUME NEW d \in Int, NEW a \in Int, NEW b \in Int, NEW c \in Int, NEW y \in Int,
         NEW q \in Int, NEW h \in Int,
         0 <= d, d <= 146096,
         1460 * a <= d, d < 1460 * a + 1460,
         36524 * b <= d, d < 36524 * b + 36524,
         146096 * c <= d, d < 146096 * c + 146096,
         365 * y <= d - a + b - c, d - a + b - c < 365 * y + 365,
         4 * q <= y, y < 4 * q + 4,
         100 * h <= y, y < 100 * h + 100
  PROVE  /\ 0 <= y /\ y <= 399
         /\ 0 <= d - (365 * y + q - h) /\ d - (365 * y + q - h) <= 365
  BY SMTT(30)

\* The year is one of its era, the day one of its year.
LEMMA YearBounds ==
  ASSUME NEW days \in Int
  PROVE  /\ YearOfEra(days) \in Int /\ YearOfEra(days) >= 0 /\ YearOfEra(days) <= 399
         /\ DayOfYear(days) \in Int /\ DayOfYear(days) >= 0 /\ DayOfYear(days) <= 365
<1> DEFINE d == DayOfEra(days)
           a == d \div 1460
           b == d \div 36524
           c == d \div 146096
           y == YearOfEra(days)
           q == y \div 4
           h == y \div 100
<1>1. d \in Int /\ 0 <= d /\ d <= 146096
  BY EraBounds, SMTT(20)
<1>2. /\ a \in Int /\ 1460 * a <= d /\ d < 1460 * a + 1460
      /\ b \in Int /\ 36524 * b <= d /\ d < 36524 * b + 36524
      /\ c \in Int /\ 146096 * c <= d /\ d < 146096 * c + 146096
  BY <1>1, SMTT(20)
<1>3. y \in Int /\ 365 * y <= d - a + b - c /\ d - a + b - c < 365 * y + 365
  <2>1. y = (d - a + b - c) \div 365
    BY SMTT(20) DEF YearOfEra
  <2> HIDE DEF a, b, c, d, y
  <2> QED BY <1>1, <1>2, <2>1, SMTT(20)
<1>4. /\ q \in Int /\ 4 * q <= y /\ y < 4 * q + 4
      /\ h \in Int /\ 100 * h <= y /\ y < 100 * h + 100
  BY <1>3, SMTT(20)
<1>5. DayOfYear(days) = d - (365 * y + q - h)
  BY SMTT(20) DEF DayOfYear
<1> HIDE DEF a, b, c, d, y, q, h
<1>6. /\ 0 <= y /\ y <= 399
      /\ 0 <= d - (365 * y + q - h) /\ d - (365 * y + q - h) <= 365
  BY <1>1, <1>2, <1>3, <1>4, DayOfYearBounds, SMTT(30)
<1> QED BY <1>1, <1>3, <1>4, <1>5, <1>6, SMTT(20) DEF y

\* civil_from_days gives a day of the calendar for every number of days: what its comments
\* say of the ranges, and no month longer than it is.
THEOREM CalendarInRange ==
  ASSUME NEW days \in Int
  PROVE  LET date == CivilFromDays(days)
         IN /\ date.year \in Int /\ date.month \in 1..12 /\ date.day \in 1..31
            /\ date.month \in {4, 6, 9, 11} => date.day <= 30
            /\ date.month = 2 => date.day <= 29
<1>1. /\ DayOfYear(days) \in Int /\ DayOfYear(days) >= 0 /\ DayOfYear(days) <= 365
      /\ YearOfEra(days) \in Int /\ Era(days) \in Int
  BY EraBounds, YearBounds, SMTT(20)
<1> DEFINE doy == DayOfYear(days)
           mp == (5 * doy + 2) \div 153
           month == IF mp < 10 THEN mp + 3 ELSE mp - 9
           before == (153 * mp + 2) \div 5
           year == YearOfEra(days) + Era(days) * 400
<1>2. /\ CivilFromDays(days).year = IF month <= 2 THEN year + 1 ELSE year
      /\ CivilFromDays(days).month = month
      /\ CivilFromDays(days).day = doy - before + 1
  BY SMTT(20) DEF CivilFromDays
<1>3. mp \in Int /\ 153 * mp <= 5 * doy + 2 /\ 5 * doy + 2 < 153 * mp + 153
  BY <1>1, SMTT(20)
<1>4. before \in Int /\ 5 * before <= 153 * mp + 2 /\ 153 * mp + 2 < 5 * before + 5
  BY <1>3, SMTT(20)
<1>5. year \in Int
  BY <1>1, SMTT(20)
<1>6. doy \in Int /\ 0 <= doy /\ doy <= 365
  BY <1>1
<1> HIDE DEF doy, mp, before, year
<1>7. 0 <= mp /\ mp <= 11
  BY <1>3, <1>6, SMTT(20)
<1>8. /\ 1 <= doy - before + 1 /\ doy - before + 1 <= 31
      /\ mp \in {1, 3, 6, 8} => doy - before + 1 <= 30
      /\ mp = 11 => doy - before + 1 <= 29
  BY <1>3, <1>4, <1>6, <1>7, SMTT(60)
<1>9. /\ month \in 1..12
      /\ month \in {4, 6, 9, 11} <=> mp \in {1, 3, 6, 8}
      /\ month = 2 <=> mp = 11
  BY <1>3, <1>7, SMTT(20)
<1> HIDE DEF month
<1> QED BY <1>2, <1>3, <1>4, <1>5, <1>6, <1>8, <1>9, SMTT(30)

\* format_timestamp: and a time of day, whatever offset was recorded.
THEOREM StampIsATime ==
  ASSUME NEW seconds \in Int, NEW offset \in Int
  PROVE  LET stamp == Stamp(seconds, offset)
         IN /\ stamp.hour \in 0..23 /\ stamp.minute \in 0..59
            /\ stamp.offset[1] \in Nat /\ stamp.offset[2] \in 0..59
            /\ stamp.date.month \in 1..12 /\ stamp.date.day \in 1..31
<1> DEFINE shifted == seconds + offset * 60
           ofDay == shifted % 86400
           minutes == IF offset >= 0 THEN offset ELSE - offset
<1>1. shifted \in Int /\ minutes \in Nat
  BY SMTT(20)
<1>2. /\ Stamp(seconds, offset).date = CivilFromDays(shifted \div 86400)
      /\ Stamp(seconds, offset).hour = ofDay \div 3600
      /\ Stamp(seconds, offset).minute = (ofDay % 3600) \div 60
      /\ Stamp(seconds, offset).offset = <<minutes \div 60, minutes % 60>>
  BY SMTT(20) DEF Stamp
<1> HIDE DEF shifted, minutes
<1>3. ofDay \in Int /\ 0 <= ofDay /\ ofDay < 86400 /\ shifted \div 86400 \in Int
  BY <1>1, SMTT(20)
<1> HIDE DEF ofDay
<1>4. /\ CivilFromDays(shifted \div 86400).month \in 1..12
      /\ CivilFromDays(shifted \div 86400).day \in 1..31
  BY <1>3, CalendarInRange, SMTT(20)
<1>5. ofDay \div 3600 \in 0..23 /\ (ofDay % 3600) \div 60 \in 0..59
  BY <1>3, SMTT(20)
<1>6. minutes \div 60 \in Nat /\ minutes % 60 \in 0..59
  BY <1>1, SMTT(20)
<1> QED BY <1>2, <1>4, <1>5, <1>6, SMTT(20)

\* nav_items: whatever is in focus, one row of the menu is marked, so that the fallback of
\* render_nav is never taken.
THEOREM OneItemActive ==
  ASSUME NEW app, app.focus \in {"sidebar", "graph", "details", "diff", "references"},
         app.diffMode \in {"diff", "blame"}, app.view \in {"tags", "remotes", "stash", "reflog"}
  PROVE  \E i \in 1..NavSlots : \A j \in 1..NavSlots : NavItems(app)[j].active <=> j = i
<1>1. /\ NavItems(app)[1].active <=> app.focus = "graph"
      /\ NavItems(app)[2].active <=> app.focus = "sidebar"
      /\ NavItems(app)[3].active <=> app.focus = "details"
      /\ NavItems(app)[4].active <=> app.focus = "diff" /\ app.diffMode = "diff"
      /\ NavItems(app)[5].active <=> app.focus = "diff" /\ app.diffMode = "blame"
      /\ NavItems(app)[6].active <=> app.focus = "references" /\ app.view = "stash"
      /\ NavItems(app)[7].active <=> app.focus = "references" /\ app.view = "remotes"
      /\ NavItems(app)[8].active <=> app.focus = "references" /\ app.view = "tags"
      /\ NavItems(app)[9].active <=> app.focus = "references" /\ app.view = "reflog"
  BY DEF NavItems
<1> DEFINE Active(j) == NavItems(app)[j].active
<1>2. \A i \in 1..9 : (\A j \in 1..9 : Active(j) <=> j = i)
                       => \E k \in 1..NavSlots : \A j \in 1..NavSlots : Active(j) <=> j = k
  BY DEF NavSlots
<1> HIDE DEF Active
<1> QED BY <1>1, <1>2 DEF Active

\* diff_lines: the numbers beside the lines of a hunk are different, grow, and begin and end
\* where its header says, if it counts its lines right.
THEOREM NumbersInTheirHunk ==
  ASSUME NEW hunk, NEW side \in {"old", "new"}, hunk.start[side] \in Nat,
         hunk.lines \in Seq({"context", "addition", "deletion"}),
         NEW i \in DOMAIN hunk.lines, Numbered(hunk, side, i)
  PROVE  LET mine == {j \in DOMAIN hunk.lines : Numbered(hunk, side, j)}
         IN /\ LineNumber(hunk, side, i) >= hunk.start[side]
            /\ LineNumber(hunk, side, i) < hunk.start[side] + Cardinality(mine)
            /\ \A j \in mine : i < j => LineNumber(hunk, side, i) < LineNumber(hunk, side, j)
<1> DEFINE mine == {j \in DOMAIN hunk.lines : Numbered(hunk, side, j)}
           Earlier(k) == LinesBefore(hunk, side, k)
<1>1. DOMAIN hunk.lines = 1..Len(hunk.lines) /\ Len(hunk.lines) \in Nat
  OBVIOUS
<1>2. IsFiniteSet(mine)
  <2>1. IsFiniteSet(1..Len(hunk.lines))
    BY <1>1, FS_Interval
  <2>2. mine \in SUBSET (1..Len(hunk.lines))
    BY <1>1
  <2> HIDE DEF mine
  <2> QED BY <2>1, <2>2, FS_Subset
<1>3. ASSUME NEW k \in DOMAIN hunk.lines
      PROVE  Earlier(k) \subseteq mine /\ IsFiniteSet(Earlier(k)) /\ Cardinality(Earlier(k)) \in Nat
  <2>1. Earlier(k) \subseteq mine
    BY DEF LinesBefore, Numbered
  <2> QED BY <1>2, <2>1, FS_Subset, FS_CardinalityType
<1>4. i \in mine /\ i \notin Earlier(i)
  BY <1>1 DEF LinesBefore
<1>5. Cardinality(Earlier(i)) < Cardinality(mine)
  <2>1. Earlier(i) # mine
    BY <1>4
  <2>2. /\ Cardinality(mine) \in Nat /\ Cardinality(Earlier(i)) \in Nat
        /\ Cardinality(Earlier(i)) <= Cardinality(mine)
        /\ Cardinality(mine) # Cardinality(Earlier(i))
    <3> HIDE DEF Earlier, mine
    <3> QED BY <1>2, <1>3, <2>1, FS_Subset, FS_CardinalityType
  <2> QED BY <2>2
<1>6. ASSUME NEW j \in mine, i < j
      PROVE  Cardinality(Earlier(i)) < Cardinality(Earlier(j))
  <2>1. Earlier(i) \subseteq Earlier(j) /\ i \in Earlier(j)
    BY <1>1, <1>6 DEF LinesBefore, Numbered
  <2>2. /\ IsFiniteSet(Earlier(j)) /\ Cardinality(Earlier(j)) \in Nat
        /\ Cardinality(Earlier(i)) \in Nat
    BY <1>3
  <2>3. Earlier(i) # Earlier(j)
    BY <1>4, <2>1
  <2>4. /\ Cardinality(Earlier(i)) <= Cardinality(Earlier(j))
        /\ Cardinality(Earlier(j)) # Cardinality(Earlier(i))
    <3> HIDE DEF Earlier
    <3> QED BY <2>1, <2>2, <2>3, FS_Subset
  <2> QED BY <2>2, <2>4
<1>7. \A j \in mine : j \in DOMAIN hunk.lines
  OBVIOUS
<1>8. Cardinality(mine) \in Nat
  BY <1>2, FS_CardinalityType
<1> HIDE DEF mine
<1> QED BY <1>3, <1>5, <1>6, <1>7, <1>8 DEF LineNumber, mine

\* The risk a confirmation shows is the one the core gives the call: the table of the TUI
\* (OperationKind::risk) and that of the application (MutationKind::risk), kept by hand
\* side by side, agree on everything the TUI can ask for.
THEOREM RisksAgree ==
  ASSUME NEW kind, kind.is \in OperationKinds,
         kind.is = "deleteBranch" => kind.force \in BOOLEAN,
         kind.is = "reset" => kind.mode \in {"soft", "mixed", "hard"}
  PROVE  Risk(kind) = MutationRisk(kind)
<1>1. CASE kind.is \in SafeKinds
  <2>1. kind.is \notin ModerateKinds /\ kind.is \notin DestructiveKinds
        /\ kind.is \notin {"deleteBranch", "reset", "removeWorktree", "dropStash",
                           "forcePushWithLease", "amendCommit", "abortOperation"}
    BY <1>1 DEF SafeKinds, ModerateKinds, DestructiveKinds
  <2>2. Risk(kind) = "safe"
    BY <1>1, <2>1 DEF Risk
  <2>3. MutationRisk(kind) = "safe"
    BY <1>1, <2>1 DEF MutationRisk, SafeKinds
  <2> QED BY <2>2, <2>3
<1>2. CASE kind.is \in ModerateKinds
  <2>1. kind.is \notin SafeKinds /\ kind.is \notin DestructiveKinds
        /\ kind.is \notin {"deleteBranch", "reset", "removeWorktree", "dropStash",
                           "forcePushWithLease", "amendCommit", "abortOperation"}
        /\ kind.is \notin {"stageFiles", "unstageFiles", "stageHunks", "unstageHunks", "fetch",
                           "markConflictResolved"}
    BY <1>2 DEF SafeKinds, ModerateKinds, DestructiveKinds
  <2>2. Risk(kind) = "moderate"
    BY <1>2, <2>1 DEF Risk
  <2>3. MutationRisk(kind) = "moderate"
    BY <2>1 DEF MutationRisk
  <2> QED BY <2>2, <2>3
<1>3. CASE kind.is \in DestructiveKinds
  BY <1>3 DEF Risk, MutationRisk, DestructiveKinds, ModerateKinds, SafeKinds
<1>4. CASE kind.is = "deleteBranch"
  BY <1>4 DEF Risk, MutationRisk, DestructiveKinds, ModerateKinds, SafeKinds
<1>5. CASE kind.is = "reset"
  BY <1>5 DEF Risk, MutationRisk, DestructiveKinds, ModerateKinds, SafeKinds
<1> QED BY <1>1, <1>2, <1>3, <1>4, <1>5 DEF OperationKinds

(***************************************************************************)
(* The layout of the commit graph.                                         *)
(***************************************************************************)

\* The recursive functions of the model unfold: the least number at which one would
\* not is one too many.
AddsEdges(added, open, parents, row, lane) ==
  /\ added[0] = [open |-> open, edges |-> <<>>]
  /\ \A k \in 1..Len(parents) : added[k] = AddEdge(added[k - 1], parents[k], row, lane)

LEMMA AddEdgesUnfolds ==
  ASSUME NEW open, NEW parents, NEW row, NEW lane, Len(parents) \in Nat
  PROVE  AddsEdges(AddEdges(open, parents, row, lane), open, parents, row, lane)
<1> DEFINE base == [open |-> open, edges |-> <<>>]
           IsAdded(g, m) ==
             g = [k \in 0..m |-> IF k = 0 THEN base ELSE AddEdge(g[k - 1], parents[k], row, lane)]
           Missing == {m \in 0..Len(parents) : ~ \E g : IsAdded(g, m)}
<1>1. Missing = {}
  <2>1. SUFFICES ASSUME Missing # {} PROVE FALSE
    OBVIOUS
  <2>2. PICK m \in Missing : \A other \in Missing : m <= other
    <3>1. Missing \subseteq Nat
      OBVIOUS
    <3> HIDE DEF Missing
    <3> QED BY <2>1, <3>1, LeastNumber
  <2>3. CASE m = 0
    <3>1. IsAdded([k \in 0..0 |-> base], 0)
      OBVIOUS
    <3> QED BY <2>2, <2>3, <3>1
  <2>4. CASE m # 0
    <3>1. m - 1 \in 0..Len(parents) /\ m - 1 \notin Missing
      <4>1. m \in 0..Len(parents)
        BY <2>2
      <4> HIDE DEF Missing
      <4> QED BY <2>2, <2>4, <4>1
    <3>2. PICK g : IsAdded(g, m - 1)
      BY <3>1
    <3> DEFINE h == [k \in 0..m |-> IF k = m THEN AddEdge(g[m - 1], parents[m], row, lane) ELSE g[k]]
    <3>3. \A k \in 0..m - 1 : h[k] = g[k]
      BY <2>2
    <3> HIDE DEF base
    <3>4. \A k \in 0..m : h[k] = IF k = 0 THEN base ELSE AddEdge(h[k - 1], parents[k], row, lane)
      <4>1. \A k \in 0..m - 1 : g[k] = IF k = 0 THEN base ELSE AddEdge(g[k - 1], parents[k], row, lane)
        BY <3>2
      <4>2. h[m] = AddEdge(h[m - 1], parents[m], row, lane)
        BY <2>2, <2>4, <3>3
      <4>3. \A k \in 1..m - 1 : h[k] = g[k] /\ h[k - 1] = g[k - 1]
        BY <2>2, <3>3
      <4> HIDE DEF h
      <4> QED BY <2>2, <2>4, <3>3, <4>1, <4>2, <4>3
    <3>5. IsAdded(h, m)
      BY <3>4
    <3> QED BY <2>2, <3>5
  <2> QED BY <2>3, <2>4
<1>2. PICK g : IsAdded(g, Len(parents))
  <2>1. Len(parents) \notin Missing
    BY <1>1
  <2> QED BY <2>1
<1>3. IsAdded(AddEdges(open, parents, row, lane), Len(parents))
  <2>1. AddEdges(open, parents, row, lane) = CHOOSE f : IsAdded(f, Len(parents))
    BY DEF AddEdges
  <2> HIDE DEF IsAdded
  <2> QED BY <1>2, <2>1
<1> QED BY <1>3 DEF AddsEdges

AddsRows(added, g, page) ==
  /\ added[0] = g
  /\ \A k \in 1..Len(page) : added[k] = AppendRow(added[k - 1], page[k])

LEMMA AppendRowsUnfolds ==
  ASSUME NEW g, NEW page, Len(page) \in Nat
  PROVE  AddsRows(AppendRows(g, page), g, page)
<1> DEFINE IsAdded(h, m) ==
             h = [k \in 0..m |-> IF k = 0 THEN g ELSE AppendRow(h[k - 1], page[k])]
           Missing == {m \in 0..Len(page) : ~ \E f : IsAdded(f, m)}
<1>1. Missing = {}
  <2>1. SUFFICES ASSUME Missing # {} PROVE FALSE
    OBVIOUS
  <2>2. PICK m \in Missing : \A other \in Missing : m <= other
    <3>1. Missing \subseteq Nat
      OBVIOUS
    <3> HIDE DEF Missing
    <3> QED BY <2>1, <3>1, LeastNumber
  <2>3. CASE m = 0
    <3>1. IsAdded([k \in 0..0 |-> g], 0)
      OBVIOUS
    <3> QED BY <2>2, <2>3, <3>1
  <2>4. CASE m # 0
    <3>1. m - 1 \in 0..Len(page) /\ m - 1 \notin Missing
      <4>1. m \in 0..Len(page)
        BY <2>2
      <4> HIDE DEF Missing
      <4> QED BY <2>2, <2>4, <4>1
    <3>2. PICK f : IsAdded(f, m - 1)
      BY <3>1
    <3> DEFINE h == [k \in 0..m |-> IF k = m THEN AppendRow(f[m - 1], page[m]) ELSE f[k]]
    <3>3. \A k \in 0..m - 1 : h[k] = f[k]
      BY <2>2
    <3>4. \A k \in 0..m : h[k] = IF k = 0 THEN g ELSE AppendRow(h[k - 1], page[k])
      <4>1. \A k \in 0..m - 1 : f[k] = IF k = 0 THEN g ELSE AppendRow(f[k - 1], page[k])
        BY <3>2
      <4>2. h[m] = AppendRow(h[m - 1], page[m])
        BY <2>2, <2>4, <3>3
      <4>3. \A k \in 1..m - 1 : h[k] = f[k] /\ h[k - 1] = f[k - 1]
        BY <2>2, <3>3
      <4> HIDE DEF h
      <4> QED BY <2>2, <2>4, <3>3, <4>1, <4>2, <4>3
    <3>5. IsAdded(h, m)
      BY <3>4
    <3> QED BY <2>2, <3>5
  <2> QED BY <2>3, <2>4
<1>2. PICK f : IsAdded(f, Len(page))
  <2>1. Len(page) \notin Missing
    BY <1>1
  <2> QED BY <2>1
<1>3. IsAdded(AppendRows(g, page), Len(page))
  <2>1. AppendRows(g, page) = CHOOSE h : IsAdded(h, Len(page))
    BY DEF AppendRows
  <2> HIDE DEF IsAdded
  <2> QED BY <1>2, <2>1
<1> QED BY <1>3 DEF AddsRows

Finds(found, query) ==
  /\ found[0] = <<>>
  /\ \A k \in 1..Len(log) :
       found[k] = IF Selects(query, log[k]) THEN Append(found[k - 1], log[k]) ELSE found[k - 1]

LEMMA FoundUnfolds ==
  ASSUME NEW query, Len(log) \in Nat
  PROVE  Finds(Found(query), query)
<1> DEFINE Step(found, k) == IF Selects(query, log[k]) THEN Append(found, log[k]) ELSE found
           IsFound(f, m) == f = [k \in 0..m |-> IF k = 0 THEN <<>> ELSE Step(f[k - 1], k)]
           Missing == {m \in 0..Len(log) : ~ \E f : IsFound(f, m)}
<1>1. Missing = {}
  <2>1. SUFFICES ASSUME Missing # {} PROVE FALSE
    OBVIOUS
  <2>2. PICK m \in Missing : \A other \in Missing : m <= other
    <3>1. Missing \subseteq Nat
      OBVIOUS
    <3> HIDE DEF Missing
    <3> QED BY <2>1, <3>1, LeastNumber
  <2>3. CASE m = 0
    <3>1. IsFound([k \in 0..0 |-> <<>>], 0)
      OBVIOUS
    <3> QED BY <2>2, <2>3, <3>1
  <2>4. CASE m # 0
    <3>1. m - 1 \in 0..Len(log) /\ m - 1 \notin Missing
      <4>1. m \in 0..Len(log)
        BY <2>2
      <4> HIDE DEF Missing
      <4> QED BY <2>2, <2>4, <4>1
    <3>2. PICK f : IsFound(f, m - 1)
      BY <3>1
    <3> DEFINE h == [k \in 0..m |-> IF k = m THEN Step(f[m - 1], m) ELSE f[k]]
    <3> HIDE DEF Step
    <3>3. \A k \in 0..m - 1 : h[k] = f[k]
      BY <2>2
    <3>4. \A k \in 0..m : h[k] = IF k = 0 THEN <<>> ELSE Step(h[k - 1], k)
      <4>1. \A k \in 0..m - 1 : f[k] = IF k = 0 THEN <<>> ELSE Step(f[k - 1], k)
        BY <3>2
      <4>2. h[m] = Step(h[m - 1], m)
        BY <2>2, <2>4, <3>3
      <4>3. \A k \in 1..m - 1 : h[k] = f[k] /\ h[k - 1] = f[k - 1]
        BY <2>2, <3>3
      <4> HIDE DEF h
      <4> QED BY <2>2, <2>4, <3>3, <4>1, <4>2, <4>3
    <3>5. IsFound(h, m)
      BY <3>4
    <3> QED BY <2>2, <3>5
  <2> QED BY <2>3, <2>4
<1>2. PICK f : IsFound(f, Len(log))
  <2>1. Len(log) \notin Missing
    BY <1>1
  <2> QED BY <2>1
<1>3. IsFound(Found(query), Len(log))
  <2>1. Found(query) = CHOOSE h : IsFound(h, Len(log))
    BY DEF Found
  <2> HIDE DEF IsFound
  <2> QED BY <1>2, <2>1
<1>4. \A k \in 0..Len(log) :
        Found(query)[k] = IF k = 0 THEN <<>> ELSE Step(Found(query)[k - 1], k)
  <2> HIDE DEF Step
  <2> QED BY <1>3
<1> QED BY <1>4 DEF Finds

GraphEdge == [to : Nat, target : Nat \ {0}, resolved : BOOLEAN]
GraphRow == [commit : Nat, lane : Nat, edges : Seq(GraphEdge), passthrough : SUBSET Nat]
Slot == [hash : Nat, waiters : SUBSET (Nat \X Nat)]

\* An edge, the row it begins at, and its number there.
Line == [row : Nat, index : Nat, to : Nat, target : Nat \ {0}]

\* Edge e of row i leads to a commit.
Leads(lines, i, e, hash) == \E x \in lines : x.row = i /\ x.index = e /\ x.target = hash

\* Lanes await different commits that have not come; each for the edges that lead to its
\* commit, one of which is in that lane; and each edge is in the lane that awaits its
\* commit, unless that has come.
Awaits(open, lines, came) ==
  /\ \A l, m \in DOMAIN open : open[l].hash # 0 /\ open[l].hash = open[m].hash => l = m
  /\ \A l \in DOMAIN open : open[l].hash \notin came
  /\ \A l \in DOMAIN open : open[l].hash # 0 =>
       /\ \A i, e \in Nat :
            <<i, e>> \in open[l].waiters <=> Leads(lines, i, e, open[l].hash)
       /\ \E x \in lines : x.to = l /\ x.target = open[l].hash
  /\ \A x \in lines : \/ x.target \in came
                      \/ x.to \in DOMAIN open /\ open[x.to].hash = x.target

LEMMA AwaitingTells ==
  ASSUME NEW open \in Seq(Slot), NEW hash
  PROVE  /\ Awaiting(open, hash) = {l \in DOMAIN open : open[l].hash = hash}
         /\ Awaiting(open, hash) # {} => Lowest(Awaiting(open, hash)) \in Awaiting(open, hash)
         /\ DOMAIN open = 1..Len(open) /\ Len(open) \in Nat
<1>1. DOMAIN open = 1..Len(open) /\ Len(open) \in Nat
  OBVIOUS
<1>2. PICK lanes : lanes = Awaiting(open, hash)
  OBVIOUS
<1>3. ASSUME lanes # {} PROVE Lowest(lanes) \in lanes
  <2>1. lanes \subseteq Nat
    BY <1>1, <1>2 DEF Awaiting
  <2>2. \E x \in lanes : \A y \in lanes : x <= y
    BY <1>3, <2>1, LeastNumber
  <2> QED BY <2>2 DEF Lowest
<1> QED BY <1>1, <1>2, <1>3 DEF Awaiting

LEMMA AllocateTells ==
  ASSUME NEW open \in Seq(Slot)
  PROVE  LET lane == AllocateLane(open)
         IN  lane \in 1..Len(open) + 1 /\ (lane \in DOMAIN open => open[lane].hash = 0)
<1>1. CASE Awaiting(open, 0) = {}
  BY <1>1, AwaitingTells DEF AllocateLane
<1>2. CASE Awaiting(open, 0) # {}
  <2>1. AllocateLane(open) \in Awaiting(open, 0)
    BY <1>2, AwaitingTells DEF AllocateLane
  <2> QED BY <2>1, AwaitingTells
<1> QED BY <1>1, <1>2

LaneSet(set, open, lane, slot) ==
  /\ set \in Seq(Slot) /\ DOMAIN set = DOMAIN open \cup {lane} /\ set[lane] = slot
  /\ \A l \in DOMAIN open : l # lane => set[l] = open[l]

LEMMA SetLaneTells ==
  ASSUME NEW open \in Seq(Slot), NEW lane \in 1..Len(open) + 1, NEW slot \in Slot
  PROVE  LaneSet(SetLane(open, lane, slot), open, lane, slot)
<1> USE DEF LaneSet
<1>1. CASE lane \in DOMAIN open
  <2>1. SetLane(open, lane, slot) = [open EXCEPT ![lane] = slot]
    BY <1>1 DEF SetLane
  <2>2. [open EXCEPT ![lane] = slot] \in Seq(Slot)
    BY <1>1
  <2> QED BY <1>1, <2>1, <2>2
<1>2. CASE lane \notin DOMAIN open
  <2>1. SetLane(open, lane, slot) = Append(open, slot) /\ lane = Len(open) + 1
    BY <1>2 DEF SetLane
  <2> QED BY <2>1
<1> QED BY <1>1, <1>2

\* An edge of the commit in `lane' to a parent that has not come.
LEMMA AddEdgeAwaits ==
  ASSUME NEW layout, layout.open \in Seq(Slot), layout.edges \in Seq(GraphEdge),
         NEW lines \in SUBSET Line, NEW came, Awaits(layout.open, lines, came),
         NEW parent \in Nat \ {0}, parent \notin came, NEW row \in Nat, NEW lane \in Nat,
         layout.edges = <<>> => lane \in DOMAIN layout.open /\ layout.open[lane].hash = 0,
         0 \notin came
  PROVE  LET new == AddEdge(layout, parent, row, lane)
         IN  \E to \in Nat :
               /\ new.edges = Append(layout.edges, [to |-> to, target |-> parent, resolved |-> FALSE])
               /\ new.open \in Seq(Slot)
               /\ Awaits(new.open, lines \cup {[row |-> row, index |-> Len(layout.edges) + 1,
                                              to |-> to, target |-> parent]}, came)
<1> DEFINE index == Len(layout.edges) + 1
           known == Awaiting(layout.open, parent)
           to == IF known # {} THEN Lowest(known)
                 ELSE IF index = 1 THEN lane ELSE AllocateLane(layout.open)
           waiting == IF known # {} THEN layout.open[to].waiters ELSE {}
           slot == [hash |-> parent, waiters |-> waiting \cup {<<row, index>>}]
           open == layout.open
           open2 == SetLane(open, to, slot)
           line == [row |-> row, index |-> index, to |-> to, target |-> parent]
<1>0. open \in Seq(Slot)
  OBVIOUS
<1>1. index \in Nat /\ (index = 1 => layout.edges = <<>>)
  OBVIOUS
<1>2. known = {l \in DOMAIN open : open[l].hash = parent} /\ DOMAIN open = 1..Len(open) /\ Len(open) \in Nat
  BY AwaitingTells
<1>3. known # {} => to \in known
  BY AwaitingTells
<1>4. to \in 1..Len(open) + 1 /\ (known = {} /\ to \in DOMAIN open => open[to].hash = 0)
  <2>1. CASE known # {}
    BY <1>2, <1>3, <2>1
  <2>2. CASE known = {} /\ index = 1
    BY <1>1, <1>2, <2>2
  <2>3. CASE known = {} /\ index # 1
    BY <1>2, <2>3, AllocateTells
  <2> QED BY <2>1, <2>2, <2>3
<1>5. slot \in Slot
  <2>1. known # {} => open[to] \in Slot
    <3> HIDE DEF open, to, known
    <3> QED BY <1>0, <1>2, <1>3
  <2>2. waiting \subseteq Nat \X Nat
    BY <2>1 DEF Slot
  <2>3. waiting \cup {<<row, index>>} \subseteq Nat \X Nat
    BY <1>1, <2>2
  <2> HIDE DEF waiting, index
  <2> QED BY <2>3 DEF Slot
<1>6. AddEdge(layout, parent, row, lane) =
        [open |-> open2, edges |-> Append(layout.edges, [to |-> to, target |-> parent, resolved |-> FALSE])]
  BY DEF AddEdge
<1>7. /\ slot.hash = parent
      /\ slot.waiters = (IF known # {} THEN open[to].waiters ELSE {}) \cup {<<row, index>>}
      /\ line.row = row /\ line.index = index /\ line.to = to /\ line.target = parent
  OBVIOUS
<1> HIDE DEF index, known, to, waiting, slot, line
<1>8. /\ open2 \in Seq(Slot) /\ DOMAIN open2 = DOMAIN open \cup {to} /\ open2[to] = slot
      /\ \A l \in DOMAIN open : l # to => open2[l] = open[l]
  <2>1. PICK o, t, sl : o = open /\ t = to /\ sl = slot
    OBVIOUS
  <2>2. o \in Seq(Slot) /\ t \in 1..Len(o) + 1 /\ sl \in Slot
    BY <1>0, <1>4, <1>5, <2>1
  <2>3. open2 = SetLane(o, t, sl)
    BY <2>1
  <2> HIDE DEF open2
  <2>4. /\ open2 \in Seq(Slot) /\ DOMAIN open2 = DOMAIN o \cup {t} /\ open2[t] = sl
        /\ \A l \in DOMAIN o : l # t => open2[l] = o[l]
    <3>1. LaneSet(SetLane(o, t, sl), o, t, sl)
      BY <2>2, SetLaneTells, Zenon
    <3> QED BY <2>3, <3>1 DEF LaneSet
  <2> QED BY <2>1, <2>4
<1> HIDE DEF open2
<1> DEFINE lines2 == lines \cup {line}
<1>9. /\ \A l, m \in DOMAIN open : open[l].hash # 0 /\ open[l].hash = open[m].hash => l = m
      /\ \A l \in DOMAIN open : open[l].hash \notin came
      /\ \A l \in DOMAIN open : open[l].hash # 0 =>
            /\ \A i, e \in Nat :
                 <<i, e>> \in open[l].waiters <=> Leads(lines, i, e, open[l].hash)
            /\ \E x \in lines : x.to = l /\ x.target = open[l].hash
      /\ \A x \in lines : \/ x.target \in came
                          \/ x.to \in DOMAIN open /\ open[x.to].hash = x.target
  BY DEF Awaits
<1> HIDE DEF open
\* A lane that awaits something keeps what it awaits.
<1>10. \A l \in DOMAIN open : open[l].hash # 0 => open2[l].hash = open[l].hash
  BY <1>2, <1>3, <1>4, <1>7, <1>8
<1>11. \A l, m \in DOMAIN open2 : open2[l].hash # 0 /\ open2[l].hash = open2[m].hash => l = m
  BY <1>2, <1>3, <1>7, <1>8, <1>9
<1>12. \A l \in DOMAIN open2 : open2[l].hash \notin came
  BY <1>7, <1>8, <1>9
<1>13. ASSUME NEW x \in lines2
       PROVE  x.target \in came \/ (x.to \in DOMAIN open2 /\ open2[x.to].hash = x.target)
  <2>1. CASE x = line
    BY <1>7, <1>8, <2>1
  <2>2. CASE x \in lines /\ x.target \notin came
    <3>1. x.to \in DOMAIN open /\ open[x.to].hash = x.target
      BY <1>9, <2>2
    <3>2. x.target # 0
      BY <2>2 DEF Line
    <3> QED BY <1>8, <1>10, <3>1, <3>2
  <2> QED BY <2>1, <2>2
<1>14. ASSUME NEW l \in DOMAIN open2, open2[l].hash # 0, l # to
       PROVE  /\ \A i, e \in Nat :
                   <<i, e>> \in open2[l].waiters <=> Leads(lines2, i, e, open2[l].hash)
              /\ \E x \in lines2 : x.to = l /\ x.target = open2[l].hash
  <2>1. l \in DOMAIN open /\ open2[l] = open[l]
    BY <1>8, <1>14
  <2>2. open[l].hash # parent
    BY <1>2, <1>3, <1>4, <1>9, <1>14, <2>1
  <2>3. \A x \in lines2 : x.target = open[l].hash => x \in lines
    BY <1>7, <2>2
  <2>4. \A i, e : Leads(lines2, i, e, open[l].hash) <=> Leads(lines, i, e, open[l].hash)
    BY <2>3 DEF Leads
  <2>5. /\ \A i, e \in Nat : <<i, e>> \in open[l].waiters <=> Leads(lines, i, e, open[l].hash)
        /\ \E x \in lines : x.to = l /\ x.target = open[l].hash
    <3>1. open[l].hash # 0
      BY <1>14, <2>1
    <3> QED BY <1>9, <2>1, <3>1
  <2>6. lines \subseteq lines2
    OBVIOUS
  <2> HIDE DEF lines2
  <2> QED BY <2>1, <2>4, <2>5, <2>6
<1>15. /\ \A i, e \in Nat :
            <<i, e>> \in slot.waiters <=> Leads(lines2, i, e, parent)
       /\ \E x \in lines2 : x.to = to /\ x.target = parent
  <2>1. \E x \in lines2 : x.to = to /\ x.target = parent
    BY <1>7
  <2>2. ASSUME NEW i \in Nat, NEW e \in Nat
        PROVE  Leads(lines, i, e, parent) <=>
                 known # {} /\ <<i, e>> \in open[to].waiters
    <3>1. CASE known # {}
      BY <1>2, <1>3, <1>9, <3>1
    <3>2. CASE known = {}
      <4>1. \A x \in lines : x.target # parent
        BY <1>2, <1>9, <3>2
      <4> QED BY <3>2, <4>1 DEF Leads
    <3> QED BY <3>1, <3>2
  <2>3. ASSUME NEW i \in Nat, NEW e \in Nat
        PROVE  <<i, e>> \in slot.waiters <=>
                 (known # {} /\ <<i, e>> \in open[to].waiters) \/ (i = row /\ e = index)
    BY <1>7
  <2>4. \A i, e : Leads(lines2, i, e, parent) <=>
                    Leads(lines, i, e, parent) \/ (i = row /\ e = index)
    BY <1>7 DEF Leads
  <2> QED BY <2>1, <2>2, <2>3, <2>4
<1>16. Awaits(open2, lines2, came)
  <2>1. ASSUME NEW l \in DOMAIN open2, open2[l].hash # 0
        PROVE  /\ \A i, e \in Nat :
                    <<i, e>> \in open2[l].waiters <=> Leads(lines2, i, e, open2[l].hash)
               /\ \E x \in lines2 : x.to = l /\ x.target = open2[l].hash
    <3>1. CASE l = to
      <4>1. open2[l].waiters = slot.waiters /\ open2[l].hash = parent
        BY <1>7, <1>8, <3>1
      <4> HIDE DEF lines2
      <4> QED BY <1>15, <3>1, <4>1
    <3> QED BY <1>14, <2>1, <3>1
  <2> QED BY <1>11, <1>12, <1>13, <2>1 DEF Awaits
<1>17. to \in Nat
  BY <1>2, <1>4
<1>18. lines2 = lines \cup {[row |-> row, index |-> Len(layout.edges) + 1, to |-> to, target |-> parent]}
  BY DEF line, index
<1> DEFINE new == AddEdge(layout, parent, row, lane)
<1>19. /\ new.edges = Append(layout.edges, [to |-> to, target |-> parent, resolved |-> FALSE])
       /\ new.open = open2
  BY <1>6
<1> HIDE DEF lines2, new
<1>20. /\ new.open \in Seq(Slot) /\ Awaits(new.open, lines2, came)
  BY <1>8, <1>16, <1>19
<1> QED BY <1>17, <1>18, <1>19, <1>20 DEF new

\* A commit that comes takes the lane that awaits it, or a free one.
MayTakeLane(open, hash, lane) ==
  /\ lane \in 1..Len(open) + 1
  /\ Awaiting(open, hash) # {} => lane \in Awaiting(open, hash)
  /\ Awaiting(open, hash) = {} /\ lane \in DOMAIN open => open[lane].hash = 0
Passes(passed, freed) == \A l : l \in passed <=> l \in DOMAIN freed /\ freed[l].hash # 0
LaneTaken(open, lines, came, hash, lane, freed, passed) ==
  /\ lane \in Nat /\ lane \in DOMAIN freed /\ freed[lane].hash = 0
  /\ Awaits(freed, lines, came \cup {hash})
  /\ \A x \in lines : x.target = hash => x.to = lane
  /\ Awaiting(open, hash) = {} => \A x \in lines : x.target # hash
  /\ Awaiting(open, hash) # {} =>
       \A i, e \in Nat : <<i, e>> \in open[lane].waiters <=> Leads(lines, i, e, hash)
  /\ passed \in SUBSET Nat
  /\ \A x \in lines : x.target \notin came \cup {hash} => x.to \in passed
  /\ \A l \in passed : \E x \in lines : x.to = l /\ x.target \notin came \cup {hash}

LEMMA TakesLane ==
  ASSUME NEW open \in Seq(Slot), NEW lines \in SUBSET Line, NEW came, 0 \notin came,
         Awaits(open, lines, came), NEW hash \in Nat \ {0}, hash \notin came,
         NEW lane, MayTakeLane(open, hash, lane),
         NEW freed, LaneSet(freed, open, lane, Free), NEW passed, Passes(passed, freed)
  PROVE  LaneTaken(open, lines, came, hash, lane, freed, passed)
<1> USE DEF MayTakeLane, LaneSet, Passes
<1>1. /\ Awaiting(open, hash) = {l \in DOMAIN open : open[l].hash = hash}
      /\ DOMAIN open = 1..Len(open) /\ Len(open) \in Nat
  BY AwaitingTells
<1>2. Awaiting(open, hash) # {} => lane \in DOMAIN open /\ open[lane].hash = hash
  BY <1>1
<1>3. Free \in Slot /\ Free.hash = 0
  BY DEF Free, Slot
<1>4. /\ freed \in Seq(Slot) /\ DOMAIN freed = DOMAIN open \cup {lane} /\ freed[lane] = Free
      /\ \A l \in DOMAIN open : l # lane => freed[l] = open[l]
  OBVIOUS
<1>5. /\ \A l, m \in DOMAIN open : open[l].hash # 0 /\ open[l].hash = open[m].hash => l = m
      /\ \A l \in DOMAIN open : open[l].hash \notin came
      /\ \A l \in DOMAIN open : open[l].hash # 0 =>
            /\ \A i, e \in Nat :
                 <<i, e>> \in open[l].waiters <=> Leads(lines, i, e, open[l].hash)
            /\ \E x \in lines : x.to = l /\ x.target = open[l].hash
      /\ \A x \in lines : \/ x.target \in came
                          \/ x.to \in DOMAIN open /\ open[x.to].hash = x.target
  BY DEF Awaits
<1>6. \A x \in lines : x.target # 0
  BY DEF Line
<1>7. \A l \in DOMAIN freed : freed[l].hash # 0 => l # lane /\ l \in DOMAIN open /\ freed[l] = open[l]
  BY <1>3, <1>4
<1>8. \A l \in DOMAIN open : l # lane => open[l].hash # hash
  BY <1>1, <1>2, <1>5
<1>9. \A x \in lines : x.target = hash => Awaiting(open, hash) # {} /\ x.to = lane
  BY <1>1, <1>2, <1>5
<1>10. ASSUME Awaiting(open, hash) # {}
       PROVE  \A i, e \in Nat : <<i, e>> \in open[lane].waiters <=> Leads(lines, i, e, hash)
  <2>1. lane \in DOMAIN open /\ open[lane].hash = hash
    BY <1>2, <1>10
  <2> QED BY <1>5, <2>1
<1>11. \A x \in lines :
         x.target \notin came \cup {hash} => x.to \in DOMAIN freed /\ freed[x.to].hash = x.target
  BY <1>2, <1>4, <1>5, <1>6
<1>12. Awaits(freed, lines, came \cup {hash})
  <2>1. \A l, m \in DOMAIN freed : freed[l].hash # 0 /\ freed[l].hash = freed[m].hash => l = m
    BY <1>5, <1>7
  <2>2. \A l \in DOMAIN freed : freed[l].hash \notin came \cup {hash}
    BY <1>3, <1>4, <1>5, <1>7, <1>8
  <2>3. ASSUME NEW l \in DOMAIN freed, freed[l].hash # 0
        PROVE  /\ \A i, e \in Nat :
                    <<i, e>> \in freed[l].waiters <=> Leads(lines, i, e, freed[l].hash)
               /\ \E x \in lines : x.to = l /\ x.target = freed[l].hash
    BY <1>5, <1>7, <2>3
  <2> QED BY <1>11, <2>1, <2>2, <2>3 DEF Awaits
<1>14. \A x \in lines : x.target \notin came \cup {hash} => x.to \in passed
  BY <1>6, <1>11
<1>15. \A l \in passed : \E x \in lines : x.to = l /\ x.target \notin came \cup {hash}
  BY <1>5, <1>7, <1>8
<1>16. passed \in SUBSET Nat /\ lane \in Nat
  BY <1>1, <1>2, <1>4
<1> QED BY <1>3, <1>4, <1>9, <1>10, <1>12, <1>14, <1>15, <1>16 DEF LaneTaken

\* The edges of one row, and of all.
LinesFrom(row, edges) ==
  {x \in Line : /\ x.row = row /\ x.index \in DOMAIN edges
                /\ x.to = edges[x.index].to /\ x.target = edges[x.index].target}
GraphLines(rows) == UNION {LinesFrom(i, rows[i].edges) : i \in DOMAIN rows}

LineOf(row, index, edge) == [row |-> row, index |-> index, to |-> edge.to, target |-> edge.target]

AddsLine(after, before, line) == after = before \cup {line}

LEMMA LinesFromAppended ==
  ASSUME NEW row \in Nat, NEW edges \in Seq(GraphEdge), NEW edge \in GraphEdge
  PROVE  AddsLine(LinesFrom(row, Append(edges, edge)), LinesFrom(row, edges),
                  LineOf(row, Len(edges) + 1, edge))
<1> DEFINE more == Append(edges, edge)
           line == LineOf(row, Len(edges) + 1, edge)
           index == Len(edges) + 1
<1>1. /\ DOMAIN more = DOMAIN edges \cup {index} /\ more[index] = edge /\ index \notin DOMAIN edges
      /\ \A e \in DOMAIN edges : more[e] = edges[e]
      /\ index \in Nat
  OBVIOUS
<1>2. line \in Line /\ line.row = row /\ line.index = index /\ line.to = edge.to /\ line.target = edge.target
  BY <1>1 DEF Line, LineOf, GraphEdge
<1>3. ASSUME NEW x \in Line, x.row = row, x.index = index, x.to = edge.to, x.target = edge.target
      PROVE  x = line
  BY <1>3 DEF Line, LineOf
<1> HIDE DEF more, index, line
<1>4. ASSUME NEW x \in LinesFrom(row, more) PROVE x \in LinesFrom(row, edges) \cup {line}
  <2>1. /\ x \in Line /\ x.row = row /\ x.index \in DOMAIN more
        /\ x.to = more[x.index].to /\ x.target = more[x.index].target
    BY <1>4 DEF LinesFrom
  <2>2. CASE x.index = index
    BY <1>1, <1>3, <2>1, <2>2
  <2>3. CASE x.index # index
    BY <1>1, <2>1, <2>3 DEF LinesFrom
  <2> QED BY <2>2, <2>3
<1>5. ASSUME NEW x \in LinesFrom(row, edges) PROVE x \in LinesFrom(row, more)
  BY <1>1, <1>5 DEF LinesFrom
<1>6. line \in LinesFrom(row, more)
  BY <1>1, <1>2 DEF LinesFrom
<1> QED BY <1>4, <1>5, <1>6 DEF more, line, AddsLine

\* The edges of a commit, whose parents have not come.
NotCome(parents, came) == \A k \in DOMAIN parents : parents[k] \notin came
EdgesDrawn(layout, lines, came, parents, row) ==
  /\ layout.edges \in Seq(GraphEdge) /\ Len(layout.edges) = Len(parents)
  /\ \A e \in DOMAIN parents :
       layout.edges[e].target = parents[e] /\ ~ layout.edges[e].resolved
  /\ layout.open \in Seq(Slot)
  /\ Awaits(layout.open, lines \cup LinesFrom(row, layout.edges), came)

LEMMA AddEdgesAwait ==
  ASSUME NEW open \in Seq(Slot), NEW lines \in SUBSET Line, NEW came, 0 \notin came,
         Awaits(open, lines, came), NEW parents \in Seq(Nat \ {0}), NotCome(parents, came),
         NEW row \in Nat, NEW lane \in Nat, lane \in DOMAIN open, open[lane].hash = 0
  PROVE  EdgesDrawn(AddEdges(open, parents, row, lane)[Len(parents)], lines, came, parents, row)
<1> USE DEF NotCome
<1> DEFINE added == AddEdges(open, parents, row, lane)
           Good(k) ==
             /\ added[k].edges \in Seq(GraphEdge) /\ Len(added[k].edges) = k
             /\ \A e \in 1..k : added[k].edges[e].target = parents[e] /\ ~ added[k].edges[e].resolved
             /\ added[k].open \in Seq(Slot)
             /\ Awaits(added[k].open, lines \cup LinesFrom(row, added[k].edges), came)
             /\ k = 0 => added[k].open = open
           Bad == {k \in 0..Len(parents) : ~ Good(k)}
<1>1. Len(parents) \in Nat /\ DOMAIN parents = 1..Len(parents)
  OBVIOUS
<1>2. AddsEdges(added, open, parents, row, lane)
  BY <1>1, AddEdgesUnfolds, Zenon
<1>3. /\ added[0] = [open |-> open, edges |-> <<>>]
      /\ \A k \in 1..Len(parents) : added[k] = AddEdge(added[k - 1], parents[k], row, lane)
  <2> HIDE DEF added
  <2> QED BY <1>2 DEF AddsEdges
<1> HIDE DEF added
<1>4. Good(0)
  <2>1. added[0].edges = <<>> /\ added[0].open = open
    BY <1>3
  <2>2. <<>> \in Seq(GraphEdge) /\ Len(<<>>) = 0 /\ DOMAIN <<>> = {}
    OBVIOUS
  <2>3. LinesFrom(row, <<>>) = {}
    BY <2>2 DEF LinesFrom
  <2>4. lines \cup LinesFrom(row, <<>>) = lines
    BY <2>3
  <2>5. \A e \in 1..0 : FALSE
    OBVIOUS
  <2>6. Awaits(open, lines \cup LinesFrom(row, <<>>), came)
    BY <2>4
  <2> QED BY <2>1, <2>2, <2>5, <2>6
<1>5. ASSUME NEW k \in 1..Len(parents), Good(k - 1) PROVE Good(k)
  <2> DEFINE before == added[k - 1]
             drawn == lines \cup LinesFrom(row, before.edges)
  <2>1. /\ before.edges \in Seq(GraphEdge) /\ Len(before.edges) = k - 1
        /\ \A e \in 1..k - 1 : before.edges[e].target = parents[e] /\ ~ before.edges[e].resolved
        /\ before.open \in Seq(Slot) /\ Awaits(before.open, drawn, came)
        /\ k - 1 = 0 => before.open = open
    BY <1>5
  <2>2. parents[k] \in Nat \ {0} /\ parents[k] \notin came
    BY <1>1
  <2>3. before.edges = <<>> => lane \in DOMAIN before.open /\ before.open[lane].hash = 0
    BY <2>1
  <2>4. drawn \in SUBSET Line
    BY DEF LinesFrom
  <2> HIDE DEF before, drawn
  <2>5. PICK to \in Nat :
          LET new == AddEdge(before, parents[k], row, lane)
          IN  /\ new.edges = Append(before.edges, [to |-> to, target |-> parents[k], resolved |-> FALSE])
              /\ new.open \in Seq(Slot)
              /\ Awaits(new.open, drawn \cup {[row |-> row, index |-> Len(before.edges) + 1,
                                              to |-> to, target |-> parents[k]]}, came)
    BY <2>1, <2>2, <2>3, <2>4, AddEdgeAwaits
  <2> DEFINE edge == [to |-> to, target |-> parents[k], resolved |-> FALSE]
             line == [row |-> row, index |-> Len(before.edges) + 1, to |-> to, target |-> parents[k]]
  <2>6. /\ added[k].edges = Append(before.edges, edge) /\ added[k].open \in Seq(Slot)
        /\ Awaits(added[k].open, drawn \cup {line}, came)
    <3>1. added[k] = AddEdge(before, parents[k], row, lane)
      BY <1>3 DEF before
    <3> QED BY <2>5, <3>1
  <2>7. edge \in GraphEdge /\ edge.to = to /\ edge.target = parents[k] /\ ~ edge.resolved
    BY <2>2 DEF GraphEdge
  <2> HIDE DEF edge
  <2>8. LinesFrom(row, added[k].edges) = LinesFrom(row, before.edges) \cup {line}
    <3>1. PICK es, ed : es = before.edges /\ ed = edge
      OBVIOUS
    <3>2. es \in Seq(GraphEdge) /\ ed \in GraphEdge /\ ed.target # 0
      BY <2>1, <2>2, <2>7, <3>1
    <3>3. line = LineOf(row, Len(es) + 1, ed)
      BY <2>7, <3>1 DEF LineOf
    <3>4. AddsLine(LinesFrom(row, Append(es, ed)), LinesFrom(row, es), LineOf(row, Len(es) + 1, ed))
      BY <3>2, LinesFromAppended, Zenon
    <3> HIDE DEF line
    <3> QED BY <2>6, <3>1, <3>3, <3>4 DEF AddsLine
  <2>9. drawn \cup {line} = lines \cup LinesFrom(row, added[k].edges)
    BY <2>8 DEF drawn
  <2> HIDE DEF line
  <2>10. /\ Append(before.edges, edge) \in Seq(GraphEdge) /\ Len(Append(before.edges, edge)) = k
         /\ Append(before.edges, edge)[k] = edge
         /\ \A e \in 1..k - 1 : Append(before.edges, edge)[e] = before.edges[e]
    BY <1>1, <2>1, <2>7
  <2>11. \A e \in 1..k : added[k].edges[e].target = parents[e] /\ ~ added[k].edges[e].resolved
    BY <1>1, <2>1, <2>6, <2>7, <2>10
  <2>12. Awaits(added[k].open, lines \cup LinesFrom(row, added[k].edges), came)
    BY <2>6, <2>9
  <2>13. k # 0
    BY <1>1
  <2> QED BY <2>6, <2>10, <2>11, <2>12, <2>13
<1>6. Bad = {}
  <2>1. SUFFICES ASSUME Bad # {} PROVE FALSE
    OBVIOUS
  <2> HIDE DEF Good
  <2>2. PICK k \in Bad : \A other \in Bad : k <= other
    <3>1. Bad \subseteq Nat
      BY <1>1
    <3> HIDE DEF Bad
    <3> QED BY <2>1, <3>1, LeastNumber
  <2>3. k \in 1..Len(parents) /\ k - 1 \in 0..Len(parents)
    BY <1>1, <1>4, <2>2
  <2>4. Good(k - 1)
    BY <1>1, <2>2, <2>3
  <2> QED BY <1>5, <2>2, <2>3, <2>4
<1>7. Good(Len(parents))
  <2> HIDE DEF Good
  <2> QED BY <1>1, <1>6
<1> QED BY <1>1, <1>7 DEF added, EdgesDrawn

LEMMA GraphLinesTell ==
  ASSUME NEW rows \in Seq(GraphRow)
  PROVE  /\ GraphLines(rows) \in SUBSET Line
         /\ \A i \in DOMAIN rows : \A e \in DOMAIN rows[i].edges :
              [row |-> i, index |-> e, to |-> rows[i].edges[e].to,
               target |-> rows[i].edges[e].target] \in GraphLines(rows)
         /\ \A x \in GraphLines(rows) :
              /\ x.row \in DOMAIN rows /\ x.index \in DOMAIN rows[x.row].edges
              /\ x.to = rows[x.row].edges[x.index].to
              /\ x.target = rows[x.row].edges[x.index].target
<1>1. ASSUME NEW i \in DOMAIN rows, NEW e \in DOMAIN rows[i].edges
      PROVE  [row |-> i, index |-> e, to |-> rows[i].edges[e].to,
              target |-> rows[i].edges[e].target] \in LinesFrom(i, rows[i].edges)
  <2>1. rows[i].edges \in Seq(GraphEdge) /\ i \in Nat
    <3>1. rows[i] \in GraphRow /\ i \in Nat
      OBVIOUS
    <3> QED BY <3>1 DEF GraphRow
  <2>2. rows[i].edges[e] \in GraphEdge /\ e \in Nat
    BY <2>1
  <2>3. rows[i].edges[e].to \in Nat /\ rows[i].edges[e].target \in Nat \ {0}
    BY <2>2 DEF GraphEdge
  <2> QED BY <2>1, <2>2, <2>3 DEF LinesFrom, Line
<1>2. \A i \in DOMAIN rows : LinesFrom(i, rows[i].edges) \subseteq GraphLines(rows)
  BY DEF GraphLines
<1>3. ASSUME NEW x \in GraphLines(rows)
      PROVE  \E i \in DOMAIN rows : x \in LinesFrom(i, rows[i].edges)
  BY DEF GraphLines
<1>4. \A i : \A x \in LinesFrom(i, rows[i].edges) :
        /\ x \in Line /\ x.row = i /\ x.index \in DOMAIN rows[i].edges
        /\ x.to = rows[i].edges[x.index].to /\ x.target = rows[i].edges[x.index].target
  BY DEF LinesFrom
<1>5. \A i \in DOMAIN rows : \A e \in DOMAIN rows[i].edges :
        [row |-> i, index |-> e, to |-> rows[i].edges[e].to,
         target |-> rows[i].edges[e].target] \in GraphLines(rows)
  BY <1>1, <1>2
<1>6. GraphLines(rows) \in SUBSET Line
  BY <1>3, <1>4
<1>7. ASSUME NEW x \in GraphLines(rows)
      PROVE  /\ x.row \in DOMAIN rows /\ x.index \in DOMAIN rows[x.row].edges
             /\ x.to = rows[x.row].edges[x.index].to
             /\ x.target = rows[x.row].edges[x.index].target
  <2>1. PICK i \in DOMAIN rows : x \in LinesFrom(i, rows[i].edges)
    BY <1>3
  <2>2. /\ x.row = i /\ x.index \in DOMAIN rows[i].edges
        /\ x.to = rows[i].edges[x.index].to /\ x.target = rows[i].edges[x.index].target
    BY <1>4, <2>1
  <2> QED BY <2>2
<1> HIDE DEF GraphLines
<1> QED BY <1>5, <1>6, <1>7, Zenon

\* Lines depend on where edges lead only.
SameEdges(rows, other) ==
  /\ DOMAIN rows = DOMAIN other
  /\ \A i \in DOMAIN rows :
       /\ DOMAIN rows[i].edges = DOMAIN other[i].edges
       /\ \A e \in DOMAIN rows[i].edges : /\ rows[i].edges[e].to = other[i].edges[e].to
                                          /\ rows[i].edges[e].target = other[i].edges[e].target

LEMMA SameLines ==
  ASSUME NEW rows, NEW other, SameEdges(rows, other)
  PROVE  GraphLines(rows) = GraphLines(other)
<1> USE DEF SameEdges
<1>1. ASSUME NEW i \in DOMAIN rows
      PROVE  LinesFrom(i, rows[i].edges) = LinesFrom(i, other[i].edges)
  BY DEF LinesFrom
<1> QED BY <1>1 DEF GraphLines

LEMMA GraphLinesAppended ==
  ASSUME NEW rows \in Seq(GraphRow), NEW row \in GraphRow
  PROVE  GraphLines(Append(rows, row)) = GraphLines(rows) \cup LinesFrom(Len(rows) + 1, row.edges)
<1> DEFINE more == Append(rows, row)
<1>1. /\ DOMAIN more = DOMAIN rows \cup {Len(rows) + 1} /\ more[Len(rows) + 1] = row
      /\ \A i \in DOMAIN rows : more[i] = rows[i]
  OBVIOUS
<1> HIDE DEF more
<1>2. ASSUME NEW x
      PROVE  x \in GraphLines(more) <=>
               x \in GraphLines(rows) \/ x \in LinesFrom(Len(rows) + 1, row.edges)
  <2>1. x \in GraphLines(more) <=> \E i \in DOMAIN more : x \in LinesFrom(i, more[i].edges)
    BY DEF GraphLines
  <2>2. x \in GraphLines(rows) <=> \E i \in DOMAIN rows : x \in LinesFrom(i, rows[i].edges)
    BY DEF GraphLines
  <2> QED BY <1>1, <2>1, <2>2
<1> QED BY <1>2 DEF more

\* Resolving changes nothing else.
Resolved(resolved, rows, waiters) ==
  /\ resolved \in Seq(GraphRow) /\ Len(resolved) = Len(rows) /\ DOMAIN resolved = DOMAIN rows
  /\ \A i \in DOMAIN rows :
       /\ resolved[i].commit = rows[i].commit /\ resolved[i].lane = rows[i].lane
       /\ resolved[i].passthrough = rows[i].passthrough
       /\ Len(resolved[i].edges) = Len(rows[i].edges)
       /\ DOMAIN resolved[i].edges = DOMAIN rows[i].edges
       /\ \A e \in DOMAIN rows[i].edges :
            /\ resolved[i].edges[e].to = rows[i].edges[e].to
            /\ resolved[i].edges[e].target = rows[i].edges[e].target
            /\ resolved[i].edges[e].resolved <=>
                 rows[i].edges[e].resolved \/ <<i, e>> \in waiters

LEMMA ResolveEdgesTells ==
  ASSUME NEW rows \in Seq(GraphRow), NEW waiters
  PROVE  Resolved(ResolveEdges(rows, waiters), rows, waiters)
<1> DEFINE resolved == ResolveEdges(rows, waiters)
<1>1. /\ DOMAIN resolved = DOMAIN rows
      /\ \A i \in DOMAIN rows : resolved[i] =
           [rows[i] EXCEPT !.edges =
             [e \in DOMAIN rows[i].edges |->
                [rows[i].edges[e] EXCEPT !.resolved = @ \/ <<i, e>> \in waiters]]]
  <2>1. DOMAIN resolved = DOMAIN rows
    BY DEF ResolveEdges
  <2>2. ASSUME NEW i \in DOMAIN rows
        PROVE  resolved[i] =
                 [rows[i] EXCEPT !.edges =
                   [e \in DOMAIN rows[i].edges |->
                      [rows[i].edges[e] EXCEPT !.resolved = @ \/ <<i, e>> \in waiters]]]
    BY DEF ResolveEdges
  <2> QED BY <2>1, <2>2
<1>2. ASSUME NEW i \in DOMAIN rows
      PROVE  /\ resolved[i] \in GraphRow
             /\ resolved[i].commit = rows[i].commit /\ resolved[i].lane = rows[i].lane
             /\ resolved[i].passthrough = rows[i].passthrough
             /\ Len(resolved[i].edges) = Len(rows[i].edges)
             /\ DOMAIN resolved[i].edges = DOMAIN rows[i].edges
             /\ \A e \in DOMAIN rows[i].edges :
                  /\ resolved[i].edges[e].to = rows[i].edges[e].to
                  /\ resolved[i].edges[e].target = rows[i].edges[e].target
                  /\ resolved[i].edges[e].resolved <=>
                       rows[i].edges[e].resolved \/ <<i, e>> \in waiters
  <2> DEFINE edges == rows[i].edges
             new(e) == [edges[e] EXCEPT !.resolved = @ \/ <<i, e>> \in waiters]
             edges2 == [e \in DOMAIN edges |-> new(e)]
  <2>1. rows[i] \in GraphRow
    OBVIOUS
  <2>2. edges \in Seq(GraphEdge)
    BY <2>1 DEF GraphRow
  <2>3. DOMAIN edges = 1..Len(edges) /\ Len(edges) \in Nat /\ \A e \in DOMAIN edges : edges[e] \in GraphEdge
    BY <2>2
  <2>4. resolved[i] = [rows[i] EXCEPT !.edges = edges2]
    BY <1>1
  <2>5. ASSUME NEW e \in DOMAIN edges
        PROVE  /\ new(e) \in GraphEdge /\ new(e).to = edges[e].to /\ new(e).target = edges[e].target
               /\ new(e).resolved <=> edges[e].resolved \/ <<i, e>> \in waiters
    BY <2>3 DEF GraphEdge
  <2> HIDE DEF new, edges
  <2>6. edges2 \in Seq(GraphEdge) /\ Len(edges2) = Len(edges) /\ DOMAIN edges2 = DOMAIN edges
    <3>1. \A e \in 1..Len(edges) : new(e) \in GraphEdge
      BY <2>3, <2>5
    <3>2. edges2 = [e \in 1..Len(edges) |-> new(e)]
      BY <2>3
    <3>3. [e \in 1..Len(edges) |-> new(e)] \in Seq(GraphEdge)
      BY <2>3, <3>1
    <3>4. DOMAIN edges2 = 1..Len(edges) /\ edges2 \in Seq(GraphEdge)
      BY <3>2, <3>3
    <3> HIDE DEF edges2
    <3> QED BY <2>3, <3>4
  <2>7. \A e \in DOMAIN edges : edges2[e] = new(e)
    OBVIOUS
  <2> HIDE DEF edges2
  <2>8. /\ resolved[i] \in GraphRow /\ resolved[i].edges = edges2
        /\ resolved[i].commit = rows[i].commit /\ resolved[i].lane = rows[i].lane
        /\ resolved[i].passthrough = rows[i].passthrough
    BY <2>1, <2>4, <2>6 DEF GraphRow
  <2>9. \A e \in DOMAIN edges :
          /\ edges2[e].to = edges[e].to /\ edges2[e].target = edges[e].target
          /\ edges2[e].resolved <=> edges[e].resolved \/ <<i, e>> \in waiters
    BY <2>5, <2>7
  <2> QED BY <2>6, <2>8, <2>9 DEF edges
<1>3. DOMAIN rows = 1..Len(rows) /\ Len(rows) \in Nat
  OBVIOUS
<1>4. resolved = [i \in 1..Len(rows) |-> resolved[i]]
  BY <1>1, <1>3 DEF ResolveEdges
<1> HIDE DEF resolved
<1>5. [i \in 1..Len(rows) |-> resolved[i]] \in Seq(GraphRow)
  BY <1>2, <1>3
<1>6. resolved \in Seq(GraphRow) /\ Len(resolved) = Len(rows)
  BY <1>1, <1>3, <1>4, <1>5
<1> QED BY <1>1, <1>2, <1>6 DEF Resolved, resolved

\* The commits of rows a to b.
Came(source, a, b) == {source[j].hash : j \in a..b}

\* Row i of n rows of `source', of which n are drawn.
LaidRow(rows, source, n, i) ==
  /\ rows[i].commit = source[i].hash /\ Len(rows[i].edges) = Len(source[i].parents)
  /\ \A e \in DOMAIN rows[i].edges :
       /\ rows[i].edges[e].target = source[i].parents[e]
       /\ rows[i].edges[e].resolved <=> rows[i].edges[e].target \in Came(source, 1, n)
       /\ \A k \in i + 1 .. n :
            /\ source[k].hash = rows[i].edges[e].target => rows[k].lane = rows[i].edges[e].to
            /\ rows[i].edges[e].target \notin Came(source, 1, k) =>
                 rows[i].edges[e].to \in rows[k].passthrough
  /\ \A lane \in rows[i].passthrough :
       \E h \in 1..i - 1 : \E e \in DOMAIN rows[h].edges :
         rows[h].edges[e].to = lane /\ rows[h].edges[e].target \notin Came(source, 1, i)

\* A graph of the first n commits of `source'.
Laid(g, source, n) ==
  /\ n \in 0..Len(source) /\ g.rows \in Seq(GraphRow) /\ Len(g.rows) = n /\ g.open \in Seq(Slot)
  /\ Awaits(g.open, GraphLines(g.rows), Came(source, 1, n))
  /\ \A i \in 1..n : LaidRow(g.rows, source, n, i)

LEMMA EmptyGraphLaid ==
  ASSUME NEW source, Len(source) \in Nat
  PROVE  Laid(EmptyGraph, source, 0)
<1>1. EmptyGraph.rows = <<>> /\ EmptyGraph.open = <<>>
  BY DEF EmptyGraph
<1>2. /\ <<>> \in Seq(GraphRow) /\ <<>> \in Seq(Slot) /\ Len(<<>>) = 0 /\ DOMAIN <<>> = {}
      /\ \A i \in 1..0 : FALSE
  OBVIOUS
<1>3. GraphLines(<<>>) = {}
  BY <1>2 DEF GraphLines
<1>4. Awaits(<<>>, {}, Came(source, 1, 0))
  BY <1>2 DEF Awaits
<1>5. 0 \in 0..Len(source)
  OBVIOUS
<1>6. PICK g : g = EmptyGraph
  OBVIOUS
<1>7. g.rows = <<>> /\ g.open = <<>>
  BY <1>1, <1>6
<1>8. Laid(g, source, 0)
  BY <1>2, <1>3, <1>4, <1>5, <1>7 DEF Laid
<1> QED BY <1>6, <1>8

Commit == [hash : Nat \ {0}, parents : Seq(Nat \ {0})]

LEMMA HistoryTells ==
  ASSUME NEW source, IsHistory(source), NEW n \in Nat, n < Len(source)
  PROVE  LET commit == source[n + 1]
         IN  /\ commit.hash \in Nat \ {0} /\ commit.parents \in Seq(Nat \ {0})
             /\ 0 \notin Came(source, 1, n) /\ commit.hash \notin Came(source, 1, n)
             /\ Came(source, 1, n + 1) = Came(source, 1, n) \cup {commit.hash}
             /\ \A k \in DOMAIN commit.parents : commit.parents[k] \notin Came(source, 1, n + 1)
<1> DEFINE commit == source[n + 1]
<1>1. /\ source \in Seq(Commit)
      /\ \A i \in DOMAIN source : \A k \in DOMAIN source[i].parents : source[i].parents[k] < source[i].hash
      /\ \A i, j \in DOMAIN source : i < j => source[j].hash < source[i].hash
  BY DEF IsHistory, Commit
<1>2. /\ DOMAIN source = 1..Len(source) /\ Len(source) \in Nat /\ n + 1 \in DOMAIN source
      /\ \A i \in DOMAIN source : source[i] \in Commit
  <2>1. source \in Seq(Commit)
    BY <1>1
  <2>2. DOMAIN source = 1..Len(source) /\ Len(source) \in Nat
    BY <2>1
  <2>3. \A i \in DOMAIN source : source[i] \in Commit
    BY <2>1
  <2>4. n + 1 \in 1..Len(source)
    BY <2>2
  <2> QED BY <2>2, <2>3, <2>4
<1>3. \A i \in DOMAIN source : source[i].hash \in Nat \ {0} /\ source[i].parents \in Seq(Nat \ {0})
  BY <1>2 DEF Commit
<1>4. \A j \in 1..n : j \in DOMAIN source /\ commit.hash < source[j].hash
  <2>1. ASSUME NEW j \in 1..n PROVE j \in DOMAIN source /\ j < n + 1
    BY <1>2
  <2> QED BY <1>1, <1>2, <2>1
<1>5. 0 \notin Came(source, 1, n) /\ commit.hash \notin Came(source, 1, n)
  BY <1>2, <1>3, <1>4 DEF Came
<1>6. Came(source, 1, n + 1) = Came(source, 1, n) \cup {commit.hash}
  <2>1. 1..n + 1 = (1..n) \cup {n + 1}
    OBVIOUS
  <2> QED BY <2>1 DEF Came
<1>7. ASSUME NEW k \in DOMAIN commit.parents
      PROVE  commit.parents[k] \notin Came(source, 1, n + 1)
  <2>1. commit.parents[k] < commit.hash /\ commit.parents[k] \in Nat
    <3>1. commit.parents \in Seq(Nat \ {0})
      BY <1>2, <1>3
    <3>2. commit.parents[k] \in Nat \ {0}
      BY <3>1
    <3> QED BY <1>1, <1>2, <3>2
  <2>2. commit.parents[k] \notin Came(source, 1, n)
    BY <1>3, <1>4, <2>1 DEF Came
  <2> QED BY <1>2, <1>3, <1>6, <2>1, <2>2
<1> QED BY <1>2, <1>3, <1>5, <1>6, <1>7

LEMMA AppendRowLays ==
  ASSUME NEW source, IsHistory(source), NEW n, n < Len(source), NEW g, Laid(g, source, n)
  PROVE  Laid(AppendRow(g, source[n + 1]), source, n + 1)
<1> DEFINE commit == source[n + 1]
           hash == commit.hash
           parents == commit.parents
           old == g.rows
           open == g.open
           lines == GraphLines(old)
           came == Came(source, 1, n)
           came2 == Came(source, 1, n + 1)
           awaiting == Awaiting(open, hash)
           lane == IF awaiting # {} THEN Lowest(awaiting) ELSE AllocateLane(open)
           freed == SetLane(open, lane, Free)
           rows == IF awaiting = {} THEN old ELSE ResolveEdges(old, open[lane].waiters)
           layout == AddEdges(freed, parents, Len(rows) + 1, lane)[Len(parents)]
           passed == DOMAIN freed \ Awaiting(freed, 0)
           row == [commit |-> hash, lane |-> lane, edges |-> layout.edges, passthrough |-> passed]
           new == AppendRow(g, commit)
<1>1. new.rows = Append(rows, row) /\ new.open = layout.open
  BY DEF AppendRow
<1>2. /\ n \in 0..Len(source) /\ old \in Seq(GraphRow) /\ Len(old) = n /\ open \in Seq(Slot)
      /\ Awaits(open, lines, came) /\ \A i \in 1..n : LaidRow(old, source, n, i)
  BY DEF Laid
<1>3. n \in Nat /\ Len(source) \in Nat
  BY <1>2 DEF IsHistory
<1>4. /\ hash \in Nat \ {0} /\ parents \in Seq(Nat \ {0}) /\ 0 \notin came /\ hash \notin came
      /\ came2 = came \cup {hash} /\ \A k \in DOMAIN parents : parents[k] \notin came2
  BY <1>3, HistoryTells
<1>5. /\ lines \in SUBSET Line
      /\ \A i \in DOMAIN old : \A e \in DOMAIN old[i].edges :
           [row |-> i, index |-> e, to |-> old[i].edges[e].to,
            target |-> old[i].edges[e].target] \in lines
      /\ \A x \in lines :
           /\ x.row \in DOMAIN old /\ x.index \in DOMAIN old[x.row].edges
           /\ x.to = old[x.row].edges[x.index].to
           /\ x.target = old[x.row].edges[x.index].target
  BY <1>2, GraphLinesTell
<1>6. /\ awaiting = {l \in DOMAIN open : open[l].hash = hash}
      /\ awaiting # {} => lane \in awaiting
      /\ DOMAIN open = 1..Len(open) /\ Len(open) \in Nat
  BY <1>2, AwaitingTells
<1>7. lane \in 1..Len(open) + 1 /\ (awaiting = {} /\ lane \in DOMAIN open => open[lane].hash = 0)
  <2>1. CASE awaiting # {}
    BY <1>6, <2>1
  <2>2. CASE awaiting = {}
    BY <1>2, <2>2, AllocateTells
  <2> QED BY <2>1, <2>2
<1>8. Free \in Slot /\ Free.hash = 0
  BY DEF Free, Slot
<1>9. freed = SetLane(open, lane, Free) /\ passed = DOMAIN freed \ Awaiting(freed, 0)
  OBVIOUS
<1>10. layout = AddEdges(freed, parents, Len(rows) + 1, lane)[Len(parents)]
  OBVIOUS
<1>11. /\ row.commit = hash /\ row.lane = lane /\ row.edges = layout.edges /\ row.passthrough = passed
       /\ row = [commit |-> hash, lane |-> lane, edges |-> layout.edges, passthrough |-> passed]
  OBVIOUS
<1>12. rows = IF awaiting = {} THEN old ELSE ResolveEdges(old, open[lane].waiters)
  OBVIOUS
<1> HIDE DEF row, layout, rows, passed, freed, lane, new, commit
<1>13. /\ freed \in Seq(Slot) /\ DOMAIN freed = DOMAIN open \cup {lane} /\ freed[lane] = Free
       /\ \A l \in DOMAIN open : l # lane => freed[l] = open[l]
  <2>1. PICK o, t : o = open /\ t = lane
    OBVIOUS
  <2>2. o \in Seq(Slot) /\ t \in 1..Len(o) + 1
    BY <1>2, <1>7, <2>1
  <2>3. freed = SetLane(o, t, Free)
    BY <1>9, <2>1
  <2>4. LaneSet(SetLane(o, t, Free), o, t, Free)
    BY <1>8, <2>2, SetLaneTells, Zenon
  <2>5. LaneSet(freed, open, lane, Free)
    BY <2>1, <2>3, <2>4, Zenon
  <2> QED BY <2>5 DEF LaneSet
<1>14. Passes(passed, freed)
  <2>1. Awaiting(freed, 0) = {l \in DOMAIN freed : freed[l].hash = 0}
    BY <1>13, AwaitingTells DEF LaneSet
  <2> QED BY <1>9, <2>1 DEF Passes
<1>15. /\ lane \in Nat /\ lane \in DOMAIN freed /\ freed[lane].hash = 0
       /\ Awaits(freed, lines, came2)
       /\ \A x \in lines : x.target = hash => x.to = lane
       /\ awaiting = {} => \A x \in lines : x.target # hash
       /\ awaiting # {} =>
            \A i, e \in Nat : <<i, e>> \in open[lane].waiters <=> Leads(lines, i, e, hash)
       /\ passed \in SUBSET Nat
       /\ \A x \in lines : x.target \notin came2 => x.to \in passed
       /\ \A l \in passed : \E x \in lines : x.to = l /\ x.target \notin came2
  <2>1. PICK o, ls, cm, h : o = open /\ ls = lines /\ cm = came /\ h = hash
    OBVIOUS
  <2>2. /\ o \in Seq(Slot) /\ ls \in SUBSET Line /\ 0 \notin cm /\ Awaits(o, ls, cm)
        /\ h \in Nat \ {0} /\ h \notin cm
    BY <1>2, <1>4, <1>5, <2>1
  <2>3. MayTakeLane(o, h, lane)
    BY <1>6, <1>7, <2>1 DEF MayTakeLane
  <2>4. LaneSet(freed, o, lane, Free)
    BY <1>13, <2>1 DEF LaneSet
  <2>5. LaneTaken(o, ls, cm, h, lane, freed, passed)
    BY <1>14, <2>2, <2>3, <2>4, TakesLane, Zenon
  <2>6. LaneTaken(open, lines, came, hash, lane, freed, passed)
    BY <2>1, <2>5, Zenon
  <2>7. came2 = came \cup {hash} /\ awaiting = Awaiting(open, hash)
    BY <1>4
  <2> HIDE DEF lines, came, came2, awaiting, hash, open
  <2> QED BY <2>6, <2>7 DEF LaneTaken
<1> HIDE DEF lines, came, came2, awaiting, hash
\* The rows before: as they were, but for the edges that lead to the commit.
<1>16. /\ rows \in Seq(GraphRow) /\ Len(rows) = n /\ DOMAIN rows = DOMAIN old
       /\ \A i \in DOMAIN old :
            /\ rows[i].commit = old[i].commit /\ rows[i].lane = old[i].lane
            /\ rows[i].passthrough = old[i].passthrough
            /\ Len(rows[i].edges) = Len(old[i].edges)
            /\ DOMAIN rows[i].edges = DOMAIN old[i].edges
            /\ \A e \in DOMAIN old[i].edges :
                 /\ rows[i].edges[e].to = old[i].edges[e].to
                 /\ rows[i].edges[e].target = old[i].edges[e].target
                 /\ rows[i].edges[e].resolved <=>
                      old[i].edges[e].resolved \/ old[i].edges[e].target = hash
  <2>1. CASE awaiting = {}
    <3>1. rows = old
      BY <1>12, <2>1
    <3>2. ASSUME NEW i \in DOMAIN old, NEW e \in DOMAIN old[i].edges
          PROVE  old[i].edges[e].target # hash
      <4>1. [row |-> i, index |-> e, to |-> old[i].edges[e].to,
            target |-> old[i].edges[e].target] \in lines
        BY <1>5
      <4> QED BY <1>15, <2>1, <4>1
    <3> HIDE DEF old
    <3> QED BY <1>2, <3>1, <3>2
  <2>2. CASE awaiting # {}
    <3>1. rows = ResolveEdges(old, open[lane].waiters)
      BY <1>12, <2>2
    <3>2. ASSUME NEW i \in DOMAIN old, NEW e \in DOMAIN old[i].edges
          PROVE  <<i, e>> \in open[lane].waiters <=> old[i].edges[e].target = hash
      <4>1. i \in Nat /\ e \in Nat
        <5>1. old[i] \in GraphRow /\ i \in Nat
          BY <1>2
        <5>2. old[i].edges \in Seq(GraphEdge)
          BY <5>1 DEF GraphRow
        <5> QED BY <5>1, <5>2
      <4>2. <<i, e>> \in open[lane].waiters <=> Leads(lines, i, e, hash)
        BY <1>15, <2>2, <4>1
      <4>3. Leads(lines, i, e, hash) <=> old[i].edges[e].target = hash
        <5> DEFINE x == [row |-> i, index |-> e, to |-> old[i].edges[e].to,
                         target |-> old[i].edges[e].target]
        <5>1. x \in lines /\ x.row = i /\ x.index = e /\ x.target = old[i].edges[e].target
          BY <1>5
        <5> HIDE DEF x, old
        <5>2. ASSUME Leads(lines, i, e, hash) PROVE old[i].edges[e].target = hash
          <6>1. PICK y \in lines : y.row = i /\ y.index = e /\ y.target = hash
            BY <5>2 DEF Leads
          <6> QED BY <1>5, <6>1
        <5>3. ASSUME old[i].edges[e].target = hash PROVE Leads(lines, i, e, hash)
          BY <5>1, <5>3 DEF Leads
        <5> QED BY <5>2, <5>3
      <4> QED BY <4>2, <4>3
    <3>3. PICK os, w : os = old /\ w = open[lane].waiters
      OBVIOUS
    <3>4. Resolved(ResolveEdges(os, w), os, w)
      <4>1. os \in Seq(GraphRow)
        BY <1>2, <3>3
      <4> QED BY <4>1, ResolveEdgesTells, Zenon
    <3>5. Resolved(rows, old, w)
      BY <3>1, <3>3, <3>4, Zenon
    <3>6. DOMAIN old = 1..Len(old) /\ Len(old) = n
      BY <1>2
    <3> HIDE DEF old
    <3> QED BY <3>2, <3>3, <3>5, <3>6 DEF Resolved
  <2> QED BY <2>1, <2>2
<1>17. GraphLines(rows) = lines
  <2>1. SameEdges(rows, old)
    <3> HIDE DEF old
    <3> QED BY <1>16 DEF SameEdges
  <2>2. GraphLines(rows) = GraphLines(old)
    BY <2>1, SameLines, Zenon
  <2> QED BY <2>2 DEF lines
\* The edges of the commit.
<1>18. /\ layout.edges \in Seq(GraphEdge) /\ Len(layout.edges) = Len(parents)
       /\ \A e \in DOMAIN parents :
            layout.edges[e].target = parents[e] /\ ~ layout.edges[e].resolved
       /\ layout.open \in Seq(Slot)
       /\ Awaits(layout.open, lines \cup LinesFrom(n + 1, layout.edges), came2)
  <2>1. PICK ps, ls, cm2, r : ps = parents /\ ls = lines /\ cm2 = came2 /\ r = n + 1
    OBVIOUS
  <2>2. /\ freed \in Seq(Slot) /\ ls \in SUBSET Line /\ 0 \notin cm2
        /\ Awaits(freed, ls, cm2) /\ ps \in Seq(Nat \ {0})
        /\ NotCome(ps, cm2)
        /\ r \in Nat /\ lane \in Nat /\ lane \in DOMAIN freed /\ freed[lane].hash = 0
    BY <1>3, <1>4, <1>5, <1>13, <1>15, <2>1 DEF NotCome
  <2>3. layout = AddEdges(freed, ps, r, lane)[Len(ps)]
    BY <1>10, <1>16, <2>1
  <2>4. EdgesDrawn(AddEdges(freed, ps, r, lane)[Len(ps)], ls, cm2, ps, r)
    BY <2>2, AddEdgesAwait, Zenon
  <2>5. EdgesDrawn(layout, lines, came2, parents, n + 1)
    BY <2>1, <2>3, <2>4, Zenon
  <2> HIDE DEF parents
  <2> QED BY <2>5 DEF EdgesDrawn
<1>19. row \in GraphRow
  BY <1>4, <1>11, <1>15, <1>18 DEF GraphRow
<1>20. /\ new.rows \in Seq(GraphRow) /\ Len(new.rows) = n + 1 /\ new.rows[n + 1] = row
       /\ \A i \in 1..n : new.rows[i] = rows[i]
       /\ GraphLines(new.rows) = lines \cup LinesFrom(n + 1, layout.edges)
  <2>1. GraphLines(Append(rows, row)) = GraphLines(rows) \cup LinesFrom(Len(rows) + 1, row.edges)
    BY <1>16, <1>19, GraphLinesAppended
  <2>2. /\ Append(rows, row) \in Seq(GraphRow) /\ Len(Append(rows, row)) = n + 1
        /\ Append(rows, row)[n + 1] = row /\ \A i \in 1..n : Append(rows, row)[i] = rows[i]
    BY <1>3, <1>16, <1>19
  <2> QED BY <1>1, <1>11, <1>16, <1>17, <2>1, <2>2
<1>21. ASSUME NEW i \in 1..n PROVE LaidRow(new.rows, source, n + 1, i)
  <2> DEFINE edges == new.rows[i].edges
  <2>1. LaidRow(old, source, n, i) /\ i \in DOMAIN old /\ new.rows[i] = rows[i]
    BY <1>2, <1>3, <1>20
  <2>2. /\ new.rows[i].commit = source[i].hash /\ Len(edges) = Len(source[i].parents)
        /\ DOMAIN edges = DOMAIN old[i].edges
    BY <1>16, <2>1 DEF LaidRow
  <2>3. ASSUME NEW e \in DOMAIN edges
        PROVE  /\ edges[e].target = source[i].parents[e]
               /\ edges[e].target = old[i].edges[e].target /\ edges[e].to = old[i].edges[e].to
               /\ edges[e].resolved <=> edges[e].target \in came2
               /\ \A k \in i + 1 .. n + 1 :
                    /\ source[k].hash = edges[e].target => new.rows[k].lane = edges[e].to
                    /\ edges[e].target \notin Came(source, 1, k) =>
                         edges[e].to \in new.rows[k].passthrough
    <3> DEFINE edge == old[i].edges[e]
               x == [row |-> i, index |-> e, to |-> edge.to, target |-> edge.target]
    <3>1. /\ edges[e].to = edge.to /\ edges[e].target = edge.target
          /\ edges[e].resolved <=> edge.resolved \/ edge.target = hash
      BY <1>16, <2>1, <2>2
    <3>2. /\ edge.target = source[i].parents[e]
          /\ edge.resolved <=> edge.target \in came
          /\ \A k \in i + 1 .. n :
               /\ source[k].hash = edge.target => old[k].lane = edge.to
               /\ edge.target \notin Came(source, 1, k) => edge.to \in old[k].passthrough
      BY <2>1, <2>2 DEF LaidRow, came
    <3>3. x \in lines /\ x.target = edge.target /\ x.to = edge.to
      BY <1>5, <2>1, <2>2
    <3> HIDE DEF edge, x, edges
    <3>4. edges[e].resolved <=> edges[e].target \in came2
      <4>1. edge.target \in came2 <=> edge.target \in came \/ edge.target = hash
        BY <1>4
      <4> QED BY <3>1, <3>2, <4>1
    <3>5. ASSUME NEW k \in i + 1 .. n + 1
          PROVE  /\ source[k].hash = edges[e].target => new.rows[k].lane = edges[e].to
                 /\ edges[e].target \notin Came(source, 1, k) =>
                      edges[e].to \in new.rows[k].passthrough
      <4>1. CASE k = n + 1
        <5>1. new.rows[k].lane = lane /\ new.rows[k].passthrough = passed
          BY <1>11, <1>20, <4>1
        <5>2. source[k].hash = hash /\ Came(source, 1, k) = came2
          BY <4>1 DEF hash, came2, commit
        <5> QED BY <1>15, <3>1, <3>3, <5>1, <5>2
      <4>2. CASE k # n + 1
        <5>1. k \in i + 1 .. n /\ k \in 1..n
          BY <1>3, <4>2
        <5>2. k \in DOMAIN old
          BY <1>2, <5>1
        <5>3. new.rows[k].lane = old[k].lane /\ new.rows[k].passthrough = old[k].passthrough
          BY <1>16, <1>20, <5>1, <5>2
        <5> QED BY <3>1, <3>2, <5>1, <5>3
      <4> QED BY <4>1, <4>2
    <3> QED BY <3>1, <3>2, <3>4, <3>5 DEF edge
  <2>4. ASSUME NEW l \in new.rows[i].passthrough
        PROVE  \E h \in 1..i - 1 : \E e \in DOMAIN new.rows[h].edges :
                 new.rows[h].edges[e].to = l /\ new.rows[h].edges[e].target \notin Came(source, 1, i)
    <3>1. l \in old[i].passthrough
      BY <1>16, <2>1, <2>4
    <3>2. PICK h \in 1..i - 1 : \E e \in DOMAIN old[h].edges :
            old[h].edges[e].to = l /\ old[h].edges[e].target \notin Came(source, 1, i)
      BY <2>1, <3>1 DEF LaidRow
    <3>3. h \in 1..n /\ h \in DOMAIN old
      BY <1>2, <1>3
    <3>4. /\ new.rows[h] = rows[h] /\ DOMAIN rows[h].edges = DOMAIN old[h].edges
          /\ \A e \in DOMAIN old[h].edges : /\ rows[h].edges[e].to = old[h].edges[e].to
                                            /\ rows[h].edges[e].target = old[h].edges[e].target
      BY <1>16, <1>20, <3>3
    <3> HIDE DEF old
    <3> QED BY <3>2, <3>4
  <2> QED BY <2>2, <2>3, <2>4 DEF LaidRow, came2
<1>22. LaidRow(new.rows, source, n + 1, n + 1)
  <2>1. DOMAIN row.edges = DOMAIN parents /\ Len(row.edges) = Len(parents)
    BY <1>4, <1>11, <1>18
  <2>2. \A e \in DOMAIN row.edges :
          /\ row.edges[e].target = parents[e]
          /\ ~ row.edges[e].resolved /\ row.edges[e].target \notin came2
    BY <1>4, <1>11, <1>18, <2>1
  <2>3. \A k \in n + 1 + 1 .. n + 1 : FALSE
    BY <1>3
  <2>4. ASSUME NEW l \in passed
        PROVE  \E h \in 1..n : \E e \in DOMAIN new.rows[h].edges :
                 new.rows[h].edges[e].to = l /\ new.rows[h].edges[e].target \notin came2
    <3>1. PICK x \in lines : x.to = l /\ x.target \notin came2
      BY <1>15
    <3>2. /\ x.row \in DOMAIN old /\ x.index \in DOMAIN old[x.row].edges
          /\ x.to = old[x.row].edges[x.index].to
          /\ x.target = old[x.row].edges[x.index].target
      BY <1>5
    <3>3. x.row \in 1..n
      BY <1>2, <3>2
    <3>4. /\ x.index \in DOMAIN new.rows[x.row].edges
          /\ new.rows[x.row].edges[x.index].to = l
          /\ new.rows[x.row].edges[x.index].target \notin came2
      <4>1. new.rows[x.row] = rows[x.row]
        BY <1>20, <3>3
      <4>2. /\ DOMAIN rows[x.row].edges = DOMAIN old[x.row].edges
            /\ \A e \in DOMAIN old[x.row].edges :
                 /\ rows[x.row].edges[e].to = old[x.row].edges[e].to
                 /\ rows[x.row].edges[e].target = old[x.row].edges[e].target
        BY <1>16, <3>2
      <4> HIDE DEF old
      <4> QED BY <3>1, <3>2, <4>1, <4>2
    <3> QED BY <3>3, <3>4
  <2>5. n + 1 - 1 = n
    BY <1>3
  <2>6. row.commit = source[n + 1].hash /\ parents = source[n + 1].parents /\ row.passthrough = passed
    BY <1>11 DEF hash, commit
  <2> HIDE DEF parents
  <2>7. Came(source, 1, n + 1) = came2
    BY DEF came2
  <2>8. new.rows[n + 1] = row
    BY <1>20
  <2>9. /\ new.rows[n + 1].commit = source[n + 1].hash
        /\ Len(new.rows[n + 1].edges) = Len(source[n + 1].parents)
    BY <2>1, <2>6, <2>8
  <2>10. \A e \in DOMAIN new.rows[n + 1].edges :
           /\ new.rows[n + 1].edges[e].target = source[n + 1].parents[e]
           /\ new.rows[n + 1].edges[e].resolved <=>
                new.rows[n + 1].edges[e].target \in Came(source, 1, n + 1)
    BY <2>2, <2>6, <2>7, <2>8
  <2>11. \A l \in new.rows[n + 1].passthrough :
           \E h \in 1..n + 1 - 1 : \E e \in DOMAIN new.rows[h].edges :
             new.rows[h].edges[e].to = l /\ new.rows[h].edges[e].target \notin Came(source, 1, n + 1)
    BY <2>4, <2>5, <2>6, <2>7, <2>8
  <2>12. \A e : \A k \in n + 1 + 1 .. n + 1 :
            /\ source[k].hash = new.rows[n + 1].edges[e].target =>
                 new.rows[k].lane = new.rows[n + 1].edges[e].to
            /\ new.rows[n + 1].edges[e].target \notin Came(source, 1, k) =>
                 new.rows[n + 1].edges[e].to \in new.rows[k].passthrough
    BY <2>3
  <2>13. PICK rs, m : rs = new.rows /\ m = n + 1
    OBVIOUS
  <2>14. LaidRow(rs, source, m, m)
    <3>1. rs[m].commit = source[m].hash /\ Len(rs[m].edges) = Len(source[m].parents)
      BY <2>9, <2>13
    <3>2. \A e \in DOMAIN rs[m].edges :
            /\ rs[m].edges[e].target = source[m].parents[e]
            /\ rs[m].edges[e].resolved <=> rs[m].edges[e].target \in Came(source, 1, m)
      BY <2>10, <2>13
    <3>3. \A l \in rs[m].passthrough :
            \E h \in 1..m - 1 : \E e \in DOMAIN rs[h].edges :
              rs[h].edges[e].to = l /\ rs[h].edges[e].target \notin Came(source, 1, m)
      <4>1. rs[m].passthrough = passed /\ m - 1 = n /\ Came(source, 1, m) = came2
        BY <1>3, <2>5, <2>6, <2>7, <2>8, <2>13
      <4>2. \A l \in passed :
              \E h \in 1..n : \E e \in DOMAIN rs[h].edges :
                rs[h].edges[e].to = l /\ rs[h].edges[e].target \notin came2
        BY <2>4, <2>13, Zenon
      <4> QED BY <4>1, <4>2, Zenon
    <3>4. \A k : k \notin m + 1 .. m
      BY <1>3, <2>13
    <3> QED BY <3>1, <3>2, <3>3, <3>4 DEF LaidRow
  <2> QED BY <2>13, <2>14
<1>23. Awaits(new.open, GraphLines(new.rows), came2) /\ new.open \in Seq(Slot)
  BY <1>1, <1>18, <1>20
<1>24. \A i \in 1..n + 1 : LaidRow(new.rows, source, n + 1, i)
  BY <1>3, <1>21, <1>22
<1>25. n + 1 \in 0..Len(source)
  BY <1>3
<1> QED BY <1>20, <1>23, <1>24, <1>25 DEF Laid, new, commit, came2

\* A page of a history, from one commit after `n' on.
IsPage(page, source, n) ==
  /\ page \in Seq(Commit)
  /\ \A k \in 1..Len(page) : n + k \in DOMAIN source /\ page[k] = source[n + k]

LEMMA AppendPageLays ==
  ASSUME NEW source, IsHistory(source), NEW n, NEW g, Laid(g, source, n),
         NEW page, IsPage(page, source, n)
  PROVE  Laid(AppendPage(g, page), source, n + Len(page))
<1> DEFINE added == AppendRows(g, page)
           Good(k) == Laid(added[k], source, n + k)
           Bad == {k \in 0..Len(page) : ~ Good(k)}
<1>1. Len(page) \in Nat /\ n \in Nat /\ Len(source) \in Nat /\ DOMAIN source = 1..Len(source)
  BY DEF IsPage, Laid, IsHistory
<1>2. AddsRows(added, g, page)
  BY <1>1, AppendRowsUnfolds, Zenon
<1>3. AppendPage(g, page) = added[Len(page)]
  BY DEF AppendPage
<1> HIDE DEF added
<1>4. added[0] = g /\ \A k \in 1..Len(page) : added[k] = AppendRow(added[k - 1], page[k])
  BY <1>2 DEF AddsRows
<1>5. Good(0)
  BY <1>1, <1>4
<1>6. ASSUME NEW k \in 1..Len(page), Good(k - 1) PROVE Good(k)
  <2>1. PICK m, before : m = n + (k - 1) /\ before = added[k - 1]
    OBVIOUS
  <2>2. Laid(before, source, m)
    BY <1>6, <2>1
  <2>3. n + k \in DOMAIN source /\ page[k] = source[n + k] /\ n + k = m + 1
    BY <1>1, <2>1 DEF IsPage
  <2>4. m < Len(source)
    BY <1>1, <2>1, <2>3
  <2>5. Laid(AppendRow(before, source[m + 1]), source, m + 1)
    BY <2>2, <2>4, AppendRowLays, Zenon
  <2>6. added[k] = AppendRow(before, page[k])
    BY <1>4, <2>1
  <2> QED BY <2>3, <2>5, <2>6
<1>7. Bad = {}
  <2>1. SUFFICES ASSUME Bad # {} PROVE FALSE
    OBVIOUS
  <2> HIDE DEF Good
  <2>2. PICK k \in Bad : \A other \in Bad : k <= other
    <3>1. Bad \subseteq Nat
      BY <1>1
    <3> HIDE DEF Bad
    <3> QED BY <2>1, <3>1, LeastNumber
  <2>3. k \in 1..Len(page) /\ k - 1 \in 0..Len(page)
    BY <1>1, <1>5, <2>2
  <2>4. Good(k - 1)
    BY <1>1, <2>2, <2>3
  <2> QED BY <1>6, <2>2, <2>3, <2>4
<1>8. Good(Len(page))
  <2> HIDE DEF Good
  <2> QED BY <1>1, <1>7
<1> QED BY <1>3, <1>8

LEMMA HistoryIs ==
  ASSUME NEW h
  PROVE  IsHistory(h) <=>
           /\ h \in Seq(Commit)
           /\ \A i \in DOMAIN h : \A k \in DOMAIN h[i].parents : h[i].parents[k] < h[i].hash
           /\ \A i, j \in DOMAIN h : i < j => h[j].hash < h[i].hash
BY DEF IsHistory, Commit

\* What a search finds in a history is one.
LEMMA FoundIsHistory ==
  ASSUME NEW query, IsHistory(log)
  PROVE  IsHistory(Found(query)[Len(log)])
<1> DEFINE found == Found(query)
           Good(k) == /\ found[k] \in Seq(Commit)
                      /\ \A i \in DOMAIN found[k] : \E j \in 1..k : found[k][i] = log[j]
                      /\ \A i, j \in DOMAIN found[k] : i < j => found[k][j].hash < found[k][i].hash
           Bad == {k \in 0..Len(log) : ~ Good(k)}
<1>1. /\ log \in Seq(Commit)
      /\ \A i \in DOMAIN log : \A k \in DOMAIN log[i].parents : log[i].parents[k] < log[i].hash
      /\ \A i, j \in DOMAIN log : i < j => log[j].hash < log[i].hash
  BY HistoryIs, Zenon
<1>2. Len(log) \in Nat /\ DOMAIN log = 1..Len(log) /\ \A i \in DOMAIN log : log[i] \in Commit
  BY <1>1
<1>3. Finds(found, query)
  BY <1>2, FoundUnfolds, Zenon
<1> HIDE DEF found
<1>4. /\ found[0] = <<>>
      /\ \A k \in 1..Len(log) :
           found[k] = IF Selects(query, log[k]) THEN Append(found[k - 1], log[k]) ELSE found[k - 1]
  BY <1>3 DEF Finds
<1>5. Good(0)
  <2>1. <<>> \in Seq(Commit) /\ DOMAIN <<>> = {}
    OBVIOUS
  <2> QED BY <1>4, <2>1
<1>6. ASSUME NEW k \in 1..Len(log), Good(k - 1) PROVE Good(k)
  <2>1. PICK before, commit : before = found[k - 1] /\ commit = log[k]
    OBVIOUS
  <2>2. /\ before \in Seq(Commit)
        /\ \A i \in DOMAIN before : \E j \in 1..k - 1 : before[i] = log[j]
        /\ \A i, j \in DOMAIN before : i < j => before[j].hash < before[i].hash
    BY <1>6, <2>1
  <2>3. \A i \in DOMAIN before : \E j \in 1..k : before[i] = log[j]
    <3>1. 1..k - 1 \subseteq 1..k
      BY <1>2
    <3> QED BY <2>2, <3>1
  <2>4. CASE ~ Selects(query, log[k])
    <3>1. found[k] = before
      BY <1>4, <2>1, <2>4
    <3> QED BY <2>2, <2>3, <3>1
  <2>5. CASE Selects(query, log[k])
    <3>1. found[k] = Append(before, commit)
      BY <1>4, <2>1, <2>5
    <3>2. commit \in Commit
      BY <1>2, <2>1
    <3>3. PICK after, last : after = Append(before, commit) /\ last = Len(before) + 1
      OBVIOUS
    <3>4. /\ after \in Seq(Commit) /\ DOMAIN after = DOMAIN before \cup {last} /\ after[last] = commit
          /\ \A i \in DOMAIN before : after[i] = before[i] /\ i < last /\ i \in Nat
          /\ last \in Nat /\ last \notin DOMAIN before
      BY <2>2, <3>2, <3>3
    <3>5. \A i \in DOMAIN before : commit.hash < before[i].hash
      <4>1. TAKE i \in DOMAIN before
      <4>2. PICK j \in 1..k - 1 : before[i] = log[j]
        BY <2>2
      <4>3. j \in DOMAIN log /\ k \in DOMAIN log /\ j < k
        BY <1>2
      <4> QED BY <1>1, <2>1, <4>2, <4>3
    <3>6. \A i \in DOMAIN after : \E j \in 1..k : after[i] = log[j]
      <4>1. k \in 1..k
        BY <1>2
      <4> QED BY <2>1, <2>3, <3>4, <4>1
    <3>7. \A i, j \in DOMAIN after : i < j => after[j].hash < after[i].hash
      <4>1. TAKE i, j \in DOMAIN after
      <4>2. CASE j = last /\ i \in DOMAIN before
        BY <3>4, <3>5, <4>2
      <4>3. CASE j \in DOMAIN before /\ i \in DOMAIN before
        BY <2>2, <3>4, <4>3
      <4>4. CASE i = last
        BY <3>4, <4>4
      <4> QED BY <3>4, <4>2, <4>3, <4>4
    <3>8. found[k] = after
      BY <3>1, <3>3
    <3> QED BY <3>4, <3>6, <3>7, <3>8
  <2> QED BY <2>4, <2>5
<1>7. Bad = {}
  <2>1. SUFFICES ASSUME Bad # {} PROVE FALSE
    OBVIOUS
  <2> HIDE DEF Good
  <2>2. PICK k \in Bad : \A other \in Bad : k <= other
    <3>1. Bad \subseteq Nat
      BY <1>2
    <3> HIDE DEF Bad
    <3> QED BY <2>1, <3>1, LeastNumber
  <2>3. k \in 1..Len(log) /\ k - 1 \in 0..Len(log)
    BY <1>2, <1>5, <2>2
  <2>4. Good(k - 1)
    BY <1>2, <2>2, <2>3
  <2> QED BY <1>6, <2>2, <2>3, <2>4
<1>8. Good(Len(log))
  <2> HIDE DEF Good
  <2> QED BY <1>2, <1>7
<1>9. PICK all : all = found[Len(log)]
  OBVIOUS
<1>10. /\ all \in Seq(Commit)
       /\ \A i \in DOMAIN all : \E j \in DOMAIN log : all[i] = log[j]
       /\ \A i, j \in DOMAIN all : i < j => all[j].hash < all[i].hash
  BY <1>2, <1>8, <1>9
<1>11. \A i \in DOMAIN all : \A k \in DOMAIN all[i].parents : all[i].parents[k] < all[i].hash
  BY <1>1, <1>10
<1> QED BY <1>9, <1>10, <1>11, HistoryIs DEF found

\* The log grows on top, and its tip is replaced.
LEMMA LogChanges ==
  ASSUME IsHistory(log), log # <<>>
  PROVE  /\ Commits => IsHistory(log') /\ log' # <<>>
         /\ AmendFinished => IsHistory(log') /\ log' # <<>>
<1>1. /\ log \in Seq(Commit)
      /\ \A i \in DOMAIN log : \A k \in DOMAIN log[i].parents : log[i].parents[k] < log[i].hash
      /\ \A i, j \in DOMAIN log : i < j => log[j].hash < log[i].hash
  BY HistoryIs, Zenon
<1>2. /\ Len(log) \in Nat \ {0} /\ DOMAIN log = 1..Len(log) /\ 1 \in DOMAIN log
      /\ \A i \in DOMAIN log : log[i] \in Commit
  BY <1>1
<1>3. \A i \in DOMAIN log : log[i].hash \in Nat \ {0} /\ log[i].parents \in Seq(Nat \ {0})
  BY <1>2 DEF Commit
<1> DEFINE top == log[1].hash
<1>4. ASSUME Commits PROVE IsHistory(log') /\ log' # <<>>
  <2> DEFINE new == [hash |-> top + 1, parents |-> <<top>>]
  <2>1. log' = <<new>> \o log
    BY <1>4 DEF Commits
  <2>2. new \in Commit /\ new.hash = top + 1 /\ new.parents = <<top>>
    BY <1>2, <1>3 DEF Commit
  <2> HIDE DEF new
  <2>3. PICK next : next = <<new>> \o log
    OBVIOUS
  <2>4. /\ next \in Seq(Commit) /\ Len(next) = Len(log) + 1 /\ next[1] = new
        /\ \A i \in DOMAIN log : next[i + 1] = log[i]
    BY <1>1, <2>2, <2>3
  <2>5. DOMAIN next = 1..Len(log) + 1
    BY <2>4
  <2>6. \A i \in DOMAIN next : i # 1 => i - 1 \in DOMAIN log /\ next[i] = log[i - 1]
    <3>1. TAKE i \in DOMAIN next
    <3>2. HAVE i # 1
    <3>3. i - 1 \in DOMAIN log /\ i - 1 + 1 = i
      BY <1>2, <2>5, <3>2
    <3> QED BY <2>4, <3>3
  <2>7. \A i \in DOMAIN next : \A k \in DOMAIN next[i].parents : next[i].parents[k] < next[i].hash
    <3>1. TAKE i \in DOMAIN next
    <3>2. CASE i = 1
      <4>1. \A k \in DOMAIN <<top>> : <<top>>[k] < top + 1
        BY <1>2, <1>3
      <4> QED BY <2>2, <2>4, <3>2, <4>1
    <3>3. CASE i # 1
      BY <1>1, <2>6, <3>3
    <3> QED BY <3>2, <3>3
  <2>8. \A j \in DOMAIN log : log[j].hash < top + 1
    <3>1. TAKE j \in DOMAIN log
    <3>2. j = 1 \/ log[j].hash < top
      BY <1>1, <1>2
    <3>3. log[j].hash \in Nat /\ top \in Nat
      BY <1>2, <1>3
    <3> QED BY <3>2, <3>3
  <2>9. \A i, j \in DOMAIN next : i < j => next[j].hash < next[i].hash
    <3>1. TAKE i, j \in DOMAIN next
    <3>2. HAVE i < j
    <3>3. j # 1 /\ i \in Nat /\ j \in Nat
      BY <2>5, <3>2
    <3>4. CASE i = 1
      BY <2>2, <2>4, <2>6, <2>8, <3>3, <3>4
    <3>5. CASE i # 1
      <4>1. i - 1 < j - 1
        BY <3>2, <3>3
      <4> QED BY <1>1, <2>6, <3>3, <3>5, <4>1
    <3> QED BY <3>4, <3>5
  <2>10. next # <<>>
    BY <1>2, <2>4
  <2>11. IsHistory(next)
    BY <2>4, <2>7, <2>9, HistoryIs
  <2> QED BY <2>1, <2>3, <2>10, <2>11
<1>5. ASSUME AmendFinished PROVE IsHistory(log') /\ log' # <<>>
  <2> DEFINE new == [log[1] EXCEPT !.hash = log[1].hash + 1]
  <2>1. log' = [log EXCEPT ![1] = new]
    BY <1>2, <1>5 DEF AmendFinished
  <2>2. new \in Commit /\ new.hash = top + 1 /\ new.parents = log[1].parents
    <3>1. PICK c, h : c = log[1] /\ h = top + 1
      OBVIOUS
    <3>2. c \in Commit /\ h \in Nat \ {0}
      BY <1>2, <1>3, <3>1
    <3>3. new = [c EXCEPT !.hash = h]
      BY <3>1
    <3> QED BY <3>1, <3>2, <3>3 DEF Commit
  <2> HIDE DEF new
  <2>3. PICK next : next = [log EXCEPT ![1] = new]
    OBVIOUS
  <2>4. /\ next \in Seq(Commit) /\ Len(next) = Len(log) /\ next[1] = new /\ DOMAIN next = DOMAIN log
        /\ \A i \in DOMAIN log : i # 1 => next[i] = log[i]
    BY <1>1, <1>2, <2>2, <2>3
  <2>5. \A i \in DOMAIN next : \A k \in DOMAIN next[i].parents : next[i].parents[k] < next[i].hash
    <3>1. TAKE i \in DOMAIN next
    <3>2. CASE i = 1
      <4>1. TAKE k \in DOMAIN next[i].parents
      <4>2. log[1].parents \in Seq(Nat \ {0}) /\ top \in Nat
        BY <1>2, <1>3
      <4>3. k \in DOMAIN log[1].parents /\ next[i].parents[k] = log[1].parents[k] /\ next[i].hash = top + 1
        BY <2>2, <2>4, <3>2
      <4>4. log[1].parents[k] < top /\ log[1].parents[k] \in Nat
        BY <1>1, <1>2, <4>2, <4>3
      <4> QED BY <4>2, <4>3, <4>4
    <3>3. CASE i # 1
      BY <1>1, <2>4, <3>3
    <3> QED BY <3>2, <3>3
  <2>6. \A i, j \in DOMAIN next : i < j => next[j].hash < next[i].hash
    <3>1. TAKE i, j \in DOMAIN next
    <3>2. HAVE i < j
    <3>3. j # 1 /\ i \in Nat /\ j \in Nat /\ next[j] = log[j] /\ j \in DOMAIN log /\ i \in DOMAIN log
      BY <1>2, <2>4, <3>2
    <3>4. log[j].hash < log[i].hash
      BY <1>1, <3>2, <3>3
    <3>5. CASE i = 1
      <4>1. next[i].hash = log[i].hash + 1
        BY <2>2, <2>4, <3>5
      <4> QED BY <1>3, <3>3, <3>4, <4>1
    <3>6. CASE i # 1
      BY <2>4, <3>3, <3>4, <3>6
    <3> QED BY <3>5, <3>6
  <2>7. next # <<>>
    BY <1>2, <2>4
  <2>8. IsHistory(next)
    BY <2>4, <2>5, <2>6, HistoryIs
  <2> QED BY <2>1, <2>3, <2>7, <2>8
<1> QED BY <1>4, <1>5

LEMMA SmallerTells ==
  ASSUME NEW a \in Nat, NEW b \in Nat
  PROVE  Smaller(a, b) \in Nat /\ Smaller(a, b) <= b /\ (b > a => Smaller(a, b) = a)
BY DEF Smaller

\* A page, and whether there is more.
ReadsPage(page, rest, source, offset) ==
  IsPage(page, source, offset) /\ (Len(rest) > PageSize => Len(page) = PageSize)

LEMMA PageTells ==
  ASSUME NEW source, source \in Seq(Commit), NEW offset \in Nat,
         NEW rest, rest = SubSeq(source, offset + 1, Len(source)),
         NEW page, page = SubSeq(rest, 1, Smaller(PageSize, Len(rest)))
  PROVE  ReadsPage(page, rest, source, offset)
<1>1. PageSize \in Nat \ {0} /\ Len(source) \in Nat /\ DOMAIN source = 1..Len(source)
  BY GraphAssumption
<1>2. \A k \in offset + 1 .. Len(source) : source[k] \in Commit
  BY <1>1
<1>3. /\ rest \in Seq(Commit)
      /\ Len(rest) = IF offset + 1 <= Len(source) THEN Len(source) - (offset + 1) + 1 ELSE 0
      /\ \A k \in 1..Len(source) - (offset + 1) + 1 : rest[k] = source[offset + 1 + k - 1]
  BY <1>1, <1>2, SubSeqProperties
<1>4. Len(rest) \in Nat /\ \A k \in 1..Len(rest) : offset + k \in DOMAIN source /\ rest[k] = source[offset + k]
  BY <1>1, <1>3
<1> DEFINE size == Smaller(PageSize, Len(rest))
<1>5. size \in Nat /\ size <= Len(rest) /\ (Len(rest) > PageSize => size = PageSize)
  <2>1. PICK l : l = Len(rest)
    OBVIOUS
  <2>2. l \in Nat
    BY <1>4, <2>1
  <2>3. Smaller(PageSize, l) \in Nat /\ Smaller(PageSize, l) <= l
        /\ (l > PageSize => Smaller(PageSize, l) = PageSize)
    BY <1>1, <2>2, SmallerTells
  <2> QED BY <2>1, <2>3, Zenon
<1>6. page = SubSeq(rest, 1, size)
  OBVIOUS
<1> HIDE DEF size
<1>7. \A k \in 1..size : rest[k] \in Commit
  BY <1>3, <1>5
<1>8. /\ page \in Seq(Commit) /\ Len(page) = IF 1 <= size THEN size - 1 + 1 ELSE 0
      /\ \A k \in 1..size - 1 + 1 : page[k] = rest[1 + k - 1]
  <2>1. PICK rs, n : rs = rest /\ n = size
    OBVIOUS
  <2>2. n \in Int /\ 1 \in Int /\ \A k \in 1..n : rs[k] \in Commit
    BY <1>5, <1>7, <2>1
  <2>3. /\ SubSeq(rs, 1, n) \in Seq(Commit)
        /\ Len(SubSeq(rs, 1, n)) = IF 1 <= n THEN n - 1 + 1 ELSE 0
        /\ \A k \in 1..n - 1 + 1 : SubSeq(rs, 1, n)[k] = rs[1 + k - 1]
    BY <2>2, SubSeqProperties
  <2>4. SubSeq(rs, 1, n) = page
    BY <1>6, <2>1
  <2> QED BY <2>1, <2>3, <2>4, Zenon
<1>9. Len(page) = size /\ \A k \in 1..size : page[k] = rest[k]
  <2>1. size - 1 + 1 = size /\ (~ 1 <= size => size = 0) /\ \A k \in 1..size : 1 + k - 1 = k
    BY <1>5
  <2> QED BY <1>8, <2>1
<1>10. \A k \in 1..Len(page) : offset + k \in DOMAIN source /\ page[k] = source[offset + k]
  <2>1. TAKE k \in 1..Len(page)
  <2>2. k \in 1..size /\ k \in 1..Len(rest)
    <3>1. k \in 1..size
      BY <1>9
    <3>2. PICK l : l = Len(rest)
      OBVIOUS
    <3>3. l \in Nat /\ size \in Nat /\ size <= l
      BY <1>4, <1>5, <3>2
    <3> QED BY <3>1, <3>2, <3>3
  <2> QED BY <1>4, <1>9, <2>2
<1> QED BY <1>5, <1>8, <1>9, <1>10 DEF IsPage, ReadsPage

PageRecord == [id : Nat, filter : Filters, offset : Nat, state : {"asked", "ok", "failed"},
               page : Seq(Commit), hasMore : BOOLEAN, of : Seq(Commit)]

\* A page that was read is one of a history, and a whole one unless it is the last.
PageIsTrue(r) ==
  r.state = "ok" => /\ IsHistory(r.of) /\ IsPage(r.page, r.of, r.offset)
                    /\ r.hasMore = TRUE => Len(r.page) = PageSize

\* The requests, and the one that is current.
RequestsStand ==
  /\ requestId \in Nat /\ filter \in Filters /\ IsHistory(log) /\ log # <<>>
  /\ \A r \in requests : r \in PageRecord /\ r.id <= requestId /\ PageIsTrue(r)
  /\ \A r, other \in requests : r.id = other.id => r = other
  /\ \A r \in requests : r.id = requestId => loading = TRUE

\* The current request is for the commits after those in the graph.
AsksOn(n) ==
  /\ \A r \in requests : r.id = requestId => r.offset = n
  /\ hasMore = TRUE => nextCursor = n

\* What the pages read from one history make of the graph.
GraphStands ==
  /\ IsFiniteSet(pagesOf) /\ nextCursor \in Nat
  /\ \A source \in pagesOf : IsHistory(source)
  /\ \A source : IsHistory(source) /\ pagesOf \subseteq {source} =>
       Laid(graph, source, Len(graph.rows)) /\ AsksOn(Len(graph.rows))

GraphInv == RequestsStand /\ LoadingHasItsRequest /\ GraphStands

LEMMA FreshPage ==
  ASSUME NEW id \in Nat, NEW query \in Filters, NEW offset \in Nat
  PROVE  LET r == Page(id, query, offset)
         IN  r \in PageRecord /\ r.id = id /\ r.offset = offset /\ PageIsTrue(r)
<1>1. <<>> \in Seq(Commit)
  OBVIOUS
<1> QED BY <1>1 DEF Page, PageRecord, PageIsTrue

LEMMA GraphInvHolds == GraphInit => GraphInv
<1> SUFFICES ASSUME GraphInit PROVE GraphInv
  OBVIOUS
<1>1. /\ log \in Histories /\ graph = EmptyGraph /\ nextCursor = 0 /\ hasMore = FALSE
      /\ loading = TRUE /\ requestId = 1 /\ requests = {Page(1, NoFilter, 0)} /\ pagesOf = {}
      /\ filter = NoFilter
  BY DEF GraphInit
<1>2. PICK r : r = Page(1, NoFilter, 0)
  OBVIOUS
<1>3. r \in PageRecord /\ r.id = 1 /\ r.offset = 0 /\ PageIsTrue(r)
  BY <1>2, FreshPage, GraphAssumption
<1>4. RequestsStand
  BY <1>1, <1>2, <1>3, HistoryAssumption, GraphAssumption DEF RequestsStand
<1>5. LoadingHasItsRequest
  BY <1>1, <1>2, <1>3 DEF LoadingHasItsRequest
<1>6. GraphStands
  <2>1. Len(graph.rows) = 0
    BY <1>1 DEF EmptyGraph
  <2>2. AsksOn(0)
    BY <1>1, <1>2, <1>3 DEF AsksOn
  <2>3. ASSUME NEW source, IsHistory(source) PROVE Laid(graph, source, 0)
    <3>1. Len(source) \in Nat
      BY <2>3 DEF IsHistory
    <3> QED BY <1>1, <3>1, EmptyGraphLaid
  <2>4. IsFiniteSet(pagesOf)
    BY <1>1, FS_EmptySet
  <2> QED BY <1>1, <2>1, <2>2, <2>3, <2>4 DEF GraphStands
<1> QED BY <1>4, <1>5, <1>6 DEF GraphInv

\* A search, or the amend, starts over.
LEMMA RestartKeeps ==
  ASSUME GraphInv, NEW query \in Filters, RestartCommitGraph(query),
         IsHistory(log'), log' # <<>>, filter' \in Filters
  PROVE  GraphInv'
<1>1. /\ graph' = EmptyGraph /\ nextCursor' = 0 /\ hasMore' = FALSE /\ loading' = TRUE
      /\ requestId' = requestId + 1 /\ requests' = requests \cup {Page(requestId', query, 0)}
      /\ pagesOf' = {}
  BY DEF RestartCommitGraph
<1>2. /\ requestId \in Nat
      /\ \A r \in requests : r \in PageRecord /\ r.id <= requestId /\ PageIsTrue(r)
      /\ \A r, other \in requests : r.id = other.id => r = other
  BY DEF GraphInv, RequestsStand
<1>3. PICK new : new = Page(requestId', query, 0)
  OBVIOUS
<1>4. new \in PageRecord /\ new.id = requestId' /\ new.offset = 0 /\ PageIsTrue(new)
  BY <1>1, <1>2, <1>3, FreshPage
<1>5. \A r \in requests : r.id < requestId' /\ r.id \in Nat
  BY <1>1, <1>2 DEF PageRecord
<1>6. requestId' \in Nat /\ requests' = requests \cup {new}
  BY <1>1, <1>2, <1>3
<1>7. RequestsStand'
  <2>1. \A r \in requests' : r \in PageRecord /\ r.id <= requestId' /\ PageIsTrue(r)
    BY <1>2, <1>4, <1>5, <1>6
  <2>2. \A r, other \in requests' : r.id = other.id => r = other
    BY <1>2, <1>4, <1>5, <1>6
  <2> QED BY <1>1, <1>6, <2>1, <2>2 DEF RequestsStand, PageIsTrue
<1>8. LoadingHasItsRequest'
  BY <1>4, <1>6 DEF LoadingHasItsRequest
<1>9. GraphStands'
  <2>1. Len(graph'.rows) = 0
    BY <1>1 DEF EmptyGraph
  <2>2. \A r \in requests' : r.id = requestId' => r.offset = 0
    BY <1>4, <1>5, <1>6
  <2>3. ASSUME NEW source, IsHistory(source) PROVE Laid(graph', source, 0)
    <3>1. Len(source) \in Nat
      BY <2>3 DEF IsHistory
    <3> QED BY <1>1, <3>1, EmptyGraphLaid
  <2>4. IsFiniteSet(pagesOf') /\ nextCursor' \in Nat /\ hasMore' # TRUE
    BY <1>1, FS_EmptySet
  <2> QED BY <1>1, <2>1, <2>2, <2>3, <2>4 DEF GraphStands, AsksOn
<1> QED BY <1>7, <1>8, <1>9 DEF GraphInv

\* The cursor moves, and asks for more.
LEMMA MoveKeeps ==
  ASSUME GraphInv, NEW down \in BOOLEAN, MoveGraphCursor(down)
  PROVE  GraphInv'
<1>1. /\ log' = log /\ graph' = graph /\ nextCursor' = nextCursor /\ hasMore' = hasMore
      /\ pagesOf' = pagesOf /\ filter' = filter
  BY DEF MoveGraphCursor
<1>2. RequestMore \/ UNCHANGED <<loading, requestId, requests>>
  BY DEF MoveGraphCursor
<1>3. CASE UNCHANGED <<loading, requestId, requests>>
  BY <1>1, <1>3 DEF GraphInv, RequestsStand, PageIsTrue, LoadingHasItsRequest, GraphStands, AsksOn
<1>4. CASE RequestMore /\ ~ (loading \/ ~ hasMore)
  <2>1. /\ loading' = TRUE /\ requestId' = requestId + 1
        /\ requests' = requests \cup {Page(requestId', NoFilter, nextCursor)}
    BY <1>4 DEF RequestMore
  <2>2. /\ requestId \in Nat /\ nextCursor \in Nat /\ IsHistory(log) /\ log # <<>>
        /\ filter \in Filters
        /\ \A r \in requests : r \in PageRecord /\ r.id <= requestId /\ PageIsTrue(r)
        /\ \A r, other \in requests : r.id = other.id => r = other
        /\ IsFiniteSet(pagesOf) /\ \A source \in pagesOf : IsHistory(source)
    BY DEF GraphInv, RequestsStand, GraphStands
  <2>3. PICK new : new = Page(requestId', NoFilter, nextCursor)
    OBVIOUS
  <2>4. new \in PageRecord /\ new.id = requestId' /\ new.offset = nextCursor /\ PageIsTrue(new)
    BY <2>1, <2>2, <2>3, FreshPage, GraphAssumption
  <2>5. \A r \in requests : r.id < requestId' /\ r.id \in Nat
    BY <2>1, <2>2 DEF PageRecord
  <2>6. requestId' \in Nat /\ requests' = requests \cup {new}
    BY <2>1, <2>2, <2>3
  <2>7. RequestsStand'
    <3>1. \A r \in requests' : r \in PageRecord /\ r.id <= requestId' /\ PageIsTrue(r)
      BY <2>2, <2>4, <2>5, <2>6
    <3>2. \A r, other \in requests' : r.id = other.id => r = other
      BY <2>2, <2>4, <2>5, <2>6
    <3> QED BY <1>1, <2>1, <2>2, <2>6, <3>1, <3>2 DEF RequestsStand, PageIsTrue
  <2>8. LoadingHasItsRequest'
    BY <2>4, <2>6 DEF LoadingHasItsRequest
  <2>9. ASSUME NEW source, IsHistory(source), pagesOf \subseteq {source}
        PROVE  Laid(graph, source, Len(graph.rows)) /\ AsksOn(Len(graph.rows))'
    <3>1. Laid(graph, source, Len(graph.rows)) /\ AsksOn(Len(graph.rows))
      BY <2>9 DEF GraphInv, GraphStands
    <3>2. hasMore = TRUE
      BY <1>4
    <3>3. nextCursor = Len(graph.rows)
      BY <3>1, <3>2 DEF AsksOn
    <3> QED BY <1>1, <2>4, <2>5, <2>6, <3>1, <3>3 DEF AsksOn
  <2>10. GraphStands'
    BY <1>1, <2>2, <2>9 DEF GraphStands
  <2> QED BY <2>7, <2>8, <2>10 DEF GraphInv
<1>5. CASE RequestMore /\ (loading \/ ~ hasMore)
  BY <1>3, <1>5 DEF RequestMore
<1> QED BY <1>2, <1>3, <1>4, <1>5

\* A request that changes keeps its number and where it begins.
LEMMA AnswerKeeps ==
  ASSUME GraphInv, NEW r \in requests, NEW new \in PageRecord, new.id = r.id, new.offset = r.offset,
         PageIsTrue(new), requests' = (requests \ {r}) \cup {new},
         UNCHANGED <<log, shownGraph, pagesOf>>
  PROVE  GraphInv'
<1>1. UNCHANGED <<log, graph, nextCursor, hasMore, loading, requestId, pagesOf, filter>>
  BY DEF shownGraph
<1>2. RequestsStand'
  <2>1. /\ requestId \in Nat /\ IsHistory(log) /\ log # <<>> /\ filter \in Filters
        /\ \A o \in requests : o \in PageRecord /\ o.id <= requestId /\ PageIsTrue(o)
        /\ \A o, other \in requests : o.id = other.id => o = other
        /\ \A o \in requests : o.id = requestId => loading = TRUE
    BY DEF GraphInv, RequestsStand
  <2>2. \A o \in requests' : o \in PageRecord /\ o.id <= requestId /\ PageIsTrue(o)
    BY <2>1
  <2>3. \A o, other \in requests' : o.id = other.id => o = other
    BY <2>1
  <2>4. \A o \in requests' : o.id = requestId => loading = TRUE
    BY <2>1
  <2> QED BY <1>1, <2>1, <2>2, <2>3, <2>4 DEF RequestsStand, PageIsTrue
<1>3. LoadingHasItsRequest'
  BY <1>1 DEF GraphInv, LoadingHasItsRequest
<1>4. GraphStands'
  <2>1. \A n : AsksOn(n) => AsksOn(n)'
    BY <1>1 DEF AsksOn
  <2> QED BY <1>1, <2>1 DEF GraphInv, GraphStands
<1> QED BY <1>2, <1>3, <1>4 DEF GraphInv

LEMMA ReadKeeps ==
  ASSUME GraphInv, NEW r \in requests, ReadPage(r)
  PROVE  GraphInv'
<1> DEFINE chosen == Found(r.filter)[Len(log)]
           rest == SubSeq(chosen, r.offset + 1, Len(chosen))
           page == SubSeq(rest, 1, Smaller(PageSize, Len(rest)))
           new == [r EXCEPT !.state = "ok", !.of = chosen, !.hasMore = Len(rest) > PageSize,
                            !.page = page]
<1>1. requests' = (requests \ {r}) \cup {new} /\ UNCHANGED <<log, shownGraph, pagesOf>>
  BY DEF ReadPage
<1>2. r \in PageRecord /\ IsHistory(log) /\ r.offset \in Nat
  <2>1. r \in PageRecord /\ IsHistory(log)
    BY DEF GraphInv, RequestsStand
  <2> QED BY <2>1 DEF PageRecord
<1>3. IsHistory(chosen)
  BY <1>2, FoundIsHistory
<1> HIDE DEF chosen
<1>4. chosen \in Seq(Commit)
  BY <1>3, HistoryIs
<1>5. IsPage(page, chosen, r.offset) /\ (Len(rest) > PageSize => Len(page) = PageSize)
  <2>1. rest = SubSeq(chosen, r.offset + 1, Len(chosen))
        /\ page = SubSeq(rest, 1, Smaller(PageSize, Len(rest)))
    OBVIOUS
  <2> HIDE DEF rest, page
  <2>2. ReadsPage(page, rest, chosen, r.offset)
    BY <1>2, <1>4, <2>1, PageTells, Zenon
  <2> QED BY <2>2 DEF ReadsPage
<1> HIDE DEF rest, page
<1>6. page \in Seq(Commit)
  BY <1>5 DEF IsPage
<1>7. /\ new \in PageRecord /\ new.id = r.id /\ new.offset = r.offset /\ new.of = chosen
      /\ new.page = page /\ (new.hasMore = TRUE => Len(rest) > PageSize)
  <2>1. PICK sel, p, more : sel = chosen /\ p = page /\ more = (Len(rest) > PageSize)
    OBVIOUS
  <2>2. sel \in Seq(Commit) /\ p \in Seq(Commit) /\ more \in BOOLEAN
    BY <1>4, <1>6, <2>1
  <2>3. new = [r EXCEPT !.state = "ok", !.of = sel, !.hasMore = more, !.page = p]
    BY <2>1
  <2> HIDE DEF new
  <2>4. /\ new \in PageRecord /\ new.id = r.id /\ new.offset = r.offset /\ new.of = sel
        /\ new.page = p /\ new.hasMore = more
    BY <1>2, <2>2, <2>3 DEF PageRecord
  <2> QED BY <2>1, <2>4
<1> HIDE DEF new
<1>8. PageIsTrue(new)
  BY <1>3, <1>5, <1>7 DEF PageIsTrue
<1> QED BY <1>1, <1>7, <1>8, AnswerKeeps

LEMMA ReadFailsKeeps ==
  ASSUME GraphInv, NEW r \in requests, ReadPageFails(r)
  PROVE  GraphInv'
<1> DEFINE new == [r EXCEPT !.state = "failed"]
<1>1. requests' = (requests \ {r}) \cup {new} /\ UNCHANGED <<log, shownGraph, pagesOf>>
  BY DEF ReadPageFails
<1>2. r \in PageRecord
  BY DEF GraphInv, RequestsStand
<1>3. new \in PageRecord /\ new.id = r.id /\ new.offset = r.offset /\ new.state # "ok"
  BY <1>2 DEF PageRecord
<1> HIDE DEF new
<1>4. PageIsTrue(new)
  BY <1>3 DEF PageIsTrue
<1> QED BY <1>1, <1>3, <1>4, AnswerKeeps

\* An answer is taken, unless it is of an earlier query.
LEMMA LoadedKeeps ==
  ASSUME GraphInv, NEW r \in requests, PageLoaded(r)
  PROVE  GraphInv'
<1>1. /\ requests' = requests \ {r} /\ r.state # "asked" /\ log' = log /\ requestId' = requestId
      /\ filter' = filter
  BY DEF PageLoaded
<1>2. /\ requestId \in Nat /\ IsHistory(log) /\ log # <<>> /\ filter \in Filters
      /\ \A o \in requests : o \in PageRecord /\ o.id <= requestId /\ PageIsTrue(o)
      /\ \A o, other \in requests : o.id = other.id => o = other
      /\ \A o \in requests : o.id = requestId => loading = TRUE
  BY DEF GraphInv, RequestsStand
<1>3. /\ IsFiniteSet(pagesOf) /\ nextCursor \in Nat /\ \A source \in pagesOf : IsHistory(source)
      /\ \A source : IsHistory(source) /\ pagesOf \subseteq {source} =>
           Laid(graph, source, Len(graph.rows)) /\ AsksOn(Len(graph.rows))
  BY DEF GraphInv, GraphStands
<1>4. CASE r.id # requestId
  <2>1. UNCHANGED <<graph, nextCursor, hasMore, loading, pagesOf>>
    BY <1>4 DEF PageLoaded
  <2>2. RequestsStand'
    BY <1>1, <1>2, <2>1 DEF RequestsStand, PageIsTrue
  <2>3. LoadingHasItsRequest'
    BY <1>1, <1>4, <2>1 DEF GraphInv, LoadingHasItsRequest
  <2>4. \A n : AsksOn(n) => AsksOn(n)'
    BY <1>1, <2>1 DEF AsksOn
  <2>5. GraphStands'
    BY <1>3, <2>1, <2>4 DEF GraphStands
  <2> QED BY <2>2, <2>3, <2>5 DEF GraphInv
<1>5. CASE r.id = requestId
  <2>1. loading' = FALSE /\ \A o \in requests' : o.id # requestId'
    BY <1>1, <1>2, <1>5 DEF PageLoaded
  <2>2. RequestsStand'
    BY <1>1, <1>2, <2>1 DEF RequestsStand, PageIsTrue
  <2>3. LoadingHasItsRequest'
    BY <2>1 DEF LoadingHasItsRequest
  <2>4. GraphStands'
    <3>1. CASE r.state = "failed"
      <4>1. UNCHANGED <<graph, nextCursor, hasMore, pagesOf>>
        BY <1>5, <3>1 DEF PageLoaded
      <4>2. \A n : AsksOn(n) => AsksOn(n)'
        BY <1>1, <2>1, <4>1 DEF AsksOn
      <4> QED BY <1>3, <4>1, <4>2 DEF GraphStands
    <3>2. CASE r.state = "ok"
      <4>1. /\ graph' = AppendPage(graph, r.page) /\ hasMore' = r.hasMore
            /\ nextCursor' = IF r.hasMore THEN r.offset + PageSize ELSE 0
            /\ pagesOf' = pagesOf \cup {r.of}
        BY <1>5, <3>2 DEF PageLoaded
      <4>2. /\ IsHistory(r.of) /\ IsPage(r.page, r.of, r.offset)
            /\ r.hasMore = TRUE => Len(r.page) = PageSize
        BY <1>2, <3>2 DEF PageIsTrue
      <4>3. r.offset \in Nat /\ PageSize \in Nat /\ r.hasMore \in BOOLEAN
        BY <1>2, GraphAssumption DEF PageRecord
      <4>4. IsFiniteSet(pagesOf') /\ \A source \in pagesOf' : IsHistory(source)
        BY <1>3, <4>1, <4>2, FS_AddElement
      <4>5. nextCursor' \in Nat
        BY <4>1, <4>3
      <4>6. ASSUME NEW source, pagesOf' \subseteq {source}
            PROVE  Laid(graph', source, Len(graph'.rows)) /\ AsksOn(Len(graph.rows))'
        <5>1. source = r.of /\ pagesOf \subseteq {source}
          BY <4>1, <4>6
        <5>2. PICK n, p : n = Len(graph.rows) /\ p = r.page
          OBVIOUS
        <5>3. Laid(graph, source, n) /\ AsksOn(n)
          BY <1>3, <4>2, <5>1, <5>2
        <5>4. r.offset = n
          BY <1>5, <5>3 DEF AsksOn
        <5>5. IsPage(p, source, n) /\ IsHistory(source)
          BY <4>2, <5>1, <5>2, <5>4
        <5>6. Laid(AppendPage(graph, p), source, n + Len(p))
          BY <5>3, <5>5, AppendPageLays, Zenon
        <5>7. Laid(graph', source, n + Len(p))
          BY <4>1, <5>2, <5>6
        <5>8. Len(graph'.rows) = n + Len(p)
          BY <5>7 DEF Laid
        <5>9. hasMore' = TRUE => nextCursor' = n + Len(p)
          BY <4>1, <4>2, <5>2, <5>4
        <5> QED BY <2>1, <5>7, <5>8, <5>9 DEF AsksOn
      <4> QED BY <4>4, <4>5, <4>6 DEF GraphStands
    <3>3. r.state \in {"asked", "ok", "failed"}
      BY <1>2 DEF PageRecord
    <3> QED BY <1>1, <3>1, <3>2, <3>3
  <2> QED BY <2>2, <2>3, <2>4 DEF GraphInv
<1> QED BY <1>4, <1>5

LEMMA GraphInvKept == GraphInv /\ [GraphNext]_graphVars => GraphInv'
<1> SUFFICES ASSUME GraphInv, [GraphNext]_graphVars PROVE GraphInv'
  OBVIOUS
<1>1. IsHistory(log) /\ log # <<>> /\ filter \in Filters
  BY DEF GraphInv, RequestsStand
<1>2. CASE Commits
  <2>1. IsHistory(log') /\ log' # <<>>
    BY <1>1, <1>2, LogChanges
  <2>2. UNCHANGED <<graph, nextCursor, hasMore, loading, requestId, requests, pagesOf, filter>>
    BY <1>2 DEF Commits, shownGraph
  <2> QED BY <2>1, <2>2
          DEF GraphInv, RequestsStand, PageIsTrue, LoadingHasItsRequest, GraphStands, AsksOn
<1>3. CASE AmendFinished
  <2>1. IsHistory(log') /\ log' # <<>>
    BY <1>1, <1>3, LogChanges
  <2>2. RestartCommitGraph(filter) /\ filter' = filter
    BY <1>3 DEF AmendFinished
  <2> QED BY <1>1, <2>1, <2>2, RestartKeeps
<1>4. ASSUME NEW query \in Filters, SubmitCommitSearch(query) PROVE GraphInv'
  <2>1. RestartCommitGraph(query) /\ filter' = query /\ log' = log
    BY <1>4 DEF SubmitCommitSearch
  <2> QED BY <1>1, <2>1, RestartKeeps
<1>5. ASSUME NEW down \in BOOLEAN, MoveGraphCursor(down) PROVE GraphInv'
  BY <1>5, MoveKeeps
<1>6. ASSUME NEW r \in requests, ReadPage(r) PROVE GraphInv'
  BY <1>6, ReadKeeps
<1>7. ASSUME NEW r \in requests, ReadPageFails(r) PROVE GraphInv'
  BY <1>7, ReadFailsKeeps
<1>8. ASSUME NEW r \in requests, PageLoaded(r) PROVE GraphInv'
  BY <1>8, LoadedKeeps
<1>9. CASE UNCHANGED graphVars
  BY <1>9 DEF graphVars, shownGraph, GraphInv, RequestsStand, PageIsTrue, LoadingHasItsRequest,
              GraphStands, AsksOn
<1> QED BY <1>2, <1>3, <1>4, <1>5, <1>6, <1>7, <1>8, <1>9 DEF GraphNext

\* The inductive invariant of the panel with the graph: as long as its pages are of one
\* history, the graph is that of the first commits of it, and what is current asks for the
\* ones after them (request_more_graph_commits, on_commit_graph_page_loaded).
THEOREM GraphFollowsHistory == GraphSpec => []GraphInv
BY GraphInvHolds, GraphInvKept, PTL DEF GraphSpec

\* A panel that is loading has its request under way (graph_loading and graph_request_id),
\* whatever answers of earlier requests arrive.
THEOREM LoadingEnds == GraphSpec => []LoadingHasItsRequest
<1>1. GraphInv => LoadingHasItsRequest
  BY DEF GraphInv
<1> QED BY <1>1, GraphFollowsHistory, PTL

\* What LayoutIsTrue says of a graph of one history.
LEMMA LaidIsTrue ==
  ASSUME NEW source, IsHistory(source), Laid(graph, source, Len(graph.rows)), NEW i \in Rows
  PROVE  /\ graph.rows[i].commit = source[i].hash
         /\ [e \in DOMAIN graph.rows[i].edges |-> graph.rows[i].edges[e].target] = source[i].parents
         /\ \A edge \in Edges(i) :
               /\ edge.resolved = (\E j \in Rows : Draws(j, edge))
               /\ \A k \in i + 1 .. Len(graph.rows) :
                     /\ Draws(k, edge) => graph.rows[k].lane = edge.to
                     /\ Before(edge, i, k) => edge.to \in graph.rows[k].passthrough
         /\ \A lane \in graph.rows[i].passthrough :
               \E h \in 1 .. i - 1 : \E edge \in Edges(h) : edge.to = lane /\ Before(edge, h, i)
<1> DEFINE rows == graph.rows
           n == Len(rows)
<1>1. /\ n \in 0..Len(source) /\ rows \in Seq(GraphRow) /\ \A j \in 1..n : LaidRow(rows, source, n, j)
  BY DEF Laid
<1>2. /\ source \in Seq(Commit)
      /\ \A j \in DOMAIN source : \A k \in DOMAIN source[j].parents : source[j].parents[k] < source[j].hash
      /\ \A j, k \in DOMAIN source : j < k => source[k].hash < source[j].hash
  BY HistoryIs, Zenon
<1>3. /\ Len(source) \in Nat /\ DOMAIN source = 1..Len(source)
      /\ \A j \in DOMAIN source : source[j] \in Commit
  BY <1>2
<1>4. \A j \in DOMAIN source : source[j].hash \in Nat \ {0} /\ source[j].parents \in Seq(Nat \ {0})
  BY <1>3 DEF Commit
<1>5. n \in Nat /\ Rows = 1..n /\ \A j \in 1..n : j \in DOMAIN source /\ rows[j] \in GraphRow
  BY <1>1, <1>3 DEF Rows
<1> HIDE DEF rows, n
<1>6. \A j \in 1..n : /\ rows[j].commit = source[j].hash
                      /\ Len(rows[j].edges) = Len(source[j].parents)
                      /\ rows[j].edges \in Seq(GraphEdge)
  BY <1>1, <1>5 DEF LaidRow, GraphRow
<1>7. \A j \in 1..n : \A e \in DOMAIN rows[j].edges :
        /\ rows[j].edges[e] \in GraphEdge /\ e \in DOMAIN source[j].parents
        /\ rows[j].edges[e].target = source[j].parents[e]
  <2>1. TAKE j \in 1..n
  <2>2. rows[j].edges \in Seq(GraphEdge) /\ source[j].parents \in Seq(Nat \ {0})
        /\ Len(rows[j].edges) = Len(source[j].parents)
    BY <1>4, <1>5, <1>6
  <2>3. \A e \in DOMAIN rows[j].edges : rows[j].edges[e] \in GraphEdge /\ e \in DOMAIN source[j].parents
    BY <2>2
  <2> QED BY <1>1, <2>3 DEF LaidRow
\* A commit that has come before row j is not the parent of one of rows 1 to j.
<1>8. ASSUME NEW j \in 1..n, NEW e \in DOMAIN rows[j].edges, NEW k \in j..n
      PROVE  rows[j].edges[e].target \in Came(source, 1, k) <=>
               \E m \in j + 1 .. k : rows[m].commit = rows[j].edges[e].target
  <2>1. PICK target : target = rows[j].edges[e].target
    OBVIOUS
  <2>2. target < source[j].hash /\ target \in Nat
    BY <1>2, <1>5, <1>7, <2>1 DEF GraphEdge
  <2>3. ASSUME NEW m \in 1..k, source[m].hash = target PROVE m \in j + 1 .. k
    <3>1. m \in DOMAIN source /\ j \in DOMAIN source
      BY <1>5
    <3>2. m # j
      BY <1>4, <2>2, <2>3, <3>1
    <3>3. ~ m < j
      BY <1>2, <1>4, <2>2, <2>3, <3>1
    <3> QED BY <1>5, <3>2, <3>3
  <2>4. \A m \in j + 1 .. k : m \in 1..k /\ m \in 1..n
    BY <1>5
  <2>5. target \in Came(source, 1, k) <=> \E m \in 1..k : source[m].hash = target
    BY DEF Came
  <2> QED BY <1>6, <2>1, <2>3, <2>4, <2>5
<1>9. i \in 1..n
  BY <1>5
<1>10. LaidRow(rows, source, n, i)
  BY <1>1, <1>9
<1>11. [e \in DOMAIN rows[i].edges |-> rows[i].edges[e].target] = source[i].parents
  <2>1. source[i].parents \in Seq(Nat \ {0}) /\ rows[i].edges \in Seq(GraphEdge)
        /\ Len(rows[i].edges) = Len(source[i].parents)
    BY <1>4, <1>5, <1>6, <1>9
  <2>2. DOMAIN rows[i].edges = DOMAIN source[i].parents
        /\ source[i].parents = [e \in DOMAIN source[i].parents |-> source[i].parents[e]]
    BY <2>1
  <2>3. \A e \in DOMAIN rows[i].edges : rows[i].edges[e].target = source[i].parents[e]
    BY <1>7, <1>9
  <2> QED BY <2>2, <2>3
<1>12. ASSUME NEW edge \in Edges(i)
       PROVE  /\ edge.resolved = (\E j \in Rows : Draws(j, edge))
              /\ \A k \in i + 1 .. n :
                   /\ Draws(k, edge) => rows[k].lane = edge.to
                   /\ Before(edge, i, k) => edge.to \in rows[k].passthrough
  <2>1. PICK e \in DOMAIN rows[i].edges : edge = rows[i].edges[e]
    BY <1>12 DEF Edges, rows
  <2>2. edge \in GraphEdge
    BY <1>7, <1>9, <2>1
  <2>3. /\ edge.resolved <=> edge.target \in Came(source, 1, n)
        /\ \A k \in i + 1 .. n :
             /\ source[k].hash = edge.target => rows[k].lane = edge.to
             /\ edge.target \notin Came(source, 1, k) => edge.to \in rows[k].passthrough
    BY <1>10, <2>1 DEF LaidRow
  <2>4. \A j : Draws(j, edge) <=> rows[j].commit = edge.target
    BY DEF Draws, rows
  <2>5. edge.resolved <=> \E j \in Rows : Draws(j, edge)
    <3>1. n \in i..n
      BY <1>5, <1>9
    <3>2. edge.target \in Came(source, 1, n) <=> \E m \in i + 1 .. n : rows[m].commit = edge.target
      BY <1>8, <1>9, <2>1, <3>1
    <3>3. edge.target \in Came(source, 1, n) <=> \E m \in 1..n : source[m].hash = edge.target
      BY DEF Came
    <3> QED BY <1>5, <1>6, <2>3, <2>4, <3>3
  <2>6. edge.resolved \in BOOLEAN
    BY <2>2 DEF GraphEdge
  <2>7. edge.resolved = (\E j \in Rows : Draws(j, edge))
    BY <2>5, <2>6, Zenon
  <2>8. ASSUME NEW k \in i + 1 .. n
        PROVE  /\ Draws(k, edge) => rows[k].lane = edge.to
               /\ Before(edge, i, k) => edge.to \in rows[k].passthrough
    <3>1. k \in 1..n /\ k \in i..n
      BY <1>5, <1>9
    <3>2. edge.target \in Came(source, 1, k) <=> \E m \in i + 1 .. k : rows[m].commit = edge.target
      BY <1>8, <1>9, <2>1, <3>1
    <3>3. Before(edge, i, k) => edge.target \notin Came(source, 1, k)
      BY <2>4, <3>2 DEF Before
    <3> QED BY <1>6, <2>3, <2>4, <3>1, <3>3
  <2> QED BY <2>7, <2>8
<1>13. ASSUME NEW lane \in rows[i].passthrough
       PROVE  \E h \in 1 .. i - 1 : \E edge \in Edges(h) : edge.to = lane /\ Before(edge, h, i)
  <2>1. PICK h \in 1..i - 1 : \E e \in DOMAIN rows[h].edges :
          rows[h].edges[e].to = lane /\ rows[h].edges[e].target \notin Came(source, 1, i)
    BY <1>10 DEF LaidRow
  <2>2. PICK e \in DOMAIN rows[h].edges :
          rows[h].edges[e].to = lane /\ rows[h].edges[e].target \notin Came(source, 1, i)
    BY <2>1
  <2>3. PICK edge : edge = rows[h].edges[e]
    OBVIOUS
  <2>4. h \in 1..n /\ i \in h..n
    BY <1>5, <1>9
  <2>5. ~ \E m \in h + 1 .. i : rows[m].commit = edge.target
    BY <1>8, <2>2, <2>3, <2>4
  <2>6. edge \in Edges(h)
    BY <2>3 DEF Edges, rows
  <2>7. Before(edge, h, i)
    BY <2>5 DEF Before, Draws, rows
  <2> QED BY <2>2, <2>3, <2>6, <2>7
<1> QED BY <1>6, <1>9, <1>11, <1>12, <1>13 DEF rows, n

\* The graph is that of its commits (append_page): for any histories, pages of any size and
\* any number of them.
THEOREM LinesReachParents == GraphSpec => []LayoutIsTrue
<1>1. GraphInv => LayoutIsTrue
  <2> SUFFICES ASSUME GraphInv, Cardinality(pagesOf) = 1, NEW i \in Rows
               PROVE  LET source == CHOOSE l \in pagesOf : TRUE
                      IN  /\ graph.rows[i].commit = source[i].hash
                          /\ [e \in DOMAIN graph.rows[i].edges |-> graph.rows[i].edges[e].target] =
                                source[i].parents
                          /\ \A edge \in Edges(i) :
                                /\ edge.resolved = (\E j \in Rows : Draws(j, edge))
                                /\ \A k \in i + 1 .. Len(graph.rows) :
                                      /\ Draws(k, edge) => graph.rows[k].lane = edge.to
                                      /\ Before(edge, i, k) => edge.to \in graph.rows[k].passthrough
                          /\ \A lane \in graph.rows[i].passthrough :
                                \E h \in 1 .. i - 1 : \E edge \in Edges(h) :
                                   edge.to = lane /\ Before(edge, h, i)
    BY Zenon DEF LayoutIsTrue
  <2>1. IsFiniteSet(pagesOf) /\ \A source \in pagesOf : IsHistory(source)
    BY DEF GraphInv, GraphStands
  <2>2. PICK s : pagesOf = {s}
    BY <2>1, FS_Singleton
  <2>3. s = CHOOSE l \in pagesOf : TRUE
    BY <2>2
  <2>4. IsHistory(s) /\ Laid(graph, s, Len(graph.rows))
    BY <2>1, <2>2 DEF GraphInv, GraphStands
  <2> HIDE DEF Rows
  <2> QED BY <2>3, <2>4, LaidIsTrue, Zenon
<1> QED BY <1>1, GraphFollowsHistory, PTL

(***************************************************************************)
(* Whose keys they are.                                                    *)
(***************************************************************************)

\* The first of those present, of which the k-th of an order is one.
LEMMA FirstOfIs ==
  ASSUME NEW n \in Nat, NEW order, DOMAIN order = 1..n, NEW present,
         NEW k \in 1..n, order[k] \in present
  PROVE  \E i \in 1..k : /\ FirstOf(order, present) = order[i] /\ order[i] \in present
                         /\ \A j \in 1..i - 1 : order[j] \notin present
<1> DEFINE P(i) == order[i] \in present /\ \A j \in 1..i - 1 : order[j] \notin present
           T == {i \in 1..n : order[i] \in present}
<1>1. T \subseteq Nat /\ k \in T
  OBVIOUS
<1>2. PICK x \in T : \A y \in T : x <= y
  BY <1>1, LeastNumber
<1>3. x \in 1..n /\ P(x)
  BY <1>2
<1>4. PICK i : i = CHOOSE l \in 1..n : P(l)
  OBVIOUS
<1>5. i \in 1..n /\ P(i)
  BY <1>3, <1>4
<1>6. i \in 1..k
  BY <1>5
<1>7. FirstOf(order, present) = order[i]
  <2>1. ~ \A m \in DOMAIN order : order[m] \notin present
    OBVIOUS
  <2> QED BY <1>4, <2>1 DEF FirstOf
<1> QED BY <1>5, <1>6, <1>7

LEMMA NoneOfIs ==
  ASSUME NEW order, NEW present, \A i \in DOMAIN order : order[i] \notin present
  PROVE  FirstOf(order, present) = "normal"
BY DEF FirstOf

LEMMA ContextOrderIs ==
  /\ DOMAIN ContextOrder = 1..14
  /\ ContextOrder[1] = "help" /\ ContextOrder[2] = "commitDetails"
  /\ ContextOrder[3] = "referenceDetails" /\ ContextOrder[4] = "reflogDetails"
  /\ ContextOrder[5] = "conflicts" /\ ContextOrder[6] = "reword" /\ ContextOrder[7] = "plan"
  /\ ContextOrder[8] = "resetMode" /\ ContextOrder[9] = "commit" /\ ContextOrder[10] = "amend"
  /\ ContextOrder[11] = "rename" /\ ContextOrder[12] = "branch"
  /\ ContextOrder[13] = "commitSearch" /\ ContextOrder[14] = "search"
BY DEF ContextOrder

LEMMA DismissOrderIs ==
  /\ DOMAIN DismissOrder = 1..16
  /\ DismissOrder[1] = "help" /\ DismissOrder[2] = "commitDetails"
  /\ DismissOrder[3] = "referenceDetails" /\ DismissOrder[4] = "reflogDetails"
  /\ DismissOrder[5] = "commit" /\ DismissOrder[6] = "amend" /\ DismissOrder[7] = "reword"
  /\ DismissOrder[8] = "plan" /\ DismissOrder[9] = "resetMode" /\ DismissOrder[10] = "rename"
  /\ DismissOrder[11] = "branch" /\ DismissOrder[12] = "commitSearch"
  /\ DismissOrder[13] = "search" /\ DismissOrder[14] = "patch" /\ DismissOrder[15] = "conflicts"
  /\ DismissOrder[16] = "sync"
BY DEF DismissOrder

LEMMA DrawOrderIs ==
  /\ DOMAIN DrawOrder = 1..13
  /\ DrawOrder[1] = "commitDetails" /\ DrawOrder[2] = "referenceDetails"
  /\ DrawOrder[3] = "reflogDetails" /\ DrawOrder[4] = "amend" /\ DrawOrder[5] = "commit"
  /\ DrawOrder[6] = "operation" /\ DrawOrder[7] = "conflicts" /\ DrawOrder[8] = "reword"
  /\ DrawOrder[9] = "plan" /\ DrawOrder[10] = "resetMode" /\ DrawOrder[11] = "branch"
  /\ DrawOrder[12] = "sync" /\ DrawOrder[13] = "forge"
BY DEF DrawOrder

LEMMA HintOrderIs ==
  /\ DOMAIN HintOrder = 1..13
  /\ HintOrder[1] = "commitDetails" /\ HintOrder[2] = "referenceDetails"
  /\ HintOrder[3] = "reflogDetails" /\ HintOrder[4] = "amend" /\ HintOrder[5] = "conflicts"
  /\ HintOrder[6] = "reword" /\ HintOrder[7] = "plan" /\ HintOrder[8] = "conflicted"
  /\ HintOrder[9] = "commitSearch" /\ HintOrder[10] = "search" /\ HintOrder[11] = "branch"
  /\ HintOrder[12] = "commit" /\ HintOrder[13] = "outcome"
BY DEF HintOrder

LEMMA FirstContext ==
  ASSUME NEW present, NEW k \in 1..14, ContextOrder[k] \in present
  PROVE  \E i \in 1..k : /\ FirstOf(ContextOrder, present) = ContextOrder[i]
                         /\ ContextOrder[i] \in present
<1>1. 14 \in Nat /\ DOMAIN ContextOrder = 1..14
  BY ContextOrderIs
<1> HIDE DEF ContextOrder
<1> QED BY <1>1, FirstOfIs

LEMMA FirstDismiss ==
  ASSUME NEW present, NEW k \in 1..16, DismissOrder[k] \in present
  PROVE  \E i \in 1..k : /\ FirstOf(DismissOrder, present) = DismissOrder[i]
                         /\ DismissOrder[i] \in present
<1>1. 16 \in Nat /\ DOMAIN DismissOrder = 1..16
  BY DismissOrderIs
<1> HIDE DEF DismissOrder
<1> QED BY <1>1, FirstOfIs

LEMMA FirstDraw ==
  ASSUME NEW present, NEW k \in 1..13, DrawOrder[k] \in present
  PROVE  \E i \in 1..k : /\ FirstOf(DrawOrder, present) = DrawOrder[i]
                         /\ DrawOrder[i] \in present
<1>1. 13 \in Nat /\ DOMAIN DrawOrder = 1..13
  BY DrawOrderIs
<1> HIDE DEF DrawOrder
<1> QED BY <1>1, FirstOfIs

LEMMA FirstHint ==
  ASSUME NEW present, NEW k \in 1..13, HintOrder[k] \in present
  PROVE  \E i \in 1..k : /\ FirstOf(HintOrder, present) = HintOrder[i]
                         /\ HintOrder[i] \in present
<1>1. 13 \in Nat /\ DOMAIN HintOrder = 1..13
  BY HintOrderIs
<1> HIDE DEF HintOrder
<1> QED BY <1>1, FirstOfIs

LEMMA OverlaysAre ==
  Overlays = {"help", "commitDetails", "referenceDetails", "reflogDetails", "conflicts", "reword",
              "plan", "resetMode", "commit", "amend", "rename", "branch", "commitSearch", "search"}
<1>1. Overlays = {ContextOrder[i] : i \in 1..14}
  BY ContextOrderIs DEF Overlays, ToSet
<1> QED BY <1>1, ContextOrderIs

\* What may be open: nothing, one overlay, or a plan and the prompt over it.
OverlaySets ==
  {{}, {"plan", "reword"}}
    \cup {{o} : o \in {"help", "commitDetails", "referenceDetails", "reflogDetails", "conflicts",
                       "plan", "resetMode", "commit", "amend", "rename", "branch",
                       "commitSearch", "search"}}

LEMMA ContextIs ==
  ASSUME overlays \in OverlaySets, operation.at = "idle"
  PROVE  /\ overlays = {} => Context = "normal"
         /\ overlays = {"plan", "reword"} => Context = "reword"
         /\ \A o : overlays = {o} => Context = o /\ o \in Overlays
<1>1. CASE overlays = {}
  <2>1. \A i \in DOMAIN ContextOrder : ContextOrder[i] \notin {}
    OBVIOUS
  <2>2. FirstOf(ContextOrder, {}) = "normal"
    BY <2>1, NoneOfIs
  <2> QED BY <1>1, <2>2 DEF Context
<1>2. CASE overlays = {"plan", "reword"}
  <2> 6 \in 1..14 /\ ContextOrder[6] \in {"plan", "reword"}
    BY ContextOrderIs
  <2>1. PICK i \in 1..6 : FirstOf(ContextOrder, {"plan", "reword"}) = ContextOrder[i]
                          /\ ContextOrder[i] \in {"plan", "reword"}
    BY FirstContext
  <2>2. ContextOrder[i] = "reword"
    BY <2>1, ContextOrderIs
  <2> QED BY <1>2, <2>1, <2>2 DEF Context
<1>3. ASSUME NEW o, overlays = {o} PROVE Context = o /\ o \in Overlays
  <2>1. o \in Overlays /\ o # "reword"
    BY <1>3, OverlaysAre DEF OverlaySets
  <2>2. PICK k \in 1..14 : ContextOrder[k] = o
    BY <2>1, ContextOrderIs DEF Overlays, ToSet
  <2>3. FirstOf(ContextOrder, {o}) = o
    <3>1. ContextOrder[k] \in {o}
      BY <2>2
    <3>2. PICK i \in 1..k : FirstOf(ContextOrder, {o}) = ContextOrder[i] /\ ContextOrder[i] \in {o}
      BY <3>1, FirstContext
    <3> QED BY <3>2
  <2>4. (IF "plan" \in overlays THEN overlays ELSE overlays \ {"reword"}) = {o}
    BY <1>3, <2>1
  <2> QED BY <2>1, <2>3, <2>4 DEF Context
<1> QED BY <1>1, <1>2, <1>3

\* What has the keys, when they are not an operation's.
LEMMA ContextCases ==
  ASSUME overlays \in OverlaySets, operation.at = "idle"
  PROVE  \/ overlays = {} /\ Context = "normal"
         \/ overlays = {"plan", "reword"} /\ Context = "reword"
         \/ overlays = {Context} /\ Context \in Overlays \ {"reword"}
<1>1. CASE overlays = {}
  BY <1>1, ContextIs
<1>2. CASE overlays = {"plan", "reword"}
  BY <1>2, ContextIs
<1>3. CASE \E o \in Overlays \ {"reword"} : overlays = {o}
  BY <1>3, ContextIs
<1> QED BY <1>1, <1>2, <1>3, OverlaysAre DEF OverlaySets

\* What Esc closes.
LEMMA DismissTopIs ==
  ASSUME overlays \in OverlaySets, reports \subseteq {"patch", "sync"}, NEW top,
         top = FirstOf(DismissOrder, overlays \cup reports)
  PROVE  /\ overlays = {} => top \in {"patch", "sync", "normal"}
         /\ overlays = {"plan", "reword"} => top = "reword"
         /\ \A o : overlays = {o} =>
                top = o \/ (top = "patch" /\ o = "conflicts" /\ "patch" \in reports)
<1>1. CASE overlays = {}
  <2>1. CASE reports = {}
    <3>1. \A i \in DOMAIN DismissOrder : DismissOrder[i] \notin overlays \cup reports
      BY <1>1, <2>1
    <3>2. top = "normal"
      BY <3>1, NoneOfIs
    <3> QED BY <1>1, <3>2
  <2>2. CASE reports # {}
    <3>1. PICK k \in {14, 16} : DismissOrder[k] \in reports
      BY <2>2, DismissOrderIs
    <3>2. k \in 1..16 /\ DismissOrder[k] \in overlays \cup reports
      BY <3>1
    <3>3. PICK i \in 1..k : top = DismissOrder[i] /\ DismissOrder[i] \in overlays \cup reports
      BY <3>2, FirstDismiss
    <3> QED BY <1>1, <3>3
  <2> QED BY <2>1, <2>2
<1>2. CASE overlays = {"plan", "reword"}
  <2>1. 7 \in 1..16 /\ DismissOrder[7] \in overlays \cup reports
    BY <1>2, DismissOrderIs
  <2>2. PICK i \in 1..7 : top = DismissOrder[i] /\ DismissOrder[i] \in overlays \cup reports
    BY <2>1, FirstDismiss
  <2>3. top = "reword"
    BY <1>2, <2>2, DismissOrderIs
  <2> QED BY <1>2, <2>3
<1>3. ASSUME NEW o, overlays = {o}
      PROVE  top = o \/ (top = "patch" /\ o = "conflicts" /\ "patch" \in reports)
  <2>1. o \in Overlays
    BY <1>3, OverlaysAre DEF OverlaySets
  <2>2. PICK k \in 1..15 \ {14} : DismissOrder[k] = o
    BY <2>1, OverlaysAre, DismissOrderIs
  <2>3. k \in 1..16 /\ DismissOrder[k] \in overlays \cup reports
    BY <1>3, <2>2
  <2>4. PICK i \in 1..k : top = DismissOrder[i] /\ DismissOrder[i] \in overlays \cup reports
    BY <2>3, FirstDismiss
  <2>5. CASE DismissOrder[i] = o
    BY <2>4, <2>5
  <2>6. CASE DismissOrder[i] \in reports
    <3>1. i \in {14, 16}
      BY <2>4, <2>6, DismissOrderIs
    <3>2. i = 14 /\ k = 15
      BY <2>2, <3>1
    <3> QED BY <2>2, <2>4, <2>6, <3>2, DismissOrderIs
  <2> QED BY <1>3, <2>4, <2>5, <2>6
<1> QED BY <1>1, <1>2, <1>3

(***************************************************************************)
(* What is open, asked about and edited at one time.                       *)
(***************************************************************************)
OverlaysStand == overlays \in OverlaySets /\ reports \subseteq {"patch", "sync"}

\* What lies under an operation begun in a composer is that composer, or nothing.
OperationStands ==
  /\ operation \in [at : {"idle"} \cup OperationContexts,
                    by : {Absent, "request", "commit", "amend", "plan"}]
  /\ operation.at # "idle" =>
       \/ operation.by = "request"
       \/ operation.by \in {"commit", "amend", "plan"} /\ overlays \subseteq {operation.by}

Entry ==
  [commit : {Rebased[i] : i \in DOMAIN Rebased},
   action : {"pick", "reword", "squash", "fixup", "drop"},
   message : {Absent, "blank", "text"}]
Drafts == [DOMAIN Rebased -> Entry]

\* A plan is there only while it is open; a prompt is for the entry under the cursor.
PlanStands ==
  /\ draft = Absent \/ (draft \in Drafts /\ "plan" \in overlays)
  /\ draft # Absent => planCursor = 1 \/ planCursor \in DOMAIN Rebased
  /\ "reword" \in overlays =>
       /\ draft \in Drafts /\ planCursor \in DOMAIN Rebased
       /\ rewording = Absent \/ rewording = draft[planCursor].commit

KeyInv == OverlaysStand /\ OperationStands /\ PlanStands

LEMMA PromptedIs ==
  ASSUME NEW o
  PROVE  Prompted({o}) = {IF o = "rename" THEN "branch" ELSE o}
BY DEF Prompted

\* What is drawn on top of one overlay and the reports under it.
LEMMA TopIs ==
  ASSUME reports \subseteq {"patch", "sync"}, NEW o, overlays = {o},
         o \in Overlays \ {"reword", "search", "commitSearch", "help"}
  PROVE  FirstOf(DrawOrder, Prompted(overlays) \cup reports) \in Prompted({o})
<1>1. PICK p : p = IF o = "rename" THEN "branch" ELSE o
  OBVIOUS
<1>2. Prompted(overlays) = {p}
  BY <1>1, PromptedIs
<1>3. PICK k \in 1..11 : DrawOrder[k] = p
  BY <1>1, OverlaysAre, DrawOrderIs
<1>4. k \in 1..13 /\ DrawOrder[k] \in {p} \cup reports
  BY <1>3
<1>5. PICK i \in 1..k : /\ FirstOf(DrawOrder, {p} \cup reports) = DrawOrder[i]
                        /\ DrawOrder[i] \in {p} \cup reports
  BY <1>4, FirstDraw
<1>6. DrawOrder[i] \notin reports
  BY <1>3, <1>5, DrawOrderIs
<1> QED BY <1>2, <1>5, <1>6

LEMMA HintIs ==
  ASSUME reports \subseteq {"patch", "sync"}, NEW o, overlays = {o},
         o \in Overlays \ {"reword", "help", "resetMode"}
  PROVE  FirstOf(HintOrder, Prompted(overlays) \cup reports) \in Prompted({o})
<1>1. PICK p : p = IF o = "rename" THEN "branch" ELSE o
  OBVIOUS
<1>2. Prompted(overlays) = {p}
  BY <1>1, PromptedIs
<1>4. PICK m \in 1..13 : HintOrder[m] = p
  BY <1>1, OverlaysAre, HintOrderIs
<1>5. HintOrder[m] \in {p} \cup reports
  BY <1>4
<1>6. PICK i \in 1..m : /\ FirstOf(HintOrder, {p} \cup reports) = HintOrder[i]
                        /\ HintOrder[i] \in {p} \cup reports
  BY <1>5, FirstHint
<1>7. HintOrder[i] \notin {"patch", "sync"}
  BY <1>4, <1>6, HintOrderIs
<1> QED BY <1>2, <1>6, <1>7

LEMMA ScreenTells == KeyInv => ScreenTellsContext
<1> SUFFICES ASSUME KeyInv PROVE ScreenTellsContext
  OBVIOUS
<1>1. PICK of : of = Context
  OBVIOUS
<1>2. PICK top : top = TopOverlay(overlays, reports, operation.at)
  OBVIOUS
<1>3. PICK hint : hint = Hint(overlays, reports, operation.at)
  OBVIOUS
<1> DEFINE Told ==
      CASE of \in OperationContexts ->
              /\ hint = of
              /\ \/ top \in {"operation", operation.by}
                 \/ operation.by = "request" /\ top \in Prompted(overlays)
         [] of \in Overlays ->
              /\ of \notin {"help", "resetMode"} => {hint} = Prompted({of})
              /\ of \notin {"search", "commitSearch"} => {top} = Prompted({of})
         [] of = "normal" -> hint = "normal" /\ top \in reports \cup {"normal"}
<1>4. SUFFICES Told
  BY <1>1, <1>2, <1>3 DEF ScreenTellsContext
<1>5. CASE operation.at # "idle"
  <2>1. of = operation.at /\ of \in OperationContexts /\ hint = of
    BY <1>1, <1>3, <1>5 DEF KeyInv, OperationStands, Context, Hint
  <2>2. \/ top \in {"operation", operation.by}
        \/ operation.by = "request" /\ top \in Prompted(overlays)
    <3>1. CASE "help" \in overlays
      <4>1. top = "help" /\ top \in Prompted(overlays)
        BY <1>2, <3>1 DEF TopOverlay, Prompted
      <4>2. operation.by = "request"
        BY <1>5, <3>1 DEF KeyInv, OperationStands
      <4> QED BY <4>1, <4>2
    <3>2. CASE "help" \notin overlays
      <4>1. PICK seen : seen = Prompted(overlays) \cup reports \cup {"operation"}
        OBVIOUS
      <4>2. top = FirstOf(DrawOrder, seen)
        BY <1>2, <1>5, <3>2, <4>1 DEF TopOverlay
      <4>3. 6 \in 1..13 /\ DrawOrder[6] \in seen
        BY <4>1, DrawOrderIs
      <4>4. PICK i \in 1..6 : top = DrawOrder[i] /\ DrawOrder[i] \in seen
        BY <4>2, <4>3, FirstDraw
      <4>5. DrawOrder[i] \notin {"patch", "sync"}
        BY <4>4, DrawOrderIs
      <4>6. top = "operation" \/ top \in Prompted(overlays)
        BY <4>1, <4>4, <4>5 DEF KeyInv, OverlaysStand
      <4>7. CASE operation.by = "request"
        BY <4>6, <4>7
      <4>8. CASE operation.by # "request"
        <5>1. overlays \subseteq {operation.by} /\ "rename" \notin overlays
          BY <1>5, <4>8 DEF KeyInv, OperationStands
        <5> QED BY <4>6, <5>1 DEF Prompted
      <4> QED BY <4>7, <4>8
    <3> QED BY <3>1, <3>2
  <2>3. of \notin Overlays /\ of # "normal"
    BY <2>1, OverlaysAre DEF OperationContexts
  <2> QED BY <2>1, <2>2, <2>3
<1>6. CASE operation.at = "idle"
  <2>1. PICK seen : seen = Prompted(overlays) \cup reports
    OBVIOUS
  <2>2. /\ hint = FirstOf(HintOrder, seen)
        /\ top = IF "help" \in overlays THEN "help" ELSE FirstOf(DrawOrder, seen)
    BY <1>2, <1>3, <1>6, <2>1 DEF TopOverlay, Hint
  <2>3. overlays \in OverlaySets /\ reports \subseteq {"patch", "sync"}
    BY DEF KeyInv, OverlaysStand
  <2>4. "normal" \notin Overlays /\ Overlays \cap OperationContexts = {}
        /\ "normal" \notin OperationContexts
    BY OverlaysAre DEF OperationContexts
  <2>5. CASE overlays = {} /\ of = "normal"
    <3>1. seen = reports
      BY <2>1, <2>5 DEF Prompted
    <3>2. \A i \in DOMAIN HintOrder : HintOrder[i] \notin seen
      <4>1. \A i \in 1..13 : HintOrder[i] \notin {"patch", "sync"}
        BY HintOrderIs
      <4> QED BY <2>3, <3>1, <4>1, HintOrderIs
    <3>3. hint = "normal"
      BY <2>2, <3>2, NoneOfIs
    <3>4. top \in reports \cup {"normal"}
      <4>1. CASE \A i \in DOMAIN DrawOrder : DrawOrder[i] \notin seen
        <5>1. top = "normal"
          BY <2>2, <2>5, <4>1, NoneOfIs
        <5> QED BY <5>1
      <4>2. CASE \E i \in DOMAIN DrawOrder : DrawOrder[i] \in seen
        <5>1. PICK k \in 1..13 : DrawOrder[k] \in seen
          BY <4>2, DrawOrderIs
        <5>2. PICK i \in 1..k : top = DrawOrder[i] /\ DrawOrder[i] \in seen
          BY <2>2, <2>5, <5>1, FirstDraw
        <5> QED BY <3>1, <5>2
      <4> QED BY <4>1, <4>2
    <3> QED BY <2>4, <2>5, <3>3, <3>4
  <2>6. CASE overlays = {"plan", "reword"} /\ of = "reword"
    <3>1. seen = {"plan", "reword"} \cup reports
      BY <2>1, <2>6 DEF Prompted
    <3>2. 6 \in 1..13 /\ HintOrder[6] \in seen /\ 8 \in 1..13 /\ DrawOrder[8] \in seen
      BY <3>1, HintOrderIs, DrawOrderIs
    <3>3. PICK i \in 1..6 : hint = HintOrder[i] /\ HintOrder[i] \in seen
      BY <2>2, <3>2, FirstHint
    <3>4. hint = "reword"
      BY <2>3, <3>1, <3>3, HintOrderIs
    <3>5. PICK j \in 1..8 : FirstOf(DrawOrder, seen) = DrawOrder[j] /\ DrawOrder[j] \in seen
      BY <3>2, FirstDraw
    <3>6. FirstOf(DrawOrder, seen) = "reword"
      BY <2>3, <3>1, <3>5, DrawOrderIs
    <3>7. top = "reword"
      BY <2>2, <2>6, <3>6
    <3>8. of \in Overlays /\ Prompted({of}) = {"reword"}
      BY <2>6, OverlaysAre, PromptedIs
    <3> QED BY <2>4, <2>6, <3>4, <3>7, <3>8
  <2>7. CASE overlays = {of} /\ of \in Overlays \ {"reword"}
    <3>1. of \notin {"help", "resetMode"} => {hint} = Prompted({of})
      BY <2>1, <2>2, <2>3, <2>7, HintIs, PromptedIs
    <3>2. of \notin {"search", "commitSearch"} => {top} = Prompted({of})
      <4>1. CASE of = "help"
        BY <2>2, <2>7, <4>1, PromptedIs
      <4>2. CASE of \notin {"help", "search", "commitSearch"}
        BY <2>1, <2>2, <2>3, <2>7, <4>2, TopIs, PromptedIs
      <4> QED BY <4>1, <4>2
    <3> QED BY <2>4, <2>7, <3>1, <3>2
  <2>8. \/ overlays = {} /\ of = "normal"
        \/ overlays = {"plan", "reword"} /\ of = "reword"
        \/ overlays = {of} /\ of \in Overlays \ {"reword"}
    BY <1>1, <1>6, <2>3, ContextCases
  <2> QED BY <2>5, <2>6, <2>7, <2>8
<1> QED BY <1>5, <1>6

(***************************************************************************)
(* What the keys of an overlay, or of an operation, may mean.              *)
(***************************************************************************)
Meanings(context) ==
  CASE context = "confirming" -> {"Quit", "Dismiss", "Activate"}
    [] context = "inProgress" -> {"Quit"}
    [] context = "failed" -> {"Quit", "Dismiss"}
    [] context = "conflicts" -> {"Dismiss", "MoveUp", "MoveDown", "InspectConflict",
                                 "MarkConflictResolved", "TakeConflictSide", "RequestResolution"}
    [] context = "plan" -> {"Dismiss", "MoveUp", "MoveDown", "Activate", "RebasePlanMoveEntryUp",
                            "RebasePlanMoveEntryDown", "RebasePlanCycleAction"}
    [] context = "resetMode" -> {"Dismiss", "MoveUp", "MoveDown", "Activate"}
    [] context \in {"reword", "commit", "amend", "rename", "branch"} -> {"Dismiss", "Activate"}
    [] context = "commitSearch" -> {"Dismiss", "CommitSearchSubmit"}
    [] context \in {"help", "search", "commitDetails", "referenceDetails", "reflogDetails"} ->
           {"Dismiss"}

LEMMA TablesMean ==
  ASSUME NEW context \in OperationContexts \cup Overlays
  PROVE  \A key \in DOMAIN KeyMap[context] : KeyMap[context][key] \in Meanings(context)
<1>1. CASE context = "confirming"
  BY <1>1 DEF KeyMap, Meanings, Besides, CtrlC, Leaves
<1>2. CASE context = "inProgress"
  BY <1>2 DEF KeyMap, Meanings, CtrlC
<1>3. CASE context = "failed"
  BY <1>3 DEF KeyMap, Meanings, Besides, CtrlC, Leaves
<1>4. CASE context = "conflicts"
  BY <1>4 DEF KeyMap, Meanings, Besides, Leaves, Moves, ConflictKeys
<1>5. CASE context = "plan"
  BY <1>5 DEF KeyMap, Meanings, Besides, Leaves, Moves, PlanKeys
<1>6. CASE context = "resetMode"
  BY <1>6 DEF KeyMap, Meanings, Besides, Leaves, Moves
<1>7. CASE context \in {"reword", "commit", "amend", "rename", "branch"}
  BY <1>7 DEF KeyMap, Meanings, Prompts
<1>8. CASE context = "commitSearch"
  BY <1>8 DEF KeyMap, Meanings
<1>9. CASE context \in {"help", "search"}
  BY <1>9 DEF KeyMap, Meanings, Besides, Leaves, QuestionMark
<1>10. CASE context \in {"commitDetails", "referenceDetails", "reflogDetails"}
  BY <1>10 DEF KeyMap, Meanings, Leaves
<1> QED BY <1>1, <1>2, <1>3, <1>4, <1>5, <1>6, <1>7, <1>8, <1>9, <1>10, OverlaysAre
        DEF OperationContexts

LEMMA KeysMean ==
  ASSUME NEW context \in OperationContexts \cup Overlays, NEW key
  PROVE  Resolve(key, context) \in Meanings(context) \cup {"None"}
<1>1. context # "normal"
  BY OverlaysAre DEF OperationContexts
<1>2. Resolve(key, context) = ActionFor(key, context)
  BY <1>1 DEF Resolve
<1> QED BY <1>2, TablesMean DEF ActionFor

\* Esc closes an overlay, and Enter starts what is asked about.
LEMMA EscMeans ==
  ASSUME NEW context \in Overlays
  PROVE  Resolve("Esc", context) = "Dismiss"
<1>1. context # "normal"
  BY OverlaysAre
<1>2. "Esc" \in DOMAIN KeyMap[context] /\ KeyMap[context]["Esc"] = "Dismiss"
  <2>1. CASE context \in {"help", "conflicts", "plan", "resetMode"}
    BY <2>1 DEF KeyMap, Besides, Leaves, Moves, QuestionMark, ConflictKeys, PlanKeys
  <2>2. CASE context \in {"commitDetails", "referenceDetails", "reflogDetails", "reword", "commit",
                          "amend", "rename", "branch", "commitSearch", "search"}
    BY <2>2 DEF KeyMap, Leaves, Prompts
  <2> QED BY <2>1, <2>2, OverlaysAre
<1> QED BY <1>1, <1>2 DEF Resolve, ActionFor

LEMMA EnterConfirms == Resolve("Enter", "confirming") = "Activate"
<1>1. "Enter" \in DOMAIN KeyMap["confirming"] /\ KeyMap["confirming"]["Enter"] = "Activate"
  BY DEF KeyMap, Besides, CtrlC, Leaves
<1> QED BY <1>1 DEF Resolve, ActionFor

\* What an action does while an overlay or an operation has the keys.
LEMMA UpdateMeans ==
  ASSUME Context # "normal", NEW action, Update(action),
         action \in {"None", "Quit", "Dismiss", "Activate", "MoveUp", "MoveDown", "InspectConflict",
                     "MarkConflictResolved", "TakeConflictSide", "RequestResolution",
                     "RebasePlanMoveEntryUp", "RebasePlanMoveEntryDown", "RebasePlanCycleAction",
                     "CommitSearchSubmit"}
  PROVE  \/ action = "Quit" /\ Quit
         \/ action = "Dismiss" /\ Dismiss
         \/ action = "Activate" /\ Confirm
         \/ action \in {"MoveUp", "MoveDown"} /\ \E step \in {-1, 1} : MoveCursor(step)
         \/ action \in {"RebasePlanMoveEntryUp", "RebasePlanMoveEntryDown"}
              /\ \E step \in {-1, 1} : MoveEntry(step)
         \/ action = "RebasePlanCycleAction" /\ CycleAction
         \/ action = "CommitSearchSubmit" /\ SubmitSearch
         \/ action = "RequestResolution" /\ RequestResolution
<1>1. ~ (action # "Activate" /\ (OpenPrompt(action) \/ OpenLoaded(action) \/ Request(action)
                \/ SyncFails(action) \/ RunSafe(action) \/ Report(action)))
  <2>1. ~ OpenPrompt(action)
    BY DEF OpenPrompt
  <2>2. action # "Activate" => ~ OpenLoaded(action)
    BY DEF OpenLoaded
  <2>3. ~ Request(action)
    BY DEF Request
  <2>4. ~ SyncFails(action)
    BY DEF SyncFails
  <2>5. ~ RunSafe(action)
    BY DEF RunSafe
  <2>6. action # "Activate" => ~ Report(action)
    BY DEF Report
  <2> QED BY <2>1, <2>2, <2>3, <2>4, <2>5, <2>6
<1> QED BY <1>1 DEF Update

(***************************************************************************)
(* Each action leaves it so.                                               *)
(***************************************************************************)

\* Operations are begun over one composer, or are a request.
LEMMA OperationsAre ==
  /\ NoOperation \in [at : {"idle"} \cup OperationContexts,
                      by : {Absent, "request", "commit", "amend", "plan"}]
  /\ NoOperation.at = "idle"
  /\ \A at \in OperationContexts, by \in {"request", "commit", "amend", "plan"} :
       /\ [at |-> at, by |-> by] \in [at : {"idle"} \cup OperationContexts,
                                      by : {Absent, "request", "commit", "amend", "plan"}]
       /\ at # "idle"
  /\ \A by : Confirming(by) = [at |-> "confirming", by |-> by]
  /\ "confirming" \in OperationContexts /\ "inProgress" \in OperationContexts
  /\ "failed" \in OperationContexts
BY DEF NoOperation, OperationContexts, Confirming

LEMMA RequestsStandAnywhere ==
  ASSUME NEW at \in OperationContexts, operation' = [at |-> at, by |-> "request"]
  PROVE  OperationStands'
BY OperationsAre DEF OperationStands

LEMMA IdleStands == operation' = NoOperation => OperationStands'
BY OperationsAre DEF OperationStands

LEMMA OperationKept ==
  ASSUME OperationStands, operation' = operation, overlays' \subseteq overlays
  PROVE  OperationStands'
BY DEF OperationStands

LEMMA PlanKept ==
  ASSUME PlanStands, UNCHANGED planState, overlays' \subseteq overlays,
         "plan" \in overlays => "plan" \in overlays'
  PROVE  PlanStands'
BY DEF PlanStands, planState, planEdits

LEMMA PlanGone ==
  ASSUME draft' = Absent, "reword" \notin overlays'
  PROVE  PlanStands'
BY DEF PlanStands

\* Nothing is open but what has the keys: what is closed leaves one of the sets.
LEMMA OverlaySetsAre ==
  /\ {} \in OverlaySets /\ {"plan", "reword"} \in OverlaySets
  /\ \A o \in Overlays \ {"reword"} : {o} \in OverlaySets
  /\ \A s \in OverlaySets : \A t :
       t \subseteq s /\ ("reword" \in t => "plan" \in t) => t \in OverlaySets
  /\ \A s \in OverlaySets : "reword" \in s => s = {"plan", "reword"}
<1>1. \A o \in Overlays \ {"reword"} : {o} \in OverlaySets
  BY OverlaysAre DEF OverlaySets
<1>2. \A s \in OverlaySets : "reword" \in s => s = {"plan", "reword"}
  BY DEF OverlaySets
<1>3. ASSUME NEW s \in OverlaySets, NEW t, t \subseteq s, "reword" \in t => "plan" \in t
      PROVE  t \in OverlaySets
  <2>1. CASE s = {"plan", "reword"}
    <3>1. t = {} \/ t = {"plan"} \/ t = {"plan", "reword"}
      BY <1>3, <2>1
    <3> QED BY <3>1 DEF OverlaySets
  <2>2. CASE s # {"plan", "reword"}
    <3>1. t = {} \/ t = s
      BY <1>3, <2>2 DEF OverlaySets
    <3> QED BY <1>3, <3>1 DEF OverlaySets
  <2> QED BY <2>1, <2>2
<1> QED BY <1>1, <1>2, <1>3 DEF OverlaySets

LEMMA NormalIs ==
  ASSUME KeyInv, Context = "normal"
  PROVE  operation.at = "idle" /\ overlays = {} /\ draft = Absent
<1>1. operation.at = "idle"
  BY DEF KeyInv, OperationStands, Context, OperationContexts
<1>2. overlays = {}
  BY <1>1, ContextCases, OverlaysAre DEF KeyInv, OverlaysStand
<1> QED BY <1>1, <1>2 DEF KeyInv, PlanStands

LEMMA PromptOpens ==
  ASSUME KeyInv, Context = "normal", NEW o \in Overlays \ {"reword"}, Open(o)
  PROVE  KeyInv'
<1>1. overlays' = {o} /\ UNCHANGED <<reports, operation, planState>> /\ operation.at = "idle"
      /\ draft' = Absent
  BY NormalIs DEF Open, planState, planEdits
<1>2. OverlaysStand'
  BY <1>1, OverlaySetsAre DEF KeyInv, OverlaysStand
<1>3. OperationStands'
  BY <1>1 DEF KeyInv, OperationStands
<1>4. PlanStands'
  BY <1>1, PlanGone
<1> QED BY <1>2, <1>3, <1>4 DEF KeyInv

LEMMA OverlaysOpen ==
  ASSUME KeyInv, Context = "normal", NEW action, OpenPrompt(action) \/ OpenLoaded(action)
  PROVE  KeyInv'
<1>1. CASE OpenPrompt(action)
  <2>1. \E o \in Overlays \ {"reword"} : Open(o)
    BY <1>1, OverlaysAre DEF OpenPrompt
  <2> QED BY <2>1, PromptOpens
<1>2. CASE \E o \in {"rename", "commitDetails", "referenceDetails", "reflogDetails", "resetMode",
                     "conflicts"} : Open(o)
  <2>1. \E o \in Overlays \ {"reword"} : Open(o)
    BY <1>2, OverlaysAre
  <2> QED BY <2>1, PromptOpens
<1>3. CASE /\ overlays' = overlays \cup {"amend"}
           /\ UNCHANGED <<settings, reports, operation, inFlight, planState>>
  <2>1. overlays' = {"amend"} /\ operation.at = "idle" /\ draft' = Absent
    BY <1>3, NormalIs DEF planState, planEdits
  <2>2. OverlaysStand'
    BY <1>3, <2>1, OverlaysAre, OverlaySetsAre DEF KeyInv, OverlaysStand
  <2>3. OperationStands'
    BY <1>3, <2>1 DEF KeyInv, OperationStands
  <2> QED BY <2>1, <2>2, <2>3, PlanGone DEF KeyInv
<1>4. CASE /\ overlays' = (overlays \cup {"plan"}) \ {"reword"}
           /\ draft' = Absent
           /\ UNCHANGED <<settings, reports, operation, inFlight, previewed>>
  <2>1. overlays' = {"plan"} /\ operation.at = "idle"
    BY <1>4, NormalIs
  <2>2. OverlaysStand'
    BY <1>4, <2>1, OverlaysAre, OverlaySetsAre DEF KeyInv, OverlaysStand
  <2>3. OperationStands'
    BY <1>4, <2>1 DEF KeyInv, OperationStands
  <2> QED BY <1>4, <2>1, <2>2, <2>3, PlanGone DEF KeyInv
<1> QED BY <1>1, <1>2, <1>3, <1>4 DEF OpenLoaded

\* A request is asked about, or a command run, over what is open.
LEMMA RequestBegins ==
  ASSUME KeyInv, UNCHANGED <<overlays, planState>>, reports' \subseteq {"patch", "sync"},
         \/ operation' = operation
         \/ operation' \in {Confirming("request"), [at |-> "inProgress", by |-> "request"]}
  PROVE  KeyInv'
<1>1. OperationStands'
  BY OperationKept, RequestsStandAnywhere, OperationsAre DEF KeyInv
<1>2. OverlaysStand' /\ PlanStands'
  BY PlanKept DEF KeyInv, OverlaysStand
<1> QED BY <1>1, <1>2 DEF KeyInv

LEMMA OthersStand ==
  ASSUME KeyInv, NEW action, NEW step,
         \/ MoveFocus(step) \/ Quit \/ Request(action) \/ SyncFails(action) \/ RunSafe(action)
         \/ Report(action) \/ RequestResolution
  PROVE  KeyInv'
<1> reports \subseteq {"patch", "sync"}
  BY DEF KeyInv, OverlaysStand
<1>1. CASE MoveFocus(step)
  BY <1>1, RequestBegins DEF MoveFocus
<1>2. CASE Quit
  BY <1>2, RequestBegins DEF Quit
<1>3. CASE Request(action)
  <2>1. UNCHANGED <<overlays, planState>> /\ operation' = Confirming("request")
        /\ reports' \subseteq reports
    BY <1>3 DEF Request
  <2> QED BY <2>1, RequestBegins
<1>4. CASE SyncFails(action)
  <2>1. UNCHANGED <<overlays, planState>> /\ operation' = operation
        /\ reports' = reports \cup {"sync"}
    BY <1>4 DEF SyncFails
  <2> QED BY <2>1, RequestBegins
<1>5. CASE RunSafe(action)
  <2>1. UNCHANGED <<overlays, planState>> /\ reports' \subseteq reports
        /\ operation' = [at |-> "inProgress", by |-> "request"]
    BY <1>5 DEF RunSafe, Launch
  <2> QED BY <2>1, RequestBegins
<1>6. CASE Report(action)
  <2>1. UNCHANGED <<overlays, planState>> /\ operation' = operation
        /\ reports' \subseteq reports \cup {"patch"}
    BY <1>6 DEF Report
  <2> QED BY <2>1, RequestBegins
<1>7. CASE RequestResolution
  BY <1>7, RequestBegins DEF RequestResolution
<1> QED BY <1>1, <1>2, <1>3, <1>4, <1>5, <1>6, <1>7

\* Esc ends what is asked about or has failed, or closes what has the keys.
LEMMA DismissStands ==
  ASSUME KeyInv, Dismiss
  PROVE  KeyInv'
<1>1. CASE operation.at # "idle"
  <2>1. operation' = NoOperation /\ UNCHANGED <<overlays, reports, planState>>
    BY <1>1 DEF Dismiss
  <2> QED BY <2>1, IdleStands, PlanKept DEF KeyInv, OverlaysStand
<1>2. CASE operation.at = "idle"
  <2>1. PICK top : top = FirstOf(DismissOrder, overlays \cup reports)
    OBVIOUS
  <2>2. /\ overlays' = overlays \ {top} /\ reports' = reports \ {top} /\ operation' = operation
        /\ planCursor' = (IF top = "plan" THEN 1 ELSE planCursor)
        /\ draft' = (IF top = "plan" THEN Absent ELSE draft)
        /\ rewording' = (IF top \in {"plan", "reword"} THEN Absent ELSE rewording)
    BY <1>2, <2>1 DEF Dismiss
  <2>3. "reword" \in overlays' => "plan" \in overlays'
    BY <2>1, <2>2, DismissTopIs, OverlaySetsAre DEF KeyInv, OverlaysStand
  <2>4. OverlaysStand'
    <3>1. overlays \in OverlaySets /\ overlays' \subseteq overlays
      BY <2>2 DEF KeyInv, OverlaysStand
    <3>2. overlays' \in OverlaySets
      BY <2>3, <3>1, OverlaySetsAre
    <3> QED BY <2>2, <3>2 DEF KeyInv, OverlaysStand
  <2>5. OperationStands'
    BY <2>2, OperationKept DEF KeyInv
  <2>6. PlanStands'
    <3>1. CASE top = "plan"
      BY <2>2, <2>3, <3>1, PlanGone
    <3>2. CASE top = "reword"
      <4>1. "reword" \notin overlays' /\ draft' = draft /\ planCursor' = planCursor
            /\ ("plan" \in overlays => "plan" \in overlays')
        BY <2>2, <3>2
      <4> QED BY <4>1 DEF KeyInv, PlanStands
    <3>3. CASE top \notin {"plan", "reword"}
      <4>1. UNCHANGED planState /\ overlays' \subseteq overlays
            /\ ("plan" \in overlays => "plan" \in overlays')
        BY <2>2, <3>3 DEF planState, planEdits
      <4> QED BY <4>1, PlanKept DEF KeyInv
    <3> QED BY <3>1, <3>2, <3>3
  <2> QED BY <2>4, <2>5, <2>6 DEF KeyInv
<1> QED BY <1>1, <1>2

LEMMA DraftIs ==
  ASSUME PlanStands, draft # Absent
  PROVE  /\ draft \in Drafts /\ "plan" \in overlays /\ DOMAIN draft = DOMAIN Rebased
         /\ DOMAIN Rebased = 1..Len(draft)
<1>1. draft \in [DOMAIN Rebased -> Entry]
  BY DEF PlanStands, Drafts
<1>2. PICK S : Rebased \in Seq(S)
  BY PlanAssumption
<1>3. DOMAIN Rebased = 1..Len(Rebased) /\ Len(Rebased) \in Nat
  BY <1>2
<1>4. Len(draft) = Len(Rebased)
  <2>1. PICK n \in Nat : n = Len(Rebased)
    BY <1>3
  <2>2. draft \in [1..n -> Entry]
    BY <1>1, <1>3, <2>1
  <2>3. draft \in Seq(Entry) /\ DOMAIN draft = 1..n
    BY <2>2
  <2> QED BY <2>1, <2>3
<1> QED BY <1>1, <1>3, <1>4 DEF PlanStands, Drafts

LEMMA LengthIs ==
  ASSUME PlanStands, draft # Absent
  PROVE  Len(draft) \in Nat /\ (draft # <<>> => Len(draft) # 0)
<1>1. draft \in [DOMAIN Rebased -> Entry]
  BY DEF PlanStands, Drafts
<1>2. PICK n \in Nat : DOMAIN Rebased = 1..n
  BY PlanAssumption
<1>3. draft \in Seq(Entry)
  BY <1>1, <1>2
<1> QED BY <1>3

\* The plan under the cursor, with no prompt over it.
LEMMA CursorStands ==
  ASSUME KeyInv, NEW step \in Int, MoveCursor(step), "reword" \notin overlays
  PROVE  KeyInv' /\ draft \in Drafts /\ "plan" \in overlays
         /\ UNCHANGED <<overlays, reports, operation, draft>>
<1>1. UNCHANGED <<overlays, reports, operation>> /\ draft' = draft /\ draft # Absent
  BY DEF MoveCursor, planEdits
<1>2. draft \in Drafts /\ "plan" \in overlays /\ DOMAIN Rebased = 1..Len(draft)
  BY <1>1, DraftIs DEF KeyInv
<1>3. Len(draft) \in Nat \ {0}
  BY <1>1, LengthIs DEF KeyInv, MoveCursor
<1>4. PICK n : n = Len(draft)
  OBVIOUS
<1>5. planCursor' = ((planCursor - 1 + step) % n) + 1 /\ n \in Nat \ {0}
  BY <1>3, <1>4 DEF MoveCursor
<1>6. planCursor \in Int
  BY <1>1, <1>2 DEF KeyInv, PlanStands
<1>7. planCursor' \in 1..n
  BY <1>5, <1>6
<1>8. PlanStands'
  BY <1>1, <1>2, <1>4, <1>7 DEF KeyInv, PlanStands
<1> QED BY <1>1, <1>2, <1>8, OperationKept DEF KeyInv, OverlaysStand

LEMMA EntryMoves ==
  ASSUME KeyInv, NEW step \in {-1, 1}, MoveEntry(step), "reword" \notin overlays
  PROVE  KeyInv' /\ draft \in Drafts /\ UNCHANGED <<overlays, reports, operation>>
<1>1. PICK i : i = planCursor
  OBVIOUS
<1>2. /\ draft # Absent /\ i + step \in 1..Len(draft)
      /\ draft' = [draft EXCEPT ![i] = draft[i + step], ![i + step] = draft[i]]
      /\ planCursor' = i + step
      /\ UNCHANGED <<overlays, reports, operation>>
  BY <1>1 DEF MoveEntry, Edit
<1>3. /\ draft \in Drafts /\ "plan" \in overlays /\ DOMAIN draft = DOMAIN Rebased
      /\ DOMAIN Rebased = 1..Len(draft)
  BY <1>2, DraftIs DEF KeyInv
<1>4. i = 1 \/ i \in DOMAIN Rebased
  BY <1>1, <1>2 DEF KeyInv, PlanStands
<1>5. Len(draft) \in Nat
  BY <1>2, LengthIs DEF KeyInv
<1>6. i \in DOMAIN Rebased /\ i + step \in DOMAIN Rebased
  BY <1>2, <1>3, <1>4, <1>5
<1>7. draft' \in Drafts
  <2>1. PICK there, here : there = draft[i + step] /\ here = draft[i]
    OBVIOUS
  <2>2. there \in Entry /\ here \in Entry
    BY <1>3, <1>6, <2>1 DEF Drafts
  <2>3. PICK moved : moved = [draft EXCEPT ![i] = there]
    OBVIOUS
  <2>4. moved \in Drafts
    BY <1>3, <2>2, <2>3 DEF Drafts
  <2>5. PICK k : k = i + step
    OBVIOUS
  <2>6. draft' = [moved EXCEPT ![k] = here]
    BY <1>2, <2>1, <2>3, <2>5
  <2> QED BY <2>2, <2>4, <2>6 DEF Drafts
<1>8. PlanStands'
  BY <1>2, <1>3, <1>6, <1>7 DEF PlanStands
<1> QED BY <1>2, <1>3, <1>8, OperationKept DEF KeyInv, OverlaysStand

LEMMA NextActions ==
  ASSUME NEW a \in {"pick", "reword", "squash", "fixup", "drop"}
  PROVE  NextAction[a] \in {"pick", "reword", "squash", "fixup", "drop"}
BY DEF NextAction

\* The prompt opens for the entry under the cursor.
LEMMA ActionCycles ==
  ASSUME KeyInv, CycleAction, overlays = {"plan"}, operation.at = "idle"
  PROVE  KeyInv' /\ draft \in Drafts /\ overlays' \in {overlays, {"plan", "reword"}}
         /\ UNCHANGED <<reports, operation, planCursor>>
<1>1. PICK i : i = planCursor
  OBVIOUS
<1>2. PICK action : action = NextAction[draft[i].action]
  OBVIOUS
<1>3. /\ draft # Absent /\ i \in DOMAIN draft /\ UNCHANGED <<reports, operation, planCursor>>
      /\ IF action = "reword"
         THEN /\ draft' = [draft EXCEPT ![i].action = action]
              /\ overlays' = overlays \cup {"reword"}
              /\ rewording' = draft[i].commit
         ELSE /\ draft' = [draft EXCEPT ![i].action = action, ![i].message = Absent]
              /\ UNCHANGED <<overlays, rewording>>
  BY <1>1, <1>2 DEF CycleAction, Edit
<1>4. draft \in Drafts /\ i \in DOMAIN Rebased
  BY <1>3, DraftIs DEF KeyInv
<1>5. draft[i] \in Entry
  BY <1>4 DEF Drafts
<1>6. action \in {"pick", "reword", "squash", "fixup", "drop"}
  BY <1>2, <1>5, NextActions DEF Entry
<1>7. PICK e : e = draft[i]
  OBVIOUS
<1>8. CASE action = "reword"
  <2>1. PICK f : f = [e EXCEPT !.action = action]
    OBVIOUS
  <2>2. f \in Entry /\ f.commit = e.commit
    BY <1>5, <1>6, <1>7, <2>1 DEF Entry
  <2>3. draft' = [draft EXCEPT ![i] = f]
    BY <1>3, <1>7, <1>8, <2>1
  <2>4. draft' \in Drafts /\ draft'[i] = f
    BY <1>4, <2>2, <2>3 DEF Drafts
  <2>5. overlays' = {"plan", "reword"} /\ rewording' = draft'[planCursor'].commit
    BY <1>1, <1>3, <1>7, <1>8, <2>2, <2>4
  <2>6. PlanStands'
    BY <1>1, <1>3, <1>4, <2>4, <2>5 DEF PlanStands
  <2>7. OverlaysStand'
    BY <1>3, <2>5, OverlaySetsAre DEF KeyInv, OverlaysStand
  <2>8. OperationStands'
    BY <1>3 DEF KeyInv, OperationStands
  <2> QED BY <1>3, <1>4, <2>5, <2>6, <2>7, <2>8 DEF KeyInv
<1>9. CASE action # "reword"
  <2>1. PICK f : f = [e EXCEPT !.action = action, !.message = Absent]
    OBVIOUS
  <2>2. f \in Entry
    BY <1>5, <1>6, <1>7, <2>1 DEF Entry
  <2>3. draft' = [draft EXCEPT ![i] = f]
    BY <1>3, <1>7, <1>9, <2>1
  <2>4. draft' \in Drafts
    BY <1>4, <2>2, <2>3 DEF Drafts
  <2>5. PlanStands'
    BY <1>3, <1>4, <1>9, <2>4 DEF KeyInv, PlanStands
  <2>6. OverlaysStand' /\ OperationStands'
    BY <1>3, <1>9, OperationKept DEF KeyInv, OverlaysStand
  <2> QED BY <1>3, <1>4, <1>9, <2>5, <2>6 DEF KeyInv
<1> QED BY <1>8, <1>9

\* A message is entered for the entry under the cursor.
LEMMA MessageEntered ==
  ASSUME KeyInv, Context = "reword", ConfirmReword
  PROVE  /\ KeyInv' /\ draft \in Drafts
         /\ UNCHANGED <<focus, quitting, reports, operation, planCursor>>
         /\ overlays' = overlays \ {"reword"}
         /\ \/ draft' = draft
            \/ \E text \in {"blank", "text"} : draft' = [draft EXCEPT ![planCursor].message = text]
<1>1. operation.at = "idle" /\ overlays = {"plan", "reword"}
  <2>1. operation.at = "idle"
    BY DEF KeyInv, OperationStands, Context, OperationContexts
  <2> QED BY <2>1, ContextCases, OverlaysAre DEF KeyInv, OverlaysStand
<1>2. draft \in Drafts /\ planCursor \in DOMAIN Rebased
  BY <1>1 DEF KeyInv, PlanStands
<1>3. /\ overlays' = {"plan"} /\ overlays' = overlays \ {"reword"}
      /\ UNCHANGED <<focus, quitting, reports, operation, planCursor>>
  BY <1>1 DEF ConfirmReword, Edit, settings
<1>4. \/ draft' = draft
      \/ \E text \in {"blank", "text"} : draft' = [draft EXCEPT ![planCursor].message = text]
  BY DEF ConfirmReword, Edit
<1>5. draft' \in Drafts
  <2>1. ASSUME NEW text \in {"blank", "text"}, draft' = [draft EXCEPT ![planCursor].message = text]
        PROVE  draft' \in Drafts
    <3>1. PICK e : e = draft[planCursor]
      OBVIOUS
    <3>2. PICK f : f = [e EXCEPT !.message = text]
      OBVIOUS
    <3>3. e \in Entry
      BY <1>2, <3>1 DEF Drafts
    <3>4. f \in Entry
      BY <3>2, <3>3 DEF Entry
    <3>5. draft' = [draft EXCEPT ![planCursor] = f]
      BY <2>1, <3>1, <3>2
    <3> QED BY <1>2, <3>4, <3>5 DEF Drafts
  <2> QED BY <1>2, <1>4, <2>1
<1>6. PlanStands'
  BY <1>1, <1>2, <1>3, <1>5 DEF PlanStands
<1>7. OverlaysStand' /\ OperationStands'
  BY <1>1, <1>3, OverlaySetsAre, OverlaysAre DEF KeyInv, OverlaysStand, OperationStands
<1> QED BY <1>2, <1>3, <1>4, <1>6, <1>7 DEF KeyInv

\* What is confirmed closes its prompt, or stays under what it began.
LEMMA ConfirmBegins ==
  ASSUME KeyInv, NEW overlay \in Overlays \ {"reword"}, NEW by, NEW closes \in BOOLEAN,
         by = "request" \/ (by = overlay /\ by \in {"commit", "amend", "plan"} /\ ~ closes),
         closes => overlay # "plan",
         BeginFrom(overlay, by, closes)
  PROVE  /\ KeyInv' /\ overlays = {overlay} /\ overlays' \in {overlays, {}}
         /\ UNCHANGED <<focus, quitting, reports, draft, planCursor, rewording>>
<1>1. operation.at = "idle" /\ overlays = {overlay}
  <2>1. Context = overlay
    BY DEF BeginFrom
  <2>2. operation.at = "idle"
    BY <2>1, OverlaysAre DEF KeyInv, OperationStands, Context, OperationContexts
  <2> QED BY <2>1, <2>2, ContextCases, OverlaysAre DEF KeyInv, OverlaysStand
<1>2. /\ operation' = Confirming(by) /\ overlays' = (IF closes THEN {} ELSE overlays)
      /\ UNCHANGED <<focus, quitting, reports, draft, planCursor, rewording, planState>>
  BY <1>1 DEF BeginFrom, settings, planState, planEdits
<1>3. OperationStands'
  <2>1. operation' = [at |-> "confirming", by |-> by] /\ "confirming" \in OperationContexts
    BY <1>2, OperationsAre
  <2>2. CASE by = "request"
    BY <2>1, <2>2, RequestsStandAnywhere
  <2>3. CASE by # "request"
    <3>1. overlays' = {by} /\ by \in {"commit", "amend", "plan"}
      BY <1>1, <1>2, <2>3
    <3> QED BY <2>1, <3>1, OperationsAre DEF OperationStands
  <2> QED BY <2>2, <2>3
<1>4. OverlaysStand'
  BY <1>2, OverlaySetsAre DEF KeyInv, OverlaysStand
<1>5. PlanStands'
  <2>1. "plan" \in overlays => "plan" \in overlays'
    BY <1>1, <1>2
  <2> QED BY <1>2, <2>1, PlanKept DEF KeyInv
<1> QED BY <1>1, <1>2, <1>3, <1>4, <1>5 DEF KeyInv

\* What runs has left its plan, or has not begun.
LEMMA DispatchStands ==
  ASSUME KeyInv, Context = "confirming", Dispatch(operation.by)
  PROVE  KeyInv'
<1>1. operation.at = "confirming"
  <2>1. CASE operation.at = "idle"
    BY <2>1, ContextCases, OverlaysAre DEF KeyInv, OverlaysStand
  <2>2. CASE operation.at # "idle"
    BY <2>2 DEF Context
  <2> QED BY <2>1, <2>2
<1>2. PICK by : by = operation.by
  OBVIOUS
<1>3. PICK at \in OperationContexts : operation' = [at |-> at, by |-> by]
  BY <1>2, OperationsAre DEF Dispatch, Launch
<1>4. /\ overlays' = (IF discovered /\ by = "plan" THEN overlays \ {"plan"} ELSE overlays)
      /\ draft' = (IF discovered /\ by = "plan" THEN Absent ELSE draft)
      /\ UNCHANGED <<reports, planCursor, rewording>>
  BY <1>2 DEF Dispatch
<1>5. by = "request" \/ (by \in {"commit", "amend", "plan"} /\ overlays \subseteq {by})
  BY <1>1, <1>2 DEF KeyInv, OperationStands
<1>6. overlays' \subseteq overlays /\ ("reword" \in overlays' => "plan" \in overlays')
  BY <1>4, <1>5, OverlaySetsAre DEF KeyInv, OverlaysStand
<1>7. OverlaysStand'
  BY <1>4, <1>6, OverlaySetsAre DEF KeyInv, OverlaysStand
<1>8. OperationStands'
  <2>1. operation' \in [at : {"idle"} \cup OperationContexts,
                       by : {Absent, "request", "commit", "amend", "plan"}]
        /\ operation'.by = by
    BY <1>3, <1>5, OperationsAre
  <2> QED BY <1>5, <1>6, <2>1 DEF OperationStands
<1>9. PlanStands'
  <2>1. CASE discovered /\ by = "plan"
    BY <1>4, <1>5, <2>1, PlanGone
  <2>2. CASE ~ (discovered /\ by = "plan")
    BY <1>4, <2>2, PlanKept DEF KeyInv, planState, planEdits
  <2> QED BY <2>1, <2>2
<1> QED BY <1>7, <1>8, <1>9 DEF KeyInv

LEMMA ConfirmStands ==
  ASSUME KeyInv, Confirm
  PROVE  KeyInv'
<1>1. CASE \E overlay \in {"rename", "branch", "resetMode"} : BeginFrom(overlay, "request", TRUE)
  BY <1>1, ConfirmBegins, OverlaysAre
<1>2. CASE \E overlay \in {"commit", "amend", "plan"} : BeginFrom(overlay, overlay, FALSE)
  BY <1>2, ConfirmBegins, OverlaysAre
<1>3. CASE Context = "reword" /\ ConfirmReword
  BY <1>3, MessageEntered
<1>4. CASE Context = "confirming" /\ Dispatch(operation.by)
  BY <1>4, DispatchStands
<1> QED BY <1>1, <1>2, <1>3, <1>4 DEF Confirm

\* The results.
LEMMA AnswersStand ==
  ASSUME KeyInv, NEW r, NEW ok \in BOOLEAN, Answer(r, ok)
  PROVE  KeyInv'
<1>1. UNCHANGED <<overlays, reports>>
  BY DEF Answer
<1>2. OverlaysStand'
  BY <1>1 DEF KeyInv, OverlaysStand
<1>3. CASE r.of = "plan"
  <2>1. CASE ok /\ "plan" \in overlays
    <3>1. /\ draft' = [i \in DOMAIN Rebased |->
                         [commit |-> Rebased[i], action |-> "pick", message |-> Absent]]
          /\ rewording' = Absent /\ planCursor' = 1 /\ operation' = operation
      BY <1>3, <2>1 DEF Answer, PlanLoaded
    <3>2. draft' \in Drafts
      BY <3>1 DEF Drafts, Entry
    <3>3. "reword" \in overlays => 1 \in DOMAIN Rebased
      <4>1. PICK n \in Nat : DOMAIN Rebased = 1..n
        BY PlanAssumption
      <4>2. "reword" \in overlays => planCursor \in 1..n
        BY <4>1 DEF KeyInv, PlanStands
      <4> QED BY <4>1, <4>2
    <3>4. PlanStands'
      BY <1>1, <2>1, <3>1, <3>2, <3>3 DEF PlanStands
    <3>5. OperationStands'
      BY <1>1, <3>1, OperationKept DEF KeyInv
    <3> QED BY <1>2, <3>4, <3>5 DEF KeyInv
  <2>2. CASE ~ (ok /\ "plan" \in overlays)
    <3>1. UNCHANGED <<operation, planState>>
      BY <1>3, <2>2 DEF Answer, PlanLoaded
    <3> QED BY <1>1, <1>2, <3>1, PlanKept, OperationKept DEF KeyInv
  <2> QED BY <2>1, <2>2
<1>4. CASE r.of # "plan"
  <2>1. UNCHANGED planState /\ operation' \in {operation, Confirming("request")}
    BY <1>4 DEF Answer, Previewed
  <2> QED BY <1>1, <2>1, RequestBegins DEF KeyInv, OverlaysStand
<1> QED BY <1>3, <1>4

LEMMA FinishedStands ==
  ASSUME KeyInv, NEW by, NEW ok \in BOOLEAN, Finished(by, ok)
  PROVE  KeyInv'
<1>1. UNCHANGED <<reports, planState>>
  BY DEF Finished
<1>2. CASE ok
  <2>1. operation' = NoOperation /\ overlays' = overlays \ ({by} \cap {"commit", "amend"})
    BY <1>2 DEF Finished, ClosesComposer
  <2>2. /\ overlays' \subseteq overlays /\ ("plan" \in overlays => "plan" \in overlays')
        /\ ("reword" \in overlays' => "plan" \in overlays')
    BY <2>1, OverlaySetsAre DEF KeyInv, OverlaysStand
  <2>3. OverlaysStand'
    BY <1>1, <2>2, OverlaySetsAre DEF KeyInv, OverlaysStand
  <2> QED BY <1>1, <2>1, <2>2, <2>3, PlanKept, IdleStands DEF KeyInv
<1>3. CASE ~ ok
  <2>1. /\ overlays' = overlays
        /\ operation' = (IF operation.at = "inProgress" THEN [operation EXCEPT !.at = "failed"]
                         ELSE operation)
    BY <1>3 DEF Finished
  <2>2. OperationStands'
    BY <2>1 DEF KeyInv, OperationStands, OperationContexts
  <2> QED BY <1>1, <2>1, <2>2, PlanKept DEF KeyInv, OverlaysStand
<1> QED BY <1>2, <1>3

LEMMA OpeningStands ==
  ASSUME KeyInv, RepositoryOpened
  PROVE  KeyInv'
<1>1. /\ overlays' = overlays \cap {"help", "commit", "rename", "branch", "search"}
      /\ reports' = reports \ {"sync"} /\ draft' = Absent /\ operation' = operation
  BY DEF RepositoryOpened
<1>2. overlays' \subseteq overlays /\ "reword" \notin overlays'
  BY <1>1
<1>3. OverlaysStand'
  BY <1>1, <1>2, OverlaySetsAre DEF KeyInv, OverlaysStand
<1> QED BY <1>1, <1>2, <1>3, PlanGone, OperationKept DEF KeyInv

LEMMA NothingStands ==
  ASSUME KeyInv, NothingInProgress
  PROVE  KeyInv'
<1>1. /\ overlays' = overlays \ {"conflicts"} /\ UNCHANGED <<reports, planState, operation>>
  BY DEF NothingInProgress
<1>2. /\ overlays' \subseteq overlays /\ ("plan" \in overlays => "plan" \in overlays')
      /\ ("reword" \in overlays' => "plan" \in overlays')
  BY <1>1, OverlaySetsAre DEF KeyInv, OverlaysStand
<1>3. OverlaysStand'
  BY <1>1, <1>2, OverlaySetsAre DEF KeyInv, OverlaysStand
<1> QED BY <1>1, <1>2, <1>3, PlanKept, OperationKept DEF KeyInv

(***************************************************************************)
(* A key in each context.                                                  *)
(***************************************************************************)

\* With nothing open the actions of the overlays find nothing to act on.
LEMMA NormalStands ==
  ASSUME KeyInv, Context = "normal", NEW action, Update(action)
  PROVE  KeyInv'
<1>1. operation.at = "idle" /\ overlays = {} /\ draft = Absent
  BY NormalIs
<1>2. ~ \E step : MoveCursor(step) \/ MoveEntry(step)
  BY <1>1 DEF MoveCursor, MoveEntry
<1>3. ~ CycleAction
  BY <1>1 DEF CycleAction
<1>4. CASE \/ MoveFocus(1) \/ MoveFocus(-1) \/ Quit \/ Request(action) \/ SyncFails(action)
           \/ RunSafe(action) \/ Report(action) \/ RequestResolution
  BY <1>4, OthersStand
<1>5. CASE Dismiss
  BY <1>5, DismissStands
<1>6. CASE Confirm
  BY <1>6, ConfirmStands
<1>7. CASE OpenPrompt(action) \/ OpenLoaded(action)
  BY <1>7, OverlaysOpen
<1>8. CASE SubmitSearch
  <2>1. UNCHANGED <<overlays, reports, operation, planState>>
    BY <1>1, <1>8 DEF SubmitSearch
  <2> QED BY <2>1, RequestBegins DEF KeyInv, OverlaysStand
<1> QED BY <1>2, <1>3, <1>4, <1>5, <1>6, <1>7, <1>8 DEF Update

\* The keys an operation or an overlay takes.
LEMMA PressMeans ==
  ASSUME KeyInv, Press, Context # "normal"
  PROVE  /\ Context \in OperationContexts \cup Overlays
         /\ \E action \in Meanings(Context) \cup {"None"} : Update(action)
<1>1. Context \in OperationContexts \cup Overlays
  <2>1. CASE operation.at = "idle"
    BY <2>1, ContextCases, OverlaysAre DEF KeyInv, OverlaysStand
  <2>2. CASE operation.at # "idle"
    BY <2>2 DEF Context, KeyInv, OperationStands
  <2> QED BY <2>1, <2>2
<1>2. PICK context, key : context = Context /\ Update(Resolve(key, context))
  BY DEF Press
<1> QED BY <1>1, <1>2, KeysMean

LEMMA OperationTakes ==
  ASSUME KeyInv, Press, Context \in OperationContexts
  PROVE  /\ operation.at = Context
         /\ \/ Quit
            \/ Dismiss
            \/ Context = "confirming" /\ Dispatch(operation.by)
<1>1. Context \notin Overlays /\ Context # "normal"
  BY OverlaysAre DEF OperationContexts
<1>2. operation.at # "idle" /\ operation.at = Context
  <2>1. CASE operation.at = "idle"
    BY <1>1, <2>1, ContextCases, OverlaysAre DEF KeyInv, OverlaysStand
  <2>2. CASE operation.at # "idle"
    BY <2>2 DEF Context
  <2> QED BY <2>1, <2>2
<1>3. PICK action \in {"Quit", "Dismiss", "Activate", "None"} : Update(action)
  <2>1. PICK action \in Meanings(Context) \cup {"None"} : Update(action)
    BY <1>1, PressMeans
  <2>2. action \in {"Quit", "Dismiss", "Activate", "None"}
    BY <2>1 DEF Meanings, OperationContexts
  <2> QED BY <2>1, <2>2
<1>4. \/ action = "Quit" /\ Quit
      \/ action = "Dismiss" /\ Dismiss
      \/ action = "Activate" /\ Confirm
  BY <1>1, <1>3, UpdateMeans
<1>5. Confirm => Context = "confirming" /\ Dispatch(operation.by)
  BY <1>1, OverlaysAre DEF Confirm, BeginFrom
<1> QED BY <1>2, <1>4, <1>5

LEMMA OverlayTakes ==
  ASSUME KeyInv, Press, Context \in Overlays
  PROVE  /\ operation.at = "idle"
         /\ \/ Dismiss
            \/ Confirm
            \/ /\ Context \in {"conflicts", "plan", "resetMode"}
               /\ \E step \in {-1, 1} : MoveCursor(step)
            \/ Context = "plan" /\ \E step \in {-1, 1} : MoveEntry(step)
            \/ Context = "plan" /\ CycleAction
            \/ Context = "commitSearch" /\ SubmitSearch
            \/ RequestResolution
<1>1. Context \notin OperationContexts /\ Context # "normal"
  BY OverlaysAre DEF OperationContexts
<1>2. operation.at = "idle"
  BY <1>1 DEF KeyInv, OperationStands, Context
<1>3. PICK action \in Meanings(Context) \cup {"None"} : Update(action)
  BY <1>1, PressMeans
<1>4. /\ action \in {"None", "Dismiss", "Activate", "MoveUp", "MoveDown", "InspectConflict",
                     "MarkConflictResolved", "TakeConflictSide", "RequestResolution",
                     "RebasePlanMoveEntryUp", "RebasePlanMoveEntryDown", "RebasePlanCycleAction",
                     "CommitSearchSubmit"}
      /\ action \in {"MoveUp", "MoveDown"} => Context \in {"conflicts", "plan", "resetMode"}
      /\ action \in {"RebasePlanMoveEntryUp", "RebasePlanMoveEntryDown", "RebasePlanCycleAction"} =>
             Context = "plan"
      /\ action = "CommitSearchSubmit" => Context = "commitSearch"
  BY <1>3, OverlaysAre DEF Meanings
<1>5. \/ action = "Dismiss" /\ Dismiss
      \/ action = "Activate" /\ Confirm
      \/ action \in {"MoveUp", "MoveDown"} /\ \E step \in {-1, 1} : MoveCursor(step)
      \/ action \in {"RebasePlanMoveEntryUp", "RebasePlanMoveEntryDown"}
           /\ \E step \in {-1, 1} : MoveEntry(step)
      \/ action = "RebasePlanCycleAction" /\ CycleAction
      \/ action = "CommitSearchSubmit" /\ SubmitSearch
      \/ action = "RequestResolution" /\ RequestResolution
  BY <1>1, <1>3, <1>4, UpdateMeans
<1> QED BY <1>2, <1>4, <1>5

\* With one overlay open, that is what has the keys; over a plan it is its prompt.
LEMMA ContextOpens ==
  ASSUME KeyInv, Context \in Overlays, operation.at = "idle"
  PROVE  \/ overlays = {"plan", "reword"} /\ Context = "reword"
         \/ overlays = {Context} /\ Context # "reword"
BY ContextCases, OverlaysAre DEF KeyInv, OverlaysStand

LEMMA PressStands ==
  ASSUME KeyInv, Press
  PROVE  KeyInv'
<1>1. CASE Context = "normal"
  <2>1. PICK action : Update(action)
    BY DEF Press
  <2> QED BY <1>1, <2>1, NormalStands
<1>2. CASE Context \in OperationContexts
  <2>1. CASE Quit
    BY <2>1, OthersStand
  <2>2. CASE Dismiss
    BY <2>2, DismissStands
  <2>3. CASE Context = "confirming" /\ Dispatch(operation.by)
    BY <2>3, DispatchStands
  <2> QED BY <1>2, <2>1, <2>2, <2>3, OperationTakes
<1>3. CASE Context \in Overlays
  <2>1. operation.at = "idle"
    BY <1>3, OverlayTakes
  <2>2. \/ overlays = {"plan", "reword"} /\ Context = "reword"
        \/ overlays = {Context} /\ Context # "reword"
    BY <1>3, <2>1, ContextOpens
  <2>3. CASE Dismiss
    BY <2>3, DismissStands
  <2>4. CASE Confirm
    BY <2>4, ConfirmStands
  <2>5. CASE /\ Context \in {"conflicts", "plan", "resetMode"}
             /\ \E step \in {-1, 1} : MoveCursor(step)
    BY <2>2, <2>5, CursorStands
  <2>6. CASE Context = "plan" /\ \E step \in {-1, 1} : MoveEntry(step)
    BY <2>2, <2>6, EntryMoves
  <2>7. CASE Context = "plan" /\ CycleAction
    BY <2>1, <2>2, <2>7, ActionCycles
  <2>8. CASE Context = "commitSearch" /\ SubmitSearch
    <3>1. overlays' = {} /\ UNCHANGED <<reports, operation, planState>>
      BY <2>2, <2>8 DEF SubmitSearch
    <3>2. OverlaysStand'
      BY <3>1, OverlaySetsAre DEF KeyInv, OverlaysStand
    <3>3. OperationStands'
      BY <2>1, <3>1 DEF KeyInv, OperationStands
    <3>4. PlanStands'
      BY <2>2, <2>8, <3>1, PlanKept DEF KeyInv
    <3> QED BY <3>2, <3>3, <3>4 DEF KeyInv
  <2>9. CASE RequestResolution
    BY <2>9, OthersStand
  <2> QED BY <1>3, <2>3, <2>4, <2>5, <2>6, <2>7, <2>8, <2>9, OverlayTakes
<1> QED BY <1>1, <1>2, <1>3, PressMeans

LEMMA KeysStart == KeyInit => KeyInv
<1> SUFFICES ASSUME KeyInit PROVE KeyInv
  OBVIOUS
<1>1. OverlaysStand
  BY OverlaySetsAre DEF KeyInit, OverlaysStand
<1>2. OperationStands
  BY OperationsAre DEF KeyInit, OperationStands
<1>3. PlanStands
  BY DEF KeyInit, PlanStands
<1> QED BY <1>1, <1>2, <1>3 DEF KeyInv

LEMMA KeysStand == KeyInv /\ [KeyNext]_keyVars => KeyInv'
<1> SUFFICES ASSUME KeyInv, [KeyNext]_keyVars PROVE KeyInv'
  OBVIOUS
<1>1. CASE Press
  BY <1>1, PressStands
<1>2. CASE RepositoryOpened
  BY <1>2, OpeningStands
<1>3. CASE NothingInProgress
  BY <1>3, NothingStands
<1>4. CASE \E r \in awaited, ok \in BOOLEAN : Answer(r, ok)
  BY <1>4, AnswersStand
<1>5. CASE \E by \in inFlight, ok \in BOOLEAN : Finished(by, ok)
  BY <1>5, FinishedStands
<1>6. CASE UNCHANGED keyVars
  BY <1>6 DEF keyVars, planState, planEdits, KeyInv, OverlaysStand, OperationStands, PlanStands
<1> QED BY <1>1, <1>2, <1>3, <1>4, <1>5, <1>6 DEF KeyNext

\* At any moment at most one overlay is open, or a plan and the prompt for a message
\* over it; an operation begun in a composer has nothing but that composer under it;
\* and a plan is there only while it is open, a prompt only for the entry under the
\* cursor (App::update, dismiss, handle_activate and the result handlers).
THEOREM OneOverlayAtATime == KeySpec => []KeyInv
<1>1. KeyInit => KeyInv
  BY KeysStart
<1>2. KeyInv /\ [KeyNext]_keyVars => KeyInv'
  BY KeysStand
<1> QED BY <1>1, <1>2, PTL DEF KeySpec

LEMMA OneIsOpen == KeyInv => OneOverlay
BY DEF KeyInv, OverlaysStand, OverlaySets, OneOverlay

\* What Esc does to an overlay: it closes what has the keys, but for the report of
\* an exported patch over the conflicts.
LEMMA EscCloses ==
  ASSUME KeyInv, Context \in Overlays, operation.at = "idle", Dismiss
  PROVE  /\ UNCHANGED <<focus, quitting, operation>>
         /\ overlays \ {Context, "reword"} = overlays' \ {Context, "reword"}
         /\ (draft' # draft \/ planCursor' # planCursor) => Context = "plan"
         /\ reports' # reports => Context = "conflicts" /\ reports' = reports \ {"patch"}
         /\ Context \in overlays' => Context = "conflicts" /\ "patch" \in reports
<1>1. PICK top : top = FirstOf(DismissOrder, overlays \cup reports)
  OBVIOUS
<1>2. /\ overlays' = overlays \ {top} /\ reports' = reports \ {top}
      /\ planCursor' = (IF top = "plan" THEN 1 ELSE planCursor)
      /\ draft' = (IF top = "plan" THEN Absent ELSE draft)
      /\ UNCHANGED <<focus, quitting, operation>>
  BY <1>1 DEF Dismiss, settings
<1>3. top = Context \/ (top = "patch" /\ Context = "conflicts" /\ "patch" \in reports)
  BY <1>1, ContextOpens, DismissTopIs DEF KeyInv, OverlaysStand
<1>4. Overlays \cap reports = {} /\ "patch" \notin overlays
  BY OverlaysAre DEF KeyInv, OverlaysStand, OverlaySets
<1>5. CASE top = Context
  BY <1>2, <1>4, <1>5
<1>6. CASE top = "patch" /\ Context = "conflicts" /\ "patch" \in reports
  BY <1>2, <1>4, <1>6
<1> QED BY <1>3, <1>5, <1>6

LEMMA EnterConfirmsOwn ==
  ASSUME KeyInv, Context \in Overlays, Confirm
  PROVE  /\ UNCHANGED <<focus, quitting, reports, planCursor>>
         /\ overlays \ {Context, "reword"} = overlays' \ {Context, "reword"}
         /\ \/ draft' = draft
            \/ /\ Context = "reword" /\ draft \in Drafts
               /\ \E text \in {"blank", "text"} :
                     draft' = [draft EXCEPT ![planCursor].message = text]
<1>1. Context \notin OperationContexts
  BY OverlaysAre DEF OperationContexts
<1>2. CASE \E overlay \in {"rename", "branch", "resetMode"} : BeginFrom(overlay, "request", TRUE)
  <2>1. PICK overlay \in {"rename", "branch", "resetMode"} : BeginFrom(overlay, "request", TRUE)
    BY <1>2
  <2>2. Context = overlay
    BY <2>1 DEF BeginFrom
  <2> QED BY <2>1, <2>2, ConfirmBegins, OverlaysAre
<1>3. CASE \E overlay \in {"commit", "amend", "plan"} : BeginFrom(overlay, overlay, FALSE)
  <2>1. PICK overlay \in {"commit", "amend", "plan"} : BeginFrom(overlay, overlay, FALSE)
    BY <1>3
  <2>2. Context = overlay
    BY <2>1 DEF BeginFrom
  <2> QED BY <2>1, <2>2, ConfirmBegins, OverlaysAre
<1>4. CASE Context = "reword" /\ ConfirmReword
  BY <1>4, MessageEntered
<1> QED BY <1>1, <1>2, <1>3, <1>4 DEF Confirm, OperationContexts

LEMMA OperationsOwnKeys ==
  ASSUME KeyInv, Press, Context \in OperationContexts
  PROVE  OperationOwnsKeys
<1>1. operation.at = Context /\ operation.at # "idle"
  BY OperationTakes, OperationsAre DEF OperationContexts
<1> DEFINE Kept == /\ UNCHANGED <<focus, planCursor, rewording>>
                   /\ overlays' \in {overlays, overlays \ {"plan"}}
                   /\ draft' \in {draft, Absent}
                   /\ \/ operation' \in {operation, NoOperation}
                      \/ /\ Context = "confirming" /\ Resolve("Enter", Context) = "Activate"
                         /\ Dispatch(operation.by)
<1>2. SUFFICES Kept
  BY DEF OperationOwnsKeys
<1>3. CASE Quit
  BY <1>3 DEF Quit, planState, planEdits
<1>4. CASE Dismiss
  BY <1>1, <1>4 DEF Dismiss, settings, planState, planEdits
<1>5. CASE Context = "confirming" /\ Dispatch(operation.by)
  <2>1. /\ UNCHANGED <<focus, planCursor, rewording>>
        /\ overlays' \in {overlays, overlays \ {"plan"}} /\ draft' \in {draft, Absent}
    BY <1>5 DEF Dispatch, settings
  <2>2. Resolve("Enter", Context) = "Activate"
    BY <1>5, EnterConfirms
  <2> QED BY <1>5, <2>1, <2>2
<1> QED BY <1>3, <1>4, <1>5, OperationTakes

LEMMA OverlaysOwnKeys ==
  ASSUME KeyInv, Press, Context \in Overlays
  PROVE  OverlayOwnsKeys
<1>1. operation.at = "idle"
  BY OverlayTakes
<1>2. \/ overlays = {"plan", "reword"} /\ Context = "reword"
      \/ overlays = {Context} /\ Context # "reword"
  BY <1>1, ContextOpens
<1> DEFINE Kept == /\ UNCHANGED <<focus, quitting>>
                   /\ overlays \ {Context, "reword"} = overlays' \ {Context, "reword"}
                   /\ (draft' # draft \/ planCursor' # planCursor) => Context \in {"plan", "reword"}
                   /\ reports' # reports => Context = "conflicts" /\ reports' = reports \ {"patch"}
<1>3. SUFFICES Kept
  BY DEF OverlayOwnsKeys
<1>4. CASE Dismiss
  BY <1>1, <1>4, EscCloses
<1>5. CASE Confirm
  BY <1>5, EnterConfirmsOwn
<1>6. CASE /\ Context \in {"conflicts", "plan", "resetMode"}
             /\ \E step \in {-1, 1} : MoveCursor(step)
  <2>1. "plan" \in overlays /\ UNCHANGED <<overlays, reports, draft>>
    BY <1>2, <1>6, CursorStands
  <2>2. UNCHANGED <<focus, quitting>>
    BY <1>6 DEF MoveCursor, settings
  <2> QED BY <1>2, <2>1, <2>2
<1>7. CASE Context = "plan" /\ \E step \in {-1, 1} : MoveEntry(step)
  BY <1>7 DEF MoveEntry, Edit, settings
<1>8. CASE Context = "plan" /\ CycleAction
  <2>1. UNCHANGED <<focus, quitting, reports>>
    BY <1>8 DEF CycleAction, Edit, settings
  <2>2. overlays' \in {overlays, overlays \cup {"reword"}}
    BY <1>8 DEF CycleAction
  <2> QED BY <1>8, <2>1, <2>2
<1>9. CASE Context = "commitSearch" /\ SubmitSearch
  BY <1>9 DEF SubmitSearch, settings, planState, planEdits
<1>10. CASE RequestResolution
  BY <1>10 DEF RequestResolution, settings, planState, planEdits
<1> QED BY <1>4, <1>5, <1>6, <1>7, <1>8, <1>9, <1>10, OverlayTakes

LEMMA EscLeavesOwn ==
  ASSUME KeyInv, Press, Context \in Overlays
  PROVE  EscLeaves
<1>1. operation.at = "idle"
  BY OverlayTakes
<1>2. Resolve("Esc", Context) = "Dismiss"
  BY EscMeans
<1>3. CASE Dismiss
  BY <1>1, <1>2, <1>3, EscCloses DEF EscLeaves
<1>4. CASE ~ Dismiss
  BY <1>2, <1>4 DEF EscLeaves
<1> QED BY <1>3, <1>4

LEMMA MessagesHaveTheirCommit ==
  ASSUME KeyInv, Press, Context \in Overlays
  PROVE  MessageHasItsCommit
<1> SUFFICES ASSUME Context = "reword", rewording # Absent, draft' # draft,
                    NEW i \in DOMAIN draft, draft'[i] # draft[i]
             PROVE  draft[i].commit = rewording
  BY DEF MessageHasItsCommit
<1>1. operation.at = "idle"
  BY OverlayTakes
<1>2. overlays = {"plan", "reword"}
  BY <1>1, ContextOpens
<1>3. CASE Dismiss
  BY <1>1, <1>3, EscCloses
<1>4. CASE Confirm
  <2>1. PICK text : draft' = [draft EXCEPT ![planCursor].message = text]
    BY <1>4, EnterConfirmsOwn
  <2>2. i = planCursor
    BY <2>1
  <2> QED BY <1>2, <2>2 DEF KeyInv, PlanStands
<1>5. CASE RequestResolution
  BY <1>5 DEF RequestResolution, planState, planEdits
<1> QED BY <1>3, <1>4, <1>5, OverlayTakes

\* Whatever keys are pressed, in whatever order results come, and whatever was
\* remapped: the overlay that has the keys is the one Esc closes, Enter confirms and
\* the arrows move in, and the one the screen shows; over an operation no key edits
\* what it is about; and a message goes to the commit its prompt was opened for
\* (input_context, move_cursor, dismiss, handle_activate, resolve_action,
\* render_overlays, contextual_hint).
THEOREM KeysActOnTheirOwn == KeySpec => KeysActOnTheirContext
<1> DEFINE Own == /\ OneOverlay'
                  /\ UNCHANGED <<overlays, reports, operation>> \/ ScreenTellsContext'
                  /\ \/ Context = "normal"
                     \/ OperationOwnsKeys /\ OverlayOwnsKeys /\ EscLeaves /\ MessageHasItsCommit
                     \/ ~ Press
<1>1. ASSUME KeyInv, [KeyNext]_keyVars, KeyInv' PROVE Own
  <2>1. OneOverlay'
    BY <1>1, OneIsOpen, PTL
  <2>2. ScreenTellsContext'
    BY <1>1, ScreenTells, PTL
  <2>3. CASE Press /\ Context \in OperationContexts
    <3>1. Context \notin Overlays
      BY <2>3, OverlaysAre DEF OperationContexts
    <3>2. operation.at # "idle" /\ "confirming" \notin overlays
          /\ "inProgress" \notin overlays /\ "failed" \notin overlays
      BY <1>1, <2>3, OperationTakes DEF KeyInv, OverlaysStand, OverlaySets, OperationContexts
    <3>3. OverlayOwnsKeys /\ EscLeaves /\ MessageHasItsCommit
      BY <2>3, <3>1, <3>2 DEF OverlayOwnsKeys, EscLeaves, MessageHasItsCommit, OperationContexts
    <3> QED BY <1>1, <2>1, <2>2, <2>3, <3>3, OperationsOwnKeys
  <2>4. CASE Press /\ Context \in Overlays
    <3>1. OperationOwnsKeys
      BY <2>4, OverlaysAre DEF OperationOwnsKeys, OperationContexts
    <3> QED BY <1>1, <2>1, <2>2, <2>4, <3>1, OverlaysOwnKeys, EscLeavesOwn, MessagesHaveTheirCommit
  <2> QED BY <1>1, <2>1, <2>2, <2>3, <2>4, PressMeans
<1>2. KeySpec => []KeyInv
  BY OneOverlayAtATime
<1>3. KeyInv /\ KeyInv' /\ [KeyNext]_keyVars => [Own]_keyVars
  BY <1>1
<1> QED BY <1>2, <1>3, PTL DEF KeySpec, KeysActOnTheirContext

==============================================================================
