------------------------------ MODULE TuiPanels ------------------------------
(***************************************************************************)
(* What gitsail-tui shows of the repository (app.rs): the panels each      *)
(* refresh reloads, and the detail views loaded one by one - a file's diff *)
(* and blame, the sides of a conflict - with the tags (generation, request *)
(* id, path) by which a late answer is told from a current one.            *)
(*                                                                         *)
(* Every load runs in a thread of its own (worker.rs): it reads the        *)
(* repository at some moment, and its answer is handled at a later one, in *)
(* any order, while other programs change the repository.  The panels that *)
(* are loaded alike (tags, remotes, stash) are left out.  Panels share no  *)
(* state but the session's generation, so a behaviour may be about a few   *)
(* of them only.                                                           *)
(***************************************************************************)
EXTENDS Naturals, FiniteSets

CONSTANTS
    PanelSets,     \* sets of panels: each behaviour is about one of them
    Files,         \* files, numbered in the order Git lists them
    Names,         \* branch names
    Nothing,       \* nothing loaded, selected, pending...
    MaxChanges,    \* bound: changes of the repository
    MaxGeneration, \* bound: refreshes
    MaxRequests    \* bound: diffs, and blames, asked for

AllPanels == {"status", "branches", "conflicts"}

ASSUME PanelsAssumption == PanelSets \subseteq SUBSET AllPanels
ASSUME FilesAssumption == Files \subseteq Nat /\ IsFiniteSet(Files)
ASSUME BoundsAssumption ==
    MaxChanges \in Nat /\ MaxGeneration \in Nat \ {0} /\ MaxRequests \in Nat

VARIABLES
    panels,     \* the panels of this behaviour: it never changes
    world,      \* the repository
    generation, \* session.generation()
    askedAt,    \* history: the world's version at the last refresh
    loads,      \* loads of panels in flight
    shown,      \* per panel: what it shows
    selected,   \* App::selected_file
    blaming,    \* App::diff_view_mode is Blame
    diff, diffId, diffs,     \* App::diff and diff_request_id, and diffs in flight
    blame, blameId, blames,  \* App::blame and blame_request_id, and blames in flight
    selection,  \* session.selection().branch
    pending,    \* App::pending_branch_rename
    rename,     \* the rename in progress
    opened,     \* App::conflicts_open
    cursor,     \* App::conflict_cursor
    inspected,  \* App::inspected_conflict
    sides       \* sides of conflicts in flight: their paths

refreshed == <<panels, world, generation, askedAt, loads, shown>>
fileViews == <<selected, blaming, diff, diffId, diffs, blame, blameId, blames>>
branchViews == <<selection, pending, rename>>
conflictViews == <<opened, cursor, inspected, sides>>
vars == <<refreshed, fileViews, branchViews, conflictViews>>

\* A repository: its version counts its changes.  `conflicts' is Nothing when
\* no merge, rebase... is in progress, else the files in conflict.
Worlds ==
    [version : 0..MaxChanges, changed : SUBSET Files, branches : SUBSET Names,
     conflicts : {Nothing} \cup SUBSET Files]

\* What a panel shows: the answer it took, and (history) the generation the
\* session had then.
Nowhere == [version |-> 0, changed |-> {}, branches |-> {}, conflicts |-> Nothing]
ShownNothing == [world |-> Nowhere, takenAt |-> 0]

Loads == [panel : AllPanels, generation : 1..MaxGeneration, answer : {Nothing} \cup Worlds]
Requests == [id : 1..MaxRequests, file : Files]
Renames == [old : Names, new : Names, at : {"running", "ok", "failed"}]

\* in_progress_operation.conflicted_files(), listed in the order of their paths,
\* and the one under the cursor.
ConflictedFiles ==
    LET conflicts == shown["conflicts"].world.conflicts
    IN  IF conflicts = Nothing THEN {} ELSE conflicts
Highlighted ==
    IF cursor < Cardinality(ConflictedFiles)
    THEN CHOOSE f \in ConflictedFiles :
            Cardinality({g \in ConflictedFiles : g < f}) = cursor
    ELSE Nothing

\* The commands of a refresh: one load per panel.
LoadsOf(g) == {[panel |-> p, generation |-> g, answer |-> Nothing] : p \in panels}

\* The repository has just been opened: its first refresh is under way.
Init ==
    /\ panels \in PanelSets
    /\ \E changed \in SUBSET Files, branches \in SUBSET Names :
          world = [version |-> 0, branches |-> branches, conflicts |-> Nothing,
                   changed |-> IF "status" \in panels THEN changed ELSE {}]
    /\ generation = 1
    /\ askedAt = 0
    /\ loads = LoadsOf(1)
    /\ shown = [p \in AllPanels |-> ShownNothing]
    /\ selected = Nothing /\ blaming = FALSE
    /\ diff = Nothing /\ diffId = 0 /\ diffs = {}
    /\ blame = Nothing /\ blameId = 0 /\ blames = {}
    /\ selection = Nothing /\ pending = Nothing /\ rename = Nothing
    /\ opened = FALSE /\ cursor = 0 /\ inspected = Nothing /\ sides = {}

-----------------------------------------------------------------------------
(***************************************************************************)
(* Refreshes.                                                              *)
(***************************************************************************)

\* Any program changes the repository.
ChangeTo(changed, branches, conflicts) ==
    /\ world.version < MaxChanges
    /\ world' = [version |-> world.version + 1, changed |-> changed, branches |-> branches,
                 conflicts |-> conflicts]

Change ==
    /\ \/ \E changed \in SUBSET Files :
             /\ "status" \in panels
             /\ ChangeTo(changed, world.branches, world.conflicts)
       \/ \E branches \in SUBSET Names :
             /\ "branches" \in panels
             /\ ChangeTo(world.changed, branches, world.conflicts)
       \/ \E conflicts \in {Nothing} \cup SUBSET Files :
             /\ "conflicts" \in panels
             /\ ChangeTo(world.changed, world.branches, conflicts)
    /\ UNCHANGED <<panels, generation, askedAt, loads, shown, fileViews, branchViews, conflictViews>>

\* refresh_commands_for: on request, on focus, and after a mutation.
RefreshCommands ==
    /\ generation < MaxGeneration
    /\ generation' = generation + 1
    /\ askedAt' = world.version
    /\ loads' = loads \cup LoadsOf(generation + 1)

Refresh ==
    /\ RefreshCommands
    /\ UNCHANGED <<panels, world, shown, fileViews, branchViews, conflictViews>>

\* A thread reads the repository, or fails to: then its answer changes no more
\* than an error line, and is dropped here.
Read(l) ==
    /\ l.answer = Nothing
    /\ loads' = (loads \ {l}) \cup {[l EXCEPT !.answer = world]}
    /\ UNCHANGED <<panels, world, generation, askedAt, shown, fileViews, branchViews, conflictViews>>

ReadFails(l) ==
    /\ l.answer = Nothing
    /\ loads' = loads \ {l}
    /\ UNCHANGED <<panels, world, generation, askedAt, shown, fileViews, branchViews, conflictViews>>

\* Mutated form: an answer is current if it is not of a future refresh.
IsCurrentOrOlder(l) == l.generation <= generation

\* The answer is to the session's latest refresh.
IsCurrent(l) == l.generation = generation

Arrives(l, panel) ==
    /\ l.panel = panel
    /\ l.answer # Nothing
    /\ loads' = loads \ {l}

Show(l) == shown' = [shown EXCEPT ![l.panel] = [world |-> l.answer, takenAt |-> generation]]

\* on_status_refreshed: the selected file and its views go with the old status.
StatusRefreshed(l) ==
    /\ Arrives(l, "status")
    /\ IF IsCurrent(l)
       THEN /\ Show(l)
            /\ selected' = Nothing
            /\ blaming' = FALSE
            /\ diff' = Nothing
            /\ blame' = Nothing
       ELSE UNCHANGED <<shown, selected, blaming, diff, blame>>
    /\ UNCHANGED <<panels, world, generation, askedAt, diffId, diffs, blameId, blames, branchViews,
                   conflictViews>>

\* on_branches_loaded: a rename waiting for this list takes the selection along.
BranchesLoaded(l) ==
    /\ Arrives(l, "branches")
    /\ IF IsCurrent(l)
       THEN /\ Show(l)
            /\ pending' = Nothing
            /\ selection' = IF pending # Nothing /\ selection = pending.old
                            THEN pending.new ELSE selection
       ELSE UNCHANGED <<shown, pending, selection>>
    /\ UNCHANGED <<panels, world, generation, askedAt, rename, fileViews, conflictViews>>

\* on_in_progress_operation_loaded: the panel closes when nothing is in
\* progress any more, else its cursor stays within the new list.
InProgressOperationLoaded(l) ==
    /\ Arrives(l, "conflicts")
    /\ IF IsCurrent(l)
       THEN /\ Show(l)
            /\ IF l.answer.conflicts = Nothing
               THEN opened' = FALSE /\ cursor' = 0 /\ inspected' = Nothing
               ELSE LET length == Cardinality(l.answer.conflicts)
                    IN  /\ cursor' = CASE length = 0 -> 0
                                       [] length > 0 /\ cursor >= length -> length - 1
                                       [] OTHER -> cursor
                        /\ UNCHANGED <<opened, inspected>>
       ELSE UNCHANGED <<shown, opened, cursor, inspected>>
    /\ UNCHANGED <<panels, world, generation, askedAt, sides, fileViews, branchViews>>

-----------------------------------------------------------------------------
(***************************************************************************)
(* The diff and the blame of the selected file.                            *)
(***************************************************************************)

\* load_selected_diff, of the entry under the cursor.
LoadSelectedDiff(file) ==
    /\ file \in shown["status"].world.changed
    /\ diffId < MaxRequests
    /\ selected' = file
    /\ blaming' = FALSE
    /\ diff' = Nothing
    /\ blame' = Nothing
    /\ diffId' = diffId + 1
    /\ diffs' = diffs \cup {[id |-> diffId + 1, file |-> file]}
    /\ UNCHANGED <<refreshed, blameId, blames, branchViews, conflictViews>>

\* toggle_blame_view: blame is asked for on the way in, if a file is selected.
ToggleBlameView ==
    /\ "status" \in panels
    /\ blaming' = ~ blaming
    /\ IF blaming' /\ selected # Nothing
       THEN /\ blameId < MaxRequests
            /\ blameId' = blameId + 1
            /\ blames' = blames \cup {[id |-> blameId + 1, file |-> selected]}
       ELSE UNCHANGED <<blameId, blames>>
    /\ UNCHANGED <<refreshed, selected, diff, diffId, diffs, blame, branchViews, conflictViews>>

\* Mutated form: whichever diff arrives is shown.
DiffLoadedAnyway(r, ok) ==
    /\ diffs' = diffs \ {r}
    /\ diff' = IF ok THEN r.file ELSE diff
    /\ UNCHANGED <<refreshed, selected, blaming, diffId, blame, blameId, blames, branchViews,
                   conflictViews>>

\* on_diff_loaded.
DiffLoaded(r, ok) ==
    /\ diffs' = diffs \ {r}
    /\ diff' = IF ok /\ r.id = diffId THEN r.file ELSE diff
    /\ UNCHANGED <<refreshed, selected, blaming, diffId, blame, blameId, blames, branchViews,
                   conflictViews>>

\* on_blame_loaded.
BlameLoaded(r, ok) ==
    /\ blames' = blames \ {r}
    /\ blame' = IF ok /\ r.id = blameId THEN r.file ELSE blame
    /\ UNCHANGED <<refreshed, selected, blaming, diff, diffId, diffs, blameId, branchViews,
                   conflictViews>>

-----------------------------------------------------------------------------
(***************************************************************************)
(* Renaming a branch.                                                      *)
(***************************************************************************)

\* activate in the sidebar.
SelectBranch(name) ==
    /\ name \in shown["branches"].world.branches
    /\ selection' = name
    /\ UNCHANGED <<refreshed, pending, rename, fileViews, conflictViews>>

\* dispatch_operation of a RenameBranch: the pair is kept for the list to come.
DispatchRename(old, new) ==
    /\ rename = Nothing
    /\ old \in shown["branches"].world.branches
    /\ pending' = [old |-> old, new |-> new]
    /\ rename' = [old |-> old, new |-> new, at |-> "running"]
    /\ UNCHANGED <<refreshed, selection, fileViews, conflictViews>>

\* dispatch_operation of any other operation: no list is waited for any more.
DispatchOther ==
    /\ rename = Nothing
    /\ pending # Nothing
    /\ pending' = Nothing
    /\ UNCHANGED <<refreshed, selection, rename, fileViews, conflictViews>>

\* Git renames the branch, or refuses.
RenameBranch(ok) ==
    /\ rename # Nothing
    /\ rename.at = "running"
    /\ IF ok
       THEN /\ rename.old \in world.branches /\ rename.new \notin world.branches
            /\ ChangeTo(world.changed, (world.branches \ {rename.old}) \cup {rename.new},
                        world.conflicts)
       ELSE UNCHANGED world
    /\ rename' = [rename EXCEPT !.at = IF ok THEN "ok" ELSE "failed"]
    /\ UNCHANGED <<panels, generation, askedAt, loads, shown, selection, pending, fileViews,
                   conflictViews>>

\* on_operation_finished of the rename.
RenameFinished ==
    /\ rename # Nothing
    /\ rename.at # "running"
    /\ rename' = Nothing
    /\ IF rename.at = "ok" THEN RefreshCommands ELSE UNCHANGED <<generation, askedAt, loads>>
    /\ UNCHANGED <<panels, world, shown, selection, pending, fileViews, conflictViews>>

-----------------------------------------------------------------------------
(***************************************************************************)
(* The conflicts panel.                                                    *)
(***************************************************************************)

\* toggle_conflicts_panel.
ToggleConflictsPanel ==
    /\ \/ opened /\ opened' = FALSE /\ UNCHANGED cursor
       \/ ~ opened /\ ConflictedFiles # {} /\ opened' = TRUE /\ cursor' = 0
    /\ inspected' = Nothing
    /\ UNCHANGED <<refreshed, fileViews, branchViews, sides>>

\* move_cursor: to another file, whose sides have not been inspected.
MoveConflictCursor(next) ==
    /\ opened
    /\ next # cursor /\ next < Cardinality(ConflictedFiles)
    /\ cursor' = next
    /\ inspected' = Nothing
    /\ UNCHANGED <<refreshed, fileViews, branchViews, opened, sides>>

\* inspect_conflict.
InspectConflict ==
    /\ opened
    /\ Highlighted # Nothing
    /\ sides' = sides \cup {Highlighted}
    /\ UNCHANGED <<refreshed, fileViews, branchViews, opened, cursor, inspected>>

\* on_conflict_sides_loaded.
ConflictSidesLoaded(path, ok) ==
    /\ sides' = sides \ {path}
    /\ inspected' = IF ok /\ path = Highlighted THEN path ELSE inspected
    /\ UNCHANGED <<refreshed, fileViews, branchViews, opened, cursor>>

\* on_conflict_resolution_finished, of the file some key press resolved.
ConflictResolved(file) ==
    /\ world.conflicts # Nothing
    /\ file \in world.conflicts
    /\ opened
    /\ ChangeTo(world.changed, world.branches, world.conflicts \ {file})
    /\ inspected' = Nothing
    /\ generation < MaxGeneration
    /\ generation' = generation + 1
    /\ askedAt' = world.version + 1
    /\ loads' = loads \cup LoadsOf(generation + 1)
    /\ UNCHANGED <<panels, shown, fileViews, branchViews, opened, cursor, sides>>

Next ==
    \/ Change \/ Refresh
    \/ \E l \in loads :
          \/ Read(l) \/ ReadFails(l)
          \/ StatusRefreshed(l) \/ BranchesLoaded(l) \/ InProgressOperationLoaded(l)
    \/ \E file \in Files : LoadSelectedDiff(file) \/ ConflictResolved(file)
    \/ ToggleBlameView
    \/ \E r \in diffs, ok \in BOOLEAN : DiffLoaded(r, ok)
    \/ \E r \in blames, ok \in BOOLEAN : BlameLoaded(r, ok)
    \/ \E name \in Names : SelectBranch(name)
    \/ \E old, new \in Names : DispatchRename(old, new)
    \/ DispatchOther \/ RenameFinished
    \/ \E ok \in BOOLEAN : RenameBranch(ok)
    \/ ToggleConflictsPanel \/ InspectConflict
    \/ \E next \in 0..Cardinality(Files) : MoveConflictCursor(next)
    \/ \E path \in sides, ok \in BOOLEAN : ConflictSidesLoaded(path, ok)

Spec == Init /\ [][Next]_vars

-----------------------------------------------------------------------------
\* The shape of the state; in particular the cursor of the conflicts panel is
\* always on a file of the list, or on 0.
TypeOK ==
    /\ panels \in PanelSets
    /\ world \in Worlds
    /\ generation \in 1..MaxGeneration
    /\ askedAt \in 0..MaxChanges
    /\ loads \subseteq Loads
    /\ shown \in [AllPanels -> [world : Worlds, takenAt : 0..MaxGeneration]]
    /\ selected \in {Nothing} \cup Files
    /\ blaming \in BOOLEAN
    /\ {diff, blame} \subseteq {Nothing} \cup Files
    /\ {diffId, blameId} \subseteq 0..MaxRequests
    /\ diffs \cup blames \subseteq Requests
    /\ selection \in {Nothing} \cup Names
    /\ pending \in {Nothing} \cup [old : Names, new : Names]
    /\ rename \in {Nothing} \cup Renames
    /\ opened \in BOOLEAN
    /\ cursor \in Nat
    /\ opened => cursor < Cardinality(ConflictedFiles) \/ cursor = 0
    /\ inspected \in {Nothing} \cup Files
    /\ sides \subseteq Files

\* A panel that has been reloaded since the last refresh shows the repository
\* as it was then, or newer: in particular, after a mutation no answer read
\* before it is taken for current.
CurrentIsFresh ==
    \A p \in panels : shown[p].takenAt = generation => shown[p].world.version >= askedAt

\* The diff next to a selected file is that file's.
DiffIsOfSelectedFile == diff # Nothing /\ selected # Nothing => diff = selected

=============================================================================
