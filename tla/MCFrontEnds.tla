----------------------------- MODULE MCFrontEnds -----------------------------
(***************************************************************************)
(* What runs in the desktop application and in the editor, one part per    *)
(* behaviour: they share no state.                                         *)
(***************************************************************************)
EXTENDS DesktopSession, DesktopSettings, DesktopStores, VsCodeExtension, TLC

CONSTANTS r1, r2, nothing, c1, c2, light, unset, p1, p2, p3, openGraph, openStatus,
          f1, f2, rootA, rootB, repoA, repoB, noFile,
          t1, t2, main, other

VARIABLE part  \* "window", one of the stores of settings, "features", or "editor"

allVars == <<vars, settingsVars, storesVars, extensionVars, part>>

Directories == (f1 :> rootA) @@ (f2 :> rootB)
DirectoriesOf == (rootA :> repoA) @@ (rootB :> repoB)

AllInit ==
    /\ part \in {"window", "features", "editor"} \cup Stores
    /\ Init /\ SettingsInit /\ StoresInit /\ ExtensionInit
    \* What does not move has one state.
    /\ part # "window" => handoff = FALSE
    /\ part # "editor" => editor = NoFile /\ ~trusted /\ ~enabled
    /\ part = "editor" => enabled /\ editor # f2  \* the files are alike
    /\ part # "features" => view = "diff"

\* The commands on one store: the stores have a file and a mutex each.
SettingsOf(store) ==
    SettingsNext /\ \A c \in Commands : job'[c] # NoJob => StoreOf(job'[c].name) = store

AllNext ==
    /\ UNCHANGED part
    /\ \/ part = "window" /\ Next /\ UNCHANGED <<settingsVars, storesVars, extensionVars>>
       \/ part \in Stores /\ SettingsOf(part) /\ UNCHANGED <<vars, storesVars, extensionVars>>
       \/ part = "features" /\ StoresNext /\ UNCHANGED <<vars, settingsVars, extensionVars>>
       \/ part = "editor" /\ ExtensionNext /\ UNCHANGED <<vars, settingsVars, storesVars>>

AllSpec == AllInit /\ [][AllNext]_allVars

AllViews == {"diff", "blame", "search", "lists", "pulls", "writing", "merge", "refs"}
=============================================================================
