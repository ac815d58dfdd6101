---------------------------- MODULE DesktopSettings ----------------------------
(***************************************************************************)
(* What the desktop application keeps in files of its own: preferences,    *)
(* recent repositories and keybindings, and the check for updates, which   *)
(* reads and writes the preferences.  Every command runs on a thread; each *)
(* load and each save takes the mutex of its store, the change between the *)
(* two does not.  A file is overwritten in place, so that the end of the   *)
(* program in the middle of that leaves it empty or torn.                  *)
(***************************************************************************)
EXTENDS Naturals, Sequences, FiniteSets

CONSTANTS
    Commands,    \* threads of commands
    Themes, Unset, \* themes, and the value of what is not set
    Places,      \* repositories to open
    Shortcuts,   \* actions that have a key
    MaxRecent,   \* MAX_RECENT_REPOSITORIES
    Day,         \* ONE_DAY_SECONDS
    MaxClock,    \* bound: seconds
    MaxCalls,    \* bound: commands asked for
    MaxCrashes   \* bound: ends of the program in the middle of a command

ASSUME SettingsAssumption ==
    /\ {MaxRecent, Day} \subseteq Nat \ {0}
    /\ {MaxClock, MaxCalls, MaxCrashes} \subseteq Nat

VARIABLES
    file,        \* the three files
    job,         \* per thread, the command it runs
    clock,       \* seconds, from 1: 0 is no time at all; it may be set back
    wanted,      \* history: what the commands that ended well have asked for
    disturbed,   \* history: stores whose commands overlapped, or were not read or
                 \* written whole
    asked, crashes \* numbers of commands and of crashes

settingsVars == <<file, job, clock, wanted, disturbed, asked, crashes>>

Checks == {"manual check", "automatic check"}
Stores == {"preferences", "recents", "keybindings"}
Whole(value) == [state |-> "whole", value |-> value]
Damaged(state) == [state |-> state, value |-> Unset]
NoJob == [name |-> "none", arg |-> Unset, step |-> "none", at |-> 0, value |-> Unset]

\* Preferences::default; checked at 0 is never.
Defaults == [theme |-> Unset, updates |-> TRUE, checked |-> 0]
NoOverrides == [a \in Shortcuts |-> 0]

SettingsInit ==
    /\ file = [s \in Stores |-> Damaged("missing")]
    /\ job = [c \in Commands |-> NoJob]
    /\ clock = 1 /\ asked = 0 /\ crashes = 0 /\ disturbed = {}
    /\ wanted = [preferences |-> Defaults, recents |-> [p \in Places |-> 0],
                 keybindings |-> NoOverrides]

StoreOf(name) ==
    CASE name \in {"set theme", "set updates"} \cup Checks -> "preferences"
      [] name \in {"record", "forget"} -> "recents"
      [] name \in {"override", "reset all"} -> "keybindings"
      [] OTHER -> "none"

-------------------------------------------------------------------------------
(* What is loaded *)

\* A missing or empty file is the defaults; so is a torn one, with a diagnostic.
LoadedPreferences(content) == IF content.state = "whole" THEN content.value ELSE Defaults

\* retain: all entries but those of a path.
Retain(kept, entry, path) == IF entry.path = path THEN kept ELSE Append(kept, entry)
Retained(entries, path) ==
    LET kept[n \in 0 .. Len(entries)] ==
            IF n = 0 THEN <<>> ELSE Retain(kept[n - 1], entries[n], path)
    IN kept
Without(entries, path) == Retained(entries, path)[Len(entries)]

\* touch: the entry goes to the front, and the last one may have to leave.
Touch(entries, path, at) ==
    LET moved == <<[path |-> path, at |-> at]>> \o Without(entries, path)
    IN SubSeq(moved, 1, IF Len(moved) < MaxRecent THEN Len(moved) ELSE MaxRecent)

\* from_entries: oldest first (a stable sort), each touched.
Oldest(entries, left) ==
    CHOOSE i \in left : \A j \in left :
        entries[i].at < entries[j].at \/ (entries[i].at = entries[j].at /\ i <= j)
TouchOldest(entries, replay) ==
    LET i == Oldest(entries, replay.left)
    IN [left |-> replay.left \ {i},
        recents |-> Touch(replay.recents, entries[i].path, entries[i].at)]
Replayed(entries) ==
    LET replayed[n \in 0 .. Len(entries)] ==
            IF n = 0 THEN [left |-> DOMAIN entries, recents |-> <<>>]
            ELSE TouchOldest(entries, replayed[n - 1])
    IN replayed
FromEntries(entries) == Replayed(entries)[Len(entries)].recents

\* A torn list is an error, here and in what wants to change it.
LoadedRecents(content) == IF content.state = "whole" THEN FromEntries(content.value) ELSE <<>>
LoadedOverrides(content) == IF content.state = "whole" THEN content.value ELSE NoOverrides

-------------------------------------------------------------------------------
(* Commands *)

Running == {c \in Commands : job[c] # NoJob}

\* A command is called, with the time it is called at.
Asks(c, name, arg) ==
    /\ job[c] = NoJob /\ asked < MaxCalls /\ asked' = asked + 1
    /\ job' = [job EXCEPT ![c] = [name |-> name, arg |-> arg, step |-> "load", at |-> clock,
                                  value |-> Unset]]
    /\ disturbed' = disturbed \cup
           (IF \E d \in Running : StoreOf(job[d].name) = StoreOf(name)
            THEN {StoreOf(name)} \ {"keybindings"} ELSE {})
    /\ UNCHANGED <<file, clock, wanted, crashes>>

CallSetTheme(c) == \E theme \in Themes : Asks(c, "set theme", theme)
CallSetCheckForUpdates(c) == \E enabled \in BOOLEAN : Asks(c, "set updates", enabled)
CallCheckForUpdate(c) == \E name \in Checks : Asks(c, name, Unset)
CallOpenRepository(c) == \E place \in Places : Asks(c, "record", place)
CallForget(c) == \E place \in Places : Asks(c, "forget", place)
CallSetOverride(c) ==
    \E a \in Shortcuts, key \in 0 .. 1 : Asks(c, "override", [action |-> a, key |-> key])
CallResetAll(c) == Asks(c, "reset all", Unset)

Ends(c) == job' = [job EXCEPT ![c] = NoJob]
Continues(c, step, value) == job' = [job EXCEPT ![c].step = step, ![c].value = value]
OnlyJobs == UNCHANGED <<file, clock, wanted, disturbed, asked, crashes>>

Runs(c, name, step) == job[c].name = name /\ job[c].step = step

\* SetThemePreference, SetCheckForUpdatesPreference: one field of what was loaded.
LoadToSetTheme(c) ==
    /\ Runs(c, "set theme", "load")
    /\ Continues(c, "save", [LoadedPreferences(file.preferences) EXCEPT !.theme = job[c].arg])
    /\ OnlyJobs
LoadToSetUpdates(c) ==
    /\ Runs(c, "set updates", "load")
    /\ Continues(c, "save", [LoadedPreferences(file.preferences) EXCEPT !.updates = job[c].arg])
    /\ OnlyJobs

\* Mutated form: the day is counted, the switch is not looked at.
MayCheckUnasked(loaded, at) == loaded.checked = 0 \/ at >= loaded.checked + Day

MayCheck(loaded, at) ==
    loaded.updates /\ (loaded.checked = 0 \/ at >= loaded.checked + Day)

\* CheckForUpdate: an automatic check asks whether it may; what cannot be read
\* is taken to be the defaults.
LoadToCheck(c) ==
    /\ job[c].name \in Checks /\ job[c].step = "load"
    /\ \E readable \in BOOLEAN :
          LET loaded == IF readable THEN LoadedPreferences(file.preferences) ELSE Defaults
          IN /\ IF job[c].name = "automatic check" /\ ~MayCheck(loaded, job[c].at)
                THEN Ends(c)
                ELSE Continues(c, "save", [loaded EXCEPT !.checked = job[c].at])
             /\ disturbed' = disturbed \cup (IF readable THEN {} ELSE {"preferences"})
    /\ UNCHANGED <<file, clock, wanted, asked, crashes>>

LoadRecents(c) ==
    /\ job[c].name \in {"record", "forget"} /\ job[c].step = "load"
    /\ IF file.recents.state = "torn" THEN Ends(c)
       ELSE LET loaded == LoadedRecents(file.recents)
            IN Continues(c, "save", IF job[c].name = "record"
                               THEN Touch(loaded, job[c].arg, job[c].at)
                               ELSE Without(loaded, job[c].arg))
    /\ OnlyJobs

\* What a command has asked for, once it has saved.
Wanted(c, value) ==
    CASE job[c].name = "set theme" -> [wanted EXCEPT !.preferences.theme = job[c].arg]
      [] job[c].name = "set updates" -> [wanted EXCEPT !.preferences.updates = job[c].arg]
      [] job[c].name \in Checks ->
            [wanted EXCEPT !.preferences.checked = job[c].at]
      [] job[c].name = "record" ->
            LET opened == [wanted.recents EXCEPT ![job[c].arg] = job[c].at]
                \* One of the oldest others may have to leave.
                Left(p) ==
                    /\ Len(value) = MaxRecent
                    /\ \A i \in DOMAIN value :
                           value[i].path # p /\ (i = 1 \/ value[i].at >= opened[p])
            IN [wanted EXCEPT !.recents = [p \in Places |-> IF Left(p) THEN 0 ELSE opened[p]]]
      [] job[c].name = "forget" -> [wanted EXCEPT !.recents[job[c].arg] = 0]
      [] job[c].name = "override" ->
            [wanted EXCEPT !.keybindings[job[c].arg.action] = job[c].arg.key]
      [] job[c].name = "reset all" -> [wanted EXCEPT !.keybindings = NoOverrides]

Saved(c, value) ==
    /\ file' = [file EXCEPT ![StoreOf(job[c].name)] = Whole(value)]
    /\ wanted' = Wanted(c, value)
    /\ UNCHANGED <<clock, disturbed, asked, crashes>>

\* A keybinding command saves in the step in which it loads.
Saves(c) ==
    job[c].step = IF StoreOf(job[c].name) = "keybindings" THEN "load" ELSE "save"

\* The file was truncated, and no more than a part of it written.
Tears(c) ==
    LET s == StoreOf(job[c].name)
    IN /\ \E state \in {"empty", "torn"} : file' = [file EXCEPT ![s] = Damaged(state)]
       /\ disturbed' = disturbed \cup {s}

\* Then a check goes on to its request; the others are done.
Save(c) ==
    /\ job[c].step = "save" /\ Saved(c, job[c].value)
    /\ IF job[c].name \in Checks THEN Continues(c, "request", Unset)
       ELSE Ends(c)

\* The file cannot be opened, or not be written to the end: a check does not mind.
SaveFails(c) ==
    /\ Saves(c)
    /\ IF job[c].name \in Checks THEN Continues(c, "request", Unset) ELSE Ends(c)
    /\ UNCHANGED <<file, disturbed>> \/ Tears(c)
    /\ UNCHANGED <<clock, wanted, asked, crashes>>

\* The only step that uses the network.
LatestRelease(c) == job[c].step = "request" /\ Ends(c) /\ OnlyJobs

Overrides(c, loaded) ==
    IF job[c].name = "reset all" THEN NoOverrides
    ELSE [loaded EXCEPT ![job[c].arg.action] = job[c].arg.key]

\* Mutated form: load and save under the mutex, the change outside of it.
ChangeOverridesApart(c) ==
    /\ job[c].name \in {"override", "reset all"} /\ job[c].step = "load"
    /\ Continues(c, "save", Overrides(c, LoadedOverrides(file.keybindings)))
    /\ OnlyJobs

\* set_override and reset_all hold the mutex throughout.
ChangeOverrides(c) ==
    /\ job[c].name \in {"override", "reset all"} /\ job[c].step = "load"
    /\ Saved(c, Overrides(c, LoadedOverrides(file.keybindings))) /\ Ends(c)

\* The program ends, and is started again; one save may be under way.
Quit ==
    /\ Running # {} /\ crashes < MaxCrashes /\ crashes' = crashes + 1
    /\ job' = [c \in Commands |-> NoJob]
    /\ UNCHANGED <<file, disturbed>> \/ \E c \in Running : Saves(c) /\ Tears(c)
    /\ UNCHANGED <<clock, wanted, asked>>

\* now_unix_seconds is the time of the system: it may be set forward, and back.
Tick == clock' \in 1 .. MaxClock
        /\ UNCHANGED <<file, job, wanted, disturbed, asked, crashes>>

SettingsNext ==
    \/ Tick \/ Quit
    \/ \E c \in Commands :
          \/ CallSetTheme(c) \/ CallSetCheckForUpdates(c) \/ CallCheckForUpdate(c)
          \/ CallOpenRepository(c) \/ CallForget(c) \/ CallSetOverride(c) \/ CallResetAll(c)
          \/ LoadToSetTheme(c) \/ LoadToSetUpdates(c) \/ LoadToCheck(c) \/ LoadRecents(c)
          \/ Save(c) \/ SaveFails(c) \/ LatestRelease(c) \/ ChangeOverrides(c)

SettingsSpec == SettingsInit /\ [][SettingsNext]_settingsVars

-------------------------------------------------------------------------------
(* Properties *)

\* The recent repositories are those opened last, each once, in the order of the
\* times that were recorded; whatever the clock says, the one recorded stays.
KeepsRecents(entries) ==
    /\ Len(entries) <= MaxRecent
    /\ \A i, j \in DOMAIN entries :
           i < j => entries[i].at >= entries[j].at /\ entries[i].path # entries[j].path
    /\ {<<entries[i].path, entries[i].at>> : i \in DOMAIN entries} =
           {<<p, wanted.recents[p]>> : p \in {q \in Places : wanted.recents[q] # 0}}

HoldsWanted(s) ==
    CASE s = "preferences" -> LoadedPreferences(file[s]) = wanted[s]
      [] s = "recents" -> KeepsRecents(LoadedRecents(file[s]))
      [] s = "keybindings" -> LoadedOverrides(file[s]) = wanted[s]

\* The files hold what the commands that ended well asked for: always, for the
\* keybindings; if no two commands on it overlapped, for the others; and as long
\* as the file was not being written when the program ended.
FilesHoldWhatWasAsked ==
    \A s \in Stores : s \notin disturbed => HoldsWanted(s)

\* No automatic check goes on to the network when the user has turned checks
\* off, or within a day of another, whatever else was saved in between
\* (CheckForUpdate), under the same conditions.
NoUnaskedRequest ==
    [][\A c \in Commands :
          (job[c].name = "automatic check" /\ job[c].step = "save" /\ job'[c].step = "request"
           /\ "preferences" \notin disturbed) =>
              /\ wanted.preferences.updates
              /\ \/ wanted.preferences.checked = 0
                 \/ job[c].at >= wanted.preferences.checked + Day]_settingsVars
===============================================================================
