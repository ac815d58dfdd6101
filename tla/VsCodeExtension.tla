---------------------------- MODULE VsCodeExtension ----------------------------
(***************************************************************************)
(* The extension inside its one event loop: ExtensionController finds git  *)
(* and the repository of the active file and binds HistoryController to    *)
(* it, which decorates that file with its blame.  Each action is one       *)
(* handler, timer or continuation, up to its next await; what a settled    *)
(* promise is awaited for comes before the next event, timer or process.   *)
(***************************************************************************)
EXTENDS Naturals, FiniteSets

CONSTANTS
    Files,       \* files one can edit
    RootOf,      \* the directory each file is queried in
    RepositoryOf, \* the repository of each of those, or NoRepository
    NoFile, NoRepository,
    MaxEvents    \* bound: events of the user or of the editor

ASSUME ExtensionAssumption ==
    /\ MaxEvents \in Nat
    /\ RootOf \in [Files -> DOMAIN RepositoryOf]
    /\ NoFile \notin Files

VARIABLES
    editor,      \* host.activeTextEditor
    version,     \* document.version of each file
    trusted,     \* host.isWorkspaceTrusted
    enabled,     \* gitsail.blame.enabled
    events,      \* the number of events
    contextGeneration,  \* ExtensionController: generation
    probe,       \* cachedProbe, or "none"
    cache,       \* resolver.cache: per root "none", "asked", or what was found
    invalidations,       \* the number of times that cache was dropped
    refreshes,   \* refreshes at an await
    discoveries, \* git rev-parse of roots
    bound,       \* currentRepoRoot, and the binding of HistoryController
    timer,       \* the recompute that the debounce timer will start, if any
    blames,      \* blameQueryCache: its entries
    blameGeneration,   \* HistoryController: generation
    recomputes,  \* recomputes at an await
    decorations, \* per file, the version its decorations were made for, or 0
    disposed

environment == <<editor, version, trusted, enabled>>
context == <<contextGeneration, probe, cache, invalidations, refreshes, discoveries>>
history == <<timer, blames, blameGeneration, recomputes, decorations>>
extensionVars == <<environment, events, context, bound, history, disposed>>

\* Nothing awaits a promise that is settled.
Settled ==
    /\ \A r \in refreshes : r.at \notin {"probed", "resolved"}
    /\ \A w \in recomputes : w.at \notin {"ok", "failed"}

Roots == DOMAIN RepositoryOf
NoTimer == [file |-> NoFile]
NothingAsked == [r \in Roots |-> "none"]

ExtensionInit ==
    /\ editor \in Files \cup {NoFile} /\ version = [f \in Files |-> 1]
    /\ trusted \in BOOLEAN /\ enabled \in BOOLEAN
    /\ events = 0 /\ disposed = FALSE
    /\ contextGeneration = 0 /\ probe = "none" /\ cache = NothingAsked /\ invalidations = 0
    /\ refreshes = {} /\ discoveries = {}
    /\ bound = NoRepository
    /\ timer = NoTimer /\ blames = {} /\ blameGeneration = 0 /\ recomputes = {}
    /\ decorations = [f \in Files |-> 0]

-------------------------------------------------------------------------------
(* Blame decorations *)

\* scheduleBlameRecompute, with the editor, binding and setting of that moment.
\* Without an editor or a binding it leaves the decorations and the generation;
\* switched off, it clears the former.
Schedule(file, at, repository, on) ==
    IF file = NoFile \/ repository = NoRepository
    THEN timer' = NoTimer /\ UNCHANGED <<blameGeneration, decorations>>
    ELSE IF ~on
    THEN timer' = NoTimer /\ decorations' = [decorations EXCEPT ![file] = 0]
         /\ UNCHANGED blameGeneration
    ELSE /\ blameGeneration' = blameGeneration + 1
         /\ timer' = [file |-> file, version |-> at, generation |-> blameGeneration']
         /\ UNCHANGED decorations

\* Of the key a timer or a recompute is for.
IsFor(key, w) == key.file = w.file /\ key.version = w.version
RunningBlames == {b \in blames : b.state = "running"}

\* What awaits a killed query ends with it, and leaves the decorations alone.
Survivors == {w \in recomputes : w.at # "blame" \/ ~\E b \in RunningBlames : IsFor(b, w)}

\* BlameQueryCache.get of a new key: what runs for another is killed.
AskBlame ==
    /\ blames' = (blames \ RunningBlames) \cup {[file |-> timer.file, version |-> timer.version,
                                           state |-> "running"]}
    /\ recomputes' = Survivors \cup {[file |-> timer.file, version |-> timer.version,
                                      generation |-> timer.generation, at |-> "blame"]}

\* ... and of a key it has, which may be running or answered.
JoinBlame(b) ==
    /\ recomputes' = recomputes \cup
           {[file |-> b.file, version |-> b.version, generation |-> timer.generation,
             at |-> IF b.state = "running" THEN "blame" ELSE b.state]}
    /\ UNCHANGED blames

\* recomputeBlameDecorations, up to its first await.
TimerFires ==
    /\ Settled /\ timer # NoTimer /\ timer' = NoTimer
    /\ IF ~enabled THEN UNCHANGED <<blames, recomputes>>
       ELSE \/ (~\E b \in blames : IsFor(b, timer)) /\ AskBlame
            \/ \E b \in blames : IsFor(b, timer) /\ JoinBlame(b)
    /\ UNCHANGED <<environment, events, context, bound, blameGeneration, decorations, disposed>>

BlameEnds(b, answer) ==
    /\ Settled /\ b.state = "running"
    /\ answer = "ok" => RepositoryOf[RootOf[b.file]] = bound \/ disposed
    /\ blames' = (blames \ {b}) \cup {[b EXCEPT !.state = answer]}
    /\ recomputes' = {IF w.at = "blame" /\ IsFor(b, w) THEN [w EXCEPT !.at = answer] ELSE w :
                         w \in recomputes}
    /\ UNCHANGED <<environment, events, context, bound, timer, blameGeneration,
                   decorations, disposed>>

\* Mutated form: an overtaken recompute decorates all the same.
IsStaleRecomputeNever(w) == disposed

IsStaleRecompute(w) == disposed \/ w.generation # blameGeneration

Decorate(w, at) ==
    /\ recomputes' = recomputes \ {w}
    /\ decorations' = IF IsStaleRecompute(w) THEN decorations
                      ELSE [decorations EXCEPT ![w.file] = at]

\* The blame is there: the subjects of its commits are asked for, or nothing is shown.
BlameReturned(w) ==
    /\ \/ w.at = "failed" /\ Decorate(w, 0)
       \/ w.at = "ok" /\ IsStaleRecompute(w) /\ Decorate(w, 0)
       \/ /\ w.at = "ok" /\ ~IsStaleRecompute(w)
          /\ recomputes' = (recomputes \ {w}) \cup {[w EXCEPT !.at = "subjects"]}
          /\ UNCHANGED decorations
    /\ UNCHANGED <<environment, events, context, bound, timer, blames, blameGeneration, disposed>>

\* Each subject is found or left out; the decorations are made either way.
SubjectsReturned(w) ==
    /\ Settled /\ w.at = "subjects" /\ Decorate(w, w.version)
    /\ UNCHANGED <<environment, events, context, bound, timer, blames, blameGeneration, disposed>>

-------------------------------------------------------------------------------
(* Git and the repository of the active file *)

\* notifyRepositoryContext: HistoryController drops its caches, kills what runs,
\* and schedules a recompute.
Bind(repository) ==
    /\ bound' = repository
    /\ blames' = {} /\ recomputes' = Survivors
    /\ IF editor = NoFile THEN Schedule(NoFile, 0, repository, enabled)
       ELSE Schedule(editor, version[editor], repository, enabled)

KeepBinding == UNCHANGED <<bound, history>>

\* refresh, up to its first await: git is probed unless it was, or may not be.
RefreshContext(known, mayRun) ==
    /\ contextGeneration' = contextGeneration + 1
    /\ probe' = IF known = "none" /\ ~mayRun THEN "untrusted" ELSE known
    /\ refreshes' = refreshes \cup
           {[generation |-> contextGeneration', at |-> IF probe' = "none" THEN "probing" ELSE "probed",
             found |-> probe', root |-> NoRepository, epoch |-> 0]}

Replaced(r, to) == refreshes' = (refreshes \ {r}) \cup to

\* probeGit ends; its answer is cached, whatever has become of the cache since.
ProbeEnds(r, found) ==
    /\ Settled /\ r.at = "probing"
    /\ probe' = found
    /\ Replaced(r, {[r EXCEPT !.at = "probed", !.found = found]})
    /\ KeepBinding
    /\ UNCHANGED <<environment, events, contextGeneration, cache, invalidations,
                   discoveries, disposed>>

\* Mutated form: the newest to end wins.
IsStaleNever(r) == disposed

IsStale(r) == disposed \/ r.generation # contextGeneration

Overtaken(r) ==
    /\ r.at \in {"probed", "resolved"} /\ IsStale(r)
    /\ Replaced(r, {})
    /\ KeepBinding
    /\ UNCHANGED <<environment, events, contextGeneration, probe, cache, invalidations,
                   discoveries, disposed>>

\* applyGitProblem, or no file to ask about.
NothingToResolve(r) ==
    /\ r.at = "probed" /\ ~IsStale(r)
    /\ r.found # "ok" \/ editor = NoFile
    /\ Replaced(r, {}) /\ Bind(NoRepository)
    /\ UNCHANGED <<environment, events, contextGeneration, probe, cache, invalidations,
                   discoveries, disposed>>

\* RepositoryContextResolver.resolve: cached from the moment it is asked.
Resolve(r) ==
    /\ r.at = "probed" /\ ~IsStale(r) /\ r.found = "ok" /\ editor # NoFile
    /\ LET root == RootOf[editor]
           waiting == [r EXCEPT !.at = "resolving", !.root = root, !.epoch = invalidations]
       IN CASE cache[root] = "none" ->
                  /\ cache' = [cache EXCEPT ![root] = "asked"]
                  /\ discoveries' = discoveries \cup {[root |-> root, epoch |-> invalidations]}
                  /\ Replaced(r, {waiting})
            [] cache[root] = "asked" -> Replaced(r, {waiting}) /\ UNCHANGED <<cache, discoveries>>
            [] OTHER ->
                  /\ Replaced(r, {[waiting EXCEPT !.at = "resolved", !.found = cache[root]]})
                  /\ UNCHANGED <<cache, discoveries>>
    /\ KeepBinding
    /\ UNCHANGED <<environment, events, contextGeneration, probe, invalidations, disposed>>

\* git rev-parse ends; a failure is cached like an answer, and what the cache
\* has dropped in between only answers those who wait for it.
DiscoverEnds(d, failed) ==
    LET found == IF failed THEN "git-unavailable"
                 ELSE IF RepositoryOf[d.root] = NoRepository THEN "no-repository" ELSE "repository"
    IN /\ Settled /\ discoveries' = discoveries \ {d}
       /\ cache' = IF d.epoch = invalidations THEN [cache EXCEPT ![d.root] = found] ELSE cache
       /\ refreshes' =
             {IF r.at = "resolving" /\ r.root = d.root /\ r.epoch = d.epoch
              THEN [r EXCEPT !.at = "resolved", !.found = found] ELSE r : r \in refreshes}
       /\ KeepBinding
       /\ UNCHANGED <<environment, events, contextGeneration, probe, invalidations, disposed>>

\* applyContext
ApplyContext(r) ==
    /\ r.at = "resolved" /\ ~IsStale(r)
    /\ Replaced(r, {})
    /\ Bind(IF r.found = "repository" THEN RepositoryOf[r.root] ELSE NoRepository)
    /\ UNCHANGED <<environment, events, contextGeneration, probe, cache, invalidations,
                   discoveries, disposed>>

-------------------------------------------------------------------------------
(* Events *)

Event == Settled /\ ~disposed /\ events < MaxEvents /\ events' = events + 1

\* Activate: the first refresh.
Activate ==
    /\ contextGeneration = 0 /\ ~disposed
    /\ RefreshContext(probe, trusted) /\ KeepBinding
    /\ UNCHANGED <<environment, events, cache, invalidations, discoveries, disposed>>

\* Another file gets active, or none: both controllers are told.
SwitchEditor(file) ==
    /\ contextGeneration > 0 /\ Event /\ file # editor /\ editor' = file
    /\ RefreshContext(probe, trusted)
    /\ Schedule(file, IF file = NoFile THEN 0 ELSE version[file], bound, enabled)
    /\ UNCHANGED <<version, trusted, enabled, cache, invalidations, discoveries, bound, blames,
                   recomputes, disposed>>

\* A key typed in the file, or a move of its cursor.
EditOrMove(edited) ==
    /\ contextGeneration > 0 /\ Event /\ editor # NoFile
    /\ version' = [version EXCEPT ![editor] = IF edited THEN @ + 1 ELSE @]
    /\ Schedule(editor, version'[editor], bound, enabled)
    /\ UNCHANGED <<editor, trusted, enabled, context, bound, blames, recomputes, disposed>>

\* onWorkspaceFoldersChanged drops what was found.
WorkspaceFoldersChanged ==
    /\ contextGeneration > 0 /\ Event
    /\ cache' = NothingAsked /\ invalidations' = invalidations + 1
    /\ RefreshContext(probe, trusted) /\ KeepBinding
    /\ UNCHANGED <<environment, discoveries, disposed>>

\* onEnvironmentChanged: the probe is dropped as well.
GrantTrust ==
    /\ contextGeneration > 0 /\ Event /\ ~trusted /\ trusted' = TRUE
    /\ cache' = NothingAsked /\ invalidations' = invalidations + 1
    /\ RefreshContext("none", TRUE) /\ KeepBinding
    /\ UNCHANGED <<editor, version, enabled, discoveries, disposed>>

\* Any setting of the extension, the switch of blame among them: both
\* controllers are told.
ConfigurationChanged(on) ==
    /\ contextGeneration > 0 /\ Event /\ enabled' = on
    /\ cache' = NothingAsked /\ invalidations' = invalidations + 1
    /\ RefreshContext("none", trusted)
    /\ Schedule(editor, IF editor = NoFile THEN 0 ELSE version[editor], bound, on)
    /\ UNCHANGED <<editor, version, trusted, discoveries, bound, blames, recomputes, disposed>>

\* deactivate: HistoryController is gone when its binding is.
Deactivate ==
    /\ Settled /\ contextGeneration > 0 /\ ~disposed /\ disposed' = TRUE
    /\ contextGeneration' = contextGeneration + 1 /\ blameGeneration' = blameGeneration + 1
    /\ timer' = NoTimer /\ bound' = NoRepository
    /\ UNCHANGED <<environment, events, probe, cache, invalidations, refreshes, discoveries, blames,
                   recomputes, decorations>>

ExtensionNext ==
    \/ Activate \/ GrantTrust \/ WorkspaceFoldersChanged \/ Deactivate \/ TimerFires
    \/ \E file \in Files \cup {NoFile} : SwitchEditor(file)
    \/ \E b \in BOOLEAN : EditOrMove(b) \/ ConfigurationChanged(b)
    \/ \E b \in blames, answer \in {"ok", "failed"} : BlameEnds(b, answer)
    \/ \E w \in recomputes : BlameReturned(w) \/ SubjectsReturned(w)
    \/ \E r \in refreshes :
          \/ \E found \in {"ok", "problem"} : ProbeEnds(r, found)
          \/ Overtaken(r) \/ NothingToResolve(r) \/ Resolve(r) \/ ApplyContext(r)
    \/ \E d \in discoveries, failed \in BOOLEAN : DiscoverEnds(d, failed)

ExtensionSpec == ExtensionInit /\ [][ExtensionNext]_extensionVars

-------------------------------------------------------------------------------
(* Properties *)

\* Nothing runs and nothing waits.
AtRest ==
    refreshes = {} /\ discoveries = {} /\ timer = NoTimer /\ RunningBlames = {} /\ recomputes = {}

\* However the answers of git overtake each other and the switches of the user,
\* what HistoryController is bound to at rest is the repository of the active
\* file, or nothing; and nothing before the workspace is trusted.
BindingFollowsEditor ==
    /\ ~trusted => bound = NoRepository
    /\ AtRest /\ bound # NoRepository => editor # NoFile /\ bound = RepositoryOf[RootOf[editor]]

\* The decorations of the active file at rest are none or were made for the
\* document as it is, whichever recomputes were overtaken, killed or dropped
\* with their repository; as long as blame is switched on and there is a repository.
DecorationsAreCurrent ==
    AtRest /\ enabled /\ bound # NoRepository /\ ~disposed =>
        decorations[editor] \in {0, version[editor]}

===============================================================================
