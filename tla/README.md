# Gitsail, modelled in TLA+

Gitsail is a Git client with one core in Rust and several faces: a terminal
interface (TUI), a desktop application (Tauri and Vue), a command line, and a
VS Code extension that talks to git itself. Reads and writes are `git`
subprocesses. What is hard in it is not Git but time: every face starts reads
and mutations in the background, goes on taking keys and clicks, and is handed
answers in any order, while other terminals, editors and programs change the
repository underneath. The code defends itself with generations, request ids,
epochs and locks. These modules say what those defences promise, and check it.

Contents: 1 inventory, 2 modules, 3 runs, 4 bounds, deadlock and fairness,
5 proofs, 6 findings, 7 what is not modelled, 8 plan.

## 1. Inventory

| Component | State it keeps | Operations | Modules |
| --- | --- | --- | --- |
| Query caches, `gitsail-application/cache.rs`, `graph_cache.rs`, `blame_cache.rs` | entries, insertion order, generation: three mutexes | begin_query, complete_query, invalidate_all, get | GenerationCache |
| Repository session, `session.rs` | repository, status, selection, generation, active operations, caches, a lock | refreshes and their tickets, select, begin/end operation, run_mutation, switch_repository | RepositorySession |
| Lock registry, `concurrency.rs` | one mutex per shared `.git` directory | lock_for | RepositorySession, MutationLocks |
| Git provider, `gitsail-git/provider.rs`: writes | none; the repository is its state | some forty writes, most of several runs of git | GitProvider, GitWrites over Git, GitCommands |
| Git provider: reads, and the parsers of git's output | none | some twenty reads, some of several runs | GitReads over GitOutput |
| Process runner, `runner.rs` | one child, its pipes and their threads, a deadline, a cancellation flag | run_process | ProcessRunner over ChildProcess |
| Commit graph, `gitsail-domain/graph.rs` | lanes and edges that await a commit | append_page | CommitGraph |
| TUI, `gitsail-tui/app.rs`, `operation.rs`, `worker.rs`, `runtime.rs`, `keymap.rs`, `keybindings.rs` | one `App`: session, panels, graph, details, composers, a rebase plan, one OperationState | one handler per key and per message | TuiOperations, TuiPanels, TuiGraph, TuiKeys |
| Screen of the TUI, `ui.rs`, `theme.rs`, `graph_view.rs` | none: a frame is computed from `App` | render | TuiScreen, TuiKeys |
| Desktop backend, `src-tauri/state.rs`, `commands.rs` | session and epoch under one mutex, commit graph under another | one command per call of the frontend, each in its thread | DesktopSession, DesktopCommands |
| Desktop frontend, `apps/desktop/src/stores` | one store per feature | asynchronous actions, cut at each await | DesktopSession, DesktopStores |
| Desktop files, `preferences_store.rs`, `recent_repositories_store.rs`, `keybindings_store.rs`, `update_check.rs` | three JSON files, a mutex each | load, save; the update check | DesktopSettings |
| VS Code extension, `apps/vscode/src` | generations, caches by document version, abort controllers | refresh, recompute blame, queries of git of its own | VsCodeExtension, VsCodeReads, VsCodeProcess |
| Forges, `gitsail-forge`, `pull_requests.rs`, `forge_credentials.rs`, `forge_links.rs` | tokens in the keyring | pull requests, connect, disconnect, links, latest release | Forges |
| Protocol, `gitsail-protocol` and `services/dto.ts` | none | domain to JSON and back, envelopes | Dtos, Protocol |
| CLI, `gitsail-cli` | one command | its calls, its output, its exit code | Cli |

How they meet: a front end holds a session; the session holds caches and a lock
of the registry; a use case asks a port; the provider, which is the port, asks
the runner for one git after another. The desktop frontend sees only DTOs. The
editor's extension and the CLI share no state with the rest but the repository.

What each has to get right:

* caches: bounded; a late result never replaces a newer one; nothing stale
  survives an invalidation;
* sessions and locks: mutations of one physical repository one at a time, also
  through two worktrees; nothing of the previous repository after a switch;
  status never back in time; caches no older than the status beside them;
* provider: what was confirmed is what happens, or an error is reported; only a
  call confirmed as destructive loses anything; a half-done operation can be
  continued or aborted; a parser understands what git prints, or refuses it;
* runner: every call returns within its timeout, with all that was written;
* TUI: a mutation is asked about, confirmed, run once, reported, and nothing is
  stacked behind it; a confirmation has what it is about; an operation in
  progress ends on the screen; panels, details and the graph never show an older
  or another answer than the current one;
* desktop: status, graph, rows, details and operations belong to the repository,
  the branch and the file on the screen; no update of a file lost;
* editor: decorations belong to the document as it is;
* forges: a token goes to its forge only; a refusal is told as what it is;
* protocol and CLI: nothing lost or mistaken on the way to a frontend or a script.

The behaviours that are hard, and tests hardly reach, are the list `hazards` of
`PROJECT.json`, each at its line with the properties aimed at it.

## 2. Modules

A model keeps control and drops data: a status, a page or a cached result is
the *version* or the *repository* it was read from, so that "stale" and "of
another repository" can be said. History variables are marked as such where
they are declared; no guard reads one, except where it names a bound.
Definitions whose comment begins "Mutated form" are plausible bugs of the
definition that follows; nothing uses them but the check that each property
notices its bug.

### GenerationCache (`cache.rs`)
One action per critical section. `begin_query` is `BeginQuery`; the port's read
is `ReadRepository` or `ReadFails`; `complete_query` is `CheckTicket` (generation
lock) and `Store` (entries lock, with the order's inside), because the first is
released before the second is taken; `invalidate_all` is `EmptyEntries` and
`EmptyOrder` for the same reason. The eviction loop is the operator `Eviction`:
the least number of keys popped from the front that leaves no more than the
capacity, or all of them. `Invalidators` are threads that change the repository
and then invalidate, or only invalidate. `get` and `len` change nothing and are
left out. GraphCache forwards to this type. BlameCache is the same without order
and capacity.

### RepositorySession, MutationLocks (`session.rs`, `concurrency.rs`)
A session's methods take `&mut self`, so a method is an action, except
`run_mutation`, which blocks: `ResolveLock`, `Acquire`, `MutationSucceeds` or
`MutationFails`, `FinishMutation`. A physical repository is two counters: what a
status shows, and its refs. A commit may move the second alone. `ExternalChange`
is any other program. A query of the frontend, in a thread of its own, is begun, reads
the repository or fails, has its ticket checked, and is stored (`BeginQuery`, `ReadQuery`,
`QueryFails`, `CheckTicket`, `InsertPage`); everything else falls in between, invalidations
too, which move no ticket. History in a query and in a page (`overtaken`) is whether an
invalidation came between its begin and its insertion, and whether it had been read by
then: a page "read" before one and stored after it is *late* (6.17). `MutationLocks`
is the promise in one variable: per physical repository, the session mutating it.
`RepositorySession` implements it through `Mutator`.

### TuiOperations, ConfirmedOperations (`app.rs`, `operation.rs`, `worker.rs`, `keymap.rs`)
The event loop takes one message at a time: a key is an action, a result is an
action. `Context` is `input_context`: the overlay of an operation is modal, then
the open composer counts. Kinds of operation with the same control share a name
(`merge` also stands for rebase, cherry-pick, revert, reset and delete). A command
is a member of `mutations` or `reads` from its dispatch until its message is
handled. A `pending` operation of the repository is one with conflicts or one without
any left, which continues too. `ConfirmedOperations` is the promise in three variables: what is asked
about, what runs, what was reported. `Promised` maps the TUI's to them.

### TuiKeys (`keymap.rs`, `keybindings.rs`, `app.rs`)
What a key does. `Resolve` is `resolve_action`: the shortcuts of the keybinding file
(`ParseConfig`, `EffectiveBindings`) in the normal context, else `KeyMap`, which is
`action_for` by context. `Press` takes any key through `Update`, the handlers.
Each overlay is a flag of its own in `overlays`, as in the code; `ContextOrder` and
`DismissOrder` are the orders of `input_context` and `dismiss`, `Confirm` is
`handle_activate`. The plan of a rebase is kept in full: its order, actions and
messages, and the reword prompt over it. Of an operation only its state and what
it was begun by are kept, which is enough for whose keys they are; TuiOperations has
the rest, and takes one overlay at a time for granted, which is checked here.

### TuiScreen (`ui.rs`, `theme.rs`, `graph_view.rs`, `operation.rs`)
What a frame shows, as operators of the state and the terminal's size: the sizes of
columns, panels and overlays, the widths of a row, ages and dates, the menu, the body
of each panel and overlay, risks and prompts. Text is what it is made of; colours are left out. It
keeps no variable. `TopOverlay` and `Hint`, the overlay that is drawn on top and
the one the status bar speaks of, are two more lists beside those of TuiKeys, which
compares them in every state (`ScreenTellsContext`); the sizes, widths, dates, numbers and
risks are proved about; the bodies of panels and overlays are stated, and checked by
nothing.

### TuiPanels (`app.rs`, `worker.rs`)
A refresh asks for one load per panel under a new generation; a load reads the
repository at one moment (`Read`) and is handled at another. Diff and blame carry
request ids, the sides of a conflict their path, a rename the pair of names the
next list of branches is reconciled with. Panels meet in nothing but the
generation, so a behaviour is about one set of panels, chosen at the start from
`PanelSets`.

### TuiGraph, CommitGraph (`app.rs`, `gitsail-domain/graph.rs`)
`CommitGraph` is `append_page` as a function of the graph so far and a page: lanes, edges,
passthroughs, and edges that await a commit of a later page. It keeps no variable. A page is
folded by recursive functions, row by row and parent by parent (`AppendRows`, `AddEdges`),
which proofs can unfold. `TuiGraph` is the panel over it: the request for a page under the
generation of the search, git log reading a history that other programs and amends move, the
cursor that asks for the next page, the search that starts over. A search is the set of
commits it selects.

### DesktopSession (`state.rs`, `commands.rs`, `stores/session.ts`, `graph.ts`, `operation.ts`, `merge.ts`)
Frontend and backend with the calls between them. A call is in the bag `calls` from the
`invoke` to the handling of its answer; a frontend action runs to its next await;
a command of the backend is cut where it holds no lock (`SwapSession` and
`ResetGraph` in `open_session`; `CapturePage`, `ResetForPage` and `AppendPage` in
`get_commit_graph_page`; `RunMutation` and `EndMutation` in `run_mutation`). `then`
in a call is what the awaiting action does next. Buttons are enabled as the
components enable them; `applyStartupIntent` may open a repository at any moment.

### DesktopStores, DesktopCommands (`apps/desktop/src/stores`, `commands.rs`)
Twelve stores, each action cut at its awaits. A call is in `calls` from its
invoke to the handling of its answer; the backend runs it at one moment and the
frontend goes on at a later one, in any order. `DesktopCommands` is what a
command does to a repository reduced to its branches, its HEAD and what is in
progress: for a command and an argument, the set of its outcomes. A view is the
set of stores one panel uses; a behaviour is about one view.

### DesktopSettings (`preferences_store.rs`, `recent_repositories_store.rs`, `keybindings_store.rs`, `preferences.rs`, `recent_repositories.rs`, `update_check.rs`)
Each load and each save takes the mutex of its store; the change between the two
is outside it, so a command is three actions. A file is overwritten in place: the
program may end in the middle of that (`Quit`), and a file may be unreadable. The clock
is the system's: it may be set, back as well as forward (`Tick`).
The check for updates goes as far as its request.

### VsCodeExtension, VsCodeReads (`apps/vscode/src`)
One event loop: an action is a handler, a timer or a continuation up to its next
await. `ExtensionController` finds git and the repository of the active file,
`HistoryController` is bound to it and decorates that file. Microtasks come
before events, which is a guard of the events. `VsCodeReads` is the extension's
own client of git and its parsers, over the same repositories and the same output
as GitReads and held to the same properties.

### ChildProcess, ProcessRunner, VsCodeProcess (`runner.rs`, `git/process.ts`)
`ChildProcess` is external: git, a helper it leaves behind, and the pipes both
may hold. `ProcessRunner` is `run_process`: a thread that writes the input, one
per stream that reads up to a cap and then discards, and the caller, which polls
exit, cancellation and deadline, kills, and collects with a grace.
`VsCodeProcess` is `runGit`, whose first event to settle the promise wins.
MCProcesses runs either in every environment; it is a scenario of MCRepositorySession.

### GitProvider, Git (`gitsail-git/provider.rs`, `write_ports.rs`)
`Git` is external: what git does to a worktree, for the commands the provider
relies on, as the set of a command's outcomes. It was written from how
`provider.rs` uses git and from trying those commands out (git 2.39): an edit
ends a run of `rebase` with exit 0 and a conflict with exit 1, a change that has become
empty stops an interactive rebase, a list in which squash has only drops before
it is refused with the rebase already begun, `commit --amend` is refused over a
stopped cherry-pick, `reset` forgets a merge and not a rebase.

`GitProvider` is the provider on top of it. A call is the sequence of its runs of
git (`Steps`): reads that check and may refuse, then the run that acts, and for
a rebase plan the loop of `execute_rebase_plan` turn by turn (`Look`,
`AmendPaused`, `Resume`, `ContinuePaused`). Any read may fail (`ReadFails`,
`ResumeUnread`), except the one of HEAD after git has acted. Another program may
commit, edit a file, begin or finish an operation, or move the upstream between
any two runs; GitSail itself makes one call at a time (MutationLocks).

A commit is the set of the changes it holds and whether its message was
rewritten; a message is known by the changes of the commit it was written for;
change 0 is anything from elsewhere. A fixup behaves as a squash. Detection is one
look, although the code reads markers and then the status. `dirty` is
uncommitted changes that are no conflict. Hooks in the middle of a rebase, merges
in a plan's range, and a fast-forward (which is a merge without a conflict) are
left out.

### GitWrites, GitCommands (`provider.rs`, `write_use_cases.rs`, `mutation.rs`)
The other writes: stashes, index and commits, patches, branches, tags, worktrees,
remotes. `GitCommands` is external: what git does for them, as sets of outcomes,
on a repository that is one of four records (stash, index, refs, remote) by what
a call is about. A call is a list of runs of git with a check, an act and the
classification of what it fails with; another program or a collaborator acts
between any two. What a call takes away is the difference of two repositories (`Loses`).
A classification is a table from how a run may fail to the code that is answered;
where the code asks one after the other, a table with another for the rest (`OrElse`).
The preview of a patch answers Ok with the reason git would reject it. A worktree is made on a
branch there is, on a new one, which git makes before it looks at the path, or detached.

### GitReads, GitOutput (`provider.rs`, `patch.rs`)
`GitOutput` is what git prints, line by line and field by field, each known by
what it begins with, and the parsers that read it. `GitReads` is every read: its
runs, with other programs between them, and its answer. Output longer than a
bound is cut (`parse_diff_block`).

### Forges (`gitsail-forge`, `pull_requests.rs`, `forge_credentials.rs`, `forge_links.rs`)
A listing reads the remotes, then the keyring, then asks the forge, and each of
the three may change in between (`Deed`). The forge is external: pages of pull
requests, and every status and header the adapters look at. The adapters are
operators from an answer to an outcome.

### Dtos, Protocol, Cli (`gitsail-protocol`, `services/dto.ts`, `gitsail-cli`)
`Dtos` has one operator per DTO of `dto.rs` and one set per type of `dto.ts`: the
two copies of the wire that no compiler compares; a key that is left out is no key of the
record, a hash begins a short or another one, hosts come in two cases, and a conversion
that validates fails as it does in dto.rs. `Protocol` tells one value, lets
the user edit a rebase plan or a selection of hunks as the stores do, and takes
back what is sent. `Cli` is one run of `gitsail`: the calls of its command, any of
which may fail, Ctrl+C at any moment, then its text or its envelope, and its code. Its text
is that of output.rs: hashes cut to their beginnings, nothing that says which kind
of content is printed.

### MC modules
They add the values small instances need, and put components that share no state side by
side: a variable (`part` or `scenario`) chosen at the start says which one moves. MCGit:
writes, reads and the cache. MCFrontEnds: the window, its settings, its stores, the editor.
MCTuiOperations: composers, every kind of operation, and the provider. MCTuiPanels: panels,
graph, keys, forges. MCRepositorySession: locks, refreshes, queries of the cache, the wire,
the CLI, and the processes of MCProcesses. A property of one part says nothing of the
others; each part has its own actions, all of which fire.

## 3. Runs

| Run | Shows |
| --- | --- |
| `sessions` | Locks: two sessions, two worktrees of one repository and another repository: `SerializesMutations`, the refinement of MutationLocks. Refreshes: one session with overlapping refreshes, mutations, switches and other programs, and one whose cache has queries under way meanwhile: `NothingOfAnotherRepository`, `StatusNeverGoesBack`, `CacheNotOlderThanStatus`, `CacheSeesOwnMutations` (also when the refresh after the mutation fails). Late pages (6.17) are exempt from the last two; of another repository they lie under its key and are not served. Frontend: `WireIsUnderstood`, what dto.rs tells is what dto.ts declares, what differs is told differently, and edited plans and selections come back valid. gitsail: `CliTells`, output and exit code tell what happened, and no argument is silently dropped; what reads alike is named in it (6.50). Processes: `OutputIsWhole`, `NothingLeftRunning`, and `Returns`: a call returns if git goes on, or time is bounded, or it is cancelled, unless a helper holds a pipe (6.49). |
| `tui_operations` | Composers: `ConfirmingHasItsInput`, `NothingResurrected`, `ConcludesOnceOpen` (liveness). Every kind but patches: `EagerKeepsPromise`, the TUI implements ConfirmedOperations. Provider: calls in every order on a branch of two commits, every plan for it, every outcome of git, one act of another program: `LoopConverges`, `MessagesLandOnTheirCommits`, `CompletedAppliesPlan`; and `ActsOnConfirmedHead`: what others do before HEAD is compared, within the call too, is noticed; what they do between that and the run of git is not, and is exempt, because the code has nothing against it. |
| `tui_panels` | `CurrentIsFresh`: a panel loaded since the last refresh, in particular since a mutation, shows nothing older than it. `DiffIsOfSelectedFile`. Graph: `LayoutIsTrue`, every edge of every row of every history of four commits, in pages of one history with children before parents (6.19), is an unbroken line to its parent; `LoadingHasItsRequest`. Forges: `ListingsAreTrue`, an outcome is what the forge meant (but for 6.6), pages miss nothing, no token leaves its host. Keys: `KeysActOnTheirContext`: one overlay at a time, or a plan with its prompt; under an operation keys do nothing to what is below, and Enter alone starts it; an overlay's keys leave every other one alone; Esc closes what has the keys; a message goes to the entry its prompt was opened for; what is drawn on top, and what the status bar calls it, is what has the keys (the exceptions are in 6.46). |
| `front_ends` | Window: `StatusIsOfShownRepository`, `GraphIsOfOpenRepository`. Settings: `FilesHoldWhatWasAsked`, `NoUnaskedRequest`, of keybindings however commands overlap, of preferences and recents as long as they do not and no file was torn (6.39). Stores: `ShownIsOfLastRequest`. Editor: `BindingFollowsEditor`, `DecorationsAreCurrent`. |
| `git_and_caches` | Writes: `ActsOnConfirmedStash`, `LossIsDestructive`, `PushesLoseOnlyWhatWasSeen`, `AnswersTellWhatHappened`. Reads: `ReadsAgree`, what a parser answers is what there is, and pages are the history, but for two answers that are wrong: diffs from a file in conflict on (6.28) and worktrees with a bare entry (6.29); `PartsWereTrue`, each part of an answer of several runs was true during the read. Caches: `SizeBound`, `StaleOnlyAcrossInvalidation`. |
| `desktop_rows` | Violated: `RowsAreOfGraph` (6.1). |
| `git_completed` | Violated: `CompletedIsFinished` (6.2). Deadlock is checked. |
| `git_reset_pending` | Violated, in a linked worktree: `ResetsNothingPending` (6.21). |
| `tui_graph_filter` | Violated: `ResultsAreOfSearch` (6.3). |
| `patch_scope` | Violated: `PatchIsItsScope` (6.4). |
| `sync_branch` | Violated: `SyncsCurrentBranch` (6.5). |
| `forge_forbidden` | Violated: `ForbiddenIsDenied` (6.6). |

Each property of a passing run has a mutant in `PROJECT.json`: one definition of
the model changed as a bug in its code would change it, under which TLC finds
the property violated.

## 4. Bounds, deadlock and fairness

Every bound is a CONSTANT named in a guard. They are chosen so that the hazard a
property is about happens, with one to spare where that is affordable:

* caches: three keys with capacity two and `MaxQueries = 3` force an eviction with
  another query in flight; `MaxChanges = 2` lets a query straddle one invalidation
  and be followed by another.
* sessions: an overtaken refresh needs two tickets, a lock kept across a switch
  two switches of two sessions, a ticket outliving a switch and mistaken for a
  newer one three generations; one change of the refs suffices for a cache to be
  older than a status. One query is under way (`MaxQueries`; one that was not yet checked is
  overtaken by the next) and straddles any mutation, refresh or switch; two of one cache
  are the matter of GenerationCache.
* wire: each variant of each value, each field there and not there; a plan of two
  entries changed three times makes any permutation, action and message.
* TUI operations: two mutations are the least that can be stacked; three openings
  of composers let one be open, one superseded and one late.
* TUI panels: two generations and two changes make an old answer, a current one
  and a newer repository; two files make a list and a cursor in it, and both are changed
  at first; one blame is asked for, because nothing checked is about a second.
* keys: two files of shortcuts, one empty, one that takes over keys of prompts and
  overlays and holds lines that must be ignored; a plan of two entries, one read
  awaited at a time, results at any moment.
* graph: four commits hold every merge, fork and second root that lanes tell
  apart; pages of two end a page in each of them; one search and one commit of
  others make a page late.
* forges: a host of each kind and one self-hosted; three pull requests on pages of
  one; two deeds come between the three reads of a listing.
* rebase plans: two commits make every combination of two actions, a message before
  and after a pause, and a list that git refuses; one act of another program is
  enough to come between a check and what it protects, or to move a rebase on. The
  properties also hold with three commits and no other program.
* writes: three stashes let one be dropped before and after the confirmed one; two
  acts come before and after a check. Reads: two things are a list with an order;
  a diff of three lines is cut in its middle; two moves come between three runs.
* processes: a pipe of one byte, streams of two and a cap of one: each stream is
  blocked, cut, or neither. Of the core's calls without a timeout, the one with input and
  with both streams full is enough.
* desktop: two opens make a switch, or two that overlap; two other actions make an operation
  or a page meet a refresh. Stores: three requests are one shown, one overtaken and one
  late. Settings: two threads, three commands and a crash; a day of one tick, and a clock of
  three times, set at will. Editor: a file in each of two repositories and three events.

Symmetry is used in three runs of safety properties (`tui_panels`, `desktop_rows`,
`sync_branch`), on model values nothing orders: names, repositories, branches. The editor of
`front_ends` starts in no file or in the first of two that are alike.

`CHECK_DEADLOCK FALSE` is stated where the bounds end a behaviour, and in
`tui_operations` because a commit confirmed before the repository is open really
leaves no key but Ctrl+C (6.11). `git_completed` checks it.

Fairness is assumed in two places. `Fairness` of TuiOperations, for
`ConcludesOnceOpen`: a started mutation runs to its end and its message is
handled. `worker.rs` gives each command a thread that sends one message when its
work returns, and the event loop receives every message. It rests on git
returning, and on the thread not panicking. Keys, previews and everything the
user does are not fair. `Fairness` of MCProcesses, for `Returns`: threads of the
core and events of the editor are scheduled, and time passes. Nothing is assumed
of git, of helpers or of the user; that git goes on is a premise of the property.

## 5. Proofs

Eight modules hold theorems; `PROJECT.json` lists the ones a reader should know.
They hold for every value of the constants. What they assume of those is named
where the constants are declared, and TLC evaluates it in the runs: numbers are
numbers (`BoundsAssumption` and `CapacityAssumption` of GenerationCache, RepositorySession
and DesktopSession, `ProviderAssumption`, `SizeAssumption` of ChildProcess,
`SettingsAssumption`, `StoresBoundAssumption`, `WritesBoundsAssumption`, `ForgesAssumption`), sets
that the code
keeps apart are disjoint (`ThreadsDisjoint`, `NothingAssumption`, `NullAssumption`), keys
are finitely many, worktrees of one repository share a key (`LockKeyAssumption`), calls are
of the four families there are (`FamiliesAssumption`) and reads of the kinds there are
(`ReadsAssumption`), a history has each commit's
parents before it (`HistoryAssumption`, below), and a rebase plan is a sequence
(`PlanAssumption` of TuiKeys). The bounds
only stop TLC: no proof uses what one is. Every argument is an inductive invariant,
stronger than what is wanted.

**Caches** (GitAndCacheProofs). `SizeBound` and `StaleOnlyAcrossInvalidation` are
not inductive: a result in flight might carry a ticket never issued or be read in
the future. `IInv` adds `TicketsIssued`, `ReadsPrecede`, and the staleness claim for
answers in flight. The size bound rests on a fact about the eviction loop that does
not assume order and entries agree: one insertion adds at most one entry, and if it
is a new one its key is in the order, so popping the whole order leaves no more than
was there before (`EvictionBounds`).

**Sessions** (RepositorySessionProofs). Two sessions exclude each other only if they
hold the same mutex, and each caches its mutex. `LockInv` says why that is enough: a
lock belongs to one key for ever, a session's lock is the registry's lock of the
repository it has *open* (a switch drops it), a session that waits or mutates has
one, and no two hold the same. From it follow `Serialization` and `Refinement`: the
sessions implement MutationLocks, `Acquire` being its `Begin`, the end of a mutation
its `End`, all else stuttering. Of the refreshes, `FreshInv` says per session that
its current ticket is the only one of its generation and of the repository it has
open; that an answer still current is not older than the status it would replace;
and that what it knows is of the past of its own repository. `PageInv` says the same of what
is cached and of the queries in every stage between their begin and their insertion, as long
as they are not late (`Timely`): what has been read was read of the repository the query
is for, and, unless an invalidation has come since, after the status was and after the session's own
mutations, but for the moment between a mutation and the refresh after it. `Freshness` is both, and
gives all four properties of the refreshes: `CacheNotOlder`, `OwnMutationsSeen`,
`NothingForeign`, and the action property `StatusMonotone`.

**TUI operations** (TuiOperationsProofs). `InputInv` joins `ConfirmingHasItsInput` and
`NothingResurrected`, each of which the other needs, and adds that before the opening
of a repository nothing is read and nothing but a commit or a branch can be confirmed,
because the opening clears all else. `Refinement`: where no patch can be applied
(`NoPatches`, the set of kinds holds no patch), the TUI implements
ConfirmedOperations. With patches it does not (6.9), so this is the hypothesis, not
a convenience. Its invariant `RunsInProgress` is that a mutation runs only as, and
while, the operation in progress is its own.

**TUI panels** (TuiPanelsProofs). `FreshInv`: a load of the latest generation read no
earlier than the refresh that issued it, no panel is ahead of the session, and
what a panel took in this generation is that recent. `DiffInv`: of the diffs in flight
the one with the latest id is the selected file's, as long as there is one. The file
under the cursor of the conflicts is picked by its place in the order, which needs
that every set of numbers has a least one (`LeastNumber`, from
`NatLessThanWellFounded`) and an nth (`NthNumber`).

**The commit graph** (TuiPanelsProofs). A commit is known by its place in the history, the
oldest first, so "parents after children", which `append_page` asks of its pages
(`graph.rs:204`), is that a commit's parents are smaller numbers (`IsHistory`); git log is
run without `--topo-order`, so a history whose clocks are wrong is excluded here and is
6.19. `Laid` says of each row what `LayoutIsTrue` does, with "its commit has come" for
"it is drawn", and of the lanes (`Awaits`): no two await one commit, none a commit that has
come, each lists as its waiters exactly the edges that lead to the commit it awaits, and
an edge whose commit has not come ends in the lane that awaits it. A row takes the lane that
awaits its commit, marks the waiters resolved and frees the lane; its parents join
the lanes that await them, or take free ones. `GraphInv` (`GraphFollowsHistory`) holds this
for the panel as long as its pages are of one history, which is the hypothesis of `LayoutIsTrue`
itself: what is shown, and what a request of this generation has read, are cuts
of it. It also says that a panel that is loading has exactly one request of its
generation under way (`LoadingEnds`), and `LinesReachParents` is `LayoutIsTrue`.
`AppendRows` and `AddEdges` are unfolded as `Built` is under *Rewrites*.

**Keys** (TuiPanelsProofs). `KeyInv` (`OneOverlayAtATime`) has three parts. Open is nothing,
one overlay, or a plan with the prompt over it (`OverlaySets`). An operation that was begun
in a composer has that composer under it or nothing; only a request may have anything
else below, because the preview of a patch is asked about whenever it comes. A plan is
there only while it is open, its cursor is on one of its entries, and a prompt was opened
for the entry under the cursor, unless another plan has come since. The rest is that the
lists agree on those sets: the first of each order among those present is the overlay that has
the keys (`FirstOfIs`, `ContextIs`, `DismissTopIs`, `TopIs`, `HintIs`), and in an overlay or under
an operation a key, whatever was remapped, means one of few actions (`KeysMean`,
`UpdateMeans`). In the normal context a remapped key may be any action, but with nothing
open and no plan those of the overlays find nothing to act on (`NormalStands`). From there
`KeysActOnTheirContext` is a case per action; `ScreenTellsContext` holds in every state.

**The screen** (TuiPanelsProofs). These are about operators, for every size and number:
no panel is without its rows on any terminal that is not refused, whatever u16 makes
of the counts (`EveryPanelHasRoom`; smaller ones are refused by `TooSmall`); overlays
lie inside (`PopupsAreInside`); a row ends at the edge of its panel, however much was
cut and wherever a wide character fell (`RowsEndAtTheEdge`); the strip of keys is
never cut short (`EveryChipShown`); an age is a whole number of its unit
(`AgesAreWhole`); `civil_from_days` stays in the ranges its comments claim, back into
negative eras (`CalendarInRange`, from `QuotientDown` and `EraBounds`); the menu marks
one row (`OneItemActive`); the numbers of a hunk are distinct, grow, and stay in its
header's range (`NumbersInTheirHunk`); and the two tables of risk agree (`RisksAgree`).

**Processes** (ProcessProofs), for both runners at once. `IInv` counts bytes: what git
wrote on a stream is what is in the pipe and what the reader took, and what is kept is
what was taken up to the cap. A reader is done only at the end of the stream, nothing
can be written from then on, and an exit is answered only when the readers are done.
`CoreOrder` and `EditorOrder` tie that to where the caller is. One thing came out of
the proof: in `Return` the branches for exits and for timeouts overlap when the answer
is an error, which is harmless and is why `CoreOrder` speaks of the outcome only where
there is an exit.

**The window** (DesktopSessionProofs). Two arguments. In the backend the epoch stands for
the repository: a page captured in this epoch is of the open repository
(`PageFits`), whatever is being switched; hence `GraphFollows`, with no condition. In
the frontend the generation stands for the opening: as long as openings do not
overlap there is at most one call that opens, of this generation, until it has been
answered nothing is shown, and from then on the session is what is shown
(`OneOpening`, `ShownIsOpen`, `ReadFits`). `StatusFollows` has the condition in it:
without it the property is false (6.33).

**Editor, settings, stores** (FrontEndProofs). *Editor*: what is bound is of the edited
file, or a refresh of this generation is under way that asks about it; blame shown is of
this version of the document, or a timer or a recompute of this generation is under way for
it. Both controllers need the other: an unbinding stops the timers. *Settings*: as long as
no two commands on the preferences overlap, a command that is about to save has what is
wanted. That gives `NothingUnasked`. Of the recent repositories (`RecentsInv`) the file is a
list, each once and no longer than `MaxRecent`, that `Holds` exactly the times that are
wanted, in any order, since the clock may have been set back between two openings; one
command at most is about to change it, on a list that is in order. What keeps this is what
the list operators do for every list: `Without` removes one path and no other (`WithoutIs`),
`Touch` puts an entry first, and who leaves is older than all that stay but the new one
(`TouchIs`), and `FromEntries`, which sorts and replays what it reads, gives back the same
entries in order (`FromEntriesIs`). Both recursions are functions on `0 .. Len(list)`; that
such a function exists and unfolds, and what holds of it at each length, is proved from the
least number at which it would not (`LeastNumber`), with no induction theorem. Together:
`FilesHold`. *Stores*: a call with the present id of blame or of diff is about what that
store has open; the other ten stores' calls carry ids of their own, so most of the proof is
that nothing of theirs touches these two.

**Rewrites** (GitProviderProofs). `TypeInv` also says what may be left of a call's steps
(`LeftOf`), without which no guard on them helps. `HeadInv`: as long as no other program has
acted since HEAD was compared (`matched`), HEAD is the one confirmed (`ConfirmedHead`); what
acted before, within the call or outside, was noticed. `PendingInv`, the same of the
operation in progress since it was looked for (`cleared`), gives `NothingPending`, a theorem
about the main worktree whose property is what the run `git_reset_pending` shows to be false
in a linked one. `LoopInv` bounds the turns of the loop by the plan's length less the
messages still queued (`LoopEnds`). `PlanInv` is about the plan itself: when git stops for a
reword at entry p, the branch is what entries 1..p-1 come to with commit p on top, what is
left of the list is the entries after p, and the queue is the rewords from p on
(`Unwritten`); after the amend it is what 1..p come to, and the queue those after p
(`Written`). `Built` and `Reached` say what the first p entries come to and how far git's
list runs; they are recursive functions, which the provers do not unfold, and the induction
theorems are out of reach, so their unfolding (`BuiltUnfolds`) is derived from the least
number at which it would fail. Hence `MessagesLand` and `PlanApplied`, for plans of any
length. `NothingPending` and `PlanApplied` are of the main worktree (`~ Linked`): in a
linked one the provider does not find the operation in progress (6.21), and both are false.

**Writes** (GitAndCacheProofs). `CallsKnowTheirRepository` is the invariant, one disjunct
per family, because a behaviour is about one. Each says what the repository is made of, which
runs the call may have left (a call that checked a stash has one left, and that run
is the one that acts), and, as long as no one else has acted since it began
(`Undisturbed`), what the call has done so far to the repository it found: nothing, or the
effect of the runs behind it. Acts of others only move `acts`, so they end that clause and never
break it. The rest is about the runs of git: for each, what an outcome does to the
repository and which exits come with a change (`StashPush`, `MergeFastForward`, ...), and
which codes its classification can make of a failure. A merge that failed leaves the
fetch before it done, which is why `AnswersTellWhatHappened` exempts
tracking branches; a stash is a new one if the list is longer than it was, which is true of
the stash's number because numbers are never used twice. A branch is deleted unforced without
loss only because the branch checked out exists, an unborn HEAD having no other branches
(`RefsRepos`). Of `ConfirmedStashIsUsed` and `CallsTellWhatTheyDid`, `Undisturbed` is part of the
property, and needed (6.26); `OnlyConfirmedCallsLose` and `PushesRespectTheRemote` hold
whatever others do.

**Reads** (GitAndCacheProofs). A read of several runs holds what the runs before have told, and
others act in between, however often. `ReadsInv` says of every point between two runs that what is
in hand was true of one of the moments since the read began (`GotStands`), the store being always
the last of them; as long as a read lasts, moments are only added, so that what was true of one
stays so (`PartsStay`, `GotStays`). Each run adds one fact of the present moment, and the
answer is what is in hand. `PartsStayTrue` says that of the reads of the provider and of the
editor together. It does not say that the parts of an answer were true at once, and they need not
be (6.31).

**Forges** (DesktopSessionProofs). `ForgeInv` relates a listing to the project it is of: a
token is read after the remote it is for, and is of its host until the request
(`ListingStands`, which is `TokensStayHome`); a page asked for is the one shown, the one
before, the one after or the first (`PagesStand`); and of the pull requests wanted, those
that by now stand at or before the end of the page shown have been listed (`RunStands`).
Pull requests are counted from the newest, so an opening moves the others down the list and
never from a later page to an earlier one, whatever `PerPage` is. `OutcomesAreMeant` needs
that no two meanings of an answer share a status and the headers its adapter looks at
(`AnswersMean`, a case per answer), but for the 403 of 6.6, which it leaves out.

**Only model-checked.** Liveness (`ConcludesOnceOpen`, `Returns`): fairness and ENABLED are
outside the prover's reach. What a parser computes from what git prints, which needs
induction over data with an operator as its parameter: `ReadsAgree`. `WireIsUnderstood` and
`CliTells` are about finite tables of Protocol and Cli, which have no constant that matters
but the number of edits, so there TLC's check is already of all there is. Not attempted:
TypeOK of DesktopSession (its `Shape` is proved). The theorems named TypeCorrect state
invariants of no run; those of GitProvider, ProcessProofs, DesktopSession and FrontEndProofs
are parts of the invariants above. One operator is RECURSIVE, `LogsOf` of MCTuiPanels, which
no theorem's module reaches.

## 6. Findings

Runs that end in a counterexample, each against a sentence of the source, which
`PROJECT.json` quotes:

1. **Rows of the previous repository stay on the screen** (`stores/graph.ts:68`).
   Nothing resets the graph store on a switch, and the next page is appended.
2. **A rebase plan that git refuses to begin is reported as completed**
   (`provider.rs:2440`). The loop takes "nothing in progress" for "finished".
3. **The second page of a search is of the whole log** (`app.rs:1535`). The
   request for more leaves the search out.
4. **A patch holds the part of a file it lists as left out** (`patch.rs:156`).
   A file whose diff was cut keeps its first hunks, and those are exported.
5. **Pull and push act on the branch of the opening** (`commands.rs:786`). The
   session's Repository is not read again after a switch of branches.
6. **A forbidden request to GitHub reads as a rate limit**
   (`github_pr_adapter.rs:167`). The reset time is on every answer.

21, below, has a run too. The others were seen while modelling, and are visible in the
models or left out of them, with no run of their own.

Application and TUI:

7. `app.rs:3413`: loads of rebase plans carry no id: one asked for under an overlay
   closed since arrives under another, or over the confirmation.
8. `cache.rs:110`: `complete_query` compares its ticket under one lock and stores
   under another, so a late result can overwrite a newer one after all.
9. `app.rs:3648`: a patch preview begins an operation whatever the state of the one
   there is. Arriving while a merge runs it replaces the merge by a prompt, whose
   confirmation the merge's result then concludes. So patches break the promise of
   ConfirmedOperations, and `EagerKeepsPromise` is about all other kinds.
10. `app.rs:2112`, `2176`, `2211`: the TUI's pull and push share finding 5.
11. `app.rs:2720`: a commit or a new branch confirmed before the repository is open
    is dispatched to nothing and stays in progress for ever.
12. `app.rs:2621`: conflict resolutions are dispatched without operation or lock,
    next to each other and to a running operation; the TUI never calls
    `run_mutation`, so nothing serializes its mutations with another session's.
13. `app.rs:3216`: an amend preview arriving late replaces a message typed since.
14. `app.rs:1773`, `3532`: blame has its own request id, which selecting another
    file does not move: the blame of the previous file appears under the new one.
15. `app.rs:3074`: a branch list read before a rename was dispatched consumes the
    pending rename and moves the selection to a name that does not exist yet.
16. `app.rs:3297`: the list of conflicts changes under the inspected file.
17. `cache.rs:143`: with order and entries cleared apart, an insertion in between
    is evicted first later, even if newest; and an invalidation does not move the
    generation, so a page read before it is stored after it, and served until the next one,
    though `graph_cache.rs:74-78` and `94-96` promise that a late fetch overwrites nothing newer
    and that no stale page is served. Such late pages are in the models; `CacheNotOlderThanStatus`,
    `CacheSeesOwnMutations` and `StaleOnlyAcrossInvalidation` are about all others.
18. `session.rs:172`, `280`: whether caches are dropped is decided by comparing
    statuses, which do not show every moved ref, nor those of a mutation that
    failed half-way.
19. Graph: cursors are offsets, so a moving HEAD duplicates or skips commits, and
    git log, asked for without `--topo-order`, may show a parent before its child;
    a first page that fails leaves no retry but a search or reopening; the user's
    own commits and merges, unlike amends, do not start the graph over.
20. Keys. Over the list of conflicts, Esc first clears the report of an exported patch
    underneath (`app.rs:1922`). `resolve_action` (`keymap.rs:295`) looks at no
    modifier: a shortcut moved to `c` takes Ctrl+C in the normal context too, and over
    the conflicts Ctrl+C asks to continue the operation. The old key of a moved
    shortcut stays live through `action_for`; of two actions on one key the later in
    the registry wins unannounced (the TUI never calls `find_conflicts`), so `q` may
    come to quit nothing. A plan that arrives under an open reword prompt takes the
    message for its first entry, which validate then refuses.

Provider, writes:

21. `provider.rs:1134`: markers of operations are looked for in the common git
    directory; git keeps those of a linked worktree in its own, so nothing in
    progress is ever seen there, and a reset runs in the middle of an operation, against the
    comment near `provider.rs:2650`: the run `git_reset_pending`.
22. `provider.rs:2445`: a plan that stops in a conflict answers at once and its
    queued messages are gone: continuing it later stops at the next edit, which
    `continue_operation` answers as done, and nothing rewords it.
23. `provider.rs:2427`: a read that fails inside `continue_operation` is taken for a
    rebase that has stopped, and the next message goes to the commit of the last pause.
24. `write_ports.rs:457`: validate refuses a squash in the first place, not one with
    only drops before it. git refuses such a list with the rebase begun, and if the
    plan also rewords, the message goes to the commit it is rebased onto.
25. `provider.rs:2451`: a change that has become empty pauses the plan like an edit;
    the amend that follows is refused, and the call fails with the rebase pending.
26. Stashes are addressed by position, which is checked and used in two runs: another
    program's push or drop in between makes it another entry. `create_stash` panics
    (`expect`) if another program empties the list between its two runs, and may answer with
    another program's entry.
27. Commits, amends and pulls answer an error, though done, if the `rev-parse` that
    follows fails. Hunks and patches, run with input, do not tell a locked index from
    other failures. `delete_tag` may lose commits without being destructive.

Provider, reads:

28. In a conflict `git diff` prints `diff --cc` blocks, whose lines are taken for the
    previous file's last hunk, or its path (the comment near `provider.rs:4902`:
    "discarded rather than misread"). `ReadsAgree` says nothing of a diff from there on.
29. A bare repository's entry fails the whole list of worktrees, although the comment
    near `provider.rs:4809` says that "bare" is ignored, so of such a list `ReadsAgree`
    says nothing; a separator character in a
    message fails a whole page of the log; a tag of a tree, or one without a tagger,
    fails the list of tags; a remote removed meanwhile fails the list of remotes.
30. Names of remotes with a slash are split at the first one; decorations of remotes
    other than origin read as branches (documented); context lines left empty by
    `diff.suppressBlankEmpty` are skipped.
31. HEAD moving between the runs of `determine_head_state`, `conflict_sides` or the
    preview of an amend gives an answer that was never true as a whole (the last is
    checked again by expected_head). A run that fails reads as unborn, missing or
    empty in some of them.
32. `read_capped` cuts output at 8 MiB and nothing says so: the last file of a cut
    diff is incomplete with `truncated` false. In the editor `truncated` (process.ts:65,
    "Surfaced rather than swallowed") is looked at by getBlame alone.

Desktop:

33. Two opens at once (one by the startup intent) leave the frontend with the last
    called and the backend with the last discovered; a failed open leaves the backend
    on the old repository while the frontend shows none.
34. `operation.ts:131`, `sync.ts:176`: an operation asked about while a repository is
    being opened runs in that one; a request replaces an operation in progress, whose
    end then concludes the second. Keyboard shortcuts reach it under the dialog.
35. `merge.ts:171`: the detection of the operation in progress, the inspection of a
    conflict and the request of a plan have no generation: a late answer undoes a
    newer one, or opens a plan that was closed.
36. `search.ts` has no request id, though it searches on each keystroke; lists of
    branches, references and pull requests are unguarded; a rejected load of pull
    requests stays "loading".
37. `patchApply.ts`: a preview of an older text arrives after the text was changed,
    and confirming applies the new text ("a stale preview must never be shown (or
    confirmed) against text the person has since changed").
38. `amend.ts`: a late preview resets a typed message. `staging.ts`: the message of a
    commit is read when it is confirmed, and cleared after the await. `blame.ts`: the
    commit beside a blame shares its id.
39. Preferences and recent repositories are loaded, changed and saved in three steps
    with the mutex held in two of them: of two commands that overlap one is lost,
    although `recent_repositories_store.rs:45` and `preferences_store.rs:88` rely on
    the mutex. A torn file of recents is an error for ever; a torn file of preferences
    turns update checks on again; a check whose load failed saves the defaults over
    theme and switch. Entries of the same second change their order at each load.
40. No component calls `connectForgeAccount` or `staging.stageHunks`: what they do is
    modelled, but no button leads there.

Editor:

41. Blame switched off while subjects are looked up comes back with them; a refresh
    that is overtaken overwrites a probe that was invalidated; `applyGitProblem` leaves
    the status bar of the previous repository; that git is unavailable is remembered
    for good; the cache of blames is by document version, so a commit does not renew it;
    commands use the binding after an await; deactivation leaves a git running.

Forges, protocol, CLI:

42. Remotes of `www.github.com` have another account key than `github.com`, and links
    to their pull requests are refused. A token read before a disconnect is still sent
    after it. A connection lost in the middle of a body reads as an empty one.
43. `dto.ts:123` declares `nextCursor` as string or null where dto.rs leaves the key
    out (`graph.ts:54` reads either). A path that is no UTF-8 is told with replacements
    (documented), and cannot be sent back.
44. The panel of a plan shows the subject as the message of an entry to reword whose
    message is not set, and then asks for one.
45. `exit_code.rs` quotes that failures distinguish parsing, but ParseFailure shares
    exit code 1; so do usage errors of `diff` and `--range`, where others have 2.
    Ctrl+C ends only the commands that take the token. `parse_envelope` has no caller.

Screen:

46. `ui.rs`: the hint "Mirrors App::input_context's own precedence exactly" (its comment) but
    does not: help and the reset modes have no hint, the message of conflicted files
    pushes aside those of searches and prompts, and commit and amend stand in another
    order. A composer is drawn over the confirmation of a patch that came meanwhile,
    which has the keys. The prompt to rename a branch is that of a new one.
47. Help, plans and conflicts are not scrolled: on a low terminal the last of the help's 37
    lines are cut off. At that height the counts of the Repository box are cut too.
48. "No branches", "No tags" and their like are shown before anything was read, and a
    branch card's dot is the current branch's while it is loading. Counts are u16: from
    65534 files or references on they wrap, and a debug build panics.

Elsewhere:

49. `runner.rs:452`, `329`: a background process that git leaves behind, with the output
    open, keeps `run_process` after a normal exit, and one that holds the input without
    reading it does so after a timeout too. The grace is for the output after a kill only, although
    `runner.rs:323-326` and `438-440` say that no such survivor ever makes it hang.
    `Returns` exempts just that (`HeldByHelper`).
50. What gitsail prints in text reads alike for a local branch x/x and the branch x of the
    remote x, for a text file with the words of the notice and a binary one, and for
    commits whose hashes begin with the same 12 or 8 characters.
51. `provider.rs:1662`: for a worktree on a new branch git makes the branch first. If the path
    turns out to be taken, the call is refused as InvalidRepositoryState and the branch stays; the
    test of that refusal (`epic18_stash_tags_worktrees.rs:869`) does not look.
    `AnswersTellWhatHappened` exempts it (`LeavesNewBranch`).
52. `provider.rs:3486`: that a new worktree's branch "already exists" is reported as "the
    target path already exists", with the advice to choose another path.
53. `recent_repositories.rs:53`: recents are sorted by the recorded times at each load. If
    the clock was set back, the repository opened last comes to stand last, and is the next
    to be dropped, though it is to stand first "regardless of the order entries were stored in".

## 7. Not modelled

* Git's own semantics beyond Git, GitCommands and GitOutput, which are what the
  provider relies on; argument vectors; finding git and its version.
* Texts, signatures and URLs, character by character; wording; logging; what
  redaction and sanitization change in a text.
* Themes, colours and glyphs of the TUI, and the components of the desktop. Buttons
  are the actions of their handlers, with the conditions that enable them.
* In the TUI: cursors but those of the plan, the graph and the files; panels that load
  exactly like branches; searches of the branch list.
* In the editor: the commands that open commits, diffs and histories, and the hover.
* The sequence editor, a program of one step.
* Waiting for a rate limit, timeouts of HTTP, and what a keyring does.
* A poisoned mutex and a panicking thread, which end the program or an operation.

## 8. Plan

Every component with control of its own is modelled. Left, in order:

1. Proofs: TypeOK of DesktopSession.
2. Compositions: GitProvider under RepositorySession's lock; DesktopStores with
   DesktopSession's switch.
3. Modelling: commands of the editor that open documents.
