---------------------------- MODULE DesktopSession ----------------------------
(***************************************************************************)
(* The desktop application over one window: the stores of the frontend     *)
(* (stores/session.ts, merge.ts, graph.ts, operation.ts), whose actions    *)
(* run to the next await, and the commands of the backend (state.rs,       *)
(* commands.rs), each in a thread of its own.  Between the two only calls  *)
(* and answers: a call reaches the backend at some moment, its answer the  *)
(* frontend at a later one, in any order.                                  *)
(*                                                                         *)
(* The backend tells repositories apart by an epoch, the frontend by a     *)
(* generation; neither sees the other's.  Of the data only the repository  *)
(* (and the branch filter) it was read from is kept.                       *)
(***************************************************************************)
EXTENDS Naturals, Bags, BagsExt

CONSTANTS
    Repositories,  \* repositories one can open
    Branches,      \* branches the history can be filtered by
    Nothing,       \* no repository, no filter
    MaxOpens,      \* bound: calls of openRepository
    MaxActions     \* bound: what else the user starts

ASSUME BoundsAssumption == MaxOpens \in Nat /\ MaxActions \in Nat
ASSUME NothingAssumption == Nothing \notin Repositories

VARIABLES
    repository, \* backend: the repository of SessionSlot::session
    epoch,      \* backend: SessionSlot::epoch
    graph,      \* backend: the sources of the pages in AppState::commit_graph
    calls,      \* the bag of calls in flight, until their answers are handled
    actions,    \* the number of actions counted by MaxActions
    shown,        \* stores/session.ts: repository
    status,       \* stores/session.ts: the repository status is of
    generation,   \* stores/session.ts: generation
    isOpening,    \* stores/session.ts: isOpening
    isRefreshing, \* stores/session.ts: isRefreshing
    pending,      \* stores/merge.ts: the repository inProgressOperation is of
    rows,         \* stores/graph.ts: the sources of the rows
    branchFilter, \* stores/graph.ts: branchFilter
    isLoading,    \* stores/graph.ts: isLoading
    operation,    \* stores/operation.ts: status, and what current asks about
    handoff,      \* a repository named on the command line is yet to be opened
    overlapped    \* history: openRepository was called while another call ran

backend == <<repository, epoch, graph>>
sessionStore == <<shown, status, generation, isOpening, isRefreshing>>
graphStore == <<rows, branchFilter, isLoading>>
opened == <<handoff, overlapped>>
vars == <<backend, calls, actions, sessionStore, pending, graphStore, operation, opened>>

Optional == {Nothing} \cup Repositories
Filters == {Nothing} \cup Branches
Sources == [repository : Repositories, branch : Filters]
Idle == [at |-> "idle", asked |-> Nothing]

\* A call says what the frontend sent and, once the backend has it, what it
\* read there.  `then' is what the action that awaits it does next.
OpenCall(r) ==
    [kind |-> "open", at |-> "sent", generation |-> generation + 1, repository |-> r]
StatusCall(g, then) ==
    [kind |-> "status", at |-> "sent", generation |-> g, repository |-> Nothing, then |-> then]
DetectCall(g, then) ==
    [kind |-> "detect", at |-> "sent", generation |-> g, repository |-> Nothing, then |-> then]
PageCall(branch, reset) ==
    [kind |-> "page", at |-> "sent", branch |-> branch, reset |-> reset, repository |-> Nothing,
     epoch |-> 0]
TargetCall ==
    [kind |-> "target", at |-> "sent", repository |-> Nothing]
MutationCall == [kind |-> "mutation", at |-> "sent", repository |-> Nothing, epoch |-> 0]

Init ==
    /\ repository = Nothing /\ epoch = 0 /\ graph = {}
    /\ calls = EmptyBag /\ actions = 0
    /\ shown = Nothing /\ status = Nothing /\ generation = 0
    /\ isOpening = FALSE /\ isRefreshing = FALSE
    /\ pending = Nothing
    /\ rows = {} /\ branchFilter = Nothing /\ isLoading = FALSE
    /\ operation = Idle
    /\ handoff \in BOOLEAN
    /\ overlapped = FALSE

Send(c) == calls' = BagAdd(calls, c)
Answered(c) == calls' = BagRemove(calls, c)
Goes(c, to) == calls' = BagAdd(BagRemove(calls, c), to)

\* Something the user starts, other than opening a repository.
Act == actions < MaxActions /\ actions' = actions + 1

\* What the main view needs to be on the screen (shellState.ts).
Ready == shown # Nothing /\ ~ isOpening

-----------------------------------------------------------------------------
(***************************************************************************)
(* Opening a repository.                                                   *)
(***************************************************************************)

\* openRepository, up to its first await.
OpenRepository(r) ==
    /\ generation < MaxOpens
    /\ generation' = generation + 1
    /\ shown' = Nothing /\ status' = Nothing
    /\ isOpening' = TRUE /\ isRefreshing' = FALSE
    /\ Send(OpenCall(r))
    /\ overlapped' = (overlapped \/ \E c \in DOMAIN calls : c.kind = "open")
    /\ UNCHANGED <<backend, actions, pending, graphStore, operation>>

\* By its buttons, disabled while a repository is being opened and covered by
\* the dialog of an operation; or by applyStartupIntent, once, at any moment.
UserOpens(r) ==
    /\ ~ isOpening /\ operation.at = "idle"
    /\ OpenRepository(r)
    /\ UNCHANGED handoff

StartupOpens(r) ==
    /\ handoff
    /\ handoff' = FALSE
    /\ OpenRepository(r)

\* open_repository: the repository is found, or not, without any lock.
Discover(c, found) ==
    /\ c.kind = "open" /\ c.at = "sent"
    /\ Goes(c, [c EXCEPT !.at = IF found THEN "found" ELSE "failed"])
    /\ UNCHANGED <<backend, actions, sessionStore, pending, graphStore, operation, opened>>

\* open_session: session and epoch together under their lock, then the graph
\* under its own.
SwapSession(c) ==
    /\ c.kind = "open" /\ c.at = "found"
    /\ repository' = c.repository
    /\ epoch' = epoch + 1
    /\ Goes(c, [c EXCEPT !.at = "swapped"])
    /\ UNCHANGED <<graph, actions, sessionStore, pending, graphStore, operation, opened>>

ResetGraph(c) ==
    /\ c.kind = "open" /\ c.at = "swapped"
    /\ graph' = {}
    /\ Goes(c, [c EXCEPT !.at = "done"])
    /\ UNCHANGED <<repository, epoch, actions, sessionStore, pending, graphStore, operation,
                   opened>>

IsCurrent(g) == g = generation

\* openRepository, from the answer to the next await: a superseded answer is
\* discarded, a repository is shown and its status read.
OpenReturned(c) ==
    /\ c.kind = "open" /\ c.at \in {"done", "failed"}
    /\ IF IsCurrent(c.generation) /\ c.at = "done"
       THEN /\ shown' = c.repository
            /\ UNCHANGED isOpening
            /\ IF isRefreshing
               THEN Goes(c, DetectCall(c.generation, "opened")) /\ UNCHANGED isRefreshing
               ELSE Goes(c, StatusCall(c.generation, "detect")) /\ isRefreshing' = TRUE
       ELSE /\ Answered(c)
            /\ isOpening' = (isOpening /\ ~ IsCurrent(c.generation))
            /\ UNCHANGED <<shown, isRefreshing>>
    /\ UNCHANGED <<backend, actions, status, generation, pending, graphStore, operation, opened>>

-----------------------------------------------------------------------------
(***************************************************************************)
(* Status and operation in progress.                                       *)
(***************************************************************************)

CanRefresh == shown # Nothing /\ ~ isRefreshing

\* refreshStatus, on a click or after a mutation, and on focus, when it first
\* detects the operation in progress.
RefreshStatus(focus) ==
    /\ Act
    /\ CanRefresh
    /\ isRefreshing' = TRUE
    /\ Send(IF focus THEN DetectCall(generation, "status") ELSE StatusCall(generation, "nothing"))
    /\ UNCHANGED <<backend, shown, status, generation, isOpening, pending, graphStore, operation,
                   opened>>

\* get_repository_status, detect_in_progress_operation, resolve_sync_target: of
\* the repository of the session at that moment, or an error.
ReadRepository(c, readable) ==
    /\ c.kind \in {"status", "detect", "target"} /\ c.at = "sent"
    /\ Goes(c, [c EXCEPT !.at = IF readable /\ repository # Nothing THEN "done" ELSE "failed",
                         !.repository = repository])
    /\ UNCHANGED <<backend, actions, sessionStore, pending, graphStore, operation, opened>>

\* What becomes of the operation in progress, if there is one: whichever it is.
Conclude(to) ==
    operation' = IF operation.at = "inProgress" THEN [operation EXCEPT !.at = to] ELSE operation

\* Mutated form: an answer is stored whatever repository is open by then.
StatusReturnedAnyway(c) ==
    /\ c.kind = "status" /\ c.at \in {"done", "failed"}
    /\ status' = IF c.at = "done" THEN c.repository ELSE status
    /\ isRefreshing' = FALSE
    /\ IF c.then = "detect" /\ IsCurrent(c.generation)
       THEN Goes(c, DetectCall(c.generation, "opened"))
       ELSE Answered(c)
    /\ IF c.then = "conclude" THEN Conclude("succeeded") ELSE UNCHANGED operation
    /\ UNCHANGED <<backend, actions, shown, generation, isOpening, pending, graphStore, opened>>

\* refreshStatus, to its end, and the action that awaits it.
StatusReturned(c) ==
    /\ c.kind = "status" /\ c.at \in {"done", "failed"}
    /\ IF IsCurrent(c.generation)
       THEN /\ status' = IF c.at = "done" THEN c.repository ELSE status
            /\ isRefreshing' = FALSE
       ELSE UNCHANGED <<status, isRefreshing>>
    /\ IF c.then = "detect" /\ IsCurrent(c.generation)
       THEN Goes(c, DetectCall(c.generation, "opened"))
       ELSE Answered(c)
    /\ IF c.then = "conclude" THEN Conclude("succeeded") ELSE UNCHANGED operation
    /\ UNCHANGED <<backend, actions, shown, generation, isOpening, pending, graphStore, opened>>

\* refreshInProgressOperation, which knows no generation, and the action that
\* awaits it: the end of openRepository, or refreshStatus reading the status.
DetectReturned(c) ==
    /\ c.kind = "detect" /\ c.at \in {"done", "failed"}
    /\ pending' = IF c.at = "done" THEN c.repository ELSE Nothing
    /\ IF c.then = "status"
       THEN Goes(c, StatusCall(c.generation, "nothing")) /\ UNCHANGED isOpening
       ELSE Answered(c) /\ isOpening' = (isOpening /\ ~ IsCurrent(c.generation))
    /\ UNCHANGED <<backend, actions, shown, status, generation, isRefreshing, graphStore,
                   operation, opened>>

-----------------------------------------------------------------------------
(***************************************************************************)
(* The commit graph.  There is always more history to load.                *)
(***************************************************************************)

\* loadFirstPage: when the view is mounted without rows, on reload, and when
\* another filter is chosen.
LoadFirstPage(branch) ==
    /\ Act
    /\ Ready
    /\ isLoading' = TRUE
    /\ Send(PageCall(branch, TRUE))
    /\ UNCHANGED <<backend, sessionStore, pending, rows, branchFilter, operation, opened>>

LoadMore ==
    /\ Act
    /\ Ready
    /\ rows # {} /\ ~ isLoading
    /\ isLoading' = TRUE
    /\ Send(PageCall(branchFilter, FALSE))
    /\ UNCHANGED <<backend, sessionStore, pending, rows, branchFilter, operation, opened>>

\* get_commit_graph_page: the repository and its epoch are captured...
CapturePage(c) ==
    /\ c.kind = "page" /\ c.at = "sent"
    /\ Goes(c, [c EXCEPT !.at = IF repository = Nothing THEN "failed"
                                ELSE IF c.reset THEN "captured" ELSE "reading",
                         !.repository = repository, !.epoch = epoch])
    /\ UNCHANGED <<backend, actions, sessionStore, pending, graphStore, operation, opened>>

\* ... the graph is reset if asked for, in whatever epoch that happens...
ResetForPage(c) ==
    /\ c.kind = "page" /\ c.at = "captured"
    /\ graph' = {}
    /\ Goes(c, [c EXCEPT !.at = "reading"])
    /\ UNCHANGED <<repository, epoch, actions, sessionStore, pending, graphStore, operation,
                   opened>>

\* Mutated form: the page is appended in whatever epoch git log ends.
AppendPageAnyway(c, readable) ==
    /\ c.kind = "page" /\ c.at = "reading"
    /\ graph' = IF readable
                THEN graph \cup {[repository |-> c.repository, branch |-> c.branch]} ELSE graph
    /\ Goes(c, [c EXCEPT !.at = IF readable THEN "done" ELSE "failed"])
    /\ UNCHANGED <<repository, epoch, actions, sessionStore, pending, graphStore, operation,
                   opened>>

\* ... and after git log append_commit_graph_page_if_current.
AppendPage(c, readable) ==
    /\ c.kind = "page" /\ c.at = "reading"
    /\ LET current == readable /\ c.epoch = epoch
       IN  /\ graph' = IF current
                       THEN graph \cup {[repository |-> c.repository, branch |-> c.branch]}
                       ELSE graph
           /\ Goes(c, [c EXCEPT !.at = IF current THEN "done" ELSE "failed"])
    /\ UNCHANGED <<repository, epoch, actions, sessionStore, pending, graphStore, operation,
                   opened>>

\* The end of loadFirstPage and of loadMore.
PageReturned(c) ==
    /\ c.kind = "page" /\ c.at \in {"done", "failed"}
    /\ Answered(c)
    /\ isLoading' = FALSE
    /\ LET page == {[repository |-> c.repository, branch |-> c.branch]}
       IN  CASE c.at = "done" /\ c.reset -> rows' = page /\ branchFilter' = c.branch
             [] c.at = "done" /\ ~ c.reset -> rows' = rows \cup page /\ UNCHANGED branchFilter
             [] OTHER -> UNCHANGED <<rows, branchFilter>>
    /\ UNCHANGED <<backend, actions, sessionStore, pending, operation, opened>>

-----------------------------------------------------------------------------
(***************************************************************************)
(* Operations of moderate risk: pull, push, and the like.                  *)
(***************************************************************************)

\* requestPush first has its target resolved.  Shortcuts reach it at any time.
RequestOperation ==
    /\ Act
    /\ Send(TargetCall)
    /\ UNCHANGED <<backend, sessionStore, pending, graphStore, operation, opened>>

\* The rest of requestPush, and request: the prompt names the target, and
\* replaces the prompt or the progress there is.
TargetReturned(c) ==
    /\ c.kind = "target" /\ c.at \in {"done", "failed"}
    /\ Answered(c)
    /\ operation' = IF c.at = "done" THEN [at |-> "confirming", asked |-> c.repository]
                    ELSE operation
    /\ UNCHANGED <<backend, actions, sessionStore, pending, graphStore, opened>>

\* cancel: also dismisses a result, but not an operation in progress.
Cancel ==
    /\ operation.at \in {"confirming", "succeeded", "failed"}
    /\ operation' = Idle
    /\ UNCHANGED <<backend, calls, actions, sessionStore, pending, graphStore, opened>>

\* confirm: the run of the descriptor says no more than what to do.
Confirm ==
    /\ operation.at = "confirming"
    /\ operation' = [operation EXCEPT !.at = "inProgress"]
    /\ Send(MutationCall)
    /\ UNCHANGED <<backend, actions, sessionStore, pending, graphStore, opened>>

\* run_mutation: the repository and its epoch are captured, git runs there...
RunMutation(c) ==
    /\ c.kind = "mutation" /\ c.at = "sent"
    /\ Goes(c, [c EXCEPT !.at = "running", !.repository = repository, !.epoch = epoch])
    /\ UNCHANGED <<backend, actions, sessionStore, pending, graphStore, operation, opened>>

\* ... and its success is one only in the same epoch.
EndMutation(c, ok) ==
    /\ c.kind = "mutation" /\ c.at = "running"
    /\ Goes(c, [c EXCEPT !.at = IF ok /\ c.epoch = epoch THEN "done" ELSE "failed"])
    /\ UNCHANGED <<backend, actions, sessionStore, pending, graphStore, operation, opened>>

\* The rest of the run: the status is refreshed before the success is shown.
MutationReturned(c) ==
    /\ c.kind = "mutation" /\ c.at \in {"done", "failed"}
    /\ IF c.at = "done" /\ CanRefresh
       THEN /\ Goes(c, StatusCall(generation, "conclude"))
            /\ isRefreshing' = TRUE
            /\ UNCHANGED operation
       ELSE /\ Answered(c)
            /\ Conclude(IF c.at = "done" THEN "succeeded" ELSE "failed")
            /\ UNCHANGED isRefreshing
    /\ UNCHANGED <<backend, actions, shown, status, generation, isOpening, pending, graphStore,
                   opened>>

-----------------------------------------------------------------------------
\* A thread of the backend goes on, or an answer is handled.
Proceed(c) ==
    \/ \E ok \in BOOLEAN :
          Discover(c, ok) \/ ReadRepository(c, ok) \/ AppendPage(c, ok) \/ EndMutation(c, ok)
    \/ SwapSession(c) \/ ResetGraph(c) \/ OpenReturned(c)
    \/ StatusReturned(c) \/ DetectReturned(c)
    \/ CapturePage(c) \/ ResetForPage(c) \/ PageReturned(c)
    \/ TargetReturned(c) \/ RunMutation(c) \/ MutationReturned(c)

Next ==
    \/ \E r \in Repositories : UserOpens(r) \/ StartupOpens(r)
    \/ \E focus \in BOOLEAN : RefreshStatus(focus)
    \/ \E branch \in Filters : LoadFirstPage(branch)
    \/ LoadMore
    \/ RequestOperation \/ Cancel \/ Confirm
    \/ \E c \in DOMAIN calls : Proceed(c)

Spec == Init /\ [][Next]_vars

-----------------------------------------------------------------------------
\* The shape of the state.
TypeOK ==
    /\ {repository, shown, status, pending} \subseteq Optional
    /\ {epoch, generation} \subseteq 0..MaxOpens
    /\ graph \cup rows \subseteq Sources
    /\ IsABag(calls)
    /\ actions \in 0..MaxActions
    /\ {isOpening, isRefreshing, isLoading, handoff, overlapped} \subseteq BOOLEAN
    /\ branchFilter \in Filters
    /\ operation = Idle
       \/ operation \in [at : {"confirming", "inProgress", "succeeded", "failed"},
                         asked : Repositories]

\* The status on the screen is that of the repository on the screen, however
\* late the answers of refreshes and of the repositories opened before.  Only
\* two repositories opened at once can part them.
StatusIsOfShownRepository == ~ overlapped => status \in {Nothing, shown}

\* Between two switches the commit graph of the backend only has pages of the
\* repository that is open, although git log runs without any lock.
GraphIsOfOpenRepository ==
    (\A c \in DOMAIN calls : c.kind = "open" => c.at # "swapped") =>
        \A source \in graph : source.repository = repository

(***************************************************************************)
(* What comments of the source say, and the code does not do.              *)
(***************************************************************************)

\* graph.ts, loadFirstPage: backend and frontend "never disagree about what
\* "the graph" currently means", here when no call is in flight and repositories
\* were opened one after the other.
RowsAreOfGraph == calls = EmptyBag /\ ~ overlapped => rows = graph
=============================================================================
