----------------------------- MODULE DesktopStores -----------------------------
(***************************************************************************)
(* The stores of the desktop frontend for single features (stores/blame.ts,*)
(* diff.ts, search.ts, patchApply.ts, amend.ts, staging.ts, merge.ts,      *)
(* reset.ts, branches.ts, sync.ts, references.ts, pullRequests.ts), over   *)
(* the one of operations.  An action runs to its next await, which is a    *)
(* call of a command of the backend; the backend runs it at some moment    *)
(* and the frontend goes on at a later one, in any order.                  *)
(*                                                                         *)
(* One repository is open.  The store of the session is reduced to its     *)
(* refresh of the status: see DesktopSession for the rest.                 *)
(***************************************************************************)
EXTENDS DesktopCommands

CONSTANTS
    Topics,     \* paths, queries, texts: what one can ask or type
    Main,       \* the branch that is checked out at first
    Other,      \* another branch
    Views,      \* which stores are used, one set at a time
    MaxAsked    \* bound: what the user starts

ASSUME StoresBoundAssumption == MaxAsked \in Nat
ASSUME NullAssumption == Null \notin Topics

VARIABLES
    ui,         \* the stores
    prompt,     \* stores/operation.ts: status and current
    requests,   \* the calls in flight
    repo,       \* the repository
    view,       \* which stores are used
    asks        \* what the user has started

storesVars == <<ui, prompt, requests, repo, view, asks>>

\* A descriptor of an operation: the command it runs, with what it captured.
Descriptor(name, arg, risk, then) == [name |-> name, arg |-> arg, risk |-> risk, then |-> then]
NoPrompt == [status |-> "idle", current |-> Null]

StoresInit ==
    /\ ui = [blame |-> [file |-> Null, blame |-> Null, isLoading |-> FALSE, commit |-> Null,
                        isLoadingCommit |-> FALSE, requestId |-> 0],
             diff |-> [file |-> Null, diff |-> Null, isLoading |-> FALSE, failed |-> FALSE,
                       requestId |-> 0, wanted |-> Null],
             search |-> [query |-> Null, results |-> Null, isLoading |-> FALSE],
             lists |-> [tags |-> Null, stashes |-> Null, remotes |-> Null],
             pulls |-> [status |-> "idle", page |-> Null, currentPage |-> 1],
             patch |-> [text |-> Null, preview |-> Null, isLoading |-> FALSE, result |-> Null],
             amend |-> [preview |-> Null, message |-> Null, isLoading |-> FALSE],
             staging |-> [message |-> Null],
             merge |-> [operation |-> "none", inspected |-> Null, plan |-> Null,
                        isLoadingPlan |-> FALSE, planError |-> FALSE],
             branches |-> [list |-> Null],
             reset |-> [target |-> Null, mode |-> "soft"],
             sync |-> [target |-> Null, failed |-> FALSE],
             status |-> [shown |-> Null, isRefreshing |-> FALSE]]
    /\ prompt = NoPrompt
    /\ requests = {}
    /\ repo = [current |-> Main, head |-> Main, branches |-> [b \in {Main, Other} |-> Null],
               remotes |-> {"origin"}, tip |-> 1, pending |-> "none", synced |-> Null]
    /\ view \in Views
    /\ asks = 0

-------------------------------------------------------------------------------
(* Calls and operations. *)

\* `then` is what the action does after the answer: the loads it awaits next
\* and, for an operation, "conclude" in the end.
Request(name, arg, token, then) ==
    [id |-> asks, name |-> name, arg |-> arg, token |-> token, then |-> then,
     at |-> "sent", value |-> Null]

\* What a panel of a view offers, unless the dialog of an operation covers it;
\* shortcuts are not covered.
Starts(v) == view = v /\ asks < MaxAsked /\ asks' = asks + 1
Offers(v) == Starts(v) /\ prompt.status = "idle"

Calls(name, arg, token) ==
    /\ requests' = requests \cup {Request(name, arg, token, <<>>)}
    /\ UNCHANGED <<prompt, repo, view>>

NoCall == UNCHANGED <<prompt, requests, repo, view>>

\* The message of a commit is read when it is confirmed, and a plan is closed.
ArgumentOf(op) ==
    CASE op.name = "create_commit" -> ui.staging.message
      [] op.name = "amend_commit" -> [message |-> ui.amend.message, expected |-> op.arg]
      [] OTHER -> op.arg

UiAtRun(op) == IF op.name = "execute_rebase_plan" THEN [ui EXCEPT !.merge.plan = Null] ELSE ui

RunsNow(op, others) ==
    /\ prompt' = [status |-> "inProgress", current |-> op]
    /\ requests' = others \cup {[Request(op.name, ArgumentOf(op), 0, op.then) EXCEPT !.id = asks']}
    /\ ui' = UiAtRun(op)
    /\ UNCHANGED <<repo, view>>

\* request: what is safe is confirmed at once.  Replaces what there is.
Prompts(op) ==
    IF op.risk = "safe" THEN RunsNow(op, requests)
    ELSE prompt' = [status |-> "confirming", current |-> op] /\ UNCHANGED <<ui, requests, repo, view>>

ConfirmPrompt ==
    /\ prompt.status = "confirming"
    /\ UNCHANGED asks
    /\ RunsNow(prompt.current, requests)

CancelPrompt ==
    /\ prompt.status \in {"confirming", "succeeded", "failed"}
    /\ prompt' = NoPrompt
    /\ UNCHANGED <<ui, requests, repo, view, asks>>

Concluded(to) == IF prompt.status = "inProgress" THEN [prompt EXCEPT !.status = to] ELSE prompt

\* The backend runs a command.
Serve(c) ==
    /\ c.at = "sent"
    /\ \E outcome \in Outcomes(c.name, c.arg, repo) :
          /\ repo' = outcome.repo
          /\ requests' = (requests \ {c}) \cup
                 {[c EXCEPT !.at = IF outcome.ok THEN "done" ELSE "failed", !.value = outcome.value]}
    /\ UNCHANGED <<ui, prompt, view, asks>>

\* What the frontend does when an answer has been stored: the next call, if any.
\* A refresh of the status does nothing while another one runs.
GoesOn(c, stores) ==
    LET Refreshes(then) == then # <<>> /\ Head(then) = "get_repository_status"
        then == IF Refreshes(c.then) /\ stores.status.isRefreshing THEN Tail(c.then) ELSE c.then
    IN  /\ ui' = IF Refreshes(then) THEN [stores EXCEPT !.status.isRefreshing = TRUE] ELSE stores
        /\ prompt' = IF then = <<"conclude">> THEN Concluded("succeeded") ELSE prompt
        /\ requests' = (requests \ {c}) \cup
               (IF then \in {<<>>, <<"conclude">>} THEN {}
                ELSE {[c EXCEPT !.name = Head(then), !.then = Tail(then), !.arg = Null,
                                !.at = "sent", !.value = Null]})
        /\ UNCHANGED <<repo, view, asks>>

Answers(c, name) == c.name = name /\ c.at # "sent"

Status == <<"get_repository_status", "conclude">>
StatusAndOperation == <<"get_repository_status", "detect_in_progress_operation", "conclude">>
Relist == <<"list_branches", "conclude">>
RelistAndStatus == <<"list_branches", "get_repository_status", "conclude">>

RefreshReturned(c) ==
    /\ Answers(c, "get_repository_status")
    /\ GoesOn(c, [ui EXCEPT !.status = [shown |-> IF c.at = "done" THEN c.value ELSE @.shown,
                                        isRefreshing |-> FALSE]])

-------------------------------------------------------------------------------
(* stores/diff.ts, blame.ts, search.ts, references.ts, pullRequests.ts *)

LoadDiff(path, staged) ==
    /\ Offers("diff")
    /\ LET file == [path |-> path, staged |-> staged]
       IN  /\ ui' = [ui EXCEPT !.diff.requestId = @ + 1, !.diff.isLoading = TRUE, !.diff.wanted = file]
           /\ Calls("get_diff", file, ui.diff.requestId + 1)

DiffReturned(c) ==
    /\ Answers(c, "get_diff")
    /\ GoesOn(c, IF c.token # ui.diff.requestId THEN ui
                 ELSE IF c.at = "done"
                 THEN [ui EXCEPT !.diff.file = c.arg, !.diff.diff = c.value, !.diff.failed = FALSE,
                                 !.diff.isLoading = FALSE]
                 ELSE [ui EXCEPT !.diff.failed = TRUE, !.diff.isLoading = FALSE])

\* The panel covers the others while it is open.
OpenBlame(path) ==
    /\ Offers("blame") /\ ui.blame.file = Null
    /\ ui' = [ui EXCEPT !.blame.requestId = @ + 1, !.blame.file = path, !.blame.isLoading = TRUE,
                        !.blame.commit = Null]
    /\ Calls("get_blame", path, ui.blame.requestId + 1)

\* Mutated form: the answer of a panel that was closed is stored.
BlameLoadedAnyway(c) ==
    /\ Answers(c, "get_blame")
    /\ GoesOn(c, [ui EXCEPT !.blame.blame = c.value, !.blame.isLoading = FALSE])

\* A failure leaves no blame.
BlameLoaded(c) ==
    /\ Answers(c, "get_blame")
    /\ GoesOn(c, IF c.token # ui.blame.requestId THEN ui
                 ELSE [ui EXCEPT !.blame.blame = c.value, !.blame.isLoading = FALSE])

CloseBlame ==
    /\ Offers("blame") /\ ui.blame.file # Null
    /\ ui' = [ui EXCEPT !.blame = [file |-> Null, blame |-> Null, isLoading |-> FALSE, commit |-> Null,
                                   isLoadingCommit |-> FALSE, requestId |-> @.requestId + 1]]
    /\ NoCall

\* A line of the blame on the screen; the call has the id of the opening.
OpenCommitDetails(hash) ==
    /\ Offers("blame") /\ ui.blame.blame # Null /\ ~ui.blame.isLoading
    /\ ui' = [ui EXCEPT !.blame.isLoadingCommit = TRUE]
    /\ Calls("get_commit", [file |-> ui.blame.blame.of, hash |-> hash], ui.blame.requestId)

CommitReturned(c) ==
    /\ Answers(c, "get_commit")
    /\ GoesOn(c, IF c.token # ui.blame.requestId THEN ui
                 ELSE [ui EXCEPT !.blame.commit = c.value, !.blame.isLoadingCommit = FALSE])

DismissCommitDetails ==
    /\ Offers("blame") /\ ui.blame.commit # Null
    /\ ui' = [ui EXCEPT !.blame.commit = Null]
    /\ NoCall

\* A blank query clears what was found; no answer is compared with the query.
Search(query) ==
    /\ Offers("search")
    /\ ui' = [ui EXCEPT !.search.query = query, !.search.isLoading = TRUE]
    /\ Calls("search_commits", query, 0)

ClearSearch ==
    /\ Offers("search") /\ ui.search.query # Null
    /\ ui' = [ui EXCEPT !.search.query = Null, !.search.results = Null]
    /\ NoCall

SearchReturned(c) ==
    /\ Answers(c, "search_commits")
    /\ GoesOn(c, [ui EXCEPT !.search.results = IF c.at = "done" THEN c.value ELSE @,
                            !.search.isLoading = FALSE])

LoadList(name) ==
    /\ Offers("lists")
    /\ UNCHANGED ui
    /\ Calls(name, Null, 0)

\* Tags and stashes stay when they cannot be read, remotes do not.
ListReturned(c) ==
    \/ /\ Answers(c, "list_tags")
       /\ GoesOn(c, IF c.at = "done" THEN [ui EXCEPT !.lists.tags = c.value] ELSE ui)
    \/ /\ Answers(c, "list_stash_entries")
       /\ GoesOn(c, IF c.at = "done" THEN [ui EXCEPT !.lists.stashes = c.value] ELSE ui)
    \/ /\ Answers(c, "list_remotes")
       /\ GoesOn(c, [ui EXCEPT !.lists.remotes = c.value])

LoadPulls(page) ==
    /\ Offers("pulls")
    /\ page >= 1
    /\ page = ui.pulls.currentPage + 1 => ui.pulls.status = "loaded" /\ ui.pulls.page.hasNextPage
    /\ ui' = [ui EXCEPT !.pulls.status = "loading"]
    /\ Calls("list_pull_requests", page, 0)

\* Nothing handles a failed call.
PullsReturned(c) ==
    /\ Answers(c, "list_pull_requests")
    /\ GoesOn(c, IF c.at = "failed" THEN ui
                 ELSE [ui EXCEPT !.pulls = [status |-> c.value.status, currentPage |-> c.arg,
                                            page |-> IF c.value.status = "loaded" THEN c.value ELSE Null]])

-------------------------------------------------------------------------------
(* stores/staging.ts, amend.ts, patchApply.ts *)

\* stageFiles, unstageFiles, stageHunks, unstageHunks.
Stage(name, selection) ==
    /\ Offers("writing")
    /\ Prompts(Descriptor(name, selection, "safe", Status))

TypeMessage(text) ==
    /\ Offers("writing")
    /\ ui' = [ui EXCEPT !.staging.message = text]
    /\ NoCall

\* By its button or by its shortcut, which needs no message and sees no dialog.
RequestCommit ==
    /\ Starts("writing")
    /\ Prompts(Descriptor("create_commit", Null, "moderate", Status))

LoadAmendPreview ==
    /\ Offers("writing") /\ ~ui.amend.isLoading
    /\ ui' = [ui EXCEPT !.amend.isLoading = TRUE]
    /\ Calls("preview_amend", Null, 0)

\* The message is HEAD's, whatever was typed meanwhile.
AmendPreviewReturned(c) ==
    /\ Answers(c, "preview_amend")
    /\ GoesOn(c, [ui EXCEPT !.amend = [preview |-> c.value, isLoading |-> FALSE,
                                       message |-> IF c.at = "done" THEN c.value ELSE @.message]])

TypeAmendMessage(text) ==
    /\ Offers("writing") /\ ui.amend.preview # Null
    /\ ui' = [ui EXCEPT !.amend.message = [text |-> text]]
    /\ NoCall

RequestAmend ==
    /\ Offers("writing") /\ ui.amend.preview # Null
    /\ Prompts(Descriptor("amend_commit", ui.amend.preview.head, "destructive", Status))

SetPatchText(text) ==
    /\ Offers("writing")
    /\ ui' = [ui EXCEPT !.patch.text = text, !.patch.preview = Null, !.patch.result = Null]
    /\ NoCall

LoadPatchPreview ==
    /\ Offers("writing") /\ ui.patch.text # Null /\ ~ui.patch.isLoading
    /\ ui' = [ui EXCEPT !.patch.isLoading = TRUE]
    /\ Calls("preview_patch_application", ui.patch.text, 0)

PatchPreviewReturned(c) ==
    /\ Answers(c, "preview_patch_application")
    /\ GoesOn(c, [ui EXCEPT !.patch.preview = c.value, !.patch.isLoading = FALSE])

RequestApply ==
    /\ Offers("writing") /\ ui.patch.preview # Null /\ ui.patch.preview.supported
    /\ Prompts(Descriptor("apply_patch", ui.patch.text, "moderate", Status))

-------------------------------------------------------------------------------
(* stores/merge.ts *)

RefreshInProgressOperation ==
    /\ Offers("merge")
    /\ UNCHANGED ui
    /\ Calls("detect_in_progress_operation", Null, 0)

DetectionReturned(c) ==
    /\ Answers(c, "detect_in_progress_operation")
    /\ LET found == IF c.at = "done" THEN c.value ELSE "none"
       IN  GoesOn(c, [ui EXCEPT !.merge.operation = found,
                                !.merge.inspected = IF c.at = "done" /\ found = "none" THEN Null ELSE @])

\* requestMerge, requestRebase, requestCherryPick, requestRevert.
RequestMerge(name, revision) ==
    /\ Offers("merge")
    /\ Prompts(Descriptor(name, revision, "moderate", StatusAndOperation))

InspectConflict(path) ==
    /\ Offers("merge") /\ ui.merge.operation # "none"
    /\ UNCHANGED ui
    /\ Calls("get_conflict_sides", path, 0)

ConflictReturned(c) ==
    /\ Answers(c, "get_conflict_sides")
    /\ GoesOn(c, IF c.at = "done" THEN [ui EXCEPT !.merge.inspected = c.value] ELSE ui)

MarkResolved(path) ==
    /\ Offers("merge") /\ ui.merge.operation # "none"
    /\ Prompts(Descriptor("mark_conflict_resolved", path, "safe", StatusAndOperation))

TakeSide(path) ==
    /\ Offers("merge") /\ ui.merge.operation # "none"
    /\ Prompts(Descriptor("take_conflict_side", path, "moderate", StatusAndOperation))

\* requestContinue, requestAbort, requestSkip, of what is capable of it.
RequestContinue ==
    /\ Offers("merge") /\ ui.merge.operation # "none"
    /\ Prompts(Descriptor("continue_operation", Null, "moderate", StatusAndOperation))

RequestAbort ==
    /\ Offers("merge") /\ ui.merge.operation # "none"
    /\ Prompts(Descriptor("abort_operation", Null, "destructive", StatusAndOperation))

RequestSkip ==
    /\ Offers("merge") /\ ui.merge.operation \notin {"none", "merge"}
    /\ Prompts(Descriptor("skip_operation", Null, "moderate", StatusAndOperation))

RequestRebasePlan ==
    /\ Offers("merge")
    /\ ui' = [ui EXCEPT !.merge.isLoadingPlan = TRUE, !.merge.planError = FALSE]
    /\ Calls("plan_rebase", Null, 0)

PlanReturned(c) ==
    /\ Answers(c, "plan_rebase")
    /\ GoesOn(c, [ui EXCEPT !.merge.plan = c.value, !.merge.isLoadingPlan = FALSE,
                            !.merge.planError = @ \/ c.at = "failed"])

EditsPlan(entries, error) ==
    /\ Offers("merge") /\ ui.merge.plan # Null
    /\ ui' = [ui EXCEPT !.merge.plan.entries = entries, !.merge.planError = error]
    /\ NoCall

CloseRebasePlan ==
    /\ Offers("merge")
    /\ ui.merge.plan # Null \/ ui.merge.planError
    /\ ui' = [ui EXCEPT !.merge.plan = Null, !.merge.planError = FALSE]
    /\ NoCall

MoveEntry(index) ==
    LET entries == ui.merge.plan.entries
    IN  EditsPlan([entries EXCEPT ![index] = entries[index + 1], ![index + 1] = entries[index]], FALSE)

\* A message stays with a reword alone.
SetAction(index, action) ==
    LET entries == ui.merge.plan.entries
    IN  EditsPlan([entries EXCEPT ![index] =
                       [action |-> action, message |-> IF action = "reword" THEN @.message ELSE Null]], FALSE)

SetMessage(index, message) ==
    /\ ui.merge.plan.entries[index].action = "reword"
    /\ EditsPlan([ui.merge.plan.entries EXCEPT ![index].message = message], ui.merge.planError)

ValidPlan(entries) ==
    \A k \in DOMAIN entries :
        /\ entries[k].action \in {"squash", "fixup"} => k > 1
        /\ entries[k].action = "reword" <=> entries[k].message # Null

RequestExecuteRebasePlan ==
    /\ Offers("merge") /\ ui.merge.plan # Null
    /\ ui' = [ui EXCEPT !.merge.planError = ~ValidPlan(ui.merge.plan.entries)]
    /\ prompt' = IF ValidPlan(ui.merge.plan.entries)
                 THEN [status |-> "confirming",
                       current |-> Descriptor("execute_rebase_plan", ui.merge.plan, "moderate", StatusAndOperation)]
                 ELSE prompt
    /\ UNCHANGED <<requests, repo, view>>

-------------------------------------------------------------------------------
(* stores/branches.ts, reset.ts, sync.ts *)

LoadBranches ==
    /\ Offers("refs")
    /\ UNCHANGED ui
    /\ Calls("list_branches", Null, 0)

BranchesReturned(c) ==
    /\ Answers(c, "list_branches")
    /\ GoesOn(c, IF c.at = "done" THEN [ui EXCEPT !.branches.list = c.value] ELSE ui)

RequestCreate(name) ==
    /\ Offers("refs")
    /\ Prompts(Descriptor("create_branch", name, "moderate", Relist))

\* Of a branch that is listed, and not as the current one.
RequestSwitch(name) ==
    /\ Offers("refs") /\ ui.branches.list # Null
    /\ name \in ui.branches.list.names \ {ui.branches.list.current}
    /\ Prompts(Descriptor("switch_branch", name, "moderate", RelistAndStatus))

RequestDelete(name) ==
    /\ Offers("refs") /\ ui.branches.list # Null
    /\ name \in ui.branches.list.names \ {ui.branches.list.current}
    /\ Prompts(Descriptor("delete_branch", name, "moderate", Relist))

RequestRename(from, to) ==
    /\ Offers("refs") /\ ui.branches.list # Null /\ from \in ui.branches.list.names
    /\ Prompts(Descriptor("rename_branch", [from |-> from, to |-> to], "moderate", RelistAndStatus))

OpenReset(target) ==
    /\ Offers("refs") /\ ui.reset.target = Null
    /\ ui' = [ui EXCEPT !.reset = [target |-> target, mode |-> "soft"]]
    /\ NoCall

CloseReset ==
    /\ Offers("refs") /\ ui.reset.target # Null
    /\ ui' = [ui EXCEPT !.reset.target = Null]
    /\ NoCall

SetResetMode(mode) ==
    /\ Offers("refs") /\ ui.reset.target # Null
    /\ ui' = [ui EXCEPT !.reset.mode = mode]
    /\ NoCall

\* The HEAD a reset expects is that of the branches last listed.
RequestReset ==
    /\ Offers("refs") /\ ui.reset.target # Null /\ ui.branches.list # Null
    /\ ui' = [ui EXCEPT !.reset.target = Null]
    /\ prompt' = [status |-> "confirming",
                  current |-> Descriptor("reset", [target |-> ui.reset.target, mode |-> ui.reset.mode,
                                                   expected |-> ui.branches.list.target],
                                         IF ui.reset.mode = "hard" THEN "destructive" ELSE "moderate", Status)]
    /\ UNCHANGED <<requests, repo, view>>

\* requestFetch, requestPull, requestPush: the target is resolved again first.
RequestSync(name) ==
    /\ Starts("refs")
    /\ ui.sync.failed => name = "fetch" \* the buttons are disabled, shortcuts are not
    /\ UNCHANGED ui
    /\ requests' = requests \cup {Request("resolve_sync_target", Null, 0, <<name>>)}
    /\ UNCHANGED <<prompt, repo, view>>

\* A target without a branch can only be fetched from.
SyncTargetReturned(c) ==
    /\ Answers(c, "resolve_sync_target")
    /\ UNCHANGED <<repo, view, asks>>
    /\ LET stores == [ui EXCEPT !.sync = [target |-> c.value, failed |-> c.at = "failed"]]
           name == Head(c.then)
           op == Descriptor(name, c.value, IF name = "fetch" THEN "safe" ELSE "moderate",
                            IF name = "fetch" THEN <<"conclude">> ELSE Status)
           others == requests \ {c}
           stops == c.at = "failed" \/ (name # "fetch" /\ c.value.branch = Null)
       IN  /\ ui' = stores
           /\ CASE stops -> requests' = others /\ UNCHANGED prompt
                [] ~stops /\ name = "fetch" ->
                       /\ prompt' = [status |-> "inProgress", current |-> op]
                       /\ requests' = others \cup {[Request(name, c.value, 0, op.then) EXCEPT !.id = c.id]}
                [] OTHER -> requests' = others /\ prompt' = [status |-> "confirming", current |-> op]
-------------------------------------------------------------------------------
(* The answers of mutations, and the user. *)

MutationNames ==
    {"stage_paths", "unstage_paths", "stage_hunks", "unstage_hunks", "create_commit", "amend_commit",
     "apply_patch", "mark_conflict_resolved", "take_conflict_side", "continue_operation",
     "skip_operation", "abort_operation", "merge", "rebase", "cherry_pick", "revert",
     "execute_rebase_plan", "create_branch", "switch_branch", "delete_branch", "rename_branch",
     "reset", "fetch", "pull", "push"}

\* What a store forgets when its mutation is done.
AfterRun(c) ==
    CASE c.name = "create_commit" -> [ui EXCEPT !.staging.message = Null]
      [] c.name = "amend_commit" -> [ui EXCEPT !.amend.preview = Null, !.amend.message = Null]
      [] c.name = "apply_patch" -> [ui EXCEPT !.patch.text = Null, !.patch.preview = Null, !.patch.result = "applied"]
      [] c.name \in {"mark_conflict_resolved", "take_conflict_side"} ->
             [ui EXCEPT !.merge.inspected = IF @ # Null /\ @.of = c.arg THEN Null ELSE @]
      [] OTHER -> ui

OperationReturned(c) ==
    /\ c.name \in MutationNames
    /\ \/ c.at = "done" /\ GoesOn(c, AfterRun(c))
       \/ /\ c.at = "failed"
          /\ prompt' = Concluded("failed")
          /\ requests' = requests \ {c}
          /\ UNCHANGED <<ui, repo, view, asks>>

Returned(c) ==
    \/ RefreshReturned(c) \/ DiffReturned(c) \/ BlameLoaded(c) \/ CommitReturned(c)
    \/ SearchReturned(c) \/ ListReturned(c) \/ PullsReturned(c)
    \/ AmendPreviewReturned(c) \/ PatchPreviewReturned(c)
    \/ DetectionReturned(c) \/ ConflictReturned(c) \/ PlanReturned(c)
    \/ BranchesReturned(c) \/ SyncTargetReturned(c) \/ OperationReturned(c)

Looks ==
    \/ \E path \in Topics, staged \in BOOLEAN : LoadDiff(path, staged)
    \/ \E topic \in Topics : OpenBlame(topic) \/ OpenCommitDetails(topic) \/ Search(topic)
    \/ CloseBlame \/ DismissCommitDetails \/ ClearSearch
    \/ \E name \in {"list_tags", "list_stash_entries", "list_remotes"} : LoadList(name)
    \/ \E page \in {ui.pulls.currentPage - 1, ui.pulls.currentPage, ui.pulls.currentPage + 1} : LoadPulls(page)

Writes ==
    \/ \E name \in {"stage_paths", "unstage_paths", "stage_hunks", "unstage_hunks"}, path \in Topics :
          Stage(name, path)
    \/ \E text \in Topics : TypeMessage(text) \/ TypeAmendMessage(text) \/ SetPatchText(text)
    \/ RequestCommit \/ LoadAmendPreview \/ RequestAmend \/ LoadPatchPreview \/ RequestApply

Merges ==
    \/ RefreshInProgressOperation \/ RequestContinue \/ RequestAbort \/ RequestSkip
    \/ \E name \in {"merge", "rebase", "cherry_pick", "revert"} : RequestMerge(name, Other)
    \/ \E path \in Topics : InspectConflict(path) \/ MarkResolved(path) \/ TakeSide(path)

Plans ==
    \/ RequestRebasePlan \/ CloseRebasePlan \/ RequestExecuteRebasePlan
    \/ /\ ui.merge.plan # Null
       /\ \E k \in DOMAIN ui.merge.plan.entries :
             \/ k > 1 /\ MoveEntry(k - 1)
             \/ \E action \in {"pick", "reword", "squash", "drop"} : SetAction(k, action)
             \/ \E message \in Topics : SetMessage(k, message)

Refs ==
    \/ LoadBranches \/ CloseReset \/ RequestReset
    \/ \E name \in Topics : RequestCreate(name)
    \/ \E name \in DOMAIN repo.branches \cup Topics : RequestSwitch(name) \/ RequestDelete(name)
    \/ \E from \in DOMAIN repo.branches, to \in Topics : RequestRename(from, to)
    \/ \E target \in Topics : OpenReset(target)
    \/ \E mode \in {"soft", "mixed", "hard"} : SetResetMode(mode)
    \/ \E name \in {"fetch", "pull", "push"} : RequestSync(name)

StoresNext ==
    \/ Looks \/ Writes \/ Merges \/ Plans \/ Refs
    \/ ConfirmPrompt \/ CancelPrompt
    \/ \E c \in requests : Serve(c) \/ Returned(c)

StoresSpec == StoresInit /\ [][StoresNext]_storesVars

-------------------------------------------------------------------------------
(* Properties *)

\* However the answers overtake each other: a blame, the commit shown beside it
\* and a diff on the screen are those of the file that was asks for last.
ShownIsOfLastRequest ==
    /\ LET b == ui.blame
       IN  /\ ~b.isLoading /\ b.blame # Null => b.blame.of = b.file
           /\ b.commit # Null => b.commit.of.file = b.file
    /\ LET d == ui.diff
       IN  /\ d.diff # Null => d.diff.of = d.file
           /\ d.wanted # Null /\ ~d.isLoading /\ ~d.failed => d.file = d.wanted

\* sync.ts and resolve_sync_target: what a pull or a push acts on is the branch
\* that is checked out when it runs.
SyncsCurrentBranch == repo.synced # Null => repo.synced.branch = repo.synced.head
===============================================================================
