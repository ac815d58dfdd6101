---------------------------- MODULE DesktopCommands ----------------------------
(***************************************************************************)
(* What the commands of the desktop backend (commands.rs) do to the        *)
(* repository that is open, and answer: for a command, its argument and a  *)
(* repository, the outcomes there may be.  An argument its check refuses,  *)
(* or git, leaves the repository alone.  That another repository is opened *)
(* in the middle (run_mutation) is the matter of DesktopSession.           *)
(***************************************************************************)
EXTENDS Integers, Sequences, FiniteSets, Functions

CONSTANTS Null \* what is not there

Outcome(repo, value) == [ok |-> TRUE, repo |-> repo, value |-> value]
Refused(repo) == [ok |-> FALSE, repo |-> repo, value |-> Null]

\* A commit on the branch that is checked out.
Committed(repo) == [repo EXCEPT !.tip = @ + 1]
Paused(repo, kind) == [repo EXCEPT !.pending = kind]

-------------------------------------------------------------------------------
(* Reads: of the repository as it is when git runs. *)

\* resolve_remote_name: the remote the branch follows, else the only one.
RemoteFor(branch, repo) ==
    IF branch \in DOMAIN repo.branches /\ repo.branches[branch] # Null THEN repo.branches[branch]
    ELSE IF Cardinality(repo.remotes) = 1 THEN CHOOSE r \in repo.remotes : TRUE
    ELSE Null

\* resolve_sync_target_for: of the branch that was checked out when the
\* repository was opened, which the session keeps.
SyncTarget(repo) ==
    IF repo.current = Null \/ RemoteFor(repo.current, repo) = Null THEN Null
    ELSE [branch |-> repo.current, remote |-> RemoteFor(repo.current, repo)]

ListBranches(repo) == [names |-> DOMAIN repo.branches, current |-> repo.head, target |-> repo.tip]

\* plan_rebase: the commits to replay, and the HEAD they were read at.
PlanRebase(repo) ==
    [head |-> repo.tip, entries |-> <<[action |-> "pick", message |-> Null],
                                      [action |-> "pick", message |-> Null]>>]

\* get_diff, get_blame, get_commit, search_commits, list_tags, list_stash_entries,
\* list_remotes: what was asked for, as it is now.
ReadOf(arg, repo) == [of |-> arg, at |-> repo.tip]

ReadNames ==
    {"get_diff", "get_blame", "get_commit", "search_commits", "list_tags", "list_stash_entries",
     "list_remotes", "get_repository_status", "get_conflict_sides"}

\* A patch may fit or not; pull requests come from elsewhere.
PatchPreviews(text, repo) == {Outcome(repo, [of |-> text, supported |-> s]) : s \in BOOLEAN}
PullRequests(page, repo) ==
    {Outcome(repo, [status |-> "loaded", page |-> page, hasNextPage |-> n]) : n \in BOOLEAN}
    \cup {Outcome(repo, [status |-> s, page |-> Null, hasNextPage |-> FALSE]) :
             s \in {"noForge", "noToken", "rateLimited", "offline", "error"}}

ReadOutcomes(name, arg, repo) ==
    CASE name \in ReadNames -> {Outcome(repo, ReadOf(arg, repo))}
      [] name = "preview_patch_application" -> PatchPreviews(arg, repo)
      [] name = "list_pull_requests" -> PullRequests(arg, repo)
      [] name = "list_branches" -> {Outcome(repo, ListBranches(repo))}
      [] name = "preview_amend" -> {Outcome(repo, [head |-> repo.tip])}
      [] name = "detect_in_progress_operation" -> {Outcome(repo, repo.pending)}
      [] name = "resolve_sync_target" ->
             {IF SyncTarget(repo) = Null THEN Refused(repo) ELSE Outcome(repo, SyncTarget(repo))}
      [] name = "plan_rebase" -> {Outcome(repo, PlanRebase(repo))}
      [] OTHER -> {}

-------------------------------------------------------------------------------
(* Mutations. *)

\* stage_paths, unstage_paths, stage_hunks, unstage_hunks: the index is not kept.
IndexOutcomes(name, repo) ==
    IF name \in {"stage_paths", "unstage_paths", "stage_hunks", "unstage_hunks"}
    THEN {Outcome(repo, Null)} ELSE {}

CommitOutcomes(name, arg, repo) ==
    CASE name = "create_commit" -> {Outcome(Committed(repo), repo.tip + 1)}
      [] name = "amend_commit" /\ arg.expected = repo.tip -> {Outcome(Committed(repo), repo.tip + 1)}
      [] OTHER -> {}

BranchOutcomes(name, arg, repo) ==
    CASE name = "create_branch" /\ arg \notin DOMAIN repo.branches ->
             {Outcome([repo EXCEPT !.branches = [b \in DOMAIN @ \cup {arg} |-> IF b = arg THEN Null ELSE @[b]]], Null)}
      [] name = "switch_branch" /\ arg \in DOMAIN repo.branches -> {Outcome([repo EXCEPT !.head = arg], Null)}
      [] name = "delete_branch" /\ arg \in DOMAIN repo.branches \ {repo.head} ->
             {Outcome([repo EXCEPT !.branches = Restrict(@, DOMAIN @ \ {arg})], Null)}
      [] name = "rename_branch" /\ arg.from \in DOMAIN repo.branches /\ arg.to \notin DOMAIN repo.branches ->
             LET Kept(b) == IF b = arg.to THEN arg.from ELSE b
                 names == (DOMAIN repo.branches \ {arg.from}) \cup {arg.to}
             IN  {Outcome([repo EXCEPT !.branches = [b \in names |-> repo.branches[Kept(b)]],
                                       !.head = IF @ = arg.from THEN arg.to ELSE @], Null)}
      [] OTHER -> {}

\* fetch, pull, push: resolved again when they run.  A pull merges into the
\* branch that is checked out.
SyncOutcomes(name, repo) ==
    IF SyncTarget(repo) = Null THEN {}
    ELSE CASE name = "fetch" -> {Outcome(repo, SyncTarget(repo))}
           [] name = "pull" ->
                  {Outcome([r EXCEPT !.synced = [branch |-> SyncTarget(repo).branch, head |-> repo.head]],
                           SyncTarget(repo)) : r \in {repo, Committed(repo)}}
           [] name = "push" ->
                  {Outcome([repo EXCEPT !.synced = [branch |-> SyncTarget(repo).branch, head |-> repo.head]],
                           SyncTarget(repo))}
           [] OTHER -> {}

\* merge, rebase, cherry_pick, revert and execute_rebase_plan end, or stop at a
\* conflict.
EndsOrStops(kind, repo) == {Outcome(Committed(repo), "done"), Outcome(Paused(repo, kind), "conflict")}

MergeOutcomes(name, repo) ==
    IF name \in {"merge", "rebase"} /\ repo.pending = "none" THEN EndsOrStops(name, repo) ELSE {}

PickOutcomes(name, repo) ==
    IF name \in {"cherry_pick", "revert"} /\ repo.pending = "none" THEN EndsOrStops(name, repo) ELSE {}

PlanOutcomes(name, plan, repo) ==
    IF name = "execute_rebase_plan" /\ plan.head = repo.tip /\ repo.pending = "none"
    THEN EndsOrStops("rebase", repo) ELSE {}

\* continue_operation, skip_operation, abort_operation of what is in progress.  To
\* stop at the next conflict is a failure.
PendingOutcomes(name, repo) ==
    CASE repo.pending = "none" -> {}
      [] name = "continue_operation" \/ (name = "skip_operation" /\ repo.pending # "merge") ->
             {Outcome(Paused(Committed(repo), "none"), Null), Refused(Committed(repo))}
      [] name = "abort_operation" -> {Outcome(Paused(repo, "none"), Null)}
      [] OTHER -> {}

\* mark_conflict_resolved, take_conflict_side, apply_patch change files alone.
FileOutcomes(name, repo) ==
    IF name \in {"mark_conflict_resolved", "take_conflict_side", "apply_patch"}
    THEN {Outcome(repo, Null)} ELSE {}

ResetOutcomes(name, arg, repo) ==
    IF name = "reset" /\ arg.expected = repo.tip THEN {Outcome(Committed(repo), Null)} ELSE {}

\* Any of them may also fail.
Outcomes(name, arg, repo) ==
    {Refused(repo)} \cup ReadOutcomes(name, arg, repo) \cup IndexOutcomes(name, repo)
    \cup CommitOutcomes(name, arg, repo) \cup BranchOutcomes(name, arg, repo) \cup SyncOutcomes(name, repo)
    \cup MergeOutcomes(name, repo) \cup PickOutcomes(name, repo) \cup PlanOutcomes(name, arg, repo)
    \cup PendingOutcomes(name, repo) \cup FileOutcomes(name, repo) \cup ResetOutcomes(name, arg, repo)
===============================================================================
