------------------------------- MODULE GitWrites -------------------------------
(***************************************************************************)
(* The calls of gitsail-git's GitCliProvider that GitProvider leaves out:  *)
(* stashes, the index and commits, patches, branches, tags, worktrees and  *)
(* remotes.  A call is a list of runs of git; between any two of them a    *)
(* program outside GitSail may act on the repository, or a collaborator    *)
(* on the remote.                                                          *)
(***************************************************************************)
EXTENDS GitCommands

CONSTANTS
    Families,   \* what of a repository the calls are about, one at a time
    MaxStashes, \* bound: stashes made
    MaxCommits, \* bound: commits made on the two sides of a remote
    MaxActs     \* bound: acts of other programs

ASSUME FamiliesAssumption == Families \subseteq {"stash", "index", "refs", "remote"}
ASSUME WritesBoundsAssumption == {MaxStashes, MaxCommits, MaxActs} \subseteq Nat

VARIABLES
    repo,     \* the repository
    seen,     \* the repository when the user last looked at it
    call,     \* the call being made, with its arguments and local variables
    answer,   \* the result of the last call, with what it returns
    acts      \* history: how often others have acted

writesVars == <<repo, seen, call, answer, acts>>

\* history: found, the repository when the call began, and since, acts then.
NoCall == [name |-> "none", steps |-> <<>>, arg |-> None, before |-> 0,
           found |-> None, since |-> 0]
NoAnswer == [code |-> "none", value |-> None]

InFamily(family) ==
    CASE family = "stash" -> "entries" \in DOMAIN repo
      [] family = "index" -> "index" \in DOMAIN repo
      [] family = "refs" -> "tip" \in DOMAIN repo
      [] family = "remote" -> "published" \in DOMAIN repo

WritesInit ==
    /\ repo \in UNION {InitialRepos(family) : family \in Families}
    /\ seen = repo /\ call = NoCall /\ answer = NoAnswer /\ acts = 0

-------------------------------------------------------------------------------
(* What the messages of git become: the codes of the failures a call knows. *)
(* Any other is a ProcessFailure.                                           *)

\* A table of codes, and another for what the first does not know.
OrElse(codes, others) ==
    [exit \in DOMAIN codes \cup DOMAIN others |->
        IF exit \in DOMAIN codes THEN codes[exit] ELSE others[exit]]

ClassifyIndexLock == [locked |-> "RepositoryLocked", cancelled |-> "Cancelled"]
ClassifyStashMissing == [missing |-> "OperationConflict"]
ClassifyStashRestore ==
    OrElse([conflict |-> "Conflicts", overwritten |-> "OperationConflict"], ClassifyStashMissing)
ClassifyCommit == [identity |-> "InvalidRepositoryState"]
ClassifyApply == [stale |-> "OperationConflict"]
ClassifyPatchCheck == [stale |-> "OperationConflict", unsafe |-> "InvalidRepositoryState",
                       malformed |-> "ParseFailure"]
ClassifySwitch == [overwritten |-> "OperationConflict", missing |-> "RepositoryNotFound"]
ClassifyCreateBranch == [exists |-> "InvalidRepositoryState", missing |-> "RepositoryNotFound"]
ClassifyDeleteBranch == [used |-> "InvalidRepositoryState", unmerged |-> "OperationConflict"]
ClassifyRenameBranch == [exists |-> "InvalidRepositoryState", missing |-> "RepositoryNotFound"]
ClassifyCreateTag == [exists |-> "InvalidRepositoryState", missing |-> "RepositoryNotFound"]
ClassifyDeleteTag == [missing |-> "RepositoryNotFound"]
ClassifyCreateWorktree == [used |-> "InvalidRepositoryState", exists |-> "InvalidRepositoryState"]
ClassifyRemoveWorktree ==
    [modified |-> "OperationConflict", worktreelocked |-> "OperationConflict",
     missing |-> "RepositoryNotFound"]
ClassifyTransport ==
    [authentication |-> "AuthenticationRequired", unreachable |-> "NetworkFailure"]
ClassifyPull == OrElse([diverged |-> "OperationConflict"], ClassifyTransport)
ClassifyPush == OrElse([rejected |-> "OperationConflict"], ClassifyTransport)
ClassifyForcePush == OrElse([stale |-> "OperationConflict"], ClassifyTransport)

-------------------------------------------------------------------------------
(* A call and its steps *)

\* The runs of git of each call, reads first.
Steps(name) ==
    CASE name = "create_stash" -> <<"list", "run", "list_again">>
      [] name \in {"apply_stash", "pop_stash", "drop_stash"} -> <<"same_entry", "run">>
      [] name = "unstage" -> <<"head", "pairs", "run">>
      [] name = "commit" -> <<"status", "run", "rev-parse">>
      [] name = "preview_patch" -> <<"check">>
      [] name = "apply_patch" -> <<"check", "run">>
      [] name = "create_worktree" -> <<"run", "list">>
      [] name = "pull" -> <<"fetch", "merge", "rev-parse">>
      [] OTHER -> <<"run">>

Begin(name, arg) ==
    /\ call = NoCall
    /\ call' = [NoCall EXCEPT !.name = name, !.steps = Steps(name), !.arg = arg,
                              !.found = repo, !.since = acts]
    /\ answer' = NoAnswer
    /\ UNCHANGED <<repo, seen, acts>>

At(name, step) == call.name = name /\ call.steps # <<>> /\ Head(call.steps) = step

Answer(code, value) == call' = NoCall /\ answer' = [code |-> code, value |-> value]
Refuse(code) == Answer(code, None)
ProceedWith(next) == call' = [next EXCEPT !.steps = Tail(@)] /\ UNCHANGED answer
Proceed == ProceedWith(call)

CodeOf(exit, classified) ==
    IF exit \in DOMAIN classified THEN classified[exit] ELSE "ProcessFailure"

\* run, try_run, run_cancellable and run_with_stdin, which does not look for the
\* lock: a run ends well, or its failure is classified and ends the call.
Ran(outcomes, classified, value) ==
    \E o \in outcomes :
        /\ repo' = o.repo
        /\ IF o.exit \notin {"ok", "up_to_date"} THEN Refuse(CodeOf(o.exit, classified))
           ELSE IF Len(call.steps) = 1 \/ o.exit = "up_to_date" THEN Answer("Ok", value)
           ELSE Proceed
        /\ UNCHANGED <<seen, acts>>
RanLocking(outcomes, classified) == Ran(outcomes, OrElse(classified, ClassifyIndexLock), None)

\* What is only read stays; the run that reads it may fail.
Read(step) == step /\ UNCHANGED <<repo, seen, acts>>
ReadRunFails ==
    /\ call.steps # <<>>
    /\ Head(call.steps) \in {"list", "list_again", "same_entry", "head", "pairs", "status",
                             "rev-parse"}
    /\ Read(Refuse("ProcessFailure"))

\* The user looks at the repository again: stashes, diffs, remote branches.
Look ==
    /\ call = NoCall /\ ~InFamily("refs") /\ seen # repo
    /\ seen' = repo /\ UNCHANGED <<repo, call, answer, acts>>

-------------------------------------------------------------------------------
(* Stashes *)

BeginStash ==
    /\ InFamily("stash")
    /\ \/ repo.made < MaxStashes /\ Begin("create_stash", None)
       \/ \E name \in {"apply_stash", "pop_stash", "drop_stash"}, i \in DOMAIN seen.entries :
              Begin(name, [index |-> i, commit |-> seen.entries[i]])

\* Whether anything was stashed is told by the length of the list.  It panics
\* on a list that is empty by then, unless it was before.
CreateStash ==
    \/ /\ At("create_stash", "list")
       /\ Read(ProceedWith([call EXCEPT !.before = Len(repo.entries)]))
    \/ At("create_stash", "run") /\ RanLocking(StashPush(repo), <<>>)
    \/ /\ At("create_stash", "list_again")
       /\ Read(IF Len(repo.entries) = call.before THEN Refuse("InvalidRepositoryState")
               ELSE IF repo.entries = <<>> THEN Refuse("panic")
               ELSE Answer("Ok", repo.entries[1]))

\* Mutated form: there is still an entry at that place.
RevalidateStashPlace ==
    /\ \E name \in {"apply_stash", "pop_stash", "drop_stash"} : At(name, "same_entry")
    /\ Read(IF call.arg.index \in DOMAIN repo.entries THEN Proceed
            ELSE Refuse("OperationConflict"))

\* revalidate_stash_identity: the entry at that place is still the same.
RevalidateStashIdentity ==
    /\ \E name \in {"apply_stash", "pop_stash", "drop_stash"} : At(name, "same_entry")
    /\ Read(IF /\ call.arg.index \in DOMAIN repo.entries
               /\ repo.entries[call.arg.index] = call.arg.commit
            THEN Proceed ELSE Refuse("OperationConflict"))

\* By place again.  A conflict is an answer of its own, and the entry stays.
ApplyStash ==
    At("apply_stash", "run") /\ RanLocking(StashApply(repo, call.arg.index), ClassifyStashRestore)
PopStash ==
    At("pop_stash", "run") /\ RanLocking(StashPop(repo, call.arg.index), ClassifyStashRestore)
DropStash ==
    At("drop_stash", "run") /\ RanLocking(StashDrop(repo, call.arg.index), ClassifyStashMissing)

-------------------------------------------------------------------------------
(* The index and commits *)

\* What the status shows as staged; of a rename, the new path.
StagedRows(r) == Staged(r) \ {pair[1] : pair \in RenamePairs(r)}

BeginIndex ==
    /\ InFamily("index")
    /\ \/ Begin("commit", None)
       \/ \E p \in Paths \ seen.index : Begin("stage", {p})
       \/ \E p \in seen.head \ seen.work : Begin("stage", {p})
       \/ \E p \in StagedRows(seen) : Begin("unstage", {p})

StageFiles == At("stage", "run") /\ RanLocking(Add(repo, call.arg), <<>>)

\* expand_rename_pairs: the path before it goes with a path that was renamed.
ExpandRenamePairs(r, paths) ==
    paths \cup {pair[1] : pair \in {q \in RenamePairs(r) : q[2] \in paths}}

UnstageFiles ==
    \/ /\ At("unstage", "head")
       /\ Read(IF repo.head = Unborn
               THEN ProceedWith([call EXCEPT !.steps = <<"head", "rm">>]) ELSE Proceed)
    \/ At("unstage", "rm") /\ RanLocking(RemoveCached(repo, call.arg), <<>>)
    \/ /\ At("unstage", "pairs")
       /\ Read(ProceedWith([call EXCEPT !.arg = ExpandRenamePairs(repo, @)]))
    \/ At("unstage", "run") /\ RanLocking(RestoreStaged(repo, call.arg), <<>>)

CreateCommit ==
    \/ /\ At("commit", "status")
       /\ Read(IF Staged(repo) = {} THEN Refuse("InvalidRepositoryState") ELSE Proceed)
    \/ At("commit", "run") /\ RanLocking(CommitIndex(repo), ClassifyCommit)
    \/ At("commit", "rev-parse") /\ Read(Answer("Ok", repo.head))

\* Hunks of files that are shown with changes, and are not renamed.
Renamed(r) == {pair[2] : pair \in RenamePairs(r)}
BeginHunks ==
    /\ InFamily("index")
    /\ \/ \E p \in seen.work \ seen.index :
              Begin("stage_hunks", [paths |-> {p}, index |-> seen.index])
       \/ \E p \in (seen.index \ seen.head) \ Renamed(seen) :
              Begin("unstage_hunks", [paths |-> {p}, index |-> seen.index])

ApplyHunkSelection ==
    \E name \in {"stage_hunks", "unstage_hunks"} :
        /\ At(name, "run")
        /\ Ran(ApplyCached(repo, call.arg.paths, call.arg.index, name = "unstage_hunks"),
               ClassifyApply, None)

\* A patch without headers, or with a path outside, is refused without git.
PatchForms == {"no_headers", "unsafe", "plain"}
BeginPatch ==
    /\ InFamily("index")
    /\ \E name \in {"preview_patch", "apply_patch"}, form \in PatchForms, p \in Paths :
           Begin(name, [form |-> form, paths |-> {p}])

\* preview_patch_application answers with what apply_patch is refused for.
PatchPreview(rejection) ==
    [affected |-> IF call.arg.form = "no_headers" THEN {} ELSE call.arg.paths,
     rejection |-> rejection]
Rejected(code) ==
    IF call.name = "preview_patch" THEN Answer("Ok", PatchPreview(code)) ELSE Refuse(code)
Supported == IF call.name = "preview_patch" THEN Answer("Ok", PatchPreview(None)) ELSE Proceed

CheckPatchApplication ==
    \E name \in {"preview_patch", "apply_patch"} :
        /\ At(name, "check")
        /\ \/ call.arg.form = "no_headers" /\ Read(Rejected("ParseFailure"))
           \/ call.arg.form = "unsafe" /\ Read(Rejected("InvalidRepositoryState"))
           \/ /\ call.arg.form = "plain"
              /\ \E o \in CheckPatch(repo, call.arg.paths) :
                     Read(IF o.exit = "ok" THEN Supported
                          ELSE Rejected(CodeOf(o.exit, ClassifyPatchCheck)))

ApplyPatch ==
    At("apply_patch", "run") /\ Ran(ApplyPatchTo(repo, call.arg.paths), ClassifyPatchCheck, None)

-------------------------------------------------------------------------------
(* Branches, tags and worktrees *)

\* WorktreeBranchSpec.
WorktreeTargets ==
    [is : {"existing"}, branch : Branches]
        \cup [is : {"new"}, branch : Branches, commit : {None} \cup 1 .. MaxCommits]
        \cup [is : {"detached"}, commit : 1 .. MaxCommits]

BeginRefs ==
    /\ InFamily("refs")
    /\ \/ \E b \in Branches :
              \/ Begin("switch", b)
              \/ \E commit \in 1 .. MaxCommits :
                     Begin("create_branch", [name |-> b, commit |-> commit])
              \/ \E force \in BOOLEAN : Begin("delete_branch", [name |-> b, force |-> force])
              \/ \E c \in Branches \ {b} : Begin("rename_branch", [name |-> b, new |-> c])
       \/ \E target \in WorktreeTargets : Begin("create_worktree", target)
       \/ \E commit \in 1 .. MaxCommits : Begin("create_tag", commit)
       \/ Begin("delete_tag", None)
       \/ \E force \in BOOLEAN : Begin("remove_worktree", [force |-> force])

SwitchBranch == At("switch", "run") /\ RanLocking(SwitchTo(repo, call.arg), ClassifySwitch)
CreateBranch ==
    /\ At("create_branch", "run")
    /\ RanLocking(NewBranch(repo, call.arg.name, call.arg.commit), ClassifyCreateBranch)

\* Mutated form: the branch is always deleted with -D.
DeleteBranchForced ==
    At("delete_branch", "run") /\ RanLocking(DeleteRef(repo, call.arg.name, TRUE),
                                             ClassifyDeleteBranch)

DeleteBranch ==
    /\ At("delete_branch", "run")
    /\ RanLocking(DeleteRef(repo, call.arg.name, call.arg.force), ClassifyDeleteBranch)

RenameBranch ==
    /\ At("rename_branch", "run")
    /\ RanLocking(RenameRef(repo, call.arg.name, call.arg.new), ClassifyRenameBranch)
CreateTag == At("create_tag", "run") /\ RanLocking(CreateTagRef(repo, call.arg), ClassifyCreateTag)
DeleteTag == At("delete_tag", "run") /\ RanLocking(DeleteTagRef(repo), ClassifyDeleteTag)

\* What was created is looked for in the list: it may be gone again.
CreateWorktree ==
    \/ /\ At("create_worktree", "run")
       /\ RanLocking(AddWorktree(repo, call.arg), ClassifyCreateWorktree)
    \/ /\ At("create_worktree", "list")
       /\ Read(IF repo.linked = None THEN Refuse("ParseFailure") ELSE Answer("Ok", repo.linked))
RemoveWorktree ==
    /\ At("remove_worktree", "run")
    /\ RanLocking(DropWorktree(repo, call.arg.force), ClassifyRemoveWorktree)

-------------------------------------------------------------------------------
(* Remotes *)

BeginRemote ==
    /\ InFamily("remote")
    /\ \/ \E name \in {"fetch", "pull", "push"} : Begin(name, None)
       \/ Begin("force_push", seen.tracking)

Fetch == At("fetch", "run") /\ RanLocking(FetchFrom(repo), ClassifyTransport)

\* Mutated form: what was last fetched is merged.
PullUnfetched ==
    \/ At("pull", "fetch") /\ Read(Proceed)
    \/ At("pull", "merge") /\ RanLocking(MergeFastForward(repo), ClassifyPull)
    \/ At("pull", "rev-parse") /\ Read(Answer("Ok", repo.local))

Pull ==
    \/ At("pull", "fetch") /\ RanLocking(FetchFrom(repo), ClassifyTransport)
    \/ At("pull", "merge") /\ RanLocking(MergeFastForward(repo), ClassifyPull)
    \/ At("pull", "rev-parse") /\ Read(Answer("Ok", repo.local))

Push == At("push", "run") /\ RanLocking(PushTo(repo), ClassifyPush)

\* Mutated form: a lease on what the tracking branch is by now.
ForcePushBareLease ==
    At("force_push", "run") /\ RanLocking(PushWithLease(repo, repo.tracking), ClassifyForcePush)

ForcePushWithLease ==
    At("force_push", "run") /\ RanLocking(PushWithLease(repo, call.arg), ClassifyForcePush)

-------------------------------------------------------------------------------
(* Others: a program on the same repository, a collaborator on the remote *)

Acts(r) == acts < MaxActs /\ acts' = acts + 1 /\ repo' = r /\ UNCHANGED <<seen, call, answer>>

OutsideStash ==
    /\ InFamily("stash")
    /\ \/ ~repo.dirty /\ Acts([repo EXCEPT !.dirty = TRUE])
       \/ \E i \in DOMAIN repo.entries : Acts([repo EXCEPT !.entries = RemoveAt(@, i)])
       \/ repo.made < MaxStashes /\ \E o \in StashPush(repo) : o.repo # repo /\ Acts(o.repo)

OutsideIndex ==
    /\ InFamily("index")
    /\ \/ \E p \in Paths : \/ Acts([repo EXCEPT !.work = @ \ {p}])
                            \/ Acts([repo EXCEPT !.work = @ \cup {p}, !.index = @ \cup {p}])
                            \/ Acts([repo EXCEPT !.index = @ \ {p}])
       \/ Acts([repo EXCEPT !.head = repo.index])
       \/ \E p \in repo.index, q \in Paths \ repo.index :      \* git mv
              Acts([repo EXCEPT !.index = (@ \ {p}) \cup {q}, !.work = (@ \ {p}) \cup {q}])

OutsideRefs ==
    /\ InFamily("refs")
    /\ \/ \E b \in Branches, commit \in 0 .. MaxCommits :
              (commit = 0 => b \notin {repo.current, repo.linked}) /\ Acts([repo EXCEPT !.tip[b] = commit])
       \/ repo.linked # None /\ Acts([repo EXCEPT !.linkedDirty = TRUE])
       \/ repo.linked # None /\ Acts([repo EXCEPT !.linked = None, !.linkedDirty = FALSE])

\* A commit on either side, a fetch, or a branch rewritten.
OutsideRemote ==
    /\ InFamily("remote")
    /\ \/ repo.tracking # repo.published /\ Acts([repo EXCEPT !.tracking = repo.published])
       \/ /\ repo.made < MaxCommits
          /\ \E new \in {repo.made + 1}, kept \in BOOLEAN :
                 \/ Acts([repo EXCEPT !.made = new,
                        !.published = (IF kept THEN @ ELSE {1}) \cup {new}])
                 \/ Acts([repo EXCEPT !.made = new,
                        !.local = (IF kept THEN @ ELSE {1}) \cup {new}])

Begins == BeginStash \/ BeginIndex \/ BeginHunks \/ BeginPatch \/ BeginRefs \/ BeginRemote
StashSteps == CreateStash \/ RevalidateStashIdentity \/ ApplyStash \/ PopStash \/ DropStash
IndexSteps ==
    StageFiles \/ UnstageFiles \/ CreateCommit \/ ApplyHunkSelection
    \/ CheckPatchApplication \/ ApplyPatch
RefSteps ==
    SwitchBranch \/ CreateBranch \/ DeleteBranch \/ RenameBranch \/ CreateTag \/ DeleteTag
    \/ CreateWorktree \/ RemoveWorktree
RemoteSteps == Fetch \/ Pull \/ Push \/ ForcePushWithLease

WritesNext ==
    \/ Look \/ Begins \/ ReadRunFails
    \/ StashSteps \/ IndexSteps \/ RefSteps \/ RemoteSteps
    \/ OutsideStash \/ OutsideIndex \/ OutsideRefs \/ OutsideRemote

WritesSpec == WritesInit /\ [][WritesNext]_writesVars

-------------------------------------------------------------------------------
(* Properties *)

Undisturbed == acts = call.since
Ends == call # NoCall /\ call' = NoCall

\* If no one else has acted within the call, the stash that is applied, popped
\* or dropped is the one that was confirmed.
ActsOnConfirmedStash ==
    \A name \in {"apply_stash", "pop_stash", "drop_stash"} :
        At(name, "run") /\ Undisturbed => repo.entries[call.arg.index] = call.arg.commit

\* MutationKind::risk, of these calls; what is not destructive is safe or moderate.
Risk(c) ==
    IF \/ c.name \in {"drop_stash", "force_push"}
       \/ c.name \in {"delete_branch", "remove_worktree"} /\ c.arg.force
    THEN "Destructive" ELSE "Moderate"

\* What one can lose: changes in a worktree, a stash, the commits of a branch,
\* published ones included.
Reached(r) == UNION {IF r.tip[b] = 0 THEN {} ELSE {1, r.tip[b]} : b \in Branches}
Loses(r, s) ==
    CASE InFamily("stash") ->
            \/ ~Range(r.entries) \subseteq Range(s.entries) /\ ~s.dirty
            \/ r.dirty /\ ~s.dirty /\ r.made = s.made
      [] InFamily("index") -> ~r.work \subseteq s.work
      [] InFamily("refs") ->
            \/ ~Reached(r) \subseteq Reached(s)
            \/ r.linkedDirty /\ ~s.linkedDirty
      [] InFamily("remote") -> ~r.published \subseteq s.published

\* Only a call that is confirmed as destructive loses anything (MutationKind::risk).
LossIsDestructive == [][acts' = acts /\ Loses(repo, repo') => Risk(call) = "Destructive"]_writesVars

\* A push takes nothing from the remote but what the user had seen there
\* (push, force_push_with_lease).
PushesLoseOnlyWhatWasSeen ==
    [][InFamily("remote") /\ acts' = acts =>
        repo.published \ repo'.published \subseteq
            (IF call.name = "force_push" THEN call.arg ELSE {})]_writesVars

\* Codes that say the call was refused, or was not needed.
RefusalCodes == {"OperationConflict", "InvalidRepositoryState", "RepositoryNotFound",
                 "RepositoryLocked", "AuthenticationRequired"}
ButTracking(r) == IF InFamily("remote") THEN [r EXCEPT !.tracking = {}] ELSE r

\* What git leaves of a worktree it refuses to make at a path that is taken.
LeavesNewBranch(r) ==
    /\ call.name = "create_worktree" /\ call.arg.is = "new"
    /\ r = [call.found EXCEPT !.tip[call.arg.branch] = r.tip[call.arg.branch]]

\* If no one else has acted within the call: one that answers with a refusal has
\* changed nothing, but for tracking branches and the new branch of a worktree
\* (create_worktree: finding 51 of the README); a created stash is the one made; a
\* path unstaged leaves nothing of it staged, of a rename neither side; and a pull
\* has what the remote had when it began.
AnswersTellWhatHappened ==
    [][Ends /\ Undisturbed =>
        /\ answer'.code \in RefusalCodes =>
               ButTracking(repo') = ButTracking(call.found) \/ LeavesNewBranch(repo')
        /\ answer'.code = "Ok" =>
           /\ call.name = "create_stash" =>
                  answer'.value = repo'.entries[1] /\ answer'.value > call.found.made
           /\ call.name = "unstage" =>
                  \A pair \in RenamePairs(call.found) :
                      pair[2] \in call.arg => {pair[1], pair[2]} \cap Staged(repo') = {}
           /\ call.name = "pull" => call.found.published \subseteq repo'.local]_writesVars
===============================================================================
