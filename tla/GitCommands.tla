------------------------------ MODULE GitCommands ------------------------------
(***************************************************************************)
(* What the git program does for the calls of GitWrites, as far as         *)
(* gitsail-git relies on it.  The repository is one of four records, by    *)
(* what of it a call is about:                                             *)
(*   stash   the list of stashes, newest first, and the worktree's changes *)
(*   index   the paths of HEAD, the index and the worktree                 *)
(*   refs    branches, what is checked out where, and a linked worktree    *)
(*   remote  a branch here, its tracking branch, and the one on the remote *)
(* A command is the set of its outcomes, each the repository afterwards    *)
(* and the exit: "ok", or a word for the message git fails with.           *)
(***************************************************************************)
EXTENDS Naturals, Sequences, SequencesExt, FiniteSets

CONSTANTS Paths, Branches, None

Outcome(repo, exit) == [repo |-> repo, exit |-> exit]
Ok(repo) == {Outcome(repo, "ok")}
Fails(repo, exits) == {Outcome(repo, exit) : exit \in exits}

\* Any command may fail before it does anything: a hook, a lock of another git.
Refusals(repo) == Fails(repo, {"process", "locked"})

Unborn == {}                     \* HEAD without a commit
InitialRepos(family) ==
    CASE family = "stash" -> {[entries |-> <<>>, made |-> 0, dirty |-> TRUE]}
      [] family = "index" -> {[head |-> Unborn, index |-> {}, work |-> Paths]}
      [] family = "refs" ->
            {[tip |-> [b \in Branches |-> IF b = first THEN 1 ELSE 0], current |-> first,
              tag |-> 0, linked |-> None, linkedDirty |-> FALSE] : first \in Branches}
      [] family = "remote" -> {[local |-> {1}, tracking |-> {1}, published |-> {1}, made |-> 1]}

-------------------------------------------------------------------------------
(* git stash: entries are numbered as they are made, worktree changes included *)

StashPush(repo) ==
    Refusals(repo) \cup
    Ok(IF ~repo.dirty THEN repo
       ELSE [repo EXCEPT !.entries = <<repo.made + 1>> \o @, !.made = @ + 1, !.dirty = FALSE])

\* What does not apply leaves conflicts, over local changes nothing.
StashApply(repo, position) ==
    Refusals(repo) \cup
    IF position > Len(repo.entries) THEN Fails(repo, {"missing"})
    ELSE {Outcome([repo EXCEPT !.dirty = TRUE], exit) : exit \in {"ok", "conflict"}}
         \cup (IF repo.dirty THEN Fails(repo, {"overwritten"}) ELSE {})

StashDrop(repo, position) ==
    Refusals(repo) \cup
    IF position > Len(repo.entries) THEN Fails(repo, {"missing"})
    ELSE Ok([repo EXCEPT !.entries = RemoveAt(@, position)])

\* The entry stays when it did not apply.
StashPop(repo, position) ==
    {IF o.exit = "ok" THEN Outcome([o.repo EXCEPT !.entries = RemoveAt(@, position)], "ok")
     ELSE o : o \in StashApply(repo, position)}

-------------------------------------------------------------------------------
(* The index: a path is in it or not; one gone and one added are a rename *)

Staged(repo) == (repo.head \ repo.index) \cup (repo.index \ repo.head)

\* The status pairs a path gone with one that came; which, git decides.
RenamePairs(repo) ==
    {pair \in (repo.head \ repo.index) \X (repo.index \ repo.head) :
        Cardinality(repo.head \ repo.index) = 1 /\ Cardinality(repo.index \ repo.head) = 1}

Add(repo, paths) ==
    Refusals(repo) \cup
    IF \A p \in paths : p \in repo.work \cup repo.index
    THEN Ok([repo EXCEPT !.index = (@ \ paths) \cup (paths \cap repo.work)])
    ELSE Fails(repo, {"missing"})

RestoreStaged(repo, paths) ==
    Refusals(repo) \cup
    IF repo.head # Unborn /\ paths \subseteq repo.head \cup repo.index
    THEN Ok([repo EXCEPT !.index = (@ \ paths) \cup (paths \cap repo.head)])
    ELSE Fails(repo, {"missing"})

RemoveCached(repo, paths) ==
    Refusals(repo) \cup
    IF paths \subseteq repo.index THEN Ok([repo EXCEPT !.index = @ \ paths])
    ELSE Fails(repo, {"missing"})

CommitIndex(repo) ==
    Refusals(repo) \cup
    IF repo.index = repo.head THEN Fails(repo, {"process"})
    ELSE Fails(repo, {"identity"}) \cup Ok([repo EXCEPT !.head = repo.index])

\* A selection of hunks is taken while the index is as it was when they were shown.
ApplyCached(repo, paths, shown, reverse) ==
    Refusals(repo) \cup
    IF repo.index # shown THEN Fails(repo, {"stale"})
    ELSE Ok([repo EXCEPT !.index = IF reverse THEN @ \ paths ELSE @ \cup paths])

\* A patch that adds the paths to the worktree; --check applies nothing.
ApplyPatchTo(repo, paths) ==
    Refusals(repo) \cup Fails(repo, {"malformed", "unsafe"}) \cup
    IF paths \cap repo.work = {} THEN Ok([repo EXCEPT !.work = @ \cup paths])
    ELSE Fails(repo, {"stale"})
CheckPatch(repo, paths) == {Outcome(repo, o.exit) : o \in ApplyPatchTo(repo, paths)}

-------------------------------------------------------------------------------
(* Branches: a tip of 0 is a branch that is not there; commit 1 is in all others *)

Exists(repo, b) == repo.tip[b] # 0
Merged(repo, b) == repo.tip[b] = 1 \/ \E c \in Branches \ {b} : repo.tip[c] = repo.tip[b]

SwitchTo(repo, b) ==
    Refusals(repo) \cup
    IF ~Exists(repo, b) THEN Fails(repo, {"missing"})
    ELSE IF repo.linked = b THEN Fails(repo, {"process"})
    ELSE Fails(repo, {"overwritten"}) \cup Ok([repo EXCEPT !.current = b])

NewBranch(repo, b, commit) ==
    Refusals(repo) \cup
    IF Exists(repo, b) THEN Fails(repo, {"exists"})
    ELSE Fails(repo, {"missing"}) \cup Ok([repo EXCEPT !.tip[b] = commit])

DeleteRef(repo, b, force) ==
    Refusals(repo) \cup
    IF ~Exists(repo, b) THEN Fails(repo, {"process"})
    ELSE IF b \in {repo.current, repo.linked} THEN Fails(repo, {"used"})
    ELSE IF ~force /\ ~Merged(repo, b) THEN Fails(repo, {"unmerged"})
    ELSE Ok([repo EXCEPT !.tip[b] = 0])

RenameRef(repo, b, c) ==
    Refusals(repo) \cup
    IF ~Exists(repo, b) THEN Fails(repo, {"missing"})
    ELSE IF Exists(repo, c) THEN Fails(repo, {"exists"})
    ELSE Ok([repo EXCEPT !.tip[c] = repo.tip[b], !.tip[b] = 0,
                         !.current = IF @ = b THEN c ELSE @, !.linked = IF @ = b THEN c ELSE @])

CreateTagRef(repo, commit) ==
    Refusals(repo) \cup
    IF repo.tag # 0 THEN Fails(repo, {"exists"})
    ELSE Fails(repo, {"missing"}) \cup Ok([repo EXCEPT !.tag = commit])

DeleteTagRef(repo) ==
    Refusals(repo) \cup
    IF repo.tag = 0 THEN Fails(repo, {"missing"}) ELSE Ok([repo EXCEPT !.tag = 0])

\* There is one path for a worktree of its own, with a branch or a commit there.
CheckOutLinked(repo, head) ==
    IF repo.linked # None THEN Fails(repo, {"exists"}) ELSE Ok([repo EXCEPT !.linked = head])

\* Of a commit, or of HEAD's.
BranchOff(repo, b, start) ==
    [repo EXCEPT !.tip[b] = IF start = None THEN repo.tip[repo.current] ELSE start]

\* A new branch is made before the path is looked at, and stays if that is taken.
AddWorktree(repo, target) ==
    Refusals(repo) \cup
    CASE target.is = "existing" ->
            IF target.branch \in {repo.current, repo.linked} THEN Fails(repo, {"used"})
            ELSE IF ~Exists(repo, target.branch) THEN Fails(repo, {"process"})
            ELSE CheckOutLinked(repo, target.branch)
      [] target.is = "new" ->
            IF Exists(repo, target.branch) THEN Fails(repo, {"exists"})
            ELSE CheckOutLinked(BranchOff(repo, target.branch, target.commit), target.branch)
                 \cup Fails(BranchOff(repo, target.branch, target.commit), {"process"})
      [] target.is = "detached" -> CheckOutLinked(repo, target.commit)

DropWorktree(repo, force) ==
    Refusals(repo) \cup
    IF repo.linked = None THEN Fails(repo, {"missing"})
    ELSE IF repo.linkedDirty /\ ~force THEN Fails(repo, {"modified"})
    ELSE Fails(repo, {"worktreelocked"})
         \cup Ok([repo EXCEPT !.linked = None, !.linkedDirty = FALSE])

-------------------------------------------------------------------------------
(* The remote: a branch is the set of its commits *)

Transport(repo) == Fails(repo, {"process", "authentication", "unreachable", "cancelled"})

FetchFrom(repo) == Transport(repo) \cup Ok([repo EXCEPT !.tracking = repo.published])

MergeFastForward(repo) ==
    Refusals(repo) \cup Fails(repo, {"cancelled"}) \cup
    IF repo.tracking \subseteq repo.local THEN Fails(repo, {"up_to_date"})
    ELSE IF repo.local \subseteq repo.tracking THEN Ok([repo EXCEPT !.local = repo.tracking])
    ELSE Fails(repo, {"diverged"})

AfterPush(repo) == [repo EXCEPT !.published = repo.local, !.tracking = repo.local]

\* The remote decides, and the answer may be lost after it has.
PushTo(repo) ==
    Transport(repo) \cup
    IF repo.published \subseteq repo.local
    THEN Ok(AfterPush(repo)) \cup
         {Outcome([repo EXCEPT !.published = repo.local], exit) :
             exit \in {"unreachable", "cancelled"}}
    ELSE Fails(repo, {"rejected"})

PushWithLease(repo, expected) ==
    Transport(repo) \cup
    IF repo.published = expected
    THEN Ok(AfterPush(repo)) \cup
         {Outcome([repo EXCEPT !.published = repo.local], exit) :
             exit \in {"unreachable", "cancelled"}}
    ELSE Fails(repo, {"stale"})
===============================================================================
