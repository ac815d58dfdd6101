---------------------------------- MODULE Git ----------------------------------
(***************************************************************************)
(* What the git program does to the worktree it is run in, as far as       *)
(* gitsail-git relies on it: the commands that can leave an operation in   *)
(* progress, and the todo list of a rebase with its stops.  A command is   *)
(* the set of its outcomes, each the worktree afterwards and the exit.     *)
(*                                                                         *)
(* A commit is the set of the changes it holds, and whether its message    *)
(* has been rewritten.  Change 0 is that of any commit from elsewhere.     *)
(***************************************************************************)
EXTENDS Naturals, Sequences, SequencesExt

NoOperation ==
    [kind |-> "none", stop |-> "none", todo |-> <<>>, interactive |-> FALSE, from |-> <<>>]
ForeignCommit == [changes |-> {0}, reworded |-> FALSE]
Outcome(tree, exit) == [tree |-> tree, exit |-> exit]

\* Any command may be refused before it does anything: by a hook or by its own
\* checks ("process"), or because another git holds a lock ("locked").
Refusals(tree) == {Outcome(tree, exit) : exit \in {"process", "locked"}}

Done(tree, commits) ==
    Outcome([tree EXCEPT !.head.commits = commits, !.operation = NoOperation,
                         !.unmerged = FALSE], "ok")

-------------------------------------------------------------------------------
(* Rebases *)

Item(command, commit) == [command |-> command, commit |-> commit]
Picks(commits) == [i \in DOMAIN commits |-> Item("pick", commits[i])]

\* squash adds to the commit before it and keeps its message (the combined one
\* begins with it); so does fixup, which squash stands for.
Applied(commits, item) ==
    CASE item.command = "drop" -> commits
      [] item.command = "squash" /\ commits # <<>> ->
            [commits EXCEPT ![Len(commits)].changes = @ \cup item.commit.changes]
      [] OTHER -> Append(commits, item.commit)

\* git takes no list in which squash has only dropped commits before it.
Accepts(todo) ==
    \A i \in DOMAIN todo : todo[i].command = "squash" =>
        \E j \in 1 .. i - 1 : todo[j].command \notin {"drop", "squash"}

\* The branch after each number of lines of the list.
Reached(commits, todo) ==
    LET reached[k \in 0 .. Len(todo)] ==
            IF k = 0 THEN commits ELSE Applied(reached[k - 1], todo[k])
    IN reached

\* The list is run to its end or to a stop: at a change that does not apply
\* (which stays first in the list), in an interactive rebase at one that has
\* become empty, and after an edit, which git does not call a failure.
RunTodo(tree, commits, todo) ==
    LET reached == Reached(commits, todo)
        Stop(why, k, rest) ==
            [tree EXCEPT !.head.commits = reached[k], !.unmerged = (why = "conflict"),
                         !.operation.stop = why,
                         !.operation.todo = SubSeq(todo, rest, Len(todo))]
        Tried == {i \in DOMAIN todo : \A j \in 1 .. i - 1 : todo[j].command # "edit"}
        Applying == {i \in Tried : todo[i].command # "drop"}
        Edits == {i \in Tried : todo[i].command = "edit"}
    IN (IF Edits = {} THEN {Done(tree, reached[Len(todo)])} ELSE {})
       \cup {Outcome(Stop("conflict", i - 1, i), "process") : i \in Applying}
       \cup {Outcome(Stop("empty", i - 1, i + 1), "process") :
                i \in {j \in Applying : tree.operation.interactive}}
       \cup {Outcome(Stop("edit", i, i + 1), "ok") : i \in Edits}

\* A list that git does not take leaves the rebase begun, at its first commit.
Rebase(tree, onto, todo, interactive) ==
    LET begun == [tree EXCEPT
            !.head = [onto |-> onto, commits |-> <<>>],
            !.operation = [kind |-> "rebase", stop |-> "list", todo |-> todo,
                           interactive |-> interactive, from |-> tree.head]]
    IN Refusals(tree) \cup
       IF tree.operation # NoOperation \/ tree.dirty \/ tree.unmerged THEN {}
       ELSE IF Accepts(todo) THEN RunTodo(begun, <<>>, todo)
       ELSE {Outcome(begun, "process")}

-------------------------------------------------------------------------------
(* The other commands *)

\* A merge, cherry-pick or revert of one commit; only a cherry-pick that turns
\* out empty stays in progress without conflicts.
Combine(tree, kind) ==
    LET begun(stop) == [tree EXCEPT !.unmerged = (stop = "conflict"),
            !.operation = [NoOperation EXCEPT !.kind = kind, !.stop = stop, !.from = tree.head]]
    IN Refusals(tree) \cup
       IF tree.operation # NoOperation \/ tree.unmerged THEN {}
       ELSE {Done(tree, Append(tree.head.commits, ForeignCommit)),
             Outcome(begun("conflict"), "process")}
            \cup (IF kind = "cherry-pick" THEN {Outcome(begun("empty"), "empty")} ELSE {})

\* A rebase goes on with a clean worktree only, and says of any change that
\* there are conflicts ("unmerged"); it makes no commit a hook could refuse.
ContinueRebase(tree) ==
    LET op == tree.operation
    IN {Outcome(tree, "locked")} \cup
       IF tree.unmerged \/ tree.dirty THEN {Outcome(tree, "unmerged")}
       ELSE IF op.kind # "rebase" \/ op.stop = "list" THEN {Outcome(tree, "process")}
       ELSE IF op.stop = "conflict"
       THEN RunTodo(tree, Applied(tree.head.commits, Head(op.todo)), Tail(op.todo))
       ELSE RunTodo(tree, tree.head.commits, op.todo)

Continue(tree, kind) ==
    IF kind = "rebase" THEN ContinueRebase(tree)
    ELSE Refusals(tree) \cup
         IF tree.operation.kind # kind \/ tree.unmerged \/ tree.operation.stop = "empty" THEN {}
         ELSE {Done(tree, Append(tree.head.commits, ForeignCommit))}

Skip(tree, kind) ==
    LET op == tree.operation
    IN Refusals(tree) \cup
       IF op.kind # kind \/ op.stop = "list" THEN {}
       ELSE IF kind = "rebase" THEN
            RunTodo(tree, tree.head.commits, IF op.stop = "conflict" THEN Tail(op.todo) ELSE op.todo)
       ELSE IF kind = "bisect" THEN {Outcome(tree, "ok")}
       ELSE {Done(tree, tree.head.commits)}

Abort(tree, kind) ==
    Refusals(tree) \cup
    IF tree.operation.kind # kind THEN {}
    ELSE {Outcome([tree EXCEPT !.head = tree.operation.from, !.operation = NoOperation,
                               !.unmerged = FALSE, !.dirty = FALSE], "ok")}

\* commit --amend is refused over a merge, a cherry-pick or a revert, also over
\* the cherry-pick a rebase has stopped in.
Amend(tree) ==
    LET commits == tree.head.commits
    IN Refusals(tree) \cup
       IF \/ tree.unmerged \/ tree.operation.kind \in {"merge", "cherry-pick", "revert"}
          \/ tree.operation.stop \in {"conflict", "empty"}
       THEN {}
       ELSE {Outcome([tree EXCEPT !.head.commits =
                IF commits = <<>> THEN <<[ForeignCommit EXCEPT !.reworded = TRUE]>>
                ELSE [commits EXCEPT ![Len(commits)].reworded = TRUE]], "ok")}

\* reset forgets a merge, a cherry-pick or a revert, never a rebase or a bisect.
Reset(tree, commits) ==
    Refusals(tree) \cup
    {Outcome([tree EXCEPT !.head.commits = commits, !.unmerged = FALSE, !.dirty = FALSE,
                !.operation = IF @.kind \in {"rebase", "bisect"} THEN @ ELSE NoOperation], "ok")}
===============================================================================
