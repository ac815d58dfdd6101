------------------------------ MODULE GitProvider ------------------------------
(***************************************************************************)
(* The calls of gitsail-git's GitCliProvider that rewrite history or leave *)
(* an operation in progress: merge, rebase, rebase plans, cherry-pick,     *)
(* revert, reset, amend, continue, skip, abort, and resolving conflicts.   *)
(* A call is a sequence of runs of git, some to check and one or more to   *)
(* act; between any two of them a program outside GitSail may act on the   *)
(* same worktree.  GitSail itself has one such call at a time (see         *)
(* MutationLocks).                                                         *)
(***************************************************************************)
EXTENDS Git

CONSTANTS
    Size,       \* the commits of the branch at first, each with a change of its own
    Linked,     \* whether the open worktree is a linked one
    MaxCommits, \* bound: commits of the branch not in its upstream
    MaxActs     \* bound: acts of programs outside GitSail, moves of the upstream included

\* What is assumed of them.
ProviderAssumption ==
    /\ Linked \in BOOLEAN /\ Size \in Nat
    /\ MaxCommits \in Nat /\ MaxActs \in Nat

VARIABLES
    tree,      \* the open worktree: HEAD, the operation in progress, its files
    upstream,  \* the commit the upstream's name resolves to
    preview,   \* what the preview of the next call saw: HEAD and the upstream, or <<>>
    call,      \* the call being made, with its local variables; history: failed, whether
               \* a run of git in it has; acts when it began (since), when nothing was
               \* found in progress (cleared), when HEAD was compared (matched)
    answer,    \* the result of the last call
    acts       \* history: how often a program outside has acted on the worktree

providerVars == <<tree, upstream, preview, call, answer, acts>>

PendingKinds == {"merge", "rebase", "cherry-pick", "revert", "bisect"}
Actions == {"pick", "reword", "squash", "drop"}  \* a fixup differs from a squash in the message

NoCall ==
    [name |-> "none", steps |-> <<>>, kind |-> "none", plan |-> <<>>, seen |-> <<>>,
     rewords |-> {}, failed |-> FALSE, looks |-> 0, since |-> 0, cleared |-> 0, matched |-> 0]

ProviderInit ==
    /\ tree = [head |-> [onto |-> 0,
                         commits |-> [i \in 1 .. Size |-> [changes |-> {i}, reworded |-> FALSE]]],
               operation |-> NoOperation, unmerged |-> FALSE, dirty |-> FALSE]
    /\ upstream = 0 /\ preview = <<>>
    /\ call = NoCall /\ answer = "none" /\ acts = 0

-------------------------------------------------------------------------------
(* What the calls read *)

\* detect_in_progress_operation looks for the markers in the common git
\* directory, which is the main worktree's (taken to have nothing in progress),
\* and asks git status for conflicts.
Detected == IF Linked THEN "none" ELSE tree.operation.kind

Supports(kind, capability) ==
    CASE capability = "continue" -> kind \in PendingKinds \ {"bisect"}
      [] capability = "skip" -> kind \in PendingKinds \ {"merge"}
      [] capability = "abort" -> kind \in PendingKinds

-------------------------------------------------------------------------------
(* The calls and their steps *)

\* The runs of git each call begins with; the last is the one that acts.
Steps(name) ==
    CASE name \in {"merge", "cherry-pick", "revert"} -> <<"none pending", "run">>
      [] name = "rebase" -> <<"none pending", "clean", "run">>
      [] name = "plan" -> <<"none pending", "onto", "head", "clean", "run">>
      [] name = "reset" -> <<"none pending", "head", "run">>
      [] name = "amend" -> <<"head", "run">>
      [] name \in {"continue", "skip", "abort"} -> <<"pending", "run">>
      [] name = "take" -> <<"checkout", "add">>
      [] name = "mark" -> <<"add">>

At(step) == call.steps # <<>> /\ Head(call.steps) = step

\* RebasePlan::validate
Validated(plan) == plan = <<>> \/ plan[1].action # "squash"

\* The plan of the preview, its entries given actions by the user, who may also
\* reorder them: that changes nothing but which change has which number.
PlansOf(commits) ==
    {plan \in [DOMAIN commits -> [commit : Range(commits), action : Actions]] :
        (\A i \in DOMAIN commits : plan[i].commit = commits[i]) /\ Validated(plan)}

\* Mutated form: a reword without a pause.
CommandPicked(action) == IF action = "reword" THEN "pick" ELSE action

\* render_rebase_todo: a reword becomes an edit.
Command(action) == IF action = "reword" THEN "edit" ELSE action
Todo(plan) == [i \in DOMAIN plan |-> Item(Command(plan[i].action), plan[i].commit)]

\* The entries whose messages are queued, in the order of the plan.
QueuedRewords(plan) == {i \in DOMAIN plan : plan[i].action = "reword"}

\* Mutated form: the message queued last.
NextRewordLast(rewords) == Max(rewords)

NextReword(rewords) == Min(rewords)

\* Mutated form: a loop as long as the plan.
MaxIterationsShort(plan) == Len(plan)

MaxIterations(plan) == Len(plan) + 2

\* plan_rebase, or the read that the preview of an amend or a reset begins with.
Preview ==
    /\ call = NoCall
    /\ preview' = [head |-> tree.head, onto |-> upstream] /\ answer' = "none"
    /\ UNCHANGED <<tree, upstream, call, acts>>

BeginCall(name, plan, seen) ==
    /\ call = NoCall
    /\ call' = [NoCall EXCEPT !.name = name, !.steps = Steps(name), !.plan = plan,
                              !.seen = seen, !.since = acts]
    /\ answer' = "none" /\ preview' = <<>>
    /\ UNCHANGED <<tree, upstream, acts>>

\* The calls that make a commit, on what is there; the bound is on commits.
BeginCommitting(name) == Len(tree.head.commits) < MaxCommits /\ BeginCall(name, <<>>, <<>>)
BeginMerge == BeginCommitting("merge")
BeginRebase == BeginCommitting("rebase")
BeginCherryPick == BeginCommitting("cherry-pick")
BeginRevert == BeginCommitting("revert")

\* The calls on an operation in progress, and on the files it left in conflict.
BeginContinue == BeginCall("continue", <<>>, <<>>)
BeginSkip == BeginCall("skip", <<>>, <<>>)
BeginAbort == BeginCall("abort", <<>>, <<>>)
BeginTakeSide == BeginCall("take", <<>>, <<>>)
BeginMarkResolved == BeginCall("mark", <<>>, <<>>)

\* The calls that are confirmed on a preview.
BeginPlan ==
    preview # <<>> /\ \E plan \in PlansOf(preview.head.commits) : BeginCall("plan", plan, preview)
BeginReset == preview # <<>> /\ BeginCall("reset", <<>>, preview)
BeginAmend == preview # <<>> /\ BeginCall("amend", <<>>, preview)

Answer(result) == call' = NoCall /\ answer' = result
Proceed == call' = [call EXCEPT !.steps = Tail(@)] /\ UNCHANGED answer
ReadsOnly == UNCHANGED <<tree, upstream, preview, acts>>

-------------------------------------------------------------------------------
(* The checks *)

RequireNonePending ==
    /\ At("none pending")
    /\ IF Detected # "none" THEN Answer("refused")
       ELSE call' = [call EXCEPT !.steps = Tail(@), !.cleared = acts] /\ UNCHANGED answer
    /\ ReadsOnly

CheckOnto ==
    /\ At("onto")
    /\ IF upstream # call.seen.onto THEN Answer("refused") ELSE Proceed
    /\ ReadsOnly

\* Mutated form: the HEAD the call was confirmed for is not compared.
CheckHeadUnread ==
    /\ At("head")
    /\ call' = [call EXCEPT !.steps = Tail(@), !.matched = acts] /\ UNCHANGED answer
    /\ ReadsOnly

CheckHead ==
    /\ At("head")
    /\ IF tree.head # call.seen.head THEN Answer("refused")
       ELSE call' = [call EXCEPT !.steps = Tail(@), !.matched = acts] /\ UNCHANGED answer
    /\ ReadsOnly

\* An empty plan is handed to rebase, with all of its own checks.
RequireClean ==
    /\ At("clean")
    /\ IF tree.dirty \/ tree.unmerged THEN Answer("refused")
       ELSE IF call.name = "plan" /\ call.plan = <<>>
       THEN /\ call' = [NoCall EXCEPT !.name = "rebase", !.steps = Steps("rebase"),
                                   !.since = call.since]
            /\ UNCHANGED answer
       ELSE Proceed
    /\ ReadsOnly

\* continue_operation, skip_operation and abort_operation act on what is found.
FindPending ==
    /\ At("pending")
    /\ IF ~Supports(Detected, call.name) \/ (call.name = "continue" /\ tree.unmerged)
       THEN Answer("refused")
       ELSE /\ call' = [call EXCEPT !.steps = Tail(@), !.kind = Detected]
            /\ UNCHANGED answer
    /\ ReadsOnly

\* A read of the repository fails, and with it the call, before or after it acted.
ReadFails ==
    /\ \E step \in {"none pending", "onto", "head", "clean", "pending", "inspect", "look"} :
          At(step)
    /\ Answer("failed")
    /\ ReadsOnly

-------------------------------------------------------------------------------
(* The run of git that acts *)

Outcomes ==
    LET commits == tree.head.commits
    IN CASE call.name \in {"merge", "cherry-pick", "revert"} -> Combine(tree, call.name)
         [] call.name = "rebase" -> Rebase(tree, upstream, Picks(commits), FALSE)
         [] call.name = "plan" -> Rebase(tree, call.seen.onto, Todo(call.plan), TRUE)
         [] call.name = "reset" ->
                UNION {Reset(tree, SubSeq(commits, 1, k)) : k \in 0 .. Len(commits)}
         [] call.name = "amend" -> Amend(tree)
         [] call.name = "continue" -> Continue(tree, call.kind)
         [] call.name = "skip" -> Skip(tree, call.kind)
         [] call.name = "abort" -> Abort(tree, call.kind)

Acts == UNCHANGED <<upstream, preview, acts>>

\* All but rebase plans: a failure that may be a conflict is looked into.
RunGit ==
    /\ At("run") /\ call.name # "plan"
    /\ \E outcome \in Outcomes :
          /\ tree' = outcome.tree
          /\ CASE outcome.exit = "ok" -> Answer("completed")
               [] outcome.exit = "empty" -> Answer("empty")
               [] outcome.exit = "process" /\ call.name \in PendingKinds ->
                    /\ call' = [call EXCEPT !.steps = <<"inspect">>]
                    /\ UNCHANGED answer
               [] OTHER -> Answer("failed")
    /\ Acts

InspectFailure ==
    /\ At("inspect")
    /\ Answer(IF Detected = call.name /\ tree.unmerged THEN "conflict" ELSE "failed")
    /\ ReadsOnly

RunPlan ==
    /\ At("run") /\ call.name = "plan"
    /\ \E outcome \in Outcomes :
          /\ tree' = outcome.tree
          /\ IF outcome.exit = "locked" THEN Answer("failed")
             ELSE /\ call' = [call EXCEPT !.steps = <<"look">>,
                                          !.rewords = QueuedRewords(call.plan),
                                          !.failed = outcome.exit # "ok"]
                  /\ UNCHANGED answer
    /\ Acts

\* One turn of the loop of execute_rebase_plan: what is in progress decides,
\* whether git failed does not.
Look ==
    /\ At("look")
    /\ CASE call.looks = MaxIterations(call.plan) -> Answer("diverged")
         [] call.looks < MaxIterations(call.plan) /\ Detected = "none" -> Answer("completed")
         [] call.looks < MaxIterations(call.plan) /\ Detected = "rebase" /\ tree.unmerged ->
                Answer("conflict")
         [] call.looks < MaxIterations(call.plan) /\ Detected = "rebase" /\ ~tree.unmerged
            /\ call.rewords # {} ->
                /\ call' = [call EXCEPT !.steps = <<"amend">>, !.looks = @ + 1]
                /\ UNCHANGED answer
         [] OTHER -> Answer("internal")
    /\ ReadsOnly

AmendPaused ==
    /\ At("amend")
    /\ \E outcome \in Amend(tree) :
          /\ tree' = outcome.tree
          /\ IF outcome.exit # "ok" THEN Answer("failed")
             ELSE /\ call' = [call EXCEPT !.steps = <<"resume">>, !.rewords = @ \ {NextReword(@)}]
                  /\ UNCHANGED answer
    /\ Acts

\* continue_operation called from the loop, which its own refusals end; but the
\* loop does not tell a read that fails in it from a rebase that has stopped.
Resume ==
    /\ At("resume")
    /\ IF ~Supports(Detected, "continue") \/ tree.unmerged THEN Answer("failed")
       ELSE /\ call' = [call EXCEPT !.steps = <<"continue">>, !.kind = Detected]
            /\ UNCHANGED answer
    /\ ReadsOnly

ResumeUnread ==
    /\ At("resume")
    /\ call' = [call EXCEPT !.steps = <<"look">>, !.failed = TRUE]
    /\ UNCHANGED answer
    /\ ReadsOnly

ContinuePaused ==
    /\ At("continue")
    /\ \E outcome \in Continue(tree, call.kind) :
          /\ tree' = outcome.tree
          /\ IF outcome.exit \in {"locked", "unmerged"} THEN Answer("failed")
             ELSE /\ call' = [call EXCEPT !.steps = <<"look">>,
                                          !.failed = @ \/ outcome.exit # "ok"]
                  /\ UNCHANGED answer
    /\ Acts

\* take_conflict_side, and the add it shares with mark_conflict_resolved; other
\* files may still be in conflict.
Checkout ==
    /\ At("checkout")
    /\ \/ Answer("failed")
       \/ tree.unmerged /\ Proceed
    /\ ReadsOnly

AddResolved ==
    /\ At("add")
    /\ \/ Answer("failed") /\ UNCHANGED tree
       \/ /\ Answer("completed")
          /\ \E left \in {FALSE, tree.unmerged} : tree' = [tree EXCEPT !.unmerged = left]
    /\ Acts

-------------------------------------------------------------------------------
(* Programs outside GitSail *)

Outside(next) ==
    /\ acts + upstream < MaxActs /\ acts' = acts + 1
    /\ tree' = next
    /\ UNCHANGED <<upstream, preview, call, answer>>

\* A commit, also during the pause of a rebase.
OutsideCommits ==
    /\ ~tree.unmerged /\ tree.operation.stop \in {"none", "edit"}
    /\ Len(tree.head.commits) < MaxCommits
    /\ Outside([tree EXCEPT !.head.commits = Append(@, ForeignCommit), !.dirty = FALSE])

OutsideEdits == \E dirty \in BOOLEAN : Outside([tree EXCEPT !.dirty = dirty])

OutsideBegins ==
    /\ tree.operation = NoOperation
    /\ \E kind \in PendingKinds \ {"rebase"} :
          Outside([tree EXCEPT !.unmerged = (kind # "bisect"),
                     !.operation = [NoOperation EXCEPT !.kind = kind, !.from = tree.head,
                        !.stop = IF kind = "bisect" THEN "none" ELSE "conflict"]])

OutsideFinishes ==
    \E outcome \in Continue(tree, tree.operation.kind) \cup Abort(tree, tree.operation.kind) :
        outcome.exit = "ok" /\ tree.operation # NoOperation /\ Outside(outcome.tree)

OutsideMovesUpstream ==
    /\ acts + upstream < MaxActs /\ upstream' = upstream + 1
    /\ UNCHANGED <<tree, preview, call, answer, acts>>

-------------------------------------------------------------------------------

ProviderNext ==
    \/ Preview
    \/ BeginMerge \/ BeginRebase \/ BeginCherryPick \/ BeginRevert
    \/ BeginContinue \/ BeginSkip \/ BeginAbort \/ BeginTakeSide \/ BeginMarkResolved
    \/ BeginPlan \/ BeginReset \/ BeginAmend
    \/ RequireNonePending \/ CheckOnto \/ CheckHead \/ RequireClean \/ FindPending
    \/ ReadFails
    \/ RunGit \/ InspectFailure
    \/ RunPlan \/ Look \/ AmendPaused \/ Resume \/ ResumeUnread \/ ContinuePaused
    \/ Checkout \/ AddResolved
    \/ OutsideCommits \/ OutsideEdits \/ OutsideBegins \/ OutsideFinishes \/ OutsideMovesUpstream

ProviderSpec == ProviderInit /\ [][ProviderNext]_providerVars

-------------------------------------------------------------------------------
(* Properties *)

Commits == [changes : SUBSET (0 .. Size), reworded : BOOLEAN]

\* Types, and an answer ends its call (every path out of the handlers).
ProviderTypeOK ==
    /\ tree.head.onto \in 0 .. MaxActs /\ tree.head.commits \in Seq(Commits)
    /\ tree.operation.kind \in {"none"} \cup PendingKinds
    /\ tree.operation.stop \in {"none", "conflict", "empty", "edit", "list"}
    /\ tree.unmerged \in BOOLEAN /\ tree.dirty \in BOOLEAN
    /\ upstream \in 0 .. MaxActs
    /\ answer \in {"none", "refused", "failed", "empty", "conflict", "completed", "internal",
                    "diverged"}
    /\ answer # "none" => call = NoCall
    /\ call = NoCall <=> call.steps = <<>>
    /\ call.looks \in 0 .. MaxIterations(call.plan)
    /\ call.rewords \subseteq DOMAIN call.plan
    /\ {call.since, call.cleared, call.matched} \subseteq 0 .. acts /\ acts \in 0 .. MaxActs

\* A step before which, since its call began, no program outside has acted, and
\* which is not an act of one.
Undisturbed == acts' = call.since

\* An amend, a reset or a rebase plan rewrites the HEAD it was confirmed for,
\* whatever others do between the preview and the moment in the call at which HEAD is
\* compared (amend_commit, reset, execute_rebase_plan: "revalidated immediately before").
\* What they do after that moment nothing protects from: git has no such option.
ActsOnConfirmedHead ==
    [][At("run") /\ call.name \in {"amend", "reset", "plan"} /\ tree' # tree /\ acts' = call.matched
       => tree.head = call.seen.head]_providerVars

\* reset never runs in the middle of an operation, whose state it would corrupt: "Refuses
\* up front when another operation is already pending" (reset), so none but one that others
\* begin after that check.  In a linked worktree the check does not find the operation.
ResetsNothingPending ==
    [][At("run") /\ call.name = "reset" /\ tree' # tree /\ acts' = call.cleared
       => tree.operation = NoOperation]_providerVars

\* The turns max_iterations allows are enough: the loop of execute_rebase_plan
\* is never given up, even when other programs act on the rebase.
LoopConverges == answer # "diverged"

\* A message of a plan ends up on the commit it was written for: while git has
\* ended well the pauses come in the order of the queue ("the next queued message
\* is exactly the one this pause is for").
MessagesLandOnTheirCommits ==
    [][At("amend") /\ call'.steps = <<"resume">> /\ ~call.failed /\ Undisturbed
       => call.plan[NextReword(call.rewords)].commit.changes = Last(tree'.head.commits).changes]_providerVars

\* What a plan asks for, action by action.
Planned(commits, entry) ==
    CASE entry.action = "drop" -> commits
      [] entry.action = "squash" ->
            [commits EXCEPT ![Len(commits)].changes = @ \cup entry.commit.changes]
      [] entry.action = "reword" ->
            Append(commits, [entry.commit EXCEPT !.reworded = TRUE])
      [] OTHER -> Append(commits, entry.commit)
Built(plan) ==
    LET built[k \in 0 .. Len(plan)] ==
            IF k = 0 THEN <<>> ELSE Planned(built[k - 1], plan[k])
    IN built
Rebased(plan, onto) == [onto |-> onto, commits |-> Built(plan)[Len(plan)]]

\* When execute_rebase_plan says Completed while git has ended well, the branch is
\* what the plan asks for: its commits, in order, combined and reworded.
CompletedAppliesPlan ==
    [][At("look") /\ answer' = "completed" /\ ~call.failed /\ Undisturbed
       => tree.head = Rebased(call.plan, call.seen.onto)]_providerVars

\* The same whatever git said, as the comment on the loop has it: what is found
\* in the repository tells "the whole plan finished" from the other cases.
CompletedIsFinished ==
    [][At("look") /\ answer' = "completed" /\ Undisturbed
       => tree.head = Rebased(call.plan, call.seen.onto)]_providerVars
===============================================================================
