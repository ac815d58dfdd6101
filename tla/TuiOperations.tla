---------------------------- MODULE TuiOperations ----------------------------
(***************************************************************************)
(* The mutations of gitsail-tui: OperationState (operation.rs), the        *)
(* composers and prompts that lead to one, their dispatch to background    *)
(* threads (worker.rs) and the handlers of the results (app.rs).           *)
(*                                                                         *)
(* The event loop handles one message at a time, so a key press and a      *)
(* result are one action each.  Every command runs in a thread of its own, *)
(* which sends one message when it is done: results come in any order, and *)
(* keys are pressed in between.  A key means what the input context makes  *)
(* of it (keymap.rs); the contexts and handlers that only move a cursor or *)
(* edit a text that is never sent are left out.                            *)
(***************************************************************************)
EXTENDS Naturals, FiniteSets

CONSTANTS
    Names,        \* the kinds of operation in play, of AllNames
    Branches,     \* local branches
    Nothing,      \* no plan, no preview, no report...
    EagerKeys,    \* keys are also pressed before the repository is open
    MaxMutations, \* bound: mutations ever started
    MaxOpenings   \* bound: composers opened and patches previewed

AllNames ==
    {"stage", "merge", "switch", "push", "create", "commit", "amend", "plan", "patch",
     "resolve", "conflict"}

ASSUME NamesAssumption == Names \subseteq AllNames
ASSUME EagerKeysAssumption == EagerKeys \in BOOLEAN
ASSUME BoundsAssumption == MaxMutations \in Nat /\ MaxOpenings \in Nat

VARIABLES
    session,     \* App::session: "opening", "open", or "failed" when discovery failed
    openedOn,    \* session.repository().current_branch, as it was when opened
    checkedOut,  \* the branch HEAD is on
    operation,   \* App::operation
    outcome,     \* App::last_operation_outcome
    overlay,     \* the open composer, prompt or panel
    amend,       \* App::amend_preview and amend_message
    plan,        \* App::rebase_plan
    patch,       \* App::pending_patch_text
    pending,     \* App::in_progress_operation: none, or one with or without conflicts
    mutations,   \* mutating commands: running, or done and not yet reported
    reads,       \* previews and plans being read
    started,     \* mutations ever started
    openings     \* composers ever opened, patches ever previewed

vars == <<session, openedOn, checkedOut, operation, outcome, overlay, amend, plan, patch,
          pending, mutations, reads, started, openings>>

composers == <<amend, plan, patch>>
repository == <<session, openedOn, checkedOut, pending>>

Idle == [at |-> "idle"]
Confirming(kind) == [at |-> "confirming", kind |-> kind]
InProgress(kind) == [at |-> "inProgress", kind |-> kind]
Failed(kind) == [at |-> "failed", kind |-> kind]

(***************************************************************************)
(* Operation kinds, with the parameters they capture when they are begun.  *)
(* "merge" stands for every kind whose parameters are all captured and     *)
(* which needs no other input (also rebase, cherry-pick, revert, reset,    *)
(* delete), "push" for pull as well, "create" for rename, "stage" for      *)
(* unstage and fetch, "resolve" for continue, skip and abort.              *)
(***************************************************************************)
Kinds ==
    {[name |-> n] : n \in {"stage", "merge", "commit", "patch", "resolve", "conflict"}}
        \cup [name : {"switch", "push"}, branch : Branches]
        \cup [name : {"create"}, valid : BOOLEAN]
        \cup [name : {"amend"}, opening : 1..MaxOpenings]
        \cup [name : {"plan"}, onto : Branches]

Allowed(kind) == kind.name \in Names

NoAmend == [preview |-> Nothing, message |-> Nothing]

PendingStates == {"none", "clean", "conflicts"}

\* What a preview or a plan was read for: remembered (history) by the number
\* of the composer's opening.
Previews == {Nothing} \cup 1..MaxOpenings
Messages == {Nothing, "head", "typed"}
LoadedPlans == [onto : Branches, opening : 1..MaxOpenings]
Plans == {Nothing} \cup LoadedPlans

ASSUME NothingAssumption ==
    Nothing \notin Kinds \cup 1..MaxOpenings \cup LoadedPlans \cup {"head", "typed"}

Mutations == [id : 1..MaxMutations, kind : Kinds, plan : Plans, at : {"running", "ok", "failed"}]
Reads ==
    [of : {"amend", "patch"}, opening : 1..MaxOpenings]
        \cup [of : {"plan"}, opening : 1..MaxOpenings, onto : Branches]

Init ==
    /\ session = IF EagerKeys THEN "opening" ELSE "open"
    /\ openedOn \in Branches
    /\ checkedOut = openedOn
    /\ operation = Idle
    /\ outcome = Nothing
    /\ overlay = "none"
    /\ amend = NoAmend
    /\ plan = Nothing
    /\ patch = Nothing
    /\ pending = "none"
    /\ mutations = {}
    /\ reads = {}
    /\ started = 0
    /\ openings = 0

-----------------------------------------------------------------------------
(***************************************************************************)
(* Dispatch.                                                               *)
(***************************************************************************)

\* input_context: the operation's overlay is modal, then the open one counts.
Context == IF operation # Idle THEN operation.at ELSE overlay

\* A command starts in a thread of its own.
Launch(kind, withPlan) ==
    /\ started < MaxMutations
    /\ started' = started + 1
    /\ mutations' = mutations \cup
          {[id |-> started + 1, kind |-> kind, plan |-> withPlan, at |-> "running"]}

LaunchNothing == UNCHANGED <<started, mutations>>

\* dispatch_operation, of an operation that has just become InProgress.
\* Without a session, the cancel it does is a no-op in that state.
Dispatch(kind) ==
    /\ outcome' = Nothing
    /\ CASE session # "open" ->
              /\ operation' = InProgress(kind)
              /\ LaunchNothing
              /\ UNCHANGED <<overlay, plan, patch>>
         [] session = "open" /\ kind.name = "create" ->
              /\ IF kind.valid
                 THEN operation' = InProgress(kind) /\ Launch(kind, Nothing)
                 ELSE operation' = Failed(kind) /\ LaunchNothing
              /\ UNCHANGED <<overlay, plan, patch>>
         [] session = "open" /\ kind.name = "plan" ->
              /\ IF plan # Nothing
                 THEN operation' = InProgress(kind) /\ Launch(kind, plan)
                 ELSE operation' = Failed(kind) /\ LaunchNothing
              /\ overlay' = "none"
              /\ plan' = Nothing
              /\ UNCHANGED patch
         [] OTHER ->
              /\ operation' = InProgress(kind)
              /\ Launch(kind, Nothing)
              /\ patch' = IF kind.name = "patch" THEN Nothing ELSE patch
              /\ UNCHANGED <<overlay, plan>>

-----------------------------------------------------------------------------
(***************************************************************************)
(* Keys.                                                                   *)
(***************************************************************************)
KeysReach(context) == (EagerKeys \/ session = "open") /\ Context = context

Begin(kind) ==
    /\ Allowed(kind)
    /\ operation' = Confirming(kind)

\* Mutated form: keys reach the panel behind the overlay of a running operation.
RequestBehindOverlay(kind) ==
    /\ session = "open" /\ overlay = "none" /\ operation.at \in {"idle", "inProgress"}
    /\ \/ kind.name \in {"merge", "switch"}
       \/ kind.name = "push" /\ kind.branch = openedOn
    /\ Begin(kind)
    /\ UNCHANGED <<repository, composers, outcome, overlay, mutations, reads, started, openings>>

\* request_merge, request_checkout, request_push and their like: from a loaded
\* panel, so with a session.  Pushing means the session's current branch.
Request(kind) ==
    /\ KeysReach("none")
    /\ session = "open"
    /\ \/ kind.name \in {"merge", "switch"}
       \/ kind.name = "push" /\ kind.branch = openedOn
    /\ Begin(kind)
    /\ UNCHANGED <<repository, composers, outcome, overlay, mutations, reads, started, openings>>

\* request_toggle_stage, request_fetch: confirmed and dispatched at once.
RequestSafe ==
    /\ KeysReach("none")
    /\ session = "open"
    /\ "stage" \in Names
    /\ Dispatch([name |-> "stage"])
    /\ UNCHANGED <<repository, amend, reads, openings>>

\* Action::StartCommit, Action::StartCreateBranch, which need no session.
StartPrompt(name) ==
    /\ KeysReach("none")
    /\ name \in Names \cap {"commit", "create"}
    /\ overlay' = name
    /\ UNCHANGED <<repository, composers, operation, outcome, mutations, reads, started, openings>>

\* request_start_amend: opens the composer and has HEAD read.
StartAmend ==
    /\ KeysReach("none")
    /\ session = "open"
    /\ "amend" \in Names
    /\ openings < MaxOpenings
    /\ openings' = openings + 1
    /\ overlay' = "amend"
    /\ amend' = NoAmend
    /\ reads' = reads \cup {[of |-> "amend", opening |-> openings + 1]}
    /\ UNCHANGED <<repository, plan, patch, operation, outcome, mutations, started>>

\* AmendMessageInput, AmendMessageBackspace.
TypeAmendMessage ==
    /\ KeysReach("amend")
    /\ amend.message # Nothing
    /\ amend' = [amend EXCEPT !.message = "typed"]
    /\ UNCHANGED <<repository, plan, patch, operation, outcome, overlay, mutations, reads,
                   started, openings>>

\* request_rebase_plan: opens the overlay and has the plan read.
StartPlan(onto) ==
    /\ KeysReach("none")
    /\ session = "open"
    /\ "plan" \in Names
    /\ openings < MaxOpenings
    /\ openings' = openings + 1
    /\ overlay' = "plan"
    /\ plan' = Nothing
    /\ reads' = reads \cup {[of |-> "plan", opening |-> openings + 1, onto |-> onto]}
    /\ UNCHANGED <<repository, amend, patch, operation, outcome, mutations, started>>

\* request_apply_patch, with text on the clipboard: has it checked.
RequestApplyPatch ==
    /\ KeysReach("none")
    /\ session = "open"
    /\ "patch" \in Names
    /\ openings < MaxOpenings
    /\ openings' = openings + 1
    /\ reads' = reads \cup {[of |-> "patch", opening |-> openings + 1]}
    /\ UNCHANGED <<repository, composers, operation, outcome, overlay, mutations, started>>

\* toggle_conflicts_panel; the panel's own keys dismiss it.
OpenConflicts ==
    /\ KeysReach("none")
    /\ pending = "conflicts"
    /\ overlay' = "conflicts"
    /\ UNCHANGED <<repository, composers, operation, outcome, mutations, reads, started, openings>>

\* request_continue_operation and its like: every operation of git offers one
\* of them at least, also when no conflict is left.
RequestResolution ==
    /\ KeysReach("conflicts")
    /\ pending # "none"
    /\ Begin([name |-> "resolve"])
    /\ UNCHANGED <<repository, composers, outcome, overlay, mutations, reads, started, openings>>

\* request_mark_conflict_resolved, request_take_conflict_side: dispatched
\* without an operation.
ResolveConflict ==
    /\ KeysReach("conflicts")
    /\ pending = "conflicts"
    /\ "conflict" \in Names
    /\ Launch([name |-> "conflict"], Nothing)
    /\ UNCHANGED <<repository, composers, operation, outcome, overlay, reads, openings>>

\* handle_activate in a composer or prompt: its operation begins.  The prompt
\* of a branch name closes, the others stay open behind the confirmation.
ActivateComposer ==
    /\ \/ /\ KeysReach("commit")
          /\ Begin([name |-> "commit"])
          /\ UNCHANGED overlay
       \/ /\ KeysReach("create")
          /\ \E valid \in BOOLEAN : Begin([name |-> "create", valid |-> valid])
          /\ overlay' = "none"
       \/ /\ KeysReach("amend")
          /\ amend.preview # Nothing
          /\ Begin([name |-> "amend", opening |-> amend.preview])
          /\ UNCHANGED overlay
       \/ /\ KeysReach("plan")
          /\ plan # Nothing
          /\ Begin([name |-> "plan", onto |-> plan.onto])
          /\ UNCHANGED overlay
    /\ UNCHANGED <<repository, composers, outcome, mutations, reads, started, openings>>

\* handle_activate of a pending confirmation: it becomes InProgress and is
\* dispatched.
Confirm ==
    /\ KeysReach("confirming")
    /\ Dispatch(operation.kind)
    /\ UNCHANGED <<repository, amend, reads, openings>>

\* dismiss of an operation: cancels what is pending, closes what has failed.
DismissOperation ==
    /\ KeysReach("confirming") \/ KeysReach("failed")
    /\ operation' = Idle
    /\ UNCHANGED <<repository, composers, outcome, overlay, mutations, reads, started, openings>>

\* Mutated form: Esc closes the composer under a pending confirmation.
DismissUnderneath ==
    /\ EagerKeys \/ session = "open"
    /\ operation.at \in {"idle", "confirming"}
    /\ overlay # "none"
    /\ overlay' = "none"
    /\ amend' = IF overlay = "amend" THEN NoAmend ELSE amend
    /\ plan' = IF overlay = "plan" THEN Nothing ELSE plan
    /\ UNCHANGED <<repository, patch, operation, outcome, mutations, reads, started, openings>>

\* dismiss of a composer, prompt or panel: what it held is discarded.
DismissOverlay ==
    /\ KeysReach(overlay)
    /\ overlay # "none"
    /\ overlay' = "none"
    /\ amend' = IF overlay = "amend" THEN NoAmend ELSE amend
    /\ plan' = IF overlay = "plan" THEN Nothing ELSE plan
    /\ UNCHANGED <<repository, patch, operation, outcome, mutations, reads, started, openings>>

\* dismiss with nothing open: the last report is cleared.
DismissReport ==
    /\ KeysReach("none")
    /\ outcome' = Nothing
    /\ UNCHANGED <<repository, composers, operation, overlay, mutations, reads, started, openings>>

-----------------------------------------------------------------------------
(***************************************************************************)
(* Threads.                                                                *)
(***************************************************************************)

\* A mutation runs and ends, one way or the other.
Run(m) ==
    /\ m.at = "running"
    /\ \E at \in {"ok", "failed"} :
          /\ mutations' = (mutations \ {m}) \cup {[m EXCEPT !.at = at]}
          /\ checkedOut' = IF at = "ok" /\ m.kind.name = "switch" THEN m.kind.branch
                           ELSE checkedOut
    /\ UNCHANGED <<session, openedOn, pending, composers, operation, outcome, overlay, reads,
                   started, openings>>

-----------------------------------------------------------------------------
(***************************************************************************)
(* Results.                                                                *)
(***************************************************************************)

\* on_repository_opened: everything of a previous repository is reset; the
\* commit composer, the branch name prompt and the operation are not.
RepositoryOpened ==
    /\ session = "opening"
    /\ session' \in {"open", "failed"}
    /\ IF session' = "open"
       THEN /\ overlay' = IF overlay \in {"commit", "create"} THEN overlay ELSE "none"
            /\ amend' = NoAmend
            /\ plan' = Nothing
            /\ patch' = Nothing
            /\ pending' = "none"
       ELSE UNCHANGED <<overlay, composers, pending>>
    /\ UNCHANGED <<openedOn, checkedOut, operation, outcome, mutations, reads, started, openings>>

\* on_in_progress_operation_loaded: what the repository is in the middle of is
\* whatever any program made it.  The panel closes when nothing is pending, and
\* stays when the last conflict is gone.
InProgressOperationLoaded(loaded) ==
    /\ session = "open"
    /\ {"resolve", "conflict"} \cap Names # {}
    /\ pending' = loaded
    /\ overlay' = IF loaded = "none" /\ overlay = "conflicts" THEN "none" ELSE overlay
    /\ UNCHANGED <<session, openedOn, checkedOut, composers, operation, outcome, mutations, reads,
                   started, openings>>

\* on_amend_previewed: the message is replaced by HEAD's.
AmendPreviewed(r, ok) ==
    /\ r.of = "amend"
    /\ reads' = reads \ {r}
    /\ amend' = IF overlay = "amend" /\ ok
                THEN [preview |-> r.opening, message |-> "head"]
                ELSE amend
    /\ UNCHANGED <<repository, plan, patch, operation, outcome, overlay, mutations, started,
                   openings>>

\* Mutated form: a plan is taken although its overlay was closed.
RebasePlanLoadedAnyway(r, ok) ==
    /\ r.of = "plan"
    /\ reads' = reads \ {r}
    /\ plan' = IF ok THEN [onto |-> r.onto, opening |-> r.opening] ELSE plan
    /\ UNCHANGED <<repository, amend, patch, operation, outcome, overlay, mutations, started,
                   openings>>

\* on_rebase_plan_loaded.
RebasePlanLoaded(r, ok) ==
    /\ r.of = "plan"
    /\ reads' = reads \ {r}
    /\ plan' = IF overlay = "plan" /\ ok THEN [onto |-> r.onto, opening |-> r.opening] ELSE plan
    /\ UNCHANGED <<repository, amend, patch, operation, outcome, overlay, mutations, started,
                   openings>>

\* on_patch_previewed: a patch that can be applied begins an operation,
\* whatever the state of the one there is.
PatchPreviewed(r, supported) ==
    /\ r.of = "patch"
    /\ reads' = reads \ {r}
    /\ IF supported
       THEN operation' = Confirming([name |-> "patch"]) /\ patch' = r.opening
       ELSE UNCHANGED <<operation, patch>>
    /\ UNCHANGED <<repository, amend, plan, outcome, overlay, mutations, started, openings>>

\* succeed_operation, of whatever operation is in progress.
SucceedOperation(kind) ==
    /\ operation' = Idle
    /\ outcome' = IF operation.at = "inProgress" THEN operation.kind ELSE outcome

\* Mutated form: a failure leaves the operation running.
FailOperationSilently == UNCHANGED operation

\* OperationState::fail.
FailOperation ==
    operation' = IF operation.at = "inProgress" THEN Failed(operation.kind) ELSE operation

\* The handlers of a mutation's result: on_operation_finished, on_merge_finished,
\* on_commit_created, on_amend_finished, on_patch_applied...  Those of commits and
\* amends also close their composer.  A conflict resolution is no operation.
Finished(m) ==
    /\ m.at # "running"
    /\ mutations' = mutations \ {m}
    /\ CASE m.kind.name = "conflict" -> UNCHANGED <<operation, outcome>>
         [] m.kind.name # "conflict" /\ m.at = "ok" -> SucceedOperation(m.kind)
         [] OTHER -> FailOperation /\ UNCHANGED outcome
    /\ overlay' = IF m.at = "ok" /\ m.kind.name = overlay /\ overlay \in {"commit", "amend"}
                  THEN "none" ELSE overlay
    /\ amend' = IF m.at = "ok" /\ m.kind.name = "amend" THEN NoAmend ELSE amend
    /\ UNCHANGED <<repository, plan, patch, reads, started, openings>>

Next ==
    \/ \E kind \in Kinds : Request(kind)
    \/ RequestSafe
    \/ \E name \in {"commit", "create"} : StartPrompt(name)
    \/ StartAmend \/ TypeAmendMessage
    \/ \E onto \in Branches : StartPlan(onto)
    \/ RequestApplyPatch
    \/ OpenConflicts \/ RequestResolution \/ ResolveConflict
    \/ ActivateComposer \/ Confirm
    \/ DismissOperation \/ DismissOverlay \/ DismissReport
    \/ \E m \in mutations : Run(m) \/ Finished(m)
    \/ RepositoryOpened
    \/ \E loaded \in PendingStates : InProgressOperationLoaded(loaded)
    \/ \E r \in reads, ok \in BOOLEAN :
          AmendPreviewed(r, ok) \/ RebasePlanLoaded(r, ok) \/ PatchPreviewed(r, ok)

Spec == Init /\ [][Next]_vars

\* A thread runs its command to the end and sends its message, and the event
\* loop receives every message sent to it.
Fairness ==
    \A id \in 1..MaxMutations : WF_vars(\E m \in mutations : m.id = id /\ (Run(m) \/ Finished(m)))

FairSpec == Spec /\ Fairness

-----------------------------------------------------------------------------
\* The shape of the state.
TypeOK ==
    /\ session \in {"opening", "open", "failed"}
    /\ {openedOn, checkedOut} \subseteq Branches
    /\ operation \in {Idle} \cup [at : {"confirming", "inProgress", "failed"}, kind : Kinds]
    /\ outcome \in {Nothing} \cup Kinds
    /\ overlay \in {"none", "create", "commit", "amend", "plan", "conflicts"}
    /\ amend \in [preview : Previews, message : Messages]
    /\ plan \in Plans
    /\ patch \in Previews
    /\ pending \in PendingStates
    /\ mutations \subseteq Mutations
    /\ reads \subseteq Reads
    /\ started \in 0..MaxMutations
    /\ openings \in 0..MaxOpenings

\* What a confirmation is about is there when it is confirmed, whatever
\* results arrive while it is pending: no "plan was lost", no empty patch, no
\* commit with the default message.
ConfirmingHasItsInput ==
    operation.at = "confirming" =>
        /\ operation.kind.name = "plan" => plan # Nothing
        /\ operation.kind.name = "patch" => patch # Nothing
        /\ operation.kind.name \in {"commit", "amend"} => overlay = operation.kind.name
        /\ operation.kind.name = "amend" => amend.message # Nothing

\* Results that arrive late never bring back what was dismissed: a plan or an
\* amend preview is only ever there under its open overlay.
NothingResurrected ==
    /\ overlay # "plan" => plan = Nothing
    /\ overlay # "amend" => amend = NoAmend

\* The mutations of operations, without those of the conflicts panel.
OperationMutations == {m \in mutations : m.kind.name # "conflict"}

(***************************************************************************)
(* The promise of the framework, kept by every operation but the           *)
(* application of a patch.                                                 *)
(***************************************************************************)
Promised == INSTANCE ConfirmedOperations WITH
    Safe <- {kind \in Kinds : kind.name = "stage"},
    asked <- IF operation.at = "confirming" THEN operation.kind ELSE Nothing,
    running <- {m.kind : m \in OperationMutations},
    reported <- outcome

KeepsPromise == Promised!Spec

\* An operation that is in progress does end on the screen: its overlay takes
\* no key but Ctrl+C until then.
Concludes == operation.at = "inProgress" ~> operation.at # "inProgress"

=============================================================================
