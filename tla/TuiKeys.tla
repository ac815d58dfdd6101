------------------------------- MODULE TuiKeys -------------------------------
(***************************************************************************)
(* What a key means in gitsail-tui: the shortcuts a person may remap       *)
(* (keybindings.rs), the input context and its key map (keymap.rs,         *)
(* App::input_context), and what the handlers then open, close, move and   *)
(* edit (App::update, dismiss, handle_activate, move_cursor), the plan of  *)
(* an interactive rebase included.                                         *)
(*                                                                         *)
(* Which overlay has the keys, which one Esc closes, which one Enter       *)
(* confirms and whose cursor an arrow moves is decided in four lists kept  *)
(* by hand.  Here every overlay is a flag of its own, as in the code, so   *)
(* that the lists may disagree.  TuiOperations has what operations do, and *)
(* takes one overlay at a time for granted: OneOverlay says it may.  Left   *)
(* out are the keys that change nothing kept here (refresh, blame, the     *)
(* reference view, forge links, typed text), the last outcome that Esc     *)
(* clears at the very end, and the cursors of the panels, the conflicts    *)
(* and the reset modes.                                                    *)
(***************************************************************************)
EXTENDS TuiScreen, SequencesExt

CONSTANTS
    Configs,    \* the keybinding files: sequences of [id, key]
    Rebased,    \* the commits of a rebase plan, in order
    Absent,     \* no plan, no message, no commit
    MaxAwaited  \* bound: reads awaited at once

ASSUME AwaitedAssumption == MaxAwaited \in Nat

\* RebasePlan::entries is a vector.
ASSUME PlanAssumption == Rebased \in Seq({Rebased[i] : i \in DOMAIN Rebased})

VARIABLES
    bindings,    \* the shortcuts of the normal context, by character
    discovered,  \* App::session is there
    focus,       \* App::focus
    overlays,    \* the overlays and prompts whose flag is set
    reports,     \* what Esc clears when nothing is open: but for the last outcome
    operation,   \* App::operation, and what it was begun by
    inFlight,    \* commands of operations whose result has not come
    planCursor,  \* rebase_plan_cursor, from 1
    draft,       \* App::rebase_plan
    rewording,   \* history: the commit the reword prompt was opened for, of this plan
    previewed,   \* App::amend_preview is there
    awaited,     \* reads whose result has not come
    quitting     \* App::should_quit

keyVars == <<bindings, discovered, focus, overlays, reports, operation, inFlight,
             planCursor, draft, rewording, previewed, awaited, quitting>>

FocusOrder == <<"sidebar", "graph", "details", "diff", "references">>

\* The order of App::input_context; the prompt for a message counts over an open plan.
ContextOrder ==
    <<"help", "commitDetails", "referenceDetails", "reflogDetails", "conflicts", "reword", "plan",
      "resetMode", "commit", "amend", "rename", "branch", "commitSearch", "search">>

\* The order of App::dismiss.
DismissOrder ==
    <<"help", "commitDetails", "referenceDetails", "reflogDetails", "commit", "amend", "reword",
      "plan", "resetMode", "rename", "branch", "commitSearch", "search", "patch", "conflicts",
      "sync">>

Overlays == ToSet(ContextOrder)
OperationContexts == {"confirming", "inProgress", "failed"}

Context ==
    IF operation.at # "idle" THEN operation.at
    ELSE FirstOf(ContextOrder, IF "plan" \in overlays THEN overlays ELSE overlays \ {"reword"})

-----------------------------------------------------------------------------
(***************************************************************************)
(* Shortcuts.                                                              *)
(***************************************************************************)

\* CONFIGURABLE_ACTIONS.
Registry ==
    <<[id |-> "quit", action |-> "Quit", key |-> "q"],
      [id |-> "toggle-help", action |-> "ToggleHelp", key |-> "?"],
      [id |-> "refresh", action |-> "Refresh", key |-> "r"],
      [id |-> "toggle-stage", action |-> "ToggleStage", key |-> "s"],
      [id |-> "start-commit", action |-> "StartCommit", key |-> "C"],
      [id |-> "request-fetch", action |-> "RequestFetch", key |-> "f"],
      [id |-> "request-pull", action |-> "RequestPull", key |-> "p"],
      [id |-> "request-push", action |-> "RequestPush", key |-> "P"],
      [id |-> "toggle-blame-view", action |-> "ToggleBlameView", key |-> "b"],
      [id |-> "start-search", action |-> "StartSearch", key |-> "/"]>>

\* parse_config: lines of another action, or of no single character, are
\* ignored, and of two lines for one action the later counts.
IsAccepted(line) ==
    /\ line.id \in {a.id : a \in ToSet(Registry)}
    /\ line.key # "many"

ParseConfig(lines) ==
    LET accepted == SelectSeq(lines, IsAccepted)
    IN [id \in {l.id : l \in ToSet(accepted)} |->
           accepted[SelectLastInSeq(accepted, LAMBDA l : l.id = id)].key]

\* effective_bindings: of two actions with one key the later in the registry counts.
EffectiveBindings(overrides) ==
    LET KeyOf(a) == IF a.id \in DOMAIN overrides THEN overrides[a.id] ELSE a.key
    IN [k \in {KeyOf(a) : a \in ToSet(Registry)} |->
           Registry[SelectLastInSeq(Registry, LAMBDA a : KeyOf(a) = k)].action]

\* Some keys, and others.
Besides(keys, others) ==
    [key \in DOMAIN keys \cup DOMAIN others |->
        IF key \in DOMAIN keys THEN keys[key] ELSE others[key]]

Moves == [Up |-> "MoveUp", k |-> "MoveUp", Down |-> "MoveDown", j |-> "MoveDown"]
Leaves == [q |-> "Dismiss", Esc |-> "Dismiss"]
Prompts == [Esc |-> "Dismiss", Enter |-> "Activate"]
CtrlC == [key \in {"Ctrl+C"} |-> "Quit"]
QuestionMark(action) == [key \in {"?"} |-> action]

NormalKeys ==
    Besides(Moves, Besides(CtrlC, Besides(QuestionMark("ToggleHelp"),
        Besides([key \in {"/"} |-> "StartSearch"],
            [Esc |-> "Dismiss", Tab |-> "FocusNext", BackTab |-> "FocusPrev", Enter |-> "Activate",
             q |-> "Quit", r |-> "Refresh", b |-> "ToggleBlameView", n |-> "StartCreateBranch",
             c |-> "RequestCheckout", d |-> "RequestDeleteBranch", R |-> "StartRenameBranch",
             s |-> "ToggleStage", C |-> "StartCommit", y |-> "ExportPatch",
             Y |-> "RequestApplyPatch", f |-> "RequestFetch", p |-> "RequestPull",
             P |-> "RequestPush", t |-> "CycleReferenceView", m |-> "RequestMerge",
             M |-> "ToggleConflictsPanel", o |-> "RequestRebase", O |-> "RequestRebasePlan",
             x |-> "RequestCherryPick", v |-> "RequestRevert", z |-> "RequestReset",
             A |-> "StartAmend", w |-> "RequestOpenForgeLink"]))))

ConflictKeys ==
    [Enter |-> "InspectConflict", r |-> "MarkConflictResolved", o |-> "TakeConflictSide",
     t |-> "TakeConflictSide", c |-> "RequestResolution", a |-> "RequestResolution",
     s |-> "RequestResolution"]

PlanKeys ==
    [K |-> "RebasePlanMoveEntryUp", J |-> "RebasePlanMoveEntryDown",
     a |-> "RebasePlanCycleAction", Enter |-> "Activate"]

\* action_for.  In a prompt every other character is typed, which is left out.
KeyMap ==
    [normal |-> NormalKeys,
     confirming |-> Besides(CtrlC, Besides(Leaves, [Enter |-> "Activate"])),
     inProgress |-> CtrlC,
     failed |-> Besides(CtrlC, Besides(Leaves, [Enter |-> "Dismiss"])),
     help |-> Besides(Leaves, QuestionMark("Dismiss")),
     commitDetails |-> Leaves, referenceDetails |-> Leaves, reflogDetails |-> Leaves,
     conflicts |-> Besides(Leaves, Besides(Moves, ConflictKeys)),
     plan |-> Besides(Leaves, Besides(Moves, PlanKeys)),
     resetMode |-> Besides(Leaves, Besides(Moves, [Enter |-> "Activate"])),
     reword |-> Prompts, commit |-> Prompts, amend |-> Prompts, rename |-> Prompts,
     branch |-> Prompts,
     commitSearch |-> [Esc |-> "Dismiss", Enter |-> "CommitSearchSubmit"],
     search |-> [Esc |-> "Dismiss", Enter |-> "Dismiss"]]

\* The contexts that look at Ctrl; to the others Ctrl+C is a c.
Character(key) == IF key = "Ctrl+C" THEN "c" ELSE key

ActionFor(key, context) ==
    LET meant == IF key \in DOMAIN KeyMap[context] THEN key ELSE Character(key)
    IN IF meant \in DOMAIN KeyMap[context] THEN KeyMap[context][meant] ELSE "None"

\* Mutated form: a remapped key counts in every context.
ResolveAnywhere(key, context) ==
    IF Character(key) \in DOMAIN bindings THEN bindings[Character(key)] ELSE ActionFor(key, context)

\* resolve_action: a remapped key counts in the normal context alone, whatever
\* else is held down.
Resolve(key, context) ==
    IF context = "normal" /\ Character(key) \in DOMAIN bindings THEN bindings[Character(key)]
    ELSE ActionFor(key, context)

Keys == UNION {DOMAIN KeyMap[c] : c \in DOMAIN KeyMap} \cup DOMAIN bindings

-----------------------------------------------------------------------------
(***************************************************************************)
(* Actions of the normal context: the panel in focus decides, and whether  *)
(* it has an entry under its cursor.                                       *)
(***************************************************************************)
NoOperation == [at |-> "idle", by |-> Absent]
Confirming(by) == [at |-> "confirming", by |-> by]

KeyInit ==
    /\ \E lines \in Configs : bindings = EffectiveBindings(ParseConfig(lines))
    /\ discovered = FALSE
    /\ focus = "sidebar"
    /\ overlays = {}
    /\ reports = {}
    /\ operation = NoOperation
    /\ inFlight = {}
    /\ planCursor = 1
    /\ draft = Absent
    /\ rewording = Absent
    /\ previewed = FALSE
    /\ awaited = {}
    /\ quitting = FALSE

\* What an action that opens, closes or begins something leaves alone.
settings == <<bindings, discovered, focus, quitting>>
planEdits == <<draft, rewording>>
planState == <<planCursor, planEdits>>

Await(of) ==
    \E id \in 1..MaxAwaited :
        /\ \A r \in awaited : r.id # id
        /\ awaited' = awaited \cup {[of |-> of, id |-> id]}

MoveFocus(step) ==
    /\ \E i \in 1..5 : focus = FocusOrder[i] /\ focus' = FocusOrder[((i - 1 + step) % 5) + 1]
    /\ UNCHANGED <<bindings, discovered, overlays, reports, operation, inFlight, planState,
                   previewed, awaited, quitting>>

Quit ==
    /\ quitting' = TRUE
    /\ UNCHANGED <<bindings, discovered, focus, overlays, reports, operation, inFlight,
                   planState, previewed, awaited>>

\* A command is run by a thread of its own; bound: one of each kind at a time.
Launch(by) ==
    /\ by \notin inFlight
    /\ inFlight' = inFlight \cup {by}
    /\ operation' = [at |-> "inProgress", by |-> by]

Open(overlay) ==
    /\ overlays' = overlays \cup {overlay}
    /\ UNCHANGED <<settings, reports, operation, inFlight, planState, previewed, awaited>>

\* The prompts and searches that need nothing of the repository.
OpenPrompt(action) ==
    \/ action = "ToggleHelp" /\ Open("help")
    \/ action = "StartSearch" /\ Open(IF focus = "graph" THEN "commitSearch" ELSE "search")
    \/ action = "StartCommit" /\ Open("commit")
    \/ action = "StartCreateBranch" /\ focus = "sidebar" /\ Open("branch")

\* request_rename_branch, request_reset, toggle_conflicts_panel, request_start_amend,
\* request_rebase_plan, and the details an Enter opens.
OpenLoaded(action) ==
    /\ discovered
    /\ \/ action = "StartRenameBranch" /\ focus = "sidebar" /\ Open("rename")
       \/ action = "Activate" /\ focus = "graph" /\ Open("commitDetails")
       \/ action = "Activate" /\ focus = "references"
             /\ \E details \in {"referenceDetails", "reflogDetails"} : Open(details)
       \/ action = "RequestReset" /\ focus = "graph" /\ Open("resetMode")
       \/ action = "ToggleConflictsPanel" /\ Open("conflicts")
       \/ /\ action = "StartAmend"
          /\ overlays' = overlays \cup {"amend"}
          /\ previewed' = FALSE
          /\ Await("amend")
          /\ UNCHANGED <<settings, reports, operation, inFlight, planState>>
       \/ /\ action = "RequestRebasePlan" /\ focus = "sidebar"
          /\ overlays' = (overlays \cup {"plan"}) \ {"reword"}
          /\ draft' = Absent
          /\ rewording' = Absent
          /\ planCursor' = 1
          /\ Await("plan")
          /\ UNCHANGED <<settings, reports, operation, inFlight, previewed>>

\* request_checkout and its like: asked about.  request_pull, request_push: unless
\* no remote can be told.
Request(action) ==
    /\ \/ /\ discovered
          /\ \/ focus = "sidebar" /\ action \in {"RequestCheckout", "RequestDeleteBranch",
                                                 "RequestMerge", "RequestRebase"}
             \/ focus = "graph" /\ action \in {"RequestCherryPick", "RequestRevert"}
          /\ UNCHANGED reports
       \/ /\ discovered
          /\ action \in {"RequestPull", "RequestPush"}
          /\ reports' = reports \ {"sync"}
    /\ operation' = Confirming("request")
    /\ UNCHANGED <<settings, overlays, inFlight, planState, previewed, awaited>>

SyncFails(action) ==
    /\ action \in {"RequestFetch", "RequestPull", "RequestPush"}
    /\ reports' = reports \cup {"sync"}
    /\ UNCHANGED <<settings, overlays, operation, inFlight, planState, previewed, awaited>>

\* request_toggle_stage, request_fetch: run at once.
RunSafe(action) ==
    /\ discovered
    /\ \/ action = "ToggleStage" /\ focus = "details" /\ UNCHANGED reports
       \/ action = "RequestFetch" /\ reports' = reports \ {"sync"}
    /\ Launch("request")
    /\ UNCHANGED <<settings, overlays, planState, previewed, awaited>>

\* export_patch, load_selected_diff, request_apply_patch.
Report(action) ==
    /\ \/ action = "ExportPatch" /\ focus = "diff" /\ reports' = reports \cup {"patch"}
             /\ UNCHANGED awaited
       \/ action = "Activate" /\ focus = "details" /\ discovered /\ reports' = reports \ {"patch"}
             /\ UNCHANGED awaited
       \/ action = "RequestApplyPatch" /\ focus = "diff" /\ discovered /\ Await("patch")
             /\ UNCHANGED reports
    /\ UNCHANGED <<settings, overlays, operation, inFlight, planState, previewed>>

\* dismiss: of an operation, or of the first that is open or told; a running one stays.
Dismiss ==
    LET top == FirstOf(DismissOrder, overlays \cup reports)
    IN IF operation.at # "idle"
       THEN /\ operation.at \in {"confirming", "failed"}
            /\ operation' = NoOperation
            /\ UNCHANGED <<settings, overlays, reports, inFlight, planState, previewed,
                           awaited>>
       ELSE /\ overlays' = overlays \ {top}
            /\ reports' = reports \ {top}
            /\ planCursor' = IF top = "plan" THEN 1 ELSE planCursor
            /\ draft' = IF top = "plan" THEN Absent ELSE draft
            /\ rewording' = IF top \in {"plan", "reword"} THEN Absent ELSE rewording
            /\ previewed' = (previewed /\ top # "amend")
            /\ UNCHANGED <<settings, operation, inFlight, awaited>>

-----------------------------------------------------------------------------
(***************************************************************************)
(* Actions of an open overlay.                                             *)
(***************************************************************************)

\* move_cursor: of the conflicts, the plan or the modes, the first that is open.
\* Only the plan's cursor is kept here.
MoveCursor(step) ==
    /\ FirstOf(<<"conflicts", "plan", "resetMode">>, overlays) = "plan"
    /\ draft \notin {Absent, <<>>}
    /\ planCursor' = ((planCursor - 1 + step) % Len(draft)) + 1
    /\ UNCHANGED <<settings, overlays, reports, operation, inFlight, planEdits, previewed, awaited>>

Edit(entries) ==
    /\ draft' = entries
    /\ UNCHANGED <<settings, reports, operation, inFlight, previewed, awaited>>

\* rebase_plan_move_entry_up and _down: the cursor stays on the entry.
MoveEntry(step) ==
    LET i == planCursor
    IN /\ draft # Absent
       /\ i + step \in 1..Len(draft)
       /\ planCursor' = i + step
       /\ Edit([draft EXCEPT ![i] = draft[i + step], ![i + step] = draft[i]])
       /\ UNCHANGED <<overlays, rewording>>

NextAction ==
    [pick |-> "reword", reword |-> "squash", squash |-> "fixup", fixup |-> "drop", drop |-> "pick"]

\* rebase_plan_cycle_action: reword opens the prompt, every other one drops the message.
CycleAction ==
    LET i == planCursor
        action == NextAction[draft[i].action]
    IN /\ draft # Absent /\ i \in DOMAIN draft
       /\ IF action = "reword"
          THEN /\ Edit([draft EXCEPT ![i].action = action])
               /\ overlays' = overlays \cup {"reword"}
               /\ rewording' = draft[i].commit
          ELSE /\ Edit([draft EXCEPT ![i].action = action, ![i].message = Absent])
               /\ UNCHANGED <<overlays, rewording>>
       /\ UNCHANGED planCursor

\* confirm_rebase_plan_reword: any text is kept, an empty one too.
ConfirmReword ==
    /\ overlays' = overlays \ {"reword"}
    /\ rewording' = Absent
    /\ IF draft = Absent THEN Edit(draft)
       ELSE \E text \in {"blank", "text"} : Edit([draft EXCEPT ![planCursor].message = text])
    /\ UNCHANGED planCursor

\* RebasePlan::validate.
IsValid(entries) ==
    \A i \in DOMAIN entries :
        CASE entries[i].action \in {"squash", "fixup"} -> i # 1 /\ entries[i].message = Absent
          [] entries[i].action = "reword" -> entries[i].message = "text"
          [] entries[i].action \in {"pick", "drop"} -> entries[i].message = Absent

\* CommitSearchSubmit: the box closes.
SubmitSearch ==
    /\ overlays' = overlays \ {"commitSearch"}
    /\ UNCHANGED <<settings, reports, operation, inFlight, planState, previewed, awaited>>

\* request_continue_operation and its like, for what the operation supports.
RequestResolution ==
    /\ discovered
    /\ operation' = Confirming("request")
    /\ UNCHANGED <<settings, overlays, reports, inFlight, planState, previewed, awaited>>

\* dispatch_operation of what was confirmed: without a session it stays in
\* progress for ever, and a name that is none fails.
Dispatch(by) ==
    /\ overlays' = IF discovered /\ by = "plan" THEN overlays \ {"plan"} ELSE overlays
    /\ draft' = IF discovered /\ by = "plan" THEN Absent ELSE draft
    /\ UNCHANGED rewording
    /\ \/ /\ discovered /\ (by = "plan" => draft # Absent) /\ Launch(by)
       \/ /\ ~ discovered
          /\ operation' = [at |-> "inProgress", by |-> by]
          /\ UNCHANGED inFlight
       \/ /\ discovered /\ (by = "request" \/ (by = "plan" /\ draft = Absent))
          /\ operation' = [at |-> "failed", by |-> by]
          /\ UNCHANGED inFlight
    /\ UNCHANGED <<settings, reports, planCursor, previewed, awaited>>

BeginFrom(overlay, by, closes) ==
    /\ Context = overlay
    /\ operation' = Confirming(by)
    /\ overlays' = IF closes THEN overlays \ {overlay} ELSE overlays
    /\ UNCHANGED <<settings, reports, inFlight, planState, previewed, awaited>>

\* handle_activate: what Enter confirms is decided by the context.
Confirm ==
    \/ BeginFrom("rename", "request", TRUE)
    \/ BeginFrom("branch", "request", TRUE)
    \/ BeginFrom("commit", "commit", FALSE)
    \/ BeginFrom("resetMode", "request", TRUE)
    \/ previewed /\ BeginFrom("amend", "amend", FALSE)
    \/ draft # Absent /\ IsValid(draft) /\ BeginFrom("plan", "plan", FALSE)
    \/ Context = "reword" /\ ConfirmReword
    \/ Context = "confirming" /\ Dispatch(operation.by)

\* App::update.
Update(action) ==
    \/ action = "FocusNext" /\ MoveFocus(1)
    \/ action = "FocusPrev" /\ MoveFocus(-1)
    \/ action = "MoveUp" /\ MoveCursor(-1)
    \/ action = "MoveDown" /\ MoveCursor(1)
    \/ action = "Dismiss" /\ Dismiss
    \/ action = "Quit" /\ Quit
    \/ action = "Activate" /\ Confirm
    \/ action = "Activate" /\ Context = "normal" /\ (OpenLoaded(action) \/ Report(action))
    \/ action # "Activate"
          /\ (OpenPrompt(action) \/ OpenLoaded(action) \/ Request(action) \/ SyncFails(action)
                \/ RunSafe(action) \/ Report(action))
    \/ action = "RebasePlanMoveEntryUp" /\ MoveEntry(-1)
    \/ action = "RebasePlanMoveEntryDown" /\ MoveEntry(1)
    \/ action = "RebasePlanCycleAction" /\ CycleAction
    \/ action = "CommitSearchSubmit" /\ SubmitSearch
    \/ action = "RequestResolution" /\ RequestResolution

\* run_loop: a key is resolved in the context of the moment.
Press ==
    /\ ~ quitting
    /\ \E context \in {Context} :
          \E action \in {Resolve(key, context) : key \in Keys} : Update(action)

-----------------------------------------------------------------------------
(***************************************************************************)
(* Results, which come at any time.                                        *)
(***************************************************************************)

\* on_repository_opened: everything that shows a repository is closed.
RepositoryOpened ==
    /\ ~ discovered
    /\ discovered' = TRUE
    /\ overlays' = overlays \cap {"help", "commit", "rename", "branch", "search"}
    /\ reports' = reports \ {"sync"}
    /\ planCursor' = 1
    /\ draft' = Absent
    /\ rewording' = Absent
    /\ previewed' = FALSE
    /\ UNCHANGED <<bindings, focus, operation, inFlight, awaited, quitting>>

\* on_in_progress_operation_loaded, of nothing in progress.
NothingInProgress ==
    /\ discovered
    /\ overlays' = overlays \ {"conflicts"}
    /\ UNCHANGED <<settings, reports, operation, inFlight, planState, previewed, awaited>>

\* on_rebase_plan_loaded: under whatever plan is open by now, prompt included.
PlanLoaded(ok) ==
    IF ok /\ "plan" \in overlays
    THEN /\ draft' = [i \in DOMAIN Rebased |->
                         [commit |-> Rebased[i], action |-> "pick", message |-> Absent]]
         /\ rewording' = Absent
         /\ planCursor' = 1
         /\ UNCHANGED <<operation, previewed>>
    ELSE UNCHANGED <<operation, previewed, planState>>

\* on_amend_previewed, on_patch_previewed.
Previewed(of, ok) ==
    /\ previewed' = (previewed \/ (of = "amend" /\ ok /\ "amend" \in overlays))
    /\ operation' = IF of = "patch" /\ ok THEN Confirming("request") ELSE operation
    /\ UNCHANGED <<planState>>

Answer(r, ok) ==
    /\ awaited' = awaited \ {r}
    /\ IF r.of = "plan" THEN PlanLoaded(ok) ELSE Previewed(r.of, ok)
    /\ UNCHANGED <<settings, reports, overlays, inFlight>>

\* on_commit_created, on_amend_finished.
ClosesComposer(by) ==
    /\ overlays' = overlays \ ({by} \cap {"commit", "amend"})
    /\ previewed' = (previewed /\ by # "amend")

\* on_merge_finished and its like: success ends whatever operation there is, failure
\* the one in progress; commits and amends close their composer.
Finished(by, ok) ==
    /\ inFlight' = inFlight \ {by}
    /\ IF ok
       THEN /\ operation' = NoOperation
            /\ ClosesComposer(by)
       ELSE /\ operation' = IF operation.at = "inProgress" THEN [operation EXCEPT !.at = "failed"]
                          ELSE operation
            /\ UNCHANGED <<overlays, previewed>>
    /\ UNCHANGED <<settings, reports, planState, awaited>>

KeyNext ==
    \/ Press
    \/ RepositoryOpened
    \/ NothingInProgress
    \/ \E r \in awaited, ok \in BOOLEAN : Answer(r, ok)
    \/ \E by \in inFlight, ok \in BOOLEAN : Finished(by, ok)

KeySpec == KeyInit /\ [][KeyNext]_keyVars

-----------------------------------------------------------------------------
\* One overlay at a time has the screen, or a plan with its prompt.
OneOverlay == \A o, p \in overlays : o = p \/ {o, p} = {"plan", "reword"}

\* While an operation is asked about, runs or has failed, keys do nothing to what
\* is underneath, whatever shortcuts were remapped: Enter alone starts it, and the
\* plan it is about may not be edited.
OperationOwnsKeys ==
    Context \in OperationContexts =>
        /\ UNCHANGED <<focus, planCursor, rewording>>
        /\ overlays' \in {overlays, overlays \ {"plan"}}
        /\ draft' \in {draft, Absent}
        /\ \/ operation' \in {operation, NoOperation}
           \/ Context = "confirming" /\ Resolve("Enter", Context) = "Activate" /\ Dispatch(operation.by)

\* A key an overlay takes leaves every other overlay, plan and report as it is,
\* and never ends the program.
OverlayOwnsKeys ==
    Context \in Overlays =>
        /\ UNCHANGED <<focus, quitting>>
        /\ overlays \ {Context, "reword"} = overlays' \ {Context, "reword"}
        /\ <<draft, planCursor>>' # <<draft, planCursor>> => Context \in {"plan", "reword"}
        /\ reports' # reports => Context = "conflicts" /\ reports' = reports \ {"patch"}

\* What Esc closes is what has the keys.  (Over the conflicts the report of an
\* exported patch goes first.)
EscLeaves ==
    Context \in overlays \cap overlays' /\ (Context = "conflicts" => "patch" \notin reports)
    => Resolve("Esc", Context) = "Dismiss" /\ ~ Dismiss

\* A message goes to the commit its prompt was opened for, unless another plan
\* has come since.
MessageHasItsCommit ==
    Context = "reword" /\ rewording # Absent /\ draft' # draft =>
        \A i \in DOMAIN draft : draft'[i] # draft[i] => draft[i].commit = rewording

\* What is drawn on top is what has the keys, and what the status bar calls them is
\* theirs: of an operation it may be the footer of the composer it began in, or lie
\* below what was open when the preview of a patch came; the help and the reset modes
\* have no hint, and conflicted files push that of a search or prompt aside.
ScreenTellsContext ==
    LET of == Context
        top == TopOverlay(overlays, reports, operation.at)
        hint == Hint(overlays, reports, operation.at)
    IN CASE of \in OperationContexts ->
              /\ hint = of
              /\ \/ top \in {"operation", operation.by}
                 \/ operation.by = "request" /\ top \in Prompted(overlays)
         [] of \in Overlays ->
              /\ of \notin {"help", "resetMode"} => {hint} = Prompted({of})
              /\ of \notin {"search", "commitSearch"} => {top} = Prompted({of})
         [] of = "normal" -> hint = "normal" /\ top \in reports \cup {"normal"}

\* The four lists that say whose keys, cursor, Esc and Enter are agree on every
\* overlay, operation and remapping there can be (input_context, move_cursor,
\* dismiss, handle_activate; resolve_action), and so do the two of the screen
\* (render_overlays, contextual_hint).
KeysActOnTheirContext ==
    [][/\ OneOverlay'
       /\ UNCHANGED <<overlays, reports, operation>> \/ ScreenTellsContext'
       /\ \/ Context = "normal"
          \/ OperationOwnsKeys /\ OverlayOwnsKeys /\ EscLeaves /\ MessageHasItsCommit
          \/ ~ Press]_keyVars

=============================================================================
