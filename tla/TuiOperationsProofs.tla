------------------------- MODULE TuiOperationsProofs -------------------------
(***************************************************************************)
(* Proofs about TuiOperations, for any branches, kinds of operation and    *)
(* bounds, and whether or not keys are pressed before the repository opens.*)
(***************************************************************************)
EXTENDS TuiOperations, TLAPS

USE BoundsAssumption, NamesAssumption, EagerKeysAssumption, NothingAssumption

(***************************************************************************)
(* What the definitions of the model are made of.                          *)
(***************************************************************************)
Operations == {Idle} \cup [at : {"confirming", "inProgress", "failed"}, kind : Kinds]

LEMMA KindsHold ==
  /\ \A n \in {"stage", "merge", "commit", "patch", "resolve", "conflict"} : [name |-> n] \in Kinds
  /\ \A valid \in BOOLEAN : [name |-> "create", valid |-> valid] \in Kinds
  /\ \A n \in 1..MaxOpenings : [name |-> "amend", opening |-> n] \in Kinds
  /\ \A b \in Branches : [name |-> "plan", onto |-> b] \in Kinds
  /\ \A kind \in Kinds : kind.name = "switch" => kind.branch \in Branches
BY DEF Kinds

LEMMA OperationsHold ==
  ASSUME NEW kind \in Kinds
  PROVE  /\ Confirming(kind) \in Operations /\ Confirming(kind).at = "confirming"
         /\ InProgress(kind) \in Operations /\ InProgress(kind).at = "inProgress"
         /\ Failed(kind) \in Operations /\ Failed(kind).at = "failed"
         /\ Confirming(kind).kind = kind /\ InProgress(kind).kind = kind /\ Failed(kind).kind = kind
BY DEF Operations, Confirming, InProgress, Failed

LEMMA OperationFields ==
  ASSUME TypeOK
  PROVE  /\ operation \in Operations
         /\ operation.at \in {"idle", "confirming", "inProgress", "failed"}
         /\ operation # Idle <=> operation.at # "idle"
         /\ operation.at # "idle" => operation.kind \in Kinds
BY DEF TypeOK, Operations, Idle

LEMMA LaunchType ==
  ASSUME TypeOK, NEW kind \in Kinds, NEW withPlan \in Plans, Launch(kind, withPlan)
  PROVE  mutations' \subseteq Mutations /\ started' \in 0..MaxMutations
<1>1. started + 1 \in 1..MaxMutations
  BY DEF TypeOK, Launch
<1> QED BY <1>1 DEF TypeOK, Launch, Mutations

LEMMA DispatchType ==
  ASSUME TypeOK, NEW kind \in Kinds, Dispatch(kind)
  PROVE  /\ operation' \in Operations
         /\ outcome' = Nothing
         /\ overlay' \in {overlay, "none"}
         /\ plan' \in Plans
         /\ patch' \in Previews
         /\ mutations' \subseteq Mutations /\ started' \in 0..MaxMutations
<1>1. Nothing \in Plans /\ plan \in Plans /\ patch \in Previews /\ Nothing \in Previews
  BY DEF TypeOK, Plans, Previews
<1>2. CASE session # "open"
  BY <1>1, <1>2, OperationsHold DEF Dispatch, LaunchNothing, TypeOK
<1>3. CASE session = "open" /\ kind.name = "create"
  BY <1>1, <1>3, OperationsHold, LaunchType DEF Dispatch, LaunchNothing, TypeOK
<1>4. CASE session = "open" /\ kind.name = "plan"
  BY <1>1, <1>4, OperationsHold, LaunchType DEF Dispatch, LaunchNothing, TypeOK
<1>5. CASE session = "open" /\ kind.name \notin {"create", "plan"}
  BY <1>1, <1>5, OperationsHold, LaunchType DEF Dispatch, LaunchNothing, TypeOK
<1> QED BY <1>2, <1>3, <1>4, <1>5

\* A key only dispatches an operation there is.
LEMMA DispatchedIsOfKinds ==
  ASSUME TypeOK, RequestSafe \/ Confirm
  PROVE  \E kind \in Kinds : Dispatch(kind)
<1>1. CASE RequestSafe
  BY <1>1, KindsHold DEF RequestSafe
<1>2. CASE Confirm
  <2>1. Dispatch(operation.kind) /\ Context = "confirming"
    BY <1>2 DEF Confirm, KeysReach
  <2>2. overlay # "confirming"
    BY DEF TypeOK
  <2> QED BY <2>1, <2>2, OperationFields DEF Context
<1> QED BY <1>1, <1>2

(***************************************************************************)
(* The type invariant.                                                     *)
(***************************************************************************)
LEMMA TypeInit == Init => TypeOK
<1> SUFFICES ASSUME Init PROVE TypeOK
  OBVIOUS
<1>1. pending \in PendingStates
  BY DEF Init, PendingStates
<1>2. /\ session \in {"opening", "open", "failed"}
      /\ {openedOn, checkedOut} \subseteq Branches
      /\ operation = Idle /\ outcome = Nothing /\ overlay = "none"
      /\ amend = NoAmend /\ plan = Nothing /\ patch = Nothing
      /\ mutations = {} /\ reads = {} /\ started = 0 /\ openings = 0
  BY DEF Init
<1> QED BY <1>1, <1>2 DEF TypeOK, NoAmend, Previews, Messages, Plans

LEMMA TypeStep == TypeOK /\ [Next]_vars => TypeOK'
<1> SUFFICES ASSUME TypeOK, [Next]_vars PROVE TypeOK'
  OBVIOUS
<1> USE DEF repository, composers, Begin
<1>1. ASSUME NEW kind \in Kinds, Request(kind) PROVE TypeOK'
  BY <1>1, OperationsHold DEF Request, TypeOK, Operations
<1>2. ASSUME RequestSafe \/ Confirm PROVE TypeOK'
  <2>1. PICK kind \in Kinds : Dispatch(kind)
    BY <1>2, DispatchedIsOfKinds
  <2> QED BY <1>2, <2>1, DispatchType DEF RequestSafe, Confirm, TypeOK, Operations
<1>3. ASSUME NEW name \in {"commit", "create"}, StartPrompt(name) PROVE TypeOK'
  BY <1>3 DEF StartPrompt, TypeOK
<1>4. ASSUME StartAmend PROVE TypeOK'
  <2>1. openings + 1 \in 1..MaxOpenings
    BY <1>4 DEF StartAmend, TypeOK
  <2> QED BY <1>4, <2>1 DEF StartAmend, TypeOK, NoAmend, Previews, Messages, Reads
<1>5. ASSUME TypeAmendMessage PROVE TypeOK'
  BY <1>5 DEF TypeAmendMessage, TypeOK, Messages
<1>6. ASSUME NEW onto \in Branches, StartPlan(onto) PROVE TypeOK'
  <2>1. openings + 1 \in 1..MaxOpenings
    BY <1>6 DEF StartPlan, TypeOK
  <2> QED BY <1>6, <2>1 DEF StartPlan, TypeOK, Plans, Reads
<1>7. ASSUME RequestApplyPatch PROVE TypeOK'
  <2>1. openings + 1 \in 1..MaxOpenings
    BY <1>7 DEF RequestApplyPatch, TypeOK
  <2> QED BY <1>7, <2>1 DEF RequestApplyPatch, TypeOK, Reads
<1>8. ASSUME OpenConflicts \/ RequestResolution PROVE TypeOK'
  BY <1>8, KindsHold, OperationsHold DEF OpenConflicts, RequestResolution, TypeOK, Operations
<1>9. ASSUME ResolveConflict PROVE TypeOK'
  BY <1>9, KindsHold, LaunchType DEF ResolveConflict, TypeOK, Plans
<1>10. ASSUME ActivateComposer PROVE TypeOK'
  <2>1. \E kind \in Kinds : operation' = Confirming(kind)
    <3>1. plan # Nothing => plan.onto \in Branches
      BY DEF TypeOK, Plans, LoadedPlans
    <3>2. amend.preview # Nothing => amend.preview \in 1..MaxOpenings
      BY DEF TypeOK, Previews
    <3> QED BY <1>10, <3>1, <3>2, KindsHold DEF ActivateComposer
  <2> QED BY <1>10, <2>1, OperationsHold DEF ActivateComposer, TypeOK, Operations
<1>11. ASSUME DismissOperation \/ DismissReport PROVE TypeOK'
  BY <1>11 DEF DismissOperation, DismissReport, TypeOK
<1>12. ASSUME DismissOverlay PROVE TypeOK'
  BY <1>12 DEF DismissOverlay, TypeOK, NoAmend, Previews, Messages, Plans
<1>13. ASSUME NEW m \in mutations, Run(m) PROVE TypeOK'
  <2>1. m \in Mutations
    BY DEF TypeOK
  <2>2. \A at \in {"ok", "failed"} : [m EXCEPT !.at = at] \in Mutations
    BY <2>1 DEF Mutations
  <2>3. m.kind \in Kinds
    BY <2>1 DEF Mutations
  <2>4. mutations' \subseteq Mutations /\ checkedOut' \in Branches
    BY <1>13, <2>2, <2>3, KindsHold DEF Run, TypeOK
  <2> QED BY <1>13, <2>4 DEF Run, TypeOK
<1>14. ASSUME NEW m \in mutations, Finished(m) PROVE TypeOK'
  <2>1. operation.at = "inProgress" => operation.kind \in Kinds
    BY OperationFields
  <2>2. operation' \in Operations /\ outcome' \in {Nothing} \cup Kinds
    BY <1>14, <2>1, OperationsHold, OperationFields
       DEF Finished, SucceedOperation, FailOperation, TypeOK, Operations
  <2>3. amend' \in [preview : Previews, message : Messages]
    BY <1>14 DEF Finished, TypeOK, NoAmend, Previews, Messages
  <2> QED BY <1>14, <2>2, <2>3 DEF Finished, TypeOK, Operations
<1>15. ASSUME RepositoryOpened PROVE TypeOK'
  <2>1. pending' \in PendingStates
    BY <1>15 DEF RepositoryOpened, TypeOK, PendingStates
  <2>2. amend' \in [preview : Previews, message : Messages] /\ plan' \in Plans /\ patch' \in Previews
    BY <1>15 DEF RepositoryOpened, TypeOK, NoAmend, Previews, Messages, Plans
  <2> QED BY <1>15, <2>1, <2>2 DEF RepositoryOpened, TypeOK
<1>16. ASSUME NEW loaded \in PendingStates, InProgressOperationLoaded(loaded) PROVE TypeOK'
  BY <1>16 DEF InProgressOperationLoaded, TypeOK
<1>17. ASSUME NEW r \in reads, NEW ok \in BOOLEAN,
              AmendPreviewed(r, ok) \/ RebasePlanLoaded(r, ok)
       PROVE  TypeOK'
  <2>1. r \in Reads /\ r.opening \in 1..MaxOpenings /\ (r.of = "plan" => r.onto \in Branches)
    BY DEF TypeOK, Reads
  <2> QED BY <1>17, <2>1
          DEF AmendPreviewed, RebasePlanLoaded, TypeOK, Previews, Messages, Plans, LoadedPlans
<1>18. ASSUME NEW r \in reads, NEW ok \in BOOLEAN, PatchPreviewed(r, ok) PROVE TypeOK'
  <2>1. r.opening \in Previews
    BY DEF TypeOK, Reads, Previews
  <2> QED BY <1>18, <2>1, KindsHold, OperationsHold DEF PatchPreviewed, TypeOK, Operations
<1>19. CASE UNCHANGED vars
  BY <1>19 DEF vars, TypeOK
<1> QED
  BY <1>1, <1>2, <1>3, <1>4, <1>5, <1>6, <1>7, <1>8, <1>9, <1>10, <1>11, <1>12, <1>13, <1>14,
     <1>15, <1>16, <1>17, <1>18, <1>19 DEF Next

\* The state of the event loop and of its threads is well-formed.
THEOREM TypeCorrect == Spec => []TypeOK
BY TypeInit, TypeStep, PTL DEF Spec

-----------------------------------------------------------------------------
(***************************************************************************)
(* The input of what is being confirmed.  Before a repository is open      *)
(* nothing is read and only a commit or a branch name can be confirmed,    *)
(* which the opening leaves alone.                                         *)
(***************************************************************************)
NothingReadBeforeOpening ==
    session # "open" =>
        /\ reads = {}
        /\ overlay \notin {"amend", "plan"}
        /\ operation.at = "confirming" => operation.kind.name \notin {"amend", "plan", "patch"}

\* The preview and the message of an amend come together.
AmendIsWhole == amend.preview # Nothing => amend.message # Nothing

InputInv ==
    ConfirmingHasItsInput /\ NothingResurrected /\ NothingReadBeforeOpening /\ AmendIsWhole

LEMMA InputStep == TypeOK /\ InputInv /\ [Next]_vars => InputInv'
<1> SUFFICES ASSUME TypeOK, InputInv, [Next]_vars PROVE InputInv'
  OBVIOUS
<1> USE DEF InputInv, ConfirmingHasItsInput, NothingResurrected, NothingReadBeforeOpening,
            AmendIsWhole, NoAmend, repository, composers, Begin, Confirming
<1>1. ASSUME NEW kind \in Kinds, Request(kind) PROVE InputInv'
  BY <1>1 DEF Request
<1>2. ASSUME RequestSafe PROVE InputInv'
  <2>1. /\ operation'.at # "confirming"
        /\ UNCHANGED <<repository, composers, overlay, reads>>
    BY <1>2 DEF RequestSafe, Dispatch, InProgress
  <2> QED BY <2>1
<1>3. ASSUME Confirm PROVE InputInv'
  <2>1. Dispatch(operation.kind) /\ operation.at = "confirming"
    BY <1>3 DEF Confirm, KeysReach, Context, TypeOK
  <2>2. operation'.at # "confirming"
    BY <2>1 DEF Dispatch, InProgress, Failed
  <2>3. \/ UNCHANGED <<overlay, plan>>
        \/ overlay = "plan" /\ overlay' = "none" /\ plan' = Nothing
    BY <2>1 DEF Dispatch
  <2>4. UNCHANGED <<repository, amend, reads>>
    BY <1>3 DEF Confirm
  <2> QED BY <2>2, <2>3, <2>4
<1>4. ASSUME NEW name \in {"commit", "create"}, StartPrompt(name) PROVE InputInv'
  BY <1>4 DEF StartPrompt, KeysReach, Context, Idle, TypeOK
<1>5. ASSUME StartAmend \/ \E onto \in Branches : StartPlan(onto) PROVE InputInv'
  BY <1>5 DEF StartAmend, StartPlan, KeysReach, Context, Idle, TypeOK
<1>6. ASSUME TypeAmendMessage PROVE InputInv'
  BY <1>6 DEF TypeAmendMessage, KeysReach, Context, Idle, TypeOK
<1>7. ASSUME RequestApplyPatch PROVE InputInv'
  BY <1>7 DEF RequestApplyPatch
<1>8. ASSUME OpenConflicts \/ RequestResolution \/ ResolveConflict PROVE InputInv'
  BY <1>8 DEF OpenConflicts, RequestResolution, ResolveConflict, KeysReach, Context, Idle, TypeOK
<1>9. ASSUME ActivateComposer PROVE InputInv'
  <2>1. operation = Idle /\ overlay \in {"commit", "create", "amend", "plan"}
    BY <1>9 DEF ActivateComposer, KeysReach, Context, Idle, TypeOK
  <2>2. UNCHANGED <<repository, composers, reads>>
    BY <1>9 DEF ActivateComposer
  <2>3. CASE overlay = "create"
    <3>1. operation'.at = "confirming" /\ operation'.kind.name = "create" /\ overlay' = "none"
      <4>1. \E valid \in BOOLEAN : operation' = Confirming([name |-> "create", valid |-> valid])
        BY <1>9, <2>1, <2>3 DEF ActivateComposer, KeysReach, Context
      <4>2. overlay' = "none"
        BY <1>9, <2>1, <2>3 DEF ActivateComposer, KeysReach, Context
      <4> QED BY <4>1, <4>2
    <3> QED BY <2>2, <2>3, <3>1
  <2>4. CASE overlay # "create"
    BY <1>9, <2>2, <2>4 DEF ActivateComposer, KeysReach, Context, Idle, TypeOK
  <2> QED BY <2>3, <2>4
<1>10. ASSUME DismissOperation \/ DismissReport PROVE InputInv'
  BY <1>10 DEF DismissOperation, DismissReport, Idle
<1>11. ASSUME DismissOverlay PROVE InputInv'
  BY <1>11 DEF DismissOverlay, KeysReach, Context, Idle, TypeOK
<1>12. ASSUME NEW m \in mutations, Run(m) PROVE InputInv'
  BY <1>12 DEF Run
<1>13. ASSUME NEW m \in mutations, Finished(m) PROVE InputInv'
  BY <1>13 DEF Finished, SucceedOperation, FailOperation, Failed, Idle
<1>14. ASSUME RepositoryOpened PROVE InputInv'
  BY <1>14 DEF RepositoryOpened
<1>15. ASSUME NEW loaded \in PendingStates, InProgressOperationLoaded(loaded) PROVE InputInv'
  BY <1>15 DEF InProgressOperationLoaded
<1>16. ASSUME NEW r \in reads, NEW ok \in BOOLEAN,
              AmendPreviewed(r, ok) \/ RebasePlanLoaded(r, ok) \/ PatchPreviewed(r, ok)
       PROVE  InputInv'
  <2>1. session = "open" /\ r.opening # Nothing
    BY DEF TypeOK, Reads
  <2>2. CASE AmendPreviewed(r, ok)
    BY <2>1, <2>2 DEF AmendPreviewed
  <2>3. CASE RebasePlanLoaded(r, ok)
    <3>1. [onto |-> r.onto, opening |-> r.opening] # Nothing
      BY <2>3 DEF TypeOK, Reads, RebasePlanLoaded, LoadedPlans
    <3> QED BY <2>1, <2>3, <3>1 DEF RebasePlanLoaded
  <2>4. CASE PatchPreviewed(r, ok)
    BY <2>1, <2>4 DEF PatchPreviewed
  <2> QED BY <1>16, <2>2, <2>3, <2>4
<1>17. CASE UNCHANGED vars
  BY <1>17 DEF vars
<1> QED
  BY <1>1, <1>2, <1>4, <1>5, <1>6, <1>7, <1>8, <1>9, <1>10, <1>11, <1>12, <1>13, <1>14, <1>15,
     <1>16, <1>17, <1>3 DEF Next

LEMMA InputInit == Init => InputInv
BY DEF Init, InputInv, ConfirmingHasItsInput, NothingResurrected, NothingReadBeforeOpening,
       AmendIsWhole, Idle, NoAmend

\* The input of an operation is kept for as long as its confirmation is pending.
THEOREM InputsKept == Spec => []InputInv
BY InputInit, InputStep, TypeCorrect, PTL DEF Spec

\* Whatever results arrive while a confirmation is pending, its plan, patch,
\* message or composer is still there when it is confirmed.
THEOREM ConfirmedHasInput == Spec => []ConfirmingHasItsInput
<1>1. InputInv => ConfirmingHasItsInput
  BY DEF InputInv
<1> QED BY <1>1, InputsKept, PTL

\* No late preview or plan brings back a composer that was dismissed.
THEOREM DismissedStays == Spec => []NothingResurrected
<1>1. InputInv => NothingResurrected
  BY DEF InputInv
<1> QED BY <1>1, InputsKept, PTL

-----------------------------------------------------------------------------
(***************************************************************************)
(* The promise of the framework, kept as long as no patch can be applied:  *)
(* a mutation of an operation runs only while that operation is in         *)
(* progress, so there is at most one.                                      *)
(***************************************************************************)
NoPatches == "patch" \notin Names

\* Kinds that are begun and dispatched as operations.
Begun(kind) == kind \in Kinds /\ kind.name # "conflict"

RunsInProgress ==
    /\ "patch" \notin {r.of : r \in reads}
    /\ operation.at # "idle" => Begun(operation.kind)
    /\ \A m \in OperationMutations :
          /\ operation.at = "inProgress" /\ operation.kind = m.kind
          /\ \A other \in OperationMutations : other = m

Asked == IF operation.at = "confirming" THEN operation.kind ELSE Nothing
Running == {m.kind : m \in OperationMutations}

\* Steps that leave operations and mutations alone.
LEMMA SameRuns ==
  ASSUME RunsInProgress, UNCHANGED <<operation, mutations>>,
         \A r \in reads' : r \in reads \/ r.of # "patch"
  PROVE  RunsInProgress' /\ UNCHANGED <<Asked, Running>>
BY DEF RunsInProgress, OperationMutations, Asked, Running

\* Steps that turn one operation that is not in progress into another.
LEMMA OtherOperation ==
  ASSUME TypeOK, RunsInProgress, mutations' = mutations, reads' \subseteq reads,
         operation.at # "inProgress",
         operation'.at # "idle" => Begun(operation'.kind)
  PROVE  RunsInProgress' /\ Running = {} /\ Running' = {}
<1>1. OperationMutations = {}
  BY DEF RunsInProgress
<1> QED BY <1>1 DEF RunsInProgress, OperationMutations, Running

\* Launching an operation when none is in progress.
LEMMA LaunchRuns ==
  ASSUME TypeOK, RunsInProgress, NEW kind, Begun(kind), NEW withPlan, Launch(kind, withPlan),
         operation.at # "inProgress", operation' = InProgress(kind), reads' \subseteq reads
  PROVE  RunsInProgress' /\ Running = {} /\ Running' = {kind}
<1> DEFINE new == [id |-> started + 1, kind |-> kind, plan |-> withPlan, at |-> "running"]
<1>1. OperationMutations = {}
  BY DEF RunsInProgress
<1>2. mutations' = mutations \cup {new} /\ new.kind = kind
  BY DEF Launch
<1> HIDE DEF new
<1>3. OperationMutations' = {new}
  BY <1>1, <1>2 DEF OperationMutations, Begun
<1>4. operation'.at = "inProgress" /\ operation'.kind = kind
  BY DEF InProgress
<1> QED BY <1>1, <1>2, <1>3, <1>4 DEF RunsInProgress, Running

LEMMA DispatchRuns ==
  ASSUME TypeOK, RunsInProgress, NEW kind, Begun(kind), Dispatch(kind), NoPatches,
         operation.at # "inProgress", reads' \subseteq reads,
         operation.at = "confirming" \/ (session = "open" /\ kind.name = "stage")
  PROVE  /\ RunsInProgress'
         /\ Running = {} /\ Asked' = Nothing /\ outcome' = Nothing
         /\ \/ Running' = {kind}
            \/ Running' = {} /\ operation.at = "confirming"
<1>1. CASE session # "open"
  <2>1. UNCHANGED mutations /\ operation' = InProgress(kind) /\ outcome' = Nothing
    BY <1>1 DEF Dispatch, LaunchNothing
  <2>2. RunsInProgress' /\ Running = {} /\ Running' = {}
    BY <2>1, OtherOperation DEF InProgress
  <2> QED BY <1>1, <2>1, <2>2 DEF Asked, InProgress
<1>2. ASSUME session = "open", UNCHANGED mutations, operation' = Failed(kind), outcome' = Nothing,
             kind.name # "stage"
      PROVE  /\ RunsInProgress'
             /\ Running = {} /\ Asked' = Nothing /\ outcome' = Nothing
             /\ Running' = {}
  <2>1. RunsInProgress' /\ Running = {} /\ Running' = {}
    BY <1>2, OtherOperation DEF Failed
  <2> QED BY <1>2, <2>1 DEF Asked, Failed
<1>3. ASSUME NEW withPlan, Launch(kind, withPlan), operation' = InProgress(kind), outcome' = Nothing
      PROVE  /\ RunsInProgress'
             /\ Running = {} /\ Asked' = Nothing /\ outcome' = Nothing
             /\ Running' = {kind}
  <2>1. RunsInProgress' /\ Running = {} /\ Running' = {kind}
    BY <1>3, LaunchRuns
  <2> QED BY <1>3, <2>1 DEF Asked, InProgress
<1>4. CASE session = "open"
  <2>1. outcome' = Nothing
    BY DEF Dispatch
  <2>2. \/ operation' = Failed(kind) /\ UNCHANGED mutations /\ kind.name # "stage"
        \/ operation' = InProgress(kind) /\ Launch(kind, Nothing)
        \/ operation' = InProgress(kind) /\ Launch(kind, plan)
    BY <1>4 DEF Dispatch, LaunchNothing
  <2>3. CASE operation' = Failed(kind) /\ UNCHANGED mutations /\ kind.name # "stage"
    BY <1>2, <1>4, <2>1, <2>3
  <2>4. CASE operation' = InProgress(kind) /\ Launch(kind, Nothing)
    BY <1>3, <2>1, <2>4
  <2>5. CASE operation' = InProgress(kind) /\ Launch(kind, plan)
    BY <1>3, <2>1, <2>5
  <2> QED BY <2>2, <2>3, <2>4, <2>5
<1> QED BY <1>1, <1>4

LEMMA BeginAsks ==
  ASSUME TypeOK, RunsInProgress, NEW kind, Begun(kind), operation = Idle,
         operation' = Confirming(kind), UNCHANGED <<mutations, outcome>>, reads' \subseteq reads
  PROVE  RunsInProgress' /\ Promised!Next
<1>1. RunsInProgress' /\ Running = {} /\ Running' = {}
  BY OtherOperation DEF Confirming, Idle
<1>2. Asked = Nothing /\ Asked' = kind
  BY DEF Asked, Confirming, Idle
<1>3. Promised!Ask(kind)
  BY <1>1, <1>2 DEF Promised!Ask, Asked, Running
<1> QED BY <1>1, <1>3 DEF Promised!Next, Begun

LEMMA DispatchStarts ==
  ASSUME TypeOK, RunsInProgress, NEW kind, Begun(kind), Dispatch(kind), NoPatches,
         UNCHANGED reads,
         \/ operation.at = "confirming" /\ operation.kind = kind
         \/ operation = Idle /\ session = "open" /\ kind.name = "stage"
  PROVE  RunsInProgress' /\ Promised!Next
<1>1. /\ RunsInProgress'
      /\ Running = {} /\ Asked' = Nothing /\ outcome' = Nothing
      /\ \/ Running' = {kind}
         \/ Running' = {} /\ operation.at = "confirming"
  BY DispatchRuns DEF Idle
<1>2. /\ operation.at = "confirming" => Asked = kind
      /\ operation = Idle => Asked = Nothing
      /\ kind # Nothing
  BY DEF Asked, Idle, Begun
<1>3. CASE Running' = {kind}
  BY <1>1, <1>2, <1>3 DEF Promised!Start, Promised!Next, Asked, Running, Begun
<1>4. CASE Running' = {} /\ operation.at = "confirming"
  BY <1>1, <1>2, <1>4 DEF Promised!Refuse, Promised!Next, Asked, Running
<1> QED BY <1>1, <1>3, <1>4

LEMMA StepSimulates ==
  ASSUME TypeOK, RunsInProgress, NoPatches, [Next]_vars
  PROVE  RunsInProgress' /\ [Promised!Next]_(Promised!vars)
<1> DEFINE Goal == RunsInProgress' /\ [Promised!Next]_(Promised!vars)
<1> USE DEF repository, composers, Begin
<1>1. ASSUME UNCHANGED <<operation, outcome, mutations>>,
             \A r \in reads' : r \in reads \/ r.of # "patch"
      PROVE  Goal
  BY <1>1, SameRuns DEF Promised!vars, Asked, Running
<1>2. ASSUME NEW kind \in Kinds, Request(kind) PROVE Goal
  <2>1. operation = Idle /\ Begun(kind)
    BY <1>2 DEF Request, KeysReach, Context, Idle, TypeOK, Begun
  <2> QED BY <1>2, <2>1, BeginAsks DEF Request
<1>3. ASSUME RequestSafe PROVE Goal
  <2>1. operation = Idle
    BY <1>3 DEF RequestSafe, KeysReach, Context, TypeOK
  <2>2. Begun([name |-> "stage"])
    BY KindsHold DEF Begun
  <2> QED BY <1>3, <2>1, <2>2, DispatchStarts DEF RequestSafe
<1>4. ASSUME Confirm PROVE Goal
  <2>1. operation.at = "confirming"
    BY <1>4 DEF Confirm, KeysReach, Context, TypeOK
  <2>2. Begun(operation.kind)
    BY <2>1 DEF RunsInProgress
  <2> QED BY <1>4, <2>1, <2>2, DispatchStarts DEF Confirm
<1>5. ASSUME RequestResolution \/ ActivateComposer PROVE Goal
  <2>1. operation = Idle
    BY <1>5 DEF RequestResolution, ActivateComposer, KeysReach, Context, Idle, TypeOK
  <2>2. PICK kind : Begun(kind) /\ operation' = Confirming(kind)
    <3>1. CASE RequestResolution
      BY <3>1, KindsHold DEF RequestResolution, Begun
    <3>2. CASE ActivateComposer
      <4>1. plan # Nothing => plan.onto \in Branches
        BY DEF TypeOK, Plans, LoadedPlans
      <4>2. amend.preview # Nothing => amend.preview \in 1..MaxOpenings
        BY DEF TypeOK, Previews
      <4> QED BY <3>2, <4>1, <4>2, KindsHold DEF ActivateComposer, Begun
    <3> QED BY <1>5, <3>1, <3>2
  <2>3. UNCHANGED <<mutations, outcome, reads>>
    BY <1>5 DEF RequestResolution, ActivateComposer
  <2> QED BY <2>1, <2>2, <2>3, BeginAsks
<1>6. ASSUME DismissOperation PROVE Goal
  <2>1. /\ operation.at \in {"confirming", "failed"} /\ operation' = Idle
        /\ UNCHANGED <<mutations, outcome, reads>>
    BY <1>6 DEF DismissOperation, KeysReach, Context, TypeOK
  <2>2. RunsInProgress' /\ Running = {} /\ Running' = {}
    BY <2>1, OtherOperation DEF Idle
  <2>3. Asked' = Nothing
    BY <2>1 DEF Asked, Idle
  <2> QED BY <2>1, <2>2, <2>3 DEF Promised!Cancel, Promised!Next, Asked, Running
<1>7. ASSUME DismissReport PROVE Goal
  <2>1. outcome' = Nothing /\ UNCHANGED <<operation, mutations, reads>>
    BY <1>7 DEF DismissReport
  <2>2. RunsInProgress' /\ UNCHANGED <<Asked, Running>>
    BY <2>1, SameRuns
  <2> QED BY <2>1, <2>2 DEF Promised!Forget, Promised!Next, Asked, Running
<1>8. ASSUME ResolveConflict PROVE Goal
  <2> DEFINE new == [id |-> started + 1, kind |-> [name |-> "conflict"], plan |-> Nothing,
                     at |-> "running"]
  <2>1. mutations' = mutations \cup {new} /\ UNCHANGED <<operation, outcome, reads>>
    BY <1>8 DEF ResolveConflict, Launch
  <2>2. new.kind.name = "conflict"
    OBVIOUS
  <2> HIDE DEF new
  <2>3. OperationMutations' = OperationMutations
    BY <2>1, <2>2 DEF OperationMutations
  <2> QED BY <2>1, <2>3 DEF RunsInProgress, Promised!vars
<1>9. ASSUME NEW m \in mutations, Run(m) PROVE Goal
  <2>1. UNCHANGED <<operation, outcome, reads>>
    BY <1>9 DEF Run
  <2>2. PICK at : mutations' = (mutations \ {m}) \cup {[m EXCEPT !.at = at]}
    BY <1>9 DEF Run
  <2> DEFINE ended == [m EXCEPT !.at = at]
  <2>3. ended.kind = m.kind
    BY DEF TypeOK, Mutations
  <2>4. mutations' = (mutations \ {m}) \cup {ended}
    BY <2>2
  <2> HIDE DEF ended
  <2>5. CASE m.kind.name = "conflict"
    <3>1. OperationMutations' = OperationMutations
      BY <2>3, <2>4, <2>5 DEF OperationMutations
    <3> QED BY <2>1, <3>1 DEF RunsInProgress, Promised!vars
  <2>6. CASE m.kind.name # "conflict"
    <3>1. OperationMutations = {m}
      BY <2>6 DEF OperationMutations, RunsInProgress
    <3>2. OperationMutations' = {ended}
      BY <2>3, <2>4, <2>6, <3>1 DEF OperationMutations
    <3>3. Running' = Running
      BY <2>3, <3>1, <3>2 DEF Running
    <3> QED BY <2>1, <2>3, <3>1, <3>2, <3>3 DEF RunsInProgress, Promised!vars, Running
  <2> QED BY <2>5, <2>6
<1>10. ASSUME NEW m \in mutations, Finished(m) PROVE Goal
  <2>1. mutations' = mutations \ {m} /\ UNCHANGED reads
    BY <1>10 DEF Finished
  <2>2. CASE m.kind.name = "conflict"
    <3>1. OperationMutations' = OperationMutations
      BY <2>1, <2>2 DEF OperationMutations
    <3>2. UNCHANGED <<operation, outcome>>
      BY <1>10, <2>2 DEF Finished
    <3> QED BY <2>1, <3>1, <3>2 DEF RunsInProgress, Promised!vars
  <2>3. CASE m.kind.name # "conflict"
    <3>1. OperationMutations = {m} /\ operation.at = "inProgress" /\ operation.kind = m.kind
      BY <2>3 DEF OperationMutations, RunsInProgress
    <3>2. OperationMutations' = {}
      BY <2>1, <3>1 DEF OperationMutations
    <3>3. Asked = Nothing /\ Running = {m.kind} /\ Running' = {} /\ m.kind \in Kinds
      BY <3>1, <3>2 DEF Asked, Running, TypeOK, Mutations
    <3>4. CASE m.at = "ok"
      <4>1. operation' = Idle /\ outcome' = m.kind
        BY <1>10, <2>3, <3>1, <3>4 DEF Finished, SucceedOperation
      <4>2. RunsInProgress' /\ Asked' = Nothing
        BY <2>1, <3>2, <4>1 DEF RunsInProgress, Asked, Idle
      <4>3. Promised!Succeed(m.kind)
        BY <3>3, <4>1, <4>2 DEF Promised!Succeed, Asked, Running
      <4> QED BY <3>3, <4>2, <4>3 DEF Promised!Next
    <3>5. CASE m.at # "ok"
      <4>1. operation' = Failed(operation.kind) /\ outcome' = outcome
        BY <1>10, <2>3, <3>1, <3>5 DEF Finished, FailOperation
      <4>2. RunsInProgress' /\ Asked' = Nothing
        BY <2>1, <3>1, <3>2, <4>1 DEF RunsInProgress, Asked, Failed
      <4>3. Promised!Fail(m.kind)
        BY <3>3, <4>1, <4>2 DEF Promised!Fail, Asked, Running
      <4> QED BY <3>3, <4>2, <4>3 DEF Promised!Next
    <3> QED BY <3>4, <3>5
  <2> QED BY <2>2, <2>3
<1>11. ASSUME \/ \E name \in {"commit", "create"} : StartPrompt(name)
              \/ StartAmend \/ TypeAmendMessage
              \/ \E onto \in Branches : StartPlan(onto)
              \/ OpenConflicts \/ DismissOverlay \/ RepositoryOpened
              \/ \E loaded \in PendingStates : InProgressOperationLoaded(loaded)
              \/ \E r \in reads, ok \in BOOLEAN : AmendPreviewed(r, ok) \/ RebasePlanLoaded(r, ok)
       PROVE  Goal
  <2>1. UNCHANGED <<operation, outcome, mutations>>
    BY <1>11 DEF StartPrompt, StartAmend, TypeAmendMessage, StartPlan, OpenConflicts,
       DismissOverlay, RepositoryOpened, InProgressOperationLoaded, AmendPreviewed,
       RebasePlanLoaded
  <2>2. \A r \in reads' : r \in reads \/ r.of # "patch"
    BY <1>11 DEF StartPrompt, StartAmend, TypeAmendMessage, StartPlan, OpenConflicts,
       DismissOverlay, RepositoryOpened, InProgressOperationLoaded, AmendPreviewed,
       RebasePlanLoaded
  <2> QED BY <1>1, <2>1, <2>2
<1>12. ASSUME RequestApplyPatch PROVE FALSE
  BY <1>12 DEF RequestApplyPatch, NoPatches
<1>13. ASSUME NEW r \in reads, NEW ok \in BOOLEAN, PatchPreviewed(r, ok) PROVE FALSE
  BY <1>13 DEF PatchPreviewed, RunsInProgress
<1>14. ASSUME UNCHANGED vars PROVE Goal
  BY <1>1, <1>14 DEF vars
<1> HIDE DEF Goal
<1>15. Goal
  BY <1>2, <1>3, <1>4, <1>5, <1>6, <1>7, <1>8, <1>9, <1>10, <1>11, <1>12, <1>13, <1>14 DEF Next
<1> QED BY <1>15 DEF Goal

\* The TUI implements ConfirmedOperations wherever no patch can be applied: an
\* operation is asked about, confirmed or cancelled, run alone, and what is
\* reported is what ran, although results come from threads in any order.
THEOREM Refinement == NoPatches /\ Spec => KeepsPromise
<1>1. Init => RunsInProgress /\ Promised!Init
  BY DEF Init, RunsInProgress, OperationMutations, Idle, Promised!Init
<1>2. NoPatches /\ TypeOK /\ RunsInProgress /\ [Next]_vars
        => RunsInProgress' /\ [Promised!Next]_(Promised!vars)
  BY StepSimulates
<1> SUFFICES ASSUME NoPatches PROVE Spec => KeepsPromise
  OBVIOUS
<1>3. TypeOK /\ RunsInProgress /\ [Next]_vars => RunsInProgress' /\ [Promised!Next]_(Promised!vars)
  BY <1>2
<1> QED BY <1>1, <1>3, TypeCorrect, PTL DEF Spec, KeepsPromise, Promised!Spec
=============================================================================
