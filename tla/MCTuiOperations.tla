---------------------------- MODULE MCTuiOperations ----------------------------
(***************************************************************************)
(* The operations of the TUI and the calls of the provider that rewrite    *)
(* history, which share no state here.  One part per behaviour: the        *)
(* operations with an input of their own, with three composers opened;     *)
(* every kind but patches, with keys also pressed before the repository is *)
(* open; and GitProvider.                                                  *)
(***************************************************************************)
EXTENDS TuiOperations, GitProvider, TLC

CONSTANTS b1, b2, nothing

VARIABLE part \* "composers", "eager" or "rewrites"

allVars == <<vars, providerVars, part>>

ASSUME ProviderAssumption

ComposerKinds == {"commit", "amend", "plan", "patch"}

Eager == INSTANCE TuiOperations
             WITH Names <- AllNames \ {"patch"}, EagerKeys <- TRUE, MaxOpenings <- 2

AllInit ==
    /\ part \in {"composers", "eager", "rewrites"}
    /\ ProviderInit
    /\ IF part = "eager" THEN Eager!Init ELSE Init
    \* What does not move has one state.
    /\ part = "rewrites" => openedOn = b1

AllNext ==
    /\ UNCHANGED part
    /\ \/ part = "composers" /\ Next /\ UNCHANGED providerVars
       \/ part = "eager" /\ Eager!Next /\ UNCHANGED providerVars
       \/ part = "rewrites" /\ ProviderNext /\ UNCHANGED vars

AllSpec == AllInit /\ [][AllNext]_allVars /\ Fairness

\* The promise, of every kind but patches; the other parts do not move it.
Promise == INSTANCE ConfirmedOperations WITH
    Kinds <- Eager!Kinds,
    Safe <- {kind \in Eager!Kinds : kind.name = "stage"},
    asked <- IF part = "eager" /\ operation.at = "confirming" THEN operation.kind ELSE Nothing,
    running <- IF part = "eager" THEN {m.kind : m \in OperationMutations} ELSE {},
    reported <- IF part = "eager" THEN outcome ELSE Nothing

\* The TUI implements ConfirmedOperations (KeepsPromise): a mutation is asked about,
\* confirmed, run one at a time and reported as what ran (operation.rs, app.rs).
EagerKeepsPromise == Promise!Init /\ [][part = "eager" => Promise!Next]_(Promise!vars)

\* Every operation in progress ends on the screen: its overlay takes no key but
\* Ctrl+C until then.  (A commit confirmed before the repository is open does not.)
ConcludesOnceOpen == part = "composers" => Concludes
=============================================================================
