-------------------------- MODULE ConfirmedOperations --------------------------
(***************************************************************************)
(* What the operation framework of gitsail-tui promises (header of         *)
(* operation.rs, comment of action_for in keymap.rs): a mutation is asked  *)
(* about, confirmed, run in the background and reported; before it runs it *)
(* can be cancelled; while one is pending or runs no other is stacked      *)
(* behind it; and what is reported is what ran.                            *)
(***************************************************************************)
CONSTANTS
    Kinds,   \* the operations there are
    Safe,    \* those that run without being asked about
    Nothing  \* no operation

VARIABLES
    asked,     \* the operation awaiting confirmation
    running,   \* the operations that run
    reported   \* the operation last reported as done

vars == <<asked, running, reported>>

Init == asked = Nothing /\ running = {} /\ reported = Nothing

Ask(k) ==
    /\ asked = Nothing /\ running = {}
    /\ asked' = k
    /\ UNCHANGED <<running, reported>>

Cancel == asked' = Nothing /\ UNCHANGED <<running, reported>>

Start(k) ==
    /\ running = {}
    /\ \/ asked = k
       \/ asked = Nothing /\ k \in Safe
    /\ asked' = Nothing
    /\ running' = {k}
    /\ reported' = Nothing

\* An operation can be confirmed and refused before anything runs.
Refuse == asked # Nothing /\ asked' = Nothing /\ reported' = Nothing /\ UNCHANGED running

Succeed(k) ==
    /\ k \in running
    /\ running' = running \ {k}
    /\ reported' = k
    /\ UNCHANGED asked

Fail(k) ==
    /\ k \in running
    /\ running' = running \ {k}
    /\ UNCHANGED <<asked, reported>>

\* The report is dismissed.
Forget == reported' = Nothing /\ UNCHANGED <<asked, running>>

Next ==
    \/ Cancel \/ Refuse \/ Forget
    \/ \E k \in Kinds : Ask(k) \/ Start(k) \/ Succeed(k) \/ Fail(k)

Spec == Init /\ [][Next]_vars
=============================================================================
