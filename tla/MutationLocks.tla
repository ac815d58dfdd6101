---------------------------- MODULE MutationLocks ----------------------------
(***************************************************************************)
(* What gitsail-application promises about mutations (SAD section 26, in   *)
(* the header of concurrency.rs): mutations of one physical repository are *)
(* serialized, whichever session or worktree they come from; mutations of  *)
(* different repositories are independent.                                 *)
(***************************************************************************)
CONSTANTS Sessions, Keys, Nobody   \* Nobody is no session

VARIABLE mutator   \* per physical repository: the session mutating it

Init == mutator = [k \in Keys |-> Nobody]

Begin(s, k) ==
    /\ mutator[k] = Nobody
    /\ \A other \in Keys : mutator[other] # s
    /\ mutator' = [mutator EXCEPT ![k] = s]

End(s, k) ==
    /\ mutator[k] = s
    /\ mutator' = [mutator EXCEPT ![k] = Nobody]

Next == \E s \in Sessions, k \in Keys : Begin(s, k) \/ End(s, k)

Spec == Init /\ [][Next]_mutator
=============================================================================
