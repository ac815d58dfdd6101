--------------------------------- MODULE MCGit ---------------------------------
(***************************************************************************)
(* What the provider writes, what it reads, and the cache of what it has   *)
(* read: one part per behaviour, they share no state.                      *)
(***************************************************************************)
EXTENDS GitWrites, VsCodeReads, GenerationCache

CONSTANTS p1, p2, b1, b2, none, q1, q2, i1, k1, k2, k3

VARIABLE part  \* "writes", "reads" or "cache"

allVars == <<writesVars, readVars, vars, part>>

AllInit ==
    /\ part \in {"writes", "reads", "cache"}
    /\ WritesInit /\ ReadsInit /\ Init
    \* What does not move has one state.
    /\ part # "writes" => InFamily("stash")
    /\ part # "reads" => store.kind = "remotes"

AllNext ==
    /\ UNCHANGED part
    /\ \/ part = "writes" /\ WritesNext /\ UNCHANGED <<readVars, vars>>
       \/ part = "reads" /\ (ReadsNext \/ EditorReadsNext) /\ UNCHANGED <<writesVars, vars>>
       \/ part = "cache" /\ Next /\ UNCHANGED <<writesVars, readVars>>

AllSpec == AllInit /\ [][AllNext]_allVars
================================================================================
