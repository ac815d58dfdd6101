------------------------------ MODULE MCTuiPanels ------------------------------
(***************************************************************************)
(* Small instances of TuiPanels, of TuiGraph, of TuiKeys and of Forges,    *)
(* whose lists the desktop shows: one part per behaviour, they share no    *)
(* state.                                                                  *)
(***************************************************************************)
EXTENDS TuiPanels, TuiGraph, TuiKeys, Forges, TLC

CONSTANTS n1, n2, n3, c1, c2, nothing, everything, odd, MaxHistory

VARIABLE part \* "panels", "graph", "keys" or "forges"

allVars == <<vars, graphVars, keyVars, forgeVars, part>>

OneAtATime == {{}, {"status"}, {"branches"}, {"conflicts"}}

\* Every history of MaxHistory commits or fewer, merges of two, reached from the newest.
ParentsOf(n) == UNION {{s \in [1..k -> 1..n - 1] : k = 2 => s[1] # s[2]} : k \in 0..2}
CommitsOf(n) == {[hash |-> n, parents |-> p] : p \in ParentsOf(n)}
RECURSIVE LogsOf(_)
LogsOf(n) == IF n = 0 THEN {<<>>}
             ELSE {<<c>> \o older : c \in CommitsOf(n), older \in LogsOf(n - 1)}
IsReached(h) ==
    \A j \in 2..Len(h) : \E i \in 1..j - 1 : h[j].hash \in ToSet(h[i].parents)
SmallHistories == {h \in UNION {LogsOf(n) : n \in 1..MaxHistory} : IsReached(h)}

OddOnly(query, commit) == query = odd => commit.hash % 2 = 1

\* No file, and one with lines that count (keys of Normal and of prompts taken over) and
\* lines that do not.
TwoFiles ==
    {<<>>,
     <<[id |-> "start-commit", key |-> "many"], [id |-> "start-commit", key |-> "c"],
       [id |-> "activate", key |-> "Y"], [id |-> "request-pull", key |-> "q"]>>}
TwoCommits == <<c1, c2>>

AllInit ==
    /\ part \in {"panels", "graph", "keys", "forges"}
    /\ Init /\ GraphInit /\ KeyInit /\ ForgesInit
    \* What does not move has one state.
    /\ part = "panels" => panels # {}
    /\ "status" \in panels => world.changed = Files
    /\ part # "panels" => panels = {} /\ world.branches = {}
    /\ part # "graph" => Len(log) = 1
    /\ part # "keys" => bindings = EffectiveBindings(ParseConfig(<<>>))
    /\ part # "forges" => remotes.origin = [host |-> "github.com", segments |-> 2]

AllNext ==
    /\ UNCHANGED part
    /\ \/ part = "panels" /\ Next /\ UNCHANGED <<graphVars, keyVars, forgeVars>>
       \/ part = "graph" /\ GraphNext /\ UNCHANGED <<vars, keyVars, forgeVars>>
       \/ part = "keys" /\ KeyNext /\ UNCHANGED <<vars, graphVars, forgeVars>>
       \/ part = "forges" /\ ForgesNext /\ UNCHANGED <<vars, graphVars, keyVars>>
    \* One blame is asked for: nothing checked here is about a second one.
    /\ blameId' <= 1

AllSpec == AllInit /\ [][AllNext]_allVars

NameSymmetry == Permutations(Names)
=============================================================================
