------------------------------ MODULE CommitGraph ------------------------------
(***************************************************************************)
(* The layout of the commit graph (gitsail-domain, graph.rs): the lane of  *)
(* each commit and the edges to its parents, one page of commits after the *)
(* other.  Lanes are numbered from 1.                                      *)
(***************************************************************************)
EXTENDS Naturals, Sequences, SequencesExt

\* A lane that awaits no commit.
Free == [hash |-> 0, waiters |-> {}]

\* rows laid out so far, open: what each lane awaits, and for which edges.
EmptyGraph == [rows |-> <<>>, open |-> <<>>]

\* lane_count is the number of lanes there ever were: none is taken away.
LaneCount(graph) == Len(graph.open)

Awaiting(open, hash) == {lane \in DOMAIN open : open[lane].hash = hash}
Lowest(lanes) == CHOOSE lane \in lanes : \A other \in lanes : lane <= other

\* allocate_lane: the lowest free lane, or one more.
AllocateLane(open) ==
    LET free == Awaiting(open, 0)
    IN IF free = {} THEN Len(open) + 1 ELSE Lowest(free)

\* A lane awaits something else from now on.
SetLane(open, lane, slot) ==
    IF lane \in DOMAIN open THEN [open EXCEPT ![lane] = slot] ELSE Append(open, slot)

\* Mutated form: the first parent takes the commit's lane, even if another awaits it.
AddEdgeStraight(layout, parent, row, lane) ==
    LET index == Len(layout.edges) + 1
        known == IF index = 1 THEN {} ELSE Awaiting(layout.open, parent)
        to == IF known # {} THEN Lowest(known)
              ELSE IF index = 1 THEN lane ELSE AllocateLane(layout.open)
        waiting == IF known # {} THEN layout.open[to].waiters ELSE {}
    IN [open |-> SetLane(layout.open, to,
                         [hash |-> parent, waiters |-> waiting \cup {<<row, index>>}]),
        edges |-> Append(layout.edges, [to |-> to, target |-> parent, resolved |-> FALSE])]

\* One edge of the commit of row `row' in `lane': it joins the lane that awaits
\* its parent already, else the first parent takes the commit's own lane.
AddEdge(layout, parent, row, lane) ==
    LET index == Len(layout.edges) + 1
        known == Awaiting(layout.open, parent)
        to == IF known # {} THEN Lowest(known)
              ELSE IF index = 1 THEN lane ELSE AllocateLane(layout.open)
        waiting == IF known # {} THEN layout.open[to].waiters ELSE {}
    IN [open |-> SetLane(layout.open, to,
                         [hash |-> parent, waiters |-> waiting \cup {<<row, index>>}]),
        edges |-> Append(layout.edges, [to |-> to, target |-> parent, resolved |-> FALSE])]

\* The edges to the parents of the commit of row `row' in `lane': the layout after
\* each number of them.
AddEdges(open, parents, row, lane) ==
    LET added[k \in 0 .. Len(parents)] ==
            IF k = 0 THEN [open |-> open, edges |-> <<>>]
            ELSE AddEdge(added[k - 1], parents[k], row, lane)
    IN added

\* The edges that awaited this commit lead to it now.
ResolveEdges(rows, waiters) ==
    LET edge(i, e) == [rows[i].edges[e] EXCEPT !.resolved = @ \/ <<i, e>> \in waiters]
    IN [i \in DOMAIN rows |->
           [rows[i] EXCEPT !.edges = [e \in DOMAIN rows[i].edges |-> edge(i, e)]]]

\* A row: the commit takes the lane that awaits it, which is free from then on.
AppendRow(graph, commit) ==
    LET awaiting == Awaiting(graph.open, commit.hash)
        lane == IF awaiting # {} THEN Lowest(awaiting) ELSE AllocateLane(graph.open)
        freed == SetLane(graph.open, lane, Free)
        rows == IF awaiting = {} THEN graph.rows
                ELSE ResolveEdges(graph.rows, graph.open[lane].waiters)
        layout == AddEdges(freed, commit.parents, Len(rows) + 1, lane)[Len(commit.parents)]
    IN [rows |-> Append(rows, [commit |-> commit.hash, lane |-> lane, edges |-> layout.edges,
                               passthrough |-> DOMAIN freed \ Awaiting(freed, 0)]),
        open |-> layout.open]

\* append_page: the graph after each number of the commits of a page.
AppendRows(graph, commits) ==
    LET appended[k \in 0 .. Len(commits)] ==
            IF k = 0 THEN graph ELSE AppendRow(appended[k - 1], commits[k])
    IN appended
AppendPage(graph, commits) == AppendRows(graph, commits)[Len(commits)]

\* row_index_of
RowIndexOf(graph, hash) == SelectInSeq(graph.rows, LAMBDA row : row.commit = hash)
===============================================================================
