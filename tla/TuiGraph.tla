-------------------------------- MODULE TuiGraph --------------------------------
(***************************************************************************)
(* The panel with the commit graph of gitsail-tui: its pages, which        *)
(* threads read from git log while other programs commit, the cursor that  *)
(* asks for the next one, and the search that starts over.                 *)
(***************************************************************************)
EXTENDS CommitGraph, FiniteSets

CONSTANTS
    Histories,    \* histories a repository may have: sequences of commits, newest first
    Filters,      \* searches, and among them NoFilter
    NoFilter,
    Selects(_, _), \* whether a search selects a commit
    PageSize,     \* GRAPH_PAGE_SIZE
    MaxPages,     \* bound: pages asked for
    MaxSearches, MaxCommits \* bounds: searches and amends, commits made meanwhile

ASSUME GraphAssumption ==
    /\ PageSize \in Nat \ {0} /\ {MaxPages, MaxSearches, MaxCommits} \subseteq Nat
    /\ NoFilter \in Filters

\* Commits are numbered from the oldest: parents come after their children, as append_page
\* asks of its caller.
IsHistory(h) ==
    /\ h \in Seq([hash : Nat \ {0}, parents : Seq(Nat \ {0})])
    /\ \A i \in DOMAIN h : \A k \in DOMAIN h[i].parents : h[i].parents[k] < h[i].hash
    /\ \A i, j \in DOMAIN h : i < j => h[j].hash < h[i].hash

ASSUME HistoryAssumption == \A h \in Histories : h # <<>> /\ IsHistory(h)

VARIABLES
    log,         \* git log
    graph,       \* App::commit_graph
    graphCursor, \* App::graph_cursor, from 0
    nextCursor,  \* App::graph_next_cursor: an offset, or 0
    hasMore,     \* App::graph_has_more
    loading,     \* App::graph_loading
    requestId,   \* App::graph_request_id
    filter,      \* App::active_commit_filter
    requests,    \* threads that read a page, and their answers
    pagesOf,     \* history: the filtered logs the pages of this graph were read from
    searches, commits \* numbers of searches and amends, and of commits

shownGraph == <<graph, graphCursor, nextCursor, hasMore, loading, requestId, filter>>
graphVars == <<log, shownGraph, requests, pagesOf, searches, commits>>

Page(id, query, offset) ==
    [id |-> id, filter |-> query, offset |-> offset, state |-> "asked", page |-> <<>>,
     hasMore |-> FALSE, of |-> <<>>]

\* on_repository_opened seeds the first load.
GraphInit ==
    /\ log \in Histories
    /\ graph = EmptyGraph /\ graphCursor = 0 /\ nextCursor = 0
    /\ hasMore = FALSE /\ loading = TRUE /\ requestId = 1 /\ filter = NoFilter
    /\ requests = {Page(1, NoFilter, 0)} /\ pagesOf = {}
    /\ searches = 0 /\ commits = 0

\* Another program commits, or the application does.
Commits ==
    /\ commits < MaxCommits /\ commits' = commits + 1
    /\ LET top == log[1].hash
       IN log' = <<[hash |-> top + 1, parents |-> <<top>>]>> \o log
    /\ UNCHANGED <<shownGraph, requests, pagesOf, searches>>

\* restart_commit_graph
RestartCommitGraph(query) ==
    /\ graph' = EmptyGraph /\ graphCursor' = 0 /\ nextCursor' = 0
    /\ hasMore' = FALSE /\ loading' = TRUE /\ requestId' = requestId + 1
    /\ requests' = requests \cup {Page(requestId', query, 0)}
    /\ pagesOf' = {}

\* submit_commit_search
SubmitCommitSearch(query) ==
    /\ searches < MaxSearches /\ searches' = searches + 1
    /\ filter' = query /\ RestartCommitGraph(query)
    /\ UNCHANGED <<log, commits>>

\* on_amend_finished: the tip has been replaced, the search is kept.
AmendFinished ==
    /\ searches < MaxSearches /\ searches' = searches + 1
    /\ log' = [log EXCEPT ![1].hash = log[1].hash + 1]
    /\ RestartCommitGraph(filter)
    /\ UNCHANGED <<filter, commits>>

\* request_more_graph_commits: under the default query, whatever was searched for.
RequestMore ==
    IF loading \/ ~hasMore THEN UNCHANGED <<loading, requestId, requests>>
    ELSE /\ requestId < MaxPages
         /\ loading' = TRUE /\ requestId' = requestId + 1
         /\ requests' = requests \cup {Page(requestId', NoFilter, nextCursor)}

\* move_graph_cursor, clamped to the rows; down at the last one asks for more.
MoveGraphCursor(down) ==
    LET last == Len(graph.rows) - 1
        next == IF ~down THEN (IF graphCursor = 0 THEN 0 ELSE graphCursor - 1)
                ELSE IF graphCursor < last THEN graphCursor + 1 ELSE last
    IN /\ graph.rows # <<>>
       /\ graphCursor' = next
       /\ IF down /\ next >= last THEN RequestMore ELSE UNCHANGED <<loading, requestId, requests>>
       /\ UNCHANGED <<log, graph, nextCursor, hasMore, filter, pagesOf, searches, commits>>

Smaller(a, b) == IF a < b THEN a ELSE b

\* git log with a search: what it has found after each number of commits.
Found(query) ==
    LET found[k \in 0 .. Len(log)] ==
            IF k = 0 THEN <<>>
            ELSE IF Selects(query, log[k]) THEN Append(found[k - 1], log[k]) ELSE found[k - 1]
    IN found

\* GitCliProvider::commits: one more than the page tells whether there are more.
ReadPage(r) ==
    LET selected == Found(r.filter)[Len(log)]
        rest == SubSeq(selected, r.offset + 1, Len(selected))
    IN /\ r.state = "asked"
       /\ requests' = (requests \ {r}) \cup
              {[r EXCEPT !.state = "ok", !.of = selected, !.hasMore = Len(rest) > PageSize,
                         !.page = SubSeq(rest, 1, Smaller(PageSize, Len(rest)))]}
       /\ UNCHANGED <<log, shownGraph, pagesOf, searches, commits>>

ReadPageFails(r) ==
    /\ r.state = "asked"
    /\ requests' = (requests \ {r}) \cup {[r EXCEPT !.state = "failed"]}
    /\ UNCHANGED <<log, shownGraph, pagesOf, searches, commits>>

\* Mutated form: only a page that could be read ends the load.
PageLoadedIfRead(r) ==
    /\ r.state # "asked" /\ requests' = requests \ {r}
    /\ IF r.id # requestId \/ r.state = "failed"
       THEN UNCHANGED <<graph, nextCursor, hasMore, loading, pagesOf>>
       ELSE /\ loading' = FALSE
            /\ graph' = AppendPage(graph, r.page)
            /\ nextCursor' = IF r.hasMore THEN r.offset + PageSize ELSE 0
            /\ hasMore' = r.hasMore
            /\ pagesOf' = pagesOf \cup {r.of}
    /\ UNCHANGED <<log, graphCursor, requestId, filter, searches, commits>>

\* on_commit_graph_page_loaded
PageLoaded(r) ==
    /\ r.state # "asked" /\ requests' = requests \ {r}
    /\ IF r.id # requestId
       THEN UNCHANGED <<graph, nextCursor, hasMore, loading, pagesOf>>
       ELSE /\ loading' = FALSE
            /\ IF r.state = "failed" THEN UNCHANGED <<graph, nextCursor, hasMore, pagesOf>>
               ELSE /\ graph' = AppendPage(graph, r.page)
                    /\ nextCursor' = IF r.hasMore THEN r.offset + PageSize ELSE 0
                    /\ hasMore' = r.hasMore
                    /\ pagesOf' = pagesOf \cup {r.of}
    /\ UNCHANGED <<log, graphCursor, requestId, filter, searches, commits>>

GraphNext ==
    \/ Commits \/ AmendFinished
    \/ \E query \in Filters : SubmitCommitSearch(query)
    \/ \E down \in BOOLEAN : MoveGraphCursor(down)
    \/ \E r \in requests : ReadPage(r) \/ ReadPageFails(r) \/ PageLoaded(r)

GraphSpec == GraphInit /\ [][GraphNext]_graphVars

-------------------------------------------------------------------------------
(* Properties *)

Rows == DOMAIN graph.rows
Edges(i) == {graph.rows[i].edges[e] : e \in DOMAIN graph.rows[i].edges}

\* Row j draws the line of an edge of row i towards its target.
Draws(j, edge) == graph.rows[j].commit = edge.target
Before(edge, i, k) == \A j \in i + 1 .. k : ~Draws(j, edge)

\* The graph is that of its commits, as long as its pages were read from one
\* log: the edges of a row are the parents of its commit, in a lane that ends
\* at the parent, that no other commit interrupts and that each row in between
\* draws; and no row draws a line that no edge has begun (append_page).
LayoutIsTrue ==
    Cardinality(pagesOf) = 1 =>
        LET source == CHOOSE l \in pagesOf : TRUE
        IN \A i \in Rows :
            /\ graph.rows[i].commit = source[i].hash
            /\ [e \in DOMAIN graph.rows[i].edges |-> graph.rows[i].edges[e].target] =
                   source[i].parents
            /\ \A edge \in Edges(i) :
                  /\ edge.resolved = (\E j \in Rows : Draws(j, edge))
                  /\ \A k \in i + 1 .. Len(graph.rows) :
                        /\ Draws(k, edge) => graph.rows[k].lane = edge.to
                        /\ Before(edge, i, k) => edge.to \in graph.rows[k].passthrough
            /\ \A lane \in graph.rows[i].passthrough :
                  \E h \in 1 .. i - 1 : \E edge \in Edges(h) :
                      edge.to = lane /\ Before(edge, h, i)

\* A panel that is loading has a request under way whose answer it will take:
\* else no key would ever load more.
LoadingHasItsRequest == loading => \E r \in requests : r.id = requestId

\* A search is a new query: nothing of another is among its results.
ResultsAreOfSearch ==
    \A i \in Rows : \E l \in pagesOf :
       \E j \in DOMAIN l : l[j].hash = graph.rows[i].commit /\ Selects(filter, l[j])
===============================================================================
