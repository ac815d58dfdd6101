--------------------------- MODULE GenerationCache ---------------------------
(***************************************************************************)
(* The bounded, generation-guarded query cache of gitsail-application      *)
(* (crates/gitsail-application/src/cache.rs), which GraphCache wraps for   *)
(* pages of the commit graph.  The cache keeps three independent mutexes:  *)
(* the entries, the insertion order and the generation.  One action is one *)
(* critical section, so every interleaving of threads that the mutexes     *)
(* allow is a behaviour of this module.                                    *)
(*                                                                         *)
(* A cached result is abstracted to the version of the repository it was   *)
(* read from; `source' is the version the repository is at now.  The       *)
(* threads in Invalidators mutate the repository and then invalidate the   *)
(* cache, as RepositorySession::run_mutation does.                         *)
(***************************************************************************)
EXTENDS Naturals, FiniteSets, Sequences, Functions

CONSTANTS
    Keys,           \* distinct graph-page queries
    Queriers,       \* threads that run begin_query .. complete_query
    Invalidators,   \* threads that mutate the repository, then invalidate
    Capacity,       \* the capacity passed to GenerationCache::new
    MaxQueries,     \* bound: queries begun in a behaviour
    MaxChanges      \* bound: changes of the repository and invalidations

ASSUME CapacityAssumption == Capacity \in Nat
ASSUME BoundsAssumption == MaxQueries \in Nat /\ MaxChanges \in Nat
ASSUME KeysAssumption == IsFiniteSet(Keys)
ASSUME ThreadsDisjoint == Queriers \cap Invalidators = {}

Threads == Queriers \cup Invalidators

\* GenerationCache::new clamps the capacity to at least one.
EffectiveCapacity == IF Capacity = 0 THEN 1 ELSE Capacity

VARIABLES
    entries,     \* key -> cached result, a partial function on Keys
    order,       \* the keys in insertion order, oldest first
    generation,  \* tickets issued so far
    query,       \* per thread: where it is, and what it carries
    source,      \* version of the repository outside the cache
    clears       \* history: times invalidate_all has emptied the entries

vars == <<entries, order, generation, query, source, clears>>

Idle == [at |-> "idle"]

(***************************************************************************)
(* A result remembers the ticket of its query, and (history, for the       *)
(* properties) the number of invalidations that had run when it was read   *)
(* from the repository and when it was stored.                             *)
(***************************************************************************)
Result == [version : 0..MaxChanges, ticket : 1..MaxQueries,
           readAt : 0..MaxChanges, storedAt : 0..MaxChanges]

QueryState ==
    {Idle}
    \cup [at : {"querying"}, key : Keys, ticket : 1..MaxQueries]
    \cup [at : {"answered", "admitted"}, key : Keys, ticket : 1..MaxQueries,
          version : 0..MaxChanges, readAt : 0..MaxChanges]

InvalidatorState == {Idle} \cup [at : {"changed", "emptied"}]

-----------------------------------------------------------------------------
(***************************************************************************)
(* complete_query's eviction loop: while more than `capacity' entries are  *)
(* cached, the front of the order is popped and its entry removed; an      *)
(* empty order ends the loop.  Popped(es, ord) is the number of pops.      *)
(***************************************************************************)
FirstOnes(ord, n) == {ord[i] : i \in 1..n}

Fits(es, ord, n, limit) == Cardinality(DOMAIN es \ FirstOnes(ord, n)) <= limit

FirstFit(es, ord, limit) ==
    IF \E n \in 0..Len(ord) : Fits(es, ord, n, limit)
    THEN CHOOSE n \in 0..Len(ord) :
            /\ Fits(es, ord, n, limit)
            /\ \A m \in 0..Len(ord) : Fits(es, ord, m, limit) => n <= m
    ELSE Len(ord)

\* Mutated form: an off-by-one in the loop's condition (entries.len() > capacity + 1).
PoppedLate(es, ord) == FirstFit(es, ord, EffectiveCapacity + 1)

Popped(es, ord) == FirstFit(es, ord, EffectiveCapacity)

Eviction(es, ord) ==
    LET n == Popped(es, ord)
    IN  [entries |-> Restrict(es, DOMAIN es \ FirstOnes(ord, n)),
         order   |-> SubSeq(ord, n + 1, Len(ord))]

\* The entries with `result' inserted under `key'.
Inserted(es, key, result) ==
    [k \in DOMAIN es \cup {key} |-> IF k = key THEN result ELSE es[k]]

\* The order after the key is pushed, which happens only for a new entry.
Pushed(es, ord, key) == IF key \in DOMAIN es THEN ord ELSE Append(ord, key)

-----------------------------------------------------------------------------
Init ==
    /\ entries = [k \in {} |-> 0]
    /\ order = <<>>
    /\ generation = 0
    /\ query = [t \in Threads |-> Idle]
    /\ source = 0
    /\ clears = 0

\* begin_query: bump the generation and hand out its new value as the ticket.
BeginQuery(t, key) ==
    /\ query[t] = Idle
    /\ generation < MaxQueries
    /\ generation' = generation + 1
    /\ query' = [query EXCEPT ![t] = [at |-> "querying", key |-> key, ticket |-> generation']]
    /\ UNCHANGED <<entries, order, source, clears>>

\* The port answers the query from the repository as it is at that moment.
ReadRepository(t) ==
    /\ query[t].at = "querying"
    /\ query' = [query EXCEPT ![t] =
                    [at |-> "answered", key |-> @.key, ticket |-> @.ticket,
                     version |-> source, readAt |-> clears]]
    /\ UNCHANGED <<entries, order, generation, source, clears>>

\* The port fails: the caller returns the error and never calls complete_query.
ReadFails(t) ==
    /\ query[t].at = "querying"
    /\ query' = [query EXCEPT ![t] = Idle]
    /\ UNCHANGED <<entries, order, generation, source, clears>>

\* complete_query, first critical section: the ticket is compared with the
\* generation, and the generation's lock is released before the entries' is taken.
CheckTicket(t) ==
    /\ query[t].at = "answered"
    /\ query' = [query EXCEPT ![t] =
                    IF @.ticket = generation THEN [@ EXCEPT !.at = "admitted"] ELSE Idle]
    /\ UNCHANGED <<entries, order, generation, source, clears>>

\* complete_query, second critical section: insert, then evict down to capacity.
Store(t) ==
    /\ query[t].at = "admitted"
    /\ LET q      == query[t]
           result == [version |-> q.version, ticket |-> q.ticket,
                      readAt |-> q.readAt, storedAt |-> clears]
           kept   == Eviction(Inserted(entries, q.key, result), Pushed(entries, order, q.key))
       IN  /\ entries' = kept.entries
           /\ order' = kept.order
    /\ query' = [query EXCEPT ![t] = Idle]
    /\ UNCHANGED <<generation, source, clears>>

\* A mutation changes the repository; the thread has yet to invalidate.
ChangeRepository(t) ==
    /\ query[t] = Idle
    /\ source < MaxChanges
    /\ source' = source + 1
    /\ query' = [query EXCEPT ![t] = [at |-> "changed"]]
    /\ UNCHANGED <<entries, order, generation, clears>>

\* Mutated form: only the insertion order is cleared.
EmptyEntriesForgotten(t) ==
    /\ query[t].at \in {"idle", "changed"}
    /\ clears < MaxChanges
    /\ clears' = clears + 1
    /\ query' = [query EXCEPT ![t] = [at |-> "emptied"]]
    /\ UNCHANGED <<entries, order, generation, source>>

\* invalidate_all, first critical section: the entries are cleared and their
\* lock released.  After a change, or on its own (switch_repository, a refresh).
EmptyEntries(t) ==
    /\ query[t].at \in {"idle", "changed"}
    /\ clears < MaxChanges
    /\ clears' = clears + 1
    /\ entries' = [k \in {} |-> 0]
    /\ query' = [query EXCEPT ![t] = [at |-> "emptied"]]
    /\ UNCHANGED <<order, generation, source>>

\* invalidate_all, second critical section: the order is cleared.
EmptyOrder(t) ==
    /\ query[t].at = "emptied"
    /\ order' = <<>>
    /\ query' = [query EXCEPT ![t] = Idle]
    /\ UNCHANGED <<entries, generation, source, clears>>

Next ==
    \/ \E t \in Queriers :
        \/ \E k \in Keys : BeginQuery(t, k)
        \/ ReadRepository(t)
        \/ ReadFails(t)
        \/ CheckTicket(t)
        \/ Store(t)
    \/ \E t \in Invalidators :
        \/ ChangeRepository(t)
        \/ EmptyEntries(t)
        \/ EmptyOrder(t)

Spec == Init /\ [][Next]_vars

-----------------------------------------------------------------------------
\* The shape of the state: results and threads carry tickets already issued,
\* and no version or invalidation count is ahead of the repository's.
TypeOK ==
    /\ DOMAIN entries \subseteq Keys
    /\ \A k \in DOMAIN entries : entries[k] \in Result /\ entries[k].ticket <= generation
    /\ order \in Seq(Keys)
    /\ generation \in 0..MaxQueries
    /\ query \in [Threads -> QueryState \cup InvalidatorState]
    /\ source \in 0..MaxChanges
    /\ clears \in 0..MaxChanges

\* The cache never holds more than its capacity, whatever threads store into
\* it while others invalidate it, and although invalidate_all leaves the
\* order full of keys that are no longer cached, or clears it under entries
\* that are (cache.rs: "never grow without bound").
SizeBound == Cardinality(DOMAIN entries) <= EffectiveCapacity

\* A result older than the repository survives in the cache, once every
\* mutation has invalidated it, only when an invalidation ran between the
\* read of that result and its store: a query that does not straddle an
\* invalidation never leaves stale data behind.
StaleOnlyAcrossInvalidation ==
    (\A t \in Invalidators : query[t].at # "changed") =>
        \A k \in DOMAIN entries :
            entries[k].version < source => entries[k].readAt < entries[k].storedAt

(***************************************************************************)
(* The strengthening that makes the invariants above inductive: threads    *)
(* carry tickets already issued and reads no newer than the last           *)
(* invalidation, and once every change has been invalidated an answer in   *)
(* flight is older than the repository only if its read straddles an       *)
(* invalidation.                                                           *)
(***************************************************************************)
Carrying(t) == query[t].at \in {"querying", "answered", "admitted"}
Answered(t) == query[t].at \in {"answered", "admitted"}

TicketsIssued == \A t \in Threads : Carrying(t) => query[t].ticket <= generation

ReadsPrecede ==
    /\ \A t \in Threads : Answered(t) => query[t].readAt <= clears
    /\ \A k \in DOMAIN entries : entries[k].storedAt <= clears

AnswersStaleOnlyAcrossInvalidation ==
    (\A t \in Invalidators : query[t].at # "changed") =>
        \A t \in Threads :
            Answered(t) /\ query[t].version < source => query[t].readAt < clears

IInv ==
    /\ TypeOK
    /\ TicketsIssued
    /\ ReadsPrecede
    /\ SizeBound
    /\ AnswersStaleOnlyAcrossInvalidation
    /\ StaleOnlyAcrossInvalidation

=============================================================================
