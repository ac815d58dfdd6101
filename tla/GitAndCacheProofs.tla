------------------------- MODULE GitAndCacheProofs -------------------------
(***************************************************************************)
(* Proofs about GenerationCache, for every set of keys and threads and     *)
(* every capacity and bound; about GitWrites, for every set of paths and   *)
(* branches; and about the reads of GitReads and VsCodeReads; whatever     *)
(* others do to the repository between two runs.                           *)
(***************************************************************************)
EXTENDS GenerationCache, GitWrites, VsCodeReads, FiniteSetTheorems, SequenceTheorems,
        WellFoundedInduction, TLAPS

(***************************************************************************)
(* A non-empty set of naturals up to N has a least element.                *)
(***************************************************************************)
LEMMA LeastOfInterval ==
  ASSUME NEW N \in Nat, NEW S \in SUBSET (0..N), S # {}
  PROVE  \E n \in S : \A m \in S : n <= m
<1> DEFINE R == StrictSubsetOrdering(1..N)
           T == {1..n : n \in S}
<1>1. IsFiniteSet(1..N)
  BY FS_Interval
<1>2. IsWellFoundedOn(R, FiniteSubsetsOf(1..N))
  BY FS_StrictSubsetOrderingWellFounded
<1>3. T \subseteq FiniteSubsetsOf(1..N)
  BY <1>1, FS_FiniteSubsetsOfFinite
<1>4. T # {}
  OBVIOUS
<1>5. PICK x \in T : \A y \in T : ~ (<<y, x>> \in R)
  <2> HIDE DEF R, T
  <2> QED BY <1>2, <1>3, <1>4, WFMin
<1>6. PICK n \in S : x = 1..n
  OBVIOUS
<1>7. ASSUME NEW m \in S, m < n PROVE FALSE
  <2>1. <<1..m, 1..n>> \in R
    <3>1. /\ 1..m \subseteq 1..n
          /\ n \in 1..n /\ n \notin 1..m
          /\ 1..m \subseteq 1..N /\ 1..n \subseteq 1..N
      BY <1>7
    <3> QED BY <3>1 DEF StrictSubsetOrdering
  <2> QED BY <2>1, <1>5, <1>6
<1> QED BY <1>7

(***************************************************************************)
(* The eviction loop pops a number of keys that the order can supply, and  *)
(* stops with at most `limit' entries whenever popping the whole order     *)
(* would leave that few.                                                   *)
(***************************************************************************)
LEMMA FirstFitFits ==
  ASSUME NEW es, NEW ord, Len(ord) \in Nat, NEW limit
  PROVE  /\ FirstFit(es, ord, limit) \in 0..Len(ord)
         /\ Fits(es, ord, Len(ord), limit) =>
              Fits(es, ord, FirstFit(es, ord, limit), limit)
<1> DEFINE S == {n \in 0..Len(ord) : Fits(es, ord, n, limit)}
<1>1. CASE S = {}
  <2>1. ~ \E n \in 0..Len(ord) : Fits(es, ord, n, limit)
    BY <1>1
  <2>2. FirstFit(es, ord, limit) = Len(ord)
    BY <2>1 DEF FirstFit
  <2> QED BY <2>1, <2>2
<1>2. CASE S # {}
  <2>1. PICK n \in S : \A m \in S : n <= m
    BY <1>2, LeastOfInterval, S \in SUBSET (0..Len(ord))
  <2>2. \E k \in 0..Len(ord) :
            /\ Fits(es, ord, k, limit)
            /\ \A m \in 0..Len(ord) : Fits(es, ord, m, limit) => k <= m
    BY <2>1
  <2>3. \E k \in 0..Len(ord) : Fits(es, ord, k, limit)
    BY <2>1
  <2>4. FirstFit(es, ord, limit) =
          CHOOSE k \in 0..Len(ord) :
            /\ Fits(es, ord, k, limit)
            /\ \A m \in 0..Len(ord) : Fits(es, ord, m, limit) => k <= m
    BY <2>3 DEF FirstFit
  <2>5. /\ FirstFit(es, ord, limit) \in 0..Len(ord)
        /\ Fits(es, ord, FirstFit(es, ord, limit), limit)
    BY <2>2, <2>4
  <2> QED BY <2>5
<1> QED BY <1>1, <1>2

(***************************************************************************)
(* complete_query's insertion and eviction: what is kept was cached before *)
(* or is the new result, the order stays a sequence of keys, and the       *)
(* capacity is respected whatever the order held before.                   *)
(***************************************************************************)
LEMMA EvictionBounds ==
  ASSUME NEW es, NEW ord \in Seq(Keys), NEW key \in Keys, NEW found,
         DOMAIN es \subseteq Keys,
         Cardinality(DOMAIN es) <= EffectiveCapacity
  PROVE  LET kept == Eviction(Inserted(es, key, found), Pushed(es, ord, key))
         IN  /\ DOMAIN kept.entries \subseteq DOMAIN es \cup {key}
             /\ \A k \in DOMAIN kept.entries :
                    kept.entries[k] = IF k = key THEN found ELSE es[k]
             /\ kept.order \in Seq(Keys)
             /\ Cardinality(DOMAIN kept.entries) <= EffectiveCapacity
<1> DEFINE ins == Inserted(es, key, found)
           psh == Pushed(es, ord, key)
           n == Popped(ins, psh)
           kept == Eviction(ins, psh)
<1>1. psh \in Seq(Keys) /\ Len(psh) \in Nat
  BY DEF Pushed
<1>2. DOMAIN ins = DOMAIN es \cup {key}
  BY DEF Inserted
<1>3. IsFiniteSet(DOMAIN es) /\ IsFiniteSet(DOMAIN ins)
  BY KeysAssumption, FS_Subset, <1>2
<1>4. /\ n \in 0..Len(psh)
      /\ Fits(ins, psh, Len(psh), EffectiveCapacity) => Fits(ins, psh, n, EffectiveCapacity)
  BY <1>1, FirstFitFits DEF Popped
<1>5. Fits(ins, psh, Len(psh), EffectiveCapacity)
  <2>1. CASE key \in DOMAIN es
    <3>1. DOMAIN ins = DOMAIN es
      BY <1>2, <2>1
    <3>2. DOMAIN ins \ FirstOnes(psh, Len(psh)) \subseteq DOMAIN es
      BY <3>1
    <3>3. Cardinality(DOMAIN ins \ FirstOnes(psh, Len(psh))) <= Cardinality(DOMAIN es)
      BY <3>2, <1>3, FS_Subset
    <3> QED BY <3>3, <1>3, <1>1, FS_CardinalityType, FS_Subset, CapacityAssumption
            DEF Fits, EffectiveCapacity
  <2>2. CASE key \notin DOMAIN es
    <3>1. psh = Append(ord, key)
      BY <2>2 DEF Pushed
    <3>2. psh[Len(psh)] = key /\ Len(psh) \in 1..Len(psh)
      BY <3>1
    <3>3. key \in FirstOnes(psh, Len(psh))
      BY <3>2 DEF FirstOnes
    <3>4. DOMAIN ins \ FirstOnes(psh, Len(psh)) \subseteq DOMAIN es
      BY <1>2, <3>3
    <3>5. Cardinality(DOMAIN ins \ FirstOnes(psh, Len(psh))) <= Cardinality(DOMAIN es)
      BY <3>4, <1>3, FS_Subset
    <3> QED BY <3>5, <1>3, <3>4, FS_CardinalityType, FS_Subset, CapacityAssumption
            DEF Fits, EffectiveCapacity
  <2> QED BY <2>1, <2>2
<1>6. DOMAIN kept.entries = DOMAIN ins \ FirstOnes(psh, n)
  BY DEF Eviction, Restrict
<1>7. \A k \in DOMAIN kept.entries : kept.entries[k] = IF k = key THEN found ELSE es[k]
  <2> SUFFICES ASSUME NEW k \in DOMAIN kept.entries
               PROVE  kept.entries[k] = IF k = key THEN found ELSE es[k]
    OBVIOUS
  <2>1. kept.entries[k] = ins[k] /\ k \in DOMAIN ins
    BY <1>6 DEF Eviction, Restrict
  <2> QED BY <2>1, <1>2 DEF Inserted
<1>8. kept.order \in Seq(Keys)
  <2>1. kept.order = SubSeq(psh, n + 1, Len(psh))
    BY DEF Eviction
  <2> HIDE DEF psh, n
  <2> QED BY <2>1, <1>1, <1>4
<1>9. Cardinality(DOMAIN kept.entries) <= EffectiveCapacity
  BY <1>4, <1>5, <1>6 DEF Fits
<1> QED BY <1>2, <1>6, <1>7, <1>8, <1>9

USE BoundsAssumption, ThreadsDisjoint

LEMMA InitInv == Init => IInv
<1> SUFFICES ASSUME Init PROVE IInv
  OBVIOUS
<1>1. DOMAIN entries = {}
  BY DEF Init
<1>2. TypeOK
  BY <1>1 DEF Init, TypeOK, InvalidatorState, QueryState
<1>3. SizeBound
  BY <1>1, FS_EmptySet, CapacityAssumption DEF SizeBound, EffectiveCapacity
<1>4. \A t \in Threads : query[t].at = "idle"
  BY DEF Init, Idle
<1> QED
  BY <1>1, <1>2, <1>3, <1>4 DEF IInv, TicketsIssued, ReadsPrecede, Carrying, Answered,
     AnswersStaleOnlyAcrossInvalidation, StaleOnlyAcrossInvalidation

(***************************************************************************)
(* Every step but Store, ChangeRepository and EmptyEntries moves one       *)
(* thread to a state q and leaves the entries, the repository and the      *)
(* invalidation count alone.                                               *)
(***************************************************************************)
LEMMA ThreadMoveInv ==
  ASSUME IInv, NEW t \in Threads, NEW q \in QueryState \cup InvalidatorState,
         query' = [query EXCEPT ![t] = q],
         UNCHANGED <<entries, source, clears>>,
         order' \in Seq(Keys),
         generation' \in 0..MaxQueries, generation <= generation',
         query[t].at # "changed",
         q.at \in {"querying", "answered", "admitted"} => q.ticket <= generation',
         q.at \in {"answered", "admitted"} =>
            /\ q.readAt <= clears
            /\ (\A u \in Invalidators : query[u].at # "changed") =>
                  (q.version < source => q.readAt < clears)
  PROVE  IInv'
<1> USE DEF IInv, TypeOK
<1>1. TypeOK'
  BY DEF Result
<1>2. \A u \in Threads : query'[u] = IF u = t THEN q ELSE query[u]
  OBVIOUS
<1>3. TicketsIssued'
  <2> SUFFICES ASSUME NEW u \in Threads, Carrying(u)'
               PROVE  query'[u].ticket <= generation'
    BY DEF TicketsIssued
  <2>1. CASE u = t
    BY <2>1, <1>2 DEF Carrying
  <2>2. CASE u # t
    <3>1. query[u].ticket <= generation /\ query[u].ticket \in 1..MaxQueries
      BY <2>2, <1>2 DEF Carrying, TicketsIssued, QueryState, InvalidatorState, Idle
    <3> QED BY <3>1, <2>2, <1>2
  <2> QED BY <2>1, <2>2
<1>4. ReadsPrecede'
  BY <1>2 DEF ReadsPrecede, Answered
<1>5. SizeBound'
  BY DEF SizeBound
<1>6. (\A u \in Invalidators : query'[u].at # "changed") =>
          \A u \in Invalidators : query[u].at # "changed"
  BY <1>2 DEF Threads
<1>7. AnswersStaleOnlyAcrossInvalidation'
  BY <1>2, <1>6 DEF AnswersStaleOnlyAcrossInvalidation, Answered
<1>8. StaleOnlyAcrossInvalidation'
  BY <1>6 DEF StaleOnlyAcrossInvalidation
<1> QED BY <1>1, <1>3, <1>4, <1>5, <1>7, <1>8

LEMMA StoreInv ==
  ASSUME IInv, NEW t \in Queriers, Store(t)
  PROVE  IInv'
<1> USE DEF IInv, TypeOK
<1> DEFINE q == query[t]
           found == [version |-> q.version, ticket |-> q.ticket,
                      readAt |-> q.readAt, storedAt |-> clears]
           kept == Eviction(Inserted(entries, q.key, found), Pushed(entries, order, q.key))
<1>1. /\ t \in Threads /\ Answered(t) /\ Carrying(t)
      /\ q \in [at : {"answered", "admitted"}, key : Keys, ticket : 1..MaxQueries,
                version : 0..MaxChanges, readAt : 0..MaxChanges]
  BY DEF Store, Threads, Answered, Carrying, QueryState, InvalidatorState, Idle
<1>2. /\ entries' = kept.entries
      /\ order' = kept.order
      /\ query' = [query EXCEPT ![t] = Idle]
      /\ UNCHANGED <<generation, source, clears>>
  BY DEF Store
<1>3. found \in Result /\ found.ticket <= generation /\ found.storedAt <= clears
  BY <1>1 DEF Result, TicketsIssued
<1>4. /\ DOMAIN entries' \subseteq DOMAIN entries \cup {q.key}
      /\ \A k \in DOMAIN entries' : entries'[k] = IF k = q.key THEN found ELSE entries[k]
      /\ order' \in Seq(Keys)
      /\ Cardinality(DOMAIN entries') <= EffectiveCapacity
  <2> HIDE DEF found
  <2> QED BY <1>1, <1>2, EvictionBounds DEF SizeBound
<1>5. \A u \in Threads : query'[u] = IF u = t THEN Idle ELSE query[u]
  BY <1>1, <1>2
<1>6. TypeOK'
  <2>1. \A k \in DOMAIN entries' : entries'[k] \in Result /\ entries'[k].ticket <= generation
    BY <1>3, <1>4
  <2> HIDE DEF found
  <2> QED BY <1>1, <1>2, <1>4, <2>1 DEF QueryState
<1>7. TicketsIssued' /\ ReadsPrecede'
  <2> HIDE DEF found
  <2> QED BY <1>2, <1>3, <1>4, <1>5 DEF TicketsIssued, ReadsPrecede, Carrying, Answered, Idle
<1>8. SizeBound'
  BY <1>4 DEF SizeBound
<1>9. (\A u \in Invalidators : query'[u].at # "changed") =>
          \A u \in Invalidators : query[u].at # "changed"
  BY <1>1, <1>5 DEF Threads, Answered
<1>10. AnswersStaleOnlyAcrossInvalidation'
  BY <1>2, <1>5, <1>9 DEF AnswersStaleOnlyAcrossInvalidation, Answered, Idle
<1>11. StaleOnlyAcrossInvalidation'
  <2> SUFFICES ASSUME \A u \in Invalidators : query[u].at # "changed",
                      NEW k \in DOMAIN entries', entries'[k].version < source
               PROVE  entries'[k].readAt < entries'[k].storedAt
    BY <1>2, <1>9 DEF StaleOnlyAcrossInvalidation
  <2>1. CASE k = q.key
    <3>1. entries'[k] = found
      BY <2>1, <1>4
    <3>2. q.readAt < clears
      BY <3>1, <1>1 DEF AnswersStaleOnlyAcrossInvalidation
    <3> QED BY <3>1, <3>2
  <2>2. CASE k # q.key
    BY <2>2, <1>4 DEF StaleOnlyAcrossInvalidation
  <2> QED BY <2>1, <2>2
<1> QED BY <1>6, <1>7, <1>8, <1>10, <1>11

LEMMA ChangeRepositoryInv ==
  ASSUME IInv, NEW t \in Invalidators, ChangeRepository(t)
  PROVE  IInv'
<1> USE DEF IInv, TypeOK, ChangeRepository
<1>1. t \in Threads /\ [at |-> "changed"] \in InvalidatorState
  BY DEF Threads, InvalidatorState
<1>2. \A u \in Threads : query'[u] = IF u = t THEN [at |-> "changed"] ELSE query[u]
  BY <1>1
<1>3. TypeOK'
  BY <1>1 DEF Result
<1>4. TicketsIssued' /\ ReadsPrecede' /\ SizeBound'
  BY <1>2 DEF TicketsIssued, ReadsPrecede, SizeBound, Carrying, Answered
<1>5. query'[t].at = "changed"
  BY <1>1, <1>2
<1>6. AnswersStaleOnlyAcrossInvalidation' /\ StaleOnlyAcrossInvalidation'
  BY <1>5 DEF AnswersStaleOnlyAcrossInvalidation, StaleOnlyAcrossInvalidation
<1> QED BY <1>3, <1>4, <1>6

LEMMA EmptyEntriesInv ==
  ASSUME IInv, NEW t \in Invalidators, EmptyEntries(t)
  PROVE  IInv'
<1> USE DEF IInv, TypeOK, EmptyEntries
<1>1. t \in Threads /\ [at |-> "emptied"] \in InvalidatorState
  BY DEF Threads, InvalidatorState
<1>2. \A u \in Threads : query'[u] = IF u = t THEN [at |-> "emptied"] ELSE query[u]
  BY <1>1
<1>3. DOMAIN entries' = {} /\ clears' = clears + 1 /\ clears' \in 0..MaxChanges
  OBVIOUS
<1>4. TypeOK'
  BY <1>1, <1>3
<1>5. TicketsIssued'
  BY <1>2 DEF TicketsIssued, Carrying
<1>6. \A u \in Threads : Answered(u)' => Answered(u) /\ query'[u] = query[u]
  BY <1>2 DEF Answered
<1>7. \A u \in Threads : Answered(u)' => query'[u].readAt < clears'
  <2> SUFFICES ASSUME NEW u \in Threads, Answered(u)'
               PROVE  query'[u].readAt < clears'
    OBVIOUS
  <2>1. query[u].readAt \in 0..MaxChanges /\ query[u].readAt <= clears
    BY <1>6 DEF ReadsPrecede, Answered, QueryState, InvalidatorState, Idle
  <2> QED BY <2>1, <1>3, <1>6
<1>8. ReadsPrecede'
  <2>1. \A u \in Threads : Answered(u)' => query'[u].readAt <= clears'
    <3> SUFFICES ASSUME NEW u \in Threads, Answered(u)'
                 PROVE  query'[u].readAt <= clears'
      OBVIOUS
    <3>1. query[u].readAt \in 0..MaxChanges
      BY <1>6 DEF Answered, QueryState, InvalidatorState, Idle
    <3> QED BY <3>1, <1>3, <1>6, <1>7
  <2> QED BY <2>1, <1>3 DEF ReadsPrecede
<1>9. SizeBound'
  BY <1>3, FS_EmptySet, CapacityAssumption DEF SizeBound, EffectiveCapacity
<1>10. AnswersStaleOnlyAcrossInvalidation' /\ StaleOnlyAcrossInvalidation'
  BY <1>3, <1>7 DEF AnswersStaleOnlyAcrossInvalidation, StaleOnlyAcrossInvalidation
<1> QED BY <1>4, <1>5, <1>8, <1>9, <1>10

LEMMA StepInv == IInv /\ [Next]_vars => IInv'
<1> SUFFICES ASSUME IInv, [Next]_vars PROVE IInv'
  OBVIOUS
<1> USE DEF IInv, TypeOK
<1>1. ASSUME NEW t \in Queriers, NEW key \in Keys, BeginQuery(t, key) PROVE IInv'
  <2> DEFINE q == [at |-> "querying", key |-> key, ticket |-> generation + 1]
  <2>1. /\ query' = [query EXCEPT ![t] = q]
        /\ UNCHANGED <<entries, order, source, clears>>
        /\ generation' \in 0..MaxQueries /\ generation <= generation'
        /\ query[t].at # "changed" /\ t \in Threads
        /\ q.ticket <= generation'
    BY <1>1 DEF BeginQuery, Threads, Idle
  <2>2. q \in QueryState
    BY <1>1 DEF QueryState, BeginQuery
  <2>3. q.at = "querying"
    OBVIOUS
  <2> HIDE DEF q, IInv
  <2>4. order' \in Seq(Keys)
    BY <2>1 DEF IInv
  <2> QED BY <2>1, <2>2, <2>3, <2>4, ThreadMoveInv
<1>2. ASSUME NEW t \in Queriers, ReadRepository(t) PROVE IInv'
  <2> DEFINE q == [at |-> "answered", key |-> query[t].key, ticket |-> query[t].ticket,
                   version |-> source, readAt |-> clears]
  <2>1. t \in Threads /\ query[t].at = "querying" /\ Carrying(t)
    BY <1>2 DEF ReadRepository, Threads, Carrying
  <2>2. query[t].key \in Keys /\ query[t].ticket \in 1..MaxQueries
    BY <2>1 DEF QueryState, InvalidatorState, Idle
  <2>3. q \in QueryState /\ q.ticket <= generation /\ q.version = source /\ q.readAt = clears
    BY <2>1, <2>2 DEF QueryState, TicketsIssued
  <2>4. /\ query' = [query EXCEPT ![t] = q]
        /\ UNCHANGED <<entries, order, generation, source, clears>>
    BY <1>2, <2>1 DEF ReadRepository
  <2>5. order' \in Seq(Keys) /\ generation' \in 0..MaxQueries /\ generation <= generation'
    BY <2>4
  <2>6. ~(q.version < source) /\ q.readAt <= clears
    BY <2>3
  <2> HIDE DEF q, IInv
  <2> QED BY <2>1, <2>3, <2>4, <2>5, <2>6, ThreadMoveInv
<1>3. ASSUME NEW t \in Threads, query[t].at # "changed",
             query' = [query EXCEPT ![t] = Idle],
             UNCHANGED <<entries, generation, source, clears>>, order' \in Seq(Keys)
      PROVE  IInv'
  <2>1. Idle \in QueryState /\ Idle.at = "idle"
    BY DEF QueryState, Idle
  <2>2. generation' \in 0..MaxQueries /\ generation <= generation'
    BY <1>3
  <2> HIDE DEF IInv
  <2> QED BY <1>3, <2>1, <2>2, ThreadMoveInv
<1>4. ASSUME NEW t \in Queriers, ReadFails(t) PROVE IInv'
  BY <1>3, <1>4 DEF ReadFails, Threads
<1>5. ASSUME NEW t \in Queriers, CheckTicket(t) PROVE IInv'
  <2>1. CASE query[t].ticket = generation
    <3> DEFINE q == [query[t] EXCEPT !.at = "admitted"]
    <3>1. t \in Threads /\ query[t].at = "answered" /\ Carrying(t) /\ Answered(t)
      BY <1>5 DEF CheckTicket, Threads, Carrying, Answered
    <3>2. query[t] \in [at : {"answered", "admitted"}, key : Keys, ticket : 1..MaxQueries,
                        version : 0..MaxChanges, readAt : 0..MaxChanges]
      BY <3>1 DEF QueryState, InvalidatorState, Idle
    <3>3. /\ q \in QueryState
          /\ q.ticket = query[t].ticket /\ q.version = query[t].version
          /\ q.readAt = query[t].readAt
      BY <3>2 DEF QueryState
    <3>4. /\ query' = [query EXCEPT ![t] = q]
          /\ UNCHANGED <<entries, order, generation, source, clears>>
      BY <1>5, <2>1, <3>1 DEF CheckTicket
    <3>5. q.ticket <= generation /\ q.readAt <= clears
      BY <3>1, <3>3 DEF TicketsIssued, ReadsPrecede
    <3>6. (\A u \in Invalidators : query[u].at # "changed") =>
              (q.version < source => q.readAt < clears)
      BY <3>1, <3>3 DEF AnswersStaleOnlyAcrossInvalidation
    <3>7. order' \in Seq(Keys) /\ generation' \in 0..MaxQueries /\ generation <= generation'
      BY <3>4
    <3> HIDE DEF q, IInv
    <3> QED BY <3>1, <3>3, <3>4, <3>5, <3>6, <3>7, ThreadMoveInv
  <2>2. CASE query[t].ticket # generation
    BY <1>3, <1>5, <2>2 DEF CheckTicket, Threads
  <2> QED BY <2>1, <2>2
<1>6. ASSUME NEW t \in Queriers, Store(t) PROVE IInv'
  BY <1>6, StoreInv
<1>7. ASSUME NEW t \in Invalidators, ChangeRepository(t) PROVE IInv'
  BY <1>7, ChangeRepositoryInv
<1>8. ASSUME NEW t \in Invalidators, EmptyEntries(t) PROVE IInv'
  BY <1>8, EmptyEntriesInv
<1>9. ASSUME NEW t \in Invalidators, EmptyOrder(t) PROVE IInv'
  <2>1. order' \in Seq(Keys)
    BY <1>9 DEF EmptyOrder
  <2> QED BY <1>3, <1>9, <2>1 DEF EmptyOrder, Threads
<1>10. CASE UNCHANGED vars
  BY <1>10 DEF vars, Result, TicketsIssued, ReadsPrecede, SizeBound, Carrying, Answered,
     AnswersStaleOnlyAcrossInvalidation, StaleOnlyAcrossInvalidation
<1> HIDE DEF IInv
<1> QED
  BY <1>1, <1>2, <1>4, <1>5, <1>6, <1>7, <1>8, <1>9, <1>10 DEF Next

(***************************************************************************)
(* The invariant and its consequences: for every number of threads, keys   *)
(* and every capacity, the cache is well typed, stays within its capacity, *)
(* and holds stale results only when their query straddled an invalidation.*)
(***************************************************************************)
THEOREM Invariance == Spec => []IInv
<1>1. Init => IInv
  BY InitInv
<1>2. IInv /\ [Next]_vars => IInv'
  BY StepInv
<1> QED BY <1>1, <1>2, PTL DEF Spec

\* Every reachable state is well typed.
THEOREM TypeCorrect == Spec => []TypeOK
<1>1. IInv => TypeOK
  BY DEF IInv
<1> QED BY <1>1, Invariance, PTL

\* The cache never holds more than its capacity, through every race of
\* complete_query with invalidate_all.
THEOREM NeverOverCapacity == Spec => []SizeBound
<1>1. IInv => SizeBound
  BY DEF IInv
<1> QED BY <1>1, Invariance, PTL

\* A query that does not straddle an invalidation never leaves stale data.
THEOREM StalenessNeedsARace == Spec => []StaleOnlyAcrossInvalidation
<1>1. IInv => StaleOnlyAcrossInvalidation
  BY DEF IInv
<1> QED BY <1>1, Invariance, PTL

-----------------------------------------------------------------------------
(***************************************************************************)
(* The calls of GitWrites.  A behaviour is about one family of a           *)
(* repository for good, told by the fields of its record; each family has  *)
(* an inductive invariant: the types, what a call has left to do, and what *)
(* it has done so far to the repository it found, as long as no one else   *)
(* has acted.  Every action is shown to keep the invariant of its family,  *)
(* and to be fine: what the action properties ask of it.                   *)
(***************************************************************************)

StashRepos == [entries : Seq(Nat), made : Nat, dirty : BOOLEAN]
IndexRepos == [head : SUBSET Paths, index : SUBSET Paths, work : SUBSET Paths]
RefsRepos == [tip : [Branches -> Nat], current : Branches, tag : Nat,
              linked : Branches \cup Nat \cup {None}, linkedDirty : BOOLEAN]
RemoteRepos == [local : SUBSET Nat, tracking : SUBSET Nat, published : SUBSET Nat, made : Nat]

IsCall(c) ==
    /\ c = [name |-> c.name, steps |-> c.steps, arg |-> c.arg, before |-> c.before,
            found |-> c.found, since |-> c.since]
    /\ c.name # "none" /\ c.since \in 0 .. acts

LEMMA FamiliesApart ==
  /\ repo \in StashRepos => /\ InFamily("stash") /\ ~InFamily("index")
                            /\ ~InFamily("refs") /\ ~InFamily("remote")
  /\ repo \in IndexRepos => /\ ~InFamily("stash") /\ InFamily("index")
                            /\ ~InFamily("refs") /\ ~InFamily("remote")
  /\ repo \in RefsRepos => /\ ~InFamily("stash") /\ ~InFamily("index")
                           /\ InFamily("refs") /\ ~InFamily("remote")
  /\ repo \in RemoteRepos => /\ ~InFamily("stash") /\ ~InFamily("index")
                             /\ ~InFamily("refs") /\ InFamily("remote")
<1>1. /\ InFamily("stash") <=> "entries" \in DOMAIN repo
      /\ InFamily("index") <=> "index" \in DOMAIN repo
      /\ InFamily("refs") <=> "tip" \in DOMAIN repo
      /\ InFamily("remote") <=> "published" \in DOMAIN repo
  BY DEF InFamily
<1>2. ASSUME repo \in StashRepos PROVE DOMAIN repo = {"entries", "made", "dirty"}
  BY <1>2 DEF StashRepos
<1>3. ASSUME repo \in IndexRepos PROVE DOMAIN repo = {"head", "index", "work"}
  BY <1>3 DEF IndexRepos
<1>4. ASSUME repo \in RefsRepos
      PROVE  DOMAIN repo = {"tip", "current", "tag", "linked", "linkedDirty"}
  BY <1>4 DEF RefsRepos
<1>5. ASSUME repo \in RemoteRepos
      PROVE  DOMAIN repo = {"local", "tracking", "published", "made"}
  BY <1>5 DEF RemoteRepos
<1> QED BY <1>1, <1>2, <1>3, <1>4, <1>5

LEMMA OutcomeFields ==
  ASSUME NEW r, NEW e
  PROVE  Outcome(r, e).repo = r /\ Outcome(r, e).exit = e
BY DEF Outcome

LEMMA FailsKeep ==
  ASSUME NEW r, NEW X, NEW o \in Fails(r, X)
  PROVE  o.repo = r /\ o.exit \in X
BY OutcomeFields DEF Fails

LEMMA OkEnds ==
  ASSUME NEW r, NEW o \in Ok(r)
  PROVE  o.repo = r /\ o.exit = "ok"
BY OutcomeFields DEF Ok

LEMMA TailOf3 ==
  ASSUME NEW a, NEW b, NEW c
  PROVE  /\ Head(<<a, b, c>>) = a /\ Tail(<<a, b, c>>) = <<b, c>> /\ Len(<<a, b, c>>) = 3
         /\ <<a, b, c>> # << >>
OBVIOUS
LEMMA TailOf2 ==
  ASSUME NEW a, NEW b
  PROVE  /\ Head(<<a, b>>) = a /\ Tail(<<a, b>>) = <<b>> /\ Len(<<a, b>>) = 2
         /\ <<a, b>> # << >>
OBVIOUS
LEMMA TailOf1 ==
  ASSUME NEW a
  PROVE  /\ Head(<<a>>) = a /\ Tail(<<a>>) = << >> /\ Len(<<a>>) = 1
         /\ <<a>> # << >>
OBVIOUS

StashMade(r) ==
    IF ~r.dirty THEN r
    ELSE [r EXCEPT !.entries = <<r.made + 1>> \o @, !.made = @ + 1, !.dirty = FALSE]

LEMMA StashPushes ==
  ASSUME NEW r, NEW o \in StashPush(r)
  PROVE  \/ o.repo = r /\ o.exit \in {"process", "locked"}
         \/ o.repo = StashMade(r) /\ o.exit = "ok"
BY FailsKeep, OkEnds DEF StashPush, Refusals, StashMade

Dirtied(r) == [r EXCEPT !.dirty = TRUE]
Removed(r, i) == [r EXCEPT !.entries = RemoveAt(@, i)]

LEMMA StashApplies ==
  ASSUME NEW r, NEW i, NEW o \in StashApply(r, i)
  PROVE  \/ o.repo = r /\ o.exit \in {"process", "locked", "missing", "overwritten"}
         \/ /\ o.repo = Dirtied(r) /\ o.exit \in {"ok", "conflict"}
            /\ ~(i > Len(r.entries))
BY FailsKeep, OutcomeFields DEF StashApply, Refusals, Dirtied

LEMMA StashDrops ==
  ASSUME NEW r, NEW i, NEW o \in StashDrop(r, i)
  PROVE  \/ o.repo = r /\ o.exit \in {"process", "locked", "missing"}
         \/ /\ o.repo = Removed(r, i) /\ o.exit = "ok"
            /\ ~(i > Len(r.entries))
BY FailsKeep, OkEnds DEF StashDrop, Refusals, Removed

LEMMA StashPops ==
  ASSUME NEW r, NEW i, NEW o \in StashPop(r, i)
  PROVE  \/ o.repo = r /\ o.exit \in {"process", "locked", "missing", "overwritten"}
         \/ /\ o.repo = Dirtied(r) /\ o.exit = "conflict"
            /\ ~(i > Len(r.entries))
         \/ /\ o.repo = Removed(Dirtied(r), i)
            /\ o.exit = "ok" /\ ~(i > Len(r.entries))
<1>1. PICK p \in StashApply(r, i) :
          o = IF p.exit = "ok" THEN Outcome(Removed(p.repo, i), "ok") ELSE p
  BY DEF StashPop, Removed
<1>2. CASE p.exit = "ok"
  <2>1. o = Outcome(Removed(p.repo, i), "ok")
    BY <1>1, <1>2
  <2>2. p.repo = Dirtied(r) /\ ~(i > Len(r.entries))
    BY StashApplies, <1>2
  <2> QED BY <2>1, <2>2, OutcomeFields
<1>3. CASE p.exit # "ok"
  BY <1>1, <1>3, StashApplies
<1> QED BY <1>2, <1>3

LEMMA RemoveAtIn ==
  ASSUME NEW es \in Seq(Nat), NEW i \in 1 .. Len(es)
  PROVE  RemoveAt(es, i) \in Seq(Nat)
<1>1. SubSeq(es, 1, i - 1) \in Seq(Nat) /\ SubSeq(es, i + 1, Len(es)) \in Seq(Nat)
  BY SubSeqProperties
<1> QED BY <1>1, ConcatProperties DEF RemoveAt

LEMMA OrElseFirst ==
  ASSUME NEW f, NEW g, NEW x \in DOMAIN f
  PROVE  x \in DOMAIN OrElse(f, g) /\ OrElse(f, g)[x] = f[x]
BY DEF OrElse

LEMMA OrElseSecond ==
  ASSUME NEW f, NEW g, NEW x \in DOMAIN g, x \notin DOMAIN f
  PROVE  x \in DOMAIN OrElse(f, g) /\ OrElse(f, g)[x] = g[x]
BY DEF OrElse

LEMMA RestoreCodes ==
  CodeOf("conflict", OrElse(ClassifyStashRestore, ClassifyIndexLock)) = "Conflicts"
<1>1. PICK own : own = [conflict |-> "Conflicts", overwritten |-> "OperationConflict"]
  OBVIOUS
<1>2. "conflict" \in DOMAIN own /\ own["conflict"] = "Conflicts"
  BY <1>1
<1>3. ClassifyStashRestore = OrElse(own, ClassifyStashMissing)
  BY <1>1 DEF ClassifyStashRestore
<1>4. "conflict" \in DOMAIN ClassifyStashRestore /\ ClassifyStashRestore["conflict"] = "Conflicts"
  BY <1>2, <1>3, OrElseFirst, Zenon
<1> QED BY <1>4, OrElseFirst, Zenon DEF CodeOf

LEMMA PushCodes ==
  ASSUME NEW f \in {ClassifyPush, ClassifyForcePush}
  PROVE  /\ CodeOf("unreachable", OrElse(f, ClassifyIndexLock)) = "NetworkFailure"
         /\ CodeOf("cancelled", OrElse(f, ClassifyIndexLock)) = "Cancelled"
<1>1. PICK own : /\ f = OrElse(own, ClassifyTransport)
                 /\ DOMAIN own \subseteq {"rejected", "stale"}
  <2>1. /\ DOMAIN [rejected |-> "OperationConflict"] = {"rejected"}
        /\ DOMAIN [stale |-> "OperationConflict"] = {"stale"}
    OBVIOUS
  <2> QED BY <2>1 DEF ClassifyPush, ClassifyForcePush
<1>2. /\ DOMAIN ClassifyTransport = {"authentication", "unreachable"}
      /\ ClassifyTransport["unreachable"] = "NetworkFailure"
  BY DEF ClassifyTransport
<1>3. DOMAIN ClassifyIndexLock = {"locked", "cancelled"} /\ ClassifyIndexLock["cancelled"] = "Cancelled"
  BY DEF ClassifyIndexLock
<1>4. /\ "unreachable" \in DOMAIN f /\ f["unreachable"] = "NetworkFailure"
  <2>1. "unreachable" \in DOMAIN ClassifyTransport /\ "unreachable" \notin DOMAIN own
    BY <1>1, <1>2
  <2>2. /\ "unreachable" \in DOMAIN OrElse(own, ClassifyTransport)
        /\ OrElse(own, ClassifyTransport)["unreachable"] = ClassifyTransport["unreachable"]
    BY <2>1, OrElseSecond
  <2> QED BY <1>1, <1>2, <2>2, Zenon
<1>5. "cancelled" \notin DOMAIN f
  <2>1. "cancelled" \notin DOMAIN own \cup DOMAIN ClassifyTransport
    BY <1>1, <1>2
  <2> QED BY <1>1, <2>1 DEF OrElse
<1>6. /\ "unreachable" \in DOMAIN OrElse(f, ClassifyIndexLock)
      /\ OrElse(f, ClassifyIndexLock)["unreachable"] = "NetworkFailure"
  BY <1>4, OrElseFirst, Zenon
<1>7. /\ "cancelled" \in DOMAIN OrElse(f, ClassifyIndexLock)
      /\ OrElse(f, ClassifyIndexLock)["cancelled"] = "Cancelled"
  <2>1. "cancelled" \in DOMAIN ClassifyIndexLock
    BY <1>3
  <2>2. /\ "cancelled" \in DOMAIN OrElse(f, ClassifyIndexLock)
        /\ OrElse(f, ClassifyIndexLock)["cancelled"] = ClassifyIndexLock["cancelled"]
    BY <1>5, <2>1, OrElseSecond
  <2> QED BY <1>3, <2>2, Zenon
<1> QED BY <1>6, <1>7 DEF CodeOf

LEMMA FailuresAreNotOk ==
  ASSUME NEW f, \A x \in DOMAIN f : f[x] # "Ok", NEW e
  PROVE  CodeOf(e, OrElse(f, ClassifyIndexLock)) # "Ok"
<1>1. \A x \in DOMAIN ClassifyIndexLock : ClassifyIndexLock[x] # "Ok"
  BY DEF ClassifyIndexLock
<1> QED BY <1>1 DEF CodeOf, OrElse

Ended(code, value) == call' = NoCall /\ answer' = [code |-> code, value |-> value]

LEMMA RanIs ==
  ASSUME NEW outcomes, NEW classified, NEW value, Ran(outcomes, classified, value)
  PROVE  /\ seen' = seen /\ acts' = acts
         /\ \E o \in outcomes :
               /\ repo' = o.repo
               /\ \/ /\ o.exit \notin {"ok", "up_to_date"}
                     /\ Ended(CodeOf(o.exit, classified), None)
                  \/ /\ o.exit \in {"ok", "up_to_date"}
                     /\ Len(call.steps) = 1 \/ o.exit = "up_to_date"
                     /\ Ended("Ok", value)
                  \/ /\ o.exit = "ok" /\ Len(call.steps) # 1
                     /\ call' = [call EXCEPT !.steps = Tail(@)]
BY DEF Ran, Refuse, Answer, Proceed, ProceedWith, Ended, CodeOf

LEMMA LastRun ==
  ASSUME NEW outcomes, NEW classified, NEW value, Ran(outcomes, classified, value),
         Len(call.steps) = 1
  PROVE  /\ seen' = seen /\ acts' = acts /\ call' = NoCall
         /\ \E o \in outcomes :
               /\ repo' = o.repo
               /\ \/ /\ o.exit \notin {"ok", "up_to_date"}
                     /\ answer'.code = CodeOf(o.exit, classified)
                  \/ /\ o.exit \in {"ok", "up_to_date"}
                     /\ answer'.code = "Ok" /\ answer'.value = value
<1>1. /\ seen' = seen /\ acts' = acts
      /\ \E o \in outcomes :
               /\ repo' = o.repo
               /\ \/ /\ o.exit \notin {"ok", "up_to_date"}
                     /\ Ended(CodeOf(o.exit, classified), None)
                  \/ /\ o.exit \in {"ok", "up_to_date"}
                     /\ Len(call.steps) = 1 \/ o.exit = "up_to_date"
                     /\ Ended("Ok", value)
                  \/ /\ o.exit = "ok" /\ Len(call.steps) # 1
                     /\ call' = [call EXCEPT !.steps = Tail(@)]
  BY RanIs, Zenon
<1>2. \A c, v : Ended(c, v) => call' = NoCall /\ answer'.code = c /\ answer'.value = v
  BY DEF Ended
<1> HIDE DEF Ended
<1> QED BY <1>1, <1>2

\* The call, one step on.
Onward ==
    /\ IsCall(call)'
    /\ call'.name = call.name /\ call'.steps = Tail(call.steps) /\ call'.found = call.found
    /\ call'.since = call.since

LEMMA NextStep ==
  ASSUME IsCall(call), acts' = acts, call' = [call EXCEPT !.steps = Tail(@)]
  PROVE  Onward /\ call'.arg = call.arg /\ call'.before = call.before
<1>1. PICK rest : rest = Tail(call.steps)
  OBVIOUS
<1>2. call' = [call EXCEPT !.steps = rest]
  BY <1>1
<1> QED BY <1>1, <1>2 DEF IsCall, Onward

Begun(name, arg) ==
    /\ IsCall(call)' /\ call = NoCall
    /\ call'.name = name /\ call'.steps = Steps(name) /\ call'.arg = arg
    /\ call'.found = repo /\ call'.since = acts
    /\ repo' = repo /\ seen' = seen /\ acts' = acts /\ answer' = NoAnswer

LEMMA BeginIs ==
  ASSUME NEW name, name # "none", NEW arg, Begin(name, arg), acts \in Nat
  PROVE  Begun(name, arg)
<1>1. PICK steps : steps = Steps(name)
  OBVIOUS
<1>2. call' = [NoCall EXCEPT !.name = name, !.steps = steps, !.arg = arg,
                              !.found = repo, !.since = acts]
  BY <1>1 DEF Begin
<1>3. /\ call = NoCall /\ repo' = repo /\ seen' = seen /\ acts' = acts /\ answer' = NoAnswer
  BY DEF Begin
<1>4. call' = [name |-> name, steps |-> steps, arg |-> arg, before |-> 0,
               found |-> repo, since |-> acts]
  BY <1>2 DEF NoCall
<1>5. /\ call'.name = name /\ call'.steps = steps /\ call'.arg = arg /\ call'.before = 0
      /\ call'.found = repo /\ call'.since = acts
  BY <1>4
<1>6. IsCall(call)'
  BY <1>3, <1>4, <1>5 DEF IsCall
<1> QED BY <1>1, <1>3, <1>5, <1>6 DEF Begun

LEMMA NoCallNone == NoCall.name = "none" /\ NoCall.steps = << >> /\ NoCall.since = 0
BY DEF NoCall

LEMMA Busy ==
  ASSUME IsCall(call)
  PROVE  call # NoCall
BY NoCallNone DEF IsCall

LEMMA AtIs ==
  ASSUME NEW name, NEW step, name # "none", At(name, step)
  PROVE  call # NoCall /\ call.name = name /\ call.steps # << >> /\ Head(call.steps) = step
BY NoCallNone DEF At

-----------------------------------------------------------------------------
(* Stashes *)

StashNames == {"apply_stash", "pop_stash", "drop_stash"}

CreatingStash ==
    /\ IsCall(call) /\ call.name = "create_stash"
    /\ \/ /\ call.steps = <<"list", "run", "list_again">>
          /\ Undisturbed => repo = call.found
       \/ /\ call.steps = <<"run", "list_again">>
          /\ Undisturbed => repo = call.found /\ call.before = Len(repo.entries)
       \/ /\ call.steps = <<"list_again">>
          /\ Undisturbed => /\ call.found \in StashRepos /\ call.before = Len(call.found.entries)
                            /\ repo \in {call.found, StashMade(call.found)}

UsingStash ==
    /\ IsCall(call) /\ call.name \in StashNames /\ call.arg.index \in Nat \ {0}
    /\ Undisturbed => repo = call.found
    /\ \/ call.steps = <<"same_entry", "run">>
       \/ /\ call.steps = <<"run">>
          /\ Undisturbed => repo.entries[call.arg.index] = call.arg.commit

StashInv ==
    /\ repo \in StashRepos /\ seen \in StashRepos /\ acts \in Nat
    /\ call = NoCall \/ CreatingStash \/ UsingStash

StashLoses(r, s) ==
    \/ ~Range(r.entries) \subseteq Range(s.entries) /\ ~s.dirty
    \/ r.dirty /\ ~s.dirty /\ r.made = s.made

StashFine ==
    /\ acts' = acts /\ StashLoses(repo, repo') => call.name = "drop_stash"
    /\ Ends /\ Undisturbed =>
        /\ answer'.code \in RefusalCodes => repo' = call.found
        /\ answer'.code = "Ok" /\ call.name = "create_stash" =>
               answer'.value = repo'.entries[1] /\ answer'.value > call.found.made

LEMMA PushedIs ==
  ASSUME NEW r \in StashRepos
  PROVE  /\ StashMade(r) \in StashRepos
         /\ r.dirty => /\ Len(StashMade(r).entries) = Len(r.entries) + 1
                       /\ StashMade(r).entries[1] = r.made + 1
                       /\ StashMade(r).made = r.made + 1
         /\ ~r.dirty => StashMade(r) = r
         /\ ~StashLoses(r, StashMade(r))
<1>1. PICK es \in Seq(Nat), m \in Nat, d \in BOOLEAN :
          es = r.entries /\ m = r.made /\ r = [entries |-> es, made |-> m, dirty |-> d]
  BY DEF StashRepos
<1>2. CASE r.dirty
  <2>1. PICK fs : fs = <<m + 1>> \o es
    OBVIOUS
  <2>2. StashMade(r) = [r EXCEPT !.entries = fs, !.made = m + 1, !.dirty = FALSE]
    BY <1>1, <1>2, <2>1 DEF StashMade
  <2>3. fs \in Seq(Nat) /\ Len(fs) = Len(es) + 1 /\ fs[1] = m + 1
        /\ \A k \in 1 .. Len(es) : fs[k + 1] = es[k]
    BY <2>1
  <2>4. StashMade(r) = [entries |-> fs, made |-> m + 1, dirty |-> FALSE]
    BY <1>1, <2>2
  <2>5. StashMade(r) \in StashRepos /\ StashMade(r).entries = fs /\ StashMade(r).made = m + 1
    BY <2>3, <2>4 DEF StashRepos
  <2>6. Range(es) \subseteq Range(fs)
    <3>1. DOMAIN es = 1 .. Len(es) /\ DOMAIN fs = 1 .. Len(fs) /\ Len(es) \in Nat
      BY <2>3
    <3>2. ASSUME NEW k \in DOMAIN es PROVE es[k] \in Range(fs)
      <4>1. k + 1 \in DOMAIN fs /\ fs[k + 1] = es[k]
        BY <2>3, <3>1
      <4> QED BY <4>1 DEF Range
    <3> QED BY <3>2 DEF Range
  <2>7. ~StashLoses(r, StashMade(r))
    BY <1>1, <2>5, <2>6 DEF StashLoses
  <2> QED BY <1>1, <1>2, <2>3, <2>5, <2>7
<1>3. CASE ~r.dirty
  <2>1. StashMade(r) = r
    BY <1>3 DEF StashMade
  <2> QED BY <1>3, <2>1 DEF StashLoses
<1> QED BY <1>2, <1>3

LEMMA StashStarts ==
  \A r \in InitialRepos("stash") : r \in StashRepos
<1>1. InitialRepos("stash") = {[entries |-> <<>>, made |-> 0, dirty |-> TRUE]}
  BY DEF InitialRepos
<1>2. PICK es : es = <<>> /\ es \in Seq(Nat)
  BY EmptySeq, Zenon
<1>3. [entries |-> es, made |-> 0, dirty |-> TRUE] \in StashRepos
  BY <1>2 DEF StashRepos
<1> QED BY <1>1, <1>2, <1>3

LEMMA StashBegins ==
  ASSUME StashInv, BeginStash
  PROVE  StashInv' /\ StashFine
<1> DEFINE Arg(i) == [index |-> i, commit |-> seen.entries[i]]
<1>1. acts \in Nat /\ seen \in StashRepos /\ repo \in StashRepos
  BY DEF StashInv
<1>2. CASE Begin("create_stash", None)
  <2>1. Begun("create_stash", None)
    BY <1>1, <1>2, BeginIs
  <2>2. call'.steps = <<"list", "run", "list_again">> /\ CreatingStash'
    BY <2>1 DEF Begun, Steps, CreatingStash, Undisturbed
  <2> QED BY <1>1, <2>1, <2>2, NoCallNone DEF StashInv, StashFine, Begun, Ends, StashLoses
<1>3. ASSUME NEW name \in StashNames, NEW i \in DOMAIN seen.entries, Begin(name, Arg(i))
      PROVE  StashInv' /\ StashFine
  <2>1. i \in Nat \ {0} /\ Arg(i).index = i
    BY <1>1 DEF StashRepos
  <2>2. Begun(name, Arg(i))
    <3> HIDE DEF Arg
    <3>1. name # "none"
      BY DEF StashNames
    <3> QED BY <1>1, <1>3, <3>1, BeginIs
  <2>3. call'.steps = <<"same_entry", "run">>
    BY <2>2 DEF Begun, Steps, StashNames
  <2>4. UsingStash'
    <3> HIDE DEF Arg
    <3> QED BY <2>1, <2>2, <2>3 DEF Begun, UsingStash, Undisturbed
  <2> QED BY <1>1, <2>2, <2>4 DEF StashInv, StashFine, Begun, Ends, StashLoses
<1> QED BY <1>2, <1>3 DEF BeginStash, StashNames

LEMMA StashReadFails ==
  ASSUME StashInv, ReadRunFails
  PROVE  StashInv' /\ StashFine
<1>1. /\ repo' = repo /\ seen' = seen /\ acts' = acts /\ call' = NoCall
      /\ answer' = [code |-> "ProcessFailure", value |-> None]
  BY DEF ReadRunFails, Read, Refuse, Answer
<1> QED BY <1>1 DEF StashInv, StashFine, StashLoses, RefusalCodes

LEMMA StashIsCreated ==
  ASSUME StashInv, CreateStash
  PROVE  StashInv' /\ StashFine
<1>1. acts \in Nat /\ seen \in StashRepos /\ repo \in StashRepos
  BY DEF StashInv
<1>2. call.name = "create_stash" /\ call # NoCall
  BY AtIs DEF CreateStash
<1>3. CreatingStash
  BY <1>2 DEF StashInv, UsingStash, StashNames
<1>4. IsCall(call)
  BY <1>3 DEF CreatingStash
<1>5. CASE At("create_stash", "list")
           /\ Read(ProceedWith([call EXCEPT !.before = Len(repo.entries)]))
  <2>1. PICK n : n = Len(repo.entries)
    OBVIOUS
  <2>2. PICK next : next = [call EXCEPT !.before = n]
    OBVIOUS
  <2>3. /\ call' = [next EXCEPT !.steps = Tail(@)]
        /\ repo' = repo /\ seen' = seen /\ acts' = acts
    BY <1>5, <2>1, <2>2 DEF Read, ProceedWith
  <2>4. call.steps = <<"list", "run", "list_again">>
    BY <1>3, <1>5, TailOf1, TailOf2 DEF At, CreatingStash
  <2>5. Tail(call.steps) = <<"run", "list_again">>
    BY <2>4, TailOf3
  <2>6. next = [name |-> call.name, steps |-> call.steps, arg |-> call.arg, before |-> n,
                found |-> call.found, since |-> call.since]
    BY <1>4, <2>2 DEF IsCall
  <2>7. call' = [name |-> call.name, steps |-> <<"run", "list_again">>, arg |-> call.arg,
                 before |-> n, found |-> call.found, since |-> call.since]
    BY <2>3, <2>5, <2>6
  <2>8. IsCall(call)' /\ call'.steps = <<"run", "list_again">> /\ call'.name = call.name
        /\ call'.found = call.found /\ call'.since = call.since /\ call'.before = n
    <3>1. /\ call'.name = call.name /\ call'.steps = <<"run", "list_again">>
          /\ call'.arg = call.arg /\ call'.before = n
          /\ call'.found = call.found /\ call'.since = call.since
      BY <2>7
    <3>2. call.name # "none" /\ call.since \in 0 .. acts
      BY <1>4 DEF IsCall
    <3> QED BY <2>3, <2>7, <3>1, <3>2 DEF IsCall
  <2>9. CreatingStash'
    BY <1>2, <1>3, <2>1, <2>3, <2>4, <2>8, TailOf3, TailOf2, TailOf1
    DEF CreatingStash, Undisturbed
  <2>10. call' # NoCall
    BY <2>8, <1>2, NoCallNone
  <2> QED BY <1>1, <2>3, <2>9, <2>10 DEF StashInv, StashFine, Ends, StashLoses
<1>6. CASE At("create_stash", "run") /\ RanLocking(StashPush(repo), <<>>)
  <2>1. call.steps = <<"run", "list_again">>
    BY <1>3, <1>6, TailOf1, TailOf3 DEF At, CreatingStash
  <2>2. PICK o \in StashPush(repo) :
               /\ repo' = o.repo /\ seen' = seen /\ acts' = acts
               /\ \/ /\ o.exit \notin {"ok", "up_to_date"} /\ call' = NoCall
                     /\ answer'.code # "Ok"
                  \/ o.exit = "up_to_date" /\ call' = NoCall
                  \/ o.exit = "ok" /\ call' = [call EXCEPT !.steps = Tail(@)]
    <3>1. Len(call.steps) # 1
      BY <2>1
    <3>2. \A e : CodeOf(e, OrElse(<<>>, ClassifyIndexLock)) # "Ok"
      BY FailuresAreNotOk
    <3> QED BY <1>6, <3>1, <3>2, RanIs DEF RanLocking, Ended
  <2>3. CASE call' = NoCall
    <3>1. repo' = repo
      BY <2>2, <2>3, StashPushes, <1>4, Busy, NextStep, <1>2, NoCallNone DEF Onward
    <3>2. answer'.code # "Ok"
      BY <2>2, <2>3, StashPushes, <1>4, Busy, NextStep, <1>2, NoCallNone DEF Onward
    <3>3. Undisturbed => repo = call.found
      BY <1>3, <2>1, TailOf1, TailOf2, TailOf3 DEF CreatingStash
    <3>4. StashInv'
      BY <1>1, <2>2, <2>3, <3>1 DEF StashInv
    <3>5. ~StashLoses(repo, repo')
      BY <3>1 DEF StashLoses
    <3> QED BY <3>1, <3>2, <3>3, <3>4, <3>5 DEF StashFine
  <2>4. CASE call' # NoCall
    <3>1. o.exit = "ok" /\ call' = [call EXCEPT !.steps = Tail(@)] /\ repo' = StashMade(repo)
      BY <2>2, <2>4, StashPushes
    <3>2. Onward /\ call'.before = call.before
      BY <1>4, <2>2, <3>1, NextStep
    <3>3. call'.steps = <<"list_again">>
      BY <2>1, <3>2, TailOf2 DEF Onward
    <3>4. CreatingStash'
      BY <1>1, <1>2, <1>3, <2>1, <2>2, <3>1, <3>2, <3>3, TailOf2, TailOf1
      DEF CreatingStash, Undisturbed, Onward
    <3> QED BY <1>1, <2>2, <2>4, <3>1, <3>4, PushedIs DEF StashInv, StashFine, Ends
  <2> QED BY <2>3, <2>4
<1>7. CASE /\ At("create_stash", "list_again")
           /\ Read(IF Len(repo.entries) = call.before THEN Refuse("InvalidRepositoryState")
                   ELSE IF repo.entries = <<>> THEN Refuse("panic")
                   ELSE Answer("Ok", repo.entries[1]))
  <2>1. call.steps = <<"list_again">>
    BY <1>3, <1>7, TailOf2, TailOf3 DEF At, CreatingStash
  <2>2. repo' = repo /\ seen' = seen /\ acts' = acts /\ call' = NoCall
    BY <1>7 DEF Read, Refuse, Answer
  <2>3. \/ Len(repo.entries) = call.before /\ answer'.code = "InvalidRepositoryState"
        \/ Len(repo.entries) # call.before /\ answer'.code = "panic"
        \/ /\ Len(repo.entries) # call.before
           /\ answer'.code = "Ok" /\ answer'.value = repo.entries[1]
    BY <1>7 DEF Read, Refuse, Answer
  <2>4. ASSUME Undisturbed
        PROVE  \/ repo = call.found /\ Len(repo.entries) = call.before
               \/ /\ Len(repo.entries) # call.before
                  /\ repo.entries[1] > call.found.made
    <3>1. /\ call.found \in StashRepos /\ call.before = Len(call.found.entries)
          /\ repo \in {call.found, StashMade(call.found)}
      BY <1>3, <2>1, <2>4, TailOf1, TailOf2, TailOf3 DEF CreatingStash
    <3>2. Len(call.found.entries) \in Nat /\ call.found.made \in Nat /\ call.found.dirty \in BOOLEAN
      BY <3>1 DEF StashRepos
    <3> QED BY <3>1, <3>2, PushedIs
  <2>5. StashInv'
    BY <1>1, <2>2 DEF StashInv
  <2> QED BY <2>2, <2>3, <2>4, <2>5 DEF StashFine, StashLoses, RefusalCodes
<1> QED BY <1>5, <1>6, <1>7 DEF CreateStash

LEMMA UsingStashIs ==
  ASSUME StashInv, call.name \in StashNames
  PROVE  UsingStash /\ call # NoCall
BY NoCallNone DEF StashInv, StashNames, CreatingStash

LEMMA StashIsRevalidated ==
  ASSUME StashInv, RevalidateStashIdentity
  PROVE  StashInv' /\ StashFine
<1>1. acts \in Nat /\ seen \in StashRepos /\ repo \in StashRepos
  BY DEF StashInv
<1>2. PICK name \in StashNames : At(name, "same_entry")
  BY DEF RevalidateStashIdentity, StashNames
<1>3. call.name \in StashNames /\ call.steps # <<>> /\ Head(call.steps) = "same_entry"
  BY <1>2 DEF At
<1>4. UsingStash /\ call # NoCall /\ call.name # "create_stash"
  BY <1>3, UsingStashIs DEF StashNames
<1>5. repo' = repo /\ seen' = seen /\ acts' = acts
  BY DEF RevalidateStashIdentity, Read
<1>6. ~StashLoses(repo, repo')
  BY <1>5 DEF StashLoses
<1>7. CASE /\ call.arg.index \in DOMAIN repo.entries
           /\ repo.entries[call.arg.index] = call.arg.commit
  <2>1. call' = [call EXCEPT !.steps = Tail(@)]
    BY <1>7 DEF RevalidateStashIdentity, Read, Proceed, ProceedWith
  <2>2. Onward /\ call'.arg = call.arg
    BY <1>4, <1>5, <2>1, NextStep DEF UsingStash
  <2>3. call.steps = <<"same_entry", "run">>
    BY <1>3, <1>4, TailOf1 DEF UsingStash
  <2>4. call'.steps = <<"run">>
    BY <2>2, <2>3, TailOf2 DEF Onward
  <2>5. UsingStash'
    BY <1>4, <1>5, <1>7, <2>2, <2>4 DEF UsingStash, Onward, Undisturbed
  <2>6. call' # NoCall
    BY <2>2, NoCallNone DEF Onward, IsCall
  <2> QED BY <1>1, <1>5, <1>6, <2>5, <2>6 DEF StashInv, StashFine, Ends
<1>8. CASE ~ (/\ call.arg.index \in DOMAIN repo.entries
              /\ repo.entries[call.arg.index] = call.arg.commit)
  <2>1. call' = NoCall /\ answer' = [code |-> "OperationConflict", value |-> None]
    BY <1>8 DEF RevalidateStashIdentity, Read, Refuse, Answer
  <2>2. Undisturbed => repo = call.found
    BY <1>4 DEF UsingStash
  <2>3. StashInv'
    BY <1>1, <1>5, <2>1 DEF StashInv
  <2> QED BY <1>4, <1>5, <1>6, <2>1, <2>2, <2>3 DEF StashFine
<1> QED BY <1>7, <1>8

LEMMA DirtyIs ==
  ASSUME NEW r \in StashRepos
  PROVE  Dirtied(r) \in StashRepos /\ Dirtied(r).entries = r.entries /\ Dirtied(r).dirty
BY DEF StashRepos, Dirtied

LEMMA RemovedIs ==
  ASSUME NEW r \in StashRepos, NEW i \in Nat \ {0}, ~ (i > Len(r.entries))
  PROVE  Removed(r, i) \in StashRepos /\ Removed(r, i).dirty = r.dirty
<1>1. r.entries \in Seq(Nat) /\ Len(r.entries) \in Nat
  BY DEF StashRepos
<1>2. PICK es \in Seq(Nat) : es = RemoveAt(r.entries, i)
  BY <1>1, RemoveAtIn
<1>3. Removed(r, i) = [r EXCEPT !.entries = es]
  BY <1>2 DEF Removed
<1>4. [r EXCEPT !.entries = es] \in StashRepos /\ [r EXCEPT !.entries = es].dirty = r.dirty
  BY DEF StashRepos
<1> QED BY <1>3, <1>4

\* The run of a call on one stash, whatever it runs.
LEMMA StashRun ==
  ASSUME StashInv, call.name \in StashNames, call.steps # <<>>, Head(call.steps) = "run",
         NEW outcomes, NEW classified, RanLocking(outcomes, classified),
         \A o \in outcomes :
            \/ o.repo = repo
            \/ o.exit = "ok" /\ o.repo \in StashRepos /\ (call.name # "drop_stash" => o.repo.dirty)
            \/ /\ o.exit = "conflict" /\ o.repo \in StashRepos /\ o.repo.dirty
               /\ CodeOf("conflict", OrElse(classified, ClassifyIndexLock)) = "Conflicts"
  PROVE  StashInv' /\ StashFine
<1>1. acts \in Nat /\ seen \in StashRepos /\ repo \in StashRepos
  BY DEF StashInv
<1>2. UsingStash /\ call # NoCall /\ call.name # "create_stash"
  BY UsingStashIs DEF StashNames
<1>3. call.steps = <<"run">>
  BY <1>2, TailOf2 DEF UsingStash
<1>4. Len(call.steps) = 1
  BY <1>3
<1>5. PICK o \in outcomes :
          /\ seen' = seen /\ acts' = acts /\ call' = NoCall /\ repo' = o.repo
          /\ \/ /\ o.exit \notin {"ok", "up_to_date"}
                /\ answer'.code = CodeOf(o.exit, OrElse(classified, ClassifyIndexLock))
             \/ o.exit \in {"ok", "up_to_date"} /\ answer'.code = "Ok"
  <2>1. PICK table : table = OrElse(classified, ClassifyIndexLock)
    OBVIOUS
  <2>2. Ran(outcomes, table, None)
    BY <2>1 DEF RanLocking
  <2> QED BY <1>4, <2>1, <2>2, LastRun
<1>6. StashInv'
  BY <1>1, <1>5 DEF StashInv
<1>7. StashLoses(repo, repo') => call.name = "drop_stash"
  <2>1. ~StashLoses(repo, repo)
    BY DEF StashLoses
  <2> QED BY <1>5, <2>1 DEF StashLoses
<1>8. Undisturbed /\ answer'.code \in RefusalCodes => repo' = call.found
  <2>1. Undisturbed => repo = call.found
    BY <1>2 DEF UsingStash
  <2> QED BY <1>5, <2>1 DEF RefusalCodes
<1> QED BY <1>2, <1>6, <1>7, <1>8 DEF StashFine

LEMMA StashRuns ==
  ASSUME StashInv, ApplyStash \/ PopStash \/ DropStash
  PROVE  StashInv' /\ StashFine
<1>1. /\ call.name \in StashNames /\ call.steps # <<>> /\ Head(call.steps) = "run"
      /\ DropStash => call.name = "drop_stash"
  BY DEF ApplyStash, PopStash, DropStash, At, StashNames
<1>2. PICK i \in Nat \ {0} : i = call.arg.index
  BY <1>1, UsingStashIs DEF UsingStash
<1>3. repo \in StashRepos
  BY DEF StashInv
<1>4. CASE ApplyStash
  <2>1. ASSUME NEW o \in StashApply(repo, i)
        PROVE  \/ o.repo = repo
               \/ o.exit = "ok" /\ o.repo \in StashRepos /\ o.repo.dirty
               \/ o.exit = "conflict" /\ o.repo \in StashRepos /\ o.repo.dirty
    BY <1>3, StashApplies, DirtyIs
  <2>2. RanLocking(StashApply(repo, i), ClassifyStashRestore)
    BY <1>2, <1>4 DEF ApplyStash
  <2> QED BY <1>1, <2>1, <2>2, RestoreCodes, StashRun
<1>5. CASE PopStash
  <2>1. ASSUME NEW o \in StashPop(repo, i)
        PROVE  \/ o.repo = repo
               \/ o.exit = "ok" /\ o.repo \in StashRepos /\ o.repo.dirty
               \/ o.exit = "conflict" /\ o.repo \in StashRepos /\ o.repo.dirty
    <3>1. PICK r \in StashRepos : r = Dirtied(repo) /\ r.dirty /\ r.entries = repo.entries
      BY <1>3, DirtyIs
    <3>2. ~ (i > Len(r.entries)) => Removed(r, i) \in StashRepos /\ Removed(r, i).dirty
      BY <3>1, RemovedIs
    <3> QED BY <3>1, <3>2, StashPops
  <2>2. RanLocking(StashPop(repo, i), ClassifyStashRestore)
    BY <1>2, <1>5 DEF PopStash
  <2> QED BY <1>1, <2>1, <2>2, RestoreCodes, StashRun
<1>6. CASE DropStash
  <2>1. ASSUME NEW o \in StashDrop(repo, i)
        PROVE  o.repo = repo \/ (o.exit = "ok" /\ o.repo \in StashRepos)
    BY <1>3, StashDrops, RemovedIs
  <2>2. RanLocking(StashDrop(repo, i), ClassifyStashMissing)
    BY <1>2, <1>6 DEF DropStash
  <2> QED BY <1>1, <1>6, <2>1, <2>2, StashRun
<1> QED BY <1>4, <1>5, <1>6

\* What an act of others leaves of a call: only who has acted since it began.
LEMMA StashActs ==
  ASSUME StashInv, NEW r \in StashRepos, Acts(r)
  PROVE  StashInv' /\ StashFine
<1>1. /\ seen' = seen /\ call' = call /\ acts' = acts + 1 /\ repo' = r /\ acts \in Nat
      /\ acts' # acts
  BY DEF StashInv, Acts
<1>2. ASSUME IsCall(call) PROVE IsCall(call)' /\ ~Undisturbed'
  BY <1>1, <1>2 DEF IsCall, Undisturbed
<1>3. CreatingStash => CreatingStash'
  BY <1>1, <1>2 DEF CreatingStash
<1>4. UsingStash => UsingStash'
  BY <1>1, <1>2 DEF UsingStash
<1> QED BY <1>1, <1>3, <1>4 DEF StashInv, StashFine, Ends

LEMMA StashOutside ==
  ASSUME StashInv, OutsideStash
  PROVE  StashInv' /\ StashFine
<1>1. repo \in StashRepos
  BY DEF StashInv
<1>2. CASE Acts(Dirtied(repo))
  BY <1>1, <1>2, DirtyIs, StashActs
<1>3. ASSUME NEW i \in DOMAIN repo.entries, Acts(Removed(repo, i))
      PROVE  StashInv' /\ StashFine
  <2>1. i \in Nat \ {0} /\ ~ (i > Len(repo.entries))
    BY <1>1 DEF StashRepos
  <2>2. Removed(repo, i) \in StashRepos
    BY <1>1, <2>1, RemovedIs
  <2> QED BY <1>3, <2>2, StashActs
<1>4. ASSUME NEW o \in StashPush(repo), Acts(o.repo)
      PROVE  StashInv' /\ StashFine
  <2>1. o.repo \in StashRepos
    BY <1>1, StashPushes, PushedIs
  <2> QED BY <1>4, <2>1, StashActs
<1> QED BY <1>2, <1>3, <1>4 DEF OutsideStash, Dirtied, Removed

LEMMA StashLooks ==
  ASSUME StashInv, Look
  PROVE  StashInv' /\ StashFine
<1>1. call = NoCall /\ call' = NoCall /\ repo' = repo /\ seen' = repo /\ acts' = acts
  BY DEF Look
<1> QED BY <1>1 DEF StashInv, StashFine, StashLoses, Ends

LEMMA FirstRun ==
  ASSUME NEW outcomes, NEW table, NEW value, Ran(outcomes, table, value),
         Len(call.steps) # 1
  PROVE  /\ seen' = seen /\ acts' = acts
         /\ \E o \in outcomes :
               /\ repo' = o.repo
               /\ \/ /\ o.exit \notin {"ok", "up_to_date"} /\ call' = NoCall
                     /\ answer'.code = CodeOf(o.exit, table)
                  \/ /\ o.exit = "up_to_date" /\ call' = NoCall
                     /\ answer'.code = "Ok"
                  \/ o.exit = "ok" /\ call' = [call EXCEPT !.steps = Tail(@)]
<1>1. /\ seen' = seen /\ acts' = acts
      /\ \E o \in outcomes :
               /\ repo' = o.repo
               /\ \/ /\ o.exit \notin {"ok", "up_to_date"}
                     /\ Ended(CodeOf(o.exit, table), None)
                  \/ /\ o.exit \in {"ok", "up_to_date"}
                     /\ Len(call.steps) = 1 \/ o.exit = "up_to_date"
                     /\ Ended("Ok", value)
                  \/ /\ o.exit = "ok" /\ Len(call.steps) # 1
                     /\ call' = [call EXCEPT !.steps = Tail(@)]
  BY RanIs, Zenon
<1>2. \A c, v : Ended(c, v) => call' = NoCall /\ answer'.code = c /\ answer'.value = v
  BY DEF Ended
<1> HIDE DEF Ended
<1> QED BY <1>1, <1>2

-----------------------------------------------------------------------------
(* The index and commits *)

Staging ==
    /\ IsCall(call) /\ call.name = "stage" /\ call.steps = <<"run">> /\ call.arg \in SUBSET Paths
    /\ Undisturbed => repo = call.found

TakingHunks ==
    /\ IsCall(call) /\ call.name \in {"stage_hunks", "unstage_hunks"} /\ call.steps = <<"run">>
    /\ call.arg.paths \in SUBSET Paths
    /\ Undisturbed => repo = call.found

Unstaging ==
    /\ IsCall(call) /\ call.name = "unstage" /\ call.arg \in SUBSET Paths
    /\ Undisturbed => repo = call.found
    /\ \/ call.steps \in {<<"head", "pairs", "run">>, <<"pairs", "run">>}
       \/ call.steps = <<"rm">> /\ (Undisturbed => repo.head = {})
       \/ /\ call.steps = <<"run">>
          /\ Undisturbed => \A pair \in RenamePairs(repo) :
                                pair[2] \in call.arg => pair[1] \in call.arg

Committing ==
    /\ IsCall(call) /\ call.name = "commit"
    /\ \/ /\ call.steps \in {<<"status", "run", "rev-parse">>, <<"run", "rev-parse">>}
          /\ Undisturbed => repo = call.found
       \/ call.steps = <<"rev-parse">>

Patching ==
    /\ IsCall(call) /\ call.arg.paths \in SUBSET Paths
    /\ Undisturbed => repo = call.found
    /\ \/ call.name = "preview_patch" /\ call.steps = <<"check">>
       \/ call.name = "apply_patch" /\ call.steps \in {<<"check", "run">>, <<"run">>}

IndexCall == Staging \/ TakingHunks \/ Unstaging \/ Committing \/ Patching

IndexInv ==
    /\ repo \in IndexRepos /\ seen \in IndexRepos /\ acts \in Nat
    /\ call = NoCall \/ IndexCall

NothingStagedOf(pairs, paths, r) ==
    \A pair \in pairs : pair[2] \in paths => {pair[1], pair[2]} \cap Staged(r) = {}

IndexFine ==
    /\ acts' = acts => repo.work \subseteq repo'.work
    /\ Ends /\ Undisturbed =>
        /\ call.name \notin {"create_stash", "pull"}
        /\ answer'.code \in RefusalCodes => repo' = call.found
        /\ answer'.code = "Ok" /\ call.name = "unstage" =>
               NothingStagedOf(RenamePairs(call.found), call.arg, repo')

LEMMA IndexNames ==
  ASSUME IndexCall
  PROVE  /\ IsCall(call) /\ call # NoCall
         /\ call.name \in {"stage", "stage_hunks", "unstage_hunks", "unstage", "commit",
                           "preview_patch", "apply_patch"}
<1>1. IsCall(call)
  BY DEF IndexCall, Staging, TakingHunks, Unstaging, Committing, Patching
<1>2. call # NoCall
  BY <1>1, Busy
<1> QED BY <1>1, <1>2 DEF IndexCall, Staging, TakingHunks, Unstaging, Committing, Patching

LEMMA IndexStarts == \A r \in InitialRepos("index") : r \in IndexRepos
<1>1. InitialRepos("index") = {[head |-> Unborn, index |-> {}, work |-> Paths]}
  BY DEF InitialRepos
<1> QED BY <1>1 DEF IndexRepos, Unborn

\* A step that leaves the repository, and ends the call with neither a refusal
\* of what was changed nor a success that must be one.
LEMMA IndexEnds ==
  ASSUME IndexInv, IndexCall, seen' = seen, acts' = acts, call' = NoCall,
         repo' \in IndexRepos, repo.work \subseteq repo'.work,
         Undisturbed /\ answer'.code \in RefusalCodes => repo' = call.found,
         Undisturbed /\ answer'.code = "Ok" /\ call.name = "unstage" =>
             NothingStagedOf(RenamePairs(call.found), call.arg, repo')
  PROVE  IndexInv' /\ IndexFine
<1>1. IndexInv'
  BY DEF IndexInv
<1>2. call.name \notin {"create_stash", "pull"}
  BY IndexNames
<1> QED BY <1>1, <1>2 DEF IndexFine

LEMMA IndexGoesOn ==
  ASSUME IndexInv, IndexCall', seen' = seen, acts' = acts,
         repo' \in IndexRepos, repo.work \subseteq repo'.work
  PROVE  IndexInv' /\ IndexFine
<1>1. call' # NoCall
  BY IndexNames, NoCallNone DEF IndexCall, Staging, TakingHunks, Unstaging, Committing, Patching, IsCall
<1>2. IndexInv'
  BY DEF IndexInv
<1> QED BY <1>1, <1>2 DEF IndexFine, Ends

LEMMA IndexReadFails ==
  ASSUME IndexInv, ReadRunFails
  PROVE  IndexInv' /\ IndexFine
<1>1. /\ repo' = repo /\ seen' = seen /\ acts' = acts /\ call' = NoCall
      /\ answer' = [code |-> "ProcessFailure", value |-> None]
  BY DEF ReadRunFails, Read, Refuse, Answer
<1>2. IndexCall
  BY NoCallNone DEF ReadRunFails, IndexInv
<1> QED BY <1>1, <1>2, IndexEnds DEF IndexInv, RefusalCodes

\* What a run of git on the index does: nothing, or what it was asked, well.
IndexOutcome(r, o) ==
    \/ o.repo = r
    \/ o.exit = "ok" /\ o.repo \in IndexRepos /\ r.work \subseteq o.repo.work

LEMMA Adds ==
  ASSUME NEW r \in IndexRepos, NEW paths \in SUBSET Paths, NEW o \in Add(r, paths)
  PROVE  IndexOutcome(r, o)
<1>1. PICK index \in SUBSET Paths : index = (r.index \ paths) \cup (paths \cap r.work)
  BY DEF IndexRepos
<1>2. PICK next : next = [r EXCEPT !.index = index]
  OBVIOUS
<1>3. next \in IndexRepos /\ next.work = r.work
  BY <1>2 DEF IndexRepos
<1>4. [r EXCEPT !.index = (@ \ paths) \cup (paths \cap r.work)] = next
  BY <1>1, <1>2
<1>5. o \in Refusals(r) \/ o \in Ok(next) \/ o \in Fails(r, {"missing"})
  BY <1>4 DEF Add
<1>6. \/ o.repo = r /\ o.exit \in {"process", "locked", "missing"}
      \/ o.repo = next /\ o.exit = "ok"
  BY <1>5, FailsKeep, OkEnds DEF Refusals
<1> QED BY <1>1, <1>3, <1>6 DEF IndexOutcome

Restored(r, paths) == (r.index \ paths) \cup (paths \cap r.head)

LEMMA Restores ==
  ASSUME NEW r \in IndexRepos, NEW paths \in SUBSET Paths, NEW o \in RestoreStaged(r, paths)
  PROVE  /\ IndexOutcome(r, o)
         /\ \/ o.exit \in {"process", "locked", "missing"}
            \/ o.exit = "ok" /\ o.repo.head = r.head /\ o.repo.index = Restored(r, paths)
<1>1. PICK index \in SUBSET Paths : index = Restored(r, paths)
  BY DEF IndexRepos, Restored
<1>2. PICK next : next = [r EXCEPT !.index = index]
  OBVIOUS
<1>3. next \in IndexRepos /\ next.work = r.work /\ next.index = index /\ next.head = r.head
  BY <1>2 DEF IndexRepos
<1>4. [r EXCEPT !.index = (@ \ paths) \cup (paths \cap r.head)] = next
  BY <1>1, <1>2 DEF Restored
<1>5. o \in Refusals(r) \/ o \in Ok(next) \/ o \in Fails(r, {"missing"})
  BY <1>4 DEF RestoreStaged
<1>6. \/ o.repo = r /\ o.exit \in {"process", "locked", "missing"}
      \/ o.repo = next /\ o.exit = "ok"
  BY <1>5, FailsKeep, OkEnds DEF Refusals
<1> QED BY <1>1, <1>3, <1>6 DEF IndexOutcome

LEMMA Removes ==
  ASSUME NEW r \in IndexRepos, NEW paths \in SUBSET Paths, NEW o \in RemoveCached(r, paths)
  PROVE  IndexOutcome(r, o)
<1>1. PICK index \in SUBSET Paths : index = r.index \ paths
  BY DEF IndexRepos
<1>2. PICK next : next = [r EXCEPT !.index = index]
  OBVIOUS
<1>3. next \in IndexRepos /\ next.work = r.work
  BY <1>2 DEF IndexRepos
<1>4. [r EXCEPT !.index = @ \ paths] = next
  BY <1>1, <1>2
<1>5. o \in Refusals(r) \/ o \in Ok(next) \/ o \in Fails(r, {"missing"})
  BY <1>4 DEF RemoveCached
<1>6. \/ o.repo = r /\ o.exit \in {"process", "locked", "missing"}
      \/ o.repo = next /\ o.exit = "ok"
  BY <1>5, FailsKeep, OkEnds DEF Refusals
<1> QED BY <1>1, <1>3, <1>6 DEF IndexOutcome

LEMMA CommitRuns ==
  ASSUME NEW r \in IndexRepos, NEW o \in CommitIndex(r)
  PROVE  IndexOutcome(r, o) /\ o.exit # "up_to_date"
<1>1. PICK head \in SUBSET Paths : head = r.index
  BY DEF IndexRepos
<1>2. PICK next : next = [r EXCEPT !.head = head]
  OBVIOUS
<1>3. next \in IndexRepos /\ next.work = r.work
  BY <1>2 DEF IndexRepos
<1>4. [r EXCEPT !.head = r.index] = next
  BY <1>1, <1>2
<1>5. \/ o \in Refusals(r) \/ o \in Ok(next)
      \/ o \in Fails(r, {"process"}) \/ o \in Fails(r, {"identity"})
  BY <1>4 DEF CommitIndex
<1>6. \/ o.repo = r /\ o.exit \in {"process", "locked", "identity"}
      \/ o.repo = next /\ o.exit = "ok"
  BY <1>5, FailsKeep, OkEnds DEF Refusals
<1> QED BY <1>1, <1>3, <1>6 DEF IndexOutcome

LEMMA AppliesCached ==
  ASSUME NEW r \in IndexRepos, NEW paths \in SUBSET Paths, NEW shown, NEW reverse,
         NEW o \in ApplyCached(r, paths, shown, reverse)
  PROVE  IndexOutcome(r, o)
<1>1. PICK index \in SUBSET Paths :
          index = IF reverse THEN r.index \ paths ELSE r.index \cup paths
  BY DEF IndexRepos
<1>2. PICK next : next = [r EXCEPT !.index = index]
  OBVIOUS
<1>3. next \in IndexRepos /\ next.work = r.work
  BY <1>2 DEF IndexRepos
<1>4. [r EXCEPT !.index = IF reverse THEN @ \ paths ELSE @ \cup paths] = next
  BY <1>1, <1>2
<1>5. o \in Refusals(r) \/ o \in Ok(next) \/ o \in Fails(r, {"stale"})
  BY <1>4 DEF ApplyCached
<1>6. \/ o.repo = r /\ o.exit \in {"process", "locked", "stale"}
      \/ o.repo = next /\ o.exit = "ok"
  BY <1>5, FailsKeep, OkEnds DEF Refusals
<1> QED BY <1>1, <1>3, <1>6 DEF IndexOutcome

LEMMA AppliesPatch ==
  ASSUME NEW r \in IndexRepos, NEW paths \in SUBSET Paths, NEW o \in ApplyPatchTo(r, paths)
  PROVE  IndexOutcome(r, o) /\ o.exit # "up_to_date"
<1>1. PICK work \in SUBSET Paths : work = r.work \cup paths
  BY DEF IndexRepos
<1>2. PICK next : next = [r EXCEPT !.work = work]
  OBVIOUS
<1>3. next \in IndexRepos /\ next.work = work
  BY <1>2 DEF IndexRepos
<1>4. [r EXCEPT !.work = @ \cup paths] = next
  BY <1>1, <1>2
<1>5. o \in Refusals(r) \/ o \in Ok(next) \/ o \in Fails(r, {"malformed", "unsafe"}) \/ o \in Fails(r, {"stale"})
  BY <1>4 DEF ApplyPatchTo
<1>6. \/ o.repo = r /\ o.exit \in {"process", "locked", "malformed", "unsafe", "stale"}
      \/ o.repo = next /\ o.exit = "ok"
  BY <1>5, FailsKeep, OkEnds DEF Refusals
<1> QED BY <1>1, <1>3, <1>6 DEF IndexOutcome

\* A run that ends the call.
LEMMA IndexRun ==
  ASSUME IndexInv, IndexCall, Undisturbed => repo = call.found, Len(call.steps) = 1,
         NEW outcomes, NEW table, NEW value, Ran(outcomes, table, value),
         \A o \in outcomes : IndexOutcome(repo, o),
         call.name = "unstage" /\ Undisturbed =>
             /\ \A e : CodeOf(e, table) # "Ok"
             /\ \A o \in outcomes : o.exit \in {"ok", "up_to_date"} =>
                    NothingStagedOf(RenamePairs(call.found), call.arg, o.repo)
  PROVE  IndexInv' /\ IndexFine
<1>1. PICK o \in outcomes :
          /\ seen' = seen /\ acts' = acts /\ call' = NoCall /\ repo' = o.repo
          /\ \/ o.exit \notin {"ok", "up_to_date"} /\ answer'.code = CodeOf(o.exit, table)
             \/ o.exit \in {"ok", "up_to_date"} /\ answer'.code = "Ok"
  BY LastRun
<1>2. repo \in IndexRepos
  BY DEF IndexInv
<1>3. repo' \in IndexRepos /\ repo.work \subseteq repo'.work
  BY <1>1, <1>2 DEF IndexOutcome
<1>4. Undisturbed /\ answer'.code \in RefusalCodes => repo' = call.found
  BY <1>1 DEF IndexOutcome, RefusalCodes
<1>5. Undisturbed /\ answer'.code = "Ok" /\ call.name = "unstage" =>
             NothingStagedOf(RenamePairs(call.found), call.arg, repo')
  BY <1>1
<1> QED BY <1>1, <1>3, <1>4, <1>5, IndexEnds

LEMMA IndexBegins ==
  ASSUME IndexInv, BeginIndex \/ BeginHunks \/ BeginPatch
  PROVE  IndexInv' /\ IndexFine
<1>1. acts \in Nat /\ seen \in IndexRepos /\ repo \in IndexRepos
  BY DEF IndexInv
<1>2. seen.index \in SUBSET Paths /\ seen.head \in SUBSET Paths /\ seen.work \in SUBSET Paths
  BY <1>1 DEF IndexRepos
<1>3. \A name, arg : Begun(name, arg) /\ IndexCall' => IndexInv' /\ IndexFine
  BY <1>1, IndexGoesOn DEF Begun
<1>4. CASE Begin("commit", None)
  <2>1. Begun("commit", None)
    BY <1>1, <1>4, BeginIs
  <2>2. Steps("commit") = <<"status", "run", "rev-parse">>
    BY DEF Steps
  <2>3. Committing'
    BY <2>1, <2>2 DEF Begun, Committing, Undisturbed
  <2> QED BY <1>3, <2>1, <2>3 DEF IndexCall
<1>5. ASSUME NEW p \in Paths, Begin("stage", {p})
      PROVE  IndexInv' /\ IndexFine
  <2>1. Begun("stage", {p})
    BY <1>1, <1>5, BeginIs
  <2>2. Steps("stage") = <<"run">>
    BY DEF Steps
  <2>3. Staging'
    BY <2>1, <2>2 DEF Begun, Staging, Undisturbed
  <2> QED BY <1>3, <2>1, <2>3 DEF IndexCall
<1>6. ASSUME NEW p \in Paths, Begin("unstage", {p})
      PROVE  IndexInv' /\ IndexFine
  <2>1. Begun("unstage", {p})
    BY <1>1, <1>6, BeginIs
  <2>2. Steps("unstage") = <<"head", "pairs", "run">>
    BY DEF Steps
  <2>3. Unstaging'
    BY <2>1, <2>2 DEF Begun, Unstaging, Undisturbed
  <2> QED BY <1>3, <2>1, <2>3 DEF IndexCall
<1>7. ASSUME NEW name \in {"stage_hunks", "unstage_hunks"}, NEW p \in Paths,
             Begin(name, [paths |-> {p}, index |-> seen.index])
      PROVE  IndexInv' /\ IndexFine
  <2>1. PICK arg : arg = [paths |-> {p}, index |-> seen.index]
    OBVIOUS
  <2>2. Begun(name, arg)
    BY <1>1, <1>7, <2>1, BeginIs
  <2>3. Steps(name) = <<"run">>
    BY <1>7 DEF Steps
  <2>4. TakingHunks'
    BY <2>1, <2>2, <2>3 DEF Begun, TakingHunks, Undisturbed
  <2> QED BY <1>3, <2>2, <2>4 DEF IndexCall
<1>8. ASSUME NEW name \in {"preview_patch", "apply_patch"}, NEW form, NEW p \in Paths,
             Begin(name, [form |-> form, paths |-> {p}])
      PROVE  IndexInv' /\ IndexFine
  <2>1. PICK arg : arg = [form |-> form, paths |-> {p}]
    OBVIOUS
  <2>2. Begun(name, arg)
    BY <1>1, <1>8, <2>1, BeginIs
  <2>3. /\ Steps("preview_patch") = <<"check">> /\ Steps("apply_patch") = <<"check", "run">>
    BY DEF Steps
  <2>4. arg.paths \in SUBSET Paths
    BY <2>1
  <2>5. Patching'
    BY <2>2, <2>3, <2>4 DEF Begun, Patching, Undisturbed
  <2> QED BY <1>3, <2>2, <2>5 DEF IndexCall
<1>9. ASSUME NEW p \in StagedRows(seen) PROVE p \in Paths
  BY <1>2 DEF StagedRows, Staged
<1> QED BY <1>2, <1>4, <1>5, <1>6, <1>7, <1>8, <1>9 DEF BeginIndex, BeginHunks, BeginPatch

LEMMA IndexIsStaged ==
  ASSUME IndexInv, StageFiles
  PROVE  IndexInv' /\ IndexFine
<1>1. call.name = "stage" /\ call # NoCall
  BY AtIs DEF StageFiles
<1>2. Staging /\ repo \in IndexRepos
  BY <1>1 DEF IndexInv, IndexCall, Staging, TakingHunks, Unstaging, Committing, Patching
<1>3. \A o \in Add(repo, call.arg) : IndexOutcome(repo, o)
  BY <1>2, Adds DEF Staging
<1>4. PICK table : table = OrElse(<<>>, ClassifyIndexLock)
  OBVIOUS
<1>5. Ran(Add(repo, call.arg), table, None)
  BY <1>4 DEF StageFiles, RanLocking
<1>6. Len(call.steps) = 1 /\ (Undisturbed => repo = call.found) /\ IndexCall
  BY <1>2 DEF Staging, IndexCall
<1> QED BY <1>1, <1>3, <1>5, <1>6, IndexRun

LEMMA HunksAreTaken ==
  ASSUME IndexInv, ApplyHunkSelection
  PROVE  IndexInv' /\ IndexFine
<1>1. PICK name \in {"stage_hunks", "unstage_hunks"} :
        /\ At(name, "run")
        /\ Ran(ApplyCached(repo, call.arg.paths, call.arg.index, name = "unstage_hunks"),
               ClassifyApply, None)
  BY DEF ApplyHunkSelection
<1>2. call.name = name /\ call # NoCall
  BY <1>1, AtIs
<1>3. TakingHunks /\ repo \in IndexRepos
  BY <1>1, <1>2 DEF IndexInv, IndexCall, Staging, TakingHunks, Unstaging, Committing, Patching
<1>4. PICK reverse : reverse = (name = "unstage_hunks")
  OBVIOUS
<1>5. PICK outcomes : outcomes = ApplyCached(repo, call.arg.paths, call.arg.index, reverse)
  OBVIOUS
<1>6. \A o \in outcomes : IndexOutcome(repo, o)
  BY <1>3, <1>5, AppliesCached DEF TakingHunks
<1>7. Ran(outcomes, ClassifyApply, None)
  BY <1>1, <1>4, <1>5, Zenon
<1>8. Len(call.steps) = 1 /\ (Undisturbed => repo = call.found) /\ IndexCall
  BY <1>3 DEF TakingHunks, IndexCall
<1> QED BY <1>1, <1>2, <1>6, <1>7, <1>8, IndexRun

\* Nothing of a rename is left staged when both of its paths are restored.
LEMMA RestoredIsUnstaged ==
  ASSUME NEW r, NEW paths, NEW s, s.head = r.head, s.index = Restored(r, paths),
         \A pair \in RenamePairs(r) : pair[2] \in paths => pair[1] \in paths
  PROVE  NothingStagedOf(RenamePairs(r), paths, s)
<1>1. ASSUME NEW p \in paths PROVE p \notin Staged(s)
  BY DEF Staged, Restored
<1> QED BY <1>1 DEF NothingStagedOf

\* Nothing is renamed that HEAD does not have.
LEMMA UnbornHasNoRenames ==
  ASSUME NEW r, r.head = {}
  PROVE  RenamePairs(r) = {}
BY DEF RenamePairs

LEMMA ExpandedPaths ==
  ASSUME NEW r \in IndexRepos, NEW paths \in SUBSET Paths
  PROVE  /\ ExpandRenamePairs(r, paths) \in SUBSET Paths
         /\ \A pair \in RenamePairs(r) :
                pair[2] \in ExpandRenamePairs(r, paths) => pair[1] \in ExpandRenamePairs(r, paths)
<1>1. r.head \in SUBSET Paths /\ r.index \in SUBSET Paths
  BY DEF IndexRepos
<1>2. \A pair \in RenamePairs(r) : /\ pair[1] \in r.head \ r.index
                                   /\ pair[2] \in r.index \ r.head
  BY DEF RenamePairs
<1>3. ExpandRenamePairs(r, paths) =
        paths \cup {pair[1] : pair \in {q \in RenamePairs(r) : q[2] \in paths}}
  BY DEF ExpandRenamePairs
<1>4. ExpandRenamePairs(r, paths) \in SUBSET Paths
  BY <1>1, <1>2, <1>3
<1>5. ASSUME NEW pair \in RenamePairs(r), pair[2] \in ExpandRenamePairs(r, paths)
      PROVE  pair[1] \in ExpandRenamePairs(r, paths)
  <2>1. pair[2] \in paths
    BY <1>2, <1>3, <1>5
  <2> QED BY <1>3, <2>1
<1> QED BY <1>4, <1>5

LEMMA IndexIsUnstaged ==
  ASSUME IndexInv, UnstageFiles
  PROVE  IndexInv' /\ IndexFine
<1>1. call.name = "unstage" /\ call # NoCall
  BY AtIs DEF UnstageFiles
<1>2. Unstaging /\ repo \in IndexRepos /\ IndexCall /\ IsCall(call)
  BY <1>1 DEF IndexInv, IndexCall, Staging, TakingHunks, Unstaging, Committing, Patching
<1>3. call.arg \in SUBSET Paths /\ (Undisturbed => repo = call.found)
  BY <1>2 DEF Unstaging
<1>4. PICK table : table = OrElse(<<>>, ClassifyIndexLock)
  OBVIOUS
<1>5. \A e : CodeOf(e, table) # "Ok"
  BY <1>4, FailuresAreNotOk
<1>6. CASE /\ At("unstage", "head")
           /\ Read(IF repo.head = Unborn
                   THEN ProceedWith([call EXCEPT !.steps = <<"head", "rm">>]) ELSE Proceed)
  <2>1. repo' = repo /\ seen' = seen /\ acts' = acts
    BY <1>6 DEF Read
  <2>2. call.steps = <<"head", "pairs", "run">>
    BY <1>2, <1>6, TailOf1, TailOf2 DEF At, Unstaging
  <2>3. CASE repo.head = {}
    <3>1. PICK next : next = [call EXCEPT !.steps = <<"head", "rm">>]
      OBVIOUS
    <3>2. call' = [next EXCEPT !.steps = Tail(@)]
      BY <1>6, <2>3, <3>1 DEF Read, ProceedWith, Unborn
    <3>3. next.steps = <<"head", "rm">> /\ Tail(next.steps) = <<"rm">>
      BY <1>2, <3>1, TailOf2 DEF IsCall
    <3>4. call' = [call EXCEPT !.steps = <<"rm">>]
      BY <1>2, <3>1, <3>2, <3>3 DEF IsCall
    <3>5. /\ call'.name = call.name /\ call'.steps = <<"rm">> /\ call'.arg = call.arg
          /\ call'.found = call.found /\ call'.since = call.since /\ IsCall(call)'
      BY <1>2, <2>1, <3>4 DEF IsCall
    <3>6. Unstaging'
      BY <1>2, <2>1, <2>3, <3>5 DEF Unstaging, Undisturbed
    <3> QED BY <1>2, <2>1, <3>6, IndexGoesOn DEF IndexCall
  <2>4. CASE repo.head # {}
    <3>1. call' = [call EXCEPT !.steps = Tail(@)]
      BY <1>6, <2>4 DEF Read, Proceed, ProceedWith, Unborn
    <3>2. Onward /\ call'.arg = call.arg
      BY <1>2, <2>1, <3>1, NextStep
    <3>3. call'.steps = <<"pairs", "run">>
      BY <2>2, <3>2, TailOf3 DEF Onward
    <3>4. Unstaging'
      BY <1>2, <2>1, <3>2, <3>3 DEF Unstaging, Undisturbed, Onward
    <3> QED BY <1>2, <2>1, <3>4, IndexGoesOn DEF IndexCall
  <2> QED BY <2>3, <2>4
<1>7. CASE At("unstage", "rm") /\ RanLocking(RemoveCached(repo, call.arg), <<>>)
  <2>1. call.steps = <<"rm">>
    BY <1>2, <1>7, TailOf1, TailOf2, TailOf3 DEF At, Unstaging
  <2>2. Undisturbed => repo.head = {}
    BY <1>2, <2>1, TailOf1, TailOf2, TailOf3 DEF Unstaging
  <2>3. Undisturbed => \A r : NothingStagedOf(RenamePairs(call.found), call.arg, r)
    BY <1>3, <2>2, UnbornHasNoRenames DEF NothingStagedOf
  <2>4. \A o \in RemoveCached(repo, call.arg) : IndexOutcome(repo, o)
    BY <1>2, <1>3, Removes
  <2>5. Ran(RemoveCached(repo, call.arg), table, None)
    BY <1>4, <1>7 DEF RanLocking
  <2>6. Len(call.steps) = 1
    BY <2>1
  <2> QED BY <1>2, <1>3, <1>5, <2>3, <2>4, <2>5, <2>6, IndexRun
<1>8. CASE /\ At("unstage", "pairs")
           /\ Read(ProceedWith([call EXCEPT !.arg = ExpandRenamePairs(repo, @)]))
  <2>1. PICK paths : paths = ExpandRenamePairs(repo, call.arg)
    OBVIOUS
  <2>2. PICK next : next = [call EXCEPT !.arg = paths]
    OBVIOUS
  <2>3. /\ call' = [next EXCEPT !.steps = Tail(@)]
        /\ repo' = repo /\ seen' = seen /\ acts' = acts
    BY <1>8, <2>1, <2>2 DEF Read, ProceedWith
  <2>4. call.steps = <<"pairs", "run">>
    BY <1>2, <1>8, TailOf1, TailOf3 DEF At, Unstaging
  <2>5. Tail(call.steps) = <<"run">>
    BY <2>4, TailOf2
  <2>6. next.steps = call.steps
    BY <1>2, <2>2 DEF IsCall
  <2>7. call' = [name |-> call.name, steps |-> <<"run">>, arg |-> paths, before |-> call.before,
                 found |-> call.found, since |-> call.since]
    BY <1>2, <2>2, <2>3, <2>5, <2>6 DEF IsCall
  <2>8. /\ call'.name = call.name /\ call'.steps = <<"run">> /\ call'.arg = paths
        /\ call'.found = call.found /\ call'.since = call.since /\ IsCall(call)'
    <3>1. /\ call'.name = call.name /\ call'.steps = <<"run">> /\ call'.arg = paths
          /\ call'.before = call.before
          /\ call'.found = call.found /\ call'.since = call.since
      BY <2>7
    <3>2. call.name # "none" /\ call.since \in 0 .. acts
      BY <1>2 DEF IsCall
    <3> QED BY <2>3, <2>7, <3>1, <3>2 DEF IsCall
  <2>9. /\ paths \in SUBSET Paths
        /\ \A pair \in RenamePairs(repo) : pair[2] \in paths => pair[1] \in paths
    BY <1>2, <1>3, <2>1, ExpandedPaths
  <2>10. Unstaging'
    BY <1>2, <2>3, <2>8, <2>9 DEF Unstaging, Undisturbed
  <2> QED BY <1>2, <2>3, <2>10, IndexGoesOn DEF IndexCall
<1>9. CASE At("unstage", "run") /\ RanLocking(RestoreStaged(repo, call.arg), <<>>)
  <2>1. call.steps = <<"run">>
    BY <1>2, <1>9, TailOf1, TailOf2, TailOf3 DEF At, Unstaging
  <2>2. Undisturbed => \A pair \in RenamePairs(repo) :
                           pair[2] \in call.arg => pair[1] \in call.arg
    BY <1>2, <2>1, TailOf1, TailOf2, TailOf3 DEF Unstaging
  <2>3. \A o \in RestoreStaged(repo, call.arg) :
           /\ IndexOutcome(repo, o)
           /\ o.exit \in {"ok", "up_to_date"} =>
                  o.repo.head = repo.head /\ o.repo.index = Restored(repo, call.arg)
    BY <1>2, <1>3, Restores
  <2>4. Undisturbed => \A o \in RestoreStaged(repo, call.arg) :
           o.exit \in {"ok", "up_to_date"} =>
               NothingStagedOf(RenamePairs(call.found), call.arg, o.repo)
    BY <1>3, <2>2, <2>3, RestoredIsUnstaged
  <2>5. Ran(RestoreStaged(repo, call.arg), table, None)
    BY <1>4, <1>9 DEF RanLocking
  <2>6. Len(call.steps) = 1
    BY <2>1
  <2> QED BY <1>2, <1>3, <1>5, <2>3, <2>4, <2>5, <2>6, IndexRun
<1> QED BY <1>6, <1>7, <1>8, <1>9 DEF UnstageFiles

LEMMA IndexIsCommitted ==
  ASSUME IndexInv, CreateCommit
  PROVE  IndexInv' /\ IndexFine
<1>1. call.name = "commit" /\ call # NoCall
  BY AtIs DEF CreateCommit
<1>2. Committing /\ repo \in IndexRepos /\ IndexCall /\ IsCall(call)
  BY <1>1 DEF IndexInv, IndexCall, Staging, TakingHunks, Unstaging, Committing, Patching
<1>3. CASE /\ At("commit", "status")
           /\ Read(IF Staged(repo) = {} THEN Refuse("InvalidRepositoryState") ELSE Proceed)
  <2>1. repo' = repo /\ seen' = seen /\ acts' = acts
    BY <1>3 DEF Read
  <2>2. call.steps = <<"status", "run", "rev-parse">>
    BY <1>2, <1>3, TailOf1, TailOf2 DEF At, Committing
  <2>3. Undisturbed => repo = call.found
    BY <1>2, <2>2, TailOf1, TailOf3 DEF Committing
  <2>4. CASE Staged(repo) = {}
    <3>1. call' = NoCall /\ answer'.code = "InvalidRepositoryState"
      BY <1>3, <2>4 DEF Read, Refuse, Answer
    <3> QED BY <1>1, <1>2, <2>1, <2>3, <3>1, IndexEnds
  <2>5. CASE Staged(repo) # {}
    <3>1. call' = [call EXCEPT !.steps = Tail(@)]
      BY <1>3, <2>5 DEF Read, Proceed, ProceedWith
    <3>2. Onward
      BY <1>2, <2>1, <3>1, NextStep
    <3>3. call'.steps = <<"run", "rev-parse">>
      BY <2>2, <3>2, TailOf3 DEF Onward
    <3>4. Committing'
      BY <1>2, <2>1, <2>3, <3>2, <3>3 DEF Committing, Undisturbed, Onward
    <3> QED BY <1>2, <2>1, <3>4, IndexGoesOn DEF IndexCall
  <2> QED BY <2>4, <2>5
<1>4. CASE At("commit", "run") /\ RanLocking(CommitIndex(repo), ClassifyCommit)
  <2>1. call.steps = <<"run", "rev-parse">>
    BY <1>2, <1>4, TailOf1, TailOf3 DEF At, Committing
  <2>2. Undisturbed => repo = call.found
    BY <1>2, <2>1, TailOf1, TailOf2 DEF Committing
  <2>3. PICK table : Ran(CommitIndex(repo), table, None)
    BY <1>4 DEF RanLocking
  <2>4. Len(call.steps) # 1
    BY <2>1
  <2>5. PICK o \in CommitIndex(repo) :
               /\ repo' = o.repo /\ seen' = seen /\ acts' = acts
               /\ \/ o.exit # "ok" /\ call' = NoCall
                  \/ o.exit = "ok" /\ call' = [call EXCEPT !.steps = Tail(@)]
    BY <2>3, <2>4, FirstRun
  <2>6. IndexOutcome(repo, o)
    BY <1>2, CommitRuns
  <2>7. CASE o.exit # "ok" /\ call' = NoCall
    <3>1. repo' = repo
      BY <2>5, <2>6, <2>7 DEF IndexOutcome
    <3> QED BY <1>1, <1>2, <2>2, <2>5, <2>7, <3>1, IndexEnds
  <2>8. CASE o.exit = "ok" /\ call' = [call EXCEPT !.steps = Tail(@)]
    <3>1. Onward
      BY <1>2, <2>5, <2>8, NextStep
    <3>2. call'.steps = <<"rev-parse">>
      BY <2>1, <3>1, TailOf2 DEF Onward
    <3>3. Committing'
      BY <1>2, <3>1, <3>2 DEF Committing, Onward
    <3>4. repo' \in IndexRepos /\ repo.work \subseteq repo'.work
      BY <1>2, <2>5, <2>6 DEF IndexOutcome
    <3> QED BY <2>5, <3>3, <3>4, IndexGoesOn DEF IndexCall
  <2> QED BY <2>5, <2>7, <2>8
<1>5. CASE At("commit", "rev-parse") /\ Read(Answer("Ok", repo.head))
  <2>1. /\ repo' = repo /\ seen' = seen /\ acts' = acts /\ call' = NoCall
        /\ answer'.code = "Ok"
    BY <1>5 DEF Read, Answer
  <2>2. answer'.code \notin RefusalCodes
    BY <2>1 DEF RefusalCodes
  <2> QED BY <1>1, <1>2, <2>1, <2>2, IndexEnds
<1> QED BY <1>3, <1>4, <1>5 DEF CreateCommit

LEMMA PatchIsChecked ==
  ASSUME IndexInv, CheckPatchApplication
  PROVE  IndexInv' /\ IndexFine
<1>1. PICK name \in {"preview_patch", "apply_patch"} :
        /\ At(name, "check")
        /\ \/ Read(Rejected("ParseFailure")) \/ Read(Rejected("InvalidRepositoryState"))
           \/ Read(Supported)
           \/ \E e : Read(Rejected(CodeOf(e, ClassifyPatchCheck)))
  BY DEF CheckPatchApplication
<1>2. call.name = name /\ call # NoCall /\ call.name # "unstage" /\ Head(call.steps) = "check"
  BY <1>1, AtIs
<1>3. Patching /\ repo \in IndexRepos /\ IndexCall /\ IsCall(call)
  BY <1>1, <1>2 DEF IndexInv, IndexCall, Staging, TakingHunks, Unstaging, Committing, Patching
<1>4. Undisturbed => repo = call.found
  BY <1>3 DEF Patching
<1>5. /\ repo' = repo /\ seen' = seen /\ acts' = acts
      /\ \/ call' = NoCall
         \/ name = "apply_patch" /\ call' = [call EXCEPT !.steps = Tail(@)]
  BY <1>1, <1>2 DEF Read, Rejected, Supported, Refuse, Answer, Proceed, ProceedWith
<1>6. CASE call' = NoCall
  BY <1>2, <1>3, <1>4, <1>5, <1>6, IndexEnds
<1>7. CASE name = "apply_patch" /\ call' = [call EXCEPT !.steps = Tail(@)]
  <2>1. call.steps = <<"check", "run">>
    BY <1>2, <1>3, <1>7, TailOf1 DEF Patching
  <2>2. Onward /\ call'.arg = call.arg
    BY <1>3, <1>5, <1>7, NextStep
  <2>3. call'.steps = <<"run">>
    BY <2>1, <2>2, TailOf2 DEF Onward
  <2>4. Patching'
    BY <1>2, <1>3, <1>5, <1>7, <2>2, <2>3 DEF Patching, Onward, Undisturbed
  <2> QED BY <1>3, <1>5, <2>4, IndexGoesOn DEF IndexCall
<1> QED BY <1>5, <1>6, <1>7

LEMMA PatchIsApplied ==
  ASSUME IndexInv, ApplyPatch
  PROVE  IndexInv' /\ IndexFine
<1>1. call.name = "apply_patch" /\ call # NoCall /\ Head(call.steps) = "run"
  BY AtIs DEF ApplyPatch
<1>2. Patching /\ repo \in IndexRepos /\ IndexCall
  BY <1>1 DEF IndexInv, IndexCall, Staging, TakingHunks, Unstaging, Committing, Patching
<1>3. Len(call.steps) = 1 /\ (Undisturbed => repo = call.found)
  BY <1>1, <1>2, TailOf2 DEF Patching
<1>4. \A o \in ApplyPatchTo(repo, call.arg.paths) : IndexOutcome(repo, o)
  BY <1>2, AppliesPatch DEF Patching
<1>5. Ran(ApplyPatchTo(repo, call.arg.paths), ClassifyPatchCheck, None)
  BY DEF ApplyPatch
<1> QED BY <1>1, <1>2, <1>3, <1>4, <1>5, IndexRun

LEMMA IndexActs ==
  ASSUME IndexInv, NEW r \in IndexRepos, Acts(r)
  PROVE  IndexInv' /\ IndexFine
<1>1. /\ seen' = seen /\ call' = call /\ acts' = acts + 1 /\ repo' = r /\ acts \in Nat
      /\ acts' # acts
  BY DEF IndexInv, Acts
<1>2. ASSUME IsCall(call) PROVE IsCall(call)' /\ ~Undisturbed'
  BY <1>1, <1>2 DEF IsCall, Undisturbed
<1>3. /\ Staging => Staging'
      /\ TakingHunks => TakingHunks'
  BY <1>1, <1>2 DEF Staging, TakingHunks
<1>4. Unstaging => Unstaging'
  BY <1>1, <1>2 DEF Unstaging
<1>5. Committing => Committing'
  BY <1>1, <1>2 DEF Committing
<1>6. Patching => Patching'
  BY <1>1, <1>2 DEF Patching
<1> QED BY <1>1, <1>3, <1>4, <1>5, <1>6 DEF IndexInv, IndexFine, IndexCall, Ends

LEMMA IndexOutside ==
  ASSUME IndexInv, OutsideIndex
  PROVE  IndexInv' /\ IndexFine
<1>1. repo \in IndexRepos
  BY DEF IndexInv
<1>2. \A r : r \in IndexRepos /\ Acts(r) => IndexInv' /\ IndexFine
  BY IndexActs
<1>3. ASSUME NEW work \in SUBSET Paths, NEW index \in SUBSET Paths
      PROVE  /\ [repo EXCEPT !.work = work] \in IndexRepos
             /\ [repo EXCEPT !.index = index] \in IndexRepos
             /\ [repo EXCEPT !.head = index] \in IndexRepos
             /\ [repo EXCEPT !.work = work, !.index = index] \in IndexRepos
             /\ [repo EXCEPT !.index = index, !.work = work] \in IndexRepos
  BY <1>1 DEF IndexRepos
<1>4. repo.index \in SUBSET Paths /\ repo.work \in SUBSET Paths
  BY <1>1 DEF IndexRepos
<1>5. ASSUME NEW p \in Paths, Acts([repo EXCEPT !.work = @ \ {p}])
      PROVE  IndexInv' /\ IndexFine
  <2>1. PICK work \in SUBSET Paths : work = repo.work \ {p}
    BY <1>4
  <2>2. Acts([repo EXCEPT !.work = work])
    BY <1>5, <2>1
  <2> QED BY <1>2, <1>3, <1>4, <2>2
<1>6. ASSUME NEW p \in Paths, Acts([repo EXCEPT !.work = @ \cup {p}, !.index = @ \cup {p}])
      PROVE  IndexInv' /\ IndexFine
  <2>1. PICK work \in SUBSET Paths, index \in SUBSET Paths :
            work = repo.work \cup {p} /\ index = repo.index \cup {p}
    BY <1>4
  <2>2. Acts([repo EXCEPT !.work = work, !.index = index])
    BY <1>6, <2>1
  <2> QED BY <1>2, <1>3, <2>2
<1>7. ASSUME NEW p \in Paths, Acts([repo EXCEPT !.index = @ \ {p}])
      PROVE  IndexInv' /\ IndexFine
  <2>1. PICK index \in SUBSET Paths : index = repo.index \ {p}
    BY <1>4
  <2>2. Acts([repo EXCEPT !.index = index])
    BY <1>7, <2>1
  <2> QED BY <1>2, <1>3, <1>4, <2>2
<1>8. CASE Acts([repo EXCEPT !.head = repo.index])
  BY <1>2, <1>3, <1>4, <1>8
<1>9. ASSUME NEW p \in repo.index, NEW q \in Paths \ repo.index,
             Acts([repo EXCEPT !.index = (@ \ {p}) \cup {q}, !.work = (@ \ {p}) \cup {q}])
      PROVE  IndexInv' /\ IndexFine
  <2>1. PICK work \in SUBSET Paths, index \in SUBSET Paths :
            work = (repo.work \ {p}) \cup {q} /\ index = (repo.index \ {p}) \cup {q}
    BY <1>4
  <2>2. Acts([repo EXCEPT !.index = index, !.work = work])
    BY <1>9, <2>1
  <2> QED BY <1>2, <1>3, <2>2
<1> QED BY <1>5, <1>6, <1>7, <1>8, <1>9 DEF OutsideIndex

LEMMA IndexLooks ==
  ASSUME IndexInv, Look
  PROVE  IndexInv' /\ IndexFine
<1>1. call = NoCall /\ call' = NoCall /\ repo' = repo /\ seen' = repo /\ acts' = acts
  BY DEF Look
<1> QED BY <1>1 DEF IndexInv, IndexFine, Ends

-----------------------------------------------------------------------------
(* Branches, tags and worktrees *)

RefNames == {"switch", "create_branch", "delete_branch", "rename_branch", "create_tag",
             "delete_tag", "remove_worktree"}

RefsCall ==
    /\ IsCall(call)
    /\ \/ call.name \in RefNames /\ call.steps = <<"run">> /\ (Undisturbed => repo = call.found)
       \/ /\ call.name = "create_worktree" /\ call.steps = <<"run", "list">>
          /\ Undisturbed => repo = call.found
       \/ call.name = "create_worktree" /\ call.steps = <<"list">>
    /\ call.name = "switch" => call.arg \in Branches
    /\ call.name = "create_worktree" => call.arg \in WorktreeTargets
    /\ call.name \in {"create_branch", "delete_branch", "rename_branch"} =>
           call.arg.name \in Branches
    /\ call.name = "create_branch" => call.arg.commit \in Nat \ {0}
    /\ call.name = "rename_branch" => call.arg.new \in Branches \ {call.arg.name}
    /\ call.name = "create_tag" => call.arg \in Nat

\* What is checked out is a branch that is there.
RefsGood(r) == r \in RefsRepos /\ Exists(r, r.current)

RefsInv ==
    /\ RefsGood(repo) /\ acts \in Nat
    /\ call = NoCall \/ RefsCall

RefsLoses(r, s) ==
    \/ ~Reached(r) \subseteq Reached(s)
    \/ r.linkedDirty /\ ~s.linkedDirty

Forced == call.name \in {"delete_branch", "remove_worktree"} /\ call.arg.force

RefsFine ==
    /\ acts' = acts /\ RefsLoses(repo, repo') => Forced
    /\ Ends /\ Undisturbed =>
        /\ call.name \notin {"create_stash", "unstage", "pull"}
        /\ answer'.code \in RefusalCodes => repo' = call.found \/ LeavesNewBranch(repo')

LEMMA ReachedIs ==
  ASSUME NEW r, NEW x
  PROVE  x \in Reached(r) <=> \E b \in Branches : r.tip[b] # 0 /\ x \in {1, r.tip[b]}
BY DEF Reached

\* A run on the refs: nothing, or what it was asked, and no loss but by force.
RefsOutcome(r, force, o) ==
    \/ o.repo = r
    \/ o.exit = "ok" /\ RefsGood(o.repo) /\ (RefsLoses(r, o.repo) => force)

LEMMA SameTips ==
  ASSUME NEW r, NEW s, s.tip = r.tip, r.linkedDirty => s.linkedDirty
  PROVE  ~RefsLoses(r, s)
BY ReachedIs DEF RefsLoses

LEMMA Switches ==
  ASSUME NEW r, RefsGood(r), NEW b \in Branches, NEW o \in SwitchTo(r, b)
  PROVE  RefsOutcome(r, FALSE, o)
<1>1. PICK next : next = [r EXCEPT !.current = b]
  OBVIOUS
<1>2. \/ o \in Refusals(r) \/ o \in Fails(r, {"missing"}) \/ o \in Fails(r, {"process"})
      \/ o \in Fails(r, {"overwritten"}) \/ (o \in Ok(next) /\ Exists(r, b))
  BY <1>1 DEF SwitchTo
<1>3. /\ next \in RefsRepos /\ next.current = b /\ next.tip = r.tip
      /\ next.linkedDirty = r.linkedDirty
  BY <1>1 DEF RefsGood, RefsRepos
<1>4. ~RefsLoses(r, next)
  BY <1>3, SameTips
<1>5. Exists(r, b) => RefsGood(next)
  BY <1>3 DEF RefsGood, Exists
<1>6. o.repo = r \/ (o.repo = next /\ o.exit = "ok" /\ Exists(r, b))
  BY <1>2, FailsKeep, OkEnds DEF Refusals
<1> QED BY <1>4, <1>5, <1>6 DEF RefsOutcome

\* One branch moves to another commit.
LEMMA TipIs ==
  ASSUME NEW r \in RefsRepos, NEW b \in Branches, NEW commit \in Nat,
         NEW next, next = [r EXCEPT !.tip[b] = commit]
  PROVE  /\ next \in RefsRepos /\ next.current = r.current /\ next.linkedDirty = r.linkedDirty
         /\ next.tip[b] = commit
         /\ \A c \in Branches \ {b} : next.tip[c] = r.tip[c]
<1>1. r.tip \in [Branches -> Nat]
  BY DEF RefsRepos
<1>2. PICK tip \in [Branches -> Nat] : tip = [r.tip EXCEPT ![b] = commit]
  BY <1>1
<1>3. next = [r EXCEPT !.tip = tip]
  BY <1>2
<1>4. tip[b] = commit /\ \A c \in Branches \ {b} : tip[c] = r.tip[c]
  BY <1>1, <1>2
<1>5. /\ next \in RefsRepos /\ next.current = r.current /\ next.linkedDirty = r.linkedDirty
      /\ next.tip = tip
  BY <1>3 DEF RefsRepos
<1> QED BY <1>4, <1>5

LEMMA Branching ==
  ASSUME NEW r, RefsGood(r), NEW b \in Branches, NEW commit \in Nat \ {0},
         NEW o \in NewBranch(r, b, commit)
  PROVE  RefsOutcome(r, FALSE, o)
<1>1. PICK next : next = [r EXCEPT !.tip[b] = commit]
  OBVIOUS
<1>2. \/ o \in Refusals(r) \/ o \in Fails(r, {"exists"}) \/ o \in Fails(r, {"missing"})
      \/ o \in Ok(next) /\ ~Exists(r, b)
  BY <1>1 DEF NewBranch
<1>3. /\ next \in RefsRepos /\ next.current = r.current /\ next.linkedDirty = r.linkedDirty
      /\ next.tip[b] = commit /\ r.current \in Branches
      /\ \A c \in Branches \ {b} : next.tip[c] = r.tip[c]
  BY <1>1, TipIs DEF RefsGood, RefsRepos
<1>4. RefsGood(next)
  BY <1>3 DEF RefsGood, Exists
<1>5. ASSUME ~Exists(r, b) PROVE ~RefsLoses(r, next)
  BY <1>3, <1>5, ReachedIs DEF RefsLoses, Exists
<1>6. o.repo = r \/ (o.repo = next /\ o.exit = "ok" /\ ~Exists(r, b))
  BY <1>2, FailsKeep, OkEnds DEF Refusals
<1> QED BY <1>4, <1>5, <1>6 DEF RefsOutcome

\* Without force a branch goes only where its commits are on another: git
\* looks for them, and the branch that is checked out is there.
LEMMA Deletes ==
  ASSUME NEW r, RefsGood(r), NEW b \in Branches, NEW force, NEW o \in DeleteRef(r, b, force)
  PROVE  RefsOutcome(r, force, o)
<1>1. PICK next : next = [r EXCEPT !.tip[b] = 0]
  OBVIOUS
<1>2. \/ o \in Refusals(r) \/ o \in Fails(r, {"process"}) \/ o \in Fails(r, {"used"})
      \/ o \in Fails(r, {"unmerged"})
      \/ o \in Ok(next) /\ (force \/ Merged(r, b)) /\ b # r.current
  BY <1>1 DEF DeleteRef
<1>3. /\ next \in RefsRepos /\ next.current = r.current /\ next.linkedDirty = r.linkedDirty
      /\ next.tip[b] = 0 /\ r.current \in Branches
      /\ \A c \in Branches \ {b} : next.tip[c] = r.tip[c]
  BY <1>1, TipIs DEF RefsGood, RefsRepos
<1>4. ASSUME b # r.current PROVE RefsGood(next)
  BY <1>3, <1>4 DEF RefsGood, Exists
<1>5. ASSUME Merged(r, b), b # r.current PROVE ~RefsLoses(r, next)
  <2>1. r.current \in Branches \ {b} /\ r.tip[r.current] # 0
    BY <1>3, <1>5 DEF RefsGood, Exists
  <2>2. ASSUME NEW x \in Reached(r) PROVE x \in Reached(next)
    <3>1. PICK c \in Branches : r.tip[c] # 0 /\ x \in {1, r.tip[c]}
      BY ReachedIs
    <3>2. CASE c # b
      BY <1>3, <3>1, <3>2, ReachedIs
    <3>3. CASE c = b /\ r.tip[b] = 1
      BY <1>3, <2>1, <3>1, <3>3, ReachedIs
    <3>4. CASE c = b /\ r.tip[b] # 1
      <4>1. PICK d \in Branches \ {b} : r.tip[d] = r.tip[b]
        BY <1>5, <3>4 DEF Merged
      <4> QED BY <1>3, <3>1, <3>4, <4>1, ReachedIs
    <3> QED BY <3>2, <3>3, <3>4
  <2> QED BY <1>3, <2>2 DEF RefsLoses
<1>6. \/ o.repo = r
      \/ o.repo = next /\ o.exit = "ok" /\ (force \/ Merged(r, b)) /\ b # r.current
  BY <1>2, FailsKeep, OkEnds DEF Refusals
<1> QED BY <1>4, <1>5, <1>6 DEF RefsOutcome

LEMMA Renames ==
  ASSUME NEW r, RefsGood(r), NEW b \in Branches, NEW c \in Branches \ {b},
         NEW o \in RenameRef(r, b, c)
  PROVE  RefsOutcome(r, FALSE, o)
<1>1. PICK next : next = [r EXCEPT !.tip[c] = r.tip[b], !.tip[b] = 0,
                                   !.current = IF @ = b THEN c ELSE @,
                                   !.linked = IF @ = b THEN c ELSE @]
  OBVIOUS
<1>2. \/ o \in Refusals(r) \/ o \in Fails(r, {"missing"}) \/ o \in Fails(r, {"exists"})
      \/ o \in Ok(next) /\ Exists(r, b) /\ ~Exists(r, c)
  BY <1>1 DEF RenameRef
<1>3. /\ r \in RefsRepos /\ r.tip \in [Branches -> Nat] /\ r.current \in Branches
      /\ r.linked \in Branches \cup Nat \cup {None}
  BY DEF RefsGood, RefsRepos
<1>4. PICK current \in Branches, linked \in Branches \cup Nat \cup {None}, tip \in [Branches -> Nat] :
          /\ current = IF r.current = b THEN c ELSE r.current
          /\ linked = IF r.linked = b THEN c ELSE r.linked
          /\ tip = [[r.tip EXCEPT ![c] = r.tip[b]] EXCEPT ![b] = 0]
  BY <1>3
<1>5. next = [r EXCEPT !.tip = tip, !.current = current, !.linked = linked]
  BY <1>1, <1>3, <1>4 DEF RefsRepos
<1>6. /\ next \in RefsRepos /\ next.tip = tip /\ next.current = current
      /\ next.linkedDirty = r.linkedDirty
  BY <1>3, <1>5 DEF RefsRepos
<1>7. /\ tip[c] = r.tip[b] /\ tip[b] = 0
      /\ \A d \in Branches \ {b, c} : tip[d] = r.tip[d]
  BY <1>3, <1>4
<1>8. ASSUME Exists(r, b), ~Exists(r, c) PROVE RefsGood(next)
  BY <1>3, <1>4, <1>6, <1>7, <1>8 DEF RefsGood, Exists
<1>9. ASSUME Exists(r, b), ~Exists(r, c) PROVE ~RefsLoses(r, next)
  <2>1. ASSUME NEW x \in Reached(r) PROVE x \in Reached(next)
    <3>1. PICK d \in Branches : r.tip[d] # 0 /\ x \in {1, r.tip[d]}
      BY ReachedIs
    <3>2. CASE d = b
      BY <1>6, <1>7, <3>1, <3>2, ReachedIs
    <3>3. CASE d # b
      BY <1>6, <1>7, <1>9, <3>1, <3>3, ReachedIs DEF Exists
    <3> QED BY <3>2, <3>3
  <2> QED BY <1>6, <2>1 DEF RefsLoses
<1>10. \/ o.repo = r
       \/ o.repo = next /\ o.exit = "ok" /\ Exists(r, b) /\ ~Exists(r, c)
  BY <1>2, FailsKeep, OkEnds DEF Refusals
<1> QED BY <1>8, <1>9, <1>10 DEF RefsOutcome

LEMMA Tags ==
  ASSUME NEW r, RefsGood(r), NEW tag \in Nat, NEW o,
         o \in CreateTagRef(r, tag) \/ (tag = 0 /\ o \in DeleteTagRef(r))
  PROVE  RefsOutcome(r, FALSE, o)
<1>1. PICK next : next = [r EXCEPT !.tag = tag]
  OBVIOUS
<1>2. \/ o \in Refusals(r) \/ o \in Fails(r, {"missing"}) \/ o \in Fails(r, {"exists"})
      \/ o \in Ok(next)
  BY <1>1 DEF CreateTagRef, DeleteTagRef
<1>3. /\ next \in RefsRepos /\ next.current = r.current /\ next.tip = r.tip
      /\ next.linkedDirty = r.linkedDirty
  BY <1>1 DEF RefsGood, RefsRepos
<1>4. RefsGood(next) /\ ~RefsLoses(r, next)
  BY <1>3, SameTips DEF RefsGood, Exists
<1>5. o.repo = r \/ (o.repo = next /\ o.exit = "ok")
  BY <1>2, FailsKeep, OkEnds DEF Refusals
<1> QED BY <1>4, <1>5 DEF RefsOutcome

\* A worktree is made, or nothing is, or nothing but the new branch.
LeavesTip(r, target, s) ==
    target.is = "new" /\ s = [r EXCEPT !.tip[target.branch] = s.tip[target.branch]]

LEMMA BranchesOff ==
  ASSUME NEW r, RefsGood(r), NEW b \in Branches, ~Exists(r, b), NEW start \in {None} \cup (Nat \ {0})
  PROVE  /\ RefsGood(BranchOff(r, b, start)) /\ ~RefsLoses(r, BranchOff(r, b, start))
         /\ \A target : target.is = "new" /\ target.branch = b =>
                LeavesTip(r, target, BranchOff(r, b, start))
<1>1. PICK commit : commit = IF start = None THEN r.tip[r.current] ELSE start
  OBVIOUS
<1>2. PICK next : next = [r EXCEPT !.tip[b] = commit]
  OBVIOUS
<1>3. next = BranchOff(r, b, start)
  BY <1>1, <1>2 DEF BranchOff
<1>4. commit \in Nat \ {0}
  BY <1>1 DEF RefsGood, RefsRepos, Exists
<1>5. /\ next \in RefsRepos /\ next.current = r.current /\ next.linkedDirty = r.linkedDirty
      /\ next.tip[b] = commit /\ r.current \in Branches
      /\ \A c \in Branches \ {b} : next.tip[c] = r.tip[c]
  BY <1>2, <1>4, TipIs DEF RefsGood, RefsRepos
<1>6. RefsGood(next) /\ ~RefsLoses(r, next)
  BY <1>5, ReachedIs DEF RefsGood, RefsLoses, Exists
<1>7. next = [r EXCEPT !.tip[b] = next.tip[b]]
  BY <1>2, <1>5
<1> QED BY <1>3, <1>6, <1>7 DEF LeavesTip

LEMMA ChecksOut ==
  ASSUME NEW r, RefsGood(r), NEW head \in Branches \cup Nat, NEW o \in CheckOutLinked(r, head)
  PROVE  /\ (o.repo = r /\ o.exit = "exists") \/ o.exit = "ok"
         /\ RefsGood(o.repo) /\ o.repo.tip = r.tip /\ o.repo.linkedDirty = r.linkedDirty
<1>1. PICK next : next = [r EXCEPT !.linked = head]
  OBVIOUS
<1>2. o \in Fails(r, {"exists"}) \/ o \in Ok(next)
  BY <1>1 DEF CheckOutLinked
<1>3. /\ next \in RefsRepos /\ next.current = r.current /\ next.tip = r.tip
      /\ next.linkedDirty = r.linkedDirty
  BY <1>1 DEF RefsGood, RefsRepos
<1>4. RefsGood(next)
  BY <1>3 DEF RefsGood, Exists
<1> QED BY <1>2, <1>3, <1>4, FailsKeep, OkEnds

LEMMA WorktreesAdded ==
  ASSUME NEW r, RefsGood(r), NEW target \in WorktreeTargets, NEW o \in AddWorktree(r, target)
  PROVE  /\ RefsGood(o.repo) /\ ~RefsLoses(r, o.repo)
         /\ o.exit = "ok" \/ o.repo = r \/ LeavesTip(r, target, o.repo)
<1>1. ~RefsLoses(r, r)
  BY SameTips
<1>2. ASSUME NEW X, o \in Fails(r, X) PROVE o.repo = r
  BY <1>2, FailsKeep
<1>3. CASE o \in Refusals(r)
  BY <1>1, <1>3, FailsKeep DEF Refusals
<1>4. ASSUME NEW head \in Branches \cup Nat, o \in CheckOutLinked(r, head)
      PROVE  RefsGood(o.repo) /\ ~RefsLoses(r, o.repo) /\ (o.exit = "ok" \/ o.repo = r)
  BY <1>4, ChecksOut, SameTips
<1>5. CASE target.is = "existing"
  <2>1. target.branch \in Branches
    BY <1>5 DEF WorktreeTargets
  <2>2. \/ o \in Refusals(r) \/ o \in Fails(r, {"used"}) \/ o \in Fails(r, {"process"})
        \/ o \in CheckOutLinked(r, target.branch)
    BY <1>5 DEF AddWorktree
  <2> QED BY <1>1, <1>2, <1>3, <1>4, <2>1, <2>2
<1>6. CASE target.is = "detached"
  <2>1. target.commit \in Nat
    BY <1>6 DEF WorktreeTargets
  <2>2. o \in Refusals(r) \/ o \in CheckOutLinked(r, target.commit)
    BY <1>6 DEF AddWorktree
  <2> QED BY <1>1, <1>3, <1>4, <2>1, <2>2
<1>7. CASE target.is = "new"
  <2>1. target.branch \in Branches /\ target.commit \in {None} \cup (Nat \ {0})
    BY <1>7 DEF WorktreeTargets
  <2>2. PICK s : s = BranchOff(r, target.branch, target.commit)
    OBVIOUS
  <2>3. \/ o \in Refusals(r) \/ o \in Fails(r, {"exists"})
        \/ ~Exists(r, target.branch) /\ o \in CheckOutLinked(s, target.branch)
        \/ ~Exists(r, target.branch) /\ o \in Fails(s, {"process"})
    BY <1>7, <2>2 DEF AddWorktree
  <2>4. ASSUME ~Exists(r, target.branch)
        PROVE  RefsGood(s) /\ ~RefsLoses(r, s) /\ LeavesTip(r, target, s)
    BY <1>7, <2>1, <2>2, <2>4, BranchesOff
  <2>5. CASE ~Exists(r, target.branch) /\ o \in CheckOutLinked(s, target.branch)
    <3>1. /\ (o.repo = s /\ o.exit = "exists") \/ o.exit = "ok"
          /\ RefsGood(o.repo) /\ o.repo.tip = s.tip /\ o.repo.linkedDirty = s.linkedDirty
      BY <2>1, <2>4, <2>5, ChecksOut
    <3>2. ~RefsLoses(r, o.repo)
      BY <2>4, <2>5, <3>1 DEF RefsLoses, Reached
    <3> QED BY <2>4, <2>5, <3>1, <3>2
  <2>6. CASE ~Exists(r, target.branch) /\ o \in Fails(s, {"process"})
    BY <2>4, <2>6, FailsKeep
  <2> QED BY <1>1, <1>2, <1>3, <2>3, <2>5, <2>6
<1> QED BY <1>5, <1>6, <1>7 DEF WorktreeTargets

LEMMA WorktreesDropped ==
  ASSUME NEW r, RefsGood(r), NEW force, NEW o \in DropWorktree(r, force)
  PROVE  RefsOutcome(r, force, o)
<1>1. PICK next : next = [r EXCEPT !.linked = None, !.linkedDirty = FALSE]
  OBVIOUS
<1>2. \/ o \in Refusals(r) \/ o \in Fails(r, {"missing"}) \/ o \in Fails(r, {"modified"})
      \/ o \in Fails(r, {"worktreelocked"})
      \/ o \in Ok(next) /\ (r.linkedDirty => force)
  BY <1>1 DEF DropWorktree
<1>3. next \in RefsRepos /\ next.current = r.current /\ next.tip = r.tip
  BY <1>1 DEF RefsGood, RefsRepos
<1>4. RefsGood(next) /\ (~r.linkedDirty => ~RefsLoses(r, next))
  BY <1>3, SameTips DEF RefsGood, Exists
<1>5. o.repo = r \/ (o.repo = next /\ o.exit = "ok" /\ (r.linkedDirty => force))
  BY <1>2, FailsKeep, OkEnds DEF Refusals
<1> QED BY <1>4, <1>5 DEF RefsOutcome

LEMMA RefsStart == \A r \in InitialRepos("refs") : RefsGood(r)
<1>1. InitialRepos("refs") =
        {[tip |-> [b \in Branches |-> IF b = first THEN 1 ELSE 0], current |-> first,
          tag |-> 0, linked |-> None, linkedDirty |-> FALSE] : first \in Branches}
  BY DEF InitialRepos
<1>2. ASSUME NEW first \in Branches
      PROVE  RefsGood([tip |-> [b \in Branches |-> IF b = first THEN 1 ELSE 0], current |-> first,
                       tag |-> 0, linked |-> None, linkedDirty |-> FALSE])
  <2>1. PICK tip : tip = [b \in Branches |-> IF b = first THEN 1 ELSE 0]
    OBVIOUS
  <2>2. tip \in [Branches -> Nat] /\ tip[first] # 0
    BY <2>1
  <2>3. RefsGood([tip |-> tip, current |-> first, tag |-> 0, linked |-> None,
                  linkedDirty |-> FALSE])
    BY <2>2 DEF RefsGood, Exists, RefsRepos
  <2> QED BY <2>1, <2>3
<1> QED BY <1>1, <1>2

LEMMA RefsNames ==
  ASSUME RefsCall
  PROVE  /\ IsCall(call) /\ call # NoCall /\ call.name \in RefNames \cup {"create_worktree"}
BY Busy DEF RefsCall

LEMMA RefsEnd ==
  ASSUME RefsInv, RefsCall, acts' = acts, call' = NoCall, RefsGood(repo'),
         RefsLoses(repo, repo') => Forced,
         Undisturbed /\ answer'.code \in RefusalCodes =>
             repo' = call.found \/ LeavesNewBranch(repo')
  PROVE  RefsInv' /\ RefsFine
<1>1. RefsInv'
  BY DEF RefsInv
<1>2. call.name \notin {"create_stash", "unstage", "pull"}
  BY RefsNames DEF RefNames
<1> QED BY <1>1, <1>2 DEF RefsFine

LEMMA RefsRun ==
  ASSUME RefsInv, RefsCall, call.steps = <<"run">>, NEW outcomes, NEW table,
         Ran(outcomes, table, None), \A o \in outcomes : RefsOutcome(repo, Forced, o)
  PROVE  RefsInv' /\ RefsFine
<1>1. Len(call.steps) = 1 /\ RefsGood(repo)
  BY DEF RefsInv
<1>2. PICK o \in outcomes :
          /\ seen' = seen /\ acts' = acts /\ call' = NoCall /\ repo' = o.repo
          /\ \/ o.exit \notin {"ok", "up_to_date"} /\ answer'.code = CodeOf(o.exit, table)
             \/ o.exit \in {"ok", "up_to_date"} /\ answer'.code = "Ok"
  BY <1>1, LastRun
<1>3. Undisturbed => repo = call.found
  BY TailOf1, TailOf2, <1>1 DEF RefsCall
<1>4. RefsGood(repo') /\ (RefsLoses(repo, repo') => Forced)
  BY <1>1, <1>2, SameTips DEF RefsOutcome
<1>5. Undisturbed /\ answer'.code \in RefusalCodes => repo' = call.found
  BY <1>2, <1>3 DEF RefsOutcome, RefusalCodes
<1> QED BY <1>2, <1>4, <1>5, RefsEnd

\* What a call on the refs is, from its name.
LEMMA RefsCallIs ==
  ASSUME RefsInv, NEW name \in RefNames, At(name, "run")
  PROVE  RefsCall /\ call.name = name /\ call.steps = <<"run">> /\ RefsGood(repo)
<1>1. call.name = name /\ call # NoCall
  BY AtIs DEF RefNames
<1>2. RefsCall
  BY <1>1 DEF RefsInv
<1> QED BY <1>1, <1>2 DEF RefsCall, RefNames, RefsInv

LEMMA RefsRuns ==
  ASSUME RefsInv,
         \/ SwitchBranch \/ CreateBranch \/ DeleteBranch \/ RenameBranch
         \/ CreateTag \/ DeleteTag \/ RemoveWorktree
  PROVE  RefsInv' /\ RefsFine
<1>1. ASSUME NEW name \in RefNames, At(name, "run"), NEW outcomes, NEW classified,
             RanLocking(outcomes, classified), \A o \in outcomes : RefsOutcome(repo, Forced, o)
      PROVE  RefsInv' /\ RefsFine
  <2>1. PICK table : Ran(outcomes, table, None)
    BY <1>1 DEF RanLocking
  <2> QED BY <1>1, <2>1, RefsCallIs, RefsRun
<1>2. ASSUME NEW r, NEW o, RefsOutcome(r, FALSE, o) PROVE RefsOutcome(r, Forced, o)
  BY <1>2 DEF RefsOutcome
<1>3. CASE SwitchBranch
  <2>1. At("switch", "run") /\ RanLocking(SwitchTo(repo, call.arg), ClassifySwitch)
    BY <1>3 DEF SwitchBranch
  <2>2. call.arg \in Branches /\ RefsGood(repo)
    BY <2>1, RefsCallIs DEF RefNames, RefsCall
  <2>3. \A o \in SwitchTo(repo, call.arg) : RefsOutcome(repo, Forced, o)
    BY <1>2, <2>2, Switches
  <2> QED BY <1>1, <2>1, <2>3 DEF RefNames
<1>4. CASE CreateBranch
  <2>1. /\ At("create_branch", "run")
        /\ RanLocking(NewBranch(repo, call.arg.name, call.arg.commit), ClassifyCreateBranch)
    BY <1>4 DEF CreateBranch
  <2>2. call.arg.name \in Branches /\ call.arg.commit \in Nat \ {0} /\ RefsGood(repo)
    BY <2>1, RefsCallIs DEF RefNames, RefsCall
  <2>3. \A o \in NewBranch(repo, call.arg.name, call.arg.commit) : RefsOutcome(repo, Forced, o)
    BY <1>2, <2>2, Branching
  <2> QED BY <1>1, <2>1, <2>3 DEF RefNames
<1>5. CASE DeleteBranch
  <2>1. /\ At("delete_branch", "run")
        /\ RanLocking(DeleteRef(repo, call.arg.name, call.arg.force), ClassifyDeleteBranch)
    BY <1>5 DEF DeleteBranch
  <2>2. call.arg.name \in Branches /\ RefsGood(repo) /\ call.name = "delete_branch"
    BY <2>1, RefsCallIs DEF RefNames, RefsCall
  <2>3. \A o \in DeleteRef(repo, call.arg.name, call.arg.force) :
            RefsOutcome(repo, call.arg.force, o)
    BY <2>2, Deletes
  <2>4. \A o : RefsOutcome(repo, call.arg.force, o) => RefsOutcome(repo, Forced, o)
    BY <2>2 DEF RefsOutcome, Forced
  <2> QED BY <1>1, <2>1, <2>3, <2>4 DEF RefNames
<1>6. CASE RenameBranch
  <2>1. /\ At("rename_branch", "run")
        /\ RanLocking(RenameRef(repo, call.arg.name, call.arg.new), ClassifyRenameBranch)
    BY <1>6 DEF RenameBranch
  <2>2. /\ call.arg.name \in Branches /\ call.arg.new \in Branches \ {call.arg.name}
        /\ RefsGood(repo)
    BY <2>1, RefsCallIs DEF RefNames, RefsCall
  <2>3. \A o \in RenameRef(repo, call.arg.name, call.arg.new) : RefsOutcome(repo, Forced, o)
    BY <1>2, <2>2, Renames
  <2> QED BY <1>1, <2>1, <2>3 DEF RefNames
<1>7. CASE CreateTag
  <2>1. At("create_tag", "run") /\ RanLocking(CreateTagRef(repo, call.arg), ClassifyCreateTag)
    BY <1>7 DEF CreateTag
  <2>2. call.arg \in Nat /\ RefsGood(repo)
    BY <2>1, RefsCallIs DEF RefNames, RefsCall
  <2>3. \A o \in CreateTagRef(repo, call.arg) : RefsOutcome(repo, Forced, o)
    BY <1>2, <2>2, Tags
  <2> QED BY <1>1, <2>1, <2>3 DEF RefNames
<1>8. CASE DeleteTag
  <2>1. At("delete_tag", "run") /\ RanLocking(DeleteTagRef(repo), ClassifyDeleteTag)
    BY <1>8 DEF DeleteTag
  <2>2. RefsGood(repo)
    BY DEF RefsInv
  <2>3. \A o \in DeleteTagRef(repo) : RefsOutcome(repo, Forced, o)
    BY <1>2, <2>2, Tags
  <2> QED BY <1>1, <2>1, <2>3 DEF RefNames
<1>9. CASE RemoveWorktree
  <2>1. /\ At("remove_worktree", "run")
        /\ RanLocking(DropWorktree(repo, call.arg.force), ClassifyRemoveWorktree)
    BY <1>9 DEF RemoveWorktree
  <2>2. RefsGood(repo) /\ call.name = "remove_worktree"
    BY <2>1, RefsCallIs DEF RefNames
  <2>3. \A o \in DropWorktree(repo, call.arg.force) : RefsOutcome(repo, call.arg.force, o)
    BY <2>2, WorktreesDropped
  <2>4. \A o : RefsOutcome(repo, call.arg.force, o) => RefsOutcome(repo, Forced, o)
    BY <2>2 DEF RefsOutcome, Forced
  <2> QED BY <1>1, <2>1, <2>3, <2>4 DEF RefNames
<1> QED BY <1>3, <1>4, <1>5, <1>6, <1>7, <1>8, <1>9

LEMMA WorktreeIsCreated ==
  ASSUME RefsInv, CreateWorktree
  PROVE  RefsInv' /\ RefsFine
<1>1. call.name = "create_worktree" /\ call # NoCall
  BY AtIs DEF CreateWorktree
<1>2. RefsCall /\ RefsGood(repo) /\ IsCall(call) /\ call.arg \in WorktreeTargets
  BY <1>1 DEF RefsInv, RefsCall
<1>3. ~RefsLoses(repo, repo)
  BY SameTips
<1>4. CASE /\ At("create_worktree", "run")
           /\ RanLocking(AddWorktree(repo, call.arg), ClassifyCreateWorktree)
  <2>1. call.steps = <<"run", "list">> /\ (Undisturbed => repo = call.found)
    BY <1>1, <1>2, <1>4, TailOf1 DEF At, RefsCall, RefNames
  <2>2. Len(call.steps) # 1
    BY <2>1
  <2>3. PICK table : Ran(AddWorktree(repo, call.arg), table, None)
    BY <1>4 DEF RanLocking
  <2>4. PICK o \in AddWorktree(repo, call.arg) :
               /\ repo' = o.repo /\ seen' = seen /\ acts' = acts
               /\ \/ o.exit # "ok" /\ call' = NoCall
                  \/ o.exit = "ok" /\ call' = [call EXCEPT !.steps = Tail(@)]
    BY <2>2, <2>3, FirstRun
  <2>5. o.exit = "ok" \/ o.repo = repo \/ LeavesTip(repo, call.arg, o.repo)
    BY <1>2, WorktreesAdded
  <2>6. RefsGood(repo') /\ ~RefsLoses(repo, repo')
    BY <1>2, <2>4, WorktreesAdded
  <2>7. CASE o.exit # "ok" /\ call' = NoCall
    <3>1. repo' = repo \/ LeavesTip(repo, call.arg, repo')
      BY <2>4, <2>5, <2>7
    <3>2. Undisturbed => repo' = call.found \/ LeavesNewBranch(repo')
      BY <1>1, <2>1, <3>1 DEF LeavesTip, LeavesNewBranch
    <3> QED BY <1>2, <2>1, <2>4, <2>6, <2>7, <3>2, RefsEnd
  <2>8. CASE call' = [call EXCEPT !.steps = Tail(@)]
    <3>1. Onward /\ call'.arg = call.arg
      BY <1>2, <2>4, <2>8, NextStep
    <3>2. call'.steps = <<"list">>
      BY <2>1, <3>1, TailOf2 DEF Onward
    <3>3. RefsCall'
      BY <1>1, <1>2, <3>1, <3>2 DEF RefsCall, Onward
    <3>4. call' # NoCall
      BY <1>1, <3>1, NoCallNone DEF Onward
    <3>5. RefsInv'
      BY <2>4, <2>6, <3>3 DEF RefsInv
    <3> QED BY <2>6, <3>4, <3>5 DEF RefsFine, Ends
  <2> QED BY <2>4, <2>7, <2>8
<1>5. CASE /\ At("create_worktree", "list")
           /\ Read(IF repo.linked = None THEN Refuse("ParseFailure")
                   ELSE Answer("Ok", repo.linked))
  <2>1. /\ repo' = repo /\ seen' = seen /\ acts' = acts /\ call' = NoCall
        /\ answer'.code \in {"ParseFailure", "Ok"}
    BY <1>5 DEF Read, Refuse, Answer
  <2>2. answer'.code \notin RefusalCodes
    BY <2>1 DEF RefusalCodes
  <2> QED BY <1>2, <1>3, <2>1, <2>2, RefsEnd
<1> QED BY <1>4, <1>5 DEF CreateWorktree

LEMMA RefsReadFails ==
  ASSUME RefsInv, ReadRunFails
  PROVE  RefsInv' /\ RefsFine
<1>1. /\ repo' = repo /\ seen' = seen /\ acts' = acts /\ call' = NoCall
      /\ answer'.code = "ProcessFailure"
  BY DEF ReadRunFails, Read, Refuse, Answer
<1>2. RefsCall /\ RefsGood(repo)
  BY NoCallNone DEF ReadRunFails, RefsInv
<1>3. ~RefsLoses(repo, repo)
  BY SameTips
<1>4. answer'.code \notin RefusalCodes
  BY <1>1 DEF RefusalCodes
<1> QED BY <1>1, <1>2, <1>3, <1>4, RefsEnd

LEMMA RefsBegin ==
  ASSUME RefsInv, BeginRefs
  PROVE  RefsInv' /\ RefsFine
<1>1. acts \in Nat /\ RefsGood(repo)
  BY DEF RefsInv
<1>2. ASSUME NEW name, NEW arg, Begun(name, arg), RefsCall' PROVE RefsInv' /\ RefsFine
  <2>1. call = NoCall /\ repo' = repo /\ acts' = acts
    BY <1>2 DEF Begun
  <2>2. RefsInv'
    BY <1>1, <1>2, <2>1 DEF RefsInv
  <2>3. ~RefsLoses(repo, repo')
    BY <2>1, SameTips
  <2> QED BY <2>1, <2>2, <2>3 DEF RefsFine, Ends
<1>3. \A name \in RefNames : Steps(name) = <<"run">>
  BY DEF Steps, RefNames
<1>4. Steps("create_worktree") = <<"run", "list">>
  BY DEF Steps
<1>5. ASSUME NEW name \in RefNames \cup {"create_worktree"}, NEW arg, Begin(name, arg),
             name = "switch" => arg \in Branches,
             name = "create_worktree" => arg \in WorktreeTargets,
             name \in {"create_branch", "delete_branch", "rename_branch"} =>
                 arg.name \in Branches,
             name = "create_branch" => arg.commit \in Nat \ {0},
             name = "rename_branch" => arg.new \in Branches \ {arg.name},
             name = "create_tag" => arg \in Nat
      PROVE  RefsInv' /\ RefsFine
  <2>1. name # "none"
    BY DEF RefNames
  <2>2. Begun(name, arg)
    BY <1>1, <1>5, <2>1, BeginIs
  <2>3. /\ IsCall(call)' /\ call'.name = name /\ call'.arg = arg /\ call'.found = repo'
        /\ call'.steps = Steps(name)
    BY <2>2 DEF Begun
  <2>4. RefsCall'
    BY <1>3, <1>4, <1>5, <2>3 DEF RefsCall
  <2> QED BY <1>2, <2>2, <2>4
<1>6. ASSUME NEW b \in Branches, Begin("switch", b) PROVE RefsInv' /\ RefsFine
  BY <1>5, <1>6 DEF RefNames
<1>7. ASSUME NEW b \in Branches, NEW commit \in 1 .. MaxCommits,
             Begin("create_branch", [name |-> b, commit |-> commit])
      PROVE  RefsInv' /\ RefsFine
  <2>1. PICK arg : arg = [name |-> b, commit |-> commit]
    OBVIOUS
  <2>2. arg.name = b /\ arg.commit \in Nat \ {0}
    BY <2>1
  <2> QED BY <1>5, <1>7, <2>1, <2>2 DEF RefNames
<1>8. ASSUME NEW b \in Branches, NEW force \in BOOLEAN,
             Begin("delete_branch", [name |-> b, force |-> force])
      PROVE  RefsInv' /\ RefsFine
  <2>1. PICK arg : arg = [name |-> b, force |-> force]
    OBVIOUS
  <2>2. arg.name = b
    BY <2>1
  <2> QED BY <1>5, <1>8, <2>1, <2>2 DEF RefNames
<1>9. ASSUME NEW b \in Branches, NEW c \in Branches \ {b},
             Begin("rename_branch", [name |-> b, new |-> c])
      PROVE  RefsInv' /\ RefsFine
  <2>1. PICK arg : arg = [name |-> b, new |-> c]
    OBVIOUS
  <2>2. arg.name = b /\ arg.new = c
    BY <2>1
  <2> QED BY <1>5, <1>9, <2>1, <2>2 DEF RefNames
<1>10. ASSUME NEW commit \in 1 .. MaxCommits, Begin("create_tag", commit)
       PROVE  RefsInv' /\ RefsFine
  <2>1. commit \in Nat
    OBVIOUS
  <2> QED BY <1>5, <1>10, <2>1 DEF RefNames
<1>11. CASE Begin("delete_tag", None)
  BY <1>5, <1>11 DEF RefNames
<1>12. ASSUME NEW force \in BOOLEAN, Begin("remove_worktree", [force |-> force])
       PROVE  RefsInv' /\ RefsFine
  <2>1. PICK arg : arg = [force |-> force]
    OBVIOUS
  <2> QED BY <1>5, <1>12, <2>1 DEF RefNames
<1>13. ASSUME NEW target \in WorktreeTargets, Begin("create_worktree", target)
       PROVE  RefsInv' /\ RefsFine
  BY <1>5, <1>13
<1> QED BY <1>6, <1>7, <1>8, <1>9, <1>10, <1>11, <1>12, <1>13 DEF BeginRefs

LEMMA RefsOutside ==
  ASSUME RefsInv, OutsideRefs
  PROVE  RefsInv' /\ RefsFine
<1>1. acts \in Nat /\ RefsGood(repo) /\ repo \in RefsRepos /\ repo.current \in Branches
  BY DEF RefsInv, RefsGood, RefsRepos
<1>2. ASSUME NEW r, RefsGood(r), Acts(r) PROVE RefsInv' /\ RefsFine
  <2>1. /\ call' = call /\ acts' = acts + 1 /\ repo' = r /\ acts' # acts
    BY <1>1, <1>2 DEF Acts
  <2>2. ASSUME IsCall(call) PROVE IsCall(call)' /\ ~Undisturbed'
    BY <1>1, <2>1, <2>2 DEF IsCall, Undisturbed
  <2>3. RefsCall => RefsCall'
    BY <2>1, <2>2 DEF RefsCall
  <2> QED BY <1>1, <1>2, <2>1, <2>3 DEF RefsInv, RefsFine, Ends
<1>3. ASSUME NEW b \in Branches, NEW commit \in 0 .. MaxCommits,
             commit = 0 => b \notin {repo.current, repo.linked},
             Acts([repo EXCEPT !.tip[b] = commit])
      PROVE  RefsInv' /\ RefsFine
  <2>1. PICK next : next = [repo EXCEPT !.tip[b] = commit]
    OBVIOUS
  <2>2. /\ next \in RefsRepos /\ next.current = repo.current /\ next.tip[b] = commit
        /\ \A c \in Branches \ {b} : next.tip[c] = repo.tip[c]
    BY <1>1, <2>1, TipIs
  <2>3. RefsGood(next)
    BY <1>1, <1>3, <2>2 DEF RefsGood, Exists
  <2> QED BY <1>2, <1>3, <2>1, <2>3
<1>4. CASE Acts([repo EXCEPT !.linkedDirty = TRUE])
  <2>1. RefsGood([repo EXCEPT !.linkedDirty = TRUE])
    BY <1>1 DEF RefsGood, Exists, RefsRepos
  <2> QED BY <1>2, <1>4, <2>1
<1>5. CASE Acts([repo EXCEPT !.linked = None, !.linkedDirty = FALSE])
  <2>1. RefsGood([repo EXCEPT !.linked = None, !.linkedDirty = FALSE])
    BY <1>1 DEF RefsGood, Exists, RefsRepos
  <2> QED BY <1>2, <1>5, <2>1
<1> QED BY <1>3, <1>4, <1>5 DEF OutsideRefs

-----------------------------------------------------------------------------
(* Remotes *)

Bare(r) == [r EXCEPT !.tracking = {}]

Pulling ==
    /\ IsCall(call) /\ call.name = "pull"
    /\ \/ call.steps = <<"fetch", "merge", "rev-parse">> /\ (Undisturbed => repo = call.found)
       \/ /\ call.steps = <<"merge", "rev-parse">>
          /\ Undisturbed =>
                Bare(repo) = Bare(call.found) /\ repo.tracking = call.found.published
       \/ /\ call.steps = <<"rev-parse">>
          /\ Undisturbed => call.found.published \subseteq repo.local

RemoteRunning ==
    /\ IsCall(call) /\ call.name \in {"fetch", "push", "force_push"} /\ call.steps = <<"run">>
    /\ Undisturbed => repo = call.found

RemoteInv ==
    /\ repo \in RemoteRepos /\ seen \in RemoteRepos /\ acts \in Nat
    /\ call = NoCall \/ Pulling \/ RemoteRunning

Seen == IF call.name = "force_push" THEN call.arg ELSE {}

RemoteFine ==
    /\ acts' = acts => repo.published \ repo'.published \subseteq Seen
    /\ Ends /\ Undisturbed =>
        /\ call.name \notin {"create_stash", "unstage"}
        /\ answer'.code \in RefusalCodes => Bare(repo') = Bare(call.found)
        /\ answer'.code = "Ok" /\ call.name = "pull" => call.found.published \subseteq repo'.local

LEMMA RemoteStarts == \A r \in InitialRepos("remote") : r \in RemoteRepos
<1>1. InitialRepos("remote") = {[local |-> {1}, tracking |-> {1}, published |-> {1}, made |-> 1]}
  BY DEF InitialRepos
<1> QED BY <1>1 DEF RemoteRepos

LEMMA Fetches ==
  ASSUME NEW r \in RemoteRepos, NEW o \in FetchFrom(r)
  PROVE  \/ o.repo = r /\ o.exit \notin {"ok", "up_to_date"}
         \/ /\ o.exit = "ok" /\ o.repo \in RemoteRepos /\ Bare(o.repo) = Bare(r)
            /\ o.repo.tracking = r.published /\ o.repo.published = r.published
<1>1. PICK next : next = [r EXCEPT !.tracking = r.published]
  OBVIOUS
<1>2. \/ o \in Fails(r, {"process", "authentication", "unreachable", "cancelled"})
      \/ o \in Ok(next)
  BY <1>1 DEF FetchFrom, Transport
<1>3. /\ next \in RemoteRepos /\ next.tracking = r.published /\ next.published = r.published
      /\ Bare(next) = Bare(r)
  BY <1>1 DEF RemoteRepos, Bare
<1> QED BY <1>2, <1>3, FailsKeep, OkEnds

LEMMA Merges ==
  ASSUME NEW r \in RemoteRepos, NEW o \in MergeFastForward(r)
  PROVE  \/ o.repo = r /\ o.exit \notin {"ok", "up_to_date"}
         \/ o.repo = r /\ o.exit = "up_to_date" /\ r.tracking \subseteq r.local
         \/ /\ o.exit = "ok" /\ o.repo \in RemoteRepos
            /\ o.repo.local = r.tracking /\ o.repo.published = r.published
<1>1. PICK next : next = [r EXCEPT !.local = r.tracking]
  OBVIOUS
<1>2. \/ o \in Refusals(r) \/ o \in Fails(r, {"cancelled"}) \/ o \in Fails(r, {"diverged"})
      \/ o \in Fails(r, {"up_to_date"}) /\ r.tracking \subseteq r.local
      \/ o \in Ok(next)
  BY <1>1 DEF MergeFastForward
<1>3. /\ next \in RemoteRepos /\ next.local = r.tracking /\ next.published = r.published
  BY <1>1 DEF RemoteRepos
<1> QED BY <1>2, <1>3, FailsKeep, OkEnds DEF Refusals

\* A push moves the remote's branch to the local one, or nothing.
PushOutcome(r, o) ==
    \/ o.repo = r
    \/ /\ o.exit \in {"ok", "unreachable", "cancelled"} /\ o.repo \in RemoteRepos
       /\ o.repo.published = r.local

LEMMA PushedOutcome ==
  ASSUME NEW r \in RemoteRepos, NEW o, NEW X,
         \/ o \in Fails(r, X) \/ o \in Ok(AfterPush(r))
         \/ o \in {Outcome([r EXCEPT !.published = r.local], exit) :
                       exit \in {"unreachable", "cancelled"}}
  PROVE  PushOutcome(r, o)
<1>1. PICK next : next = [r EXCEPT !.published = r.local]
  OBVIOUS
<1>2. next \in RemoteRepos /\ next.published = r.local
  BY <1>1 DEF RemoteRepos
<1>3. AfterPush(r) \in RemoteRepos /\ AfterPush(r).published = r.local
  BY DEF AfterPush, RemoteRepos
<1>4. \/ o.repo = r
      \/ o.repo = AfterPush(r) /\ o.exit = "ok"
      \/ o.repo = next /\ o.exit \in {"unreachable", "cancelled"}
  BY <1>1, FailsKeep, OkEnds, OutcomeFields
<1> QED BY <1>2, <1>3, <1>4 DEF PushOutcome

LEMMA Pushes ==
  ASSUME NEW r \in RemoteRepos, NEW o \in PushTo(r)
  PROVE  PushOutcome(r, o) /\ (o.repo = r \/ r.published \subseteq r.local)
<1>1. \/ o \in Fails(r, {"process", "authentication", "unreachable", "cancelled"})
      \/ o \in Fails(r, {"rejected"})
      \/ /\ r.published \subseteq r.local
         /\ \/ o \in Ok(AfterPush(r))
            \/ o \in {Outcome([r EXCEPT !.published = r.local], exit) :
                          exit \in {"unreachable", "cancelled"}}
  BY DEF PushTo, Transport
<1>2. PushOutcome(r, o)
  BY <1>1, PushedOutcome
<1> QED BY <1>1, <1>2, FailsKeep

LEMMA PushesWithLease ==
  ASSUME NEW r \in RemoteRepos, NEW expected, NEW o \in PushWithLease(r, expected)
  PROVE  PushOutcome(r, o) /\ (o.repo = r \/ r.published = expected)
<1>1. \/ o \in Fails(r, {"process", "authentication", "unreachable", "cancelled"})
      \/ o \in Fails(r, {"stale"})
      \/ /\ r.published = expected
         /\ \/ o \in Ok(AfterPush(r))
            \/ o \in {Outcome([r EXCEPT !.published = r.local], exit) :
                          exit \in {"unreachable", "cancelled"}}
  BY DEF PushWithLease, Transport
<1>2. PushOutcome(r, o)
  BY <1>1, PushedOutcome
<1> QED BY <1>1, <1>2, FailsKeep

LEMMA RemoteEnds ==
  ASSUME RemoteInv, Pulling \/ RemoteRunning, seen' = seen, acts' = acts, call' = NoCall,
         repo' \in RemoteRepos, repo.published \ repo'.published \subseteq Seen,
         Undisturbed /\ answer'.code \in RefusalCodes => Bare(repo') = Bare(call.found),
         Undisturbed /\ answer'.code = "Ok" /\ call.name = "pull" =>
             call.found.published \subseteq repo'.local
  PROVE  RemoteInv' /\ RemoteFine
<1>1. RemoteInv'
  BY DEF RemoteInv
<1>2. call.name \notin {"create_stash", "unstage"}
  BY DEF Pulling, RemoteRunning
<1> QED BY <1>1, <1>2 DEF RemoteFine

LEMMA RemoteGoesOn ==
  ASSUME RemoteInv, Pulling' \/ RemoteRunning', seen' = seen, acts' = acts,
         repo' \in RemoteRepos, repo'.published = repo.published
  PROVE  RemoteInv' /\ RemoteFine
<1>1. call' # NoCall
  BY NoCallNone DEF Pulling, RemoteRunning, IsCall
<1>2. RemoteInv'
  BY DEF RemoteInv
<1>3. repo.published \ repo'.published = {}
  OBVIOUS
<1> QED BY <1>1, <1>2, <1>3 DEF RemoteFine, Ends

LEMMA RemoteReadFails ==
  ASSUME RemoteInv, ReadRunFails
  PROVE  RemoteInv' /\ RemoteFine
<1>1. /\ repo' = repo /\ seen' = seen /\ acts' = acts /\ call' = NoCall
      /\ answer'.code = "ProcessFailure"
  BY DEF ReadRunFails, Read, Refuse, Answer
<1>2. Pulling \/ RemoteRunning
  BY NoCallNone DEF ReadRunFails, RemoteInv
<1>3. answer'.code \notin RefusalCodes /\ answer'.code # "Ok"
  BY <1>1 DEF RefusalCodes
<1>4. repo.published \ repo'.published = {}
  BY <1>1
<1> QED BY <1>1, <1>2, <1>3, <1>4, RemoteEnds DEF RemoteInv

LEMMA RemoteBegins ==
  ASSUME RemoteInv, BeginRemote
  PROVE  RemoteInv' /\ RemoteFine
<1>1. acts \in Nat /\ repo \in RemoteRepos
  BY DEF RemoteInv
<1>2. PICK name \in {"fetch", "pull", "push", "force_push"} : \E arg : Begin(name, arg)
  BY DEF BeginRemote
<1> PICK arg : Begin(name, arg)
  BY <1>2
<1>3. Begun(name, arg)
  BY <1>1, <1>2, BeginIs
<1>4. /\ Steps("fetch") = <<"run">> /\ Steps("push") = <<"run">> /\ Steps("force_push") = <<"run">>
      /\ Steps("pull") = <<"fetch", "merge", "rev-parse">>
  BY DEF Steps
<1>5. Pulling' \/ RemoteRunning'
  BY <1>3, <1>4 DEF Begun, Pulling, RemoteRunning, Undisturbed
<1> QED BY <1>1, <1>3, <1>5, RemoteGoesOn DEF Begun

LEMMA RemoteCallIs ==
  ASSUME RemoteInv, NEW name \in {"fetch", "push", "force_push"}, At(name, "run")
  PROVE  /\ RemoteRunning /\ call.name = name /\ Len(call.steps) = 1
         /\ Undisturbed => repo = call.found
<1>1. call.name = name /\ call # NoCall
  BY AtIs
<1>2. RemoteRunning
  BY <1>1 DEF RemoteInv, Pulling
<1> QED BY <1>1, <1>2 DEF RemoteRunning

LEMMA RemoteIsFetched ==
  ASSUME RemoteInv, Fetch
  PROVE  RemoteInv' /\ RemoteFine
<1>1. At("fetch", "run") /\ RanLocking(FetchFrom(repo), ClassifyTransport)
  BY DEF Fetch
<1>2. /\ RemoteRunning /\ call.name = "fetch" /\ Len(call.steps) = 1
      /\ Undisturbed => repo = call.found
  BY <1>1, RemoteCallIs
<1>3. PICK table : Ran(FetchFrom(repo), table, None)
  BY <1>1 DEF RanLocking
<1>4. PICK o \in FetchFrom(repo) :
          seen' = seen /\ acts' = acts /\ call' = NoCall /\ repo' = o.repo
  BY <1>2, <1>3, LastRun
<1>5. repo' \in RemoteRepos /\ Bare(repo') = Bare(repo) /\ repo'.published = repo.published
  BY <1>4, Fetches DEF RemoteInv
<1>6. repo.published \ repo'.published = {}
  BY <1>5
<1> QED BY <1>2, <1>4, <1>5, <1>6, RemoteEnds

LEMMA RemoteIsPushed ==
  ASSUME RemoteInv, NEW name \in {"push", "force_push"}, At(name, "run"),
         NEW f \in {ClassifyPush, ClassifyForcePush}, NEW outcomes, RanLocking(outcomes, f),
         \A o \in outcomes : /\ PushOutcome(repo, o)
                             /\ repo.published \ o.repo.published \subseteq Seen
  PROVE  RemoteInv' /\ RemoteFine
<1>1. /\ RemoteRunning /\ call.name = name /\ Len(call.steps) = 1
      /\ Undisturbed => repo = call.found
  BY RemoteCallIs
<1>2. PICK table : table = OrElse(f, ClassifyIndexLock)
  OBVIOUS
<1>3. Ran(outcomes, table, None)
  BY <1>2 DEF RanLocking
<1>4. PICK o \in outcomes :
          /\ seen' = seen /\ acts' = acts /\ call' = NoCall /\ repo' = o.repo
          /\ \/ o.exit \notin {"ok", "up_to_date"} /\ answer'.code = CodeOf(o.exit, table)
             \/ o.exit \in {"ok", "up_to_date"} /\ answer'.code = "Ok"
  BY <1>1, <1>3, LastRun
<1>5. repo' \in RemoteRepos /\ repo.published \ repo'.published \subseteq Seen
  BY <1>4 DEF RemoteInv, PushOutcome
<1>6. /\ CodeOf("unreachable", table) = "NetworkFailure"
      /\ CodeOf("cancelled", table) = "Cancelled"
  BY <1>2, PushCodes
<1>7. answer'.code \in RefusalCodes => repo' = repo
  <2>1. PushOutcome(repo, o)
    BY <1>4
  <2>2. CASE o.repo # repo
    <3>1. o.exit \in {"ok", "unreachable", "cancelled"}
      BY <2>1, <2>2 DEF PushOutcome
    <3>2. answer'.code \in {"Ok", "NetworkFailure", "Cancelled"}
      BY <1>4, <1>6, <3>1
    <3> QED BY <3>2 DEF RefusalCodes
  <2> QED BY <1>4, <2>2
<1>8. call.name # "pull"
  BY <1>1
<1> QED BY <1>1, <1>4, <1>5, <1>7, <1>8, RemoteEnds

LEMMA RemotePushes ==
  ASSUME RemoteInv, Push \/ ForcePushWithLease
  PROVE  RemoteInv' /\ RemoteFine
<1>1. repo \in RemoteRepos
  BY DEF RemoteInv
<1>2. CASE Push
  <2>1. At("push", "run") /\ RanLocking(PushTo(repo), ClassifyPush)
    BY <1>2 DEF Push
  <2>2. \A o \in PushTo(repo) : /\ PushOutcome(repo, o)
                                /\ repo.published \ o.repo.published \subseteq Seen
    BY <1>1, Pushes DEF PushOutcome
  <2> QED BY <2>1, <2>2, RemoteIsPushed
<1>3. CASE ForcePushWithLease
  <2>1. At("force_push", "run") /\ RanLocking(PushWithLease(repo, call.arg), ClassifyForcePush)
    BY <1>3 DEF ForcePushWithLease
  <2>2. Seen = call.arg
    BY <2>1, RemoteCallIs DEF Seen
  <2>3. \A o \in PushWithLease(repo, call.arg) :
            /\ PushOutcome(repo, o)
            /\ repo.published \ o.repo.published \subseteq Seen
    BY <1>1, <2>2, PushesWithLease
  <2> QED BY <2>1, <2>3, RemoteIsPushed
<1> QED BY <1>2, <1>3

LEMMA TransportFailures ==
  /\ \A x \in DOMAIN ClassifyTransport : ClassifyTransport[x] # "Ok"
  /\ \A x \in DOMAIN ClassifyPull : ClassifyPull[x] # "Ok"
<1>1. \A x \in DOMAIN ClassifyTransport : ClassifyTransport[x] # "Ok"
  BY DEF ClassifyTransport
<1>2. PICK own : own = [diverged |-> "OperationConflict"]
  OBVIOUS
<1>3. \A x \in DOMAIN own : own[x] # "Ok"
  BY <1>2
<1>4. ClassifyPull = OrElse(own, ClassifyTransport)
  BY <1>2 DEF ClassifyPull
<1> QED BY <1>1, <1>3, <1>4 DEF OrElse

LEMMA RemoteIsPulled ==
  ASSUME RemoteInv, Pull
  PROVE  RemoteInv' /\ RemoteFine
<1>1. call.name = "pull" /\ call # NoCall
  BY AtIs DEF Pull
<1>2. Pulling /\ repo \in RemoteRepos /\ IsCall(call)
  BY <1>1 DEF RemoteInv, RemoteRunning, Pulling
<1>3. CASE At("pull", "fetch") /\ RanLocking(FetchFrom(repo), ClassifyTransport)
  <2>1. call.steps = <<"fetch", "merge", "rev-parse">>
    BY <1>2, <1>3, TailOf1, TailOf2 DEF At, Pulling
  <2>2. Undisturbed => repo = call.found
    BY <1>2, <2>1, TailOf1, TailOf2, TailOf3 DEF Pulling
  <2>3. PICK table : table = OrElse(ClassifyTransport, ClassifyIndexLock)
    OBVIOUS
  <2>4. Ran(FetchFrom(repo), table, None) /\ Len(call.steps) # 1
    BY <1>3, <2>1, <2>3 DEF RanLocking
  <2>5. PICK o \in FetchFrom(repo) :
               /\ repo' = o.repo /\ seen' = seen /\ acts' = acts
               /\ \/ /\ o.exit \notin {"ok", "up_to_date"} /\ call' = NoCall
                     /\ answer'.code = CodeOf(o.exit, table)
                  \/ o.exit = "up_to_date"
                  \/ o.exit = "ok" /\ call' = [call EXCEPT !.steps = Tail(@)]
    BY <2>4, FirstRun
  <2>6. CASE o.exit \notin {"ok", "up_to_date"}
    <3>1. repo' = repo
      BY <1>2, <2>5, <2>6, Fetches
    <3>2. answer'.code # "Ok"
      BY <2>3, <2>5, <2>6, TransportFailures, FailuresAreNotOk
    <3>3. repo.published \ repo'.published = {}
      BY <3>1
    <3>4. call' = NoCall
      BY <2>5, <2>6
    <3> QED BY <1>2, <2>2, <2>5, <3>1, <3>2, <3>3, <3>4, RemoteEnds
  <2>7. CASE o.exit \in {"ok", "up_to_date"}
    <3>1. /\ o.exit = "ok" /\ repo' \in RemoteRepos /\ Bare(repo') = Bare(repo)
          /\ repo'.tracking = repo.published /\ repo'.published = repo.published
      BY <1>2, <2>5, <2>7, Fetches
    <3>2. call' = [call EXCEPT !.steps = Tail(@)]
      BY <2>5, <3>1
    <3>3. Onward
      BY <1>2, <2>5, <3>2, NextStep
    <3>4. call'.steps = <<"merge", "rev-parse">>
      BY <2>1, <3>3, TailOf3 DEF Onward
    <3>5. Pulling'
      BY <1>2, <2>2, <2>5, <3>1, <3>3, <3>4 DEF Pulling, Onward, Undisturbed
    <3> QED BY <2>5, <3>1, <3>5, RemoteGoesOn
  <2> QED BY <2>6, <2>7
<1>4. CASE At("pull", "merge") /\ RanLocking(MergeFastForward(repo), ClassifyPull)
  <2>1. call.steps = <<"merge", "rev-parse">>
    BY <1>2, <1>4, TailOf1, TailOf3 DEF At, Pulling
  <2>2. Undisturbed => Bare(repo) = Bare(call.found) /\ repo.tracking = call.found.published
    BY <1>2, <2>1, TailOf1, TailOf2, TailOf3 DEF Pulling
  <2>3. PICK table : table = OrElse(ClassifyPull, ClassifyIndexLock)
    OBVIOUS
  <2>4. Ran(MergeFastForward(repo), table, None) /\ Len(call.steps) # 1
    BY <1>4, <2>1, <2>3 DEF RanLocking
  <2>5. PICK o \in MergeFastForward(repo) :
               /\ repo' = o.repo /\ seen' = seen /\ acts' = acts
               /\ \/ /\ o.exit \notin {"ok", "up_to_date"} /\ call' = NoCall
                     /\ answer'.code = CodeOf(o.exit, table)
                  \/ o.exit = "up_to_date" /\ call' = NoCall /\ answer'.code = "Ok"
                  \/ o.exit = "ok" /\ call' = [call EXCEPT !.steps = Tail(@)]
    BY <2>4, FirstRun
  <2>6. CASE o.exit \notin {"ok", "up_to_date"}
    <3>1. repo' = repo
      BY <1>2, <2>5, <2>6, Merges
    <3>2. answer'.code # "Ok"
      BY <2>3, <2>5, <2>6, TransportFailures, FailuresAreNotOk
    <3>3. repo.published \ repo'.published = {}
      BY <3>1
    <3>4. call' = NoCall
      BY <2>5, <2>6
    <3> QED BY <1>2, <2>2, <2>5, <3>1, <3>2, <3>3, <3>4, RemoteEnds
  <2>7. CASE o.exit = "up_to_date"
    <3>1. repo' = repo /\ repo.tracking \subseteq repo.local
      BY <1>2, <2>5, <2>7, Merges
    <3>2. call' = NoCall /\ answer'.code = "Ok"
      BY <2>5, <2>7
    <3>3. repo.published \ repo'.published = {}
      BY <3>1
    <3>4. answer'.code \notin RefusalCodes
      BY <3>2 DEF RefusalCodes
    <3> QED BY <1>2, <2>2, <2>5, <3>1, <3>2, <3>3, <3>4, RemoteEnds
  <2>8. CASE o.exit = "ok"
    <3>1. /\ repo' \in RemoteRepos /\ repo'.local = repo.tracking
          /\ repo'.published = repo.published
      BY <1>2, <2>5, <2>8, Merges
    <3>2. call' = [call EXCEPT !.steps = Tail(@)]
      BY <2>5, <2>8
    <3>3. Onward
      BY <1>2, <2>5, <3>2, NextStep
    <3>4. call'.steps = <<"rev-parse">>
      BY <2>1, <3>3, TailOf2 DEF Onward
    <3>5. Pulling'
      BY <1>2, <2>2, <2>5, <3>1, <3>3, <3>4 DEF Pulling, Onward, Undisturbed
    <3> QED BY <2>5, <3>1, <3>5, RemoteGoesOn
  <2> QED BY <2>6, <2>7, <2>8
<1>5. CASE At("pull", "rev-parse") /\ Read(Answer("Ok", repo.local))
  <2>1. call.steps = <<"rev-parse">>
    BY <1>2, <1>5, TailOf2, TailOf3 DEF At, Pulling
  <2>2. Undisturbed => call.found.published \subseteq repo.local
    BY <1>2, <2>1, TailOf1, TailOf2, TailOf3 DEF Pulling
  <2>3. /\ repo' = repo /\ seen' = seen /\ acts' = acts /\ call' = NoCall
        /\ answer'.code = "Ok"
    BY <1>5 DEF Read, Answer
  <2>4. answer'.code \notin RefusalCodes /\ repo.published \ repo'.published = {}
    BY <2>3 DEF RefusalCodes
  <2> QED BY <1>2, <2>2, <2>3, <2>4, RemoteEnds
<1> QED BY <1>3, <1>4, <1>5 DEF Pull

LEMMA RemoteOutside ==
  ASSUME RemoteInv, OutsideRemote
  PROVE  RemoteInv' /\ RemoteFine
<1>1. /\ acts \in Nat /\ repo \in RemoteRepos /\ repo.published \in SUBSET Nat
      /\ repo.local \in SUBSET Nat /\ repo.made \in Nat
  BY DEF RemoteInv, RemoteRepos
<1>2. ASSUME NEW r \in RemoteRepos, Acts(r) PROVE RemoteInv' /\ RemoteFine
  <2>1. /\ call' = call /\ seen' = seen /\ acts' = acts + 1 /\ repo' = r /\ acts' # acts
    BY <1>1, <1>2 DEF Acts
  <2>2. ASSUME IsCall(call) PROVE IsCall(call)' /\ ~Undisturbed'
    BY <1>1, <2>1, <2>2 DEF IsCall, Undisturbed
  <2>3. (Pulling => Pulling') /\ (RemoteRunning => RemoteRunning')
    BY <2>1, <2>2 DEF Pulling, RemoteRunning
  <2> QED BY <1>1, <1>2, <2>1, <2>3 DEF RemoteInv, RemoteFine, Ends
<1>3. CASE Acts([repo EXCEPT !.tracking = repo.published])
  <2>1. [repo EXCEPT !.tracking = repo.published] \in RemoteRepos
    BY <1>1 DEF RemoteRepos
  <2> QED BY <1>2, <1>3, <2>1
<1>4. ASSUME NEW new \in {repo.made + 1}, NEW kept \in BOOLEAN,
             Acts([repo EXCEPT !.made = new,
                    !.published = (IF kept THEN @ ELSE {1}) \cup {new}])
      PROVE  RemoteInv' /\ RemoteFine
  <2>1. PICK commits : commits = (IF kept THEN repo.published ELSE {1}) \cup {new}
    OBVIOUS
  <2>2. PICK next : next = [repo EXCEPT !.made = new, !.published = commits]
    OBVIOUS
  <2>3. next \in RemoteRepos
    <3>1. new \in Nat
      BY <1>1
    <3>2. commits \in SUBSET Nat
      BY <1>1, <2>1, <3>1
    <3> QED BY <1>1, <2>2, <3>1, <3>2 DEF RemoteRepos
  <2>4. Acts(next)
    BY <1>4, <2>1, <2>2
  <2> QED BY <1>2, <2>3, <2>4
<1>5. ASSUME NEW new \in {repo.made + 1}, NEW kept \in BOOLEAN,
             Acts([repo EXCEPT !.made = new, !.local = (IF kept THEN @ ELSE {1}) \cup {new}])
      PROVE  RemoteInv' /\ RemoteFine
  <2>1. PICK commits : commits = (IF kept THEN repo.local ELSE {1}) \cup {new}
    OBVIOUS
  <2>2. PICK next : next = [repo EXCEPT !.made = new, !.local = commits]
    OBVIOUS
  <2>3. next \in RemoteRepos
    <3>1. new \in Nat
      BY <1>1
    <3>2. commits \in SUBSET Nat
      BY <1>1, <2>1, <3>1
    <3> QED BY <1>1, <2>2, <3>1, <3>2 DEF RemoteRepos
  <2>4. Acts(next)
    BY <1>5, <2>1, <2>2
  <2> QED BY <1>2, <2>3, <2>4
<1> QED BY <1>3, <1>4, <1>5 DEF OutsideRemote

LEMMA RemoteLooks ==
  ASSUME RemoteInv, Look
  PROVE  RemoteInv' /\ RemoteFine
<1>1. call = NoCall /\ call' = NoCall /\ repo' = repo /\ seen' = repo /\ acts' = acts
  BY DEF Look
<1>2. repo.published \ repo'.published = {}
  BY <1>1
<1> QED BY <1>1, <1>2 DEF RemoteInv, RemoteFine, Ends

-----------------------------------------------------------------------------
(* One family at a time *)

\* A call at a step has the name its step asks for.
LEMMA StepNames ==
  /\ CreateStash => call.name = "create_stash"
  /\ RevalidateStashIdentity \/ ApplyStash \/ PopStash \/ DropStash => call.name \in StashNames
  /\ StageFiles => call.name = "stage"
  /\ UnstageFiles => call.name = "unstage"
  /\ CreateCommit => call.name = "commit"
  /\ ApplyHunkSelection => call.name \in {"stage_hunks", "unstage_hunks"}
  /\ CheckPatchApplication \/ ApplyPatch => call.name \in {"preview_patch", "apply_patch"}
  /\ (SwitchBranch \/ CreateBranch \/ DeleteBranch \/ RenameBranch) => call.name \in RefNames
  /\ (CreateTag \/ DeleteTag \/ RemoveWorktree) => call.name \in RefNames
  /\ CreateWorktree => call.name = "create_worktree"
  /\ Fetch \/ Push \/ ForcePushWithLease => call.name \in {"fetch", "push", "force_push"}
  /\ Pull => call.name = "pull"
BY DEF At, CreateStash, RevalidateStashIdentity, ApplyStash, PopStash, DropStash, StashNames,
       StageFiles, UnstageFiles, CreateCommit, ApplyHunkSelection, CheckPatchApplication,
       ApplyPatch, RefNames, SwitchBranch, CreateBranch, DeleteBranch, RenameBranch, CreateTag,
       DeleteTag, RemoveWorktree, CreateWorktree, Fetch, Push, ForcePushWithLease, Pull

StashCallNames == {"none", "create_stash"} \cup StashNames
IndexCallNames == {"none", "stage", "unstage", "commit", "stage_hunks", "unstage_hunks",
                   "preview_patch", "apply_patch"}
RefCallNames == {"none", "create_worktree"} \cup RefNames
RemoteCallNames == {"none", "fetch", "push", "force_push", "pull"}

LEMMA NamesOfSteps ==
  /\ StashSteps => call.name \in StashCallNames \ {"none"}
  /\ IndexSteps => call.name \in IndexCallNames \ {"none"}
  /\ RefSteps => call.name \in RefCallNames \ {"none"}
  /\ RemoteSteps => call.name \in RemoteCallNames \ {"none"}
<1>1. StashSteps => call.name \in StashCallNames \ {"none"}
  BY StepNames DEF StashSteps, StashCallNames, StashNames
<1>2. IndexSteps => call.name \in IndexCallNames \ {"none"}
  BY StepNames DEF IndexSteps, IndexCallNames
<1>3. RefSteps => call.name \in RefCallNames \ {"none"}
  <2>1. RefNames \cup {"create_worktree"} \subseteq RefCallNames \ {"none"}
    BY DEF RefCallNames, RefNames
  <2>2. RefSteps => call.name \in RefNames \/ call.name = "create_worktree"
    BY StepNames DEF RefSteps
  <2> QED BY <2>1, <2>2
<1>4. RemoteSteps => call.name \in RemoteCallNames \ {"none"}
  BY StepNames DEF RemoteSteps, RemoteCallNames
<1> QED BY <1>1, <1>2, <1>3, <1>4

LEMMA NamesApart ==
  /\ (StashCallNames \ {"none"}) \cap (IndexCallNames \cup RefCallNames \cup RemoteCallNames) = {}
  /\ (IndexCallNames \ {"none"}) \cap (StashCallNames \cup RefCallNames \cup RemoteCallNames) = {}
  /\ (RefCallNames \ {"none"}) \cap (StashCallNames \cup IndexCallNames \cup RemoteCallNames) = {}
  /\ (RemoteCallNames \ {"none"}) \cap (StashCallNames \cup IndexCallNames \cup RefCallNames) = {}
BY DEF StashCallNames, IndexCallNames, RefCallNames, RemoteCallNames, StashNames, RefNames

LEMMA NamesOfCalls ==
  /\ StashInv => call.name \in StashCallNames
  /\ IndexInv => call.name \in IndexCallNames
  /\ RefsInv => call.name \in RefCallNames
  /\ RemoteInv => call.name \in RemoteCallNames
<1>1. StashInv => call.name \in StashCallNames
  BY NoCallNone DEF StashInv, CreatingStash, UsingStash, StashCallNames
<1>2. IndexInv => call.name \in IndexCallNames
  BY NoCallNone, IndexNames DEF IndexInv, IndexCallNames
<1>3. RefsInv => call.name \in RefCallNames
  BY NoCallNone, RefsNames DEF RefsInv, RefCallNames
<1>4. RemoteInv => call.name \in RemoteCallNames
  BY NoCallNone DEF RemoteInv, Pulling, RemoteRunning, RemoteCallNames
<1> QED BY <1>1, <1>2, <1>3, <1>4

LEMMA StashStep ==
  ASSUME StashInv, WritesNext
  PROVE  StashInv' /\ StashFine
<1>1. /\ InFamily("stash") /\ ~InFamily("index") /\ ~InFamily("refs") /\ ~InFamily("remote")
  BY FamiliesApart DEF StashInv
<1>2. ~IndexSteps /\ ~RefSteps /\ ~RemoteSteps
  BY NamesOfSteps, NamesApart, NamesOfCalls
<1>3. /\ ~BeginIndex /\ ~BeginHunks /\ ~BeginPatch /\ ~BeginRefs /\ ~BeginRemote
      /\ ~OutsideIndex /\ ~OutsideRefs /\ ~OutsideRemote
  BY <1>1 DEF BeginIndex, BeginHunks, BeginPatch, BeginRefs, BeginRemote, OutsideIndex,
              OutsideRefs, OutsideRemote
<1>4. Look \/ BeginStash \/ ReadRunFails \/ StashSteps \/ OutsideStash
  BY <1>2, <1>3 DEF WritesNext, Begins
<1> QED BY <1>4, StashLooks, StashBegins, StashReadFails, StashIsCreated, StashIsRevalidated,
           StashRuns, StashOutside DEF StashSteps

LEMMA IndexStep ==
  ASSUME IndexInv, WritesNext
  PROVE  IndexInv' /\ IndexFine
<1>1. /\ ~InFamily("stash") /\ ~InFamily("refs") /\ ~InFamily("remote")
  BY FamiliesApart DEF IndexInv
<1>2. ~StashSteps /\ ~RefSteps /\ ~RemoteSteps
  BY NamesOfSteps, NamesApart, NamesOfCalls
<1>3. /\ ~BeginStash /\ ~BeginRefs /\ ~BeginRemote
      /\ ~OutsideStash /\ ~OutsideRefs /\ ~OutsideRemote
  BY <1>1 DEF BeginStash, BeginRefs, BeginRemote, OutsideStash, OutsideRefs, OutsideRemote
<1>4. \/ Look \/ BeginIndex \/ BeginHunks \/ BeginPatch \/ ReadRunFails \/ IndexSteps
      \/ OutsideIndex
  BY <1>2, <1>3 DEF WritesNext, Begins
<1> QED BY <1>4, IndexLooks, IndexBegins, IndexReadFails, IndexIsStaged, IndexIsUnstaged,
           IndexIsCommitted, HunksAreTaken, PatchIsChecked, PatchIsApplied, IndexOutside
        DEF IndexSteps

LEMMA RefsStep ==
  ASSUME RefsInv, WritesNext
  PROVE  RefsInv' /\ RefsFine
<1>1. /\ ~InFamily("stash") /\ ~InFamily("index") /\ InFamily("refs") /\ ~InFamily("remote")
  BY FamiliesApart DEF RefsInv, RefsGood
<1>2. ~StashSteps /\ ~IndexSteps /\ ~RemoteSteps
  BY NamesOfSteps, NamesApart, NamesOfCalls
<1>3. /\ ~Look /\ ~BeginStash /\ ~BeginIndex /\ ~BeginHunks /\ ~BeginPatch /\ ~BeginRemote
      /\ ~OutsideStash /\ ~OutsideIndex /\ ~OutsideRemote
  BY <1>1 DEF Look, BeginStash, BeginIndex, BeginHunks, BeginPatch, BeginRemote, OutsideStash,
              OutsideIndex, OutsideRemote
<1>4. BeginRefs \/ ReadRunFails \/ RefSteps \/ OutsideRefs
  BY <1>2, <1>3 DEF WritesNext, Begins
<1> QED BY <1>4, RefsBegin, RefsReadFails, RefsRuns, WorktreeIsCreated, RefsOutside DEF RefSteps

LEMMA RemoteStep ==
  ASSUME RemoteInv, WritesNext
  PROVE  RemoteInv' /\ RemoteFine
<1>1. /\ ~InFamily("stash") /\ ~InFamily("index") /\ ~InFamily("refs")
  BY FamiliesApart DEF RemoteInv
<1>2. ~StashSteps /\ ~IndexSteps /\ ~RefSteps
  BY NamesOfSteps, NamesApart, NamesOfCalls
<1>3. /\ ~BeginStash /\ ~BeginIndex /\ ~BeginHunks /\ ~BeginPatch /\ ~BeginRefs
      /\ ~OutsideStash /\ ~OutsideIndex /\ ~OutsideRefs
  BY <1>1 DEF BeginStash, BeginIndex, BeginHunks, BeginPatch, BeginRefs, OutsideStash,
              OutsideIndex, OutsideRefs
<1>4. Look \/ BeginRemote \/ ReadRunFails \/ RemoteSteps \/ OutsideRemote
  BY <1>2, <1>3 DEF WritesNext, Begins
<1> QED BY <1>4, RemoteLooks, RemoteBegins, RemoteReadFails, RemoteIsFetched, RemoteIsPulled,
           RemotePushes, RemoteOutside DEF RemoteSteps

-----------------------------------------------------------------------------
(* The theorems *)

WritesInv == StashInv \/ IndexInv \/ RefsInv \/ RemoteInv

LossFine == acts' = acts /\ Loses(repo, repo') => Risk(call) = "Destructive"
PushFine ==
    InFamily("remote") /\ acts' = acts =>
        repo.published \ repo'.published \subseteq
            (IF call.name = "force_push" THEN call.arg ELSE {})
TellFine ==
    Ends /\ Undisturbed =>
        /\ answer'.code \in RefusalCodes =>
               ButTracking(repo') = ButTracking(call.found) \/ LeavesNewBranch(repo')
        /\ answer'.code = "Ok" =>
           /\ call.name = "create_stash" =>
                  answer'.value = repo'.entries[1] /\ answer'.value > call.found.made
           /\ call.name = "unstage" =>
                  \A pair \in RenamePairs(call.found) :
                      pair[2] \in call.arg => {pair[1], pair[2]} \cap Staged(repo') = {}
           /\ call.name = "pull" => call.found.published \subseteq repo'.local

LEMMA WritesStart == WritesInit => WritesInv
<1> SUFFICES ASSUME WritesInit PROVE WritesInv
  OBVIOUS
<1>1. PICK family \in {"stash", "index", "refs", "remote"} : repo \in InitialRepos(family)
  BY FamiliesAssumption DEF WritesInit
<1>2. seen = repo /\ call = NoCall /\ acts = 0
  BY DEF WritesInit
<1> QED BY <1>1, <1>2, StashStarts, IndexStarts, RefsStart, RemoteStarts
        DEF WritesInv, StashInv, IndexInv, RefsInv, RemoteInv

LEMMA StashIsFine ==
  ASSUME StashInv, StashFine
  PROVE  LossFine /\ PushFine /\ TellFine
<1>1. InFamily("stash") /\ ~InFamily("index") /\ ~InFamily("refs") /\ ~InFamily("remote")
  BY FamiliesApart DEF StashInv
<1>2. Loses(repo, repo') => StashLoses(repo, repo')
  BY <1>1 DEF Loses, StashLoses
<1>3. LossFine
  BY <1>2 DEF LossFine, StashFine, Risk
<1>4. PushFine
  BY <1>1 DEF PushFine
<1>5. call.name \in StashCallNames /\ call.name \notin {"unstage", "pull"}
  BY NamesOfCalls DEF StashCallNames, StashNames
<1>6. TellFine
  BY <1>1, <1>5 DEF TellFine, StashFine, ButTracking
<1> QED BY <1>3, <1>4, <1>6

LEMMA IndexIsFine ==
  ASSUME IndexInv, IndexFine
  PROVE  LossFine /\ PushFine /\ TellFine
<1>1. InFamily("index") /\ ~InFamily("stash") /\ ~InFamily("refs") /\ ~InFamily("remote")
  BY FamiliesApart DEF IndexInv
<1>2. Loses(repo, repo') => ~repo.work \subseteq repo'.work
  BY <1>1 DEF Loses
<1>3. LossFine
  BY <1>2 DEF LossFine, IndexFine
<1>4. PushFine
  BY <1>1 DEF PushFine
<1>5. TellFine
  BY <1>1 DEF TellFine, IndexFine, ButTracking, NothingStagedOf
<1> QED BY <1>3, <1>4, <1>5

LEMMA RefsAreFine ==
  ASSUME RefsInv, RefsFine
  PROVE  LossFine /\ PushFine /\ TellFine
<1>1. InFamily("refs") /\ ~InFamily("remote") /\ ~InFamily("stash") /\ ~InFamily("index")
  BY FamiliesApart DEF RefsInv, RefsGood
<1>2. Loses(repo, repo') => RefsLoses(repo, repo')
  BY <1>1 DEF Loses, RefsLoses
<1>3. LossFine
  BY <1>2 DEF LossFine, RefsFine, Forced, Risk
<1>4. PushFine
  BY <1>1 DEF PushFine
<1>5. TellFine
  BY <1>1 DEF TellFine, RefsFine, ButTracking
<1> QED BY <1>3, <1>4, <1>5

LEMMA RemoteIsFine ==
  ASSUME RemoteInv, RemoteFine
  PROVE  LossFine /\ PushFine /\ TellFine
<1>1. InFamily("remote") /\ ~InFamily("stash") /\ ~InFamily("index") /\ ~InFamily("refs")
  BY FamiliesApart DEF RemoteInv
<1>2. Loses(repo, repo') => ~repo.published \subseteq repo'.published
  BY <1>1 DEF Loses
<1>3. LossFine
  BY <1>2 DEF LossFine, RemoteFine, Seen, Risk
<1>4. PushFine
  BY DEF PushFine, RemoteFine, Seen
<1>5. \A r : ButTracking(r) = Bare(r)
  BY <1>1 DEF ButTracking, Bare
<1>6. TellFine
  BY <1>5 DEF TellFine, RemoteFine
<1> QED BY <1>3, <1>4, <1>6

LEMMA WritesStep ==
  ASSUME WritesInv, [WritesNext]_writesVars
  PROVE  WritesInv'
<1>1. CASE WritesNext
  BY <1>1, StashStep, IndexStep, RefsStep, RemoteStep DEF WritesInv
<1>2. CASE UNCHANGED writesVars
  <2>1. /\ repo' = repo /\ seen' = seen /\ call' = call /\ answer' = answer /\ acts' = acts
    BY <1>2 DEF writesVars
  <2>2. StashInv => StashInv'
    BY <2>1 DEF StashInv, CreatingStash, UsingStash, IsCall, Undisturbed
  <2>3. IndexInv => IndexInv'
    BY <2>1 DEF IndexInv, IndexCall, Staging, TakingHunks, Unstaging, Committing, Patching,
                IsCall, Undisturbed
  <2>4. RefsInv => RefsInv'
    BY <2>1 DEF RefsInv, RefsCall, IsCall, Undisturbed
  <2>5. RemoteInv => RemoteInv'
    BY <2>1 DEF RemoteInv, Pulling, RemoteRunning, IsCall, Undisturbed
  <2> QED BY <2>2, <2>3, <2>4, <2>5 DEF WritesInv
<1> QED BY <1>1, <1>2

LEMMA WritesStepFine ==
  ASSUME WritesInv, WritesNext
  PROVE  LossFine /\ PushFine /\ TellFine
BY StashStep, IndexStep, RefsStep, RemoteStep, StashIsFine, IndexIsFine, RefsAreFine,
   RemoteIsFine DEF WritesInv

(***************************************************************************)
(* What a repository is, what a call has left to do, and, as long as no    *)
(* one else has acted, what the call has done to the repository it found.  *)
(***************************************************************************)
THEOREM CallsKnowTheirRepository == WritesSpec => []WritesInv
<1>1. WritesInit => WritesInv
  BY WritesStart
<1>2. WritesInv /\ [WritesNext]_writesVars => WritesInv'
  BY WritesStep
<1> QED BY <1>1, <1>2, PTL DEF WritesSpec

(***************************************************************************)
(* With no one else acting within the call, the stash that is applied,     *)
(* popped or dropped by its place is the one that was confirmed            *)
(* (revalidate_stash_identity).                                            *)
(***************************************************************************)
THEOREM ConfirmedStashIsUsed == WritesSpec => []ActsOnConfirmedStash
<1>1. WritesInv => ActsOnConfirmedStash
  <2> SUFFICES ASSUME WritesInv, NEW name \in StashNames, At(name, "run"), Undisturbed
               PROVE  repo.entries[call.arg.index] = call.arg.commit
    BY DEF ActsOnConfirmedStash, StashNames
  <2>1. call.name \in StashNames /\ Head(call.steps) = "run" /\ call.steps # <<>>
    BY DEF At
  <2>2. StashInv
    <3>1. call.name \in StashCallNames \ {"none"}
      BY <2>1 DEF StashCallNames, StashNames
    <3> QED BY <3>1, NamesApart, NamesOfCalls DEF WritesInv
  <2>3. UsingStash
    BY <2>1, <2>2, UsingStashIs
  <2>4. call.steps = <<"run">>
    BY <2>1, <2>3, TailOf2 DEF UsingStash
  <2> QED BY <2>3, <2>4, TailOf1, TailOf2 DEF UsingStash
<1> QED BY <1>1, CallsKnowTheirRepository, PTL

(***************************************************************************)
(* Only a call the user confirms as destructive loses a stash, changes of  *)
(* a worktree, or commits of a branch, here or on the remote               *)
(* (MutationKind::risk).                                                   *)
(***************************************************************************)
THEOREM OnlyConfirmedCallsLose == WritesSpec => LossIsDestructive
<1>1. WritesInv /\ [WritesNext]_writesVars =>
          [acts' = acts /\ Loses(repo, repo') => Risk(call) = "Destructive"]_writesVars
  BY WritesStepFine DEF LossFine
<1> QED BY <1>1, CallsKnowTheirRepository, PTL DEF WritesSpec, LossIsDestructive

(***************************************************************************)
(* A push takes from the remote only what the user had seen there (push,   *)
(* force_push_with_lease).                                                 *)
(***************************************************************************)
THEOREM PushesRespectTheRemote == WritesSpec => PushesLoseOnlyWhatWasSeen
<1>1. WritesInv /\ [WritesNext]_writesVars =>
          [InFamily("remote") /\ acts' = acts =>
              repo.published \ repo'.published \subseteq
                  (IF call.name = "force_push" THEN call.arg ELSE {})]_writesVars
  BY WritesStepFine DEF PushFine
<1> QED BY <1>1, CallsKnowTheirRepository, PTL DEF WritesSpec, PushesLoseOnlyWhatWasSeen

(***************************************************************************)
(* With no one else acting within the call, a refusal has changed nothing  *)
(* but tracking branches, and what a call says it has done it has done     *)
(* (create_stash, unstage_files, pull, and the classification of what git  *)
(* fails with).                                                            *)
(***************************************************************************)
THEOREM CallsTellWhatTheyDid == WritesSpec => AnswersTellWhatHappened
<1>1. WritesInv /\ [WritesNext]_writesVars => [TellFine]_writesVars
  BY WritesStepFine
<1>2. [TellFine]_writesVars =>
      [Ends /\ Undisturbed =>
        /\ answer'.code \in RefusalCodes =>
               ButTracking(repo') = ButTracking(call.found) \/ LeavesNewBranch(repo')
        /\ answer'.code = "Ok" =>
           /\ call.name = "create_stash" =>
                  answer'.value = repo'.entries[1] /\ answer'.value > call.found.made
           /\ call.name = "unstage" =>
                  \A pair \in RenamePairs(call.found) :
                      pair[2] \in call.arg => {pair[1], pair[2]} \cap Staged(repo') = {}
           /\ call.name = "pull" => call.found.published \subseteq repo'.local]_writesVars
  BY DEF TellFine
<1> QED BY <1>1, <1>2, CallsKnowTheirRepository, PTL DEF WritesSpec, AnswersTellWhatHappened

(***************************************************************************)
(* Reads of several runs: what each run has told is in the hands of the    *)
(* next, and was true of one of the moments since the read began.          *)
(***************************************************************************)

\* Of what there is to read no more than the reads put together keep.
StoreStands ==
  /\ store \in moments /\ "kind" \in DOMAIN store
  /\ store.kind = "remotes" =>
       /\ "urls" \in DOMAIN store /\ DOMAIN store.urls \subseteq {"r", "s"}
       /\ \A r \in DOMAIN store.urls : store.urls[r] \in {1, 2}
  /\ store.kind = "sides" => "stages" \in DOMAIN store /\ store.stages \in [1..3 -> BOOLEAN]
  /\ store.kind = "compared" =>
       /\ "refs" \in DOMAIN store /\ DOMAIN store.refs \subseteq {"base", "target"}
       /\ \A name \in DOMAIN store.refs : store.refs[name] \in Nat

UrlsStand(urls) ==
  /\ urls \in Seq({"r", "s"} \X {1, 2})
  /\ \A k \in DOMAIN urls :
        \E s \in moments : urls[k][1] \in DOMAIN s.urls /\ s.urls[urls[k][1]] = urls[k][2]

SidesStand(sides) ==
  /\ sides \in Seq(BOOLEAN) /\ Len(sides) <= 2
  /\ \A n \in 1..Len(sides) : \E s \in moments : sides[n] = s.stages[n]

RefsStand(got) ==
  /\ got \in Seq(Nat) /\ Len(got) >= 1
  /\ \E s \in moments : "base" \in DOMAIN s.refs /\ s.refs["base"] = got[1]

\* What the runs before have told.
GotStands ==
  /\ reading.step = "rev-parse" => \E s \in moments : s.branch = Nothing
  /\ reading.step = "editor symbolic-ref" => \E s \in moments : s.at = reading.got[2]
  /\ reading.step = "get-url" => UrlsStand(reading.got.urls)
  /\ reading.step = "show" => SidesStand(reading.got)
  /\ reading.step = "target" => RefsStand(reading.got) /\ Len(reading.got) = 1
  /\ reading.step = "diff" /\ store.kind = "compared" =>
       /\ RefsStand(reading.got) /\ Len(reading.got) = 2
       /\ \E s \in moments : "target" \in DOMAIN s.refs /\ s.refs["target"] = reading.got[2]
  /\ reading.step = "staged" => \E s \in moments : s.at = reading.got
  /\ reading.step \in {"log", "editor log"} => \E s \in moments : reading.got = s.commits
  /\ reading.step = "editor commits" =>
       /\ DOMAIN reading.got = {"revision", "blocks", "entries"}
       /\ \E s \in moments : reading.got.revision = s.commits

ReadsInv == StoreStands /\ GotStands /\ PartsWereTrue

\* What was true stays so, whatever comes.
LEMMA PartsStay ==
  ASSUME ReadsInv, store'.kind = store.kind, moments \subseteq moments', UNCHANGED result
  PROVE  PartsWereTrue'
<1> SUFFICES ASSUME result.is = "answer"
             PROVE  PartsWereTrue'
  BY DEF PartsWereTrue
<1>1. CASE store.kind = "head"
  <2>1. HeadWas(result.value)
    BY <1>1 DEF ReadsInv, PartsWereTrue
  <2>2. HeadWas(result.value)'
    BY <2>1 DEF HeadWas
  <2> QED BY <1>1, <2>2 DEF PartsWereTrue
<1>2. CASE store.kind = "remotes"
  <2>1. RemotesWere(result.value)
    BY <1>2 DEF ReadsInv, PartsWereTrue
  <2>2. RemotesWere(result.value)'
    BY <2>1 DEF RemotesWere
  <2> QED BY <1>2, <2>2 DEF PartsWereTrue
<1>3. CASE store.kind = "reflog"
  <2>1. ReflogWas(result.value)
    BY <1>3 DEF ReadsInv, PartsWereTrue
  <2>2. ReflogWas(result.value)'
    BY <2>1 DEF ReflogWas
  <2> QED BY <1>3, <2>2 DEF PartsWereTrue
<1>4. CASE store.kind = "sides"
  <2>1. SidesWere(result.value)
    BY <1>4 DEF ReadsInv, PartsWereTrue
  <2>2. SidesWere(result.value)'
    BY <2>1 DEF SidesWere
  <2> QED BY <1>4, <2>2 DEF PartsWereTrue
<1>5. CASE store.kind = "compared"
  <2>1. ComparedWere(result.value)
    BY <1>5 DEF ReadsInv, PartsWereTrue
  <2>2. ComparedWere(result.value)'
    BY <2>1 DEF ComparedWere
  <2> QED BY <1>5, <2>2 DEF PartsWereTrue
<1>6. CASE store.kind = "amended"
  <2>1. AmendedWere(result.value)
    BY <1>6 DEF ReadsInv, PartsWereTrue
  <2>2. AmendedWere(result.value)'
    BY <2>1 DEF AmendedWere
  <2> QED BY <1>6, <2>2 DEF PartsWereTrue
<1>7. CASE store.kind = "lines"
  <2>1. \E s \in moments : result.value.revision = s.commits
    BY <1>7 DEF ReadsInv, PartsWereTrue
  <2> QED BY <1>7, <2>1 DEF PartsWereTrue
<1>8. CASE store.kind \notin {"head", "remotes", "reflog", "sides", "compared", "amended", "lines"}
  BY <1>8 DEF PartsWereTrue
<1> QED BY <1>1, <1>2, <1>3, <1>4, <1>5, <1>6, <1>7, <1>8

LEMMA GotStays ==
  ASSUME GotStands, store'.kind = store.kind, moments \subseteq moments', UNCHANGED reading
  PROVE  GotStands'
<1>1. CASE reading.step = "get-url"
  BY <1>1 DEF GotStands, UrlsStand
<1>2. CASE reading.step = "show"
  BY <1>2 DEF GotStands, SidesStand
<1>3. CASE reading.step \in {"target", "diff"}
  BY <1>3 DEF GotStands, RefsStand
<1>4. CASE reading.step = "editor commits"
  BY <1>4 DEF GotStands
<1>5. CASE reading.step \notin {"get-url", "show", "target", "diff", "editor commits"}
  BY <1>5 DEF GotStands
<1> QED BY <1>1, <1>2, <1>3, <1>4, <1>5

\* A read that goes on, that fails and that ends.
LEMMA ReadGoesOn ==
  ASSUME ReadsInv, NEW step, NEW got, Goes(step, got)
  PROVE  /\ reading'.step = step /\ reading'.got = got /\ UNCHANGED <<store, moments>>
         /\ StoreStands' /\ PartsWereTrue'
         /\ GotStands' => ReadsInv'
<1>1. reading'.step = step /\ reading'.got = got /\ UNCHANGED <<store, moments, result>>
  BY DEF Goes
<1>2. StoreStands'
  BY <1>1 DEF ReadsInv, StoreStands
<1>3. PartsWereTrue'
  BY <1>1, PartsStay
<1> QED BY <1>1, <1>2, <1>3 DEF ReadsInv

LEMMA ReadStops ==
  ASSUME ReadsInv, reading' = NotReading, UNCHANGED <<store, moments>>, PartsWereTrue'
  PROVE  ReadsInv'
<1>1. reading'.step = "none"
  BY DEF NotReading
<1>2. GotStands'
  BY <1>1 DEF GotStands
<1>3. StoreStands'
  BY DEF ReadsInv, StoreStands
<1> QED BY <1>2, <1>3 DEF ReadsInv

LEMMA ReadGivesUp ==
  ASSUME ReadsInv, NEW code, code # "answer", FailRead(code)
  PROVE  ReadsInv'
<1>1. result'.is = code
  BY DEF FailRead
<1>2. PartsWereTrue'
  BY <1>1 DEF PartsWereTrue
<1> QED BY <1>2, ReadStops DEF FailRead

LEMMA ReadEnds ==
  ASSUME ReadsInv, NEW value, EndRead(value),
         CASE store.kind = "head" -> HeadWas(value)
           [] store.kind = "remotes" -> RemotesWere(value)
           [] store.kind = "reflog" -> ReflogWas(value)
           [] store.kind = "sides" -> SidesWere(value)
           [] store.kind = "compared" -> ComparedWere(value)
           [] store.kind = "amended" -> AmendedWere(value)
           [] store.kind = "lines" -> \E s \in moments : value.revision = s.commits
           [] OTHER -> TRUE
  PROVE  ReadsInv'
<1>1. result'.value = value /\ UNCHANGED <<store, moments>>
  BY DEF EndRead
<1>2. /\ HeadWas(value) => HeadWas(result.value)'
      /\ RemotesWere(value) => RemotesWere(result.value)'
      /\ ReflogWas(value) => ReflogWas(result.value)'
      /\ SidesWere(value) => SidesWere(result.value)'
      /\ ComparedWere(value) => ComparedWere(result.value)'
      /\ AmendedWere(value) => AmendedWere(result.value)'
  BY <1>1 DEF HeadWas, RemotesWere, ReflogWas, SidesWere, ComparedWere, AmendedWere
<1>3. PartsWereTrue'
  BY <1>1, <1>2 DEF PartsWereTrue
<1> QED BY <1>3, ReadStops DEF EndRead


\* A read of one run, or of one whose parts say nothing of moments.
LEMMA OneRunEnds ==
  ASSUME ReadsInv, NEW value, EndRead(value),
         store.kind \notin {"head", "remotes", "reflog", "sides", "compared", "amended", "lines"}
  PROVE  ReadsInv'
BY ReadEnds

LEMMA OneRunKeeps ==
  ASSUME ReadsInv,
         \/ Status \/ ListBranches \/ ListTags \/ ListWorktrees \/ Log \/ Diff \/ Blame
         \/ FileContent \/ CommitDiff \/ EditorLog \/ EditorBlame \/ EditorCommitDiff
         \/ EditorFileContent
  PROVE  ReadsInv'
<1>1. \/ \E code \in {"Cancelled", "ParseFailure"} : FailRead(code)
      \/ /\ store.kind \notin {"head", "remotes", "reflog", "sides", "compared", "amended", "lines"}
         /\ \E value : EndRead(value)
  <2>1. CASE Status
    <3>1. store.kind = "status" /\ \E value : EndRead(value)
      BY <2>1, Zenon DEF Status, Asked
    <3> QED BY <3>1
  <2>2. CASE ListBranches
    <3>1. store.kind = "refs" /\ \E value : EndRead(value)
      BY <2>2, Zenon DEF ListBranches, Asked
    <3> QED BY <3>1
  <2>3. CASE ListTags
    <3>1. store.kind = "tags" /\ \E value : EndRead(value)
      BY <2>3, Zenon DEF ListTags, Asked
    <3> QED BY <3>1
  <2>4. CASE ListWorktrees
    <3>1. store.kind = "worktrees" /\ \E value : EndRead(value)
      BY <2>4, Zenon DEF ListWorktrees, Asked
    <3> QED BY <3>1
  <2>5. CASE Log
    <3>1. store.kind = "log" /\ \E value : EndRead(value)
      BY <2>5, Zenon DEF Log, Asked
    <3> QED BY <3>1
  <2>6. CASE Diff
    <3>1. store.kind = "diff" /\ (FailRead("Cancelled") \/ \E value : EndRead(value))
      BY <2>6, Zenon DEF Diff, Asked
    <3> QED BY <3>1
  <2>7. CASE Blame
    <3>1. store.kind = "blame" /\ (FailRead("Cancelled") \/ \E value : EndRead(value))
      BY <2>7, Zenon DEF Blame, Asked
    <3> QED BY <3>1
  <2>8. CASE FileContent \/ EditorFileContent
    <3>1. store.kind = "content" /\ \E value : EndRead(value)
      BY <2>8, Zenon DEF FileContent, EditorFileContent, Asked
    <3> QED BY <3>1
  <2>9. CASE CommitDiff
    <3>1. store.kind = "commit diff" /\ (FailRead("Cancelled") \/ \E value : EndRead(value))
      BY <2>9, Zenon DEF CommitDiff, ReadAt
    <3> QED BY <3>1
  <2>10. CASE EditorLog
    <3>1. store.kind = "log" /\ \E value : EndRead(value)
      BY <2>10, Zenon DEF EditorLog, Asked
    <3> QED BY <3>1
  <2>11. CASE EditorBlame
    <3>1. store.kind = "blame" /\ (FailRead("ParseFailure") \/ \E value : EndRead(value))
      BY <2>11, Zenon DEF EditorBlame, Asked
    <3> QED BY <3>1
  <2>12. CASE EditorCommitDiff
    <3>1. store.kind = "commit diff" /\ \E value : EndRead(value)
      BY <2>12, Zenon DEF EditorCommitDiff, ReadAt
    <3> QED BY <3>1
  <2> QED BY <2>1, <2>2, <2>3, <2>4, <2>5, <2>6, <2>7, <2>8, <2>9, <2>10, <2>11, <2>12
<1> QED BY <1>1, OneRunEnds, ReadGivesUp

\* Steps that no part of an answer depends on.
LEMMA OtherReadsKeep ==
  ASSUME ReadsInv, \/ Export \/ CommitsPage \/ EditorHistoryPage \/ CommitOfDiff \/ EditorCommitOfDiff
  PROVE  ReadsInv'
<1>1. CASE Export
  <2>1. result'.is = "exported" /\ UNCHANGED <<store, reading, moments>>
    BY <1>1 DEF Export
  <2>2. PartsWereTrue'
    BY <2>1 DEF PartsWereTrue
  <2>3. StoreStands'
    BY <2>1 DEF ReadsInv, StoreStands
  <2>4. GotStands'
    BY <2>1, GotStays DEF ReadsInv
  <2> QED BY <2>2, <2>3, <2>4 DEF ReadsInv
<1>2. CASE CommitsPage \/ EditorHistoryPage
  <2>1. UNCHANGED <<store, reading, result, moments>>
    BY <1>2 DEF CommitsPage, EditorHistoryPage
  <2>2. PartsWereTrue'
    BY <2>1, PartsStay
  <2>3. StoreStands'
    BY <2>1 DEF ReadsInv, StoreStands
  <2>4. GotStands'
    BY <2>1, GotStays DEF ReadsInv
  <2> QED BY <2>2, <2>3, <2>4 DEF ReadsInv
<1>3. CASE CommitOfDiff \/ EditorCommitOfDiff
  <2>1. store.kind = "commit diff"
    BY <1>3 DEF CommitOfDiff, EditorCommitOfDiff, Asked
  <2>2. \/ FailRead("ParseFailure")
        \/ \E got : Goes("diff", got) \/ Goes("editor diff", got)
    BY <1>3, Zenon DEF CommitOfDiff, EditorCommitOfDiff
  <2>3. ASSUME NEW step \in {"diff", "editor diff"}, NEW got, Goes(step, got)
        PROVE  ReadsInv'
    <3>1. reading'.step = step /\ store'.kind = "commit diff" /\ (GotStands' => ReadsInv')
      BY <2>1, <2>3, ReadGoesOn
    <3>2. GotStands'
      BY <3>1 DEF GotStands
    <3> QED BY <3>1, <3>2
  <2> QED BY <2>2, <2>3, ReadGivesUp
<1> QED BY <1>1, <1>2, <1>3
\* HEAD, read in up to three runs.
LEMMA HeadKeeps ==
  ASSUME ReadsInv,
         \/ Discover \/ VerifyHead \/ SymbolicRef \/ RevParseHead
         \/ EditorDiscover \/ EditorVerifyHead \/ EditorSymbolicRef
  PROVE  ReadsInv'
<1>1. store.kind = "head" /\ store \in moments
  BY DEF Discover, VerifyHead, SymbolicRef, RevParseHead, EditorDiscover, EditorVerifyHead,
         EditorSymbolicRef, Asked, ReadAt, ReadsInv, StoreStands
<1>2. ASSUME NEW step \in {"verify", "symbolic-ref", "editor verify"}, NEW got, Goes(step, got)
      PROVE  ReadsInv'
  <2>1. reading'.step = step /\ (GotStands' => ReadsInv')
    BY <1>2, ReadGoesOn
  <2>2. GotStands'
    BY <2>1 DEF GotStands
  <2> QED BY <2>1, <2>2
<1>3. ASSUME NEW value, EndRead(value), HeadWas(value)
      PROVE  ReadsInv'
  BY <1>1, <1>3, ReadEnds
<1>4. CASE Discover \/ EditorDiscover
  <2>1. \E step \in {"verify", "editor verify"} : \E got : Goes(step, got)
    <3>1. Discover => \E got : Goes("verify", got)
      BY Zenon DEF Discover
    <3>2. EditorDiscover => \E got : Goes("editor verify", got)
      BY Zenon DEF EditorDiscover
    <3> QED BY <1>4, <3>1, <3>2
  <2> QED BY <1>2, <2>1
<1>5. ASSUME NEW repository, EndRead([head |-> "unborn", repository |-> repository]), store.at = 0
      PROVE  ReadsInv'
  <2>1. PICK value : value = [head |-> "unborn", repository |-> repository]
    OBVIOUS
  <2>2. HeadWas(value)
    BY <1>1, <1>5, <2>1 DEF HeadWas
  <2> QED BY <1>3, <1>5, <2>1, <2>2
<1>6. ASSUME NEW repository, store.branch # Nothing,
             EndRead([head |-> "attached", branch |-> store.branch, repository |-> repository])
      PROVE  ReadsInv'
  <2>1. PICK value : value = [head |-> "attached", branch |-> store.branch, repository |-> repository]
    OBVIOUS
  <2>2. HeadWas(value)
    BY <1>1, <1>6, <2>1 DEF HeadWas
  <2> QED BY <1>3, <1>6, <2>1, <2>2
<1>7. ASSUME NEW repository, NEW commit,
             \E s \in moments : s.branch = Nothing, \E s \in moments : s.at = commit,
             EndRead([head |-> "detached", commit |-> commit, repository |-> repository])
      PROVE  ReadsInv'
  <2>1. PICK value : value = [head |-> "detached", commit |-> commit, repository |-> repository]
    OBVIOUS
  <2>2. HeadWas(value)
    BY <1>7, <2>1 DEF HeadWas
  <2> QED BY <1>3, <1>7, <2>1, <2>2
<1>8. CASE VerifyHead
  <2>1. CASE store.at = 0
    BY <1>5, <1>8, <2>1 DEF VerifyHead
  <2>2. CASE store.at # 0
    <3>1. Goes("symbolic-ref", reading.got)
      BY <1>8, <2>2 DEF VerifyHead
    <3> QED BY <1>2, <3>1
  <2> QED BY <2>1, <2>2
<1>9. CASE SymbolicRef
  <2>1. CASE store.branch # Nothing
    BY <1>6, <1>9, <2>1 DEF SymbolicRef
  <2>2. CASE store.branch = Nothing
    <3>1. Goes("rev-parse", reading.got)
      BY <1>9, <2>2 DEF SymbolicRef
    <3>2. reading'.step = "rev-parse" /\ UNCHANGED moments /\ (GotStands' => ReadsInv')
      BY <3>1, ReadGoesOn
    <3>3. GotStands'
      BY <1>1, <2>2, <3>2 DEF GotStands
    <3> QED BY <3>2, <3>3
  <2> QED BY <2>1, <2>2
<1>10. CASE RevParseHead
  <2>1. \E s \in moments : s.branch = Nothing
    BY <1>10 DEF RevParseHead, ReadAt, ReadsInv, GotStands
  <2>2. CASE store.at = 0
    <3>1. FailRead("ProcessFailure")
      BY <1>10, <2>2 DEF RevParseHead
    <3> QED BY <3>1, ReadGivesUp
  <2>3. CASE store.at # 0
    BY <1>1, <1>7, <1>10, <2>1, <2>3 DEF RevParseHead
  <2> QED BY <2>2, <2>3
<1>11. CASE EditorVerifyHead
  <2>1. CASE store.at = 0
    BY <1>5, <1>11, <2>1 DEF EditorVerifyHead
  <2>2. CASE store.at # 0
    <3>1. PICK got : got = <<reading.got, store.at>>
      OBVIOUS
    <3>2. Goes("editor symbolic-ref", got)
      BY <1>11, <2>2, <3>1 DEF EditorVerifyHead
    <3>3. /\ reading'.step = "editor symbolic-ref" /\ reading'.got = got
          /\ UNCHANGED moments /\ (GotStands' => ReadsInv')
      BY <3>2, ReadGoesOn
    <3>4. \E s \in moments : s.at = got[2]
      BY <1>1, <3>1
    <3>5. GotStands'
      BY <3>3, <3>4 DEF GotStands
    <3> QED BY <3>3, <3>5
  <2> QED BY <2>1, <2>2
<1>12. CASE EditorSymbolicRef
  <2>1. \E s \in moments : s.at = reading.got[2]
    BY <1>12 DEF EditorSymbolicRef, ReadAt, ReadsInv, GotStands
  <2>2. CASE store.branch # Nothing
    <3>1. EndRead([head |-> "attached", branch |-> store.branch, repository |-> reading.got[1]])
      BY <1>12, <2>2 DEF EditorSymbolicRef
    <3> QED BY <1>6, <2>2, <3>1
  <2>3. CASE store.branch = Nothing
    <3>1. EndRead([head |-> "detached", commit |-> reading.got[2], repository |-> reading.got[1]])
      BY <1>12, <2>3 DEF EditorSymbolicRef
    <3>2. \E s \in moments : s.branch = Nothing
      BY <1>1, <2>3
    <3> QED BY <1>7, <2>1, <3>1, <3>2
  <2> QED BY <2>2, <2>3
<1> QED BY <1>4, <1>8, <1>9, <1>10, <1>11, <1>12

\* The names of the remotes, then the addresses of each.
LEMMA RemotesKeep ==
  ASSUME ReadsInv, RemoteNames \/ RemoteUrl
  PROVE  ReadsInv'
<1>1. /\ store.kind = "remotes" /\ store \in moments
      /\ DOMAIN store.urls \subseteq {"r", "s"} /\ \A r \in DOMAIN store.urls : store.urls[r] \in {1, 2}
  BY DEF RemoteNames, RemoteUrl, Asked, ReadAt, ReadsInv, StoreStands
<1>2. ASSUME NEW left, NEW urls, UrlsStand(urls), Goes("get-url", [left |-> left, urls |-> urls])
      PROVE  ReadsInv'
  <2>1. PICK got : got = [left |-> left, urls |-> urls]
    OBVIOUS
  <2>2. /\ reading'.step = "get-url" /\ reading'.got = got /\ UNCHANGED moments
        /\ GotStands' => ReadsInv'
    BY <1>2, <2>1, ReadGoesOn
  <2>3. got.urls = urls
    BY <2>1
  <2>4. UrlsStand(got.urls)'
    BY <1>2, <2>2, <2>3 DEF UrlsStand
  <2>5. GotStands'
    BY <2>2, <2>4 DEF GotStands
  <2> QED BY <2>2, <2>5
<1>3. CASE RemoteNames
  <2>1. UrlsStand(<<>>)
    BY DEF UrlsStand
  <2> QED BY <1>2, <1>3, <2>1 DEF RemoteNames
<1>4. CASE RemoteUrl
  <2>1. PICK left, urls : left = reading.got.left /\ urls = reading.got.urls
    OBVIOUS
  <2>2. UrlsStand(urls)
    BY <1>4, <2>1 DEF RemoteUrl, ReadAt, ReadsInv, GotStands
  <2>3. CASE left = <<>>
    <3>1. EndRead(urls)
      BY <1>4, <2>1, <2>3 DEF RemoteUrl
    <3>2. RemotesWere(urls)
      BY <2>2 DEF UrlsStand, RemotesWere, Range
    <3> QED BY <1>1, <3>1, <3>2, ReadEnds
  <2>4. CASE left # <<>> /\ Head(left) \notin DOMAIN store.urls
    <3>1. FailRead("ProcessFailure")
      BY <1>4, <2>1, <2>4 DEF RemoteUrl
    <3> QED BY <3>1, ReadGivesUp
  <2>5. CASE left # <<>> /\ Head(left) \in DOMAIN store.urls
    <3>1. PICK name, part, more : /\ name = Head(left) /\ part = <<name, store.urls[name]>>
                                  /\ more = Append(urls, part)
      OBVIOUS
    <3>2. Goes("get-url", [left |-> Tail(left), urls |-> more])
      BY <1>4, <2>1, <2>5, <3>1 DEF RemoteUrl
    <3>3. part \in {"r", "s"} \X {1, 2} /\ part[1] \in DOMAIN store.urls /\ store.urls[part[1]] = part[2]
      BY <1>1, <2>5, <3>1
    <3>4. /\ more \in Seq({"r", "s"} \X {1, 2}) /\ DOMAIN more = 1..Len(urls) + 1
          /\ \A k \in DOMAIN more : more[k] = IF k = Len(urls) + 1 THEN part ELSE urls[k]
          /\ DOMAIN urls = 1..Len(urls) /\ Len(urls) \in Nat
      BY <2>2, <3>1, <3>3 DEF UrlsStand
    <3>5. ASSUME NEW k \in DOMAIN more
          PROVE  \E s \in moments : more[k][1] \in DOMAIN s.urls /\ s.urls[more[k][1]] = more[k][2]
      <4>1. CASE k = Len(urls) + 1
        BY <1>1, <3>3, <3>4, <4>1
      <4>2. CASE k # Len(urls) + 1
        <5>1. k \in DOMAIN urls /\ more[k] = urls[k]
          BY <3>4, <4>2
        <5> QED BY <2>2, <5>1 DEF UrlsStand
      <4> QED BY <4>1, <4>2
    <3>6. UrlsStand(more)
      BY <3>4, <3>5 DEF UrlsStand
    <3> QED BY <1>2, <3>2, <3>6
  <2> QED BY <2>3, <2>4, <2>5
<1> QED BY <1>3, <1>4

\* The entries of the reflog, then which of their objects there still are.
LEMMA ReflogKeeps ==
  ASSUME ReadsInv, Reflog \/ ObjectExistence
  PROVE  ReadsInv'
<1>1. store.kind = "reflog" /\ store \in moments
  BY DEF Reflog, ObjectExistence, Asked, ReadAt, ReadsInv, StoreStands
<1>2. CASE Reflog
  <2>1. CASE store.entries = <<>>
    <3>1. EndRead(<<>>)
      BY <1>2, <2>1 DEF Reflog
    <3>2. ReflogWas(<<>>)
      BY DEF ReflogWas, Range
    <3> QED BY <1>1, <3>1, <3>2, ReadEnds
  <2>2. CASE store.entries # <<>>
    <3>1. PICK got : got = ParseIndexedRecords(store.entries)
      OBVIOUS
    <3>2. Goes("batch-check", got)
      BY <1>2, <2>2, <3>1 DEF Reflog
    <3>3. reading'.step = "batch-check" /\ (GotStands' => ReadsInv')
      BY <3>2, ReadGoesOn
    <3>4. GotStands'
      BY <3>3 DEF GotStands
    <3> QED BY <3>3, <3>4
  <2> QED BY <2>1, <2>2
<1>3. CASE ObjectExistence
  <2>1. PICK got, lines :
           /\ got = reading.got
           /\ lines = [k \in DOMAIN got |->
                         [object |-> got[k].commit,
                          is |-> IF got[k].commit \in store.objects THEN "commit" ELSE "missing"]]
    OBVIOUS
  <2>2. PICK existing : existing = ParseBatchCheckExistence(lines)
    OBVIOUS
  <2>3. PICK value : value = [k \in DOMAIN got |->
                                [commit |-> got[k].commit, present |-> got[k].commit \in existing]]
    OBVIOUS
  <2>4. EndRead(value)
    BY <1>3, <2>1, <2>2, <2>3 DEF ObjectExistence
  <2>5. /\ DOMAIN lines = DOMAIN got
        /\ \A k \in DOMAIN got :
              /\ lines[k].object = got[k].commit
              /\ lines[k].is # "missing" <=> got[k].commit \in store.objects
    BY <2>1
  <2>6. existing = {lines[k].object : k \in {j \in DOMAIN lines : lines[j].is # "missing"}}
    BY <2>2 DEF ParseBatchCheckExistence
  <2>7. ASSUME NEW k \in DOMAIN got
        PROVE  got[k].commit \in existing <=> got[k].commit \in store.objects
    BY <2>5, <2>6
  <2>8. ASSUME NEW e \in Range(value)
        PROVE  e.present = (e.commit \in store.objects)
    <3>1. PICK k \in DOMAIN got :
             e = [commit |-> got[k].commit, present |-> got[k].commit \in existing]
      BY <2>3, <2>8 DEF Range
    <3> QED BY <2>7, <3>1
  <2>9. ReflogWas(value)
    BY <1>1, <2>8 DEF ReflogWas
  <2> QED BY <1>1, <2>4, <2>9, ReadEnds
<1> QED BY <1>2, <1>3

\* The three sides of a conflict.
LEMMA SidesKeep ==
  ASSUME ReadsInv, ConflictSides \/ ReadConflictStage
  PROVE  ReadsInv'
<1>1. store.kind = "sides" /\ store \in moments /\ store.stages \in [1..3 -> BOOLEAN]
  BY DEF ConflictSides, ReadConflictStage, Asked, ReadAt, ReadsInv, StoreStands
<1>2. ASSUME NEW got, SidesStand(got), Goes("show", got)
      PROVE  ReadsInv'
  <2>1. /\ reading'.step = "show" /\ reading'.got = got /\ UNCHANGED moments
        /\ GotStands' => ReadsInv'
    BY <1>2, ReadGoesOn
  <2>2. SidesStand(got)'
    BY <1>2, <2>1 DEF SidesStand
  <2>3. GotStands'
    BY <2>1, <2>2 DEF GotStands
  <2> QED BY <2>1, <2>3
<1>3. CASE ConflictSides
  <2>1. SidesStand(<<>>)
    BY DEF SidesStand
  <2> QED BY <1>2, <1>3, <2>1 DEF ConflictSides
<1>4. CASE ReadConflictStage
  <2>1. PICK old : old = reading.got
    OBVIOUS
  <2>2. SidesStand(old)
    BY <1>4, <2>1 DEF ReadConflictStage, ReadAt, ReadsInv, GotStands
  <2>3. PICK stage : stage = store.stages[Len(old) + 1]
    OBVIOUS
  <2>4. Len(old) \in 0..2 /\ stage \in BOOLEAN
    <3>1. PICK size : size = Len(old)
      OBVIOUS
    <3>2. old \in Seq(BOOLEAN)
      BY <2>2, Zenon DEF SidesStand
    <3>3. size <= 2
      BY <2>2, <3>1, Zenon DEF SidesStand
    <3>4. size \in Nat
      BY <3>1, <3>2, LenProperties
    <3>5. size \in 0..2 /\ size + 1 \in 1..3
      BY <3>3, <3>4
    <3> QED BY <1>1, <2>3, <3>1, <3>5
  <2>5. PICK got : got = Append(old, stage)
    OBVIOUS
  <2>6. /\ got \in Seq(BOOLEAN) /\ Len(got) = Len(old) + 1
        /\ \A n \in 1..Len(got) : got[n] = IF n = Len(old) + 1 THEN stage ELSE old[n]
    BY <2>2, <2>4, <2>5 DEF SidesStand
  <2>7. ASSUME NEW n \in 1..Len(got)
        PROVE  \E s \in moments : got[n] = s.stages[n]
    <3>1. CASE n = Len(old) + 1
      BY <1>1, <2>3, <2>6, <3>1
    <3>2. CASE n # Len(old) + 1
      <4>1. n \in 1..Len(old) /\ got[n] = old[n]
        BY <2>4, <2>6, <3>2
      <4> QED BY <2>2, <4>1 DEF SidesStand
    <3> QED BY <3>1, <3>2
  <2>8. CASE Len(got) < 3
    <3>1. Goes("show", got)
      BY <1>4, <2>1, <2>3, <2>5, <2>8 DEF ReadConflictStage
    <3>2. SidesStand(got)
      BY <2>4, <2>6, <2>7, <2>8 DEF SidesStand
    <3> QED BY <1>2, <3>1, <3>2
  <2>9. CASE ~ (Len(got) < 3)
    <3>1. EndRead(got)
      BY <1>4, <2>1, <2>3, <2>5, <2>9 DEF ReadConflictStage
    <3>2. SidesWere(got)
      BY <2>4, <2>6, <2>7, <2>9 DEF SidesWere
    <3> QED BY <1>1, <3>1, <3>2, ReadEnds
  <2> QED BY <2>8, <2>9
<1> QED BY <1>3, <1>4

\* Two names, and the commits they were resolved to.
LEMMA ComparisonKeeps ==
  ASSUME ReadsInv, ResolveBase \/ ResolveTarget \/ DiffResolved
  PROVE  ReadsInv'
<1>1. /\ store.kind = "compared" /\ store \in moments
      /\ DOMAIN store.refs \subseteq {"base", "target"}
      /\ \A name \in DOMAIN store.refs : store.refs[name] \in Nat
  BY DEF ResolveBase, ResolveTarget, DiffResolved, Asked, ReadAt, ReadsInv, StoreStands
<1>2. CASE ResolveBase
  <2>1. CASE "base" \notin DOMAIN store.refs
    <3>1. FailRead("RevisionNotFound")
      BY <1>2, <2>1 DEF ResolveBase, Resolve
    <3> QED BY <3>1, ReadGivesUp
  <2>2. CASE "base" \in DOMAIN store.refs
    <3>1. PICK commit, got : commit = store.refs["base"] /\ got = Append(<<>>, commit)
      OBVIOUS
    <3>2. Goes("target", got)
      BY <1>2, <2>2, <3>1 DEF ResolveBase, Resolve
    <3>3. /\ reading'.step = "target" /\ reading'.got = got /\ UNCHANGED moments
          /\ GotStands' => ReadsInv'
      BY <3>2, ReadGoesOn
    <3>4. commit \in Nat
      BY <1>1, <2>2, <3>1
    <3>5. got \in Seq(Nat) /\ Len(got) = 1 /\ got[1] = commit
      BY <3>1, <3>4
    <3>6. RefsStand(got)'
      BY <1>1, <2>2, <3>1, <3>3, <3>5 DEF RefsStand
    <3>7. GotStands'
      BY <3>3, <3>5, <3>6 DEF GotStands
    <3> QED BY <3>3, <3>7
  <2> QED BY <2>1, <2>2
<1>3. CASE ResolveTarget
  <2>1. PICK old : old = reading.got
    OBVIOUS
  <2>2. RefsStand(old) /\ Len(old) = 1
    BY <1>3, <2>1 DEF ResolveTarget, ReadAt, ReadsInv, GotStands
  <2>3. CASE "target" \notin DOMAIN store.refs
    <3>1. FailRead("RevisionNotFound")
      BY <1>3, <2>3 DEF ResolveTarget, Resolve
    <3> QED BY <3>1, ReadGivesUp
  <2>4. CASE "target" \in DOMAIN store.refs
    <3>1. PICK commit, got : commit = store.refs["target"] /\ got = Append(old, commit)
      OBVIOUS
    <3>2. Goes("diff", got)
      BY <1>3, <2>1, <2>4, <3>1 DEF ResolveTarget, Resolve
    <3>3. /\ reading'.step = "diff" /\ reading'.got = got /\ UNCHANGED moments
          /\ GotStands' => ReadsInv'
      BY <3>2, ReadGoesOn
    <3>4. commit \in Nat
      BY <1>1, <2>4, <3>1
    <3>5. got \in Seq(Nat) /\ Len(got) = 2 /\ got[1] = old[1] /\ got[2] = commit
      <4>1. old \in Seq(Nat) /\ Len(old) = 1
        BY <2>2 DEF RefsStand
      <4>2. got = Append(old, commit)
        BY <3>1
      <4>3. got \in Seq(Nat) /\ Len(got) = Len(old) + 1
        BY <3>4, <4>1, <4>2, AppendProperties
      <4>4. got[Len(old) + 1] = commit
        BY <3>4, <4>1, <4>2, AppendProperties
      <4>5. \A k \in 1..Len(old) : got[k] = old[k]
        BY <3>4, <4>1, <4>2, AppendProperties
      <4>6. got[1] = old[1] /\ got[2] = commit
        BY <4>1, <4>4, <4>5
      <4> QED BY <4>1, <4>3, <4>6
    <3>6. RefsStand(got)'
      BY <2>2, <3>3, <3>5 DEF RefsStand
    <3>7. \E s \in moments' : "target" \in DOMAIN s.refs /\ s.refs["target"] = got[2]
      BY <1>1, <2>4, <3>1, <3>3, <3>5
    <3>8. GotStands'
      BY <3>3, <3>5, <3>6, <3>7 DEF GotStands
    <3> QED BY <3>3, <3>8
  <2> QED BY <2>3, <2>4
<1>4. CASE DiffResolved
  <2>1. PICK got, base, target : got = reading.got /\ base = got[1] /\ target = got[2]
    OBVIOUS
  <2>2. /\ RefsStand(got) /\ Len(got) = 2
        /\ \E s \in moments : "target" \in DOMAIN s.refs /\ s.refs["target"] = target
    BY <1>1, <1>4, <2>1 DEF DiffResolved, ReadAt, ReadsInv, GotStands
  <2>3. PICK value : value = [base |-> base, target |-> target, diff |-> got]
    OBVIOUS
  <2>4. EndRead(value)
    BY <1>4, <2>1, <2>3 DEF DiffResolved
  <2>5. got = <<base, target>>
    BY <2>1, <2>2 DEF RefsStand
  <2>6. ComparedWere(value)
    BY <2>1, <2>2, <2>3, <2>5 DEF ComparedWere, RefsStand
  <2> QED BY <1>1, <2>4, <2>6, ReadEnds
<1> QED BY <1>2, <1>3, <1>4

\* The commit to amend, then what is staged for it.
LEMMA AmendedKeeps ==
  ASSUME ReadsInv, HeadToAmend \/ StagedToAmend
  PROVE  ReadsInv'
<1>1. store.kind = "amended" /\ store \in moments
  BY DEF HeadToAmend, StagedToAmend, Asked, ReadAt, ReadsInv, StoreStands
<1>2. CASE HeadToAmend
  <2>1. CASE store.at = 0
    <3>1. FailRead("RevisionNotFound")
      BY <1>2, <2>1 DEF HeadToAmend
    <3> QED BY <3>1, ReadGivesUp
  <2>2. CASE store.at # 0
    <3>1. Goes("staged", store.at)
      BY <1>2, <2>2 DEF HeadToAmend
    <3>2. /\ reading'.step = "staged" /\ reading'.got = store.at /\ UNCHANGED moments
          /\ GotStands' => ReadsInv'
      BY <3>1, ReadGoesOn
    <3>3. GotStands'
      BY <1>1, <3>2 DEF GotStands
    <3> QED BY <3>2, <3>3
  <2> QED BY <2>1, <2>2
<1>3. CASE StagedToAmend
  <2>1. \E s \in moments : s.at = reading.got
    BY <1>3 DEF StagedToAmend, ReadAt, ReadsInv, GotStands
  <2>2. PICK value : value = [head |-> reading.got, staged |-> store.staged]
    OBVIOUS
  <2>3. EndRead(value)
    BY <1>3, <2>2 DEF StagedToAmend
  <2>4. AmendedWere(value)
    BY <1>1, <2>1, <2>2 DEF AmendedWere
  <2> QED BY <1>1, <2>3, <2>4, ReadEnds
<1> QED BY <1>2, <1>3

\* The history of lines is of the commit HEAD named.
LEMMA LinesKeep ==
  ASSUME ReadsInv,
         \/ ResolveRevision \/ LineHistory \/ EditorResolveRevision \/ EditorLineHistory
         \/ EditorBlockCommit
  PROVE  ReadsInv'
<1>1. store.kind = "lines" /\ store \in moments
  BY DEF ResolveRevision, LineHistory, EditorResolveRevision, EditorLineHistory,
         EditorBlockCommit, Asked, ReadAt, ReadsInv, StoreStands
<1>2. ASSUME NEW step \in {"log", "editor log"}, Goes(step, store.commits)
      PROVE  ReadsInv'
  <2>1. /\ reading'.step = step /\ reading'.got = store.commits /\ UNCHANGED moments
        /\ GotStands' => ReadsInv'
    BY <1>2, ReadGoesOn
  <2>2. GotStands'
    BY <1>1, <2>1 DEF GotStands
  <2> QED BY <2>1, <2>2
<1>3. ASSUME NEW revision, NEW listed, \E s \in moments : revision = s.commits,
             EndRead([revision |-> revision, entries |-> listed])
      PROVE  ReadsInv'
  <2>1. PICK value : value = [revision |-> revision, entries |-> listed]
    OBVIOUS
  <2>2. value.revision = revision
    BY <2>1
  <2> QED BY <1>1, <1>3, <2>1, <2>2, ReadEnds
<1>4. CASE ResolveRevision
  BY <1>2, <1>4 DEF ResolveRevision
<1>5. CASE EditorResolveRevision
  BY <1>2, <1>5 DEF EditorResolveRevision
<1>6. CASE LineHistory
  <2>1. \E s \in moments : reading.got = s.commits
    BY <1>6 DEF LineHistory, ReadAt, ReadsInv, GotStands
  <2>2. \E listed : EndRead([revision |-> reading.got, entries |-> listed])
    BY <1>6, Zenon DEF LineHistory
  <2> QED BY <1>3, <2>1, <2>2
<1>7. CASE EditorLineHistory
  <2>1. \E s \in moments : reading.got = s.commits
    BY <1>7 DEF EditorLineHistory, ReadAt, ReadsInv, GotStands
  <2>2. PICK blocks : Goes("editor commits", [revision |-> reading.got, blocks |-> blocks, entries |-> <<>>])
    BY <1>7, Zenon DEF EditorLineHistory
  <2>3. PICK got : got = [revision |-> reading.got, blocks |-> blocks, entries |-> <<>>]
    OBVIOUS
  <2>4. /\ reading'.step = "editor commits" /\ reading'.got = got /\ UNCHANGED moments
        /\ GotStands' => ReadsInv'
    BY <2>2, <2>3, ReadGoesOn
  <2>5. DOMAIN got = {"revision", "blocks", "entries"} /\ got.revision = reading.got
    BY <2>3
  <2>6. GotStands'
    BY <2>1, <2>4, <2>5 DEF GotStands
  <2> QED BY <2>4, <2>6
<1>8. CASE EditorBlockCommit
  <2>1. PICK old : old = reading.got
    OBVIOUS
  <2>2. /\ DOMAIN old = {"revision", "blocks", "entries"}
        /\ \E s \in moments : old.revision = s.commits
    BY <1>8, <2>1 DEF EditorBlockCommit, ReadAt, ReadsInv, GotStands
  <2>3. CASE old.blocks = <<>>
    <3>1. EndRead([revision |-> old.revision, entries |-> old.entries])
      BY <1>8, <2>1, <2>3 DEF EditorBlockCommit
    <3> QED BY <1>3, <2>2, <3>1
  <2>4. CASE old.blocks # <<>>
    <3>1. PICK blocks, listed : /\ blocks = Tail(old.blocks)
                               /\ listed = Append(old.entries, Head(old.blocks))
      OBVIOUS
    <3>2. PICK got : got = [old EXCEPT !.blocks = blocks, !.entries = listed]
      OBVIOUS
    <3>3. Goes("editor commits", got)
      BY <1>8, <2>1, <2>4, <3>1, <3>2 DEF EditorBlockCommit
    <3>4. /\ reading'.step = "editor commits" /\ reading'.got = got /\ UNCHANGED moments
          /\ GotStands' => ReadsInv'
      BY <3>3, ReadGoesOn
    <3>5. DOMAIN got = {"revision", "blocks", "entries"} /\ got.revision = old.revision
      BY <2>2, <3>2
    <3>6. GotStands'
      BY <2>2, <3>4, <3>5 DEF GotStands
    <3> QED BY <3>4, <3>6
  <2> QED BY <2>3, <2>4
<1> QED BY <1>4, <1>5, <1>6, <1>7, <1>8

(***************************************************************************)
(* What other programs do.                                                 *)
(***************************************************************************)
LEMMA MovesKeep ==
  ASSUME ReadsInv, NEW new, Moved(new), "kind" \in DOMAIN new, new.kind = store.kind,
         new.kind = "remotes" =>
           /\ "urls" \in DOMAIN new /\ DOMAIN new.urls \subseteq {"r", "s"}
           /\ \A r \in DOMAIN new.urls : new.urls[r] \in {1, 2},
         new.kind = "sides" => "stages" \in DOMAIN new /\ new.stages \in [1..3 -> BOOLEAN],
         new.kind = "compared" =>
           /\ "refs" \in DOMAIN new /\ DOMAIN new.refs \subseteq {"base", "target"}
           /\ \A name \in DOMAIN new.refs : new.refs[name] \in Nat
  PROVE  ReadsInv'
<1>1. store' = new /\ moments' = moments \cup {new} /\ UNCHANGED <<reading, result>>
  BY DEF Moved
<1>2. StoreStands'
  BY <1>1 DEF StoreStands
<1>3. GotStands' /\ PartsWereTrue'
  BY <1>1, GotStays, PartsStay DEF ReadsInv
<1> QED BY <1>2, <1>3 DEF ReadsInv

LEMMA OthersKeep ==
  ASSUME ReadsInv,
         \/ OthersCommit \/ OthersSwitch \/ OthersEditRemotes \/ OthersPrune \/ OthersResolve
         \/ OthersMoveRefs \/ OthersCommitStaged \/ OthersStage
  PROVE  ReadsInv'
<1>1. "kind" \in DOMAIN store
  BY DEF ReadsInv, StoreStands
<1>2. ASSUME NEW new, Moved(new), DOMAIN new = DOMAIN store, new.kind = store.kind,
             store.kind \notin {"remotes", "sides", "compared"}
      PROVE  ReadsInv'
  BY <1>1, <1>2, MovesKeep
<1>3. CASE OthersCommit
  <2>1. PICK n : n = store.commits + 1
    OBVIOUS
  <2>2. PICK new : new = [store EXCEPT !.commits = n]
    OBVIOUS
  <2>3. Moved(new) /\ store.kind \in {"pages", "lines"}
    BY <1>3, <2>1, <2>2 DEF OthersCommit
  <2>4. DOMAIN new = DOMAIN store /\ new.kind = store.kind
    BY <1>1, <2>2
  <2> QED BY <1>2, <2>3, <2>4
<1>4. CASE OthersSwitch
  <2>1. PICK b, c : Moved([store EXCEPT !.branch = b, !.at = c])
    BY <1>4 DEF OthersSwitch
  <2>2. PICK new : new = [store EXCEPT !.branch = b, !.at = c]
    OBVIOUS
  <2>3. DOMAIN new = DOMAIN store /\ new.kind = store.kind
    BY <1>1, <2>2
  <2>4. store.kind = "head" /\ Moved(new)
    BY <1>4, <2>1, <2>2 DEF OthersSwitch
  <2> QED BY <1>2, <2>3, <2>4
<1>5. CASE OthersEditRemotes
  <2>1. store.kind = "remotes"
    BY <1>5 DEF OthersEditRemotes
  <2>2. PICK urls : urls = store.urls
    OBVIOUS
  <2>3. /\ "urls" \in DOMAIN store /\ DOMAIN urls \subseteq {"r", "s"}
        /\ \A r \in DOMAIN urls : urls[r] \in {1, 2}
    BY <2>1, <2>2 DEF ReadsInv, StoreStands
  <2>4. PICK r \in DOMAIN urls :
           \/ Moved([store EXCEPT !.urls = Restrict(@, DOMAIN @ \ {r})])
           \/ Moved([store EXCEPT !.urls[r] = 2])
    BY <1>5, <2>2 DEF OthersEditRemotes
  <2>5. PICK fewer, other : /\ fewer = [x \in DOMAIN urls \ {r} |-> urls[x]]
                            /\ other = [urls EXCEPT ![r] = 2]
    OBVIOUS
  <2>6. \/ Moved([store EXCEPT !.urls = fewer])
        \/ Moved([store EXCEPT !.urls = other])
    BY <2>2, <2>4, <2>5 DEF Restrict
  <2>7. ASSUME NEW edited \in {fewer, other}, Moved([store EXCEPT !.urls = edited])
        PROVE  ReadsInv'
    <3>1. PICK new : new = [store EXCEPT !.urls = edited]
      OBVIOUS
    <3>2. /\ DOMAIN edited \subseteq {"r", "s"}
          /\ \A x \in DOMAIN edited : edited[x] \in {1, 2}
      BY <2>3, <2>5, <2>7
    <3>3. /\ DOMAIN new = DOMAIN store /\ new.kind = "remotes" /\ new.urls = edited
      BY <1>1, <2>1, <2>3, <3>1
    <3> QED BY <1>1, <2>1, <2>3, <2>7, <3>1, <3>2, <3>3, MovesKeep
  <2> QED BY <2>6, <2>7
<1>6. CASE OthersPrune
  <2>1. PICK o : Moved([store EXCEPT !.objects = @ \ {o}])
    BY <1>6 DEF OthersPrune
  <2>2. PICK objects : objects = store.objects \ {o}
    OBVIOUS
  <2>3. PICK new : new = [store EXCEPT !.objects = objects]
    OBVIOUS
  <2>4. DOMAIN new = DOMAIN store /\ new.kind = store.kind
    BY <1>1, <2>3
  <2>5. store.kind = "reflog" /\ Moved(new)
    BY <1>6, <2>1, <2>2, <2>3 DEF OthersPrune
  <2> QED BY <1>2, <2>4, <2>5
<1>7. CASE OthersResolve
  <2>1. PICK none : none = [n \in 1..3 |-> FALSE]
    OBVIOUS
  <2>2. PICK new : new = [store EXCEPT !.stages = none]
    OBVIOUS
  <2>3. store.kind = "sides" /\ Moved(new)
    BY <1>7, <2>1, <2>2 DEF OthersResolve
  <2>4. "stages" \in DOMAIN store
    BY <2>3 DEF ReadsInv, StoreStands
  <2>5. DOMAIN new = DOMAIN store /\ new.kind = "sides" /\ new.stages = none
    BY <1>1, <2>2, <2>3, <2>4
  <2>6. none \in [1..3 -> BOOLEAN]
    BY <2>1
  <2> QED BY <1>1, <2>3, <2>4, <2>5, <2>6, MovesKeep
<1>8. CASE OthersMoveRefs
  <2>1. store.kind = "compared"
    BY <1>8 DEF OthersMoveRefs
  <2>2. PICK refs : refs = store.refs
    OBVIOUS
  <2>3. /\ "refs" \in DOMAIN store /\ DOMAIN refs \subseteq {"base", "target"}
        /\ \A name \in DOMAIN refs : refs[name] \in Nat
    BY <2>1, <2>2 DEF ReadsInv, StoreStands
  <2>4. PICK name \in DOMAIN refs :
           \/ Moved([store EXCEPT !.refs[name] = @ + 1])
           \/ Moved([store EXCEPT !.refs = Restrict(@, DOMAIN @ \ {name})])
    BY <1>8, <2>2 DEF OthersMoveRefs
  <2>5. PICK next : next = refs[name] + 1
    OBVIOUS
  <2>6. PICK fewer, other : /\ fewer = [x \in DOMAIN refs \ {name} |-> refs[x]]
                            /\ other = [refs EXCEPT ![name] = next]
    OBVIOUS
  <2>7. \/ Moved([store EXCEPT !.refs = fewer])
        \/ Moved([store EXCEPT !.refs = other])
    BY <2>2, <2>4, <2>5, <2>6 DEF Restrict
  <2>8. ASSUME NEW edited \in {fewer, other}, Moved([store EXCEPT !.refs = edited])
        PROVE  ReadsInv'
    <3>1. PICK new : new = [store EXCEPT !.refs = edited]
      OBVIOUS
    <3>2. /\ DOMAIN edited \subseteq {"base", "target"}
          /\ \A x \in DOMAIN edited : edited[x] \in Nat
      BY <2>3, <2>5, <2>6, <2>8
    <3>3. /\ DOMAIN new = DOMAIN store /\ new.kind = "compared" /\ new.refs = edited
      BY <1>1, <2>1, <2>3, <3>1
    <3> QED BY <1>1, <2>1, <2>3, <2>8, <3>1, <3>2, <3>3, MovesKeep
  <2> QED BY <2>7, <2>8
<1>9. CASE OthersCommitStaged
  <2>1. PICK at : at = store.at + 1
    OBVIOUS
  <2>2. PICK new : new = [store EXCEPT !.at = at, !.staged = 0]
    OBVIOUS
  <2>3. DOMAIN new = DOMAIN store /\ new.kind = store.kind
    BY <1>1, <2>2
  <2>4. store.kind = "amended" /\ Moved(new)
    BY <1>9, <2>1, <2>2 DEF OthersCommitStaged
  <2> QED BY <1>2, <2>3, <2>4
<1>10. CASE OthersStage
  <2>1. PICK staged : staged = store.staged + 1
    OBVIOUS
  <2>2. PICK new : new = [store EXCEPT !.staged = staged]
    OBVIOUS
  <2>3. DOMAIN new = DOMAIN store /\ new.kind = store.kind
    BY <1>1, <2>2
  <2>4. store.kind = "amended" /\ Moved(new)
    BY <1>10, <2>1, <2>2 DEF OthersStage
  <2> QED BY <1>2, <2>3, <2>4
<1> QED BY <1>3, <1>4, <1>5, <1>6, <1>7, <1>8, <1>9, <1>10

LEMMA ReadsStart ==
  ASSUME ReadsInit
  PROVE  ReadsInv
<1>1. PICK kind \in ReadKinds : store \in StoresOf(kind)
  BY DEF ReadsInit
<1>2. kind \in {"status", "refs", "tags", "worktrees", "diff", "blame", "log", "pages", "head",
                "remotes", "reflog", "sides", "lines", "commit diff", "compared", "amended",
                "content"}
  BY ReadsAssumption
<1>3. store.kind = kind /\ "kind" \in DOMAIN store
  <2>1. CASE kind = "status"
    BY <1>1, <2>1 DEF StoresOf
  <2>2. CASE kind \in {"refs", "tags", "worktrees", "diff", "blame", "log"}
    BY <1>1, <2>2 DEF StoresOf
  <2>3. CASE kind = "pages"
    BY <1>1, <2>3 DEF StoresOf
  <2>4. CASE kind = "head"
    BY <1>1, <2>4 DEF StoresOf
  <2>5. CASE kind = "remotes"
    BY <1>1, <2>5 DEF StoresOf
  <2>6. CASE kind = "reflog"
    BY <1>1, <2>6 DEF StoresOf
  <2>7. CASE kind = "sides"
    BY <1>1, <2>7 DEF StoresOf
  <2>8. CASE kind = "lines"
    BY <1>1, <2>8 DEF StoresOf
  <2>9. CASE kind = "commit diff"
    BY <1>1, <2>9 DEF StoresOf
  <2>10. CASE kind = "compared"
    BY <1>1, <2>10 DEF StoresOf
  <2>11. CASE kind = "amended"
    BY <1>1, <2>11 DEF StoresOf
  <2>12. CASE kind = "content"
    BY <1>1, <2>12 DEF StoresOf
  <2> QED BY <1>2, <2>1, <2>2, <2>3, <2>4, <2>5, <2>6, <2>7, <2>8, <2>9, <2>10, <2>11, <2>12
<1>4. store.kind = "remotes" =>
        /\ "urls" \in DOMAIN store /\ DOMAIN store.urls \subseteq {"r", "s"}
        /\ \A r \in DOMAIN store.urls : store.urls[r] \in {1, 2}
  BY <1>1, <1>3 DEF StoresOf
<1>5. store.kind = "sides" => "stages" \in DOMAIN store /\ store.stages \in [1..3 -> BOOLEAN]
  BY <1>1, <1>3 DEF StoresOf
<1>6. store.kind = "compared" =>
        /\ "refs" \in DOMAIN store /\ DOMAIN store.refs \subseteq {"base", "target"}
        /\ \A name \in DOMAIN store.refs : store.refs[name] \in Nat
  BY <1>1, <1>3 DEF StoresOf
<1>7. store \in moments
  BY DEF ReadsInit
<1>8. StoreStands
  BY <1>3, <1>4, <1>5, <1>6, <1>7 DEF StoreStands
<1>9. reading.step = "none" /\ result.is = "none"
  BY DEF ReadsInit, NotReading, NoResult
<1> QED BY <1>8, <1>9 DEF ReadsInv, GotStands, PartsWereTrue

LEMMA ReadsStep ==
  ASSUME ReadsInv, [ReadsNext \/ EditorReadsNext]_readVars
  PROVE  ReadsInv'
<1>1. CASE UNCHANGED readVars
  <2>1. UNCHANGED <<store, reading, result, moments>>
    BY <1>1 DEF readVars
  <2>2. StoreStands'
    BY <2>1 DEF ReadsInv, StoreStands
  <2>3. GotStands' /\ PartsWereTrue'
    BY <2>1, GotStays, PartsStay DEF ReadsInv
  <2> QED BY <2>2, <2>3 DEF ReadsInv
<1>2. CASE ReadsNext
  BY <1>2, OneRunKeeps, OtherReadsKeep, HeadKeeps, RemotesKeep, ReflogKeeps, SidesKeep,
     ComparisonKeeps, AmendedKeeps, LinesKeep, OthersKeep, Zenon DEF ReadsNext
<1>3. CASE EditorReadsNext
  BY <1>3, OneRunKeeps, OtherReadsKeep, HeadKeeps, LinesKeep, Zenon DEF EditorReadsNext
<1> QED BY <1>1, <1>2, <1>3

\* Whoever acts between the runs of a read, and however often: each part of what it answers, the
\* provider's or the editor's, was true of one moment since it began (discover, remotes, reflog,
\* conflict_sides, compare_refs, the commit to amend and line_history).
THEOREM PartsStayTrue == AllReadsSpec => []PartsWereTrue
<1>1. ReadsInit => ReadsInv
  BY ReadsStart
<1>2. ReadsInv /\ [ReadsNext \/ EditorReadsNext]_readVars => ReadsInv'
  BY ReadsStep
<1>3. ReadsInv => PartsWereTrue
  BY DEF ReadsInv
<1> QED BY <1>1, <1>2, <1>3, PTL DEF AllReadsSpec
=============================================================================
