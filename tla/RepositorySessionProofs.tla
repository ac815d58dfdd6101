----------------------- MODULE RepositorySessionProofs -----------------------
(***************************************************************************)
(* Proofs about RepositorySession, for every set of sessions, repositories *)
(* and physical repositories, however many worktrees share one.            *)
(***************************************************************************)
EXTENDS RepositorySession, TLAPS

IInv == TypeOK /\ LockInv

USE LockKeyAssumption, BoundsAssumption

LEMMA InitInv == Init => IInv
<1> SUFFICES ASSUME Init PROVE IInv
  OBVIOUS
<1>1. PICK opened \in [Sessions -> Repositories] :
        session = [s \in Sessions |->
                     [repository |-> opened[s], status |-> Unknown, selection |-> Unknown,
                      generation |-> 0, active |-> {}, lock |-> NoLock]]
  BY DEF Init
<1>2. session \in [Sessions -> SessionState]
  BY <1>1 DEF SessionState, Statuses, Selections, NoLock
<1>3. TypeOK
  BY <1>2 DEF Init, TypeOK, Snapshots, NoPage, NoLock
<1>4. LockInv
  BY <1>1 DEF Init, LockInv, NoLock, Holds
<1> QED BY <1>3, <1>4 DEF IInv

(***************************************************************************)
(* The steps that only touch the physical repositories, the caches and the *)
(* tickets, or the fields of a session other than its lock and repository. *)
(***************************************************************************)
LEMMA LocksUntouched ==
  ASSUME IInv, TypeOK', UNCHANGED <<registry, allocated>>,
         \A s \in Sessions :
            /\ session'[s].lock = session[s].lock
            /\ session'[s].repository = session[s].repository
            /\ running'[s] \in {"waiting", "mutating"} => running'[s] = running[s]
  PROVE  LockInv'
BY DEF IInv, LockInv, Holds, KeyOf

\* How a method that assigns one session changes the sessions.
LEMMA SessionUpdate ==
  ASSUME TypeOK, NEW s \in Sessions, NEW new \in SessionState,
         session' = [session EXCEPT ![s] = new]
  PROVE  /\ session' \in [Sessions -> SessionState]
         /\ \A u \in Sessions : session'[u] = IF u = s THEN new ELSE session[u]
BY DEF TypeOK

LEMMA ChangedType ==
  ASSUME TypeOK, NEW k \in Keys, Changed(k)
  PROVE  physical' \in [Keys -> Snapshots]
<1>1. PICK shown \in {physical[k].shown, physical[k].shown + 1} :
         physical' = [physical EXCEPT ![k] = [shown |-> shown, refs |-> physical[k].refs + 1]]
  BY DEF Changed
<1>2. physical[k] \in Snapshots /\ physical[k].refs + 1 \in 0..MaxRefs
  BY DEF Changed, TypeOK, Snapshots
<1> QED BY <1>1, <1>2 DEF TypeOK, Snapshots

\* What the type invariant says of the caches and their queries.
PagesTyped ==
    /\ cache \in [Sessions -> [Repositories -> Pages \cup {NoPage}]]
    /\ queries \subseteq Queries
    /\ \A q \in queries : q.checked => q.snapshot # NotRead

LEMMA InvalidatedType ==
  ASSUME TypeOK, NEW s \in Sessions, UNCHANGED <<cache, queries>> \/ Invalidated(s)
  PROVE  PagesTyped'
<1>1. CASE UNCHANGED <<cache, queries>>
  BY <1>1 DEF TypeOK, PagesTyped
<1>2. CASE Invalidated(s)
  <2>1. cache' \in [Sessions -> [Repositories -> Pages \cup {NoPage}]]
    BY <1>2 DEF Invalidated, TypeOK
  <2>2. ASSUME NEW q \in queries'
        PROVE  q \in Queries /\ (q.checked => q.snapshot # NotRead)
    <3>1. PICK p \in queries : \E overtaken \in {p.overtaken, "unread", "read"} :
             q = [p EXCEPT !.overtaken = overtaken]
      BY <1>2 DEF Invalidated
    <3> PICK overtaken \in {p.overtaken, "unread", "read"} : q = [p EXCEPT !.overtaken = overtaken]
      BY <3>1
    <3>2. p \in Queries /\ (p.checked => p.snapshot # NotRead)
      BY DEF TypeOK
    <3>3. overtaken \in Overtaken
      BY <3>2 DEF Queries, Overtaken
    <3> QED BY <3>2, <3>3 DEF Queries
  <2> QED BY <2>1, <2>2 DEF PagesTyped
<1> QED BY <1>1, <1>2

LEMMA QueriesType ==
  ASSUME TypeOK,
         \/ \E s \in Sessions : BeginQuery(s)
         \/ \E q \in queries : ReadQuery(q) \/ QueryFails(q) \/ CheckTicket(q) \/ InsertPage(q)
  PROVE  PagesTyped'
<1>1. \A q \in queries : q \in Queries /\ (q.checked => q.snapshot # NotRead)
  BY DEF TypeOK
<1>2. cache \in [Sessions -> [Repositories -> Pages \cup {NoPage}]]
  BY DEF TypeOK
<1>3. ASSUME NEW s \in Sessions, BeginQuery(s) PROVE PagesTyped'
  <2> DEFINE new == [of |-> s, at |-> session[s].repository, snapshot |-> NotRead,
                     checked |-> FALSE, overtaken |-> "no"]
  <2>1. new \in Queries /\ new.checked = FALSE
    BY DEF TypeOK, SessionState, Queries, Overtaken
  <2>2. cache' = cache /\ \A q \in queries' : q \in queries \/ q = new
    BY <1>3 DEF BeginQuery
  <2> HIDE DEF new
  <2> QED BY <1>1, <1>2, <2>1, <2>2 DEF PagesTyped
<1>4. ASSUME NEW q \in queries, ReadQuery(q) PROVE PagesTyped'
  <2> DEFINE now == physical[LockKey[q.at]]
             new == [q EXCEPT !.snapshot = now]
  <2>1. now \in Snapshots /\ now # NotRead
    <3>1. LockKey[q.at] \in Keys
      BY <1>1 DEF Queries
    <3> QED BY <3>1 DEF TypeOK, Snapshots, NotRead, NotYet
  <2>2. new \in Queries /\ new.snapshot = now
    BY <1>1, <2>1 DEF Queries
  <2>3. cache' = cache /\ \A p \in queries' : p \in queries \/ p = new
    BY <1>4 DEF ReadQuery
  <2> HIDE DEF now, new
  <2> QED BY <1>1, <1>2, <2>1, <2>2, <2>3 DEF PagesTyped
<1>5. ASSUME NEW q \in queries, QueryFails(q) PROVE PagesTyped'
  BY <1>1, <1>2, <1>5 DEF QueryFails, PagesTyped
<1>6. ASSUME NEW q \in queries, CheckTicket(q) PROVE PagesTyped'
  <2> DEFINE new == [q EXCEPT !.checked = TRUE]
  <2>1. new \in Queries /\ new.snapshot # NotRead
    BY <1>1, <1>6 DEF Queries, CheckTicket
  <2>2. cache' = cache /\ \A p \in queries' : p \in queries \/ p = new
    BY <1>6 DEF CheckTicket
  <2> HIDE DEF new
  <2> QED BY <1>1, <1>2, <2>1, <2>2 DEF PagesTyped
<1>7. ASSUME NEW q \in queries, InsertPage(q) PROVE PagesTyped'
  <2> DEFINE page == [snapshot |-> q.snapshot, overtaken |-> q.overtaken]
  <2>1. page \in Pages /\ q.of \in Sessions /\ q.at \in Repositories
    BY <1>1, <1>7 DEF Queries, Pages, InsertPage
  <2>2. cache' = [cache EXCEPT ![q.of][q.at] = page] /\ queries' = queries \ {q}
    BY <1>7 DEF InsertPage
  <2> HIDE DEF page
  <2>3. cache' \in [Sessions -> [Repositories -> Pages \cup {NoPage}]]
    BY <1>2, <2>1, <2>2
  <2> QED BY <1>1, <2>2, <2>3 DEF PagesTyped
<1> QED BY <1>3, <1>4, <1>5, <1>6, <1>7

(***************************************************************************)
(* The type invariant, one action at a time.                               *)
(***************************************************************************)
LEMMA TypeStep == TypeOK /\ [Next]_vars => TypeOK'
<1> SUFFICES ASSUME TypeOK, [Next]_vars PROVE TypeOK'
  OBVIOUS
<1> USE DEF TypeOK
<1>1. ASSUME NEW k \in Keys, ExternalChange(k) PROVE TypeOK'
  BY <1>1, ChangedType DEF ExternalChange
<1>2. ASSUME NEW t \in tickets, AnswerRefresh(t) PROVE TypeOK'
  <2>1. t \in Tickets /\ LockKey[t.at] \in Keys
    BY DEF Tickets
  <2>2. physical[LockKey[t.at]].shown \in 0..MaxRefs
    BY <2>1 DEF Snapshots
  <2>3. [t EXCEPT !.answer = physical[LockKey[t.at]].shown] \in Tickets
    BY <2>1, <2>2 DEF Tickets
  <2>4. /\ [t EXCEPT !.answer = physical[LockKey[t.at]].shown].generation = t.generation
        /\ [t EXCEPT !.answer = physical[LockKey[t.at]].shown].of = t.of
    BY <2>1 DEF Tickets
  <2> QED BY <1>2, <2>3, <2>4 DEF AnswerRefresh
<1>3. ASSUME NEW t \in tickets, RefreshFails(t) PROVE TypeOK'
  BY <1>3 DEF RefreshFails
<1>4. ASSUME \/ \E s \in Sessions : BeginQuery(s)
             \/ \E q \in queries :
                   ReadQuery(q) \/ QueryFails(q) \/ CheckTicket(q) \/ InsertPage(q)
      PROVE  TypeOK'
  <2>1. PagesTyped'
    BY <1>4, QueriesType
  <2>2. UNCHANGED <<physical, registry, allocated, session, running, tickets, ownChange>>
    BY <1>4 DEF BeginQuery, ReadQuery, QueryFails, CheckTicket, InsertPage
  <2> QED BY <2>1, <2>2 DEF PagesTyped
<1>5. ASSUME NEW s \in Sessions, NEW new \in SessionState,
             new.generation >= session[s].generation,
             session' = [session EXCEPT ![s] = new],
             PagesTyped',
             tickets' \subseteq Tickets,
             \A t \in tickets' : t \in tickets \/ (t.of = s /\ t.generation <= new.generation),
             physical' \in [Keys -> Snapshots],
             registry' \in [Keys -> Nat], allocated' \in Nat,
             running' \in [Sessions -> {"no", "waiting", "mutating", "mutated"}],
             ownChange' \in [Sessions -> 0..MaxRefs]
      PROVE  TypeOK'
  <2>1. /\ session' \in [Sessions -> SessionState]
        /\ \A u \in Sessions : session'[u] = IF u = s THEN new ELSE session[u]
    BY <1>5, SessionUpdate
  <2>2. ASSUME NEW t \in tickets' PROVE t.generation <= session'[t.of].generation
    <3>1. t \in Tickets
      BY <1>5
    <3>2. CASE t \in tickets
      <4>1. t.generation <= session[t.of].generation /\ t.of \in Sessions
        BY <3>1, <3>2 DEF Tickets
      <4>2. session[s].generation \in Nat /\ new.generation \in Nat /\ t.generation \in Nat
        BY <1>5, <3>1 DEF SessionState, Tickets
      <4> QED BY <4>1, <4>2, <2>1, <1>5
    <3>3. CASE t.of = s /\ t.generation <= new.generation
      BY <3>3, <2>1
    <3> QED BY <3>2, <3>3, <1>5
  <2> QED BY <1>5, <2>1, <2>2 DEF PagesTyped
<1>6. ASSUME NEW s \in Sessions, NEW kind \in Kinds, Select(s, kind) PROVE TypeOK'
  <2> DEFINE new == [session[s] EXCEPT !.selection = [at |-> session[s].repository, kind |-> kind]]
  <2>1. new \in SessionState /\ new.generation = session[s].generation
    BY DEF SessionState, Selections
  <2>2. new.generation >= session[s].generation
    <3>1. session[s].generation \in Nat
      BY DEF SessionState
    <3> QED BY <2>1, <3>1
  <2>3. session' = [session EXCEPT ![s] = new]
    BY <1>6 DEF Select
  <2>4. /\ UNCHANGED <<physical, registry, allocated, running, tickets, ownChange>>
        /\ PagesTyped'
    BY <1>6, InvalidatedType DEF Select
  <2> HIDE DEF new
  <2> QED BY <1>5, <2>1, <2>2, <2>3, <2>4
<1>7. ASSUME NEW s \in Sessions, ClearSelection(s) PROVE TypeOK'
  <2> DEFINE new == [session[s] EXCEPT !.selection = Unknown]
  <2>1. new \in SessionState /\ new.generation = session[s].generation
    BY DEF SessionState, Selections
  <2>2. new.generation >= session[s].generation
    <3>1. session[s].generation \in Nat
      BY DEF SessionState
    <3> QED BY <2>1, <3>1
  <2>3. session' = [session EXCEPT ![s] = new]
    BY <1>7 DEF ClearSelection
  <2>4. /\ UNCHANGED <<physical, registry, allocated, running, tickets, ownChange>>
        /\ PagesTyped'
    BY <1>7, InvalidatedType DEF ClearSelection
  <2> HIDE DEF new
  <2> QED BY <1>5, <2>1, <2>2, <2>3, <2>4
<1>8. ASSUME NEW s \in Sessions, NEW op \in Operations, BeginOperation(s, op) \/ EndOperation(s, op)
      PROVE  TypeOK'
  <2>1. PICK active \in SUBSET (Operations \X Repositories) :
           session' = [session EXCEPT ![s].active = active]
    <3>1. CASE BeginOperation(s, op)
      <4> DEFINE active == session[s].active \cup {<<op, session[s].repository>>}
      <4>1. active \in SUBSET (Operations \X Repositories)
        BY DEF SessionState
      <4> QED BY <3>1, <4>1 DEF BeginOperation
    <3>2. CASE EndOperation(s, op)
      <4> DEFINE active == {a \in session[s].active : a[1] # op}
      <4>1. active \in SUBSET (Operations \X Repositories)
        BY DEF SessionState
      <4> QED BY <3>2, <4>1 DEF EndOperation
    <3> QED BY <1>8, <3>1, <3>2
  <2> DEFINE new == [session[s] EXCEPT !.active = active]
  <2>2. new \in SessionState /\ new.generation = session[s].generation
    BY DEF SessionState
  <2>3. session[s].generation \in Nat
    BY DEF SessionState
  <2>4. session' = [session EXCEPT ![s] = new]
    BY <2>1
  <2>5. UNCHANGED <<physical, registry, allocated, running, cache, queries, tickets, ownChange>>
    BY <1>8 DEF BeginOperation, EndOperation
  <2> HIDE DEF new
  <2> QED BY <1>5, <2>2, <2>3, <2>4, <2>5, InvalidatedType
<1>9. ASSUME NEW s \in Sessions, BeginRefresh(s) PROVE TypeOK'
  <2> DEFINE new == [session[s] EXCEPT !.generation = @ + 1]
             ticket == [of |-> s, generation |-> session[s].generation + 1,
                        at |-> session[s].repository, answer |-> NotYet]
  <2>1. session[s].generation \in Nat /\ session[s].generation + 1 \in 1..MaxGeneration
    BY <1>9 DEF SessionState, BeginRefresh
  <2>2. /\ new \in SessionState
        /\ new.generation = session[s].generation + 1
        /\ new.generation >= session[s].generation
    <3>1. session[s] \in SessionState
      OBVIOUS
    <3> HIDE DEF TypeOK
    <3> QED BY <2>1, <3>1 DEF SessionState
  <2>3. ticket \in Tickets /\ ticket.of = s /\ ticket.generation <= new.generation
    BY <2>1, <2>2 DEF SessionState, Tickets
  <2>4. session' = [session EXCEPT ![s] = new] /\ tickets' = tickets \cup {ticket}
    BY <1>9 DEF BeginRefresh
  <2>5. UNCHANGED <<physical, registry, allocated, running, cache, queries, ownChange>>
    BY <1>9 DEF BeginRefresh
  <2> HIDE DEF new, ticket
  <2> QED BY <1>5, <2>2, <2>3, <2>4, <2>5, InvalidatedType
\* Storing a status of the right shape, at the same generation or the next.
<1>10. ASSUME NEW s \in Sessions, NEW status \in Statuses, NEW generation \in 0..MaxGeneration,
              generation >= session[s].generation,
              session' = [session EXCEPT ![s].status = status, ![s].generation = generation],
              PagesTyped', tickets' \subseteq tickets,
              running' \in [Sessions -> {"no", "waiting", "mutating", "mutated"}],
              UNCHANGED <<physical, registry, allocated, ownChange>>
       PROVE  TypeOK'
  <2> DEFINE new == [session[s] EXCEPT !.status = status, !.generation = generation]
  <2>1. new \in SessionState /\ new.generation = generation
    BY DEF SessionState
  <2>2. session' = [session EXCEPT ![s] = new]
    BY <1>10
  <2> HIDE DEF new
  <2> QED BY <1>5, <1>10, <2>1, <2>2
<1>11. ASSUME NEW s \in Sessions PROVE /\ session[s].status \in Statuses
                                       /\ session[s].generation \in 0..MaxGeneration
                                       /\ session[s].generation \in Nat
                                       /\ [at |-> session[s].repository,
                                           shown |-> Physical(s).shown] \in Statuses
  BY <1>11 DEF SessionState, Statuses, Physical, KeyOf, Snapshots
<1>12. ASSUME NEW s \in Sessions, NEW t \in tickets, ApplyRefresh(s, t) PROVE TypeOK'
  <2>1. UNCHANGED <<physical, registry, allocated, running, ownChange>> /\ tickets' \subseteq tickets
    BY <1>12 DEF ApplyRefresh
  <2>2. CASE IsCurrent(s, t.generation)
    <3>1. [at |-> t.at, shown |-> t.answer] \in Statuses
      <4>1. t \in Tickets /\ t.answer # NotYet
        BY <1>12 DEF ApplyRefresh
      <4> QED BY <4>1 DEF Tickets, Statuses
    <3>2. session' = [session EXCEPT ![s].status = [at |-> t.at, shown |-> t.answer],
                                     ![s].generation = session[s].generation]
      BY <1>12, <2>2 DEF ApplyRefresh, Stored
    <3>3. PagesTyped'
      BY <1>12, <2>2, InvalidatedType DEF ApplyRefresh, Stored
    <3>4. session[s].generation >= session[s].generation
      <4>1. session[s].generation \in Nat
        BY <1>11
      <4> QED BY <4>1
    <3> QED BY <1>10, <1>11, <2>1, <3>1, <3>2, <3>3, <3>4
  <2>3. CASE ~ IsCurrent(s, t.generation)
    BY <1>12, <2>1, <2>3 DEF ApplyRefresh
  <2> QED BY <2>2, <2>3
<1>13. ASSUME NEW s \in Sessions, NEW readable \in BOOLEAN, Refresh(s, readable) PROVE TypeOK'
  <2>1. /\ UNCHANGED <<physical, registry, allocated, running, tickets, ownChange>>
        /\ session[s].generation + 1 \in 0..MaxGeneration
        /\ session[s].generation + 1 >= session[s].generation
    BY <1>11, <1>13 DEF Refresh, Refreshed
  <2>2. CASE readable
    <3>1. session' = [session EXCEPT ![s].status = [at |-> session[s].repository,
                                                    shown |-> Physical(s).shown],
                                     ![s].generation = session[s].generation + 1]
      BY <1>13, <2>2 DEF Refresh, Refreshed, Stored
    <3>2. PagesTyped'
      BY <1>13, <2>2, InvalidatedType DEF Refresh, Refreshed, Stored
    <3> QED BY <1>10, <1>11, <2>1, <3>1, <3>2
  <2>3. CASE ~ readable
    <3>1. /\ session' = [session EXCEPT ![s].generation = @ + 1]
          /\ PagesTyped'
      BY <1>13, <2>3, InvalidatedType DEF Refresh, Refreshed
    <3>2. session' = [session EXCEPT ![s].status = session[s].status,
                                     ![s].generation = session[s].generation + 1]
      <4>1. [session[s] EXCEPT !.generation = session[s].generation + 1]
              = [session[s] EXCEPT !.status = session[s].status,
                                   !.generation = session[s].generation + 1]
        BY DEF SessionState
      <4> QED BY <3>1, <4>1
    <3> QED BY <1>10, <1>11, <2>1, <3>1, <3>2
  <2> QED BY <2>2, <2>3
<1>14. ASSUME NEW s \in Sessions, ResolveLock(s) PROVE TypeOK'
  <2>1. KeyOf(s) \in Keys /\ session[s].generation \in Nat
    BY DEF KeyOf, SessionState
  <2>2. UNCHANGED <<physical, cache, queries, tickets, ownChange>>
        /\ running' \in [Sessions -> {"no", "waiting", "mutating", "mutated"}]
    BY <1>14 DEF ResolveLock
  <2>3. CASE session[s].lock # NoLock
    BY <1>14, <2>2, <2>3 DEF ResolveLock
  <2>4. CASE session[s].lock = NoLock
    <3>1. registry' \in [Keys -> Nat] /\ allocated' \in Nat
      BY <1>14, <2>4 DEF ResolveLock, LockFor
    <3> DEFINE new == [session[s] EXCEPT !.lock = registry'[KeyOf(s)]]
    <3>2. new \in SessionState /\ new.generation = session[s].generation
      BY <2>1, <3>1 DEF SessionState
    <3>3. session' = [session EXCEPT ![s] = new]
      BY <1>14, <2>4 DEF ResolveLock
    <3> HIDE DEF new
    <3> QED BY <1>5, <2>1, <2>2, <3>1, <3>2, <3>3, InvalidatedType
  <2> QED BY <2>3, <2>4
<1>15. ASSUME NEW s \in Sessions, Acquire(s) PROVE TypeOK'
  BY <1>15 DEF Acquire
<1>16. ASSUME NEW s \in Sessions, MutationSucceeds(s) \/ MutationFails(s) PROVE TypeOK'
  <2>1. KeyOf(s) \in Keys
    BY DEF KeyOf, SessionState
  <2>2. physical' \in [Keys -> Snapshots]
    BY <1>16, <2>1, ChangedType DEF MutationSucceeds, MutationFails
  <2>3. physical'[KeyOf(s)].refs \in 0..MaxRefs
    BY <2>1, <2>2 DEF Snapshots
  <2> QED BY <1>16, <2>2, <2>3 DEF MutationSucceeds, MutationFails
<1>17. ASSUME NEW s \in Sessions, NEW readable \in BOOLEAN, FinishMutation(s, readable)
       PROVE  TypeOK'
  <2> DEFINE status == IF readable
                       THEN [at |-> session[s].repository, shown |-> Physical(s).shown]
                       ELSE session[s].status
  <2>1. /\ UNCHANGED <<physical, registry, allocated, tickets, ownChange>>
        /\ running' \in [Sessions -> {"no", "waiting", "mutating", "mutated"}]
    BY <1>17 DEF FinishMutation
  <2>5. /\ session[s].generation + 1 \in 0..MaxGeneration
        /\ session[s].generation + 1 >= session[s].generation
    <3>1. session[s].generation \in Nat /\ session[s].generation < MaxGeneration
      BY <1>11, <1>17 DEF FinishMutation
    <3> QED BY <3>1
  <2>2. status \in Statuses
    BY <1>11
  <2>3. session' = [session EXCEPT ![s].status = status,
                                   ![s].generation = session[s].generation + 1]
    BY <1>17 DEF FinishMutation
  <2>4. PagesTyped'
    BY <1>17, InvalidatedType DEF FinishMutation
  <2> HIDE DEF status
  <2> QED BY <1>10, <2>1, <2>2, <2>3, <2>4, <2>5
<1>18. ASSUME NEW s \in Sessions, NEW r \in Repositories, SwitchRepository(s, r) PROVE TypeOK'
  <2> DEFINE new == [repository |-> r, status |-> Unknown, selection |-> Unknown,
                     generation |-> session[s].generation + 1, active |-> {}, lock |-> NoLock]
  <2>1. /\ new \in SessionState /\ new.generation >= session[s].generation
    BY <1>11, <1>18 DEF SwitchRepository, SessionState, Statuses, Selections, NoLock
  <2>2. session' = [session EXCEPT ![s] = new]
    BY <1>18 DEF SwitchRepository
  <2>3. /\ UNCHANGED <<physical, registry, allocated, running, tickets>>
        /\ PagesTyped' /\ ownChange' \in [Sessions -> 0..MaxRefs]
    BY <1>18, InvalidatedType DEF SwitchRepository
  <2> HIDE DEF new
  <2> QED BY <1>5, <2>1, <2>2, <2>3
<1>19. CASE UNCHANGED vars
  BY <1>19 DEF vars
<1> HIDE DEF TypeOK
<1> QED
  BY <1>1, <1>2, <1>3, <1>4, <1>6, <1>7, <1>8, <1>9, <1>12, <1>13, <1>14, <1>15, <1>16,
     <1>17, <1>18, <1>19 DEF Next

(***************************************************************************)
(* The invariant of the locks.                                             *)
(***************************************************************************)
LEMMA ResolveLockInv ==
  ASSUME IInv, NEW s \in Sessions, ResolveLock(s), TypeOK'
  PROVE  LockInv'
<1> USE DEF IInv
<1>1. KeyOf(s) \in Keys /\ session[s].lock \in Nat
  BY DEF TypeOK, SessionState, KeyOf
<1>2. \A u \in Sessions : running'[u] = IF u = s THEN "waiting" ELSE running[u]
  BY DEF ResolveLock, TypeOK
<1>3. CASE session[s].lock # NoLock
  BY <1>2, <1>3 DEF ResolveLock, LockInv, KeyOf, Holds
<1>4. CASE session[s].lock = NoLock
  <2>1. /\ LockFor(KeyOf(s))
        /\ session' = [session EXCEPT ![s].lock = registry'[KeyOf(s)]]
    BY <1>4 DEF ResolveLock
  <2>2. \A u \in Sessions :
           /\ session'[u].lock = IF u = s THEN registry'[KeyOf(s)] ELSE session[u].lock
           /\ session'[u].repository = session[u].repository
           /\ KeyOf(u)' = KeyOf(u)
    BY <2>1 DEF TypeOK, SessionState, KeyOf
  <2>3. /\ registry'[KeyOf(s)] # NoLock
        /\ \A k \in Keys : registry[k] # NoLock => registry'[k] = registry[k]
        /\ \A k \in Keys : registry'[k] <= allocated'
        /\ \A k, other \in Keys :
              registry'[k] # NoLock /\ registry'[k] = registry'[other] => k = other
    <3>1. CASE registry[KeyOf(s)] # NoLock
      BY <2>1, <3>1, <1>1 DEF LockFor, LockInv
    <3>2. CASE registry[KeyOf(s)] = NoLock
      <4>1. allocated \in Nat /\ registry \in [Keys -> Nat]
        BY DEF TypeOK
      <4>2. allocated' = allocated + 1
            /\ registry' = [registry EXCEPT ![KeyOf(s)] = allocated + 1]
        BY <2>1, <3>2 DEF LockFor
      <4>3. \A k \in Keys : registry'[k] = IF k = KeyOf(s) THEN allocated + 1 ELSE registry[k]
        BY <4>1, <4>2
      <4>4. \A k \in Keys : registry[k] <= allocated /\ registry[k] \in Nat
        BY <4>1 DEF LockInv
      <4>5. \A k, other \in Keys :
               registry[k] # NoLock /\ registry[k] = registry[other] => k = other
        BY DEF LockInv
      <4> QED BY <4>1, <4>2, <4>3, <4>4, <4>5, <1>1, <3>2 DEF NoLock
    <3> QED BY <3>1, <3>2
  <2>4. \A u \in Sessions : session'[u].lock # NoLock => session'[u].lock = registry'[KeyOf(u)]
    <3> SUFFICES ASSUME NEW u \in Sessions, session'[u].lock # NoLock
                 PROVE  session'[u].lock = registry'[KeyOf(u)]
      OBVIOUS
    <3>1. CASE u = s
      BY <3>1, <2>2
    <3>2. CASE u # s
      <4>1. session[u].lock # NoLock /\ session[u].lock = registry[KeyOf(u)] /\ KeyOf(u) \in Keys
        BY <3>2, <2>2 DEF LockInv, TypeOK, SessionState, KeyOf
      <4> QED BY <4>1, <3>2, <2>2, <2>3
    <3> QED BY <3>1, <3>2
  <2>5. \A u \in Sessions : running'[u] \in {"waiting", "mutating"} => session'[u].lock # NoLock
    BY <1>2, <2>2, <2>3 DEF LockInv
  <2>6. \A u, other \in Sessions :
           running'[u] = "mutating" /\ Holds(other, session[u].lock)' => u = other
    BY <1>2, <2>2 DEF LockInv, Holds
  <2>7. \A u, other \in Sessions :
           running'[u] = "mutating" /\ running'[other] = "mutating"
             /\ session'[other].lock = session'[u].lock => u = other
    BY <1>2, <2>2 DEF LockInv, Holds
  <2> QED BY <2>2, <2>3, <2>4, <2>5, <2>7 DEF LockInv, Holds
<1> QED BY <1>3, <1>4

LEMMA AcquireInv ==
  ASSUME IInv, NEW s \in Sessions, Acquire(s)
  PROVE  LockInv'
<1>1. \A u \in Sessions : running'[u] = IF u = s THEN "mutating" ELSE running[u]
  BY DEF Acquire, IInv, TypeOK
<1> QED BY <1>1 DEF Acquire, IInv, LockInv, Holds, KeyOf

LEMMA SwitchInv ==
  ASSUME IInv, NEW s \in Sessions, NEW r \in Repositories, SwitchRepository(s, r)
  PROVE  LockInv'
<1>1. \A u \in Sessions :
         /\ session'[u].lock = IF u = s THEN NoLock ELSE session[u].lock
         /\ u # s => session'[u] = session[u]
  BY DEF SwitchRepository, IInv, TypeOK
<1>2. running[s] = "no" /\ UNCHANGED <<running, registry, allocated>>
  BY DEF SwitchRepository, Free
<1>3. \A u \in Sessions : u # s => KeyOf(u)' = KeyOf(u)
  BY <1>1 DEF KeyOf
<1>4. \A u \in Sessions : session'[u].lock # NoLock => session'[u].lock = registry'[KeyOf(u)']
  BY <1>1, <1>2, <1>3 DEF IInv, LockInv
<1>5. \A u \in Sessions : running[u] \in {"waiting", "mutating"} => session'[u].lock # NoLock
  BY <1>1, <1>2 DEF IInv, LockInv
<1>6. \A u, other \in Sessions :
         running[u] = "mutating" /\ running[other] = "mutating"
           /\ session'[other].lock = session'[u].lock => u = other
  BY <1>1, <1>2 DEF IInv, LockInv, Holds
<1>7. /\ \A k \in Keys : registry[k] <= allocated
      /\ \A k, other \in Keys : registry[k] # NoLock /\ registry[k] = registry[other] => k = other
  BY DEF IInv, LockInv
<1> QED BY <1>2, <1>4, <1>5, <1>6, <1>7 DEF LockInv, Holds

(***************************************************************************)
(* Assignments to the other fields of a session keep its lock and its      *)
(* repository.                                                             *)
(***************************************************************************)
KeepsLocks ==
    \A u \in Sessions : /\ session'[u].lock = session[u].lock
                        /\ session'[u].repository = session[u].repository

LEMMA OtherFields ==
  ASSUME TypeOK, NEW s \in Sessions, NEW x, NEW y,
         \/ UNCHANGED session
         \/ session' = [session EXCEPT ![s].selection = x]
         \/ session' = [session EXCEPT ![s].active = x]
         \/ session' = [session EXCEPT ![s].generation = x]
         \/ session' = [session EXCEPT ![s].status = x, ![s].generation = y]
         \/ session' = [session EXCEPT ![s].generation = y, ![s].status = x]
  PROVE  KeepsLocks
<1>1. session \in [Sessions -> SessionState]
  BY DEF TypeOK
<1> QED BY <1>1 DEF SessionState, KeepsLocks

(***************************************************************************)
(* A quiet step leaves every lock where it is and starts no mutation: what *)
(* the methods other than run_mutation and switch_repository do, and what  *)
(* run_mutation does once it has mutated.                                  *)
(***************************************************************************)
Quiet ==
    /\ KeepsLocks
    /\ registry' = registry
    /\ allocated' = allocated
    /\ \A u \in Sessions :
          running'[u] \in {"waiting", "mutating"} => running'[u] = running[u]

LEMMA QuietIfIdle ==
  ASSUME KeepsLocks, UNCHANGED <<running, registry, allocated>>
  PROVE  Quiet
BY DEF Quiet

LEMMA QuietIfStopped ==
  ASSUME TypeOK, KeepsLocks, UNCHANGED <<registry, allocated>>,
         NEW s \in Sessions, NEW at \in {"no", "mutated"},
         running' = [running EXCEPT ![s] = at]
  PROVE  Quiet
BY DEF Quiet, TypeOK

LEMMA QuietInv == ASSUME IInv, TypeOK', Quiet PROVE LockInv'
<1>1. /\ KeepsLocks
      /\ UNCHANGED <<registry, allocated>>
      /\ \A u \in Sessions :
            running'[u] \in {"waiting", "mutating"} => running'[u] = running[u]
  BY DEF Quiet
<1> QED BY <1>1, LocksUntouched DEF KeepsLocks, IInv

LEMMA SelectQuiet ==
  ASSUME TypeOK, NEW s \in Sessions, NEW kind \in Kinds, Select(s, kind)
  PROVE  Quiet
<1>1. KeepsLocks
  BY OtherFields DEF Select
<1>2. UNCHANGED <<running, registry, allocated>>
  BY DEF Select
<1> QED BY <1>1, <1>2, QuietIfIdle

LEMMA ClearQuiet ==
  ASSUME TypeOK, NEW s \in Sessions, ClearSelection(s)
  PROVE  Quiet
<1>1. KeepsLocks
  BY OtherFields DEF ClearSelection
<1>2. UNCHANGED <<running, registry, allocated>>
  BY DEF ClearSelection
<1> QED BY <1>1, <1>2, QuietIfIdle

LEMMA OperationQuiet ==
  ASSUME TypeOK, NEW s \in Sessions, NEW op \in Operations,
         BeginOperation(s, op) \/ EndOperation(s, op)
  PROVE  Quiet
<1>1. ASSUME BeginOperation(s, op) PROVE Quiet
  <2>1. KeepsLocks
    BY <1>1, OtherFields DEF BeginOperation
  <2>2. UNCHANGED <<running, registry, allocated>>
    BY <1>1 DEF BeginOperation
  <2> QED BY <2>1, <2>2, QuietIfIdle
<1>2. ASSUME EndOperation(s, op) PROVE Quiet
  <2>1. KeepsLocks
    BY <1>2, OtherFields DEF EndOperation
  <2>2. UNCHANGED <<running, registry, allocated>>
    BY <1>2 DEF EndOperation
  <2> QED BY <2>1, <2>2, QuietIfIdle
<1> QED BY <1>1, <1>2

LEMMA BeginRefreshQuiet ==
  ASSUME TypeOK, NEW s \in Sessions, BeginRefresh(s)
  PROVE  Quiet
<1>1. KeepsLocks
  BY OtherFields DEF BeginRefresh
<1>2. UNCHANGED <<running, registry, allocated>>
  BY DEF BeginRefresh
<1> QED BY <1>1, <1>2, QuietIfIdle

LEMMA ApplyRefreshQuiet ==
  ASSUME TypeOK, NEW s \in Sessions, NEW t \in tickets, ApplyRefresh(s, t)
  PROVE  Quiet
<1>1. KeepsLocks
  <2>1. CASE IsCurrent(s, t.generation)
    <3>1. session' = [session EXCEPT ![s].status = [at |-> t.at, shown |-> t.answer],
                                     ![s].generation = session[s].generation]
      BY <2>1 DEF ApplyRefresh, Stored
    <3> QED BY <3>1, OtherFields
  <2>2. CASE ~ IsCurrent(s, t.generation)
    BY <2>2, OtherFields DEF ApplyRefresh
  <2> QED BY <2>1, <2>2
<1>2. UNCHANGED <<running, registry, allocated>>
  BY DEF ApplyRefresh
<1> QED BY <1>1, <1>2, QuietIfIdle

LEMMA RefreshQuiet ==
  ASSUME TypeOK, NEW s \in Sessions, NEW readable \in BOOLEAN, Refresh(s, readable)
  PROVE  Quiet
<1>1. KeepsLocks
  <2>1. CASE readable
    <3>1. session' = [session EXCEPT
              ![s].status = [at |-> session[s].repository, shown |-> Physical(s).shown],
              ![s].generation = session[s].generation + 1]
      BY <2>1 DEF Refresh, Refreshed, Stored
    <3> QED BY <3>1, OtherFields
  <2>2. CASE ~ readable
    <3>1. session' = [session EXCEPT ![s].generation = session[s].generation + 1]
      BY <2>2 DEF Refresh, Refreshed
    <3> QED BY <3>1, OtherFields
  <2> QED BY <2>1, <2>2
<1>2. UNCHANGED <<running, registry, allocated>>
  BY DEF Refresh
<1> QED BY <1>1, <1>2, QuietIfIdle

LEMMA MutatedQuiet ==
  ASSUME TypeOK, NEW s \in Sessions, MutationSucceeds(s) \/ MutationFails(s)
  PROVE  Quiet
<1>1. ASSUME MutationSucceeds(s) PROVE Quiet
  <2>1. KeepsLocks
    BY <1>1, OtherFields DEF MutationSucceeds
  <2>2. running' = [running EXCEPT ![s] = "mutated"] /\ UNCHANGED <<registry, allocated>>
    BY <1>1 DEF MutationSucceeds
  <2> QED BY <2>1, <2>2, QuietIfStopped
<1>2. ASSUME MutationFails(s) PROVE Quiet
  <2>1. KeepsLocks
    BY <1>2, OtherFields DEF MutationFails
  <2>2. running' = [running EXCEPT ![s] = "no"] /\ UNCHANGED <<registry, allocated>>
    BY <1>2 DEF MutationFails
  <2> QED BY <2>1, <2>2, QuietIfStopped
<1> QED BY <1>1, <1>2

LEMMA FinishMutationQuiet ==
  ASSUME TypeOK, NEW s \in Sessions, NEW readable \in BOOLEAN, FinishMutation(s, readable)
  PROVE  Quiet
<1>1. KeepsLocks
  BY OtherFields DEF FinishMutation
<1>2. running' = [running EXCEPT ![s] = "no"] /\ UNCHANGED <<registry, allocated>>
  BY DEF FinishMutation
<1> QED BY <1>1, <1>2, QuietIfStopped

LEMMA StepInv == IInv /\ [Next]_vars => IInv'
<1> SUFFICES ASSUME IInv, [Next]_vars PROVE IInv'
  OBVIOUS
<1>1. TypeOK' /\ TypeOK
  BY TypeStep DEF IInv
<1>2. ASSUME UNCHANGED <<session, running, registry, allocated>> PROVE LockInv'
  BY <1>2 DEF IInv, LockInv, Holds, KeyOf
<1>3. ASSUME NEW s \in Sessions, NEW kind \in Kinds, Select(s, kind) PROVE LockInv'
  BY <1>1, <1>3, SelectQuiet, QuietInv
<1>4. ASSUME NEW s \in Sessions, ClearSelection(s) PROVE LockInv'
  BY <1>1, <1>4, ClearQuiet, QuietInv
<1>5. ASSUME NEW s \in Sessions, NEW op \in Operations,
             BeginOperation(s, op) \/ EndOperation(s, op)
      PROVE  LockInv'
  BY <1>1, <1>5, OperationQuiet, QuietInv
<1>6. ASSUME NEW s \in Sessions, BeginRefresh(s) PROVE LockInv'
  BY <1>1, <1>6, BeginRefreshQuiet, QuietInv
<1>7. ASSUME NEW s \in Sessions, NEW t \in tickets, ApplyRefresh(s, t) PROVE LockInv'
  BY <1>1, <1>7, ApplyRefreshQuiet, QuietInv
<1>8. ASSUME NEW s \in Sessions, NEW readable \in BOOLEAN,
             Refresh(s, readable) \/ FinishMutation(s, readable)
      PROVE  LockInv'
  BY <1>1, <1>8, RefreshQuiet, FinishMutationQuiet, QuietInv
<1>9. ASSUME NEW s \in Sessions, MutationSucceeds(s) \/ MutationFails(s) PROVE LockInv'
  BY <1>1, <1>9, MutatedQuiet, QuietInv
<1>10. ASSUME UNCHANGED vars PROVE LockInv'
  <2>1. UNCHANGED <<session, running, registry, allocated>>
    BY <1>10 DEF vars
  <2> QED BY <2>1, <1>2
<1>11. ASSUME NEW k \in Keys, ExternalChange(k) PROVE LockInv'
  BY <1>2, <1>11 DEF ExternalChange
<1>12. ASSUME NEW t \in tickets, AnswerRefresh(t) \/ RefreshFails(t) PROVE LockInv'
  BY <1>2, <1>12 DEF AnswerRefresh, RefreshFails
<1>13. ASSUME \/ \E s \in Sessions : BeginQuery(s)
              \/ \E q \in queries :
                    ReadQuery(q) \/ QueryFails(q) \/ CheckTicket(q) \/ InsertPage(q)
       PROVE  LockInv'
  BY <1>2, <1>13 DEF BeginQuery, ReadQuery, QueryFails, CheckTicket, InsertPage
<1>14. ASSUME NEW s \in Sessions, ResolveLock(s) PROVE LockInv'
  BY <1>1, <1>14, ResolveLockInv
<1>15. ASSUME NEW s \in Sessions, Acquire(s) PROVE LockInv'
  BY <1>15, AcquireInv
<1>16. ASSUME NEW s \in Sessions, NEW r \in Repositories, SwitchRepository(s, r) PROVE LockInv'
  BY <1>16, SwitchInv
<1>17. LockInv'
  <2> HIDE DEF IInv, LockInv
  <2> QED
    BY <1>3, <1>4, <1>5, <1>6, <1>7, <1>8, <1>9, <1>10, <1>11, <1>12, <1>13, <1>14, <1>15,
       <1>16 DEF Next
<1> QED BY <1>1, <1>17 DEF IInv

THEOREM Invariance == Spec => []IInv
<1>1. Init => IInv
  BY InitInv
<1>2. IInv /\ [Next]_vars => IInv'
  BY StepInv
<1> QED BY <1>1, <1>2, PTL DEF Spec

\* Every reachable state is well typed, and no ticket is of a generation its
\* session has yet to reach.
THEOREM TypeCorrect == Spec => []TypeOK
<1>1. IInv => TypeOK
  BY DEF IInv
<1> QED BY <1>1, Invariance, PTL

LEMMA SerializedByLocks == IInv => MutationsSerialized
<1> SUFFICES ASSUME IInv, NEW s \in Sessions, NEW other \in Sessions,
                    running[s] = "mutating", running[other] = "mutating",
                    KeyOf(s) = KeyOf(other)
             PROVE  s = other
  BY DEF MutationsSerialized
<1>1. session[s].lock = registry[KeyOf(s)] /\ session[other].lock = registry[KeyOf(s)]
  BY DEF IInv, LockInv
<1> QED BY <1>1 DEF IInv, LockInv, Holds

LEMMA SerializedByLocksPrimed == IInv' => MutationsSerialized'
<1> SUFFICES ASSUME IInv', NEW s \in Sessions, NEW other \in Sessions,
                    running'[s] = "mutating", running'[other] = "mutating",
                    KeyOf(s)' = KeyOf(other)'
             PROVE  s = other
  BY DEF MutationsSerialized
<1>1. session'[s].lock = registry'[KeyOf(s)'] /\ session'[other].lock = registry'[KeyOf(s)']
  BY DEF IInv, LockInv
<1> QED BY <1>1 DEF IInv, LockInv, Holds

\* run_mutation serializes the mutations of a physical repository, for any
\* number of sessions and worktrees and through any sequence of switches.
THEOREM Serialization == Spec => []MutationsSerialized
<1> QED BY SerializedByLocks, Invariance, PTL

-----------------------------------------------------------------------------
(***************************************************************************)
(* The sessions implement MutationLocks.  Since mutations are serialized,  *)
(* at most one session mutates a key, and the CHOOSE of Mutator picks it;  *)
(* only acquiring and releasing the lock changes who that is.              *)
(***************************************************************************)
LEMMA MutatorIs ==
  ASSUME MutationsSerialized, NEW k \in Keys
  PROVE  /\ \A s \in Sessions : Mutating(s, k) => Mutator(k) = s
         /\ (\A s \in Sessions : ~ Mutating(s, k)) => Mutator(k) = Nobody
<1>1. \A s, other \in Sessions : Mutating(s, k) /\ Mutating(other, k) => s = other
  BY DEF MutationsSerialized, Mutating
<1> QED BY <1>1 DEF Mutator

LEMMA MutatorIsPrimed ==
  ASSUME MutationsSerialized', NEW k \in Keys
  PROVE  /\ \A s \in Sessions : Mutating(s, k)' => Mutator(k)' = s
         /\ (\A s \in Sessions : ~ Mutating(s, k)') => Mutator(k)' = Nobody
<1>1. \A s, other \in Sessions : Mutating(s, k)' /\ Mutating(other, k)' => s = other
  BY DEF MutationsSerialized, Mutating
<1> QED BY <1>1 DEF Mutator

SameMutators ==
    \A s \in Sessions : /\ running'[s] = "mutating" <=> running[s] = "mutating"
                        /\ running[s] = "mutating" =>
                              session'[s].repository = session[s].repository

LEMMA MutatorStutters ==
  ASSUME MutationsSerialized, MutationsSerialized', SameMutators
  PROVE  \A k \in Keys : Mutator(k)' = Mutator(k)
<1> SUFFICES ASSUME NEW k \in Keys PROVE Mutator(k)' = Mutator(k)
  OBVIOUS
<1>1. \A s \in Sessions : Mutating(s, k)' <=> Mutating(s, k)
  BY DEF SameMutators, Mutating, KeyOf
<1> QED BY <1>1, MutatorIs, MutatorIsPrimed

LEMMA AcquireBegins ==
  ASSUME IInv, IInv', NEW s \in Sessions, Acquire(s)
  PROVE  Promised!Begin(s, KeyOf(s))
<1>1. MutationsSerialized /\ MutationsSerialized'
  BY SerializedByLocks, SerializedByLocksPrimed
<1>2. KeyOf(s) \in Keys
  BY DEF IInv, TypeOK, SessionState, KeyOf
<1>3. /\ running[s] = "waiting"
      /\ \A u \in Sessions : running'[u] = IF u = s THEN "mutating" ELSE running[u]
      /\ session' = session
  BY DEF Acquire, IInv, TypeOK
<1>4. \A u \in Sessions : ~ Mutating(u, KeyOf(s))
  <2> SUFFICES ASSUME NEW u \in Sessions, Mutating(u, KeyOf(s)) PROVE FALSE
    OBVIOUS
  <2>1. session[u].lock = session[s].lock
    BY <1>3 DEF IInv, LockInv, Mutating
  <2> QED BY <2>1 DEF Acquire, Holds, Mutating
<1>5. Mutator(KeyOf(s)) = Nobody
  BY <1>1, <1>2, <1>4, MutatorIs
<1>6. \A other \in Keys : Mutator(other) # s
  <2> SUFFICES ASSUME NEW other \in Keys PROVE Mutator(other) # s
    OBVIOUS
  <2>1. ~ Mutating(s, other)
    BY <1>3 DEF Mutating
  <2> QED BY <2>1, <1>1, MutatorIs, NobodyIsNoSession
<1>7. \A k \in Keys, u \in Sessions :
         Mutating(u, k)' <=> Mutating(u, k) \/ (u = s /\ k = KeyOf(s))
  BY <1>3 DEF Mutating, KeyOf
<1>8. \A k \in Keys : Mutator(k)' = IF k = KeyOf(s) THEN s ELSE Mutator(k)
  BY <1>1, <1>2, <1>7, MutatorIs, MutatorIsPrimed
<1> QED BY <1>2, <1>5, <1>6, <1>8 DEF Promised!Begin

LEMMA ReleaseEnds ==
  ASSUME IInv, IInv', NEW s \in Sessions, MutationSucceeds(s) \/ MutationFails(s)
  PROVE  Promised!End(s, KeyOf(s))
<1>1. MutationsSerialized /\ MutationsSerialized'
  BY SerializedByLocks, SerializedByLocksPrimed
<1>2. KeyOf(s) \in Keys
  BY DEF IInv, TypeOK, SessionState, KeyOf
<1>3. /\ running[s] = "mutating"
      /\ \A u \in Sessions : u # s => running'[u] = running[u]
      /\ running'[s] # "mutating"
      /\ session' = session
  BY DEF MutationSucceeds, MutationFails, IInv, TypeOK
<1>4. Mutator(KeyOf(s)) = s
  BY <1>1, <1>2, <1>3, MutatorIs DEF Mutating
<1>5. \A k \in Keys, u \in Sessions : Mutating(u, k)' <=> Mutating(u, k) /\ u # s
  BY <1>3 DEF Mutating, KeyOf
<1>6. \A k \in Keys : Mutating(s, k) => k = KeyOf(s)
  BY DEF Mutating
<1>7. \A k \in Keys : Mutator(k)' = IF k = KeyOf(s) THEN Nobody ELSE Mutator(k)
  <2> SUFFICES ASSUME NEW k \in Keys
               PROVE  Mutator(k)' = IF k = KeyOf(s) THEN Nobody ELSE Mutator(k)
    OBVIOUS
  <2>1. CASE k = KeyOf(s)
    <3>1. \A u \in Sessions : Mutating(u, k) => u = s
      BY <1>1, <1>4, <2>1, MutatorIs
    <3>2. \A u \in Sessions : ~ Mutating(u, k)'
      BY <3>1, <1>5
    <3> QED BY <3>2, <1>1, <2>1, MutatorIsPrimed
  <2>2. CASE k # KeyOf(s)
    <3>1. \A u \in Sessions : Mutating(u, k)' <=> Mutating(u, k)
      BY <1>5, <1>6, <2>2
    <3> QED BY <3>1, <1>1, <2>2, MutatorIs, MutatorIsPrimed
  <2> QED BY <2>1, <2>2
<1> QED BY <1>2, <1>4, <1>7 DEF Promised!End

\* Steps that neither acquire nor release a lock.
LEMMA OtherStepsStutter ==
  ASSUME IInv, [Next]_vars
  PROVE  \/ SameMutators
         \/ \E s \in Sessions : Acquire(s) \/ MutationSucceeds(s) \/ MutationFails(s)
<1>1. TypeOK
  BY DEF IInv
<1>2. ASSUME KeepsLocks, running' = running PROVE SameMutators
  BY <1>2 DEF KeepsLocks, SameMutators
<1>3. ASSUME UNCHANGED <<session, running>> PROVE SameMutators
  BY <1>3 DEF SameMutators
<1>4. ASSUME NEW s \in Sessions, NEW kind \in Kinds, Select(s, kind) PROVE SameMutators
  <2>1. Quiet
    BY <1>1, <1>4, SelectQuiet
  <2> QED BY <2>1, <1>2, <1>4 DEF Quiet, Select
<1>5. ASSUME NEW s \in Sessions, ClearSelection(s) PROVE SameMutators
  <2>1. Quiet
    BY <1>1, <1>5, ClearQuiet
  <2> QED BY <2>1, <1>2, <1>5 DEF Quiet, ClearSelection
<1>6. ASSUME NEW s \in Sessions, NEW op \in Operations,
             BeginOperation(s, op) \/ EndOperation(s, op)
      PROVE  SameMutators
  <2>1. Quiet
    BY <1>1, <1>6, OperationQuiet
  <2>2. running' = running
    BY <1>6 DEF BeginOperation, EndOperation
  <2> QED BY <2>1, <2>2, <1>2 DEF Quiet
<1>7. ASSUME NEW s \in Sessions, BeginRefresh(s) PROVE SameMutators
  <2>1. Quiet
    BY <1>1, <1>7, BeginRefreshQuiet
  <2> QED BY <2>1, <1>2, <1>7 DEF Quiet, BeginRefresh
<1>8. ASSUME NEW s \in Sessions, NEW t \in tickets, ApplyRefresh(s, t) PROVE SameMutators
  <2>1. Quiet
    BY <1>1, <1>8, ApplyRefreshQuiet
  <2>2. running' = running
    BY <1>8 DEF ApplyRefresh
  <2> QED BY <2>1, <2>2, <1>2 DEF Quiet
<1>9. ASSUME NEW s \in Sessions, NEW readable \in BOOLEAN, Refresh(s, readable)
      PROVE  SameMutators
  <2>1. Quiet
    BY <1>1, <1>9, RefreshQuiet
  <2> QED BY <2>1, <1>2, <1>9 DEF Quiet, Refresh
<1>10. ASSUME NEW s \in Sessions, NEW readable \in BOOLEAN, FinishMutation(s, readable)
       PROVE  SameMutators
  <2>1. KeepsLocks
    BY <1>1, <1>10, FinishMutationQuiet DEF Quiet
  <2>2. running[s] = "mutated" /\ running' = [running EXCEPT ![s] = "no"]
    BY <1>10 DEF FinishMutation
  <2> QED BY <2>1, <2>2, <1>1 DEF KeepsLocks, SameMutators, TypeOK
<1>11. CASE UNCHANGED vars
  BY <1>3, <1>11 DEF vars
<1>12. ASSUME NEW k \in Keys, ExternalChange(k) PROVE SameMutators
  BY <1>3, <1>12 DEF ExternalChange
<1>13. ASSUME NEW t \in tickets, AnswerRefresh(t) \/ RefreshFails(t) PROVE SameMutators
  BY <1>3, <1>13 DEF AnswerRefresh, RefreshFails
<1>14. ASSUME \/ \E s \in Sessions : BeginQuery(s)
              \/ \E q \in queries :
                    ReadQuery(q) \/ QueryFails(q) \/ CheckTicket(q) \/ InsertPage(q)
       PROVE  SameMutators
  BY <1>3, <1>14 DEF BeginQuery, ReadQuery, QueryFails, CheckTicket, InsertPage
<1>15. ASSUME NEW s \in Sessions, ResolveLock(s) PROVE SameMutators
  <2>1. /\ running[s] = "no" /\ running' = [running EXCEPT ![s] = "waiting"]
        /\ \/ session' = session
           \/ session' = [session EXCEPT ![s].lock = registry'[KeyOf(s)]]
    BY <1>15 DEF ResolveLock, Free
  <2>2. \A u \in Sessions : session'[u].repository = session[u].repository
    BY <2>1, <1>1 DEF TypeOK, SessionState
  <2> QED BY <2>1, <2>2, <1>1 DEF SameMutators, TypeOK
<1>16. ASSUME NEW s \in Sessions, NEW r \in Repositories, SwitchRepository(s, r)
       PROVE  SameMutators
  <2>1. running[s] = "no" /\ running' = running
    BY <1>16 DEF SwitchRepository, Free
  <2>2. \A u \in Sessions : u # s => session'[u] = session[u]
    BY <1>16, <1>1 DEF SwitchRepository, TypeOK
  <2> QED BY <2>1, <2>2 DEF SameMutators
<1> HIDE DEF SameMutators
<1> QED
  BY <1>4, <1>5, <1>6, <1>7, <1>8, <1>9, <1>10, <1>11, <1>12, <1>13, <1>14, <1>15, <1>16
     DEF Next

LEMMA StepSimulates ==
  ASSUME IInv, IInv', [Next]_vars
  PROVE  [Promised!Next]_([k \in Keys |-> Mutator(k)])
<1>1. MutationsSerialized /\ MutationsSerialized'
  BY SerializedByLocks, SerializedByLocksPrimed
<1>2. ASSUME NEW s \in Sessions, Acquire(s) PROVE Promised!Next
  <2>1. KeyOf(s) \in Keys
    BY DEF IInv, TypeOK, SessionState, KeyOf
  <2> QED BY <2>1, <1>2, AcquireBegins DEF Promised!Next
<1>3. ASSUME NEW s \in Sessions, MutationSucceeds(s) \/ MutationFails(s)
      PROVE  Promised!Next
  <2>1. KeyOf(s) \in Keys
    BY DEF IInv, TypeOK, SessionState, KeyOf
  <2> QED BY <2>1, <1>3, ReleaseEnds DEF Promised!Next
<1>4. ASSUME SameMutators PROVE UNCHANGED [k \in Keys |-> Mutator(k)]
  BY <1>1, <1>4, MutatorStutters
<1> QED BY <1>2, <1>3, <1>4, OtherStepsStutter

\* The sessions implement the promise of concurrency.rs: seen through who
\* mutates which physical repository, every step of theirs is a Begin, an End
\* or a stutter of MutationLocks.
THEOREM Refinement == Spec => SerializesMutations
<1>1. Init => Promised!Init
  <2> SUFFICES ASSUME Init PROVE Promised!Init
    OBVIOUS
  <2>1. \A k \in Keys, s \in Sessions : ~ Mutating(s, k)
    BY DEF Init, Mutating
  <2>2. MutationsSerialized
    BY DEF Init, MutationsSerialized
  <2>3. \A k \in Keys : Mutator(k) = Nobody
    BY <2>1, <2>2, MutatorIs
  <2> QED BY <2>3 DEF Promised!Init
<1>2. IInv /\ IInv' /\ [Next]_vars => [Promised!Next]_([k \in Keys |-> Mutator(k)])
  BY StepSimulates
<1> QED BY <1>1, <1>2, Invariance, PTL DEF Spec, SerializesMutations, Promised!Spec

-----------------------------------------------------------------------------
(***************************************************************************)
(* Freshness: why late answers and statuses never mix up.  What is         *)
(* invariant, per session: its current ticket is unique and of the         *)
(* repository it has open; an answer is of the past, and if it is still    *)
(* current not older than the status it would replace; and what the        *)
(* session knows is of the past of its own repository.                     *)
(***************************************************************************)
TicketFits(s) ==
    \A t \in tickets : t.of = s /\ t.generation = session[s].generation =>
        /\ t.at = session[s].repository
        /\ \A other \in tickets :
              other.of = s /\ other.generation = session[s].generation => other = t

AnswersAreTimely(s) ==
    \A t \in tickets : t.of = s /\ t.answer # NotYet =>
        /\ t.answer <= physical[LockKey[t.at]].shown
        /\ t.generation = session[s].generation /\ session[s].status # Unknown =>
              session[s].status.shown <= t.answer

StatusIsPast(s) ==
    session[s].status # Unknown =>
        /\ session[s].status.at = session[s].repository
        /\ session[s].status.shown <= Physical(s).shown

Fresh(s) ==
    /\ TicketFits(s)
    /\ AnswersAreTimely(s)
    /\ StatusIsPast(s)
    /\ ownChange[s] <= Physical(s).refs

FreshInv == \A s \in Sessions : Fresh(s)

PhysicalGrows ==
    \A k \in Keys : /\ physical'[k].shown >= physical[k].shown
                    /\ physical'[k].refs >= physical[k].refs

LEMMA GrowsIfChanged ==
  ASSUME TypeOK, UNCHANGED physical \/ \E k \in Keys : Changed(k)
  PROVE  PhysicalGrows
<1>1. \A other \in Keys : physical[other].shown \in Nat /\ physical[other].refs \in Nat
  BY DEF TypeOK, Snapshots
<1>2. CASE UNCHANGED physical
  BY <1>1, <1>2 DEF PhysicalGrows
<1>3. ASSUME NEW k \in Keys, Changed(k) PROVE PhysicalGrows
  <2>1. PICK shown \in {physical[k].shown, physical[k].shown + 1} :
           physical' = [physical EXCEPT ![k] = [shown |-> shown, refs |-> physical[k].refs + 1]]
    BY <1>3 DEF Changed
  <2> QED BY <1>1, <2>1 DEF PhysicalGrows, TypeOK
<1> QED BY <1>2, <1>3

\* What the type invariant says of one session, and of one ticket.
LEMMA SessionFields ==
  ASSUME TypeOK, NEW s \in Sessions
  PROVE  /\ session[s] \in SessionState
         /\ session[s].repository \in Repositories
         /\ session[s].repository # "none"
         /\ session[s].generation \in Nat
         /\ session[s].status # Unknown => session[s].status.shown \in Nat
         /\ KeyOf(s) \in Keys
         /\ Physical(s) \in Snapshots
         /\ Physical(s).shown \in Nat /\ Physical(s).refs \in Nat
         /\ ownChange[s] \in Nat
<1>1. session[s] \in SessionState
  BY DEF TypeOK
<1>2. KeyOf(s) \in Keys
  BY <1>1 DEF KeyOf, SessionState
<1>3. physical[KeyOf(s)] \in Snapshots
  BY <1>2 DEF TypeOK
<1>4. ownChange[s] \in Nat
  BY DEF TypeOK
<1> QED BY <1>1, <1>2, <1>3, <1>4, NoneIsNoRepository
        DEF SessionState, Statuses, Snapshots, Physical

LEMMA TicketFields ==
  ASSUME TypeOK, NEW t \in tickets
  PROVE  /\ t \in Tickets
         /\ t.of \in Sessions /\ t.at \in Repositories
         /\ t.generation \in Nat
         /\ t.answer # NotYet => t.answer \in Nat
         /\ t.generation <= session[t.of].generation
         /\ LockKey[t.at] \in Keys
         /\ physical[LockKey[t.at]].shown \in 0..MaxRefs
<1>1. t \in Tickets
  BY DEF TypeOK
<1>2. LockKey[t.at] \in Keys
  BY <1>1 DEF Tickets
<1>3. physical[LockKey[t.at]] \in Snapshots
  BY <1>2 DEF TypeOK
<1> QED BY <1>1, <1>2, <1>3 DEF Tickets, Snapshots, NotYet, TypeOK

\* What a step leaves alone when it is not about session u.
Untouched(u) ==
    /\ session'[u].repository = session[u].repository
    /\ session'[u].status = session[u].status
    /\ session'[u].generation = session[u].generation
    /\ ownChange'[u] = ownChange[u]
    /\ \A t \in tickets' : t.of = u => t \in tickets

LEMMA UntouchedFresh ==
  ASSUME TypeOK, TypeOK', PhysicalGrows, NEW u \in Sessions, Untouched(u), Fresh(u)
  PROVE  Fresh(u)'
<1>1. KeyOf(u)' = KeyOf(u) /\ KeyOf(u) \in Keys
  BY SessionFields DEF Untouched, KeyOf
<1>2. /\ Physical(u)'.shown \in Nat /\ Physical(u)'.refs \in Nat
      /\ Physical(u)'.shown >= Physical(u).shown
      /\ Physical(u)'.refs >= Physical(u).refs
  BY <1>1 DEF PhysicalGrows, Physical, TypeOK, Snapshots
<1>3. TicketFits(u)'
  BY DEF TicketFits, Fresh, Untouched
<1>4. AnswersAreTimely(u)'
  <2> SUFFICES ASSUME NEW t \in tickets', t.of = u, t.answer # NotYet
               PROVE  /\ t.answer <= physical'[LockKey[t.at]].shown
                      /\ t.generation = session[u].generation /\ session[u].status # Unknown =>
                               session[u].status.shown <= t.answer
    BY DEF AnswersAreTimely, NotYet, Unknown, Untouched
  <2>1. t \in tickets
    BY DEF Untouched
  <2>2. physical'[LockKey[t.at]].shown \in Nat
    BY <2>1, TicketFields DEF TypeOK, Snapshots
  <2> QED BY <2>1, <2>2, TicketFields DEF Fresh, AnswersAreTimely, PhysicalGrows
<1>5. StatusIsPast(u)'
  BY <1>2, SessionFields DEF Fresh, StatusIsPast, Untouched, Unknown
<1>6. ownChange'[u] <= Physical(u)'.refs
  BY <1>2, SessionFields DEF Fresh, Untouched
<1> QED BY <1>3, <1>4, <1>5, <1>6 DEF Fresh

\* A step that stores what session s sees now, or nothing: at the next
\* generation no ticket in flight is current.
LEMMA NextGenerationFresh ==
  ASSUME TypeOK, TypeOK', UNCHANGED <<physical, tickets>>, NEW s \in Sessions, FreshInv,
         session'[s].generation = session[s].generation + 1,
         session'[s].status # Unknown =>
            /\ session'[s].status.at = session'[s].repository
            /\ session'[s].status.shown <= Physical(s)'.shown,
         ownChange'[s] <= Physical(s)'.refs
  PROVE  Fresh(s)'
<1>1. \A t \in tickets : t.of = s => t.generation # session'[s].generation
  BY TicketFields, SessionFields
<1>2. TicketFits(s)'
  BY <1>1 DEF TicketFits
<1>3. AnswersAreTimely(s)'
  BY <1>1 DEF FreshInv, Fresh, AnswersAreTimely, NotYet, Unknown
<1>4. StatusIsPast(s)'
  BY DEF StatusIsPast, Unknown
<1> QED BY <1>2, <1>3, <1>4 DEF Fresh

\* A step of session s does not touch another session.
LEMMA OthersUntouched ==
  ASSUME TypeOK, NEW s \in Sessions, NEW u \in Sessions, u # s,
         session'[u] = session[u], ownChange'[u] = ownChange[u],
         \A t \in tickets' : t \in tickets \/ t.of = s
  PROVE  Untouched(u)
BY DEF Untouched

LEMMA FreshStep == TypeOK /\ TypeOK' /\ FreshInv /\ [Next]_vars => FreshInv'
<1> SUFFICES ASSUME TypeOK, TypeOK', FreshInv, [Next]_vars PROVE FreshInv'
  OBVIOUS
\* Steps that touch no session.
<1>1. ASSUME PhysicalGrows, \A u \in Sessions : Untouched(u) PROVE FreshInv'
  BY <1>1, UntouchedFresh DEF FreshInv
<1>2. ASSUME NEW k \in Keys, ExternalChange(k) PROVE FreshInv'
  BY <1>1, <1>2, GrowsIfChanged DEF ExternalChange, Untouched
<1>3. ASSUME NEW t \in tickets, RefreshFails(t) PROVE FreshInv'
  BY <1>1, <1>3, GrowsIfChanged DEF RefreshFails, Untouched
<1>4. ASSUME NEW s \in Sessions, MutationFails(s) \/ Acquire(s) PROVE FreshInv'
  <2>1. PhysicalGrows
    BY <1>4, GrowsIfChanged, SessionFields DEF MutationFails, Acquire
  <2>2. \A u \in Sessions : Untouched(u)
    BY <1>4 DEF MutationFails, Acquire, Untouched, TypeOK
  <2> QED BY <1>1, <2>1, <2>2
<1>5. ASSUME NEW s \in Sessions,
             \/ \E kind \in Kinds : Select(s, kind)
             \/ ClearSelection(s)
             \/ \E op \in Operations : BeginOperation(s, op) \/ EndOperation(s, op)
      PROVE  FreshInv'
  <2>1. UNCHANGED <<physical, tickets, ownChange>>
    BY <1>5 DEF Select, ClearSelection, BeginOperation, EndOperation
  <2>2. \A u \in Sessions : /\ session'[u].repository = session[u].repository
                            /\ session'[u].status = session[u].status
                            /\ session'[u].generation = session[u].generation
    BY <1>5, SessionFields
       DEF Select, ClearSelection, BeginOperation, EndOperation, TypeOK, SessionState
  <2> QED BY <1>1, <2>1, <2>2, GrowsIfChanged DEF Untouched
<1>6. ASSUME NEW s \in Sessions, ResolveLock(s) PROVE FreshInv'
  <2>1. UNCHANGED <<physical, tickets, ownChange>>
    BY <1>6 DEF ResolveLock
  <2>2. session' = session \/ session' = [session EXCEPT ![s].lock = registry'[KeyOf(s)]]
    BY <1>6 DEF ResolveLock
  <2>3. \A u \in Sessions : /\ session'[u].repository = session[u].repository
                            /\ session'[u].status = session[u].status
                            /\ session'[u].generation = session[u].generation
    BY <2>2, SessionFields DEF TypeOK, SessionState
  <2> QED BY <1>1, <2>1, <2>3, GrowsIfChanged DEF Untouched
\* Steps of one session.
<1>7. ASSUME NEW s \in Sessions, PhysicalGrows, Fresh(s)',
             \A u \in Sessions : u # s =>
                session'[u] = session[u] /\ ownChange'[u] = ownChange[u],
             \A t \in tickets' : t \in tickets \/ t.of = s
      PROVE  FreshInv'
  <2>1. \A u \in Sessions : u # s => Untouched(u)
    BY <1>7, OthersUntouched
  <2> QED BY <1>7, <2>1, UntouchedFresh DEF FreshInv
<1>8. ASSUME NEW t \in tickets, AnswerRefresh(t) PROVE FreshInv'
  <2> DEFINE now == physical[LockKey[t.at]].shown
             answered == [t EXCEPT !.answer = now]
  <2>1. t \in Tickets /\ t.of \in Sessions /\ now \in Nat
    BY TicketFields
  <2>2. /\ t.answer = NotYet
        /\ tickets' = (tickets \ {t}) \cup {answered}
        /\ UNCHANGED <<physical, session, ownChange>>
    BY <1>8 DEF AnswerRefresh
  <2>3. /\ answered.of = t.of /\ answered.at = t.at
        /\ answered.generation = t.generation /\ answered.answer = now
    BY <2>1 DEF Tickets
  <2> HIDE DEF answered
  <2>4. Fresh(t.of)'
    <3>1. Fresh(t.of) /\ KeyOf(t.of)' = KeyOf(t.of) /\ Physical(t.of)' = Physical(t.of)
      BY <2>1, <2>2 DEF FreshInv, KeyOf, Physical
    <3>2. TicketFits(t.of)'
      BY <2>2, <2>3, <3>1 DEF Fresh, TicketFits
    <3>3. AnswersAreTimely(t.of)'
      <4> SUFFICES ASSUME NEW u \in tickets', u.of = t.of, u.answer # NotYet
                   PROVE  /\ u.answer <= physical[LockKey[u.at]].shown
                          /\ u.generation = session[t.of].generation
                                /\ session[t.of].status # Unknown =>
                                   session[t.of].status.shown <= u.answer
        BY <2>2 DEF AnswersAreTimely, NotYet, Unknown
      <4>1. CASE u \in tickets
        BY <3>1, <4>1 DEF Fresh, AnswersAreTimely
      <4>2. CASE u = answered
        <5>1. CASE t.generation = session[t.of].generation /\ session[t.of].status # Unknown
          BY <2>1, <2>3, <3>1, <4>2, <5>1
             DEF Fresh, TicketFits, StatusIsPast, Physical, KeyOf
        <5> QED BY <2>1, <2>3, <4>2, <5>1
      <4> QED BY <2>2, <4>1, <4>2
    <3> QED BY <2>2, <3>1, <3>2, <3>3
            DEF Fresh, StatusIsPast, Unknown
  <2>5. PhysicalGrows
    BY <2>2, GrowsIfChanged
  <2> QED BY <1>7, <2>1, <2>2, <2>3, <2>4, <2>5
<1>9. ASSUME \/ \E s \in Sessions : BeginQuery(s)
             \/ \E q \in queries :
                   ReadQuery(q) \/ QueryFails(q) \/ CheckTicket(q) \/ InsertPage(q)
      PROVE  FreshInv'
  <2>1. UNCHANGED <<physical, session, tickets, ownChange>>
    BY <1>9 DEF BeginQuery, ReadQuery, QueryFails, CheckTicket, InsertPage
  <2> QED BY <1>1, <2>1, GrowsIfChanged DEF Untouched
<1>10. ASSUME NEW s \in Sessions, BeginRefresh(s) PROVE FreshInv'
  <2> DEFINE ticket == [of |-> s, generation |-> session[s].generation + 1,
                        at |-> session[s].repository, answer |-> NotYet]
  <2>1. /\ UNCHANGED <<physical, ownChange>>
        /\ session' = [session EXCEPT ![s].generation = @ + 1]
        /\ tickets' = tickets \cup {ticket}
    BY <1>10 DEF BeginRefresh
  <2>2. /\ session'[s].repository = session[s].repository
        /\ session'[s].status = session[s].status
        /\ session'[s].generation = session[s].generation + 1
        /\ \A u \in Sessions : u # s => session'[u] = session[u]
    BY <2>1, SessionFields DEF TypeOK, SessionState
  <2>3. \A t \in tickets : t.of = s => t.generation # session'[s].generation
    BY <2>2, TicketFields, SessionFields
  <2>4. /\ ticket.of = s /\ ticket.at = session[s].repository
        /\ ticket.generation = session'[s].generation /\ ticket.answer = NotYet
    BY <2>2
  <2> HIDE DEF ticket
  <2>5. Fresh(s) /\ KeyOf(s)' = KeyOf(s) /\ Physical(s)' = Physical(s)
    BY <2>1, <2>2 DEF FreshInv, KeyOf, Physical
  <2>6. TicketFits(s)'
    BY <2>1, <2>2, <2>3, <2>4 DEF TicketFits
  <2>7. AnswersAreTimely(s)'
    BY <2>1, <2>3, <2>4, <2>5 DEF Fresh, AnswersAreTimely, NotYet, Unknown
  <2>8. StatusIsPast(s)' /\ ownChange'[s] <= Physical(s)'.refs
    BY <2>1, <2>2, <2>5 DEF Fresh, StatusIsPast, Unknown
  <2>9. PhysicalGrows
    BY <2>1, GrowsIfChanged
  <2> QED BY <1>7, <2>1, <2>2, <2>4, <2>6, <2>7, <2>8, <2>9 DEF Fresh
<1>11. ASSUME NEW s \in Sessions, NEW t \in tickets, ApplyRefresh(s, t) PROVE FreshInv'
  <2>1. /\ UNCHANGED <<physical, ownChange>>
        /\ tickets' = tickets \ {t} /\ t.of = s /\ t.answer # NotYet
    BY <1>11 DEF ApplyRefresh
  <2>2. PhysicalGrows
    BY <2>1, GrowsIfChanged
  <2>3. CASE t.generation # session[s].generation
    <3>1. UNCHANGED session
      BY <1>11, <2>3 DEF ApplyRefresh, IsCurrent
    <3> QED BY <1>1, <2>1, <2>2, <3>1 DEF Untouched
  <2>4. CASE t.generation = session[s].generation
    <3> DEFINE status == [at |-> t.at, shown |-> t.answer]
    <3>1. session' = [session EXCEPT ![s].status = status,
                                     ![s].generation = session[s].generation]
      BY <1>11, <2>4 DEF ApplyRefresh, IsCurrent, Stored
    <3>2. /\ session'[s].repository = session[s].repository
          /\ session'[s].status = status
          /\ session'[s].generation = session[s].generation
          /\ \A u \in Sessions : u # s => session'[u] = session[u]
      BY <3>1, SessionFields DEF TypeOK, SessionState
    <3>3. Fresh(s) /\ KeyOf(s)' = KeyOf(s) /\ Physical(s)' = Physical(s)
      BY <2>1, <3>2 DEF FreshInv, KeyOf, Physical
    <3>4. /\ t.at = session[s].repository
          /\ t.answer <= Physical(s).shown
          /\ \A u \in tickets' : u.of = s => u.generation # session[s].generation
      BY <2>1, <2>4, <3>3 DEF Fresh, TicketFits, AnswersAreTimely, Physical, KeyOf
    <3>5. TicketFits(s)'
      BY <3>2, <3>4 DEF TicketFits
    <3>6. AnswersAreTimely(s)'
      BY <2>1, <3>2, <3>3, <3>4 DEF Fresh, AnswersAreTimely, NotYet, Unknown
    <3>7. StatusIsPast(s)' /\ ownChange'[s] <= Physical(s)'.refs
      BY <2>1, <3>2, <3>3, <3>4 DEF Fresh, StatusIsPast
    <3> QED BY <1>7, <2>1, <2>2, <3>2, <3>5, <3>6, <3>7 DEF Fresh
  <2> QED BY <2>3, <2>4
<1>12. ASSUME NEW s \in Sessions, NEW readable \in BOOLEAN, Refresh(s, readable)
       PROVE  FreshInv'
  <2> DEFINE now == [at |-> session[s].repository, shown |-> Physical(s).shown]
  <2>1. UNCHANGED <<physical, tickets, ownChange>>
    BY <1>12 DEF Refresh
  <2>2. /\ session'[s].repository = session[s].repository
        /\ session'[s].status = IF readable THEN now ELSE session[s].status
        /\ session'[s].generation = session[s].generation + 1
        /\ \A u \in Sessions : u # s => session'[u] = session[u]
    BY <1>12, SessionFields DEF Refresh, Refreshed, Stored, TypeOK, SessionState
  <2>3. Fresh(s) /\ KeyOf(s)' = KeyOf(s) /\ Physical(s)' = Physical(s)
    BY <2>1, <2>2 DEF FreshInv, KeyOf, Physical
  <2>4. /\ session'[s].status.at = session'[s].repository \/ session'[s].status = Unknown
        /\ session'[s].status = Unknown \/ session'[s].status.shown <= Physical(s)'.shown
        /\ ownChange'[s] <= Physical(s)'.refs
    BY <2>1, <2>2, <2>3, SessionFields DEF Fresh, StatusIsPast
  <2>5. Fresh(s)'
    BY <2>1, <2>2, <2>4, NextGenerationFresh
  <2>6. PhysicalGrows
    BY <2>1, GrowsIfChanged
  <2> QED BY <1>7, <2>1, <2>2, <2>5, <2>6
<1>13. ASSUME NEW s \in Sessions, NEW readable \in BOOLEAN, FinishMutation(s, readable)
       PROVE  FreshInv'
  <2> DEFINE now == [at |-> session[s].repository, shown |-> Physical(s).shown]
  <2>1. UNCHANGED <<physical, tickets, ownChange>>
    BY <1>13 DEF FinishMutation
  <2>2. /\ session'[s].repository = session[s].repository
        /\ session'[s].status = IF readable THEN now ELSE session[s].status
        /\ session'[s].generation = session[s].generation + 1
        /\ \A u \in Sessions : u # s => session'[u] = session[u]
    BY <1>13, SessionFields DEF FinishMutation, TypeOK, SessionState
  <2>3. Fresh(s) /\ KeyOf(s)' = KeyOf(s) /\ Physical(s)' = Physical(s)
    BY <2>1, <2>2 DEF FreshInv, KeyOf, Physical
  <2>4. /\ session'[s].status.at = session'[s].repository \/ session'[s].status = Unknown
        /\ session'[s].status = Unknown \/ session'[s].status.shown <= Physical(s)'.shown
        /\ ownChange'[s] <= Physical(s)'.refs
    BY <2>1, <2>2, <2>3, SessionFields DEF Fresh, StatusIsPast
  <2>5. Fresh(s)'
    BY <2>1, <2>2, <2>4, NextGenerationFresh
  <2>6. PhysicalGrows
    BY <2>1, GrowsIfChanged
  <2> QED BY <1>7, <2>1, <2>2, <2>5, <2>6
<1>14. ASSUME NEW s \in Sessions, NEW r \in Repositories, SwitchRepository(s, r)
       PROVE  FreshInv'
  <2>1. UNCHANGED <<physical, tickets>>
    BY <1>14 DEF SwitchRepository
  <2>2. /\ session'[s].repository = r
        /\ session'[s].status = Unknown
        /\ session'[s].generation = session[s].generation + 1
        /\ \A u \in Sessions : u # s =>
              session'[u] = session[u] /\ ownChange'[u] = ownChange[u]
        /\ ownChange'[s] = 0
    BY <1>14 DEF SwitchRepository, TypeOK
  <2>3. ownChange'[s] <= Physical(s)'.refs
    BY <2>1, <2>2 DEF KeyOf, Physical, TypeOK, Snapshots
  <2>4. Fresh(s)'
    BY <2>1, <2>2, <2>3, NextGenerationFresh
  <2>5. PhysicalGrows
    BY <2>1, GrowsIfChanged
  <2> QED BY <1>7, <2>1, <2>2, <2>4, <2>5
<1>15. ASSUME NEW s \in Sessions, MutationSucceeds(s) PROVE FreshInv'
  <2>1. UNCHANGED <<session, tickets>> /\ KeyOf(s)' = KeyOf(s) /\ KeyOf(s) \in Keys
    BY <1>15, SessionFields DEF MutationSucceeds, KeyOf
  <2>2. PhysicalGrows
    BY <1>15, <2>1, GrowsIfChanged DEF MutationSucceeds
  <2>3. /\ ownChange'[s] = physical'[KeyOf(s)].refs
        /\ \A u \in Sessions : u # s => ownChange'[u] = ownChange[u]
    BY <1>15 DEF MutationSucceeds, TypeOK
  <2>4. /\ Physical(s)'.refs \in Nat /\ Physical(s)'.shown \in Nat
        /\ Physical(s)'.shown >= Physical(s).shown
    BY <2>1, <2>2 DEF Physical, PhysicalGrows, TypeOK, Snapshots
  <2>5. Fresh(s)
    BY DEF FreshInv
  <2>6. TicketFits(s)'
    BY <2>1, <2>5 DEF Fresh, TicketFits
  <2>7. AnswersAreTimely(s)'
    <3> SUFFICES ASSUME NEW t \in tickets, t.of = s, t.answer # NotYet
                 PROVE  /\ t.answer <= physical'[LockKey[t.at]].shown
                        /\ t.generation = session[s].generation /\ session[s].status # Unknown =>
                                 session[s].status.shown <= t.answer
      BY <2>1 DEF AnswersAreTimely, NotYet, Unknown
    <3>1. physical'[LockKey[t.at]].shown \in Nat
      BY TicketFields DEF TypeOK, Snapshots
    <3> QED BY <2>2, <2>5, <3>1, TicketFields DEF Fresh, AnswersAreTimely, PhysicalGrows
  <2>8. StatusIsPast(s)'
    BY <2>1, <2>3, <2>4, <2>5, SessionFields DEF Fresh, StatusIsPast, Unknown
  <2>9. ownChange'[s] <= Physical(s)'.refs
    BY <2>1, <2>3, <2>4 DEF Physical
  <2> QED BY <1>7, <2>1, <2>2, <2>3, <2>6, <2>7, <2>8, <2>9 DEF Fresh
<1>16. CASE UNCHANGED vars
  BY <1>1, <1>16, GrowsIfChanged DEF vars, Untouched
<1> QED
  BY <1>2, <1>3, <1>4, <1>5, <1>6, <1>8, <1>9, <1>10, <1>11, <1>12, <1>13, <1>14, <1>15, <1>16
     DEF Next

\* Initially nothing is known and nothing is in flight.
LEMMA InitFresh == Init => FreshInv
<1> SUFFICES ASSUME Init, NEW s \in Sessions PROVE Fresh(s)
  BY DEF FreshInv
<1>1. TypeOK
  BY InitInv DEF IInv
<1>2. session[s].status = Unknown /\ tickets = {} /\ ownChange[s] = 0
  BY DEF Init
<1> QED BY <1>1, <1>2, SessionFields
        DEF Fresh, TicketFits, AnswersAreTimely, StatusIsPast

(***************************************************************************)
(* The pages of the caches.  A snapshot is timely for a session when it is *)
(* not older than the status shown, nor, once the refresh after a mutation *)
(* of its own is over, than that mutation.  A page of the repository open, *)
(* and what a query for it has read, is timely unless an invalidation came *)
(* after the read; and of the repository open is every page and query      *)
(* which no invalidation overtook at all.                                  *)
(***************************************************************************)
Timely(s, snapshot) ==
    /\ session[s].status # Unknown => snapshot.shown >= session[s].status.shown
    /\ running[s] # "mutated" => snapshot.refs >= ownChange[s]

PagesFit(s) ==
    \A r \in Repositories : cache[s][r] # NoPage =>
        /\ cache[s][r].overtaken = "no" => r = session[s].repository
        /\ cache[s][r].overtaken # "read" /\ r = session[s].repository =>
              Timely(s, cache[s][r].snapshot)

QueriesFit(s) ==
    \A q \in queries : q.of = s =>
        /\ q.overtaken = "no" => q.at = session[s].repository
        /\ q.overtaken # "read" /\ q.at = session[s].repository /\ q.snapshot # NotRead =>
              Timely(s, q.snapshot)

PageInv == \A s \in Sessions : PagesFit(s) /\ QueriesFit(s)

\* A step after which what was timely for a session still is.
KeepsView(u) ==
    /\ session'[u].repository = session[u].repository
    /\ session'[u].status = session[u].status
    /\ running'[u] # "mutated" => running[u] # "mutated" /\ ownChange'[u] = ownChange[u]

LEMMA ViewKept ==
  ASSUME NEW u \in Sessions, KeepsView(u), cache'[u] = cache[u],
         \A q \in queries' : q.of = u => q \in queries,
         PagesFit(u), QueriesFit(u)
  PROVE  PagesFit(u)' /\ QueriesFit(u)'
<1>1. ASSUME NEW snapshot, Timely(u, snapshot)
      PROVE  /\ session'[u].status # Unknown => snapshot.shown >= session'[u].status.shown
             /\ running'[u] # "mutated" => snapshot.refs >= ownChange'[u]
  BY <1>1 DEF KeepsView, Timely
<1>2. PagesFit(u)'
  BY <1>1 DEF PagesFit, Timely, KeepsView, NoPage, NotRead, NotYet, Unknown
<1>3. QueriesFit(u)'
  BY <1>1 DEF QueriesFit, Timely, KeepsView, NotRead, NotYet, Unknown
<1> QED BY <1>2, <1>3

\* An invalidation leaves no page of its session, and overtakes every query of it.
LEMMA InvalidatedFits ==
  ASSUME TypeOK, PageInv, NEW s \in Sessions, Invalidated(s),
         \A u \in Sessions : u # s => KeepsView(u)
  PROVE  PageInv'
<1>1. ASSUME NEW q \in queries'
      PROVE  IF q.of = s
             THEN q.overtaken = (IF q.snapshot = NotRead THEN "unread" ELSE "read")
             ELSE q \in queries
  <2>1. PICK p \in queries :
           q = [p EXCEPT !.overtaken = IF p.of # s THEN p.overtaken
                                       ELSE IF p.snapshot = NotRead THEN "unread" ELSE "read"]
    BY DEF Invalidated
  <2>2. p \in Queries
    BY DEF TypeOK
  <2>3. CASE p.of # s
    <3>1. q = p
      BY <2>1, <2>2, <2>3 DEF Queries
    <3> QED BY <2>3, <3>1
  <2>4. CASE p.of = s
    BY <2>1, <2>2, <2>4 DEF Queries
  <2> QED BY <2>3, <2>4
<1>2. ASSUME NEW u \in Sessions, u # s PROVE PagesFit(u)' /\ QueriesFit(u)'
  <2>1. cache'[u] = cache[u]
    BY <1>2 DEF Invalidated, TypeOK
  <2>2. \A q \in queries' : q.of = u => q \in queries
    BY <1>1, <1>2
  <2> QED BY <1>2, <2>1, <2>2, ViewKept DEF PageInv
<1>3. PagesFit(s)'
  <2>1. \A r \in Repositories : cache'[s][r] = NoPage
    BY DEF Invalidated, TypeOK
  <2> QED BY <2>1 DEF PagesFit, NoPage, NotRead, NotYet
<1>4. QueriesFit(s)'
  BY <1>1 DEF QueriesFit
<1> QED BY <1>2, <1>3, <1>4 DEF PageInv

\* What a query reads is timely: a status is of the past.
LEMMA QueryStep ==
  ASSUME TypeOK, FreshInv, PageInv,
         \/ \E s \in Sessions : BeginQuery(s)
         \/ \E q \in queries : ReadQuery(q) \/ QueryFails(q) \/ CheckTicket(q) \/ InsertPage(q)
  PROVE  PageInv'
<1>1. UNCHANGED <<session, running, ownChange>>
  BY DEF BeginQuery, ReadQuery, QueryFails, CheckTicket, InsertPage
<1>2. \A q \in queries : q \in Queries /\ (q.checked => q.snapshot # NotRead)
  BY DEF TypeOK
\* A step that adds at most one query, a fitting one.
<1>3. ASSUME cache' = cache, NEW new,
             \A q \in queries' : q \in queries \/ q = new,
             new.of \in Sessions =>
                /\ new.overtaken = "no" => new.at = session[new.of].repository
                /\ new.overtaken # "read" /\ new.at = session[new.of].repository
                      /\ new.snapshot # NotRead => Timely(new.of, new.snapshot)
      PROVE  PageInv'
  BY <1>1, <1>3
     DEF PageInv, PagesFit, QueriesFit, Timely, NoPage, NotRead, NotYet, Unknown
<1>4. ASSUME NEW s \in Sessions, BeginQuery(s) PROVE PageInv'
  <2> DEFINE new == [of |-> s, at |-> session[s].repository, snapshot |-> NotRead,
                     checked |-> FALSE, overtaken |-> "no"]
  <2>1. new.of = s /\ new.at = session[s].repository /\ new.snapshot = NotRead
    OBVIOUS
  <2>2. cache' = cache /\ \A q \in queries' : q \in queries \/ q = new
    BY <1>4 DEF BeginQuery
  <2> HIDE DEF new
  <2> QED BY <1>3, <2>1, <2>2
<1>5. ASSUME NEW q \in queries, ReadQuery(q) PROVE PageInv'
  <2> DEFINE now == physical[LockKey[q.at]]
             new == [q EXCEPT !.snapshot = now]
  <2>1. /\ new.of = q.of /\ new.at = q.at /\ new.overtaken = q.overtaken /\ new.snapshot = now
        /\ q.of \in Sessions
    BY <1>2 DEF Queries
  <2>2. cache' = cache /\ \A p \in queries' : p \in queries \/ p = new
    BY <1>5 DEF ReadQuery
  <2>3. ASSUME q.at = session[q.of].repository PROVE Timely(q.of, now)
    <3>1. now = Physical(q.of)
      BY <2>3 DEF Physical, KeyOf
    <3>2. Fresh(q.of)
      BY <2>1 DEF FreshInv
    <3> QED BY <2>1, <3>1, <3>2, SessionFields DEF Fresh, StatusIsPast, Timely
  <2>4. q.overtaken = "no" => q.at = session[q.of].repository
    BY <2>1 DEF PageInv, QueriesFit
  <2> HIDE DEF new, now
  <2> QED BY <1>3, <2>1, <2>2, <2>3, <2>4
<1>6. ASSUME NEW q \in queries, QueryFails(q) PROVE PageInv'
  <2>1. cache' = cache /\ queries' \subseteq queries
    BY <1>6 DEF QueryFails
  <2> QED BY <1>1, <2>1
      DEF PageInv, PagesFit, QueriesFit, Timely, NoPage, NotRead, NotYet, Unknown
<1>7. ASSUME NEW q \in queries, CheckTicket(q) PROVE PageInv'
  <2> DEFINE new == [q EXCEPT !.checked = TRUE]
  <2>1. /\ new.of = q.of /\ new.at = q.at /\ new.overtaken = q.overtaken /\ new.snapshot = q.snapshot
        /\ q.of \in Sessions
    BY <1>2 DEF Queries
  <2>2. cache' = cache /\ \A p \in queries' : p \in queries \/ p = new
    BY <1>7 DEF CheckTicket
  <2>3. /\ q.overtaken = "no" => q.at = session[q.of].repository
        /\ q.overtaken # "read" /\ q.at = session[q.of].repository /\ q.snapshot # NotRead =>
              Timely(q.of, q.snapshot)
    BY <2>1 DEF PageInv, QueriesFit
  <2> HIDE DEF new
  <2> QED BY <1>3, <2>1, <2>2, <2>3
<1>8. ASSUME NEW q \in queries, InsertPage(q) PROVE PageInv'
  <2> DEFINE page == [snapshot |-> q.snapshot, overtaken |-> q.overtaken]
  <2>1. q.of \in Sessions /\ q.at \in Repositories /\ q.snapshot # NotRead
    BY <1>2, <1>8 DEF Queries, InsertPage
  <2>2. /\ \A u \in Sessions, r \in Repositories :
              cache'[u][r] = IF u = q.of /\ r = q.at THEN page ELSE cache[u][r]
        /\ queries' \subseteq queries
    BY <1>8, <2>1 DEF InsertPage, TypeOK
  <2>3. page.snapshot = q.snapshot /\ page.overtaken = q.overtaken
    OBVIOUS
  <2>4. /\ q.overtaken = "no" => q.at = session[q.of].repository
        /\ q.overtaken # "read" /\ q.at = session[q.of].repository => Timely(q.of, q.snapshot)
    BY <2>1 DEF PageInv, QueriesFit
  <2> HIDE DEF page
  <2>5. ASSUME NEW u \in Sessions PROVE PagesFit(u)'
    <3> SUFFICES ASSUME NEW r \in Repositories, cache'[u][r] # NoPage
                 PROVE  /\ cache'[u][r].overtaken = "no" => r = session[u].repository
                        /\ cache'[u][r].overtaken # "read" /\ r = session[u].repository =>
                              Timely(u, cache'[u][r].snapshot)
      BY <1>1 DEF PagesFit, Timely, NoPage, NotRead, NotYet, Unknown
    <3>1. CASE u = q.of /\ r = q.at
      BY <2>2, <2>3, <2>4, <3>1
    <3>2. CASE ~ (u = q.of /\ r = q.at)
      BY <2>2, <3>2 DEF PageInv, PagesFit
    <3> QED BY <3>1, <3>2
  <2>6. ASSUME NEW u \in Sessions PROVE QueriesFit(u)'
    BY <1>1, <2>2 DEF PageInv, QueriesFit, Timely, NotRead, NotYet, Unknown
  <2> QED BY <2>5, <2>6 DEF PageInv
<1> QED BY <1>4, <1>5, <1>6, <1>7, <1>8

LEMMA PageStep == TypeOK /\ FreshInv /\ PageInv /\ [Next]_vars => PageInv'
<1> SUFFICES ASSUME TypeOK, FreshInv, PageInv, [Next]_vars PROVE PageInv'
  OBVIOUS
<1>1. ASSUME UNCHANGED <<cache, queries>>, \A u \in Sessions : KeepsView(u) PROVE PageInv'
  BY <1>1, ViewKept DEF PageInv
<1>2. ASSUME UNCHANGED <<session, running, cache, queries, ownChange>> PROVE PageInv'
  BY <1>1, <1>2 DEF KeepsView
<1>3. ASSUME \/ UNCHANGED vars
             \/ \E k \in Keys : ExternalChange(k)
             \/ \E t \in tickets : AnswerRefresh(t) \/ RefreshFails(t)
      PROVE  PageInv'
  BY <1>2, <1>3 DEF vars, ExternalChange, AnswerRefresh, RefreshFails
<1>4. ASSUME NEW s \in Sessions,
             \/ \E kind \in Kinds : Select(s, kind)
             \/ ClearSelection(s)
             \/ \E op \in Operations : BeginOperation(s, op) \/ EndOperation(s, op)
             \/ BeginRefresh(s)
      PROVE  PageInv'
  <2>1. UNCHANGED <<running, cache, queries, ownChange>>
    BY <1>4 DEF Select, ClearSelection, BeginOperation, EndOperation, BeginRefresh
  <2>2. \A u \in Sessions : /\ session'[u].repository = session[u].repository
                            /\ session'[u].status = session[u].status
    <3>1. session \in [Sessions -> SessionState]
      BY DEF TypeOK
    <3> QED BY <1>4, <3>1 DEF Select, ClearSelection, BeginOperation, EndOperation,
            BeginRefresh, SessionState
  <2> QED BY <1>1, <2>1, <2>2 DEF KeepsView
<1>5. ASSUME NEW s \in Sessions, ResolveLock(s) PROVE PageInv'
  <2>1. /\ UNCHANGED <<cache, queries, ownChange>>
        /\ running[s] = "no" /\ running' = [running EXCEPT ![s] = "waiting"]
        /\ session' = session \/ session' = [session EXCEPT ![s].lock = registry'[KeyOf(s)]]
    BY <1>5 DEF ResolveLock, Free
  <2>2. \A u \in Sessions : /\ session'[u].repository = session[u].repository
                            /\ session'[u].status = session[u].status
    <3>1. session \in [Sessions -> SessionState]
      BY DEF TypeOK
    <3> QED BY <2>1, <3>1 DEF SessionState
  <2> QED BY <1>1, <2>1, <2>2 DEF KeepsView, TypeOK
<1>6. ASSUME NEW s \in Sessions, Acquire(s) \/ MutationSucceeds(s) \/ MutationFails(s)
      PROVE  PageInv'
  <2>1. UNCHANGED <<session, cache, queries>>
    BY <1>6 DEF Acquire, MutationSucceeds, MutationFails
  <2>2. \A u \in Sessions : KeepsView(u)
    BY <1>6, <2>1 DEF Acquire, MutationSucceeds, MutationFails, KeepsView, TypeOK
  <2> QED BY <1>1, <2>1, <2>2
<1>7. ASSUME NEW s \in Sessions, NEW status, NEW generation, Stored(s, status, generation),
             UNCHANGED <<running, ownChange>>
      PROVE  PageInv'
  <2>1. /\ \A u \in Sessions : session'[u].repository = session[u].repository
        /\ \A u \in Sessions : u # s => session'[u].status = session[u].status
        /\ session'[s].status = status
    BY <1>7, SessionFields DEF Stored, TypeOK, SessionState
  <2>2. CASE session[s].status = status
    BY <1>1, <1>7, <2>1, <2>2 DEF Stored, KeepsView
  <2>3. CASE session[s].status # status
    BY <1>7, <2>1, <2>3, InvalidatedFits DEF Stored, KeepsView
  <2> QED BY <2>2, <2>3
<1>8. ASSUME NEW s \in Sessions, NEW t \in tickets, ApplyRefresh(s, t) PROVE PageInv'
  <2>1. UNCHANGED <<running, ownChange>>
    BY <1>8 DEF ApplyRefresh
  <2>2. CASE IsCurrent(s, t.generation)
    BY <1>7, <1>8, <2>1, <2>2 DEF ApplyRefresh
  <2>3. CASE ~ IsCurrent(s, t.generation)
    BY <1>2, <1>8, <2>1, <2>3 DEF ApplyRefresh
  <2> QED BY <2>2, <2>3
<1>9. ASSUME NEW s \in Sessions, NEW readable \in BOOLEAN, Refresh(s, readable) PROVE PageInv'
  <2>1. UNCHANGED <<running, ownChange>>
    BY <1>9 DEF Refresh
  <2>2. CASE readable
    BY <1>7, <1>9, <2>1, <2>2 DEF Refresh, Refreshed
  <2>3. CASE ~ readable
    <3>1. UNCHANGED <<cache, queries>> /\ session' = [session EXCEPT ![s].generation = @ + 1]
      BY <1>9, <2>3 DEF Refresh, Refreshed
    <3>2. \A u \in Sessions : /\ session'[u].repository = session[u].repository
                              /\ session'[u].status = session[u].status
      BY <3>1, SessionFields DEF TypeOK, SessionState
    <3> QED BY <1>1, <2>1, <3>1, <3>2 DEF KeepsView
  <2> QED BY <2>2, <2>3
<1>10. ASSUME NEW s \in Sessions, NEW readable \in BOOLEAN, FinishMutation(s, readable)
       PROVE  PageInv'
  <2>1. Invalidated(s) /\ ownChange' = ownChange
    BY <1>10 DEF FinishMutation
  <2>2. \A u \in Sessions : u # s => session'[u] = session[u] /\ running'[u] = running[u]
    BY <1>10 DEF FinishMutation, TypeOK
  <2> QED BY <2>1, <2>2, InvalidatedFits DEF KeepsView
<1>11. ASSUME NEW s \in Sessions, NEW r \in Repositories, SwitchRepository(s, r) PROVE PageInv'
  <2>1. Invalidated(s) /\ running' = running
    BY <1>11 DEF SwitchRepository
  <2>2. \A u \in Sessions : u # s => session'[u] = session[u] /\ ownChange'[u] = ownChange[u]
    BY <1>11 DEF SwitchRepository, TypeOK
  <2> QED BY <2>1, <2>2, InvalidatedFits DEF KeepsView
<1>12. ASSUME \/ \E s \in Sessions : BeginQuery(s)
              \/ \E q \in queries :
                    ReadQuery(q) \/ QueryFails(q) \/ CheckTicket(q) \/ InsertPage(q)
       PROVE  PageInv'
  BY <1>12, QueryStep
<1> QED
  BY <1>3, <1>4, <1>5, <1>6, <1>8, <1>9, <1>10, <1>11, <1>12 DEF Next

LEMMA InitPages == Init => PageInv
BY DEF Init, PageInv, PagesFit, QueriesFit

\* Every session stays fresh, and with it every page and query of its cache, except what was
\* read before an invalidation, however refreshes, mutations, switches, changes from outside
\* and the begin, read, check and insertion of queries interleave.
THEOREM Freshness == Spec => [](FreshInv /\ PageInv)
<1>1. TypeOK /\ TypeOK' /\ FreshInv /\ [Next]_vars => FreshInv'
  BY FreshStep
<1>2. TypeOK /\ FreshInv /\ PageInv /\ [Next]_vars => PageInv'
  BY PageStep
<1> QED BY <1>1, <1>2, InitFresh, InitPages, TypeCorrect, PTL DEF Spec

\* A page is never older than the status next to it, unless it is late: read before an
\* invalidation and inserted after it.
THEOREM CacheNotOlder == Spec => []CacheNotOlderThanStatus
<1>1. TypeOK /\ PageInv => CacheNotOlderThanStatus
  BY SessionFields
     DEF PageInv, PagesFit, Timely, CacheNotOlderThanStatus, ServedInTime, Served
<1> QED BY <1>1, Freshness, TypeCorrect, PTL

\* No page predates a mutation of the session's own once run_mutation has returned, unless
\* it is late.
THEOREM OwnMutationsSeen == Spec => []CacheSeesOwnMutations
<1>1. TypeOK /\ PageInv => CacheSeesOwnMutations
  BY SessionFields
     DEF PageInv, PagesFit, Timely, CacheSeesOwnMutations, ServedInTime, Served
<1> QED BY <1>1, Freshness, TypeCorrect, PTL

\* Selections and tracked operations are of the repository the session has open.
OwnSelection ==
    \A s \in Sessions :
        /\ session[s].selection.at \in {"none", session[s].repository}
        /\ \A a \in session[s].active : a[2] = session[s].repository

LEMMA SelectionStep == TypeOK /\ OwnSelection /\ [Next]_vars => OwnSelection'
<1> SUFFICES ASSUME TypeOK, OwnSelection, [Next]_vars PROVE OwnSelection'
  OBVIOUS
<1>1. ASSUME \A s \in Sessions : /\ session'[s].repository = session[s].repository
                                 /\ session'[s].selection = session[s].selection
                                 /\ session'[s].active = session[s].active
      PROVE  OwnSelection'
  BY <1>1 DEF OwnSelection
<1>2. ASSUME NEW s \in Sessions, NEW kind \in Kinds, Select(s, kind) PROVE OwnSelection'
  BY <1>2, SessionFields DEF Select, OwnSelection, TypeOK, SessionState
<1>3. ASSUME NEW s \in Sessions, ClearSelection(s) PROVE OwnSelection'
  BY <1>3, SessionFields DEF ClearSelection, OwnSelection, TypeOK, SessionState, Unknown
<1>4. ASSUME NEW s \in Sessions, NEW op \in Operations, BeginOperation(s, op) \/ EndOperation(s, op)
      PROVE  OwnSelection'
  <2>1. PICK active :
           /\ session' = [session EXCEPT ![s].active = active]
           /\ \A a \in active : a[2] = session[s].repository
    <3>1. CASE BeginOperation(s, op)
      <4> DEFINE more == session[s].active \cup {<<op, session[s].repository>>}
      <4>1. session' = [session EXCEPT ![s].active = more]
        BY <3>1 DEF BeginOperation
      <4>2. \A a \in more : a[2] = session[s].repository
        BY DEF OwnSelection
      <4> QED BY <4>1, <4>2
    <3>2. CASE EndOperation(s, op)
      <4> DEFINE fewer == {a \in session[s].active : a[1] # op}
      <4>1. session' = [session EXCEPT ![s].active = fewer]
        BY <3>2 DEF EndOperation
      <4>2. \A a \in fewer : a[2] = session[s].repository
        BY DEF OwnSelection
      <4> QED BY <4>1, <4>2
    <3> QED BY <1>4, <3>1, <3>2
  <2>2. \A u \in Sessions :
           /\ session'[u].repository = session[u].repository
           /\ session'[u].selection = session[u].selection
           /\ session'[u].active = IF u = s THEN active ELSE session[u].active
    BY <2>1, SessionFields DEF TypeOK, SessionState
  <2> QED BY <2>1, <2>2 DEF OwnSelection
<1>5. ASSUME NEW s \in Sessions, NEW r \in Repositories, SwitchRepository(s, r)
      PROVE  OwnSelection'
  BY <1>5 DEF SwitchRepository, OwnSelection, TypeOK, Unknown
<1>6. ASSUME NEW s \in Sessions,
             \/ BeginRefresh(s)
             \/ \E t \in tickets : ApplyRefresh(s, t)
             \/ \E readable \in BOOLEAN : Refresh(s, readable) \/ FinishMutation(s, readable)
             \/ ResolveLock(s)
      PROVE  OwnSelection'
  <2>1. \/ session' = session
        \/ \E status, generation :
              session' = [session EXCEPT ![s].status = status, ![s].generation = generation]
        \/ \E generation : session' = [session EXCEPT ![s].generation = generation]
        \/ \E lock : session' = [session EXCEPT ![s].lock = lock]
    <3>1. CASE BeginRefresh(s) \/ ResolveLock(s)
      BY <3>1 DEF BeginRefresh, ResolveLock
    <3>2. ASSUME NEW t \in tickets, ApplyRefresh(s, t)
          PROVE  \/ session' = session
                 \/ \E status, generation : session' =
                       [session EXCEPT ![s].status = status, ![s].generation = generation]
      BY <3>2 DEF ApplyRefresh, Stored
    <3>3. ASSUME NEW readable \in BOOLEAN, Refresh(s, readable)
          PROVE  \/ \E status, generation : session' =
                       [session EXCEPT ![s].status = status, ![s].generation = generation]
                 \/ \E generation : session' = [session EXCEPT ![s].generation = generation]
      BY <3>3 DEF Refresh, Refreshed, Stored
    <3>4. ASSUME NEW readable \in BOOLEAN, FinishMutation(s, readable)
          PROVE  \E status, generation : session' =
                    [session EXCEPT ![s].status = status, ![s].generation = generation]
      <4> DEFINE status == IF readable
                           THEN [at |-> session[s].repository, shown |-> Physical(s).shown]
                           ELSE session[s].status
      <4>1. session' = [session EXCEPT ![s].status = status,
                                       ![s].generation = session[s].generation + 1]
        BY <3>4, SessionFields DEF FinishMutation, TypeOK
      <4> HIDE DEF status
      <4> QED BY <4>1
    <3> QED BY <1>6, <3>1, <3>2, <3>3, <3>4
  <2> DEFINE Kept == \A u \in Sessions :
                        /\ session'[u].repository = session[u].repository
                        /\ session'[u].selection = session[u].selection
                        /\ session'[u].active = session[u].active
  <2>2. ASSUME NEW status, NEW generation,
               session' = [session EXCEPT ![s].status = status, ![s].generation = generation]
        PROVE  Kept
    BY <2>2 DEF TypeOK, SessionState
  <2>3. ASSUME NEW generation, session' = [session EXCEPT ![s].generation = generation]
        PROVE  Kept
    BY <2>3 DEF TypeOK, SessionState
  <2>4. ASSUME NEW lock, session' = [session EXCEPT ![s].lock = lock] PROVE Kept
    BY <2>4 DEF TypeOK, SessionState
  <2>5. Kept
    BY <2>1, <2>2, <2>3, <2>4
  <2> QED BY <1>1, <2>5
<1>7. ASSUME session' = session PROVE OwnSelection'
  BY <1>1, <1>7
<1> QED
  BY <1>2, <1>3, <1>4, <1>5, <1>6, <1>7
     DEF Next, vars, ExternalChange, AnswerRefresh, RefreshFails, Acquire, BeginQuery,
         ReadQuery, QueryFails, CheckTicket, InsertPage, MutationSucceeds, MutationFails

\* A session only shows what belongs to the repository it has open, whatever answers of
\* refreshes begun before a switch still arrive; and the only pages of another repository
\* its cache can hold are those whose queries were begun before the switch.
THEOREM NothingForeign == Spec => []NothingOfAnotherRepository
<1>1. Init => OwnSelection
  <2> SUFFICES ASSUME Init PROVE OwnSelection
    OBVIOUS
  <2>1. \A s \in Sessions : session[s].selection = Unknown /\ session[s].active = {}
    BY DEF Init
  <2> QED BY <2>1 DEF OwnSelection, Unknown
<1>2. TypeOK /\ OwnSelection /\ [Next]_vars => OwnSelection'
  BY SelectionStep
<1>3. FreshInv /\ PageInv /\ OwnSelection => NothingOfAnotherRepository
  BY DEF FreshInv, Fresh, StatusIsPast, PageInv, PagesFit, OwnSelection,
         NothingOfAnotherRepository, Unknown
<1> QED BY <1>1, <1>2, <1>3, Freshness, TypeCorrect, PTL DEF Spec

\* The statuses a session stores are ever newer ones.
LEMMA StatusMovesOn ==
  ASSUME TypeOK, TypeOK', FreshInv, [Next]_vars, NEW s \in Sessions,
         session[s].status # Unknown, session'[s].status # Unknown,
         session'[s].repository = session[s].repository
  PROVE  session'[s].status.shown >= session[s].status.shown
<1> DEFINE Goal == session'[s].status.shown >= session[s].status.shown
<1>1. session[s].status.shown \in Nat /\ session[s].status.shown <= Physical(s).shown
  BY SessionFields DEF FreshInv, Fresh, StatusIsPast
<1>2. ASSUME session'[s].status = session[s].status PROVE Goal
  BY <1>1, <1>2
<1>3. ASSUME NEW u \in Sessions, u # s, session' = [session EXCEPT ![u] = session'[u]] PROVE Goal
  BY <1>2, <1>3 DEF TypeOK
<1>4. ASSUME NEW t \in tickets, ApplyRefresh(s, t) PROVE Goal
  <2>1. session' = session
        \/ (t.generation = session[s].generation /\ session'[s].status.shown = t.answer)
    BY <1>4, SessionFields DEF ApplyRefresh, IsCurrent, Stored, TypeOK, SessionState
  <2>2. t.of = s /\ t.answer # NotYet
    BY <1>4 DEF ApplyRefresh
  <2> QED BY <1>2, <2>1, <2>2, TicketFields DEF FreshInv, Fresh, AnswersAreTimely
<1>5. ASSUME NEW readable \in BOOLEAN, Refresh(s, readable) \/ FinishMutation(s, readable)
      PROVE  Goal
  <2>1. session'[s].status = session[s].status \/ session'[s].status.shown = Physical(s).shown
    BY <1>5, SessionFields DEF Refresh, Refreshed, Stored, FinishMutation, TypeOK, SessionState
  <2> QED BY <1>1, <1>2, <2>1, SessionFields
<1>6. ASSUME NEW r \in Repositories, SwitchRepository(s, r) PROVE FALSE
  BY <1>6 DEF SwitchRepository, TypeOK
<1>7. ASSUME session' = session PROVE Goal
  BY <1>2, <1>7
<1>8. ASSUME NEW u \in Sessions,
             \/ \E kind \in Kinds : Select(u, kind)
             \/ ClearSelection(u)
             \/ \E op \in Operations : BeginOperation(u, op) \/ EndOperation(u, op)
             \/ BeginRefresh(u)
             \/ ResolveLock(u)
      PROVE  Goal
  BY <1>2, <1>8, SessionFields
     DEF Select, ClearSelection, BeginOperation, EndOperation, BeginRefresh, ResolveLock,
         TypeOK, SessionState
<1>9. ASSUME NEW u \in Sessions, u # s,
             \/ \E t \in tickets : ApplyRefresh(u, t)
             \/ \E readable \in BOOLEAN : Refresh(u, readable) \/ FinishMutation(u, readable)
             \/ \E r \in Repositories : SwitchRepository(u, r)
      PROVE  Goal
  BY <1>2, <1>9
     DEF ApplyRefresh, Refresh, Refreshed, Stored, FinishMutation, SwitchRepository, TypeOK
<1> QED
  BY <1>4, <1>5, <1>6, <1>7, <1>8, <1>9
     DEF Next, vars, ExternalChange, AnswerRefresh, RefreshFails, Acquire, BeginQuery,
         ReadQuery, QueryFails, CheckTicket, InsertPage, MutationSucceeds, MutationFails

\* Answers of overlapping refreshes, of mutations' refreshes and of refreshes
\* that overtake each other never take a session's status back in time.
THEOREM StatusMonotone == Spec => StatusNeverGoesBack
<1>1. TypeOK /\ TypeOK' /\ FreshInv /\ [Next]_vars
        => [\A s \in Sessions :
              /\ session[s].status # Unknown
              /\ session'[s].status # Unknown
              /\ session'[s].repository = session[s].repository
              => session'[s].status.shown >= session[s].status.shown]_vars
  BY StatusMovesOn
<1> QED BY <1>1, Freshness, TypeCorrect, PTL DEF Spec, StatusNeverGoesBack
=============================================================================
