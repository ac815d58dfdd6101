-------------------------- MODULE RepositorySession --------------------------
(***************************************************************************)
(* The sessions of gitsail-application: session.rs, with the lock registry *)
(* of concurrency.rs that all sessions of a process share.                 *)
(*                                                                         *)
(* A session is used by one thread at a time (its methods take &mut self), *)
(* so an action below is a method, except run_mutation, which blocks on a  *)
(* lock other sessions hold and is split there.  Sessions run concurrently *)
(* with each other, with the answers of refreshes they have asked for,     *)
(* with other programs changing the repositories, and with threads that    *)
(* fill the cache registered with them: a GraphCache, of whose pages the   *)
(* keys name the repository.  A query begins, is read and is stored in     *)
(* steps of their own (cache.rs), and all of the above falls between them. *)
(*                                                                         *)
(* A physical repository is abstracted to two counters: `shown' changes    *)
(* when anything a RepositoryStatus reports changes (the branch, the       *)
(* files), `refs' whenever a ref moves; committing moves a ref, and need   *)
(* not change the status.                                                  *)
(***************************************************************************)
EXTENDS Naturals, FiniteSets

CONSTANTS
    Sessions,
    Repositories,  \* what a session opens: worktrees
    Keys,          \* physical repositories: shared .git directories
    LockKey,       \* RepositoryReadPort::lock_key, per repository
    Kinds,         \* what can be selected: branches, commits
    Operations,    \* operation ids a frontend may track
    Nobody,        \* no session
    MaxRefs,       \* bound: changes of one physical repository
    MaxGeneration, \* bound: refresh generation of a session
    MaxTickets,    \* bound: refreshes a session has in flight
    MaxQueries     \* bound: queries of a session's cache in flight

ASSUME LockKeyAssumption == LockKey \in [Repositories -> Keys]
ASSUME BoundsAssumption ==
    MaxRefs \in Nat /\ MaxGeneration \in Nat /\ MaxTickets \in Nat /\ MaxQueries \in Nat
ASSUME NobodyIsNoSession == Nobody \notin Sessions
ASSUME NoneIsNoRepository == "none" \notin Repositories

VARIABLES
    physical,    \* per key: [shown, refs]
    registry,    \* RepositoryLockRegistry.locks: per key, its lock (0: none yet)
    allocated,   \* locks ever created
    session,     \* per session: its fields
    running,     \* per session: where run_mutation is
    cache,       \* per session and repository: the page the registered cache holds
    queries,     \* queries of the caches in flight: begun, read, or checked and not yet stored
    tickets,     \* refreshes in flight: issued, or answered and not yet applied
    ownChange    \* history: refs as the session's last successful mutation left them

vars == <<physical, registry, allocated, session, running, cache, queries, tickets, ownChange>>

Unknown == [at |-> "none"]   \* status and selection before anything is known
NoLock == 0
NotYet == MaxRefs + 1        \* the answer of a refresh that has none
NotRead == [shown |-> NotYet, refs |-> NotYet]  \* the snapshot of a query that has none

Snapshots == {p \in [shown : 0..MaxRefs, refs : 0..MaxRefs] : p.shown <= p.refs}

\* Statuses and selections remember (history) the repository they are from.
Statuses == {Unknown} \cup [at : Repositories, shown : 0..MaxRefs]
Selections == {Unknown} \cup [at : Repositories, kind : Kinds]

\* A page remembers (history) whether an invalidation overtook its query: came between its
\* begin and its insertion, and if so whether the port had read by then.
Overtaken == {"no", "unread", "read"}
Pages == [snapshot : Snapshots, overtaken : Overtaken]
NoPage == [snapshot |-> NotRead, overtaken |-> "no"]

SessionState ==
    [repository : Repositories, status : Statuses, selection : Selections,
     generation : 0..MaxGeneration, active : SUBSET (Operations \X Repositories),
     lock : Nat]

\* A refresh in flight: unanswered, or with the status the port answered.
Tickets ==
    [of : Sessions, generation : 1..MaxGeneration, at : Repositories,
     answer : {NotYet} \cup 0..MaxRefs]

\* A query of a page of the repository open when it began.  Checked: complete_query has
\* found its ticket to be of the latest generation, and has yet to lock the entries.
Queries ==
    [of : Sessions, at : Repositories, snapshot : Snapshots \cup {NotRead},
     checked : BOOLEAN, overtaken : Overtaken]

KeyOf(s) == LockKey[session[s].repository]
Physical(s) == physical[KeyOf(s)]
Free(s) == running[s] = "no"

Init ==
    /\ physical = [k \in Keys |-> [shown |-> 0, refs |-> 0]]
    /\ registry = [k \in Keys |-> NoLock]
    /\ allocated = 0
    /\ \E opened \in [Sessions -> Repositories] :
          session = [s \in Sessions |->
                        [repository |-> opened[s], status |-> Unknown, selection |-> Unknown,
                         generation |-> 0, active |-> {}, lock |-> NoLock]]
    /\ running = [s \in Sessions |-> "no"]
    /\ cache = [s \in Sessions |-> [r \in Repositories |-> NoPage]]
    /\ queries = {}
    /\ tickets = {}
    /\ ownChange = [s \in Sessions |-> 0]

-----------------------------------------------------------------------------
(***************************************************************************)
(* Around the session.                                                     *)
(***************************************************************************)

\* What a change of a physical repository does: the refs move, and what a
\* status shows may change with them.
Changed(k) ==
    /\ physical[k].refs < MaxRefs
    /\ \E shown \in {physical[k].shown, physical[k].shown + 1} :
          physical' = [physical EXCEPT ![k] = [shown |-> shown, refs |-> @.refs + 1]]

\* Another terminal, editor or process changes the repository.
ExternalChange(k) ==
    /\ Changed(k)
    /\ UNCHANGED <<registry, allocated, session, running, cache, queries, tickets, ownChange>>

(***************************************************************************)
(* The registered cache: a query on any thread, beside all else.           *)
(***************************************************************************)

\* begin_query: a new generation of the cache.  What is not checked yet will be found
\* stale whenever it completes, so it is dropped here.
BeginQuery(s) ==
    LET kept == {q \in queries : q.of = s => q.checked}
    IN /\ Cardinality({q \in kept : q.of = s}) < MaxQueries
       /\ queries' = kept \cup
             {[of |-> s, at |-> session[s].repository, snapshot |-> NotRead,
               checked |-> FALSE, overtaken |-> "no"]}
    /\ UNCHANGED <<physical, registry, allocated, session, running, cache, tickets, ownChange>>

\* The port reads the repository the query is for, ...
ReadQuery(q) ==
    /\ q.snapshot = NotRead
    /\ queries' = (queries \ {q}) \cup {[q EXCEPT !.snapshot = physical[LockKey[q.at]]]}
    /\ UNCHANGED <<physical, registry, allocated, session, running, cache, tickets, ownChange>>

\* ... or fails, and there is nothing to store.
QueryFails(q) ==
    /\ q.snapshot = NotRead
    /\ queries' = queries \ {q}
    /\ UNCHANGED <<physical, registry, allocated, session, running, cache, tickets, ownChange>>

\* complete_query, the generation locked: the ticket is of the latest one.
CheckTicket(q) ==
    /\ q.snapshot # NotRead /\ ~q.checked
    /\ queries' = (queries \ {q}) \cup {[q EXCEPT !.checked = TRUE]}
    /\ UNCHANGED <<physical, registry, allocated, session, running, cache, tickets, ownChange>>

\* complete_query, the entries locked: whatever came between is not looked at.
InsertPage(q) ==
    /\ q.checked
    /\ cache' = [cache EXCEPT ![q.of][q.at] = [snapshot |-> q.snapshot, overtaken |-> q.overtaken]]
    /\ queries' = queries \ {q}
    /\ UNCHANGED <<physical, registry, allocated, session, running, tickets, ownChange>>

\* invalidate_all: the pages of every repository are dropped.  The generation stays, and
\* with it the tickets of the queries in flight.
Invalidated(s) ==
    /\ cache' = [cache EXCEPT ![s] = [r \in Repositories |-> NoPage]]
    /\ queries' = {[q EXCEPT !.overtaken =
                        IF q.of # s THEN @ ELSE IF q.snapshot = NotRead THEN "unread" ELSE "read"] :
                       q \in queries}

-----------------------------------------------------------------------------
(***************************************************************************)
(* Selection and tracked operations.                                       *)
(***************************************************************************)

\* select_branch, select_commit: each replaces the whole selection.
Select(s, kind) ==
    /\ Free(s)
    /\ session' = [session EXCEPT ![s].selection = [at |-> session[s].repository, kind |-> kind]]
    /\ UNCHANGED <<physical, registry, allocated, running, cache, queries, tickets, ownChange>>

ClearSelection(s) ==
    /\ Free(s)
    /\ session' = [session EXCEPT ![s].selection = Unknown]
    /\ UNCHANGED <<physical, registry, allocated, running, cache, queries, tickets, ownChange>>

BeginOperation(s, op) ==
    /\ Free(s)
    /\ session' = [session EXCEPT ![s].active = @ \cup {<<op, session[s].repository>>}]
    /\ UNCHANGED <<physical, registry, allocated, running, cache, queries, tickets, ownChange>>

EndOperation(s, op) ==
    /\ Free(s)
    /\ session' = [session EXCEPT ![s].active = {a \in @ : a[1] # op}]
    /\ UNCHANGED <<physical, registry, allocated, running, cache, queries, tickets, ownChange>>

-----------------------------------------------------------------------------
(***************************************************************************)
(* Refreshes.                                                              *)
(***************************************************************************)

\* begin_refresh: a new generation, which makes every earlier ticket stale.
BeginRefresh(s) ==
    /\ Free(s)
    /\ session[s].generation < MaxGeneration
    /\ Cardinality({t \in tickets : t.of = s}) < MaxTickets
    /\ session' = [session EXCEPT ![s].generation = @ + 1]
    /\ tickets' = tickets \cup
          {[of |-> s, generation |-> session[s].generation + 1,
            at |-> session[s].repository, answer |-> NotYet]}
    /\ UNCHANGED <<physical, registry, allocated, running, cache, queries, ownChange>>

\* The port answers with the status of the repository the refresh was for.
AnswerRefresh(t) ==
    /\ t.answer = NotYet
    /\ tickets' = (tickets \ {t}) \cup {[t EXCEPT !.answer = physical[LockKey[t.at]].shown]}
    /\ UNCHANGED <<physical, registry, allocated, session, running, cache, queries, ownChange>>

\* The port fails: the caller has no status to apply and drops the ticket.
RefreshFails(t) ==
    /\ t.answer = NotYet
    /\ tickets' = tickets \ {t}
    /\ UNCHANGED <<physical, registry, allocated, session, running, cache, queries, ownChange>>

\* Mutated form: any ticket the session ever issued is taken for current.
IsCurrentOrOlder(s, generation) == generation <= session[s].generation

\* is_current: the ticket is of the session's latest generation.
IsCurrent(s, generation) == generation = session[s].generation

\* Mutated form: the caches are left as they are.
StoredOnly(s, status, generation) ==
    /\ session' = [session EXCEPT ![s].status = status, ![s].generation = generation]
    /\ UNCHANGED <<cache, queries>>

\* Storing a status: the cache is invalidated if it differs from the last one.
Stored(s, status, generation) ==
    /\ session' = [session EXCEPT ![s].status = status, ![s].generation = generation]
    /\ IF session[s].status = status THEN UNCHANGED <<cache, queries>> ELSE Invalidated(s)

\* apply_refresh: an answer whose ticket is not current changes nothing.
ApplyRefresh(s, t) ==
    /\ Free(s)
    /\ t.of = s
    /\ t.answer # NotYet
    /\ tickets' = tickets \ {t}
    /\ IF IsCurrent(s, t.generation)
       THEN Stored(s, [at |-> t.at, shown |-> t.answer], session[s].generation)
       ELSE UNCHANGED <<session, cache, queries>>
    /\ UNCHANGED <<physical, registry, allocated, running, ownChange>>

\* refresh: begin_refresh, the port's answer or failure and apply_refresh in
\* one method; nothing else reaches the session in between.
Refreshed(s, readable) ==
    /\ session[s].generation < MaxGeneration
    /\ IF readable
       THEN Stored(s, [at |-> session[s].repository, shown |-> Physical(s).shown],
                   session[s].generation + 1)
       ELSE /\ session' = [session EXCEPT ![s].generation = @ + 1]
            /\ UNCHANGED <<cache, queries>>

Refresh(s, readable) ==
    /\ Free(s)
    /\ Refreshed(s, readable)
    /\ UNCHANGED <<physical, registry, allocated, running, tickets, ownChange>>

-----------------------------------------------------------------------------
(***************************************************************************)
(* run_mutation.                                                           *)
(***************************************************************************)

\* Mutated form: the registry keeps no locks, every session gets its own.
LockForUnshared(k) ==
    /\ allocated' = allocated + 1
    /\ registry' = [registry EXCEPT ![k] = allocated']

\* RepositoryLockRegistry::lock_for: the lock of a key, created on first use.
LockFor(k) ==
    IF registry[k] # NoLock
    THEN UNCHANGED <<registry, allocated>>
    ELSE /\ allocated' = allocated + 1
         /\ registry' = [registry EXCEPT ![k] = allocated']

\* resolve_mutation_lock: the session's cached lock, or the registry's.  When
\* lock_key fails run_mutation returns the error, and nothing has changed.
ResolveLock(s) ==
    /\ Free(s)
    /\ IF session[s].lock # NoLock
       THEN UNCHANGED <<registry, allocated, session>>
       ELSE /\ LockFor(KeyOf(s))
            /\ session' = [session EXCEPT ![s].lock = registry'[KeyOf(s)]]
    /\ running' = [running EXCEPT ![s] = "waiting"]
    /\ UNCHANGED <<physical, cache, queries, tickets, ownChange>>

Holds(s, lock) == running[s] = "mutating" /\ session[s].lock = lock

\* lock.lock(): the mutation starts once nobody holds the session's lock.
Acquire(s) ==
    /\ running[s] = "waiting"
    /\ \A other \in Sessions : ~ Holds(other, session[s].lock)
    /\ running' = [running EXCEPT ![s] = "mutating"]
    /\ UNCHANGED <<physical, registry, allocated, session, cache, queries, tickets, ownChange>>

\* The mutation succeeds, and the lock is released.
MutationSucceeds(s) ==
    /\ running[s] = "mutating"
    /\ UNCHANGED physical \/ Changed(KeyOf(s))
    /\ ownChange' = [ownChange EXCEPT ![s] = physical'[KeyOf(s)].refs]
    /\ running' = [running EXCEPT ![s] = "mutated"]
    /\ UNCHANGED <<registry, allocated, session, cache, queries, tickets>>

\* The mutation fails, perhaps half-way (a pull that fetched and could not
\* merge): the lock is released and the error returned, with no refresh.
MutationFails(s) ==
    /\ running[s] = "mutating"
    /\ UNCHANGED physical \/ Changed(KeyOf(s))
    /\ running' = [running EXCEPT ![s] = "no"]
    /\ UNCHANGED <<registry, allocated, session, cache, queries, tickets, ownChange>>

\* Mutated form: the caches are invalidated only after a successful refresh.
FinishMutationIfRead(s, readable) ==
    /\ running[s] = "mutated"
    /\ Refreshed(s, readable)
    /\ running' = [running EXCEPT ![s] = "no"]
    /\ UNCHANGED <<physical, registry, allocated, tickets, ownChange>>

\* After success and without the lock: a refresh whose failure is swallowed,
\* then the registered caches are invalidated whatever it found.
FinishMutation(s, readable) ==
    /\ running[s] = "mutated"
    /\ session[s].generation < MaxGeneration
    /\ session' = [session EXCEPT
          ![s].generation = @ + 1,
          ![s].status = IF readable
                        THEN [at |-> session[s].repository, shown |-> Physical(s).shown]
                        ELSE @]
    /\ Invalidated(s)
    /\ running' = [running EXCEPT ![s] = "no"]
    /\ UNCHANGED <<physical, registry, allocated, tickets, ownChange>>

-----------------------------------------------------------------------------
\* Mutated form: tickets issued before the switch stay current.
SwitchKeepingGeneration(s, r) ==
    /\ Free(s)
    /\ session' = [session EXCEPT ![s] =
          [repository |-> r, status |-> Unknown, selection |-> Unknown,
           generation |-> @.generation, active |-> {}, lock |-> NoLock]]
    /\ Invalidated(s)
    /\ ownChange' = [ownChange EXCEPT ![s] = 0]
    /\ UNCHANGED <<physical, registry, allocated, running, tickets>>

\* switch_repository: everything of the previous repository is discarded.
SwitchRepository(s, r) ==
    /\ Free(s)
    /\ session[s].generation < MaxGeneration
    /\ session' = [session EXCEPT ![s] =
          [repository |-> r, status |-> Unknown, selection |-> Unknown,
           generation |-> @.generation + 1, active |-> {}, lock |-> NoLock]]
    /\ Invalidated(s)
    /\ ownChange' = [ownChange EXCEPT ![s] = 0]
    /\ UNCHANGED <<physical, registry, allocated, running, tickets>>

Next ==
    \/ \E k \in Keys : ExternalChange(k)
    \/ \E t \in tickets : AnswerRefresh(t) \/ RefreshFails(t)
    \/ \E q \in queries : ReadQuery(q) \/ QueryFails(q) \/ CheckTicket(q) \/ InsertPage(q)
    \/ \E s \in Sessions :
        \/ BeginQuery(s)
        \/ \E kind \in Kinds : Select(s, kind)
        \/ ClearSelection(s)
        \/ \E op \in Operations : BeginOperation(s, op) \/ EndOperation(s, op)
        \/ BeginRefresh(s)
        \/ \E t \in tickets : ApplyRefresh(s, t)
        \/ \E readable \in BOOLEAN : Refresh(s, readable) \/ FinishMutation(s, readable)
        \/ ResolveLock(s)
        \/ Acquire(s)
        \/ MutationSucceeds(s)
        \/ MutationFails(s)
        \/ \E r \in Repositories : SwitchRepository(s, r)

Spec == Init /\ [][Next]_vars

-----------------------------------------------------------------------------
\* The shape of the state; in particular no ticket in flight is of a generation
\* its session has yet to reach, which a later refresh could be mistaken for.
TypeOK ==
    /\ physical \in [Keys -> Snapshots]
    /\ registry \in [Keys -> Nat]
    /\ allocated \in Nat
    /\ session \in [Sessions -> SessionState]
    /\ running \in [Sessions -> {"no", "waiting", "mutating", "mutated"}]
    /\ cache \in [Sessions -> [Repositories -> Pages \cup {NoPage}]]
    /\ queries \subseteq Queries
    /\ \A q \in queries : q.checked => q.snapshot # NotRead
    /\ tickets \subseteq Tickets
    /\ \A t \in tickets : t.generation <= session[t.of].generation
    /\ ownChange \in [Sessions -> 0..MaxRefs]

\* Two sessions never run a mutation of the same physical repository at the
\* same time, even through two worktrees, after any number of switches, and
\* although each session resolves its lock once and then keeps it.
MutationsSerialized ==
    \A s, other \in Sessions :
        /\ running[s] = "mutating"
        /\ running[other] = "mutating"
        /\ KeyOf(s) = KeyOf(other)
        => s = other

\* A session only ever shows what belongs to the repository it has open: no
\* status of a refresh begun before a switch, no selection and no operation
\* of the previous repository.  (Pages have the repository in their keys, but those of a
\* repository left are dropped: what is still there was asked for before the switch.)
NothingOfAnotherRepository ==
    \A s \in Sessions :
        /\ session[s].status.at \in {"none", session[s].repository}
        /\ session[s].selection.at \in {"none", session[s].repository}
        /\ \A r \in Repositories :
              cache[s][r] # NoPage /\ cache[s][r].overtaken = "no" => r = session[s].repository
        /\ \A a \in session[s].active : a[2] = session[s].repository

\* As long as a session keeps its repository open, its status never goes back
\* in time: answers of overlapping refreshes may arrive in any order.
StatusNeverGoesBack ==
    [][\A s \in Sessions :
          /\ session[s].status # Unknown
          /\ session'[s].status # Unknown
          /\ session'[s].repository = session[s].repository
          => session'[s].status.shown >= session[s].status.shown]_vars

\* What the cache serves of the repository open.  Late is a page that was read before an
\* invalidation and stored after it, which invalidate_all does not prevent although its doc
\* says so (README, finding 17): the properties are about the others.
Served(s) == cache[s][session[s].repository]
ServedInTime(s) == Served(s) # NoPage /\ Served(s).overtaken # "read"

\* A page is never older than the status next to it: a status that reveals a change takes
\* the pages with it, whatever was asked for, read and stored around it, late pages excepted.
CacheNotOlderThanStatus ==
    \A s \in Sessions :
        ServedInTime(s) /\ session[s].status # Unknown =>
            Served(s).snapshot.shown >= session[s].status.shown

\* Once run_mutation has returned success, no page predates the mutation, even when the
\* refresh after it failed; late pages excepted.
CacheSeesOwnMutations ==
    \A s \in Sessions :
        running[s] # "mutated" /\ ServedInTime(s) => Served(s).snapshot.refs >= ownChange[s]

(***************************************************************************)
(* Why mutations are serialized: a registry lock belongs to one key for    *)
(* ever, and a session that has a lock has the lock of the repository it   *)
(* has open.                                                               *)
(***************************************************************************)
LockInv ==
    /\ \A k \in Keys : registry[k] <= allocated
    /\ \A k, other \in Keys : registry[k] # NoLock /\ registry[k] = registry[other] => k = other
    /\ \A s \in Sessions : session[s].lock # NoLock => session[s].lock = registry[KeyOf(s)]
    /\ \A s \in Sessions :
          running[s] \in {"waiting", "mutating"} => session[s].lock # NoLock
    /\ \A s, other \in Sessions :
          running[s] = "mutating" /\ Holds(other, session[s].lock) => s = other

\* Mutations as the sessions run them are mutations as they are promised.
Mutating(s, k) == running[s] = "mutating" /\ KeyOf(s) = k

Mutator(k) ==
    IF \E s \in Sessions : Mutating(s, k)
    THEN CHOOSE s \in Sessions : Mutating(s, k)
    ELSE Nobody

Promised == INSTANCE MutationLocks WITH mutator <- [k \in Keys |-> Mutator(k)]

\* run_mutation is a mutex per physical repository: the sessions implement MutationLocks.
SerializesMutations == Promised!Spec
=============================================================================
