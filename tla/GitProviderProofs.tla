-------------------------- MODULE GitProviderProofs --------------------------
(***************************************************************************)
(* Proofs about GitProvider, for any branch and any number of acts of      *)
(* programs outside GitSail, at any moment.                                *)
(***************************************************************************)
EXTENDS GitProvider, SequenceTheorems, FiniteSetTheorems, WellFoundedInduction, TLAPS

(***************************************************************************)
(* The steps of the calls.                                                 *)
(***************************************************************************)
CallFields ==
  {"name", "steps", "kind", "plan", "seen", "rewords", "failed", "looks", "since",
   "cleared", "matched"}

Looping == {<<"look">>, <<"amend">>, <<"resume">>, <<"continue">>}

\* What may be left of a call's steps.
LeftOf(name, steps) ==
  \/ /\ name \in {"merge", "cherry-pick", "revert"}
     /\ steps \in {<<"none pending", "run">>, <<"run">>, <<"inspect">>}
  \/ /\ name = "rebase"
     /\ steps \in {<<"none pending", "clean", "run">>, <<"clean", "run">>, <<"run">>,
                   <<"inspect">>}
  \/ /\ name = "plan"
     /\ steps \in {<<"none pending", "onto", "head", "clean", "run">>,
                   <<"onto", "head", "clean", "run">>, <<"head", "clean", "run">>,
                   <<"clean", "run">>, <<"run">>} \cup Looping
  \/ name = "reset" /\ steps \in {<<"none pending", "head", "run">>, <<"head", "run">>, <<"run">>}
  \/ name = "amend" /\ steps \in {<<"head", "run">>, <<"run">>}
  \/ name \in {"continue", "skip", "abort"} /\ steps \in {<<"pending", "run">>, <<"run">>}
  \/ name = "take" /\ steps \in {<<"checkout", "add">>, <<"add">>}
  \/ name = "mark" /\ steps = <<"add">>
  \/ name = "none" /\ steps = <<>>

CallNames ==
  {"none", "merge", "cherry-pick", "revert", "rebase", "plan", "reset", "amend", "continue",
   "skip", "abort", "take", "mark"}

CallShape ==
  /\ acts \in Nat /\ call.since \in Nat /\ call.since <= acts
  /\ call.cleared \in Nat /\ call.cleared <= acts /\ call.matched \in Nat /\ call.matched <= acts
  /\ DOMAIN call = CallFields
  /\ call.name \in CallNames /\ LeftOf(call.name, call.steps)
  /\ call.name \in {"amend", "reset", "plan"} => call.seen # <<>>

LEMMA NoCallShape ==
  /\ DOMAIN NoCall = CallFields /\ NoCall.name = "none" /\ NoCall.steps = <<>>
  /\ NoCall.since = 0 /\ NoCall.cleared = 0 /\ NoCall.matched = 0
BY DEF NoCall, CallFields

\* A call that begins has all of its steps left.
LEMMA BeginShape ==
  ASSUME NEW name \in CallNames \ {"none"}, NEW plan, NEW seen, acts \in Nat,
         BeginCall(name, plan, seen), name \in {"amend", "reset", "plan"} => seen # <<>>
  PROVE  /\ CallShape'
         /\ call'.name = name /\ call'.plan = plan /\ call'.seen = seen
         /\ call'.rewords = {} /\ call'.looks = 0 /\ call'.failed = FALSE
         /\ call'.steps \notin {<<"run">>, <<"clean", "run">>, <<"inspect">>} \cup Looping
         /\ (name # "amend" => call'.steps # <<"head", "run">>)
<1>1. /\ DOMAIN call' = CallFields /\ call'.name = name /\ call'.steps = Steps(name)
      /\ call'.plan = plan /\ call'.seen = seen /\ call'.since = acts /\ acts' = acts
      /\ call'.cleared = 0 /\ call'.matched = 0
      /\ call'.rewords = {} /\ call'.looks = 0 /\ call'.failed = FALSE
  BY DEF BeginCall, NoCall, CallFields
<1>2. LeftOf(name, Steps(name))
  BY DEF Steps, LeftOf, CallNames
<1>3. Steps(name) \notin {<<"run">>, <<"clean", "run">>, <<"inspect">>} \cup Looping
  BY DEF Steps, Looping, CallNames
<1>4. name # "amend" => Steps(name) # <<"head", "run">>
  BY DEF Steps, CallNames
<1> QED BY <1>1, <1>2, <1>3, <1>4 DEF CallShape

\* The step a call is at tells what is left of its steps.
LEMMA HeadTells ==
  ASSUME NEW name, NEW steps, LeftOf(name, steps), steps # <<>>
  PROVE  /\ Head(steps) = "none pending" =>
              \/ name \in {"merge", "cherry-pick", "revert"} /\ Tail(steps) = <<"run">>
              \/ name = "rebase" /\ Tail(steps) = <<"clean", "run">>
              \/ name = "plan" /\ Tail(steps) = <<"onto", "head", "clean", "run">>
              \/ name = "reset" /\ Tail(steps) = <<"head", "run">>
         /\ Head(steps) = "onto" => name = "plan" /\ Tail(steps) = <<"head", "clean", "run">>
         /\ Head(steps) = "head" =>
              \/ name = "plan" /\ Tail(steps) = <<"clean", "run">>
              \/ name \in {"reset", "amend"} /\ Tail(steps) = <<"run">>
         /\ Head(steps) = "clean" =>
              name \in {"plan", "rebase"} /\ steps = <<"clean", "run">> /\ Tail(steps) = <<"run">>
         /\ Head(steps) = "pending" =>
              name \in {"continue", "skip", "abort"} /\ Tail(steps) = <<"run">>
         /\ Head(steps) = "inspect" =>
              name \in {"merge", "cherry-pick", "revert", "rebase"} /\ steps = <<"inspect">>
         /\ Head(steps) = "run" => steps = <<"run">> /\ name \notin {"take", "mark", "none"}
         /\ Head(steps) = "checkout" => name = "take" /\ Tail(steps) = <<"add">>
         /\ Head(steps) = "add" => name \in {"take", "mark"}
         /\ \A step \in {"look", "amend", "resume", "continue"} :
              Head(steps) = step => name = "plan" /\ steps = <<step>>
<1>1. /\ Head(<<"none pending", "run">>) = "none pending" /\ Tail(<<"none pending", "run">>) = <<"run">>
      /\ Head(<<"run">>) = "run"
      /\ Head(<<"inspect">>) = "inspect"
      /\ Head(<<"none pending", "clean", "run">>) = "none pending" /\ Tail(<<"none pending", "clean", "run">>) = <<"clean", "run">>
      /\ Head(<<"clean", "run">>) = "clean" /\ Tail(<<"clean", "run">>) = <<"run">>
      /\ Head(<<"none pending", "onto", "head", "clean", "run">>) = "none pending" /\ Tail(<<"none pending", "onto", "head", "clean", "run">>) = <<"onto", "head", "clean", "run">>
      /\ Head(<<"onto", "head", "clean", "run">>) = "onto" /\ Tail(<<"onto", "head", "clean", "run">>) = <<"head", "clean", "run">>
      /\ Head(<<"head", "clean", "run">>) = "head" /\ Tail(<<"head", "clean", "run">>) = <<"clean", "run">>
      /\ Head(<<"look">>) = "look"
      /\ Head(<<"amend">>) = "amend"
      /\ Head(<<"resume">>) = "resume"
      /\ Head(<<"continue">>) = "continue"
      /\ Head(<<"none pending", "head", "run">>) = "none pending" /\ Tail(<<"none pending", "head", "run">>) = <<"head", "run">>
      /\ Head(<<"head", "run">>) = "head" /\ Tail(<<"head", "run">>) = <<"run">>
      /\ Head(<<"pending", "run">>) = "pending" /\ Tail(<<"pending", "run">>) = <<"run">>
      /\ Head(<<"checkout", "add">>) = "checkout" /\ Tail(<<"checkout", "add">>) = <<"add">>
      /\ Head(<<"add">>) = "add"
  OBVIOUS
<1>2. ASSUME Head(steps) = "none pending"
      PROVE  \/ name \in {"merge", "cherry-pick", "revert"} /\ Tail(steps) = <<"run">>
             \/ name = "rebase" /\ Tail(steps) = <<"clean", "run">>
             \/ name = "plan" /\ Tail(steps) = <<"onto", "head", "clean", "run">>
             \/ name = "reset" /\ Tail(steps) = <<"head", "run">>
  BY <1>1, <1>2 DEF LeftOf, Looping
<1>3. ASSUME Head(steps) = "onto" 
      PROVE  name = "plan" /\ Tail(steps) = <<"head", "clean", "run">>
  BY <1>1, <1>3 DEF LeftOf, Looping
<1>4. ASSUME Head(steps) = "head" 
      PROVE  \/ name = "plan" /\ Tail(steps) = <<"clean", "run">>
             \/ name \in {"reset", "amend"} /\ Tail(steps) = <<"run">>
  BY <1>1, <1>4 DEF LeftOf, Looping
<1>5. ASSUME Head(steps) = "clean" 
      PROVE  name \in {"plan", "rebase"} /\ steps = <<"clean", "run">> /\ Tail(steps) = <<"run">>
  BY <1>1, <1>5 DEF LeftOf, Looping
<1>6. ASSUME Head(steps) = "pending" 
      PROVE  name \in {"continue", "skip", "abort"} /\ Tail(steps) = <<"run">>
  BY <1>1, <1>6 DEF LeftOf, Looping
<1>7. ASSUME Head(steps) = "inspect" 
      PROVE  name \in {"merge", "cherry-pick", "revert", "rebase"} /\ steps = <<"inspect">>
  BY <1>1, <1>7 DEF LeftOf, Looping
<1>8. ASSUME Head(steps) = "run" 
      PROVE  steps = <<"run">> /\ name \notin {"take", "mark", "none"}
  BY <1>1, <1>8 DEF LeftOf, Looping
<1>9. ASSUME Head(steps) = "checkout" 
      PROVE  name = "take" /\ Tail(steps) = <<"add">>
  BY <1>1, <1>9 DEF LeftOf, Looping
<1>10. ASSUME Head(steps) = "add" 
      PROVE  name \in {"take", "mark"}
  BY <1>1, <1>10 DEF LeftOf, Looping
<1>11. ASSUME NEW step \in {"look", "amend", "resume", "continue"}, Head(steps) = step
      PROVE  name = "plan" /\ steps = <<step>>
  BY <1>1, <1>11 DEF LeftOf, Looping
<1> QED BY <1>2, <1>3, <1>4, <1>5, <1>6, <1>7, <1>8, <1>9, <1>10, <1>11

(***************************************************************************)
(* The branch after each number of lines of a list, and of entries of a    *)
(* plan.                                                                   *)
(***************************************************************************)
LEMMA LeastNumber ==
  ASSUME NEW T, T \subseteq Nat, T # {}
  PROVE  \E x \in T : \A y \in T : x <= y
<1> DEFINE R == OpToRel(<, Nat)
<1>1. IsWellFoundedOn(R, Nat)
  BY NatLessThanWellFounded
<1>2. R = {pair \in Nat \X Nat : pair[1] < pair[2]}
  BY DEF OpToRel
<1> HIDE DEF R
<1>3. PICK x \in T : \A y \in T : ~ (<<y, x>> \in R)
  BY <1>1, WFMin
<1>4. \A y \in T : ~ (y < x)
  BY <1>2, <1>3
<1> QED BY <1>3, <1>4

LEMMA ReachedUnfolds ==
  ASSUME NEW commits, NEW todo, Len(todo) \in Nat
  PROVE  /\ Reached(commits, todo)[0] = commits
         /\ \A k \in 1..Len(todo) :
              Reached(commits, todo)[k] = Applied(Reached(commits, todo)[k - 1], todo[k])
<1> DEFINE IsReached(g, m) ==
             g = [k \in 0..m |-> IF k = 0 THEN commits ELSE Applied(g[k - 1], todo[k])]
           Missing == {m \in 0..Len(todo) : ~ \E g : IsReached(g, m)}
<1>1. Missing = {}
  <2>1. SUFFICES ASSUME Missing # {} PROVE FALSE
    OBVIOUS
  <2>2. PICK m \in Missing : \A other \in Missing : m <= other
    <3>1. Missing \subseteq Nat
      OBVIOUS
    <3> HIDE DEF Missing
    <3> QED BY <2>1, <3>1, LeastNumber
  <2>3. CASE m = 0
    <3>1. IsReached([k \in 0..0 |-> commits], 0)
      OBVIOUS
    <3> QED BY <2>2, <2>3, <3>1
  <2>4. CASE m # 0
    <3>1. m - 1 \in 0..Len(todo) /\ m - 1 \notin Missing
      BY <2>2, <2>4
    <3>2. PICK g : IsReached(g, m - 1)
      BY <3>1
    <3> DEFINE h == [k \in 0..m |-> IF k = m THEN Applied(g[m - 1], todo[m]) ELSE g[k]]
    <3>3. \A k \in 0..m - 1 : h[k] = g[k]
      BY <2>2
    <3>4. \A k \in 0..m : h[k] = IF k = 0 THEN commits ELSE Applied(h[k - 1], todo[k])
      <4>1. \A k \in 0..m - 1 : g[k] = IF k = 0 THEN commits ELSE Applied(g[k - 1], todo[k])
        BY <3>2
      <4>2. h[m] = Applied(h[m - 1], todo[m])
        BY <2>2, <2>4, <3>3
      <4>3. \A k \in 1..m - 1 : h[k] = g[k] /\ h[k - 1] = g[k - 1]
        BY <2>2, <3>3
      <4> HIDE DEF h
      <4> QED BY <2>2, <2>4, <3>3, <4>1, <4>2, <4>3
    <3>5. IsReached(h, m)
      BY <3>4
    <3> QED BY <2>2, <3>5
  <2> QED BY <2>3, <2>4
<1>2. PICK g : IsReached(g, Len(todo))
  <2>1. Len(todo) \notin Missing
    BY <1>1
  <2> QED BY <2>1
<1>3. IsReached(Reached(commits, todo), Len(todo))
  <2>1. Reached(commits, todo) = CHOOSE f : IsReached(f, Len(todo))
    BY DEF Reached
  <2> HIDE DEF IsReached
  <2> QED BY <1>2, <2>1
<1> QED BY <1>3

LEMMA BuiltUnfolds ==
  ASSUME NEW plan, Len(plan) \in Nat
  PROVE  /\ Built(plan)[0] = <<>>
         /\ \A k \in 1..Len(plan) :
              Built(plan)[k] = Planned(Built(plan)[k - 1], plan[k])
<1> DEFINE IsBuilt(g, m) ==
             g = [k \in 0..m |-> IF k = 0 THEN <<>> ELSE Planned(g[k - 1], plan[k])]
           Missing == {m \in 0..Len(plan) : ~ \E g : IsBuilt(g, m)}
<1>1. Missing = {}
  <2>1. SUFFICES ASSUME Missing # {} PROVE FALSE
    OBVIOUS
  <2>2. PICK m \in Missing : \A other \in Missing : m <= other
    <3>1. Missing \subseteq Nat
      OBVIOUS
    <3> HIDE DEF Missing
    <3> QED BY <2>1, <3>1, LeastNumber
  <2>3. CASE m = 0
    <3>1. IsBuilt([k \in 0..0 |-> <<>>], 0)
      OBVIOUS
    <3> QED BY <2>2, <2>3, <3>1
  <2>4. CASE m # 0
    <3>1. m - 1 \in 0..Len(plan) /\ m - 1 \notin Missing
      BY <2>2, <2>4
    <3>2. PICK g : IsBuilt(g, m - 1)
      BY <3>1
    <3> DEFINE h == [k \in 0..m |-> IF k = m THEN Planned(g[m - 1], plan[m]) ELSE g[k]]
    <3>3. \A k \in 0..m - 1 : h[k] = g[k]
      BY <2>2
    <3>4. \A k \in 0..m : h[k] = IF k = 0 THEN <<>> ELSE Planned(h[k - 1], plan[k])
      <4>1. \A k \in 0..m - 1 : g[k] = IF k = 0 THEN <<>> ELSE Planned(g[k - 1], plan[k])
        BY <3>2
      <4>2. h[m] = Planned(h[m - 1], plan[m])
        BY <2>2, <2>4, <3>3
      <4>3. \A k \in 1..m - 1 : h[k] = g[k] /\ h[k - 1] = g[k - 1]
        BY <2>2, <3>3
      <4> HIDE DEF h
      <4> QED BY <2>2, <2>4, <3>3, <4>1, <4>2, <4>3
    <3>5. IsBuilt(h, m)
      BY <3>4
    <3> QED BY <2>2, <3>5
  <2> QED BY <2>3, <2>4
<1>2. PICK g : IsBuilt(g, Len(plan))
  <2>1. Len(plan) \notin Missing
    BY <1>1
  <2> QED BY <2>1
<1>3. IsBuilt(Built(plan), Len(plan))
  <2>1. Built(plan) = CHOOSE f : IsBuilt(f, Len(plan))
    BY DEF Built
  <2> HIDE DEF IsBuilt
  <2> QED BY <1>2, <2>1
<1> QED BY <1>3

(***************************************************************************)
(* Types.                                                                  *)
(***************************************************************************)
AnyCommits == [changes : SUBSET Nat, reworded : BOOLEAN]
Heads == [onto : Nat, commits : Seq(AnyCommits)]
Items == [command : {"pick", "edit", "squash", "drop"}, commit : AnyCommits]
Operations ==
  [kind : PendingKinds, stop : {"none", "conflict", "empty", "edit", "list"}, todo : Seq(Items),
   interactive : BOOLEAN, from : Heads]
InProgress ==
  {op \in Operations : op.kind = "rebase" /\ op.stop = "conflict" => op.todo # <<>>}
Trees ==
  [head : Heads, operation : {NoOperation} \cup InProgress, unmerged : BOOLEAN, dirty : BOOLEAN]
Exits == {"ok", "process", "locked", "empty", "unmerged"}

LEMMA NothingInProgress ==
  /\ NoOperation.kind = "none" /\ NoOperation.stop = "none"
  /\ \A op \in InProgress : op.kind # "none" /\ op # NoOperation
BY DEF NoOperation, InProgress, Operations, PendingKinds

LEMMA ForeignType == ForeignCommit \in AnyCommits
BY DEF ForeignCommit, AnyCommits

LEMMA AppliedType ==
  ASSUME NEW commits \in Seq(AnyCommits), NEW item \in Items
  PROVE  Applied(commits, item) \in Seq(AnyCommits)
<1>1. item.commit \in AnyCommits
  BY DEF Items
<1>2. CASE item.command = "squash" /\ commits # <<>>
  <2> DEFINE n == Len(commits)
             last == [commits[n] EXCEPT !.changes = @ \cup item.commit.changes]
  <2>1. n \in 1..Len(commits)
    BY <1>2
  <2>2. last \in AnyCommits
    <3>1. commits[n] \in AnyCommits
      BY <2>1, ElementOfSeq
    <3> QED BY <1>1, <3>1 DEF AnyCommits
  <2>3. Applied(commits, item) = [commits EXCEPT ![n] = last]
    BY <1>2 DEF Applied
  <2> HIDE DEF last, n
  <2> QED BY <2>1, <2>2, <2>3, ExceptSeq
<1>3. CASE ~ (item.command = "squash" /\ commits # <<>>)
  BY <1>1, <1>3 DEF Applied
<1> QED BY <1>2, <1>3

LEMMA ReachedType ==
  ASSUME NEW commits \in Seq(AnyCommits), NEW todo \in Seq(Items), NEW k \in 0..Len(todo)
  PROVE  Reached(commits, todo)[k] \in Seq(AnyCommits)
<1> DEFINE Other == {m \in 0..Len(todo) : Reached(commits, todo)[m] \notin Seq(AnyCommits)}
<1>1. SUFFICES ASSUME Other # {} PROVE FALSE
  OBVIOUS
<1>2. Len(todo) \in Nat /\ Other \subseteq Nat
  OBVIOUS
<1>3. PICK m \in Other : \A other \in Other : m <= other
  <2> HIDE DEF Other
  <2> QED BY <1>1, <1>2, LeastNumber
<1>4. m # 0
  BY <1>2, <1>3, ReachedUnfolds
<1>5. m - 1 \in 0..Len(todo) /\ m - 1 \notin Other
  BY <1>2, <1>3, <1>4
<1>6. Reached(commits, todo)[m] = Applied(Reached(commits, todo)[m - 1], todo[m])
  BY <1>2, <1>3, <1>4, ReachedUnfolds
<1>7. Reached(commits, todo)[m - 1] \in Seq(AnyCommits) /\ todo[m] \in Items
  BY <1>3, <1>4, <1>5
<1> QED BY <1>3, <1>6, <1>7, AppliedType

LEMMA TreeFields ==
  ASSUME NEW t \in Trees
  PROVE  /\ DOMAIN t = {"head", "operation", "unmerged", "dirty"}
         /\ t.head \in Heads /\ t.unmerged \in BOOLEAN /\ t.dirty \in BOOLEAN
         /\ t.operation \in {NoOperation} \cup InProgress
         /\ t.head.onto \in Nat /\ t.head.commits \in Seq(AnyCommits)
         /\ DOMAIN t.head = {"onto", "commits"}
         /\ t.operation.kind = "none" => t.operation = NoOperation
         /\ t.operation.kind # "none" => t.operation \in InProgress
BY NothingInProgress DEF Trees, Heads

\* A stop of a rebase, as git's run of the list has it.
Stopped(t, commits, why, todo) ==
  [t EXCEPT !.head.commits = commits, !.unmerged = (why = "conflict"),
            !.operation.stop = why, !.operation.todo = todo]

LEMMA StopType ==
  ASSUME NEW t \in Trees, t.operation.kind # "none", NEW commits \in Seq(AnyCommits),
         NEW why \in {"conflict", "empty", "edit"}, NEW todo \in Seq(Items),
         why = "conflict" => todo # <<>>,
         NEW s, s = Stopped(t, commits, why, todo)
  PROVE  /\ s \in Trees
         /\ s.head.onto = t.head.onto /\ s.head.commits = commits
         /\ s.operation.kind = t.operation.kind /\ s.operation.stop = why
         /\ s.operation.todo = todo /\ s.operation # NoOperation
<1>1. t.operation \in InProgress
  BY TreeFields
<1> DEFINE head == [t.head EXCEPT !.commits = commits]
           operation == [t.operation EXCEPT !.stop = why, !.todo = todo]
<1>2. head \in Heads /\ head.onto = t.head.onto /\ head.commits = commits
  BY TreeFields DEF Heads
<1>3. /\ operation \in InProgress /\ operation.kind = t.operation.kind
      /\ operation.stop = why /\ operation.todo = todo
  BY <1>1 DEF InProgress, Operations
<1>4. PICK unmerged \in BOOLEAN :
        s = [t EXCEPT !.head = head, !.unmerged = unmerged, !.operation = operation]
  BY TreeFields, <1>1 DEF Stopped
<1> HIDE DEF head, operation
<1>5. s \in Trees /\ s.head = head /\ s.operation = operation
  BY <1>2, <1>3, <1>4 DEF Trees
<1> QED BY <1>2, <1>3, <1>5, NothingInProgress

LEMMA DoneType ==
  ASSUME NEW t \in Trees, NEW commits \in Seq(AnyCommits), NEW o, o = Done(t, commits)
  PROVE  /\ o.exit = "ok" /\ o.tree \in Trees
         /\ o.tree.operation = NoOperation
         /\ o.tree.head.onto = t.head.onto /\ o.tree.head.commits = commits
<1> DEFINE head == [t.head EXCEPT !.commits = commits]
<1>1. head \in Heads /\ head.onto = t.head.onto /\ head.commits = commits
  BY TreeFields DEF Heads
<1>2. o.exit = "ok" /\ o.tree = [t EXCEPT !.head = head, !.operation = NoOperation, !.unmerged = FALSE]
  BY TreeFields DEF Done, Outcome
<1> HIDE DEF head
<1> QED BY <1>1, <1>2 DEF Trees

\* What a run of a list has done, where git says that it is well.
Worked(o, onto, commits, todo) ==
  \/ /\ \A i \in 1..Len(todo) : todo[i].command # "edit"
     /\ o.tree.operation = NoOperation
     /\ o.tree.head.onto = onto
     /\ o.tree.head.commits = Reached(commits, todo)[Len(todo)]
  \/ \E i \in 1..Len(todo) :
       /\ todo[i].command = "edit" /\ \A j \in 1..i - 1 : todo[j].command # "edit"
       /\ o.tree.head.onto = onto
       /\ o.tree.head.commits = Reached(commits, todo)[i]
       /\ o.tree.operation.kind = "rebase" /\ o.tree.operation.stop = "edit"
       /\ o.tree.operation.todo = SubSeq(todo, i + 1, Len(todo))

\* What a run of the list leaves, and what it has done where git says that it is well.
LEMMA RunTells ==
  ASSUME NEW t \in Trees, t.operation.kind = "rebase", NEW commits \in Seq(AnyCommits),
         NEW todo \in Seq(Items), NEW o \in RunTodo(t, commits, todo)
  PROVE  /\ o.tree \in Trees /\ o.exit \in {"ok", "process"}
         /\ o.exit = "ok" => Worked(o, t.head.onto, commits, todo)
<1> DEFINE reached == Reached(commits, todo)
           n == Len(todo)
           Stop(why, k, rest) ==
             [t EXCEPT !.head.commits = reached[k], !.unmerged = (why = "conflict"),
                       !.operation.stop = why, !.operation.todo = SubSeq(todo, rest, n)]
<1>1. n \in Nat /\ t.operation.kind # "none"
  OBVIOUS
<1>2. \A k \in 0..n : reached[k] \in Seq(AnyCommits)
  BY ReachedType
<1>3. \A rest \in 1..n + 1 : SubSeq(todo, rest, n) \in Seq(Items)
  <2> TAKE rest \in 1..n + 1
  <2>1. \A i \in rest..n : todo[i] \in Items
    BY <1>1
  <2> QED BY <1>1, <2>1, SubSeqProperties
<1>4. ASSUME NEW why \in {"conflict", "empty", "edit"}, NEW k \in 0..n, NEW rest \in 1..n + 1,
             why = "conflict" => rest <= n
      PROVE  /\ Stop(why, k, rest) \in Trees
             /\ Stop(why, k, rest).head.onto = t.head.onto
             /\ Stop(why, k, rest).head.commits = reached[k]
             /\ Stop(why, k, rest).operation.kind = "rebase"
             /\ Stop(why, k, rest).operation.stop = why
             /\ Stop(why, k, rest).operation.todo = SubSeq(todo, rest, n)
  <2>1. reached[k] \in Seq(AnyCommits) /\ SubSeq(todo, rest, n) \in Seq(Items)
    BY <1>2, <1>3
  <2>2. Stop(why, k, rest) = Stopped(t, reached[k], why, SubSeq(todo, rest, n))
    BY DEF Stopped
  <2> HIDE DEF Stop, reached, n
  <2>3. PICK made, left : made = reached[k] /\ left = SubSeq(todo, rest, n)
    OBVIOUS
  <2>4. made \in Seq(AnyCommits) /\ left \in Seq(Items)
    BY <2>1, <2>3
  <2>5. why = "conflict" => left # <<>>
    <3>1. \A i \in rest..n : todo[i] \in Items
      BY <1>1 DEF n
    <3>2. rest <= n => Len(SubSeq(todo, rest, n)) # 0
      BY <1>1, <3>1, SubSeqProperties
    <3> QED BY <1>4, <2>3, <3>2
  <2>6. /\ Stopped(t, made, why, left) \in Trees
        /\ Stopped(t, made, why, left).head.onto = t.head.onto
        /\ Stopped(t, made, why, left).head.commits = made
        /\ Stopped(t, made, why, left).operation.kind = t.operation.kind
        /\ Stopped(t, made, why, left).operation.stop = why
        /\ Stopped(t, made, why, left).operation.todo = left
    BY <1>1, <2>4, <2>5, StopType
  <2> QED BY <2>2, <2>3, <2>6
<1>5. \/ /\ o = Done(t, reached[n])
         /\ \A i \in 1..n : ~ ((\A j \in 1..i - 1 : todo[j].command # "edit") /\ todo[i].command = "edit")
      \/ \E i \in 1..n : o = Outcome(Stop("conflict", i - 1, i), "process")
      \/ \E i \in 1..n : o = Outcome(Stop("empty", i - 1, i + 1), "process")
      \/ \E i \in 1..n : /\ o = Outcome(Stop("edit", i, i + 1), "ok")
                         /\ todo[i].command = "edit"
                         /\ \A j \in 1..i - 1 : todo[j].command # "edit"
  <2>1. DOMAIN todo = 1..n
    OBVIOUS
  <2> DEFINE Tried == {i \in DOMAIN todo : \A j \in 1..i - 1 : todo[j].command # "edit"}
             Applying == {i \in Tried : todo[i].command # "drop"}
             Edits == {i \in Tried : todo[i].command = "edit"}
  <2>2. o \in (IF Edits = {} THEN {Done(t, reached[n])} ELSE {})
             \cup {Outcome(Stop("conflict", i - 1, i), "process") : i \in Applying}
             \cup {Outcome(Stop("empty", i - 1, i + 1), "process") :
                      i \in {j \in Applying : t.operation.interactive}}
             \cup {Outcome(Stop("edit", i, i + 1), "ok") : i \in Edits}
    BY DEF RunTodo
  <2> HIDE DEF Stop, reached, n
  <2>3. \A i \in Applying : i \in 1..n
    BY <2>1
  <2> QED BY <2>1, <2>2, <2>3
<1> HIDE DEF Stop
<1>6. CASE /\ o = Done(t, reached[n])
           /\ \A i \in 1..n : ~ ((\A j \in 1..i - 1 : todo[j].command # "edit") /\ todo[i].command = "edit")
  <2>1. \A i \in 1..n : todo[i].command # "edit"
    <3> DEFINE Edits == {i \in 1..n : todo[i].command = "edit"}
    <3>1. SUFFICES ASSUME Edits # {} PROVE FALSE
      OBVIOUS
    <3>2. Edits \subseteq Nat
      OBVIOUS
    <3>3. PICK i \in Edits : \A j \in Edits : i <= j
      <4> HIDE DEF Edits
      <4> QED BY <3>1, <3>2, LeastNumber
    <3>4. \A j \in 1..i - 1 : j \in 1..n /\ j \notin Edits
      BY <1>1, <3>3
    <3> QED BY <1>6, <3>3, <3>4
  <2>2. reached[n] \in Seq(AnyCommits)
    BY <1>1, <1>2
  <2> HIDE DEF reached
  <2>3. /\ o.exit = "ok" /\ o.tree \in Trees /\ o.tree.operation = NoOperation
        /\ o.tree.head.onto = t.head.onto /\ o.tree.head.commits = reached[n]
    BY <1>6, <2>2, DoneType
  <2> QED BY <2>1, <2>3 DEF reached, Worked
<1>7. CASE \E i \in 1..n : o = Outcome(Stop("conflict", i - 1, i), "process")
  <2>1. PICK i \in 1..n : o.tree = Stop("conflict", i - 1, i) /\ o.exit = "process"
    BY <1>7 DEF Outcome
  <2>2. i - 1 \in 0..n /\ i \in 1..n + 1 /\ i <= n
    BY <1>1
  <2>3. Stop("conflict", i - 1, i) \in Trees
    <3> HIDE DEF reached, n
    <3> QED BY <1>4, <2>2
  <2> QED BY <2>1, <2>3
<1>8. CASE \E i \in 1..n : o = Outcome(Stop("empty", i - 1, i + 1), "process")
  <2>1. PICK i \in 1..n : o.tree = Stop("empty", i - 1, i + 1) /\ o.exit = "process"
    BY <1>8 DEF Outcome
  <2>2. i - 1 \in 0..n /\ i + 1 \in 1..n + 1
    BY <1>1
  <2> HIDE DEF reached, n
  <2> QED BY <1>4, <2>1, <2>2
<1>9. CASE \E i \in 1..n : /\ o = Outcome(Stop("edit", i, i + 1), "ok")
                           /\ todo[i].command = "edit"
                           /\ \A j \in 1..i - 1 : todo[j].command # "edit"
  <2>1. PICK i \in 1..n : /\ o.tree = Stop("edit", i, i + 1) /\ o.exit = "ok"
                          /\ todo[i].command = "edit"
                          /\ \A j \in 1..i - 1 : todo[j].command # "edit"
    BY <1>9 DEF Outcome
  <2>2. i \in 0..n /\ i + 1 \in 1..n + 1
    BY <1>1
  <2>3. /\ o.tree \in Trees /\ o.tree.head.onto = t.head.onto
        /\ o.tree.head.commits = reached[i] /\ o.tree.operation.kind = "rebase"
        /\ o.tree.operation.stop = "edit" /\ o.tree.operation.todo = SubSeq(todo, i + 1, n)
    <3> HIDE DEF reached, n
    <3> QED BY <1>4, <2>1, <2>2
  <2> QED BY <2>1, <2>3 DEF Worked
<1> QED BY <1>5, <1>6, <1>7, <1>8, <1>9

LEMMA RefusalsType ==
  ASSUME NEW t \in Trees, NEW o \in Refusals(t)
  PROVE  o.tree \in Trees /\ o.exit \in {"process", "locked"} /\ o.tree = t
BY DEF Refusals, Outcome

LEMMA RebaseTells ==
  ASSUME NEW t \in Trees, NEW onto \in Nat, NEW todo \in Seq(Items),
         NEW interactive \in BOOLEAN, NEW o \in Rebase(t, onto, todo, interactive)
  PROVE  /\ o.tree \in Trees /\ o.exit \in Exits
         /\ o.exit = "ok" => Accepts(todo) /\ Worked(o, onto, <<>>, todo)
<1> DEFINE head == [onto |-> onto, commits |-> <<>>]
           operation == [kind |-> "rebase", stop |-> "list", todo |-> todo,
                         interactive |-> interactive, from |-> t.head]
           begun == [t EXCEPT !.head = head, !.operation = operation]
<1>1. begun \in Trees /\ begun.head.onto = onto /\ begun.operation.kind = "rebase"
  <2>1. head \in Heads /\ head.onto = onto
    BY DEF Heads
  <2>2. operation \in InProgress /\ operation.kind = "rebase"
    BY TreeFields DEF InProgress, Operations, PendingKinds
  <2> HIDE DEF head, operation
  <2> QED BY <2>1, <2>2 DEF Trees
<1>2. \/ o \in Refusals(t)
      \/ Accepts(todo) /\ o \in RunTodo(begun, <<>>, todo)
      \/ o = Outcome(begun, "process")
  BY DEF Rebase
<1> HIDE DEF begun
<1>3. CASE o \in Refusals(t)
  BY <1>3, RefusalsType DEF Exits
<1>4. CASE Accepts(todo) /\ o \in RunTodo(begun, <<>>, todo)
  <2>1. <<>> \in Seq(AnyCommits)
    OBVIOUS
  <2>2. /\ o.tree \in Trees /\ o.exit \in {"ok", "process"}
        /\ o.exit = "ok" => Worked(o, onto, <<>>, todo)
    <3>1. PICK none : none = <<>>
      OBVIOUS
    <3> QED BY <1>1, <1>4, <2>1, <3>1, RunTells
  <2> QED BY <1>4, <2>2 DEF Exits
<1>5. CASE o = Outcome(begun, "process")
  BY <1>1, <1>5 DEF Outcome, Exits
<1> QED BY <1>2, <1>3, <1>4, <1>5

LEMMA CombineType ==
  ASSUME NEW t \in Trees, NEW kind \in {"merge", "cherry-pick", "revert"},
         NEW o \in Combine(t, kind)
  PROVE  o.tree \in Trees /\ o.exit \in Exits
<1> DEFINE operation(stop) == [NoOperation EXCEPT !.kind = kind, !.stop = stop, !.from = t.head]
           begun(stop) == [t EXCEPT !.unmerged = (stop = "conflict"), !.operation = operation(stop)]
<1>1. \A stop \in {"conflict", "empty"} : begun(stop) \in Trees
  <2> TAKE stop \in {"conflict", "empty"}
  <2>1. operation(stop) \in InProgress
    <3> DEFINE Wide == [kind : PendingKinds \cup {"none"}, stop : {"none", "conflict", "empty"},
                        todo : Seq(Items), interactive : BOOLEAN, from : Heads \cup {<<>>}]
    <3>1. NoOperation \in Wide
      BY DEF NoOperation
    <3>2. /\ operation(stop) \in Wide /\ operation(stop).kind = kind
          /\ operation(stop).stop = stop /\ operation(stop).from = t.head
      BY <3>1, TreeFields DEF PendingKinds
    <3> HIDE DEF operation
    <3> QED BY <3>2, TreeFields DEF InProgress, Operations, PendingKinds
  <2> HIDE DEF operation
  <2> QED BY <2>1 DEF Trees
<1>2. Append(t.head.commits, ForeignCommit) \in Seq(AnyCommits)
  BY TreeFields, ForeignType
<1>3. \/ o \in Refusals(t)
      \/ o = Done(t, Append(t.head.commits, ForeignCommit))
      \/ o = Outcome(begun("conflict"), "process")
      \/ o = Outcome(begun("empty"), "empty")
  BY DEF Combine
<1> HIDE DEF begun
<1>4. CASE o \in Refusals(t)
  BY <1>4, RefusalsType DEF Exits
<1>5. CASE o = Done(t, Append(t.head.commits, ForeignCommit))
  <2>1. PICK made : made = Append(t.head.commits, ForeignCommit)
    OBVIOUS
  <2>2. made \in Seq(AnyCommits) /\ o = Done(t, made)
    BY <1>2, <1>5, <2>1
  <2> QED BY <2>2, DoneType DEF Exits
<1>6. CASE o = Outcome(begun("conflict"), "process") \/ o = Outcome(begun("empty"), "empty")
  BY <1>1, <1>6 DEF Outcome, Exits
<1> QED BY <1>3, <1>4, <1>5, <1>6

\* A continued rebase is run on from where it stopped; after an edit, from its next line.
LEMMA ContinueTells ==
  ASSUME NEW t \in Trees, NEW kind, NEW o \in Continue(t, kind)
  PROVE  /\ o.tree \in Trees /\ o.exit \in Exits
         /\ kind = "rebase" /\ o.exit = "ok" /\ t.operation.stop = "edit" =>
              Worked(o, t.head.onto, t.head.commits, t.operation.todo)
         /\ kind = "rebase" /\ o.exit = "ok" => t.operation.kind = "rebase"
<1> DEFINE op == t.operation
           commits == t.head.commits
<1>1. CASE kind = "rebase"
  <2>1. \/ o = Outcome(t, "locked") \/ o = Outcome(t, "unmerged") \/ o = Outcome(t, "process")
        \/ /\ op.kind = "rebase" /\ op.stop = "conflict"
           /\ o \in RunTodo(t, Applied(commits, Head(op.todo)), Tail(op.todo))
        \/ /\ op.kind = "rebase" /\ op.stop # "conflict"
           /\ o \in RunTodo(t, commits, op.todo)
    BY <1>1 DEF Continue, ContinueRebase
  <2>2. CASE o = Outcome(t, "locked") \/ o = Outcome(t, "unmerged") \/ o = Outcome(t, "process")
    BY <2>2 DEF Outcome, Exits
  <2>3. CASE /\ op.kind = "rebase" /\ op.stop # "conflict"
             /\ o \in RunTodo(t, commits, op.todo)
    <3>1. commits \in Seq(AnyCommits) /\ op.todo \in Seq(Items)
      BY <2>3, TreeFields DEF InProgress, Operations
    <3>2. op.kind = "rebase" => op \in InProgress
      BY TreeFields
    <3> HIDE DEF commits, op
    <3>3. /\ o.tree \in Trees /\ o.exit \in {"ok", "process"}
          /\ o.exit = "ok" => Worked(o, t.head.onto, commits, op.todo)
      BY <2>3, <3>1, RunTells DEF op
    <3> QED BY <2>3, <3>3 DEF Exits, commits, op
  <2>4. CASE /\ op.kind = "rebase" /\ op.stop = "conflict"
             /\ o \in RunTodo(t, Applied(commits, Head(op.todo)), Tail(op.todo))
    <3>1. /\ commits \in Seq(AnyCommits) /\ op.todo \in Seq(Items) /\ op.todo # <<>>
          /\ t.operation.kind = "rebase"
      BY <2>4, TreeFields DEF InProgress, Operations
    <3> HIDE DEF commits, op
    <3>2. Head(op.todo) \in Items /\ Tail(op.todo) \in Seq(Items)
      BY <3>1, HeadTailProperties
    <3>3. Applied(commits, Head(op.todo)) \in Seq(AnyCommits)
      BY <3>1, <3>2, AppliedType
    <3>4. PICK made, left : made = Applied(commits, Head(op.todo)) /\ left = Tail(op.todo)
      OBVIOUS
    <3>5. o.tree \in Trees /\ o.exit \in {"ok", "process"}
      BY <2>4, <3>1, <3>2, <3>3, <3>4, RunTells
    <3> QED BY <2>4, <3>5 DEF Exits, op
  <2> QED BY <2>1, <2>2, <2>3, <2>4
<1>2. CASE kind # "rebase"
  <2>1. \/ o \in Refusals(t)
        \/ o = Done(t, Append(commits, ForeignCommit))
    BY <1>2 DEF Continue
  <2>2. Append(commits, ForeignCommit) \in Seq(AnyCommits)
    BY TreeFields, ForeignType
  <2>3. CASE o \in Refusals(t)
    BY <1>2, <2>3, RefusalsType DEF Exits
  <2>4. CASE o = Done(t, Append(commits, ForeignCommit))
    <3>1. PICK made : made = Append(commits, ForeignCommit)
      OBVIOUS
    <3>2. made \in Seq(AnyCommits) /\ o = Done(t, made)
      BY <2>2, <2>4, <3>1
    <3> QED BY <1>2, <3>2, DoneType DEF Exits
  <2> QED BY <2>1, <2>3, <2>4
<1> QED BY <1>1, <1>2

LEMMA SkipType ==
  ASSUME NEW t \in Trees, NEW kind \in PendingKinds, NEW o \in Skip(t, kind)
  PROVE  o.tree \in Trees /\ o.exit \in Exits
<1> DEFINE op == t.operation
           commits == t.head.commits
<1>1. \/ o \in Refusals(t)
      \/ o = Outcome(t, "ok")
      \/ /\ op.kind = "rebase" /\ op.stop = "conflict"
         /\ o \in RunTodo(t, commits, Tail(op.todo))
      \/ /\ op.kind = "rebase" /\ op.stop # "conflict"
         /\ o \in RunTodo(t, commits, op.todo)
      \/ o = Done(t, commits)
  BY DEF Skip
<1>2. commits \in Seq(AnyCommits)
  BY TreeFields
<1>3. op.kind = "rebase" => op.todo \in Seq(Items) /\ (op.stop = "conflict" => op.todo # <<>>)
  BY TreeFields DEF InProgress, Operations
<1>4. CASE o \in Refusals(t)
  BY <1>4, RefusalsType DEF Exits
<1>5. CASE o = Outcome(t, "ok")
  BY <1>5 DEF Outcome, Exits
<1>6. CASE op.kind = "rebase" /\ op.stop = "conflict" /\ o \in RunTodo(t, commits, Tail(op.todo))
  <2>1. PICK left : left = Tail(op.todo)
    OBVIOUS
  <2>2. left \in Seq(Items)
    BY <1>3, <1>6, <2>1, HeadTailProperties
  <2>3. o \in RunTodo(t, commits, left)
    BY <1>6, <2>1
  <2> HIDE DEF commits
  <2> QED BY <1>2, <1>6, <2>2, <2>3, RunTells DEF Exits, op
<1>7. CASE op.kind = "rebase" /\ op.stop # "conflict" /\ o \in RunTodo(t, commits, op.todo)
  <2> HIDE DEF commits
  <2> QED BY <1>2, <1>3, <1>7, RunTells DEF Exits
<1>8. CASE o = Done(t, commits)
  <2> HIDE DEF commits
  <2> QED BY <1>2, <1>8, DoneType DEF Exits
<1> QED BY <1>1, <1>4, <1>5, <1>6, <1>7, <1>8

LEMMA AbortType ==
  ASSUME NEW t \in Trees, NEW kind, NEW o \in Abort(t, kind), kind # "none"
  PROVE  o.tree \in Trees /\ o.exit \in Exits
<1>1. \/ o \in Refusals(t)
      \/ /\ t.operation.kind = kind
         /\ o = Outcome([t EXCEPT !.head = t.operation.from, !.operation = NoOperation,
                                  !.unmerged = FALSE, !.dirty = FALSE], "ok")
  BY DEF Abort
<1>2. CASE o \in Refusals(t)
  BY <1>2, RefusalsType DEF Exits
<1>3. CASE /\ t.operation.kind = kind
           /\ o = Outcome([t EXCEPT !.head = t.operation.from, !.operation = NoOperation,
                                    !.unmerged = FALSE, !.dirty = FALSE], "ok")
  <2>1. t.operation.from \in Heads
    BY <1>3, TreeFields DEF InProgress, Operations
  <2> QED BY <1>3, <2>1 DEF Outcome, Trees, Exits
<1> QED BY <1>1, <1>2, <1>3

\* An amend rewrites the message of the last commit, and nothing else.
LEMMA AmendTells ==
  ASSUME NEW t \in Trees, NEW o \in Amend(t)
  PROVE  /\ o.tree \in Trees /\ o.exit \in Exits
         /\ o.exit = "ok" =>
              /\ o.tree.operation = t.operation /\ o.tree.head.onto = t.head.onto
              /\ t.head.commits # <<>> =>
                   o.tree.head.commits = [t.head.commits EXCEPT ![Len(t.head.commits)].reworded = TRUE]
<1> DEFINE commits == t.head.commits
           n == Len(commits)
           made == IF commits = <<>> THEN <<[ForeignCommit EXCEPT !.reworded = TRUE]>>
                   ELSE [commits EXCEPT ![n].reworded = TRUE]
<1>1. \/ o \in Refusals(t)
      \/ o = Outcome([t EXCEPT !.head.commits = made], "ok")
  BY DEF Amend
<1>2. CASE o \in Refusals(t)
  BY <1>2, RefusalsType DEF Exits
<1>3. CASE o = Outcome([t EXCEPT !.head.commits = made], "ok")
  <2>1. commits \in Seq(AnyCommits)
    BY TreeFields
  <2>2. made \in Seq(AnyCommits)
    <3>1. CASE commits = <<>>
      <4>1. [ForeignCommit EXCEPT !.reworded = TRUE] \in AnyCommits
        BY ForeignType DEF AnyCommits
      <4> QED BY <3>1, <4>1
    <3>2. CASE commits # <<>>
      <4> DEFINE last == [commits[n] EXCEPT !.reworded = TRUE]
      <4>1. n \in 1..Len(commits)
        BY <2>1, <3>2
      <4>2. last \in AnyCommits
        <5>1. commits[n] \in AnyCommits
          BY <2>1, <4>1, ElementOfSeq
        <5> QED BY <5>1 DEF AnyCommits
      <4>3. made = [commits EXCEPT ![n] = last]
        BY <3>2
      <4> HIDE DEF made, last, n
      <4> QED BY <2>1, <4>1, <4>2, <4>3, ExceptSeq
    <3> QED BY <3>1, <3>2
  <2> HIDE DEF made
  <2>3. [t.head EXCEPT !.commits = made] \in Heads
    BY <2>2, TreeFields DEF Heads
  <2>4. /\ o.tree = [t EXCEPT !.head = [t.head EXCEPT !.commits = made]]
        /\ o.exit = "ok"
    BY <1>3, TreeFields DEF Outcome
  <2>5. /\ o.tree \in Trees /\ o.tree.operation = t.operation
        /\ o.tree.head = [t.head EXCEPT !.commits = made]
    BY <2>3, <2>4 DEF Trees
  <2> QED BY <2>4, <2>5, TreeFields DEF Exits, made
<1> QED BY <1>1, <1>2, <1>3

LEMMA ResetType ==
  ASSUME NEW t \in Trees, NEW commits \in Seq(AnyCommits), NEW o \in Reset(t, commits)
  PROVE  o.tree \in Trees /\ o.exit \in Exits
<1> DEFINE head == [t.head EXCEPT !.commits = commits]
           operation == IF t.operation.kind \in {"rebase", "bisect"} THEN t.operation ELSE NoOperation
<1>1. \/ o \in Refusals(t)
      \/ o = Outcome([t EXCEPT !.head = head, !.unmerged = FALSE, !.dirty = FALSE,
                               !.operation = operation], "ok")
  BY TreeFields DEF Reset
<1>2. CASE o \in Refusals(t)
  BY <1>2, RefusalsType DEF Exits
<1>3. CASE o = Outcome([t EXCEPT !.head = head, !.unmerged = FALSE, !.dirty = FALSE,
                                 !.operation = operation], "ok")
  <2>1. head \in Heads /\ operation \in {NoOperation} \cup InProgress
    BY TreeFields DEF Heads
  <2> HIDE DEF head, operation
  <2> QED BY <1>3, <2>1 DEF Outcome, Trees, Exits
<1> QED BY <1>1, <1>2, <1>3

(***************************************************************************)
(* Plans: what git makes of the list is what the plan asks for.            *)
(***************************************************************************)
Entries == [commit : AnyCommits, action : Actions]

LEMMA TodoType ==
  ASSUME NEW plan \in Seq(Entries)
  PROVE  /\ Todo(plan) \in Seq(Items) /\ Len(Todo(plan)) = Len(plan)
         /\ \A i \in 1..Len(plan) :
              /\ plan[i] \in Entries
              /\ Todo(plan)[i].commit = plan[i].commit
              /\ Todo(plan)[i].command = IF plan[i].action = "reword" THEN "edit" ELSE plan[i].action
<1>1. DOMAIN plan = 1..Len(plan) /\ Len(plan) \in Nat
  OBVIOUS
<1>2. \A i \in 1..Len(plan) : plan[i] \in Entries
  BY ElementOfSeq
<1>3. \A i \in 1..Len(plan) :
        /\ Item(Command(plan[i].action), plan[i].commit) \in Items
        /\ Todo(plan)[i] = Item(Command(plan[i].action), plan[i].commit)
  <2> TAKE i \in 1..Len(plan)
  <2>1. Todo(plan)[i] = Item(Command(plan[i].action), plan[i].commit)
    BY <1>1 DEF Todo
  <2>2. plan[i] \in Entries
    BY <1>2
  <2> QED BY <2>1, <2>2 DEF Item, Command, Items, Entries, Actions
<1>4. Todo(plan) \in [1..Len(plan) -> Items]
  BY <1>1, <1>3 DEF Todo
<1>5. Todo(plan) \in Seq(Items) /\ Len(Todo(plan)) = Len(plan)
  BY <1>1, <1>4
<1>6. \A i \in 1..Len(plan) :
        /\ Todo(plan)[i].commit = plan[i].commit
        /\ Todo(plan)[i].command = IF plan[i].action = "reword" THEN "edit" ELSE plan[i].action
  <2> TAKE i \in 1..Len(plan)
  <2>1. Todo(plan)[i] = Item(Command(plan[i].action), plan[i].commit)
    BY <1>3
  <2> QED BY <2>1 DEF Item, Command
<1> QED BY <1>2, <1>5, <1>6

\* A list that git accepts begins with a commit that is kept, so that a squash has one
\* to add to.
LEMMA BuiltType ==
  ASSUME NEW plan \in Seq(Entries), Accepts(Todo(plan)), NEW k \in 0..Len(plan)
  PROVE  /\ Built(plan)[k] \in Seq(AnyCommits)
         /\ (\E j \in 1..k : plan[j].action \notin {"drop", "squash"}) => Built(plan)[k] # <<>>
<1> DEFINE Kept(m) == \E j \in 1..m : plan[j].action \notin {"drop", "squash"}
           Good(m) == Built(plan)[m] \in Seq(AnyCommits) /\ (Kept(m) => Built(plan)[m] # <<>>)
           Bad == {m \in 0..Len(plan) : ~ Good(m)}
<1>1. SUFFICES ASSUME Bad # {} PROVE FALSE
  OBVIOUS
<1>2. Len(plan) \in Nat /\ Bad \subseteq Nat
  OBVIOUS
<1>3. PICK m \in Bad : \A other \in Bad : m <= other
  <2> HIDE DEF Bad
  <2> QED BY <1>1, <1>2, LeastNumber
<1>4. m # 0
  <2>1. Good(0)
    <3>1. Built(plan)[0] = <<>> /\ ~ Kept(0)
      BY <1>2, BuiltUnfolds
    <3>2. <<>> \in Seq(AnyCommits)
      OBVIOUS
    <3> QED BY <3>1, <3>2
  <2> QED BY <1>3, <2>1
<1>5. m \in 1..Len(plan) /\ m - 1 \in 0..Len(plan) /\ m - 1 \notin Bad
  BY <1>2, <1>3, <1>4
<1>6. Built(plan)[m] = Planned(Built(plan)[m - 1], plan[m])
  BY <1>2, <1>5, BuiltUnfolds
<1>7. Good(m - 1)
  BY <1>5
<1>8. PICK c : c = Built(plan)[m - 1]
  OBVIOUS
<1>9. c \in Seq(AnyCommits) /\ plan[m] \in Entries
  BY <1>5, <1>7, <1>8, TodoType
<1>10. plan[m].commit \in AnyCommits /\ plan[m].action \in Actions
  BY <1>9 DEF Entries
<1>11. CASE plan[m].action = "drop"
  <2>1. Built(plan)[m] = c
    BY <1>6, <1>8, <1>11 DEF Planned
  <2>2. Kept(m) => Kept(m - 1)
    BY <1>5, <1>11
  <2> QED BY <1>3, <1>7, <1>8, <2>1, <2>2
<1>12. CASE plan[m].action = "squash"
  <2>1. c # <<>>
    <3>1. Todo(plan)[m].command = "squash" /\ DOMAIN Todo(plan) = 1..Len(plan)
      BY <1>5, <1>12, TodoType
    <3>2. PICK j \in 1..m - 1 : Todo(plan)[j].command \notin {"drop", "squash"}
      BY <1>5, <3>1 DEF Accepts
    <3>3. j \in 1..Len(plan) /\ plan[j].action \notin {"drop", "squash"}
      BY <1>5, <3>2, TodoType
    <3> QED BY <1>7, <1>8, <3>2, <3>3
  <2> DEFINE n == Len(c)
             last == [c[n] EXCEPT !.changes = @ \cup plan[m].commit.changes]
  <2>2. n \in 1..Len(c)
    BY <1>9, <2>1
  <2>3. last \in AnyCommits
    <3>1. c[n] \in AnyCommits
      BY <1>9, <2>2, ElementOfSeq
    <3> QED BY <1>10, <3>1 DEF AnyCommits
  <2>4. Built(plan)[m] = [c EXCEPT ![n] = last]
    BY <1>6, <1>8, <1>12 DEF Planned
  <2> HIDE DEF last
  <2>5. Built(plan)[m] \in Seq(AnyCommits) /\ Len(Built(plan)[m]) = Len(c)
    BY <1>9, <2>2, <2>3, <2>4, ExceptSeq
  <2> QED BY <1>3, <1>9, <2>1, <2>2, <2>5
<1>13. CASE plan[m].action \notin {"drop", "squash"}
  <2>1. PICK x \in AnyCommits : Built(plan)[m] = Append(c, x)
    BY <1>6, <1>8, <1>10, <1>13 DEF Planned, Actions, AnyCommits
  <2>2. Append(c, x) \in Seq(AnyCommits) /\ Append(c, x) # <<>>
    BY <1>9
  <2> QED BY <1>3, <2>1, <2>2
<1> QED BY <1>11, <1>12, <1>13

\* git does with a line what the plan asks of its entry, but for the message of a reword.
LEMMA LineIsEntry ==
  ASSUME NEW plan \in Seq(Entries), Accepts(Todo(plan)), NEW k \in 1..Len(plan)
  PROVE  /\ plan[k].action # "reword" =>
              Applied(Built(plan)[k - 1], Todo(plan)[k]) = Built(plan)[k]
         /\ plan[k].action = "reword" =>
              /\ Applied(Built(plan)[k - 1], Todo(plan)[k]) = Append(Built(plan)[k - 1], plan[k].commit)
              /\ Built(plan)[k] = Append(Built(plan)[k - 1], [plan[k].commit EXCEPT !.reworded = TRUE])
<1>1. Len(plan) \in Nat /\ k - 1 \in 0..Len(plan)
  OBVIOUS
<1>2. /\ plan[k].action \in Actions /\ Todo(plan)[k].commit = plan[k].commit
      /\ Todo(plan)[k].command = IF plan[k].action = "reword" THEN "edit" ELSE plan[k].action
  BY TodoType DEF Entries
<1>3. Built(plan)[k] = Planned(Built(plan)[k - 1], plan[k])
  BY <1>1, BuiltUnfolds
<1>4. CASE plan[k].action = "squash"
  <2>1. Todo(plan)[k].command = "squash" /\ DOMAIN Todo(plan) = 1..Len(plan)
    BY <1>2, <1>4, TodoType
  <2>2. PICK j \in 1..k - 1 : Todo(plan)[j].command \notin {"drop", "squash"}
    BY <2>1 DEF Accepts
  <2>3. j \in 1..Len(plan) /\ plan[j].action \notin {"drop", "squash"}
    BY <1>1, <2>2, TodoType
  <2>4. Built(plan)[k - 1] # <<>>
    BY <1>1, <2>3, BuiltType
  <2> QED BY <1>2, <1>3, <1>4, <2>1, <2>4 DEF Applied, Planned
<1>5. CASE plan[k].action # "squash"
  BY <1>2, <1>3, <1>5 DEF Applied, Planned, Actions
<1> QED BY <1>4, <1>5

\* The lines of a list that follow entry i.
RestOf(plan, i) == SubSeq(Todo(plan), i + 1, Len(plan))

LEMMA RestTells ==
  ASSUME NEW plan \in Seq(Entries), NEW i \in 0..Len(plan),
         NEW rest, rest = RestOf(plan, i)
  PROVE  /\ rest \in Seq(Items) /\ Len(rest) = Len(plan) - i
         /\ \A m \in 1..Len(plan) - i : rest[m] = Todo(plan)[i + m]
<1>1. PICK n : n = Len(plan)
  OBVIOUS
<1>2. n \in Nat /\ i \in 0..n
  BY <1>1
<1>3. \A m \in i + 1..n : Todo(plan)[m] \in Items
  BY <1>1, TodoType
<1>4. rest = SubSeq(Todo(plan), i + 1, n)
  BY <1>1 DEF RestOf
<1>5. /\ rest \in Seq(Items)
      /\ Len(rest) = IF i + 1 <= n THEN n - (i + 1) + 1 ELSE 0
      /\ \A m \in 1..n - (i + 1) + 1 : rest[m] = Todo(plan)[(i + 1) + m - 1]
  BY <1>2, <1>3, <1>4, SubSeqProperties
<1>6. \A m \in 1..n - i : m \in 1..n - (i + 1) + 1 /\ (i + 1) + m - 1 = i + m
  BY <1>2
<1>7. Len(rest) = n - i
  BY <1>2, <1>5
<1> QED BY <1>1, <1>5, <1>6, <1>7

\* What git has made of the rest of a list, once the plan is built up to entry i.
LEMMA RestIsBuilt ==
  ASSUME NEW plan \in Seq(Entries), Accepts(Todo(plan)), NEW i \in 0..Len(plan),
         NEW k \in 0..Len(plan) - i,
         \A j \in i + 1..i + k : plan[j].action # "reword",
         NEW rest, rest = RestOf(plan, i)
  PROVE  Reached(Built(plan)[i], rest)[k] = Built(plan)[i + k]
<1> DEFINE n == Len(plan)
           reached == Reached(Built(plan)[i], rest)
           Bad == {m \in 0..k : reached[m] # Built(plan)[i + m]}
<1>1. SUFFICES ASSUME Bad # {} PROVE FALSE
  OBVIOUS
<1>2. n \in Nat /\ Bad \subseteq Nat
  OBVIOUS
<1>3. Len(rest) = n - i /\ \A m \in 1..n - i : rest[m] = Todo(plan)[i + m]
  BY RestTells
<1>4. PICK m \in Bad : \A other \in Bad : m <= other
  <2> HIDE DEF Bad
  <2> QED BY <1>1, <1>2, LeastNumber
<1>5. m # 0
  <2>1. reached[0] = Built(plan)[i]
    BY <1>2, <1>3, ReachedUnfolds
  <2> QED BY <1>2, <1>4, <2>1
<1>6. /\ m \in 1..k /\ m - 1 \in 0..k /\ m - 1 \notin Bad /\ m \in 1..n - i
      /\ i + m \in 1..n /\ i + m - 1 = i + (m - 1) /\ i + m \in i + 1..i + k
  BY <1>2, <1>4, <1>5
<1>7. reached[m] = Applied(reached[m - 1], rest[m])
  <2>1. Len(rest) \in Nat /\ m \in 1..Len(rest)
    BY <1>2, <1>3, <1>6
  <2> HIDE DEF n, Bad
  <2> QED BY <2>1, ReachedUnfolds
<1>8. reached[m - 1] = Built(plan)[i + m - 1] /\ rest[m] = Todo(plan)[i + m]
  BY <1>3, <1>6
<1>9. plan[i + m].action # "reword"
  BY <1>6
<1>10. Applied(Built(plan)[i + m - 1], Todo(plan)[i + m]) = Built(plan)[i + m]
  <2>1. PICK q \in 1..n : q = i + m
    BY <1>6
  <2> DEFINE before == i + m - 1
  <2>2. plan[q].action # "reword" /\ before = q - 1
    BY <1>9, <2>1
  <2>3. Applied(Built(plan)[before], Todo(plan)[q]) = Built(plan)[q]
    BY <2>2, LineIsEntry
  <2> HIDE DEF n, Bad
  <2> QED BY <2>1, <2>3
<1> QED BY <1>4, <1>7, <1>8, <1>10

\* The plan is done, or git has stopped at the next reword, its message still to be written.
LEMMA WorkedTells ==
  ASSUME NEW plan \in Seq(Entries), Accepts(Todo(plan)), NEW i \in 0..Len(plan),
         NEW onto, NEW o, o.tree \in Trees,
         Worked(o, onto, Built(plan)[i], RestOf(plan, i))
  PROVE  \/ /\ o.tree.operation = NoOperation /\ o.tree.head = Rebased(plan, onto)
         \/ \E p \in i + 1..Len(plan) :
              /\ plan[p].action = "reword" /\ \A j \in i + 1..p - 1 : plan[j].action # "reword"
              /\ o.tree.head.onto = onto
              /\ o.tree.head.commits = Append(Built(plan)[p - 1], plan[p].commit)
              /\ o.tree.operation.kind = "rebase" /\ o.tree.operation.stop = "edit"
              /\ o.tree.operation.todo = RestOf(plan, p)
<1> DEFINE n == Len(plan)
           todo == Todo(plan)
<1>1. PICK rest : rest = RestOf(plan, i)
  OBVIOUS
<1>2. n \in Nat /\ i \in Nat /\ i <= n /\ todo \in Seq(Items) /\ Len(todo) = n
  BY TodoType
<1>3. rest \in Seq(Items) /\ Len(rest) = n - i /\ \A m \in 1..n - i : rest[m] = todo[i + m]
  BY <1>1, RestTells
<1>4. ASSUME NEW m \in 1..n - i
      PROVE  rest[m].command = "edit" <=> plan[i + m].action = "reword"
  <2>1. i + m \in 1..n
    BY <1>2
  <2>2. plan[i + m].action \in Actions
    BY <2>1, TodoType DEF Entries
  <2> QED BY <1>3, <2>1, <2>2, TodoType DEF Actions
<1>5. Worked(o, onto, Built(plan)[i], rest)
  BY <1>1
<1>6. CASE /\ \A m \in 1..Len(rest) : rest[m].command # "edit"
           /\ o.tree.operation = NoOperation /\ o.tree.head.onto = onto
           /\ o.tree.head.commits = Reached(Built(plan)[i], rest)[Len(rest)]
  <2>1. \A j \in i + 1..i + (n - i) : plan[j].action # "reword"
    <3> TAKE j \in i + 1..i + (n - i)
    <3>1. j - i \in 1..n - i /\ i + (j - i) = j
      BY <1>2
    <3> QED BY <1>3, <1>4, <1>6, <3>1
  <2>2. n - i \in 0..n - i /\ i + (n - i) = n
    BY <1>2
  <2>3. Reached(Built(plan)[i], rest)[n - i] = Built(plan)[n]
    BY <1>1, <2>1, <2>2, RestIsBuilt
  <2>4. o.tree.head \in Heads
    BY TreeFields
  <2> QED BY <1>3, <1>6, <2>3, <2>4 DEF Heads, Rebased
<1>7. CASE \E m \in 1..Len(rest) :
             /\ rest[m].command = "edit" /\ \A j \in 1..m - 1 : rest[j].command # "edit"
             /\ o.tree.head.onto = onto
             /\ o.tree.head.commits = Reached(Built(plan)[i], rest)[m]
             /\ o.tree.operation.kind = "rebase" /\ o.tree.operation.stop = "edit"
             /\ o.tree.operation.todo = SubSeq(rest, m + 1, Len(rest))
  <2>1. PICK m \in 1..n - i :
             /\ rest[m].command = "edit" /\ \A j \in 1..m - 1 : rest[j].command # "edit"
             /\ o.tree.head.onto = onto
             /\ o.tree.head.commits = Reached(Built(plan)[i], rest)[m]
             /\ o.tree.operation.kind = "rebase" /\ o.tree.operation.stop = "edit"
             /\ o.tree.operation.todo = SubSeq(rest, m + 1, n - i)
    BY <1>3, <1>7
  <2> DEFINE p == i + m
  <2>2. p \in i + 1..n /\ p \in 1..n /\ p - 1 = i + (m - 1) /\ m - 1 \in 0..n - i
    BY <1>2
  <2>3. plan[p].action = "reword"
    BY <1>4, <2>1
  <2>4. \A j \in i + 1..i + (m - 1) : plan[j].action # "reword"
    <3> TAKE j \in i + 1..i + (m - 1)
    <3>1. j - i \in 1..m - 1 /\ j - i \in 1..n - i /\ i + (j - i) = j
      BY <1>2
    <3> QED BY <1>4, <2>1, <3>1
  <2>5. Reached(Built(plan)[i], rest)[m - 1] = Built(plan)[p - 1]
    BY <1>1, <2>2, <2>4, RestIsBuilt
  <2>6. Reached(Built(plan)[i], rest)[m] = Append(Built(plan)[p - 1], plan[p].commit)
    <3>1. Reached(Built(plan)[i], rest)[m] = Applied(Built(plan)[p - 1], todo[p])
      <4>1. Len(rest) \in Nat /\ m \in 1..Len(rest) /\ rest[m] = todo[p]
        BY <1>2, <1>3
      <4> HIDE DEF n, p, todo
      <4>2. Reached(Built(plan)[i], rest)[m] = Applied(Reached(Built(plan)[i], rest)[m - 1], rest[m])
        BY <4>1, ReachedUnfolds
      <4> QED BY <2>5, <4>1, <4>2
    <3> QED BY <2>2, <2>3, <3>1, LineIsEntry
  <2>7. SubSeq(rest, m + 1, n - i) = RestOf(plan, p)
    <3>1. PICK left, after :
             /\ left = SubSeq(rest, m + 1, n - i) /\ after = RestOf(plan, p)
      OBVIOUS
    <3>2. /\ after \in Seq(Items) /\ Len(after) = n - p
          /\ \A j \in 1..n - p : after[j] = todo[p + j]
      <4>1. p \in 0..n
        BY <2>2
      <4> HIDE DEF p
      <4> QED BY <3>1, <4>1, RestTells
    <3>3. \A j \in m + 1..n - i : rest[j] \in Items
      BY <1>2, <1>3, ElementOfSeq
    <3>4. /\ left \in Seq(Items)
          /\ Len(left) = IF m + 1 <= n - i THEN (n - i) - (m + 1) + 1 ELSE 0
          /\ \A j \in 1..(n - i) - (m + 1) + 1 : left[j] = rest[(m + 1) + j - 1]
      <4>1. m + 1 \in Int /\ n - i \in Int
        BY <1>2
      <4> HIDE DEF n
      <4> QED BY <3>1, <3>3, <4>1, SubSeqProperties
    <3>5. Len(left) = n - p /\ n - p \in Nat
      <4> HIDE DEF n
      <4> QED BY <1>2, <2>1, <3>4
    <3>6. ASSUME NEW j \in 1..n - p PROVE left[j] = after[j]
      <4>1. /\ j \in 1..(n - i) - (m + 1) + 1 /\ (m + 1) + j - 1 = m + j
            /\ m + j \in 1..n - i /\ i + (m + j) = p + j
        <5> HIDE DEF n
        <5> QED BY <1>2, <2>1
      <4> HIDE DEF n, p
      <4>2. left[j] = rest[m + j]
        BY <3>4, <4>1
      <4> QED BY <1>3, <3>2, <4>1, <4>2
    <3> HIDE DEF n, p, todo
    <3>7. left = after
      BY <3>2, <3>4, <3>5, <3>6, SeqEqual
    <3> QED BY <3>1, <3>7
  <2> QED BY <2>1, <2>2, <2>3, <2>4, <2>6, <2>7
<1> QED BY <1>5, <1>6, <1>7 DEF Worked

(***************************************************************************)
(* The calls keep their shape.                                             *)
(***************************************************************************)
\* A call that has ended.
LEMMA AnswerShape ==
  ASSUME NEW result, Answer(result), acts \in Nat, acts' = acts
  PROVE  CallShape' /\ call'.name = "none" /\ call'.steps = <<>> /\ answer' = result
BY NoCallShape DEF Answer, CallShape, CallNames, LeftOf

LEMMA LeftNotEmpty ==
  ASSUME NEW name, NEW steps, LeftOf(name, steps)
  PROVE  steps = <<>> <=> name = "none"
<1>1. \A a, b, c, d, e : /\ <<a>> # <<>> /\ <<a, b>> # <<>> /\ <<a, b, c>> # <<>>
                        /\ <<a, b, c, d>> # <<>> /\ <<a, b, c, d, e>> # <<>>
  OBVIOUS
<1>2. CASE name = "plan"
  BY <1>1, <1>2 DEF LeftOf, Looping
<1>3. CASE name # "plan"
  BY <1>1, <1>3 DEF LeftOf
<1> QED BY <1>2, <1>3

\* A call that goes on, with other steps left; fields names what else may change.
GoesOn(steps, fields) ==
  /\ DOMAIN call' = CallFields /\ call'.steps = steps
  /\ \A field \in CallFields \ ({"steps"} \cup fields) : call'[field] = call[field]
  /\ call'.cleared \in {call.cleared, acts} /\ call'.matched \in {call.matched, acts}
  /\ answer' = answer

\* What a check may note.
Noted == {"cleared", "matched"}

LEMMA GoesOnTells ==
  ASSUME NEW steps, NEW fields, GoesOn(steps, fields)
  PROVE  /\ "name" \notin fields => call'.name = call.name
         /\ "kind" \notin fields => call'.kind = call.kind
         /\ "plan" \notin fields => call'.plan = call.plan
         /\ "seen" \notin fields => call'.seen = call.seen
         /\ "rewords" \notin fields => call'.rewords = call.rewords
         /\ "failed" \notin fields => call'.failed = call.failed
         /\ "looks" \notin fields => call'.looks = call.looks
         /\ "since" \notin fields => call'.since = call.since
BY DEF GoesOn, CallFields

\* A check that goes on.
LEMMA NotedTells ==
  ASSUME NEW steps, GoesOn(steps, Noted)
  PROVE  /\ call'.steps = steps
         /\ call'.name = call.name /\ call'.kind = call.kind /\ call'.plan = call.plan
         /\ call'.seen = call.seen /\ call'.rewords = call.rewords /\ call'.failed = call.failed
         /\ call'.looks = call.looks /\ call'.since = call.since
BY GoesOnTells DEF GoesOn, Noted

LEMMA GoesOnShape ==
  ASSUME CallShape, NEW steps, NEW fields, GoesOn(steps, fields), acts' = acts,
         LeftOf(call.name, steps), fields \cap {"name", "since", "seen"} = {}
  PROVE  CallShape'
BY GoesOnTells DEF CallShape, GoesOn

LEMMA ProceedTells ==
  ASSUME CallShape, Proceed
  PROVE  GoesOn(Tail(call.steps), Noted) /\ call'.cleared = call.cleared /\ call'.matched = call.matched
BY DEF Proceed, CallShape, CallFields, GoesOn, Noted

\* The steps that begin a call.
Begins ==
  \/ BeginMerge \/ BeginRebase \/ BeginCherryPick \/ BeginRevert
  \/ BeginContinue \/ BeginSkip \/ BeginAbort \/ BeginTakeSide \/ BeginMarkResolved
  \/ BeginPlan \/ BeginReset \/ BeginAmend

LEMMA BeginsTells ==
  ASSUME Begins
  PROVE  \E plan, seen : \E name \in CallNames \ {"none"} :
           /\ BeginCall(name, plan, seen)
           /\ name \in {"amend", "reset", "plan"} => preview # <<>> /\ seen = preview
           /\ name = "plan" => plan \in PlansOf(preview.head.commits)
           /\ name # "plan" => plan = <<>>
<1>1. CASE BeginPlan
  BY <1>1 DEF BeginPlan, CallNames
<1>2. CASE BeginReset \/ BeginAmend
  BY <1>2 DEF BeginReset, BeginAmend, CallNames
<1>3. CASE BeginMerge \/ BeginRebase \/ BeginCherryPick \/ BeginRevert
  BY <1>3 DEF BeginMerge, BeginRebase, BeginCherryPick, BeginRevert, BeginCommitting, CallNames
<1>4. CASE BeginContinue \/ BeginSkip \/ BeginAbort \/ BeginTakeSide \/ BeginMarkResolved
  BY <1>4 DEF BeginContinue, BeginSkip, BeginAbort, BeginTakeSide, BeginMarkResolved, CallNames
<1> QED BY <1>1, <1>2, <1>3, <1>4 DEF Begins

\* The steps that only read, to check or to look; what they have found where they go on.
Checks ==
  RequireNonePending \/ CheckOnto \/ CheckHead \/ RequireClean \/ FindPending \/ ReadFails
  \/ InspectFailure \/ Checkout

BecomesRebase ==
  /\ call' = [NoCall EXCEPT !.name = "rebase", !.steps = Steps("rebase"), !.since = call.since]
  /\ answer' = answer

LEMMA ChecksTell ==
  ASSUME CallShape, Checks
  PROVE  /\ UNCHANGED <<tree, upstream, preview, acts>>
         /\ \/ \E result \in {"refused", "failed", "conflict"} : Answer(result)
            \/ /\ At("none pending") /\ GoesOn(Tail(call.steps), Noted)
               /\ LeftOf(call.name, Tail(call.steps)) /\ Detected = "none" /\ call'.cleared = acts
               /\ Tail(call.steps) \in {<<"run">>, <<"clean", "run">>} =>
                    call.name \notin {"amend", "reset", "plan"}
            \/ /\ At("onto") /\ GoesOn(<<"head", "clean", "run">>, Noted) /\ call.name = "plan"
            \/ /\ At("head") /\ tree.head = call.seen.head
               /\ call'.matched = acts /\ call'.cleared = call.cleared
               /\ \/ call.name = "plan" /\ GoesOn(<<"clean", "run">>, Noted)
                  \/ call.name \in {"reset", "amend"} /\ GoesOn(<<"run">>, Noted)
            \/ /\ At("clean") /\ call.steps = <<"clean", "run">> /\ call.name \in {"plan", "rebase"}
               /\ GoesOn(<<"run">>, Noted) /\ call'.matched = call.matched
            \/ At("clean") /\ call.name = "plan" /\ BecomesRebase
            \/ /\ At("pending") /\ GoesOn(<<"run">>, {"kind"})
               /\ call.name \in {"continue", "skip", "abort"}
               /\ Supports(Detected, call.name) /\ call'.kind = Detected
            \/ /\ At("checkout") /\ GoesOn(<<"add">>, Noted) /\ call.name = "take"
<1> USE DEF ReadsOnly
<1>1. LeftOf(call.name, call.steps) /\ (call.steps = <<>> <=> call.name = "none")
  BY LeftNotEmpty DEF CallShape
<1>2. CASE RequireNonePending
  <2>1. At("none pending") /\ call.steps # <<>> /\ Head(call.steps) = "none pending"
    BY <1>2 DEF RequireNonePending, At
  <2>2. \/ call.name \in {"merge", "cherry-pick", "revert"} /\ Tail(call.steps) = <<"run">>
        \/ call.name = "rebase" /\ Tail(call.steps) = <<"clean", "run">>
        \/ call.name = "plan" /\ Tail(call.steps) = <<"onto", "head", "clean", "run">>
        \/ call.name = "reset" /\ Tail(call.steps) = <<"head", "run">>
    BY <1>1, <2>1, HeadTells
  <2>3. /\ LeftOf(call.name, Tail(call.steps))
        /\ Tail(call.steps) \in {<<"run">>, <<"clean", "run">>} =>
             call.name \notin {"amend", "reset", "plan"}
    <3>1. CASE call.name \in {"merge", "cherry-pick", "revert"} /\ Tail(call.steps) = <<"run">>
      BY <3>1 DEF LeftOf
    <3>2. CASE call.name = "rebase" /\ Tail(call.steps) = <<"clean", "run">>
      BY <3>2 DEF LeftOf
    <3>3. CASE call.name = "plan" /\ Tail(call.steps) = <<"onto", "head", "clean", "run">>
      <4>1. <<"onto", "head", "clean", "run">> \notin {<<"run">>, <<"clean", "run">>}
        OBVIOUS
      <4>2. LeftOf(call.name, <<"onto", "head", "clean", "run">>)
        BY <3>3 DEF LeftOf
      <4> QED BY <3>3, <4>1, <4>2
    <3>4. CASE call.name = "reset" /\ Tail(call.steps) = <<"head", "run">>
      <4>1. <<"head", "run">> \notin {<<"run">>, <<"clean", "run">>}
        OBVIOUS
      <4>2. LeftOf(call.name, <<"head", "run">>)
        BY <3>4 DEF LeftOf
      <4> QED BY <3>4, <4>1, <4>2
    <3> QED BY <2>2, <3>1, <3>2, <3>3, <3>4
  <2>4. ASSUME call' = [call EXCEPT !.steps = Tail(@), !.cleared = acts], answer' = answer
        PROVE  GoesOn(Tail(call.steps), Noted) /\ call'.cleared = acts
    BY <2>4 DEF GoesOn, CallShape, CallFields, Noted
  <2> QED BY <1>2, <2>1, <2>3, <2>4 DEF RequireNonePending
<1>3. CASE CheckOnto
  <2>1. At("onto") /\ call.steps # <<>> /\ Head(call.steps) = "onto"
    BY <1>3 DEF CheckOnto, At
  <2> QED BY <1>1, <1>3, <2>1, HeadTells, ProceedTells DEF CheckOnto
<1>4. CASE CheckHead
  <2>1. At("head") /\ call.steps # <<>> /\ Head(call.steps) = "head"
    BY <1>4 DEF CheckHead, At
  <2>2. ASSUME call' = [call EXCEPT !.steps = Tail(@), !.matched = acts], answer' = answer
        PROVE  /\ GoesOn(Tail(call.steps), Noted) /\ call'.matched = acts
               /\ call'.cleared = call.cleared
    BY <2>2 DEF GoesOn, CallShape, CallFields, Noted
  <2> QED BY <1>1, <1>4, <2>1, <2>2, HeadTells DEF CheckHead
<1>5. CASE RequireClean
  <2>1. At("clean") /\ call.steps # <<>> /\ Head(call.steps) = "clean"
    BY <1>5 DEF RequireClean, At
  <2>2. call.name \in {"plan", "rebase"} /\ call.steps = <<"clean", "run">> /\ Tail(call.steps) = <<"run">>
    BY <1>1, <2>1, HeadTells
  <2> QED BY <1>5, <2>1, <2>2, ProceedTells DEF RequireClean, BecomesRebase
<1>6. CASE FindPending
  <2>1. At("pending") /\ call.steps # <<>> /\ Head(call.steps) = "pending"
    BY <1>6 DEF FindPending, At
  <2>2. call.name \in {"continue", "skip", "abort"} /\ Tail(call.steps) = <<"run">>
    BY <1>1, <2>1, HeadTells
  <2>3. ASSUME call' = [call EXCEPT !.steps = Tail(@), !.kind = Detected], answer' = answer
        PROVE  GoesOn(<<"run">>, {"kind"}) /\ call'.kind = Detected
    BY <2>2, <2>3 DEF GoesOn, CallShape, CallFields
  <2> QED BY <1>6, <2>1, <2>2, <2>3 DEF FindPending
<1>7. CASE ReadFails
  BY <1>7 DEF ReadFails
<1>8. CASE InspectFailure
  BY <1>8 DEF InspectFailure
<1>9. CASE Checkout
  <2>1. At("checkout") /\ call.steps # <<>> /\ Head(call.steps) = "checkout"
    BY <1>9 DEF Checkout, At
  <2> QED BY <1>1, <1>9, <2>1, HeadTells, ProceedTells DEF Checkout
<1> QED BY <1>2, <1>3, <1>4, <1>5, <1>6, <1>7, <1>8, <1>9 DEF Checks

\* The steps that act on the worktree, and those of the loop of a plan.
Working ==
  \/ RunGit \/ RunPlan \/ Look \/ AmendPaused \/ Resume \/ ResumeUnread \/ ContinuePaused
  \/ AddResolved

LEMMA WorkingTells ==
  ASSUME CallShape, Working
  PROVE  /\ UNCHANGED <<upstream, preview, acts>>
         /\ \/ /\ RunGit /\ call.steps = <<"run">> /\ call.name \notin {"plan", "take", "mark", "none"}
               /\ \E o \in Outcomes : tree' = o.tree
               /\ \/ \E result \in {"completed", "empty", "failed"} : Answer(result)
                  \/ /\ GoesOn(<<"inspect">>, {})
                     /\ call.name \in {"merge", "cherry-pick", "revert", "rebase"}
            \/ /\ RunPlan /\ call.steps = <<"run">> /\ call.name = "plan"
               /\ \E o \in Outcomes :
                    /\ tree' = o.tree
                    /\ \/ Answer("failed")
                       \/ /\ GoesOn(<<"look">>, {"rewords", "failed"})
                          /\ call'.rewords = QueuedRewords(call.plan)
                          /\ call'.failed = (o.exit # "ok")
            \/ /\ Look /\ call.steps = <<"look">> /\ call.name = "plan" /\ tree' = tree
               /\ \/ call.looks = MaxIterations(call.plan) /\ Answer("diverged")
                  \/ Detected = "none" /\ Answer("completed")
                  \/ \E result \in {"conflict", "internal"} : Answer(result)
                  \/ /\ GoesOn(<<"amend">>, {"looks"}) /\ call'.looks = call.looks + 1
                     /\ call.rewords # {} /\ Detected = "rebase"
            \/ /\ AmendPaused /\ call.steps = <<"amend">> /\ call.name = "plan"
               /\ \E o \in Amend(tree) :
                    /\ tree' = o.tree
                    /\ \/ Answer("failed")
                       \/ /\ GoesOn(<<"resume">>, {"rewords"}) /\ o.exit = "ok"
                          /\ call'.rewords = call.rewords \ {NextReword(call.rewords)}
            \/ /\ Resume /\ call.steps = <<"resume">> /\ call.name = "plan" /\ tree' = tree
               /\ \/ Answer("failed")
                  \/ GoesOn(<<"continue">>, {"kind"}) /\ call'.kind = Detected
            \/ /\ ResumeUnread /\ call.steps = <<"resume">> /\ call.name = "plan" /\ tree' = tree
               /\ GoesOn(<<"look">>, {"failed"}) /\ call'.failed = TRUE
            \/ /\ ContinuePaused /\ call.steps = <<"continue">> /\ call.name = "plan"
               /\ \E o \in Continue(tree, call.kind) :
                    /\ tree' = o.tree
                    /\ \/ Answer("failed")
                       \/ /\ GoesOn(<<"look">>, {"failed"})
                          /\ call'.failed = (call.failed \/ o.exit # "ok")
            \/ /\ AddResolved /\ call.name \in {"take", "mark"}
               /\ \E unmerged \in {FALSE, tree.unmerged} : tree' \in {tree, [tree EXCEPT !.unmerged = unmerged]}
               /\ \E result \in {"completed", "failed"} : Answer(result)
<1> USE DEF ReadsOnly, Acts
<1>1. LeftOf(call.name, call.steps) /\ call.name \in CallNames /\ DOMAIN call = CallFields
  BY DEF CallShape
<1>2. CASE RunGit
  <2>1. call.steps # <<>> /\ Head(call.steps) = "run" /\ call.name # "plan"
    BY <1>2 DEF RunGit, At
  <2>2. call.steps = <<"run">> /\ call.name \notin {"take", "mark", "none"}
    BY <1>1, <2>1, HeadTells
  <2>3. PICK o \in Outcomes :
          /\ tree' = o.tree
          /\ CASE o.exit = "ok" -> Answer("completed")
               [] o.exit = "empty" -> Answer("empty")
               [] o.exit = "process" /\ call.name \in PendingKinds ->
                    /\ call' = [call EXCEPT !.steps = <<"inspect">>]
                    /\ UNCHANGED answer
               [] OTHER -> Answer("failed")
    BY <1>2 DEF RunGit
  <2>4. ASSUME call' = [call EXCEPT !.steps = <<"inspect">>], answer' = answer
        PROVE  GoesOn(<<"inspect">>, {})
    BY <1>1, <2>4 DEF GoesOn, CallFields
  <2>5. call.name \in PendingKinds => call.name \in {"merge", "cherry-pick", "revert", "rebase"}
    BY <1>1 DEF PendingKinds, CallNames
  <2>6. UNCHANGED <<upstream, preview, acts>>
    BY <1>2 DEF RunGit
  <2> QED BY <1>2, <2>1, <2>2, <2>3, <2>4, <2>5, <2>6
<1>3. CASE RunPlan
  <2>1. call.steps # <<>> /\ Head(call.steps) = "run" /\ call.name = "plan"
    BY <1>3 DEF RunPlan, At
  <2>2. call.steps = <<"run">>
    BY <1>1, <2>1, HeadTells
  <2>3. PICK o \in Outcomes :
          /\ tree' = o.tree
          /\ IF o.exit = "locked" THEN Answer("failed")
             ELSE /\ call' = [call EXCEPT !.steps = <<"look">>,
                                          !.rewords = QueuedRewords(call.plan),
                                          !.failed = o.exit # "ok"]
                  /\ UNCHANGED answer
    BY <1>3 DEF RunPlan
  <2>4. ASSUME call' = [call EXCEPT !.steps = <<"look">>, !.rewords = QueuedRewords(call.plan),
                                    !.failed = o.exit # "ok"],
               answer' = answer
        PROVE  /\ GoesOn(<<"look">>, {"rewords", "failed"})
               /\ call'.rewords = QueuedRewords(call.plan)
               /\ call'.failed = (o.exit # "ok")
    BY <1>1, <2>4 DEF GoesOn, CallFields
  <2>5. UNCHANGED <<upstream, preview, acts>>
    BY <1>3 DEF RunPlan
  <2> QED BY <1>3, <2>1, <2>2, <2>3, <2>4, <2>5
<1>4. CASE Look
  <2>1. call.steps # <<>> /\ Head(call.steps) = "look"
    BY <1>4 DEF Look, At
  <2>2. call.steps = <<"look">> /\ call.name = "plan"
    BY <1>1, <2>1, HeadTells
  <2>3. \/ call.looks = MaxIterations(call.plan) /\ Answer("diverged")
        \/ Detected = "none" /\ Answer("completed")
        \/ \E result \in {"conflict", "internal"} : Answer(result)
        \/ /\ call' = [call EXCEPT !.steps = <<"amend">>, !.looks = @ + 1] /\ answer' = answer
           /\ call.rewords # {} /\ Detected = "rebase"
    BY <1>4 DEF Look
  <2>4. ASSUME call' = [call EXCEPT !.steps = <<"amend">>, !.looks = @ + 1], answer' = answer
        PROVE  GoesOn(<<"amend">>, {"looks"}) /\ call'.looks = call.looks + 1
    BY <1>1, <2>4 DEF GoesOn, CallFields
  <2>5. UNCHANGED <<tree, upstream, preview, acts>>
    BY <1>4 DEF Look
  <2> QED BY <1>4, <2>2, <2>3, <2>4, <2>5
<1>5. CASE AmendPaused
  <2>1. call.steps # <<>> /\ Head(call.steps) = "amend"
    BY <1>5 DEF AmendPaused, At
  <2>2. call.steps = <<"amend">> /\ call.name = "plan"
    BY <1>1, <2>1, HeadTells
  <2>3. PICK o \in Amend(tree) :
          /\ tree' = o.tree
          /\ IF o.exit # "ok" THEN Answer("failed")
             ELSE /\ call' = [call EXCEPT !.steps = <<"resume">>, !.rewords = @ \ {NextReword(@)}]
                  /\ UNCHANGED answer
    BY <1>5 DEF AmendPaused
  <2>4. ASSUME call' = [call EXCEPT !.steps = <<"resume">>, !.rewords = @ \ {NextReword(@)}],
               answer' = answer
        PROVE  /\ GoesOn(<<"resume">>, {"rewords"})
               /\ call'.rewords = call.rewords \ {NextReword(call.rewords)}
    BY <1>1, <2>4 DEF GoesOn, CallFields
  <2>5. UNCHANGED <<upstream, preview, acts>>
    BY <1>5 DEF AmendPaused
  <2> QED BY <1>5, <2>2, <2>3, <2>4, <2>5
<1>6. CASE Resume
  <2>1. call.steps # <<>> /\ Head(call.steps) = "resume"
    BY <1>6 DEF Resume, At
  <2>2. call.steps = <<"resume">> /\ call.name = "plan"
    BY <1>1, <2>1, HeadTells
  <2>3. ASSUME call' = [call EXCEPT !.steps = <<"continue">>, !.kind = Detected], answer' = answer
        PROVE  GoesOn(<<"continue">>, {"kind"}) /\ call'.kind = Detected
    BY <1>1, <2>3 DEF GoesOn, CallFields
  <2> QED BY <1>6, <2>2, <2>3 DEF Resume
<1>7. CASE ResumeUnread
  <2>1. call.steps # <<>> /\ Head(call.steps) = "resume"
    BY <1>7 DEF ResumeUnread, At
  <2>2. call.steps = <<"resume">> /\ call.name = "plan"
    BY <1>1, <2>1, HeadTells
  <2>3. ASSUME call' = [call EXCEPT !.steps = <<"look">>, !.failed = TRUE], answer' = answer
        PROVE  GoesOn(<<"look">>, {"failed"}) /\ call'.failed = TRUE
    BY <1>1, <2>3 DEF GoesOn, CallFields
  <2> QED BY <1>7, <2>2, <2>3 DEF ResumeUnread
<1>8. CASE ContinuePaused
  <2>1. call.steps # <<>> /\ Head(call.steps) = "continue"
    BY <1>8 DEF ContinuePaused, At
  <2>2. call.steps = <<"continue">> /\ call.name = "plan"
    BY <1>1, <2>1, HeadTells
  <2>3. PICK o \in Continue(tree, call.kind) :
          /\ tree' = o.tree
          /\ IF o.exit \in {"locked", "unmerged"} THEN Answer("failed")
             ELSE /\ call' = [call EXCEPT !.steps = <<"look">>,
                                          !.failed = @ \/ o.exit # "ok"]
                  /\ UNCHANGED answer
    BY <1>8 DEF ContinuePaused
  <2>4. ASSUME call' = [call EXCEPT !.steps = <<"look">>, !.failed = @ \/ o.exit # "ok"],
               answer' = answer
        PROVE  /\ GoesOn(<<"look">>, {"failed"})
               /\ call'.failed = (call.failed \/ o.exit # "ok")
    BY <1>1, <2>4 DEF GoesOn, CallFields
  <2>5. UNCHANGED <<upstream, preview, acts>>
    BY <1>8 DEF ContinuePaused
  <2> QED BY <1>8, <2>2, <2>3, <2>4, <2>5
<1>9. CASE AddResolved
  <2>1. call.steps # <<>> /\ Head(call.steps) = "add"
    BY <1>9 DEF AddResolved, At
  <2>2. call.name \in {"take", "mark"}
    BY <1>1, <2>1, HeadTells
  <2> QED BY <1>9, <2>2 DEF AddResolved
<1> QED BY <1>2, <1>3, <1>4, <1>5, <1>6, <1>7, <1>8, <1>9 DEF Working

\* The steps of programs outside, as far as the open worktree is concerned.
Disturbs == OutsideCommits \/ OutsideEdits \/ OutsideBegins \/ OutsideFinishes

Previews == [head : Heads, onto : Nat]

TypeInv ==
  /\ CallShape
  /\ tree \in Trees /\ upstream \in Nat
  /\ preview \in {<<>>} \cup Previews
  /\ call.plan \in Seq(Entries) /\ call.rewords \subseteq 1..Len(call.plan)
  /\ call.name \in {"amend", "reset", "plan"} => call.seen \in Previews
  /\ call.name \in {"continue", "skip", "abort"} /\ call.steps = <<"run">> => call.kind \in PendingKinds

LEMMA DetectedType ==
  ASSUME tree \in Trees
  PROVE  Detected \in {"none"} \cup PendingKinds
BY TreeFields, NothingInProgress DEF Detected, InProgress, Operations

LEMMA PlansType ==
  ASSUME NEW commits \in Seq(AnyCommits), NEW plan \in PlansOf(commits)
  PROVE  plan \in Seq(Entries)
<1>1. DOMAIN commits = 1..Len(commits) /\ Len(commits) \in Nat
  OBVIOUS
<1>2. Range(commits) \subseteq AnyCommits
  BY <1>1, ElementOfSeq DEF Range
<1>3. plan \in [1..Len(commits) -> [commit : Range(commits), action : Actions]]
  BY <1>1 DEF PlansOf
<1>4. plan \in [1..Len(commits) -> Entries]
  BY <1>2, <1>3 DEF Entries
<1> QED BY <1>1, <1>4

LEMMA DisturbsTells ==
  ASSUME TypeInv, Disturbs
  PROVE  tree' \in Trees /\ acts' = acts + 1 /\ UNCHANGED <<upstream, preview, call, answer>>
<1>1. tree \in Trees
  BY DEF TypeInv
<1>2. CASE OutsideCommits
  <2> DEFINE made == Append(tree.head.commits, ForeignCommit)
             head == [tree.head EXCEPT !.commits = made]
  <2>1. made \in Seq(AnyCommits)
    BY <1>1, TreeFields, ForeignType
  <2> HIDE DEF made
  <2>2. head \in Heads
    BY <1>1, <2>1, TreeFields DEF Heads
  <2>3. tree' = [tree EXCEPT !.head = head, !.dirty = FALSE]
    BY <1>1, <1>2, TreeFields DEF OutsideCommits, Outside, made
  <2> HIDE DEF head
  <2>4. tree' \in Trees
    BY <1>1, <2>2, <2>3 DEF Trees
  <2> QED BY <1>2, <2>4 DEF OutsideCommits, Outside
<1>3. CASE OutsideEdits
  <2>1. PICK dirty \in BOOLEAN : Outside([tree EXCEPT !.dirty = dirty])
    BY <1>3 DEF OutsideEdits
  <2> QED BY <1>1, <2>1 DEF Outside, Trees
<1>4. CASE OutsideBegins
  <2>1. PICK kind \in PendingKinds \ {"rebase"} :
          Outside([tree EXCEPT !.unmerged = (kind # "bisect"),
                     !.operation = [NoOperation EXCEPT !.kind = kind, !.from = tree.head,
                        !.stop = IF kind = "bisect" THEN "none" ELSE "conflict"]])
    BY <1>4 DEF OutsideBegins
  <2> DEFINE operation == [NoOperation EXCEPT !.kind = kind, !.from = tree.head,
                             !.stop = IF kind = "bisect" THEN "none" ELSE "conflict"]
             Wide == [kind : PendingKinds \cup {"none"}, stop : {"none", "conflict"},
                      todo : Seq(Items), interactive : BOOLEAN, from : Heads \cup {<<>>}]
  <2>2. NoOperation \in Wide
    BY DEF NoOperation
  <2>3. operation \in Wide /\ operation.kind = kind /\ operation.from = tree.head
    BY <1>1, <2>2, TreeFields DEF PendingKinds
  <2>4. operation \in InProgress
    <3> HIDE DEF operation
    <3> QED BY <1>1, <2>3, TreeFields DEF InProgress, Operations
  <2>5. PICK unmerged \in BOOLEAN : unmerged = (kind # "bisect")
    OBVIOUS
  <2>6. Outside([tree EXCEPT !.unmerged = unmerged, !.operation = operation])
    BY <2>1, <2>5
  <2> HIDE DEF operation
  <2> QED BY <1>1, <2>4, <2>6 DEF Outside, Trees
<1>5. CASE OutsideFinishes
  <2>1. PICK o \in Continue(tree, tree.operation.kind) \cup Abort(tree, tree.operation.kind) :
          tree.operation # NoOperation /\ Outside(o.tree)
    BY <1>5 DEF OutsideFinishes
  <2>2. tree.operation.kind # "none"
    BY <1>1, <2>1, TreeFields
  <2>3. o.tree \in Trees
    BY <1>1, <2>1, <2>2, ContinueTells, AbortType
  <2> QED BY <2>1, <2>3 DEF Outside
<1> QED BY <1>2, <1>3, <1>4, <1>5 DEF Disturbs

LEMMA PicksType ==
  ASSUME NEW commits \in Seq(AnyCommits)
  PROVE  Picks(commits) \in Seq(Items)
<1>1. DOMAIN commits = 1..Len(commits) /\ Len(commits) \in Nat
  OBVIOUS
<1>2. \A i \in 1..Len(commits) : Item("pick", commits[i]) \in Items
  BY ElementOfSeq DEF Item, Items
<1>3. Picks(commits) \in [1..Len(commits) -> Items]
  BY <1>1, <1>2 DEF Picks
<1> QED BY <1>1, <1>3

LEMMA OutcomesType ==
  ASSUME TypeInv, call.steps = <<"run">>, call.name \notin {"take", "mark", "none"},
         NEW o \in Outcomes
  PROVE  o.tree \in Trees /\ o.exit \in Exits
<1>1. tree \in Trees /\ tree.head.commits \in Seq(AnyCommits) /\ upstream \in Nat
  BY TreeFields DEF TypeInv
<1>2. call.name \in CallNames
  BY DEF TypeInv, CallShape
<1>3. CASE call.name \in {"merge", "cherry-pick", "revert"}
  <2>1. o \in Combine(tree, call.name)
    BY <1>3 DEF Outcomes
  <2> QED BY <1>1, <1>3, <2>1, CombineType
<1>4. CASE call.name = "rebase"
  <2>1. o \in Rebase(tree, upstream, Picks(tree.head.commits), FALSE)
    BY <1>4 DEF Outcomes
  <2> QED BY <1>1, <2>1, PicksType, RebaseTells
<1>5. CASE call.name = "plan"
  <2>1. o \in Rebase(tree, call.seen.onto, Todo(call.plan), TRUE)
    BY <1>5 DEF Outcomes
  <2>2. call.seen.onto \in Nat /\ Todo(call.plan) \in Seq(Items)
    BY <1>5, TodoType DEF TypeInv, Previews
  <2> QED BY <1>1, <2>1, <2>2, RebaseTells
<1>6. CASE call.name = "reset"
  <2>1. PICK k \in 0..Len(tree.head.commits) : o \in Reset(tree, SubSeq(tree.head.commits, 1, k))
    BY <1>6 DEF Outcomes
  <2>2. SubSeq(tree.head.commits, 1, k) \in Seq(AnyCommits)
    <3>1. PICK commits : commits = tree.head.commits
      OBVIOUS
    <3>2. \A i \in 1..k : commits[i] \in AnyCommits
      BY <1>1, <3>1, ElementOfSeq
    <3> QED BY <3>1, <3>2, SubSeqProperties
  <2>3. PICK commits : commits = SubSeq(tree.head.commits, 1, k)
    OBVIOUS
  <2> QED BY <1>1, <2>1, <2>2, <2>3, ResetType
<1>7. CASE call.name = "amend"
  <2>1. o \in Amend(tree)
    BY <1>7 DEF Outcomes
  <2> QED BY <1>1, <2>1, AmendTells
<1>8. CASE call.name = "continue"
  <2>1. o \in Continue(tree, call.kind)
    BY <1>8 DEF Outcomes
  <2> QED BY <1>1, <2>1, ContinueTells
<1>9. CASE call.name = "skip"
  <2>1. o \in Skip(tree, call.kind) /\ call.kind \in PendingKinds
    BY <1>9 DEF Outcomes, TypeInv
  <2> QED BY <1>1, <2>1, SkipType
<1>10. CASE call.name = "abort"
  <2>1. o \in Abort(tree, call.kind) /\ call.kind \in PendingKinds
    BY <1>10 DEF Outcomes, TypeInv
  <2> QED BY <1>1, <2>1, AbortType DEF PendingKinds
<1> QED BY <1>2, <1>3, <1>4, <1>5, <1>6, <1>7, <1>8, <1>9, <1>10 DEF CallNames

LEMMA NextSplits ==
  ASSUME [ProviderNext]_providerVars
  PROVE  Begins \/ Checks \/ Working \/ Disturbs \/ Preview \/ OutsideMovesUpstream \/ UNCHANGED providerVars
BY DEF ProviderNext, Begins, Checks, Working, Disturbs

LEMMA NothingMoves ==
  ASSUME Preview \/ OutsideMovesUpstream \/ UNCHANGED providerVars
  PROVE  UNCHANGED <<tree, call, acts>> /\ answer' \in {answer, "none"}
BY DEF Preview, OutsideMovesUpstream, providerVars

LEMMA RewordsType ==
  ASSUME NEW plan \in Seq(Entries)
  PROVE  QueuedRewords(plan) \subseteq 1..Len(plan)
BY DEF QueuedRewords

LEMMA TypeBegins == TypeInv /\ Begins => TypeInv'
<1> SUFFICES ASSUME TypeInv, Begins PROVE TypeInv'
  OBVIOUS
<1>1. PICK plan, seen : \E name \in CallNames \ {"none"} :
        /\ BeginCall(name, plan, seen)
        /\ name \in {"amend", "reset", "plan"} => preview # <<>> /\ seen = preview
        /\ name = "plan" => plan \in PlansOf(preview.head.commits)
        /\ name # "plan" => plan = <<>>
  BY BeginsTells
<1>2. PICK name \in CallNames \ {"none"} :
        /\ BeginCall(name, plan, seen)
        /\ name \in {"amend", "reset", "plan"} => preview # <<>> /\ seen = preview
        /\ name = "plan" => plan \in PlansOf(preview.head.commits)
        /\ name # "plan" => plan = <<>>
  BY <1>1
<1>3. UNCHANGED <<tree, upstream>> /\ preview' = <<>>
  BY <1>2 DEF BeginCall
<1>4. /\ CallShape' /\ call'.name = name /\ call'.plan = plan /\ call'.seen = seen
      /\ call'.rewords = {} /\ call'.steps # <<"run">>
  BY <1>2, BeginShape DEF TypeInv, CallShape
<1>5. name \in {"amend", "reset", "plan"} => seen \in Previews
  BY <1>2 DEF TypeInv
<1>6. plan \in Seq(Entries)
  <2>1. CASE name = "plan"
    <3>1. preview \in Previews /\ preview.head.commits \in Seq(AnyCommits)
      BY <1>2, <2>1 DEF TypeInv, Previews, Heads
    <3> QED BY <1>2, <2>1, <3>1, PlansType
  <2>2. CASE name # "plan"
    BY <1>2, <2>2
  <2> QED BY <2>1, <2>2
<1> QED BY <1>3, <1>4, <1>5, <1>6 DEF TypeInv

\* A call that has ended, or goes on with its plan and what it was confirmed on.
LEMMA TypeGoesOn ==
  ASSUME TypeInv, UNCHANGED <<upstream, preview, acts>>, tree' \in Trees,
         \/ \E result : Answer(result)
         \/ BecomesRebase
         \/ \E steps, fields :
              /\ GoesOn(steps, fields) /\ LeftOf(call.name, steps)
              /\ fields \subseteq {"kind", "rewords", "failed", "looks", "cleared", "matched"}
              /\ call'.rewords \subseteq 1..Len(call.plan)
              /\ call.name \in {"continue", "skip", "abort"} /\ steps = <<"run">> =>
                   call'.kind \in PendingKinds
  PROVE  TypeInv'
<1>1. acts \in Nat /\ acts' = acts
  BY DEF TypeInv, CallShape
<1>2. CASE \E result : Answer(result)
  <2>1. call' = NoCall /\ CallShape'
    BY <1>1, <1>2, AnswerShape DEF Answer
  <2>2. call'.name = "none" /\ call'.plan = <<>> /\ call'.rewords = {}
    BY <2>1 DEF NoCall
  <2>3. call'.plan \in Seq(Entries) /\ call'.rewords \subseteq 1..Len(call'.plan)
    BY <2>2
  <2> QED BY <2>1, <2>2, <2>3 DEF TypeInv
<1>3. CASE BecomesRebase
  <2>1. /\ call'.name = "rebase" /\ call'.plan = <<>> /\ call'.rewords = {}
        /\ call'.steps = <<"none pending", "clean", "run">> /\ call'.since = call.since
        /\ DOMAIN call' = CallFields /\ call'.cleared = 0 /\ call'.matched = 0
    BY <1>3 DEF BecomesRebase, NoCall, Steps, CallFields
  <2>2. LeftOf("rebase", <<"none pending", "clean", "run">>)
    BY DEF LeftOf
  <2>3. CallShape'
    <3>1. call.since \in Nat /\ call.since <= acts
      BY DEF TypeInv, CallShape
    <3>2. "rebase" \in CallNames \ {"amend", "reset", "plan"}
      BY DEF CallNames
    <3>3. acts' \in Nat /\ call'.since \in Nat /\ call'.since <= acts'
      BY <1>1, <2>1, <3>1
    <3>4. /\ call'.cleared \in Nat /\ call'.cleared <= acts'
          /\ call'.matched \in Nat /\ call'.matched <= acts'
      <4>1. 0 \in Nat /\ \A n \in Nat : 0 <= n
        OBVIOUS
      <4>2. acts' \in Nat /\ call'.cleared = 0 /\ call'.matched = 0
        BY <1>1, <2>1
      <4> QED BY <4>1, <4>2, Zenon
    <3>5. LeftOf(call'.name, call'.steps)
      BY <2>1, <2>2
    <3> QED BY <2>1, <3>2, <3>3, <3>4, <3>5 DEF CallShape
  <2>4. call'.plan \in Seq(Entries) /\ call'.rewords \subseteq 1..Len(call'.plan)
    <3>1. call'.plan = <<>> /\ call'.rewords = {}
      BY <2>1
    <3> QED BY <3>1
  <2> QED BY <2>1, <2>3, <2>4 DEF TypeInv
<1>4. CASE \E steps, fields :
              /\ GoesOn(steps, fields) /\ LeftOf(call.name, steps)
              /\ fields \subseteq {"kind", "rewords", "failed", "looks", "cleared", "matched"}
              /\ call'.rewords \subseteq 1..Len(call.plan)
              /\ call.name \in {"continue", "skip", "abort"} /\ steps = <<"run">> =>
                   call'.kind \in PendingKinds
  <2>1. PICK steps, fields :
              /\ GoesOn(steps, fields) /\ LeftOf(call.name, steps)
              /\ fields \subseteq {"kind", "rewords", "failed", "looks", "cleared", "matched"}
              /\ call'.rewords \subseteq 1..Len(call.plan)
              /\ call.name \in {"continue", "skip", "abort"} /\ steps = <<"run">> =>
                   call'.kind \in PendingKinds
    BY <1>4
  <2>2. fields \cap {"name", "since", "seen", "plan"} = {}
    BY <2>1
  <2>3. /\ call'.name = call.name /\ call'.plan = call.plan /\ call'.seen = call.seen
        /\ call'.steps = steps
    BY <2>1, <2>2, GoesOnTells DEF GoesOn
  <2>4. CallShape'
    BY <1>1, <2>1, <2>2, GoesOnShape DEF TypeInv
  <2> QED BY <2>1, <2>3, <2>4 DEF TypeInv
<1> QED BY <1>2, <1>3, <1>4

LEMMA TypeChecks == TypeInv /\ Checks => TypeInv'
<1> SUFFICES ASSUME TypeInv, Checks PROVE TypeInv'
  OBVIOUS
<1>1. CallShape /\ UNCHANGED <<upstream, preview, acts>> /\ tree' = tree /\ tree' \in Trees
  BY ChecksTell DEF TypeInv
<1>2. \A steps : GoesOn(steps, Noted) => call'.rewords \subseteq 1..Len(call.plan) /\ call'.name = call.name
  BY NotedTells DEF TypeInv
<1>3. CASE \/ \E result \in {"refused", "failed", "conflict"} : Answer(result)
           \/ BecomesRebase
  BY <1>1, <1>3, TypeGoesOn
<1>4. CASE /\ At("none pending") /\ GoesOn(Tail(call.steps), Noted)
           /\ LeftOf(call.name, Tail(call.steps))
  <2>1. call.name \notin {"continue", "skip", "abort"}
    <3>1. call.steps # <<>> /\ Head(call.steps) = "none pending" /\ LeftOf(call.name, call.steps)
      BY <1>1, <1>4 DEF At, CallShape
    <3> QED BY <3>1, HeadTells
  <2> QED BY <1>1, <1>2, <1>4, <2>1, TypeGoesOn DEF Noted
<1>5. CASE GoesOn(<<"head", "clean", "run">>, Noted) /\ call.name = "plan"
  <2>1. LeftOf(call.name, <<"head", "clean", "run">>)
    BY <1>5 DEF LeftOf
  <2> QED BY <1>1, <1>2, <1>5, <2>1, TypeGoesOn DEF Noted
<1>6. CASE GoesOn(<<"clean", "run">>, Noted) /\ call.name = "plan"
  <2>1. LeftOf(call.name, <<"clean", "run">>)
    BY <1>6 DEF LeftOf
  <2> QED BY <1>1, <1>2, <1>6, <2>1, TypeGoesOn DEF Noted
<1>7. CASE GoesOn(<<"run">>, Noted) /\ call.name \in {"plan", "reset", "amend", "rebase"}
  <2>1. LeftOf(call.name, <<"run">>)
    BY <1>7 DEF LeftOf
  <2> QED BY <1>1, <1>2, <1>7, <2>1, TypeGoesOn DEF Noted
<1>8. CASE /\ GoesOn(<<"run">>, {"kind"}) /\ call.name \in {"continue", "skip", "abort"}
           /\ Supports(Detected, call.name) /\ call'.kind = Detected
  <2>1. LeftOf(call.name, <<"run">>)
    BY <1>8 DEF LeftOf
  <2>2. Detected \in PendingKinds
    BY <1>8, DetectedType DEF Supports, PendingKinds, TypeInv
  <2>3. call'.rewords \subseteq 1..Len(call.plan)
    BY <1>8, GoesOnTells DEF TypeInv
  <2> QED BY <1>1, <1>8, <2>1, <2>2, <2>3, TypeGoesOn
<1>9. CASE GoesOn(<<"add">>, Noted) /\ call.name = "take"
  <2>1. LeftOf(call.name, <<"add">>)
    BY <1>9 DEF LeftOf
  <2> QED BY <1>1, <1>2, <1>9, <2>1, TypeGoesOn DEF Noted
<1> QED BY <1>1, <1>3, <1>4, <1>5, <1>6, <1>7, <1>8, <1>9, ChecksTell

LEMMA TypeWorking == TypeInv /\ Working => TypeInv'
<1> SUFFICES ASSUME TypeInv, Working PROVE TypeInv'
  OBVIOUS
<1>1. CallShape /\ UNCHANGED <<upstream, preview, acts>> /\ tree \in Trees
  BY WorkingTells DEF TypeInv
<1>2. ASSUME tree' \in Trees, \E result : Answer(result)
      PROVE  TypeInv'
  BY <1>1, <1>2, TypeGoesOn
<1>3. ASSUME tree' \in Trees, call.name = "plan", NEW steps \in Looping, NEW fields,
             GoesOn(steps, fields), fields \subseteq {"kind", "rewords", "failed", "looks", "cleared", "matched"},
             call'.rewords \subseteq 1..Len(call.plan)
      PROVE  TypeInv'
  <2>1. LeftOf(call.name, steps)
    BY <1>3 DEF LeftOf
  <2> QED BY <1>1, <1>3, <2>1, TypeGoesOn
<1>4. \A steps, fields : GoesOn(steps, fields) /\ "rewords" \notin fields =>
        call'.rewords \subseteq 1..Len(call.plan)
  BY GoesOnTells DEF TypeInv
<1>5. <<"look">> \in Looping /\ <<"amend">> \in Looping /\ <<"resume">> \in Looping
      /\ <<"continue">> \in Looping
  BY DEF Looping
<1>6. CASE /\ call.steps = <<"run">> /\ call.name \notin {"plan", "take", "mark", "none"}
           /\ \E o \in Outcomes : tree' = o.tree
           /\ \/ \E result \in {"completed", "empty", "failed"} : Answer(result)
              \/ /\ GoesOn(<<"inspect">>, {})
                 /\ call.name \in {"merge", "cherry-pick", "revert", "rebase"}
  <2>1. tree' \in Trees
    BY <1>6, OutcomesType
  <2>2. ASSUME GoesOn(<<"inspect">>, {}), call.name \in {"merge", "cherry-pick", "revert", "rebase"}
        PROVE  TypeInv'
    <3>1. LeftOf(call.name, <<"inspect">>)
      BY <2>2 DEF LeftOf
    <3> QED BY <1>1, <1>4, <2>1, <2>2, <3>1, TypeGoesOn
  <2> QED BY <1>2, <1>6, <2>1, <2>2
<1>7. CASE /\ call.steps = <<"run">> /\ call.name = "plan"
           /\ \E o \in Outcomes :
                /\ tree' = o.tree
                /\ \/ Answer("failed")
                   \/ /\ GoesOn(<<"look">>, {"rewords", "failed"})
                      /\ call'.rewords = QueuedRewords(call.plan)
  <2>1. tree' \in Trees
    BY <1>7, OutcomesType
  <2>2. QueuedRewords(call.plan) \subseteq 1..Len(call.plan)
    BY RewordsType DEF TypeInv
  <2> QED BY <1>2, <1>3, <1>5, <1>7, <2>1, <2>2
<1>8. CASE /\ call.name = "plan" /\ tree' = tree
           /\ \/ \E result : Answer(result)
              \/ GoesOn(<<"amend">>, {"looks"})
              \/ GoesOn(<<"continue">>, {"kind"})
              \/ GoesOn(<<"look">>, {"failed"})
  BY <1>1, <1>2, <1>3, <1>4, <1>5, <1>8
<1>9. CASE /\ call.name = "plan"
           /\ \E o \in Amend(tree) :
                /\ tree' = o.tree
                /\ \/ Answer("failed")
                   \/ /\ GoesOn(<<"resume">>, {"rewords"})
                      /\ call'.rewords = call.rewords \ {NextReword(call.rewords)}
  <2>1. tree' \in Trees
    BY <1>1, <1>9, AmendTells
  <2>2. call.rewords \ {NextReword(call.rewords)} \subseteq 1..Len(call.plan)
    BY DEF TypeInv
  <2> QED BY <1>2, <1>3, <1>5, <1>9, <2>1, <2>2
<1>10. CASE /\ call.name = "plan"
            /\ \E o \in Continue(tree, call.kind) :
                 /\ tree' = o.tree
                 /\ Answer("failed") \/ GoesOn(<<"look">>, {"failed"})
  <2>1. tree' \in Trees
    BY <1>1, <1>10, ContinueTells
  <2> QED BY <1>2, <1>3, <1>4, <1>5, <1>10, <2>1
<1>11. CASE /\ \E unmerged \in {FALSE, tree.unmerged} :
                 tree' \in {tree, [tree EXCEPT !.unmerged = unmerged]}
            /\ \E result \in {"completed", "failed"} : Answer(result)
  <2>1. tree' \in Trees
    BY <1>1, <1>11 DEF Trees
  <2> QED BY <1>2, <1>11, <2>1
<1> QED BY <1>1, <1>6, <1>7, <1>8, <1>9, <1>10, <1>11, WorkingTells

LEMMA TypeInit == Size \in Nat /\ ProviderInit => TypeInv
<1> SUFFICES ASSUME Size \in Nat, ProviderInit PROVE TypeInv
  OBVIOUS
<1> DEFINE commits == [i \in 1..Size |-> [changes |-> {i}, reworded |-> FALSE]]
<1>1. commits \in [1..Size -> AnyCommits]
  BY DEF AnyCommits
<1>2. commits \in Seq(AnyCommits)
  BY <1>1
<1> HIDE DEF commits
<1>3. tree = [head |-> [onto |-> 0, commits |-> commits],
              operation |-> NoOperation, unmerged |-> FALSE, dirty |-> FALSE]
  BY DEF ProviderInit, commits
<1>4. tree \in Trees
  BY <1>2, <1>3 DEF Trees, Heads
<1>5. CallShape
  BY NoCallShape DEF ProviderInit, CallShape, CallNames, LeftOf
<1>6. call.name = "none" /\ call.plan = <<>> /\ call.rewords = {}
  BY DEF ProviderInit, NoCall
<1>7. call.plan \in Seq(Entries) /\ call.rewords \subseteq 1..Len(call.plan)
  BY <1>6
<1> QED BY <1>4, <1>5, <1>6, <1>7 DEF ProviderInit, TypeInv

LEMMA TypeNext == TypeInv /\ [ProviderNext]_providerVars => TypeInv'
<1> SUFFICES ASSUME TypeInv, [ProviderNext]_providerVars PROVE TypeInv'
  OBVIOUS
<1>1. CASE Disturbs
  <2>1. acts \in Nat /\ acts + 1 \in Nat /\ call.since <= acts + 1
    BY DEF TypeInv, CallShape
  <2> QED BY <1>1, <2>1, DisturbsTells DEF TypeInv, CallShape
<1>2. CASE Preview
  <2>1. [head |-> tree.head, onto |-> upstream] \in Previews
    BY TreeFields DEF TypeInv, Previews
  <2> QED BY <1>2, <2>1 DEF Preview, TypeInv, CallShape
<1>3. CASE OutsideMovesUpstream
  BY <1>3 DEF OutsideMovesUpstream, TypeInv, CallShape
<1>4. CASE UNCHANGED providerVars
  BY <1>4 DEF providerVars, TypeInv, CallShape
<1> QED BY <1>1, <1>2, <1>3, <1>4, NextSplits, TypeBegins, TypeChecks, TypeWorking

(***************************************************************************)
(* What is rewritten is what was confirmed.                                *)
(***************************************************************************)
\* Once HEAD has been compared it stays, until others act or the call does.
HeadInv ==
  /\ call.name \in {"amend", "reset", "plan"} /\ call.steps \in {<<"run">>, <<"clean", "run">>}
  /\ acts = call.matched
  => tree.head = call.seen.head

LEMMA StepsDiffer ==
  /\ <<"run">> # <<"inspect">> /\ <<"run">> # <<"look">> /\ <<"run">> # <<"amend">>
  /\ <<"run">> # <<"resume">> /\ <<"run">> # <<"continue">> /\ <<"run">> # <<"add">>
  /\ <<"clean", "run">> \notin
       {<<"run">>, <<"inspect">>, <<"look">>, <<"amend">>, <<"resume">>, <<"continue">>, <<"add">>}
  /\ <<"head", "clean", "run">> \notin {<<"run">>, <<"clean", "run">>}
  /\ <<>> \notin {<<"run">>, <<"clean", "run">>}
  /\ <<"head", "run">> \notin {<<"run">>, <<"clean", "run">>}
OBVIOUS

LEMMA HeadNext == TypeInv /\ HeadInv /\ [ProviderNext]_providerVars => HeadInv'
<1> SUFFICES ASSUME TypeInv, HeadInv, [ProviderNext]_providerVars PROVE HeadInv'
  OBVIOUS
<1>1. CallShape /\ acts \in Nat /\ call.matched <= acts /\ call.matched \in Nat
  BY DEF TypeInv, CallShape
<1>2. CASE Preview \/ OutsideMovesUpstream \/ UNCHANGED providerVars
  BY <1>2, NothingMoves DEF HeadInv
<1>3. CASE Disturbs
  BY <1>1, <1>3, DisturbsTells DEF HeadInv
<1>4. CASE Begins
  <2>1. PICK plan, seen : \E name \in CallNames \ {"none"} :
          BeginCall(name, plan, seen) /\ (name \in {"amend", "reset", "plan"} => seen # <<>>)
    BY <1>4, BeginsTells
  <2>2. call'.steps \notin {<<"run">>, <<"clean", "run">>}
    BY <1>1, <2>1, BeginShape
  <2> QED BY <2>2 DEF HeadInv
<1>5. ASSUME \E result : Answer(result)
      PROVE  HeadInv'
  <2>1. call'.name = "none"
    BY <1>5 DEF Answer, NoCall
  <2> QED BY <2>1 DEF HeadInv
<1>6. ASSUME NEW steps, NEW fields, GoesOn(steps, fields), "name" \notin fields,
             steps \notin {<<"run">>, <<"clean", "run">>} \/ call.name \notin {"amend", "reset", "plan"}
      PROVE  HeadInv'
  BY <1>6, GoesOnTells DEF HeadInv, GoesOn
<1>7. CASE Checks
  <2>1. UNCHANGED <<tree, acts>>
    BY <1>1, <1>7, ChecksTell
  <2>2. ASSUME NEW steps, GoesOn(steps, Noted), tree.head = call.seen.head
        PROVE  HeadInv'
    <3>1. call'.seen = call.seen
      BY <2>2, NotedTells
    <3> QED BY <2>1, <2>2, <3>1 DEF HeadInv
  <2>3. ASSUME call.steps = <<"clean", "run">>, GoesOn(<<"run">>, Noted), call.name \in {"plan", "rebase"},
               call'.matched = call.matched
        PROVE  HeadInv'
    <3>1. call'.seen = call.seen /\ call'.name = call.name /\ call'.matched = call.matched
      BY <2>3, NotedTells
    <3> QED BY <2>1, <2>3, <3>1 DEF HeadInv
  <2>4. ASSUME BecomesRebase PROVE HeadInv'
    <3>1. call'.name = "rebase"
      BY <2>4 DEF BecomesRebase, NoCall
    <3> QED BY <3>1 DEF HeadInv
  <2> QED BY <1>1, <1>5, <1>6, <1>7, <2>2, <2>3, <2>4, ChecksTell, NotedTells, StepsDiffer DEF Noted
<1>8. CASE Working
  <2>1. \A steps \in {<<"inspect">>, <<"look">>, <<"amend">>, <<"resume">>, <<"continue">>} :
          steps \notin {<<"run">>, <<"clean", "run">>}
    BY StepsDiffer
  <2>2. ASSUME NEW steps \in {<<"inspect">>, <<"look">>, <<"amend">>, <<"resume">>, <<"continue">>},
               NEW fields, GoesOn(steps, fields), "name" \notin fields
        PROVE  HeadInv'
    BY <1>6, <2>1, <2>2
  <2> QED BY <1>1, <1>5, <1>8, <2>2, WorkingTells
<1> QED BY <1>2, <1>3, <1>4, <1>7, <1>8, NextSplits

LEMMA Invariance == ASSUME ProviderAssumption PROVE ProviderSpec => [](TypeInv /\ HeadInv)
<1>1. ProviderInit => TypeInv /\ HeadInv
  <2>1. ProviderInit => call.name = "none"
    BY DEF ProviderInit, NoCall
  <2> QED BY <2>1, TypeInit DEF ProviderAssumption, HeadInv
<1>2. TypeInv /\ HeadInv /\ [ProviderNext]_providerVars => (TypeInv /\ HeadInv)'
  BY TypeNext, HeadNext
<1> QED BY <1>1, <1>2, PTL DEF ProviderSpec

\* An amend, a reset or a rebase plan rewrites the HEAD it was confirmed for, whatever
\* happens between the preview and the call (amend_commit, reset, execute_rebase_plan:
\* "revalidated immediately before").
THEOREM ConfirmedHead == ASSUME ProviderAssumption PROVE ProviderSpec => ActsOnConfirmedHead
<1>1. TypeInv /\ HeadInv /\ [ProviderNext]_providerVars =>
        [At("run") /\ call.name \in {"amend", "reset", "plan"} /\ tree' # tree /\ acts' = call.matched
           => tree.head = call.seen.head]_providerVars
  <2> SUFFICES ASSUME TypeInv, HeadInv, [ProviderNext]_providerVars, At("run"),
                      call.name \in {"amend", "reset", "plan"}, acts' = call.matched
               PROVE  tree' # tree => tree.head = call.seen.head
    OBVIOUS
  <2>1. call.steps = <<"run">>
    BY HeadTells DEF At, TypeInv, CallShape
  <2>2. acts' = acts \/ acts' = acts + 1
    BY NextSplits, NothingMoves, DisturbsTells, ChecksTell, WorkingTells, BeginsTells DEF TypeInv, BeginCall
  <2>3. acts = call.matched \/ tree' = tree
    BY <2>2 DEF TypeInv, CallShape
  <2> QED BY <2>1, <2>3 DEF HeadInv
<1> QED BY <1>1, Invariance, PTL DEF ProviderSpec, ActsOnConfirmedHead

(***************************************************************************)
(* reset and the operation in progress.  In a linked worktree the provider *)
(* does not find the operation that is in progress there.                  *)
(***************************************************************************)
PendingInv ==
  /\ call.name = "reset" /\ call.steps \in {<<"head", "run">>, <<"run">>} /\ acts = call.cleared
  => Detected = "none"

LEMMA PendingNext == TypeInv /\ PendingInv /\ [ProviderNext]_providerVars => PendingInv'
<1> SUFFICES ASSUME TypeInv, PendingInv, [ProviderNext]_providerVars PROVE PendingInv'
  OBVIOUS
<1>1. CallShape /\ acts \in Nat /\ call.cleared <= acts /\ call.cleared \in Nat
  BY DEF TypeInv, CallShape
<1>2. CASE Preview \/ OutsideMovesUpstream \/ UNCHANGED providerVars
  BY <1>2, NothingMoves DEF PendingInv, Detected
<1>3. CASE Disturbs
  BY <1>1, <1>3, DisturbsTells DEF PendingInv
<1>4. CASE Begins
  <2>1. PICK plan, seen : \E name \in CallNames \ {"none"} :
          BeginCall(name, plan, seen) /\ (name \in {"amend", "reset", "plan"} => seen # <<>>)
    BY <1>4, BeginsTells
  <2>2. PICK name \in CallNames \ {"none"} :
          BeginCall(name, plan, seen) /\ (name \in {"amend", "reset", "plan"} => seen # <<>>)
    BY <2>1
  <2>3. /\ call'.name = name /\ call'.steps # <<"run">>
        /\ name # "amend" => call'.steps # <<"head", "run">>
    BY <1>1, <2>2, BeginShape
  <2> QED BY <2>3 DEF PendingInv
<1>5. ASSUME \E result : Answer(result)
      PROVE  PendingInv'
  <2>1. call'.name = "none"
    BY <1>5 DEF Answer, NoCall
  <2> QED BY <2>1 DEF PendingInv
<1>6. ASSUME NEW steps, NEW fields, GoesOn(steps, fields), "name" \notin fields,
             call.name # "reset"
      PROVE  PendingInv'
  BY <1>6, GoesOnTells DEF PendingInv, GoesOn
<1>7. CASE Checks
  <2>1. UNCHANGED <<tree, acts>>
    BY <1>1, <1>7, ChecksTell
  <2>2. ASSUME NEW steps, GoesOn(steps, Noted), Detected = "none"
        PROVE  PendingInv'
    BY <2>1, <2>2 DEF PendingInv, Detected
  <2>3. ASSUME At("head"), GoesOn(<<"run">>, Noted), call.name = "reset",
               call'.cleared = call.cleared
        PROVE  PendingInv'
    <3>1. call.steps = <<"head", "run">>
      <4>1. /\ Head(<<"none pending", "head", "run">>) = "none pending"
            /\ Head(<<"run">>) = "run"
        OBVIOUS
      <4> QED BY <1>1, <2>3, <4>1 DEF CallShape, LeftOf, At
    <3>2. call'.name = call.name /\ call'.cleared = call.cleared
      BY <2>3, NotedTells
    <3> QED BY <2>1, <2>3, <3>1, <3>2 DEF PendingInv, Detected
  <2>4. ASSUME BecomesRebase PROVE PendingInv'
    <3>1. call'.name = "rebase"
      BY <2>4 DEF BecomesRebase, NoCall
    <3> QED BY <3>1 DEF PendingInv
  <2> QED BY <1>1, <1>5, <1>6, <1>7, <2>2, <2>3, <2>4, ChecksTell, NotedTells DEF Noted
<1>8. CASE Working
  <2>1. ASSUME NEW steps \in {<<"inspect">>, <<"look">>, <<"amend">>, <<"resume">>, <<"continue">>},
               NEW fields, GoesOn(steps, fields), "name" \notin fields
        PROVE  PendingInv'
    <3>1. steps \notin {<<"head", "run">>, <<"run">>}
      OBVIOUS
    <3> QED BY <2>1, <3>1 DEF PendingInv, GoesOn
  <2> QED BY <1>1, <1>5, <1>8, <2>1, WorkingTells
<1> QED BY <1>2, <1>3, <1>4, <1>7, <1>8, NextSplits

\* reset never runs in the middle of an operation, whose state it would corrupt, in the
\* main worktree (reset, require_no_pending_operation).
THEOREM NothingPending ==
  ASSUME ProviderAssumption, ~ Linked PROVE ProviderSpec => ResetsNothingPending
<1>1. ProviderInit => PendingInv
  BY DEF ProviderInit, NoCall, PendingInv
<1>2. TypeInv /\ PendingInv /\ [ProviderNext]_providerVars =>
        [At("run") /\ call.name = "reset" /\ tree' # tree /\ acts' = call.cleared
           => tree.operation = NoOperation]_providerVars
  <2> SUFFICES ASSUME TypeInv, PendingInv, [ProviderNext]_providerVars, At("run"), call.name = "reset",
                      acts' = call.cleared
               PROVE  tree' # tree => tree.operation = NoOperation
    OBVIOUS
  <2>1. call.steps = <<"run">>
    BY HeadTells DEF At, TypeInv, CallShape
  <2>2. acts' = acts \/ acts' = acts + 1
    BY NextSplits, NothingMoves, DisturbsTells, ChecksTell, WorkingTells, BeginsTells DEF TypeInv, BeginCall
  <2>3. acts = call.cleared
    BY <2>2 DEF TypeInv, CallShape
  <2>4. tree.operation.kind = "none"
    BY <2>1, <2>3 DEF PendingInv, Detected
  <2> QED BY <2>4, TreeFields DEF TypeInv
<1> QED BY <1>1, <1>2, PendingNext, Invariance, PTL DEF ProviderSpec, ResetsNothingPending

(***************************************************************************)
(* The loop of a plan ends within its turns: each takes a message from the *)
(* queue, which is no longer than the plan.                                *)
(***************************************************************************)
Amending == {<<"amend">>}

LoopInv ==
  /\ answer # "diverged"
  /\ call.looks \in Nat /\ (call.steps \notin Looping => call.looks = 0)
  /\ call.steps \in Looping /\ call.steps \notin Amending =>
       call.looks + Cardinality(call.rewords) <= Len(call.plan)
  /\ call.steps \in Amending =>
       call.rewords # {} /\ call.looks + Cardinality(call.rewords) <= Len(call.plan) + 1

LEMMA RewordsFinite ==
  ASSUME NEW plan \in Seq(Entries), NEW rewords, rewords \subseteq 1..Len(plan)
  PROVE  /\ IsFiniteSet(rewords) /\ Cardinality(rewords) \in Nat
         /\ Cardinality(rewords) <= Len(plan) /\ Len(plan) \in Nat
<1>1. Len(plan) \in Nat
  OBVIOUS
<1>2. IsFiniteSet(1..Len(plan)) /\ Cardinality(1..Len(plan)) = Len(plan)
  <2>1. PICK n \in Nat : n = Len(plan)
    BY <1>1
  <2>2. IsFiniteSet(1..n) /\ Cardinality(1..n) = IF 1 > n THEN 0 ELSE n - 1 + 1
    BY FS_Interval
  <2> QED BY <2>1, <2>2
<1> QED BY <1>1, <1>2, FS_Subset, FS_CardinalityType

LEMMA NextRewordTells ==
  ASSUME NEW rewords, rewords \subseteq Nat, rewords # {}
  PROVE  NextReword(rewords) \in rewords /\ \A i \in rewords : NextReword(rewords) <= i
<1>1. \E i \in rewords : \A j \in rewords : i <= j
  BY LeastNumber
<1> QED BY <1>1 DEF NextReword, Min

\* The steps of the loop are no others', and only one of them amends.
LEMMA LoopingTells ==
  /\ \A steps \in {<<"run">>, <<"inspect">>, <<"add">>, <<"head", "run">>, <<"clean", "run">>,
                    <<"head", "clean", "run">>, <<"onto", "head", "clean", "run">>, <<>>,
                    <<"none pending", "clean", "run">>} :
        steps \notin Looping
  /\ \A steps \in {<<"look">>, <<"resume">>, <<"continue">>} :
        steps \in Looping /\ steps \notin Amending
  /\ <<"amend">> \in Looping /\ <<"amend">> \in Amending
  /\ \A steps : steps \notin Looping => steps \notin Amending
<1>1. /\ <<"run">> \notin Looping /\ <<"inspect">> \notin Looping /\ <<"add">> \notin Looping
  BY DEF Looping
<1>2. <<"head", "run">> \notin Looping /\ <<"clean", "run">> \notin Looping
  BY DEF Looping
<1>3. /\ <<"head", "clean", "run">> \notin Looping
      /\ <<"onto", "head", "clean", "run">> \notin Looping
  BY DEF Looping
<1>4. <<>> \notin Looping /\ <<"none pending", "clean", "run">> \notin Looping
  BY DEF Looping
<1>5. /\ <<"look">> \in Looping /\ <<"resume">> \in Looping /\ <<"continue">> \in Looping
      /\ <<"amend">> \in Looping
  BY DEF Looping
<1>6. <<"look">> \notin Amending /\ <<"resume">> \notin Amending /\ <<"continue">> \notin Amending
      /\ <<"amend">> \in Amending
  BY DEF Amending
<1>7. \A steps : steps \in Amending => steps \in Looping
  BY DEF Amending, Looping
<1> QED BY <1>1, <1>2, <1>3, <1>4, <1>5, <1>6, <1>7, Zenon

LEMMA LoopHolds ==
  ASSUME answer' # "diverged", call'.looks \in Nat,
         call'.steps \notin Looping => call'.looks = 0,
         call'.steps \in Looping /\ call'.steps \notin Amending =>
           call'.looks + Cardinality(call'.rewords) <= Len(call'.plan),
         call'.steps \in Amending =>
           /\ call'.rewords # {}
           /\ call'.looks + Cardinality(call'.rewords) <= Len(call'.plan) + 1
  PROVE  LoopInv'
BY Zenon DEF LoopInv, Looping, Amending

LEMMA LoopNext == TypeInv /\ LoopInv /\ [ProviderNext]_providerVars => LoopInv'
<1> SUFFICES ASSUME TypeInv, LoopInv, [ProviderNext]_providerVars PROVE LoopInv'
  OBVIOUS
<1>1. /\ CallShape /\ call.plan \in Seq(Entries) /\ call.rewords \subseteq 1..Len(call.plan)
      /\ tree \in Trees
  BY DEF TypeInv
<1>2. /\ \A steps : steps \notin Looping => steps \notin Amending
      /\ \A steps \in {<<"run">>, <<"inspect">>, <<"add">>, <<"head", "run">>, <<"clean", "run">>,
                       <<"head", "clean", "run">>, <<"onto", "head", "clean", "run">>, <<>>} :
           steps \notin Looping
  BY LoopingTells, Zenon
<1>3. CASE Preview \/ OutsideMovesUpstream \/ UNCHANGED providerVars
  BY <1>3, NothingMoves, LoopHolds DEF LoopInv
<1>4. CASE Disturbs
  BY <1>4, DisturbsTells, LoopHolds DEF LoopInv
<1>5. ASSUME call' = NoCall, answer' # "diverged" PROVE LoopInv'
  <2>1. call'.steps = <<>> /\ call'.looks = 0
    BY <1>5 DEF NoCall
  <2>2. <<>> \notin Looping
    BY <1>2
  <2> QED BY <1>2, <1>5, <2>1, <2>2, LoopHolds
<1>6. CASE Begins
  <2>1. PICK plan, seen : \E name \in CallNames \ {"none"} :
          BeginCall(name, plan, seen) /\ (name \in {"amend", "reset", "plan"} => seen # <<>>)
    BY <1>6, BeginsTells
  <2>2. call'.steps \notin Looping /\ call'.looks = 0
    BY <1>1, <2>1, BeginShape DEF CallShape
  <2>3. answer' = "none"
    BY <2>1 DEF BeginCall
  <2> QED BY <1>2, <2>2, <2>3, LoopHolds
<1>7. ASSUME NEW result \in {"refused", "failed", "conflict", "completed", "empty", "internal"},
             Answer(result)
      PROVE  LoopInv'
  BY <1>5, <1>7 DEF Answer
<1>8. ASSUME NEW steps, NEW fields, GoesOn(steps, fields), {"looks", "plan"} \cap fields = {},
             steps \notin Looping, call.steps \notin Looping
      PROVE  LoopInv'
  BY <1>2, <1>8, GoesOnTells, LoopHolds DEF LoopInv, GoesOn
<1>9. CASE Checks
  <2>1. ASSUME BecomesRebase PROVE LoopInv'
    <3>1. call'.steps = Steps("rebase") /\ call'.looks = 0 /\ answer' = answer
      BY <2>1 DEF BecomesRebase, NoCall
    <3>2. Steps("rebase") \notin Looping
      BY LoopingTells, Zenon DEF Steps
    <3>3. answer' # "diverged"
      BY <3>1 DEF LoopInv
    <3> QED BY <1>2, <3>1, <3>2, <3>3, LoopHolds
  <2>2. \A step \in {"none pending", "onto", "head", "clean", "pending", "checkout"} :
          At(step) => call.steps \notin Looping
    <3>1. /\ Head(<<"look">>) = "look" /\ Head(<<"amend">>) = "amend"
          /\ Head(<<"resume">>) = "resume" /\ Head(<<"continue">>) = "continue"
      OBVIOUS
    <3> QED BY <3>1 DEF At, Looping
  <2>3. At("none pending") => Tail(call.steps) \notin Looping
    <3>1. \/ Tail(call.steps) \in {<<"run">>, <<"clean", "run">>, <<"head", "run">>}
          \/ Tail(call.steps) = <<"onto", "head", "clean", "run">>
          \/ ~ At("none pending")
      BY <1>1, HeadTells DEF At, CallShape
    <3> QED BY <1>2, <3>1
  <2>4. ASSUME NEW steps, steps \notin Looping, call.steps \notin Looping,
               GoesOn(steps, Noted) \/ GoesOn(steps, {"kind"})
        PROVE  LoopInv'
    BY <1>8, <2>4 DEF Noted
  <2>5. ASSUME Answer("refused") \/ Answer("failed") \/ Answer("conflict") PROVE LoopInv'
    BY <1>7, <2>5
  <2>6. <<"run">> \notin Looping /\ <<"clean", "run">> \notin Looping
    BY LoopingTells, Zenon
  <2>7. <<"head", "clean", "run">> \notin Looping /\ <<"add">> \notin Looping
    BY LoopingTells, Zenon
  <2> QED BY <1>1, <1>9, <2>1, <2>2, <2>3, <2>4, <2>5, <2>6, <2>7, ChecksTell, Zenon
<1>10. CASE Working
  <2>1. CASE /\ call.steps = <<"run">>
             /\ \/ \E result \in {"completed", "empty", "failed"} : Answer(result)
                \/ GoesOn(<<"inspect">>, {})
    BY <1>2, <1>7, <1>8, <2>1
  <2>2. CASE /\ call.steps = <<"run">>
             /\ \/ Answer("failed")
                \/ /\ GoesOn(<<"look">>, {"rewords", "failed"})
                   /\ call'.rewords = QueuedRewords(call.plan)
    <3>1. SUFFICES ASSUME GoesOn(<<"look">>, {"rewords", "failed"}),
                          call'.rewords = QueuedRewords(call.plan)
                   PROVE  LoopInv'
      BY <1>7, <2>2
    <3>2. /\ call'.steps = <<"look">> /\ call'.looks = call.looks /\ call'.plan = call.plan
          /\ answer' = answer
      BY <3>1, GoesOnTells DEF GoesOn
    <3>3. call.looks = 0 /\ <<"look">> \in Looping /\ <<"look">> \notin Amending
      BY <1>2, <2>2, LoopingTells, LoopHolds DEF LoopInv
    <3>4. Cardinality(call'.rewords) <= Len(call.plan) /\ Cardinality(call'.rewords) \in Nat
      BY <1>1, <3>1, RewordsType, RewordsFinite
    <3> QED BY <3>2, <3>3, <3>4, LoopHolds DEF LoopInv
  <2>3. CASE /\ call.steps = <<"look">>
             /\ \/ call.looks = MaxIterations(call.plan) /\ Answer("diverged")
                \/ \E result \in {"completed", "conflict", "internal"} : Answer(result)
                \/ /\ GoesOn(<<"amend">>, {"looks"}) /\ call'.looks = call.looks + 1
                   /\ call.rewords # {}
    <3>1. /\ call.looks + Cardinality(call.rewords) <= Len(call.plan) /\ call.looks \in Nat
          /\ Cardinality(call.rewords) \in Nat /\ Len(call.plan) \in Nat
      <4>1. <<"look">> \in Looping /\ <<"look">> \notin Amending
        BY LoopingTells
      <4> QED BY <1>1, <2>3, <4>1, RewordsFinite, LoopHolds DEF LoopInv
    <3>2. call.looks # MaxIterations(call.plan)
      BY <3>1 DEF MaxIterations
    <3>3. ASSUME GoesOn(<<"amend">>, {"looks"}), call'.looks = call.looks + 1, call.rewords # {}
          PROVE  LoopInv'
      <4>1. /\ call'.steps = <<"amend">> /\ call'.rewords = call.rewords /\ call'.plan = call.plan
            /\ answer' = answer
        BY <3>3, GoesOnTells DEF GoesOn
      <4>2. <<"amend">> \in Amending /\ <<"amend">> \in Looping
        BY LoopingTells
      <4>3. call'.steps \in Amending /\ call'.steps \in Looping
        BY <4>1, <4>2
      <4> QED BY <3>1, <3>3, <4>1, <4>3, LoopHolds DEF LoopInv
    <3> QED BY <1>7, <2>3, <3>2, <3>3
  <2>4. CASE /\ call.steps = <<"amend">>
             /\ \/ Answer("failed")
                \/ /\ GoesOn(<<"resume">>, {"rewords"})
                   /\ call'.rewords = call.rewords \ {NextReword(call.rewords)}
    <3>1. SUFFICES ASSUME GoesOn(<<"resume">>, {"rewords"}),
                          call'.rewords = call.rewords \ {NextReword(call.rewords)}
                   PROVE  LoopInv'
      BY <1>7, <2>4
    <3>2. /\ call'.steps = <<"resume">> /\ call'.looks = call.looks /\ call'.plan = call.plan
          /\ answer' = answer
      BY <3>1, GoesOnTells DEF GoesOn
    <3>3. /\ call.looks + Cardinality(call.rewords) <= Len(call.plan) + 1 /\ call.looks \in Nat
          /\ call.rewords # {}
      BY <2>4, LoopingTells, LoopHolds DEF LoopInv
    <3>4. /\ IsFiniteSet(call.rewords) /\ Cardinality(call.rewords) \in Nat
          /\ Len(call.plan) \in Nat /\ call.rewords \subseteq Nat
      BY <1>1, RewordsFinite
    <3>5. NextReword(call.rewords) \in call.rewords
      BY <3>3, <3>4, NextRewordTells
    <3>6. Cardinality(call'.rewords) = Cardinality(call.rewords) - 1
      BY <3>1, <3>4, <3>5, FS_RemoveElement
    <3>7. <<"resume">> \in Looping /\ <<"resume">> \notin Amending
      BY LoopingTells
    <3> QED BY <3>2, <3>3, <3>4, <3>6, <3>7, LoopHolds DEF LoopInv
  <2>5. CASE /\ call.steps \in {<<"resume">>, <<"continue">>}
             /\ \/ Answer("failed")
                \/ GoesOn(<<"continue">>, {"kind"})
                \/ GoesOn(<<"look">>, {"failed"})
    <3>1. /\ call.looks + Cardinality(call.rewords) <= Len(call.plan) /\ call.looks \in Nat
      <4>1. call.steps \in Looping /\ call.steps \notin Amending
        BY <2>5, LoopingTells
      <4> QED BY <4>1, LoopHolds DEF LoopInv
    <3>2. ASSUME NEW steps \in {<<"continue">>, <<"look">>}, NEW fields, GoesOn(steps, fields),
                 {"looks", "plan", "rewords"} \cap fields = {}
          PROVE  LoopInv'
      <4>1. /\ call'.steps = steps /\ call'.looks = call.looks /\ call'.plan = call.plan
            /\ call'.rewords = call.rewords /\ answer' = answer
        BY <3>2, GoesOnTells DEF GoesOn
      <4>2. steps \in Looping /\ steps \notin Amending
        BY <3>2, LoopingTells
      <4>3. call'.steps \in Looping /\ call'.steps \notin Amending
        BY <4>1, <4>2
      <4> QED BY <3>1, <4>1, <4>3, LoopHolds DEF LoopInv
    <3> QED BY <1>7, <2>5, <3>2
  <2> QED BY <1>1, <1>7, <1>10, <2>1, <2>2, <2>3, <2>4, <2>5, WorkingTells
<1> QED BY <1>3, <1>4, <1>6, <1>9, <1>10, NextSplits

\* The loop of execute_rebase_plan is never given up, even when other programs act on the
\* rebase: the turns max_iterations allows are enough.
THEOREM LoopEnds == ASSUME ProviderAssumption PROVE ProviderSpec => []LoopConverges
<1>1. ProviderInit => LoopInv
  <2>1. ProviderInit => /\ call.steps = <<>> /\ call.looks = 0 /\ call.rewords = {} /\ answer = "none"
    BY DEF ProviderInit, NoCall
  <2>2. <<>> \notin Looping /\ <<>> \notin Amending
    BY LoopingTells
  <2> QED BY <2>1, <2>2 DEF LoopInv
<1>2. LoopInv => LoopConverges
  BY DEF LoopInv, LoopConverges
<1> QED BY <1>1, <1>2, LoopNext, Invariance, PTL DEF ProviderSpec

(***************************************************************************)
(* The loop of a plan, while no program outside has acted and no run of    *)
(* git has failed.  Git stops at the rewords of the plan, in their order:  *)
(* the plan is built up to one of them, whose message is to be written or  *)
(* has been, and the list holds the entries after it.  Or it has finished. *)
(***************************************************************************)
PausedAt(t, plan, onto, p) ==
  /\ plan[p].action = "reword" /\ Accepts(Todo(plan))
  /\ t.operation.kind = "rebase" /\ t.operation.stop = "edit"
  /\ t.operation.todo = RestOf(plan, p) /\ t.head.onto = onto

Unwritten(t, plan, onto, rewords) ==
  \E p \in 1..Len(plan) :
    /\ PausedAt(t, plan, onto, p)
    /\ t.head.commits = Append(Built(plan)[p - 1], plan[p].commit)
    /\ rewords = {j \in QueuedRewords(plan) : p <= j}

Written(t, plan, onto, rewords) ==
  \E p \in 1..Len(plan) :
    /\ PausedAt(t, plan, onto, p)
    /\ t.head.commits = Built(plan)[p]
    /\ rewords = {j \in QueuedRewords(plan) : p < j}

Finished(t, plan, onto) == t.operation = NoOperation /\ t.head = Rebased(plan, onto)

\* From entry i of the plan, whose later rewords are still queued, git goes to the end or
\* to the first of them.
LEMMA GoesWell ==
  ASSUME NEW plan \in Seq(Entries), Accepts(Todo(plan)), NEW i \in 0..Len(plan),
         NEW onto, NEW o, o.tree \in Trees,
         Worked(o, onto, Built(plan)[i], RestOf(plan, i)),
         NEW rewords, rewords = {j \in QueuedRewords(plan) : i < j}
  PROVE  Finished(o.tree, plan, onto) \/ Unwritten(o.tree, plan, onto, rewords)
<1>1. CASE o.tree.operation = NoOperation /\ o.tree.head = Rebased(plan, onto)
  BY <1>1 DEF Finished
<1>2. ASSUME NEW p \in i + 1..Len(plan),
             plan[p].action = "reword" /\ \A j \in i + 1..p - 1 : plan[j].action # "reword",
             o.tree.head.onto = onto,
             o.tree.head.commits = Append(Built(plan)[p - 1], plan[p].commit),
             o.tree.operation.kind = "rebase" /\ o.tree.operation.stop = "edit",
             o.tree.operation.todo = RestOf(plan, p)
      PROVE  Unwritten(o.tree, plan, onto, rewords)
  <2>1. p \in 1..Len(plan) /\ Len(plan) \in Nat /\ i \in Nat
    OBVIOUS
  <2>2. rewords = {j \in QueuedRewords(plan) : p <= j}
    <3>1. \A j \in QueuedRewords(plan) : j \in 1..Len(plan) /\ plan[j].action = "reword"
      BY DEF QueuedRewords
    <3>2. \A j \in QueuedRewords(plan) : i < j <=> p <= j
      BY <1>2, <2>1, <3>1
    <3> QED BY <3>2
  <2>3. PausedAt(o.tree, plan, onto, p)
    BY <1>2 DEF PausedAt
  <2> QED BY <1>2, <2>1, <2>2, <2>3 DEF Unwritten
<1>3. \/ /\ o.tree.operation = NoOperation /\ o.tree.head = Rebased(plan, onto)
      \/ \E p \in i + 1..Len(plan) :
           /\ plan[p].action = "reword" /\ \A j \in i + 1..p - 1 : plan[j].action # "reword"
           /\ o.tree.head.onto = onto
           /\ o.tree.head.commits = Append(Built(plan)[p - 1], plan[p].commit)
           /\ o.tree.operation.kind = "rebase" /\ o.tree.operation.stop = "edit"
           /\ o.tree.operation.todo = RestOf(plan, p)
  BY WorkedTells
<1> QED BY <1>1, <1>2, <1>3

LEMMA StartsWell ==
  ASSUME NEW plan \in Seq(Entries), Accepts(Todo(plan)), NEW onto, NEW o, o.tree \in Trees,
         Worked(o, onto, <<>>, Todo(plan))
  PROVE  \/ Finished(o.tree, plan, onto)
         \/ Unwritten(o.tree, plan, onto, QueuedRewords(plan))
<1>1. Len(plan) \in Nat /\ 0 \in 0..Len(plan)
  OBVIOUS
<1>2. Built(plan)[0] = <<>>
  BY <1>1, BuiltUnfolds
<1>3. RestOf(plan, 0) = Todo(plan)
  <2>1. PICK rest : rest = RestOf(plan, 0)
    OBVIOUS
  <2>2. PICK n \in Nat : n = Len(plan)
    BY <1>1
  <2>3. /\ rest \in Seq(Items) /\ Len(rest) = n - 0
        /\ \A m \in 1..n - 0 : rest[m] = Todo(plan)[0 + m]
    BY <1>1, <2>1, <2>2, RestTells
  <2>4. Todo(plan) \in Seq(Items) /\ Len(Todo(plan)) = n
    BY <2>2, TodoType
  <2>5. Len(rest) = n /\ \A m \in 1..n : rest[m] = Todo(plan)[m]
    BY <2>2, <2>3
  <2> QED BY <2>1, <2>3, <2>4, <2>5, SeqEqual
<1>4. QueuedRewords(plan) = {j \in QueuedRewords(plan) : 0 < j}
  BY RewordsType
<1> QED BY <1>1, <1>2, <1>3, <1>4, GoesWell

\* The next message is that of the commit the branch ends with.
Lands(t, plan, rewords) ==
  plan[NextReword(rewords)].commit.changes = Last(t.head.commits).changes

\* The message is written on the commit of its entry.
LEMMA WritesWell ==
  ASSUME NEW plan \in Seq(Entries), NEW onto, NEW rewords, NEW t \in Trees,
         Unwritten(t, plan, onto, rewords), NEW o \in Amend(t), o.exit = "ok"
  PROVE  /\ Written(o.tree, plan, onto, rewords \ {NextReword(rewords)})
         /\ Lands(o.tree, plan, rewords)
<1>1. PICK p \in 1..Len(plan) :
        /\ PausedAt(t, plan, onto, p)
        /\ t.head.commits = Append(Built(plan)[p - 1], plan[p].commit)
        /\ rewords = {j \in QueuedRewords(plan) : p <= j}
  BY DEF Unwritten
<1>2. plan[p].action = "reword" /\ Accepts(Todo(plan)) /\ Len(plan) \in Nat /\ p \in Nat
  BY <1>1 DEF PausedAt
<1>3. NextReword(rewords) = p
  <2>1. p \in rewords /\ rewords \subseteq Nat /\ \A j \in rewords : p <= j
    BY <1>1, <1>2 DEF QueuedRewords
  <2>2. PICK n : n = NextReword(rewords)
    OBVIOUS
  <2>3. n \in rewords /\ \A j \in rewords : n <= j
    BY <2>1, <2>2, NextRewordTells
  <2>4. n \in Nat /\ n <= p /\ p <= n
    BY <2>1, <2>3
  <2> QED BY <1>2, <2>2, <2>4
<1>4. PICK before : before = Built(plan)[p - 1]
  OBVIOUS
<1>5. before \in Seq(AnyCommits) /\ plan[p].commit \in AnyCommits
  <2>1. p - 1 \in 0..Len(plan)
    BY <1>2
  <2>2. plan[p] \in Entries
    BY TodoType
  <2> QED BY <1>2, <1>4, <2>1, <2>2, BuiltType DEF Entries
<1>6. Built(plan)[p] = Append(before, [plan[p].commit EXCEPT !.reworded = TRUE])
  BY <1>2, <1>4, LineIsEntry
<1>7. PICK commits : commits = Append(before, plan[p].commit)
  OBVIOUS
<1>8. /\ commits # <<>> /\ Len(commits) = Len(before) + 1 /\ Len(before) \in Nat
      /\ commits[Len(commits)] = plan[p].commit
      /\ commits \in Seq(AnyCommits)
      /\ \A j \in 1..Len(before) : commits[j] = before[j]
  BY <1>5, <1>7
<1>9. /\ o.tree.operation = t.operation /\ o.tree.head.onto = t.head.onto
      /\ o.tree.head.commits = [commits EXCEPT ![Len(commits)].reworded = TRUE]
  <2>1. t.head.commits = commits
    BY <1>1, <1>4, <1>7
  <2>2. /\ o.tree.operation = t.operation /\ o.tree.head.onto = t.head.onto
        /\ t.head.commits # <<>> =>
             o.tree.head.commits = [t.head.commits EXCEPT ![Len(t.head.commits)].reworded = TRUE]
    BY AmendTells
  <2> QED BY <1>8, <2>1, <2>2
<1>10. o.tree.head.commits = Built(plan)[p]
  <2>1. PICK made : made = [plan[p].commit EXCEPT !.reworded = TRUE]
    OBVIOUS
  <2>2. made \in AnyCommits
    BY <1>5, <2>1 DEF AnyCommits
  <2>3. PICK n \in Nat : n = Len(before) + 1
    BY <1>8
  <2>4. [commits EXCEPT ![n].reworded = TRUE] = [commits EXCEPT ![n] = made]
    BY <1>8, <2>1, <2>3
  <2>5. PICK left : left = [commits EXCEPT ![n] = made]
    OBVIOUS
  <2>6. PICK right : right = Append(before, made)
    OBVIOUS
  <2>7. left \in Seq(AnyCommits) /\ Len(left) = n
        /\ left[n] = made /\ \A j \in 1..n - 1 : left[j] = before[j]
    <3>1. DOMAIN commits = 1..n /\ n \in 1..n
      BY <1>8, <2>3
    <3>2. left \in Seq(AnyCommits) /\ Len(left) = n
      BY <1>8, <2>2, <2>3, <2>5, <3>1, ExceptSeq
    <3>3. left[n] = made /\ \A j \in 1..n - 1 : left[j] = commits[j]
      BY <2>3, <2>5, <3>1
    <3> QED BY <1>8, <2>3, <3>2, <3>3
  <2>8. right \in Seq(AnyCommits) /\ Len(right) = n
        /\ right[n] = made /\ \A j \in 1..n - 1 : right[j] = before[j]
    BY <1>5, <1>8, <2>2, <2>3, <2>6
  <2>9. left = right
    <3>1. \A j \in 1..n : left[j] = right[j]
      BY <2>3, <2>7, <2>8
    <3> QED BY <2>7, <2>8, <3>1, SeqEqual
  <2> QED BY <1>6, <1>8, <1>9, <2>1, <2>3, <2>4, <2>5, <2>6, <2>9
<1>11. Written(o.tree, plan, onto, rewords \ {NextReword(rewords)})
  <2>1. PausedAt(o.tree, plan, onto, p)
    BY <1>1, <1>9 DEF PausedAt
  <2>2. rewords \ {p} = {j \in QueuedRewords(plan) : p < j}
    <3>1. \A j \in QueuedRewords(plan) : j \in Nat
      BY DEF QueuedRewords
    <3>2. \A j \in QueuedRewords(plan) : (p <= j /\ j # p) <=> p < j
      BY <1>2, <3>1
    <3> QED BY <1>1, <3>2
  <2> QED BY <1>3, <1>10, <2>1, <2>2 DEF Written
<1>12. plan[p].commit.changes = Last(o.tree.head.commits).changes
  <2>1. PICK made : made = [plan[p].commit EXCEPT !.reworded = TRUE]
    OBVIOUS
  <2>2. made \in AnyCommits /\ made.changes = plan[p].commit.changes
    BY <1>5, <2>1 DEF AnyCommits
  <2>3. PICK after : after = Append(before, made)
    OBVIOUS
  <2>4. after[Len(after)] = made
    BY <1>5, <2>2, <2>3
  <2>5. o.tree.head.commits = after
    BY <1>6, <1>10, <2>1, <2>3
  <2> QED BY <2>2, <2>4, <2>5 DEF Last
<1>13. Lands(o.tree, plan, rewords)
  BY <1>3, <1>12 DEF Lands
<1> QED BY <1>11, <1>13

LEMMA ContinuesWell ==
  ASSUME NEW plan \in Seq(Entries), NEW onto, NEW rewords, NEW t \in Trees,
         Written(t, plan, onto, rewords), NEW o \in Continue(t, "rebase"), o.exit = "ok"
  PROVE  Finished(o.tree, plan, onto) \/ Unwritten(o.tree, plan, onto, rewords)
<1>1. PICK p \in 1..Len(plan) :
        /\ PausedAt(t, plan, onto, p)
        /\ t.head.commits = Built(plan)[p]
        /\ rewords = {j \in QueuedRewords(plan) : p < j}
  BY DEF Written
<1>2. o.tree \in Trees /\ Worked(o, t.head.onto, t.head.commits, t.operation.todo)
  BY <1>1, ContinueTells DEF PausedAt
<1>3. Accepts(Todo(plan)) /\ Worked(o, onto, Built(plan)[p], RestOf(plan, p))
  BY <1>1, <1>2 DEF PausedAt
<1>4. p \in 0..Len(plan)
  OBVIOUS
<1> QED BY <1>1, <1>2, <1>3, <1>4, GoesWell

\* Nothing outside has acted since the call began.
Alone == acts = call.since

PlanInv ==
  /\ call.name # "none" => answer = "none"
  /\ call.name = "plan" /\ Alone /\ ~ call.failed =>
       /\ call.steps = <<"look">> =>
            \/ Finished(tree, call.plan, call.seen.onto)
            \/ Unwritten(tree, call.plan, call.seen.onto, call.rewords)
       /\ call.steps = <<"amend">> => Unwritten(tree, call.plan, call.seen.onto, call.rewords)
       /\ call.steps \in {<<"resume">>, <<"continue">>} =>
            Written(tree, call.plan, call.seen.onto, call.rewords)
       /\ call.steps = <<"continue">> => call.kind = "rebase"
       /\ call.steps \in {<<"amend">>, <<"resume">>, <<"continue">>} => ~ Linked


\* The steps of the loop are told apart.
LEMMA TurnsDiffer ==
  /\ <<"look">> # <<"amend">> /\ <<"look">> # <<"continue">> /\ <<"look">> # <<"resume">>
  /\ <<"amend">> # <<"continue">> /\ <<"amend">> # <<"resume">>
  /\ <<"resume">> # <<"continue">>
  /\ \A steps : steps \notin Looping =>
       steps \notin {<<"look">>, <<"amend">>, <<"resume">>, <<"continue">>}
<1>1. /\ <<"look">> # <<"amend">> /\ <<"look">> # <<"continue">> /\ <<"look">> # <<"resume">>
      /\ <<"amend">> # <<"continue">> /\ <<"amend">> # <<"resume">>
      /\ <<"resume">> # <<"continue">>
  OBVIOUS
<1> QED BY <1>1, Zenon DEF Looping

LEMMA PlanElsewhere ==
  ASSUME call'.name # "none" => answer' = "none", call'.name # "plan" \/ call'.steps \notin Looping
  PROVE  PlanInv'
<1>1. call'.steps \notin Looping =>
        /\ call'.steps # <<"look">> /\ call'.steps # <<"amend">>
        /\ call'.steps # <<"resume">> /\ call'.steps # <<"continue">>
  BY TurnsDiffer, Zenon
<1> QED BY <1>1 DEF PlanInv

LEMMA PlanAtLook ==
  ASSUME answer' = "none", call'.steps = <<"look">>,
         acts' = call'.since /\ ~ call'.failed =>
           \/ Finished(tree', call'.plan, call'.seen.onto)
           \/ Unwritten(tree', call'.plan, call'.seen.onto, call'.rewords)
  PROVE  PlanInv'
<1>1. call'.steps # <<"amend">> /\ call'.steps # <<"continue">> /\ call'.steps # <<"resume">>
  BY TurnsDiffer, Zenon
<1> QED BY <1>1 DEF PlanInv, Alone

LEMMA PlanAtAmend ==
  ASSUME answer' = "none", call'.steps = <<"amend">>,
         acts' = call'.since /\ ~ call'.failed => ~ Linked,
         acts' = call'.since /\ ~ call'.failed =>
           Unwritten(tree', call'.plan, call'.seen.onto, call'.rewords)
  PROVE  PlanInv'
<1>1. call'.steps # <<"look">> /\ call'.steps # <<"continue">> /\ call'.steps # <<"resume">>
  BY TurnsDiffer, Zenon
<1> QED BY <1>1 DEF PlanInv, Alone

LEMMA PlanAtResume ==
  ASSUME answer' = "none", call'.steps \in {<<"resume">>, <<"continue">>},
         acts' = call'.since /\ ~ call'.failed => ~ Linked,
         call'.steps = <<"continue">> /\ acts' = call'.since /\ ~ call'.failed =>
           call'.kind = "rebase",
         acts' = call'.since /\ ~ call'.failed =>
           Written(tree', call'.plan, call'.seen.onto, call'.rewords)
  PROVE  PlanInv'
<1>1. call'.steps # <<"look">> /\ call'.steps # <<"amend">>
  BY TurnsDiffer, Zenon
<1> QED BY <1>1 DEF PlanInv, Alone

LEMMA PlanNext == TypeInv /\ PlanInv /\ [ProviderNext]_providerVars => PlanInv'
<1> SUFFICES ASSUME TypeInv, PlanInv, [ProviderNext]_providerVars PROVE PlanInv'
  OBVIOUS
<1>1. /\ CallShape /\ acts \in Nat /\ call.since <= acts /\ call.since \in Nat
      /\ tree \in Trees /\ call.plan \in Seq(Entries)
      /\ call.name = "plan" => call.seen.onto \in Nat
  BY DEF TypeInv, CallShape, Previews
<1>2. CASE Preview \/ OutsideMovesUpstream \/ UNCHANGED providerVars
  <2>1. UNCHANGED <<tree, call, acts>> /\ answer' \in {answer, "none"}
    BY <1>2, NothingMoves
  <2> QED BY <2>1 DEF PlanInv, Alone
<1>3. CASE Disturbs
  <2>1. acts' = acts + 1 /\ call' = call /\ answer' = answer
    BY <1>3, DisturbsTells
  <2>2. acts' # call'.since
    BY <1>1, <2>1
  <2> QED BY <2>1, <2>2 DEF PlanInv, Alone
<1>4. ASSUME NEW result, Answer(result) PROVE PlanInv'
  <2>1. call'.name = "none"
    BY <1>4 DEF Answer, NoCall
  <2> QED BY <2>1, PlanElsewhere
<1>5. CASE Begins
  <2>1. PICK plan, seen : \E name \in CallNames \ {"none"} :
          BeginCall(name, plan, seen) /\ (name \in {"amend", "reset", "plan"} => seen # <<>>)
    BY <1>5, BeginsTells
  <2>2. call'.steps \notin Looping
    BY <1>1, <2>1, BeginShape
  <2>3. answer' = "none"
    BY <2>1 DEF BeginCall
  <2> QED BY <2>2, <2>3, PlanElsewhere
<1>6. ASSUME NEW steps, NEW fields, GoesOn(steps, fields), "name" \notin fields,
             steps \notin Looping, call.steps # <<>>
      PROVE  PlanInv'
  <2>1. call.name # "none"
    BY <1>1, <1>6, LeftNotEmpty DEF CallShape
  <2>2. answer' = "none" /\ call'.steps \notin Looping
    BY <1>6, <2>1 DEF PlanInv, GoesOn
  <2> QED BY <2>2, PlanElsewhere
<1>7. CASE Checks
  <2>1. ASSUME BecomesRebase, call.name = "plan" PROVE PlanInv'
    <3>1. call'.name = "rebase" /\ answer' = answer
      BY <2>1 DEF BecomesRebase, NoCall
    <3> QED BY <2>1, <3>1, PlanElsewhere DEF PlanInv
  <2>2. \A step \in {"onto", "head", "clean", "pending", "checkout"} :
          At(step) => call.steps # <<>>
    BY DEF At
  <2>3. At("none pending") => call.steps # <<>> /\ Tail(call.steps) \notin Looping
    <3>1. ASSUME At("none pending")
          PROVE  \/ Tail(call.steps) \in {<<"run">>, <<"clean", "run">>, <<"head", "run">>}
                 \/ Tail(call.steps) = <<"onto", "head", "clean", "run">>
      BY <1>1, <3>1, HeadTells DEF At, CallShape
    <3> QED BY <3>1, LoopingTells, Zenon DEF At
  <2>4. ASSUME NEW steps, steps \notin Looping, call.steps # <<>>,
               GoesOn(steps, Noted) \/ GoesOn(steps, {"kind"})
        PROVE  PlanInv'
    BY <1>6, <2>4 DEF Noted
  <2>5. <<"run">> \notin Looping /\ <<"clean", "run">> \notin Looping
    BY LoopingTells, Zenon
  <2>6. <<"head", "clean", "run">> \notin Looping /\ <<"add">> \notin Looping
    BY LoopingTells, Zenon
  <2> QED BY <1>1, <1>4, <1>7, <2>1, <2>2, <2>3, <2>4, <2>5, <2>6, ChecksTell, Zenon
<1>8. CASE Working
  <2>1. UNCHANGED acts
    BY <1>1, <1>8, WorkingTells
  <2>2. CASE /\ call.steps = <<"run">>
             /\ \/ \E result \in {"completed", "empty", "failed"} : Answer(result)
                \/ GoesOn(<<"inspect">>, {})
    <3>1. <<"run">> # <<>> /\ <<"inspect">> \notin Looping
      BY LoopingTells
    <3> QED BY <1>4, <1>6, <2>2, <3>1
  <2>3. ASSUME call.name = "plan", NEW o \in Outcomes, tree' = o.tree,
               GoesOn(<<"look">>, {"rewords", "failed"}),
               call'.rewords = QueuedRewords(call.plan), call'.failed = (o.exit # "ok")
        PROVE  PlanInv'
    <3>1. /\ answer' = "none" /\ call'.steps = <<"look">>
          /\ call'.plan = call.plan /\ call'.seen = call.seen
      BY <2>3, GoesOnTells DEF GoesOn, PlanInv
    <3>2. o \in Rebase(tree, call.seen.onto, Todo(call.plan), TRUE)
      BY <2>3 DEF Outcomes
    <3>3. Todo(call.plan) \in Seq(Items) /\ call.seen.onto \in Nat
      BY <1>1, <2>3, TodoType
    <3>4. /\ o.tree \in Trees
          /\ o.exit = "ok" =>
               Accepts(Todo(call.plan)) /\ Worked(o, call.seen.onto, <<>>, Todo(call.plan))
      BY <1>1, <3>2, <3>3, RebaseTells
    <3>5. o.exit = "ok" =>
            \/ Finished(o.tree, call.plan, call.seen.onto)
            \/ Unwritten(o.tree, call.plan, call.seen.onto, QueuedRewords(call.plan))
      BY <1>1, <3>4, StartsWell
    <3>6. ~ call'.failed => o.exit = "ok"
      BY <2>3, Zenon
    <3> QED BY <2>3, <3>1, <3>5, <3>6, PlanAtLook, Zenon
  <2>4. ASSUME call.steps = <<"look">>, call.name = "plan", tree' = tree,
               GoesOn(<<"amend">>, {"looks"}), Detected = "rebase"
        PROVE  PlanInv'
    <3>1. /\ answer' = "none" /\ call'.steps = <<"amend">>
          /\ call'.plan = call.plan /\ call'.seen = call.seen /\ call'.rewords = call.rewords
          /\ call'.failed = call.failed /\ call'.since = call.since
      BY <2>4, GoesOnTells DEF GoesOn, PlanInv
    <3>2. ~ Finished(tree, call.plan, call.seen.onto)
      BY <2>4 DEF Detected, Finished, NoOperation
    <3>3. Alone /\ ~ call.failed => Unwritten(tree, call.plan, call.seen.onto, call.rewords)
      BY <2>4, <3>2 DEF PlanInv
    <3>4. ~ Linked
      BY <2>4 DEF Detected
    <3> QED BY <2>1, <2>4, <3>1, <3>3, <3>4, PlanAtAmend, Zenon DEF Alone
  <2>5. ASSUME call.steps = <<"amend">>, call.name = "plan", NEW o \in Amend(tree),
               tree' = o.tree, GoesOn(<<"resume">>, {"rewords"}), o.exit = "ok",
               call'.rewords = call.rewords \ {NextReword(call.rewords)}
        PROVE  PlanInv'
    <3>1. /\ answer' = "none" /\ call'.steps = <<"resume">>
          /\ call'.plan = call.plan /\ call'.seen = call.seen
          /\ call'.failed = call.failed /\ call'.since = call.since
      BY <2>5, GoesOnTells DEF GoesOn, PlanInv
    <3>2. Alone /\ ~ call.failed => Unwritten(tree, call.plan, call.seen.onto, call.rewords)
      BY <2>5 DEF PlanInv
    <3>3. Alone /\ ~ call.failed => Written(tree', call'.plan, call'.seen.onto, call'.rewords)
      <4> SUFFICES ASSUME Alone, ~ call.failed
                   PROVE  Written(tree', call'.plan, call'.seen.onto, call'.rewords)
        OBVIOUS
      <4>1. Unwritten(tree, call.plan, call.seen.onto, call.rewords)
        BY <3>2
      <4>2. Written(o.tree, call.plan, call.seen.onto, call.rewords \ {NextReword(call.rewords)})
        BY <1>1, <2>5, <4>1, WritesWell
      <4> QED BY <2>5, <3>1, <4>2
    <3>4. call'.steps # <<"continue">> /\ call'.steps \in {<<"resume">>, <<"continue">>}
      BY <3>1, TurnsDiffer, Zenon
    <3>5. Alone /\ ~ call.failed => ~ Linked
      BY <2>5 DEF PlanInv
    <3> QED BY <2>1, <3>1, <3>3, <3>4, <3>5, PlanAtResume, Zenon DEF Alone
  <2>6. ASSUME call.steps = <<"resume">>, call.name = "plan", tree' = tree,
               GoesOn(<<"continue">>, {"kind"}), call'.kind = Detected
        PROVE  PlanInv'
    <3>1. /\ answer' = "none" /\ call'.steps = <<"continue">>
          /\ call'.plan = call.plan /\ call'.seen = call.seen /\ call'.rewords = call.rewords
          /\ call'.failed = call.failed /\ call'.since = call.since
      BY <2>6, GoesOnTells DEF GoesOn, PlanInv
    <3>2. Alone /\ ~ call.failed => Written(tree, call.plan, call.seen.onto, call.rewords)
      BY <2>6 DEF PlanInv
    <3>3. Alone /\ ~ call.failed => ~ Linked
      BY <2>6 DEF PlanInv
    <3>4. Alone /\ ~ call.failed => call'.kind = "rebase"
      BY <2>6, <3>2, <3>3 DEF Written, PausedAt, Detected
    <3>5. call'.steps \in {<<"resume">>, <<"continue">>}
      BY <3>1
    <3> QED BY <2>1, <2>6, <3>1, <3>2, <3>4, <3>5, <3>3, PlanAtResume, Zenon DEF Alone
  <2>7. ASSUME call.name = "plan", GoesOn(<<"look">>, {"failed"}), call'.failed = TRUE
        PROVE  PlanInv'
    <3>1. answer' = "none" /\ call'.steps = <<"look">>
      BY <2>7, GoesOnTells DEF GoesOn, PlanInv
    <3> QED BY <2>7, <3>1, PlanAtLook, Zenon
  <2>8. ASSUME call.steps = <<"continue">>, call.name = "plan",
               NEW o \in Continue(tree, call.kind), tree' = o.tree,
               GoesOn(<<"look">>, {"failed"}), call'.failed = (call.failed \/ o.exit # "ok")
        PROVE  PlanInv'
    <3>1. /\ answer' = "none" /\ call'.steps = <<"look">>
          /\ call'.plan = call.plan /\ call'.seen = call.seen /\ call'.rewords = call.rewords
          /\ call'.since = call.since
      BY <2>8, GoesOnTells DEF GoesOn, PlanInv
    <3>2. ~ call'.failed => ~ call.failed /\ o.exit = "ok"
      BY <2>8, Zenon
    <3>3. Alone /\ ~ call.failed =>
            /\ Written(tree, call.plan, call.seen.onto, call.rewords)
            /\ call.kind = "rebase"
      BY <2>8 DEF PlanInv
    <3>4. Alone /\ ~ call.failed /\ o.exit = "ok" =>
            \/ Finished(o.tree, call.plan, call.seen.onto)
            \/ Unwritten(o.tree, call.plan, call.seen.onto, call.rewords)
      BY <1>1, <2>8, <3>3, ContinuesWell
    <3> QED BY <2>1, <2>8, <3>1, <3>2, <3>4, PlanAtLook, Zenon DEF Alone
  <2> QED BY <1>1, <1>4, <1>8, <2>2, <2>3, <2>4, <2>5, <2>6, <2>7, <2>8, WorkingTells, Zenon
<1> QED BY <1>2, <1>3, <1>5, <1>7, <1>8, NextSplits

LEMMA PlanInvariance ==
  ASSUME ProviderAssumption PROVE ProviderSpec => [](TypeInv /\ PlanInv)
<1>1. ProviderInit => PlanInv
  <2>1. ProviderInit => call.name = "none"
    BY DEF ProviderInit, NoCall
  <2> QED BY <2>1 DEF PlanInv
<1> QED BY <1>1, PlanNext, Invariance, PTL DEF ProviderSpec

\* Between the beginning of a call and the end of this step no program outside has acted.
LEMMA ActsGrow == TypeInv /\ [ProviderNext]_providerVars /\ acts' = call.since => Alone
<1> SUFFICES ASSUME TypeInv, [ProviderNext]_providerVars, acts' = call.since PROVE Alone
  OBVIOUS
<1>1. acts' = acts \/ acts' = acts + 1
  BY NextSplits, NothingMoves, DisturbsTells, ChecksTell, WorkingTells, BeginsTells DEF TypeInv, BeginCall
<1> QED BY <1>1 DEF TypeInv, CallShape, Alone

\* A message of a plan ends up on the commit it was written for (execute_rebase_plan: "the
\* next queued message is exactly the one this pause is for").
THEOREM MessagesLand ==
  ASSUME ProviderAssumption PROVE ProviderSpec => MessagesLandOnTheirCommits
<1>1. TypeInv /\ PlanInv /\ [ProviderNext]_providerVars =>
        [At("amend") /\ call'.steps = <<"resume">> /\ ~call.failed /\ acts' = call.since
           => call.plan[NextReword(call.rewords)].commit.changes
                = Last(tree'.head.commits).changes]_providerVars
  <2> SUFFICES ASSUME TypeInv, PlanInv, [ProviderNext]_providerVars, At("amend"),
                      call'.steps = <<"resume">>, ~ call.failed, acts' = call.since,
                      ~ UNCHANGED providerVars
               PROVE  call.plan[NextReword(call.rewords)].commit.changes
                        = Last(tree'.head.commits).changes
    OBVIOUS
  <2>1. call.steps = <<"amend">> /\ call.name = "plan"
    BY HeadTells DEF At, TypeInv, CallShape
  <2>2. Unwritten(tree, call.plan, call.seen.onto, call.rewords)
    BY <2>1, ActsGrow DEF PlanInv
  <2>3. <<"resume">> # <<"amend">> /\ <<"resume">> \in Looping /\ <<"resume">> # <<>>
    BY TurnsDiffer, LoopingTells
  <2>4. call' # call /\ call'.steps # <<>>
    BY <2>1, <2>3
  <2>5. ~ Begins
    BY <2>3, BeginsTells, BeginShape DEF TypeInv, CallShape
  <2>6. ~ Preview /\ ~ OutsideMovesUpstream /\ ~ Disturbs
    BY <2>4, NothingMoves, DisturbsTells
  <2>7. ~ \E result : Answer(result)
    BY <2>4, NoCallShape DEF Answer
  <2>8. Working
    <3>1. \A step : At(step) => step = "amend"
      BY DEF At
    <3> QED BY <2>5, <2>6, <2>7, <3>1, NextSplits, ChecksTell, Zenon DEF TypeInv
  <2>9. PICK o \in Amend(tree) : tree' = o.tree /\ o.exit = "ok"
    <3>1. /\ <<"run">> # <<"amend">> /\ <<"look">> # <<"amend">> /\ <<"resume">> # <<"amend">>
          /\ <<"continue">> # <<"amend">>
      OBVIOUS
    <3> QED BY <2>1, <2>7, <2>8, <3>1, WorkingTells, Zenon DEF TypeInv
  <2>10. call.plan \in Seq(Entries) /\ tree \in Trees
    BY DEF TypeInv
  <2>11. Lands(o.tree, call.plan, call.rewords)
    BY <2>2, <2>9, <2>10, WritesWell
  <2> QED BY <2>9, <2>11 DEF Lands
<1> QED BY <1>1, PlanInvariance, PTL DEF ProviderSpec, MessagesLandOnTheirCommits, Undisturbed

\* When execute_rebase_plan says Completed and git has ended well, the branch is what the
\* plan asks for: its commits, in order, combined and reworded, in the main worktree.
THEOREM PlanApplied ==
  ASSUME ProviderAssumption, ~ Linked PROVE ProviderSpec => CompletedAppliesPlan
<1>1. TypeInv /\ PlanInv /\ [ProviderNext]_providerVars =>
        [At("look") /\ answer' = "completed" /\ ~call.failed /\ acts' = call.since
           => tree.head = Rebased(call.plan, call.seen.onto)]_providerVars
  <2> SUFFICES ASSUME TypeInv, PlanInv, [ProviderNext]_providerVars, At("look"),
                      answer' = "completed", ~ call.failed, acts' = call.since
               PROVE  tree.head = Rebased(call.plan, call.seen.onto)
    OBVIOUS
  <2>1. call.steps = <<"look">> /\ call.name = "plan"
    BY HeadTells DEF At, TypeInv, CallShape
  <2>2. \/ Finished(tree, call.plan, call.seen.onto)
        \/ Unwritten(tree, call.plan, call.seen.onto, call.rewords)
    BY <2>1, ActsGrow DEF PlanInv
  <2>3. answer = "none" /\ call # NoCall
    BY <2>1 DEF PlanInv, NoCall
  <2>4. Detected = "none"
    <3>1. ~ Begins
      BY <2>3, BeginsTells DEF BeginCall
    <3>2. answer' # answer /\ answer' # "none"
      BY <2>3
    <3>3. ~ Preview /\ ~ OutsideMovesUpstream /\ ~ Disturbs /\ ~ UNCHANGED providerVars
      BY <3>2, NothingMoves, DisturbsTells
    <3>4. \A step : At(step) => step = "look"
      BY DEF At
    <3>5. ~ \E result \in {"refused", "failed", "conflict"} : Answer(result)
      BY DEF Answer
    <3>6. \A steps, fields : ~ GoesOn(steps, fields)
      BY <3>2 DEF GoesOn
    <3>7. Working
      BY <3>1, <3>3, <3>4, <3>5, <3>6, NextSplits, ChecksTell, Zenon DEF TypeInv
    <3>8. /\ <<"run">> # <<"look">> /\ <<"amend">> # <<"look">> /\ <<"resume">> # <<"look">>
          /\ <<"continue">> # <<"look">>
      OBVIOUS
    <3>9. \A result : Answer(result) => result = "completed"
      BY DEF Answer
    <3>10. ~ AddResolved \/ call.name # "plan"
      BY <3>4 DEF AddResolved
    <3> QED BY <2>1, <3>6, <3>7, <3>8, <3>9, <3>10, WorkingTells, Zenon DEF TypeInv
  <2>5. tree.operation.kind = "none"
    BY <2>4 DEF Detected
  <2> QED BY <2>2, <2>5 DEF Finished, Unwritten, PausedAt
<1> QED BY <1>1, PlanInvariance, PTL DEF ProviderSpec, CompletedAppliesPlan, Undisturbed
==============================================================================
