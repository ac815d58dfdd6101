--------------------------- MODULE FrontEndProofs ---------------------------
(***************************************************************************)
(* Proofs about the editor, the settings files and the stores of single    *)
(* features, which share no state: for any files, repositories, threads    *)
(* and topics, and however the answers overtake each other.                *)
(*                                                                         *)
(* What the three arguments have in common is a number or a mutex that is  *)
(* to tell an answer that still counts from one that does not.  What       *)
(* ExtensionController has bound is of the file that is edited, or a       *)
(* refresh of the current generation will bind it anew; what               *)
(* HistoryController shows is of the document as it is, or a timer or a    *)
(* recompute of the current generation is under way for it.  As long as no *)
(* two commands on a settings file overlap, what a command is about to     *)
(* save is what is wanted; that a list of recent repositories survives     *)
(* what is done to it is a matter of its operators.  A call under the      *)
(* present id of a store asks for what the store has open.                 *)
(***************************************************************************)
EXTENDS DesktopSettings, DesktopStores, VsCodeExtension, FiniteSetTheorems, SequenceTheorems,
        WellFoundedInduction, TLAPS

-----------------------------------------------------------------------------
(* The two controllers of the editor *)

Probes == {"none", "ok", "problem", "untrusted"}
Found == {"none", "asked", "git-unavailable", "no-repository", "repository"}
Refreshes ==
    [generation : Nat, at : {"probing", "probed", "resolving", "resolved"},
     found : Probes \cup Found, root : Roots \cup {NoRepository}, epoch : Nat]
Timers == [file : Files, version : Nat, generation : Nat]
Recomputes ==
    [file : Files, version : Nat, generation : Nat, at : {"blame", "ok", "failed", "subjects"}]
Blames == [file : Files, version : Nat, state : {"running", "ok", "failed"}]

EditorShape ==
    /\ editor \in Files \cup {NoFile}
    /\ trusted \in BOOLEAN
    /\ version \in [Files -> Nat] /\ decorations \in [Files -> Nat]
    /\ contextGeneration \in Nat /\ blameGeneration \in Nat /\ invalidations \in Nat
    /\ probe \in Probes /\ cache \in [Roots -> Found]
    /\ refreshes \subseteq Refreshes
    /\ discoveries \subseteq [root : Roots, epoch : Nat]
    /\ timer \in Timers \cup {NoTimer}
    /\ blames \subseteq Blames
    /\ recomputes \subseteq Recomputes

\* Before the workspace is trusted git is not even looked for.
UntrustedInv ==
    ~ trusted =>
        /\ bound = NoRepository /\ discoveries = {}
        /\ probe \in {"none", "untrusted"}
        /\ \A r \in refreshes : r.at = "probed" /\ r.found = "untrusted"

FollowsEditor == editor # NoFile /\ bound = RepositoryOf[RootOf[editor]]

\* A refresh that nothing has overtaken asks about the file that is edited.
RefreshFits(r) ==
    /\ r.generation <= contextGeneration
    /\ r.generation = contextGeneration /\ r.at \in {"resolving", "resolved"} =>
           editor # NoFile /\ r.root = RootOf[editor]

BoundInv ==
    /\ \A r \in refreshes : RefreshFits(r)
    /\ disposed => bound = NoRepository
    /\ bound # NoRepository =>
           FollowsEditor \/ \E r \in refreshes : r.generation = contextGeneration

\* Blame is to be shown.
Watching == ~ disposed /\ enabled /\ bound # NoRepository /\ editor # NoFile

\* Of the document as it is.
IsCurrent(k) == k.file = editor /\ k.version = version[editor]

HistoryInv ==
    /\ timer # NoTimer => timer.generation <= blameGeneration
    /\ \A w \in recomputes : w.generation <= blameGeneration
    /\ Watching =>
           /\ timer # NoTimer => IsCurrent(timer) /\ timer.generation = blameGeneration
           /\ \A w \in recomputes : w.generation = blameGeneration => IsCurrent(w)
           /\ \/ decorations[editor] \in {0, version[editor]}
              \/ timer # NoTimer
              \/ \E w \in recomputes : w.generation = blameGeneration

EditorInv == EditorShape /\ UntrustedInv /\ BoundInv /\ HistoryInv

-----------------------------------------------------------------------------
(* HistoryController *)

LEMMA TimerIsNoTimer == \A k \in Timers : k # NoTimer
<1> SUFFICES ASSUME NEW k \in Timers PROVE k # NoTimer
  OBVIOUS
<1>1. k.file \in Files /\ NoTimer.file = NoFile
  BY DEF Timers, NoTimer
<1> QED BY <1>1, ExtensionAssumption

\* A recompute scheduled for the document as it is replaces all that went before.
LEMMA Scheduled ==
    ASSUME EditorShape, HistoryInv,
           editor' \in Files \cup {NoFile}, version' \in [Files -> Nat],
           NEW at,
           editor' # NoFile => at = version'[editor'],
           Schedule(editor', at, bound', enabled'),
           recomputes' \subseteq recomputes
    PROVE  /\ HistoryInv'
           /\ timer' \in Timers \cup {NoTimer}
           /\ blameGeneration' \in Nat
           /\ decorations' \in [Files -> Nat]
<1>1. CASE editor' = NoFile \/ bound' = NoRepository
  BY <1>1 DEF Schedule, EditorShape, HistoryInv, Watching
<1>2. CASE editor' \in Files /\ bound' # NoRepository /\ ~ enabled'
  BY <1>2, ExtensionAssumption DEF Schedule, EditorShape, HistoryInv, Watching
<1>3. CASE editor' \in Files /\ bound' # NoRepository /\ enabled'
  <2>1. /\ blameGeneration' = blameGeneration + 1
        /\ timer' = [file |-> editor', version |-> at, generation |-> blameGeneration']
        /\ decorations' = decorations
    BY <1>3, ExtensionAssumption DEF Schedule
  <2>2. timer' \in Timers /\ timer' # NoTimer
    BY <1>3, <2>1, TimerIsNoTimer, ExtensionAssumption DEF Timers, EditorShape
  <2>3. IsCurrent(timer)' /\ timer'.generation = blameGeneration'
    BY <1>3, <2>1, ExtensionAssumption DEF IsCurrent
  <2>4. \A w \in recomputes' : w.generation < blameGeneration' /\ w.generation \in Nat
    BY <2>1 DEF HistoryInv, EditorShape, Recomputes
  <2> QED BY <2>1, <2>2, <2>3, <2>4 DEF HistoryInv, EditorShape
<1> QED BY <1>1, <1>2, <1>3

\* What asks or awaits blames, decorates.
LEMMA BlamesKeep ==
    ASSUME EditorInv,
           \/ TimerFires
           \/ \E b \in blames, answer \in {"ok", "failed"} : BlameEnds(b, answer)
           \/ \E w \in recomputes : BlameReturned(w) \/ SubjectsReturned(w)
    PROVE  EditorInv'
<1>1. UNCHANGED <<environment, context, bound, blameGeneration, disposed>>
  BY DEF TimerFires, BlameEnds, BlameReturned, SubjectsReturned
<1>2. UntrustedInv' /\ BoundInv'
  BY <1>1 DEF EditorInv, UntrustedInv, BoundInv, RefreshFits, FollowsEditor, environment, context
<1>3. SUFFICES /\ timer' \in Timers \cup {NoTimer} /\ blames' \subseteq Blames
               /\ recomputes' \subseteq Recomputes /\ decorations' \in [Files -> Nat]
               /\ HistoryInv'
  BY <1>1, <1>2 DEF EditorInv, EditorShape, environment, context
<1>4. CASE TimerFires
  <2>1. /\ timer \in Timers /\ timer' = NoTimer
        /\ decorations' = decorations /\ decorations \in [Files -> Nat]
    BY <1>4 DEF TimerFires, EditorInv, EditorShape
  <2>2. CASE ~ enabled
    BY <1>1, <1>4, <2>1, <2>2 DEF TimerFires, EditorInv, EditorShape, HistoryInv, Watching, environment
  <2>3. ASSUME enabled,
               NEW w, w \in Recomputes, w.file = timer.file, w.version = timer.version,
               w.generation = timer.generation,
               recomputes' \subseteq recomputes \cup {w}, w \in recomputes',
               blames' \subseteq Blames
        PROVE  /\ blames' \subseteq Blames /\ recomputes' \subseteq Recomputes
               /\ HistoryInv'
    <3>1. recomputes' \subseteq Recomputes
      BY <2>3 DEF EditorInv, EditorShape
    <3>2. timer # NoTimer
      BY <2>1, TimerIsNoTimer
    <3>3. \A v \in recomputes' : v.generation <= blameGeneration
      BY <2>3, <3>2 DEF EditorInv, HistoryInv
    <3>4. ASSUME Watching'
          PROVE  /\ \A v \in recomputes' : v.generation = blameGeneration => IsCurrent(v)
                 /\ w.generation = blameGeneration
      BY <1>1, <2>3, <3>2, <3>4 DEF EditorInv, HistoryInv, Watching, IsCurrent, environment
    <3> QED BY <1>1, <2>1, <2>3, <3>1, <3>3, <3>4 DEF HistoryInv, IsCurrent, environment
  <2>4. CASE enabled /\ AskBlame
    <3> DEFINE new == [file |-> timer.file, version |-> timer.version,
                       generation |-> timer.generation, at |-> "blame"]
    <3>1. /\ new \in Recomputes /\ new.file = timer.file /\ new.version = timer.version
          /\ new.generation = timer.generation
      BY <2>1 DEF Timers, Recomputes
    <3>2. blames' \subseteq Blames
      BY <2>1, <2>4 DEF AskBlame, Timers, Blames, EditorInv, EditorShape
    <3>3. recomputes' \subseteq recomputes \cup {new} /\ new \in recomputes'
      BY <2>4 DEF AskBlame, Survivors
    <3> HIDE DEF new
    <3> QED BY <2>1, <2>3, <2>4, <3>1, <3>2, <3>3
  <2>5. CASE enabled /\ \E b \in blames : IsFor(b, timer) /\ JoinBlame(b)
    <3> PICK b \in blames : IsFor(b, timer) /\ JoinBlame(b)
      BY <2>5
    <3> DEFINE new == [file |-> b.file, version |-> b.version, generation |-> timer.generation,
                       at |-> IF b.state = "running" THEN "blame" ELSE b.state]
    <3>1. /\ new \in Recomputes /\ new.file = timer.file /\ new.version = timer.version
          /\ new.generation = timer.generation
      BY <2>1 DEF Timers, Recomputes, Blames, IsFor, EditorInv, EditorShape
    <3>2. blames' \subseteq Blames /\ recomputes' = recomputes \cup {new}
      BY DEF JoinBlame, EditorInv, EditorShape
    <3> HIDE DEF new
    <3> QED BY <2>1, <2>3, <2>5, <3>1, <3>2
  <2> QED BY <1>4, <2>1, <2>2, <2>4, <2>5 DEF TimerFires
<1>5. ASSUME NEW b \in blames, NEW answer \in {"ok", "failed"}, BlameEnds(b, answer)
      PROVE  /\ timer' \in Timers \cup {NoTimer} /\ blames' \subseteq Blames
             /\ recomputes' \subseteq Recomputes /\ decorations' \in [Files -> Nat]
             /\ HistoryInv'
  <2> DEFINE to(w) == IF w.at = "blame" /\ IsFor(b, w) THEN [w EXCEPT !.at = answer] ELSE w
  <2>1. /\ blames' = (blames \ {b}) \cup {[b EXCEPT !.state = answer]}
        /\ recomputes' = {to(w) : w \in recomputes}
        /\ UNCHANGED <<timer, decorations>>
    BY <1>5 DEF BlameEnds
  <2>2. blames' \subseteq Blames
    BY <1>5, <2>1 DEF EditorInv, EditorShape, Blames
  <2>3. \A w \in recomputes :
           /\ to(w) \in Recomputes
           /\ to(w).file = w.file /\ to(w).version = w.version /\ to(w).generation = w.generation
    BY <1>5 DEF EditorInv, EditorShape, Recomputes
  <2>4. recomputes' \subseteq Recomputes
    BY <2>1, <2>3
  <2> HIDE DEF to
  <2>5. HistoryInv'
    <3>1. \A w \in recomputes' : w.generation <= blameGeneration
      BY <2>1, <2>3 DEF EditorInv, HistoryInv
    <3>2. ASSUME Watching'
          PROVE  /\ timer # NoTimer => IsCurrent(timer) /\ timer.generation = blameGeneration
                 /\ \A w \in recomputes' : w.generation = blameGeneration => IsCurrent(w)
                 /\ \/ decorations[editor] \in {0, version[editor]}
                    \/ timer # NoTimer
                    \/ \E w \in recomputes' : w.generation = blameGeneration
      <4>1. Watching
        BY <1>1, <3>2 DEF Watching, environment
      <4> QED BY <4>1, <2>1, <2>3 DEF EditorInv, HistoryInv, IsCurrent
    <3> QED BY <1>1, <2>1, <3>1, <3>2 DEF EditorInv, HistoryInv, IsCurrent, environment
  <2> QED BY <2>1, <2>2, <2>4, <2>5 DEF EditorInv, EditorShape
<1>6. ASSUME NEW w \in recomputes, NEW at \in Nat, Decorate(w, at),
             w.generation = blameGeneration => at \in {0, w.version},
             UNCHANGED <<timer, blames>>
      PROVE  /\ timer' \in Timers \cup {NoTimer} /\ blames' \subseteq Blames
             /\ recomputes' \subseteq Recomputes /\ decorations' \in [Files -> Nat]
             /\ HistoryInv'
  <2>1. w \in Recomputes /\ recomputes' = recomputes \ {w}
    BY <1>6 DEF Decorate, EditorInv, EditorShape
  <2>2. decorations' \in [Files -> Nat]
    BY <1>6, <2>1 DEF Decorate, EditorInv, EditorShape, Recomputes
  <2>3. HistoryInv'
    <3>1. \A v \in recomputes' : v.generation <= blameGeneration
      BY <2>1 DEF EditorInv, HistoryInv
    <3>2. ASSUME Watching'
          PROVE  /\ timer # NoTimer => IsCurrent(timer) /\ timer.generation = blameGeneration
                 /\ \A v \in recomputes' : v.generation = blameGeneration => IsCurrent(v)
                 /\ \/ decorations'[editor] \in {0, version[editor]}
                    \/ timer # NoTimer
                    \/ \E v \in recomputes' : v.generation = blameGeneration
      <4>1. Watching
        BY <1>1, <3>2 DEF Watching, environment
      <4>2. CASE w.generation = blameGeneration
        <5>1. w.file = editor /\ w.version = version[editor]
          BY <4>1, <4>2 DEF EditorInv, HistoryInv, IsCurrent
        <5>2. decorations' = [decorations EXCEPT ![editor] = at] /\ editor \in Files
          BY <1>6, <2>1, <4>1, <4>2, <5>1 DEF Decorate, IsStaleRecompute, Watching, Recomputes
        <5>3. decorations'[editor] \in {0, version[editor]}
          BY <1>6, <4>2, <5>1, <5>2 DEF EditorInv, EditorShape
        <5> QED BY <2>1, <4>1, <5>3 DEF EditorInv, HistoryInv
      <4>3. CASE w.generation # blameGeneration
        BY <1>6, <2>1, <4>1, <4>3 DEF EditorInv, HistoryInv, Decorate, IsStaleRecompute
      <4> QED BY <4>2, <4>3
    <3> QED BY <1>1, <1>6, <3>1, <3>2 DEF EditorInv, HistoryInv, IsCurrent, environment
  <2> QED BY <1>6, <2>1, <2>2, <2>3 DEF EditorInv, EditorShape
<1>7. ASSUME NEW w \in recomputes, BlameReturned(w)
      PROVE  /\ timer' \in Timers \cup {NoTimer} /\ blames' \subseteq Blames
             /\ recomputes' \subseteq Recomputes /\ decorations' \in [Files -> Nat]
             /\ HistoryInv'
  <2>1. CASE Decorate(w, 0)
    BY <1>6, <1>7, <2>1 DEF BlameReturned
  <2>2. CASE /\ recomputes' = (recomputes \ {w}) \cup {[w EXCEPT !.at = "subjects"]}
             /\ UNCHANGED decorations
    <3> DEFINE new == [w EXCEPT !.at = "subjects"]
    <3>1. /\ new \in Recomputes /\ new.file = w.file /\ new.version = w.version
          /\ new.generation = w.generation
      BY <1>7 DEF EditorInv, EditorShape, Recomputes
    <3>2. recomputes' = (recomputes \ {w}) \cup {new} /\ UNCHANGED <<timer, decorations, blames>>
      BY <1>7, <2>2 DEF BlameReturned
    <3> HIDE DEF new
    <3>3. recomputes' \subseteq Recomputes
      BY <3>1, <3>2 DEF EditorInv, EditorShape
    <3>4. HistoryInv'
      BY <1>1, <1>7, <3>1, <3>2 DEF EditorInv, HistoryInv, Watching, IsCurrent, environment
    <3> QED BY <3>2, <3>3, <3>4 DEF EditorInv, EditorShape
  <2> QED BY <1>7, <2>1, <2>2 DEF BlameReturned
<1>8. ASSUME NEW w \in recomputes, SubjectsReturned(w)
      PROVE  /\ timer' \in Timers \cup {NoTimer} /\ blames' \subseteq Blames
             /\ recomputes' \subseteq Recomputes /\ decorations' \in [Files -> Nat]
             /\ HistoryInv'
  <2>1. w.version \in Nat
    BY <1>8 DEF EditorInv, EditorShape, Recomputes
  <2> QED BY <1>6, <1>8, <2>1 DEF SubjectsReturned
<1> QED BY <1>4, <1>5, <1>7, <1>8

-----------------------------------------------------------------------------
(* ExtensionController *)

\* A refresh that begins overtakes all others, and git is not probed for it
\* before the workspace is trusted.
LEMMA Refreshed ==
    ASSUME EditorInv, ~ disposed, disposed' = disposed,
           trusted => trusted',
           UNCHANGED <<bound, discoveries>>,
           NEW known \in {"none", probe}, NEW mayRun \in BOOLEAN,
           mayRun => trusted',
           RefreshContext(known, mayRun)
    PROVE  /\ probe' \in Probes /\ contextGeneration' \in Nat
           /\ refreshes' \subseteq Refreshes
           /\ UntrustedInv' /\ BoundInv'
<1> DEFINE new == [generation |-> contextGeneration',
                   at |-> IF probe' = "none" THEN "probing" ELSE "probed",
                   found |-> probe', root |-> NoRepository, epoch |-> 0]
<1>1. /\ contextGeneration' = contextGeneration + 1 /\ contextGeneration \in Nat
      /\ probe' = IF known = "none" /\ ~ mayRun THEN "untrusted" ELSE known
      /\ refreshes' = refreshes \cup {new}
  BY DEF RefreshContext, EditorInv, EditorShape
<1>2. probe' \in Probes /\ contextGeneration' \in Nat
  <2>1. known \in Probes
    BY DEF EditorInv, EditorShape, Probes
  <2> QED BY <1>1, <2>1 DEF Probes
<1>3. /\ new \in Refreshes /\ new.generation = contextGeneration'
      /\ new.at \in {"probing", "probed"} /\ new.found = probe'
      /\ probe' # "none" => new.at = "probed"
  BY <1>2 DEF Refreshes
<1> HIDE DEF new
<1>4. \A r \in refreshes : r.generation \in Nat /\ r.generation < contextGeneration'
  BY <1>1 DEF EditorInv, EditorShape, BoundInv, RefreshFits, Refreshes
<1>5. BoundInv'
  BY <1>1, <1>3, <1>4 DEF BoundInv, RefreshFits
<1>6. UntrustedInv'
  <2> SUFFICES ASSUME ~ trusted' PROVE UntrustedInv'
    BY DEF UntrustedInv
  <2>1. ~ trusted /\ ~ mayRun
    OBVIOUS
  <2>2. /\ bound = NoRepository /\ discoveries = {} /\ probe \in {"none", "untrusted"}
        /\ \A r \in refreshes : r.at = "probed" /\ r.found = "untrusted"
    BY <2>1 DEF EditorInv, UntrustedInv
  <2>3. probe' = "untrusted"
    BY <1>1, <2>1, <2>2
  <2> QED BY <1>1, <1>3, <2>2, <2>3 DEF UntrustedInv
<1>7. refreshes' \subseteq Refreshes
  BY <1>1, <1>3 DEF EditorInv, EditorShape
<1> QED BY <1>2, <1>5, <1>6, <1>7

\* A refresh that goes on keeps its generation, and asks about the file that is
\* edited if it is the newest.
LEMMA GoingOn ==
    ASSUME EditorInv, trusted,
           UNCHANGED <<environment, contextGeneration, bound, disposed>>,
           \A q \in refreshes' : RefreshFits(q),
           \A q \in refreshes : \E p \in refreshes' : p.generation = q.generation
    PROVE  UntrustedInv' /\ BoundInv'
<1>1. trusted'
  BY DEF environment
<1>2. UntrustedInv'
  BY <1>1 DEF UntrustedInv
<1>3. BoundInv'
  BY DEF EditorInv, BoundInv, RefreshFits, FollowsEditor, environment
<1> QED BY <1>2, <1>3

\* What does not concern HistoryController.
LEMMA HistoryKept ==
    ASSUME HistoryInv, UNCHANGED <<editor, version, enabled, bound, history, disposed>>
    PROVE  HistoryInv'
BY DEF HistoryInv, Watching, IsCurrent, history

\* The continuations of a refresh and of git, up to the binding.
LEMMA RefreshesKeep ==
    ASSUME EditorInv,
           \/ \E r \in refreshes :
                 \/ \E found \in {"ok", "problem"} : ProbeEnds(r, found)
                 \/ Overtaken(r) \/ Resolve(r)
           \/ \E d \in discoveries, failed \in BOOLEAN : DiscoverEnds(d, failed)
    PROVE  EditorInv'
<1>1. UNCHANGED <<environment, contextGeneration, invalidations, bound, history, disposed>>
  BY DEF ProbeEnds, Overtaken, Resolve, DiscoverEnds, KeepBinding
<1>2. HistoryInv'
  BY <1>1, HistoryKept DEF EditorInv, environment
<1>3. SUFFICES /\ probe' \in Probes /\ cache' \in [Roots -> Found]
               /\ refreshes' \subseteq Refreshes
               /\ discoveries' \subseteq [root : Roots, epoch : Nat]
               /\ UntrustedInv' /\ BoundInv'
  BY <1>1, <1>2 DEF EditorInv, EditorShape, environment, history
<1>4. ASSUME NEW r \in refreshes, NEW found \in {"ok", "problem"}, ProbeEnds(r, found)
      PROVE  /\ probe' \in Probes /\ cache' \in [Roots -> Found]
             /\ refreshes' \subseteq Refreshes
             /\ discoveries' \subseteq [root : Roots, epoch : Nat]
             /\ UntrustedInv' /\ BoundInv'
  <2> DEFINE new == [r EXCEPT !.at = "probed", !.found = found]
  <2>1. /\ refreshes' = (refreshes \ {r}) \cup {new}
        /\ probe' = found /\ cache' = cache /\ discoveries' = discoveries
        /\ r.at = "probing"
    BY <1>4 DEF ProbeEnds, Replaced
  <2>2. /\ new \in Refreshes /\ new.generation = r.generation /\ new.at = "probed"
    BY <1>4 DEF EditorInv, EditorShape, Refreshes, Probes
  <2> HIDE DEF new
  <2>3. trusted
    BY <2>1 DEF EditorInv, UntrustedInv
  <2>4. /\ \A q \in refreshes' : RefreshFits(q)
        /\ \A q \in refreshes : \E p \in refreshes' : p.generation = q.generation
    BY <2>1, <2>2 DEF EditorInv, BoundInv, RefreshFits
  <2>5. UntrustedInv' /\ BoundInv'
    BY <1>1, <2>3, <2>4, GoingOn
  <2> QED BY <1>4, <2>1, <2>2, <2>5 DEF EditorInv, EditorShape, Probes
<1>5. ASSUME NEW r \in refreshes, Overtaken(r)
      PROVE  /\ probe' \in Probes /\ cache' \in [Roots -> Found]
             /\ refreshes' \subseteq Refreshes
             /\ discoveries' \subseteq [root : Roots, epoch : Nat]
             /\ UntrustedInv' /\ BoundInv'
  <2>1. /\ refreshes' = refreshes \ {r} /\ UNCHANGED <<probe, cache, discoveries>>
        /\ disposed \/ r.generation # contextGeneration
    BY <1>5 DEF Overtaken, Replaced, IsStale
  <2>2. UntrustedInv'
    BY <1>1, <2>1 DEF EditorInv, UntrustedInv, environment
  <2>3. BoundInv'
    BY <1>1, <2>1 DEF EditorInv, BoundInv, RefreshFits, FollowsEditor, environment
  <2> QED BY <2>1, <2>2, <2>3 DEF EditorInv, EditorShape
<1>6. ASSUME NEW r \in refreshes, Resolve(r)
      PROVE  /\ probe' \in Probes /\ cache' \in [Roots -> Found]
             /\ refreshes' \subseteq Refreshes
             /\ discoveries' \subseteq [root : Roots, epoch : Nat]
             /\ UntrustedInv' /\ BoundInv'
  <2> DEFINE root == RootOf[editor]
             waiting == [r EXCEPT !.at = "resolving", !.root = root, !.epoch = invalidations]
             answered == [waiting EXCEPT !.at = "resolved", !.found = cache[root]]
  <2>1. /\ r.found = "ok" /\ editor # NoFile /\ UNCHANGED probe
        /\ \/ /\ cache' = [cache EXCEPT ![root] = "asked"]
              /\ discoveries' = discoveries \cup {[root |-> root, epoch |-> invalidations]}
              /\ refreshes' = (refreshes \ {r}) \cup {waiting}
           \/ /\ refreshes' = (refreshes \ {r}) \cup {waiting}
              /\ UNCHANGED <<cache, discoveries>>
           \/ /\ refreshes' = (refreshes \ {r}) \cup {answered}
              /\ UNCHANGED <<cache, discoveries>>
    BY <1>6 DEF Resolve, Replaced
  <2>2. root \in Roots /\ invalidations \in Nat /\ cache[root] \in Found
    BY <2>1, ExtensionAssumption DEF EditorInv, EditorShape, Roots
  <2>3. /\ waiting \in Refreshes /\ answered \in Refreshes
        /\ waiting.generation = r.generation /\ answered.generation = r.generation
        /\ waiting.root = root /\ answered.root = root
    BY <1>6, <2>2 DEF EditorInv, EditorShape, Refreshes
  <2> HIDE DEF waiting, answered
  <2>4. trusted
    BY <2>1 DEF EditorInv, UntrustedInv
  <2>5. PICK new \in {waiting, answered} : refreshes' = (refreshes \ {r}) \cup {new}
    BY <2>1
  <2>6. /\ \A q \in refreshes' : RefreshFits(q)
        /\ \A q \in refreshes : \E p \in refreshes' : p.generation = q.generation
    BY <2>1, <2>3, <2>5 DEF EditorInv, BoundInv, RefreshFits
  <2>7. UntrustedInv' /\ BoundInv'
    BY <1>1, <2>4, <2>6, GoingOn
  <2>8. cache' \in [Roots -> Found] /\ discoveries' \subseteq [root : Roots, epoch : Nat]
    BY <2>1, <2>2 DEF EditorInv, EditorShape, Found
  <2> QED BY <2>1, <2>3, <2>5, <2>7, <2>8 DEF EditorInv, EditorShape
<1>7. ASSUME NEW d \in discoveries, NEW failed \in BOOLEAN, DiscoverEnds(d, failed)
      PROVE  /\ probe' \in Probes /\ cache' \in [Roots -> Found]
             /\ refreshes' \subseteq Refreshes
             /\ discoveries' \subseteq [root : Roots, epoch : Nat]
             /\ UntrustedInv' /\ BoundInv'
  <2> DEFINE found == IF failed THEN "git-unavailable"
                      ELSE IF RepositoryOf[d.root] = NoRepository THEN "no-repository"
                      ELSE "repository"
             to(r) == IF r.at = "resolving" /\ r.root = d.root /\ r.epoch = d.epoch
                      THEN [r EXCEPT !.at = "resolved", !.found = found] ELSE r
  <2>1. /\ discoveries' = discoveries \ {d} /\ UNCHANGED probe
        /\ cache' = IF d.epoch = invalidations THEN [cache EXCEPT ![d.root] = found] ELSE cache
        /\ refreshes' = {to(r) : r \in refreshes}
    BY <1>7 DEF DiscoverEnds
  <2>2. found \in Found
    BY DEF Found
  <2> HIDE DEF found
  <2>3. \A r \in refreshes :
           /\ to(r) \in Refreshes /\ to(r).generation = r.generation /\ to(r).root = r.root
           /\ to(r).at \in {"resolving", "resolved"} => r.at \in {"resolving", "resolved"}
    BY <2>2 DEF EditorInv, EditorShape, Refreshes
  <2> HIDE DEF to
  <2>4. trusted
    BY <1>7 DEF EditorInv, UntrustedInv
  <2>5. /\ \A q \in refreshes' : RefreshFits(q)
        /\ \A q \in refreshes : \E p \in refreshes' : p.generation = q.generation
    BY <2>1, <2>3 DEF EditorInv, BoundInv, RefreshFits
  <2>6. UntrustedInv' /\ BoundInv'
    BY <1>1, <2>4, <2>5, GoingOn
  <2>7. cache' \in [Roots -> Found]
    BY <1>7, <2>1, <2>2 DEF EditorInv, EditorShape
  <2> QED BY <2>1, <2>3, <2>6, <2>7 DEF EditorInv, EditorShape
<1> QED BY <1>4, <1>5, <1>6, <1>7

\* applyGitProblem and applyContext: what is bound is of the file that is edited.
LEMMA BindingKeeps ==
    ASSUME EditorInv, NEW r \in refreshes, NothingToResolve(r) \/ ApplyContext(r)
    PROVE  EditorInv'
<1>1. /\ ~ disposed /\ r.generation = contextGeneration
      /\ refreshes' = refreshes \ {r}
      /\ UNCHANGED <<environment, contextGeneration, probe, cache, invalidations, discoveries,
                     disposed>>
  BY DEF NothingToResolve, ApplyContext, Replaced, IsStale
<1>2. \/ Bind(NoRepository)
      \/ /\ r.at = "resolved"
         /\ Bind(RepositoryOf[r.root])
  BY DEF NothingToResolve, ApplyContext
<1>3. ASSUME NEW repository, Bind(repository)
      PROVE  /\ bound' = repository /\ blames' = {} /\ recomputes' \subseteq recomputes
             /\ HistoryInv' /\ timer' \in Timers \cup {NoTimer}
             /\ blameGeneration' \in Nat /\ decorations' \in [Files -> Nat]
  <2>1. bound' = repository /\ blames' = {} /\ recomputes' \subseteq recomputes
    BY <1>3 DEF Bind, Survivors
  <2>2. editor' = editor /\ version' = version /\ enabled' = enabled
    BY <1>1 DEF environment
  <2> DEFINE at == IF editor = NoFile THEN 0 ELSE version[editor]
  <2>3. Schedule(editor', at, bound', enabled')
    BY <1>3, <2>1, <2>2 DEF Bind
  <2> HIDE DEF at
  <2>4. editor' # NoFile => at = version'[editor']
    BY <2>2 DEF at
  <2> QED BY <2>1, <2>2, <2>3, <2>4, Scheduled DEF EditorInv, EditorShape
<1>4. BoundInv' /\ UntrustedInv'
  <2>1. \A q \in refreshes' : RefreshFits(q)'
    BY <1>1 DEF EditorInv, BoundInv, RefreshFits, environment
  <2>2. CASE Bind(NoRepository)
    BY <1>1, <1>3, <2>1, <2>2 DEF EditorInv, BoundInv, UntrustedInv, environment
  <2>3. CASE r.at = "resolved" /\ Bind(RepositoryOf[r.root])
    <3>1. editor # NoFile /\ r.root = RootOf[editor]
      BY <1>1, <2>3 DEF EditorInv, BoundInv, RefreshFits
    <3>2. trusted
      BY <2>3 DEF EditorInv, UntrustedInv
    <3> QED BY <1>1, <1>3, <2>1, <2>3, <3>1, <3>2
            DEF BoundInv, UntrustedInv, FollowsEditor, environment
  <2> QED BY <1>2, <2>2, <2>3
<1>5. EditorShape'
  BY <1>1, <1>2, <1>3 DEF EditorInv, EditorShape, environment
<1> QED BY <1>2, <1>3, <1>4, <1>5 DEF EditorInv

\* Events of the user and of the editor.
LEMMA EventsKeep ==
    ASSUME EditorInv,
           \/ Activate \/ GrantTrust \/ WorkspaceFoldersChanged \/ Deactivate
           \/ \E opened \in Files \cup {NoFile} : SwitchEditor(opened)
           \/ \E b \in BOOLEAN : EditOrMove(b) \/ ConfigurationChanged(b)
    PROVE  EditorInv'
<1>1. CASE Activate \/ GrantTrust \/ WorkspaceFoldersChanged
  <2>1. /\ ~ disposed /\ UNCHANGED <<editor, version, enabled, bound, history, disposed, discoveries>>
    BY <1>1 DEF Activate, GrantTrust, WorkspaceFoldersChanged, Event, KeepBinding, environment
  <2>2. /\ probe' \in Probes /\ contextGeneration' \in Nat /\ refreshes' \subseteq Refreshes
        /\ UntrustedInv' /\ BoundInv'
    <3>1. CASE Activate \/ WorkspaceFoldersChanged
      <4>1. RefreshContext(probe, trusted) /\ trusted' = trusted
        BY <3>1 DEF Activate, WorkspaceFoldersChanged, environment
      <4>2. trusted \in BOOLEAN
        BY DEF EditorInv, EditorShape
      <4> QED BY <2>1, <4>1, <4>2, Refreshed
    <3>2. CASE GrantTrust
      <4>1. RefreshContext("none", TRUE) /\ trusted'
        BY <3>2 DEF GrantTrust
      <4> QED BY <2>1, <4>1, Refreshed
    <3> QED BY <1>1, <3>1, <3>2
  <2>3. cache' \in [Roots -> Found] /\ invalidations' \in Nat /\ trusted' \in BOOLEAN
    <3>1. NothingAsked \in [Roots -> Found]
      BY DEF NothingAsked, Found
    <3>2. trusted \in BOOLEAN /\ cache \in [Roots -> Found] /\ invalidations \in Nat
      BY DEF EditorInv, EditorShape
    <3>3. CASE Activate
      BY <3>2, <3>3 DEF Activate, environment
    <3>4. CASE GrantTrust
      BY <3>1, <3>2, <3>4 DEF GrantTrust
    <3>5. CASE WorkspaceFoldersChanged
      BY <3>1, <3>2, <3>5 DEF WorkspaceFoldersChanged, environment
    <3> QED BY <1>1, <3>3, <3>4, <3>5
  <2>4. HistoryInv'
    BY <2>1, HistoryKept DEF EditorInv
  <2>5. EditorShape'
    BY <2>1, <2>2, <2>3 DEF EditorInv, EditorShape, history
  <2> QED BY <2>2, <2>4, <2>5 DEF EditorInv
<1>2. CASE Deactivate
  <2>1. HistoryInv'
    BY <1>2 DEF Deactivate, EditorInv, EditorShape, HistoryInv, Watching, Recomputes, NoTimer
  <2>2. UntrustedInv'
    BY <1>2 DEF Deactivate, EditorInv, UntrustedInv, environment
  <2>3. BoundInv'
    BY <1>2 DEF Deactivate, EditorInv, EditorShape, BoundInv, RefreshFits, Refreshes
  <2>4. EditorShape'
    BY <1>2 DEF Deactivate, EditorInv, EditorShape, environment
  <2> QED BY <2>1, <2>2, <2>3, <2>4 DEF EditorInv
<1>3. ASSUME NEW b \in BOOLEAN, EditOrMove(b) PROVE EditorInv'
  <2>1. /\ UNCHANGED <<editor, trusted, enabled, context, bound, blames, recomputes, disposed>>
        /\ version' = [version EXCEPT ![editor] = IF b THEN @ + 1 ELSE @]
        /\ editor \in Files
        /\ Schedule(editor', version'[editor'], bound', enabled')
    BY <1>3 DEF EditOrMove, EditorInv, EditorShape
  <2>2. version' \in [Files -> Nat]
    BY <2>1 DEF EditorInv, EditorShape
  <2>3. /\ HistoryInv' /\ timer' \in Timers \cup {NoTimer}
        /\ blameGeneration' \in Nat /\ decorations' \in [Files -> Nat]
    BY <2>1, <2>2, Scheduled DEF EditorInv
  <2>4. UntrustedInv' /\ BoundInv'
    BY <2>1 DEF EditorInv, UntrustedInv, BoundInv, RefreshFits, FollowsEditor, context
  <2> QED BY <2>1, <2>2, <2>3, <2>4 DEF EditorInv, EditorShape, context
<1>4. ASSUME NEW opened \in Files \cup {NoFile}, SwitchEditor(opened) PROVE EditorInv'
  <2> DEFINE at == IF opened = NoFile THEN 0 ELSE version[opened]
  <2>1. /\ ~ disposed /\ editor' = opened
        /\ UNCHANGED <<version, trusted, enabled, cache, invalidations, discoveries, bound, blames,
                       recomputes, disposed>>
        /\ RefreshContext(probe, trusted)
        /\ Schedule(editor', at, bound', enabled')
    BY <1>4 DEF SwitchEditor, Event
  <2>2. editor' # NoFile => at = version'[editor']
    BY <2>1
  <2> HIDE DEF at
  <2>3. /\ HistoryInv' /\ timer' \in Timers \cup {NoTimer}
        /\ blameGeneration' \in Nat /\ decorations' \in [Files -> Nat]
    BY <2>1, <2>2, Scheduled DEF EditorInv, EditorShape
  <2>4. trusted \in BOOLEAN
    BY DEF EditorInv, EditorShape
  <2>5. /\ probe' \in Probes /\ contextGeneration' \in Nat /\ refreshes' \subseteq Refreshes
        /\ UntrustedInv' /\ BoundInv'
    BY <2>1, <2>4, Refreshed
  <2> QED BY <2>1, <2>3, <2>5 DEF EditorInv, EditorShape
<1>5. ASSUME NEW on \in BOOLEAN, ConfigurationChanged(on) PROVE EditorInv'
  <2> DEFINE at == IF editor = NoFile THEN 0 ELSE version[editor]
  <2>1. /\ ~ disposed /\ enabled' = on
        /\ UNCHANGED <<editor, version, trusted, discoveries, bound, blames, recomputes, disposed>>
        /\ cache' = NothingAsked /\ invalidations' = invalidations + 1
        /\ RefreshContext("none", trusted)
        /\ Schedule(editor', at, bound', enabled')
    BY <1>5 DEF ConfigurationChanged, Event
  <2>2. editor' # NoFile => at = version'[editor']
    BY <2>1
  <2> HIDE DEF at
  <2>3. /\ HistoryInv' /\ timer' \in Timers \cup {NoTimer}
        /\ blameGeneration' \in Nat /\ decorations' \in [Files -> Nat]
    BY <2>1, <2>2, Scheduled DEF EditorInv, EditorShape
  <2>4. trusted \in BOOLEAN
    BY DEF EditorInv, EditorShape
  <2>5. /\ probe' \in Probes /\ contextGeneration' \in Nat /\ refreshes' \subseteq Refreshes
        /\ UntrustedInv' /\ BoundInv'
    BY <2>1, <2>4, Refreshed
  <2>6. cache' \in [Roots -> Found] /\ invalidations' \in Nat
    BY <2>1 DEF EditorInv, EditorShape, NothingAsked, Found
  <2> QED BY <2>1, <2>3, <2>5, <2>6 DEF EditorInv, EditorShape
<1> QED BY <1>1, <1>2, <1>3, <1>4, <1>5

-----------------------------------------------------------------------------
LEMMA EditorInit == ExtensionInit => EditorInv
<1> SUFFICES ASSUME ExtensionInit PROVE EditorInv
  OBVIOUS
<1>1. EditorShape
  BY DEF ExtensionInit, EditorShape, NothingAsked, Probes, Found
<1>2. UntrustedInv /\ BoundInv
  BY DEF ExtensionInit, UntrustedInv, BoundInv
<1>3. HistoryInv
  BY DEF ExtensionInit, HistoryInv, Watching
<1> QED BY <1>1, <1>2, <1>3 DEF EditorInv

LEMMA EditorStep == EditorInv /\ [ExtensionNext]_extensionVars => EditorInv'
<1> SUFFICES ASSUME EditorInv, [ExtensionNext]_extensionVars PROVE EditorInv'
  OBVIOUS
<1>1. CASE UNCHANGED extensionVars
  BY <1>1 DEF extensionVars, environment, context, history, EditorInv, EditorShape,
              UntrustedInv, BoundInv, RefreshFits, FollowsEditor, HistoryInv, Watching, IsCurrent
<1>2. CASE ExtensionNext
  BY <1>2, BlamesKeep, RefreshesKeep, BindingKeeps, EventsKeep DEF ExtensionNext
<1> QED BY <1>1, <1>2

\* For any files, repositories and events: what is bound follows the editor or is
\* about to, and what is shown was made for the document or is about to be.
THEOREM GenerationsGuard == ExtensionSpec => []EditorInv
BY EditorInit, EditorStep, PTL DEF ExtensionSpec

\* However refreshes overtake each other and the switches of the user, what
\* HistoryController is bound to at rest is the repository of the active file
\* (extension.ts: generation).
THEOREM BindingFollows == ExtensionSpec => []BindingFollowsEditor
<1>1. EditorInv => BindingFollowsEditor
  BY DEF EditorInv, UntrustedInv, BoundInv, FollowsEditor, BindingFollowsEditor, AtRest
<1> QED BY <1>1, GenerationsGuard, PTL

\* The decorations of the active file at rest are none or of the document as it
\* is, whichever recomputes were overtaken, killed or dropped (historyController.ts).
THEOREM DecorationsFollow == ExtensionSpec => []DecorationsAreCurrent
<1>1. EditorInv => DecorationsAreCurrent
  BY DEF EditorInv, BoundInv, FollowsEditor, HistoryInv, Watching, DecorationsAreCurrent, AtRest
<1> QED BY <1>1, GenerationsGuard, PTL

-----------------------------------------------------------------------------
(* Preferences and keybindings *)

Preferences == [theme : Themes \cup {Unset}, updates : BOOLEAN, checked : Nat]
OnPreferences == {"set theme", "set updates"} \cup Checks
OnRecents == {"record", "forget"}
OnKeys == {"override", "reset all"}

JobShape(j) ==
    /\ DOMAIN j = {"name", "arg", "step", "at", "value"}
    /\ j.name \in OnPreferences \cup OnRecents \cup OnKeys \cup {"none"}
    /\ j.name \in OnKeys => j.step = "load"
    /\ j.name = "none" => j.step = "none"
    /\ j.at \in Nat
    /\ j.name = "set theme" => j.arg \in Themes
    /\ j.name = "set updates" => j.arg \in BOOLEAN
    /\ j.name = "override" => j.arg.action \in Shortcuts

SettingsShape ==
    /\ job = [c \in Commands |-> job[c]] /\ \A c \in Commands : JobShape(job[c])
    /\ file = [s \in Stores |-> file[s]]
    /\ wanted = [preferences |-> wanted.preferences, recents |-> wanted.recents,
                 keybindings |-> wanted.keybindings]
    /\ wanted.preferences \in Preferences
    /\ wanted.keybindings = [a \in Shortcuts |-> wanted.keybindings[a]]
    /\ clock \in Nat

\* What a command on the preferences is about to save.
SavesWanted(j) ==
    /\ j.name = "set theme" => j.value = [wanted.preferences EXCEPT !.theme = j.arg]
    /\ j.name = "set updates" => j.value = [wanted.preferences EXCEPT !.updates = j.arg]
    /\ j.name \in Checks => j.value = [wanted.preferences EXCEPT !.checked = j.at]
    /\ j.name = "automatic check" => MayCheck(wanted.preferences, j.at)

\* As long as nothing has disturbed the preferences, there is one command on them
\* at most, which has read what was wanted last.
PreferencesInv ==
    "preferences" \notin disturbed =>
        /\ LoadedPreferences(file.preferences) = wanted.preferences
        /\ \A c, d \in Commands :
               job[c].name \in OnPreferences /\ job[d].name \in OnPreferences => c = d
        /\ \A c \in Commands :
               job[c].name \in OnPreferences /\ job[c].step = "save" => SavesWanted(job[c])

KeysInv == "keybindings" \notin disturbed => LoadedOverrides(file.keybindings) = wanted.keybindings

SettingsInv == SettingsShape /\ PreferencesInv /\ KeysInv

\* What was written in the middle of a command is disturbed, all else is kept.
FilesKept ==
    /\ disturbed \subseteq disturbed'
    /\ file' = [s \in Stores |-> file'[s]]
    /\ \A s \in Stores : s \notin disturbed' => file'[s] = file[s]

LEMMA StoreOfName ==
    /\ \A name \in OnPreferences : StoreOf(name) = "preferences"
    /\ \A name \in OnRecents : StoreOf(name) = "recents"
    /\ \A name \in OnKeys : StoreOf(name) = "keybindings"
    /\ StoreOf("none") = "none"
BY DEF StoreOf, OnPreferences, OnRecents, OnKeys, Checks

\* A step of one thread that saves nothing: either it is not on the preferences,
\* or what it is about to save is right.
LEMMA JobMoves ==
    ASSUME SettingsInv, NEW c \in Commands, NEW j, JobShape(j),
           job' = [job EXCEPT ![c] = j],
           FilesKept, UNCHANGED wanted, clock' \in Nat,
           "preferences" \notin disturbed' /\ j.name \in OnPreferences =>
              /\ \A d \in Commands : job[d].name \in OnPreferences => d = c
              /\ j.step = "save" => SavesWanted(j)
    PROVE  SettingsInv'
<1>1. /\ job'[c] = j /\ \A d \in Commands : d # c => job'[d] = job[d]
      /\ job' = [d \in Commands |-> job'[d]]
  BY DEF SettingsInv, SettingsShape
<1>2. SettingsShape'
  BY <1>1 DEF SettingsInv, SettingsShape, FilesKept
<1>3. KeysInv'
  BY DEF SettingsInv, KeysInv, FilesKept, Stores, LoadedOverrides
<1>9. "preferences" \notin disturbed' =>
          "preferences" \notin disturbed /\ file'.preferences = file.preferences
  BY DEF FilesKept, Stores
<1>4. ASSUME "preferences" \notin disturbed'
      PROVE  /\ LoadedPreferences(file'.preferences) = wanted'.preferences
             /\ \A b, d \in Commands :
                    job'[b].name \in OnPreferences /\ job'[d].name \in OnPreferences => b = d
             /\ \A d \in Commands :
                    job'[d].name \in OnPreferences /\ job'[d].step = "save" => SavesWanted(job'[d])
  BY <1>1, <1>4, <1>9 DEF SettingsInv, PreferencesInv
<1>5. PreferencesInv'
  <2> SUFFICES ASSUME "preferences" \notin disturbed'
               PROVE  /\ LoadedPreferences(file.preferences)' = wanted'.preferences
                      /\ \A b, d \in Commands :
                             job'[b].name \in OnPreferences /\ job'[d].name \in OnPreferences => b = d
                      /\ \A d \in Commands :
                             job'[d].name \in OnPreferences /\ job'[d].step = "save"
                             => SavesWanted(job[d])'
    BY DEF PreferencesInv
  <2>1. ASSUME NEW d \in Commands, SavesWanted(job'[d]) PROVE SavesWanted(job[d])'
    BY <2>1 DEF SavesWanted
  <2>2. LoadedPreferences(file.preferences)' = LoadedPreferences(file'.preferences)
    OBVIOUS
  <2> QED BY <1>4, <2>1, <2>2
<1> QED BY <1>2, <1>3, <1>5 DEF SettingsInv

LEMMA NoJobShape == JobShape(NoJob) /\ NoJob.name = "none"
BY DEF JobShape, NoJob, OnPreferences, OnRecents, OnKeys, Checks

\* A command is called while no other is on the preferences, or disturbs them.
LEMMA AsksKeeps ==
    ASSUME SettingsInv, NEW c \in Commands, NEW name, NEW arg, Asks(c, name, arg),
           name \in OnPreferences \cup OnRecents \cup OnKeys,
           name = "set theme" => arg \in Themes,
           name = "set updates" => arg \in BOOLEAN,
           name = "override" => arg.action \in Shortcuts
    PROVE  SettingsInv'
<1> DEFINE j == [name |-> name, arg |-> arg, step |-> "load", at |-> clock, value |-> Unset]
<1>1. JobShape(j) /\ j.name = name /\ j.step = "load"
  BY DEF JobShape, SettingsInv, SettingsShape, OnPreferences, OnRecents, OnKeys, Checks
<1>2. job' = [job EXCEPT ![c] = j] /\ UNCHANGED <<file, wanted, clock>> /\ disturbed \subseteq disturbed'
  BY DEF Asks
<1>3. ASSUME "preferences" \notin disturbed', name \in OnPreferences,
             NEW d \in Commands, job[d].name \in OnPreferences
      PROVE  FALSE
  <2>1. job[d] # NoJob
    BY <1>3, NoJobShape DEF OnPreferences, Checks
  <2>2. StoreOf(job[d].name) = "preferences" /\ StoreOf(name) = "preferences"
    BY <1>3, StoreOfName
  <2> QED BY <1>3, <2>1, <2>2 DEF Asks, Running
<1> HIDE DEF j
<1>4. clock' \in Nat /\ FilesKept
  BY <1>2 DEF SettingsInv, SettingsShape, FilesKept
<1> QED BY <1>1, <1>2, <1>3, <1>4, JobMoves

\* The thread is done.
LEMMA EndsKeeps ==
    ASSUME SettingsInv, NEW c \in Commands, Ends(c),
           FilesKept, UNCHANGED <<wanted, clock>>
    PROVE  SettingsInv'
<1>1. job' = [job EXCEPT ![c] = NoJob] /\ clock' \in Nat
  BY DEF Ends, SettingsInv, SettingsShape
<1>2. NoJob.name \notin OnPreferences
  BY DEF NoJob, OnPreferences, Checks
<1> QED BY <1>1, <1>2, NoJobShape, JobMoves

Continued(k, step, value) == [k EXCEPT !.step = step, !.value = value]

LEMMA JobContinues ==
    ASSUME NEW k, JobShape(k), k.name \in OnPreferences \cup OnRecents, NEW step, NEW value
    PROVE  /\ Continued(k, step, value).name = k.name
           /\ Continued(k, step, value).arg = k.arg
           /\ Continued(k, step, value).at = k.at
           /\ Continued(k, step, value).step = step
           /\ Continued(k, step, value).value = value
           /\ JobShape(Continued(k, step, value))
BY DEF JobShape, Continued, OnPreferences, OnRecents, OnKeys, Checks

\* The thread goes on, to save what is wanted or to something else.
LEMMA ContinuesKeeps ==
    ASSUME SettingsInv, NEW c \in Commands, NEW step, NEW value, Continues(c, step, value),
           job[c].name \in OnPreferences \cup OnRecents,
           FilesKept, UNCHANGED <<wanted, clock>>,
           "preferences" \notin disturbed' /\ job[c].name \in OnPreferences /\ step = "save" =>
               SavesWanted(Continued(job[c], step, value))
    PROVE  SettingsInv'
<1> DEFINE j == Continued(job[c], step, value)
<1>1. job' = [job EXCEPT ![c] = j]
  BY DEF Continued, Continues, SettingsInv, SettingsShape
<1>2. /\ j.name = job[c].name /\ j.arg = job[c].arg /\ j.at = job[c].at /\ j.step = step
      /\ JobShape(j)
  <2>1. JobShape(job[c])
    BY DEF SettingsInv, SettingsShape
  <2> QED BY <2>1, JobContinues
<1>3. clock' \in Nat
  BY DEF SettingsInv, SettingsShape
<1>4. "preferences" \notin disturbed' /\ j.name \in OnPreferences =>
          \A d \in Commands : job[d].name \in OnPreferences => d = c
  BY <1>2 DEF SettingsInv, PreferencesInv, FilesKept
<1> HIDE DEF j
<1>5. "preferences" \notin disturbed' /\ j.name \in OnPreferences /\ j.step = "save" =>
          SavesWanted(j)
  BY <1>2 DEF j
<1> QED BY <1>1, <1>2, <1>3, <1>4, <1>5, JobMoves

\* What a thread writes in the middle of a command disturbs its store.
LEMMA TearsDisturb ==
    ASSUME SettingsInv, NEW c \in Commands, Tears(c), wanted' = wanted,
           job[c].name # "none"
    PROVE  FilesKept
<1> PICK state : file' = [file EXCEPT ![StoreOf(job[c].name)] = Damaged(state)]
  BY DEF Tears
<1>1. disturbed' = disturbed \cup {StoreOf(job[c].name)}
  BY DEF Tears
<1>2. file = [s \in Stores |-> file[s]]
  BY DEF SettingsInv, SettingsShape
<1> QED BY <1>1, <1>2 DEF FilesKept

\* What was loaded for a command is what was wanted last, and is changed as wanted.
LEMMA LoadsKeep ==
    ASSUME SettingsInv, NEW c \in Commands,
           LoadToSetTheme(c) \/ LoadToSetUpdates(c) \/ LoadToCheck(c) \/ LoadRecents(c)
    PROVE  SettingsInv'
<1>1. JobShape(job[c]) /\ FilesKept /\ UNCHANGED <<wanted, clock>>
      /\ job[c].name \in OnPreferences \cup OnRecents
  BY DEF OnPreferences, OnRecents, Runs, SettingsInv, SettingsShape, FilesKept, LoadToSetTheme, LoadToSetUpdates, LoadToCheck,
         LoadRecents, OnlyJobs
<1>2. ASSUME "preferences" \notin disturbed PROVE LoadedPreferences(file.preferences) = wanted.preferences
  BY <1>2 DEF SettingsInv, PreferencesInv
<1>3. CASE LoadToSetTheme(c)
  <2> DEFINE value == [LoadedPreferences(file.preferences) EXCEPT !.theme = job[c].arg]
  <2>1. Continues(c, "save", value) /\ job[c].name = "set theme" /\ disturbed' = disturbed
    BY <1>3 DEF LoadToSetTheme, Runs, OnlyJobs
  <2>2. "preferences" \notin disturbed => value = [wanted.preferences EXCEPT !.theme = job[c].arg]
    BY <1>2
  <2> HIDE DEF value
  <2>3. ASSUME "preferences" \notin disturbed,
               NEW j, j = Continued(job[c], "save", value)
        PROVE  SavesWanted(j)
    <3>1. j.name = job[c].name /\ j.arg = job[c].arg /\ j.value = value
      BY <1>1, <2>3, JobContinues
    <3> QED BY <2>1, <2>2, <2>3, <3>1 DEF SavesWanted, Checks
  <2> QED BY <1>1, <2>1, <2>3, ContinuesKeeps
<1>4. CASE LoadToSetUpdates(c)
  <2> DEFINE value == [LoadedPreferences(file.preferences) EXCEPT !.updates = job[c].arg]
  <2>1. Continues(c, "save", value) /\ job[c].name = "set updates" /\ disturbed' = disturbed
    BY <1>4 DEF LoadToSetUpdates, Runs, OnlyJobs
  <2>2. "preferences" \notin disturbed => value = [wanted.preferences EXCEPT !.updates = job[c].arg]
    BY <1>2
  <2> HIDE DEF value
  <2>3. ASSUME "preferences" \notin disturbed,
               NEW j, j = Continued(job[c], "save", value)
        PROVE  SavesWanted(j)
    <3>1. j.name = job[c].name /\ j.arg = job[c].arg /\ j.value = value
      BY <1>1, <2>3, JobContinues
    <3> QED BY <2>1, <2>2, <2>3, <3>1 DEF SavesWanted, Checks
  <2> QED BY <1>1, <2>1, <2>3, ContinuesKeeps
<1>5. CASE LoadToCheck(c)
  <2>1. PICK readable \in BOOLEAN :
           LET loaded == IF readable THEN LoadedPreferences(file.preferences) ELSE Defaults
           IN /\ IF job[c].name = "automatic check" /\ ~MayCheck(loaded, job[c].at)
                 THEN Ends(c)
                 ELSE Continues(c, "save", [loaded EXCEPT !.checked = job[c].at])
              /\ disturbed' = disturbed \cup (IF readable THEN {} ELSE {"preferences"})
    BY <1>5 DEF LoadToCheck
  <2> DEFINE loaded == IF readable THEN LoadedPreferences(file.preferences) ELSE Defaults
             value == [loaded EXCEPT !.checked = job[c].at]
  <2>2. CASE Ends(c)
    BY <1>1, <2>2, EndsKeeps
  <2>3. CASE /\ Continues(c, "save", value)
             /\ job[c].name = "automatic check" => MayCheck(loaded, job[c].at)
    <3>1. "preferences" \notin disturbed' => loaded = wanted.preferences
      BY <1>2, <2>1
    <3>2. job[c].name \in Checks
      BY <1>5 DEF LoadToCheck
    <3>3. "preferences" \notin disturbed' => value = [wanted.preferences EXCEPT !.checked = job[c].at]
      BY <3>1
    <3> HIDE DEF loaded, value
    <3>4. ASSUME "preferences" \notin disturbed',
                 NEW j, j = Continued(job[c], "save", value)
          PROVE  SavesWanted(j)
      <4>1. j.name = job[c].name /\ j.at = job[c].at /\ j.value = value
        BY <1>1, <3>4, JobContinues
      <4> QED BY <2>3, <3>1, <3>2, <3>3, <3>4, <4>1 DEF SavesWanted, Checks
    <3> QED BY <1>1, <2>3, <3>4, ContinuesKeeps
  <2> QED BY <2>1, <2>2, <2>3
<1>6. CASE LoadRecents(c)
  <2>1. job[c].name \notin OnPreferences
    BY <1>6 DEF LoadRecents, OnPreferences, Checks
  <2>2. Ends(c) \/ \E value : Continues(c, "save", value)
    BY <1>6 DEF LoadRecents
  <2> QED BY <1>1, <2>1, <2>2, EndsKeeps, ContinuesKeeps
<1> QED BY <1>3, <1>4, <1>5, <1>6

\* What is saved is wanted, of the store it is saved in and of no other.
LEMMA SavedIsWanted ==
    ASSUME SettingsInv, NEW c \in Commands, NEW value, Saved(c, value),
           job[c].name \in OnPreferences \cup OnRecents \cup OnKeys
    PROVE  /\ wanted' = [preferences |-> wanted'.preferences, recents |-> wanted'.recents,
                         keybindings |-> wanted'.keybindings]
           /\ job[c].name = "set theme" =>
                 wanted'.preferences = [wanted.preferences EXCEPT !.theme = job[c].arg]
           /\ job[c].name = "set updates" =>
                 wanted'.preferences = [wanted.preferences EXCEPT !.updates = job[c].arg]
           /\ job[c].name \in Checks =>
                 wanted'.preferences = [wanted.preferences EXCEPT !.checked = job[c].at]
           /\ job[c].name \notin OnPreferences => wanted'.preferences = wanted.preferences
           /\ job[c].name = "override" =>
                 wanted'.keybindings = [wanted.keybindings EXCEPT ![job[c].arg.action] = job[c].arg.key]
           /\ job[c].name = "reset all" => wanted'.keybindings = NoOverrides
           /\ job[c].name \notin OnKeys => wanted'.keybindings = wanted.keybindings
<1>1. wanted' = Wanted(c, value)
  BY DEF Saved
<1>2. CASE job[c].name = "set theme"
  BY <1>1, <1>2 DEF Wanted, SettingsInv, SettingsShape, OnPreferences, OnKeys, Checks
<1>3. CASE job[c].name = "set updates"
  BY <1>1, <1>3 DEF Wanted, SettingsInv, SettingsShape, OnPreferences, OnKeys, Checks
<1>4. CASE job[c].name \in Checks
  BY <1>1, <1>4 DEF Wanted, SettingsInv, SettingsShape, OnPreferences, OnKeys, Checks
<1>5. CASE job[c].name = "record"
  BY <1>1, <1>5 DEF Wanted, SettingsInv, SettingsShape, OnPreferences, OnKeys, Checks
<1>6. CASE job[c].name = "forget"
  BY <1>1, <1>6 DEF Wanted, SettingsInv, SettingsShape, OnPreferences, OnKeys, Checks
<1>7. CASE job[c].name = "override"
  BY <1>1, <1>7 DEF Wanted, SettingsInv, SettingsShape, OnPreferences, OnKeys, Checks
<1>8. CASE job[c].name = "reset all"
  BY <1>1, <1>8 DEF Wanted, SettingsInv, SettingsShape, OnPreferences, OnKeys, Checks
<1> QED BY <1>2, <1>3, <1>4, <1>5, <1>6, <1>7, <1>8 DEF OnPreferences, OnRecents, OnKeys

LEMMA SaveKeeps == ASSUME SettingsInv, NEW c \in Commands, Save(c) PROVE SettingsInv'
<1>1. /\ job[c].step = "save" /\ JobShape(job[c]) /\ Saved(c, job[c].value)
      /\ disturbed' = disturbed /\ clock' = clock
  BY DEF Save, Saved, SettingsInv, SettingsShape
<1>2. job[c].name \in OnPreferences \cup OnRecents
  BY <1>1 DEF JobShape
<1>3. PICK j : JobShape(j) /\ job' = [job EXCEPT ![c] = j] /\ j.step # "save"
               /\ j.name \in {"none", job[c].name}
  <2>1. CASE Ends(c)
    BY <2>1, NoJobShape DEF Ends, NoJob
  <2>2. CASE Continues(c, "request", Unset)
    <3>1. job' = [job EXCEPT ![c] = Continued(job[c], "request", Unset)]
      BY <2>2 DEF Continues, Continued, SettingsInv, SettingsShape
    <3>2. LET k == Continued(job[c], "request", Unset)
          IN JobShape(k) /\ k.step = "request" /\ k.name = job[c].name
      BY <1>1, <1>2, JobContinues
    <3> QED BY <3>1, <3>2
  <2> QED BY <2>1, <2>2 DEF Save
<1>4. /\ job'[c] = j /\ \A d \in Commands : d # c => job'[d] = job[d]
      /\ job' = [d \in Commands |-> job'[d]]
  BY <1>3 DEF SettingsInv, SettingsShape
<1>5. /\ wanted' = [preferences |-> wanted'.preferences, recents |-> wanted'.recents,
                    keybindings |-> wanted'.keybindings]
      /\ wanted'.keybindings = wanted.keybindings
  BY <1>1, <1>2, SavedIsWanted DEF OnPreferences, OnRecents, OnKeys, Checks
<1>6. file' = [s \in Stores |-> file'[s]] /\ file'.keybindings = file.keybindings
  <2>1. StoreOf(job[c].name) # "keybindings"
    BY <1>2, StoreOfName
  <2> QED BY <1>1, <2>1 DEF Saved, SettingsInv, SettingsShape, Stores
<1>7. CASE job[c].name \in OnRecents
  <2>1. wanted'.preferences = wanted.preferences /\ file'.preferences = file.preferences
    <3>1. job[c].name \notin OnPreferences /\ StoreOf(job[c].name) = "recents"
      BY <1>7, StoreOfName DEF OnPreferences, OnRecents, Checks
    <3>2. file'.preferences = file.preferences
      BY <1>1, <3>1 DEF Saved, SettingsInv, SettingsShape, Stores
    <3> QED BY <1>1, <1>2, <3>1, <3>2, SavedIsWanted
  <2>2. SettingsShape'
    BY <1>1, <1>3, <1>4, <1>5, <1>6, <2>1 DEF SettingsInv, SettingsShape
  <2>3. KeysInv'
    BY <1>1, <1>5, <1>6 DEF SettingsInv, KeysInv, LoadedOverrides
  <2>4. j.name \notin OnPreferences
    BY <1>3, <1>7 DEF OnPreferences, OnRecents, Checks
  <2>5. PreferencesInv'
    <3>1. ASSUME "preferences" \notin disturbed
          PROVE  /\ LoadedPreferences(file'.preferences) = wanted'.preferences
                 /\ \A b, d \in Commands :
                        job'[b].name \in OnPreferences /\ job'[d].name \in OnPreferences => b = d
                 /\ \A d \in Commands :
                        job'[d].name \in OnPreferences /\ job'[d].step = "save" => SavesWanted(job'[d])
      BY <1>4, <2>1, <2>4, <3>1 DEF SettingsInv, PreferencesInv
    <3>2. ASSUME NEW d \in Commands, SavesWanted(job'[d]) PROVE SavesWanted(job[d])'
      BY <2>1, <3>2 DEF SavesWanted
    <3>3. LoadedPreferences(file.preferences)' = LoadedPreferences(file'.preferences)
      OBVIOUS
    <3> QED BY <1>1, <3>1, <3>2, <3>3 DEF PreferencesInv
  <2> QED BY <2>2, <2>3, <2>5 DEF SettingsInv
<1>8. CASE job[c].name \in OnPreferences
  <2>1. file'.preferences = Whole(job[c].value)
    BY <1>1, <1>8, StoreOfName DEF Saved, SettingsInv, SettingsShape, Stores
  <2>2. wanted'.preferences \in Preferences
    <3>1. /\ wanted.preferences \in Preferences
          /\ job[c].name = "set theme" => job[c].arg \in Themes
          /\ job[c].name = "set updates" => job[c].arg \in BOOLEAN
          /\ job[c].at \in Nat
      BY DEF SettingsInv, SettingsShape, JobShape
    <3>2. CASE job[c].name = "set theme"
      BY <1>1, <1>2, <3>1, <3>2, SavedIsWanted DEF Preferences
    <3>3. CASE job[c].name = "set updates"
      BY <1>1, <1>2, <3>1, <3>3, SavedIsWanted DEF Preferences
    <3>4. CASE job[c].name \in Checks
      BY <1>1, <1>2, <3>1, <3>4, SavedIsWanted DEF Preferences
    <3> QED BY <1>8, <3>2, <3>3, <3>4 DEF OnPreferences
  <2>3. SettingsShape'
    BY <1>1, <1>3, <1>4, <1>5, <1>6, <2>2 DEF SettingsInv, SettingsShape
  <2>4. KeysInv'
    BY <1>1, <1>5, <1>6 DEF SettingsInv, KeysInv, LoadedOverrides
  <2>5. ASSUME "preferences" \notin disturbed'
        PROVE  /\ LoadedPreferences(file'.preferences) = wanted'.preferences
               /\ \A b, d \in Commands :
                      job'[b].name \in OnPreferences /\ job'[d].name \in OnPreferences => b = d
               /\ \A d \in Commands : ~ (job'[d].name \in OnPreferences /\ job'[d].step = "save")
    <3>1. SavesWanted(job[c])
      BY <1>1, <1>8, <2>5 DEF SettingsInv, PreferencesInv
    <3>2. \A d \in Commands : job[d].name \in OnPreferences => d = c
      BY <1>1, <1>8, <2>5 DEF SettingsInv, PreferencesInv
    <3>3. job[c].value = wanted'.preferences
      BY <1>1, <1>2, <1>8, <3>1, SavedIsWanted DEF SavesWanted, OnPreferences
    <3> QED BY <1>3, <1>4, <2>1, <3>2, <3>3 DEF LoadedPreferences, Whole
  <2>6. PreferencesInv'
    BY <2>5 DEF PreferencesInv
  <2> QED BY <2>3, <2>4, <2>6 DEF SettingsInv
<1> QED BY <1>2, <1>7, <1>8

LEMMA OthersKeep ==
    ASSUME SettingsInv, NEW c \in Commands, SaveFails(c) \/ LatestRelease(c)
    PROVE  SettingsInv'
<1>1. CASE LatestRelease(c)
  BY <1>1, EndsKeeps DEF LatestRelease, OnlyJobs, FilesKept, SettingsInv, SettingsShape
<1>2. CASE SaveFails(c)
  <2>1. JobShape(job[c])
    BY DEF SettingsInv, SettingsShape
  <2>2. UNCHANGED <<wanted, clock>> /\ Saves(c)
    BY <1>2 DEF SaveFails
  <2>3. job[c].name # "none"
    BY <2>1, <2>2, StoreOfName DEF Saves, JobShape
  <2>4. FilesKept
    <3>1. CASE UNCHANGED <<file, disturbed>>
      BY <3>1 DEF FilesKept, SettingsInv, SettingsShape
    <3>2. CASE Tears(c)
      BY <2>2, <2>3, <3>2, TearsDisturb
    <3> QED BY <1>2, <3>1, <3>2 DEF SaveFails
  <2>5. CASE Ends(c)
    BY <2>2, <2>4, <2>5, EndsKeeps
  <2>6. CASE Continues(c, "request", Unset) /\ job[c].name \in Checks
    BY <2>2, <2>4, <2>6, ContinuesKeeps DEF OnPreferences
  <2> QED BY <1>2, <2>5, <2>6 DEF SaveFails
<1> QED BY <1>1, <1>2

\* Loaded, changed and saved in one step: the keybindings are always what is wanted.
LEMMA OverridesKeep == ASSUME SettingsInv, NEW c \in Commands, ChangeOverrides(c) PROVE SettingsInv'
<1> DEFINE value == Overrides(c, LoadedOverrides(file.keybindings))
<1>1. /\ job[c].name \in OnKeys /\ job[c].step = "load" /\ JobShape(job[c])
      /\ Saved(c, value) /\ Ends(c) /\ disturbed' = disturbed /\ clock' = clock
  BY DEF ChangeOverrides, Saved, OnKeys, SettingsInv, SettingsShape
<1>2. /\ job' = [d \in Commands |-> job'[d]] /\ job'[c] = NoJob
      /\ \A d \in Commands : d # c => job'[d] = job[d]
  BY <1>1 DEF Ends, SettingsInv, SettingsShape
<1>3. /\ file' = [s \in Stores |-> file'[s]] /\ file'.preferences = file.preferences
      /\ file'.keybindings = Whole(value)
  <2>1. StoreOf(job[c].name) = "keybindings"
    BY <1>1, StoreOfName
  <2> QED BY <1>1, <2>1 DEF Saved, SettingsInv, SettingsShape, Stores
<1>4. /\ wanted' = [preferences |-> wanted'.preferences, recents |-> wanted'.recents,
                    keybindings |-> wanted'.keybindings]
      /\ wanted'.preferences = wanted.preferences
      /\ job[c].name = "override" =>
            wanted'.keybindings = [wanted.keybindings EXCEPT ![job[c].arg.action] = job[c].arg.key]
      /\ job[c].name = "reset all" => wanted'.keybindings = NoOverrides
  BY <1>1, SavedIsWanted DEF OnPreferences, OnKeys, Checks
<1>5. SettingsShape'
  <2>1. wanted.keybindings = [a \in Shortcuts |-> wanted.keybindings[a]]
    BY DEF SettingsInv, SettingsShape
  <2>2. wanted'.keybindings = [a \in Shortcuts |-> wanted'.keybindings[a]]
    BY <1>1, <1>4, <2>1 DEF OnKeys, NoOverrides
  <2> QED BY <1>1, <1>2, <1>3, <1>4, <2>2, NoJobShape DEF SettingsInv, SettingsShape
<1>6. PreferencesInv'
  <2>1. job'[c].name \notin OnPreferences
    BY <1>2 DEF NoJob, OnPreferences, Checks
  <2>2. ASSUME "preferences" \notin disturbed
        PROVE  /\ LoadedPreferences(file'.preferences) = wanted'.preferences
               /\ \A b, d \in Commands :
                      job'[b].name \in OnPreferences /\ job'[d].name \in OnPreferences => b = d
               /\ \A d \in Commands :
                      job'[d].name \in OnPreferences /\ job'[d].step = "save" => SavesWanted(job'[d])
    BY <1>2, <1>3, <1>4, <2>1, <2>2 DEF SettingsInv, PreferencesInv
  <2>3. ASSUME NEW d \in Commands, SavesWanted(job'[d]) PROVE SavesWanted(job[d])'
    BY <1>4, <2>3 DEF SavesWanted
  <2>4. LoadedPreferences(file.preferences)' = LoadedPreferences(file'.preferences)
    OBVIOUS
  <2> QED BY <1>1, <2>2, <2>3, <2>4 DEF PreferencesInv
<1>7. KeysInv'
  <2>1. ASSUME "keybindings" \notin disturbed PROVE value = wanted'.keybindings
    <3>1. LoadedOverrides(file.keybindings) = wanted.keybindings
      BY <2>1 DEF SettingsInv, KeysInv
    <3> QED BY <1>1, <1>4, <3>1 DEF Overrides, OnKeys
  <2>2. LoadedOverrides(file'.keybindings) = value
    BY <1>3 DEF LoadedOverrides, Whole
  <2>3. LoadedOverrides(file.keybindings)' = LoadedOverrides(file'.keybindings)
    OBVIOUS
  <2> QED BY <1>1, <2>1, <2>2, <2>3 DEF KeysInv
<1> QED BY <1>5, <1>6, <1>7 DEF SettingsInv

\* The program ends: no command survives, and a file may be damaged.
LEMMA QuitKeeps == ASSUME SettingsInv, Quit PROVE SettingsInv'
<1>1. job' = [c \in Commands |-> NoJob] /\ UNCHANGED <<wanted, clock>>
  BY DEF Quit
<1>2. FilesKept
  <2>1. CASE UNCHANGED <<file, disturbed>>
    BY <2>1 DEF FilesKept, SettingsInv, SettingsShape
  <2>2. ASSUME NEW c \in Running, Tears(c) PROVE FilesKept
    <3>1. JobShape(job[c]) /\ c \in Commands
      BY <2>2 DEF Running, SettingsInv, SettingsShape
    <3>2. CASE job[c].name # "none"
      BY <1>1, <2>2, <3>1, <3>2, TearsDisturb
    <3>3. CASE job[c].name = "none"
      <4> PICK state : file' = [file EXCEPT ![StoreOf(job[c].name)] = Damaged(state)]
        BY <2>2 DEF Tears
      <4> QED BY <2>2, <3>3, StoreOfName DEF Tears, FilesKept, SettingsInv, SettingsShape, Stores
    <3> QED BY <3>2, <3>3
  <2> QED BY <2>1, <2>2 DEF Quit
<1>3. NoJob.name \notin OnPreferences
  BY DEF NoJob, OnPreferences, Checks
<1>4. "preferences" \notin disturbed' =>
          "preferences" \notin disturbed /\ file'.preferences = file.preferences
  BY <1>2 DEF FilesKept, Stores
<1>5. SettingsShape'
  BY <1>1, <1>2, NoJobShape DEF SettingsInv, SettingsShape, FilesKept
<1>6. KeysInv'
  BY <1>1, <1>2 DEF SettingsInv, KeysInv, FilesKept, Stores, LoadedOverrides
<1>7. PreferencesInv'
  BY <1>1, <1>3, <1>4 DEF SettingsInv, PreferencesInv, LoadedPreferences
<1> QED BY <1>5, <1>6, <1>7 DEF SettingsInv

-----------------------------------------------------------------------------
LEMMA SettingsStart == SettingsInit => SettingsInv
<1> SUFFICES ASSUME SettingsInit PROVE SettingsInv
  OBVIOUS
<1>1. NoJob.name \notin OnPreferences
  BY DEF NoJob, OnPreferences, Checks
<1>2. SettingsShape
  BY NoJobShape DEF SettingsInit, SettingsShape, Defaults, Preferences, NoOverrides
<1>3. PreferencesInv
  BY <1>1 DEF SettingsInit, PreferencesInv, LoadedPreferences, Damaged, Stores
<1>4. KeysInv
  BY DEF SettingsInit, KeysInv, LoadedOverrides, Damaged, Stores
<1> QED BY <1>2, <1>3, <1>4 DEF SettingsInv

LEMMA SettingsStep == SettingsInv /\ [SettingsNext]_settingsVars => SettingsInv'
<1> SUFFICES ASSUME SettingsInv, [SettingsNext]_settingsVars PROVE SettingsInv'
  OBVIOUS
<1>1. CASE UNCHANGED settingsVars \/ Tick
  <2>1. UNCHANGED <<file, job, wanted, disturbed>> /\ clock' \in Nat
    <3>1. \A n \in 1 .. MaxClock : n \in Nat
      BY SettingsAssumption
    <3> QED BY <1>1, <3>1 DEF settingsVars, Tick, SettingsInv, SettingsShape
  <2>2. SettingsShape'
    BY <2>1 DEF SettingsInv, SettingsShape
  <2> QED BY <2>1, <2>2 DEF SettingsInv, PreferencesInv, KeysInv, SavesWanted
<1>2. CASE Quit
  BY <1>2, QuitKeeps
<1>3. ASSUME NEW c \in Commands,
             \/ CallSetTheme(c) \/ CallSetCheckForUpdates(c) \/ CallCheckForUpdate(c)
             \/ CallOpenRepository(c) \/ CallForget(c) \/ CallSetOverride(c) \/ CallResetAll(c)
      PROVE  SettingsInv'
  <2>1. CASE CallSetTheme(c)
    BY <2>1, AsksKeeps DEF CallSetTheme, OnPreferences
  <2>2. CASE CallSetCheckForUpdates(c)
    BY <2>2, AsksKeeps DEF CallSetCheckForUpdates, OnPreferences
  <2>3. CASE CallCheckForUpdate(c)
    BY <2>3, AsksKeeps DEF CallCheckForUpdate, OnPreferences, Checks
  <2>4. CASE CallOpenRepository(c) \/ CallForget(c)
    BY <2>4, AsksKeeps DEF CallOpenRepository, CallForget, OnRecents
  <2>5. CASE CallSetOverride(c)
    <3>1. PICK a \in Shortcuts, key \in 0 .. 1 : Asks(c, "override", [action |-> a, key |-> key])
      BY <2>5 DEF CallSetOverride
    <3> QED BY <3>1, AsksKeeps DEF OnKeys
  <2>6. CASE CallResetAll(c)
    BY <2>6, AsksKeeps DEF CallResetAll, OnKeys
  <2> QED BY <1>3, <2>1, <2>2, <2>3, <2>4, <2>5, <2>6
<1>4. ASSUME NEW c \in Commands,
             \/ LoadToSetTheme(c) \/ LoadToSetUpdates(c) \/ LoadToCheck(c) \/ LoadRecents(c)
             \/ Save(c) \/ SaveFails(c) \/ LatestRelease(c) \/ ChangeOverrides(c)
      PROVE  SettingsInv'
  BY <1>4, LoadsKeep, SaveKeeps, OthersKeep, OverridesKeep
<1> QED BY <1>1, <1>2, <1>3, <1>4 DEF SettingsNext

\* As long as no two commands on the preferences overlapped and none was cut
\* short, what is about to be saved is what is wanted (preferences_store.rs).
THEOREM PreferencesGuarded == SettingsSpec => []SettingsInv
BY SettingsStart, SettingsStep, PTL DEF SettingsSpec

\* No automatic check goes on to the network against the user's wish or within a
\* day of another (CheckForUpdate).
THEOREM NothingUnasked == SettingsSpec => NoUnaskedRequest
<1>1. SettingsInv =>
          [\A c \in Commands :
              (job[c].name = "automatic check" /\ job[c].step = "save" /\ job'[c].step = "request"
               /\ "preferences" \notin disturbed) =>
                  /\ wanted.preferences.updates
                  /\ \/ wanted.preferences.checked = 0
                     \/ job[c].at >= wanted.preferences.checked + Day]_settingsVars
  <2> SUFFICES ASSUME SettingsInv, NEW c \in Commands,
                      job[c].name = "automatic check", job[c].step = "save",
                      "preferences" \notin disturbed
               PROVE  MayCheck(wanted.preferences, job[c].at)
    BY DEF MayCheck
  <2> QED BY DEF SettingsInv, PreferencesInv, SavesWanted, OnPreferences, Checks
<1> QED BY <1>1, PreferencesGuarded, PTL DEF NoUnaskedRequest

-----------------------------------------------------------------------------
(* The recent repositories *)

\* Every nonempty set of numbers has a least one.
LEMMA LeastNumber ==
  ASSUME NEW T, T \subseteq Nat, T # {}
  PROVE  \E x \in T : \A y \in T : x <= y
<1> DEFINE R == OpToRel(<, Nat)
<1>1. IsWellFoundedOn(R, Nat)
  BY NatLessThanWellFounded
<1>2. R = {pair \in Nat \X Nat : pair[1] < pair[2]}
  BY DEF OpToRel
<1> HIDE DEF R
<1>3. PICK x \in T : \A y \in T : ~ (<<y, x>> \in R)
  BY <1>1, WFMin
<1>4. \A y \in T : ~ (y < x)
  BY <1>2, <1>3
<1> QED BY <1>3, <1>4

Entries == [path : Places, at : Nat \ {0}]

LEMMA AreEntries ==
  ASSUME NEW list \in Seq(Entries)
  PROVE  /\ Len(list) \in Nat /\ DOMAIN list = 1 .. Len(list)
         /\ \A n \in 1 .. Len(list) :
               /\ list[n] \in Entries /\ list[n].path \in Places
               /\ list[n].at \in Nat /\ list[n].at # 0
<1>1. ASSUME NEW n \in 1 .. Len(list)
      PROVE  /\ list[n] \in Entries /\ list[n].path \in Places
             /\ list[n].at \in Nat /\ list[n].at # 0
  <2>1. list[n] \in Entries
    BY ElementOfSeq
  <2> QED BY <2>1 DEF Entries
<1> QED BY <1>1, LenProperties

\* Newest first, each repository once.
Ordered(list) ==
    \A i, j \in DOMAIN list : i < j => list[i].at >= list[j].at /\ list[i].path # list[j].path
IsRecents(list) == list \in Seq(Entries) /\ Len(list) <= MaxRecent /\ Ordered(list)

\* Each repository once, in any order: a file, when the clock was set back.
Distinct(list) == \A i, j \in DOMAIN list : i < j => list[i].path # list[j].path
IsList(list) == list \in Seq(Entries) /\ Len(list) <= MaxRecent /\ Distinct(list)

\* What is retained of the first m entries.
RetainedWell(list, path, kept, m) ==
    /\ kept \in Seq(Entries) /\ Len(kept) <= m /\ Ordered(kept)
    /\ \A n \in 1 .. Len(kept) : \E i \in 1 .. m : kept[n] = list[i] /\ list[i].path # path
    /\ \A i \in 1 .. m : list[i].path # path => \E n \in 1 .. Len(kept) : kept[n] = list[i]

LEMMA RetainsWell ==
  ASSUME NEW list \in Seq(Entries), Ordered(list), NEW path, NEW m \in 1 .. Len(list),
         NEW kept, RetainedWell(list, path, kept, m - 1),
         NEW new, new = Retain(kept, list[m], path)
  PROVE  RetainedWell(list, path, new, m)
<1>1. /\ list[m] \in Entries /\ DOMAIN list = 1 .. Len(list) /\ Len(list) \in Nat
      /\ m - 1 \in Nat
  BY LenProperties, ElementOfSeq
<1>2. kept \in Seq(Entries) /\ Len(kept) \in Nat /\ DOMAIN kept = 1 .. Len(kept)
  BY LenProperties DEF RetainedWell
<1>3. CASE list[m].path = path
  <2>1. new = kept
    BY <1>3 DEF Retain
  <2>2. Len(kept) <= m
    BY <1>1, <1>2 DEF RetainedWell
  <2>3. \A i \in 1 .. m : list[i].path # path => \E n \in 1 .. Len(kept) : kept[n] = list[i]
    BY <1>1, <1>3 DEF RetainedWell
  <2> QED BY <1>1, <2>1, <2>2, <2>3 DEF RetainedWell
<1>4. CASE list[m].path # path
  <2>1. new = Append(kept, list[m])
    BY <1>4 DEF Retain
  <2>2. /\ new \in Seq(Entries) /\ Len(new) = Len(kept) + 1
        /\ \A n \in 1 .. Len(kept) : new[n] = kept[n]
        /\ new[Len(kept) + 1] = list[m]
        /\ DOMAIN new = 1 .. Len(new)
    BY <1>1, <1>2, <2>1, AppendProperties, LenProperties
  <2>3. Len(new) <= m
    BY <1>1, <1>2, <2>2 DEF RetainedWell
  <2>4. ASSUME NEW n \in 1 .. Len(new)
        PROVE  \E i \in 1 .. m : new[n] = list[i] /\ list[i].path # path
    <3>1. CASE n = Len(kept) + 1
      BY <1>1, <1>4, <2>2, <3>1
    <3>2. CASE n # Len(kept) + 1
      <4>1. n \in 1 .. Len(kept)
        BY <1>2, <2>2, <3>2
      <4>2. PICK i \in 1 .. m - 1 : kept[n] = list[i] /\ list[i].path # path
        BY <4>1 DEF RetainedWell
      <4> QED BY <1>1, <2>2, <4>1, <4>2
    <3> QED BY <3>1, <3>2
  <2>5. ASSUME NEW i \in 1 .. m, list[i].path # path
        PROVE  \E n \in 1 .. Len(new) : new[n] = list[i]
    <3>1. CASE i = m
      BY <1>2, <2>2, <3>1
    <3>2. CASE i # m
      <4>1. i \in 1 .. m - 1
        BY <1>1, <3>2
      <4>2. PICK n \in 1 .. Len(kept) : kept[n] = list[i]
        BY <2>5, <4>1 DEF RetainedWell
      <4> QED BY <1>2, <2>2, <4>2
    <3> QED BY <3>1, <3>2
  <2>6. ASSUME NEW n \in 1 .. Len(new), NEW k \in 1 .. Len(new), n < k
        PROVE  new[n].at >= new[k].at /\ new[n].path # new[k].path
    <3>1. n \in 1 .. Len(kept) /\ new[n] = kept[n]
      BY <1>2, <2>2, <2>6
    <3>2. CASE k = Len(kept) + 1
      <4>1. PICK i \in 1 .. m - 1 : kept[n] = list[i]
        BY <3>1 DEF RetainedWell
      <4>2. i \in DOMAIN list /\ m \in DOMAIN list /\ i < m
        BY <1>1, <4>1
      <4>3. list[i].at >= list[m].at /\ list[i].path # list[m].path
        BY <4>2 DEF Ordered
      <4> QED BY <2>2, <3>1, <3>2, <4>1, <4>3
    <3>3. CASE k # Len(kept) + 1
      <4>1. k \in 1 .. Len(kept) /\ new[k] = kept[k]
        BY <1>2, <2>2, <3>3
      <4>2. Ordered(kept)
        BY DEF RetainedWell
      <4>3. kept[n].at >= kept[k].at /\ kept[n].path # kept[k].path
        BY <1>2, <2>6, <3>1, <4>1, <4>2 DEF Ordered
      <4> QED BY <3>1, <4>1, <4>3
    <3> QED BY <3>2, <3>3
  <2>7. Ordered(new)
    BY <2>2, <2>6 DEF Ordered
  <2> QED BY <2>2, <2>3, <2>4, <2>5, <2>7 DEF RetainedWell
<1> QED BY <1>3, <1>4

\* A recursive function over an initial segment exists.
LEMMA RetainedUnfolds ==
  ASSUME NEW list, Len(list) \in Nat, NEW path
  PROVE  /\ Retained(list, path)[0] = <<>>
         /\ \A n \in 1 .. Len(list) :
              Retained(list, path)[n] = Retain(Retained(list, path)[n - 1], list[n], path)
<1> DEFINE IsKept(g, m) ==
             g = [n \in 0 .. m |-> IF n = 0 THEN <<>> ELSE Retain(g[n - 1], list[n], path)]
           Missing == {m \in 0 .. Len(list) : ~ \E g : IsKept(g, m)}
<1>1. Missing = {}
  <2>1. SUFFICES ASSUME Missing # {} PROVE FALSE
    OBVIOUS
  <2>2. PICK m \in Missing : \A other \in Missing : m <= other
    <3>1. Missing \subseteq Nat
      OBVIOUS
    <3> HIDE DEF Missing
    <3> QED BY <2>1, <3>1, LeastNumber
  <2>3. CASE m = 0
    <3>1. IsKept([n \in 0 .. 0 |-> <<>>], 0)
      OBVIOUS
    <3> QED BY <2>2, <2>3, <3>1
  <2>4. CASE m # 0
    <3>1. m - 1 \in 0 .. Len(list) /\ m - 1 \notin Missing
      BY <2>2, <2>4
    <3>2. PICK g : IsKept(g, m - 1)
      BY <3>1
    <3> DEFINE h == [n \in 0 .. m |-> IF n = m THEN Retain(g[m - 1], list[m], path) ELSE g[n]]
    <3>3. \A n \in 0 .. m - 1 : h[n] = g[n]
      BY <2>2
    <3>4. \A n \in 0 .. m : h[n] = IF n = 0 THEN <<>> ELSE Retain(h[n - 1], list[n], path)
      <4>1. \A n \in 0 .. m - 1 : g[n] = IF n = 0 THEN <<>> ELSE Retain(g[n - 1], list[n], path)
        BY <3>2
      <4>2. h[m] = Retain(h[m - 1], list[m], path)
        BY <2>2, <2>4, <3>3
      <4>3. \A n \in 1 .. m - 1 : h[n] = g[n] /\ h[n - 1] = g[n - 1]
        BY <2>2, <3>3
      <4> HIDE DEF h
      <4> QED BY <2>2, <2>4, <3>3, <4>1, <4>2, <4>3
    <3>5. IsKept(h, m)
      BY <3>4
    <3> QED BY <2>2, <3>5
  <2> QED BY <2>3, <2>4
<1>2. PICK g : IsKept(g, Len(list))
  <2>1. Len(list) \notin Missing
    BY <1>1
  <2> QED BY <2>1
<1>3. IsKept(Retained(list, path), Len(list))
  <2>1. Retained(list, path) = CHOOSE f : IsKept(f, Len(list))
    BY DEF Retained
  <2> HIDE DEF IsKept
  <2> QED BY <1>2, <2>1
<1> QED BY <1>3

\* Without a path the list is as it was but for that path.
LEMMA WithoutIs ==
  ASSUME NEW list \in Seq(Entries), Ordered(list), NEW path, NEW rest, rest = Without(list, path)
  PROVE  RetainedWell(list, path, rest, Len(list))
<1> DEFINE Bad == {m \in 0 .. Len(list) : ~ RetainedWell(list, path, Retained(list, path)[m], m)}
<1>1. Len(list) \in Nat
  BY LenProperties
<1>2. Retained(list, path)[0] = <<>>
  BY <1>1, RetainedUnfolds
<1>3. Bad = {}
  <2>1. SUFFICES ASSUME Bad # {} PROVE FALSE
    OBVIOUS
  <2>2. PICK m \in Bad : \A other \in Bad : m <= other
    <3>1. Bad \subseteq Nat
      OBVIOUS
    <3> HIDE DEF Bad
    <3> QED BY <2>1, <3>1, LeastNumber
  <2>3. m # 0
    <3>1. RetainedWell(list, path, <<>>, 0)
      BY EmptySeq DEF RetainedWell, Ordered
    <3> QED BY <1>2, <2>2, <3>1
  <2>4. m \in 1 .. Len(list) /\ m - 1 \in 0 .. Len(list) /\ m - 1 \notin Bad
    BY <1>1, <2>2, <2>3
  <2>5. PICK kept : kept = Retained(list, path)[m - 1]
    OBVIOUS
  <2>6. RetainedWell(list, path, kept, m - 1)
    BY <2>4, <2>5
  <2>7. Retained(list, path)[m] = Retain(kept, list[m], path)
    BY <1>1, <2>4, <2>5, RetainedUnfolds
  <2>8. RetainedWell(list, path, Retained(list, path)[m], m)
    BY <2>4, <2>6, <2>7, RetainsWell
  <2> QED BY <2>2, <2>8
<1>4. Len(list) \notin Bad /\ Len(list) \in 0 .. Len(list)
  BY <1>1, <1>3
<1> QED BY <1>4 DEF Without

\* A touched entry is the first; who leaves is the last of a full list, older than
\* the others that stay.
TouchedWell(list, path, at, new) ==
    /\ IsList(new) /\ Len(new) \in 1 .. Len(list) + 1
    /\ new[1].path = path /\ new[1].at = at
    /\ (\A i \in 1 .. Len(list) : list[i].at <= at) => Ordered(new)
    /\ \A n \in 2 .. Len(new) : \E i \in 1 .. Len(list) : new[n] = list[i] /\ list[i].path # path
    /\ \A i \in 1 .. Len(list) : list[i].path # path =>
           \/ \E n \in 1 .. Len(new) : new[n] = list[i]
           \/ /\ Len(new) = MaxRecent /\ Len(list) = MaxRecent
              /\ \A n \in 1 .. Len(new) :
                     new[n].path # list[i].path /\ (n = 1 \/ new[n].at >= list[i].at)

LEMMA TouchIs ==
  ASSUME NEW list, IsRecents(list), NEW path \in Places, NEW at \in Nat \ {0},
         NEW new, new = Touch(list, path, at)
  PROVE  TouchedWell(list, path, at, new)
<1>1. list \in Seq(Entries) /\ Len(list) \in Nat /\ Len(list) <= MaxRecent /\ Ordered(list)
  BY LenProperties DEF IsRecents
<1>2. PICK rest : rest = Without(list, path)
  OBVIOUS
<1>3. RetainedWell(list, path, rest, Len(list))
  BY <1>1, <1>2, WithoutIs
<1>4. /\ rest \in Seq(Entries) /\ Len(rest) \in Nat /\ Len(rest) <= Len(list)
      /\ DOMAIN rest = 1 .. Len(rest) /\ Ordered(rest)
  BY <1>3, LenProperties DEF RetainedWell
<1>5. PICK e : e = [path |-> path, at |-> at]
  OBVIOUS
<1>6. e \in Entries /\ e.path = path /\ e.at = at
  BY <1>5 DEF Entries
<1>7. PICK moved : moved = <<e>> \o rest
  OBVIOUS
<1>8. <<e>> \in Seq(Entries) /\ Len(<<e>>) = 1 /\ <<e>>[1] = e
  BY <1>6
<1>9. /\ moved \in Seq(Entries) /\ Len(moved) = Len(rest) + 1
      /\ moved[1] = e
      /\ \A n \in 2 .. Len(rest) + 1 : moved[n] = rest[n - 1]
  BY <1>4, <1>7, <1>8, ConcatProperties
<1>10. PICK size : size = IF Len(moved) < MaxRecent THEN Len(moved) ELSE MaxRecent
  OBVIOUS
<1>11. new = SubSeq(moved, 1, size)
  BY <1>2, <1>5, <1>7, <1>10 DEF Touch
<1>12. MaxRecent \in Nat \ {0}
  BY SettingsAssumption
<1>13. /\ size \in 1 .. Len(moved) /\ size <= MaxRecent /\ size \in Nat /\ size >= 1
       /\ size = Len(moved) \/ (size = MaxRecent /\ Len(moved) = MaxRecent + 1)
  BY <1>1, <1>4, <1>9, <1>10, <1>12
<1>14. \A n \in 1 .. Len(moved) : moved[n] \in Entries
  BY <1>9, ElementOfSeq
<1>15. /\ new \in Seq(Entries) /\ Len(new) = size /\ DOMAIN new = 1 .. size
       /\ \A n \in 1 .. size : new[n] = moved[n]
  <2>1. \A n \in 1 .. size : moved[n] \in Entries
    BY <1>9, <1>4, <1>13, <1>14
  <2>2. /\ SubSeq(moved, 1, size) \in Seq(Entries) /\ Len(SubSeq(moved, 1, size)) = size
        /\ \A n \in 1 .. size - 1 + 1 : SubSeq(moved, 1, size)[n] = moved[1 + n - 1]
    BY <1>13, <2>1, SubSeqProperties
  <2>3. \A n \in 1 .. size : n \in 1 .. size - 1 + 1 /\ 1 + n - 1 = n
    BY <1>13
  <2> QED BY <1>11, <2>2, <2>3, LenProperties
<1>16. ASSUME NEW n \in 2 .. Len(moved)
       PROVE  \E i \in 1 .. Len(list) : moved[n] = list[i] /\ list[i].path # path
  <2>1. n - 1 \in 1 .. Len(rest) /\ moved[n] = rest[n - 1]
    BY <1>4, <1>9
  <2> QED BY <1>3, <2>1 DEF RetainedWell
<1>17. ASSUME NEW n \in 1 .. Len(moved), NEW k \in 1 .. Len(moved), n < k
       PROVE  /\ moved[n].path # moved[k].path
              /\ n # 1 => moved[n].at >= moved[k].at
              /\ (\A i \in 1 .. Len(list) : list[i].at <= at) => moved[n].at >= moved[k].at
  <2>1. k \in 2 .. Len(moved)
    BY <1>17
  <2>2. CASE n = 1
    <3>1. PICK i \in 1 .. Len(list) : moved[k] = list[i] /\ list[i].path # path
      BY <1>16, <2>1
    <3>2. list[i].at \in Nat
      BY <1>1, AreEntries DEF Entries
    <3> QED BY <1>6, <1>9, <2>2, <3>1, <3>2
  <2>3. CASE n # 1
    <3>1. /\ n - 1 \in 1 .. Len(rest) /\ moved[n] = rest[n - 1]
          /\ k - 1 \in 1 .. Len(rest) /\ moved[k] = rest[k - 1]
          /\ n - 1 < k - 1
      BY <1>4, <1>9, <1>17, <2>3
    <3> QED BY <1>4, <3>1 DEF Ordered
  <2> QED BY <2>2, <2>3
<1>18. Distinct(new) /\ ((\A i \in 1 .. Len(list) : list[i].at <= at) => Ordered(new))
  <2>1. ASSUME NEW n \in 1 .. size, NEW k \in 1 .. size, n < k
        PROVE  /\ new[n].path # new[k].path
               /\ (\A i \in 1 .. Len(list) : list[i].at <= at) => new[n].at >= new[k].at
    <3>1. n \in 1 .. Len(moved) /\ k \in 1 .. Len(moved)
      BY <1>4, <1>9, <1>13
    <3> QED BY <1>15, <1>17, <2>1, <3>1
  <2>2. Distinct(new)
    BY <1>15, <2>1 DEF Distinct
  <2>3. ASSUME \A i \in 1 .. Len(list) : list[i].at <= at PROVE Ordered(new)
    BY <1>15, <2>1, <2>3 DEF Ordered
  <2> QED BY <2>2, <2>3
<1>19. IsList(new) /\ Len(new) \in 1 .. Len(list) + 1
  BY <1>1, <1>4, <1>9, <1>13, <1>15, <1>18 DEF IsList
<1>20. new[1].path = path /\ new[1].at = at
  BY <1>6, <1>9, <1>13, <1>15
<1>21. ASSUME NEW n \in 2 .. Len(new)
       PROVE  \E i \in 1 .. Len(list) : new[n] = list[i] /\ list[i].path # path
  <2>1. n \in 2 .. Len(moved) /\ new[n] = moved[n]
    BY <1>4, <1>9, <1>13, <1>15
  <2> QED BY <1>16, <2>1
<1>22. ASSUME NEW i \in 1 .. Len(list), list[i].path # path
       PROVE  \/ \E n \in 1 .. Len(new) : new[n] = list[i]
              \/ /\ Len(new) = MaxRecent /\ Len(list) = MaxRecent
                 /\ \A n \in 1 .. Len(new) :
                        new[n].path # list[i].path /\ (n = 1 \/ new[n].at >= list[i].at)
  <2>1. PICK n \in 1 .. Len(rest) : rest[n] = list[i]
    BY <1>3, <1>22 DEF RetainedWell
  <2>2. n + 1 \in 2 .. Len(moved) /\ moved[n + 1] = list[i]
    <3>1. n + 1 \in 2 .. Len(rest) + 1 /\ n + 1 - 1 = n
      BY <1>4
    <3> QED BY <1>9, <2>1, <3>1
  <2>3. CASE n + 1 <= size
    BY <1>13, <1>15, <2>2, <2>3
  <2>4. CASE n + 1 > size
    <3>1. size = MaxRecent /\ Len(moved) = MaxRecent + 1 /\ n + 1 = Len(moved)
      BY <1>4, <1>9, <1>13, <2>2, <2>4
    <3>2. Len(list) = MaxRecent
      BY <1>1, <1>4, <1>9, <1>12, <3>1
    <3>3. ASSUME NEW k \in 1 .. Len(new)
          PROVE  new[k].path # list[i].path /\ (k = 1 \/ new[k].at >= list[i].at)
      <4>1. k \in 1 .. Len(moved) /\ k < n + 1 /\ n + 1 \in 1 .. Len(moved) /\ new[k] = moved[k]
        BY <1>12, <1>13, <1>15, <3>1
      <4> QED BY <1>17, <2>2, <4>1
    <3> QED BY <1>15, <3>1, <3>2, <3>3
  <2> QED BY <1>13, <2>2, <2>3, <2>4
<1> QED BY <1>18, <1>19, <1>20, <1>21, <1>22 DEF TouchedWell

\* The stable sort: of the entries left there is an oldest.
LEMMA OldestIs ==
  ASSUME NEW list \in Seq(Entries), NEW left, left \subseteq 1 .. Len(list), left # {},
         NEW k, k = Oldest(list, left)
  PROVE  k \in left /\ \A j \in left : list[k].at <= list[j].at
<1>1. Len(list) \in Nat /\ \A i \in left : i \in Nat /\ list[i].at \in Nat
  BY AreEntries
<1>2. PICK ages : ages = {list[i].at : i \in left}
  OBVIOUS
<1>3. ages \subseteq Nat /\ ages # {}
  BY <1>1, <1>2
<1>4. PICK age \in ages : \A other \in ages : age <= other
  BY <1>3, LeastNumber
<1>5. PICK same : same = {i \in left : list[i].at = age}
  OBVIOUS
<1>6. same \subseteq Nat /\ same # {}
  BY <1>1, <1>2, <1>4, <1>5
<1>7. PICK first \in same : \A other \in same : first <= other
  BY <1>6, LeastNumber
<1>8. \A j \in left :
          list[first].at < list[j].at \/ (list[first].at = list[j].at /\ first <= j)
  <2> SUFFICES ASSUME NEW j \in left
               PROVE  list[first].at < list[j].at \/ (list[first].at = list[j].at /\ first <= j)
    OBVIOUS
  <2>1. list[j].at \in ages /\ list[first].at = age /\ age \in Nat /\ list[j].at \in Nat
    BY <1>1, <1>2, <1>3, <1>5
  <2>2. age <= list[j].at
    BY <1>4, <2>1
  <2>3. CASE list[j].at = age
    BY <1>5, <1>7, <2>1, <2>3
  <2>4. CASE list[j].at # age
    BY <2>1, <2>2, <2>4
  <2> QED BY <2>3, <2>4
<1>9. first \in left
  BY <1>5
<1>10. /\ k \in left
       /\ \A j \in left : list[k].at < list[j].at \/ (list[k].at = list[j].at /\ k <= j)
  BY <1>8, <1>9 DEF Oldest
<1> QED BY <1>1, <1>10

\* What has been replayed after m of the entries.
ReplayedWell(list, replay, m) ==
    /\ replay.left \subseteq 1 .. Len(list)
    /\ IsFiniteSet(replay.left) /\ Cardinality(replay.left) = Len(list) - m
    /\ IsRecents(replay.recents) /\ Len(replay.recents) <= m
    /\ \A n \in 1 .. Len(replay.recents) :
          \E i \in 1 .. Len(list) : i \notin replay.left /\ replay.recents[n] = list[i]
    /\ \A i \in 1 .. Len(list) :
          i \notin replay.left => \E n \in 1 .. Len(replay.recents) : replay.recents[n] = list[i]
    /\ \A i \in 1 .. Len(list), j \in replay.left :
          i \notin replay.left => list[i].at <= list[j].at

LEMMA ReplaysWell ==
  ASSUME NEW list, IsList(list), NEW m \in 1 .. Len(list),
         NEW replay, ReplayedWell(list, replay, m - 1),
         NEW new, new = TouchOldest(list, replay)
  PROVE  ReplayedWell(list, new, m)
<1>1. /\ list \in Seq(Entries) /\ Len(list) \in Nat /\ Len(list) <= MaxRecent /\ Distinct(list)
      /\ DOMAIN list = 1 .. Len(list) /\ m - 1 \in Nat
  BY LenProperties DEF IsList
<1>2. PICK left, recents : left = replay.left /\ recents = replay.recents
  OBVIOUS
<1>3. /\ left \subseteq 1 .. Len(list) /\ IsFiniteSet(left)
      /\ Cardinality(left) = Len(list) - (m - 1)
      /\ IsRecents(recents) /\ Len(recents) <= m - 1
  BY <1>2 DEF ReplayedWell
<1>4. left # {}
  <2>1. Cardinality(left) # 0
    BY <1>1, <1>3
  <2> QED BY <2>1, FS_EmptySet
<1>5. PICK k : k = Oldest(list, left)
  OBVIOUS
<1>6. k \in left /\ \A j \in left : list[k].at <= list[j].at
  BY <1>1, <1>3, <1>4, <1>5, OldestIs
<1>7. PICK path, at : path = list[k].path /\ at = list[k].at
  OBVIOUS
<1>8. /\ k \in 1 .. Len(list) /\ list[k] \in Entries /\ path \in Places /\ at \in Nat \ {0}
      /\ list[k] = [path |-> path, at |-> at]
  <2>1. k \in 1 .. Len(list) /\ list[k] \in Entries
    BY <1>1, <1>3, <1>6, AreEntries
  <2> QED BY <1>7, <2>1 DEF Entries
<1>9. PICK touched : touched = Touch(recents, path, at)
  OBVIOUS
<1>10. new.left = left \ {k} /\ new.recents = touched
  BY <1>2, <1>5, <1>7, <1>9 DEF TouchOldest
<1>11. /\ \A n \in 1 .. Len(recents) :
             \E i \in 1 .. Len(list) : i \notin left /\ recents[n] = list[i]
       /\ \A i \in 1 .. Len(list) : i \notin left => \E n \in 1 .. Len(recents) : recents[n] = list[i]
       /\ \A i \in 1 .. Len(list), j \in left : i \notin left => list[i].at <= list[j].at
  BY <1>2 DEF ReplayedWell
<1>12. recents \in Seq(Entries) /\ Len(recents) \in Nat
  BY <1>3, LenProperties DEF IsRecents
<1>13. \A n \in 1 .. Len(recents) : recents[n].at <= at
  BY <1>6, <1>7, <1>11
<1>14. /\ IsRecents(touched) /\ Len(touched) \in 1 .. Len(recents) + 1
       /\ touched[1].path = path /\ touched[1].at = at
       /\ \A n \in 2 .. Len(touched) :
             \E i \in 1 .. Len(recents) : touched[n] = recents[i] /\ recents[i].path # path
       /\ \A i \in 1 .. Len(recents) : recents[i].path # path =>
             \/ \E n \in 1 .. Len(touched) : touched[n] = recents[i]
             \/ Len(recents) = MaxRecent
  <2>1. TouchedWell(recents, path, at, touched)
    BY <1>3, <1>8, <1>9, TouchIs
  <2>2. Ordered(touched) /\ IsList(touched)
    BY <1>13, <2>1 DEF TouchedWell
  <2>3. IsRecents(touched)
    BY <2>2 DEF IsList, IsRecents
  <2> QED BY <2>1, <2>3 DEF TouchedWell
<1>15. Len(recents) # MaxRecent
  BY <1>1, <1>3, <1>12, SettingsAssumption
<1>16. touched[1] = list[k]
  <2>1. touched \in Seq(Entries) /\ 1 \in 1 .. Len(touched)
    BY <1>12, <1>14, LenProperties DEF IsRecents
  <2>2. touched[1] \in Entries
    BY <2>1, ElementOfSeq
  <2> QED BY <1>8, <1>14, <2>2 DEF Entries
<1>17. /\ IsFiniteSet(left \ {k}) /\ Cardinality(left \ {k}) = Len(list) - m
  <2>1. IsFiniteSet(left \ {k}) /\ Cardinality(left \ {k}) = Cardinality(left) - 1
    BY <1>3, <1>6, FS_RemoveElement
  <2> QED BY <1>1, <1>3, <2>1
<1>18. Len(touched) \in Nat /\ Len(touched) <= m
  BY <1>1, <1>3, <1>12, <1>14
<1>19. ASSUME NEW n \in 1 .. Len(touched)
       PROVE  \E i \in 1 .. Len(list) : i \notin left \ {k} /\ touched[n] = list[i]
  <2>1. CASE n = 1
    BY <1>8, <1>16, <2>1
  <2>2. CASE n # 1
    <3>1. n \in 2 .. Len(touched)
      BY <1>18, <2>2
    <3>2. PICK l \in 1 .. Len(recents) : touched[n] = recents[l]
      BY <1>14, <3>1
    <3> QED BY <1>11, <3>2
  <2> QED BY <2>1, <2>2
<1>20. ASSUME NEW i \in 1 .. Len(list), i \notin left \ {k}
       PROVE  \E n \in 1 .. Len(touched) : touched[n] = list[i]
  <2>1. CASE i = k
    BY <1>14, <1>16, <1>18, <2>1
  <2>2. CASE i # k
    <3>1. i \notin left
      BY <1>20, <2>2
    <3>2. PICK l \in 1 .. Len(recents) : recents[l] = list[i]
      BY <1>11, <3>1
    <3>3. list[i].path # path
      <4>1. i < k \/ k < i
        BY <1>1, <1>8, <2>2
      <4> QED BY <1>1, <1>7, <1>8, <4>1 DEF Distinct
    <3> QED BY <1>14, <1>15, <3>2, <3>3
  <2> QED BY <2>1, <2>2
<1>21. ASSUME NEW i \in 1 .. Len(list), NEW j \in left \ {k}, i \notin left \ {k}
       PROVE  list[i].at <= list[j].at
  <2>1. CASE i = k
    BY <1>6, <2>1
  <2>2. CASE i # k
    BY <1>11, <1>21, <2>2
  <2> QED BY <2>1, <2>2
<1> QED BY <1>3, <1>10, <1>14, <1>17, <1>18, <1>19, <1>20, <1>21 DEF ReplayedWell

LEMMA ReplayedUnfolds ==
  ASSUME NEW list, Len(list) \in Nat
  PROVE  /\ Replayed(list)[0] = [left |-> DOMAIN list, recents |-> <<>>]
         /\ \A n \in 1 .. Len(list) : Replayed(list)[n] = TouchOldest(list, Replayed(list)[n - 1])
<1> DEFINE start == [left |-> DOMAIN list, recents |-> <<>>]
           IsReplay(g, m) ==
             g = [n \in 0 .. m |-> IF n = 0 THEN start ELSE TouchOldest(list, g[n - 1])]
           Missing == {m \in 0 .. Len(list) : ~ \E g : IsReplay(g, m)}
<1>1. Missing = {}
  <2>1. SUFFICES ASSUME Missing # {} PROVE FALSE
    OBVIOUS
  <2>2. PICK m \in Missing : \A other \in Missing : m <= other
    <3>1. Missing \subseteq Nat
      OBVIOUS
    <3> HIDE DEF Missing
    <3> QED BY <2>1, <3>1, LeastNumber
  <2> HIDE DEF start
  <2>3. CASE m = 0
    <3>1. IsReplay([n \in 0 .. 0 |-> start], 0)
      OBVIOUS
    <3> QED BY <2>2, <2>3, <3>1
  <2>4. CASE m # 0
    <3>1. m - 1 \in 0 .. Len(list) /\ m - 1 \notin Missing
      BY <2>2, <2>4
    <3>2. PICK g : IsReplay(g, m - 1)
      BY <3>1
    <3> DEFINE h == [n \in 0 .. m |-> IF n = m THEN TouchOldest(list, g[m - 1]) ELSE g[n]]
    <3>3. \A n \in 0 .. m - 1 : h[n] = g[n]
      BY <2>2
    <3>4. \A n \in 0 .. m : h[n] = IF n = 0 THEN start ELSE TouchOldest(list, h[n - 1])
      <4>1. \A n \in 0 .. m - 1 : g[n] = IF n = 0 THEN start ELSE TouchOldest(list, g[n - 1])
        BY <3>2
      <4>2. h[m] = TouchOldest(list, h[m - 1])
        BY <2>2, <2>4, <3>3
      <4>3. \A n \in 1 .. m - 1 : h[n] = g[n] /\ h[n - 1] = g[n - 1]
        BY <2>2, <3>3
      <4> HIDE DEF h
      <4> QED BY <2>2, <2>4, <3>3, <4>1, <4>2, <4>3
    <3>5. IsReplay(h, m)
      BY <3>4
    <3> QED BY <2>2, <3>5
  <2> QED BY <2>3, <2>4
<1>2. PICK g : IsReplay(g, Len(list))
  <2>1. Len(list) \notin Missing
    BY <1>1
  <2> QED BY <2>1
<1>3. IsReplay(Replayed(list), Len(list))
  <2>1. Replayed(list) = CHOOSE f : IsReplay(f, Len(list))
    BY DEF Replayed
  <2> HIDE DEF IsReplay
  <2> QED BY <1>2, <2>1
<1> QED BY <1>3

\* What is loaded has the entries of the file, in an order of recents.
LEMMA FromEntriesIs ==
  ASSUME NEW list, IsList(list), NEW loaded, loaded = FromEntries(list)
  PROVE  /\ IsRecents(loaded)
         /\ \A n \in 1 .. Len(loaded) : \E i \in 1 .. Len(list) : loaded[n] = list[i]
         /\ \A i \in 1 .. Len(list) : \E n \in 1 .. Len(loaded) : loaded[n] = list[i]
<1> DEFINE Bad == {m \in 0 .. Len(list) : ~ ReplayedWell(list, Replayed(list)[m], m)}
<1>1. list \in Seq(Entries) /\ Len(list) \in Nat /\ DOMAIN list = 1 .. Len(list)
  BY LenProperties DEF IsList
<1>2. Bad = {}
  <2>1. SUFFICES ASSUME Bad # {} PROVE FALSE
    OBVIOUS
  <2>2. PICK m \in Bad : \A other \in Bad : m <= other
    <3>1. Bad \subseteq Nat
      OBVIOUS
    <3> HIDE DEF Bad
    <3> QED BY <2>1, <3>1, LeastNumber
  <2>3. m # 0
    <3>1. PICK start : start = Replayed(list)[0]
      OBVIOUS
    <3>2. start.left = 1 .. Len(list) /\ start.recents = <<>>
      <4>1. start = [left |-> DOMAIN list, recents |-> <<>>]
        BY <1>1, <3>1, ReplayedUnfolds
      <4> QED BY <1>1, <4>1
    <3>3. IsFiniteSet(1 .. Len(list)) /\ Cardinality(1 .. Len(list)) = Len(list)
      <4>1. IsFiniteSet(1 .. Len(list))
            /\ Cardinality(1 .. Len(list)) = IF 1 > Len(list) THEN 0 ELSE Len(list) - 1 + 1
        <5>1. 1 \in Int /\ Len(list) \in Int
          BY <1>1
        <5> QED BY <5>1, FS_Interval, Zenon
      <4> QED BY <1>1, <4>1
    <3>4. IsRecents(<<>>) /\ Len(<<>>) = 0
      BY SettingsAssumption, EmptySeq DEF IsRecents, Ordered
    <3>5. ReplayedWell(list, start, 0)
      BY <1>1, <3>2, <3>3, <3>4 DEF ReplayedWell
    <3> QED BY <2>2, <3>1, <3>5
  <2>4. m \in 1 .. Len(list) /\ m - 1 \in 0 .. Len(list) /\ m - 1 \notin Bad
    BY <1>1, <2>2, <2>3
  <2>5. PICK replay : replay = Replayed(list)[m - 1]
    OBVIOUS
  <2>6. ReplayedWell(list, replay, m - 1)
    BY <2>4, <2>5
  <2>7. Replayed(list)[m] = TouchOldest(list, replay)
    BY <1>1, <2>4, <2>5, ReplayedUnfolds
  <2>8. ReplayedWell(list, Replayed(list)[m], m)
    BY <2>4, <2>6, <2>7, ReplaysWell
  <2> QED BY <2>2, <2>8
<1>3. PICK replay : replay = Replayed(list)[Len(list)]
  OBVIOUS
<1>4. ReplayedWell(list, replay, Len(list))
  <2>1. Len(list) \in 0 .. Len(list) /\ Len(list) \notin Bad
    BY <1>1, <1>2
  <2> QED BY <1>3, <2>1
<1>5. loaded = replay.recents
  BY <1>3 DEF FromEntries
<1>6. replay.left = {}
  <2>1. IsFiniteSet(replay.left) /\ Cardinality(replay.left) = 0
    BY <1>1, <1>4 DEF ReplayedWell
  <2> QED BY <2>1, FS_EmptySet
<1> QED BY <1>4, <1>5, <1>6 DEF ReplayedWell

\* A list holds the repositories with a time, and those times.
Holds(list, times) ==
    /\ IsList(list)
    /\ \A n \in 1 .. Len(list) : times[list[n].path] = list[n].at
    /\ \A p \in Places : times[p] # 0 => \E n \in 1 .. Len(list) : list[n].path = p

Stored(content) == IF content.state = "whole" THEN content.value ELSE <<>>

LEMMA HoldsKeeps ==
  ASSUME NEW list, Holds(list, wanted.recents), Ordered(list)
  PROVE  KeepsRecents(list)
<1>1. /\ list \in Seq(Entries) /\ Len(list) \in Nat /\ DOMAIN list = 1 .. Len(list)
      /\ Len(list) <= MaxRecent /\ Ordered(list)
  BY LenProperties DEF Holds, IsList
<1>2. \A n \in 1 .. Len(list) : list[n].path \in Places /\ list[n].at # 0
  BY <1>1, AreEntries
<1>3. {<<list[i].path, list[i].at>> : i \in DOMAIN list} =
          {<<p, wanted.recents[p]>> : p \in {q \in Places : wanted.recents[q] # 0}}
  <2>1. ASSUME NEW i \in 1 .. Len(list)
        PROVE  /\ list[i].path \in {q \in Places : wanted.recents[q] # 0}
               /\ wanted.recents[list[i].path] = list[i].at
    BY <1>2 DEF Holds
  <2>2. ASSUME NEW p \in {q \in Places : wanted.recents[q] # 0}
        PROVE  \E i \in 1 .. Len(list) : list[i].path = p /\ list[i].at = wanted.recents[p]
    BY DEF Holds
  <2> QED BY <1>1, <2>1, <2>2
<1> QED BY <1>1, <1>3 DEF KeepsRecents, Ordered

LEMMA LoadedHolds ==
  ASSUME NEW content, NEW times, Holds(Stored(content), times),
         content.state \in {"missing", "whole"}
  PROVE  Holds(LoadedRecents(content), times) /\ Ordered(LoadedRecents(content))
<1>1. CASE content.state = "missing"
  BY <1>1, EmptySeq DEF Stored, LoadedRecents, Ordered
<1>2. CASE content.state = "whole"
  <2>1. PICK list : list = content.value
    OBVIOUS
  <2>2. Holds(list, times)
    BY <1>2, <2>1 DEF Stored
  <2>3. PICK loaded : loaded = FromEntries(list)
    OBVIOUS
  <2>4. /\ IsRecents(loaded)
        /\ \A n \in 1 .. Len(loaded) : \E i \in 1 .. Len(list) : loaded[n] = list[i]
        /\ \A i \in 1 .. Len(list) : \E n \in 1 .. Len(loaded) : loaded[n] = list[i]
    <3>1. IsList(list)
      BY <2>2 DEF Holds
    <3> QED BY <2>3, <3>1, FromEntriesIs
  <2>5. /\ \A i \in 1 .. Len(list) : times[list[i].path] = list[i].at
        /\ \A p \in Places : times[p] # 0 => \E i \in 1 .. Len(list) : list[i].path = p
    BY <2>2 DEF Holds
  <2>6. \A n \in 1 .. Len(loaded) : times[loaded[n].path] = loaded[n].at
    BY <2>4, <2>5
  <2>7. ASSUME NEW p \in Places, times[p] # 0 PROVE \E n \in 1 .. Len(loaded) : loaded[n].path = p
    <3>1. PICK i \in 1 .. Len(list) : list[i].path = p
      BY <2>5, <2>7
    <3>2. PICK n \in 1 .. Len(loaded) : loaded[n] = list[i]
      BY <2>4, <3>1
    <3> QED BY <3>1, <3>2
  <2>8. IsList(loaded) /\ Ordered(loaded)
    BY <2>4 DEF IsRecents, IsList, Ordered, Distinct
  <2>9. Holds(loaded, times)
    BY <2>6, <2>7, <2>8 DEF Holds
  <2> QED BY <1>2, <2>1, <2>3, <2>8, <2>9 DEF LoadedRecents
<1> QED BY <1>1, <1>2

\* The times that are wanted once a repository was recorded, or forgotten.
Recorded(times, path, at, list) ==
    LET opened == [times EXCEPT ![path] = at]
        Left(p) == /\ Len(list) = MaxRecent
                   /\ \A i \in DOMAIN list :
                          list[i].path # p /\ (i = 1 \/ list[i].at >= opened[p])
    IN [p \in Places |-> IF Left(p) THEN 0 ELSE opened[p]]

LEMMA RecordedHolds ==
  ASSUME NEW times \in [Places -> Nat], NEW list, Holds(list, times), Ordered(list),
         NEW path \in Places, NEW at \in Nat \ {0},
         NEW new, new = Touch(list, path, at), NEW after, after = Recorded(times, path, at, new)
  PROVE  after \in [Places -> Nat] /\ Holds(new, after)
<1>1. list \in Seq(Entries) /\ IsRecents(list) /\ Len(list) \in Nat
  BY LenProperties DEF Holds, IsList, IsRecents
<1>2. \A i \in 1 .. Len(list) : list[i].path \in Places /\ list[i].at = times[list[i].path]
  BY <1>1, AreEntries DEF Holds
<1>3. /\ IsList(new) /\ Len(new) \in 1 .. Len(list) + 1
      /\ new[1].path = path /\ new[1].at = at
      /\ \A n \in 2 .. Len(new) : \E i \in 1 .. Len(list) : new[n] = list[i] /\ list[i].path # path
      /\ \A i \in 1 .. Len(list) : list[i].path # path =>
                \/ \E n \in 1 .. Len(new) : new[n] = list[i]
                \/ /\ Len(new) = MaxRecent
                   /\ \A n \in 1 .. Len(new) :
                          new[n].path # list[i].path /\ (n = 1 \/ new[n].at >= list[i].at)
  <2>1. TouchedWell(list, path, at, new)
    BY <1>1, TouchIs
  <2> QED BY <2>1 DEF TouchedWell
<1>4. Len(new) \in Nat /\ Len(new) >= 1 /\ DOMAIN new = 1 .. Len(new)
  BY <1>1, <1>3, LenProperties DEF IsList
<1>5. PICK opened : opened = [times EXCEPT ![path] = at]
  OBVIOUS
<1>6. /\ opened \in [Places -> Nat] /\ opened[path] = at
      /\ \A p \in Places : p # path => opened[p] = times[p]
  BY <1>5
<1>7. \A p \in Places :
          after[p] = IF /\ Len(new) = MaxRecent
                        /\ \A i \in 1 .. Len(new) :
                               new[i].path # p /\ (i = 1 \/ new[i].at >= opened[p])
                     THEN 0 ELSE opened[p]
  BY <1>4, <1>5 DEF Recorded
<1>8. after \in [Places -> Nat]
  <2>1. after = [p \in Places |-> after[p]]
    BY DEF Recorded
  <2>2. \A p \in Places : after[p] \in Nat
    <3>1. \A p \in Places : opened[p] \in Nat
      BY <1>6
    <3>2. \A p \in Places : after[p] \in {0, opened[p]}
      BY <1>7
    <3> QED BY <3>1, <3>2
  <2> QED BY <2>1, <2>2
<1>9. ASSUME NEW n \in 1 .. Len(new)
      PROVE  new[n].path \in Places /\ after[new[n].path] = new[n].at
  <2>1. /\ new[n].path \in Places /\ opened[new[n].path] = new[n].at
    <3>1. CASE n = 1
      BY <1>3, <1>6, <3>1
    <3>2. CASE n # 1
      <4>1. n \in 2 .. Len(new)
        BY <1>4, <3>2
      <4>2. PICK i \in 1 .. Len(list) : new[n] = list[i] /\ list[i].path # path
        BY <1>3, <4>1
      <4> QED BY <1>2, <1>6, <4>2
    <3> QED BY <3>1, <3>2
  <2> QED BY <1>7, <2>1
<1>10. ASSUME NEW p \in Places, after[p] # 0
       PROVE  \E n \in 1 .. Len(new) : new[n].path = p
  <2>1. CASE p = path
    BY <1>3, <1>4, <2>1
  <2>2. CASE p # path
    <3>1. after[p] = opened[p] /\ opened[p] = times[p]
      BY <1>6, <1>7, <1>10, <2>2
    <3>2. PICK i \in 1 .. Len(list) : list[i].path = p
      BY <1>10, <3>1 DEF Holds
    <3>3. list[i].at = opened[p]
      BY <1>2, <3>1, <3>2
    <3>4. CASE \E n \in 1 .. Len(new) : new[n] = list[i]
      BY <3>2, <3>4
    <3>5. CASE ~ \E n \in 1 .. Len(new) : new[n] = list[i]
      <4>1. /\ Len(new) = MaxRecent
            /\ \A n \in 1 .. Len(new) :
                   new[n].path # p /\ (n = 1 \/ new[n].at >= opened[p])
        BY <1>3, <2>2, <3>2, <3>3, <3>5
      <4> QED BY <1>7, <1>10, <4>1
    <3> QED BY <3>4, <3>5
  <2> QED BY <2>1, <2>2
<1> QED BY <1>3, <1>8, <1>9, <1>10 DEF Holds

LEMMA ForgottenHolds ==
  ASSUME NEW times \in [Places -> Nat], NEW list, Holds(list, times), Ordered(list),
         NEW path \in Places,
         NEW new, new = Without(list, path), NEW after, after = [times EXCEPT ![path] = 0]
  PROVE  Holds(new, after)
<1>1. /\ list \in Seq(Entries) /\ Ordered(list) /\ Len(list) \in Nat /\ Len(list) <= MaxRecent
  BY LenProperties DEF Holds, IsList
<1>2. RetainedWell(list, path, new, Len(list))
  BY <1>1, WithoutIs
<1>3. IsList(new)
  <2>1. new \in Seq(Entries) /\ Len(new) <= Len(list) /\ Distinct(new) /\ Len(new) \in Nat
    BY <1>2, LenProperties DEF RetainedWell, Ordered, Distinct
  <2>2. MaxRecent \in Nat
    BY SettingsAssumption
  <2> QED BY <1>1, <2>1, <2>2 DEF IsList
<1>4. \A i \in 1 .. Len(list) : list[i].path \in Places
  BY <1>1, AreEntries
<1>5. after[path] = 0 /\ \A p \in Places : p # path => after[p] = times[p]
  OBVIOUS
<1>6. ASSUME NEW n \in 1 .. Len(new) PROVE after[new[n].path] = new[n].at
  <2>1. PICK i \in 1 .. Len(list) : new[n] = list[i] /\ list[i].path # path
    BY <1>2 DEF RetainedWell
  <2> QED BY <1>4, <1>5, <2>1 DEF Holds
<1>7. ASSUME NEW p \in Places, after[p] # 0 PROVE \E n \in 1 .. Len(new) : new[n].path = p
  <2>1. p # path /\ times[p] # 0
    BY <1>5, <1>7
  <2>2. PICK i \in 1 .. Len(list) : list[i].path = p
    BY <2>1 DEF Holds
  <2>3. PICK n \in 1 .. Len(new) : new[n] = list[i]
    BY <1>2, <2>1, <2>2 DEF RetainedWell
  <2> QED BY <2>2, <2>3
<1> QED BY <1>3, <1>6, <1>7 DEF Holds

RecentsShape ==
    /\ clock \in Nat \ {0} /\ wanted.recents \in [Places -> Nat]
    /\ \A c \in Commands : job[c].name \in OnRecents =>
           job[c].arg \in Places /\ job[c].at \in Nat \ {0}

\* What a command on the recents is about to save.
SavesRecents(j, times) ==
    \E list : /\ Holds(list, times) /\ Ordered(list)
              /\ j.value = IF j.name = "record" THEN Touch(list, j.arg, j.at)
                           ELSE Without(list, j.arg)

RecentsJob(j, times) == j.step = "save" => SavesRecents(j, times)

RecentsHold ==
    "recents" \notin disturbed =>
        /\ file.recents.state \in {"missing", "whole"}
        /\ Holds(Stored(file.recents), wanted.recents)
        /\ \A c, d \in Commands :
               job[c].name \in OnRecents /\ job[d].name \in OnRecents => c = d
        /\ \A c \in Commands :
               job[c].name \in OnRecents => RecentsJob(job[c], wanted.recents)

RecentsInv == RecentsShape /\ RecentsHold

\* A step that saves no recents.
LEMMA RecentsKept ==
  ASSUME RecentsInv, wanted'.recents = wanted.recents, clock' \in Nat \ {0},
         disturbed \subseteq disturbed',
         "recents" \notin disturbed' => file'.recents = file.recents,
         \A d \in Commands : job'[d].name \in OnRecents =>
            \/ job'[d] = job[d]
            \/ /\ job'[d].arg \in Places /\ job'[d].at \in Nat \ {0}
               /\ "recents" \notin disturbed' => RecentsJob(job'[d], wanted.recents),
         "recents" \notin disturbed' =>
            \A c, d \in Commands : job'[c].name \in OnRecents /\ job'[d].name \in OnRecents => c = d
  PROVE  RecentsInv'
<1>1. RecentsShape'
  <2>1. ASSUME NEW d \in Commands, job'[d].name \in OnRecents
        PROVE  job'[d].arg \in Places /\ job'[d].at \in Nat \ {0}
    BY <2>1 DEF RecentsInv, RecentsShape
  <2> QED BY <2>1 DEF RecentsInv, RecentsShape
<1>2. ASSUME "recents" \notin disturbed'
      PROVE  /\ file'.recents.state \in {"missing", "whole"}
             /\ Holds(Stored(file'.recents), wanted'.recents)
             /\ \A c \in Commands :
                    job'[c].name \in OnRecents => RecentsJob(job'[c], wanted'.recents)
  <2>1. "recents" \notin disturbed /\ file'.recents = file.recents
    BY <1>2
  <2>2. ASSUME NEW c \in Commands, job'[c].name \in OnRecents
        PROVE  RecentsJob(job'[c], wanted'.recents)
    BY <1>2, <2>1, <2>2 DEF RecentsInv, RecentsHold
  <2> QED BY <2>1, <2>2 DEF RecentsInv, RecentsHold
<1>3. RecentsHold'
  <2>1. Stored(file.recents)' = Stored(file'.recents)
    OBVIOUS
  <2>2. \A c \in Commands : RecentsJob(job'[c], wanted'.recents) = RecentsJob(job[c], wanted.recents)'
    OBVIOUS
  <2>3. Holds(Stored(file.recents), wanted.recents)' = Holds(Stored(file'.recents), wanted'.recents)
    OBVIOUS
  <2> QED BY <1>2, <2>1, <2>2, <2>3 DEF RecentsHold
<1> QED BY <1>1, <1>3 DEF RecentsInv

\* A step of one thread saves no recents.
OthersSaved ==
    /\ wanted'.recents = wanted.recents /\ clock' = clock /\ disturbed \subseteq disturbed'
    /\ "recents" \notin disturbed' => file'.recents = file.recents

LEMMA RecentsMove ==
  ASSUME SettingsInv, RecentsInv, NEW c \in Commands, NEW j, job' = [job EXCEPT ![c] = j],
         OthersSaved,
         j.name \in OnRecents =>
            /\ j.arg \in Places /\ j.at \in Nat \ {0}
            /\ "recents" \notin disturbed' =>
                  /\ RecentsJob(j, wanted.recents)
                  /\ \A d \in Commands : job[d].name \in OnRecents => d = c
  PROVE  RecentsInv'
<1>1. /\ job'[c] = j /\ \A d \in Commands : d # c => job'[d] = job[d]
      /\ clock' \in Nat \ {0}
  BY DEF SettingsInv, SettingsShape, RecentsInv, RecentsShape, OthersSaved
<1>2. ASSUME NEW d \in Commands, job'[d].name \in OnRecents
      PROVE  \/ job'[d] = job[d]
             \/ /\ job'[d].arg \in Places /\ job'[d].at \in Nat \ {0}
                /\ "recents" \notin disturbed' => RecentsJob(job'[d], wanted.recents)
  <2>1. CASE d = c
    BY <1>1, <1>2, <2>1 DEF OthersSaved
  <2> QED BY <1>1, <2>1
<1>3. ASSUME "recents" \notin disturbed', NEW b \in Commands, NEW d \in Commands,
             job'[b].name \in OnRecents, job'[d].name \in OnRecents
      PROVE  b = d
  <2>1. CASE j.name \in OnRecents
    BY <1>1, <1>3, <2>1
  <2>2. CASE j.name \notin OnRecents
    <3>1. b # c /\ d # c /\ "recents" \notin disturbed
      BY <1>1, <1>3, <2>2 DEF OthersSaved
    <3> QED BY <1>1, <1>3, <3>1 DEF RecentsInv, RecentsHold
  <2> QED BY <2>1, <2>2
<1> QED BY <1>1, <1>2, <1>3, RecentsKept DEF OthersSaved

LEMMA RecentsAsked ==
  ASSUME SettingsInv, RecentsInv, NEW c \in Commands, NEW name, NEW arg, Asks(c, name, arg),
         name \in OnRecents => arg \in Places
  PROVE  RecentsInv'
<1>1. PICK j : j = [name |-> name, arg |-> arg, step |-> "load", at |-> clock, value |-> Unset]
  OBVIOUS
<1>2. j.name = name /\ j.arg = arg /\ j.at = clock /\ j.step = "load"
  BY <1>1
<1>3. job' = [job EXCEPT ![c] = j] /\ OthersSaved
  BY <1>1 DEF Asks, OthersSaved
<1>4. clock \in Nat \ {0}
  BY DEF RecentsInv, RecentsShape
<1>5. ASSUME "recents" \notin disturbed', name \in OnRecents
      PROVE  /\ RecentsJob(j, wanted.recents)
             /\ \A d \in Commands : job[d].name \in OnRecents => d = c
  <2>1. RecentsJob(j, wanted.recents)
    BY <1>2 DEF RecentsJob
  <2>2. ASSUME NEW d \in Commands, job[d].name \in OnRecents PROVE FALSE
    <3>1. job[d] # NoJob
      BY <2>2, NoJobShape DEF OnRecents
    <3>2. StoreOf(job[d].name) = "recents" /\ StoreOf(name) = "recents"
      BY <1>5, <2>2, StoreOfName
    <3> QED BY <1>5, <3>1, <3>2 DEF Asks, Running
  <2> QED BY <2>1, <2>2
<1>6. j.name \in OnRecents =>
          /\ j.arg \in Places /\ j.at \in Nat \ {0}
          /\ "recents" \notin disturbed' =>
                /\ RecentsJob(j, wanted.recents)
                /\ \A d \in Commands : job[d].name \in OnRecents => d = c
  BY <1>2, <1>4, <1>5
<1> QED BY <1>3, <1>6, RecentsMove

LEMMA RecentsEnded ==
  ASSUME SettingsInv, RecentsInv, NEW c \in Commands, Ends(c), OthersSaved
  PROVE  RecentsInv'
<1>1. NoJob.name \notin OnRecents
  BY DEF NoJob, OnRecents
<1>2. job' = [job EXCEPT ![c] = NoJob]
  BY DEF Ends
<1> QED BY <1>1, <1>2, RecentsMove

\* What a command on the preferences does next is nothing to the recents.
LEMMA RecentsElsewhere ==
  ASSUME SettingsInv, RecentsInv, NEW c \in Commands, NEW step, NEW value,
         Continues(c, step, value), job[c].name \in OnPreferences, OthersSaved
  PROVE  RecentsInv'
<1>1. PICK j : j = Continued(job[c], step, value)
  OBVIOUS
<1>2. job' = [job EXCEPT ![c] = j]
  BY <1>1 DEF Continues, Continued, SettingsInv, SettingsShape
<1>3. j.name = job[c].name
  <2>1. JobShape(job[c])
    BY DEF SettingsInv, SettingsShape
  <2> QED BY <1>1, <2>1, JobContinues
<1>4. j.name \notin OnRecents
  BY <1>3 DEF OnPreferences, OnRecents, Checks
<1> QED BY <1>2, <1>4, RecentsMove

\* What a command is about to save is what is wanted, changed as it asks.
LEMMA RecentsLoaded ==
  ASSUME SettingsInv, RecentsInv, NEW c \in Commands, LoadRecents(c)
  PROVE  RecentsInv'
<1>1. /\ JobShape(job[c]) /\ job[c].name \in OnRecents /\ OthersSaved /\ disturbed' = disturbed
  BY DEF LoadRecents, OnlyJobs, OnRecents, OthersSaved, SettingsInv, SettingsShape
<1>2. CASE Ends(c)
  BY <1>1, <1>2, RecentsEnded
<1>3. CASE ~ Ends(c)
  <2>1. PICK loaded : loaded = LoadedRecents(file.recents)
    OBVIOUS
  <2>2. PICK value : value = IF job[c].name = "record" THEN Touch(loaded, job[c].arg, job[c].at)
                             ELSE Without(loaded, job[c].arg)
    OBVIOUS
  <2>3. Continues(c, "save", value)
    BY <1>3, <2>1, <2>2 DEF LoadRecents
  <2>4. PICK j : j = Continued(job[c], "save", value)
    OBVIOUS
  <2>5. job' = [job EXCEPT ![c] = j]
    BY <2>3, <2>4 DEF Continues, Continued, SettingsInv, SettingsShape
  <2>6. /\ j.name = job[c].name /\ j.arg = job[c].arg /\ j.at = job[c].at /\ j.value = value
    BY <1>1, <2>4, JobContinues
  <2>7. j.arg \in Places /\ j.at \in Nat \ {0}
    BY <1>1, <2>6 DEF RecentsInv, RecentsShape
  <2>8. ASSUME "recents" \notin disturbed
        PROVE  /\ RecentsJob(j, wanted.recents)
               /\ \A d \in Commands : job[d].name \in OnRecents => d = c
    <3>1. /\ file.recents.state \in {"missing", "whole"}
          /\ Holds(Stored(file.recents), wanted.recents)
          /\ RecentsJob(job[c], wanted.recents)
          /\ \A d \in Commands : job[d].name \in OnRecents => d = c
      BY <1>1, <2>8 DEF RecentsInv, RecentsHold
    <3>2. Holds(loaded, wanted.recents) /\ Ordered(loaded)
      BY <2>1, <3>1, LoadedHolds
    <3>3. SavesRecents(j, wanted.recents)
      BY <2>2, <2>6, <3>2 DEF SavesRecents
    <3>4. RecentsJob(j, wanted.recents)
      BY <3>3 DEF RecentsJob
    <3> QED BY <3>1, <3>4
  <2> QED BY <1>1, <2>5, <2>7, <2>8, RecentsMove
<1> QED BY <1>2, <1>3

\* What is saved elsewhere is no recent repository.
LEMMA SavedElsewhere ==
  ASSUME SettingsInv, NEW c \in Commands, NEW value, Saved(c, value),
         job[c].name \in OnPreferences \cup OnKeys
  PROVE  OthersSaved
<1>1. StoreOf(job[c].name) # "recents"
  BY StoreOfName
<1>2. file'.recents = file.recents
  BY <1>1 DEF Saved, SettingsInv, SettingsShape, Stores
<1>3. wanted'.recents = wanted.recents
  <2>1. wanted' = Wanted(c, value)
    BY DEF Saved
  <2>2. CASE job[c].name = "set theme"
    BY <2>1, <2>2 DEF Wanted, SettingsInv, SettingsShape, Checks
  <2>3. CASE job[c].name = "set updates"
    BY <2>1, <2>3 DEF Wanted, SettingsInv, SettingsShape, Checks
  <2>4. CASE job[c].name \in Checks
    BY <2>1, <2>4 DEF Wanted, SettingsInv, SettingsShape, Checks
  <2>5. CASE job[c].name = "override"
    BY <2>1, <2>5 DEF Wanted, SettingsInv, SettingsShape, Checks
  <2>6. CASE job[c].name = "reset all"
    BY <2>1, <2>6 DEF Wanted, SettingsInv, SettingsShape, Checks
  <2> QED BY <2>2, <2>3, <2>4, <2>5, <2>6 DEF OnPreferences, OnKeys
<1> QED BY <1>2, <1>3 DEF Saved, OthersSaved, SettingsInv, SettingsShape

\* What was recorded, or forgotten, is in the file and wanted.
LEMMA RecentsSaved ==
  ASSUME SettingsInv, RecentsInv, NEW c \in Commands, Save(c), job[c].name \in OnRecents
  PROVE  RecentsInv'
<1>1. /\ JobShape(job[c]) /\ job[c].step = "save" /\ Saved(c, job[c].value) /\ Ends(c)
      /\ disturbed' = disturbed /\ clock' = clock
  BY DEF Save, Saved, OnRecents, Checks, SettingsInv, SettingsShape
<1>2. PICK value, arg, at : value = job[c].value /\ arg = job[c].arg /\ at = job[c].at
  OBVIOUS
<1>3. arg \in Places /\ at \in Nat \ {0}
  BY <1>2 DEF RecentsInv, RecentsShape
<1>4. PICK times : times = wanted.recents
  OBVIOUS
<1>5. times \in [Places -> Nat] /\ clock \in Nat \ {0}
  BY <1>4 DEF RecentsInv, RecentsShape
<1>6. job'[c] = NoJob /\ \A d \in Commands : d # c => job'[d] = job[d]
  BY <1>1 DEF Ends, SettingsInv, SettingsShape
<1>7. NoJob.name \notin OnRecents
  BY DEF NoJob, OnRecents
<1>8. file'.recents = Whole(value)
  <2>1. StoreOf(job[c].name) = "recents"
    BY StoreOfName
  <2> QED BY <1>1, <1>2, <2>1 DEF Saved, SettingsInv, SettingsShape, Stores
<1>9. wanted' = Wanted(c, value)
  BY <1>1, <1>2 DEF Saved
<1>10. job[c].name = "record" => wanted'.recents = Recorded(times, arg, at, value)
  <2> SUFFICES ASSUME job[c].name = "record"
               PROVE  wanted'.recents = Recorded(times, arg, at, value)
    OBVIOUS
  <2>1. wanted' = [wanted EXCEPT !.recents = Recorded(times, arg, at, value)]
    BY <1>2, <1>4, <1>9 DEF Wanted, Recorded, Checks
  <2> QED BY <2>1 DEF SettingsInv, SettingsShape
<1>11. job[c].name = "forget" => wanted'.recents = [times EXCEPT ![arg] = 0]
  <2> SUFFICES ASSUME job[c].name = "forget"
               PROVE  wanted'.recents = [times EXCEPT ![arg] = 0]
    OBVIOUS
  <2>1. wanted' = [wanted EXCEPT !.recents[arg] = 0]
    BY <1>2, <1>9 DEF Wanted, Checks
  <2> QED BY <1>4, <2>1 DEF SettingsInv, SettingsShape
<1>12. wanted'.recents \in [Places -> Nat]
  <2>1. CASE job[c].name = "record"
    <3>1. PICK opened : opened = [times EXCEPT ![arg] = at]
      OBVIOUS
    <3>2. \A p \in Places : opened[p] \in Nat
      BY <1>3, <1>5, <3>1
    <3>3. PICK after : after = Recorded(times, arg, at, value)
      OBVIOUS
    <3>4. after = [p \in Places |-> after[p]]
      BY <3>3 DEF Recorded
    <3>5. \A p \in Places : after[p] \in {0, opened[p]}
      BY <3>1, <3>3 DEF Recorded
    <3>6. after \in [Places -> Nat]
      BY <3>2, <3>4, <3>5
    <3> QED BY <1>10, <2>1, <3>3, <3>6
  <2>2. CASE job[c].name = "forget"
    <3>1. PICK after : after = [times EXCEPT ![arg] = 0]
      OBVIOUS
    <3>2. after \in [Places -> Nat]
      BY <1>5, <3>1
    <3> QED BY <1>11, <2>2, <3>1, <3>2
  <2> QED BY <2>1, <2>2 DEF OnRecents
<1>13. RecentsShape'
  <2>1. ASSUME NEW d \in Commands, job'[d].name \in OnRecents
        PROVE  job'[d].arg \in Places /\ job'[d].at \in Nat \ {0}
    BY <1>1, <1>6, <1>7, <2>1 DEF RecentsInv, RecentsShape
  <2> QED BY <1>1, <1>5, <1>12, <2>1 DEF RecentsShape
<1>14. ASSUME "recents" \notin disturbed
       PROVE  /\ Holds(value, wanted'.recents)
              /\ \A d \in Commands : job'[d].name \notin OnRecents
  <2>1. /\ RecentsJob(job[c], times)
        /\ \A d \in Commands : job[d].name \in OnRecents => d = c
    BY <1>4, <1>14 DEF RecentsInv, RecentsHold
  <2>2. PICK list : /\ Holds(list, times) /\ Ordered(list)
                    /\ value = IF job[c].name = "record" THEN Touch(list, arg, at)
                               ELSE Without(list, arg)
    BY <1>1, <1>2, <2>1 DEF RecentsJob, SavesRecents
  <2>3. CASE job[c].name = "record"
    <3>1. value = Touch(list, arg, at)
      BY <2>2, <2>3
    <3>2. PICK after : after = Recorded(times, arg, at, value)
      OBVIOUS
    <3>3. Holds(value, after)
      BY <1>3, <1>5, <2>2, <3>1, <3>2, RecordedHolds
    <3> QED BY <1>6, <1>7, <1>10, <2>1, <2>3, <3>2, <3>3
  <2>4. CASE job[c].name = "forget"
    <3>1. value = Without(list, arg)
      BY <2>2, <2>4
    <3>2. PICK after : after = [times EXCEPT ![arg] = 0]
      OBVIOUS
    <3>3. Holds(value, after)
      BY <1>3, <1>5, <2>2, <3>1, <3>2, ForgottenHolds
    <3> QED BY <1>6, <1>7, <1>11, <2>1, <2>4, <3>2, <3>3
  <2> QED BY <2>3, <2>4 DEF OnRecents
<1>15. Stored(file'.recents) = value /\ file'.recents.state = "whole"
  BY <1>8 DEF Stored, Whole
<1>16. RecentsHold'
  <2>1. Stored(file.recents)' = Stored(file'.recents)
    OBVIOUS
  <2>2. Holds(Stored(file.recents), wanted.recents)' = Holds(Stored(file'.recents), wanted'.recents)
    OBVIOUS
  <2> QED BY <1>1, <1>14, <1>15, <2>1, <2>2 DEF RecentsHold
<1> QED BY <1>13, <1>16 DEF RecentsInv

LEMMA RecentsTorn ==
  ASSUME SettingsInv, FilesKept, UNCHANGED <<wanted, clock>>
  PROVE  OthersSaved
BY DEF FilesKept, OthersSaved, Stores

\* A save fails: what was torn is disturbed.
LEMMA RecentsFailed ==
  ASSUME SettingsInv, RecentsInv, NEW c \in Commands, SaveFails(c)
  PROVE  RecentsInv'
<1>1. JobShape(job[c])
  BY DEF SettingsInv, SettingsShape
<1>2. UNCHANGED <<wanted, clock>> /\ Saves(c)
  BY DEF SaveFails
<1>3. job[c].name # "none"
  BY <1>1, <1>2, StoreOfName DEF Saves, JobShape
<1>4. FilesKept
  <2>1. CASE UNCHANGED <<file, disturbed>>
    BY <2>1 DEF FilesKept, SettingsInv, SettingsShape
  <2>2. CASE Tears(c)
    BY <1>2, <1>3, <2>2, TearsDisturb
  <2> QED BY <2>1, <2>2 DEF SaveFails
<1>5. OthersSaved
  BY <1>2, <1>4, RecentsTorn
<1>6. CASE Ends(c)
  BY <1>5, <1>6, RecentsEnded
<1>7. CASE Continues(c, "request", Unset) /\ job[c].name \in Checks
  BY <1>5, <1>7, RecentsElsewhere DEF OnPreferences
<1> QED BY <1>6, <1>7 DEF SaveFails

\* The program ends: no command survives it.
LEMMA RecentsQuit == ASSUME SettingsInv, RecentsInv, Quit PROVE RecentsInv'
<1>1. job' = [d \in Commands |-> NoJob] /\ UNCHANGED <<wanted, clock>>
  BY DEF Quit
<1>2. FilesKept
  <2>1. CASE UNCHANGED <<file, disturbed>>
    BY <2>1 DEF FilesKept, SettingsInv, SettingsShape
  <2>2. ASSUME NEW c \in Running, Saves(c), Tears(c) PROVE FilesKept
    <3>1. JobShape(job[c]) /\ c \in Commands
      BY <2>2 DEF Running, SettingsInv, SettingsShape
    <3>2. job[c].name # "none"
      BY <2>2, <3>1, StoreOfName DEF Saves, JobShape
    <3> QED BY <1>1, <2>2, <3>1, <3>2, TearsDisturb
  <2> QED BY <2>1, <2>2 DEF Quit
<1>3. OthersSaved /\ clock \in Nat \ {0}
  BY <1>1, <1>2, RecentsTorn DEF RecentsInv, RecentsShape
<1>4. \A d \in Commands : job'[d].name \notin OnRecents
  BY <1>1 DEF NoJob, OnRecents
<1> QED BY <1>1, <1>3, <1>4, RecentsKept DEF OthersSaved

LEMMA RecentsStart == SettingsInit => RecentsInv
<1> SUFFICES ASSUME SettingsInit PROVE RecentsInv
  OBVIOUS
<1>1. \A c \in Commands : job[c].name \notin OnRecents
  BY DEF SettingsInit, NoJob, OnRecents
<1>2. wanted.recents = [p \in Places |-> 0] /\ clock = 1
  BY DEF SettingsInit
<1>3. file.recents.state = "missing" /\ Stored(file.recents) = <<>>
  BY DEF SettingsInit, Stores, Damaged, Stored
<1>4. Holds(<<>>, wanted.recents)
  <2>1. IsList(<<>>) /\ Len(<<>>) = 0
    BY SettingsAssumption, EmptySeq DEF IsList, Distinct
  <2> QED BY <1>2, <2>1 DEF Holds
<1> QED BY <1>1, <1>2, <1>3, <1>4 DEF RecentsInv, RecentsShape, RecentsHold

LEMMA RecentsStep ==
  SettingsInv /\ RecentsInv /\ [SettingsNext]_settingsVars => RecentsInv'
<1> SUFFICES ASSUME SettingsInv, RecentsInv, [SettingsNext]_settingsVars PROVE RecentsInv'
  OBVIOUS
<1>1. CASE UNCHANGED settingsVars \/ Tick
  <2>1. UNCHANGED <<file, job, wanted, disturbed>> /\ clock' \in Nat \ {0}
    <3>1. \A n \in 1 .. MaxClock : n \in Nat \ {0}
      BY SettingsAssumption
    <3> QED BY <1>1, <3>1 DEF settingsVars, Tick, RecentsInv, RecentsShape
  <2>2. "recents" \notin disturbed' =>
            \A b, d \in Commands : job'[b].name \in OnRecents /\ job'[d].name \in OnRecents => b = d
    BY <2>1 DEF RecentsInv, RecentsHold
  <2> QED BY <2>1, <2>2, RecentsKept
<1>2. CASE Quit
  BY <1>2, RecentsQuit
<1>3. ASSUME NEW c \in Commands,
             \/ CallSetTheme(c) \/ CallSetCheckForUpdates(c) \/ CallCheckForUpdate(c)
             \/ CallOpenRepository(c) \/ CallForget(c) \/ CallSetOverride(c) \/ CallResetAll(c)
      PROVE  RecentsInv'
  <2>1. CASE CallOpenRepository(c) \/ CallForget(c)
    BY <2>1, RecentsAsked DEF CallOpenRepository, CallForget
  <2>2. CASE ~ (CallOpenRepository(c) \/ CallForget(c))
    <3>1. PICK name \in OnPreferences \cup OnKeys : \E arg : Asks(c, name, arg)
      BY <1>3, <2>2 DEF CallSetTheme, CallSetCheckForUpdates, CallCheckForUpdate, CallSetOverride,
                        CallResetAll, OnPreferences, OnKeys
    <3>2. name \notin OnRecents
      BY DEF OnPreferences, OnKeys, OnRecents, Checks
    <3> QED BY <3>1, <3>2, RecentsAsked
  <2> QED BY <2>1, <2>2
<1>4. ASSUME NEW c \in Commands, LoadToSetTheme(c) \/ LoadToSetUpdates(c) \/ LoadToCheck(c)
      PROVE  RecentsInv'
  <2>1. OthersSaved /\ job[c].name \in OnPreferences
    BY <1>4 DEF LoadToSetTheme, LoadToSetUpdates, LoadToCheck, OnlyJobs, OthersSaved, Runs,
                OnPreferences
  <2>2. Ends(c) \/ \E value : Continues(c, "save", value)
    BY <1>4 DEF LoadToSetTheme, LoadToSetUpdates, LoadToCheck
  <2> QED BY <2>1, <2>2, RecentsEnded, RecentsElsewhere
<1>5. ASSUME NEW c \in Commands, LoadRecents(c) \/ SaveFails(c)
      PROVE  RecentsInv'
  BY <1>5, RecentsLoaded, RecentsFailed
<1>6. ASSUME NEW c \in Commands, Save(c) PROVE RecentsInv'
  <2>1. JobShape(job[c]) /\ job[c].step = "save" /\ Saved(c, job[c].value)
    BY <1>6 DEF Save, SettingsInv, SettingsShape
  <2>2. job[c].name \in OnPreferences \cup OnRecents
    BY <2>1 DEF JobShape
  <2>3. CASE job[c].name \in OnRecents
    BY <1>6, <2>3, RecentsSaved
  <2>4. CASE job[c].name \in OnPreferences
    <3>1. OthersSaved
      BY <2>1, <2>4, SavedElsewhere
    <3> QED BY <1>6, <2>4, <3>1, RecentsEnded, RecentsElsewhere DEF Save
  <2> QED BY <2>2, <2>3, <2>4
<1>7. ASSUME NEW c \in Commands, LatestRelease(c) PROVE RecentsInv'
  BY <1>7, RecentsEnded DEF LatestRelease, OnlyJobs, OthersSaved
<1>8. ASSUME NEW c \in Commands, ChangeOverrides(c) PROVE RecentsInv'
  <2>1. job[c].name \in OnKeys /\ Ends(c)
    BY <1>8 DEF ChangeOverrides, OnKeys
  <2>2. OthersSaved
    BY <1>8, <2>1, SavedElsewhere DEF ChangeOverrides
  <2> QED BY <2>1, <2>2, RecentsEnded
<1> QED BY <1>1, <1>2, <1>3, <1>4, <1>5, <1>6, <1>7, <1>8 DEF SettingsNext

\* The recent repositories in the file are those that were opened last.
THEOREM RecentsGuarded == SettingsSpec => []RecentsInv
BY RecentsStart, RecentsStep, PreferencesGuarded, PTL DEF SettingsSpec

\* The preferences, the recent repositories and the keybindings on disk are what
\* the commands that ended well asked for; the keybindings however the commands
\* overlap.
THEOREM FilesHold == SettingsSpec => []FilesHoldWhatWasAsked
<1>1. SettingsInv /\ RecentsInv => FilesHoldWhatWasAsked
  <2> SUFFICES ASSUME SettingsInv, RecentsInv, NEW s \in Stores, s \notin disturbed
               PROVE  HoldsWanted(s)
    BY DEF FilesHoldWhatWasAsked
  <2>1. CASE s = "recents"
    <3>1. PICK loaded : loaded = LoadedRecents(file.recents)
      OBVIOUS
    <3>2. Holds(loaded, wanted.recents) /\ Ordered(loaded)
      BY <2>1, <3>1, LoadedHolds DEF RecentsInv, RecentsHold
    <3> QED BY <2>1, <3>1, <3>2, HoldsKeeps DEF HoldsWanted
  <2>2. CASE s # "recents"
    BY <2>2 DEF SettingsInv, PreferencesInv, KeysInv, HoldsWanted, Stores
  <2> QED BY <2>1, <2>2
<1> QED BY <1>1, PreferencesGuarded, RecentsGuarded, PTL

-----------------------------------------------------------------------------
(* The stores of blame and diff among all others *)

Features == {"get_blame", "get_commit", "get_diff"}
Follows == {"get_repository_status", "detect_in_progress_operation", "list_branches", "conclude",
            "fetch", "pull", "push"}

IsRequest(c) ==
    /\ DOMAIN c = {"id", "name", "arg", "token", "then", "at", "value"}
    /\ c.then \in Seq(Follows)
    /\ c.name = "resolve_sync_target" => c.then \in {<<"fetch">>, <<"pull">>, <<"push">>}

\* A call of another store.
IsOther(c) == IsRequest(c) /\ c.name \notin Features

IsDescriptor(op) == op.name \in MutationNames /\ op.then \in Seq(Follows)

PromptShape ==
    /\ DOMAIN prompt = {"status", "current"}
    /\ prompt.status # "idle" => IsDescriptor(prompt.current)

BlameFields == {"file", "blame", "isLoading", "commit", "isLoadingCommit", "requestId"}
DiffFields == {"file", "diff", "isLoading", "failed", "requestId", "wanted"}
UiFields == {"blame", "diff", "search", "lists", "pulls", "patch", "amend", "staging", "merge",
             "branches", "reset", "sync", "status"}

StoresShape ==
    /\ DOMAIN ui = UiFields
    /\ DOMAIN ui.blame = BlameFields /\ ui.blame.requestId \in Nat
    /\ DOMAIN ui.diff = DiffFields /\ ui.diff.requestId \in Nat
    /\ \A c \in requests : IsRequest(c)
    /\ PromptShape

\* An answer is of what was asked for.
AnswersItsArgument(c) ==
    /\ c.at = "failed" => c.value = Null
    /\ c.at = "done" => c.value.of = c.arg
    /\ c.at \in {"sent", "done", "failed"}

\* A call with the present id of its store is about what that store has open.
BlameFits(c) ==
    /\ c.token \in Nat /\ c.token <= ui.blame.requestId
    /\ AnswersItsArgument(c)
    /\ c.token = ui.blame.requestId =>
           /\ ui.blame.file # Null
           /\ c.name = "get_blame" => c.arg = ui.blame.file
           /\ c.name = "get_commit" => c.arg.file = ui.blame.file

DiffFits(c) ==
    /\ c.token \in Nat /\ c.token <= ui.diff.requestId
    /\ AnswersItsArgument(c)
    /\ c.token = ui.diff.requestId => c.arg = ui.diff.wanted

BlameInv ==
    /\ \A c \in requests : c.name \in {"get_blame", "get_commit"} => BlameFits(c)
    /\ ui.blame.file = Null => ui.blame.blame = Null /\ ui.blame.commit = Null
    /\ ui.blame.blame # Null => ui.blame.blame.of = ui.blame.file
    /\ ui.blame.commit # Null => ui.blame.commit.of.file = ui.blame.file

DiffInv ==
    /\ \A c \in requests : c.name = "get_diff" => DiffFits(c)
    /\ ui.diff.diff # Null => ui.diff.diff.of = ui.diff.file
    /\ ui.diff.wanted # Null /\ ~ ui.diff.isLoading /\ ~ ui.diff.failed =>
           ui.diff.file = ui.diff.wanted

StoresInv == StoresShape /\ BlameInv /\ DiffInv

\* What does not concern blame and diff.
Elsewhere == DOMAIN ui' = UiFields /\ ui'.blame = ui.blame /\ ui'.diff = ui.diff

LEMMA ElsewhereKeeps ==
    ASSUME StoresInv, Elsewhere, PromptShape',
           \A c \in requests' : c \in requests \/ IsOther(c)
    PROVE  StoresInv'
<1>1. StoresShape'
  BY DEF StoresInv, StoresShape, Elsewhere, IsOther, PromptShape
<1>2. ASSUME NEW c \in requests', c.name \in {"get_blame", "get_commit"} PROVE BlameFits(c)'
  <2>1. BlameFits(c)
    BY <1>2 DEF StoresInv, BlameInv, IsOther, Features
  <2> QED BY <2>1 DEF BlameFits, Elsewhere
<1>3. ASSUME NEW c \in requests', c.name = "get_diff" PROVE DiffFits(c)'
  <2>1. DiffFits(c)
    BY <1>3 DEF StoresInv, DiffInv, IsOther, Features
  <2> QED BY <2>1 DEF DiffFits, Elsewhere
<1>4. BlameInv'
  BY <1>2 DEF StoresInv, BlameInv, Elsewhere
<1>5. DiffInv'
  BY <1>3 DEF StoresInv, DiffInv, Elsewhere
<1> QED BY <1>1, <1>4, <1>5 DEF StoresInv

LEMMA SequencesFollow ==
    /\ <<>> \in Seq(Follows) /\ <<"conclude">> \in Seq(Follows)
    /\ Status \in Seq(Follows) /\ StatusAndOperation \in Seq(Follows)
    /\ Relist \in Seq(Follows) /\ RelistAndStatus \in Seq(Follows)
BY DEF Follows, Status, StatusAndOperation, Relist, RelistAndStatus

LEMMA RequestIsRequest ==
    ASSUME NEW name, NEW arg, NEW token, NEW then \in Seq(Follows),
           name = "resolve_sync_target" => then \in {<<"fetch">>, <<"pull">>, <<"push">>}
    PROVE  /\ IsRequest(Request(name, arg, token, then))
           /\ Request(name, arg, token, then).name = name
BY DEF IsRequest, Request

\* A call of another store, or none.
LEMMA CallsKeep ==
    ASSUME StoresInv, Elsewhere,
           NoCall \/ \E name, arg, token : name \notin Features \cup {"resolve_sync_target"} /\ Calls(name, arg, token)
    PROVE  StoresInv'
<1>1. PromptShape'
  BY DEF NoCall, Calls, PromptShape, StoresInv, StoresShape
<1>2. ASSUME NEW c \in requests', c \notin requests PROVE IsOther(c)
  <2>1. PICK name, arg, token : name \notin Features \cup {"resolve_sync_target"} /\ Calls(name, arg, token)
    BY <1>2 DEF NoCall
  <2>2. c = Request(name, arg, token, <<>>)
    BY <1>2, <2>1 DEF Calls
  <2>3. name # "resolve_sync_target" /\ name \notin Features
    BY <2>1
  <2>4. IsRequest(Request(name, arg, token, <<>>)) /\ Request(name, arg, token, <<>>).name = name
    BY <2>3, RequestIsRequest, SequencesFollow
  <2> QED BY <2>2, <2>3, <2>4 DEF IsOther
<1> QED BY <1>1, <1>2, ElsewhereKeeps

LEMMA MutationIsNoFeature ==
    /\ MutationNames \cap Features = {} /\ Follows \cap Features = {}
    /\ "resolve_sync_target" \notin MutationNames \cup Follows
BY DEF MutationNames, Features, Follows

LEMMA UiAtRunElsewhere ==
    ASSUME StoresInv, NEW op, ui' = UiAtRun(op)
    PROVE  Elsewhere
BY DEF UiAtRun, Elsewhere, StoresInv, StoresShape, UiFields

\* An operation runs.
LEMMA RunsKeep ==
    ASSUME StoresInv, NEW op, IsDescriptor(op), NEW others, others \subseteq requests,
           RunsNow(op, others)
    PROVE  StoresInv'
<1>1. Elsewhere
  BY UiAtRunElsewhere DEF RunsNow
<1>2. PromptShape'
  BY DEF RunsNow, PromptShape
<1> DEFINE new == [Request(op.name, ArgumentOf(op), 0, op.then) EXCEPT !.id = asks']
<1>3. IsOther(new)
  BY MutationIsNoFeature DEF IsDescriptor, IsOther, IsRequest, Request
<1>4. requests' = others \cup {new}
  BY DEF RunsNow
<1> HIDE DEF new
<1> QED BY <1>1, <1>2, <1>3, <1>4, ElsewhereKeeps

LEMMA PromptsKeep ==
    ASSUME StoresInv, NEW op, IsDescriptor(op), Prompts(op)
    PROVE  StoresInv'
<1>1. CASE RunsNow(op, requests)
  BY <1>1, RunsKeep
<1>2. CASE /\ prompt' = [status |-> "confirming", current |-> op]
           /\ UNCHANGED <<ui, requests, repo, view>>
  <2>1. PromptShape' /\ Elsewhere
    BY <1>2 DEF PromptShape, Elsewhere, StoresInv, StoresShape
  <2> QED BY <1>2, <2>1, ElsewhereKeeps
<1> QED BY <1>1, <1>2 DEF Prompts

\* What a store goes on with is no call of blame and diff.
LEMMA GoesOnToOthers ==
    ASSUME StoresInv, NEW c \in requests, NEW stores, GoesOn(c, stores),
           DOMAIN stores = UiFields
    PROVE  /\ DOMAIN ui' = UiFields /\ ui'.blame = stores.blame /\ ui'.diff = stores.diff
           /\ PromptShape'
           /\ \A q \in requests' : q \in requests \ {c} \/ IsOther(q)
<1> DEFINE Refreshing(s) == s # <<>> /\ Head(s) = "get_repository_status"
           then == IF Refreshing(c.then) /\ stores.status.isRefreshing THEN Tail(c.then) ELSE c.then
<1>1. /\ ui' = IF Refreshing(then) THEN [stores EXCEPT !.status.isRefreshing = TRUE] ELSE stores
      /\ prompt' = IF then = <<"conclude">> THEN Concluded("succeeded") ELSE prompt
      /\ requests' = (requests \ {c}) \cup
               (IF then \in {<<>>, <<"conclude">>} THEN {}
                ELSE {[c EXCEPT !.name = Head(then), !.then = Tail(then), !.arg = Null,
                                !.at = "sent", !.value = Null]})
  BY DEF GoesOn
<1>2. IsRequest(c) /\ c.then \in Seq(Follows)
  BY DEF StoresInv, StoresShape, IsRequest
<1>3. then \in Seq(Follows)
  BY <1>2
<1> HIDE DEF then
<1>4. DOMAIN ui' = UiFields /\ ui'.blame = stores.blame /\ ui'.diff = stores.diff
  BY <1>1 DEF UiFields
<1>5. PromptShape'
  BY <1>1 DEF Concluded, PromptShape, StoresInv, StoresShape
<1>6. ASSUME then # <<>>
      PROVE  IsOther([c EXCEPT !.name = Head(then), !.then = Tail(then), !.arg = Null,
                               !.at = "sent", !.value = Null])
  <2>1. /\ Head(then) \notin Features \cup {"resolve_sync_target"}
        /\ Tail(then) \in Seq(Follows)
    BY <1>3, <1>6, MutationIsNoFeature
  <2> QED BY <1>2, <2>1 DEF IsOther, IsRequest
<1> QED BY <1>1, <1>4, <1>5, <1>6

\* What git answers to a call of blame or diff is of its argument (ReadOf).
LEMMA FeatureOutcomes ==
    ASSUME NEW name \in Features, NEW arg, NEW r, NEW outcome \in Outcomes(name, arg, r)
    PROVE  /\ outcome.ok \in BOOLEAN
           /\ outcome.ok => outcome.value.of = arg
           /\ ~ outcome.ok => outcome.value = Null
<1>1. ReadOutcomes(name, arg, r) = {Outcome(r, ReadOf(arg, r))}
  BY DEF ReadOutcomes, ReadNames, Features
<1>2. /\ IndexOutcomes(name, r) = {} /\ CommitOutcomes(name, arg, r) = {}
      /\ MergeOutcomes(name, r) = {} /\ PickOutcomes(name, r) = {}
      /\ PlanOutcomes(name, arg, r) = {} /\ FileOutcomes(name, r) = {}
      /\ ResetOutcomes(name, arg, r) = {}
  BY DEF Features, IndexOutcomes, CommitOutcomes, MergeOutcomes, PickOutcomes, PlanOutcomes,
         FileOutcomes, ResetOutcomes
<1>3. BranchOutcomes(name, arg, r) = {}
  BY DEF Features, BranchOutcomes
<1>4. SyncOutcomes(name, r) = {}
  BY DEF Features, SyncOutcomes
<1>5. PendingOutcomes(name, r) = {}
  BY DEF Features, PendingOutcomes
<1>6. outcome \in {Refused(r), Outcome(r, ReadOf(arg, r))}
  BY <1>1, <1>2, <1>3, <1>4, <1>5 DEF Outcomes
<1>7. CASE outcome = Refused(r)
  BY <1>7 DEF Refused
<1>8. CASE outcome = Outcome(r, ReadOf(arg, r))
  BY <1>8 DEF Outcome, ReadOf
<1> QED BY <1>6, <1>7, <1>8

\* The backend runs a command.
LEMMA ServeKeeps == ASSUME StoresInv, NEW c \in requests, Serve(c) PROVE StoresInv'
<1>1. /\ c.at = "sent" /\ UNCHANGED <<ui, prompt>> /\ IsRequest(c)
  BY DEF Serve, StoresInv, StoresShape
<1>2. PICK outcome \in Outcomes(c.name, c.arg, repo) :
           requests' = (requests \ {c}) \cup
               {[c EXCEPT !.at = IF outcome.ok THEN "done" ELSE "failed", !.value = outcome.value]}
  BY DEF Serve
<1> DEFINE new == [c EXCEPT !.at = IF outcome.ok THEN "done" ELSE "failed", !.value = outcome.value]
<1>3. /\ IsRequest(new) /\ new.name = c.name /\ new.arg = c.arg /\ new.token = c.token
      /\ new.value = outcome.value /\ new.at = IF outcome.ok THEN "done" ELSE "failed"
  BY <1>1 DEF IsRequest
<1>4. ASSUME c.name \in Features PROVE AnswersItsArgument(new)
  BY <1>2, <1>3, <1>4, FeatureOutcomes DEF AnswersItsArgument
<1>5. requests' = (requests \ {c}) \cup {new}
  BY <1>2
<1> HIDE DEF new
<1>6. StoresShape'
  BY <1>1, <1>3, <1>5 DEF StoresInv, StoresShape, PromptShape
<1>7. ASSUME NEW q \in requests', q.name \in {"get_blame", "get_commit"} PROVE BlameFits(q)'
  <2>1. BlameFits(q)
    BY <1>3, <1>4, <1>5, <1>7 DEF StoresInv, BlameInv, BlameFits, Features
  <2> QED BY <1>1, <2>1 DEF BlameFits
<1>8. ASSUME NEW q \in requests', q.name = "get_diff" PROVE DiffFits(q)'
  <2>1. DiffFits(q)
    BY <1>3, <1>4, <1>5, <1>8 DEF StoresInv, DiffInv, DiffFits, Features
  <2> QED BY <1>1, <2>1 DEF DiffFits
<1>9. BlameInv' /\ DiffInv'
  BY <1>1, <1>7, <1>8 DEF StoresInv, BlameInv, DiffInv
<1> QED BY <1>6, <1>9 DEF StoresInv

\* An answer to a call of another store.
LEMMA OtherAnswersKeep ==
    ASSUME StoresInv, NEW c \in requests, NEW stores, GoesOn(c, stores),
           DOMAIN stores = UiFields, stores.blame = ui.blame, stores.diff = ui.diff
    PROVE  StoresInv'
<1>1. Elsewhere /\ PromptShape' /\ \A q \in requests' : q \in requests \/ IsOther(q)
  BY GoesOnToOthers DEF Elsewhere
<1> QED BY <1>1, ElsewhereKeeps

\* An answer to a call of blame: of what is open, or overtaken.
LEMMA BlameAnswersKeep ==
    ASSUME StoresInv, NEW c \in requests, BlameLoaded(c) \/ CommitReturned(c)
    PROVE  StoresInv'
<1> DEFINE loaded == [ui EXCEPT !.blame.blame = c.value, !.blame.isLoading = FALSE]
           shown == [ui EXCEPT !.blame.commit = c.value, !.blame.isLoadingCommit = FALSE]
<1>1. /\ DOMAIN ui = UiFields /\ DOMAIN ui.blame = BlameFields
      /\ c.name \in {"get_blame", "get_commit"} /\ c.at # "sent" /\ BlameFits(c)
  BY DEF BlameLoaded, CommitReturned, Answers, StoresInv, StoresShape, BlameInv
<1>2. CASE c.token # ui.blame.requestId
  BY <1>1, <1>2, OtherAnswersKeep DEF BlameLoaded, CommitReturned
<1>3. ASSUME c.token = ui.blame.requestId,
             NEW stores, GoesOn(c, stores), DOMAIN stores = UiFields, stores.diff = ui.diff,
             DOMAIN stores.blame = BlameFields,
             stores.blame.requestId = ui.blame.requestId, stores.blame.file = ui.blame.file,
             stores.blame.blame # Null => stores.blame.blame.of = ui.blame.file,
             stores.blame.commit # Null => stores.blame.commit.of.file = ui.blame.file
      PROVE  StoresInv'
  <2>1. /\ DOMAIN ui' = UiFields /\ ui'.blame = stores.blame /\ ui'.diff = ui.diff
        /\ PromptShape'
        /\ \A q \in requests' : q \in requests \/ IsOther(q)
    BY <1>3, GoesOnToOthers
  <2>2. StoresShape'
    BY <1>3, <2>1 DEF StoresInv, StoresShape, IsOther
  <2>3. ASSUME NEW q \in requests', q.name \in {"get_blame", "get_commit"} PROVE BlameFits(q)'
    <3>1. BlameFits(q)
      BY <2>1, <2>3 DEF StoresInv, BlameInv, IsOther, Features
    <3> QED BY <1>3, <2>1, <3>1 DEF BlameFits
  <2>4. ASSUME NEW q \in requests', q.name = "get_diff" PROVE DiffFits(q)'
    <3>1. DiffFits(q)
      BY <2>1, <2>4 DEF StoresInv, DiffInv, IsOther, Features
    <3> QED BY <2>1, <3>1 DEF DiffFits
  <2>5. ui.blame.file # Null
    BY <1>1, <1>3 DEF BlameFits
  <2>6. BlameInv' /\ DiffInv'
    BY <1>3, <2>1, <2>3, <2>4, <2>5 DEF StoresInv, BlameInv, DiffInv
  <2> QED BY <2>2, <2>6 DEF StoresInv
<1>4. CASE c.token = ui.blame.requestId /\ BlameLoaded(c)
  <2>1. GoesOn(c, loaded) /\ c.name = "get_blame"
    BY <1>4 DEF BlameLoaded, Answers
  <2>2. c.value # Null => c.value.of = ui.blame.file
    BY <1>1, <1>4, <2>1 DEF BlameFits, AnswersItsArgument
  <2>3. /\ DOMAIN loaded = UiFields /\ loaded.diff = ui.diff
        /\ loaded.blame = [ui.blame EXCEPT !.blame = c.value, !.isLoading = FALSE]
    BY <1>1 DEF UiFields
  <2> HIDE DEF loaded
  <2>4. /\ DOMAIN loaded.blame = BlameFields /\ loaded.blame.requestId = ui.blame.requestId
        /\ loaded.blame.file = ui.blame.file /\ loaded.blame.blame = c.value
        /\ loaded.blame.commit = ui.blame.commit
    BY <1>1, <2>3 DEF BlameFields
  <2>5. ui.blame.commit # Null => ui.blame.commit.of.file = ui.blame.file
    BY DEF StoresInv, BlameInv
  <2> QED BY <1>3, <1>4, <2>1, <2>2, <2>3, <2>4, <2>5
<1>5. CASE c.token = ui.blame.requestId /\ CommitReturned(c)
  <2>1. GoesOn(c, shown) /\ c.name = "get_commit"
    BY <1>5 DEF CommitReturned, Answers
  <2>2. c.value # Null => c.value.of.file = ui.blame.file
    BY <1>1, <1>5, <2>1 DEF BlameFits, AnswersItsArgument
  <2>3. /\ DOMAIN shown = UiFields /\ shown.diff = ui.diff
        /\ shown.blame = [ui.blame EXCEPT !.commit = c.value, !.isLoadingCommit = FALSE]
    BY <1>1 DEF UiFields
  <2> HIDE DEF shown
  <2>4. /\ DOMAIN shown.blame = BlameFields /\ shown.blame.requestId = ui.blame.requestId
        /\ shown.blame.file = ui.blame.file /\ shown.blame.commit = c.value
        /\ shown.blame.blame = ui.blame.blame
    BY <1>1, <2>3 DEF BlameFields
  <2>5. ui.blame.blame # Null => ui.blame.blame.of = ui.blame.file
    BY DEF StoresInv, BlameInv
  <2> QED BY <1>3, <1>5, <2>1, <2>2, <2>3, <2>4, <2>5
<1> QED BY <1>2, <1>4, <1>5

\* An answer to a call of the diff: of what was wanted last, or overtaken.
LEMMA DiffAnswersKeep == ASSUME StoresInv, NEW c \in requests, DiffReturned(c) PROVE StoresInv'
<1>1. /\ DOMAIN ui = UiFields /\ DOMAIN ui.diff = DiffFields
      /\ c.name = "get_diff" /\ c.at # "sent" /\ DiffFits(c)
  BY DEF DiffReturned, Answers, StoresInv, StoresShape, DiffInv
<1>2. CASE c.token # ui.diff.requestId
  BY <1>1, <1>2, OtherAnswersKeep DEF DiffReturned
<1>3. ASSUME NEW stores, GoesOn(c, stores), DOMAIN stores = UiFields, stores.blame = ui.blame,
             DOMAIN stores.diff = DiffFields,
             stores.diff.requestId = ui.diff.requestId, stores.diff.wanted = ui.diff.wanted,
             stores.diff.diff # Null => stores.diff.diff.of = stores.diff.file,
             stores.diff.failed \/ stores.diff.file = ui.diff.wanted
      PROVE  StoresInv'
  <2>1. /\ DOMAIN ui' = UiFields /\ ui'.diff = stores.diff /\ ui'.blame = ui.blame
        /\ PromptShape'
        /\ \A q \in requests' : q \in requests \/ IsOther(q)
    BY <1>3, GoesOnToOthers
  <2>2. StoresShape'
    BY <1>3, <2>1 DEF StoresInv, StoresShape, IsOther
  <2>3. ASSUME NEW q \in requests', q.name \in {"get_blame", "get_commit"} PROVE BlameFits(q)'
    <3>1. BlameFits(q)
      BY <2>1, <2>3 DEF StoresInv, BlameInv, IsOther, Features
    <3> QED BY <2>1, <3>1 DEF BlameFits
  <2>4. ASSUME NEW q \in requests', q.name = "get_diff" PROVE DiffFits(q)'
    <3>1. DiffFits(q)
      BY <2>1, <2>4 DEF StoresInv, DiffInv, IsOther, Features
    <3> QED BY <1>3, <2>1, <3>1 DEF DiffFits
  <2>5. BlameInv' /\ DiffInv'
    BY <1>3, <2>1, <2>3, <2>4 DEF StoresInv, BlameInv, DiffInv
  <2> QED BY <2>2, <2>5 DEF StoresInv
<1>4. CASE c.token = ui.diff.requestId /\ c.at = "done"
  <2> DEFINE stores == [ui EXCEPT !.diff.file = c.arg, !.diff.diff = c.value, !.diff.failed = FALSE,
                                  !.diff.isLoading = FALSE]
  <2>1. GoesOn(c, stores)
    BY <1>4 DEF DiffReturned
  <2>2. c.value.of = c.arg /\ c.arg = ui.diff.wanted
    BY <1>1, <1>4 DEF DiffFits, AnswersItsArgument
  <2>3. /\ DOMAIN stores = UiFields /\ stores.blame = ui.blame
        /\ stores.diff = [ui.diff EXCEPT !.file = c.arg, !.diff = c.value, !.failed = FALSE,
                                         !.isLoading = FALSE]
    BY <1>1 DEF UiFields
  <2> HIDE DEF stores
  <2>4. /\ DOMAIN stores.diff = DiffFields /\ stores.diff.requestId = ui.diff.requestId
        /\ stores.diff.wanted = ui.diff.wanted /\ stores.diff.file = c.arg
        /\ stores.diff.diff = c.value
    BY <1>1, <2>3 DEF DiffFields
  <2> QED BY <1>3, <2>1, <2>2, <2>3, <2>4
<1>5. CASE c.token = ui.diff.requestId /\ c.at # "done"
  <2> DEFINE stores == [ui EXCEPT !.diff.failed = TRUE, !.diff.isLoading = FALSE]
  <2>1. GoesOn(c, stores)
    BY <1>5 DEF DiffReturned
  <2>2. ui.diff.diff # Null => ui.diff.diff.of = ui.diff.file
    BY DEF StoresInv, DiffInv
  <2>3. /\ DOMAIN stores = UiFields /\ stores.blame = ui.blame
        /\ stores.diff = [ui.diff EXCEPT !.failed = TRUE, !.isLoading = FALSE]
    BY <1>1 DEF UiFields
  <2> HIDE DEF stores
  <2>4. /\ DOMAIN stores.diff = DiffFields /\ stores.diff.requestId = ui.diff.requestId
        /\ stores.diff.wanted = ui.diff.wanted /\ stores.diff.file = ui.diff.file
        /\ stores.diff.diff = ui.diff.diff /\ stores.diff.failed = TRUE
    BY <1>1, <2>3 DEF DiffFields
  <2> QED BY <1>3, <2>1, <2>2, <2>3, <2>4
<1> QED BY <1>2, <1>4, <1>5

-----------------------------------------------------------------------------
(* What the user does *)

LEMMA LoadDiffKeeps ==
    ASSUME StoresInv, NEW path \in Topics, NEW staged \in BOOLEAN, LoadDiff(path, staged)
    PROVE  StoresInv'
<1> DEFINE fileAsked == [path |-> path, staged |-> staged]
           new == Request("get_diff", fileAsked, ui.diff.requestId + 1, <<>>)
<1>1. /\ ui' = [ui EXCEPT !.diff.requestId = @ + 1, !.diff.isLoading = TRUE, !.diff.wanted = fileAsked]
      /\ requests' = requests \cup {new} /\ UNCHANGED prompt
  BY DEF LoadDiff, Calls
<1>2. /\ DOMAIN ui = UiFields /\ DOMAIN ui.diff = DiffFields /\ ui.diff.requestId \in Nat
  BY DEF StoresInv, StoresShape
<1>3. /\ DOMAIN ui' = UiFields /\ ui'.blame = ui.blame
      /\ ui'.diff = [ui.diff EXCEPT !.requestId = @ + 1, !.isLoading = TRUE, !.wanted = fileAsked]
  BY <1>1, <1>2 DEF UiFields
<1>4. /\ DOMAIN ui'.diff = DiffFields /\ ui'.diff.requestId = ui.diff.requestId + 1
      /\ ui'.diff.isLoading = TRUE /\ ui'.diff.wanted = fileAsked
      /\ ui'.diff.diff = ui.diff.diff /\ ui'.diff.file = ui.diff.file
  BY <1>2, <1>3 DEF DiffFields
<1>5. /\ IsRequest(new) /\ new.name = "get_diff" /\ new.token = ui.diff.requestId + 1
      /\ new.arg = fileAsked /\ new.at = "sent"
  BY SequencesFollow DEF IsRequest, Request
<1> HIDE DEF new, fileAsked
<1>6. StoresShape'
  BY <1>1, <1>2, <1>3, <1>4, <1>5 DEF StoresInv, StoresShape, PromptShape
<1>7. ASSUME NEW q \in requests', q.name = "get_diff" PROVE DiffFits(q)'
  <2>1. CASE q \in requests
    <3>1. DiffFits(q)
      BY <1>7, <2>1 DEF StoresInv, DiffInv
    <3> QED BY <1>2, <1>4, <3>1 DEF DiffFits
  <2>2. CASE q = new
    BY <1>2, <1>4, <1>5, <2>2 DEF DiffFits, AnswersItsArgument
  <2> QED BY <1>1, <2>1, <2>2
<1>8. ASSUME NEW q \in requests', q.name \in {"get_blame", "get_commit"} PROVE BlameFits(q)'
  <2>1. BlameFits(q)
    BY <1>1, <1>5, <1>8 DEF StoresInv, BlameInv
  <2> QED BY <1>3, <2>1 DEF BlameFits
<1>9. BlameInv' /\ DiffInv'
  BY <1>3, <1>4, <1>7, <1>8 DEF StoresInv, BlameInv, DiffInv
<1> QED BY <1>6, <1>9 DEF StoresInv

\* A blame is opened or closed under a new id, all answers to older ones are late.
LEMMA BlameMoves ==
    ASSUME StoresInv, NEW panel, DOMAIN panel = BlameFields,
           panel.requestId = ui.blame.requestId + 1,
           panel.blame = Null, panel.commit = Null,
           ui' = [ui EXCEPT !.blame = panel], UNCHANGED prompt,
           \A q \in requests' : q \in requests \/
              /\ IsRequest(q) /\ q.name = "get_blame" /\ q.at = "sent"
              /\ q.token = panel.requestId /\ q.arg = panel.file /\ panel.file # Null
    PROVE  StoresInv'
<1>1. DOMAIN ui' = UiFields /\ ui'.blame = panel /\ ui'.diff = ui.diff
  BY DEF StoresInv, StoresShape, UiFields
<1>2. ui.blame.requestId \in Nat
  BY DEF StoresInv, StoresShape
<1>3. StoresShape'
  BY <1>1, <1>2 DEF StoresInv, StoresShape, PromptShape
<1>4. ASSUME NEW q \in requests', q.name \in {"get_blame", "get_commit"} PROVE BlameFits(q)'
  <2>1. CASE q \in requests
    <3>1. BlameFits(q)
      BY <1>4, <2>1 DEF StoresInv, BlameInv
    <3> QED BY <1>1, <1>2, <3>1 DEF BlameFits
  <2>2. CASE q \notin requests
    BY <1>1, <1>2, <2>2 DEF BlameFits, AnswersItsArgument
  <2> QED BY <2>1, <2>2
<1>5. ASSUME NEW q \in requests', q.name = "get_diff" PROVE DiffFits(q)'
  <2>1. DiffFits(q)
    BY <1>5 DEF StoresInv, DiffInv
  <2> QED BY <1>1, <2>1 DEF DiffFits
<1>6. BlameInv' /\ DiffInv'
  BY <1>1, <1>4, <1>5 DEF StoresInv, BlameInv, DiffInv
<1> QED BY <1>3, <1>6 DEF StoresInv

LEMMA OpenBlameKeeps ==
    ASSUME StoresInv, NEW path, (path \in Topics /\ OpenBlame(path)) \/ CloseBlame
    PROVE  StoresInv'
<1>1. DOMAIN ui = UiFields /\ DOMAIN ui.blame = BlameFields /\ ui.blame.requestId \in Nat
  BY DEF StoresInv, StoresShape
<1>2. CASE path \in Topics /\ OpenBlame(path)
  <2> DEFINE panel == [ui.blame EXCEPT !.requestId = @ + 1, !.file = path, !.isLoading = TRUE,
                                       !.commit = Null]
             new == Request("get_blame", path, ui.blame.requestId + 1, <<>>)
  <2>1. /\ ui' = [ui EXCEPT !.blame = panel] /\ UNCHANGED prompt
        /\ requests' = requests \cup {new} /\ ui.blame.file = Null
    BY <1>1, <1>2 DEF OpenBlame, Calls, UiFields
  <2>2. ui.blame.blame = Null
    BY <2>1 DEF StoresInv, BlameInv
  <2>3. /\ DOMAIN panel = BlameFields /\ panel.requestId = ui.blame.requestId + 1
        /\ panel.blame = Null /\ panel.commit = Null /\ panel.file = path
    BY <1>1, <2>2 DEF BlameFields
  <2>4. /\ IsRequest(new) /\ new.name = "get_blame" /\ new.at = "sent"
        /\ new.token = ui.blame.requestId + 1 /\ new.arg = path
    BY SequencesFollow DEF IsRequest, Request
  <2>5. path # Null
    BY <1>2, NullAssumption
  <2> HIDE DEF panel, new
  <2> QED BY <2>1, <2>3, <2>4, <2>5, BlameMoves
<1>3. CASE CloseBlame
  <2> DEFINE panel == [file |-> Null, blame |-> Null, isLoading |-> FALSE, commit |-> Null,
                       isLoadingCommit |-> FALSE, requestId |-> ui.blame.requestId + 1]
  <2>1. /\ ui' = [ui EXCEPT !.blame = panel] /\ UNCHANGED <<prompt, requests>>
    BY <1>1, <1>3 DEF CloseBlame, NoCall, UiFields
  <2>2. /\ DOMAIN panel = BlameFields /\ panel.requestId = ui.blame.requestId + 1
        /\ panel.blame = Null /\ panel.commit = Null
    BY DEF BlameFields
  <2> HIDE DEF panel
  <2> QED BY <2>1, <2>2, BlameMoves
<1> QED BY <1>2, <1>3

LEMMA CommitKeeps ==
    ASSUME StoresInv, NEW hash, OpenCommitDetails(hash) \/ DismissCommitDetails
    PROVE  StoresInv'
<1>1. DOMAIN ui = UiFields /\ DOMAIN ui.blame = BlameFields /\ ui.blame.requestId \in Nat
  BY DEF StoresInv, StoresShape
<1>2. ASSUME NEW panel, ui' = [ui EXCEPT !.blame = panel], DOMAIN panel = BlameFields,
             panel.requestId = ui.blame.requestId, panel.file = ui.blame.file,
             panel.blame = ui.blame.blame, panel.commit \in {Null, ui.blame.commit},
             UNCHANGED prompt,
             \A q \in requests' : q \in requests \/
                /\ IsRequest(q) /\ q.name = "get_commit" /\ q.at = "sent"
                /\ q.token = ui.blame.requestId /\ q.arg.file = ui.blame.file
                /\ ui.blame.file # Null
      PROVE  StoresInv'
  <2>1. DOMAIN ui' = UiFields /\ ui'.blame = panel /\ ui'.diff = ui.diff
    BY <1>1, <1>2 DEF UiFields
  <2>2. StoresShape'
    BY <1>1, <1>2, <2>1 DEF StoresInv, StoresShape, PromptShape
  <2>3. ASSUME NEW q \in requests', q.name \in {"get_blame", "get_commit"} PROVE BlameFits(q)'
    <3>1. CASE q \in requests
      <4>1. BlameFits(q)
        BY <2>3, <3>1 DEF StoresInv, BlameInv
      <4> QED BY <1>2, <2>1, <4>1 DEF BlameFits
    <3>2. CASE q \notin requests
      BY <1>1, <1>2, <2>1, <3>2 DEF BlameFits, AnswersItsArgument
    <3> QED BY <3>1, <3>2
  <2>4. ASSUME NEW q \in requests', q.name = "get_diff" PROVE DiffFits(q)'
    <3>1. DiffFits(q)
      BY <1>2, <2>4 DEF StoresInv, DiffInv
    <3> QED BY <2>1, <3>1 DEF DiffFits
  <2>5. BlameInv' /\ DiffInv'
    BY <1>2, <2>1, <2>3, <2>4 DEF StoresInv, BlameInv, DiffInv
  <2> QED BY <2>2, <2>5 DEF StoresInv
<1>3. CASE OpenCommitDetails(hash)
  <2> DEFINE panel == [ui.blame EXCEPT !.isLoadingCommit = TRUE]
             arg == [file |-> ui.blame.blame.of, hash |-> hash]
             new == Request("get_commit", arg, ui.blame.requestId, <<>>)
  <2>1. /\ ui' = [ui EXCEPT !.blame = panel] /\ UNCHANGED prompt
        /\ requests' = requests \cup {new} /\ ui.blame.blame # Null
    BY <1>1, <1>3 DEF OpenCommitDetails, Calls, UiFields
  <2>2. ui.blame.blame.of = ui.blame.file /\ ui.blame.file # Null
    BY <2>1 DEF StoresInv, BlameInv
  <2>3. /\ DOMAIN panel = BlameFields /\ panel.requestId = ui.blame.requestId
        /\ panel.file = ui.blame.file /\ panel.blame = ui.blame.blame
        /\ panel.commit = ui.blame.commit
    BY <1>1 DEF BlameFields
  <2>4. /\ IsRequest(new) /\ new.name = "get_commit" /\ new.at = "sent"
        /\ new.token = ui.blame.requestId /\ new.arg.file = ui.blame.file
    BY <2>2, SequencesFollow DEF IsRequest, Request
  <2> HIDE DEF panel, arg, new
  <2> QED BY <1>2, <2>1, <2>2, <2>3, <2>4
<1>4. CASE DismissCommitDetails
  <2> DEFINE panel == [ui.blame EXCEPT !.commit = Null]
  <2>1. /\ ui' = [ui EXCEPT !.blame = panel] /\ UNCHANGED <<prompt, requests>>
    BY <1>1, <1>4 DEF DismissCommitDetails, NoCall, UiFields
  <2>2. /\ DOMAIN panel = BlameFields /\ panel.requestId = ui.blame.requestId
        /\ panel.file = ui.blame.file /\ panel.blame = ui.blame.blame
        /\ panel.commit = Null
    BY <1>1 DEF BlameFields
  <2> HIDE DEF panel
  <2> QED BY <1>2, <2>1, <2>2
<1> QED BY <1>3, <1>4

LEMMA LooksKeep == ASSUME StoresInv, Looks PROVE StoresInv'
<1>0. DOMAIN ui = UiFields
  BY DEF StoresInv, StoresShape
<1>1. ASSUME NEW path \in Topics, NEW staged \in BOOLEAN, LoadDiff(path, staged) PROVE StoresInv'
  BY <1>1, LoadDiffKeeps
<1>2. ASSUME NEW topic \in Topics, OpenBlame(topic) \/ OpenCommitDetails(topic) PROVE StoresInv'
  BY <1>2, OpenBlameKeeps, CommitKeeps
<1>3. CASE CloseBlame \/ DismissCommitDetails
  BY <1>3, OpenBlameKeeps, CommitKeeps
<1>4. ASSUME NEW topic \in Topics, Search(topic) PROVE StoresInv'
  <2>1. Elsewhere /\ Calls("search_commits", topic, 0)
    BY <1>0, <1>4 DEF Search, Elsewhere, UiFields
  <2> QED BY <2>1, CallsKeep DEF Features
<1>5. CASE ClearSearch
  <2>1. Elsewhere /\ NoCall
    BY <1>0, <1>5 DEF ClearSearch, Elsewhere, UiFields
  <2> QED BY <2>1, CallsKeep
<1>6. ASSUME NEW name \in {"list_tags", "list_stash_entries", "list_remotes"}, LoadList(name)
      PROVE  StoresInv'
  <2>1. Elsewhere /\ Calls(name, Null, 0) /\ name \notin Features
    BY <1>0, <1>6 DEF LoadList, Elsewhere, Features
  <2> QED BY <2>1, CallsKeep
<1>7. ASSUME NEW page, LoadPulls(page) PROVE StoresInv'
  <2>1. Elsewhere /\ Calls("list_pull_requests", page, 0)
    BY <1>0, <1>7 DEF LoadPulls, Elsewhere, UiFields
  <2> QED BY <2>1, CallsKeep DEF Features
<1> QED BY <1>1, <1>2, <1>3, <1>4, <1>5, <1>6, <1>7 DEF Looks

\* What the dialogs and panels of writes, merges and references request.
LEMMA DescriptorIsOne ==
    ASSUME NEW name \in MutationNames, NEW arg, NEW risk, NEW then \in Seq(Follows)
    PROVE  IsDescriptor(Descriptor(name, arg, risk, then))
BY DEF IsDescriptor, Descriptor

LEMMA WritesKeep == ASSUME StoresInv, Writes PROVE StoresInv'
<1>0. DOMAIN ui = UiFields
  BY DEF StoresInv, StoresShape
<1>1. ASSUME NEW name \in {"stage_paths", "unstage_paths", "stage_hunks", "unstage_hunks"},
             NEW path \in Topics, Stage(name, path)
      PROVE  StoresInv'
  <2>1. IsDescriptor(Descriptor(name, path, "safe", Status))
    BY DescriptorIsOne, SequencesFollow DEF MutationNames
  <2> QED BY <1>1, <2>1, PromptsKeep DEF Stage
<1>2. ASSUME NEW text \in Topics, TypeMessage(text) \/ TypeAmendMessage(text) \/ SetPatchText(text)
      PROVE  StoresInv'
  <2>1. Elsewhere /\ NoCall
    BY <1>0, <1>2 DEF TypeMessage, TypeAmendMessage, SetPatchText, Elsewhere, UiFields
  <2> QED BY <2>1, CallsKeep
<1>3. CASE RequestCommit
  <2>1. IsDescriptor(Descriptor("create_commit", Null, "moderate", Status))
    BY DescriptorIsOne, SequencesFollow DEF MutationNames
  <2> QED BY <1>3, <2>1, PromptsKeep DEF RequestCommit
<1>4. CASE LoadAmendPreview
  <2>1. Elsewhere /\ Calls("preview_amend", Null, 0)
    BY <1>0, <1>4 DEF LoadAmendPreview, Elsewhere, UiFields
  <2> QED BY <2>1, CallsKeep DEF Features
<1>5. CASE RequestAmend
  <2>1. IsDescriptor(Descriptor("amend_commit", ui.amend.preview.head, "destructive", Status))
    BY DescriptorIsOne, SequencesFollow DEF MutationNames
  <2> QED BY <1>5, <2>1, PromptsKeep DEF RequestAmend
<1>6. CASE LoadPatchPreview
  <2>1. Elsewhere /\ Calls("preview_patch_application", ui.patch.text, 0)
    BY <1>0, <1>6 DEF LoadPatchPreview, Elsewhere, UiFields
  <2> QED BY <2>1, CallsKeep DEF Features
<1>7. CASE RequestApply
  <2>1. IsDescriptor(Descriptor("apply_patch", ui.patch.text, "moderate", Status))
    BY DescriptorIsOne, SequencesFollow DEF MutationNames
  <2> QED BY <1>7, <2>1, PromptsKeep DEF RequestApply
<1> QED BY <1>1, <1>2, <1>3, <1>4, <1>5, <1>6, <1>7 DEF Writes

LEMMA MergesKeep == ASSUME StoresInv, Merges PROVE StoresInv'
<1>0. DOMAIN ui = UiFields
  BY DEF StoresInv, StoresShape
<1>1. CASE RefreshInProgressOperation
  <2>1. Elsewhere /\ Calls("detect_in_progress_operation", Null, 0)
    BY <1>0, <1>1 DEF RefreshInProgressOperation, Elsewhere
  <2> QED BY <2>1, CallsKeep DEF Features
<1>2. ASSUME NEW name, NEW arg, NEW risk,
             name \in MutationNames,
             Prompts(Descriptor(name, arg, risk, StatusAndOperation))
      PROVE  StoresInv'
  BY <1>2, DescriptorIsOne, SequencesFollow, PromptsKeep
<1>3. CASE RequestContinue \/ RequestAbort \/ RequestSkip
  BY <1>2, <1>3 DEF RequestContinue, RequestAbort, RequestSkip, MutationNames
<1>4. ASSUME NEW name \in {"merge", "rebase", "cherry_pick", "revert"}, RequestMerge(name, Other)
      PROVE  StoresInv'
  BY <1>2, <1>4 DEF RequestMerge, MutationNames
<1>5. ASSUME NEW path \in Topics, MarkResolved(path) \/ TakeSide(path) PROVE StoresInv'
  BY <1>2, <1>5 DEF MarkResolved, TakeSide, MutationNames
<1>6. ASSUME NEW path \in Topics, InspectConflict(path) PROVE StoresInv'
  <2>1. Elsewhere /\ Calls("get_conflict_sides", path, 0)
    BY <1>0, <1>6 DEF InspectConflict, Elsewhere
  <2> QED BY <2>1, CallsKeep DEF Features
<1> QED BY <1>1, <1>3, <1>4, <1>5, <1>6 DEF Merges

LEMMA PlansKeep == ASSUME StoresInv, Plans PROVE StoresInv'
<1>0. DOMAIN ui = UiFields
  BY DEF StoresInv, StoresShape
<1>1. CASE RequestRebasePlan
  <2>1. Elsewhere /\ Calls("plan_rebase", Null, 0)
    BY <1>0, <1>1 DEF RequestRebasePlan, Elsewhere, UiFields
  <2> QED BY <2>1, CallsKeep DEF Features
<1>2. CASE CloseRebasePlan
  <2>1. Elsewhere /\ NoCall
    BY <1>0, <1>2 DEF CloseRebasePlan, Elsewhere, UiFields
  <2> QED BY <2>1, CallsKeep
<1>3. ASSUME NEW entries, NEW error, EditsPlan(entries, error) PROVE StoresInv'
  <2>1. Elsewhere /\ NoCall
    BY <1>0, <1>3 DEF EditsPlan, Elsewhere, UiFields
  <2> QED BY <2>1, CallsKeep
<1>4. ASSUME NEW k, NEW a, MoveEntry(k) \/ SetAction(k, a) \/ SetMessage(k, a) PROVE StoresInv'
  BY <1>3, <1>4 DEF MoveEntry, SetAction, SetMessage
<1>5. CASE RequestExecuteRebasePlan
  <2> DEFINE op == Descriptor("execute_rebase_plan", ui.merge.plan, "moderate", StatusAndOperation)
  <2>1. IsDescriptor(op)
    BY DescriptorIsOne, SequencesFollow DEF MutationNames
  <2>2. Elsewhere
    BY <1>0, <1>5 DEF RequestExecuteRebasePlan, Elsewhere, UiFields
  <2>3. prompt' \in {prompt, [status |-> "confirming", current |-> op]} /\ requests' = requests
    BY <1>5 DEF RequestExecuteRebasePlan
  <2> HIDE DEF op
  <2>4. PromptShape'
    BY <2>1, <2>3 DEF PromptShape, StoresInv, StoresShape
  <2> QED BY <2>2, <2>3, <2>4, ElsewhereKeeps
<1> QED BY <1>1, <1>2, <1>4, <1>5 DEF Plans

LEMMA RefsKeep == ASSUME StoresInv, Refs PROVE StoresInv'
<1>0. DOMAIN ui = UiFields
  BY DEF StoresInv, StoresShape
<1>1. CASE LoadBranches
  <2>1. Elsewhere /\ Calls("list_branches", Null, 0)
    BY <1>0, <1>1 DEF LoadBranches, Elsewhere
  <2> QED BY <2>1, CallsKeep DEF Features
<1>2. ASSUME NEW name, NEW arg, NEW risk, NEW then,
             name \in MutationNames, then \in {Relist, RelistAndStatus},
             Prompts(Descriptor(name, arg, risk, then))
      PROVE  StoresInv'
  BY <1>2, DescriptorIsOne, SequencesFollow, PromptsKeep
<1>3. ASSUME NEW name, RequestCreate(name) \/ RequestSwitch(name) \/ RequestDelete(name)
      PROVE  StoresInv'
  BY <1>2, <1>3 DEF RequestCreate, RequestSwitch, RequestDelete, MutationNames
<1>4. ASSUME NEW from, NEW to, RequestRename(from, to) PROVE StoresInv'
  BY <1>2, <1>4 DEF RequestRename, MutationNames
<1>5. ASSUME NEW a, CloseReset \/ OpenReset(a) \/ SetResetMode(a) PROVE StoresInv'
  <2>1. Elsewhere /\ NoCall
    BY <1>0, <1>5 DEF CloseReset, OpenReset, SetResetMode, Elsewhere, UiFields
  <2> QED BY <2>1, CallsKeep
<1>6. CASE RequestReset
  <2>1. PICK arg, risk :
           prompt' = [status |-> "confirming", current |-> Descriptor("reset", arg, risk, Status)]
    BY <1>6 DEF RequestReset
  <2>2. IsDescriptor(Descriptor("reset", arg, risk, Status))
    BY DescriptorIsOne, SequencesFollow DEF MutationNames
  <2>3. PromptShape'
    BY <2>1, <2>2 DEF PromptShape
  <2>4. Elsewhere /\ requests' = requests
    BY <1>0, <1>6 DEF RequestReset, Elsewhere, UiFields
  <2> QED BY <2>3, <2>4, ElsewhereKeeps
<1>7. ASSUME NEW name \in {"fetch", "pull", "push"}, RequestSync(name) PROVE StoresInv'
  <2>1. Elsewhere /\ UNCHANGED prompt
        /\ requests' = requests \cup {Request("resolve_sync_target", Null, 0, <<name>>)}
    BY <1>0, <1>7 DEF RequestSync, Elsewhere
  <2>2. <<name>> \in Seq(Follows)
    BY DEF Follows
  <2>3. IsOther(Request("resolve_sync_target", Null, 0, <<name>>))
    BY <2>2, RequestIsRequest DEF IsOther, Features
  <2>4. PromptShape'
    BY <2>1 DEF PromptShape, StoresInv, StoresShape
  <2> QED BY <2>1, <2>3, <2>4, ElsewhereKeeps
<1> QED BY <1>1, <1>3, <1>4, <1>5, <1>6, <1>7 DEF Refs

-----------------------------------------------------------------------------
(* The answers to other stores, and to operations *)

LEMMA OthersReturn ==
    ASSUME StoresInv, NEW c \in requests,
           \/ RefreshReturned(c) \/ SearchReturned(c) \/ ListReturned(c) \/ PullsReturned(c)
           \/ AmendPreviewReturned(c) \/ PatchPreviewReturned(c)
           \/ DetectionReturned(c) \/ ConflictReturned(c) \/ PlanReturned(c) \/ BranchesReturned(c)
    PROVE  StoresInv'
<1>0. DOMAIN ui = UiFields
  BY DEF StoresInv, StoresShape
<1>1. ASSUME NEW stores, GoesOn(c, stores), DOMAIN stores = UiFields,
             stores.blame = ui.blame, stores.diff = ui.diff
      PROVE  StoresInv'
  BY <1>1, OtherAnswersKeep
<1>2. ASSUME GoesOn(c, ui) PROVE StoresInv'
  BY <1>0, <1>1, <1>2
<1>3. CASE RefreshReturned(c)
  <2> DEFINE stores == [ui EXCEPT !.status = [shown |-> IF c.at = "done" THEN c.value ELSE @.shown,
                                              isRefreshing |-> FALSE]]
  <2>1. GoesOn(c, stores)
    BY <1>3 DEF RefreshReturned
  <2>2. DOMAIN stores = UiFields /\ stores.blame = ui.blame /\ stores.diff = ui.diff
    BY <1>0 DEF UiFields
  <2> HIDE DEF stores
  <2> QED BY <1>1, <2>1, <2>2
<1>4. CASE SearchReturned(c)
  <2> DEFINE stores == [ui EXCEPT !.search.results = IF c.at = "done" THEN c.value ELSE @,
                                  !.search.isLoading = FALSE]
  <2>1. GoesOn(c, stores)
    BY <1>4 DEF SearchReturned
  <2>2. DOMAIN stores = UiFields /\ stores.blame = ui.blame /\ stores.diff = ui.diff
    BY <1>0 DEF UiFields
  <2> HIDE DEF stores
  <2> QED BY <1>1, <2>1, <2>2
<1>5. CASE ListReturned(c)
  <2> DEFINE tags == [ui EXCEPT !.lists.tags = c.value]
             stashes == [ui EXCEPT !.lists.stashes = c.value]
             remotes == [ui EXCEPT !.lists.remotes = c.value]
  <2>1. GoesOn(c, ui) \/ GoesOn(c, tags) \/ GoesOn(c, stashes) \/ GoesOn(c, remotes)
    BY <1>5 DEF ListReturned
  <2>2. DOMAIN tags = UiFields /\ tags.blame = ui.blame /\ tags.diff = ui.diff
    BY <1>0 DEF UiFields
  <2>3. DOMAIN stashes = UiFields /\ stashes.blame = ui.blame /\ stashes.diff = ui.diff
    BY <1>0 DEF UiFields
  <2>4. DOMAIN remotes = UiFields /\ remotes.blame = ui.blame /\ remotes.diff = ui.diff
    BY <1>0 DEF UiFields
  <2> HIDE DEF tags, stashes, remotes
  <2> QED BY <1>1, <1>2, <2>1, <2>2, <2>3, <2>4
<1>6. CASE PullsReturned(c)
  <2> DEFINE stores == [ui EXCEPT !.pulls =
                           [status |-> c.value.status, currentPage |-> c.arg,
                            page |-> IF c.value.status = "loaded" THEN c.value ELSE Null]]
  <2>1. GoesOn(c, ui) \/ GoesOn(c, stores)
    BY <1>6 DEF PullsReturned
  <2>2. DOMAIN stores = UiFields /\ stores.blame = ui.blame /\ stores.diff = ui.diff
    BY <1>0 DEF UiFields
  <2> HIDE DEF stores
  <2> QED BY <1>1, <1>2, <2>1, <2>2
<1>7. CASE AmendPreviewReturned(c)
  <2> DEFINE stores == [ui EXCEPT !.amend =
                           [preview |-> c.value, isLoading |-> FALSE,
                            message |-> IF c.at = "done" THEN c.value ELSE @.message]]
  <2>1. GoesOn(c, stores)
    BY <1>7 DEF AmendPreviewReturned
  <2>2. DOMAIN stores = UiFields /\ stores.blame = ui.blame /\ stores.diff = ui.diff
    BY <1>0 DEF UiFields
  <2> HIDE DEF stores
  <2> QED BY <1>1, <2>1, <2>2
<1>8. CASE PatchPreviewReturned(c)
  <2> DEFINE stores == [ui EXCEPT !.patch.preview = c.value, !.patch.isLoading = FALSE]
  <2>1. GoesOn(c, stores)
    BY <1>8 DEF PatchPreviewReturned
  <2>2. DOMAIN stores = UiFields /\ stores.blame = ui.blame /\ stores.diff = ui.diff
    BY <1>0 DEF UiFields
  <2> HIDE DEF stores
  <2> QED BY <1>1, <2>1, <2>2
<1>9. CASE DetectionReturned(c)
  <2> DEFINE found == IF c.at = "done" THEN c.value ELSE "none"
             stores == [ui EXCEPT !.merge.operation = found,
                                  !.merge.inspected = IF c.at = "done" /\ found = "none" THEN Null ELSE @]
  <2>1. GoesOn(c, stores)
    BY <1>9 DEF DetectionReturned
  <2>2. DOMAIN stores = UiFields /\ stores.blame = ui.blame /\ stores.diff = ui.diff
    BY <1>0 DEF UiFields
  <2> HIDE DEF stores
  <2> QED BY <1>1, <2>1, <2>2
<1>10. CASE ConflictReturned(c)
  <2> DEFINE stores == [ui EXCEPT !.merge.inspected = c.value]
  <2>1. GoesOn(c, ui) \/ GoesOn(c, stores)
    BY <1>10 DEF ConflictReturned
  <2>2. DOMAIN stores = UiFields /\ stores.blame = ui.blame /\ stores.diff = ui.diff
    BY <1>0 DEF UiFields
  <2> HIDE DEF stores
  <2> QED BY <1>1, <1>2, <2>1, <2>2
<1>11. CASE PlanReturned(c)
  <2> DEFINE stores == [ui EXCEPT !.merge.plan = c.value, !.merge.isLoadingPlan = FALSE,
                                  !.merge.planError = @ \/ c.at = "failed"]
  <2>1. GoesOn(c, stores)
    BY <1>11 DEF PlanReturned
  <2>2. DOMAIN stores = UiFields /\ stores.blame = ui.blame /\ stores.diff = ui.diff
    BY <1>0 DEF UiFields
  <2> HIDE DEF stores
  <2> QED BY <1>1, <2>1, <2>2
<1>12. CASE BranchesReturned(c)
  <2> DEFINE stores == [ui EXCEPT !.branches.list = c.value]
  <2>1. GoesOn(c, ui) \/ GoesOn(c, stores)
    BY <1>12 DEF BranchesReturned
  <2>2. DOMAIN stores = UiFields /\ stores.blame = ui.blame /\ stores.diff = ui.diff
    BY <1>0 DEF UiFields
  <2> HIDE DEF stores
  <2> QED BY <1>1, <1>2, <2>1, <2>2
<1> QED BY <1>3, <1>4, <1>5, <1>6, <1>7, <1>8, <1>9, <1>10, <1>11, <1>12

LEMMA SyncKeeps == ASSUME StoresInv, NEW c \in requests, SyncTargetReturned(c) PROVE StoresInv'
<1>1. /\ DOMAIN ui = UiFields /\ c.name = "resolve_sync_target" /\ IsRequest(c)
      /\ DOMAIN prompt = {"status", "current"}
  BY DEF SyncTargetReturned, Answers, StoresInv, StoresShape, PromptShape
<1> DEFINE name == Head(c.then)
           op == Descriptor(name, c.value, IF name = "fetch" THEN "safe" ELSE "moderate",
                            IF name = "fetch" THEN <<"conclude">> ELSE Status)
           new == [Request(name, c.value, 0, op.then) EXCEPT !.id = c.id]
<1>2. name \in {"fetch", "pull", "push"}
  BY <1>1 DEF IsRequest
<1>3. name \in MutationNames
  BY <1>2 DEF MutationNames
<1>4. IsDescriptor(op) /\ op.then \in Seq(Follows)
  BY <1>3, SequencesFollow DEF IsDescriptor, Descriptor
<1>5. Elsewhere
  BY <1>1 DEF SyncTargetReturned, Elsewhere, UiFields
<1>6. \/ requests' = requests \ {c} /\ UNCHANGED prompt
      \/ /\ prompt' = [status |-> "inProgress", current |-> op]
         /\ requests' = (requests \ {c}) \cup {new}
      \/ /\ requests' = requests \ {c}
         /\ prompt' = [status |-> "confirming", current |-> op]
  BY DEF SyncTargetReturned
<1>7. IsOther(new)
  BY <1>3, <1>4, MutationIsNoFeature DEF IsOther, IsRequest, Request
<1> HIDE DEF new, op
<1>8. PromptShape'
  BY <1>4, <1>6 DEF PromptShape, StoresInv, StoresShape
<1> QED BY <1>5, <1>6, <1>7, <1>8, ElsewhereKeeps

LEMMA OperationKeeps == ASSUME StoresInv, NEW c \in requests, OperationReturned(c) PROVE StoresInv'
<1>0. DOMAIN ui = UiFields
  BY DEF StoresInv, StoresShape
<1>1. CASE GoesOn(c, AfterRun(c))
  <2>1. /\ DOMAIN AfterRun(c) = UiFields
        /\ AfterRun(c).blame = ui.blame /\ AfterRun(c).diff = ui.diff
    BY <1>0 DEF AfterRun, UiFields
  <2> QED BY <1>1, <2>1, OtherAnswersKeep
<1>2. CASE /\ prompt' = Concluded("failed")
           /\ requests' = requests \ {c}
           /\ UNCHANGED <<ui, repo, view, asks>>
  <2>1. Elsewhere
    BY <1>0, <1>2 DEF Elsewhere
  <2>2. PromptShape'
    BY <1>2 DEF Concluded, PromptShape, StoresInv, StoresShape
  <2> QED BY <1>2, <2>1, <2>2, ElsewhereKeeps
<1> QED BY <1>1, <1>2 DEF OperationReturned

LEMMA DialogKeeps == ASSUME StoresInv, ConfirmPrompt \/ CancelPrompt PROVE StoresInv'
<1>1. CASE ConfirmPrompt
  <2>1. IsDescriptor(prompt.current) /\ RunsNow(prompt.current, requests)
    BY <1>1 DEF ConfirmPrompt, StoresInv, StoresShape, PromptShape
  <2> QED BY <2>1, RunsKeep
<1>2. CASE CancelPrompt
  <2>1. PromptShape'
    BY <1>2 DEF CancelPrompt, NoPrompt, PromptShape
  <2>2. Elsewhere /\ requests' = requests
    BY <1>2 DEF CancelPrompt, Elsewhere, StoresInv, StoresShape
  <2> QED BY <2>1, <2>2, ElsewhereKeeps
<1> QED BY <1>1, <1>2

-----------------------------------------------------------------------------
LEMMA StoresStart == StoresInit => StoresInv
<1> SUFFICES ASSUME StoresInit PROVE StoresInv
  OBVIOUS
<1>1. /\ DOMAIN ui = UiFields /\ DOMAIN ui.blame = BlameFields /\ DOMAIN ui.diff = DiffFields
      /\ ui.blame.requestId = 0 /\ ui.diff.requestId = 0
      /\ ui.blame.blame = Null /\ ui.blame.commit = Null
      /\ ui.diff.diff = Null /\ ui.diff.wanted = Null
  BY DEF StoresInit, UiFields, BlameFields, DiffFields
<1>2. requests = {} /\ prompt = NoPrompt
  BY DEF StoresInit
<1>3. PromptShape
  BY <1>2 DEF PromptShape, NoPrompt
<1>4. StoresShape
  BY <1>1, <1>2, <1>3 DEF StoresShape
<1> QED BY <1>1, <1>2, <1>4 DEF StoresInv, BlameInv, DiffInv

LEMMA StoresStep == StoresInv /\ [StoresNext]_storesVars => StoresInv'
<1> SUFFICES ASSUME StoresInv, [StoresNext]_storesVars PROVE StoresInv'
  OBVIOUS
<1>1. CASE UNCHANGED storesVars
  <2>1. Elsewhere /\ requests' = requests /\ PromptShape'
    BY <1>1 DEF storesVars, Elsewhere, PromptShape, StoresInv, StoresShape
  <2> QED BY <2>1, ElsewhereKeeps
<1>2. ASSUME NEW c \in requests, Serve(c) \/ Returned(c) PROVE StoresInv'
  BY <1>2, ServeKeeps, BlameAnswersKeep, DiffAnswersKeep, OthersReturn, SyncKeeps, OperationKeeps
  DEF Returned
<1> QED BY <1>1, <1>2, LooksKeep, WritesKeep, MergesKeep, PlansKeep, RefsKeep, DialogKeeps
        DEF StoresNext

\* A call under the present id of blame or diff is about what that store has
\* open, for any topics and any calls of the other stores in flight.
THEOREM RequestIdsGuard == StoresSpec => []StoresInv
BY StoresStart, StoresStep, PTL DEF StoresSpec

\* However the answers overtake each other, a blame, the commit beside it and a
\* diff on the screen are of the file asked for last (blame.ts, diff.ts: requestId).
THEOREM ShownFollowsRequests == StoresSpec => []ShownIsOfLastRequest
<1>1. StoresInv => ShownIsOfLastRequest
  BY DEF StoresInv, BlameInv, DiffInv, ShownIsOfLastRequest
<1> QED BY <1>1, RequestIdsGuard, PTL
=============================================================================
