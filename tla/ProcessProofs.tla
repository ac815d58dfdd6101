----------------------------- MODULE ProcessProofs -----------------------------
(***************************************************************************)
(* Proofs about one call of git, by the core and by the editor: what its   *)
(* answer has of the output, and that git is not left at work, for pipes,  *)
(* caps and outputs of every size and every environment.                   *)
(*                                                                         *)
(* The argument counts bytes.  What has left the pipe of a stream was      *)
(* taken by the one who reads it, who has it up to the cap; a reader is    *)
(* done only when the pipe is empty and nobody holds it, and nothing can   *)
(* be written from then on; and an exit is answered only when the readers  *)
(* are done.                                                               *)
(***************************************************************************)
EXTENDS MCProcesses, TLAPS

AtCap(n) == IF n < Cap THEN n ELSE Cap
Taken(s) == wrote[s] - pipe[s]

Shape ==
    /\ call \in Calls
    /\ process \in [Processes -> {"none", "running", "ended"}]
    /\ holds \in [Processes -> SUBSET Pipes]
    /\ pipe \in [Pipes -> 0 .. PipeSize]
    /\ wrote \in [Streams -> Nat]
    /\ exit \in {"none", "success", "failure"}
    /\ kept \in [Streams -> 0 .. Cap]
    /\ answer \in {"none", "Ok", "ProcessFailure", "Timeout", "Cancelled",
                   "NotFound", "ProcessError"}
    /\ at \in Streams \cup {"spawn", "wait", "kill", "join", "returned"}
    /\ outcome \in {"none", "Exited", "TimedOut", "Cancelled"}
    /\ reader \in [Streams -> {"none", "reading", "sent"}]
    /\ read \in [Streams -> 0 .. Cap]
    /\ promise \in {"new", "pending", "settled"}

\* git has its streams while it runs, and has them no longer once it has ended.
Lifetime ==
    /\ process["git"] = "running" => Streams \subseteq holds["git"]
    /\ process["git"] # "running" => holds["git"] = {}
    /\ exit # "none" <=> process["git"] = "ended"

\* Where the caller's thread is says what has become of git.
CoreOrder ==
    /\ Answered <=> at = "returned"
    /\ at = "spawn" => process["git"] = "none"
    /\ at \in {"wait", "kill"} => process["git"] # "none"
    /\ at \in {"stdout", "stderr", "join"} => process["git"] = "ended"
    /\ at = "returned" => process["git"] # "running"
    /\ at \in {"spawn", "wait"} => outcome = "none"
    /\ at = "kill" => outcome \in {"TimedOut", "Cancelled"}
    /\ at \in {"stdout", "stderr", "join"} => outcome # "none"
    /\ answer \in {"Ok", "ProcessFailure"} /\ exit # "none" => outcome = "Exited"

Collected(s) == at \in {"join", "returned"} \/ (s = "stdout" /\ at = "stderr")

CoreBytes ==
    \A s \in Streams :
        /\ read[s] = AtCap(Taken(s))
        /\ reader[s] # "none" => process["git"] # "none"
        /\ reader[s] = "sent" => EndOfFile(s)
        /\ outcome = "Exited" /\ Collected(s) => reader[s] = "sent" /\ kept[s] = read[s]

EditorOrder ==
    /\ Answered <=> promise = "settled"
    /\ promise = "new" => process["git"] = "none"
    /\ NothingLeftRunning

EditorBytes ==
    /\ ~Answered =>
           /\ \A s \in Streams : kept[s] = AtCap(Taken(s))
           /\ truncated <=> Taken("stdout") > Cap
    /\ OutputIsWhole

IInv ==
    /\ Shape
    /\ Lifetime
    /\ \A s \in Streams : pipe[s] <= wrote[s]
    /\ call.host = "core" => CoreOrder /\ CoreBytes
    /\ call.host = "editor" => EditorOrder /\ EditorBytes

-----------------------------------------------------------------------------
USE SizeAssumption DEF Streams, Pipes, Processes, Answered

LEMMA Initially == ProcessInit => IInv
<1> SUFFICES ASSUME ProcessInit PROVE IInv
  OBVIOUS
<1> USE DEF ProcessInit, ChildInit, RunnerInit, EditorInit
<1>1. Shape
  BY DEF Shape, Calls
<1>2. Lifetime /\ \A s \in Streams : pipe[s] <= wrote[s]
  BY DEF Lifetime
<1>3. call.host = "core" => CoreOrder /\ CoreBytes
  BY DEF CoreOrder, CoreBytes, AtCap, Taken, Collected
<1>4. ~Answered /\ answer = "none"
  OBVIOUS
<1>5. (truncated <=> Taken("stdout") > Cap)
  <2>1. ~ (Taken("stdout") > Cap)
    BY DEF Taken
  <2>2. ~ truncated
    OBVIOUS
  <2>. QED BY <2>1, <2>2
<1>6. call.host = "editor" => EditorOrder /\ EditorBytes
  <2>1. EditorOrder
    BY DEF EditorOrder, NothingLeftRunning
  <2>2. \A s \in Streams : kept[s] = AtCap(Taken(s))
    BY DEF AtCap, Taken
  <2>3. OutputIsWhole
    BY <1>4 DEF OutputIsWhole
  <2>. QED BY <2>1, <2>2, <2>3, <1>5, <1>4 DEF EditorBytes
<1>. QED BY <1>1, <1>2, <1>3, <1>6 DEF IInv

-----------------------------------------------------------------------------
(***************************************************************************)
(* The environment: git, its helper, and what they do to the streams.      *)
(***************************************************************************)

\* What no step of the environment touches.
Callers == <<callVars, threadVars, editorVars>>

LEMMA EnvironmentShape ==
  ASSUME IInv, OsNext, UNCHANGED <<threadVars, editorVars>>
  PROVE  /\ Shape' /\ Lifetime'
         /\ UNCHANGED Callers
         /\ \A s \in Streams : pipe'[s] <= wrote'[s] /\ Taken(s)' = Taken(s)
         /\ \A s \in Streams : EndOfFile(s) /\ process["git"] # "none" => EndOfFile(s)'
         /\ process["git"] = "ended" => process'["git"] = "ended" /\ exit' = exit
         /\ process["git"] = "none" => process'["git"] = "none"
         /\ process["git"] = "running" => process'["git"] # "none"
         /\ UNCHANGED signalled
<1> USE DEF IInv, Shape, Lifetime, Callers, Taken, EndOfFile, Holders, callVars, threadVars,
            editorVars
<1>1. CASE GitReads
  BY <1>1 DEF GitReads
<1>2. ASSUME NEW s \in Streams, GitWrites(s)
      PROVE  /\ Shape' /\ Lifetime'
             /\ UNCHANGED Callers
             /\ \A t \in Streams : pipe'[t] <= wrote'[t] /\ Taken(t)' = Taken(t)
             /\ \A t \in Streams : EndOfFile(t) /\ process["git"] # "none" => EndOfFile(t)'
             /\ UNCHANGED <<process, exit, signalled>>
  BY <1>2 DEF GitWrites
<1>3. CASE GitEnds
  BY <1>3 DEF GitEnds, Ended
<1>4. CASE GitFails
  BY <1>4 DEF GitFails, Ended
<1>5. CASE HelperStarts
  BY <1>5 DEF HelperStarts
<1>6. CASE HelperEnds
  BY <1>6 DEF HelperEnds
<1>7. ASSUME NEW s \in Streams, HelperWrites(s)
      PROVE  /\ Shape' /\ Lifetime'
             /\ UNCHANGED Callers
             /\ \A t \in Streams : pipe'[t] <= wrote'[t] /\ Taken(t)' = Taken(t)
             /\ \A t \in Streams : EndOfFile(t) /\ process["git"] # "none" => EndOfFile(t)'
             /\ UNCHANGED <<process, exit, signalled>>
  BY <1>7 DEF HelperWrites
<1>. QED
  BY <1>1, <1>2, <1>3, <1>4, <1>5, <1>6, <1>7 DEF OsNext, GitWorks

LEMMA EnvironmentKeeps == IInv /\ Environment => IInv'
<1> SUFFICES ASSUME IInv, Environment PROVE IInv'
  OBVIOUS
<1>1. ~Answered /\ OsNext /\ UNCHANGED <<threadVars, editorVars>>
  BY DEF Environment
<1>2. /\ Shape' /\ Lifetime'
      /\ UNCHANGED Callers
      /\ \A s \in Streams : pipe'[s] <= wrote'[s] /\ Taken(s)' = Taken(s)
      /\ \A s \in Streams : EndOfFile(s) /\ process["git"] # "none" => EndOfFile(s)'
      /\ process["git"] = "ended" => process'["git"] = "ended" /\ exit' = exit
      /\ process["git"] = "none" => process'["git"] = "none"
      /\ process["git"] = "running" => process'["git"] # "none"
  BY <1>1, EnvironmentShape
<1>3. /\ UNCHANGED <<call, kept, answer, at, outcome, reader, read, promise, truncated>>
      /\ answer' = "none"
  BY <1>1, <1>2 DEF Callers, callVars, threadVars, editorVars
<1>4. ASSUME call.host = "core" PROVE CoreOrder' /\ CoreBytes'
  <2>1. CoreOrder /\ CoreBytes
    BY <1>4 DEF IInv
  <2>2. CoreOrder'
    BY <1>1, <1>2, <1>3, <2>1 DEF IInv, Shape, CoreOrder
  <2>3. ASSUME NEW s \in Streams
        PROVE  /\ read'[s] = AtCap(Taken(s))'
               /\ reader'[s] # "none" => process'["git"] # "none"
               /\ reader'[s] = "sent" => EndOfFile(s)'
               /\ outcome' = "Exited" /\ Collected(s)' => reader'[s] = "sent" /\ kept'[s] = read'[s]
    <3>1. AtCap(Taken(s))' = AtCap(Taken(s))
      BY <1>2 DEF AtCap
    <3>2. process["git"] # "none" => process'["git"] # "none"
      BY <1>1, <1>2 DEF IInv, Shape
    <3>. QED BY <1>2, <1>3, <2>1, <3>1, <3>2 DEF CoreBytes, Collected
  <2>. QED BY <2>2, <2>3 DEF CoreBytes
<1>5. ASSUME call.host = "editor" PROVE EditorOrder' /\ EditorBytes'
  <2>1. EditorOrder /\ EditorBytes
    BY <1>5 DEF IInv
  <2>2. EditorOrder'
    BY <1>1, <1>2, <1>3, <2>1 DEF EditorOrder, NothingLeftRunning
  <2>3. \A s \in Streams : kept'[s] = AtCap(Taken(s))'
    BY <1>1, <1>2, <1>3, <2>1 DEF EditorBytes, AtCap
  <2>4. (truncated <=> Taken("stdout") > Cap)'
    BY <1>1, <1>2, <1>3, <2>1 DEF EditorBytes
  <2>5. OutputIsWhole'
    BY <1>3 DEF OutputIsWhole
  <2>. QED BY <2>2, <2>3, <2>4, <2>5 DEF EditorBytes
<1>. QED BY <1>2, <1>3, <1>4, <1>5 DEF IInv

-----------------------------------------------------------------------------
(***************************************************************************)
(* The core.                                                               *)
(***************************************************************************)

LEMMA CoreKeeps == IInv /\ CoreStep => IInv'
<1> SUFFICES ASSUME IInv, CoreStep PROVE IInv'
  OBVIOUS
<1>1. /\ call.host = "core" /\ ~Answered /\ RunnerNext
      /\ UNCHANGED <<promise, truncated>>
  BY DEF CoreStep, editorVars
<1>2. Shape /\ Lifetime /\ CoreOrder /\ CoreBytes /\ \A s \in Streams : pipe[s] <= wrote[s]
  BY <1>1 DEF IInv
<1>3. ASSUME call' = call, Shape', Lifetime', CoreOrder', CoreBytes',
             \A s \in Streams : pipe'[s] <= wrote'[s]
      PROVE  IInv'
  BY <1>1, <1>3 DEF IInv
<1>4. CASE Spawn
  <2> USE <1>4 DEF Spawn, Started, callVars
  <2>1. Shape'
    BY <1>1, <1>2 DEF Shape
  <2>2. Lifetime' /\ CoreOrder'
    BY <1>1, <1>2 DEF Shape, Lifetime, CoreOrder
  <2>3. CoreBytes'
    BY <1>1, <1>2 DEF Shape, CoreOrder, CoreBytes, Collected, Taken, AtCap
  <2>. QED BY <1>2, <1>3, <2>1, <2>2, <2>3
<1>5. CASE SpawnFails
  <2> USE <1>5 DEF SpawnFails, osVars
  <2>1. Shape'
    BY <1>1, <1>2 DEF Shape
  <2>2. Lifetime' /\ CoreOrder'
    BY <1>1, <1>2 DEF Shape, Lifetime, CoreOrder
  <2>3. CoreBytes'
    BY <1>1, <1>2 DEF Shape, CoreOrder, CoreBytes, Collected, Taken, AtCap, EndOfFile, Holders
  <2>. QED BY <1>2, <1>3, <2>1, <2>2, <2>3
<1>6. CASE Cancel \/ Expire
  <2>1. UNCHANGED <<call, kept, answer, osVars, threadVars>>
    BY <1>6 DEF Cancel, Expire, TimePasses
  <2> USE <2>1 DEF osVars, threadVars
  <2>2. Shape' /\ Lifetime' /\ CoreOrder'
    BY <1>1, <1>2 DEF Shape, Lifetime, CoreOrder
  <2>3. CoreBytes'
    BY <1>2 DEF CoreBytes, Collected, Taken, AtCap, EndOfFile, Holders
  <2>. QED BY <1>2, <1>3, <2>2, <2>3
<1>7. CASE WriteInput
  <2>1. /\ UNCHANGED <<callVars, process, holds, wrote, exit, at, outcome, reader, read>>
        /\ pipe' \in [Pipes -> 0 .. PipeSize]
        /\ \A s \in Streams : pipe'[s] = pipe[s]
    BY <1>2, <1>7 DEF WriteInput, Shape
  <2> USE <2>1 DEF callVars
  <2>2. Shape' /\ Lifetime' /\ CoreOrder'
    BY <1>1, <1>2 DEF Shape, Lifetime, CoreOrder
  <2>3. CoreBytes'
    BY <1>2 DEF CoreBytes, Collected, Taken, AtCap, EndOfFile, Holders
  <2>. QED BY <1>2, <1>3, <2>2, <2>3
<1>8. ASSUME NEW s \in Streams, ReadCapped(s) PROVE IInv'
  <2>1. /\ UNCHANGED <<callVars, process, holds, wrote, exit, at, outcome>>
        /\ reader[s] = "reading"
    BY <1>8 DEF ReadCapped
  <2> USE <2>1 DEF callVars
  <2>2. Shape' /\ Lifetime' /\ CoreOrder'
    <3>1. Shape'
      BY <1>1, <1>2, <1>8 DEF Shape, ReadCapped
    <3>. QED BY <1>1, <1>2, <3>1 DEF Lifetime, CoreOrder
  <2>3. CASE pipe[s] > 0 /\ pipe' = [pipe EXCEPT ![s] = @ - 1]
             /\ read' = [read EXCEPT ![s] = IF @ < Cap THEN @ + 1 ELSE @] /\ reader' = reader
    <3>1. \A t \in Streams : pipe'[t] <= wrote'[t]
      BY <1>2, <2>3 DEF Shape
    <3>2. read'[s] = AtCap(Taken(s))'
      BY <1>2, <2>3 DEF Shape, CoreBytes, AtCap, Taken
    <3>3. ASSUME NEW t \in Streams, t # s
          PROVE  /\ read'[t] = AtCap(Taken(t))'
                 /\ reader'[t] # "none" => process'["git"] # "none"
                 /\ reader'[t] = "sent" => EndOfFile(t)'
                 /\ outcome' = "Exited" /\ Collected(t)' =>
                        reader'[t] = "sent" /\ kept'[t] = read'[t]
      BY <1>2, <2>3, <3>3 DEF Shape, CoreBytes, AtCap, Taken, EndOfFile, Holders, Collected
    <3>4. ~ (outcome' = "Exited" /\ Collected(s)')
      BY <1>2, <2>3 DEF CoreBytes, Collected
    <3>5. CoreBytes'
      BY <1>2, <2>3, <3>2, <3>3, <3>4 DEF CoreBytes
    <3>. QED BY <1>3, <2>2, <3>1, <3>5
  <2>4. CASE EndOfFile(s) /\ reader' = [reader EXCEPT ![s] = "sent"] /\ UNCHANGED <<pipe, read>>
    <3>1. CoreBytes'
      BY <1>2, <2>4 DEF Shape, CoreBytes, AtCap, Taken, EndOfFile, Holders, Collected
    <3>. QED BY <1>2, <1>3, <2>2, <2>4, <3>1
  <2>. QED BY <1>8, <2>3, <2>4 DEF ReadCapped
<1>9. CASE Wait
  <2>1. UNCHANGED <<callVars, osVars, reader, read>>
    BY <1>9 DEF Wait
  <2> USE <2>1 DEF callVars, osVars
  <2>2. Shape' /\ Lifetime' /\ CoreOrder'
    BY <1>1, <1>2, <1>9 DEF Wait, Shape, Lifetime, CoreOrder
  <2>3. \A s \in Streams : ~ Collected(s)'
    BY <1>9 DEF Wait, Collected
  <2>4. CoreBytes'
    BY <1>2, <2>3 DEF CoreBytes, Taken, AtCap, EndOfFile, Holders
  <2>. QED BY <1>2, <1>3, <2>2, <2>4
<1>10. CASE KillAndReap
  <2> USE <1>10 DEF KillAndReap, Ended, callVars
  <2>1. Shape'
    BY <1>1, <1>2 DEF Shape
  <2>2. Lifetime' /\ CoreOrder'
    BY <1>1, <1>2 DEF Shape, Lifetime, CoreOrder
  <2>3. \A s \in Streams : ~ Collected(s)' /\ (EndOfFile(s) => EndOfFile(s)')
    BY <1>2 DEF Collected, EndOfFile, Holders, Shape
  <2>4. CoreBytes'
    BY <1>2, <2>3 DEF CoreBytes, Taken, AtCap, Shape
  <2>. QED BY <1>2, <1>3, <2>1, <2>2, <2>4
<1>11. ASSUME NEW s \in Streams, NEW next, Collect(s, next),
              <<s, next>> \in {<<"stdout", "stderr">>, <<"stderr", "join">>}
       PROVE  IInv'
  <2> USE <1>11 DEF Collect, RecvReaderResult, osVars
  <2>1. Shape'
    BY <1>1, <1>2 DEF Shape
  <2>2. Lifetime' /\ CoreOrder'
    BY <1>1, <1>2 DEF Shape, Lifetime, CoreOrder
  <2>3. outcome = "Exited" => reader[s] = "sent" /\ kept'[s] = read[s]
    BY <1>2 DEF ReadGrace, Shape
  <2>4. \A t \in Streams : t # s /\ Collected(t)' => Collected(t) /\ kept'[t] = kept[t]
    BY <1>2 DEF Collected, Shape
  <2>5. CoreBytes'
    BY <1>2, <2>3, <2>4 DEF CoreBytes, Taken, AtCap, EndOfFile, Holders
  <2>. QED BY <1>2, <1>3, <2>1, <2>2, <2>5
<1>12. CASE Return
  <2>1. /\ UNCHANGED <<call, kept, osVars, outcome, reader, read>>
        /\ at = "join" /\ at' = "returned"
    BY <1>12 DEF Return
  <2>2. /\ answer' \in {"Ok", "ProcessFailure", "Timeout", "Cancelled"}
        /\ outcome = "TimedOut" => answer' = "Timeout"
        /\ outcome = "Cancelled" => answer' = "Cancelled"
    <3>1. CASE outcome = "TimedOut"
      BY <1>12, <3>1 DEF Return
    <3>2. CASE outcome = "Cancelled"
      BY <1>12, <3>2 DEF Return
    <3>3. CASE outcome \notin {"TimedOut", "Cancelled"}
      BY <1>12, <3>3 DEF Return
    <3>. QED BY <3>1, <3>2, <3>3
  <2> USE <2>1 DEF osVars
  <2>3. Shape'
    BY <1>1, <1>2, <2>2 DEF Shape
  <2>4. Lifetime' /\ CoreOrder'
    BY <1>2, <2>2 DEF Shape, Lifetime, CoreOrder
  <2>5. CoreBytes'
    BY <1>2 DEF CoreBytes, Taken, AtCap, EndOfFile, Holders, Collected
  <2>. QED BY <1>2, <1>3, <2>3, <2>4, <2>5
<1>. QED
  BY <1>1, <1>4, <1>5, <1>6, <1>7, <1>8, <1>9, <1>10, <1>11, <1>12 DEF RunnerNext, CallerStep

-----------------------------------------------------------------------------
(***************************************************************************)
(* The editor.                                                             *)
(***************************************************************************)

LEMMA EditorKeeps == IInv /\ EditorStep => IInv'
<1> SUFFICES ASSUME IInv, EditorStep PROVE IInv'
  OBVIOUS
<1>1. /\ call.host = "editor" /\ ~Answered /\ answer = "none" /\ EditorNext
      /\ UNCHANGED <<at, outcome, writer, toSend, reader, read>>
  BY DEF EditorStep, threadVars
<1>2. Shape /\ Lifetime /\ EditorOrder /\ EditorBytes /\ \A s \in Streams : pipe[s] <= wrote[s]
  BY <1>1 DEF IInv
<1>3. promise \in {"new", "pending"}
  BY <1>1, <1>2 DEF Shape, EditorOrder
<1>4. /\ \A s \in Streams : kept[s] = AtCap(Taken(s))
      /\ truncated <=> Taken("stdout") > Cap
  BY <1>1, <1>2 DEF EditorBytes
<1>5. ASSUME call' = call, Shape', Lifetime', EditorOrder', EditorBytes',
             \A s \in Streams : pipe'[s] <= wrote'[s]
      PROVE  IInv'
  BY <1>1, <1>5 DEF IInv
<1>6. ASSUME \/ UNCHANGED <<call, kept, truncated, process, holds, pipe, wrote, exit>>
             \/ UNCHANGED <<call, kept, truncated, pipe, wrote, exit>> /\ Started
                /\ promise = "new",
             Shape', EditorOrder',
             Answered' => answer' \notin {"Ok", "ProcessFailure"} \/ OutputIsWhole'
      PROVE  IInv'
  <2>1. UNCHANGED <<call, kept, truncated, pipe, wrote, exit>>
    BY <1>6
  <2>2. Lifetime'
    BY <1>2, <1>6, <1>3 DEF Lifetime, Started, EditorOrder, Shape
  <2>3. EditorBytes'
    <3>1. \A s \in Streams : kept'[s] = AtCap(Taken(s))'
      BY <2>1, <1>4 DEF AtCap, Taken
    <3>2. (truncated <=> Taken("stdout") > Cap)'
      BY <2>1, <1>4 DEF Taken
    <3>3. OutputIsWhole'
      BY <1>6 DEF OutputIsWhole
    <3>. QED BY <3>1, <3>2, <3>3 DEF EditorBytes
  <2>. QED BY <1>2, <1>5, <1>6, <2>1, <2>2, <2>3
<1>7. CASE RunGit
  <2>1. Shape'
    BY <1>1, <1>2, <1>7 DEF RunGit, Settle, Started, osVars, Shape, callVars
  <2>2. EditorOrder'
    BY <1>1, <1>2, <1>7 DEF RunGit, Settle, Started, osVars, Shape, EditorOrder, NothingLeftRunning
  <2>3. answer' \in {"none", "Cancelled"}
    BY <1>1, <1>7 DEF RunGit, Settle
  <2>. QED BY <1>6, <1>7, <2>1, <2>2, <2>3 DEF RunGit, Settle, Started, osVars
<1>8. CASE StartFails
  <2>1. Shape' /\ EditorOrder' /\ answer' \in {"NotFound", "ProcessError"}
    BY <1>1, <1>2, <1>8 DEF StartFails, Settle, osVars, Shape, EditorOrder, NothingLeftRunning
  <2>. QED BY <1>6, <1>8, <2>1 DEF StartFails, osVars
<1>9. CASE OnAbort
  <2>1. Shape' /\ EditorOrder' /\ answer' \in {"none", "Cancelled"}
    BY <1>1, <1>2, <1>9 DEF OnAbort, Settle, Shape, EditorOrder, NothingLeftRunning
  <2>. QED BY <1>6, <1>9, <2>1 DEF OnAbort
<1>10. CASE OnTimeout
  <2>1. Shape' /\ EditorOrder' /\ answer' = "Timeout"
    BY <1>1, <1>2, <1>10 DEF OnTimeout, Settle, Shape, EditorOrder, NothingLeftRunning
  <2>. QED BY <1>6, <1>10, <2>1 DEF OnTimeout
<1>11. CASE OnClose
  <2>1. Shape' /\ EditorOrder'
    BY <1>1, <1>2, <1>11 DEF OnClose, Settle, osVars, Shape, EditorOrder, NothingLeftRunning
  <2>2. \A s \in Streams : Taken(s) = wrote[s]
    BY <1>2, <1>11 DEF OnClose, EndOfFile, Taken, Shape
  <2>3. UNCHANGED <<call, kept, truncated, wrote>>
    BY <1>11 DEF OnClose, osVars
  <2>4. \A s \in Streams : kept'[s] = (IF wrote'[s] < Cap THEN wrote'[s] ELSE Cap)
    BY <1>4, <2>2, <2>3 DEF AtCap
  <2>5. truncated' <=> wrote'["stdout"] > kept'["stdout"]
    <3>1. Taken("stdout") > Cap <=> wrote'["stdout"] > kept'["stdout"]
      BY <1>2, <2>2, <2>3, <2>4 DEF Shape
    <3>2. truncated' <=> truncated
      BY <2>3
    <3>. QED BY <1>4, <3>1, <3>2
  <2>6. OutputIsWhole'
    BY <2>4, <2>5 DEF OutputIsWhole
  <2>. QED BY <1>6, <1>11, <2>1, <2>6 DEF OnClose, osVars
<1>12. ASSUME NEW s \in Streams, OnData(s) PROVE IInv'
  <2>1. /\ promise = "pending" /\ pipe[s] > 0
        /\ pipe' = [pipe EXCEPT ![s] = @ - 1]
        /\ kept' = [kept EXCEPT ![s] = IF @ < Cap THEN @ + 1 ELSE @]
        /\ UNCHANGED <<call, answer, promise, process, holds, wrote, exit, signalled>>
    BY <1>3, <1>12 DEF OnData
  <2>2. truncated' <=> truncated \/ (s = "stdout" /\ kept[s] >= Cap)
    BY <2>1, <1>12 DEF OnData
  <2>3. Shape'
    BY <1>1, <1>2, <2>1 DEF Shape
  <2>4. /\ Lifetime' /\ EditorOrder'
        /\ \A t \in Streams : pipe'[t] <= wrote'[t]
    BY <1>1, <1>2, <2>1 DEF Lifetime, EditorOrder, NothingLeftRunning, Shape
  <2>5. \A t \in Streams : kept'[t] = AtCap(Taken(t))'
    BY <1>2, <1>4, <2>1 DEF Shape, AtCap, Taken
  <2>6. Taken("stdout")' > Cap <=> Taken("stdout") > Cap \/ (s = "stdout" /\ kept[s] >= Cap)
    BY <1>2, <1>4, <2>1 DEF Shape, AtCap, Taken
  <2>7. (truncated <=> Taken("stdout") > Cap)'
    BY <1>4, <2>2, <2>6
  <2>8. OutputIsWhole'
    BY <1>1, <2>1 DEF OutputIsWhole
  <2>9. EditorBytes'
    BY <2>5, <2>7, <2>8 DEF EditorBytes
  <2>. QED BY <1>5, <2>1, <2>3, <2>4, <2>9
<1>. QED BY <1>1, <1>7, <1>8, <1>9, <1>10, <1>11, <1>12 DEF EditorNext

LEMMA NextKeeps == IInv /\ [ProcessNext]_processVars => IInv'
<1> SUFFICES ASSUME IInv, [ProcessNext]_processVars PROVE IInv'
  OBVIOUS
<1>1. CASE CoreStep
  BY <1>1, CoreKeeps
<1>2. CASE EditorStep
  BY <1>2, EditorKeeps
<1>3. CASE Environment
  BY <1>3, EnvironmentKeeps
<1>4. CASE UNCHANGED processVars
  <2> USE <1>4 DEF processVars, callVars, osVars, threadVars, editorVars
  <2>1. Shape' /\ Lifetime' /\ \A s \in Streams : pipe'[s] <= wrote'[s]
    BY DEF IInv, Shape, Lifetime
  <2>2. call.host = "core" => CoreOrder' /\ CoreBytes'
    BY DEF IInv, CoreOrder, CoreBytes, Collected, AtCap, Taken, EndOfFile, Holders
  <2>3. ASSUME call.host = "editor" PROVE EditorOrder' /\ EditorBytes'
    <3>1. EditorOrder /\ EditorBytes
      BY <2>3 DEF IInv
    <3>2. EditorOrder' /\ (\A s \in Streams : kept'[s] = AtCap(Taken(s))' \/ Answered')
      BY <3>1 DEF EditorOrder, EditorBytes, NothingLeftRunning, AtCap, Taken
    <3>3. (Answered \/ (truncated <=> Taken("stdout") > Cap))'
      BY <3>1 DEF EditorBytes, Taken
    <3>4. OutputIsWhole'
      BY <3>1 DEF EditorBytes, OutputIsWhole
    <3>. QED BY <3>2, <3>3, <3>4 DEF EditorBytes
  <2>. QED BY <2>1, <2>2, <2>3 DEF IInv
<1>. QED BY <1>1, <1>2, <1>3, <1>4 DEF ProcessNext, CallDone

-----------------------------------------------------------------------------
LEMMA WholeOutput == IInv => OutputIsWhole
<1> SUFFICES ASSUME IInv, exit # "none", answer \in {"Ok", "ProcessFailure"}
             PROVE  OutputIsWhole
  BY DEF OutputIsWhole
<1>1. CASE call.host = "editor"
  BY <1>1 DEF IInv, EditorBytes
<1>2. CASE call.host = "core"
  <2>1. CoreOrder /\ CoreBytes /\ Shape
    BY <1>2 DEF IInv
  <2>2. at = "returned" /\ outcome = "Exited"
    BY <2>1 DEF CoreOrder
  <2>3. \A s \in Streams : kept[s] = AtCap(wrote[s])
    BY <2>1, <2>2 DEF CoreBytes, Collected, EndOfFile, Taken, Shape
  <2>. QED BY <1>2, <2>3 DEF OutputIsWhole, AtCap
<1>. QED BY <1>1, <1>2 DEF IInv, Shape, Calls

LEMMA NothingRuns == IInv => NothingLeftRunning
BY DEF IInv, Shape, Calls, CoreOrder, EditorOrder, NothingLeftRunning

\* For every size of the pipes, every cap and every output, the counting
\* invariant holds in every environment (run_process, runGit).
THEOREM BytesAreCounted == ProcessSpec => []IInv
<1>1. ProcessInit => IInv
  BY Initially
<1>2. IInv /\ [ProcessNext]_processVars => IInv'
  BY NextKeeps
<1>. QED BY <1>1, <1>2, PTL DEF ProcessSpec

\* An answer that is about an exit has all that was written, up to the cap
\* (run_process and recv_reader_result, runGit's "close" event).
THEOREM WholeAnswers == ProcessSpec => []OutputIsWhole
BY BytesAreCounted, WholeOutput, PTL

\* No call returns while git runs on that was not asked to end (kill_and_reap,
\* the kill of runGit's timeout and abort).
THEOREM GitIsNotLeft == ProcessSpec => []NothingLeftRunning
BY BytesAreCounted, NothingRuns, PTL
=============================================================================
