---------------------------- MODULE ProcessRunner ----------------------------
(***************************************************************************)
(* run_process: one thread writes the input, one reads each stream, and    *)
(* the caller's thread polls until git has ended, the call is cancelled or *)
(* its time is over; then it collects what the threads have.               *)
(***************************************************************************)
EXTENDS ChildProcess

VARIABLES
    at,       \* where the caller's thread is
    outcome,  \* WaitOutcome
    writer,   \* the thread of stdin: "none", "writing" or "done"
    toSend,   \* what it has still to write
    reader,   \* the thread of each stream: "none", "reading" or "sent"
    read      \* what it has kept

threadVars == <<at, outcome, writer, toSend, reader, read>>

RunnerInit ==
    /\ at = "spawn" /\ outcome = "none"
    /\ writer = "none" /\ toSend = call.input
    /\ reader = [s \in Streams |-> "none"]
    /\ read = [s \in Streams |-> 0]

Spawn ==
    /\ at = "spawn"
    /\ Started
    /\ at' = "wait"
    /\ writer' = IF call.input > 0 THEN "writing" ELSE "none"
    /\ reader' = [s \in Streams |-> "reading"]
    /\ UNCHANGED <<callVars, outcome, toSend, read>>

SpawnFails ==
    /\ at = "spawn"
    /\ at' = "returned" /\ answer' = "ProcessFailure"
    /\ UNCHANGED <<call, cancelled, expired, kept, osVars,
                   outcome, writer, toSend, reader, read>>

\* The token and the clock are not looked at once the wait is over.
Cancel ==
    /\ ~cancelled /\ at \in {"spawn", "wait"}
    /\ cancelled' = TRUE
    /\ UNCHANGED <<call, expired, kept, answer, osVars, threadVars>>

Expire == at = "wait" /\ ~cancelled /\ TimePasses /\ UNCHANGED threadVars

-----------------------------------------------------------------------------
\* write_all, then the pipe is dropped; it ends early when nobody can read.
WriteInput ==
    /\ writer = "writing"
    /\ IF toSend > 0 /\ Holders("stdin") # {}
       THEN /\ pipe["stdin"] < PipeSize
            /\ pipe' = [pipe EXCEPT !["stdin"] = @ + 1]
            /\ toSend' = toSend - 1
            /\ UNCHANGED <<writer, closed>>
       ELSE /\ writer' = "done" /\ closed' = TRUE
            /\ UNCHANGED <<pipe, toSend>>
    /\ UNCHANGED <<callVars, process, holds, left, wrote, exit, signalled,
                   at, outcome, reader, read>>

\* Bytes beyond the cap are taken from the pipe and dropped.
ReadCapped(s) ==
    /\ reader[s] = "reading"
    /\ \/ /\ pipe[s] > 0
          /\ pipe' = [pipe EXCEPT ![s] = @ - 1]
          /\ read' = [read EXCEPT ![s] = IF @ < Cap THEN @ + 1 ELSE @]
          /\ UNCHANGED reader
       \/ /\ EndOfFile(s)
          /\ reader' = [reader EXCEPT ![s] = "sent"]
          /\ UNCHANGED <<pipe, read>>
    /\ UNCHANGED <<callVars, process, holds, closed, left, wrote, exit, signalled,
                   at, outcome, writer, toSend>>

-----------------------------------------------------------------------------
\* wait_with_timeout: an exit is seen first, then the token, then the clock.
Wait ==
    /\ at = "wait"
    /\ \/ /\ process["git"] = "ended"
          /\ outcome' = "Exited" /\ at' = "stdout"
       \/ /\ process["git"] # "ended" /\ cancelled
          /\ outcome' = "Cancelled" /\ at' = "kill"
       \/ /\ process["git"] # "ended" /\ ~cancelled /\ expired
          /\ outcome' = "TimedOut" /\ at' = "kill"
    /\ UNCHANGED <<callVars, osVars, writer, toSend, reader, read>>

\* Only git itself: a helper stays.
KillAndReap ==
    /\ at = "kill"
    /\ IF process["git"] = "running" THEN Ended("failure")
                                    ELSE UNCHANGED <<process, holds, exit>>
    /\ at' = "stdout"
    /\ UNCHANGED <<callVars, pipe, closed, left, wrote, signalled,
                   outcome, writer, toSend, reader, read>>

\* Mutated form: no grace, whatever the outcome.
ReadGraceNever == FALSE

ReadGrace == outcome \in {"TimedOut", "Cancelled"}

\* recv, or recv_timeout, which gives up on a thread that has sent nothing.
\* Mutated form: a grace for git that has ended too.
RecvReaderResultImpatient(s) ==
    kept' = [kept EXCEPT ![s] = IF reader[s] = "sent" THEN read[s] ELSE 0]

RecvReaderResult(s) ==
    /\ reader[s] = "sent" \/ ReadGrace
    /\ kept' = [kept EXCEPT ![s] = IF reader[s] = "sent" THEN read[s] ELSE 0]

Collect(s, next) ==
    /\ at = s
    /\ RecvReaderResult(s)
    /\ at' = next
    /\ UNCHANGED <<call, cancelled, expired, answer, osVars,
                   outcome, writer, toSend, reader, read>>

\* The thread of stdin is joined, then the outcome is turned into the answer.
Return ==
    /\ at = "join" /\ writer \in {"none", "done"}
    /\ answer' = CASE outcome = "TimedOut" -> "Timeout"
                   [] outcome = "Cancelled" -> "Cancelled"
                   [] outcome = "Exited" /\ exit = "success" -> "Ok"
                   [] OTHER -> "ProcessFailure"
    /\ at' = "returned"
    /\ UNCHANGED <<call, cancelled, expired, kept, osVars,
                   outcome, writer, toSend, reader, read>>

CallerStep ==
    \/ Spawn \/ SpawnFails \/ Wait \/ KillAndReap \/ Return
    \/ Collect("stdout", "stderr") \/ Collect("stderr", "join")

RunnerNext == CallerStep \/ Cancel \/ Expire \/ WriteInput \/ \E s \in Streams : ReadCapped(s)

-----------------------------------------------------------------------------
(***************************************************************************)
(* What keeps a call for as long as a helper likes: after a normal exit a  *)
(* stream that the helper holds, and in any case an input it holds and     *)
(* does not read.                                                          *)
(***************************************************************************)
HeldByHelper ==
    \/ at \in Streams /\ outcome = "Exited" /\ "helper" \in Holders(at)
    \/ at = "join" /\ writer = "writing" /\ "helper" \in Holders("stdin")
=============================================================================
