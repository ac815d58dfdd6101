---------------------------- MODULE VsCodeProcess ----------------------------
(***************************************************************************)
(* runGit of the editor's extension: one thread and its events, of which   *)
(* the first to settle the call wins.  A call without a bound does not     *)
(* exist, and git has no input.                                            *)
(***************************************************************************)
EXTENDS ChildProcess

VARIABLES
    promise,    \* "new", "pending" or "settled"
    truncated   \* stdout was longer than what is kept

editorVars == <<promise, truncated>>

EditorInit == promise = "new" /\ truncated = FALSE

Settle(result) ==
    /\ promise' = "settled"
    /\ answer' = result

RunGit ==
    /\ promise = "new"
    /\ IF cancelled
       THEN Settle("Cancelled") /\ UNCHANGED osVars
       ELSE Started /\ promise' = "pending" /\ UNCHANGED answer
    /\ UNCHANGED <<call, cancelled, expired, kept, truncated>>

\* The "error" event: git is missing, or could not be started.
StartFails ==
    /\ promise = "new" /\ ~cancelled
    /\ \E e \in {"NotFound", "ProcessError"} : Settle(e)
    /\ UNCHANGED <<call, cancelled, expired, kept, truncated, osVars>>

\* Mutated form: the call is settled and git is left running.
OnAbortUnkilled ==
    /\ ~cancelled
    /\ cancelled' = TRUE
    /\ IF promise = "pending" THEN Settle("Cancelled") ELSE UNCHANGED <<promise, answer>>
    /\ UNCHANGED <<call, expired, kept, truncated, osVars>>

OnAbort ==
    /\ ~cancelled
    /\ cancelled' = TRUE
    /\ IF promise = "pending"
       THEN Settle("Cancelled") /\ signalled' = TRUE
       ELSE UNCHANGED <<promise, answer, signalled>>
    /\ UNCHANGED <<call, expired, kept, truncated,
                   process, holds, pipe, closed, left, wrote, exit>>

OnTimeout ==
    /\ promise = "pending"
    /\ Settle("Timeout") /\ signalled' = TRUE
    /\ UNCHANGED <<call, cancelled, expired, kept, truncated,
                   process, holds, pipe, closed, left, wrote, exit>>

\* The stream flows on after the call is settled; nobody listens then.
OnData(s) ==
    /\ promise # "new" /\ pipe[s] > 0
    /\ pipe' = [pipe EXCEPT ![s] = @ - 1]
    /\ IF promise = "pending"
       THEN /\ kept' = [kept EXCEPT ![s] = IF @ < Cap THEN @ + 1 ELSE @]
            /\ truncated' = (truncated \/ (s = "stdout" /\ kept[s] >= Cap))
       ELSE UNCHANGED <<kept, truncated>>
    /\ UNCHANGED <<call, cancelled, expired, answer, promise,
                   process, holds, closed, left, wrote, exit, signalled>>

\* The "close" event: git has ended and its streams are at their end.  Any exit
\* is an answer; runGitChecked and tryRunGit turn a bad one into theirs.
OnClose ==
    /\ promise = "pending" /\ process["git"] = "ended"
    /\ \A s \in Streams : EndOfFile(s)
    /\ Settle(IF exit = "success" THEN "Ok" ELSE "ProcessFailure")
    /\ UNCHANGED <<call, cancelled, expired, kept, truncated, osVars>>

EditorNext ==
    RunGit \/ StartFails \/ OnAbort \/ OnTimeout \/ OnClose \/ \E s \in Streams : OnData(s)
=============================================================================
