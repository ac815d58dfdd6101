----------------------------- MODULE ChildProcess -----------------------------
(***************************************************************************)
(* One call of git, as its caller and the operating system see it: the    *)
(* process, a helper it may leave behind (a credential helper, a hook's    *)
(* background job) and the pipes both may hold.  Nothing here is code of   *)
(* the repository; ProcessRunner and VsCodeProcess are the two callers.    *)
(***************************************************************************)
EXTENDS Naturals

CONSTANTS PipeSize,  \* bytes a pipe holds before its writer waits
          Cap,       \* bytes of a stream its reader keeps
          MaxBytes   \* bytes git reads or writes on a stream

ASSUME SizeAssumption == PipeSize \in Nat \ {0} /\ Cap \in Nat /\ MaxBytes \in Nat

Streams == {"stdout", "stderr"}
Pipes == Streams \cup {"stdin"}
Processes == {"git", "helper"}

VARIABLES
    call,       \* who calls, with how much input, and whether time is bounded
    cancelled,  \* the caller has cancelled
    expired,    \* the time of the call is over
    process,    \* "none", "running" or "ended"
    holds,      \* the pipes each process has an end of
    pipe,       \* the bytes in each pipe
    closed,     \* the caller's end of stdin is closed
    left,       \* what git has still to write
    wrote,      \* what was written to each stream
    exit,       \* how git has ended
    signalled,  \* git has been asked to end
    kept,       \* what the caller keeps of each stream
    answer      \* what the call has returned

callVars == <<call, cancelled, expired, kept, answer>>
osVars == <<process, holds, pipe, closed, left, wrote, exit, signalled>>

\* git reads its input before it writes its output, or after.
Calls == [host : {"core", "editor"}, timed : BOOLEAN, input : {0, MaxBytes},
          readsFirst : BOOLEAN]

ChildInit ==
    /\ call \in {c \in Calls : (c.host = "editor" => c.timed /\ c.input = 0)
                             /\ (c.readsFirst => c.input > 0)}
    /\ cancelled = FALSE /\ expired = FALSE
    /\ process = [p \in Processes |-> "none"]
    /\ holds = [p \in Processes |-> {}]
    /\ pipe = [p \in Pipes |-> 0]
    /\ closed = (call.input = 0)
    /\ left \in [Streams -> {0, MaxBytes}]
    /\ wrote = [s \in Streams |-> 0]
    /\ exit = "none" /\ signalled = FALSE
    /\ kept = [s \in Streams |-> 0]
    /\ answer = "none"

Answered == answer # "none"
Holders(p) == {q \in Processes : p \in holds[q]}
EndOfFile(s) == pipe[s] = 0 /\ Holders(s) = {}

Started ==
    /\ process' = [process EXCEPT !["git"] = "running"]
    /\ holds' = [holds EXCEPT !["git"] = IF call.input > 0 THEN Pipes ELSE Streams]
    /\ UNCHANGED <<pipe, closed, left, wrote, exit, signalled>>

Ended(how) ==
    /\ process' = [process EXCEPT !["git"] = "ended"]
    /\ holds' = [holds EXCEPT !["git"] = {}]
    /\ exit' = how

-----------------------------------------------------------------------------
InputRead == call.input = 0 \/ (closed /\ pipe["stdin"] = 0)
OutputWritten == \A s \in Streams : left[s] = 0

GitReads ==
    /\ process["git"] = "running" /\ pipe["stdin"] > 0
    /\ call.readsFirst \/ OutputWritten
    /\ pipe' = [pipe EXCEPT !["stdin"] = @ - 1]
    /\ UNCHANGED <<callVars, process, holds, closed, left, wrote, exit, signalled>>

GitWrites(s) ==
    /\ process["git"] = "running" /\ left[s] > 0 /\ pipe[s] < PipeSize
    /\ call.readsFirst => InputRead
    /\ pipe' = [pipe EXCEPT ![s] = @ + 1]
    /\ left' = [left EXCEPT ![s] = @ - 1]
    /\ wrote' = [wrote EXCEPT ![s] = @ + 1]
    /\ UNCHANGED <<callVars, process, holds, closed, exit, signalled>>

GitEnds ==
    /\ process["git"] = "running" /\ InputRead /\ OutputWritten
    /\ Ended("success")
    /\ UNCHANGED <<callVars, pipe, closed, left, wrote, signalled>>

\* git gives up, or is interrupted, whatever it has read and written.
GitFails ==
    /\ process["git"] = "running"
    /\ Ended("failure")
    /\ UNCHANGED <<callVars, pipe, closed, left, wrote, signalled>>

\* The helper takes over one of git's pipes or all of them, and may outlive it.
HelperStarts ==
    /\ process["git"] = "running" /\ process["helper"] = "none"
    /\ \E inherited \in {holds["git"]} \cup {{p} : p \in holds["git"]} :
           holds' = [holds EXCEPT !["helper"] = inherited]
    /\ process' = [process EXCEPT !["helper"] = "running"]
    /\ UNCHANGED <<callVars, pipe, closed, left, wrote, exit, signalled>>

\* The helper adds to a stream on which nothing is written yet.
HelperWrites(s) ==
    /\ "helper" \in Holders(s) /\ pipe[s] < PipeSize /\ wrote[s] = 0
    /\ pipe' = [pipe EXCEPT ![s] = @ + 1]
    /\ wrote' = [wrote EXCEPT ![s] = @ + 1]
    /\ UNCHANGED <<callVars, process, holds, closed, left, exit, signalled>>

HelperEnds ==
    /\ process["helper"] = "running"
    /\ process' = [process EXCEPT !["helper"] = "ended"]
    /\ holds' = [holds EXCEPT !["helper"] = {}]
    /\ UNCHANGED <<callVars, pipe, closed, left, wrote, exit, signalled>>

TimePasses ==
    /\ call.timed /\ ~expired
    /\ expired' = TRUE
    /\ UNCHANGED <<call, cancelled, kept, answer, osVars>>

GitWorks == GitReads \/ (\E s \in Streams : GitWrites(s)) \/ GitEnds

OsNext ==
    \/ GitWorks \/ GitFails \/ HelperStarts \/ HelperEnds
    \/ \E s \in Streams : HelperWrites(s)
=============================================================================
