------------------------------ MODULE MCProcesses ------------------------------
(***************************************************************************)
(* One call of git by the core or by the editor's extension, in every      *)
(* environment, and what both promise.                                     *)
(***************************************************************************)
EXTENDS ProcessRunner, VsCodeProcess

processVars == <<callVars, osVars, threadVars, editorVars>>

ProcessInit == ChildInit /\ RunnerInit /\ EditorInit

\* Nothing is looked at after the answer.
CoreStep == call.host = "core" /\ ~Answered /\ RunnerNext /\ UNCHANGED editorVars
EditorStep == call.host = "editor" /\ ~Answered /\ EditorNext /\ UNCHANGED threadVars
Environment == ~Answered /\ OsNext /\ UNCHANGED <<threadVars, editorVars>>

CallDone == Answered /\ UNCHANGED processVars

ProcessNext == CoreStep \/ EditorStep \/ Environment \/ CallDone

(***************************************************************************)
(* The threads of the core and the events of the editor are scheduled, and *)
(* time passes.  Nothing is assumed of git, which may hang, of helpers, or *)
(* of a user who might cancel.                                             *)
(***************************************************************************)
Fairness ==
    /\ WF_processVars(call.host = "core" /\ CallerStep /\ UNCHANGED editorVars)
    /\ WF_processVars(call.host = "core" /\ Expire /\ UNCHANGED editorVars)
    /\ WF_processVars(call.host = "core" /\ WriteInput /\ UNCHANGED editorVars)
    /\ \A s \in Streams :
           /\ WF_processVars(call.host = "core" /\ ReadCapped(s) /\ UNCHANGED editorVars)
           /\ WF_processVars(call.host = "editor" /\ OnData(s) /\ UNCHANGED threadVars)
    /\ WF_processVars(call.host = "editor" /\ (RunGit \/ StartFails \/ OnTimeout \/ OnClose)
                   /\ UNCHANGED threadVars)

ProcessSpec == ProcessInit /\ [][ProcessNext]_processVars /\ Fairness

-----------------------------------------------------------------------------
CallsAreWell ==
    /\ call \in Calls
    /\ process \in [Processes -> {"none", "running", "ended"}]
    /\ pipe \in [Pipes -> 0 .. PipeSize]
    /\ \A s \in Streams : kept[s] \in 0 .. Cap /\ read[s] \in 0 .. Cap
    /\ outcome \in {"none", "Exited", "TimedOut", "Cancelled"}
    /\ answer \in {"none", "Ok", "ProcessFailure", "Timeout", "Cancelled",
                   "NotFound", "ProcessError"}

\* git goes on while it can read or write.
GitGoesOn == WF_processVars(GitWorks /\ UNCHANGED <<threadVars, editorVars>>)

\* A call of a git that goes on, or whose time is bounded, or that is cancelled
\* returns, whatever is written on the streams in whatever order, unless a
\* helper holds a pipe (run_process, runGit).
Returns ==
    (GitGoesOn \/ call.timed \/ <>cancelled) => <>Answered \/ <>[]HeldByHelper

\* An answer that is about an exit has all that was written, up to the cap: the
\* exit does not overtake the streams (recv_reader_result, the "close" event).
\* The editor says so when that is not all (truncated).
OutputIsWhole ==
    exit # "none" /\ answer \in {"Ok", "ProcessFailure"} =>
        /\ \A s \in Streams : kept[s] = (IF wrote[s] < Cap THEN wrote[s] ELSE Cap)
        /\ call.host = "editor" => (truncated <=> wrote["stdout"] > kept["stdout"])

\* No call returns and leaves git at work: it has ended, or has been asked to.
NothingLeftRunning == Answered => process["git"] # "running" \/ signalled

=============================================================================
