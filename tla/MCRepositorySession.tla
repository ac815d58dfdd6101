------------------------- MODULE MCRepositorySession -------------------------
(***************************************************************************)
(* Small instances of RepositorySession and of what surrounds it, one      *)
(* scenario per behaviour: two sessions with their locks; one with its     *)
(* refreshes; one with the queries of its cache under way; a value told to *)
(* the desktop's frontend; a run of gitsail; a call of git.                *)
(* "main" and "linked" are two worktrees of one physical repository,       *)
(* "other" is a repository of its own.                                     *)
(***************************************************************************)
EXTENDS RepositorySession, Cli, MCProcesses

CONSTANTS s1, s2, MaxSwitches \* bound: generations of a session among the locks

VARIABLE scenario \* what moves: see AllInit

allVars == <<vars, wireVars, cliVars, processVars, scenario>>

AllRepositories == {"main", "linked", "other"}

SharedGitDir ==
    [r \in Repositories |-> IF r = "other" THEN "other.git" ELSE "main.git"]

\* Two sessions that mutate, refresh and switch: nothing else moves.
OnlyLocks ==
    /\ tickets' = {} /\ queries' = {} /\ physical' = physical
    /\ \A s \in Sessions :
          /\ session'[s].selection = Unknown /\ session'[s].active = {}
          /\ session'[s].generation <= MaxSwitches

\* One session: the other does nothing.
OnlyRefreshes ==
    /\ session'[s2] = session[s2] /\ running'[s2] = running[s2]
    /\ queries' = {}

\* One session whose cache is filled: nothing is selected or tracked, one refresh is in
\* flight at a time, of the worktrees of one repository one is enough, and the other
\* repository stays as it is.
OnlyPages ==
    /\ session'[s2] = session[s2] /\ running'[s2] = running[s2]
    /\ \A q \in queries' : q.of = s1
    /\ session'[s1].selection = Unknown /\ session'[s1].active = {}
    /\ session'[s1].repository # "linked" /\ Cardinality(tickets') <= 1
    /\ physical'["other.git"] = physical["other.git"]

\* A call that is over: nothing of it moves.
CallOver ==
    /\ call \in {c \in Calls : c.host = "editor" /\ c.timed /\ ~c.readsFirst /\ c.input = 0}
    /\ cancelled = TRUE /\ expired = FALSE /\ answer = "Cancelled"
    /\ process = [p \in Processes |-> "none"] /\ holds = [p \in Processes |-> {}]
    /\ pipe = [p \in Pipes |-> 0] /\ closed = TRUE
    /\ left = [s \in Streams |-> 0] /\ wrote = left /\ kept = left
    /\ exit = "none" /\ signalled = FALSE
    /\ RunnerInit
    /\ promise = "settled" /\ truncated = FALSE

\* Of calls without a timeout, those whose every pipe is written to are enough.
SomeCall ==
    call.host = "core" /\ ~call.timed =>
        call.input > 0 /\ \A s \in Streams : left[s] = MaxBytes

AllInit ==
    /\ scenario \in {"locks", "refreshes", "pages", "frontend", "gitsail", "process"}
    /\ Init /\ WireInit /\ CliInit
    /\ IF scenario = "process" THEN ProcessInit /\ SomeCall ELSE CallOver
    \* What does not move has one state.
    /\ scenario # "locks" => session[s2].repository = "main"
    /\ scenario \notin {"locks", "refreshes"} => session[s1].repository = "main"
    /\ scenario # "gitsail" =>
           args.request = [command |-> "open"] /\ ~args.options.json /\ ~args.options.debug

AllNext ==
    /\ UNCHANGED scenario
    /\ \/ scenario = "locks" /\ Next /\ OnlyLocks /\ UNCHANGED <<wireVars, cliVars, processVars>>
       \/ scenario = "refreshes" /\ Next /\ OnlyRefreshes /\ UNCHANGED <<wireVars, cliVars, processVars>>
       \/ scenario = "pages" /\ Next /\ OnlyPages /\ UNCHANGED <<wireVars, cliVars, processVars>>
       \/ scenario = "frontend" /\ WireNext /\ UNCHANGED <<vars, cliVars, processVars>>
       \/ scenario = "gitsail" /\ CliNext /\ UNCHANGED <<vars, wireVars, processVars>>
       \/ scenario = "process" /\ ProcessNext /\ UNCHANGED <<vars, wireVars, cliVars>>

AllSpec == AllInit /\ [][AllNext]_allVars /\ Fairness
=============================================================================
