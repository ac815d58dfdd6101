---------------------------------- MODULE Cli ----------------------------------
(***************************************************************************)
(* gitsail-cli: one read of a repository and what is said of it, as text or *)
(* as one envelope (main.rs, cli.rs, commands.rs, output.rs, exit_code.rs, *)
(* and the envelope of gitsail-protocol).  The provider is its port: a     *)
(* call answers or fails with a code (GitReads models what it does).       *)
(* Without a command, or with tui, it is TuiOperations.                    *)
(***************************************************************************)
EXTENDS Protocol

VARIABLES
    args,    \* what was asked for, and how it is to be told
    todo,    \* the calls it still takes
    called,  \* history: the calls it took
    pressed, \* Ctrl+C has set the token
    result,  \* what the last call answered
    stdout, stderr, exitCode

cliVars == <<args, todo, called, pressed, result, stdout, stderr, exitCode>>

-------------------------------------------------------------------------------
(* The command line *)

\* The text of --range: no dash in it, or a part before and one after the first; a part
\* that is no number is Null.
RangeTexts == [dash : {FALSE}] \cup [dash : {TRUE}, start : {Null, 0, 1, 2}, end : {Null, 1}]
Options == [json : BOOLEAN, debug : BOOLEAN]
Requests ==
    [command : {"open", "status", "log", "branches"}]
    \cup [command : {"diff"}, base : {Null, "x"}, target : {Null, "y"}, staged : BOOLEAN]
    \cup [command : {"blame"}, revision : {Null, "x"}, range : Maybe(RangeTexts)]
    \cup [command : {"line-history"}, revision : {Null, "x"}, range : RangeTexts]
    \cup [command : {"commit", "commit-diff", "show-file"}, revision : {"x"}]

ParsesToRange(text) ==
    /\ text.dash /\ Null \notin {text.start, text.end}
    /\ text.start >= 1 /\ text.start <= text.end

-------------------------------------------------------------------------------
(* What a command calls *)

Call(name, of) == [call |-> name, of |-> of]
Resolve(name) == Call("resolve_revision", name)
Usage == Call("usage error", Null)
\* Calls that are given the token of Ctrl+C.
Cancellable == {"diff", "blame", "line_history"}

Diff(from, to, staged) == Call("diff", [from |-> from, to |-> to, staged |-> staged])
OptResolve(name) == IF name = Null THEN <<>> ELSE <<Resolve(name)>>
CheckRange(text) == IF text = Null \/ ParsesToRange(text) THEN <<>> ELSE <<Usage>>

\* Mutated form: --staged is not looked at where there are revisions.
DiffCallsAnyway(request) ==
    CASE request.base = Null /\ request.target = Null -> <<Diff(Null, Null, request.staged)>>
      [] request.base # Null /\ request.target # Null ->
             <<Resolve(request.base), Resolve(request.target),
               Diff(request.base, request.target, FALSE), Diff(request.base, request.target, FALSE)>>
      [] request.base # Null /\ request.target = Null ->
             <<Resolve(request.base), Diff(request.base, Null, FALSE)>>
      [] OTHER -> <<Usage>>

\* execute_diff.  Two revisions are compared as a whole first (CompareRevisions), and
\* then once more on the path asked for.
DiffCalls(request) ==
    CASE request.base = Null /\ request.target = Null -> <<Diff(Null, Null, request.staged)>>
      [] request.base # Null /\ request.target # Null /\ ~request.staged ->
             <<Resolve(request.base), Resolve(request.target),
               Diff(request.base, request.target, FALSE), Diff(request.base, request.target, FALSE)>>
      [] request.base # Null /\ request.target = Null /\ ~request.staged ->
             <<Resolve(request.base), Diff(request.base, Null, FALSE)>>
      [] OTHER -> <<Usage>>

CallsOf(request) ==
    <<Call("discover", Null)>> \o
    CASE request.command = "open" -> <<>>
      [] request.command = "status" -> <<Call("status", Null)>>
      [] request.command = "log" -> <<Call("commits", Null)>>
      [] request.command = "branches" -> <<Call("branches", Null)>>
      [] request.command = "diff" -> DiffCalls(request)
      [] request.command = "blame" ->
             OptResolve(request.revision) \o CheckRange(request.range)
             \o <<Call("blame", request.revision)>>
      [] request.command = "commit" -> <<Resolve(request.revision), Call("commit", request.revision)>>
      \* GetCommitDiff asks the commit for its parents.
      [] request.command = "commit-diff" ->
             <<Resolve(request.revision), Call("commit", request.revision),
               Diff("parent", request.revision, FALSE)>>
      [] request.command = "line-history" ->
             OptResolve(request.revision) \o CheckRange(request.range)
             \o <<Call("line_history", request.revision)>>
      [] request.command = "show-file" ->
             <<Resolve(request.revision), Call("file_content", request.revision)>>

\* What the last call may answer, as a kind of Protocol; log and branches list values.
KindOf(command) ==
    CASE command = "open" -> "repository" [] command = "status" -> "status"
      [] command = "log" -> "commit" [] command = "branches" -> "branch"
      [] command = "diff" -> "diff" [] command = "blame" -> "blame"
      [] command = "commit" -> "commit" [] command = "commit-diff" -> "commit diff"
      [] command = "line-history" -> "line history" [] command = "show-file" -> "content"
\* bound: of each kind one value, but those that are shown differently
FewOf(kind) ==
    CASE kind = "repository" ->
             {r \in OpenRepositories : r.root_path = "p" /\ (r.is_bare = (r.worktree_path = Null))
                 /\ (r.current_branch = "x") = (r.head_state.is = "Attached")}
      [] kind = "status" -> {s \in RepositoryStatuses : s.branch = "x" /\
             \A f \in ToSet(s.files) : f.change_type = "Modified" /\ f.path = "p"}
      [] kind = "commit" -> {c \in Commits : c.author = c.committer /\ c.decorations = <<>>}
      [] kind = "branch" -> {b \in Branches : b.ahead = b.behind}
      [] kind = "diff" -> {d \in Diffs : \A f \in ToSet(d.files) : f.change_type = "Modified" /\ f.path = "p"}
      [] kind = "blame" -> {b \in Blames : b.file = "p" /\ b.revision = Null}
      [] kind = "commit diff" -> CommitDiffs
      [] kind = "line history" -> {h \in LineHistories : h.file = "p" /\ h.range.end = 1
             /\ \A e \in ToSet(h.entries) : e.commit.parents = <<>>}
      [] kind = "content" -> {c \in FileContents : c.path = "p"}
Answers(command) ==
    LET few == FewOf(KindOf(command))
    IN CASE command = "log" -> [items : Lists(few), next_cursor : {Null}, has_more : {FALSE}]
                               \cup [items : {<<c>> : c \in few}, next_cursor : {"x"}, has_more : {TRUE}]
         [] command = "branches" -> Lists(few)
         [] OTHER -> few

\* Output: what it is told as.
Output(command, value) ==
    CASE command = "log" ->
             [items |-> Each(CommitDto, value.items), hasMore |-> value.has_more]
             @@ WithoutNull("nextCursor", value.next_cursor)
      [] command = "branches" -> Each(BranchDto, value)
      [] OTHER -> Wires[KindOf(command)].told[value]
-------------------------------------------------------------------------------
(* What is said *)

ErrorCodes ==
    {"repository_not_found", "git_not_installed", "unsupported_git_version", "invalid_repository_state",
     "operation_conflict", "authentication_required", "permission_denied", "network_failure",
     "process_failure", "parse_failure", "timeout", "cancelled", "protocol_mismatch", "internal",
     "repository_locked"}
ExitCodeFor(code) ==
    CASE code = "repository_not_found" -> 3
      [] code \in {"git_not_installed", "unsupported_git_version"} -> 4
      [] code \in {"invalid_repository_state", "operation_conflict", "repository_locked"} -> 5
      [] code \in {"authentication_required", "permission_denied"} -> 6
      [] code = "network_failure" -> 7
      [] code = "timeout" -> 8
      [] code = "cancelled" -> 130
      [] OTHER -> 1

SchemaVersion == 1
Envelope(status, key, value) ==
    [status |-> status, schemaVersion |-> SchemaVersion, requestId |-> "id"] @@ (key :> value)
\* parse_envelope, a reader built with other versions than the writer: first the version alone.
ParseEnvelope(json_, supported) ==
    CASE "schemaVersion" \notin DOMAIN json_ -> [is |-> "Malformed"]
      [] json_.schemaVersion \notin supported ->
             [is |-> "UnsupportedSchemaVersion", version |-> json_.schemaVersion]
      [] json_.status = "ok" -> [is |-> "Ok", data |-> json_.data]
      [] json_.status = "error" -> [is |-> "Error", error |-> json_.error]

\* The text of render_human, a line the tuple of what it shows.  A line that is there only
\* if its value is, has no place in the text otherwise.
LineIf(there, line) == IF there THEN <<line>> ELSE <<>>
FlatLines(lines) == FlattenSeq(lines)
\* The first 12 or 8 characters of a hash; of two that begin alike they are the same.
StartOf(hash) == IF hash = "xx" THEN "x" ELSE hash
RenderHeadState(state) ==
    CASE state.state = "attached" -> <<"attached to", state.branch>>
      [] state.state = "detached" -> <<"detached at", StartOf(state.commit)>>
      [] state.state = "unborn" -> <<"unborn">>
RenderRepository(repo) ==
    <<<<"root", repo.rootPath>>>>
    \o <<IF repo.worktreePath # Null THEN <<"worktree", repo.worktreePath>> ELSE <<"no worktree">>>>
    \o <<<<"bare", repo.isBare>>, <<"HEAD", RenderHeadState(repo.headState)>>>>
    \o LineIf(repo.currentBranch # Null, <<"branch", repo.currentBranch>>)
Renamed(file) ==
    IF file.previousPath # Null THEN <<file.previousPath, "->", file.path>> ELSE <<file.path>>
\* status_letter gives each code a letter of its own.
RenderStatus(status) ==
    <<<<"HEAD", RenderHeadState(status.headState)>>>>
    \o IF status.isClean THEN <<<<"working tree clean">>>>
       ELSE [i \in DOMAIN status.files |->
                <<"file", status.files[i].indexStatus, status.files[i].worktreeStatus, Renamed(status.files[i])>>]
RenderCommit(commit) ==
    <<<<"commit", commit.hash>>, <<"Author", commit.author>>,
      <<"Date", commit.authorDate.secondsSinceEpoch>>, <<"text", commit.subject>>>>
    \o LineIf(commit.body # "", <<"text", commit.body>>)
RenderCommits(page) ==
    FlatLines([i \in DOMAIN page.items |-> RenderCommit(page.items[i])])
    \o LineIf(page.hasMore, <<"continue with", IF "nextCursor" \in DOMAIN page THEN page.nextCursor ELSE "">>)
\* A local branch x/x and the branch x of the remote x look alike.
BranchShown(local, kind, name) == IF local THEN name ELSE kind.remote \o "/" \o name
RenderBranch(branch) ==
    <<IF branch.isCurrent THEN "*" ELSE " ",
      BranchShown(branch.kind.kind = "local", branch.kind, branch.name),
      IF branch.upstream = Null THEN <<>> ELSE <<branch.upstream, branch.ahead, branch.behind>>>>
\* The sigil of a line tells its origin; that no newline ends it is not shown.
RenderHunks(hunks) ==
    FlatLines([i \in DOMAIN hunks |->
        <<<<"@@", hunks[i].oldStart, hunks[i].oldLines, hunks[i].newStart, hunks[i].newLines>>>>
        \o [k \in DOMAIN hunks[i].lines |-> <<hunks[i].lines[k].origin, hunks[i].lines[k].content>>]])
RenderFile(file) ==
    <<<<"diff --", Renamed(file), file.changeType>>>>
    \o CASE file.isBinary -> <<<<"(binary file)">>>>
         [] file.truncated /\ ~file.isBinary -> <<<<"(diff truncated)">>>>
         [] OTHER -> RenderHunks(file.hunks)
RenderDiff(diff) ==
    IF diff.files = <<>> THEN <<<<"no differences">>>>
    ELSE FlatLines([i \in DOMAIN diff.files |-> RenderFile(diff.files[i])])
RenderCommitDiff(value) ==
    <<<<"target", value.target>>,
      IF value.base # Null THEN <<"base", value.base>> ELSE <<"base", "root commit", "empty tree">>>>
    \o RenderDiff(value.diff)
RenderLineHistory(history) ==
    <<<<history.file, history.range, history.revision>>>>
    \o IF history.entries = <<>> THEN <<<<"no history for this range">>>>
       ELSE FlatLines([i \in DOMAIN history.entries |->
                <<<<"commit", history.entries[i].commit.hash>>, <<"text", history.entries[i].commit.subject>>>>
                \o RenderHunks(history.entries[i].hunks)])
\* A text is printed as it is, also one that reads like the notice of a binary file.
RenderFileContent(content) ==
    CASE content.kind = "text" -> LineIf(content.content # "", content.content)
      [] content.kind = "binary" -> <<"(binary file, revision " \o content.revision \o ")">>
      [] content.kind = "missing" -> <<"(no such path at revision " \o content.revision \o ")">>
RenderBlameLine(line) ==
    <<IF line.origin = "local" THEN "local" ELSE StartOf(line.commit), line.author.name, line.finalLine, line.content>>
RenderHuman(command, output) ==
    CASE command = "open" -> RenderRepository(output)
      [] command = "status" -> RenderStatus(output)
      [] command = "log" -> RenderCommits(output)
      [] command = "branches" -> Each(RenderBranch, output)
      [] command = "diff" -> RenderDiff(output)
      [] command = "blame" -> Each(RenderBlameLine, output.lines)
      [] command = "commit" -> RenderCommit(output)
      [] command = "commit-diff" -> RenderCommitDiff(output)
      [] command = "line-history" -> RenderLineHistory(output)
      [] command = "show-file" -> RenderFileContent(output)
-------------------------------------------------------------------------------
(* A run of the program *)

Nothing == [is |-> "nothing"]
Failed(code) ==
    [is |-> "error",
     error |-> [code |-> code, message |-> "x", remediation |-> Null, operation_id |-> Null, diagnostic |-> "y"]]
UsageError ==
    [is |-> "error",
     error |-> [code |-> "parse_failure", message |-> "x", remediation |-> "x", operation_id |-> Null,
                diagnostic |-> Null]]

CliInit ==
    /\ \E request \in Requests, options \in Options : args = [request |-> request, options |-> options]
    /\ todo = CallsOf(args.request)
    /\ called = <<>> /\ pressed = FALSE /\ result = Nothing
    /\ stdout = <<>> /\ stderr = <<>> /\ exitCode = Null

CtrlC ==
    /\ exitCode = Null /\ ~pressed
    /\ pressed' = TRUE
    /\ UNCHANGED <<args, todo, called, result, stdout, stderr, exitCode>>

Running == exitCode = Null /\ todo # <<>> /\ result.is # "error"

\* A call answers; the last one with what is told.
CallAnswers ==
    /\ Running /\ Head(todo) # Usage
    /\ IF Len(todo) > 1 THEN result' = Nothing
       ELSE \E value \in Answers(args.request.command) : result' = [is |-> "answer", value |-> value]
    /\ todo' = Tail(todo) /\ called' = Append(called, Head(todo))
    /\ UNCHANGED <<args, pressed, stdout, stderr, exitCode>>

\* It fails, and what is left of the command with it; cancelled if it has the token and
\* Ctrl+C was pressed.
CallFails ==
    /\ Running /\ Head(todo) # Usage
    /\ \E code \in ErrorCodes :
        /\ code = "cancelled" => pressed /\ Head(todo).call \in Cancellable
        /\ result' = Failed(code)
    /\ called' = Append(called, Head(todo))
    /\ UNCHANGED <<args, todo, pressed, stdout, stderr, exitCode>>

RefuseUsage ==
    /\ Running /\ Head(todo) = Usage
    /\ result' = UsageError
    /\ UNCHANGED <<args, todo, called, pressed, stdout, stderr, exitCode>>

\* report
Report ==
    /\ exitCode = Null /\ (todo = <<>> \/ result.is = "error")
    /\ IF result.is = "answer"
       THEN LET output == Output(args.request.command, result.value)
            IN /\ stdout' = IF args.options.json THEN <<Envelope("ok", "data", output)>>
                            ELSE RenderHuman(args.request.command, output)
               /\ stderr' = <<>> /\ exitCode' = 0
       ELSE LET error == result.error
                debug == LineIf(args.options.debug, <<"debug", error.code, error.diagnostic>>)
            IN /\ exitCode' = ExitCodeFor(error.code)
               /\ IF args.options.json
                  THEN /\ stdout' = <<Envelope("error", "error", ErrorPayload(error))>>
                       /\ stderr' = debug
                  ELSE /\ stdout' = <<>>
                       /\ stderr' = debug \o <<<<"error", error.message>>>>
                                    \o LineIf(error.remediation # Null, <<error.remediation>>)
    /\ UNCHANGED <<args, todo, called, pressed, result>>

CliNext == CtrlC \/ CallAnswers \/ CallFails \/ RefuseUsage \/ Report

-------------------------------------------------------------------------------
(* Properties *)

\* What a text leaves out: who but the author, which line has no newline, how a hash goes
\* on, where a branch is, whether the file itself says that it is binary, and the like.
HeadShown(head) == IF head.is = "Detached" THEN [head EXCEPT !.commit = StartOf(@)] ELSE head
HunksShown(hunks) ==
    Each(LAMBDA h : [h EXCEPT !.lines = Each(LAMBDA l : <<l.origin, l.content>>, h.lines)], hunks)
CommitShown(commit) ==
    <<commit.hash, commit.author, commit.author_date.seconds_since_epoch, commit.subject, commit.body>>
DiffShown(diff) == Each(LAMBDA f : [f EXCEPT !.hunks = HunksShown(f.hunks)], diff.files)
Shown(command, value) ==
    CASE command \in {"open", "status"} -> [value EXCEPT !.head_state = HeadShown(@)]
      [] command = "log" -> [value EXCEPT !.items = Each(CommitShown, value.items)]
      [] command = "commit" -> CommitShown(value)
      [] command = "branches" ->
             Each(LAMBDA b : <<b.is_current, BranchShown(b.kind.is = "Local", b.kind, b.name),
                               IF b.upstream = Null THEN <<>> ELSE <<b.upstream, b.ahead, b.behind>>>>, value)
      [] command = "diff" -> DiffShown(value)
      [] command = "blame" ->
             Each(LAMBDA l : IF l.origin = "Local" THEN <<l.author.name, l.final_line, l.content>>
                             ELSE <<StartOf(l.commit), l.author.name, l.final_line, l.content>>, value.lines)
      [] command = "commit-diff" -> <<value.target, value.base, DiffShown(value.diff)>>
      [] command = "line-history" ->
             [value EXCEPT !.entries = Each(LAMBDA e : <<e.commit.hash, e.commit.subject, HunksShown(e.hunks)>>,
                                            value.entries)]
      [] command = "show-file" /\ value.is = "Text" ->
             IF value.content = BinaryNotice THEN [is |-> "Binary", path |-> value.path, revision |-> value.revision]
             ELSE value
      [] OTHER -> value

\* A script that reads what gitsail prints knows what happened: one envelope and nothing
\* else where it asked for one, which a reader of this version understands and one of
\* another refuses; text only of an answer, and texts that look alike only of answers that
\* are; an exit code that is 0 for an answer alone and 130 only after Ctrl+C.  Arguments
\* that contradict each other are not answered as if some of them had not been given
\* (report, execute_diff, parse_line_range, exit_code_for).
CliTells ==
    exitCode # Null =>
        LET request == args.request
            answered == result.is = "answer"
        IN /\ (exitCode = 0) = answered
           /\ exitCode = 130 => pressed
           /\ IF args.options.json
              THEN /\ Len(stdout) = 1
                   /\ ParseEnvelope(stdout[1], {SchemaVersion}).is = (IF answered THEN "Ok" ELSE "Error")
                   /\ ParseEnvelope(stdout[1], {2}).is = "UnsupportedSchemaVersion"
              ELSE /\ ~answered => stdout = <<>> /\ stderr # <<>>
                   /\ answered =>
                        \A other \in Answers(request.command) :
                            stdout = RenderHuman(request.command, Output(request.command, other)) =>
                                Shown(request.command, other) = Shown(request.command, result.value)
           /\ ~args.options.debug => \A i \in DOMAIN stderr : stderr[i][1] # "debug"
           /\ answered /\ request.command = "diff" =>
                LET ran == Last(called).of
                IN ran = [from |-> request.base, to |-> request.target, staged |-> request.staged]
           /\ answered /\ request.command \in {"blame", "line-history"} /\ request.range # Null =>
                request.range.dash /\ request.range.start \in 1 .. request.range.end
===============================================================================
