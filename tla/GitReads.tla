-------------------------------- MODULE GitReads --------------------------------
(***************************************************************************)
(* The reads of gitsail-git's GitCliProvider.  A read is one run of git or  *)
(* several; between two of them a program outside GitSail may act.         *)
(***************************************************************************)
EXTENDS GitOutput, TLC

CONSTANTS
    ReadKinds,    \* what is read, one kind at a time
    MaxThings,    \* bound: files, lines, refs, ... there are
    MaxMoves,     \* bound: acts of other programs
    MaxOutput     \* bound: lines kept of what git prints (MAX_CAPTURED_STREAM_BYTES)

ASSUME ReadsAssumption ==
    /\ ReadKinds \subseteq {"status", "refs", "tags", "worktrees", "diff", "blame", "log", "pages",
                            "head", "remotes", "reflog", "sides", "lines", "commit diff",
                            "compared", "amended", "content"}
    /\ {MaxThings, MaxMoves, MaxOutput} \subseteq Nat

VARIABLES
    store,    \* what there is to read
    reading,  \* the read under way, with what it has of it
    result,   \* its answer
    pages,    \* the commits of the pages read one after the other
    moments,  \* history: what there was to read since the read, or the paging, began
    moves     \* history: how often others have acted

readVars == <<store, reading, result, pages, moments, moves>>

NotReading == [step |-> "none", got |-> <<>>]
NoResult == [is |-> "none"]

\* The rest is read from the pipe and dropped.
Captured(lines) == IF Len(lines) > MaxOutput THEN SubSeq(lines, 1, MaxOutput) ELSE lines

Seqs(S) == UNION {[1 .. n -> S] : n \in 0 .. MaxThings}

-------------------------------------------------------------------------------
(* What there may be, and what git prints of it *)

Entries ==
    {[is |-> i[1], x |-> i[2], y |-> i[3], path |-> "f", from |-> "g"] :
        i \in {<<"1", "M", ".">>, <<"1", ".", "T">>, <<"1", "A", "M">>, <<"2", "R", "M">>,
               <<"2", "C", ".">>, <<"u", "A", "U">>, <<"?", "?", "?">>}}

StatusLines ==
    <<[is |-> "# branch.oid", value |-> IF store.tip = Nothing THEN "(initial)" ELSE store.tip],
      [is |-> "# branch.head", value |-> IF store.branch = Nothing THEN "(detached)" ELSE store.branch],
      [is |-> "# branch."]>>
    \o FlattenSeq([k \in DOMAIN store.things |->
           <<store.things[k]>> \o (IF store.things[k].is = "2"
                                   THEN <<[is |-> "path", path |-> store.things[k].from]>> ELSE <<>>)])

\* Commits carry refs, and now and then a character that separates fields.
LogLines(commits) ==
    [k \in DOMAIN commits |->
        [fields |-> IF commits[k].odd THEN 13 ELSE 12, hash |-> commits[k].hash,
         parts |-> commits[k].refs]]

BranchesAt ==
    {[is |-> "refs/heads/", remote |-> Nothing, name |-> "b", target |-> "c", marker |-> "*",
      track |-> t] : t \in {<<>>, <<[is |-> "[gone]"]>>, <<[is |-> "behind ", count |-> 2]>>,
                            <<[is |-> "ahead ", count |-> 1], [is |-> "behind ", count |-> 2]>>}}
    \cup {[is |-> "refs/remotes/", remote |-> "r", name |-> n, target |-> "c", marker |-> " ",
           track |-> <<>>] : n \in {"b", "HEAD"}}

\* A tag is a commit's, or an object of its own; of a file it is neither.
TagsAt ==
    {[is |-> o, name |-> "t", object |-> "o", peeled |-> IF o = "tag" THEN "c" ELSE Nothing,
      tagger |-> g] : o \in {"commit", "tag", "blob"}, g \in {"person", Nothing}}

WorktreesAt ==
    {[path |-> "w", head |-> h, locked |-> l] :
        h \in {[is |-> "unborn"], [is |-> "detached", commit |-> "c"],
               [is |-> "attached", branch |-> "b"], [is |-> "bare"]}, l \in BOOLEAN}

WorktreeLines(w) ==
    <<[is |-> "worktree ", value |-> w.path]>>
    \o (CASE w.head.is = "bare" -> <<[is |-> "bare"]>>
          [] w.head.is = "unborn" -> <<[is |-> "HEAD ", value |-> "0"], [is |-> "branch ", value |-> "b"]>>
          [] w.head.is = "detached" -> <<[is |-> "HEAD ", value |-> w.head.commit], [is |-> "detached"]>>
          [] w.head.is = "attached" -> <<[is |-> "HEAD ", value |-> "c"], [is |-> "branch ", value |-> w.head.branch]>>)
    \o (IF w.locked THEN <<[is |-> "locked"]>> ELSE <<>>)

FilePaths == <<"f1", "f2", "f3">>

\* Files that differ: of one in conflict git prints a combined diff.
Hunks ==
    {[ranges |-> 1, lines |-> ls] :
        ls \in {<<[origin |-> " ", text |-> "x", newline |-> TRUE],
                  [origin |-> "-", text |-> "-- f", newline |-> TRUE]>>,
                <<[origin |-> "+", text |-> "y", newline |-> FALSE]>>,
                <<[origin |-> "-", text |-> "x", newline |-> FALSE],
                  [origin |-> "+", text |-> "x", newline |-> TRUE]>>}}

FilesThatDiffer ==
    {f \in [change : {"M", "A", "D", "R", "C"}, binary : BOOLEAN, conflict : BOOLEAN,
            hunks : {<<>>} \cup {<<h>> : h \in Hunks} \cup (Hunks \X Hunks)] :
        /\ f.binary \/ f.conflict => f.hunks = <<>>
        /\ f.conflict => f.change = "M" /\ ~f.binary
        /\ f.change \in {"A", "D"} =>
               /\ Len(f.hunks) <= 1
               /\ \A h \in Range(f.hunks) : \A l \in Range(h.lines) :
                      l.origin = (IF f.change = "A" THEN "+" ELSE "-")}

FileLines(f, path) ==
    LET old == CASE f.change = "A" -> "/dev/null" [] f.change \in {"R", "C"} -> "g" [] OTHER -> path
        new == IF f.change = "D" THEN "/dev/null" ELSE path
        Mode(is) == <<[is |-> is]>>
        markers == <<Marker("--- ", old), Marker("+++ ", new)>>
        HunkLines(h) ==
            <<[is |-> "@@ ", ranges |-> h.ranges]>>
            \o FlattenSeq([k \in DOMAIN h.lines |->
                   <<Written(h.lines[k].origin, h.lines[k].text)>>
                   \o (IF h.lines[k].newline THEN <<>> ELSE <<[is |-> "\\"]>>)])
    IN  IF f.conflict
        THEN <<[is |-> "diff --cc "]>> \o markers
             \o <<[is |-> "@@@ "], [is |-> "+", text |-> "+ours"], [is |-> " ", text |-> "+theirs"]>>
        ELSE <<[is |-> "diff --git ", old |-> IF f.change \in {"R", "C"} THEN "g" ELSE path, new |-> path]>>
             \o (CASE f.change = "A" -> Mode("new file mode") [] f.change = "D" -> Mode("deleted file mode")
                   [] f.change = "R" -> <<[is |-> "rename from ", path |-> "g"]>>
                   [] f.change = "C" -> <<[is |-> "copy from ", path |-> "g"]>> [] OTHER -> <<>>)
             \o (IF f.binary THEN <<[is |-> "Binary files ", old |-> old, new |-> new]>> ELSE <<>>)
             \o (IF f.hunks = <<>> THEN <<>>
                 ELSE markers \o FlattenSeq([h \in DOMAIN f.hunks |-> HunkLines(f.hunks[h])]))

DiffLines == FlattenSeq([k \in DOMAIN store.things |-> FileLines(store.things[k], FilePaths[k])])

\* Of each line its commit; with the first line of a commit what is known of it.
AuthorOf(commit) == IF commit = "0" THEN "nobody yet" ELSE commit

BlameLines ==
    FlattenSeq([k \in DOMAIN store.things |->
        <<[is |-> "header", commit |-> store.things[k], line |-> k]>>
        \o (IF \E j \in 1 .. k - 1 : store.things[j] = store.things[k] THEN <<>>
            ELSE <<[is |-> "author", value |-> AuthorOf(store.things[k])],
                   [is |-> "tz", value |-> store.things[k]], [is |-> "summary"]>>)
        \o <<[is |-> "\t"]>>])

-------------------------------------------------------------------------------
Commits == [hash : {"c"}, odd : BOOLEAN, refs : {<<>>, <<[is |-> "HEAD -> ", name |-> "b"], [is |-> "tag: ", name |-> "t"]>>}]

\* A history of n commits, newest first.
History(n) == [k \in 1 .. n |-> [hash |-> n + 1 - k, odd |-> FALSE, refs |-> <<>>]]

StoresOf(kind) ==
    CASE kind = "status" ->
             {s \in [kind : {kind}, branch : {"b", Nothing}, tip : {"c", Nothing}, things : Seqs(Entries)] :
                 Nothing \notin {s.branch, s.tip} \/ s.branch # s.tip}
      [] kind = "refs" -> [kind : {kind}, things : Seqs(BranchesAt)]
      [] kind = "tags" -> [kind : {kind}, things : Seqs(TagsAt)]
      [] kind = "worktrees" -> [kind : {kind}, things : Seqs(WorktreesAt) \ {<<>>}]
      [] kind = "diff" -> [kind : {kind}, things : Seqs(FilesThatDiffer)]
      [] kind = "blame" -> [kind : {kind}, things : UNION {[1 .. n -> {"0", "c", "d"}] : n \in 1 .. 4}]
      [] kind = "log" -> [kind : {kind}, things : Seqs(Commits)]
      [] kind = "pages" -> [kind : {kind}, commits : 0 .. 2 * MaxThings + 1]
      [] kind = "head" -> {s \in [kind : {kind}, branch : {"a", Nothing}, at : {0, 1}, bare : BOOLEAN] :
                               s.branch # Nothing \/ s.at # 0}
      [] kind = "remotes" -> [kind : {kind}, urls : [{"r", "s"} -> {1}]]
      [] kind = "reflog" -> [kind : {kind}, entries : {<<>>, <<2, 1>>}, objects : {{1, 2}}]
      [] kind = "sides" -> [kind : {kind}, stages : [1 .. 3 -> BOOLEAN]]
      [] kind = "lines" -> [kind : {kind}, commits : 1 .. MaxThings]
      [] kind = "commit diff" ->
             {s \in [kind : {kind}, parents : {<<>>, <<1>>, <<1, 2>>}, odd : BOOLEAN, things : Seqs(FilesThatDiffer)] :
                 /\ \A f \in Range(s.things) : ~f.conflict
                 /\ Len(s.things) > 1 => Len(s.parents) = 1 /\ ~s.odd}
      [] kind = "compared" -> [kind : {kind}, refs : [{"base", "target"} -> {1}]]
      [] kind = "amended" -> [kind : {kind}, at : {0, 1}, staged : {0, 1}]
      [] kind = "content" -> [kind : {kind}, object : {"text", "binary", "missing"}]

ReadsInit ==
    /\ store \in UNION {StoresOf(kind) : kind \in ReadKinds}
    /\ reading = NotReading /\ result = NoResult
    /\ pages = [read |-> <<>>, cursor |-> 0, more |-> TRUE]
    /\ moments = {store} /\ moves = 0

-------------------------------------------------------------------------------
(* Reads of one run *)

EndRead(value) ==
    /\ reading' = NotReading /\ result' = [is |-> "answer", value |-> value]
    /\ UNCHANGED <<store, pages, moments, moves>>

FailRead(code) ==
    /\ reading' = NotReading /\ result' = [is |-> code]
    /\ UNCHANGED <<store, pages, moments, moves>>

Asked(kind) == store.kind = kind /\ reading = NotReading /\ result = NoResult

Status == Asked("status") /\ EndRead(ParseStatus(Captured(StatusLines)))
ListBranches == Asked("refs") /\ EndRead(ParseRefLines(Captured(store.things)))
ListTags == Asked("tags") /\ EndRead(ParseTagRecords(Captured(store.things)))
ListWorktrees ==
    Asked("worktrees")
    /\ EndRead(ParseWorktreeRecords([k \in DOMAIN store.things |-> WorktreeLines(store.things[k])]))
Log == Asked("log") /\ EndRead(ParseLogRecords(Captured(LogLines(store.things))))

\* What git has printed is given up when the read is cancelled while it is parsed.
Diff == Asked("diff") /\ (EndRead(ParseDiff(Captured(DiffLines))) \/ FailRead("Cancelled"))
Blame == Asked("blame") /\ (EndRead(ParseBlame(Captured(BlameLines))) \/ FailRead("Cancelled"))

\* A file that git does not find is an answer, not a failure.
FileContent == Asked("content") /\ EndRead(store.object)

\* A diff that is shown may be exported.
Export ==
    /\ store.kind = "diff" /\ result.is = "answer" /\ DOMAIN result.value = DOMAIN store.things
    /\ result' = [is |-> "exported", value |-> result.value, export |-> ExportPatch(result.value)]
    /\ UNCHANGED <<store, reading, pages, moments, moves>>

LogFrom(offset, n) == SubSeq(History(store.commits), offset + 1, IF offset + n < store.commits THEN offset + n ELSE store.commits)

\* One commit more than the page tells whether there is another page.
Page(limit) ==
    LET items == LogFrom(pages.cursor, limit + 1)
    IN  [read |-> pages.read \o SubSeq(items, 1, IF Len(items) > limit THEN limit ELSE Len(items)),
         cursor |-> pages.cursor + limit, more |-> Len(items) > limit]

\* A HEAD without commit has an empty page.
CommitsPage ==
    /\ store.kind = "pages" /\ pages.more
    /\ \E limit \in 1 .. MaxThings : pages' = Page(limit)
    /\ UNCHANGED <<store, reading, result, moments, moves>>

-------------------------------------------------------------------------------
(* Reads of several runs *)

Goes(step, got) ==
    /\ reading' = [step |-> step, got |-> got] /\ UNCHANGED <<store, result, pages, moments, moves>>

ReadAt(kind, step) == store.kind = kind /\ reading.step = step

\* The root of a bare repository is its directory.
Discover ==
    /\ Asked("head")
    /\ Goes("verify", [bare |-> store.bare, worktree |-> ~store.bare])

VerifyHead ==
    /\ ReadAt("head", "verify")
    /\ IF store.at = 0 THEN EndRead([head |-> "unborn", repository |-> reading.got])
       ELSE Goes("symbolic-ref", reading.got)

\* Mutated form: HEAD is looked up before it is asked for a branch.
SymbolicRefOfCommit ==
    /\ ReadAt("head", "symbolic-ref")
    /\ Goes("rev-parse", reading.got)

SymbolicRef ==
    /\ ReadAt("head", "symbolic-ref")
    /\ IF store.branch # Nothing
       THEN EndRead([head |-> "attached", branch |-> store.branch, repository |-> reading.got])
       ELSE Goes("rev-parse", reading.got)

RevParseHead ==
    /\ ReadAt("head", "rev-parse")
    /\ IF store.at = 0 THEN FailRead("ProcessFailure")
       ELSE EndRead([head |-> "detached", commit |-> store.at, repository |-> reading.got])

\* The names, then the addresses of each, which fails when one is gone.
RemoteNames ==
    /\ Asked("remotes")
    /\ Goes("get-url", [left |-> SetToSeq(DOMAIN store.urls), urls |-> <<>>])

RemoteUrl ==
    /\ ReadAt("remotes", "get-url")
    /\ LET left == reading.got.left
           urls == reading.got.urls
       IN  CASE left = <<>> -> EndRead(urls)
             [] left # <<>> /\ Head(left) \notin DOMAIN store.urls -> FailRead("ProcessFailure")
             [] OTHER -> Goes("get-url", [left |-> Tail(left),
                                          urls |-> Append(urls, <<Head(left), store.urls[Head(left)]>>)])

\* The entries, then which of their objects there still are.
Reflog ==
    /\ Asked("reflog")
    /\ IF store.entries = <<>> THEN EndRead(<<>>)
       ELSE Goes("batch-check", ParseIndexedRecords(store.entries))

ObjectExistence ==
    /\ ReadAt("reflog", "batch-check")
    /\ LET lines == [k \in DOMAIN reading.got |->
                        [object |-> reading.got[k].commit,
                         is |-> IF reading.got[k].commit \in store.objects THEN "commit" ELSE "missing"]]
           existing == ParseBatchCheckExistence(lines)
       IN  EndRead([k \in DOMAIN reading.got |->
                      [commit |-> reading.got[k].commit, present |-> reading.got[k].commit \in existing]])

\* The sides of a conflict: base, ours, theirs.
ConflictSides == Asked("sides") /\ Goes("show", <<>>)

ReadConflictStage ==
    /\ ReadAt("sides", "show")
    /\ LET got == Append(reading.got, store.stages[Len(reading.got) + 1])
       IN  IF Len(got) < 3 THEN Goes("show", got) ELSE EndRead(got)

\* The history of a range of lines is of the commit HEAD named when it was asked for.
ResolveRevision == Asked("lines") /\ Goes("log", store.commits)

LineHistory ==
    /\ ReadAt("lines", "log")
    /\ LET lines == FlattenSeq([k \in 1 .. reading.got |->
                        <<[is |-> "hash", commit |-> reading.got + 1 - k], [is |-> "diff --git "],
                          [is |-> "@@ ", ranges |-> k], Written("+", "y")>>])
       IN  EndRead([revision |-> reading.got, entries |-> ParseLineHistory(lines)])

\* A commit, then what it changed: against its first parent, or the empty tree.
CommitOfDiff ==
    /\ Asked("commit diff")
    /\ IF store.odd THEN FailRead("ParseFailure")
       ELSE Goes("diff", IF store.parents = <<>> THEN Nothing ELSE Head(store.parents))

CommitDiff ==
    /\ ReadAt("commit diff", "diff")
    /\ \/ EndRead([base |-> reading.got, diff |-> ParseDiff(Captured(DiffLines))])
       \/ FailRead("Cancelled")

\* Two names are compared as the commits they were resolved to.
Resolve(name, step, got) ==
    IF name \notin DOMAIN store.refs THEN FailRead("RevisionNotFound")
    ELSE Goes(step, Append(got, store.refs[name]))

ResolveBase == Asked("compared") /\ Resolve("base", "target", <<>>)
ResolveTarget == ReadAt("compared", "target") /\ Resolve("target", "diff", reading.got)
DiffResolved ==
    ReadAt("compared", "diff")
    /\ EndRead([base |-> reading.got[1], target |-> reading.got[2], diff |-> reading.got])

\* The commit to amend, then what is staged for it.
HeadToAmend ==
    Asked("amended") /\ (IF store.at = 0 THEN FailRead("RevisionNotFound") ELSE Goes("staged", store.at))
StagedToAmend ==
    ReadAt("amended", "staged") /\ EndRead([head |-> reading.got, staged |-> store.staged])

-------------------------------------------------------------------------------
\* What another program does while a read, or a paging, is under way.
Moved(new) ==
    /\ reading # NotReading \/ store.kind = "pages"
    /\ moves < MaxMoves /\ new # store
    /\ store' = new /\ moments' = moments \cup {new} /\ moves' = moves + 1
    /\ UNCHANGED <<reading, result, pages>>

OthersCommit == store.kind \in {"pages", "lines"} /\ Moved([store EXCEPT !.commits = @ + 1])

OthersSwitch ==
    /\ store.kind = "head"
    /\ \E b \in {"a", "b", Nothing}, c \in 0 .. 2 :
           (b # Nothing \/ c # 0) /\ Moved([store EXCEPT !.branch = b, !.at = c])

OthersEditRemotes ==
    /\ store.kind = "remotes"
    /\ \E r \in DOMAIN store.urls :
           \/ Moved([store EXCEPT !.urls = Restrict(@, DOMAIN @ \ {r})])
           \/ Moved([store EXCEPT !.urls[r] = 2])

OthersPrune ==
    store.kind = "reflog" /\ \E o \in store.objects : Moved([store EXCEPT !.objects = @ \ {o}])

OthersResolve == store.kind = "sides" /\ Moved([store EXCEPT !.stages = [n \in 1 .. 3 |-> FALSE]])

OthersMoveRefs ==
    /\ store.kind = "compared"
    /\ \E name \in DOMAIN store.refs :
           \/ Moved([store EXCEPT !.refs[name] = @ + 1])
           \/ Moved([store EXCEPT !.refs = Restrict(@, DOMAIN @ \ {name})])

OthersCommitStaged ==
    store.kind = "amended" /\ store.staged # 0 /\ Moved([store EXCEPT !.at = @ + 1, !.staged = 0])

OthersStage == store.kind = "amended" /\ Moved([store EXCEPT !.staged = @ + 1])

ReadsNext ==
    \/ Status \/ ListBranches \/ ListTags \/ ListWorktrees \/ Log \/ Diff \/ Blame \/ Export
    \/ FileContent \/ CommitOfDiff \/ CommitDiff \/ HeadToAmend \/ StagedToAmend
    \/ ResolveBase \/ ResolveTarget \/ DiffResolved
    \/ CommitsPage
    \/ Discover \/ VerifyHead \/ SymbolicRef \/ RevParseHead
    \/ RemoteNames \/ RemoteUrl \/ Reflog \/ ObjectExistence
    \/ ConflictSides \/ ReadConflictStage \/ ResolveRevision \/ LineHistory
    \/ OthersCommit \/ OthersSwitch \/ OthersEditRemotes \/ OthersPrune \/ OthersResolve
    \/ OthersMoveRefs \/ OthersCommitStaged \/ OthersStage

ReadsSpec == ReadsInit /\ [][ReadsNext]_readVars

-------------------------------------------------------------------------------
StatusAgrees(status) ==
    /\ Len(status.files) = Len(store.things)
    /\ status.head.is = CASE store.tip = Nothing -> "unborn"
                          [] store.tip # Nothing /\ store.branch = Nothing -> "detached"
                          [] OTHER -> "attached"
    /\ \A k \in DOMAIN store.things :
           LET file == status.files[k]
               entry == store.things[k]
           IN  /\ file.path = entry.path
               /\ file.previous = (IF entry.is = "2" THEN entry.from ELSE Nothing)
               /\ file.index = "." <=> entry.x = "."
               /\ file.worktree = "." <=> entry.y = "."
               /\ file.change = "U" <=> entry.is = "u"

BranchesAgree(branches) ==
    LET listed == SelectSeq(store.things, LAMBDA l : l.name # "HEAD")
    IN  /\ Len(branches) = Len(listed)
        /\ \A k \in DOMAIN listed :
               /\ branches[k].remote = listed[k].remote /\ branches[k].name = listed[k].name
               /\ branches[k].track.ahead + branches[k].track.behind
                      = FoldLeft(LAMBDA n, t : n + (IF t.is = "[gone]" THEN 0 ELSE t.count), 0, listed[k].track)

\* One that is not a tag of a commit by a person, or a commit, fails the list.
TagsAgree(tags) ==
    IF \E t \in Range(store.things) : t.is = "blob" \/ (t.is = "tag" /\ t.tagger = Nothing)
    THEN tags = Failure
    ELSE \A k \in DOMAIN store.things :
             tags[k].target = (IF store.things[k].is = "tag" THEN "c" ELSE "o")

\* Of a list with a bare repository's entry, which the parser says it ignores and fails
\* on, nothing is said (README, 6.29).
WorktreesAgree(worktrees) ==
    (\A w \in Range(store.things) : w.head.is # "bare") =>
        /\ Len(worktrees) = Len(store.things)
        /\ \A k \in DOMAIN store.things :
               /\ worktrees[k].path = store.things[k].path
               /\ worktrees[k].head = store.things[k].head
               /\ worktrees[k].locked = store.things[k].locked
               /\ worktrees[k].main <=> k = 1

LogAgrees(commits) ==
    IF \E c \in Range(store.things) : c.odd THEN commits = Failure
    ELSE /\ Len(commits) = Len(store.things)
         /\ \A k \in DOMAIN commits : Len(commits[k].decorations) = (IF store.things[k].refs = <<>> THEN 0 ELSE 3)

\* A file's hunks are all there, unchanged, or it is said that they are not.  Nothing is
\* said of what is printed next to the combined diff of a file in conflict, which is
\* misread, and of what comes after it (README, 6.28).
DiffAgrees(files) ==
    LET InConflict(k) == k \in DOMAIN store.things /\ store.things[k].conflict
        clear == {k \in DOMAIN store.things : \A j \in 1 .. k + 1 : ~InConflict(j)}
    IN  /\ clear = DOMAIN store.things => Len(files) = Len(store.things)
        /\ \A k \in clear :
               LET file == store.things[k]
               IN  /\ files[k].change = file.change /\ files[k].binary = file.binary
                   /\ files[k].path = FilePaths[k]
                   /\ (files[k].previous # Nothing) = (file.change \in {"R", "C"})
                   /\ IsPrefix(files[k].hunks, file.hunks)
                   /\ files[k].truncated <=> files[k].hunks # file.hunks

\* A root is told from what has a parent; of a merge the first counts.
CommitDiffAgrees(answer) ==
    /\ answer.base = (IF store.parents = <<>> THEN Nothing ELSE store.parents[1])
    /\ DiffAgrees(answer.diff)

\* A patch that leaves nothing out is what git printed, but for the lines on
\* modes, renames and binary files (render_unified_diff).
PatchAgrees(export) ==
    export.truncated = {} /\ (\A f \in Range(store.things) : ~f.conflict) =>
        export.patch = SelectSeq(DiffLines, LAMBDA l : l.is \in {"--- ", "+++ ", "@@ ", " ", "+", "-", "\\"})

BlameAgrees(lines) ==
    lines = [k \in DOMAIN store.things |->
                [line |-> k, commit |-> store.things[k], author |-> AuthorOf(store.things[k]),
                 local |-> store.things[k] = "0"]]

WasCut ==
    CASE store.kind = "status" -> Len(StatusLines) > MaxOutput
      [] store.kind \in {"diff", "commit diff"} -> Len(DiffLines) > MaxOutput
      [] store.kind = "blame" -> Len(BlameLines) > MaxOutput
      [] OTHER -> FALSE

PagesAgree ==
    moments = {store} /\ store.kind = "pages" =>
        LET hashes == [k \in DOMAIN pages.read |-> pages.read[k].hash]
            all == [k \in 1 .. store.commits |-> store.commits + 1 - k]
        IN  IsPrefix(hashes, all) /\ (~pages.more => hashes = all)

\* What a read of one run answers is what there is, whatever it looks like when
\* it is printed: a removed line that begins with dashes, a path a file was
\* renamed from, a commit whose author was printed lines before (the parsers of
\* provider.rs and of the extension's git directory).  What they cannot read fails
\* the whole read; of output longer than what is kept it says nothing.  Pages read one
\* after the other are the history, without a commit twice and without a gap, and the
\* last one ends it, while nobody commits (commits).
ReadsAgree ==
    /\ PagesAgree
    /\ result.is \in {"answer", "exported"} /\ ~WasCut =>
           CASE store.kind = "status" -> StatusAgrees(result.value)
             [] store.kind = "refs" -> BranchesAgree(result.value)
             [] store.kind = "tags" -> TagsAgree(result.value)
             [] store.kind = "worktrees" -> WorktreesAgree(result.value)
             [] store.kind = "log" -> LogAgrees(result.value)
             [] store.kind = "diff" ->
                    DiffAgrees(result.value) /\ (result.is = "exported" => PatchAgrees(result.export))
             [] store.kind = "commit diff" -> CommitDiffAgrees(result.value)
             [] store.kind = "blame" -> BlameAgrees(result.value)
             [] store.kind = "content" -> result.value = store.object
             [] store.kind = "lines" -> Len(result.value.entries) = result.value.revision
             [] OTHER -> TRUE

\* A part of an answer was true when there was something to read that it is true of.
HeadWas(value) ==
    /\ value.head \in {"unborn", "attached", "detached"}
    /\ value.head = "unborn" => \E s \in moments : s.at = 0
    /\ value.head = "attached" => \E s \in moments : s.branch = value.branch
    /\ value.head = "detached" =>
           /\ \E s \in moments : s.branch = Nothing
           /\ \E s \in moments : s.at = value.commit

RemotesWere(urls) ==
    \A part \in Range(urls) :
        \E s \in moments : part[1] \in DOMAIN s.urls /\ s.urls[part[1]] = part[2]

ReflogWas(entries) ==
    \A e \in Range(entries) : \E s \in moments : e.present = (e.commit \in s.objects)

SidesWere(sides) == \A n \in 1 .. 3 : \E s \in moments : sides[n] = s.stages[n]

ComparedWere(value) ==
    /\ \E s \in moments : "base" \in DOMAIN s.refs /\ s.refs.base = value.base
    /\ \E s \in moments : "target" \in DOMAIN s.refs /\ s.refs.target = value.target
    /\ value.diff = <<value.base, value.target>>

AmendedWere(value) ==
    /\ \E s \in moments : s.at = value.head
    /\ \E s \in moments : s.staged = value.staged

\* Each part of an answer that took several runs was true at a moment of the
\* read, whoever acted in between: not that all were at the same one.
PartsWereTrue ==
    result.is = "answer" =>
        CASE store.kind = "head" -> HeadWas(result.value)
          [] store.kind = "remotes" -> RemotesWere(result.value)
          [] store.kind = "reflog" -> ReflogWas(result.value)
          [] store.kind = "sides" -> SidesWere(result.value)
          [] store.kind = "compared" -> ComparedWere(result.value)
          [] store.kind = "amended" -> AmendedWere(result.value)
          [] store.kind = "lines" -> \E s \in moments : result.value.revision = s.commits
          [] OTHER -> TRUE

\* What a patch says it leaves out is left out of it (patch.rs: "Files omitted
\* because their diff was too large and `hunks` was withheld").
PatchIsItsScope ==
    result.is = "exported" =>
        \A l \in Range(result.export.patch) :
            l.is \in {"--- ", "+++ "} => l.path \notin result.export.truncated
===============================================================================
