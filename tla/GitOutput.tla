------------------------------- MODULE GitOutput -------------------------------
(***************************************************************************)
(* What git prints for the reads of gitsail-git's GitCliProvider, and what *)
(* its parsers make of it.  A line or a field is what it begins with ("is") *)
(* and what follows that; the texts in between are left out.               *)
(***************************************************************************)
EXTENDS Integers, SequencesExt

CONSTANTS
    Nothing,     \* what is not there
    MaxFileDiff  \* bound: lines of hunks kept of a file (MAX_FILE_DIFF_BYTES)

ASSUME MaxFileDiffAssumption == MaxFileDiff \in Nat \ {0}

Failure == [is |-> "ParseFailure"]

\* The results of all, or the failure of one.
Collect(results) == IF Contains(results, Failure) THEN Failure ELSE results

\* The lines from each head to the next; those before the first are discarded.
Blocks(lines, head) ==
    LET heads == SelectSeq([i \in DOMAIN lines |-> i], LAMBDA i : lines[i].is = head)
    IN  [k \in DOMAIN heads |->
            SubSeq(lines, heads[k], IF k = Len(heads) THEN Len(lines) ELSE heads[k + 1] - 1)]

LastOf(lines, prefix) ==
    LET found == SelectSeq(lines, LAMBDA l : l.is = prefix)
    IN  IF found = <<>> THEN Nothing ELSE Last(found)

Has(lines, prefix) == LastOf(lines, prefix) # Nothing

-------------------------------------------------------------------------------
(* git status --porcelain=v2 --branch -z: headers, then entries. *)

HeadState(oid, head) ==
    CASE Nothing \in {oid, head} -> Failure
      [] oid.value = "(initial)" -> [is |-> "unborn"]
      [] oid.value # "(initial)" /\ head.value = "(detached)" -> [is |-> "detached", commit |-> oid.value]
      [] OTHER -> [is |-> "attached", branch |-> head.value]

\* A type change is one only in the change, not on the side it is on.
StatusCode(code) == IF code = "T" THEN "M" ELSE code

FileChange(segment) ==
    [path |-> segment.path, previous |-> Nothing,
     index |-> StatusCode(segment.x), worktree |-> StatusCode(segment.y),
     change |-> CASE segment.is = "u" -> "U"
                  [] segment.is \in {"?", "!"} -> segment.is
                  [] OTHER -> IF segment.x # "." THEN segment.x ELSE segment.y]

RenameChange(segment) == [FileChange(segment) EXCEPT !.change = segment.x]

\* The path a file was renamed from is a segment of its own, whatever it looks like.
StatusEntry(parsed, segment) ==
    IF parsed.renamed
    THEN [parsed EXCEPT !.renamed = FALSE, !.files[Len(parsed.files)].previous = segment.path]
    ELSE CASE segment.is \in {"1", "u", "?", "!"} ->
                  [parsed EXCEPT !.files = Append(@, FileChange(segment))]
           [] segment.is = "2" ->
                  [parsed EXCEPT !.files = Append(@, RenameChange(segment)), !.renamed = TRUE]
           [] OTHER -> [parsed EXCEPT !.failed = TRUE]

ParseStatus(segments) ==
    LET headers == SelectSeq(segments, LAMBDA s : s.is \in {"# branch.oid", "# branch.head", "# branch."})
        entries == SubSeq(segments, Len(headers) + 1, Len(segments))
        head == HeadState(LastOf(headers, "# branch.oid"), LastOf(headers, "# branch.head"))
        parsed == FoldLeft(StatusEntry, [files |-> <<>>, renamed |-> FALSE, failed |-> FALSE], entries)
    IN  IF head = Failure \/ parsed.failed \/ parsed.renamed THEN Failure
        ELSE [is |-> "status", head |-> head, files |-> parsed.files]

-------------------------------------------------------------------------------
(* git log: records of fields, among them the refs at a commit. *)

ParseDecoration(part) ==
    CASE part.is = "HEAD -> " -> <<[is |-> "head"], [is |-> "branch", name |-> part.name]>>
      [] part.is = "HEAD" -> <<[is |-> "head"]>>
      [] part.is = "tag: " -> <<[is |-> "tag", name |-> part.name]>>
      [] part.is = "origin/" -> <<[is |-> "remote branch", name |-> part.name]>>
      [] OTHER -> <<[is |-> "branch", name |-> part.name]>>

\* A separator within a message makes one field too many.
ParseLogRecord(record) ==
    IF record.fields # 12 THEN Failure
    ELSE [is |-> "commit", hash |-> record.hash,
          decorations |-> FlattenSeq([k \in DOMAIN record.parts |-> ParseDecoration(record.parts[k])])]

ParseLogRecords(records) == Collect([k \in DOMAIN records |-> ParseLogRecord(records[k])])

-------------------------------------------------------------------------------
(* git for-each-ref: branches and tags; git worktree list. *)

\* What is ahead and behind is printed where it is not none, or that upstream is gone.
ParseAheadBehind(track) ==
    LET Count(part) == IF Has(track, part) THEN LastOf(track, part).count ELSE 0
    IN  [ahead |-> Count("ahead "), behind |-> Count("behind ")]

\* The symbolic ref of a remote's default branch is not a branch.
ParseRefLine(line) ==
    CASE line.is = "refs/heads/" ->
             <<[is |-> "branch", remote |-> Nothing, name |-> line.name, target |-> line.target,
                track |-> ParseAheadBehind(line.track), current |-> line.marker = "*"]>>
      [] line.is = "refs/remotes/" /\ line.name # "HEAD" ->
             <<[is |-> "branch", remote |-> line.remote, name |-> line.name, target |-> line.target,
                track |-> ParseAheadBehind(line.track), current |-> line.marker = "*"]>>
      [] line.is = "refs/remotes/" /\ line.name = "HEAD" -> <<>>
      [] OTHER -> <<Failure>>

ParseRefLines(lines) == Collect(FlattenSeq([k \in DOMAIN lines |-> ParseRefLine(lines[k])]))

ParseTagRecord(record) ==
    CASE record.is = "tag" /\ Nothing \notin {record.peeled, record.tagger} ->
             [is |-> "annotated", name |-> record.name, target |-> record.peeled]
      [] record.is = "commit" -> [is |-> "lightweight", name |-> record.name, target |-> record.object]
      [] OTHER -> Failure

ParseTagRecords(records) == Collect([k \in DOMAIN records |-> ParseTagRecord(records[k])])

\* Of stashes and of the reflog: the index is the place in the list.
ParseIndexedRecords(records) ==
    [k \in DOMAIN records |-> [index |-> k - 1, commit |-> records[k]]]

ParseBatchCheckExistence(lines) == {lines[k].object : k \in {k \in DOMAIN lines : lines[k].is # "missing"}}

\* The first is the main one.
ParseWorktreeRecord(main, block) ==
    LET commit == LastOf(block, "HEAD ")
        head == CASE commit.value = "0" -> [is |-> "unborn"]
                  [] commit.value # "0" /\ Has(block, "detached") -> [is |-> "detached", commit |-> commit.value]
                  [] commit.value # "0" /\ ~Has(block, "detached") /\ Has(block, "branch ") ->
                         [is |-> "attached", branch |-> LastOf(block, "branch ").value]
                  [] OTHER -> Failure
    IN  IF ~Has(block, "worktree ") \/ commit = Nothing \/ head = Failure THEN Failure
        ELSE [is |-> "worktree", path |-> LastOf(block, "worktree ").value, head |-> head,
              main |-> main, locked |-> Has(block, "locked"), prunable |-> Has(block, "prunable")]

ParseWorktreeRecords(blocks) == Collect([k \in DOMAIN blocks |-> ParseWorktreeRecord(k = 1, blocks[k])])

-------------------------------------------------------------------------------
(* git diff: a block per file, of which the hunks are the end. *)

Marker(prefix, path) == [is |-> prefix, path |-> path, text |-> path]

\* A line taken out that begins with dashes looks like the marker of the old side.
Written(origin, text) ==
    IF origin = "-" /\ text = "-- f" THEN [is |-> "--- ", path |-> "f", text |-> text]
    ELSE [is |-> origin, text |-> text]

\* A line is looked at by its first character: that of a header is one as well.
Origin(line) ==
    CASE line.is \in {" ", "+", "-"} -> line.is
      [] line.is = "--- " -> "-"
      [] line.is = "+++ " -> "+"
      [] OTHER -> "none"

HunkLine(lines, line) ==
    CASE Origin(line) # "none" ->
             Append(lines, [origin |-> Origin(line), text |-> line.text, newline |-> TRUE])
      [] line.is = "\\" /\ lines # <<>> -> [lines EXCEPT ![Len(lines)].newline = FALSE]
      [] OTHER -> lines

ParseDiffHunk(lines) ==
    [ranges |-> lines[1].ranges, lines |-> FoldLeft(HunkLine, <<>>, Tail(lines))]

IsHunkHeader(line) == line.is = "@@ "

ParseHunks(lines) ==
    LET hunks == Blocks(lines, "@@ ") IN [k \in DOMAIN hunks |-> ParseDiffHunk(hunks[k])]

\* Hunks are kept until one does not fit, and none after it.
KeptHunks(hunks) ==
    LET Size(n) == FoldLeft(LAMBDA sum, h : sum + Len(h.lines), 0, SubSeq(hunks, 1, n))
    IN  CHOOSE n \in 0 .. Len(hunks) :
            Size(n) <= MaxFileDiff /\ (n < Len(hunks) => Size(n + 1) > MaxFileDiff)

\* The path of a side: its marker's, else that of a line on binary files, else the header's.
SidePath(head, marker, side) ==
    CASE Has(head, marker) /\ LastOf(head, marker).path # "/dev/null" -> LastOf(head, marker).path
      [] (Has(head, marker) => LastOf(head, marker).path = "/dev/null")
             /\ Has(head, "Binary files ") /\ LastOf(head, "Binary files ")[side] # "/dev/null" ->
             LastOf(head, "Binary files ")[side]
      [] OTHER -> head[1][side]

ParseDiffBlock(lines) ==
    LET first == SelectInSeq(lines, IsHunkHeader)
        head == IF first = 0 THEN lines ELSE SubSeq(lines, 1, first - 1)
        hunks == ParseHunks(lines)
        kept == KeptHunks(hunks)
        IsDevNull(marker) == Has(head, marker) /\ LastOf(head, marker).path = "/dev/null"
        change == CASE Has(head, "copy from ") -> "C"
                    [] Has(head, "rename from ") -> "R"
                    [] Has(head, "new file mode") \/ IsDevNull("--- ") -> "A"
                    [] Has(head, "deleted file mode") \/ IsDevNull("+++ ") -> "D"
                    [] OTHER -> "M"
    IN  [is |-> "file", change |-> change,
         path |-> IF change = "D" THEN SidePath(head, "--- ", "old") ELSE SidePath(head, "+++ ", "new"),
         previous |-> CASE change = "R" -> LastOf(head, "rename from ").path
                        [] change = "C" -> LastOf(head, "copy from ").path
                        [] OTHER -> Nothing,
         binary |-> Has(head, "Binary files "),
         truncated |-> kept < Len(hunks), hunks |-> SubSeq(hunks, 1, kept)]

ParseDiff(lines) ==
    LET blocks == Blocks(lines, "diff --git ")
    IN  [k \in DOMAIN blocks |-> ParseDiffBlock(blocks[k])]

-------------------------------------------------------------------------------
(* git blame --porcelain: what is known of a commit comes with its first line. *)

\* What each commit's lines are told with, from the first line on that names it.
Known(parsed) ==
    IF parsed.commit # Nothing /\ Nothing \notin Range(parsed.pending)
           /\ parsed.commit \notin DOMAIN parsed.known
    THEN [parsed EXCEPT !.known = (parsed.commit :> parsed.pending) @@ @]
    ELSE parsed

NoMetadata == [author |-> Nothing, tz |-> Nothing]

\* Mutated form: what is pending of one commit is not forgotten at the next.
BlameHeaderAlone(parsed, line) == [parsed EXCEPT !.commit = line.commit, !.line = line.line]

BlameHeader(parsed, line) ==
    [parsed EXCEPT !.commit = line.commit, !.line = line.line,
                   !.pending = IF line.commit \in DOMAIN parsed.known THEN @ ELSE NoMetadata]

\* The lines of commit "0" are not committed.
BlameContent(parsed) ==
    IF parsed.commit \notin DOMAIN parsed.known THEN [parsed EXCEPT !.failed = TRUE]
    ELSE [parsed EXCEPT !.lines = Append(@,
             [line |-> parsed.line, commit |-> parsed.commit,
              author |-> parsed.known[parsed.commit].author, local |-> parsed.commit = "0"])]

BlameLine(parsed, line) ==
    CASE line.is = "\t" -> BlameContent(parsed)
      [] line.is \in DOMAIN NoMetadata -> Known([parsed EXCEPT !.pending[line.is] = line.value])
      [] line.is = "header" -> Known(BlameHeader(parsed, line))
      [] OTHER -> Known(parsed)

ParseBlame(lines) ==
    LET parsed == FoldLeft(BlameLine,
                           [lines |-> <<>>, commit |-> Nothing, line |-> 0,
                            pending |-> NoMetadata, known |-> <<>>, failed |-> FALSE], lines)
    IN  IF parsed.failed THEN Failure ELSE parsed.lines

\* git log -L: under the hash of each commit its hunks.
ParseLineHistory(lines) ==
    LET blocks == Blocks(lines, "hash")
    IN  [k \in DOMAIN blocks |-> [commit |-> blocks[k][1].commit, hunks |-> ParseHunks(blocks[k])]]

-------------------------------------------------------------------------------
(* Patches (gitsail-application) *)

PatchPaths(file) ==
    [old |-> CASE file.change = "A" -> "/dev/null"
               [] file.change # "A" /\ file.previous # Nothing -> file.previous
               [] OTHER -> file.path,
     new |-> IF file.change = "D" THEN "/dev/null" ELSE file.path]

RenderHunk(hunk) ==
    <<[is |-> "@@ ", ranges |-> hunk.ranges]>>
    \o FlattenSeq([k \in DOMAIN hunk.lines |->
           <<Written(hunk.lines[k].origin, hunk.lines[k].text)>>
           \o (IF hunk.lines[k].newline THEN <<>> ELSE <<[is |-> "\\"]>>)])

\* A file without hunks contributes nothing.
RenderUnifiedDiff(files) ==
    FlattenSeq([k \in DOMAIN files |->
        IF files[k].hunks = <<>> THEN <<>>
        ELSE <<Marker("--- ", PatchPaths(files[k]).old), Marker("+++ ", PatchPaths(files[k]).new)>>
             \o FlattenSeq([h \in DOMAIN files[k].hunks |-> RenderHunk(files[k].hunks[h])])])

ExportPatch(files) ==
    LET PathsWhere(P(_)) == {files[k].path : k \in {k \in DOMAIN files : P(files[k])}}
    IN  [is |-> "patch", patch |-> RenderUnifiedDiff(files),
         included |-> PathsWhere(LAMBDA f : ~f.binary /\ ~f.truncated /\ f.hunks # <<>>),
         binary |-> PathsWhere(LAMBDA f : f.binary),
         truncated |-> PathsWhere(LAMBDA f : ~f.binary /\ f.truncated)]
===============================================================================
