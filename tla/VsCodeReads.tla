------------------------------ MODULE VsCodeReads ------------------------------
(***************************************************************************)
(* The reads of the editor's extension, which asks git itself: the queries *)
(* of its GitClient and their parsers, of the same repositories as         *)
(* GitReads and answered in the same shape.                                *)
(***************************************************************************)
EXTENDS GitReads

\* getCommit, getFileHistoryPage: what cannot be read fails the whole query.
EditorDecorations(parts) ==
    FoldLeft(LAMBDA found, part :
                 found \o (IF part.is = "HEAD -> "
                           THEN <<[is |-> "head"], [is |-> "branch", name |-> part.name]>>
                           ELSE <<[is |-> CASE part.is = "HEAD" -> "head" [] part.is = "tag: " -> "tag"
                                            [] part.is = "origin/" -> "remote branch" [] OTHER -> "branch",
                                   name |-> part.name]>>),
             <<>>, parts)

EditorCommit(record) ==
    IF record.fields # 12 THEN Failure
    ELSE [is |-> "commit", hash |-> record.hash, decorations |-> EditorDecorations(record.parts)]

EditorLog ==
    /\ Asked("log")
    /\ LET records == Captured(LogLines(store.things))
       IN  EndRead(Collect([k \in DOMAIN records |-> EditorCommit(records[k])]))

\* The cursor moves only where there is more.
EditorHistoryPage ==
    /\ store.kind = "pages" /\ pages.more
    /\ \E limit \in 1 .. MaxThings :
           LET items == LogFrom(pages.cursor, limit + 1)
               more == Len(items) > limit
           IN  pages' = [read |-> pages.read \o (IF more THEN SubSeq(items, 1, limit) ELSE items),
                         cursor |-> IF more THEN pages.cursor + limit ELSE pages.cursor, more |-> more]
    /\ UNCHANGED <<store, reading, result, moments, moves>>

-------------------------------------------------------------------------------
(* Blame *)

\* What was told of a commit is kept under its hash once all of it was told.
EditorMetadata(parsed) ==
    IF parsed.commit = Nothing \/ Nothing \in Range(parsed.pending) \/ parsed.commit \in DOMAIN parsed.metadata
    THEN parsed
    ELSE [parsed EXCEPT !.metadata = (parsed.commit :> parsed.pending) @@ @]

EditorBlameHeader(parsed, line) ==
    [parsed EXCEPT !.commit = line.commit, !.line = line.line,
                   !.pending = IF line.commit \in DOMAIN parsed.metadata THEN @ ELSE NoMetadata]

EditorBlameContent(parsed) ==
    IF parsed.commit \notin DOMAIN parsed.metadata THEN [parsed EXCEPT !.failed = TRUE]
    ELSE [parsed EXCEPT !.lines = Append(@,
             [line |-> parsed.line, commit |-> parsed.commit,
              author |-> parsed.metadata[parsed.commit].author, local |-> parsed.commit = "0"])]

EditorBlameLine(parsed, line) ==
    CASE line.is = "\t" -> EditorBlameContent(parsed)
      [] line.is \in DOMAIN NoMetadata -> EditorMetadata([parsed EXCEPT !.pending[line.is] = line.value])
      [] line.is = "header" -> EditorMetadata(EditorBlameHeader(parsed, line))
      [] OTHER -> EditorMetadata(parsed)

\* Part of the lines is no answer.
EditorBlame ==
    /\ Asked("blame")
    /\ LET parsed == FoldLeft(EditorBlameLine,
                              [lines |-> <<>>, commit |-> Nothing, line |-> 0,
                               pending |-> NoMetadata, metadata |-> <<>>, failed |-> FALSE],
                              BlameLines)
       IN  IF Len(BlameLines) > MaxOutput \/ parsed.failed THEN FailRead("ParseFailure")
           ELSE EndRead(parsed.lines)

-------------------------------------------------------------------------------
(* Diffs *)

\* A line is of the side its first character tells; a mark on the last newline is of the line before.
EditorHunkLine(lines, line) ==
    IF line.is = "\\" /\ lines # <<>> THEN [lines EXCEPT ![Len(lines)].newline = FALSE]
    ELSE lines \o (IF Origin(line) = "none" THEN <<>>
                   ELSE <<[origin |-> Origin(line), text |-> line.text, newline |-> TRUE]>>)

\* A hunk ends at the next, or with its file: whatever a line in it looks like.
EditorDiffLine(file, line) ==
    CASE IsHunkHeader(line) ->
             [file EXCEPT !.hunks = Append(@, [ranges |-> line.ranges, lines |-> <<>>])]
      [] ~IsHunkHeader(line) /\ file.hunks # <<>> ->
             [file EXCEPT !.hunks[Len(file.hunks)].lines = EditorHunkLine(@, line)]
      [] OTHER ->
             CASE line.is \in {"rename from ", "copy from "} ->
                      [file EXCEPT !.previous = line.path, !.copy = @ \/ line.is = "copy from "]
               [] line.is \in {"new file mode", "deleted file mode"} -> [file EXCEPT !.mode = line.is]
               [] line.is = "Binary files " ->
                      [file EXCEPT !.binary = TRUE, !.old[2] = line.old, !.new[2] = line.new]
               [] line.is = "--- " -> [file EXCEPT !.old[1] = line.path]
               [] line.is = "+++ " -> [file EXCEPT !.new[1] = line.path]
               [] OTHER -> file

\* Of the paths by marker, by the line on binary files and by the header the first.
FirstPath(paths) == SelectSeq(paths, LAMBDA p : p \notin {Nothing, "/dev/null"})[1]

EditorFile(block) ==
    LET file == FoldLeft(EditorDiffLine,
                         [previous |-> Nothing, copy |-> FALSE, mode |-> "file mode", binary |-> FALSE,
                          old |-> <<Nothing, Nothing, block[1].old>>,
                          new |-> <<Nothing, Nothing, block[1].new>>, hunks |-> <<>>], Tail(block))
        change == CASE file.previous # Nothing -> (IF file.copy THEN "C" ELSE "R")
                    [] file.previous = Nothing /\ (file.mode = "new file mode" \/ file.old[1] = "/dev/null") -> "A"
                    [] OTHER -> IF file.mode = "deleted file mode" \/ file.new[1] = "/dev/null" THEN "D" ELSE "M"
        kept == KeptHunks(file.hunks)
    IN  [is |-> "file", change |-> change, previous |-> file.previous, binary |-> file.binary,
         path |-> FirstPath(IF change = "D" THEN file.old ELSE file.new),
         truncated |-> kept < Len(file.hunks), hunks |-> SubSeq(file.hunks, 1, kept)]

EditorCommitOfDiff ==
    /\ Asked("commit diff")
    /\ IF store.odd THEN FailRead("ParseFailure")
       ELSE Goes("editor diff", IF store.parents = <<>> THEN Nothing ELSE store.parents[1])

\* That what git printed was cut is not looked at here.
EditorCommitDiff ==
    /\ ReadAt("commit diff", "editor diff")
    /\ LET blocks == Blocks(Captured(DiffLines), "diff --git ")
       IN  EndRead([base |-> reading.got, diff |-> [k \in DOMAIN blocks |-> EditorFile(blocks[k])]])

-------------------------------------------------------------------------------
(* Repository, lines and content *)

EditorDiscover ==
    Asked("head") /\ Goes("editor verify", [bare |-> store.bare, worktree |-> ~store.bare])

EditorVerifyHead ==
    /\ ReadAt("head", "editor verify")
    /\ IF store.at = 0 THEN EndRead([head |-> "unborn", repository |-> reading.got])
       ELSE Goes("editor symbolic-ref", <<reading.got, store.at>>)

\* Without a branch HEAD is the commit it was verified as.
EditorSymbolicRef ==
    /\ ReadAt("head", "editor symbolic-ref")
    /\ EndRead(IF store.branch # Nothing
               THEN [head |-> "attached", branch |-> store.branch, repository |-> reading.got[1]]
               ELSE [head |-> "detached", commit |-> reading.got[2], repository |-> reading.got[1]])

EditorResolveRevision == Asked("lines") /\ Goes("editor log", store.commits)

EditorLineHistory ==
    /\ ReadAt("lines", "editor log")
    /\ LET lines == FlattenSeq([k \in 1 .. reading.got |->
                        <<[is |-> "hash", commit |-> reading.got + 1 - k], [is |-> "diff --git "],
                          [is |-> "@@ ", ranges |-> k], Written("+", "y")>>])
       IN  Goes("editor commits", [revision |-> reading.got, blocks |-> ParseLineHistory(lines), entries |-> <<>>])

\* Each block has the details of its commit, asked for one after the other.
EditorBlockCommit ==
    /\ ReadAt("lines", "editor commits")
    /\ LET got == reading.got
       IN  IF got.blocks = <<>> THEN EndRead([revision |-> got.revision, entries |-> got.entries])
           ELSE Goes("editor commits", [got EXCEPT !.blocks = Tail(@), !.entries = Append(@, Head(got.blocks))])

EditorFileContent == Asked("content") /\ EndRead(store.object)

EditorReadsNext ==
    \/ EditorLog \/ EditorHistoryPage \/ EditorBlame \/ EditorCommitOfDiff \/ EditorCommitDiff
    \/ EditorDiscover \/ EditorVerifyHead \/ EditorSymbolicRef
    \/ EditorResolveRevision \/ EditorLineHistory \/ EditorBlockCommit \/ EditorFileContent

\* A repository is read by either.
AllReadsSpec == ReadsInit /\ [][ReadsNext \/ EditorReadsNext]_readVars
================================================================================
