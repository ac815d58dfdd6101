---------------------------------- MODULE Dtos ----------------------------------
(***************************************************************************)
(* gitsail-protocol: what a value of the domain is told as, and what the    *)
(* desktop frontend takes it for.  A JSON object is the record of its keys, *)
(* spelled as serde spells them: rename_all names the fields of a struct,   *)
(* but of an enum only the variants.  null is Null, a key left out is no    *)
(* field.  The types of dto.ts are sets of such records; nothing but a      *)
(* person compares them with dto.rs.                                        *)
(***************************************************************************)
EXTENDS Naturals, Sequences, SequencesExt

CONSTANT Null \* null, and what is not there

\* Texts: some are hashes, one names a branch of a remote, one is what gitsail prints of
\* a binary file at revision x, and two are one host in other cases.
Hashes == {"x", "xx", "y"}
BinaryNotice == "(binary file, revision x)"
Text == Hashes \cup {"", "x/x", "X", BinaryNotice}
ToAsciiLowercase(text) == IF text = "X" THEN "x" ELSE text
Maybe(S) == S \cup {Null}
Each(Dto(_), list) == [i \in DOMAIN list |-> Dto(list[i])]
Opt(Dto(_), v) == IF v = Null THEN Null ELSE Dto(v)

\* path_to_string: bytes that are no UTF-8 are replaced, which string_to_path cannot undo.
Paths == {"p", "raw"}
PathToString(path) == IF path = "raw" THEN "replaced" ELSE path
StringToPath(text) == text
TsPath == {"p", "replaced"}

-------------------------------------------------------------------------------
(* Repository, status, commits *)

HeadStateDto(head) ==
    CASE head.is = "Attached" -> [state |-> "attached", branch |-> head.branch]
      [] head.is = "Detached" -> [state |-> "detached", commit |-> head.commit]
      [] head.is = "Unborn" -> [state |-> "unborn"]
TsHeadState ==
    [state : {"attached"}, branch : Text] \cup [state : {"detached"}, commit : Text] \cup [state : {"unborn"}]

RepositoryDto(repo) ==
    [id |-> repo.id, rootPath |-> PathToString(repo.root_path),
     worktreePath |-> Opt(PathToString, repo.worktree_path), isBare |-> repo.is_bare,
     headState |-> HeadStateDto(repo.head_state), currentBranch |-> repo.current_branch]
TsRepository ==
    [id : Text, rootPath : TsPath, worktreePath : Maybe(TsPath), isBare : BOOLEAN,
     headState : TsHeadState, currentBranch : Maybe(Text)]

\* Of unit variants rename_all = "snake_case" spells the words.
ChangeTypeDto ==
    [Added |-> "added", Modified |-> "modified", Deleted |-> "deleted", Renamed |-> "renamed",
     Copied |-> "copied", TypeChanged |-> "type_changed", Unmerged |-> "unmerged",
     Untracked |-> "untracked", Ignored |-> "ignored"]
TsChangeType ==
    {"added", "modified", "deleted", "renamed", "copied", "type_changed", "unmerged", "untracked", "ignored"}
FileStatusCodeDto ==
    [Unmodified |-> "unmodified", Modified |-> "modified", Added |-> "added", Deleted |-> "deleted",
     Renamed |-> "renamed", Copied |-> "copied", UpdatedButUnmerged |-> "updated_but_unmerged",
     Untracked |-> "untracked", Ignored |-> "ignored"]
TsFileStatusCode ==
    {"unmodified", "modified", "added", "deleted", "renamed", "copied", "updated_but_unmerged",
     "untracked", "ignored"}

FileChangeDto(change) ==
    [path |-> PathToString(change.path), previousPath |-> Opt(PathToString, change.previous_path),
     changeType |-> ChangeTypeDto[change.change_type],
     indexStatus |-> FileStatusCodeDto[change.index_status],
     worktreeStatus |-> FileStatusCodeDto[change.worktree_status]]
TsFileChange ==
    [path : TsPath, previousPath : Maybe(TsPath), changeType : TsChangeType,
     indexStatus : TsFileStatusCode, worktreeStatus : TsFileStatusCode]

\* A status is clean when it lists no file.
RepositoryStatusDto(status) ==
    [branch |-> status.branch, headState |-> HeadStateDto(status.head_state),
     files |-> Each(FileChangeDto, status.files), isClean |-> status.files = <<>>]
TsRepositoryStatus ==
    [branch : Maybe(Text), headState : TsHeadState, files : Seq(TsFileChange), isClean : BOOLEAN]

GitTimestampDto(ts) ==
    [secondsSinceEpoch |-> ts.seconds_since_epoch, utcOffsetMinutes |-> ts.utc_offset_minutes]
TsGitTimestamp == [secondsSinceEpoch : Nat, utcOffsetMinutes : Nat]
SignatureDto(sig) == [name |-> sig.name, email |-> sig.email]
TsSignature == [name : Text, email : Text]

DecorationDto(d) ==
    CASE d.is = "Head" -> [kind |-> "head"]
      [] d.is = "Branch" -> [kind |-> "branch", name |-> d.name]
      [] d.is = "RemoteBranch" -> [kind |-> "remoteBranch", remote |-> d.remote, branch |-> d.branch]
      [] d.is = "Tag" -> [kind |-> "tag", name |-> d.name]
TsDecoration ==
    [kind : {"head"}] \cup [kind : {"branch", "tag"}, name : Text]
    \cup [kind : {"remoteBranch"}, remote : Text, branch : Text]

CommitDto(commit) ==
    [hash |-> commit.hash, shortHash |-> commit.short_hash, parents |-> commit.parents,
     author |-> SignatureDto(commit.author), committer |-> SignatureDto(commit.committer),
     authorDate |-> GitTimestampDto(commit.author_date), commitDate |-> GitTimestampDto(commit.commit_date),
     subject |-> commit.subject, body |-> commit.body,
     decorations |-> Each(DecorationDto, commit.decorations),
     isMerge |-> Len(commit.parents) > 1, isRoot |-> commit.parents = <<>>]
TsCommit ==
    [hash : Text, shortHash : Text, parents : Seq(Text), author : TsSignature, committer : TsSignature,
     authorDate : TsGitTimestamp, commitDate : TsGitTimestamp, subject : Text, body : Text,
     decorations : Seq(TsDecoration), isMerge : BOOLEAN, isRoot : BOOLEAN]

\* from_row_and_commit zips the rows of a layout with their commits.
GraphEdgeDto(edge) ==
    [fromLane |-> edge.from_lane, toLane |-> edge.to_lane, target |-> edge.target, resolved |-> edge.resolved]
TsGraphEdge == [fromLane : Nat, toLane : Nat, target : Text, resolved : BOOLEAN]
CommitGraphRowDto(row) ==
    [commit |-> CommitDto(row.commit), lane |-> row.lane, edges |-> Each(GraphEdgeDto, row.edges),
     passthroughLanes |-> row.passthrough_lanes]
TsCommitGraphRow ==
    [commit : TsCommit, lane : Nat, edges : Seq(TsGraphEdge), passthroughLanes : Seq(Nat)]

\* Of a page without a next the cursor is left out, where dto.ts has null.
WithoutNull(key, value) == IF value = Null THEN <<>> ELSE key :> value
CommitGraphPageDto(page) ==
    [rows |-> Each(CommitGraphRowDto, page.rows), laneCount |-> page.lane_count, hasMore |-> page.has_more]
    @@ WithoutNull("nextCursor", page.next_cursor)
\* What the store takes a page for, with a cursor or without: nextCursor ?? null.
StoredPage(keys) == keys @@ ("nextCursor" :> IF "nextCursor" \in DOMAIN keys THEN keys.nextCursor ELSE Null)
TsCommitGraphPage ==
    [rows : Seq(TsCommitGraphRow), laneCount : Nat, hasMore : BOOLEAN, nextCursor : Maybe(Text)]

RecentRepositoryDto(entry) ==
    [path |-> PathToString(entry.path), lastOpenedUnixSeconds |-> entry.last_opened_unix_seconds]
TsRecentRepository == [path : TsPath, lastOpenedUnixSeconds : Nat]

-------------------------------------------------------------------------------
(* Branches, remotes, tags, stashes *)

BranchKindDto(kind) ==
    CASE kind.is = "Local" -> [kind |-> "local"]
      [] kind.is = "Remote" -> [kind |-> "remote", remote |-> kind.remote]
TsBranchKind == [kind : {"local"}] \cup [kind : {"remote"}, remote : Text]
BranchDto(branch) ==
    [name |-> branch.name, kind |-> BranchKindDto(branch.kind), target |-> branch.target,
     upstream |-> branch.upstream, ahead |-> branch.ahead, behind |-> branch.behind,
     isCurrent |-> branch.is_current]
TsBranch ==
    [name : Text, kind : TsBranchKind, target : Text, upstream : Maybe(Text), ahead : Nat, behind : Nat,
     isCurrent : BOOLEAN]

\* RemoteUrl::redacted: what is told has no password, and says so.
Redacted(url) == IF url.login = Null THEN url ELSE [url EXCEPT !.login = "***"]
RemoteDto(remote) ==
    [name |-> remote.name, fetchUrl |-> Redacted(remote.fetch_url), pushUrl |-> Redacted(remote.push_url)]
TsUrl == [host : Text, login : {Null, "***"}]
TsRemote == [name : Text, fetchUrl : TsUrl, pushUrl : TsUrl]

TagKindDto(kind) ==
    CASE kind.is = "Lightweight" -> [kind |-> "lightweight"]
      [] kind.is = "Annotated" ->
             [kind |-> "annotated", message |-> kind.message, tagger |-> SignatureDto(kind.tagger),
              date |-> GitTimestampDto(kind.date)]
TsTagKind ==
    [kind : {"lightweight"}]
    \cup [kind : {"annotated"}, message : Text, tagger : TsSignature, date : TsGitTimestamp]
TagDto(tag) == [name |-> tag.name, target |-> tag.target, kind |-> TagKindDto(tag.kind)]
TsTag == [name : Text, target : Text, kind : TsTagKind]
StashDto(stash) ==
    [index |-> stash.index, commit |-> stash.commit, message |-> stash.message,
     date |-> GitTimestampDto(stash.date)]
TsStash == [index : Nat, commit : Text, message : Text, date : TsGitTimestamp]

SyncTargetDto(target) == [remote |-> target.remote, branch |-> target.branch]
TsSyncTarget == [remote : Text, branch : Maybe(Text)]

\* Mutated form: the field of a variant is left to rename_all.
PullOutcomeUnrenamed(outcome) ==
    CASE outcome.is = "AlreadyUpToDate" -> [outcome |-> "alreadyUpToDate"]
      [] outcome.is = "FastForwarded" -> [outcome |-> "fastForwarded", new_head |-> outcome.new_head]

PullOutcomeDto(outcome) ==
    CASE outcome.is = "AlreadyUpToDate" -> [outcome |-> "alreadyUpToDate"]
      [] outcome.is = "FastForwarded" -> [outcome |-> "fastForwarded", newHead |-> outcome.new_head]
TsPullOutcome == [outcome : {"alreadyUpToDate"}] \cup [outcome : {"fastForwarded"}, newHead : Text]
PullResultDto(result) ==
    [remote |-> result.remote, branch |-> result.branch, outcome |-> PullOutcomeDto(result.outcome)]
TsPullResult == [remote : Text, branch : Text, outcome : TsPullOutcome]

-------------------------------------------------------------------------------
(* Operations in progress and what they end in *)

ConflictStageDto ==
    [BothModified |-> "bothModified", BothAdded |-> "bothAdded", BothDeleted |-> "bothDeleted",
     AddedByUs |-> "addedByUs", AddedByThem |-> "addedByThem", DeletedByUs |-> "deletedByUs",
     DeletedByThem |-> "deletedByThem"]
TsConflictStage ==
    {"bothModified", "bothAdded", "bothDeleted", "addedByUs", "addedByThem", "deletedByUs", "deletedByThem"}
ConflictedFileDto(file) == [path |-> PathToString(file.path), stage |-> ConflictStageDto[file.stage]]
TsConflictedFile == [path : TsPath, stage : TsConflictStage]
OperationCapabilityDto == [Continue |-> "continue", Skip |-> "skip", Abort |-> "abort"]
TsOperationCapability == {"continue", "skip", "abort"}
ConflictedFilesDto(files) == Each(ConflictedFileDto, files)
CapabilitiesDto(capabilities) == [i \in DOMAIN capabilities |-> OperationCapabilityDto[capabilities[i]]]

InProgressOperationDto(op) ==
    LET Pending(kind) == [kind |-> kind, conflictedFiles |-> ConflictedFilesDto(op.conflicted_files),
                          capabilities |-> CapabilitiesDto(op.capabilities)]
    IN CASE op.is = "None" -> [kind |-> "none"]
         [] op.is = "Merge" -> Pending("merge") @@ [heads |-> op.heads]
         [] op.is = "Rebase" -> Pending("rebase") @@ [interactive |-> op.interactive, onto |-> op.onto]
         [] op.is = "CherryPick" -> Pending("cherryPick") @@ [target |-> op.target]
         [] op.is = "Revert" -> Pending("revert") @@ [target |-> op.target]
         [] op.is = "BisectRun" -> Pending("bisectRun")
TsInProgressOperation ==
    [kind : {"none"}]
    \cup [kind : {"merge"}, heads : Seq(Text), conflictedFiles : Seq(TsConflictedFile),
          capabilities : Seq(TsOperationCapability)]
    \cup [kind : {"rebase"}, interactive : BOOLEAN, onto : Maybe(Text),
          conflictedFiles : Seq(TsConflictedFile), capabilities : Seq(TsOperationCapability)]
    \cup [kind : {"cherryPick", "revert"}, target : Maybe(Text), conflictedFiles : Seq(TsConflictedFile),
          capabilities : Seq(TsOperationCapability)]
    \cup [kind : {"bisectRun"}, conflictedFiles : Seq(TsConflictedFile),
          capabilities : Seq(TsOperationCapability)]

\* Where files conflict the four results are told alike.
ConflictDto(files) == [outcome |-> "conflict", conflictedFiles |-> ConflictedFilesDto(files)]
TsConflict == [outcome : {"conflict"}, conflictedFiles : Seq(TsConflictedFile)]
MergeResultDto(result) ==
    CASE result.is = "FastForwarded" -> [outcome |-> "fastForwarded", newHead |-> result.new_head]
      [] result.is = "MergeCommitCreated" -> [outcome |-> "mergeCommitCreated", hash |-> result.hash]
      [] result.is = "Conflict" -> ConflictDto(result.files)
TsMergeResult ==
    [outcome : {"fastForwarded"}, newHead : Text] \cup [outcome : {"mergeCommitCreated"}, hash : Text]
    \cup TsConflict
RebaseResultDto(result) ==
    CASE result.is = "Completed" -> [outcome |-> "completed", newHead |-> result.new_head]
      [] result.is = "Conflict" -> ConflictDto(result.files)
TsRebaseResult == [outcome : {"completed"}, newHead : Text] \cup TsConflict
CherryPickResultDto(result) ==
    CASE result.is = "Applied" -> [outcome |-> "applied", hash |-> result.hash]
      [] result.is = "Conflict" -> ConflictDto(result.files)
      [] result.is = "Empty" -> [outcome |-> "empty"]
TsCherryPickResult == [outcome : {"applied"}, hash : Text] \cup TsConflict \cup [outcome : {"empty"}]
RevertResultDto(result) ==
    CASE result.is = "Applied" -> [outcome |-> "applied", hash |-> result.hash]
      [] result.is = "Conflict" -> ConflictDto(result.files)
TsRevertResult == [outcome : {"applied"}, hash : Text] \cup TsConflict

RebaseActionDto ==
    [Pick |-> "pick", Reword |-> "reword", Squash |-> "squash", Fixup |-> "fixup", Drop |-> "drop"]
TsRebaseAction == {"pick", "reword", "squash", "fixup", "drop"}
RebaseActionOf ==
    [pick |-> "Pick", reword |-> "Reword", squash |-> "Squash", fixup |-> "Fixup", drop |-> "Drop"]
RebasePlanEntryDto(entry) ==
    [commit |-> entry.commit, shortHash |-> entry.short_hash, subject |-> entry.subject,
     action |-> RebaseActionDto[entry.action], messageOverride |-> entry.message_override]
TsRebasePlanEntry ==
    [commit : Text, shortHash : Text, subject : Text, action : TsRebaseAction, messageOverride : Maybe(Text)]
\* What is no hash or names no branch is refused, with everything it is part of.
ParseFailure == [is |-> "ParseFailure"]
RebasePlanEntryOf(dto) ==
    [commit |-> dto.commit, short_hash |-> dto.shortHash, subject |-> dto.subject,
     action |-> RebaseActionOf[dto.action], message_override |-> dto.messageOverride]
RebasePlanDto(plan) ==
    [ontoRevision |-> plan.onto_revision, onto |-> plan.onto, branchHead |-> plan.branch_head,
     entries |-> Each(RebasePlanEntryDto, plan.entries)]
TsRebasePlan == [ontoRevision : Text, onto : Text, branchHead : Text, entries : Seq(TsRebasePlanEntry)]
RebasePlanOf(dto) ==
    IF {dto.onto, dto.branchHead}
       \cup UNION {{dto.entries[i].commit, dto.entries[i].shortHash} : i \in DOMAIN dto.entries}
       \subseteq Hashes
    THEN
    [onto_revision |-> dto.ontoRevision, onto |-> dto.onto, branch_head |-> dto.branchHead,
     entries |-> Each(RebasePlanEntryOf, dto.entries)]
    ELSE ParseFailure

ConflictSideContentDto(content) ==
    CASE content.is = "Text" -> [kind |-> "text", text |-> content.text]
      [] content.is = "Binary" -> [kind |-> "binary"]
      [] content.is = "Absent" -> [kind |-> "absent"]
TsConflictSideContent == [kind : {"text"}, text : Text] \cup [kind : {"binary", "absent"}]
ConflictSidesDto(sides) ==
    [path |-> PathToString(sides.path), base |-> ConflictSideContentDto(sides.base),
     ours |-> ConflictSideContentDto(sides.ours), theirs |-> ConflictSideContentDto(sides.theirs)]
TsConflictSides ==
    [path : TsPath, base : TsConflictSideContent, ours : TsConflictSideContent, theirs : TsConflictSideContent]

-------------------------------------------------------------------------------
(* Diffs, patches, blame, what commits did *)

DiffLineOriginDto == [Context |-> "context", Addition |-> "addition", Deletion |-> "deletion"]
TsDiffLineOrigin == {"context", "addition", "deletion"}
DiffLineOriginOf == [context |-> "Context", addition |-> "Addition", deletion |-> "Deletion"]
ChangeTypeOf ==
    [added |-> "Added", modified |-> "Modified", deleted |-> "Deleted", renamed |-> "Renamed",
     copied |-> "Copied", type_changed |-> "TypeChanged", unmerged |-> "Unmerged",
     untracked |-> "Untracked", ignored |-> "Ignored"]

DiffLineDto(line) ==
    [origin |-> DiffLineOriginDto[line.origin], content |-> line.content,
     hasTrailingNewline |-> line.has_trailing_newline]
TsDiffLine == [origin : TsDiffLineOrigin, content : Text, hasTrailingNewline : BOOLEAN]
DiffLineOf(dto) ==
    [origin |-> DiffLineOriginOf[dto.origin], content |-> dto.content,
     has_trailing_newline |-> dto.hasTrailingNewline]
DiffHunkDto(hunk) ==
    [oldStart |-> hunk.old_start, oldLines |-> hunk.old_lines, newStart |-> hunk.new_start,
     newLines |-> hunk.new_lines, lines |-> Each(DiffLineDto, hunk.lines)]
TsDiffHunk ==
    [oldStart : Nat, oldLines : Nat, newStart : Nat, newLines : Nat, lines : Seq(TsDiffLine)]
DiffHunkOf(dto) ==
    [old_start |-> dto.oldStart, old_lines |-> dto.oldLines, new_start |-> dto.newStart,
     new_lines |-> dto.newLines, lines |-> Each(DiffLineOf, dto.lines)]
FileDiffDto(file) ==
    [path |-> PathToString(file.path), previousPath |-> Opt(PathToString, file.previous_path),
     changeType |-> ChangeTypeDto[file.change_type], isBinary |-> file.is_binary,
     truncated |-> file.truncated, hunks |-> Each(DiffHunkDto, file.hunks)]
TsFileDiff ==
    [path : TsPath, previousPath : Maybe(TsPath), changeType : TsChangeType, isBinary : BOOLEAN,
     truncated : BOOLEAN, hunks : Seq(TsDiffHunk)]
FileDiffOf(dto) ==
    [path |-> StringToPath(dto.path), previous_path |-> Opt(StringToPath, dto.previousPath),
     change_type |-> ChangeTypeOf[dto.changeType], is_binary |-> dto.isBinary,
     truncated |-> dto.truncated, hunks |-> Each(DiffHunkOf, dto.hunks)]
DiffDto(diff) == [files |-> Each(FileDiffDto, diff.files)]
TsDiff == [files : Seq(TsFileDiff)]

PatchExportDto(export) ==
    [patch |-> export.patch, includedFiles |-> Each(PathToString, export.included_files),
     skippedBinaryFiles |-> Each(PathToString, export.skipped_binary_files),
     skippedTruncatedFiles |-> Each(PathToString, export.skipped_truncated_files)]
TsPatchExport ==
    [patch : Text, includedFiles : Seq(TsPath), skippedBinaryFiles : Seq(TsPath),
     skippedTruncatedFiles : Seq(TsPath)]
PatchPreviewDto(preview) ==
    [affectedFiles |-> Each(PathToString, preview.affected_files), supported |-> preview.supported,
     rejectionReason |-> preview.rejection_reason]
TsPatchPreview == [affectedFiles : Seq(TsPath), supported : BOOLEAN, rejectionReason : Maybe(Text)]
ApplyPatchResultDto(result) == [appliedFiles |-> Each(PathToString, result.applied_files)]
TsApplyPatchResult == [appliedFiles : Seq(TsPath)]

BlameOriginDto == [Committed |-> "committed", Local |-> "local"]
BlameLineDto(line) ==
    [finalLine |-> line.final_line, originalLine |-> line.original_line, commit |-> line.commit,
     author |-> SignatureDto(line.author), timestamp |-> GitTimestampDto(line.timestamp),
     content |-> line.content, origin |-> BlameOriginDto[line.origin]]
TsBlameLine ==
    [finalLine : Nat, originalLine : Nat, commit : Text, author : TsSignature,
     timestamp : TsGitTimestamp, content : Text, origin : {"committed", "local"}]
BlameDto(blame) ==
    [file |-> PathToString(blame.file), revision |-> blame.revision,
     lines |-> Each(BlameLineDto, blame.lines)]
TsBlame == [file : TsPath, revision : Maybe(Text), lines : Seq(TsBlameLine)]

CommitDiffDto(value) == [target |-> value.target, base |-> value.base, diff |-> DiffDto(value.diff)]
TsCommitDiff == [target : Text, base : Maybe(Text), diff : TsDiff]
LineRangeDto(range) == [start |-> range.start, end |-> range.end]
TsLineRange == [start : Nat, end : Nat]
LineHistoryEntryDto(entry) ==
    [commit |-> CommitDto(entry.commit), hunks |-> Each(DiffHunkDto, entry.hunks)]
TsLineHistoryEntry == [commit : TsCommit, hunks : Seq(TsDiffHunk)]
LineHistoryDto(history) ==
    [file |-> PathToString(history.file), revision |-> history.revision,
     range |-> LineRangeDto(history.range), entries |-> Each(LineHistoryEntryDto, history.entries)]
TsLineHistory ==
    [file : TsPath, revision : Text, range : TsLineRange, entries : Seq(TsLineHistoryEntry)]
FileContentDto(value) ==
    LET Named(kind) ==
            [kind |-> kind, path |-> PathToString(value.path), revision |-> value.revision]
    IN CASE value.is = "Text" -> Named("text") @@ [content |-> value.content]
         [] value.is = "Binary" -> Named("binary")
         [] value.is = "Missing" -> Named("missing")
TsFileContent ==
    [kind : {"text"}, path : TsPath, revision : Text, content : Text]
    \cup [kind : {"binary", "missing"}, path : TsPath, revision : Text]
CommitResultDto(hash) == [hash |-> hash]
TsCommitResult == [hash : Text]
AmendPreviewDto(preview) ==
    [head |-> CommitDto(preview.head), stagedDiff |-> DiffDto(preview.staged_diff)]
TsAmendPreview == [head : TsCommit, stagedDiff : TsDiff]

-------------------------------------------------------------------------------
(* Errors, forges, preferences, updates *)

\* Of an error neither cause nor diagnostic is told, and no key for what it has not.
ErrorPayload(error) ==
    [code |-> error.code, message |-> error.message]
    @@ WithoutNull("remediation", error.remediation) @@ WithoutNull("operationId", error.operation_id)
TsErrorPayload ==
    UNION {[DOMAIN keys -> Text] : keys \in
        {[code |-> 0, message |-> 0], [code |-> 0, message |-> 0, remediation |-> 0],
         [code |-> 0, message |-> 0, operationId |-> 0],
         [code |-> 0, message |-> 0, remediation |-> 0, operationId |-> 0]}}

ForgeLinkTargetOf(dto) ==
    CASE dto.kind = "repository" -> [is |-> "Repository"]
      [] dto.kind = "branch" -> IF dto.name = "" THEN ParseFailure ELSE [is |-> "Branch", name |-> dto.name]
      [] dto.kind = "commit" ->
             IF dto.hash \in Hashes THEN [is |-> "Commit", hash |-> dto.hash] ELSE ParseFailure
TsForgeLinkTarget ==
    [kind : {"repository"}] \cup [kind : {"branch"}, name : Text] \cup [kind : {"commit"}, hash : Text]
ForgeKindOf == [gitHub |-> "GitHub", gitLab |-> "GitLab"]
ForgeAccountOf(dto) == [kind |-> ForgeKindOf[dto.kind], host |-> ToAsciiLowercase(dto.host)]
TsForgeAccount == [kind : {"gitHub", "gitLab"}, host : Text]
ForgeConnectionStatusDto == [Connected |-> "connected", NotConnected |-> "notConnected"]

PullRequestStateDto == [Open |-> "open", Closed |-> "closed", Merged |-> "merged"]
TsPullRequestState == {"open", "closed", "merged"}
PullRequestSummaryDto(summary) ==
    [title |-> summary.title, state |-> PullRequestStateDto[summary.state], author |-> summary.author,
     sourceBranch |-> summary.source_branch, targetBranch |-> summary.target_branch, url |-> summary.url]
TsPullRequestSummary ==
    [title : Text, state : TsPullRequestState, author : Maybe(Text), sourceBranch : Maybe(Text),
     targetBranch : Maybe(Text), url : Text]
PullRequestPageDto(page) ==
    [items |-> Each(PullRequestSummaryDto, page.items), hasNextPage |-> page.has_next_page]
TsPullRequestPage == [items : Seq(TsPullRequestSummary), hasNextPage : BOOLEAN]
ListPullRequestsOutcomeDto(outcome) ==
    CASE outcome.is = "NoForgeDetected" -> [state |-> "noForgeDetected"]
      [] outcome.is = "Page" -> [state |-> "page", page |-> PullRequestPageDto(outcome.page)]
      [] outcome.is = "AuthenticationRequired" -> [state |-> "authenticationRequired"]
      [] outcome.is = "PermissionDenied" -> [state |-> "permissionDenied"]
      [] outcome.is = "RateLimited" ->
             [state |-> "rateLimited"] @@ WithoutNull("retryAfterSeconds", outcome.retry_after_seconds)
      [] outcome.is = "Offline" -> [state |-> "offline", message |-> outcome.message]
      [] outcome.is = "Error" -> [state |-> "error", error |-> ErrorPayload(outcome.error)]
TsListPullRequestsOutcome ==
    [state : {"noForgeDetected", "authenticationRequired", "permissionDenied", "rateLimited"}]
    \cup [state : {"page"}, page : TsPullRequestPage]
    \cup [state : {"rateLimited"}, retryAfterSeconds : Nat]
    \cup [state : {"offline"}, message : Text]
    \cup [state : {"error"}, error : TsErrorPayload]

ThemePreferenceDto == [System |-> "system", Light |-> "light", Dark |-> "dark"]
ThemePreferenceOf == [system |-> "System", light |-> "Light", dark |-> "Dark"]
TsThemePreference == {"system", "light", "dark"}
\* get_preferences sets the diagnostic that From<&Preferences> leaves out.
PreferencesDto(preferences) ==
    [theme |-> ThemePreferenceDto[preferences.theme], checkForUpdates |-> preferences.check_for_updates]
    @@ WithoutNull("diagnostic", Opt(ErrorPayload, preferences.diagnostic))
TsPreferences ==
    [theme : TsThemePreference, checkForUpdates : BOOLEAN]
    \cup [theme : TsThemePreference, checkForUpdates : BOOLEAN, diagnostic : TsErrorPayload]

ReleaseInfoDto(release) ==
    [tag |-> release.tag, htmlUrl |-> release.html_url]
    @@ WithoutNull("checksumsUrl", release.checksums_url) @@ WithoutNull("notes", release.notes)
TsReleaseInfo ==
    [tag : Text, htmlUrl : Text] \cup [tag : Text, htmlUrl : Text, checksumsUrl : Text]
    \cup [tag : Text, htmlUrl : Text, notes : Text]
    \cup [tag : Text, htmlUrl : Text, checksumsUrl : Text, notes : Text]
SkipReasonDto(reason) ==
    CASE reason.is = "Disabled" -> [kind |-> "disabled"]
      [] reason.is = "CheckedRecently" ->
             [kind |-> "checkedRecently", nextCheckAfterUnix |-> reason.next_check_after_unix]
TsSkipReason == [kind : {"disabled"}] \cup [kind : {"checkedRecently"}, nextCheckAfterUnix : Nat]
UpdateCheckOutcomeDto(outcome) ==
    CASE outcome.is = "Skipped" -> [state |-> "skipped", reason |-> SkipReasonDto(outcome.reason)]
      [] outcome.is = "NoReleasesPublished" -> [state |-> "noReleasesPublished"]
      [] outcome.is = "UpToDate" -> [state |-> "upToDate", currentTag |-> outcome.current_tag]
      [] outcome.is = "UpdateAvailable" ->
             [state |-> "updateAvailable", currentTag |-> outcome.current_tag,
              release |-> ReleaseInfoDto(outcome.release)]
      [] outcome.is = "CannotDetermineCurrentVersion" ->
             [state |-> "cannotDetermineCurrentVersion", release |-> ReleaseInfoDto(outcome.release)]
      [] outcome.is = "CheckFailed" -> [state |-> "checkFailed", error |-> ErrorPayload(outcome.error)]
TsUpdateCheckOutcome ==
    [state : {"skipped"}, reason : TsSkipReason] \cup [state : {"noReleasesPublished"}]
    \cup [state : {"upToDate"}, currentTag : Text]
    \cup [state : {"updateAvailable"}, currentTag : Text, release : TsReleaseInfo]
    \cup [state : {"cannotDetermineCurrentVersion"}, release : TsReleaseInfo]
    \cup [state : {"checkFailed"}, error : TsErrorPayload]
===============================================================================
