-------------------------------- MODULE Protocol --------------------------------
(***************************************************************************)
(* The wire between the core and the desktop frontend: a value is told as   *)
(* its DTO (Dtos), the user changes a rebase plan or a selection of hunks,  *)
(* and what comes back is taken for a value of the domain again.            *)
(***************************************************************************)
EXTENDS Dtos

CONSTANT MaxEdits \* bound: what the user changes in a plan or a diff

VARIABLES
    message, \* the value of the domain to tell, with its kind
    json,    \* what the frontend holds for it
    edits,   \* how often the user has changed that
    echo     \* the value of the domain that came back

wireVars == <<message, json, edits, echo>>

-------------------------------------------------------------------------------
(* Values to tell: each variant, each field there and not there *)

Lists(S) == {<<>>} \cup {<<v>> : v \in S}
HeadStates ==
    [is : {"Attached"}, branch : {"x"}] \cup [is : {"Detached"}, commit : {"x", "xx"}] \cup [is : {"Unborn"}]
OpenRepositories ==
    [id : {"x"}, root_path : Paths, worktree_path : Maybe(Paths), is_bare : BOOLEAN,
     head_state : HeadStates, current_branch : {Null, "x"}]
FileChanges ==
    [path : Paths, previous_path : {Null, "p"}, change_type : DOMAIN ChangeTypeDto,
     index_status : {"Unmodified"}, worktree_status : {"Modified"}]
    \cup [path : {"p"}, previous_path : {Null}, change_type : {"Modified"},
          index_status : DOMAIN FileStatusCodeDto, worktree_status : {"Modified", "UpdatedButUnmerged"}]
RepositoryStatuses ==
    [branch : {Null, "x"}, head_state : HeadStates, files : Lists(FileChanges)]
Signatures == [name : {"x", "y"}, email : {"x"}]
GitTimestamps == [seconds_since_epoch : {0, 1}, utc_offset_minutes : {60}]
Decorations ==
    [is : {"Head"}] \cup [is : {"Branch", "Tag"}, name : {"x", "y"}]
    \cup [is : {"RemoteBranch"}, remote : {"x"}, branch : {"x", "y"}]
Commits ==
    [hash : {"x"}, short_hash : {"x"}, parents : {<<>>, <<"x">>, <<"x", "y">>}, author : Signatures,
     committer : Signatures, author_date : GitTimestamps, commit_date : {[seconds_since_epoch |-> 1,
     utc_offset_minutes |-> 0]}, subject : {"x"}, body : {"", "x"}, decorations : Lists(Decorations)]
FewCommits == {c \in Commits : c.author = c.committer /\ c.body = "" /\ c.decorations = <<>>}
GraphRows ==
    [commit : FewCommits, lane : {0}, passthrough_lanes : {<<>>, <<1>>},
     edges : Lists([from_lane : {0}, to_lane : {1}, target : {"x"}, resolved : BOOLEAN])]
GraphPages ==
    [rows : Lists(GraphRows), lane_count : {1}, has_more : BOOLEAN, next_cursor : {Null, "x"}]
RecentRepositories == [path : Paths, last_opened_unix_seconds : {0, 1}]
BranchKinds == [is : {"Local"}] \cup [is : {"Remote"}, remote : {"x"}]
Branches ==
    [name : {"x", "x/x"}, kind : BranchKinds, target : {"x"}, upstream : {Null, "x"}, ahead : {0, 1},
     behind : {0, 1}, is_current : BOOLEAN]
Urls == [host : {"x"}, login : {Null, "user:password"}]
Remotes == [name : {"x"}, fetch_url : Urls, push_url : Urls]
Tags ==
    [name : {"x"}, target : {"x"},
     kind : [is : {"Lightweight"}]
            \cup [is : {"Annotated"}, message : {"", "x"}, tagger : Signatures, date : GitTimestamps]]
Stashes == [index : {0, 1}, commit : {"x"}, message : {"x"}, date : GitTimestamps]
SyncTargets == [remote : {"x"}, branch : {Null, "x"}]
PullResults ==
    [remote : {"x"}, branch : {"x"},
     outcome : [is : {"AlreadyUpToDate"}] \cup [is : {"FastForwarded"}, new_head : {"x", "y"}]]
ConflictedFiles == [path : Paths, stage : DOMAIN ConflictStageDto]
InProgressOperations ==
    LET files == Lists(ConflictedFiles)
        steps == Lists(DOMAIN OperationCapabilityDto)
    IN [is : {"None"}] \cup [is : {"BisectRun"}, conflicted_files : files, capabilities : steps]
       \cup [is : {"Merge"}, heads : {<<"x">>}, conflicted_files : files, capabilities : steps]
       \cup [is : {"Rebase"}, interactive : BOOLEAN, onto : {Null, "x"}, conflicted_files : files,
             capabilities : steps]
       \cup [is : {"CherryPick", "Revert"}, target : {Null, "x"}, conflicted_files : files,
             capabilities : steps]
Conflicts == [is : {"Conflict"}, files : Lists(ConflictedFiles)]
MergeResults ==
    [is : {"FastForwarded"}, new_head : {"x"}] \cup [is : {"MergeCommitCreated"}, hash : {"x"}]
    \cup Conflicts
RebaseResults == [is : {"Completed"}, new_head : {"x"}] \cup Conflicts
RevertResults == [is : {"Applied"}, hash : {"x"}] \cup Conflicts
CherryPickResults == RevertResults \cup [is : {"Empty"}]
\* plan_rebase picks every commit of the range.
Picked(hash) ==
    [commit |-> hash, short_hash |-> hash, subject |-> hash, action |-> "Pick", message_override |-> Null]
RebasePlans ==
    [onto_revision : {"x"}, onto : {"x"}, branch_head : {"y"},
     entries : {<<>>, <<Picked("x")>>, <<Picked("x"), Picked("y")>>}]
ConflictSides ==
    LET sides == [is : {"Text"}, text : {"", "x"}] \cup [is : {"Binary", "Absent"}]
    IN [path : Paths, base : sides, ours : sides, theirs : sides]

DiffLines ==
    [origin : DOMAIN DiffLineOriginDto, content : {"", "x"}, has_trailing_newline : BOOLEAN]
Hunk(start, line) ==
    [old_start |-> start, old_lines |-> 1, new_start |-> start, new_lines |-> 1, lines |-> <<line>>]
FileDiffs ==
    LET line == CHOOSE l \in DiffLines : TRUE
    IN [path : Paths, previous_path : Maybe(Paths), change_type : DOMAIN ChangeTypeDto,
        is_binary : {FALSE}, truncated : {FALSE}, hunks : {<<Hunk(1, line), Hunk(2, line)>>}]
       \cup [path : {"p"}, previous_path : {Null}, change_type : {"Modified"}, is_binary : {FALSE},
             truncated : {FALSE}, hunks : Lists({Hunk(1, l) : l \in DiffLines})]
       \* What is binary or too long has no hunks.
       \cup [path : {"p"}, previous_path : {Null}, change_type : {"Modified"}, is_binary : {TRUE},
             truncated : {FALSE}, hunks : {<<>>}]
       \cup [path : {"p"}, previous_path : {Null}, change_type : {"Modified"}, is_binary : {FALSE},
             truncated : {TRUE}, hunks : {<<>>}]
Diffs == [files : Lists(FileDiffs)]
FewDiffs == [files : {<<>>}] \cup {[files |-> <<f>>] : f \in {g \in FileDiffs : g.hunks = <<>>}}
PatchExports ==
    [patch : {"", "x"}, included_files : Lists(Paths), skipped_binary_files : Lists(Paths),
     skipped_truncated_files : Lists(Paths)]
PatchPreviews ==
    [affected_files : Lists(Paths), supported : {TRUE}, rejection_reason : {Null}]
    \cup [affected_files : Lists(Paths), supported : {FALSE}, rejection_reason : {"x"}]
ApplyPatchResults == [applied_files : Lists(Paths)]
Blames ==
    [file : Paths, revision : {Null, "x"},
     lines : Lists([final_line : {1}, original_line : {1, 2}, commit : {"x", "xx"}, author : Signatures,
                    timestamp : GitTimestamps, content : {"", "x"}, origin : DOMAIN BlameOriginDto])]
CommitDiffs == [target : {"x"}, base : {Null, "x"}, diff : FewDiffs]
LineHistories ==
    [file : Paths, revision : {"x"}, range : [start : {1}, end : {1, 2}],
     entries : Lists([commit : FewCommits, hunks : Lists({Hunk(1, l) : l \in DiffLines})])]
FileContents ==
    [is : {"Text"}, path : Paths, revision : {"x"}, content : {"", "x", BinaryNotice}]
    \cup [is : {"Binary", "Missing"}, path : Paths, revision : {"x"}]
AmendPreviews == [head : FewCommits, staged_diff : FewDiffs]

\* Of two errors that differ in what is not told one is enough.
Errors ==
    [code : {"x"}, message : {"x"}, remediation : {Null, "x"}, operation_id : {Null, "x"},
     diagnostic : {"y"}]
PullRequestSummaries ==
    [title : {"x"}, state : DOMAIN PullRequestStateDto, author : {Null, "x"},
     source_branch : {Null, "x"}, target_branch : {Null, "x"}, url : {"x"}]
ListPullRequestsOutcomes ==
    [is : {"NoForgeDetected", "AuthenticationRequired", "PermissionDenied"}]
    \cup [is : {"Page"}, page : [items : Lists(PullRequestSummaries), has_next_page : BOOLEAN]]
    \cup [is : {"RateLimited"}, retry_after_seconds : {Null, 0, 1}]
    \cup [is : {"Offline"}, message : {"x"}] \cup [is : {"Error"}, error : Errors]
PreferencesLoaded ==
    [theme : DOMAIN ThemePreferenceDto, check_for_updates : BOOLEAN, diagnostic : Maybe(Errors)]
Releases == [tag : {"x"}, html_url : {"x"}, checksums_url : {Null, "x"}, notes : {Null, "", "x"}]
UpdateCheckOutcomes ==
    [is : {"Skipped"},
     reason : [is : {"Disabled"}] \cup [is : {"CheckedRecently"}, next_check_after_unix : {0, 1}]]
    \cup [is : {"NoReleasesPublished"}] \cup [is : {"UpToDate"}, current_tag : {"x"}]
    \cup [is : {"UpdateAvailable"}, current_tag : {"x"}, release : Releases]
    \cup [is : {"CannotDetermineCurrentVersion"}, release : Releases]
    \cup [is : {"CheckFailed"}, error : Errors]
-------------------------------------------------------------------------------
(* Telling, changing what was told, sending it back *)

\* What a kind of value is told as, and the type of it in dto.ts.
Wire(kind) ==
    LET As(told, type) == [told |-> told, type |-> type]
    IN CASE kind = "repository" -> As([v \in OpenRepositories |-> RepositoryDto(v)], TsRepository)
         [] kind = "status" -> As([v \in RepositoryStatuses |-> RepositoryStatusDto(v)], TsRepositoryStatus)
         [] kind = "commit" -> As([v \in Commits |-> CommitDto(v)], TsCommit)
         [] kind = "graph page" -> As([v \in GraphPages |-> CommitGraphPageDto(v)], TsCommitGraphPage)
         [] kind = "recent" -> As([v \in RecentRepositories |-> RecentRepositoryDto(v)], TsRecentRepository)
         [] kind = "branch" -> As([v \in Branches |-> BranchDto(v)], TsBranch)
         [] kind = "remote" -> As([v \in Remotes |-> RemoteDto(v)], TsRemote)
         [] kind = "tag" -> As([v \in Tags |-> TagDto(v)], TsTag)
         [] kind = "stash" -> As([v \in Stashes |-> StashDto(v)], TsStash)
         [] kind = "sync target" -> As([v \in SyncTargets |-> SyncTargetDto(v)], TsSyncTarget)
         [] kind = "pull result" -> As([v \in PullResults |-> PullResultDto(v)], TsPullResult)
         [] kind = "operation" ->
                As([v \in InProgressOperations |-> InProgressOperationDto(v)], TsInProgressOperation)
         [] kind = "merge result" -> As([v \in MergeResults |-> MergeResultDto(v)], TsMergeResult)
         [] kind = "rebase result" -> As([v \in RebaseResults |-> RebaseResultDto(v)], TsRebaseResult)
         [] kind = "cherry-pick result" ->
                As([v \in CherryPickResults |-> CherryPickResultDto(v)], TsCherryPickResult)
         [] kind = "revert result" -> As([v \in RevertResults |-> RevertResultDto(v)], TsRevertResult)
         [] kind = "plan" -> As([v \in RebasePlans |-> RebasePlanDto(v)], TsRebasePlan)
         [] kind = "sides" -> As([v \in ConflictSides |-> ConflictSidesDto(v)], TsConflictSides)
         [] kind = "diff" -> As([v \in Diffs |-> DiffDto(v)], TsDiff)
         [] kind = "patch" -> As([v \in PatchExports |-> PatchExportDto(v)], TsPatchExport)
         [] kind = "preview" -> As([v \in PatchPreviews |-> PatchPreviewDto(v)], TsPatchPreview)
         [] kind = "applied" -> As([v \in ApplyPatchResults |-> ApplyPatchResultDto(v)], TsApplyPatchResult)
         [] kind = "blame" -> As([v \in Blames |-> BlameDto(v)], TsBlame)
         [] kind = "commit diff" -> As([v \in CommitDiffs |-> CommitDiffDto(v)], TsCommitDiff)
         [] kind = "line history" -> As([v \in LineHistories |-> LineHistoryDto(v)], TsLineHistory)
         [] kind = "content" -> As([v \in FileContents |-> FileContentDto(v)], TsFileContent)
         [] kind = "commit result" -> As([v \in {"x"} |-> CommitResultDto(v)], TsCommitResult)
         [] kind = "amend preview" -> As([v \in AmendPreviews |-> AmendPreviewDto(v)], TsAmendPreview)
         [] kind = "connection" -> As(ForgeConnectionStatusDto, {"connected", "notConnected"})
         [] kind = "pull requests" ->
                As([v \in ListPullRequestsOutcomes |-> ListPullRequestsOutcomeDto(v)],
                   TsListPullRequestsOutcome)
         [] kind = "preferences" -> As([v \in PreferencesLoaded |-> PreferencesDto(v)], TsPreferences)
         [] kind = "update" -> As([v \in UpdateCheckOutcomes |-> UpdateCheckOutcomeDto(v)], TsUpdateCheckOutcome)

ToldKinds ==
    {"repository", "status", "commit", "graph page", "recent", "branch", "remote", "tag", "stash",
     "sync target", "pull result", "operation", "merge result", "rebase result", "cherry-pick result",
     "revert result", "plan", "sides", "diff", "patch", "preview", "applied", "blame", "commit diff",
     "line history", "content", "commit result", "amend preview", "connection", "pull requests",
     "preferences", "update"}

Wires == [kind \in ToldKinds |-> Wire(kind)]

Silence == [kind |-> "nothing"]
WireInit == message = Silence /\ json = Null /\ edits = 0 /\ echo = Null

\* A command answers, and Tauri tells the answer.
Tell ==
    /\ message = Silence
    /\ \E kind \in ToldKinds :
        LET told == Wires[kind].told
        IN \E v \in DOMAIN told : message' = [kind |-> kind, value |-> v] /\ json' = told[v]
    /\ UNCHANGED <<edits, echo>>

Edit(kind, changed) ==
    /\ message.kind = kind /\ edits < MaxEdits /\ echo = Null
    /\ json' = changed /\ edits' = edits + 1
    /\ UNCHANGED <<message, echo>>

\* The panel of a rebase plan: an entry goes up or down, takes another action, and where
\* it is to be reworded another message.
MoveRebasePlanEntry ==
    message.kind = "plan" /\ \E i \in DOMAIN json.entries : \E target \in {i - 1, i + 1} \cap DOMAIN json.entries :
        Edit("plan", [json EXCEPT !.entries[i] = json.entries[target], !.entries[target] = json.entries[i]])

SetRebasePlanAction ==
    message.kind = "plan" /\ \E i \in DOMAIN json.entries, action \in TsRebaseAction :
        Edit("plan", [json EXCEPT
            !.entries[i].action = action,
            !.entries[i].messageOverride = IF action = "reword" THEN @ ELSE Null])

SetRebasePlanMessage ==
    message.kind = "plan" /\ \E i \in DOMAIN json.entries, text \in {"", "x", "y"} :
        /\ json.entries[i].action = "reword"
        /\ Edit("plan", [json EXCEPT !.entries[i].messageOverride = text])

\* validateRebasePlan, before a plan may be confirmed; the empty text is no message.
ValidateRebasePlan(plan) ==
    \A i \in DOMAIN plan.entries :
        LET entry == plan.entries[i]
        IN /\ entry.action \in {"squash", "fixup"} => i # 1
           /\ entry.action = "reword" => entry.messageOverride \notin {Null, ""}
           /\ entry.action # "reword" => entry.messageOverride \in {Null, ""}

\* RebasePlan::validate, which refuses what the panel let pass.
PlanIsValid(plan) ==
    \A i \in DOMAIN plan.entries :
        LET entry == plan.entries[i]
        IN IF entry.action = "Reword" THEN entry.message_override \notin {Null, ""}
           ELSE /\ entry.message_override = Null
                /\ entry.action \in {"Squash", "Fixup"} => i # 1

ExecuteRebasePlan ==
    /\ message.kind = "plan" /\ echo = Null /\ ValidateRebasePlan(json)
    /\ echo' = RebasePlanOf(json)
    /\ UNCHANGED <<message, json, edits>>

\* Files of a diff go back with the hunks that were selected.
SelectHunks ==
    message.kind = "diff" /\ \E i \in DOMAIN json.files :
        LET hunks == json.files[i].hunks
        IN \E keep \in SUBSET ToSet(hunks) :
            Edit("diff", [json EXCEPT !.files[i].hunks = SelectSeq(hunks, LAMBDA h : h \in keep)])

StageHunks ==
    /\ message.kind = "diff" /\ echo = Null
    /\ echo' = Each(FileDiffOf, json.files)
    /\ UNCHANGED <<message, json, edits>>

\* What the frontend makes up itself: a link, an account, a theme.
Asked(kind) ==
    CASE kind = "link" -> [t \in TsForgeLinkTarget |-> ForgeLinkTargetOf(t)]
      [] kind = "account" -> [t \in TsForgeAccount |-> ForgeAccountOf(t)]
      [] kind = "theme" -> ThemePreferenceOf

Ask ==
    /\ message = Silence
    /\ \E kind \in {"link", "account", "theme"} :
        LET asked == Asked(kind)
        IN \E t \in DOMAIN asked :
            message' = [kind |-> kind] /\ json' = t /\ echo' = asked[t]
    /\ UNCHANGED edits

WireNext ==
    \/ Tell \/ Ask
    \/ MoveRebasePlanEntry \/ SetRebasePlanAction \/ SetRebasePlanMessage \/ ExecuteRebasePlan
    \/ SelectHunks \/ StageHunks

-------------------------------------------------------------------------------
(* Properties *)

\* What is told is of the type the frontend takes it for, and what differs is told
\* differently, but for a password.  Of one key it is not so: dto.ts:123 has a nextCursor
\* in each page, dto.rs:372 leaves it out of the last (README, finding 43).  There it is
\* the store's reading that must be of the type.
Unlogged(remote) ==
    [remote EXCEPT !.fetch_url.login = Redacted(remote.fetch_url).login,
                   !.push_url.login = Redacted(remote.push_url).login]
ToldIsUnderstood ==
    message.kind \in ToldKinds =>
        LET wire == Wires[message.kind]
            Same(v, w) == IF message.kind = "remote" THEN Unlogged(v) = Unlogged(w) ELSE v = w
            LastPage == message.kind = "graph page" /\ message.value.next_cursor = Null
        IN /\ IF LastPage THEN StoredPage(json) \in wire.type ELSE json \in wire.type
           /\ edits = 0 => \A v \in DOMAIN wire.told : wire.told[v] = json => Same(v, message.value)

NamesNothing(target) ==
    \/ target.kind = "branch" /\ target.name = ""
    \/ target.kind = "commit" /\ target.hash \notin Hashes

\* A plan that comes back has the commits that were planned, in the state they were
\* planned in, and is one the provider will not refuse for its shape.  Hunks that come
\* back are hunks of their file.  (A path that is no UTF-8 is documented to be lost.)
\* Of what the frontend makes up, only what names nothing is refused, nothing is taken for
\* something else, and an account is one whatever the case its host is written in.
SentBackIsMeant ==
    echo # Null =>
        CASE message.kind = "plan" ->
                 LET planned == message.value
                     Commit(e) == <<e.commit, e.short_hash, e.subject>>
                 IN /\ PlanIsValid(echo)
                    /\ [echo EXCEPT !.entries = <<>>] = [planned EXCEPT !.entries = <<>>]
                    /\ Len(echo.entries) = Len(planned.entries)
                    /\ {Commit(e) : e \in ToSet(echo.entries)} = {Commit(e) : e \in ToSet(planned.entries)}
          [] message.kind = "diff" ->
                 \A i \in DOMAIN echo :
                     LET file == message.value.files[i]
                     IN "raw" \notin {file.path, file.previous_path} =>
                            /\ [echo[i] EXCEPT !.hunks = file.hunks] = file
                            /\ ToSet(echo[i].hunks) \subseteq ToSet(file.hunks)
          [] message.kind = "account" ->
                 \A t \in TsForgeAccount :
                     ForgeAccountOf(t) = echo <=>
                         t.kind = json.kind /\ ToAsciiLowercase(t.host) = ToAsciiLowercase(json.host)
          [] message.kind = "link" ->
                 IF echo = ParseFailure THEN NamesNothing(json)
                 ELSE \A t \in TsForgeLinkTarget : ForgeLinkTargetOf(t) = echo => t = json
          [] message.kind = "theme" ->
                 \A t \in TsThemePreference : ThemePreferenceOf[t] = echo => t = json

\* Nothing is lost or taken for something else between the core and the frontend: what
\* dto.rs tells, dto.ts declares, and what comes back is what was meant (dto.rs, dto.ts,
\* stores/merge.ts, errors.ts: two mirrors kept by hand).
WireIsUnderstood == ToldIsUnderstood /\ SentBackIsMeant
===============================================================================
