------------------------------ MODULE TuiScreen ------------------------------
(***************************************************************************)
(* What gitsail-tui draws (ui.rs, theme.rs, graph_view.rs): where the      *)
(* panels are, what each of them says, which overlay lies on top, and what *)
(* the status bar says of the keys.  Drawing changes nothing, so that all  *)
(* of it is a function of app, a record of what App keeps and tells.       *)
(*                                                                         *)
(* Texts, colours, icons and glyphs are names; a width is a number of      *)
(* cells, a list a sequence.  What may not be there is a record with a     *)
(* field known.  An empty line is "".  Wrapping, scrolling and the solver  *)
(* of ratatui's layouts are external.                                      *)
(***************************************************************************)
EXTENDS Integers, FiniteSets, Sequences

-----------------------------------------------------------------------------
(***************************************************************************)
(* Numbers and rows (theme.rs).                                            *)
(***************************************************************************)
Lesser(a, b) == IF a < b THEN a ELSE b
Greater(a, b) == IF a < b THEN b ELSE a
Clamp(n, low, high) == Greater(low, Lesser(n, high))

\* saturating_sub.
Less(a, b) == Greater(a - b, 0)

\* A u16, of a usize and of a sum.
U16(n) == n % 65536

\* The widths that clip and truncate_spans may leave of a text or of spans: at the
\* cut a wide character may not fit into the last cell before the ellipsis.
Clipped(cells, most) ==
    IF cells <= most THEN {cells} ELSE {most} \cup (IF most > 1 THEN {most - 1} ELSE {})

\* lay_row: what is on the right is kept whole, what is on the left is cut.
RowWidths(total, left, right) ==
    LET gap == IF right = 0 THEN 0 ELSE 1
    IN {used + Less(total, used + right) + right :
           used \in Clipped(left, Less(total, right + gap))}

\* diff_line: two numbers, the sign and a blank before the code.  An added or
\* removed line is filled up to the edge.
NumberCells == 12
DiffRowWidths(total, code, filled) ==
    LET room == Less(total, NumberCells)
    IN {NumberCells + used + (IF filled THEN room - used ELSE 0) : used \in Clipped(code, room)}

\* relative_time, in seconds.
AgeUnits ==
    [minute |-> 60, hour |-> 3600, day |-> 86400, week |-> 7 * 86400, month |-> 30 * 86400,
     year |-> 365 * 86400]

Age(now, then) ==
    LET delta == now - then
        unit == IF delta < AgeUnits.hour THEN "minute"
                ELSE IF delta < AgeUnits.day THEN "hour"
                ELSE IF delta < AgeUnits.week THEN "day"
                ELSE IF delta < AgeUnits.month THEN "week"
                ELSE IF delta < AgeUnits.year THEN "month" ELSE "year"
    IN IF delta < 60 THEN [unit |-> "now", count |-> 0]
       ELSE [unit |-> unit, count |-> delta \div AgeUnits[unit]]

\* Theme::style without colours: weight alone is left.
PlainStyle(role) ==
    CASE role \in {"Strong", "Accent"} -> "bold"
      [] role = "Muted" -> "dim"
      [] OTHER -> "normal"

\* Theme::dot: a shape of its own for each, with colours and without.
Dot(kind, lowColor) ==
    LET shapes == [current |-> <<"filled", "*">>, local |-> <<"hollow", "-">>,
                   remote |-> <<"dotted", "~">>]
    IN shapes[kind][IF lowColor THEN 2 ELSE 1]

-----------------------------------------------------------------------------
(***************************************************************************)
(* Dates.                                                                  *)
(***************************************************************************)

\* Rust's / on i64 rounds towards zero, \div down.
Quotient(a, b) == IF a >= 0 THEN a \div b ELSE - ((- a) \div b)

\* civil_from_days, step by step.
Era(days) ==
    LET z == days + 719468
    IN Quotient(IF z >= 0 THEN z ELSE z - 146096, 146097)

DayOfEra(days) == days + 719468 - Era(days) * 146097

YearOfEra(days) ==
    LET d == DayOfEra(days)
    IN (d - d \div 1460 + d \div 36524 - d \div 146096) \div 365

DayOfYear(days) ==
    LET y == YearOfEra(days)
    IN DayOfEra(days) - (365 * y + y \div 4 - y \div 100)

\* Months are counted from March here.
CivilFromDays(days) ==
    LET doy == DayOfYear(days)
        mp == (5 * doy + 2) \div 153
        month == IF mp < 10 THEN mp + 3 ELSE mp - 9
        year == YearOfEra(days) + Era(days) * 400
    IN [year |-> IF month <= 2 THEN year + 1 ELSE year, month |-> month,
        day |-> doy - (153 * mp + 2) \div 5 + 1]

\* format_timestamp: the clock of who wrote the commit; div_euclid and rem_euclid.
Stamp(seconds, offset) ==
    LET shifted == seconds + offset * 60
        ofDay == shifted % 86400
    IN [date |-> CivilFromDays(shifted \div 86400), hour |-> ofDay \div 3600,
        minute |-> (ofDay % 3600) \div 60, sign |-> IF offset >= 0 THEN "+" ELSE "-",
        offset |-> <<(IF offset >= 0 THEN offset ELSE - offset) \div 60,
                     (IF offset >= 0 THEN offset ELSE - offset) % 60>>]

-----------------------------------------------------------------------------
(***************************************************************************)
(* Where things are.                                                       *)
(***************************************************************************)
MinWidth == 78
MinHeight == 20
TooSmall(width, height) == width < MinWidth \/ height < MinHeight

ColumnWidths(total) ==
    IF total >= 132 THEN [chrome |-> 32, detail |-> 34]
    ELSE IF total >= 112 THEN [chrome |-> 30, detail |-> 32]
    ELSE IF total >= 96 THEN [chrome |-> 28, detail |-> 30]
    ELSE [chrome |-> 24, detail |-> 26]

\* A percentage of so many cells, rounded to the nearest.
Share(percent, cells) == (2 * percent * cells + 100) \div 200

\* The status bar has three rows.
PanelsHeight(height) == height - 3
CentreWidth(width) == width - ColumnWidths(width).chrome - ColumnWidths(width).detail
CommitsHeight(height) == Share(55, PanelsHeight(height))
DiffHeight(height) == PanelsHeight(height) - CommitsHeight(height)

\* Block::inner, with a border on every side.
Inner(cells) == Less(cells, 2)

\* render_brand: the mark over the column, whole where there is room for it.
Brand(full) ==
    IF full THEN <<"sail", "sail", "sail", "wave", "tagline", "rule">> ELSE <<"mark", "rule">>

\* render_chrome_column: from the top, with what is left between nav and card.
NavSlots == 9
ChromeRows(height) ==
    LET inner == Inner(height)
        brand == IF inner >= 26 THEN 6 ELSE 2
        card == IF inner >= 14 THEN 6 ELSE 0
    IN [brand |-> brand, nav |-> Lesser(Less(inner, brand + card + 2), NavSlots),
        card |-> card, help |-> 2]

\* render_diff_panel: the changed files take up to half of it.
ChangesHeight(inner, entries) ==
    Clamp(U16(U16(Greater(entries, 1)) + 2), 3, Greater(inner \div 2, 3))

\* render_detail_column: Branches take what Repository and References leave.
DetailRows(height, references) ==
    LET repository == IF height >= 26 THEN 11 ELSE 6
        wanted == Clamp(U16(U16(references) + 2), 5, 12)
        refs == Lesser(wanted, Less(height, repository + 5))
    IN [repository |-> repository, branches |-> height - repository - refs, references |-> refs]

\* centered_rect: the middle of three shares, from one cell up to another.
Popup(percent, cells) ==
    LET before == (100 - percent) \div 2
    IN [from |-> Share(before, cells), to |-> Share(before + percent, cells)]

\* The share of the screen each overlay has, across and down.
PopupSize ==
    [commitDetails |-> <<80, 70>>, referenceDetails |-> <<70, 60>>, reflogDetails |-> <<80, 70>>,
     amend |-> <<75, 65>>, commit |-> <<70, 60>>, operation |-> <<50, 40>>,
     conflicts |-> <<70, 70>>, reword |-> <<70, 45>>, plan |-> <<75, 75>>,
     resetMode |-> <<75, 50>>, branch |-> <<50, 25>>, sync |-> <<60, 40>>, forge |-> <<60, 40>>,
     help |-> <<60, 75>>]

\* boxed: a summary that does not fit beside the title is left out.
HasSummary(title, summary, width) == summary > 0 /\ title + (summary + 2) + 2 <= width

\* render_status_bar: the cells of each chip, its key and its label.
ChipCosts(lowColor) ==
    LET Cost(key, label) == key + 2 + label + 3
    IN <<Cost(2, 8), Cost(IF lowColor THEN 3 ELSE 1, 4), Cost(3, 5), Cost(1, 6), Cost(1, 4),
         Cost(1, 4)>>

\* Up to the first chip that does not fit; the costs of the chips up to the nth.
CostsUpTo(lowColor, n) ==
    LET c == ChipCosts(lowColor)
    IN (IF n >= 1 THEN c[1] ELSE 0) + (IF n >= 2 THEN c[2] ELSE 0) + (IF n >= 3 THEN c[3] ELSE 0)
         + (IF n >= 4 THEN c[4] ELSE 0) + (IF n >= 5 THEN c[5] ELSE 0)
         + (IF n >= 6 THEN c[6] ELSE 0)

ChipsShown(lowColor, width) == {n \in 1..6 : CostsUpTo(lowColor, n) <= width}
BrandShown(lowColor, width) ==
    CostsUpTo(lowColor, Cardinality(ChipsShown(lowColor, width))) + 39 + 2 <= width

-----------------------------------------------------------------------------
(***************************************************************************)
(* What the panels say.                                                    *)
(***************************************************************************)

\* App::view_phase.  status is of the session, if there is one and it has been read.
ViewPhase(app) ==
    IF app.discoveryError \/ app.statusError THEN "error"
    ELSE IF ~ app.status.known THEN "loading"
    ELSE IF app.status.unborn /\ app.status.files = <<>> THEN "empty" ELSE "loaded"

\* placeholder: a panel that has a view of its own shows it when loaded.
Body(app, view) == IF ViewPhase(app) = "loaded" THEN view ELSE ViewPhase(app)

\* commit_count_label: more is the plus sign.
CommitCount(app) == [loaded |-> Len(app.commits), more |-> app.hasMore]

\* render_branch_card.  The dot does not wait for the status.
BranchCard(app) ==
    LET phase == ViewPhase(app)
        clean == ~ app.status.known \/ app.status.files = <<>>
    IN [branch |-> CASE phase = "loading" -> "loading"
                     [] phase = "error" -> "unavailable"
                     [] OTHER -> IF app.branch.known THEN app.branch.name ELSE "detached",
        dot |-> IF clean THEN "current" ELSE "local",
        verdict |-> CASE phase = "loading" -> "loading"
                      [] phase = "empty" -> "unborn"
                      [] phase = "error" -> IF app.statusError THEN "statusError"
                                            ELSE "discoveryError"
                      [] phase = "loaded" -> IF clean THEN "clean" ELSE "changed"]

\* nav_items, with what each counts; render_nav marks the active one.
NavItems(app) ==
    LET Item(label, count, active) == [label |-> label, count |-> count, active |-> active]
        OnDiff(mode) == app.focus = "diff" /\ app.diffMode = mode
        OnReferences(view) == app.focus = "references" /\ app.view = view
    IN <<Item("Commits", CommitCount(app), app.focus = "graph"),
         Item("Branches", Len(app.branches), app.focus = "sidebar"),
         Item("Changes", Len(app.entries), app.focus = "details"),
         Item("Diff", {}, OnDiff("diff")),
         Item("Blame", {}, OnDiff("blame")),
         Item("Stashes", Len(app.stashes), OnReferences("stash")),
         Item("Remotes", Len(app.remotes), OnReferences("remotes")),
         Item("Tags", Len(app.tags), OnReferences("tags")),
         Item("Reflog", Len(app.reflog), OnReferences("reflog"))>>

\* lane_glyphs, node_glyph: where the commit is, what passes by, what it leads to.
LaneGlyph(row, commit, lane) ==
    IF lane = row.lane THEN CASE Len(commit.parents) > 1 -> "merge"
                              [] Len(commit.parents) = 0 -> "root"
                              [] OTHER -> "commit"
    ELSE IF lane \in row.passthrough THEN "passes"
    ELSE IF \E edge \in row.edges : edge.to = lane
         THEN IF lane > row.lane THEN "right" ELSE "left"
    ELSE "blank"

\* A row of the Commits panel; has_unresolved_edge, and the age in words if it fits.
CommitRow(app, row, commit, width) ==
    [glyphs |-> [lane \in 0..(app.lanes - 1) |-> LaneGlyph(row, commit, lane)],
     hash |-> commit.hash, decorations |-> row.decorations,
     continues |-> \E edge \in row.edges : ~ edge.resolved,
     age |-> Age(app.now, commit.date), inWords |-> width >= 58]

\* render_commits_panel: the submitted search is in the title, the one being typed
\* has a row.
CommitsPanel(app, width) ==
    LET shown == Lesser(Len(app.rows), Len(app.commits))
        list == CASE app.graphError -> "error"
                  [] ~ app.graphError /\ app.rows = <<>> ->
                         IF app.graphLoading THEN "loadingHistory"
                         ELSE IF app.filter.known THEN "noMatch" ELSE "noCommits"
                  [] OTHER -> "rows"
    IN [summary |-> CommitCount(app), filter |-> app.filter, focused |-> app.focus = "graph",
        body |-> Body(app, list), search |-> app.commitSearch,
        rows |-> [i \in 1..shown |-> CommitRow(app, app.rows[i], app.commits[i], width)],
        loadingMore |-> app.graphLoading]

\* render_changes_box: the scope of an entry is a letter.
ChangesBox(app) ==
    [body |-> IF app.entries = <<>> THEN "noChanges" ELSE "entries",
     rows |-> [i \in DOMAIN app.entries |->
                  [tag |-> IF app.entries[i].scope = "staged" THEN "S" ELSE "W",
                   path |-> app.entries[i].path, at |-> i = app.statusCursor]]]

\* diff_stats: over every hunk of every file.
HunksOf(diff) ==
    UNION {{<<f, h>> : h \in DOMAIN diff.files[f].hunks} : f \in DOMAIN diff.files}

LinesOf(diff, origin) ==
    LET Lines(at) == diff.files[at[1]].hunks[at[2]].lines
    IN UNION {{<<at, i>> : i \in {j \in DOMAIN Lines(at) : Lines(at)[j] = origin}} :
                 at \in HunksOf(diff)}

DiffStats(diff) ==
    [files |-> Len(diff.files), added |-> Cardinality(LinesOf(diff, "addition")),
     removed |-> Cardinality(LinesOf(diff, "deletion"))]

\* diff_lines numbers a line of a hunk by the lines of its side before it.
SideOf == [old |-> {"context", "deletion"}, new |-> {"context", "addition"}]

LinesBefore(hunk, side, i) == {j \in DOMAIN hunk.lines : j < i /\ hunk.lines[j] \in SideOf[side]}

Numbered(hunk, side, i) == hunk.lines[i] \in SideOf[side]
LineNumber(hunk, side, i) == hunk.start[side] + Cardinality(LinesBefore(hunk, side, i))

\* patch_export_banner, patch_apply_banner: what became of a patch, and how it is said.
\* Only a patch that left the program may be incomplete.
ExportBanner(outcome) ==
    CASE outcome.is = "copied" -> <<"ok", outcome.scope, outcome.incomplete>>
      [] outcome.is = "savedToFile" -> <<"warn", outcome.scope, outcome.incomplete, outcome.reason>>
      [] outcome.is = "failed" -> <<"danger", outcome.reason>>
      [] outcome.is = "empty" -> <<"muted">>

ApplyBanner(outcome) ==
    CASE outcome.is = "clipboardEmpty" -> <<"muted", outcome.reason>>
      [] outcome.is \in {"rejected", "failed"} -> <<"danger", outcome.reason>>
      [] outcome.is = "applied" -> <<"ok", Len(outcome.affectedFiles)>>

\* diff_lines: marks come before the hunks, the banners of patches before it all.
DiffLines(app) ==
    LET file == app.diff.files[1]
        marks == (IF file.binary THEN <<"binary">> ELSE <<>>)
                     \o (IF file.truncated THEN <<"truncated">> ELSE <<>>)
        lines == IF marks = <<>> /\ file.hunks = <<>> THEN <<"noHunks">> ELSE marks \o file.hunks
    IN (IF app.patchExport.known THEN <<ExportBanner(app.patchExport)>> ELSE <<>>)
         \o (IF app.patchApply.known THEN <<ApplyBanner(app.patchApply)>> ELSE <<>>)
         \o (IF app.diffError THEN <<"error">>
             ELSE IF ~ app.diff.known THEN <<"loading">>
             ELSE IF app.diff.files = <<>> THEN <<"noFile">> ELSE lines)

\* blame_lines: what is not committed yet has no commit.
BlameLines(app) ==
    IF app.blameError THEN <<"error">>
    ELSE IF ~ app.blame.known THEN <<"loading">>
    ELSE IF app.blame.lines = <<>> THEN <<"noLines">>
    ELSE [i \in DOMAIN app.blame.lines |->
             [by |-> IF app.blame.lines[i].local THEN "local" ELSE app.blame.lines[i].commit,
              author |-> app.blame.lines[i].author, line |-> app.blame.lines[i].line]]

\* render_diff_body.  Only blame scrolls.
DiffBody(app) ==
    [lines |-> IF ~ app.selected.known THEN <<"noFile">>
               ELSE IF app.diffMode = "diff" THEN DiffLines(app) ELSE BlameLines(app),
     scroll |-> IF app.diffMode = "blame" THEN app.blameScroll ELSE 0]

\* render_diff_panel.
DiffPanel(app) ==
    [title |-> app.diffMode, file |-> app.selected, focused |-> app.focus = "diff",
     stats |-> IF app.diff.known THEN {DiffStats(app.diff)} ELSE {},
     changes |-> ChangesBox(app),
     body |-> Body(app, DiffBody(app))]

\* render_repository_box: where it is low the counts go.
RepositoryBox(app, height) ==
    [branch |-> IF app.branch.known THEN app.branch.name ELSE "detached",
     counts |-> IF Inner(height) > 3
                THEN <<CommitCount(app), Len(app.branches), Len(app.stashes), Len(app.remotes),
                       Len(app.tags)>>
                ELSE <<>>]

\* render_branches_panel, over the branches the filter leaves.
BranchesPanel(app, branches) ==
    LET Row(b) ==
            [name |-> b.name, current |-> b.current, remote |-> b.remote,
             dot |-> IF b.current THEN "current" ELSE IF b.remote.known THEN "remote" ELSE "local",
             at |-> IF b.ahead > 0 \/ b.behind > 0 THEN [ahead |-> b.ahead, behind |-> b.behind]
                    ELSE [target |-> b.target]]
    IN [summary |-> Len(branches), focused |-> app.focus = "sidebar", search |-> app.search,
        body |-> Body(app, IF branches = <<>> THEN "noBranches" ELSE "rows"),
        rows |-> [i \in DOMAIN branches |-> Row(branches[i])]]

\* reference_rows: the age of what has a date, the url of a remote without its
\* credentials, and a mark where the object of a reflog entry is gone.
ReferenceRow(app, r) ==
    CASE app.view = "tags" -> [name |-> r.name, target |-> r.target,
                               right |-> IF r.annotated THEN Age(app.now, r.date) ELSE "lw"]
      [] app.view = "remotes" -> [name |-> r.name, url |-> r.redacted]
      [] app.view = "stash" -> [index |-> r.index, message |-> r.message,
                                right |-> Age(app.now, r.date)]
      [] app.view = "reflog" -> [selector |-> r.index, message |-> r.message,
                                 missing |-> ~ r.available, right |-> Age(app.now, r.date)]

ReferencesPanel(app) ==
    LET references == CASE app.view = "tags" -> app.tags [] app.view = "remotes" -> app.remotes
                        [] app.view = "stash" -> app.stashes [] app.view = "reflog" -> app.reflog
    IN [title |-> app.view, summary |-> Len(references), focused |-> app.focus = "references",
        body |-> Body(app, IF references = <<>> THEN app.view ELSE "rows"),
        rows |-> [i \in DOMAIN references |-> ReferenceRow(app, references[i])]]

-----------------------------------------------------------------------------
(***************************************************************************)
(* Overlays, and what the status bar says of the keys.                     *)
(***************************************************************************)
\* Of those present the first in an order.
FirstOf(order, present) ==
    IF \A i \in DOMAIN order : order[i] \notin present THEN "normal"
    ELSE order[CHOOSE i \in DOMAIN order :
                   order[i] \in present /\ \A j \in 1 .. i - 1 : order[j] \notin present]

\* render_overlays: the first of these that is there.  The help comes on top of it.
DrawOrder ==
    <<"commitDetails", "referenceDetails", "reflogDetails", "amend", "commit", "operation",
      "conflicts", "reword", "plan", "resetMode", "branch", "sync", "forge">>

\* There is one prompt for the name of a branch, new or renamed.
Prompted(overlays) ==
    IF "rename" \in overlays THEN (overlays \ {"rename"}) \cup {"branch"} ELSE overlays

TopOverlay(overlays, reports, operation) ==
    IF "help" \in overlays THEN "help"
    ELSE FirstOf(DrawOrder, Prompted(overlays) \cup reports
                              \cup (IF operation = "idle" THEN {} ELSE {"operation"}))

\* contextual_hint: of the operation, else of the first of these that is there.
HintOrder ==
    <<"commitDetails", "referenceDetails", "reflogDetails", "amend", "conflicts", "reword", "plan",
      "conflicted", "commitSearch", "search", "branch", "commit", "outcome">>

Hint(overlays, reports, operation) ==
    IF operation # "idle" THEN operation
    ELSE FirstOf(HintOrder, Prompted(overlays) \cup reports)

Closes == <<"", "closes">>

\* commit_details_lines: the committer where it is another.
CommitDetails(commit) ==
    <<commit.hash, commit.author, Stamp(commit.date, commit.offset)>>
      \o (IF commit.committer = commit.author THEN <<>>
          ELSE <<commit.committer, Stamp(commit.commitDate, commit.commitOffset)>>)
      \o <<"", commit.subject>>
      \o (IF commit.body = <<>> THEN <<>> ELSE <<"">> \o commit.body) \o Closes

\* render_reference_details: nothing when there is no entry under the cursor, and
\* for the reflog, which has details of its own.
ReferenceDetails(app) ==
    LET i == app.referenceCursor
    IN CASE app.view = "tags" /\ i \in DOMAIN app.tags ->
              LET tag == app.tags[i]
              IN <<tag.name, tag.target>>
                   \o (IF tag.annotated
                       THEN <<"annotated", tag.tagger, Stamp(tag.date, tag.offset), "">> \o tag.message
                       ELSE <<"lightweight">>) \o Closes
         [] app.view = "remotes" /\ i \in DOMAIN app.remotes ->
              <<app.remotes[i].name, app.remotes[i].redacted, app.remotes[i].redactedPush>> \o Closes
         [] app.view = "stash" /\ i \in DOMAIN app.stashes ->
              LET stash == app.stashes[i]
              IN <<stash.index, stash.commit, Stamp(stash.date, stash.offset), "", stash.message>>
                   \o Closes
         [] OTHER -> <<>>

\* render_reflog_details.
ReflogDetails(app) ==
    LET i == app.referenceCursor
    IN IF i \notin DOMAIN app.reflog THEN <<>>
       ELSE <<app.reflog[i].index, app.reflog[i].message, "">>
              \o (IF app.reflogCommit.known THEN CommitDetails(app.reflogCommit)
                  ELSE IF app.reflogError.known THEN <<app.reflogError.message>> \o Closes
                  ELSE <<"loading">>)

\* render_sync_error, render_forge_link_error.
ErrorDetails(error) ==
    <<error.message>> \o (IF error.remedy.known THEN <<"", error.remedy>> ELSE <<>>) \o Closes

\* OperationKind::risk, kept by hand beside MutationKind::risk (MutationRisk).
SafeKinds == {"stageFiles", "unstageFiles", "fetch"}
DestructiveKinds == {"abortOperation", "amendCommit"}
ModerateKinds ==
    {"createCommit", "switchBranch", "createBranch", "renameBranch", "pull", "push", "applyPatch",
     "merge", "continueOperation", "rebase", "skipOperation", "executeRebasePlan", "cherryPick",
     "revert"}

OperationKinds == SafeKinds \cup DestructiveKinds \cup ModerateKinds \cup {"deleteBranch", "reset"}

Risk(kind) ==
    CASE kind.is \in SafeKinds -> "safe"
      [] kind.is \in ModerateKinds -> "moderate"
      [] kind.is \in DestructiveKinds -> "destructive"
      [] kind.is = "deleteBranch" -> IF kind.force THEN "destructive" ELSE "moderate"
      [] kind.is = "reset" -> IF kind.mode \in {"soft", "mixed"} THEN "moderate" ELSE "destructive"

\* MutationKind::risk: of everything the core may do to a repository.
MutationRisk(kind) ==
    CASE kind.is \in {"stageFiles", "unstageFiles", "stageHunks", "unstageHunks", "fetch",
                      "markConflictResolved"} -> "safe"
      [] \/ kind.is \in {"amendCommit", "dropStash", "forcePushWithLease", "abortOperation"}
         \/ kind.is \in {"deleteBranch", "removeWorktree"} /\ kind.force
         \/ kind.is = "reset" /\ kind.mode = "hard" -> "destructive"
      [] OTHER -> "moderate"

\* prompt_label: what the words of a prompt are made of.
PromptLabel(kind) ==
    CASE kind.is \in {"stageFiles", "unstageFiles", "createCommit", "continueOperation",
                      "abortOperation", "skipOperation"} -> <<kind.is>>
      [] kind.is \in {"switchBranch", "createBranch", "fetch", "merge", "rebase"} ->
             <<kind.is, kind.target>>
      [] kind.is = "deleteBranch" -> <<kind.is, kind.target, kind.force>>
      [] kind.is = "renameBranch" -> <<kind.is, kind.oldName, kind.newName>>
      [] kind.is \in {"pull", "push"} -> <<kind.is, kind.remote, kind.branch>>
      [] kind.is = "applyPatch" -> <<kind.is, kind.affected>>
      [] kind.is = "executeRebasePlan" -> <<kind.is, kind.target, kind.commits>>
      [] kind.is \in {"cherryPick", "revert"} -> <<kind.is, kind.commit, kind.isMerge>>
      [] kind.is = "reset" ->
             IF kind.mode = "hard" THEN <<kind.is, kind.commit, kind.mode, kind.loses>>
             ELSE <<kind.is, kind.commit, kind.mode>>
      [] kind.is = "amendCommit" -> <<kind.is, kind.commit>>

\* operation_outcome_detail: what the last operation of this kind came to, for the
\* kinds that may come to more than one thing.  of[k] is the outcome kept for kind k,
\* and a plan shares that of a rebase.
OutcomeKind(kind) == IF kind.is = "executeRebasePlan" THEN "rebase" ELSE kind.is

OutcomeDetail(of, kind) ==
    IF OutcomeKind(kind) \notin {"pull", "merge", "rebase", "cherryPick", "revert"}
         \/ ~ of[OutcomeKind(kind)].known THEN <<>>
    ELSE LET outcome == of[OutcomeKind(kind)]
         IN CASE outcome.is = "conflict" -> <<[conflict |-> outcome.files]>>
              [] outcome.is \in {"upToDate", "empty"} -> <<outcome.is>>
              [] OTHER -> <<[is |-> outcome.is, commit |-> outcome.commit]>>

\* render_operation_overlay: branches is what each branch loaded points at.
OperationOverlay(operation, branches, outcomes) ==
    LET kind == operation.kind
    IN <<PromptLabel(kind), Risk(kind)>>
         \o (IF kind.is \in {"switchBranch", "deleteBranch"} /\ kind.target \in DOMAIN branches
             THEN <<branches[kind.target]>> ELSE <<>>)
         \o OutcomeDetail(outcomes, kind)
         \o (IF operation.at = "failed" THEN <<operation.error>> ELSE <<>>) \o <<"", operation.at>>

\* conflict_side_label: the first line of a side, and how many there are.
SideLabel(side) ==
    CASE side.is = "text" -> [first |-> IF side.lines = <<>> THEN "" ELSE side.lines[1],
                              lines |-> Len(side.lines)]
      [] side.is \in {"binary", "absent"} -> side.is

\* render_conflicts_overlay: the keys for what the operation supports.
ConflictsOverlay(app) ==
    LET files == app.conflicted
    IN <<app.inProgress.kind, Len(files), "">>
         \o (IF files = <<>> THEN <<"none">> ELSE <<>>)
         \o [i \in DOMAIN files |->
                [path |-> files[i].path, stage |-> files[i].stage, at |-> i = app.conflictCursor]]
         \o <<"">>
         \o (IF app.conflictError.known THEN <<app.conflictError.message, "">> ELSE <<>>)
         \o (IF app.inspected.known
             THEN <<SideLabel(app.inspected.base), SideLabel(app.inspected.ours),
                    SideLabel(app.inspected.theirs)>>
             ELSE <<"inspect">>)
         \o <<"", {"resolve", "take", "close"} \cup app.inProgress.supports>>

\* render_rebase_plan_overlay.
PlanOverlay(app) ==
    LET entries == app.plan.entries
    IN (IF app.plan.known
        THEN <<Len(entries), app.plan.onto, "">>
               \o (IF entries = <<>> THEN <<"upToDate">> ELSE <<>>)
               \o [i \in DOMAIN entries |-> [entry |-> entries[i], at |-> i = app.planCursor]]
        ELSE IF app.planError.known THEN <<>> ELSE <<"loading">>)
         \o <<"">>
         \o (IF app.planError.known THEN <<app.planError.message, app.planError.remedy, "">> ELSE <<>>)
         \o <<"keys">>

\* render_rebase_plan_reword.
RewordOverlay(app) ==
    <<IF app.plan.known /\ app.planCursor \in DOMAIN app.plan.entries
      THEN app.plan.entries[app.planCursor].subject ELSE "", "", app.rewordInput, "", "keys">>

\* render_reset_mode_overlay: what hard would discard is the changes listed now.
ResetModeOverlay(app) ==
    LET modes == <<"soft", "mixed", "hard">>
    IN (IF app.resetTarget.known THEN <<app.resetTarget.hash, "">> ELSE <<>>)
         \o [i \in 1..3 |->
                [mode |-> modes[i], at |-> i = app.resetCursor,
                 loses |-> IF modes[i] = "hard" THEN Len(app.entries) ELSE 0]]
         \o Closes

\* The last lines of the composers: what Enter does, or what became of it.
Footer(operation) ==
    CASE operation.at = "idle" -> <<"reviews">>
      [] operation.at = "confirming" -> <<"confirms">>
      [] operation.at = "inProgress" -> <<"running">>
      [] operation.at = "succeeded" -> <<"done">>
      [] operation.at = "failed" -> <<operation.error>>

\* render_commit_composer.
CommitComposer(app) ==
    LET staged == SelectSeq(app.entries, LAMBDA e : e.scope = "staged")
    IN <<"staged">> \o (IF staged = <<>> THEN <<"none">> ELSE staged)
         \o <<"", app.message, "">> \o Footer(app.operation)

\* render_amend_overlay: the confirmation names the commit replaced and its risk.
AmendComposer(app) ==
    (IF app.amendPreview.known
     THEN <<app.amendPreview.head, app.amendPreview.staged, "", app.amendMessage, "">>
     ELSE <<IF app.amendError.known THEN app.amendError.message ELSE "loading", "">>)
      \o (IF app.operation.at = "confirming" THEN <<PromptLabel(app.operation.kind), Risk(app.operation.kind)>>
          ELSE <<>>) \o Footer(app.operation)

=============================================================================
