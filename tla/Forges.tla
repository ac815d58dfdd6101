-------------------------------- MODULE Forges --------------------------------
(***************************************************************************)
(* What GitSail asks of GitHub and GitLab: which remote of the open        *)
(* repository is of a forge, the tokens kept for forges in the keyring,    *)
(* the pages of pull requests of that remote, the links opened in the      *)
(* browser, and the latest release.  A command reads the remotes, then the *)
(* keyring, then asks the forge; remotes, keyring and forge change in      *)
(* between.  What a forge answers is external.                             *)
(***************************************************************************)
EXTENDS Naturals, Sequences, FiniteSets

CONSTANTS
    Hosts,    \* hosts of remotes, in lower case, in which all are compared
    PerPage,  \* PER_PAGE
    MaxPulls, \* bound: pull requests of a project
    MaxDeeds  \* bound: changes from outside and of the keyring

ASSUME ForgesAssumption == PerPage \in Nat \ {0} /\ {MaxPulls, MaxDeeds} \subseteq Nat

VARIABLES
    remotes,  \* the remotes of the repository by name
    keyring,  \* the tokens kept, with the account each was made for, and whether it is locked
    server,   \* per API, the project of the repository there
    listing,  \* the command that lists a page
    panel,    \* what the last one answered
    browsed,  \* since the last listing was asked for: the host the browser was sent to
    release,  \* what the last check for a release since then found
    run,      \* history: the pages seen from the first on, of one project
    deeds     \* number of changes

forgeVars == <<remotes, keyring, server, listing, panel, browsed, release, run, deeds>>

-------------------------------------------------------------------------------
(* Remotes and links *)

\* forge_for_host: github.com, gitlab.com, and hosts whose first label is gitlab.
ForgeForHost(host) ==
    CASE host \in {"github.com", "www.github.com"} -> "github"
      [] host \in {"gitlab.com", "www.gitlab.com", "gitlab.own"} -> "gitlab"
      [] OTHER -> "none"

NoRemote == [host |-> "none", segments |-> 0]

\* detect_forge: a path has an owner and a name at least.
DetectForge(remote) == IF remote.segments < 2 THEN "none" ELSE ForgeForHost(remote.host)

\* pick_forge_remote: origin if it is of a forge, else the first that is.
PickForgeRemote(of) ==
    IF DetectForge(of.origin) # "none" THEN of.origin
    ELSE IF DetectForge(of.fork) # "none" THEN of.fork
    ELSE NoRemote

\* The API of a forge: GitHub has one, GitLab one on each host.
ApiOf(host) == IF ForgeForHost(host) = "github" THEN "api.github.com" ELSE host

\* build_web_url: the page of the repository, a branch or a commit on the host of
\* the remote; only what a forge is known for has one.
WebHost(remote) == IF DetectForge(remote) = "none" THEN "none" ELSE remote.host

-------------------------------------------------------------------------------
(* Tokens *)

\* Mutated form: one account per forge, whatever its host.
AccountOfKind(kind, host) ==
    [kind |-> kind, host |-> IF kind = "github" THEN "github.com" ELSE "gitlab.com"]

\* ForgeAccountId, which storage_key spells kind@host.
Account(kind, host) == [kind |-> kind, host |-> host]

ForgeHosts == {h \in Hosts : ForgeForHost(h) # "none"}
Accounts == {Account(ForgeForHost(h), h) : h \in ForgeHosts}
NoToken == [of |-> [kind |-> "none", host |-> "none"], grants |-> "nothing"]
\* What a token may do is known only to its forge.
Grants == {"reads", "too little", "expired"}

\* KeyringForgeCredentialStore: get_password of a locked keyring fails, which a
\* listing takes for no token.
TokenOf(account) == IF keyring.locked THEN NoToken ELSE keyring.tokens[account]

-------------------------------------------------------------------------------
(* What a forge answers (external) *)

Unreachable ==
    [cause |-> "unreachable", status |-> 0, remaining |-> "none", reset |-> FALSE,
     retry |-> FALSE, items |-> <<>>, more |-> FALSE, whole |-> TRUE]

\* The newest pull request comes first, each with its number and state.
PageOf(project, page) ==
    LET size == Len(project.pulls)
        rest == IF (page - 1) * PerPage > size THEN 0 ELSE size - (page - 1) * PerPage
        taken == IF rest < PerPage THEN rest ELSE PerPage
    IN [i \in 1 .. taken |-> [number |-> rest - i + 1, state |-> project.pulls[rest - i + 1]]]

\* Every answer of GitHub tells of its rate limit.
ForgeAnswer(api, cause, status) ==
    [Unreachable EXCEPT !.cause = cause, !.status = status,
                     !.remaining = IF api = "api.github.com" THEN "some" ELSE "none",
                     !.reset = (api = "api.github.com")]

Limited(api) ==
    IF api = "api.github.com"
    THEN {[ForgeAnswer(api, "limited", s) EXCEPT !.remaining = "0"] : s \in {403, 429}}
         \cup {[Unreachable EXCEPT !.cause = "limited", !.status = 403, !.retry = TRUE]}
    ELSE {[ForgeAnswer(api, "limited", 429) EXCEPT !.retry = r] : r \in BOOLEAN}

ForgeAnswersTo(api, page, token) ==
    LET project == server[api]
        owned == token.of.kind # "none" /\ ApiOf(token.of.host) = api
    IN {Unreachable, ForgeAnswer(api, "failure", 500),
        [ForgeAnswer(api, "failure", 200) EXCEPT !.whole = FALSE]}
       \cup IF project.limited THEN Limited(api)
            ELSE IF token # NoToken /\ (~owned \/ token.grants = "expired")
                 THEN {ForgeAnswer(api, "credentials", 401)}
            ELSE IF project.private /\ token = NoToken THEN {ForgeAnswer(api, "hidden", 404)}
            ELSE IF token.grants = "too little" THEN {ForgeAnswer(api, "forbidden", 403)}
            ELSE {[ForgeAnswer(api, "page", 200) EXCEPT
                      !.items = PageOf(project, page),
                      !.more = Len(project.pulls) > page * PerPage]}

-------------------------------------------------------------------------------
(* What GitSail reads in it *)

\* retry_after_seconds: whether a wait is known.
RetryAfterKnown(a) == a.retry \/ a.reset

\* GitHub spells merged as closed with a time; GitLab has a state of its own for it.
GitHubWire(state) == [state |-> IF state = "open" THEN "open" ELSE "closed",
                      merged |-> state = "merged"]
GitHubState(wire) ==
    IF wire.merged THEN "merged" ELSE IF wire.state = "open" THEN "open" ELSE "closed"
GitLabWire(state) == IF state = "open" THEN "opened" ELSE state
GitLabState(wire) ==
    CASE wire = "opened" -> "open" [] wire = "merged" -> "merged" [] OTHER -> "closed"

Summary(kind, item) ==
    [item EXCEPT !.state = IF kind = "github" THEN GitHubState(GitHubWire(item.state))
                           ELSE GitLabState(GitLabWire(item.state))]

Says(name) == [state |-> name, items |-> <<>>, more |-> FALSE, wait |-> FALSE, page |-> 0]
SaysLimited(a) == [Says("rateLimited") EXCEPT !.wait = RetryAfterKnown(a)]

\* parse_page: a body that is not whole is no page at all.
ParsePage(kind, a) ==
    IF ~a.whole THEN Says("error")
    ELSE [Says("page") EXCEPT !.items = [i \in DOMAIN a.items |-> Summary(kind, a.items[i])],
                              !.more = a.more]

\* GitHub's adapter: a 403 is a rate limit when nothing remains of it, and when a wait
\* is known.
IsRateLimit(a) ==
    a.status = 429 \/ (a.status = 403 /\ (a.remaining = "0" \/ RetryAfterKnown(a)))

GitHubOutcome(a) ==
    CASE a.status = 0 -> Says("offline")
      [] a.status = 200 -> ParsePage("github", a)
      [] a.status = 401 -> Says("authenticationRequired")
      [] IsRateLimit(a) -> SaysLimited(a)
      [] a.status \in {403, 404} /\ ~ IsRateLimit(a) -> Says("permissionDenied")
      [] OTHER -> Says("error")

GitLabOutcome(a) ==
    CASE a.status = 0 -> Says("offline")
      [] a.status = 200 -> ParsePage("gitlab", a)
      [] a.status = 401 -> Says("authenticationRequired")
      [] a.status \in {403, 404} -> Says("permissionDenied")
      [] a.status = 429 -> SaysLimited(a)
      [] OTHER -> Says("error")

\* CompositePullRequestQueryPort: the adapter of the forge.
OutcomeOf(kind, a) == IF kind = "github" THEN GitHubOutcome(a) ELSE GitLabOutcome(a)

\* latest_release: a repository without releases answers 404.
ReleaseOf(a) ==
    CASE a.status = 0 -> "network failure"
      [] a.status = 200 /\ a.whole -> "release"
      [] a.status = 404 -> "none published"
      [] OTHER -> "malformed"

-------------------------------------------------------------------------------
(* Commands *)

NoListing == [step |-> "idle", page |-> 0, remote |-> NoRemote, token |-> NoToken]
NoRun == [api |-> "none", wanted |-> {}, listed |-> {}, last |-> FALSE, cause |-> "none",
          states |-> TRUE]

ForgesInit ==
    /\ \E origin \in [host : Hosts, segments : 1 .. 3] :
          remotes = [origin |-> origin, fork |-> NoRemote]
    /\ keyring = [tokens |-> [a \in Accounts |-> NoToken], locked |-> FALSE]
    /\ server = [api \in {ApiOf(h) : h \in ForgeHosts} |->
                    [pulls |-> IF api = "api.github.com" THEN <<"closed", "merged">>
                               ELSE <<"merged", "locked">>,
                     private |-> api # "api.github.com", limited |-> FALSE]]
    /\ listing = NoListing /\ panel = Says("none") /\ browsed = "none"
    /\ release = "none" /\ run = NoRun /\ deeds = 0

\* list_pull_requests: a first page, a refresh, or one beside the page shown.
ListPullRequests(page) ==
    /\ listing = NoListing
    /\ \/ page = 1
       \/ panel.state = "page" /\ panel.more /\ page = panel.page + 1
       \/ panel.page > 1 /\ page = panel.page - 1
    /\ listing' = [NoListing EXCEPT !.step = "remotes", !.page = page]
    /\ browsed' = "none" /\ release' = "none"
    /\ UNCHANGED <<remotes, keyring, server, panel, run, deeds>>

Concludes(outcome) ==
    /\ listing' = NoListing
    /\ panel' = [outcome EXCEPT !.page = listing.page]
    /\ UNCHANGED <<remotes, keyring, server, browsed, release, deeds>>

\* list_remotes, pick_forge_remote and repository_location; the read may fail.
ListRemotes ==
    /\ listing.step = "remotes"
    /\ LET picked == PickForgeRemote(remotes)
       IN \/ /\ DetectForge(picked) # "none"
             /\ listing' = [listing EXCEPT !.step = "token", !.remote = picked]
             /\ UNCHANGED <<remotes, keyring, server, panel, browsed, release, run, deeds>>
          \/ /\ DetectForge(picked) = "none"
             /\ Concludes(Says("noForgeDetected")) /\ run' = NoRun
          \/ Concludes(Says("error")) /\ run' = NoRun

ReadToken ==
    /\ listing.step = "token"
    /\ LET remote == listing.remote
       IN listing' = [listing EXCEPT
                        !.step = "request",
                        !.token = TokenOf(Account(ForgeForHost(remote.host), remote.host))]
    /\ UNCHANGED <<remotes, keyring, server, panel, browsed, release, run, deeds>>

\* GitHub's adapter refuses a path it does not know the shape of.
RefuseShape ==
    /\ listing.step = "request"
    /\ ForgeForHost(listing.remote.host) = "github" /\ listing.remote.segments # 2
    /\ Concludes(Says("error")) /\ run' = NoRun

Numbers(items) == {items[i].number : i \in DOMAIN items}

\* Whether the pull requests are listed in the state they are in; locked, which only
\* GitLab has, counts as closed.
StatesAgree(items, pulls) ==
    \A i \in DOMAIN items :
       items[i].state = IF pulls[items[i].number] = "locked" THEN "closed"
                        ELSE pulls[items[i].number]

\* A first page begins a run, the next pages of the same project continue it.
RunAfter(api, outcome, a) ==
    LET goesOn == listing.page > 1 /\ run.api = api
        before == IF goesOn THEN run.listed ELSE {}
    IN IF outcome.state # "page" \/ (listing.page > 1 /\ ~goesOn)
       THEN [NoRun EXCEPT !.cause = a.cause]
       ELSE [api |-> api, cause |-> a.cause, last |-> ~outcome.more,
             states |-> StatesAgree(outcome.items, server[api].pulls),
             wanted |-> IF goesOn THEN run.wanted ELSE DOMAIN server[api].pulls,
             listed |-> before \cup Numbers(outcome.items)]

RequestPage ==
    /\ listing.step = "request"
    /\ LET kind == ForgeForHost(listing.remote.host)
           api == ApiOf(listing.remote.host)
       IN /\ kind = "github" => listing.remote.segments = 2
          /\ \E a \in ForgeAnswersTo(api, listing.page, listing.token) :
                LET outcome == OutcomeOf(kind, a)
                IN Concludes(outcome) /\ run' = RunAfter(api, outcome, a)

\* connect_forge_account and disconnect_forge_account; a locked keyring fails them.
ConnectForgeAccount(account, grants) ==
    /\ ~keyring.locked
    /\ keyring' = [keyring EXCEPT !.tokens[account] = [of |-> account, grants |-> grants]]
DisconnectForgeAccount(account) ==
    /\ ~keyring.locked /\ keyring' = [keyring EXCEPT !.tokens[account] = NoToken]
LockKeyring == keyring' = [keyring EXCEPT !.locked = ~@]

\* open_forge_link: the remotes are read again.
OpenForgeLink ==
    /\ WebHost(PickForgeRemote(remotes)) # "none"
    /\ browsed' = WebHost(PickForgeRemote(remotes))
    /\ UNCHANGED <<remotes, keyring, server, listing, panel, release, run, deeds>>

\* open_pull_request_link: with the remotes of now, not those of the listing; a page
\* of GitHub is on github.com, also of a remote on www.github.com.
OpenPullRequestLink ==
    /\ panel.items # <<>> /\ run.api # "none"
    /\ LET picked == PickForgeRemote(remotes)
           host == IF run.api = "api.github.com" THEN "github.com" ELSE run.api
       IN /\ DetectForge(picked) # "none" /\ picked.host = host
          /\ browsed' = host
    /\ UNCHANGED <<remotes, keyring, server, listing, panel, release, run, deeds>>

\* It shares nothing with the listings, and is modelled before the first of them.
CheckRelease ==
    /\ listing = NoListing /\ panel.state = "none"
    /\ \E a \in {Unreachable, ForgeAnswer("api.github.com", "failure", 500),
                 [ForgeAnswer("api.github.com", "failure", 200) EXCEPT !.whole = FALSE],
                 ForgeAnswer("api.github.com", "hidden", 404), ForgeAnswer("api.github.com", "page", 200)} :
          release' = ReleaseOf(a)
    /\ UNCHANGED <<remotes, keyring, server, listing, panel, browsed, run, deeds>>

\* open_update_link: only what is on github.com.
OpenUpdateLink ==
    /\ release = "release" /\ listing = NoListing /\ browsed' = "github.com"
    /\ UNCHANGED <<remotes, keyring, server, listing, panel, release, run, deeds>>

ChangesKeyring ==
    /\ \/ \E account \in Accounts :
             \/ \E grants \in Grants : ConnectForgeAccount(account, grants)
             \/ DisconnectForgeAccount(account)
       \/ LockKeyring
    /\ UNCHANGED <<remotes, server>>
EditsRemote ==
    /\ \E name \in {"origin", "fork"}, host \in Hosts :
          remotes' = [remotes EXCEPT ![name] = [host |-> host, segments |-> 2]]
    /\ UNCHANGED <<keyring, server>>
PullsChange(api) ==
    \/ /\ Len(server[api].pulls) < MaxPulls
       /\ server' = [server EXCEPT ![api].pulls = Append(@, "open")]
    \/ server' = [server EXCEPT ![api].limited = ~@]
ForgeChanges ==
    (\E api \in DOMAIN server : PullsChange(api)) /\ UNCHANGED <<remotes, keyring>>

Deed ==
    /\ deeds < MaxDeeds /\ deeds' = deeds + 1
    /\ ChangesKeyring \/ EditsRemote \/ ForgeChanges
    /\ UNCHANGED <<listing, panel, browsed, release, run>>

ForgesNext ==
    \/ \E page \in {1, panel.page - 1, panel.page + 1} : ListPullRequests(page)
    \/ ListRemotes \/ ReadToken \/ RefuseShape \/ RequestPage
    \/ OpenForgeLink \/ OpenPullRequestLink \/ CheckRelease \/ OpenUpdateLink
    \/ Deed

ForgesSpec == ForgesInit /\ [][ForgesNext]_forgeVars

-------------------------------------------------------------------------------
(* Properties *)

\* A token goes to the API of the account it was made for and to no other, though
\* the remotes and the keyring change between the reads of a listing.
TokensStayHome ==
    listing.token.of.kind # "none" =>
        /\ listing.token.of.kind = ForgeForHost(listing.remote.host)
        /\ ApiOf(listing.token.of.host) = ApiOf(listing.remote.host)

\* A panel tells an empty list from each way in which there may be none to show, as
\* the forge meant it; a 403 of GitHub that forbids is left to ForbiddenIsDenied.
OutcomesAreMeant ==
    CASE run.cause = "page" -> panel.state = "page" /\ run.states
      [] run.cause = "unreachable" -> panel.state = "offline"
      [] run.cause = "limited" -> panel.state = "rateLimited"
      [] run.cause = "credentials" -> panel.state = "authenticationRequired"
      [] run.cause = "hidden" -> panel.state = "permissionDenied"
      [] run.cause = "failure" -> panel.state = "error"
      [] OTHER -> TRUE

\* Pages taken in order show every pull request there was at the first one, though
\* others are opened meanwhile (a forge that deletes one may hide another).
PagesMissNothing == run.last => run.wanted \subseteq run.listed

\* All of it, of every listing.
ListingsAreTrue == OutcomesAreMeant /\ PagesMissNothing /\ TokensStayHome

\* "Any other `403` -> PermissionDenied (a token was presented but lacks the `Pull
\* requests: Read-only` scope ...)" (github_pr_adapter.rs:15-20).
ForbiddenIsDenied == run.cause = "forbidden" => panel.state = "permissionDenied"
===============================================================================
