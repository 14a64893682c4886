--------------------------- MODULE MCServerParts ---------------------------
(***************************************************************************)
(* Five parts of the daemon that share no state: the OAuth broker, the     *)
(* preview cache, the log, the browser sessions and the diffs and          *)
(* histories a reader pages through.  One run explores each of them from   *)
(* its initial states while the others rest.                               *)
(***************************************************************************)
EXTENDS Naturals, FiniteSets

CONSTANTS
    Clients, Authorizations, MaxPending, MaxTokens, MaxDownloads, MaxGrants,
    Branches, Callers, MaxEntries, MaxRevisions, MaxCommits,
    Files, Limit, MaxRecords,
    Cookies, Lifetime, MaxSessions, MaxAccess, MaxWebTokens, MaxRoot, MaxClock,
    Identities, DefinitionRefs, Moves, Repositories, MaxPage, MinHistory, MaxHistory

\* The limits are numbers; a log that is rotated has a place to rotate to, a cache
\* and a file of the log are not empty, and there is room for an access token.
ASSUME BoundsAssumption ==
    /\ {MaxPending, MaxTokens, MaxDownloads, MaxGrants} \subseteq Nat
    /\ {MaxEntries, MaxRevisions, MaxCommits} \subseteq Nat /\ MaxEntries > 0
    /\ {Files, Limit, MaxRecords} \subseteq Nat /\ Files > 1 /\ Limit > 0
    /\ {Lifetime, MaxRoot, MaxClock} \subseteq Nat /\ MaxRoot > 0 /\ MaxClock > 0
    /\ {MaxSessions, MaxAccess, MaxWebTokens} \subseteq Nat /\ MaxAccess > 0
    /\ MaxPage \in Nat

VARIABLES
    stage, client, tickets, codes, access, refresh, documents, downloads, serial, approved,
    head, moments, caller, entries, order, revision,
    file, writer, moving, bytes, next, logged,
    stored, root, clock, known, loaded, sessions, allowed, issued, owner,
    commits, tip, request, cursor, room, seen, phase,
    part

O == INSTANCE OAuthBroker WITH Requests <- Authorizations
P == INSTANCE PreviewCache
L == INSTANCE LogRotation
W == INSTANCE WebSessions WITH
         file <- stored, access <- allowed, order <- issued, MaxTokens <- MaxWebTokens
H == INSTANCE StateHistory WITH
         head <- tip, MinCommits <- MinHistory, MaxCommits <- MaxHistory

\* A Definition has an identity and a name, a Knowledge element neither of these.
ASSUME RepositoriesAssumption ==
    /\ IsFiniteSet(Identities) /\ H!Element \notin Identities
    /\ DefinitionRefs \subseteq Nat
    /\ \A r \in Repositories : H!IsRepository(r)

oauthVars == <<stage, client, tickets, codes, access, refresh, documents,
               downloads, serial, approved>>
previewVars == <<head, moments, caller, entries, order, revision>>
logVars == <<file, writer, moving, bytes, next, logged>>
webVars == <<stored, root, clock, known, loaded, sessions, allowed, issued, owner>>
historyVars == <<commits, tip, request, cursor, room, seen, phase>>

\* The repositories for TLC.
Cases == INSTANCE MCStateHistory WITH
         head <- tip, MinCommits <- MinHistory, MaxCommits <- MaxHistory, Repositories <- {}
SmallRepositories == Cases!Small

\* The browser sessions and the log begin in one state each, and rest in it.
OauthRests ==
    /\ stage = 0 /\ client = 0 /\ tickets = 0 /\ codes = 0 /\ access = 0
    /\ refresh = 0 /\ documents = 0 /\ downloads = 0 /\ serial = 0 /\ approved = 0
PreviewRests ==
    /\ head = 0 /\ moments = 0 /\ caller = 0 /\ entries = 0 /\ order = 0 /\ revision = 0
HistoryRests ==
    /\ commits = 0 /\ tip = 0 /\ request = 0 /\ cursor = 0
    /\ room = 0 /\ seen = 0 /\ phase = 0

Init ==
    /\ W!Init /\ L!Init
    /\ \/ part \in {"web", "log"} /\ OauthRests /\ PreviewRests /\ HistoryRests
       \/ part = "oauth" /\ O!Init /\ PreviewRests /\ HistoryRests
       \/ part = "preview" /\ P!Init /\ OauthRests /\ HistoryRests
       \/ part = "history" /\ H!Init /\ OauthRests /\ PreviewRests

Next ==
    \/ part = "oauth" /\ O!Next /\ UNCHANGED <<previewVars, logVars, webVars, historyVars, part>>
    \/ part = "preview" /\ P!Next /\ UNCHANGED <<oauthVars, logVars, webVars, historyVars, part>>
    \/ part = "log" /\ L!Next /\ UNCHANGED <<oauthVars, previewVars, webVars, historyVars, part>>
    \/ part = "web" /\ W!Next /\ UNCHANGED <<oauthVars, previewVars, logVars, historyVars, part>>
    \/ part = "history" /\ H!Next /\ UNCHANGED <<oauthVars, previewVars, logVars, webVars, part>>

Spec == Init /\ [][Next]_<<oauthVars, previewVars, logVars, webVars, historyVars, part>>

\* The types and the limits: of the tables of the broker, of the cache, of the
\* log files, and of the session file, that a restart refuses above its limit.
TypeOK ==
    /\ W!TypeOK /\ W!FileLoadable /\ L!TypeOK
    /\ part = "oauth" => O!TypeOK
    /\ part = "preview" => P!TypeOK

\* Tokens, codes and tickets are what the Web user approved, and cannot be had
\* twice (issueToken, finishAuthorization).
GrantsTrace == part = "oauth" => O!GrantsTrace

\* The loop of preview that makes room never runs out of places.
OrderCovers == part = "preview" => P!OrderCovers

\* A preview shows all branches at one moment (renderPreview).
ViewIsOneMoment == part = "preview" => P!ViewIsOneMoment

\* The log keeps the newest records, in their order (rotate).
NewestKept == L!NewestKept

\* Session file and memory never disagree (saveLocked).
MemoryIsFile == W!MemoryIsFile

\* The newest tokens work as long as their session lives (accessTokenLocked).
RecentTokensWork == W!RecentTokensWork

\* A session that ended is never honoured again (restore, logout).
DeadStaysDead == W!DeadStaysDead

\* A diff shows exactly what changed of a Definition (projectSharedIndexes).
DiffTellsAll == part = "history" => H!DiffTellsAll

\* The pages of a diff or a history are one answer (evolutionCursor).
PagesAreOneAnswer == part = "history" => H!PagesAreOneAnswer

=============================================================================
