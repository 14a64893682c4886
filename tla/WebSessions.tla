----------------------------- MODULE WebSessions -----------------------------
(***************************************************************************)
(* Browser sessions of the daemon (internal/daemon/web_sessions.go): long- *)
(* lived cookies kept in a file, short-lived access tokens kept in memory. *)
(*                                                                         *)
(* Every operation holds one mutex from its first read to its answer, so   *)
(* it is one step; what can come between are the clock, a failing write,   *)
(* and the end of the process, which forgets the memory and keeps the file.*)
(* saveLocked renames a complete file into place before it assigns the     *)
(* memory, so a process that ends inside it leaves the new file.           *)
(*                                                                         *)
(* Secrets are fresh: a cookie is a name nobody used before, an access     *)
(* token is its number since the daemon started.                           *)
(***************************************************************************)
EXTENDS Integers, FiniteSets, Sequences, SequencesExt

CONSTANTS
  Cookies,      \* cookie secrets
  Lifetime,     \* webSessionLifetime (30 days)
  MaxSessions,  \* maxWebSessions (64)
  MaxAccess,    \* maxWebAccessTokens (512)
  MaxTokens,    \* bound: tokens issued by one process
  MaxRoot,      \* bound: credentials the Instance ever has
  MaxClock      \* bound on the clock

VARIABLES
  file,      \* web-sessions.json
  root,      \* the Instance credential the process was started with
  clock,
  known,     \* cookies ever issued
  loaded,    \* the file has been read by this process
  sessions,  \* the sessions in memory
  access,    \* access tokens accepted
  order,     \* accessOrder: tokens in the order they were issued
  owner      \* the cookie each token of this process was issued for

memory == <<loaded, sessions, access, order, owner>>
vars   == <<file, root, clock, known, memory>>

Record == [root : 0..MaxRoot, expires : 0..(MaxClock + Lifetime)]
Absent == [root |-> 0, expires |-> 0]

TypeOK ==
  /\ file \in [Cookies -> Record] /\ sessions \in [Cookies -> Record]
  /\ root \in 1..MaxRoot /\ clock \in 1..MaxClock
  /\ known \subseteq Cookies
  /\ loaded \in BOOLEAN
  /\ owner \in Seq(Cookies) /\ Len(owner) <= MaxTokens
  /\ access \subseteq DOMAIN owner
  /\ order \in Seq(DOMAIN owner) /\ Len(order) <= MaxAccess

Empty == [c \in Cookies |-> Absent]

Init ==
  /\ file = Empty /\ sessions = Empty /\ loaded = FALSE
  /\ root = 1 /\ clock = 1 /\ known = {}
  /\ access = {} /\ order = <<>> /\ owner = <<>>

-----------------------------------------------------------------------------
(* Helpers *)

Present(s) == {c \in Cookies : s[c] # Absent}

\* A session counts while it has not expired and belongs to the credential.
Alive(s, c) == s[c].expires > clock /\ s[c].root = root

\* loadLocked: the first operation of a process reads the file.
View == IF loaded THEN sessions ELSE file

\* cleanedLocked: what an operation carries over into the next file.
Cleaned == [c \in Cookies |-> IF Alive(View, c) THEN View[c] ELSE Absent]

Renewed == [root |-> root, expires |-> clock + Lifetime]

\* saveLocked.
Save(next) == file' = next /\ sessions' = next /\ loaded' = TRUE

\* An operation that fails before or inside saveLocked changes no session.
SaveFails ==
  /\ sessions' = View /\ loaded' = TRUE
  /\ UNCHANGED <<file, access, order, owner>>

\* The process ends; the next one starts with the credential r.
Restart(r) ==
  /\ root' = r
  /\ loaded' = FALSE /\ sessions' = Empty
  /\ access' = {} /\ order' = <<>> /\ owner' = <<>>

\* Mutant of Issue: the newest token makes room.
IssueNewest(c) ==
  LET token == Len(owner) + 1
      full  == Len(order) >= MaxAccess
  IN /\ Len(owner) < MaxTokens
     /\ owner' = Append(owner, c)
     /\ access' = (IF full THEN access \ {Last(order)} ELSE access) \cup {token}
     /\ order' = Append(IF full THEN Front(order) ELSE order, token)

\* accessTokenLocked: the oldest token issued makes room for a new one.
Issue(c) ==
  LET token == Len(owner) + 1
      full  == Len(order) >= MaxAccess
  IN /\ Len(owner) < MaxTokens
     /\ owner' = Append(owner, c)
     /\ access' = (IF full THEN access \ {Head(order)} ELSE access) \cup {token}
     /\ order' = Append(IF full THEN Tail(order) ELSE order, token)

\* No randomness for a token: the operation fails, but what it saved stays.
IssueFails == UNCHANGED <<access, order, owner>>

-----------------------------------------------------------------------------
(* Operations *)

\* What login saves for the fresh cookie c.
LoginFile(c) == [Cleaned EXCEPT ![c] = Renewed]
LoginRoom == Cardinality(Present(Cleaned)) < MaxSessions

Login ==
  /\ \/ LoginRoom /\ \E c \in Cookies \ known :
          /\ known' = known \cup {c}
          /\ Save(LoginFile(c)) /\ (Issue(c) \/ IssueFails)
     \/ SaveFails /\ UNCHANGED known
  /\ UNCHANGED <<root, clock>>

\* What restore saves: it renews the session of its cookie.
RestoreFile(c) == [Cleaned EXCEPT ![c] = Renewed]

\* Mutant of Restore: an expired session is renewed like any other.
RestoreExpired ==
  /\ \E c \in known : /\ View[c].root = root
                      /\ Save(RestoreFile(c)) /\ Issue(c)
  /\ UNCHANGED <<root, clock, known>>

\* Any cookie that was ever issued may be presented.
Restore ==
  /\ \/ \E c \in known : /\ Alive(View, c)
                         /\ Save(RestoreFile(c)) /\ (Issue(c) \/ IssueFails)
     \/ SaveFails
  /\ UNCHANGED <<root, clock, known>>

LogoutFile(c) == [Cleaned EXCEPT ![c] = Absent]
TokensOf(c) == {t \in DOMAIN owner : owner[t] = c}

\* Mutant of Logout: the file is not written.
LogoutInMemory ==
  /\ \E c \in Cookies : /\ sessions' = LogoutFile(c) /\ loaded' = TRUE
                        /\ access' = access \ TokensOf(c)
  /\ UNCHANGED <<file, order, owner, root, clock, known>>

\* Whatever the cookie, the file is cleaned.  The tokens of the session go
\* too; accessOrder keeps their place.
Logout ==
  /\ \/ \E c \in Cookies : /\ Save(LogoutFile(c))
                           /\ access' = access \ TokensOf(c)
                           /\ UNCHANGED <<order, owner>>
     \/ SaveFails
  /\ UNCHANGED <<root, clock, known>>

\* The answer to a request that carries an access token.
Allows(t) == t \in access /\ Alive(sessions, owner[t])

-----------------------------------------------------------------------------
(* The world around *)

\* The process ends between operations, or inside a saveLocked after its
\* rename; a new credential may have been put in place before the next start.
Crash ==
  /\ \E r \in {root} \cup {x \in 1..MaxRoot : x = root + 1} : Restart(r)
  /\ \/ UNCHANGED <<file, known>>
     \/ LoginRoom /\ \E c \in Cookies \ known :
          file' = LoginFile(c) /\ known' = known \cup {c}
     \/ \E c \in known : Alive(View, c) /\ file' = RestoreFile(c) /\ UNCHANGED known
     \/ \E c \in Cookies : file' = LogoutFile(c) /\ UNCHANGED known
  /\ UNCHANGED clock

Tick ==
  /\ clock < MaxClock
  /\ clock' = clock + 1
  /\ UNCHANGED <<file, root, known, memory>>

Next == Login \/ Restore \/ Logout \/ Crash \/ Tick

Spec == Init /\ [][Next]_vars

-----------------------------------------------------------------------------
(* Properties *)

\* A session that ended, by logout, by expiry or with its credential, is never
\* honoured again: no renewal, clean-up, failed write or restart revives it.
DeadStaysDead ==
  [][\A c \in known : ~Alive(View, c) => ~Alive(View, c)']_vars

\* The file and the memory never disagree, so what is allowed now is what a
\* restart would allow: a failed write leaves both, a good one changes both.
MemoryIsFile == loaded => sessions = file

\* The file a process leaves is one loadLocked accepts: it never locks every
\* user out by holding more sessions than the limit.
FileLoadable == Cardinality(Present(file)) <= MaxSessions

\* The last MaxAccess tokens work as long as their session lives: no logout,
\* expiry or eviction of others takes them away.
RecentTokensWork ==
  \A t \in DOMAIN owner :
    t > Len(owner) - MaxAccess /\ Alive(sessions, owner[t]) => Allows(t)
=============================================================================
