-------------------------- MODULE WebSessions_proofs --------------------------
(***************************************************************************)
(* Browser sessions, for every number of cookies, sessions and tokens: the *)
(* memory is the file, the file is one that a restart accepts, a session   *)
(* that ended is never honoured again, and the newest tokens work.         *)
(***************************************************************************)
EXTENDS WebSessions, FiniteSetTheorems, SequenceTheorems, TLAPS

\* The bounds are numbers, and there is room for a token.
Bounds ==
  /\ Lifetime \in Nat /\ MaxRoot \in Nat \ {0} /\ MaxClock \in Nat \ {0}
  /\ MaxSessions \in Nat /\ MaxTokens \in Nat /\ MaxAccess \in Nat \ {0}

Table == [Cookies -> Record]

Types ==
  /\ file \in Table /\ sessions \in Table
  /\ root \in 1..MaxRoot /\ clock \in 1..MaxClock
  /\ known \subseteq Cookies /\ loaded \in BOOLEAN

\* No session belongs to a credential that is still to come.  Without it a new
\* credential could bring back a session of the file.
PastRoots == \A c \in Cookies : file[c].root <= root

\* The file is loadable; that it is finite is what its size is about.
FileIsSmall == IsFiniteSet(Present(file)) /\ FileLoadable

IInv == Types /\ MemoryIsFile /\ PastRoots /\ FileIsSmall

\* What the operations write: a clean table, with one entry changed.
LEMMA Written ==
  ASSUME Bounds, IInv, NEW c \in Cookies,
         NEW next \in {LoginFile(c), RestoreFile(c), LogoutFile(c)}
  PROVE  /\ next \in Table
         /\ \A d \in Cookies : next[d].root <= root
         /\ \A d \in Cookies \ {c} : Alive(next, d) => Alive(View, d)
         /\ next = LogoutFile(c) => ~Alive(next, c)
         /\ \/ next = LoginFile(c) /\ LoginRoom
            \/ next = RestoreFile(c) /\ Alive(View, c)
            \/ next = LogoutFile(c)
            => IsFiniteSet(Present(next)) /\ Cardinality(Present(next)) <= MaxSessions
<1> USE DEF Bounds, IInv, Types, Table, MemoryIsFile, PastRoots
<1>1. /\ View \in Table /\ \A d \in Cookies : View[d].root <= root
  BY DEF View
<1>2. /\ Absent \in Record /\ Renewed \in Record
      /\ Absent.root = 0 /\ Absent.expires = 0 /\ Renewed.root = root
  BY DEF Absent, Renewed, Record
<1>3. /\ Cleaned \in Table
      /\ \A d \in Cookies : Cleaned[d].root <= root /\ (Alive(Cleaned, d) => Alive(View, d))
  BY <1>1, <1>2 DEF Cleaned, Alive
<1>4. next = [Cleaned EXCEPT ![c] = Renewed] \/ next = [Cleaned EXCEPT ![c] = Absent]
  BY DEF LoginFile, RestoreFile, LogoutFile
<1>5. /\ next \in Table
      /\ \A d \in Cookies : next[d].root <= root
      /\ \A d \in Cookies \ {c} : Alive(next, d) => Alive(View, d)
  <2>1. /\ next \in Table
        /\ next[c].root <= root
        /\ \A d \in Cookies \ {c} : next[d] = Cleaned[d]
    <3>1. PICK e \in {Renewed, Absent} : next = [Cleaned EXCEPT ![c] = e]
      BY <1>4
    <3>2. e \in Record /\ e.root <= root
      BY <1>2
    <3> QED
      BY <1>3, <3>1, <3>2
  <2> QED
    BY <1>3, <2>1 DEF Alive
<1>6. next = LogoutFile(c) => ~Alive(next, c)
  BY <1>2, <1>3 DEF LogoutFile, Alive
<1>7. ASSUME \/ next = LoginFile(c) /\ LoginRoom
             \/ next = RestoreFile(c) /\ Alive(View, c)
             \/ next = LogoutFile(c)
      PROVE  IsFiniteSet(Present(next)) /\ Cardinality(Present(next)) <= MaxSessions
  <2>1. View = file
    BY DEF View
  <2>2. Present(Cleaned) \in SUBSET Present(file)
    BY <2>1 DEF Cleaned, Present
  <2>3. /\ IsFiniteSet(Present(Cleaned)) /\ Cardinality(Present(Cleaned)) \in Nat
        /\ Cardinality(Present(Cleaned)) <= Cardinality(Present(file))
        /\ Cardinality(Present(file)) \in Nat
    BY <2>2, FS_Subset, FS_CardinalityType DEF FileIsSmall
  <2>4. Cardinality(Present(file)) <= MaxSessions
    BY DEF FileIsSmall, FileLoadable
  <2>5. CASE next = LoginFile(c) /\ LoginRoom
    <3>1. Present(next) \in SUBSET (Present(Cleaned) \cup {c})
      BY <1>3, <2>5 DEF LoginFile, Present
    <3>2. /\ IsFiniteSet(Present(Cleaned) \cup {c})
          /\ Cardinality(Present(Cleaned) \cup {c}) \in Nat
          /\ Cardinality(Present(Cleaned) \cup {c}) <= Cardinality(Present(Cleaned)) + 1
      <4>1. /\ IsFiniteSet(Present(Cleaned) \cup {c})
            /\ Cardinality(Present(Cleaned) \cup {c}) =
                   IF c \in Present(Cleaned) THEN Cardinality(Present(Cleaned))
                                            ELSE Cardinality(Present(Cleaned)) + 1
        BY <2>3, FS_AddElement
      <4> QED
        BY <2>3, <4>1
    <3>3. /\ IsFiniteSet(Present(next)) /\ Cardinality(Present(next)) \in Nat
          /\ Cardinality(Present(next)) <= Cardinality(Present(Cleaned) \cup {c})
      BY <3>1, <3>2, FS_Subset, FS_CardinalityType
    <3>4. Cardinality(Present(Cleaned)) < MaxSessions
      BY <2>5 DEF LoginRoom
    <3> QED
      BY <2>3, <3>2, <3>3, <3>4
  <2>6. CASE (next = RestoreFile(c) /\ Alive(View, c)) \/ next = LogoutFile(c)
    <3>1. Present(next) \in SUBSET Present(Cleaned)
      <4>1. CASE next = LogoutFile(c)
        BY <1>3, <4>1 DEF LogoutFile, Present
      <4>2. CASE next = RestoreFile(c) /\ Alive(View, c)
        <5>1. Cleaned[c].expires > clock
          BY <4>2 DEF Cleaned, Alive
        <5>2. Cleaned[c] # Absent
          BY <1>2, <5>1
        <5> QED
          BY <1>3, <4>2, <5>2 DEF RestoreFile, Present
      <4> QED
        BY <2>6, <4>1, <4>2
    <3>2. /\ IsFiniteSet(Present(next)) /\ Cardinality(Present(next)) \in Nat
          /\ Cardinality(Present(next)) <= Cardinality(Present(Cleaned))
      BY <2>3, <3>1, FS_Subset, FS_CardinalityType
    <3> QED
      BY <2>3, <2>4, <3>2
  <2> QED
    BY <1>7, <2>5, <2>6
<1> QED
  BY <1>5, <1>6, <1>7

\* An operation leaves the table it was given, in the file and in memory, or
\* leaves the file alone.
LEMMA Operations ==
  ASSUME Bounds, IInv, Login \/ Restore \/ Logout
  PROVE  /\ loaded' /\ UNCHANGED <<root, clock>>
         /\ \/ sessions' = View /\ UNCHANGED file
            \/ \E c \in Cookies :
                 /\ sessions' = file'
                 /\ \/ c \notin known /\ file' = LoginFile(c) /\ LoginRoom
                    \/ Alive(View, c) /\ file' = RestoreFile(c)
                    \/ file' = LogoutFile(c)
<1>1. CASE Login
  BY <1>1 DEF Login, Save, SaveFails
<1>2. CASE Restore
  BY <1>2 DEF Restore, Save, SaveFails, IInv, Types
<1>3. CASE Logout
  BY <1>3 DEF Logout, Save, SaveFails
<1> QED
  BY <1>1, <1>2, <1>3

\* What the end of the process leaves: the file as it was, or one a saveLocked
\* had just put in place.
LEMMA Crashes ==
  ASSUME Bounds, IInv, Crash
  PROVE  /\ ~loaded' /\ root' \in Nat /\ root' >= root /\ UNCHANGED clock
         /\ sessions' = Empty
         /\ \/ UNCHANGED file
            \/ \E c \in Cookies :
                 \/ c \notin known /\ file' = LoginFile(c) /\ LoginRoom
                 \/ Alive(View, c) /\ file' = RestoreFile(c)
                 \/ file' = LogoutFile(c)
<1>1. PICK r \in {root} \cup {x \in 1..MaxRoot : x = root + 1} : Restart(r)
  BY DEF Crash
<1>2. ~loaded' /\ root' \in Nat /\ root' >= root /\ sessions' = Empty
  BY <1>1 DEF Restart, IInv, Types, Bounds
<1> QED
  BY <1>2 DEF Crash, IInv, Types

LEMMA NumbersInRecords ==
  ASSUME Bounds, NEW e \in Record
  PROVE  e.root \in Nat /\ e.expires \in Nat
  BY DEF Bounds, Record

LEMMA NextInv ==
  ASSUME Bounds, IInv, Next
  PROVE  IInv'
<1> USE DEF Bounds
<1>1. Empty \in Table
  BY DEF Empty, Absent, Table, Record
<1>2. View \in Table /\ View = file
  BY DEF View, IInv, Types, MemoryIsFile
<1>3. known' \subseteq Cookies
  BY DEF Next, Login, Restore, Logout, Crash, Tick, IInv, Types
<1>4. \/ UNCHANGED file
      \/ /\ file' \in Table /\ \A d \in Cookies : file'[d].root <= root
         /\ IsFiniteSet(Present(file')) /\ Cardinality(Present(file')) <= MaxSessions
  <2>1. CASE UNCHANGED file
    BY <2>1
  <2>2. ASSUME NEW c \in Cookies,
               \/ c \notin known /\ file' = LoginFile(c) /\ LoginRoom
               \/ Alive(View, c) /\ file' = RestoreFile(c)
               \/ file' = LogoutFile(c)
        PROVE  /\ file' \in Table /\ \A d \in Cookies : file'[d].root <= root
               /\ IsFiniteSet(Present(file')) /\ Cardinality(Present(file')) <= MaxSessions
    <3>1. PICK next \in {LoginFile(c), RestoreFile(c), LogoutFile(c)} :
              /\ file' = next
              /\ \/ next = LoginFile(c) /\ LoginRoom
                 \/ next = RestoreFile(c) /\ Alive(View, c)
                 \/ next = LogoutFile(c)
      BY <2>2
    <3>2. /\ next \in Table /\ \A d \in Cookies : next[d].root <= root
          /\ IsFiniteSet(Present(next)) /\ Cardinality(Present(next)) <= MaxSessions
      BY <3>1, Written
    <3> QED
      BY <3>1, <3>2
  <2>3. CASE Tick
    BY <2>3 DEF Tick
  <2> QED
    BY <2>1, <2>2, <2>3, Operations, Crashes DEF Next
<1>5. file' \in Table /\ FileIsSmall'
  <2>1. CASE UNCHANGED file
    BY <2>1 DEF IInv, Types, FileIsSmall, FileLoadable, Present
  <2>2. CASE /\ file' \in Table
             /\ IsFiniteSet(Present(file')) /\ Cardinality(Present(file')) <= MaxSessions
    BY <2>2 DEF FileIsSmall, FileLoadable, Present
  <2> QED
    BY <1>4, <2>1, <2>2
<1>6. \A d \in Cookies : file'[d].root <= root
  BY <1>4 DEF IInv, PastRoots
<1>7. CASE Login \/ Restore \/ Logout
  <2>1. loaded' = TRUE /\ UNCHANGED <<root, clock>>
    BY <1>7 DEF Login, Restore, Logout, Save, SaveFails
  <2>2. sessions' = file'
    BY <1>2, <1>7, Operations
  <2> QED
    BY <1>3, <1>5, <1>6, <2>1, <2>2 DEF IInv, Types, MemoryIsFile, PastRoots
<1>8. CASE Crash
  <2>1. loaded' = FALSE /\ sessions' = Empty /\ UNCHANGED clock
    BY <1>8 DEF Crash, Restart
  <2>2. root' \in 1..MaxRoot /\ root' >= root
    <3>1. PICK r \in {root} \cup {x \in 1..MaxRoot : x = root + 1} : root' = r
      BY <1>8 DEF Crash, Restart
    <3> QED
      BY <3>1 DEF IInv, Types
  <2>3. \A d \in Cookies : file'[d].root <= root'
    <3>1. \A d \in Cookies : file'[d].root \in Nat
      BY <1>5, NumbersInRecords DEF Table
    <3> QED
      BY <1>6, <2>2, <3>1 DEF IInv, Types
  <2> QED
    BY <1>1, <1>3, <1>5, <2>1, <2>2, <2>3 DEF IInv, Types, MemoryIsFile, PastRoots
<1>9. CASE Tick
  <2>1. UNCHANGED <<file, root, loaded, sessions>> /\ clock' \in 1..MaxClock
    BY <1>9 DEF Tick, memory, IInv, Types
  <2> QED
    BY <1>3, <1>5, <2>1 DEF IInv, Types, MemoryIsFile, PastRoots
<1> QED
  BY <1>7, <1>8, <1>9 DEF Next

\* A step renews only what is alive, and time and credentials only go on.
LEMMA DeadStays ==
  ASSUME Bounds, IInv, Next, NEW c \in known, ~Alive(View, c)
  PROVE  ~Alive(View, c)'
<1>0. c \in Cookies /\ View \in Table /\ View = file /\ View[c].root <= root
  BY DEF IInv, Types, View, MemoryIsFile, PastRoots
<1>1. root \in Nat /\ clock \in Nat
  BY DEF IInv, Types, Bounds
<1>2. View' = file'
  BY NextInv DEF IInv, View, MemoryIsFile
<1>3. /\ ~Alive(file', c)
      /\ file'[c].root <= root /\ file'[c].root \in Nat /\ file'[c].expires \in Nat
  <2>1. CASE UNCHANGED file
    BY <1>0, <2>1, NumbersInRecords DEF Table
  <2>2. ASSUME NEW d \in Cookies,
               \/ d \notin known /\ file' = LoginFile(d)
               \/ Alive(View, d) /\ file' = RestoreFile(d)
               \/ file' = LogoutFile(d)
        PROVE  ~Alive(file', c) /\ file' \in Table /\ file'[c].root <= root
    <3>1. PICK next \in {LoginFile(d), RestoreFile(d), LogoutFile(d)} :
              file' = next /\ (d = c => next = LogoutFile(c))
      BY <2>2
    <3>2. next \in Table /\ next[c].root <= root
      BY <1>0, Written
    <3>3. ~Alive(next, c)
      BY <1>0, <3>1, Written
    <3> QED
      BY <3>1, <3>2, <3>3
  <2>3. CASE Tick
    BY <2>1, <2>3 DEF Tick
  <2>4. CASE \E d \in Cookies :
               \/ d \notin known /\ file' = LoginFile(d)
               \/ Alive(View, d) /\ file' = RestoreFile(d)
               \/ file' = LogoutFile(d)
    BY <1>0, <2>2, <2>4, NumbersInRecords DEF Table
  <2> QED
    BY <2>1, <2>3, <2>4, Operations, Crashes DEF Next
<1>4. root' \in Nat /\ root' >= root /\ clock' \in Nat /\ clock' >= clock
  BY <1>1, Operations, Crashes DEF Next, Tick
<1>5. ~(file'[c].expires > clock' /\ file'[c].root = root')
  BY <1>1, <1>3, <1>4 DEF Alive
<1> QED
  BY <1>2, <1>5 DEF Alive

-----------------------------------------------------------------------------

\* The inductive invariant holds in every reachable state: login, restore, logout,
\* a restart and the passing of time keep it (web_sessions.go).
THEOREM Invariance ==
  ASSUME Bounds
  PROVE  Spec => []IInv
<1>1. Init => IInv
  <2> SUFFICES ASSUME Init PROVE IInv
    OBVIOUS
  <2>1. Empty \in Table /\ \A c \in Cookies : Empty[c].root = 0
    BY DEF Bounds, Empty, Absent, Table, Record
  <2>2. Present(file) = {}
    BY DEF Init, Present, Empty
  <2>3. FileIsSmall
    BY <2>2, FS_EmptySet DEF FileIsSmall, FileLoadable, Bounds
  <2> QED
    <3>1. Types
      <4>1. 1 \in 1..MaxRoot /\ 1 \in 1..MaxClock
        BY DEF Bounds
      <4> QED
        BY <2>1, <4>1 DEF Init, Types
    <3>2. MemoryIsFile /\ PastRoots
      BY <2>1 DEF Init, MemoryIsFile, PastRoots
    <3> QED
      BY <2>3, <3>1, <3>2 DEF IInv
<1>2. IInv /\ [Next]_vars => IInv'
  <2>1. IInv /\ UNCHANGED vars => IInv'
    BY DEF vars, memory, IInv, Types, MemoryIsFile, PastRoots, FileIsSmall, FileLoadable, Present
  <2> QED
    BY <2>1, NextInv
<1> QED
  BY <1>1, <1>2, PTL DEF Spec

\* The file and the memory never disagree, whatever write fails and wherever
\* the process ends (saveLocked).
THEOREM MemoryStaysFile ==
  ASSUME Bounds
  PROVE  Spec => []MemoryIsFile
<1>1. IInv => MemoryIsFile
  BY DEF IInv
<1> QED
  BY <1>1, Invariance, PTL

\* The file is always one that loadLocked accepts, whatever is written and
\* wherever the process ends: a login that finds no room writes none (login).
THEOREM FileStaysLoadable ==
  ASSUME Bounds
  PROVE  Spec => []FileLoadable
<1>1. IInv => FileLoadable
  BY DEF IInv, FileIsSmall
<1> QED
  BY <1>1, Invariance, PTL

\* A session that ended is never honoured again (restore, logout, cleanedLocked):
\* a step renews only what is alive, and time and credentials only go on.
THEOREM EndedStaysEnded ==
  ASSUME Bounds
  PROVE  Spec => DeadStaysDead
<1>1. IInv /\ [Next]_vars => [\A c \in known : ~Alive(View, c) => ~Alive(View, c)']_vars
  BY DeadStays
<1> QED
  BY <1>1, Invariance, PTL DEF Spec, DeadStaysDead

-----------------------------------------------------------------------------
(* The access tokens of a process.                                         *)

TokenTypes ==
  /\ owner \in Seq(known) /\ Len(owner) <= MaxTokens
  /\ access \subseteq 1..Len(owner)
  /\ loaded = FALSE => owner = <<>>

\* Oldest token that has its place in the order, less one.
Dropped == Len(owner) - Len(order)

\* The order is the last tokens issued, and no shorter than it need be.
OrderIsNewest ==
  /\ order \in Seq(Nat) /\ Len(order) <= MaxAccess
  /\ Dropped >= 0 /\ (Dropped > 0 => Len(order) = MaxAccess)
  /\ \A i \in 1..Len(order) : order[i] = Dropped + i

\* Whoever has a place in the order has access, as long as the session lives.
PlacesWork ==
  \A t \in 1..Len(owner) : t > Dropped /\ Alive(sessions, owner[t]) => t \in access

TInv == IInv /\ TokenTypes /\ OrderIsNewest /\ PlacesWork

\* The sessions of the tokens there are only end.
LEMMA OwnersOnlyEnd ==
  ASSUME Bounds, TInv, Next, loaded, loaded', NEW c \in known, Alive(sessions, c)'
  PROVE  Alive(sessions, c)
<1>1. Alive(View, c)'
  BY DEF View
<1>2. Alive(View, c)
  BY <1>1, DeadStays DEF TInv
<1> QED
  BY <1>2 DEF View

\* A step that issues no token: it may take the access of a session that ended.
LEMMA NothingIssued ==
  ASSUME Bounds, TInv, Next, UNCHANGED <<order, owner>>, access' \subseteq access,
         known \subseteq known', loaded' \/ owner = <<>>,
         \A t \in access \ access' : ~Alive(sessions, owner[t])'
  PROVE  TInv'
<1>1. IInv'
  BY NextInv DEF TInv
<1>2. owner' \in Seq(known') /\ \A t \in 1..Len(owner) : owner[t] \in known
  BY DEF TInv, TokenTypes
<1>3. TokenTypes'
  BY <1>2 DEF TInv, TokenTypes
<1>4. OrderIsNewest'
  BY DEF TInv, OrderIsNewest, Dropped
<1>5. ASSUME NEW t \in 1..Len(owner), t > Dropped, Alive(sessions, owner[t])'
      PROVE  t \in access'
  <2>1. owner[t] \in known /\ owner # <<>>
    BY <1>2, <1>5 DEF TInv, TokenTypes
  <2>2. loaded /\ loaded'
    BY <2>1 DEF TInv, IInv, Types, TokenTypes
  <2>3. Alive(sessions, owner[t])
    <3>1. PICK c \in known : c = owner[t]
      BY <2>1
    <3>2. Alive(sessions, c)'
      BY <1>5, <3>1 DEF Alive
    <3> QED
      BY <2>2, <3>1, <3>2, OwnersOnlyEnd
  <2> QED
    BY <1>5, <2>3 DEF TInv, PlacesWork
<1>6. PlacesWork'
  <2>1. \A t \in 1..Len(owner)' : t > Dropped' /\ Alive(sessions, owner[t])' => t \in access'
    BY <1>5 DEF Dropped
  <2> QED
    BY <2>1 DEF PlacesWork
<1> QED
  BY <1>1, <1>3, <1>4, <1>6 DEF TInv

\* A step that issues a token: the oldest place makes room when all are taken.
LEMMA OneIssued ==
  ASSUME Bounds, TInv, Next, NEW c \in known', known \subseteq known', loaded', Issue(c)
  PROVE  TInv'
<1> DEFINE n == Len(owner)
           full == Len(order) >= MaxAccess
           rest == IF full THEN Tail(order) ELSE order
           drop == IF full THEN Dropped + 1 ELSE Dropped
<1>1. /\ n < MaxTokens /\ owner' = Append(owner, c) /\ order' = Append(rest, n + 1)
      /\ access' = (IF full THEN access \ {Head(order)} ELSE access) \cup {n + 1}
  BY DEF Issue
<1>2. /\ n \in Nat /\ MaxTokens \in Nat /\ MaxAccess \in Nat /\ MaxAccess > 0
      /\ order \in Seq(Nat) /\ Len(order) \in Nat /\ Len(order) <= MaxAccess
      /\ Dropped = n - Len(order) /\ Dropped \in Nat /\ n = Dropped + Len(order)
      /\ Dropped > 0 => Len(order) = MaxAccess
      /\ \A i \in 1..Len(order) : order[i] = Dropped + i
  BY DEF Bounds, TInv, TokenTypes, OrderIsNewest, Dropped
<1>3. IInv'
  BY NextInv DEF TInv
<1>4. /\ owner' \in Seq(known') /\ Len(owner') = n + 1 /\ owner'[n + 1] = c
      /\ \A t \in 1..n : owner'[t] = owner[t] /\ owner[t] \in known
      /\ access \subseteq 1..n
  <2>1. owner \in Seq(known')
    BY DEF TInv, TokenTypes
  <2> QED
    BY <1>1, <2>1 DEF TInv, TokenTypes
<1>5. TokenTypes'
  <2>1. access' \subseteq 1..(n + 1)
    <3>1. access' \subseteq access \cup {n + 1}
      BY <1>1
    <3>2. 1..n \subseteq 1..(n + 1) /\ n + 1 \in 1..(n + 1)
      BY <1>2
    <3> QED
      BY <1>4, <3>1, <3>2
  <2>2. n + 1 <= MaxTokens
    BY <1>1, <1>2
  <2> QED
    BY <1>4, <2>1, <2>2 DEF TokenTypes
<1>6. /\ rest \in Seq(Nat) /\ drop \in Nat /\ drop + Len(rest) = n /\ Len(rest) < MaxAccess
      /\ \A i \in 1..Len(rest) : rest[i] = drop + i
      /\ drop > 0 => Len(rest) + 1 = MaxAccess
  <2>1. CASE full
    <3>1. order # <<>> /\ Len(order) = MaxAccess
      BY <1>2, <2>1
    <3>2. /\ rest = Tail(order) /\ rest \in Seq(Nat) /\ Len(rest) = Len(order) - 1
          /\ \A i \in 1..Len(rest) : rest[i] = order[i + 1] /\ i + 1 \in 1..Len(order)
      BY <1>2, <2>1, <3>1
    <3>3. drop = Dropped + 1
      BY <2>1
    <3>4. \A i \in 1..Len(rest) : rest[i] = drop + i
      <4>1. ASSUME NEW i \in 1..Len(rest)
            PROVE  rest[i] = drop + i
        <5>1. rest[i] = Dropped + (i + 1)
          BY <1>2, <3>2
        <5> QED
          BY <1>2, <3>2, <3>3, <5>1
      <4> QED
        BY <4>1
    <3> QED
      BY <1>2, <3>1, <3>2, <3>3, <3>4
  <2>2. CASE ~full
    BY <1>2, <2>2
  <2> QED
    BY <2>1, <2>2
<1>0. Len(rest) \in Nat /\ drop \in Nat /\ n \in Nat /\ drop + Len(rest) = n
  <2>1. n \in Nat
    BY <1>2
  <2>2. rest \in Seq(Nat) /\ drop \in Nat /\ drop + Len(rest) = n
    BY <1>6
  <2> HIDE DEF n, rest, drop
  <2>3. Len(rest) \in Nat
    BY <2>2
  <2> QED
    BY <2>1, <2>2, <2>3
<1> HIDE DEF rest, drop
<1>7. Dropped' = drop /\ order' \in Seq(Nat) /\ Len(order') = Len(rest) + 1
  <2>1. order' \in Seq(Nat) /\ Len(order') = Len(rest) + 1
    BY <1>1, <1>2, <1>6
  <2> QED
    <3>1. Dropped' = (n + 1) - (Len(rest) + 1)
      BY <1>4, <2>1 DEF Dropped
    <3>2. (n + 1) - (Len(rest) + 1) = drop
      BY <1>0
    <3> QED
      BY <2>1, <3>1, <3>2
<1>8. OrderIsNewest'
  <2>1. \A i \in 1..(Len(rest) + 1) : order'[i] = drop + i
    <3>1. ASSUME NEW i \in 1..(Len(rest) + 1)
          PROVE  order'[i] = drop + i
      <4>1. CASE i = Len(rest) + 1
        <5>1. order'[i] = n + 1
          BY <1>1, <1>2, <1>6, <4>1
        <5>2. drop + (Len(rest) + 1) = n + 1
          BY <1>0
        <5> QED
          BY <4>1, <5>1, <5>2
      <4>2. CASE i # Len(rest) + 1
        <5>1. i \in 1..Len(rest) /\ order'[i] = rest[i]
          BY <1>1, <1>2, <1>6, <4>2
        <5> QED
          BY <1>6, <5>1
      <4> QED
        BY <4>1, <4>2
    <3> QED
      BY <3>1
  <2> QED
    BY <1>2, <1>6, <1>7, <2>1 DEF OrderIsNewest
<1>9. ASSUME NEW t \in 1..(n + 1), t > drop, Alive(sessions, owner[t])'
      PROVE  t \in access'
  <2>1. CASE t = n + 1
    BY <1>1, <2>1
  <2>2. CASE t # n + 1
    <3>1. t \in 1..n /\ owner'[t] = owner[t] /\ owner[t] \in known
      BY <1>2, <1>4, <2>2
    <3>2. PICK d \in known : d = owner[t]
      BY <3>1
    <3>3. Alive(sessions, d)'
      BY <1>9, <3>1, <3>2 DEF Alive
    <3>4. loaded
      <4>1. owner # <<>>
        BY <1>2, <3>1
      <4> QED
        BY <4>1 DEF TInv, IInv, Types, TokenTypes
    <3>5. Alive(sessions, owner[t])
      BY <3>2, <3>3, <3>4, OwnersOnlyEnd
    <3>6. t > Dropped /\ (full => t # Dropped + 1)
      BY <1>2, <1>9, <3>1 DEF drop
    <3>7. t \in access
      BY <3>1, <3>5, <3>6 DEF TInv, PlacesWork
    <3>8. full => Head(order) = Dropped + 1
      <4>1. full => order # <<>> /\ 1 \in 1..Len(order)
        BY <1>2
      <4>2. full => Head(order) = order[1]
        BY <1>2, <4>1
      <4> QED
        BY <1>2, <4>1, <4>2
    <3> QED
      BY <1>1, <3>6, <3>7, <3>8
  <2> QED
    BY <2>1, <2>2
<1>10. PlacesWork'
  <2>1. \A t \in 1..Len(owner)' : t > Dropped' /\ Alive(sessions, owner[t])' => t \in access'
    BY <1>4, <1>7, <1>9
  <2> QED
    BY <2>1 DEF PlacesWork
<1> QED
  BY <1>3, <1>5, <1>8, <1>10 DEF TInv

LEMMA TokenStep ==
  ASSUME Bounds, TInv, Next
  PROVE  TInv'
<1> USE DEF SaveFails, IssueFails, Save
<1>1. CASE Login
  <2>1. known \subseteq known' /\ loaded'
    BY <1>1 DEF Login
  <2>2. CASE UNCHANGED <<access, order, owner>>
    BY <2>1, <2>2, NothingIssued
  <2>3. CASE \E c \in known' : Issue(c)
    BY <2>1, <2>3, OneIssued
  <2> QED
    BY <1>1, <2>2, <2>3 DEF Login
<1>2. CASE Restore
  <2>1. known \subseteq known' /\ loaded'
    BY <1>2 DEF Restore
  <2>2. CASE UNCHANGED <<access, order, owner>>
    BY <2>1, <2>2, NothingIssued
  <2>3. CASE \E c \in known' : Issue(c)
    BY <2>1, <2>3, OneIssued
  <2> QED
    BY <1>2, <2>2, <2>3 DEF Restore
<1>3. CASE Logout
  <2>1. known \subseteq known' /\ loaded' /\ UNCHANGED <<order, owner, root, clock>>
    BY <1>3 DEF Logout
  <2>2. CASE UNCHANGED access
    BY <2>1, <2>2, NothingIssued
  <2>3. CASE \E c \in Cookies : Save(LogoutFile(c)) /\ access' = access \ TokensOf(c)
    <3>1. PICK c \in Cookies : Save(LogoutFile(c)) /\ access' = access \ TokensOf(c)
      BY <2>3
    <3>2. ~Alive(sessions, c)'
      <4>1. PICK next \in {LoginFile(c), RestoreFile(c), LogoutFile(c)} :
                next = LogoutFile(c) /\ sessions' = next
        BY <3>1
      <4>2. ~Alive(next, c)
        BY <4>1, Written DEF TInv
      <4> QED
        BY <2>1, <4>1, <4>2 DEF Alive
    <3>3. \A t \in access \ access' : ~Alive(sessions, owner[t])'
      BY <2>1, <3>1, <3>2 DEF TokensOf
    <3> QED
      BY <2>1, <3>1, <3>3, NothingIssued
  <2> QED
    BY <1>3, <2>2, <2>3 DEF Logout
<1>4. CASE Crash
  <2>1. known' \subseteq Cookies /\ access' = {} /\ order' = <<>> /\ owner' = <<>>
    BY <1>4, NextInv DEF Crash, Restart, TInv, IInv, Types
  <2>2. TokenTypes' /\ PlacesWork'
    BY <2>1 DEF TokenTypes, PlacesWork, Bounds
  <2>3. OrderIsNewest'
    BY <2>1 DEF OrderIsNewest, Dropped, Bounds
  <2> QED
    BY <2>2, <2>3, NextInv DEF TInv
<1>5. CASE Tick
  <2>1. UNCHANGED <<known, loaded, access, order, owner>>
    BY <1>5 DEF Tick, memory
  <2>2. loaded' \/ owner = <<>>
    BY <2>1 DEF TInv, IInv, Types, TokenTypes
  <2> QED
    BY <2>1, <2>2, NothingIssued
<1> QED
  BY <1>1, <1>2, <1>3, <1>4, <1>5 DEF Next

LEMMA TokenInit ==
  ASSUME Bounds, IInv, Init
  PROVE  TInv
<1>1. TokenTypes /\ PlacesWork
  BY DEF Init, TokenTypes, PlacesWork, Bounds
<1>2. OrderIsNewest
  BY DEF Init, OrderIsNewest, Dropped, Bounds
<1> QED
  BY <1>1, <1>2 DEF TInv

\* The tokens, the order in which they go and the sessions fit together in every
\* reachable state (accessTokenLocked, logout).
THEOREM TokenInvariance ==
  ASSUME Bounds
  PROVE  Spec => []TInv
<1>1. IInv /\ Init => TInv
  BY TokenInit
<1>2. TInv /\ [Next]_vars => TInv'
  <2>1. TInv /\ UNCHANGED vars => TInv'
    <3> SUFFICES ASSUME TInv, UNCHANGED vars PROVE TInv'
      OBVIOUS
    <3>1. IInv'
      BY DEF TInv, vars, memory, IInv, Types, MemoryIsFile, PastRoots, FileIsSmall,
             FileLoadable, Present
    <3>2. TokenTypes' /\ OrderIsNewest' /\ PlacesWork'
      BY DEF TInv, vars, memory, TokenTypes, OrderIsNewest, PlacesWork, Dropped, Alive
    <3> QED
      BY <3>1, <3>2 DEF TInv
  <2> QED
    BY <2>1, TokenStep
<1> QED
  BY <1>1, <1>2, Invariance, PTL DEF Spec

\* The last MaxAccess tokens work as long as their session lives: no logout,
\* expiry or eviction of others takes their access away (accessTokenLocked).
THEOREM NewestTokensWork ==
  ASSUME Bounds
  PROVE  Spec => []RecentTokensWork
<1>1. TInv => RecentTokensWork
  <2> SUFFICES ASSUME TInv, NEW t \in DOMAIN owner,
                      t > Len(owner) - MaxAccess, Alive(sessions, owner[t])
               PROVE  t \in access
    BY DEF RecentTokensWork, Allows
  <2>1. t \in 1..Len(owner) /\ Len(owner) \in Nat
    BY DEF TInv, TokenTypes
  <2>2. t > Dropped
    BY <2>1 DEF TInv, OrderIsNewest, Dropped, Bounds
  <2> QED
    BY <2>1, <2>2 DEF TInv, PlacesWork
<1> QED
  BY <1>1, TokenInvariance, PTL

\* The types and the limits of the table of tokens and of its order, which
\* cleanedLocked and accessTokenLocked keep.
THEOREM TypeCorrect ==
  ASSUME Bounds
  PROVE  Spec => []TypeOK
<1>1. TInv => TypeOK
  <2> SUFFICES ASSUME TInv PROVE TypeOK
    OBVIOUS
  <2>1. owner \in Seq(Cookies) /\ DOMAIN owner = 1..Len(owner) /\ Len(owner) \in Nat
    BY DEF TInv, IInv, Types, TokenTypes
  <2>2. order \in Seq(DOMAIN owner)
    <3>1. order \in Seq(Nat) /\ Dropped >= 0 /\ Dropped = Len(owner) - Len(order)
      BY DEF TInv, OrderIsNewest, Dropped
    <3>2. \A i \in 1..Len(order) : order[i] \in 1..Len(owner)
      BY <2>1, <3>1 DEF TInv, OrderIsNewest
    <3> QED
      BY <2>1, <3>1, <3>2
  <2> QED
    BY <2>1, <2>2 DEF TInv, IInv, Types, TokenTypes, OrderIsNewest, Table, TypeOK
<1> QED
  BY <1>1, TokenInvariance, PTL

=============================================================================
