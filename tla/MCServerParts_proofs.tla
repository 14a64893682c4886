------------------------- MODULE MCServerParts_proofs -------------------------
(***************************************************************************)
(* What the parts of the server promise, for every number of clients,      *)
(* callers, branches, files and cookies.  The parts share no state, so     *)
(* that each has its own invariant; the composition keeps all of them.     *)
(***************************************************************************)
EXTENDS MCServerParts, Sequences, FiniteSets, FiniteSetTheorems, SequenceTheorems,
        WellFoundedInduction, TLAPS

-----------------------------------------------------------------------------
(* The OAuth broker.                                                       *)

Of(r) == {g \in refresh : g.request = r}

BrokerTypes ==
    /\ stage \in [Authorizations -> {"new", "loading", "listed", "asked", "refused"}]
    /\ client \in [Authorizations -> Clients]
    /\ tickets \subseteq Authorizations /\ codes \subseteq Authorizations
    /\ access \subseteq O!Grants /\ refresh \subseteq O!Grants
    /\ serial \in [Authorizations -> 0 .. MaxGrants]

\* A request has something to show for itself only once its ticket was made:
\* the ticket is made once, and is all that the request ever starts from.
AskedFirst ==
    \A r \in Authorizations : stage[r] # "asked" => r \notin tickets \cup codes /\ Of(r) = {}

\* A request has one way forward at most.
OneWay ==
    \A r \in Authorizations :
        /\ r \in tickets => r \notin codes /\ Of(r) = {}
        /\ r \in codes => Of(r) = {}
        /\ \A g, h \in Of(r) : g = h

\* What was given out was approved, for the client that asked.
Approved ==
    /\ codes \subseteq approved
    /\ \A g \in access \cup refresh : g.request \in approved /\ g.client = client[g.request]

BrokerInv == BrokerTypes /\ AskedFirst /\ OneWay /\ Approved

LEMMA BrokerInit ==
    ASSUME O!Init
    PROVE  BrokerInv
<1>1. BrokerTypes
  BY BoundsAssumption DEF O!Init, BrokerTypes
<1>2. AskedFirst /\ OneWay /\ Approved
  BY DEF O!Init, AskedFirst, OneWay, Approved, Of
<1> QED
  BY <1>1, <1>2 DEF BrokerInv

\* What IssueGrant does, given the refresh tokens that are left: it gives none,
\* or one new pair to a request that has no other way forward.
LEMMA Issued ==
    ASSUME BrokerInv, NEW r \in Authorizations, NEW c \in Clients, NEW left \in SUBSET refresh,
           O!IssueGrant(r, c, left)
    PROVE  \/ refresh' = left /\ UNCHANGED <<access, serial>>
           \/ \E g \in O!Grants :
                  /\ g.request = r /\ g.client = c
                  /\ access' = access \cup {g} /\ refresh' = left \cup {g}
                  /\ serial' \in [Authorizations -> 0 .. MaxGrants]
<1>1. CASE refresh' = left /\ UNCHANGED <<access, serial>>
  BY <1>1
<1>2. CASE /\ serial[r] < MaxGrants
           /\ serial' = [serial EXCEPT ![r] = @ + 1]
           /\ access' = access \cup {[request |-> r, serial |-> serial[r] + 1, client |-> c]}
           /\ refresh' = left \cup {[request |-> r, serial |-> serial[r] + 1, client |-> c]}
  <2> DEFINE g == [request |-> r, serial |-> serial[r] + 1, client |-> c]
  <2>1. serial[r] \in 0 .. MaxGrants
    BY DEF BrokerInv, BrokerTypes
  <2>2. serial[r] + 1 \in 1 .. MaxGrants
    BY <1>2, <2>1, BoundsAssumption
  <2>3. g \in O!Grants
    BY <2>2 DEF O!Grants
  <2>4. serial' \in [Authorizations -> 0 .. MaxGrants]
    BY <1>2, <2>2 DEF BrokerInv, BrokerTypes
  <2> QED
    BY <1>2, <2>3, <2>4
<1> QED
  BY <1>1, <1>2 DEF O!IssueGrant

\* A step that gives nothing new keeps what the tables say; it may make one ticket
\* of a request that has none yet, or turn a ticket into a code.
LEMMA BrokerFewer ==
    ASSUME BrokerInv,
           tickets' \subseteq tickets, codes' \subseteq codes,
           access' \subseteq access, refresh' \subseteq refresh,
           stage' \in [Authorizations -> {"new", "loading", "listed", "asked", "refused"}],
           \A r \in Authorizations :
               stage'[r] # "asked" => stage[r] # "asked" \/ (r \notin tickets' \cup codes' /\ Of(r)' = {}),
           UNCHANGED <<client, serial, approved>>
    PROVE  BrokerInv'
<1>1. \A r \in Authorizations : Of(r)' \subseteq Of(r)
  BY DEF Of
<1>2. BrokerTypes'
  BY DEF BrokerInv, BrokerTypes
<1>3. AskedFirst' /\ OneWay'
  BY <1>1 DEF BrokerInv, AskedFirst, OneWay
<1>4. Approved'
  BY DEF BrokerInv, Approved
<1> QED
  BY <1>2, <1>3, <1>4 DEF BrokerInv

\* A pair is given to a request that just lost its code or its refresh token.
LEMMA GrantKeeps ==
    ASSUME BrokerInv, NEW r \in Authorizations, NEW c \in Clients, NEW left \in SUBSET refresh,
           O!IssueGrant(r, c, left), c = client[r], r \in approved,
           {g \in left : g.request = r} = {}, stage[r] = "asked",
           r \notin tickets \cup codes', codes' \subseteq codes,
           UNCHANGED <<stage, client, tickets, approved>>
    PROVE  BrokerInv'
<1>1. CASE refresh' = left /\ UNCHANGED <<access, serial>>
  BY <1>1, BrokerFewer DEF BrokerInv, BrokerTypes
<1>2. CASE \E g \in O!Grants :
               /\ g.request = r /\ g.client = c
               /\ access' = access \cup {g} /\ refresh' = left \cup {g}
               /\ serial' \in [Authorizations -> 0 .. MaxGrants]
  <2>1. PICK g \in O!Grants :
            /\ g.request = r /\ g.client = c
            /\ access' = access \cup {g} /\ refresh' = left \cup {g}
            /\ serial' \in [Authorizations -> 0 .. MaxGrants]
    BY <1>2
  <2>2. BrokerTypes'
    BY <2>1 DEF BrokerInv, BrokerTypes
  <2>3. Of(r)' = {g} /\ \A q \in Authorizations \ {r} : Of(q)' \subseteq Of(q)
    BY <2>1 DEF Of
  <2>4. AskedFirst' /\ OneWay'
    BY <2>3 DEF BrokerInv, AskedFirst, OneWay
  <2>5. Approved'
    BY <2>1 DEF BrokerInv, Approved
  <2> QED
    BY <2>2, <2>4, <2>5 DEF BrokerInv
<1> QED
  BY <1>1, <1>2, Issued

LEMMA BrokerStep ==
    ASSUME BrokerInv, O!Next
    PROVE  BrokerInv'
<1> USE DEF BrokerInv, BrokerTypes
<1>1. CASE \E r \in Authorizations : O!Begin(r) \/ O!Loaded(r) \/ O!LoadFails(r)
  <2>1. PICK r \in Authorizations : O!Begin(r) \/ O!Loaded(r) \/ O!LoadFails(r)
    BY <1>1
  <2>2. /\ UNCHANGED <<tickets, codes, access, refresh, client, serial, approved>>
        /\ stage[r] # "asked"
        /\ \E l \in {"loading", "listed", "refused"} : stage' = [stage EXCEPT ![r] = l]
    BY <2>1 DEF O!Begin, O!Loaded, O!LoadFails
  <2> QED
    BY <2>2, BrokerFewer
<1>2. CASE \E r \in Authorizations : O!Ticket(r)
  <2>1. PICK r \in Authorizations : O!Ticket(r)
    BY <1>2
  <2>2. /\ stage[r] = "listed"
        /\ UNCHANGED <<client, codes, access, refresh, serial, approved>>
    BY <2>1 DEF O!Ticket
  <2>3. CASE tickets' = tickets \cup {r} /\ stage' = [stage EXCEPT ![r] = "asked"]
    <3>1. \A q \in Authorizations : Of(q)' = Of(q)
      BY <2>2 DEF Of
    <3> QED
      BY <2>2, <2>3, <3>1 DEF AskedFirst, OneWay, Approved
  <2>4. CASE stage' = [stage EXCEPT ![r] = "refused"] /\ UNCHANGED tickets
    BY <2>2, <2>4, BrokerFewer
  <2> QED
    BY <2>1, <2>3, <2>4 DEF O!Ticket
<1>3. CASE \E r \in Authorizations : O!Deny(r)
  BY <1>3, BrokerFewer DEF O!Deny
<1>4. CASE \E r \in Authorizations : O!Approve(r)
  <2>1. PICK r \in Authorizations : O!Approve(r)
    BY <1>4
  <2>2. /\ r \in tickets /\ tickets' = tickets \ {r} /\ codes' = codes \cup {r}
        /\ approved' = approved \cup {r}
        /\ UNCHANGED <<stage, client, access, refresh, serial>>
    BY <2>1 DEF O!Approve
  <2>3. \A q \in Authorizations : Of(q)' = Of(q)
    BY <2>2 DEF Of
  <2>4. AskedFirst' /\ OneWay'
    BY <2>2, <2>3 DEF AskedFirst, OneWay
  <2> QED
    BY <2>2, <2>4 DEF Approved
<1>5. CASE \E r \in Authorizations, c \in Clients, matches \in BOOLEAN : O!Exchange(r, c, matches)
  <2>1. PICK r \in Authorizations, c \in Clients, matches \in BOOLEAN : O!Exchange(r, c, matches)
    BY <1>5
  <2>2. /\ r \in codes /\ codes' = codes \ {r}
        /\ UNCHANGED <<stage, client, tickets, approved>>
    BY <2>1 DEF O!Exchange
  <2>3. CASE UNCHANGED <<access, refresh, serial>>
    BY <2>2, <2>3, BrokerFewer
  <2>4. CASE c = client[r] /\ O!IssueGrant(r, c, refresh)
    <3>1. /\ Of(r) = {} /\ r \in approved /\ stage[r] = "asked" /\ r \notin tickets
      BY <2>2 DEF AskedFirst, OneWay, Approved
    <3> QED
      BY <2>2, <2>4, <3>1, GrantKeeps DEF Of
  <2> QED
    BY <2>1, <2>3, <2>4 DEF O!Exchange
<1>6. CASE \E g \in refresh, c \in Clients : O!Refresh(g, c)
  <2>1. PICK g \in refresh, c \in Clients : O!Refresh(g, c)
    BY <1>6
  <2>2. UNCHANGED <<stage, client, tickets, codes, approved>>
    BY <2>1 DEF O!Refresh
  <2>3. CASE refresh' = refresh \ {g} /\ UNCHANGED <<access, serial>>
    BY <2>2, <2>3, BrokerFewer
  <2>4. CASE c = g.client /\ O!IssueGrant(g.request, c, refresh \ {g})
    <3> DEFINE r == g.request
    <3>1. r \in Authorizations /\ g \in Of(r)
      BY DEF O!Grants, Of
    <3>2. /\ r \in approved /\ c = client[r] /\ stage[r] = "asked" /\ r \notin tickets \cup codes
      BY <2>4, <3>1 DEF AskedFirst, OneWay, Approved
    <3>3. {h \in refresh \ {g} : h.request = r} = {}
      BY <3>1 DEF OneWay, Of
    <3> HIDE DEF r
    <3> QED
      BY <2>2, <2>4, <3>1, <3>2, <3>3, GrantKeeps DEF r
  <2> QED
    BY <2>1, <2>3, <2>4 DEF O!Refresh
<1>7. CASE O!Expire
  BY <1>7, BrokerFewer DEF O!Expire
<1>8. CASE O!Restart
  <2>1. /\ tickets' = {} /\ codes' = {} /\ access' = {} /\ refresh' = {}
        /\ UNCHANGED <<client, serial, approved>>
        /\ stage' \in [Authorizations -> {"new", "loading", "listed", "asked", "refused"}]
    BY <1>8 DEF O!Restart
  <2>2. \A r \in Authorizations : Of(r)' = {}
    BY <2>1 DEF Of
  <2> QED
    BY <2>1, <2>2, BrokerFewer
<1> QED
  BY <1>1, <1>2, <1>3, <1>4, <1>5, <1>6, <1>7, <1>8 DEF O!Next

LEMMA SameCount ==
    ASSUME NEW S
    PROVE  O!Cardinality(S) = Cardinality(S)
  BY DEF Cardinality, O!Cardinality

\* One way forward is a count of at most one.
LEMMA BrokerGrantsTrace ==
    ASSUME BrokerInv
    PROVE  O!GrantsTrace
<1> DEFINE ways(r) == Cardinality(Of(r)) + Cardinality({r} \cap tickets)
                        + Cardinality({r} \cap codes)
<1>1. ASSUME NEW r \in Authorizations
      PROVE  ways(r) <= 1
  <2> DEFINE a == Cardinality(Of(r))
             b == Cardinality({r} \cap tickets)
             c == Cardinality({r} \cap codes)
  <2>1. ASSUME NEW S
        PROVE  Cardinality({r} \cap S) = IF r \in S THEN 1 ELSE 0
    <3>1. CASE r \in S
      <4>1. {r} \cap S = {r}
        BY <3>1
      <4> QED
        BY <3>1, <4>1, FS_Singleton
    <3>2. CASE r \notin S
      <4>1. {r} \cap S = {}
        BY <3>2
      <4> QED
        BY <3>2, <4>1, FS_EmptySet
    <3> QED
      BY <3>1, <3>2
  <2>2. /\ b = IF r \in tickets THEN 1 ELSE 0
        /\ c = IF r \in codes THEN 1 ELSE 0
    BY <2>1
  <2>3. a = IF Of(r) = {} THEN 0 ELSE 1
    <3>1. CASE Of(r) = {}
      BY <3>1, FS_EmptySet
    <3>2. CASE Of(r) # {}
      <4>1. PICK g \in Of(r) : Of(r) = {g}
        BY <3>2 DEF BrokerInv, OneWay
      <4> QED
        BY <3>2, <4>1, FS_Singleton
    <3> QED
      BY <3>1, <3>2
  <2>4. (r \in tickets => r \notin codes /\ Of(r) = {}) /\ (r \in codes => Of(r) = {})
    BY DEF BrokerInv, OneWay
  <2> HIDE DEF a, b, c
  <2>5. a + b + c <= 1
    BY <2>2, <2>3, <2>4
  <2> QED
    BY <2>5 DEF a, b, c
<1>2. Approved
  BY DEF BrokerInv
<1>4. \A r \in Authorizations :
          O!Cardinality({g \in refresh : g.request = r})
            + O!Cardinality({r} \cap tickets) + O!Cardinality({r} \cap codes) <= 1
  BY <1>1, SameCount DEF Of
<1> QED
  BY <1>2, <1>4 DEF O!GrantsTrace, Approved

-----------------------------------------------------------------------------
(* The limits of the broker.                                               *)

Fits(S, m) == IsFiniteSet(S) /\ Cardinality(S) <= m

Loading == {r \in Authorizations : stage[r] = "loading"}

BrokerLimits ==
    /\ Fits(tickets, MaxPending) /\ Fits(codes, MaxPending)
    /\ Fits(access, MaxTokens) /\ Fits(refresh, MaxTokens)
    /\ documents \subseteq Clients /\ Fits(documents, MaxPending)
    /\ approved \subseteq Authorizations
    /\ Fits(Loading, MaxDownloads) /\ downloads = Cardinality(Loading)

LEMMA FitsLess ==
    ASSUME NEW m \in Nat, NEW S, Fits(S, m), NEW T \in SUBSET S
    PROVE  Fits(T, m)
<1>1. IsFiniteSet(T) /\ Cardinality(T) <= Cardinality(S)
  BY FS_Subset DEF Fits
<1>2. Cardinality(T) \in Nat /\ Cardinality(S) \in Nat
  BY <1>1, FS_CardinalityType DEF Fits
<1> QED
  BY <1>1, <1>2 DEF Fits

LEMMA FitsMore ==
    ASSUME NEW m \in Nat, NEW S, IsFiniteSet(S), Cardinality(S) < m, NEW x
    PROVE  Fits(S \cup {x}, m)
<1>1. Cardinality(S) \in Nat
  BY FS_CardinalityType
<1>2. IsFiniteSet(S \cup {x})
      /\ Cardinality(S \cup {x}) = IF x \in S THEN Cardinality(S) ELSE Cardinality(S) + 1
  BY FS_AddElement
<1> QED
  BY <1>1, <1>2 DEF Fits

LEMMA LimitsAreNumbers ==
    MaxPending \in Nat /\ MaxTokens \in Nat /\ MaxDownloads \in Nat
  BY BoundsAssumption

LEMMA LimitsInit ==
    ASSUME O!Init
    PROVE  BrokerLimits
<1>1. Loading = {}
  BY DEF O!Init, Loading
<1>2. \A m \in Nat : Fits({}, m)
  BY FS_EmptySet DEF Fits
<1> QED
  BY <1>1, <1>2, LimitsAreNumbers, FS_EmptySet DEF O!Init, BrokerLimits

\* A pair is issued only where both tables have room for it.
LEMMA IssuedFits ==
    ASSUME BrokerLimits, NEW r, NEW c, NEW left \in SUBSET refresh, O!IssueGrant(r, c, left)
    PROVE  Fits(access', MaxTokens) /\ Fits(refresh', MaxTokens)
<1>1. Fits(access, MaxTokens) /\ Fits(left, MaxTokens)
  BY LimitsAreNumbers, FitsLess DEF BrokerLimits
<1>2. CASE refresh' = left /\ UNCHANGED access
  BY <1>1, <1>2
<1>3. CASE /\ ~ (O!Cardinality(access) >= MaxTokens) /\ ~ (O!Cardinality(left) >= MaxTokens)
           /\ \E g : access' = access \cup {g} /\ refresh' = left \cup {g}
  <2>1. Cardinality(access) \in Nat /\ Cardinality(left) \in Nat
    BY <1>1, FS_CardinalityType DEF Fits
  <2>2. Cardinality(access) < MaxTokens /\ Cardinality(left) < MaxTokens
    BY <1>3, <2>1, SameCount, LimitsAreNumbers
  <2> QED
    <3>1. PICK g : access' = access \cup {g} /\ refresh' = left \cup {g}
      BY <1>3
    <3>2. IsFiniteSet(access) /\ IsFiniteSet(left)
      BY <1>1 DEF Fits
    <3>3. Fits(access \cup {g}, MaxTokens) /\ Fits(left \cup {g}, MaxTokens)
      BY <2>2, <3>2, LimitsAreNumbers, FitsMore
    <3> QED
      BY <3>1, <3>3
<1> QED
  BY <1>2, <1>3 DEF O!IssueGrant

LEMMA LimitsStep ==
    ASSUME BrokerInv, BrokerLimits, O!Next
    PROVE  BrokerLimits'
<1> USE LimitsAreNumbers
<1>0. stage \in [Authorizations -> {"new", "loading", "listed", "asked", "refused"}]
      /\ client \in [Authorizations -> Clients]
  BY DEF BrokerInv, BrokerTypes
<1>00. /\ IsFiniteSet(Loading) /\ Cardinality(Loading) \in Nat /\ downloads = Cardinality(Loading)
       /\ Cardinality(Loading) <= MaxDownloads
  BY FS_CardinalityType DEF BrokerLimits, Fits
<1>1. ASSUME UNCHANGED <<stage, downloads>>
      PROVE  Fits(Loading, MaxDownloads)' /\ downloads' = Cardinality(Loading')
  <2>1. Loading' = Loading
    BY <1>1 DEF Loading
  <2> QED
    BY <1>1, <2>1 DEF BrokerLimits, Fits
<1>2. ASSUME NEW r \in Authorizations, O!Begin(r)
      PROVE  BrokerLimits'
  <2>1. UNCHANGED <<tickets, codes, access, refresh, documents, approved>> /\ stage[r] = "new"
    BY <1>2 DEF O!Begin
  <2>2. CASE UNCHANGED downloads /\ \E l \in {"listed", "refused"} : stage' = [stage EXCEPT ![r] = l]
    <3>1. Loading' = Loading
      BY <1>0, <2>1, <2>2 DEF Loading
    <3> QED
      BY <2>1, <2>2, <3>1 DEF BrokerLimits, Fits
  <2>3. CASE ~ (downloads >= MaxDownloads) /\ downloads' = downloads + 1
             /\ stage' = [stage EXCEPT ![r] = "loading"]
    <3>1. Loading' = Loading \cup {r} /\ r \notin Loading
      BY <1>0, <2>1, <2>3 DEF Loading
    <3>2. Cardinality(Loading) < MaxDownloads
      BY <1>00, <2>3
    <3>3. Fits(Loading', MaxDownloads)
      BY <1>00, <3>1, <3>2, FitsMore
    <3>4. Cardinality(Loading') = Cardinality(Loading) + 1
      BY <1>00, <3>1, FS_AddElement
    <3> QED
      BY <1>00, <2>1, <2>3, <3>3, <3>4 DEF BrokerLimits, Fits
  <2> QED
    BY <1>2, <2>2, <2>3 DEF O!Begin
<1>3. ASSUME NEW r \in Authorizations, O!Loaded(r) \/ O!LoadFails(r)
      PROVE  BrokerLimits'
  <2>1. /\ UNCHANGED <<tickets, codes, access, refresh, approved>> /\ stage[r] = "loading"
        /\ downloads' = downloads - 1
        /\ \E l \in {"listed", "refused"} : stage' = [stage EXCEPT ![r] = l]
    BY <1>3 DEF O!Loaded, O!LoadFails
  <2>2. Loading' = Loading \ {r} /\ r \in Loading
    BY <1>0, <2>1 DEF Loading
  <2>3. Fits(Loading', MaxDownloads)
    BY <2>2, FitsLess DEF BrokerLimits
  <2>4. Cardinality(Loading') = Cardinality(Loading) - 1
    BY <1>00, <2>2, FS_RemoveElement
  <2>5. documents' \subseteq Clients /\ Fits(documents', MaxPending)
    <3>1. CASE UNCHANGED documents
      BY <3>1 DEF BrokerLimits
    <3>2. CASE O!Cardinality(documents) < MaxPending /\ documents' = documents \cup {client[r]}
      <4>1. Cardinality(documents) < MaxPending /\ IsFiniteSet(documents)
        BY <3>2, SameCount DEF BrokerLimits, Fits
      <4> QED
        BY <1>0, <3>2, <4>1, FitsMore DEF BrokerLimits
    <3> QED
      BY <1>3, <3>1, <3>2 DEF O!Loaded, O!LoadFails
  <2> QED
    BY <1>00, <2>1, <2>3, <2>4, <2>5 DEF BrokerLimits, Fits
<1>4. ASSUME NEW r \in Authorizations, O!Ticket(r)
      PROVE  BrokerLimits'
  <2>1. /\ UNCHANGED <<codes, access, refresh, documents, downloads, approved>>
        /\ stage[r] = "listed"
        /\ \E l \in {"asked", "refused"} : stage' = [stage EXCEPT ![r] = l]
    BY <1>4 DEF O!Ticket
  <2>2. Loading' = Loading
    BY <1>0, <2>1 DEF Loading
  <2>3. Fits(tickets', MaxPending)
    <3>1. CASE UNCHANGED tickets
      BY <3>1 DEF BrokerLimits
    <3>2. CASE O!Cardinality(tickets) < MaxPending /\ tickets' = tickets \cup {r}
      <4>1. Cardinality(tickets) < MaxPending /\ IsFiniteSet(tickets)
        BY <3>2, SameCount DEF BrokerLimits, Fits
      <4> QED
        BY <3>2, <4>1, FitsMore
    <3> QED
      BY <1>4, <3>1, <3>2 DEF O!Ticket
  <2> QED
    BY <2>1, <2>2, <2>3 DEF BrokerLimits, Fits
<1>5. ASSUME /\ tickets' \subseteq tickets /\ codes' \subseteq codes
             /\ access' \subseteq access /\ refresh' \subseteq refresh
             /\ documents' \subseteq documents /\ UNCHANGED <<stage, downloads, approved>>
      PROVE  BrokerLimits'
  <2>1. /\ Fits(tickets', MaxPending) /\ Fits(codes', MaxPending)
        /\ Fits(access', MaxTokens) /\ Fits(refresh', MaxTokens) /\ Fits(documents', MaxPending)
    BY <1>5, FitsLess DEF BrokerLimits
  <2> QED
    BY <1>1, <1>5, <2>1 DEF BrokerLimits, Fits
<1>6. ASSUME NEW r \in Authorizations, O!Approve(r)
      PROVE  BrokerLimits'
  <2>1. /\ tickets' = tickets \ {r} /\ codes' = codes \cup {r} /\ approved' = approved \cup {r}
        /\ O!Cardinality(codes) < MaxPending
        /\ UNCHANGED <<stage, access, refresh, documents, downloads>>
    BY <1>6 DEF O!Approve
  <2>2. Fits(tickets', MaxPending)
    BY <2>1, FitsLess DEF BrokerLimits
  <2>3. Cardinality(codes) < MaxPending /\ IsFiniteSet(codes)
    BY <2>1, SameCount DEF BrokerLimits, Fits
  <2>4. Fits(codes', MaxPending)
    BY <2>1, <2>3, FitsMore
  <2> QED
    BY <1>1, <2>1, <2>2, <2>4 DEF BrokerLimits, Fits
<1>7. ASSUME NEW r, NEW c, NEW left \in SUBSET refresh, O!IssueGrant(r, c, left),
             codes' \subseteq codes, UNCHANGED <<stage, tickets, documents, downloads, approved>>
      PROVE  BrokerLimits'
  <2>1. Fits(codes', MaxPending)
    BY <1>7, FitsLess DEF BrokerLimits
  <2> QED
    BY <1>1, <1>7, <2>1, IssuedFits DEF BrokerLimits, Fits
<1>8. ASSUME NEW r \in Authorizations, NEW c \in Clients, NEW matches \in BOOLEAN,
             O!Exchange(r, c, matches)
      PROVE  BrokerLimits'
  BY <1>5, <1>7, <1>8 DEF O!Exchange
<1>9. ASSUME NEW g \in refresh, NEW c \in Clients, O!Refresh(g, c)
      PROVE  BrokerLimits'
  BY <1>5, <1>7, <1>9 DEF O!Refresh
<1>10. ASSUME O!Expire \/ \E r \in Authorizations : O!Deny(r)
       PROVE  BrokerLimits'
  BY <1>5, <1>10 DEF O!Expire, O!Deny
<1>11. ASSUME O!Restart
       PROVE  BrokerLimits'
  <2>1. Loading' = {}
    BY <1>11 DEF O!Restart, Loading
  <2>2. /\ tickets' = {} /\ codes' = {} /\ access' = {} /\ refresh' = {}
        /\ documents' = {} /\ downloads' = 0 /\ UNCHANGED approved
    BY <1>11 DEF O!Restart
  <2>3. \A m \in Nat : Fits({}, m)
    BY FS_EmptySet DEF Fits
  <2> QED
    BY <2>1, <2>2, <2>3, FS_EmptySet DEF BrokerLimits, Fits
<1> QED
  BY <1>2, <1>3, <1>4, <1>6, <1>8, <1>9, <1>10, <1>11 DEF O!Next

LEMMA BrokerTypeOK ==
    ASSUME BrokerInv, BrokerLimits
    PROVE  O!TypeOK
<1>1. downloads \in 0 .. MaxDownloads /\ downloads = Cardinality(Loading)
  BY LimitsAreNumbers, FS_CardinalityType DEF BrokerLimits, Fits
<1> QED
  BY <1>1, SameCount DEF BrokerInv, BrokerTypes, BrokerLimits, Fits, Loading, O!TypeOK

-----------------------------------------------------------------------------
(* The log.                                                                *)

In(p) == L!ToSet(file[p])

LogTypes ==
    /\ file \in [L!Places -> Seq(Nat)]
    /\ moving \in L!Places
    /\ next \in Nat /\ logged \subseteq Nat

\* The next record is newer than all there are.
NextIsNewest ==
    /\ \A x \in logged : x < next
    /\ \A p \in L!Places : \A x \in In(p) : x < next

\* Only the oldest file is ever written over: the place that is filled next is
\* the one that was just emptied.
PlaceIsFree == writer = "rotating" /\ moving < Files - 1 => file[moving] = <<>>

LogInv == LogTypes /\ NextIsNewest /\ PlaceIsFree /\ L!NewestKept

LEMMA LogBounds ==
    Files \in Nat /\ Files > 1 /\ Limit \in Nat /\ Limit > 0 /\ MaxRecords \in Nat
  BY BoundsAssumption

LEMMA EmptyFile == L!ToSet(<<>>) = {}
  BY DEF L!ToSet

LEMMA AppendedFile ==
    ASSUME NEW s \in Seq(Nat), NEW n \in Nat
    PROVE  L!ToSet(Append(s, n)) = L!ToSet(s) \cup {n}
<1>1. /\ DOMAIN s = 1 .. Len(s) /\ Len(s) \in Nat
      /\ DOMAIN Append(s, n) = 1 .. Len(s) + 1
      /\ \A i \in 1 .. Len(s) : Append(s, n)[i] = s[i]
      /\ Append(s, n)[Len(s) + 1] = n
  OBVIOUS
<1>2. 1 .. Len(s) + 1 = (1 .. Len(s)) \cup {Len(s) + 1}
  BY <1>1
<1> QED
  BY <1>1, <1>2, Zenon DEF L!ToSet

\* NewestKept, in terms of what is at a place.
LEMMA NewestKeptMeans ==
    L!NewestKept <=>
        /\ \A p, q \in L!Places : \A x \in In(p), y \in In(q) : p > q => x < y
        /\ \A p \in L!Places : \A x \in In(p) :
               \A y \in logged : (\A q \in L!Places : y \notin In(q)) => y < x
  BY DEF L!NewestKept, L!Kept, In

LEMMA LogInit ==
    ASSUME L!Init
    PROVE  LogInv
<1>1. \A p \in L!Places : In(p) = {}
  BY EmptyFile DEF L!Init, In
<1>2. LogTypes
  BY LogBounds DEF L!Init, LogTypes, L!Places
<1> QED
  BY <1>1, <1>2, NewestKeptMeans DEF L!Init, LogInv, NextIsNewest, PlaceIsFree

\* A step that moves no record.
LEMMA LogRests ==
    ASSUME LogInv, UNCHANGED <<file, logged>>, next' \in {next, next + 1},
           moving' \in L!Places, writer' = "rotating" => moving' = Files - 1
    PROVE  LogInv'
<1>1. L!NewestKept'
  BY DEF LogInv, L!NewestKept, L!Kept, L!ToSet
<1>2. LogTypes' /\ PlaceIsFree'
  <2>1. /\ UNCHANGED file /\ file \in [L!Places -> Seq(Nat)]
        /\ next' \in Nat /\ logged' \subseteq Nat
    BY DEF LogInv, LogTypes
  <2> QED
    BY <2>1, LogBounds DEF LogTypes, PlaceIsFree, L!Places
<1>3. \A p \in L!Places : In(p)' = In(p) /\ In(p) \subseteq Nat
  BY DEF LogInv, LogTypes, In, L!ToSet
<1>4. next \in Nat /\ logged \subseteq Nat
  BY DEF LogInv, LogTypes
<1>5. NextIsNewest'
  BY <1>3, <1>4 DEF LogInv, NextIsNewest
<1> QED
  BY <1>1, <1>2, <1>5 DEF LogInv

LEMMA LogAppends ==
    ASSUME LogInv, L!AppendRecord, moving' = moving, writer' = "open"
    PROVE  LogInv'
<1>1. 0 \in L!Places /\ file \in [L!Places -> Seq(Nat)] /\ next \in Nat /\ logged \subseteq Nat
  BY LogBounds DEF LogInv, LogTypes, L!Places
<1>2. /\ In(0)' = In(0) \cup {next}
      /\ \A p \in L!Places \ {0} : In(p)' = In(p)
  BY <1>1, AppendedFile DEF L!AppendRecord, In
<1>3. LogTypes' /\ PlaceIsFree'
  BY <1>1 DEF LogInv, LogTypes, PlaceIsFree, L!AppendRecord
<1>4. \A p \in L!Places : In(p) \subseteq Nat /\ p >= 0
  BY <1>1 DEF In, L!ToSet, L!Places
<1>5. next' = next + 1 /\ logged' = logged \cup {next}
  BY DEF L!AppendRecord
<1>6. NextIsNewest'
  BY <1>1, <1>2, <1>4, <1>5 DEF LogInv, NextIsNewest
<1>7. ASSUME NEW p \in L!Places, NEW q \in L!Places, NEW x \in In(p)', NEW y \in In(q)', p > q
      PROVE  x < y
  <2>1. p # 0 /\ x \in In(p)
    BY <1>2, <1>4, <1>7, <1>1 DEF L!Places
  <2>2. x < next
    BY <2>1 DEF LogInv, NextIsNewest
  <2>3. y = next \/ y \in In(q)
    BY <1>2
  <2> QED
    BY <1>7, <2>1, <2>2, <2>3, NewestKeptMeans DEF LogInv
<1>8. ASSUME NEW p \in L!Places, NEW x \in In(p)', NEW y \in logged',
             \A q \in L!Places : y \notin In(q)'
      PROVE  y < x
  <2>1. y \in logged /\ \A q \in L!Places : y \notin In(q)
    BY <1>1, <1>2, <1>5, <1>8
  <2>2. x = next \/ x \in In(p)
    BY <1>2
  <2> QED
    BY <2>1, <2>2, NewestKeptMeans DEF LogInv, NextIsNewest
<1>9. L!NewestKept'
  BY <1>7, <1>8 DEF L!NewestKept, L!Kept, In
<1> QED
  BY <1>3, <1>6, <1>9 DEF LogInv

LEMMA LogMoves ==
    ASSUME LogInv, L!Move
    PROVE  LogInv'
<1>1. PICK to \in L!Places, from \in L!Places : moving = to /\ moving' = from /\ to = from + 1
  <2>1. moving \in L!Places /\ moving - 1 \in L!Places /\ moving' = moving - 1
    BY LogBounds DEF LogInv, LogTypes, L!Places, L!Move
  <2>2. moving = (moving - 1) + 1
    BY <2>1 DEF L!Places
  <2> QED
    BY <2>1, <2>2
<1>0. /\ Files \in Nat /\ Files - 1 \in L!Places
      /\ \A p \in L!Places : p \in Nat /\ p <= Files - 1
  BY LogBounds DEF L!Places
<1>2. /\ writer = "rotating" /\ UNCHANGED <<writer, next, logged>>
      /\ file' = IF file[from] = <<>> THEN file
                 ELSE [file EXCEPT ![to] = file[from], ![from] = <<>>]
  <2>1. moving - 1 = from
    BY <1>0, <1>1
  <2> QED
    BY <1>1, <2>1 DEF L!Move, L!RenameTo
<1>3. file \in [L!Places -> Seq(Nat)]
  BY DEF LogInv, LogTypes
<1>4. CASE file[from] = <<>>
  <2>1. file' = file
    BY <1>2, <1>4
  <2>0. UNCHANGED <<file, logged>>
    BY <1>2, <2>1
  <2>2. L!NewestKept' /\ NextIsNewest'
    <3>1. L!NewestKept'
      BY <2>0 DEF LogInv, L!NewestKept, L!Kept, L!ToSet
    <3>2. \A p \in L!Places : In(p)' = In(p)
      BY <2>1 DEF In
    <3> QED
      BY <1>2, <3>1, <3>2 DEF LogInv, NextIsNewest
  <2>3. LogTypes' /\ PlaceIsFree'
    BY <1>0, <1>1, <1>2, <1>4, <2>1 DEF LogInv, LogTypes, PlaceIsFree
  <2> QED
    BY <2>2, <2>3 DEF LogInv
<1>5. CASE file[from] # <<>>
  <2>1. /\ file' \in [L!Places -> Seq(Nat)]
        /\ file'[to] = file[from] /\ file'[from] = <<>>
        /\ \A p \in L!Places \ {from, to} : file'[p] = file[p]
    <3>1. from # to /\ file[from] \in Seq(Nat) /\ <<>> \in Seq(Nat)
      BY <1>0, <1>1, <1>3
    <3> QED
      BY <1>0, <1>1, <1>2, <1>3, <1>5, <3>1
  <2>2. /\ In(to)' = In(from) /\ In(from)' = {}
        /\ \A p \in L!Places \ {from, to} : In(p)' = In(p)
    BY <1>0, <1>1, <2>1, EmptyFile DEF In
  <2>3. to # Files - 1 => In(to) = {}
    <3>1. to # Files - 1 => to < Files - 1
      BY <1>0, <1>1
    <3> QED
      BY <1>1, <1>2, <3>1, EmptyFile DEF LogInv, PlaceIsFree, In
  <2>4. LogTypes' /\ PlaceIsFree'
    BY <1>0, <1>1, <1>2, <2>1 DEF LogInv, LogTypes, PlaceIsFree
  <2>5. NextIsNewest'
    <3>1. \A p \in L!Places : \A x \in In(p)' : \E q \in L!Places : x \in In(q)
      BY <1>0, <1>1, <2>2
    <3> QED
      BY <1>2, <3>1 DEF LogInv, NextIsNewest
  <2>6. \A p \in L!Places : In(p) \subseteq Nat
    BY <1>3 DEF In, L!ToSet
  <2>7. ASSUME NEW p \in L!Places, NEW q \in L!Places, NEW x \in In(p)', NEW y \in In(q)', p > q
        PROVE  x < y
    <3>1. p # from /\ q # from
      BY <2>2
    <3>2. PICK P0 \in L!Places : x \in In(P0) /\ P0 = IF p = to THEN from ELSE p
      BY <1>0, <1>1, <2>2, <3>1
    <3>3. PICK Q0 \in L!Places : y \in In(Q0) /\ Q0 = IF q = to THEN from ELSE q
      BY <1>0, <1>1, <2>2, <3>1
    <3>4. P0 > Q0
      BY <1>0, <1>1, <2>7, <3>1, <3>2, <3>3
    <3> QED
      BY <3>2, <3>3, <3>4, NewestKeptMeans DEF LogInv
  <2>8. ASSUME NEW p \in L!Places, NEW x \in In(p)', NEW y \in logged',
               \A q \in L!Places : y \notin In(q)'
        PROVE  y < x
    <3>1. p # from
      BY <2>2
    <3>2. PICK P0 \in L!Places : x \in In(P0) /\ P0 = IF p = to THEN from ELSE p
      BY <1>0, <1>1, <2>2, <3>1
    <3>3. CASE \A q \in L!Places : y \notin In(q)
      BY <1>2, <3>2, <3>3, NewestKeptMeans DEF LogInv
    <3>4. CASE \E q \in L!Places : y \in In(q)
      <4>1. PICK q \in L!Places : y \in In(q)
        BY <3>4
      <4>2. q = to
        BY <1>0, <1>1, <2>2, <2>8, <4>1
      <4>3. q = Files - 1 /\ P0 # q
        BY <1>0, <1>1, <2>3, <3>2, <4>1, <4>2
      <4>4. q > P0
        BY <1>0, <1>1, <4>3
      <4> QED
        BY <3>2, <4>1, <4>4, NewestKeptMeans DEF LogInv
    <3> QED
      BY <3>3, <3>4
  <2>9. L!NewestKept'
    BY <2>7, <2>8 DEF L!NewestKept, L!Kept, In
  <2> QED
    BY <2>4, <2>5, <2>9 DEF LogInv
<1> QED
  BY <1>4, <1>5

LEMMA LogStep ==
    ASSUME LogInv, L!Next
    PROVE  LogInv'
<1>1. CASE L!Write
  <2>1. L!AppendRecord /\ moving' = moving /\ writer' = "open"
    BY <1>1 DEF L!Write
  <2> QED
    BY <2>1, LogAppends
<1>2. CASE L!Reopen
  <2>1. L!AppendRecord /\ moving' = moving /\ writer' = "open"
    BY <1>2 DEF L!Reopen
  <2> QED
    BY <2>1, LogAppends
<1>3. CASE L!Move
  BY <1>3, LogMoves
<1>4. CASE L!BeginRotation \/ L!RotationFails \/ L!WriteClosed \/ L!Restart
  <2>1. moving \in L!Places /\ 0 \in L!Places /\ Files - 1 \in L!Places
    BY LogBounds DEF LogInv, LogTypes, L!Places
  <2>2. /\ UNCHANGED <<file, logged>> /\ next' \in {next, next + 1} /\ moving' \in L!Places
        /\ writer' = "rotating" => moving' = Files - 1
    BY <1>4, <2>1 DEF L!BeginRotation, L!RotationFails, L!WriteClosed, L!Restart
  <2> QED
    BY <2>2, LogRests
<1> QED
  BY <1>1, <1>2, <1>3, <1>4 DEF L!Next

\* The limits of the files.  The file that is opened again is empty, because its
\* records were moved away, and it has room for the record that is waiting.
LogFits ==
    /\ \A p \in L!Places : Len(file[p]) <= Limit
    /\ writer \in {"open", "rotating", "closed"}
    /\ writer = "open" => bytes = Len(file[0])
    /\ writer = "rotating" => next <= MaxRecords
    /\ next \in 1 .. MaxRecords + 1
    /\ logged \subseteq 1 .. MaxRecords

LEMMA LogFitsInit ==
    ASSUME L!Init
    PROVE  LogFits
<1>1. 0 \in L!Places
  BY LogBounds DEF L!Places
<1>2. 1 \in 1 .. MaxRecords + 1
  BY LogBounds
<1>3. \A p \in L!Places : Len(file[p]) <= Limit
  BY LogBounds DEF L!Init
<1> QED
  BY <1>1, <1>2, <1>3 DEF L!Init, LogFits

LEMMA LogFitsStep ==
    ASSUME LogInv, LogFits, L!Next
    PROVE  LogFits'
<1>1. /\ 0 \in L!Places /\ 0 < Files - 1
      /\ Limit \in Nat /\ Limit > 0 /\ MaxRecords \in Nat
  BY LogBounds DEF L!Places
<1>2. file \in [L!Places -> Seq(Nat)] /\ next \in 1 .. MaxRecords + 1 /\ logged \subseteq 1 .. MaxRecords
  BY DEF LogInv, LogTypes, LogFits
<1>3. \A p \in L!Places : Len(file[p]) \in Nat /\ Len(file[p]) <= Limit
  BY <1>2 DEF LogFits
<1>4. ASSUME L!AppendRecord, writer' = "open", next <= MaxRecords, Len(file[0]) < Limit
      PROVE  LogFits'
  <2>1. /\ file' = [file EXCEPT ![0] = Append(@, next)] /\ bytes' = Len(file[0]) + 1
        /\ next' = next + 1 /\ logged' = logged \cup {next}
    BY <1>4 DEF L!AppendRecord
  <2>2. /\ Len(file'[0]) = Len(file[0]) + 1
        /\ \A p \in L!Places \ {0} : file'[p] = file[p]
    BY <1>1, <1>2, <2>1
  <2>3. \A p \in L!Places : Len(file'[p]) <= Limit
    BY <1>1, <1>3, <1>4, <2>2
  <2>4. next' \in 1 .. MaxRecords + 1 /\ logged' \subseteq 1 .. MaxRecords
    BY <1>1, <1>2, <1>4, <2>1
  <2> QED
    BY <1>4, <2>1, <2>2, <2>3, <2>4 DEF LogFits
<1>5. CASE L!Write
  <2>1. L!AppendRecord /\ writer = "open" /\ writer' = "open" /\ bytes < Limit /\ next <= MaxRecords
    BY <1>5 DEF L!Write
  <2> QED
    BY <1>4, <2>1 DEF LogFits
<1>6. CASE L!Reopen
  <2>1. L!AppendRecord /\ writer = "rotating" /\ writer' = "open" /\ moving = 0
    BY <1>6 DEF L!Reopen
  <2>2. file[0] = <<>>
    BY <1>1, <2>1 DEF LogInv, PlaceIsFree
  <2> QED
    BY <1>1, <1>4, <2>1, <2>2 DEF LogFits
<1>7. CASE L!Move
  <2>1. moving \in L!Places /\ moving - 1 \in L!Places
    BY <1>7, LogBounds DEF LogInv, LogTypes, L!Places, L!Move
  <2>2. /\ writer = "rotating" /\ UNCHANGED <<writer, next, logged>>
        /\ file' = IF file[moving - 1] = <<>> THEN file
                   ELSE [file EXCEPT ![moving] = file[moving - 1], ![moving - 1] = <<>>]
    BY <1>7 DEF L!Move, L!RenameTo
  <2>3. \A p \in L!Places : file'[p] \in {file[p], file[moving - 1], <<>>}
    BY <1>2, <2>1, <2>2
  <2>4. Len(<<>>) <= Limit
    BY <1>1
  <2>5. \A p \in L!Places : Len(file'[p]) <= Limit
    BY <1>3, <2>1, <2>3, <2>4
  <2> QED
    BY <2>2, <2>5 DEF LogFits
<1>8. CASE L!BeginRotation
  BY <1>8 DEF L!BeginRotation, LogFits
<1>9. CASE L!RotationFails \/ L!WriteClosed
  <2>1. UNCHANGED <<file, logged>> /\ writer' = "closed" /\ next' = next + 1 /\ next <= MaxRecords
    BY <1>9 DEF L!RotationFails, L!WriteClosed, LogFits
  <2>2. next' \in 1 .. MaxRecords + 1
    BY <1>1, <1>2, <2>1
  <2> QED
    BY <2>1, <2>2 DEF LogFits
<1>10. CASE L!Restart
  BY <1>10 DEF L!Restart, LogFits
<1> QED
  BY <1>5, <1>6, <1>7, <1>8, <1>9, <1>10 DEF L!Next

LEMMA LogTypeOK ==
    ASSUME LogInv, LogFits
    PROVE  L!TypeOK
  BY DEF LogInv, LogTypes, LogFits, L!TypeOK

-----------------------------------------------------------------------------
(* The preview cache: the order of its entries.                            *)

\* A set of numbers has a smallest one.
LEMMA Smallest ==
    ASSUME NEW S \in SUBSET Nat, S # {}
    PROVE  \E m \in S : \A k \in S : m <= k
<1> DEFINE R == OpToRel(<, Nat)
<1>1. IsWellFoundedOn(R, Nat)
  BY NatLessThanWellFounded
<1>2. \A x, y \in Nat : <<x, y>> \in R <=> x < y
  BY DEF OpToRel
<1> HIDE DEF R
<1>3. PICK m \in S : \A k \in S : ~ (<<k, m>> \in R)
  BY <1>1, WFMin
<1>4. \A k \in S : ~ (k < m)
  BY <1>2, <1>3
<1> QED
  BY <1>4

\* Induction, over the set of the numbers for which a formula holds.
LEMMA CountingUp ==
    ASSUME NEW n \in Nat, NEW S, 0 \in S, \A i \in 1 .. n : i - 1 \in S => i \in S
    PROVE  0 .. n \subseteq S
<1> DEFINE Rest == (0 .. n) \ S
<1>1. SUFFICES ASSUME Rest # {} PROVE FALSE
  OBVIOUS
<1>2. PICK m \in Rest : \A k \in Rest : m <= k
  <2>1. Rest \in SUBSET Nat
    OBVIOUS
  <2> HIDE DEF Rest
  <2> QED
    BY <1>1, <2>1, Smallest
<1>3. m # 0 /\ m \in 1 .. n
  BY <1>2
<1>4. m - 1 \in 0 .. n /\ m - 1 \notin Rest
  BY <1>2, <1>3
<1> QED
  BY <1>2, <1>3, <1>4

Increasing(s) == \A i, j \in 1 .. Len(s) : i < j => s[i] < s[j]

\* The loop of Held, as far as place n.
Holding(f, s, rs, n) ==
    f = [i \in 0 .. n |->
            IF i = 0 THEN <<>>
            ELSE IF s[i] \in rs THEN Append(f[i - 1], s[i]) ELSE f[i - 1]]

LEMMA HoldingExists ==
    ASSUME NEW s, NEW rs, NEW n \in Nat
    PROVE  \E f : Holding(f, s, rs, n)
<1> DEFINE S == {k \in 0 .. n : \E f : Holding(f, s, rs, k)}
<1>1. 0 \in S
  <2>1. Holding([i \in 0 .. 0 |-> <<>>], s, rs, 0)
    BY DEF Holding
  <2> QED
    BY <2>1
<1>2. ASSUME NEW k \in 1 .. n, k - 1 \in S
      PROVE  k \in S
  <2>1. PICK f : Holding(f, s, rs, k - 1)
    BY <1>2
  <2> DEFINE last == IF s[k] \in rs THEN Append(f[k - 1], s[k]) ELSE f[k - 1]
             g == [i \in 0 .. k |-> IF i = k THEN last ELSE f[i]]
  <2>2. \A i \in 0 .. k : i # k => i \in 0 .. k - 1
    OBVIOUS
  <2>3. \A i \in 0 .. k : i # 0 => i - 1 \in 0 .. k /\ i - 1 # k /\ g[i - 1] = f[i - 1]
    OBVIOUS
  <2>4. \A i \in 0 .. k - 1 : f[i] = IF i = 0 THEN <<>>
            ELSE IF s[i] \in rs THEN Append(f[i - 1], s[i]) ELSE f[i - 1]
    BY <2>1 DEF Holding
  <2>5. \A i \in 0 .. k : g[i] = IF i = 0 THEN <<>>
            ELSE IF s[i] \in rs THEN Append(g[i - 1], s[i]) ELSE g[i - 1]
    BY <2>2, <2>3, <2>4
  <2>6. g = [i \in 0 .. k |-> g[i]]
    OBVIOUS
  <2> HIDE DEF g
  <2>7. Holding(g, s, rs, k)
    BY <2>5, <2>6 DEF Holding
  <2> QED
    BY <2>7
<1>3. 0 .. n \subseteq S
  <2> HIDE DEF S
  <2> QED
    BY <1>1, <1>2, CountingUp
<1> QED
  BY <1>3

\* What has been taken over at place i: a list of what is there, in its order.
Taken(q, T, s, rs, i) ==
    /\ q \in Seq(T) /\ Increasing(q)
    /\ P!ToSet(q) = {s[j] : j \in 1 .. i} \cap rs

LEMMA HoldingTakes ==
    ASSUME NEW T \in SUBSET Nat, NEW s \in Seq(T), Increasing(s), NEW rs,
           NEW f, Holding(f, s, rs, Len(s))
    PROVE  \A i \in 0 .. Len(s) : Taken(f[i], T, s, rs, i)
<1> DEFINE n == Len(s)
           S == {i \in 0 .. n : Taken(f[i], T, s, rs, i)}
<1>0. n \in Nat /\ \A i \in 1 .. n : s[i] \in T
  OBVIOUS
<1>1. 0 \in S
  <2>1. f[0] = <<>> /\ 0 \in 0 .. n
    BY <1>0 DEF Holding
  <2>2. P!ToSet(<<>>) = {} /\ Increasing(<<>>) /\ <<>> \in Seq(T)
    BY DEF P!ToSet, Increasing
  <2> QED
    <3>1. {s[j] : j \in 1 .. 0} = {}
      OBVIOUS
    <3> QED
      BY <2>1, <2>2, <3>1 DEF Taken
<1>2. ASSUME NEW i \in 1 .. n, i - 1 \in S
      PROVE  i \in S
  <2> DEFINE q == f[i - 1]
             before == {s[j] : j \in 1 .. i - 1}
  <2>1. i \in 0 .. n /\ f[i] = IF s[i] \in rs THEN Append(q, s[i]) ELSE q
    <3>1. \A k \in 0 .. n : f[k] =
              IF k = 0 THEN <<>>
              ELSE IF s[k] \in rs THEN Append(f[k - 1], s[k]) ELSE f[k - 1]
      BY DEF Holding
    <3>2. i \in 0 .. n /\ i # 0
      BY <1>0
    <3> QED
      BY <3>1, <3>2
  <2>2. q \in Seq(T) /\ Increasing(q) /\ P!ToSet(q) = before \cap rs
    BY <1>2 DEF Taken
  <2>3. {s[j] : j \in 1 .. i} = before \cup {s[i]}
    <3>1. 1 .. i = (1 .. i - 1) \cup {i}
      BY <1>0
    <3> QED
      BY <3>1
  <2>4. \A x \in before : x < s[i]
    BY <1>0 DEF Increasing
  <2> HIDE DEF q, before
  <2>5. CASE s[i] \notin rs
    BY <2>1, <2>2, <2>3, <2>5 DEF Taken
  <2>6. CASE s[i] \in rs
    <3> DEFINE e == s[i]
    <3>1. e \in T
      BY <1>0
    <3> HIDE DEF e
    <3>2. /\ Append(q, e) \in Seq(T) /\ Len(q) \in Nat /\ Len(Append(q, e)) = Len(q) + 1
          /\ \A j \in 1 .. Len(q) : Append(q, e)[j] = q[j]
          /\ Append(q, e)[Len(q) + 1] = e
          /\ DOMAIN q = 1 .. Len(q) /\ DOMAIN Append(q, e) = 1 .. Len(q) + 1
      BY <2>2, <3>1
    <3>3. 1 .. Len(q) + 1 = (1 .. Len(q)) \cup {Len(q) + 1}
      BY <3>2
    <3>4. P!ToSet(Append(q, e)) = P!ToSet(q) \cup {e}
      <4>1. P!ToSet(Append(q, e)) = {Append(q, e)[j] : j \in (1 .. Len(q)) \cup {Len(q) + 1}}
        BY <3>2, <3>3 DEF P!ToSet
      <4>2. P!ToSet(q) = {Append(q, e)[j] : j \in 1 .. Len(q)}
        BY <3>2 DEF P!ToSet
      <4> QED
        BY <3>2, <4>1, <4>2
    <3>5. \A j \in 1 .. Len(q) : q[j] < e
      BY <2>2, <2>4, <3>2 DEF P!ToSet, e
    <3>6. Increasing(Append(q, e))
      BY <2>2, <3>2, <3>5 DEF Increasing
    <3> QED
      BY <2>1, <2>2, <2>3, <2>6, <3>2, <3>4, <3>6 DEF Taken, e
  <2> QED
    BY <2>5, <2>6
<1>3. 0 .. n \subseteq S
  <2> HIDE DEF S
  <2> QED
    BY <1>0, <1>1, <1>2, CountingUp
<1> QED
  BY <1>3

LEMMA HeldIsThere ==
    ASSUME NEW T \in SUBSET Nat, NEW s \in Seq(T), Increasing(s), NEW rs
    PROVE  /\ P!Held(s, rs) \in Seq(T) /\ Increasing(P!Held(s, rs))
           /\ P!ToSet(P!Held(s, rs)) = P!ToSet(s) \cap rs
<1>1. Len(s) \in Nat /\ DOMAIN s = 1 .. Len(s)
  OBVIOUS
<1> DEFINE f == CHOOSE f : Holding(f, s, rs, Len(s))
<1>2. Holding(f, s, rs, Len(s))
  <2>1. \E g : Holding(g, s, rs, Len(s))
    BY <1>1, HoldingExists
  <2> QED
    BY <2>1, Zenon
<1>3. P!Held(s, rs) = f[Len(s)]
  BY Zenon DEF P!Held, Holding
<1> HIDE DEF f
<1>4. Taken(f[Len(s)], T, s, rs, Len(s))
  BY <1>1, <1>2, HoldingTakes
<1>5. P!ToSet(s) = {s[j] : j \in 1 .. Len(s)}
  BY <1>1 DEF P!ToSet
<1> QED
  BY <1>3, <1>4, <1>5 DEF Taken

-----------------------------------------------------------------------------
(* The preview cache: its entries and the calls that render them.          *)

Shown == [Branches -> Nat]
Calls == [at : {"idle", "listing", "reading", "rendered"},
          list : Shown, view : Shown, todo : SUBSET Branches]

PreviewTypes ==
    /\ head \in moments /\ moments \subseteq P!Views
    /\ caller \in [Callers -> Calls]
    /\ entries \in [P!Revisions -> [cached : BOOLEAN, view : Shown]]
    /\ order \in Seq(P!Revisions)
    /\ revision \in 0 .. MaxRevisions

\* What a call has read so far belongs to its list, and the list to a moment.
ReadsItsList ==
    \A c \in Callers :
        /\ caller[c].at = "reading" =>
               /\ caller[c].list \in moments
               /\ \A b \in Branches \ caller[c].todo : caller[c].view[b] = caller[c].list[b]
        /\ caller[c].at = "rendered" => caller[c].view \in moments

\* The order is that of the revisions, which only grow; so the entry that makes
\* room has no second place further on.
OrderGrows == Increasing(order) /\ \A r \in P!ToSet(order) : r <= revision

CacheFits == IsFiniteSet(P!Cached) /\ Cardinality(P!Cached) <= MaxEntries

PreviewInv ==
    /\ PreviewTypes /\ ReadsItsList /\ OrderGrows /\ CacheFits
    /\ P!ViewIsOneMoment /\ P!OrderCovers

LEMMA CacheBounds ==
    MaxEntries \in Nat /\ MaxEntries > 0 /\ MaxRevisions \in Nat /\ MaxCommits \in Nat
  BY BoundsAssumption

LEMMA RevisionsAreNumbers ==
    P!Revisions \in SUBSET Nat /\ MaxRevisions \in Nat /\ MaxCommits \in Nat
  BY CacheBounds DEF P!Revisions

LEMMA SameCardinality ==
    ASSUME NEW S
    PROVE  P!Cardinality(S) = Cardinality(S)
  BY DEF Cardinality, P!Cardinality

LEMMA PreviewInit ==
    ASSUME P!Init
    PROVE  PreviewInv
<1> USE RevisionsAreNumbers
<1>1. P!Cached = {} /\ P!ToSet(order) = {}
  BY DEF P!Init, P!Cached, P!ToSet
<1>2. PreviewTypes
  <2>1. P!Unrendered \in Shown
    BY DEF P!Unrendered, Shown
  <2>2. P!Idle \in Calls
    BY <2>1 DEF P!Idle, Calls
  <2>3. head \in P!Views
    BY DEF P!Init, P!Views, P!States
  <2> QED
    BY <2>1, <2>2, <2>3 DEF P!Init, PreviewTypes
<1>3. ReadsItsList
  BY DEF P!Init, P!Idle, ReadsItsList
<1>4. OrderGrows
  BY <1>1 DEF P!Init, OrderGrows, Increasing
<1>5. CacheFits
  BY <1>1, FS_EmptySet, CacheBounds DEF CacheFits
<1>6. P!ViewIsOneMoment /\ P!OrderCovers
  BY <1>1 DEF P!ViewIsOneMoment, P!OrderCovers
<1> QED
  BY <1>2, <1>3, <1>4, <1>5, <1>6 DEF PreviewInv

\* The loop that makes room drops the oldest entry, when the cache is full.
LEMMA RoomIsMade ==
    ASSUME NEW o \in Seq(P!Revisions), Increasing(o),
           NEW cached \in SUBSET P!ToSet(o), IsFiniteSet(cached), Cardinality(cached) <= MaxEntries
    PROVE  /\ P!MakeRoom(o, cached) \in Seq(P!Revisions) /\ Increasing(P!MakeRoom(o, cached))
           /\ P!ToSet(P!MakeRoom(o, cached)) \subseteq P!ToSet(o)
           /\ Cardinality(cached \cap P!ToSet(P!MakeRoom(o, cached))) < MaxEntries
<1> DEFINE shorter == P!MakeRoom(o, cached)
           held == {i \in DOMAIN o : o[i] \in cached}
           first == CHOOSE i \in held : \A j \in held : i <= j
<1>1. /\ DOMAIN o = 1 .. Len(o) /\ Len(o) \in Nat /\ MaxEntries \in Nat /\ MaxEntries > 0
      /\ \A i \in 1 .. Len(o) : o[i] \in P!Revisions
      /\ Cardinality(cached) \in Nat
  BY CacheBounds, FS_CardinalityType
<1>2. shorter = IF Cardinality(cached) < MaxEntries THEN o ELSE SubSeq(o, first + 1, Len(o))
  BY SameCardinality DEF P!MakeRoom
<1>3. CASE Cardinality(cached) < MaxEntries
  <2>1. shorter = o
    BY <1>2, <1>3
  <2>2. cached \cap P!ToSet(o) = cached
    OBVIOUS
  <2> QED
    BY <1>3, <2>1, <2>2
<1>4. CASE ~ (Cardinality(cached) < MaxEntries)
  <2>1. cached # {}
    BY <1>1, <1>4, FS_EmptySet
  <2>2. held # {} /\ held \in SUBSET Nat
    BY <1>1, <2>1 DEF P!ToSet
  <2>3. first \in held /\ \A j \in held : first <= j
    <3>1. \E i \in held : \A j \in held : i <= j
      BY <2>2, Smallest
    <3> QED
      BY <3>1
  <2>4. first \in 1 .. Len(o) /\ o[first] \in cached
    BY <1>1, <2>3
  <2> HIDE DEF first, held
  <2>5. shorter = SubSeq(o, first + 1, Len(o))
    BY <1>2, <1>4
  <2>6. /\ shorter \in Seq(P!Revisions) /\ Len(shorter) = Len(o) - first
        /\ \A i \in 1 .. Len(shorter) : shorter[i] = o[first + i]
    <3>1. \A i \in first + 1 .. Len(o) : o[i] \in P!Revisions
      BY <1>1, <2>4
    <3>2. /\ shorter \in Seq(P!Revisions)
          /\ Len(shorter) = IF first + 1 <= Len(o) THEN Len(o) - (first + 1) + 1 ELSE 0
          /\ \A i \in 1 .. Len(o) - (first + 1) + 1 : shorter[i] = o[first + 1 + i - 1]
      BY <1>1, <2>4, <2>5, <3>1, SubSeqProperties
    <3>3. Len(shorter) = Len(o) - first /\ Len(o) - (first + 1) + 1 = Len(o) - first
      BY <1>1, <2>4, <3>2
    <3>4. \A i \in 1 .. Len(shorter) : first + 1 + i - 1 = first + i
      BY <1>1, <2>4, <3>3
    <3> QED
      BY <3>2, <3>3, <3>4
  <2>7. DOMAIN shorter = 1 .. Len(shorter) /\ Len(shorter) \in Nat
    BY <2>6
  <2> HIDE DEF shorter
  <2>8. \A i \in 1 .. Len(shorter) : first + i \in 1 .. Len(o) /\ first < first + i
    BY <1>1, <2>4, <2>6
  <2>9. Increasing(shorter)
    <3>1. ASSUME NEW i \in 1 .. Len(shorter), NEW j \in 1 .. Len(shorter), i < j
          PROVE  shorter[i] < shorter[j]
      <4>1. first + i < first + j
        BY <1>1, <2>4, <2>6, <3>1
      <4> QED
        BY <2>6, <2>8, <4>1 DEF Increasing
    <3> QED
      BY <3>1 DEF Increasing
  <2>10. P!ToSet(shorter) \subseteq P!ToSet(o) \ {o[first]}
    <3>1. ASSUME NEW i \in 1 .. Len(shorter)
          PROVE  shorter[i] \in P!ToSet(o) /\ shorter[i] # o[first]
      <4>1. shorter[i] = o[first + i] /\ o[first] < o[first + i]
        BY <2>4, <2>6, <2>8 DEF Increasing
      <4>2. o[first] \in Nat
        BY <1>1, <2>4, RevisionsAreNumbers
      <4> QED
        BY <1>1, <2>8, <4>1, <4>2 DEF P!ToSet
    <3> QED
      BY <2>7, <3>1 DEF P!ToSet
  <2>11. Cardinality(cached \cap P!ToSet(shorter)) < MaxEntries
    <3> DEFINE less == cached \ {o[first]}
               left == cached \cap P!ToSet(shorter)
    <3>1. IsFiniteSet(less) /\ Cardinality(less) = Cardinality(cached) - 1
      BY <2>4, FS_RemoveElement
    <3>2. left \in SUBSET less
      BY <2>10
    <3>3. Cardinality(left) <= Cardinality(less) /\ Cardinality(left) \in Nat
      BY <3>1, <3>2, FS_Subset, FS_CardinalityType
    <3> HIDE DEF less, left
    <3>4. Cardinality(left) < MaxEntries
      BY <1>1, <3>1, <3>3
    <3> QED
      BY <3>4 DEF left
  <2> QED
    BY <2>6, <2>9, <2>10, <2>11 DEF shorter
<1> QED
  BY <1>3, <1>4

\* A step that leaves the cache alone, and every moment there was.
LEMMA CacheRests ==
    ASSUME PreviewInv, UNCHANGED <<entries, order, revision>>, moments \subseteq moments',
           PreviewTypes', ReadsItsList'
    PROVE  PreviewInv'
<1>1. P!Cached' = P!Cached
  BY DEF P!Cached
<1>2. OrderGrows' /\ CacheFits' /\ P!OrderCovers'
  BY <1>1 DEF PreviewInv, OrderGrows, Increasing, CacheFits, P!OrderCovers, P!ToSet
<1>3. P!ViewIsOneMoment'
  BY <1>1 DEF PreviewInv, P!ViewIsOneMoment
<1> QED
  BY <1>2, <1>3 DEF PreviewInv

\* The steps of one call that do not reach the cache.
LEMMA CallMoves ==
    ASSUME PreviewInv, NEW c \in Callers, NEW new \in Calls,
           caller' = [caller EXCEPT ![c] = new],
           UNCHANGED <<head, moments, entries, order, revision>>,
           new.at = "reading" =>
               new.list \in moments /\ \A b \in Branches \ new.todo : new.view[b] = new.list[b],
           new.at = "rendered" => new.view \in moments
    PROVE  PreviewInv'
<1>1. PreviewTypes'
  BY DEF PreviewInv, PreviewTypes
<1>2. ReadsItsList'
  BY DEF PreviewInv, PreviewTypes, ReadsItsList
<1> QED
  BY <1>1, <1>2, CacheRests

LEMMA CallStep ==
    ASSUME PreviewInv, NEW c \in Callers,
           P!Ask(c) \/ P!List(c) \/ P!Rendered(c) \/ P!RenderFails(c)
             \/ \E b \in Branches : P!Snapshot(c, b)
    PROVE  PreviewInv'
<1> DEFINE old == caller[c]
<1>1. /\ old \in Calls /\ head \in Shown /\ moments \subseteq Shown
      /\ caller \in [Callers -> Calls]
  BY RevisionsAreNumbers DEF PreviewInv, PreviewTypes, P!Views, P!States, Shown
<1>2. P!Idle \in Calls /\ P!Idle.at = "idle"
  BY RevisionsAreNumbers DEF P!Idle, P!Unrendered, Calls, Shown
<1>3. UNCHANGED <<head, moments, entries, order, revision>>
  BY DEF P!Ask, P!List, P!Rendered, P!RenderFails, P!Snapshot
<1>4. CASE P!Ask(c)
  <2> DEFINE new == [P!Idle EXCEPT !.at = "listing"]
  <2>1. new \in Calls /\ new.at = "listing"
    BY <1>2 DEF Calls
  <2>2. caller' = [caller EXCEPT ![c] = new]
    BY <1>4 DEF P!Ask
  <2> HIDE DEF new
  <2> QED
    BY <1>3, <2>1, <2>2, CallMoves
<1>5. CASE P!List(c)
  <2> DEFINE new == [old EXCEPT !.at = "reading", !.list = head, !.todo = Branches]
  <2>1. new \in Calls /\ new.at = "reading" /\ new.list = head /\ new.todo = Branches
    BY <1>1 DEF Calls
  <2>2. caller' = [caller EXCEPT ![c] = new]
    BY <1>1, <1>5 DEF P!List
  <2>3. head \in moments
    BY DEF PreviewInv, PreviewTypes
  <2> HIDE DEF new
  <2> QED
    BY <1>3, <2>1, <2>2, <2>3, CallMoves
<1>6. CASE P!Rendered(c)
  <2> DEFINE new == [old EXCEPT !.at = "rendered"]
  <2>1. new \in Calls /\ new.at = "rendered" /\ new.view = old.view
    BY <1>1 DEF Calls
  <2>2. caller' = [caller EXCEPT ![c] = new]
    BY <1>1, <1>6 DEF P!Rendered
  <2>3. old.list \in moments /\ \A b \in Branches : old.view[b] = old.list[b]
    BY <1>6 DEF P!Rendered, PreviewInv, ReadsItsList
  <2>4. old.view = old.list
    BY <1>1, <2>3 DEF Calls, Shown
  <2> HIDE DEF new
  <2> QED
    BY <1>3, <2>1, <2>2, <2>3, <2>4, CallMoves
<1>7. CASE P!RenderFails(c)
  BY <1>2, <1>3, <1>7, CallMoves DEF P!RenderFails
<1>8. CASE \E b \in Branches : P!Snapshot(c, b)
  <2>1. PICK b \in Branches : P!Snapshot(c, b)
    BY <1>8
  <2> DEFINE new == [old EXCEPT !.view[b] = old.list[b], !.todo = @ \ {b}]
  <2>2. /\ new \in Calls /\ new.at = old.at /\ new.list = old.list
        /\ new.todo = old.todo \ {b} /\ new.view = [old.view EXCEPT ![b] = old.list[b]]
    BY <1>1 DEF Calls, Shown
  <2>3. caller' = [caller EXCEPT ![c] = new]
    BY <1>1, <2>1 DEF P!Snapshot
  <2>4. /\ old.at = "reading" /\ old.list \in moments
        /\ \A x \in Branches \ old.todo : old.view[x] = old.list[x]
    BY <2>1 DEF P!Snapshot, PreviewInv, ReadsItsList
  <2>5. \A x \in Branches \ new.todo : new.view[x] = new.list[x]
    BY <1>1, <2>2, <2>4 DEF Calls, Shown
  <2> HIDE DEF new
  <2> QED
    BY <1>3, <2>2, <2>3, <2>4, <2>5, CallMoves
<1> QED
  BY <1>4, <1>5, <1>6, <1>7, <1>8

LEMMA CommitStep ==
    ASSUME PreviewInv, NEW b \in Branches, P!Commit(b)
    PROVE  PreviewInv'
<1>1. /\ head' = [head EXCEPT ![b] = @ + 1] /\ head[b] < MaxCommits
      /\ moments' = moments \cup {head'} /\ UNCHANGED <<caller, entries, order, revision>>
  BY DEF P!Commit
<1>2. head' \in P!Views
  BY <1>1, RevisionsAreNumbers DEF PreviewInv, PreviewTypes, P!Views, P!States
<1>3. PreviewTypes' /\ ReadsItsList'
  BY <1>1, <1>2 DEF PreviewInv, PreviewTypes, ReadsItsList
<1> QED
  BY <1>1, <1>3, CacheRests

\* What is left of the order after entries have gone covers what is left of the cache.
LEMMA PruneKeeps ==
    ASSUME PreviewInv, NEW gone \in SUBSET P!Cached
    PROVE  LET kept == P!Held(order, P!Cached \ gone)
           IN  /\ kept \in Seq(P!Revisions) /\ Increasing(kept)
               /\ P!ToSet(kept) = P!Cached \ gone
<1>1. order \in Seq(P!Revisions) /\ Increasing(order) /\ P!Cached \subseteq P!ToSet(order)
  BY DEF PreviewInv, PreviewTypes, OrderGrows, P!OrderCovers
<1>2. (P!Cached \ gone) = P!ToSet(order) \cap (P!Cached \ gone)
  BY <1>1
<1> QED
  BY <1>1, <1>2, HeldIsThere, RevisionsAreNumbers

LEMMA WindowStep ==
    ASSUME PreviewInv, NEW gone \in SUBSET P!Cached, P!ReadWindow(gone)
    PROVE  PreviewInv'
<1> DEFINE kept == P!Held(order, P!Cached \ gone)
<1>1. kept \in Seq(P!Revisions) /\ Increasing(kept) /\ P!ToSet(kept) = P!Cached \ gone
  BY PruneKeeps
<1>2. order' = kept /\ P!Uncache(gone) /\ UNCHANGED <<head, moments, caller, revision>>
  BY DEF P!ReadWindow, P!Prune
<1> HIDE DEF kept
<1>3. entries \in [P!Revisions -> [cached : BOOLEAN, view : Shown]]
  BY DEF PreviewInv, PreviewTypes
<1>4. /\ entries' \in [P!Revisions -> [cached : BOOLEAN, view : Shown]]
      /\ \A r \in P!Revisions : /\ entries'[r].view = entries[r].view
                                /\ entries'[r].cached <=> entries[r].cached /\ r \notin gone
  BY <1>2, <1>3 DEF P!Uncache
<1>5. P!Cached' = P!Cached \ gone
  BY <1>4 DEF P!Cached
<1>6. PreviewTypes' /\ ReadsItsList'
  BY <1>1, <1>2, <1>4 DEF PreviewInv, PreviewTypes, ReadsItsList
<1>7. OrderGrows' /\ P!OrderCovers'
  <2>1. P!ToSet(order)' = P!ToSet(kept)
    BY <1>2 DEF P!ToSet
  <2>2. Increasing(order)'
    BY <1>1, <1>2 DEF Increasing
  <2> QED
    BY <1>1, <1>2, <1>5, <2>1, <2>2 DEF PreviewInv, OrderGrows, P!OrderCovers
<1>8. CacheFits'
  <2>1. /\ IsFiniteSet(P!Cached \ gone) /\ Cardinality(P!Cached \ gone) \in Nat
        /\ Cardinality(P!Cached \ gone) <= Cardinality(P!Cached) /\ Cardinality(P!Cached) \in Nat
    BY FS_Subset, FS_CardinalityType DEF PreviewInv, CacheFits
  <2>2. Cardinality(P!Cached \ gone) <= MaxEntries
    BY <2>1, CacheBounds DEF PreviewInv, CacheFits
  <2> QED
    BY <1>5, <2>1, <2>2 DEF CacheFits
<1>9. P!ViewIsOneMoment'
  BY <1>2, <1>4, <1>5 DEF PreviewInv, P!ViewIsOneMoment, P!Cached
<1> QED
  BY <1>6, <1>7, <1>8, <1>9 DEF PreviewInv

LEMMA StoreStep ==
    ASSUME PreviewInv, NEW c \in Callers, NEW gone \in SUBSET P!Cached, P!Store(c, gone)
    PROVE  PreviewInv'
<1> DEFINE left == P!Cached \ gone
           shorter == P!MakeRoom(P!Held(order, left), left)
           new == revision + 1
<1>1. /\ caller[c].at = "rendered" /\ revision < MaxRevisions
      /\ revision' = new /\ order' = Append(shorter, new)
      /\ entries' = [r \in P!Revisions |->
             IF r = new THEN [cached |-> TRUE, view |-> caller[c].view]
             ELSE [entries[r] EXCEPT !.cached = r \in left /\ r \in P!ToSet(shorter)]]
      /\ caller' = [caller EXCEPT ![c] = P!Idle] /\ UNCHANGED <<head, moments>>
  BY DEF P!Store
<1>2. /\ revision \in Nat /\ new \in P!Revisions /\ revision < new
      /\ entries \in [P!Revisions -> [cached : BOOLEAN, view : Shown]]
      /\ caller \in [Callers -> Calls] /\ caller[c] \in Calls
  BY <1>1, RevisionsAreNumbers DEF PreviewInv, PreviewTypes, P!Revisions
<1>3. /\ IsFiniteSet(left) /\ Cardinality(left) \in Nat /\ Cardinality(left) <= MaxEntries
  <2>1. /\ IsFiniteSet(left) /\ Cardinality(left) \in Nat
        /\ Cardinality(left) <= Cardinality(P!Cached) /\ Cardinality(P!Cached) \in Nat
    BY FS_Subset, FS_CardinalityType DEF PreviewInv, CacheFits
  <2> HIDE DEF left
  <2> QED
    BY <2>1, CacheBounds DEF PreviewInv, CacheFits
<1>4. /\ shorter \in Seq(P!Revisions) /\ Increasing(shorter) /\ P!ToSet(shorter) \subseteq left
      /\ Cardinality(left \cap P!ToSet(shorter)) < MaxEntries
  <2> DEFINE kept == P!Held(order, left)
  <2>1. kept \in Seq(P!Revisions) /\ Increasing(kept) /\ P!ToSet(kept) = left
    BY PruneKeeps
  <2> HIDE DEF kept
  <2>2. left \in SUBSET P!ToSet(kept)
    BY <2>1
  <2> HIDE DEF left
  <2>3. /\ P!MakeRoom(kept, left) \in Seq(P!Revisions) /\ Increasing(P!MakeRoom(kept, left))
        /\ P!ToSet(P!MakeRoom(kept, left)) \subseteq P!ToSet(kept)
        /\ Cardinality(left \cap P!ToSet(P!MakeRoom(kept, left))) < MaxEntries
    BY <1>3, <2>1, <2>2, RoomIsMade
  <2> QED
    BY <2>1, <2>3 DEF kept
<1>5. \A r \in left : r \in P!Revisions /\ r <= revision
  BY DEF PreviewInv, OrderGrows, P!OrderCovers, P!Cached
<1> HIDE DEF left, shorter
<1>6. \A r \in P!ToSet(shorter) : r \in P!Revisions /\ r \in Nat /\ r <= revision /\ r < new
  <2>1. \A r \in P!ToSet(shorter) : r \in P!Revisions /\ r \in Nat /\ r <= revision
    BY <1>4, <1>5, RevisionsAreNumbers
  <2>2. \A r \in Nat : r <= revision => r < new
    BY <1>2
  <2> QED
    BY <2>1, <2>2
<1>7. /\ entries' \in [P!Revisions -> [cached : BOOLEAN, view : Shown]]
      /\ entries'[new].cached /\ entries'[new].view = caller[c].view
      /\ \A r \in P!Revisions \ {new} :
             /\ entries'[r].view = entries[r].view
             /\ entries'[r].cached <=> r \in left /\ r \in P!ToSet(shorter)
  <2> DEFINE fresh == [cached |-> TRUE, view |-> caller[c].view]
             kept(r) == [entries[r] EXCEPT !.cached = r \in left /\ r \in P!ToSet(shorter)]
  <2>1. fresh \in [cached : BOOLEAN, view : Shown] /\ fresh.cached /\ fresh.view = caller[c].view
    BY <1>2 DEF Calls
  <2>2. \A r \in P!Revisions :
            /\ kept(r) \in [cached : BOOLEAN, view : Shown]
            /\ kept(r).view = entries[r].view
            /\ kept(r).cached <=> r \in left /\ r \in P!ToSet(shorter)
    BY <1>2
  <2>3. entries' = [r \in P!Revisions |-> IF r = new THEN fresh ELSE kept(r)]
    BY <1>1
  <2> HIDE DEF fresh, kept
  <2> QED
    BY <1>2, <2>1, <2>2, <2>3
<1>8. P!Cached' = (left \cap P!ToSet(shorter)) \cup {new}
  BY <1>2, <1>6, <1>7 DEF P!Cached
<1>9. /\ Append(shorter, new) \in Seq(P!Revisions) /\ Len(shorter) \in Nat
      /\ Len(Append(shorter, new)) = Len(shorter) + 1
      /\ \A i \in 1 .. Len(shorter) : Append(shorter, new)[i] = shorter[i]
      /\ Append(shorter, new)[Len(shorter) + 1] = new
      /\ DOMAIN shorter = 1 .. Len(shorter) /\ DOMAIN Append(shorter, new) = 1 .. Len(shorter) + 1
  BY <1>2, <1>4
<1>10. P!ToSet(order)' = P!ToSet(shorter) \cup {new}
  <2>1. 1 .. Len(shorter) + 1 = (1 .. Len(shorter)) \cup {Len(shorter) + 1}
    BY <1>9
  <2>2. P!ToSet(order)' = {Append(shorter, new)[j] : j \in (1 .. Len(shorter)) \cup {Len(shorter) + 1}}
    BY <1>1, <1>9, <2>1 DEF P!ToSet
  <2>3. P!ToSet(shorter) = {Append(shorter, new)[j] : j \in 1 .. Len(shorter)}
    BY <1>9 DEF P!ToSet
  <2> QED
    BY <1>9, <2>2, <2>3
<1>11. OrderGrows'
  <2>1. \A i \in 1 .. Len(shorter) : shorter[i] < new
    BY <1>6, <1>9 DEF P!ToSet
  <2>2. ASSUME NEW i \in 1 .. Len(shorter) + 1, NEW j \in 1 .. Len(shorter) + 1, i < j
        PROVE  Append(shorter, new)[i] < Append(shorter, new)[j]
    <3>1. i \in 1 .. Len(shorter)
      BY <1>9, <2>2
    <3>2. CASE j \in 1 .. Len(shorter)
      BY <1>4, <1>9, <2>2, <3>1, <3>2 DEF Increasing
    <3>3. CASE j = Len(shorter) + 1
      BY <1>9, <2>1, <3>1, <3>3
    <3> QED
      BY <1>9, <3>2, <3>3
  <2>3. Increasing(order)'
    BY <1>1, <1>9, <2>2 DEF Increasing
  <2>4. \A r \in P!ToSet(order)' : r <= revision'
    <3>1. revision' = new /\ new <= new
      BY <1>1, <1>2
    <3>2. \A r \in P!ToSet(shorter) : r <= new
      BY <1>2, <1>6
    <3> HIDE DEF new
    <3> QED
      BY <1>10, <3>1, <3>2
  <2> QED
    BY <2>3, <2>4 DEF OrderGrows
<1>12. P!OrderCovers'
  BY <1>8, <1>10 DEF P!OrderCovers
<1>13. CacheFits'
  <2> DEFINE old == left \cap P!ToSet(shorter)
  <2>1. IsFiniteSet(old) /\ Cardinality(old) \in Nat
    BY <1>3, FS_Subset, FS_CardinalityType
  <2>2. new \notin old
    BY <1>6
  <2>3. IsFiniteSet(old \cup {new}) /\ Cardinality(old \cup {new}) = Cardinality(old) + 1
    BY <2>1, <2>2, FS_AddElement
  <2>4. Cardinality(old) < MaxEntries
    BY <1>4
  <2> HIDE DEF old
  <2>5. Cardinality(old \cup {new}) <= MaxEntries
    BY <2>1, <2>3, <2>4, CacheBounds
  <2> QED
    BY <1>8, <2>3, <2>5 DEF CacheFits, old
<1>14. P!ViewIsOneMoment'
  <2>1. caller[c].view \in moments
    BY <1>1 DEF PreviewInv, ReadsItsList
  <2>2. \A r \in left : entries[r].view \in moments
    BY DEF PreviewInv, P!ViewIsOneMoment, left
  <2> QED
    BY <1>1, <1>5, <1>6, <1>7, <1>8, <2>1, <2>2 DEF P!ViewIsOneMoment
<1>15. PreviewTypes'
  <2>1. P!Idle \in Calls
    BY RevisionsAreNumbers DEF P!Idle, P!Unrendered, Calls, Shown
  <2>2. new \in 0 .. MaxRevisions
    BY <1>2 DEF P!Revisions
  <2>3. caller' \in [Callers -> Calls]
    BY <1>1, <1>2, <2>1
  <2>4. order' \in Seq(P!Revisions)
    BY <1>1, <1>9
  <2> QED
    BY <1>1, <1>7, <2>2, <2>3, <2>4 DEF PreviewInv, PreviewTypes
<1>16. ReadsItsList'
  BY <1>1, <1>2 DEF PreviewInv, ReadsItsList, P!Idle
<1> QED
  BY <1>11, <1>12, <1>13, <1>14, <1>15, <1>16 DEF PreviewInv

LEMMA PreviewStep ==
    ASSUME PreviewInv, P!Next
    PROVE  PreviewInv'
<1>1. CASE \E b \in Branches : P!Commit(b)
  BY <1>1, CommitStep
<1>2. CASE \E gone \in SUBSET P!Cached : P!ReadWindow(gone)
  BY <1>2, WindowStep
<1>3. CASE \E c \in Callers : \E gone \in SUBSET P!Cached : P!Store(c, gone)
  BY <1>3, StoreStep
<1>4. CASE \E c \in Callers : P!Ask(c) \/ P!List(c) \/ P!Rendered(c) \/ P!RenderFails(c)
                                \/ \E b \in Branches : P!Snapshot(c, b)
  BY <1>4, CallStep
<1> QED
  BY <1>1, <1>2, <1>3, <1>4 DEF P!Next

LEMMA PreviewTypeOK ==
    ASSUME PreviewInv
    PROVE  P!TypeOK
<1>1. \A r \in P!Cached : entries[r].view \in P!Views
  BY DEF PreviewInv, PreviewTypes, P!ViewIsOneMoment
<1>2. \A c \in Callers : caller[c].at \in {"idle", "listing", "reading", "rendered"}
  BY DEF PreviewInv, PreviewTypes, Calls
<1> QED
  BY <1>1, <1>2, SameCardinality DEF PreviewInv, PreviewTypes, CacheFits, P!TypeOK

-----------------------------------------------------------------------------
(* The browser sessions: their theorems are those of WebSessions_proofs,   *)
(* of the same definitions under the names of this composition.            *)

WP == INSTANCE WebSessions_proofs WITH
          file <- stored, access <- allowed, order <- issued, MaxTokens <- MaxWebTokens

LEMMA WebBounds == WP!Bounds
  BY BoundsAssumption DEF WP!Bounds

LEMMA WebHelpers ==
    /\ W!Record = WP!Record /\ W!Empty = WP!Empty
    /\ W!View = WP!View
    /\ \A s, c : W!Alive(s, c) <=> WP!Alive(s, c)
    /\ \A s : W!Present(s) = WP!Present(s)
    /\ \A S : W!Cardinality(S) = WP!Cardinality(S)
<1>1. W!Record = WP!Record
  BY DEF W!Record, WP!Record
<1>2. W!Empty = WP!Empty /\ W!Absent = WP!Absent
  BY DEF W!Empty, WP!Empty, W!Absent, WP!Absent
<1>3. W!View = WP!View
  BY DEF W!View, WP!View
<1>4. \A s, c : W!Alive(s, c) <=> WP!Alive(s, c)
  BY DEF W!Alive, WP!Alive
<1>5. \A s : W!Present(s) = WP!Present(s)
  BY <1>2 DEF W!Present, WP!Present
<1>6. \A S : W!Cardinality(S) = WP!Cardinality(S)
  BY DEF W!Cardinality, WP!Cardinality
<1> QED
  BY <1>1, <1>2, <1>3, <1>4, <1>5, <1>6

LEMMA WebFiles ==
    /\ \A c : /\ W!LoginFile(c) = WP!LoginFile(c)
              /\ W!RestoreFile(c) = WP!RestoreFile(c)
              /\ W!LogoutFile(c) = WP!LogoutFile(c)
    /\ W!LoginRoom <=> WP!LoginRoom
<1>1. W!Absent = WP!Absent /\ W!Renewed = WP!Renewed
  BY DEF W!Absent, WP!Absent, W!Renewed, WP!Renewed
<1>2. W!Cleaned = WP!Cleaned
  BY <1>1, WebHelpers DEF W!Cleaned, WP!Cleaned
<1>3. \A c : /\ W!LoginFile(c) = WP!LoginFile(c)
             /\ W!RestoreFile(c) = WP!RestoreFile(c)
             /\ W!LogoutFile(c) = WP!LogoutFile(c)
  BY <1>1, <1>2 DEF W!LoginFile, WP!LoginFile, W!RestoreFile, WP!RestoreFile,
                    W!LogoutFile, WP!LogoutFile
<1>4. W!LoginRoom <=> WP!LoginRoom
  BY <1>2, WebHelpers DEF W!LoginRoom, WP!LoginRoom
<1> QED
  BY <1>3, <1>4

LEMMA WebParts ==
    /\ \A t : W!Save(t) <=> WP!Save(t)
    /\ W!SaveFails <=> WP!SaveFails
    /\ \A c : W!Issue(c) <=> WP!Issue(c)
    /\ W!IssueFails <=> WP!IssueFails
    /\ \A r : W!Restart(r) <=> WP!Restart(r)
    /\ \A c : W!TokensOf(c) = WP!TokensOf(c)
<1>1. \A t : W!Save(t) <=> WP!Save(t)
  BY DEF W!Save, WP!Save
<1>2. W!SaveFails <=> WP!SaveFails
  BY WebHelpers DEF W!SaveFails, WP!SaveFails
<1>3. \A c : W!Issue(c) <=> WP!Issue(c)
  BY DEF W!Issue, WP!Issue
<1>4. W!IssueFails <=> WP!IssueFails
  BY DEF W!IssueFails, WP!IssueFails
<1>5. \A r : W!Restart(r) <=> WP!Restart(r)
  BY WebHelpers DEF W!Restart, WP!Restart
<1>6. \A c : W!TokensOf(c) = WP!TokensOf(c)
  BY DEF W!TokensOf, WP!TokensOf
<1> QED
  BY <1>1, <1>2, <1>3, <1>4, <1>5, <1>6

LEMMA WebStep ==
    ASSUME W!Next
    PROVE  WP!Next
<1>1. CASE W!Login
  BY <1>1, WebFiles, WebParts DEF W!Login, WP!Login, WP!Next
<1>2. CASE W!Restore
  BY <1>2, WebHelpers, WebFiles, WebParts DEF W!Restore, WP!Restore, WP!Next
<1>3. CASE W!Logout
  BY <1>3, WebFiles, WebParts DEF W!Logout, WP!Logout, WP!Next
<1>4. CASE W!Crash
  BY <1>4, WebHelpers, WebFiles, WebParts DEF W!Crash, WP!Crash, WP!Next
<1>5. CASE W!Tick
  BY <1>5 DEF W!Tick, WP!Tick, W!memory, WP!memory, WP!Next
<1> QED
  BY <1>1, <1>2, <1>3, <1>4, <1>5 DEF W!Next

LEMMA WebInit ==
    ASSUME W!Init
    PROVE  WP!Init
  BY WebHelpers DEF W!Init, WP!Init

LEMMA WebMeans ==
    /\ WP!TypeOK => W!TypeOK
    /\ WP!FileLoadable => W!FileLoadable
    /\ WP!MemoryIsFile => W!MemoryIsFile
    /\ WP!RecentTokensWork => W!RecentTokensWork
<1>1. WP!TypeOK => W!TypeOK
  BY WebHelpers DEF WP!TypeOK, W!TypeOK
<1>2. WP!FileLoadable => W!FileLoadable
  BY WebHelpers DEF WP!FileLoadable, W!FileLoadable
<1>3. WP!MemoryIsFile => W!MemoryIsFile
  BY DEF WP!MemoryIsFile, W!MemoryIsFile
<1>4. WP!RecentTokensWork => W!RecentTokensWork
  BY WebHelpers DEF WP!RecentTokensWork, W!RecentTokensWork, WP!Allows, W!Allows
<1> QED
  BY <1>1, <1>2, <1>3, <1>4

-----------------------------------------------------------------------------
(* Diff and history: lists put one behind the other.                        *)

\* The first n lists of F in one.
Flat(F, n) == H!FlattenSeq([m \in 1 .. n |-> F[m]])

\* The loop of FlattenSeq, as far as list n.
Flattening(f, F, n) ==
    f = [i \in 1 .. n |-> IF i = 1 THEN F[i] ELSE f[i - 1] \o F[i]]

LEMMA FlatteningExists ==
    ASSUME NEW F, NEW n \in Nat
    PROVE  \E f : Flattening(f, F, n)
<1> DEFINE S == {k \in 0 .. n : \E f : Flattening(f, F, k)}
<1>1. 0 \in S
  <2>1. Flattening([i \in 1 .. 0 |-> <<>>], F, 0)
    BY DEF Flattening
  <2> QED
    BY <2>1
<1>2. ASSUME NEW k \in 1 .. n, k - 1 \in S
      PROVE  k \in S
  <2>1. PICK f : Flattening(f, F, k - 1)
    BY <1>2
  <2> DEFINE last == IF k = 1 THEN F[k] ELSE f[k - 1] \o F[k]
             g == [i \in 1 .. k |-> IF i = k THEN last ELSE f[i]]
  <2>2. \A i \in 1 .. k : i # k => i \in 1 .. k - 1
    OBVIOUS
  <2>3. \A i \in 1 .. k : i # 1 => i - 1 \in 1 .. k /\ i - 1 # k /\ g[i - 1] = f[i - 1]
    OBVIOUS
  <2>4. \A i \in 1 .. k - 1 : f[i] = IF i = 1 THEN F[i] ELSE f[i - 1] \o F[i]
    BY <2>1 DEF Flattening
  <2>5. \A i \in 1 .. k : g[i] = IF i = 1 THEN F[i] ELSE g[i - 1] \o F[i]
    BY <2>2, <2>3, <2>4
  <2>6. g = [i \in 1 .. k |-> g[i]]
    OBVIOUS
  <2> HIDE DEF g
  <2>7. Flattening(g, F, k)
    BY <2>5, <2>6 DEF Flattening
  <2> QED
    BY <2>7
<1>3. 0 .. n \subseteq S
  <2> HIDE DEF S
  <2> QED
    BY <1>1, <1>2, CountingUp
<1> QED
  BY <1>3

\* Two of them agree as far as both go.
LEMMA FlatteningsAgree ==
    ASSUME NEW F, NEW m \in Nat, NEW n \in Nat, m <= n,
           NEW f, Flattening(f, F, m), NEW g, Flattening(g, F, n)
    PROVE  \A i \in 1 .. m : f[i] = g[i]
<1> DEFINE S == {k \in 0 .. m : k = 0 \/ f[k] = g[k]}
<1>1. 0 \in S
  OBVIOUS
<1>2. ASSUME NEW k \in 1 .. m, k - 1 \in S
      PROVE  k \in S
  <2>1. f[k] = IF k = 1 THEN F[k] ELSE f[k - 1] \o F[k]
    BY DEF Flattening
  <2>2. k \in 1 .. n
    OBVIOUS
  <2>3. g[k] = IF k = 1 THEN F[k] ELSE g[k - 1] \o F[k]
    BY <2>2 DEF Flattening
  <2>4. k # 1 => f[k - 1] = g[k - 1]
    BY <1>2
  <2> QED
    BY <2>1, <2>3, <2>4
<1>3. 0 .. m \subseteq S
  <2> HIDE DEF S
  <2> QED
    BY <1>1, <1>2, CountingUp
<1> QED
  BY <1>3

\* FlattenSeq is the end of its loop.
LEMMA FlattenIs ==
    ASSUME NEW F, NEW n \in Nat \ {0}
    PROVE  \E f : Flattening(f, F, n) /\ Flat(F, n) = f[n]
<1> DEFINE G == [m \in 1 .. n |-> F[m]]
           f == CHOOSE f : Flattening(f, G, Len(G))
<1>1. Len(G) = n /\ n \in Nat /\ n # 0
  OBVIOUS
<1> HIDE DEF G
<1>2. Flattening(f, G, Len(G))
  <2>1. \E g : Flattening(g, G, Len(G))
    BY <1>1, FlatteningExists
  <2> QED
    BY <2>1, Zenon
<1>3. H!FlattenSeq(G) = f[Len(G)]
  <2>1. Len(G) # 0
    BY <1>1
  <2> QED
    BY <2>1, Zenon DEF H!FlattenSeq, Flattening
<1> HIDE DEF f
<1>4. Flattening(f, F, n)
  <2>1. \A i \in 1 .. n : G[i] = F[i]
    BY DEF G
  <2> QED
    BY <1>1, <1>2, <2>1 DEF Flattening
<1> QED
  BY <1>1, <1>3, <1>4 DEF G, Flat

LEMMA FlattenNone ==
    ASSUME NEW F
    PROVE  Flat(F, 0) = <<>>
  BY DEF Flat, H!FlattenSeq

\* One more list is put behind the others.
LEMMA FlattenOneMore ==
    ASSUME NEW F, NEW n \in Nat, NEW T, F[n + 1] \in Seq(T)
    PROVE  Flat(F, n + 1) = Flat(F, n) \o F[n + 1]
<1>0. n + 1 \in Nat \ {0} /\ n + 1 \in 1 .. n + 1
  OBVIOUS
<1>1. PICK g : Flattening(g, F, n + 1) /\ Flat(F, n + 1) = g[n + 1]
  BY <1>0, FlattenIs
<1>2. g[n + 1] = IF n + 1 = 1 THEN F[n + 1] ELSE g[(n + 1) - 1] \o F[n + 1]
  BY <1>0, <1>1 DEF Flattening
<1>3. CASE n = 0
  <2>1. g[n + 1] = F[n + 1]
    BY <1>2, <1>3
  <2>2. Flat(F, n) = <<>>
    BY <1>3, FlattenNone
  <2> QED
    BY <1>1, <2>1, <2>2, ConcatEmptySeq
<1>4. CASE n # 0
  <2>1. n \in Nat \ {0}
    BY <1>4
  <2>2. PICK f : Flattening(f, F, n) /\ Flat(F, n) = f[n]
    BY <2>1, FlattenIs
  <2>3. f[n] = g[n]
    <3>1. n <= n + 1 /\ n + 1 \in Nat /\ n \in 1 .. n
      BY <2>1
    <3> QED
      BY <1>1, <2>2, <3>1, FlatteningsAgree
  <2>4. g[n + 1] = g[n] \o F[n + 1]
    <3>1. (n + 1) - 1 = n /\ n + 1 # 1
      BY <1>4
    <3> QED
      BY <1>2, <3>1
  <2> QED
    BY <1>1, <2>2, <2>3, <2>4
<1> QED
  BY <1>3, <1>4

\* The lists put together begin with the first of them.
LEMMA FlattenBegins ==
    ASSUME NEW F, NEW n \in Nat, NEW T, \A i \in 1 .. n : F[i] \in Seq(T),
           NEW m \in 0 .. n
    PROVE  \E rest \in Seq(T) :
               /\ Flat(F, m) \in Seq(T)
               /\ Flat(F, n) = Flat(F, m) \o rest
<1>0. Flat(F, 0) = <<>>
  BY FlattenNone
<1>1. \A k \in 0 .. n - 1 : Flat(F, k + 1) = Flat(F, k) \o F[k + 1] /\ F[k + 1] \in Seq(T)
  <2>1. TAKE k \in 0 .. n - 1
  <2>2. k \in Nat /\ F[k + 1] \in Seq(T)
    OBVIOUS
  <2> QED
    BY <2>2, FlattenOneMore
<1>2. \A k \in 0 .. n : Flat(F, k) \in Seq(T)
  <2> DEFINE S == {k \in 0 .. n : Flat(F, k) \in Seq(T)}
  <2>1. 0 \in S
    <3>1. <<>> \in Seq(T) /\ 0 \in 0 .. n
      BY EmptySeq
    <3> QED
      BY <1>0, <3>1
  <2>2. ASSUME NEW k \in 1 .. n, k - 1 \in S
        PROVE  k \in S
    <3>1. k - 1 \in 0 .. n - 1 /\ (k - 1) + 1 = k
      OBVIOUS
    <3>2. Flat(F, k) = Flat(F, k - 1) \o F[k] /\ F[k] \in Seq(T)
      BY <1>1, <3>1
    <3>3. Flat(F, k - 1) \in Seq(T)
      BY <2>2
    <3>4. Flat(F, k - 1) \o F[k] \in Seq(T)
      BY <3>2, <3>3, ConcatProperties
    <3>5. k \in 0 .. n
      OBVIOUS
    <3> QED
      BY <3>2, <3>4, <3>5
  <2>3. 0 .. n \subseteq S
    <3> HIDE DEF S
    <3> QED
      BY <2>1, <2>2, CountingUp
  <2> QED
    BY <2>3
<1>3. \A k \in 0 .. n - m : \E rest \in Seq(T) : Flat(F, m + k) = Flat(F, m) \o rest
  <2> DEFINE S == {k \in 0 .. n - m : \E rest \in Seq(T) : Flat(F, m + k) = Flat(F, m) \o rest}
  <2>0. n - m \in Nat /\ Flat(F, m) \in Seq(T)
    BY <1>2
  <2>1. 0 \in S
    <3>1. Flat(F, m) = Flat(F, m) \o <<>> /\ <<>> \in Seq(T) /\ m + 0 = m
      BY <2>0, ConcatEmptySeq, EmptySeq
    <3>2. 0 \in 0 .. n - m /\ Flat(F, m + 0) = Flat(F, m) \o <<>>
      BY <2>0, <3>1
    <3> QED
      BY <3>1, <3>2
  <2>2. ASSUME NEW k \in 1 .. n - m, k - 1 \in S
        PROVE  k \in S
    <3>1. PICK rest \in Seq(T) : Flat(F, m + (k - 1)) = Flat(F, m) \o rest
      BY <2>2
    <3>2. m + (k - 1) \in 0 .. n - 1 /\ (m + (k - 1)) + 1 = m + k /\ k \in 0 .. n - m
      OBVIOUS
    <3>3. Flat(F, m + k) = Flat(F, m + (k - 1)) \o F[m + k] /\ F[m + k] \in Seq(T)
      BY <1>1, <3>2
    <3>4. Flat(F, m + k) = Flat(F, m) \o (rest \o F[m + k])
      <4>1. \A s, t, u \in Seq(T) : (s \o t) \o u = s \o (t \o u)
        BY ConcatAssociative
      <4>2. (Flat(F, m) \o rest) \o F[m + k] = Flat(F, m) \o (rest \o F[m + k])
        BY <2>0, <3>3, <4>1, Zenon
      <4> QED
        BY <3>1, <3>3, <4>2
    <3>5. rest \o F[m + k] \in Seq(T)
      BY <3>3, ConcatProperties
    <3> QED
      BY <3>2, <3>4, <3>5
  <2>3. 0 .. n - m \subseteq S
    <3> HIDE DEF S
    <3> QED
      BY <2>0, <2>1, <2>2, CountingUp
  <2> QED
    BY <2>3
<1>4. n - m \in 0 .. n - m /\ m + (n - m) = n
  OBVIOUS
<1>5. PICK rest \in Seq(T) : Flat(F, n) = Flat(F, m) \o rest
  BY <1>3, <1>4
<1> QED
  BY <1>2, <1>5

\* Lists behind each other, grouped in two ways.  The operator keeps the provers
\* from what they know of concatenation, that they lose their way in.
Behind(s, t) == s \o t

LEMMA Regrouped ==
    ASSUME NEW T
    PROVE  \A s, t, u \in Seq(T) : Behind(Behind(s, t), u) = Behind(s, Behind(t, u))
  BY ConcatAssociative DEF Behind

-----------------------------------------------------------------------------
(* Diff and history: what a State gives.                                    *)

LEMMA HistoryCounts == \A S : H!Cardinality(S) = Cardinality(S)
  BY DEF Cardinality, H!Cardinality

\* The changes in their order are all of them, in a sequence.
LEMMA OrderedIs ==
    ASSUME NEW S, IsFiniteSet(S)
    PROVE  /\ H!Cardinality(S) \in Nat /\ (H!Cardinality(S) = 0 <=> S = {})
           /\ H!Ordered(S) \in Seq(S) /\ Len(H!Ordered(S)) = H!Cardinality(S)
<1> DEFINE n == Cardinality(S)
<1>1. n \in Nat /\ ExistsBijection(1 .. n, S) /\ (n = 0 <=> S = {})
  BY FS_CardinalityType, FS_EmptySet
<1>2. PICK f \in [1 .. n -> S] : \A x, y \in 1 .. n : f[x] = f[y] => x = y
  BY <1>1 DEF ExistsBijection, Bijection, Injection, IsInjective
<1> HIDE DEF n
<1>3. f \in [1 .. n -> S] /\ H!IsInjective(f)
  BY <1>2 DEF H!IsInjective
<1>4. H!Cardinality(S) = n
  BY HistoryCounts DEF n
<1>5. H!Ordered(S) \in [1 .. n -> S]
  BY <1>3, <1>4 DEF H!Ordered, H!SetToSeq
<1> QED
  BY <1>1, <1>4, <1>5

\* However many Definitions there are, two States differ in finitely many things.
LEMMA ChangesAreFinite ==
    ASSUME NEW b, NEW a, NEW scope, NEW i
    PROVE  IsFiniteSet(H!Filtered(b, a, scope, i))
<1> DEFINE f == [j \in Identities |-> H!ObjectChanges(b, a, j)]
           T == {f[j] : j \in Identities}
<1>1. IsFiniteSet(T)
  <2>1. f \in Surjection(Identities, T)
    BY DEF Surjection
  <2> HIDE DEF f, T
  <2> QED
    BY <2>1, FS_Surjection, RepositoriesAssumption
<1>2. \A j \in Identities : IsFiniteSet(f[j])
  <2>1. TAKE j \in Identities
  <2>2. \E x : f[j] = {} \/ f[j] = {x}
    BY DEF H!ObjectChanges
  <2> HIDE DEF f
  <2> QED
    BY <2>2, FS_EmptySet, FS_Singleton, Zenon
<1>3. IsFiniteSet(UNION T)
  <2> HIDE DEF f
  <2> QED
    BY <1>1, <1>2, FS_UNION
<1>4. IsFiniteSet(H!IndexChanges(b, a)) /\ IsFiniteSet(H!ElementChanges(b, a))
  <2>1. \E x : H!IndexChanges(b, a) = {} \/ H!IndexChanges(b, a) = {x}
    BY Zenon DEF H!IndexChanges
  <2>2. \E x : H!ElementChanges(b, a) = {} \/ H!ElementChanges(b, a) = {x}
    BY Zenon DEF H!ElementChanges
  <2>3. IsFiniteSet({}) /\ \A x : IsFiniteSet({x})
    BY FS_EmptySet, FS_Singleton
  <2> QED
    BY <2>1, <2>2, <2>3, Zenon
<1>5. H!Changes(b, a) = (UNION T) \cup H!IndexChanges(b, a) \cup H!ElementChanges(b, a)
  BY DEF H!Changes
<1>6. IsFiniteSet(H!Changes(b, a))
  <2> HIDE DEF T
  <2>1. \A U, V : IsFiniteSet(U) /\ IsFiniteSet(V) => IsFiniteSet(U \cup V)
    BY FS_Union
  <2>2. IsFiniteSet((UNION T) \cup H!IndexChanges(b, a) \cup H!ElementChanges(b, a))
    BY <1>3, <1>4, <2>1, Zenon
  <2> QED
    BY <1>5, <2>2, Zenon
<1>7. H!Filtered(b, a, scope, i) \subseteq H!Changes(b, a)
  BY DEF H!Filtered
<1> QED
  BY <1>6, <1>7, FS_Subset

\* A log is of commits up to its root, and of one at least.
LEMMA LogIs ==
    ASSUME NEW r \in Nat \ {0}
    PROVE  H!Log(r) \in Seq(1 .. r) /\ Len(H!Log(r)) \in Nat \ {0}
<1> DEFINE F == [n \in 1 .. r |-> IF r + 1 - n \in H!Ancestry(r) THEN <<r + 1 - n>> ELSE <<>>]
<1>1. H!Log(r) = Flat(F, r)
  <2>1. [m \in 1 .. r |-> F[m]] = F
    OBVIOUS
  <2> QED
    BY <2>1 DEF H!Log, Flat
<1>2. \A n \in 1 .. r : F[n] \in Seq(1 .. r)
  <2>1. TAKE n \in 1 .. r
  <2>2. r + 1 - n \in 1 .. r
    OBVIOUS
  <2>3. <<r + 1 - n>> \in Seq(1 .. r) /\ <<>> \in Seq(1 .. r)
    BY <2>2
  <2> QED
    BY <2>3
<1>3. F[1] = <<r>> /\ <<r>> \in Seq(1 .. r)
  <2>1. r \in H!Ancestry(r)
    BY DEF H!Ancestry
  <2>2. 1 \in 1 .. r /\ r + 1 - 1 = r
    OBVIOUS
  <2> QED
    BY <2>1, <2>2
<1> HIDE DEF F
<1>4. Flat(F, 1) = <<r>>
  <2>1. Flat(F, 0 + 1) = Flat(F, 0) \o F[0 + 1]
    <3>1. 0 + 1 = 1 /\ 0 \in Nat
      OBVIOUS
    <3>2. F[0 + 1] \in Seq(1 .. r)
      BY <1>3, <3>1
    <3> QED
      BY <3>1, <3>2, FlattenOneMore
  <2>2. Flat(F, 0) = <<>>
    BY FlattenNone
  <2>3. <<>> \o <<r>> = <<r>>
    OBVIOUS
  <2>4. 0 + 1 = 1
    OBVIOUS
  <2> QED
    BY <1>3, <2>1, <2>2, <2>3, <2>4
<1>5. 1 \in 0 .. r /\ r \in Nat
  OBVIOUS
<1>6. PICK rest \in Seq(1 .. r) :
          Flat(F, 1) \in Seq(1 .. r) /\ Flat(F, r) = Flat(F, 1) \o rest
  BY <1>2, <1>5, FlattenBegins, ZenonT(60)
<1>7. H!Log(r) = <<r>> \o rest
  BY <1>1, <1>4, <1>6
<1>8. Len(<<r>> \o rest) = 1 + Len(rest) /\ <<r>> \o rest \in Seq(1 .. r)
  BY <1>3
<1> QED
  BY <1>7, <1>8
-----------------------------------------------------------------------------
(* Diff and history: the reader's place.                                    *)

\* What a request pins: the log, and what each of its commits gives.
Pinned == H!Log(request.root)
Passes(c) == H!Valid(c) /\ (commits[c].parents # <<>> => H!Valid(commits[c].parents[1]))
ChangesOf(c) == H!Filtered(H!StateOf(commits[c].parents[1]), H!StateOf(c), request.scope, H!IdentityOf(request))

\* What each commit of the log gives, and the history as far as place n.
Each == [n \in 1 .. Len(Pinned) |-> H!Entries(request, Pinned[n])]
Given(n) == Flat(Each, n)

\* The place of the log that the next visit reads.
Place ==
    IF cursor.state # 0
    THEN IF cursor.native = 0 THEN Len(Pinned) ELSE cursor.native - 1
    ELSE IF cursor.native = 0 THEN 1 ELSE cursor.native

\* A commit is made after its parents; the request names commits there are.
ReadTypes ==
    /\ phase \in {"idle", "between", "reading", "done", "refused"}
    /\ commits \in Seq(H!Range(commits)) /\ Len(commits) > 0 /\ tip \in 1 .. Len(commits)
    /\ \A c \in DOMAIN commits : commits[c].parents \in Seq(1 .. c - 1)
    /\ phase # "idle" =>
           /\ request.op \in {"diff", "history"}
           /\ {request.before, request.root, request.anchor} \subseteq 1 .. Len(commits)
    /\ phase = "idle" =>
           /\ cursor = H!Start /\ seen = <<>> /\ commits \in Repositories

\* A diff gave its first changes, and the cursor names the last of them.
DiffPlace ==
    LET changes == H!DiffOf(request)
    IN  /\ cursor.offset \in 0 .. Len(changes)
        /\ cursor.last = {changes[n] : n \in {cursor.offset} \cap DOMAIN changes}
        /\ seen = [n \in 1 .. cursor.offset |-> [state |-> 0, change |-> {changes[n]}]]
        /\ phase = "done" => cursor.offset = Len(changes)

\* A history gave all before its place, and of the commit there what the cursor says.
HistoryPlace ==
    /\ Place \in 1 .. Len(Pinned) /\ cursor.native \in 0 .. Len(Pinned)
    /\ \A n \in 1 .. Place - 1 : Passes(Pinned[n])
    /\ cursor.state = 0 =>
           cursor.offset = 0 /\ cursor.last = {} /\ seen = Given(Place - 1)
    /\ cursor.state # 0 =>
           LET changes == ChangesOf(cursor.state)
           IN  /\ cursor.state = Pinned[Place]
               /\ Passes(cursor.state) /\ commits[cursor.state].parents # <<>>
               /\ cursor.offset \in 1 .. H!Cardinality(changes) - 1
               /\ cursor.last = {H!Ordered(changes)[cursor.offset]}
               /\ seen = Given(Place - 1) \o SubSeq(H!Entries(request, cursor.state), 1, cursor.offset)

ReaderInv ==
    /\ ReadTypes
    /\ phase = "refused" => cursor = H!Start
    /\ phase \in {"between", "done"} /\ request.op = "diff" => DiffPlace
    /\ phase = "reading" => request.op = "history" /\ room \in Nat \ {0}
    /\ phase \in {"between", "reading"} /\ request.op = "history" => HistoryPlace
    /\ phase = "done" /\ request.op = "history" => seen = H!HistoryOf(request)

\* What a commit of the log gives is a sequence of items.
Items == [state : Nat, change : SUBSET (UNION {ChangesOf(c) : c \in DOMAIN commits})]

LEMMA CommitsAre ==
    ASSUME ReadTypes
    PROVE  /\ Len(commits) \in Nat /\ DOMAIN commits = 1 .. Len(commits)
           /\ \A c \in DOMAIN commits :
                  /\ c \in Nat \ {0} /\ commits[c].parents \in Seq(1 .. c - 1)
                  /\ commits[c].parents # <<>> => commits[c].parents[1] \in DOMAIN commits
<1>1. Len(commits) \in Nat /\ DOMAIN commits = 1 .. Len(commits)
  BY DEF ReadTypes
<1>2. \A c \in DOMAIN commits : commits[c].parents \in Seq(1 .. c - 1)
  BY DEF ReadTypes
<1>3. \A c \in Nat : \A q \in Seq(1 .. c - 1) : q # <<>> => q[1] \in 1 .. c - 1
  OBVIOUS
<1>4. \A c \in DOMAIN commits : c \in Nat \ {0} /\ 1 .. c - 1 \subseteq 1 .. Len(commits)
  BY <1>1
<1> QED
  BY <1>1, <1>2, <1>3, <1>4

LEMMA PinnedIs ==
    ASSUME ReadTypes, phase # "idle"
    PROVE  /\ Len(Pinned) \in Nat \ {0} /\ DOMAIN Pinned = 1 .. Len(Pinned)
           /\ \A n \in 1 .. Len(Pinned) : Pinned[n] \in DOMAIN commits
<1>1. request.root \in Nat \ {0} /\ 1 .. request.root \subseteq DOMAIN commits
  BY CommitsAre DEF ReadTypes
<1>2. Pinned \in Seq(1 .. request.root) /\ Len(Pinned) \in Nat \ {0}
  BY <1>1, LogIs DEF Pinned
<1> QED
  BY <1>1, <1>2

\* A genesis, or a commit that changed nothing, is shown whole.
ShownWhole(c) ==
    \/ commits[c].parents = <<>> \/ ~ H!Valid(commits[c].parents[1])
    \/ ChangesOf(c) = {} /\ request.scope = "all"

LEMMA EntriesAre ==
    ASSUME NEW c
    PROVE  /\ IsFiniteSet(ChangesOf(c))
           /\ ShownWhole(c) => H!Entries(request, c) = H!Whole(c)
           /\ ~ ShownWhole(c) =>
                  H!Entries(request, c) = [n \in 1 .. H!Cardinality(ChangesOf(c)) |->
                      [state |-> c, change |-> {H!Ordered(ChangesOf(c))[n]}]]
<1>1. IsFiniteSet(ChangesOf(c))
  BY ChangesAreFinite DEF ChangesOf
<1>2. ShownWhole(c) => H!Entries(request, c) = H!Whole(c)
  BY DEF ShownWhole, ChangesOf, H!Entries
<1>3. ~ ShownWhole(c) =>
          H!Entries(request, c) = [n \in 1 .. H!Cardinality(ChangesOf(c)) |->
              [state |-> c, change |-> {H!Ordered(ChangesOf(c))[n]}]]
  BY DEF ShownWhole, ChangesOf, H!Entries
<1> QED
  BY <1>1, <1>2, <1>3

LEMMA EachIs ==
    ASSUME ReadTypes, phase # "idle"
    PROVE  \A n \in 1 .. Len(Pinned) :
               Each[n] = H!Entries(request, Pinned[n]) /\ Each[n] \in Seq(Items)
<1>1. TAKE n \in 1 .. Len(Pinned)
<1> DEFINE c == Pinned[n]
           ch == ChangesOf(c)
<1>2. c \in Nat /\ c \in DOMAIN commits
  BY PinnedIs, CommitsAre
<1>3. Each[n] = H!Entries(request, c)
  BY DEF Each
<1>4. \A C \in SUBSET ch : [state |-> c, change |-> C] \in Items
  <2>1. ch \in {ChangesOf(d) : d \in DOMAIN commits}
    BY <1>2
  <2> HIDE DEF c, ch
  <2> QED
    BY <1>2, <2>1 DEF Items
<1> HIDE DEF c
<1>5. CASE ShownWhole(c)
  <2>1. H!Entries(request, c) = <<[state |-> c, change |-> {}]>>
    BY <1>5, EntriesAre DEF H!Whole
  <2>2. [state |-> c, change |-> {}] \in Items
    BY <1>4
  <2> QED
    BY <1>3, <2>1, <2>2 DEF c
<1>6. CASE ~ ShownWhole(c)
  <2> DEFINE k == H!Cardinality(ch)
             q == H!Ordered(ch)
  <2>1. k \in Nat /\ q \in Seq(ch) /\ Len(q) = k
    BY EntriesAre, OrderedIs
  <2>2. H!Entries(request, c) = [m \in 1 .. k |-> [state |-> c, change |-> {q[m]}]]
    BY <1>6, EntriesAre
  <2> HIDE DEF k, q, ch
  <2>3. \A m \in 1 .. k : [state |-> c, change |-> {q[m]}] \in Items
    BY <1>4, <2>1
  <2>4. [m \in 1 .. k |-> [state |-> c, change |-> {q[m]}]] \in Seq(Items)
    BY <2>1, <2>3
  <2> QED
    BY <1>3, <2>2, <2>4 DEF c
<1> QED
  BY <1>5, <1>6

\* The log can be read as far as the first commit that ends it.
LEMMA ReadableIs ==
    ASSUME ReadTypes, phase # "idle"
    PROVE  \E k \in 0 .. Len(Pinned) :
               /\ H!Readable(request) = 1 .. k /\ H!Cardinality(H!Readable(request)) = k
               /\ \A n \in 1 .. Len(Pinned) : (\A m \in 1 .. n : Passes(Pinned[m])) => n <= k
               /\ \A n \in 1 .. Len(Pinned) :
                      (\A m \in 1 .. n - 1 : Passes(Pinned[m])) /\ ~ Passes(Pinned[n])
                          => k = IF H!Valid(Pinned[n]) THEN n ELSE n - 1
<1> DEFINE N == Len(Pinned)
           Bad == {n \in 1 .. N : ~ Passes(Pinned[n])}
<1>0. N \in Nat \ {0} /\ DOMAIN Pinned = 1 .. N
  BY PinnedIs
<1>1. \A x : x \in H!Readable(request) <=>
          /\ x \in 1 .. N
          /\ \A e \in 1 .. N : ~ H!Valid(Pinned[e]) => x < e
          /\ \A e \in 1 .. N : ~ Passes(Pinned[e]) => x <= e
  BY <1>0 DEF H!Readable, Pinned, Passes
<1>2. \A n \in 1 .. N : ~ H!Valid(Pinned[n]) => ~ Passes(Pinned[n])
  BY DEF Passes
<1>3. \A k \in 0 .. N : H!Cardinality(1 .. k) = k
  BY <1>0, FS_Interval, HistoryCounts
<1>4. CASE Bad = {}
  <2>1. H!Readable(request) = 1 .. N
    BY <1>1, <1>2, <1>4
  <2>2. \A n \in 1 .. N : Passes(Pinned[n])
    BY <1>4
  <2>3. N \in 0 .. N /\ \A n \in 1 .. N : n <= N
    BY <1>0
  <2> QED
    BY <1>3, <2>1, <2>2, <2>3
<1>5. CASE Bad # {}
  <2>1. PICK n \in Bad : \A m \in Bad : n <= m
    <3>1. Bad \in SUBSET Nat
      OBVIOUS
    <3> HIDE DEF Bad
    <3> QED
      BY <1>5, <3>1, Smallest
  <2> DEFINE k == IF H!Valid(Pinned[n]) THEN n ELSE n - 1
  <2>2. n \in 1 .. N /\ k \in 0 .. N /\ ~ Passes(Pinned[n])
        /\ \A m \in 1 .. N : m < n => Passes(Pinned[m])
    BY <1>0, <2>1
  <2>3. H!Readable(request) = 1 .. k
    <3>1. \A e \in 1 .. N : ~ Passes(Pinned[e]) => n <= e
      BY <1>0, <2>2
    <3>2. \A x \in H!Readable(request) : x \in 1 .. k
      BY <1>0, <1>1, <2>2
    <3>3. \A x \in 1 .. k : x \in H!Readable(request)
      <4>1. TAKE x \in 1 .. k
      <4>2. x \in 1 .. N /\ x <= n /\ (~ H!Valid(Pinned[n]) => x < n)
        BY <1>0, <2>2
      <4>3. ASSUME NEW e \in 1 .. N, ~ H!Valid(Pinned[e])
            PROVE  x < e
        <5>1. n <= e
          BY <1>2, <3>1, <4>3
        <5>2. CASE n = e
          BY <4>2, <4>3, <5>2
        <5>3. CASE n # e
          BY <1>0, <2>2, <4>2, <5>1, <5>3
        <5> QED
          BY <5>2, <5>3
      <4>4. \A e \in 1 .. N : ~ Passes(Pinned[e]) => x <= e
        BY <1>0, <2>2, <3>1, <4>2
      <4> QED
        BY <1>1, <4>2, <4>3, <4>4
    <3> QED
      BY <3>2, <3>3
  <2>4. \A j \in 1 .. N : (\A m \in 1 .. j : Passes(Pinned[m])) => j < n
    BY <1>0, <2>2
  <2>5. \A j \in 1 .. N : (\A m \in 1 .. j - 1 : Passes(Pinned[m])) /\ ~ Passes(Pinned[j]) => j = n
    BY <1>0, <2>2
  <2> QED
    BY <1>0, <1>3, <2>2, <2>3, <2>4, <2>5
<1> QED
  BY <1>4, <1>5

LEMMA HistoryIs ==
    ASSUME ReadTypes, phase # "idle"
    PROVE  H!HistoryOf(request) = Given(H!Cardinality(H!Readable(request)))
<1>1. H!Cardinality(H!Readable(request)) \in 0 .. Len(Pinned) /\ Len(Pinned) \in Nat
  BY ReadableIs, PinnedIs
<1> DEFINE k == H!Cardinality(H!Readable(request))
<1>2. [n \in 1 .. k |-> H!Entries(request, Pinned[n])] = [n \in 1 .. k |-> Each[n]]
  BY <1>1, EachIs
<1> QED
  BY <1>2 DEF H!HistoryOf, Given, Flat, Pinned

\* What a request pins stays: nothing that is committed meanwhile changes it.
LEMMA PinnedRests ==
    ASSUME ReadTypes, phase # "idle", request' = request,
           \A c \in DOMAIN commits : commits'[c] = commits[c]
    PROVE  /\ Pinned' = Pinned /\ Each' = Each
           /\ \A n : Given(n)' = Given(n)
           /\ \A c \in DOMAIN commits :
                  /\ commits[c].parents # <<>> => ChangesOf(c)' = ChangesOf(c)
                  /\ Passes(c)' <=> Passes(c)
                  /\ commits'[c].parents = commits[c].parents
                  /\ H!Entries(request, c)' = H!Entries(request, c)
           /\ H!HistoryOf(request)' = H!HistoryOf(request)
           /\ H!DiffOf(request)' = H!DiffOf(request)
<1> DEFINE D == DOMAIN commits
<1>1. /\ D = 1 .. Len(commits) /\ Len(commits) \in Nat
      /\ \A c \in D : commits[c].parents # <<>> => commits[c].parents[1] \in D
      /\ {request.before, request.root, request.anchor} \subseteq D
  BY CommitsAre DEF ReadTypes
<1>2. \A c \in D : commits'[c] = commits[c]
  OBVIOUS
<1>3. \A c \in D : H!StateOf(c)' = H!StateOf(c) /\ (H!Valid(c)' <=> H!Valid(c))
  BY <1>2 DEF H!StateOf, H!Valid
<1>4. H!IdentityOf(request)' = H!IdentityOf(request)
  <2>1. H!Identity(request)' = H!Identity(request)
    BY <1>1, <1>3 DEF H!Identity
  <2> QED
    BY <2>1 DEF H!IdentityOf
<1>5. \A c \in D : commits[c].parents # <<>> => ChangesOf(c)' = ChangesOf(c)
  <2>1. TAKE c \in D
  <2>2. HAVE commits[c].parents # <<>>
  <2>3. H!StateOf(commits[c].parents[1])' = H!StateOf(commits[c].parents[1])
    BY <1>1, <1>2, <1>3, <2>2
  <2>4. H!StateOf(c)' = H!StateOf(c)
    BY <1>3
  <2> QED
    BY <1>4, <2>3, <2>4 DEF ChangesOf, H!Filtered
<1>6. \A c \in D : Passes(c)' <=> Passes(c)
  BY <1>1, <1>2, <1>3 DEF Passes
<1>7. \A c \in D : H!Entries(request, c)' = H!Entries(request, c)
  <2>1. TAKE c \in D
  <2>2. commits'[c].parents = commits[c].parents
    BY <1>2
  <2>3. CASE commits[c].parents = <<>>
    BY <2>2, <2>3 DEF H!Entries, H!Whole
  <2>4. CASE commits[c].parents # <<>>
    <3>1. H!Valid(commits[c].parents[1])' <=> H!Valid(commits[c].parents[1])
      BY <1>1, <1>3, <2>2, <2>4
    <3>2. H!Filtered(H!StateOf(commits[c].parents[1]), H!StateOf(c), request.scope, H!IdentityOf(request))'
              = H!Filtered(H!StateOf(commits[c].parents[1]), H!StateOf(c), request.scope, H!IdentityOf(request))
      BY <1>5, <2>4 DEF ChangesOf
    <3> QED
      BY <2>2, <3>1, <3>2 DEF H!Entries
  <2> QED
    BY <2>3, <2>4
<1>8. Pinned' = Pinned
  <2> DEFINE r == request.root
  <2>1. 1 .. r \subseteq D
    BY <1>1
  <2>2. \A d \in 1 .. r : H!Range(commits[d].parents)' = H!Range(commits[d].parents)
    BY <1>2, <2>1
  <2>3. H!Ancestry(r)' = H!Ancestry(r)
    <3>1. \A S \in SUBSET (1 .. r) :
              (\A d \in S : H!Range(commits[d].parents) \subseteq S)'
                  <=> (\A d \in S : H!Range(commits[d].parents) \subseteq S)
      BY <2>2
    <3>2. \A x : x \in H!Ancestry(r)' <=> x \in H!Ancestry(r)
      BY <3>1 DEF H!Ancestry
    <3> QED
      BY <3>2
  <2> QED
    BY <2>3 DEF Pinned, H!Log
<1>9. Each' = Each
  BY <1>7, <1>8, PinnedIs DEF Each
<1>10. H!Readable(request)' = H!Readable(request)
  <2>1. H!Log(request.root)' = Pinned /\ H!Log(request.root) = Pinned
    BY <1>8 DEF Pinned
  <2>3. \A n \in DOMAIN Pinned : Pinned[n] \in D
    BY PinnedIs
  <2>4. {n \in DOMAIN Pinned : ~ H!Valid(Pinned[n])}' = {n \in DOMAIN Pinned : ~ H!Valid(Pinned[n])}
    BY <1>3, <1>8, <2>3
  <2>5. {n \in DOMAIN Pinned : commits[Pinned[n]].parents # <<>>
                                  /\ ~ H!Valid(commits[Pinned[n]].parents[1])}'
            = {n \in DOMAIN Pinned : commits[Pinned[n]].parents # <<>>
                                  /\ ~ H!Valid(commits[Pinned[n]].parents[1])}
    BY <1>1, <1>2, <1>3, <1>8, <2>3
  <2> QED
    BY <2>1, <2>4, <2>5, <1>8 DEF H!Readable
<1>11. H!HistoryOf(request)' = H!HistoryOf(request)
  <2>1. H!Log(request.root)' = Pinned /\ H!Log(request.root) = Pinned
    BY <1>8 DEF Pinned
  <2>2. H!Cardinality(H!Readable(request)) \in 0 .. Len(Pinned) /\ Len(Pinned) \in Nat
    BY ReadableIs, PinnedIs
  <2>3. \A n \in 1 .. H!Cardinality(H!Readable(request)) :
            H!Entries(request, Pinned[n])' = H!Entries(request, Pinned[n])
    BY <1>7, <1>8, <2>2, PinnedIs
  <2> QED
    BY <1>10, <2>1, <2>3, <1>8 DEF H!HistoryOf
<1>12. H!DiffOf(request)' = H!DiffOf(request)
  BY <1>1, <1>3, <1>4 DEF H!DiffOf, H!Filtered
<1> QED
  BY <1>2, <1>5, <1>6, <1>7, <1>8, <1>9, <1>11, <1>12 DEF Given

\* A page takes up the list where the one before it stopped.
LEMMA NextItems ==
    ASSUME NEW T, NEW I \in Seq(T), NEW a \in 0 .. Len(I), NEW e \in a .. Len(I)
    PROVE  /\ SubSeq(I, 1, a) = [n \in 1 .. a |-> I[n]]
           /\ SubSeq(I, 1, a) \o [n \in 1 .. (e - a) |-> I[a + n]] = SubSeq(I, 1, e)
<1>1. Len(I) \in Nat /\ a \in Nat /\ e \in Nat /\ a <= e
  OBVIOUS
<1>2. SubSeq(I, 1, a) \o SubSeq(I, a + 1, e) = SubSeq(I, 1, e)
  <2>1. 1 \in 1 .. Len(I) + 1 /\ a \in 1 - 1 .. Len(I) /\ e \in a .. Len(I)
    BY <1>1
  <2> QED
    BY <2>1, ConcatAdjacentSubSeq
<1>3. SubSeq(I, 1, a) = [n \in 1 .. a |-> I[n]]
  <2>1. \A n \in 1 .. a : SubSeq(I, 1, a)[n] = I[n]
    BY <1>1
  <2>2. SubSeq(I, 1, a) = [n \in 1 .. a |-> SubSeq(I, 1, a)[n]]
    BY <1>1
  <2> QED
    BY <2>1, <2>2
<1>4. SubSeq(I, a + 1, e) = [n \in 1 .. (e - a) |-> I[a + n]]
  <2>1. DOMAIN SubSeq(I, a + 1, e) = 1 .. e - a
    BY <1>1
  <2>2. \A n \in 1 .. e - a : SubSeq(I, a + 1, e)[n] = I[a + n]
    BY <1>1
  <2>3. SubSeq(I, a + 1, e) = [n \in 1 .. (e - a) |-> SubSeq(I, a + 1, e)[n]]
    BY <1>1, <2>1
  <2> QED
    BY <2>2, <2>3
<1> QED
  BY <1>2, <1>3, <1>4

\* The first changes of a commit, and those of one page.
Front(c, q, e) == [n \in 1 .. e |-> [state |-> c, change |-> {q[n]}]]
Page(c, q, a, e) == [n \in 1 .. (e - a) |-> [state |-> c, change |-> {q[a + n]}]]

LEMMA PageAfterPage ==
    ASSUME NEW S, NEW q \in Seq(S), NEW c, NEW a \in 0 .. Len(q), NEW e \in a .. Len(q)
    PROVE  Front(c, q, a) \o Page(c, q, a, e) = Front(c, q, e)
<1> DEFINE I == [n \in 1 .. Len(q) |-> [state |-> c, change |-> {q[n]}]]
           U == {I[n] : n \in 1 .. Len(q)}
<1>0. Len(q) \in Nat /\ a \in Nat /\ e \in Nat /\ a <= e /\ e <= Len(q)
  OBVIOUS
<1>1. \A n \in 1 .. Len(q) : I[n] = [state |-> c, change |-> {q[n]}] /\ I[n] \in U
  OBVIOUS
<1>8. I = [n \in 1 .. Len(q) |-> I[n]] /\ Len(I) = Len(q)
  BY <1>0
<1> HIDE DEF I, U
<1>2. I \in Seq(U)
  BY <1>0, <1>1, <1>8
<1>3. a \in 0 .. Len(I) /\ e \in a .. Len(I) /\ e \in 0 .. Len(I) /\ Len(I) \in e .. Len(I)
  BY <1>0, <1>8
<1>4. /\ SubSeq(I, 1, a) = [n \in 1 .. a |-> I[n]]
      /\ SubSeq(I, 1, a) \o [n \in 1 .. (e - a) |-> I[a + n]] = SubSeq(I, 1, e)
      /\ SubSeq(I, 1, e) = [n \in 1 .. e |-> I[n]]
  BY <1>2, <1>3, NextItems
<1>5. [n \in 1 .. a |-> I[n]] = [n \in 1 .. a |-> [state |-> c, change |-> {q[n]}]]
  <2>1. \A n \in 1 .. a : n \in 1 .. Len(q)
    BY <1>0
  <2> QED
    BY <1>1, <2>1
<1>6. [n \in 1 .. e |-> I[n]] = [n \in 1 .. e |-> [state |-> c, change |-> {q[n]}]]
  <2>1. \A n \in 1 .. e : n \in 1 .. Len(q)
    BY <1>0
  <2> QED
    BY <1>1, <2>1
<1>7. [n \in 1 .. (e - a) |-> I[a + n]]
          = [n \in 1 .. (e - a) |-> [state |-> c, change |-> {q[a + n]}]]
  <2>1. \A n \in 1 .. (e - a) : a + n \in 1 .. Len(q)
    BY <1>0
  <2> QED
    BY <1>1, <2>1
<1> QED
  BY <1>4, <1>5, <1>6, <1>7 DEF Front, Page

\* The place stays when the cursor does.
LEMMA PlaceRests ==
    ASSUME ReadTypes, phase # "idle", HistoryPlace, request' = request,
           \A c \in DOMAIN commits : commits'[c] = commits[c],
           UNCHANGED <<cursor, seen>>
    PROVE  HistoryPlace'
<1>1. Pinned' = Pinned /\ Place' = Place
  BY PinnedRests DEF Place
<1>2. \A n \in 1 .. Len(Pinned) : Pinned[n] \in DOMAIN commits
  BY PinnedIs
<1>3. Place \in 1 .. Len(Pinned) /\ cursor.native \in 0 .. Len(Pinned) /\ Len(Pinned) \in Nat
  BY PinnedIs DEF HistoryPlace
<1>4. Given(Place - 1)' = Given(Place - 1)
  <2>1. \A n : Given(n)' = Given(n)
    BY PinnedRests
  <2> QED
    BY <1>1, <2>1 DEF Given
<1>5. (\A n \in 1 .. Place - 1 : Passes(Pinned[n]))'
  <2>1. \A n \in 1 .. Place - 1 : Passes(Pinned[n])
    BY DEF HistoryPlace
  <2>2. \A c \in DOMAIN commits : Passes(c)' <=> Passes(c)
    BY PinnedRests
  <2>3. \A n \in 1 .. Place - 1 : Passes(Pinned[n])'
    BY <1>1, <1>2, <1>3, <2>1, <2>2 DEF Passes
  <2> QED
    BY <1>1, <2>3
<1>6. CASE cursor.state = 0
  BY <1>1, <1>3, <1>4, <1>5, <1>6 DEF HistoryPlace
<1>7. CASE cursor.state # 0
  <2> DEFINE c == cursor.state
  <2>1. /\ c \in DOMAIN commits /\ c = Pinned[Place] /\ Passes(c) /\ commits[c].parents # <<>>
    BY <1>2, <1>3, <1>7 DEF HistoryPlace
  <2>2. /\ ChangesOf(c)' = ChangesOf(c) /\ (Passes(c)' <=> Passes(c))
        /\ commits'[c].parents = commits[c].parents
        /\ H!Entries(request, c)' = H!Entries(request, c)
    BY <2>1, PinnedRests
  <2>3. cursor' = cursor /\ seen' = seen /\ c' = c
    OBVIOUS
  <2> QED
    BY <1>1, <1>3, <1>4, <1>5, <1>7, <2>1, <2>2, <2>3 DEF HistoryPlace
<1> QED
  BY <1>6, <1>7

LEMMA DiffRests ==
    ASSUME ReadTypes, phase # "idle", DiffPlace, request' = request,
           \A c \in DOMAIN commits : commits'[c] = commits[c],
           UNCHANGED <<cursor, seen, phase>>
    PROVE  DiffPlace'
<1>1. H!DiffOf(request)' = H!DiffOf(request)
  BY PinnedRests
<1> QED
  BY <1>1 DEF DiffPlace

LEMMA ReaderInit ==
    ASSUME H!Init
    PROVE  ReaderInv
<1>1. H!IsRepository(commits)
  BY RepositoriesAssumption DEF H!Init
<1>2. /\ commits \in Seq(H!Range(commits)) /\ commits # <<>>
      /\ \A c \in DOMAIN commits : commits[c].parents \in Seq(1 .. c - 1)
  BY <1>1 DEF H!IsRepository
<1>3. Len(commits) > 0 /\ Len(commits) \in 1 .. Len(commits)
  <2> DEFINE T == H!Range(commits)
  <2>1. commits \in Seq(T)
    BY <1>2
  <2> HIDE DEF T
  <2>2. Len(commits) \in Nat \ {0}
    BY <1>2, <2>1, EmptySeq
  <2> QED
    BY <2>2
<1> QED
  BY <1>2, <1>3 DEF H!Init, ReaderInv, ReadTypes

\* The first page begins at the newest commit, or at the first change.
LEMMA AskStep ==
    ASSUME ReaderInv, H!Ask
    PROVE  ReaderInv'
<1>1. /\ phase = "idle" /\ phase' \in {"between", "refused"}
      /\ cursor = H!Start /\ seen = <<>>
      /\ UNCHANGED <<commits, tip, cursor, seen>>
      /\ request' \in H!Requests
  BY DEF H!Ask, ReaderInv, ReadTypes
<1>2. /\ request'.op \in {"diff", "history"}
      /\ {request'.before, request'.root, request'.anchor} \subseteq 1 .. Len(commits)
  <2>1. tip \in 1 .. Len(commits) /\ Len(commits) \in Nat
    BY CommitsAre DEF ReaderInv, ReadTypes
  <2>2. request'.before \in 1 .. tip /\ request'.root = tip /\ request'.anchor \in 1 .. tip
        /\ request'.op \in {"diff", "history"}
    BY <1>1 DEF H!Requests
  <2> QED
    BY <2>1, <2>2
<1>3. ReadTypes'
  BY <1>1, <1>2 DEF ReaderInv, ReadTypes
<1>4. cursor'.state = 0 /\ cursor'.offset = 0 /\ cursor'.native = 0 /\ cursor'.last = {} /\ seen' = <<>>
  BY <1>1 DEF H!Start
<1>5. CASE request'.op = "diff"
  <2>1. \E S : IsFiniteSet(S) /\ H!DiffOf(request)' = H!Ordered(S)
    <3> DEFINE S == H!Filtered(H!StateOf(request.before), H!StateOf(request.root),
                                request.scope, H!IdentityOf(request))
    <3>1. IsFiniteSet(S')
      BY ChangesAreFinite
    <3>2. H!DiffOf(request)' = H!Ordered(S')
      BY DEF H!DiffOf
    <3> QED
      BY <3>1, <3>2
  <2>2. Len(H!DiffOf(request)') \in Nat /\ DOMAIN H!DiffOf(request)' = 1 .. Len(H!DiffOf(request)')
    BY <2>1, OrderedIs
  <2>3. DiffPlace'
    BY <1>1, <1>4, <2>2 DEF DiffPlace
  <2> QED
    BY <1>1, <1>3, <1>5, <2>3 DEF ReaderInv
<1>6. CASE request'.op = "history"
  <2>1. Pinned' = H!Log(request'.root)
    <3> DEFINE r == request'.root
    <3>1. H!Ancestry(request.root)' = H!Ancestry(r)
      BY <1>1 DEF H!Ancestry
    <3> QED
      BY <3>1 DEF Pinned, H!Log
  <2>2. request'.root \in Nat \ {0}
    BY <1>2
  <2>3. Len(Pinned') \in Nat \ {0}
    BY <2>1, <2>2, LogIs
  <2>4. Place' = 1
    BY <1>4 DEF Place
  <2>5. Given(0)' = <<>>
    BY FlattenNone DEF Given
  <2>6. (Given(Place - 1))' = <<>>
    BY <2>4, <2>5 DEF Given
  <2>7. HistoryPlace'
    BY <1>4, <2>3, <2>4, <2>6 DEF HistoryPlace
  <2> QED
    BY <1>1, <1>3, <1>6, <2>7 DEF ReaderInv
<1> QED
  BY <1>2, <1>5, <1>6

\* The pages of a diff follow one another.
LEMMA TurnStep ==
    ASSUME ReaderInv, H!Turn
    PROVE  ReaderInv'
<1>1. phase = "between" /\ UNCHANGED <<commits, tip, request>>
  BY DEF H!Turn
<1>2. ReadTypes
  BY DEF ReaderInv
<1>3. PICK limit \in Nat \ {0} :
          IF request.op = "diff" THEN H!DiffPage(limit) /\ UNCHANGED room
          ELSE phase' = "reading" /\ room' = limit /\ UNCHANGED <<cursor, seen>>
  <2>1. \A limit \in 1 .. MaxPage : limit \in Nat \ {0}
    BY BoundsAssumption
  <2> QED
    BY <2>1 DEF H!Turn
<1>4. \A c \in DOMAIN commits : commits'[c] = commits[c]
  BY <1>1
<1>5. CASE request.op # "diff"
  <2>1. request.op = "history" /\ HistoryPlace
    BY <1>1, <1>2, <1>5 DEF ReaderInv, ReadTypes
  <2>2. phase' = "reading" /\ room' = limit /\ UNCHANGED <<cursor, seen>>
    BY <1>3, <1>5
  <2>3. HistoryPlace'
    BY <1>1, <1>2, <1>4, <2>1, <2>2, PlaceRests
  <2>4. ReadTypes'
    BY <1>1, <1>2, <2>2 DEF ReadTypes
  <2> QED
    BY <1>1, <2>1, <2>2, <2>3, <2>4 DEF ReaderInv
<1>6. CASE request.op = "diff"
  <2> DEFINE q == H!DiffOf(request)
             at == cursor.offset
             end == H!Least(at + limit, Len(q))
  <2>1. DiffPlace
    BY <1>1, <1>6 DEF ReaderInv
  <2>2. H!DiffOf(request)' = q
    BY <1>1, <1>2, <1>4, PinnedRests
  <2>0. Len(q) \in Nat /\ DOMAIN q = 1 .. Len(q) /\ \E S : q \in Seq(S)
    <3>1. IsFiniteSet(H!Filtered(H!StateOf(request.before), H!StateOf(request.root),
                                 request.scope, H!IdentityOf(request)))
      BY ChangesAreFinite
    <3> QED
      BY <3>1, OrderedIs DEF H!DiffOf
  <2>3. Len(q) \in Nat /\ DOMAIN q = 1 .. Len(q)
    BY <2>0
  <2>4. H!DiffPinned(request) = q
    BY DEF H!DiffPinned
  <2>5. at \in 0 .. Len(q) /\ cursor.last = {q[n] : n \in {at} \cap DOMAIN q}
        /\ seen = [n \in 1 .. at |-> [state |-> 0, change |-> {q[n]}]]
    BY <2>1 DEF DiffPlace
  <2>6. H!Matches(q)
    BY <2>3, <2>5 DEF H!Matches
  <2>7. /\ seen' = seen \o [n \in 1 .. (end - at) |-> [state |-> 0, change |-> {q[at + n]}]]
        /\ cursor' = [cursor EXCEPT !.offset = end, !.last = {q[n] : n \in {end} \cap DOMAIN q}]
        /\ phase' = IF end < Len(q) THEN "between" ELSE "done"
    BY <1>3, <1>6, <2>4, <2>6, ZenonT(60) DEF H!DiffPage
  <2>8. at \in 0 .. Len(q) /\ end \in at .. Len(q) /\ end \in 0 .. Len(q)
    BY <2>3, <2>5 DEF H!Least
  <2>14. ~ (end < Len(q)) => end = Len(q)
    BY <2>3, <2>5 DEF H!Least
  <2> HIDE DEF q, at, end
  <2>9. seen' = [n \in 1 .. end |-> [state |-> 0, change |-> {q[n]}]]
    <3>1. PICK S : q \in Seq(S)
      BY <2>0
    <3>2. Front(0, q, at) \o Page(0, q, at, end) = Front(0, q, end)
      BY <2>8, <3>1, PageAfterPage
    <3> QED
      BY <2>5, <2>7, <3>2 DEF Front, Page
  <2>10. cursor'.offset = end /\ cursor'.last = {q[n] : n \in {end} \cap DOMAIN q}
    BY <2>7
  <2>11. DiffPlace'
    <3>1. phase' = "done" => end = Len(q)
      BY <2>7, <2>14
    <3> QED
      BY <2>2, <2>8, <2>9, <2>10, <3>1 DEF DiffPlace
  <2>12. ReadTypes'
    BY <1>1, <1>2, <2>7 DEF ReadTypes
  <2> QED
    BY <1>1, <1>6, <2>7, <2>11, <2>12 DEF ReaderInv
<1> QED
  BY <1>5, <1>6

\* Nothing that others commit meanwhile disturbs the reader.
LEMMA AdvanceStep ==
    ASSUME ReaderInv, H!Advance
    PROVE  ReaderInv'
<1>1. /\ phase \in {"between", "reading"} /\ phase # "idle"
      /\ UNCHANGED <<request, cursor, room, seen, phase>>
      /\ \E x : commits' = Append(commits, x) /\ x.parents = <<tip>>
      /\ tip' = Len(commits) + 1
  BY DEF H!Advance, H!Commit
<1>2. ReadTypes /\ tip \in 1 .. Len(commits)
  BY DEF ReaderInv, ReadTypes
<1>3. PICK x : commits' = Append(commits, x) /\ x.parents = <<tip>>
  BY <1>1
<1>4. DOMAIN commits = 1 .. Len(commits) /\ Len(commits) \in Nat
  BY <1>2, CommitsAre
<1>5. /\ \A c \in DOMAIN commits : commits'[c] = commits[c]
      /\ commits'[Len(commits) + 1] = x /\ Len(commits') = Len(commits) + 1
      /\ DOMAIN commits' = 1 .. Len(commits) + 1
      /\ commits' \in Seq(H!Range(commits'))
  <2> DEFINE T == H!Range(commits) \cup {x}
  <2>1. commits \in Seq(T) /\ x \in T
    BY <1>2, <1>4 DEF ReadTypes, H!Range
  <2> HIDE DEF T
  <2>2. /\ commits' \in Seq(T) /\ Len(commits') = Len(commits) + 1
        /\ \A c \in 1 .. Len(commits) : commits'[c] = commits[c]
        /\ commits'[Len(commits) + 1] = x
    BY <1>3, <2>1, AppendProperties
  <2>3. DOMAIN commits' = 1 .. Len(commits')
    BY <2>2
  <2>4. commits' \in Seq(H!Range(commits'))
    BY <2>2, <2>3 DEF H!Range
  <2> QED
    BY <1>4, <2>2, <2>3, <2>4
<1>6. \A c \in DOMAIN commits' : commits'[c].parents \in Seq(1 .. c - 1)
  <2>1. TAKE c \in DOMAIN commits'
  <2>2. CASE c \in DOMAIN commits
    BY <1>2, <1>5, <2>2 DEF ReadTypes
  <2>3. CASE c \notin DOMAIN commits
    <3>1. c = Len(commits) + 1 /\ tip \in 1 .. c - 1
      BY <1>2, <1>4, <1>5, <2>3
    <3>2. commits'[c].parents = <<tip>>
      BY <1>3, <1>5, <3>1
    <3> QED
      BY <3>1, <3>2
  <2> QED
    BY <2>2, <2>3
<1>7. ReadTypes'
  <2>1. tip' \in 1 .. Len(commits') /\ Len(commits') > 0
    BY <1>1, <1>4, <1>5
  <2>2. \A c \in 1 .. Len(commits) : c \in 1 .. Len(commits')
    BY <1>4, <1>5
  <2>3. request'.op \in {"diff", "history"}
        /\ {request'.before, request'.root, request'.anchor} \subseteq 1 .. Len(commits')
    BY <1>1, <1>2, <2>2 DEF ReadTypes
  <2>4. phase' \in {"between", "reading"}
    BY <1>1
  <2> QED
    BY <1>5, <1>6, <2>1, <2>3, <2>4 DEF ReadTypes
<1>8. request.op = "diff" /\ phase = "between" => DiffPlace'
  BY <1>1, <1>2, <1>5, DiffRests DEF ReaderInv
<1>9. request.op = "history" => HistoryPlace'
  BY <1>1, <1>2, <1>5, PlaceRests DEF ReaderInv
<1> QED
  BY <1>1, <1>7, <1>8, <1>9 DEF ReaderInv

\* The reader is at its place of the log, and goes on to the next one.
LEMMA PlaceIs ==
    ASSUME ReaderInv, phase = "reading"
    PROVE  /\ request.op = "history" /\ HistoryPlace /\ room \in Nat \ {0}
           /\ Place \in 1 .. Len(Pinned) /\ Len(Pinned) \in Nat \ {0}
           /\ H!Current = Pinned[Place] /\ H!Current \in DOMAIN commits /\ H!Current \in Nat \ {0}
           /\ H!NextNative = IF Place < Len(Pinned) THEN Place + 1 ELSE 0
<1>1. request.op = "history" /\ HistoryPlace /\ room \in Nat \ {0} /\ ReadTypes
  BY DEF ReaderInv
<1>2. Len(Pinned) \in Nat \ {0} /\ \A n \in 1 .. Len(Pinned) : Pinned[n] \in DOMAIN commits
  BY <1>1, PinnedIs
<1>3. Place \in 1 .. Len(Pinned) /\ cursor.native \in 0 .. Len(Pinned)
  BY <1>1 DEF HistoryPlace
<1>4. H!Current = Pinned[Place]
  <2>1. cursor.state # 0 => cursor.state = Pinned[Place]
    BY <1>1 DEF HistoryPlace
  <2>2. cursor.state = 0 => Place = IF cursor.native = 0 THEN 1 ELSE cursor.native
    BY DEF Place
  <2> QED
    BY <2>1, <2>2 DEF H!Current, Pinned
<1>5. H!NextNative = IF Place < Len(Pinned) THEN Place + 1 ELSE 0
  <2>1. CASE cursor.state # 0
    <3>1. H!NextNative = cursor.native
      BY <2>1 DEF H!NextNative
    <3>2. Place = IF cursor.native = 0 THEN Len(Pinned) ELSE cursor.native - 1
      BY <2>1 DEF Place
    <3> QED
      BY <1>2, <1>3, <3>1, <3>2
  <2>2. CASE cursor.state = 0
    <3>1. Place = IF cursor.native = 0 THEN 1 ELSE cursor.native
      BY <2>2 DEF Place
    <3>2. H!NextNative = IF Place < Len(Pinned) THEN Place + 1 ELSE 0
      BY <2>2, <3>1 DEF H!NextNative, Pinned
    <3> QED
      BY <3>2
  <2> QED
    BY <2>1, <2>2
<1>6. \A c \in DOMAIN commits : c \in Nat \ {0}
  BY <1>1, CommitsAre
<1> QED
  BY <1>1, <1>2, <1>3, <1>4, <1>5, <1>6

\* One place further, the history has what the commit there gives.
LEMMA GivenGrows ==
    ASSUME ReadTypes, phase # "idle", NEW n \in 1 .. Len(Pinned)
    PROVE  /\ Given(n) = Given(n - 1) \o H!Entries(request, Pinned[n])
           /\ Given(n - 1) \in Seq(Items) /\ H!Entries(request, Pinned[n]) \in Seq(Items)
<1>1. Len(Pinned) \in Nat
  BY PinnedIs
<1>2. \A m \in 1 .. Len(Pinned) : Each[m] \in Seq(Items)
  BY EachIs
<1>3. n - 1 \in Nat /\ (n - 1) + 1 = n /\ n - 1 \in 0 .. Len(Pinned)
  BY <1>1
<1>4. Each[n] = H!Entries(request, Pinned[n]) /\ Each[n] \in Seq(Items)
  BY EachIs
<1>5. Flat(Each, n) = Flat(Each, n - 1) \o Each[n]
  <2>1. Each[(n - 1) + 1] \in Seq(Items)
    BY <1>3, <1>4
  <2>2. Flat(Each, (n - 1) + 1) = Flat(Each, n - 1) \o Each[(n - 1) + 1]
    BY <1>3, <2>1, FlattenOneMore
  <2> QED
    BY <1>3, <2>2
<1>6. Flat(Each, n - 1) \in Seq(Items)
  BY <1>1, <1>2, <1>3, FlattenBegins
<1> QED
  BY <1>4, <1>5, <1>6 DEF Given

\* A State that is behind the reader.
LEMMA PassedStep ==
    ASSUME ReaderInv, phase = "reading", UNCHANGED <<commits, tip, request>>,
           NEW items, NEW boundary \in BOOLEAN, H!Passed(items, boundary),
           Len(items) \in Nat, Len(items) <= room, seen \o items = Given(Place),
           H!Valid(H!Current), boundary <=> ~ Passes(H!Current)
    PROVE  ReaderInv'
<1>1. /\ seen' = Given(Place) /\ room' = room - Len(items)
      /\ cursor' = [H!Start EXCEPT !.native = H!NextNative]
      /\ phase' = IF boundary \/ H!NextNative = 0 THEN "done"
                  ELSE IF room = Len(items) THEN "between" ELSE "reading"
  BY DEF H!Passed
<1>2. /\ request.op = "history" /\ HistoryPlace /\ room \in Nat \ {0}
      /\ Place \in 1 .. Len(Pinned) /\ Len(Pinned) \in Nat \ {0}
      /\ H!Current = Pinned[Place] /\ H!Current \in DOMAIN commits
      /\ H!NextNative = IF Place < Len(Pinned) THEN Place + 1 ELSE 0
  BY PlaceIs
<1>3. ReadTypes /\ phase # "idle" /\ \A n \in 1 .. Len(Pinned) : Pinned[n] \in DOMAIN commits
  BY PinnedIs DEF ReaderInv
<1>4. ReadTypes'
  <2>1. phase' \in {"between", "reading", "done"}
    BY <1>1
  <2> QED
    BY <1>3, <2>1 DEF ReadTypes
<1>5. /\ Pinned' = Pinned /\ \A n : Given(n)' = Given(n)
      /\ \A c \in DOMAIN commits : Passes(c)' <=> Passes(c)
      /\ H!HistoryOf(request)' = H!HistoryOf(request)
  BY <1>3, PinnedRests
<1>6. \A n \in 1 .. Place - 1 : Passes(Pinned[n])
  BY <1>2 DEF HistoryPlace
<1>7. CASE boundary \/ H!NextNative = 0
  <2>1. PICK k \in 0 .. Len(Pinned) :
            /\ H!Cardinality(H!Readable(request)) = k
            /\ (\A m \in 1 .. Place : Passes(Pinned[m])) => Place <= k
            /\ ~ Passes(Pinned[Place]) => k = Place
    BY <1>2, <1>3, <1>6, ReadableIs
  <2>2. k = Place
    <3>1. CASE boundary
      BY <1>2, <2>1, <3>1
    <3>2. CASE ~ boundary
      <4>1. \A m \in 1 .. Place : Passes(Pinned[m])
        <5>1. Passes(Pinned[Place])
          BY <1>2, <3>2
        <5>2. \A m \in 1 .. Place : m = Place \/ m \in 1 .. Place - 1
          BY <1>2
        <5> QED
          BY <1>6, <5>1, <5>2
      <4>2. Place = Len(Pinned)
        BY <1>2, <1>7, <3>2
      <4> QED
        BY <1>2, <2>1, <4>1, <4>2
    <3> QED
      BY <3>1, <3>2
  <2>3. seen' = H!HistoryOf(request)'
    BY <1>1, <1>3, <1>5, <2>1, <2>2, HistoryIs
  <2>4. phase' = "done"
    BY <1>1, <1>7
  <2> QED
    BY <1>2, <1>4, <2>3, <2>4 DEF ReaderInv
<1>8. CASE ~ boundary /\ H!NextNative # 0
  <2>1. H!NextNative = Place + 1 /\ Place + 1 \in 1 .. Len(Pinned)
    BY <1>2, <1>8
  <2>2. /\ cursor'.state = 0 /\ cursor'.offset = 0 /\ cursor'.last = {}
        /\ cursor'.native = Place + 1
    BY <1>1, <2>1 DEF H!Start
  <2>3. Place' = Place + 1
    BY <1>2, <2>2 DEF Place
  <2>4. (Given(Place - 1))' = Given(Place)
    <3>1. Place' - 1 = Place
      BY <1>2, <2>3
    <3> QED
      BY <1>5, <3>1 DEF Given
  <2>5. (\A n \in 1 .. Place - 1 : Passes(Pinned[n]))'
    <3>1. \A n \in 1 .. Place' - 1 : n = Place \/ n \in 1 .. Place - 1
      BY <1>2, <2>3
    <3>2. Passes(Pinned[Place])
      BY <1>2, <1>8
    <3>3. \A n \in 1 .. Place' - 1 : n \in 1 .. Len(Pinned) /\ Passes(Pinned[n])
      BY <1>2, <1>6, <3>1, <3>2
    <3>4. \A n \in 1 .. Place' - 1 : Passes(Pinned[n])'
      BY <1>3, <1>5, <3>3 DEF Passes
    <3> QED
      BY <3>4
  <2>6. HistoryPlace'
    <3>1. Place' \in 1 .. Len(Pinned') /\ cursor'.native \in 0 .. Len(Pinned')
      BY <1>2, <1>5, <2>1, <2>2, <2>3
    <3> QED
      BY <1>1, <2>2, <2>4, <2>5, <3>1 DEF HistoryPlace
  <2>7. room' \in Nat /\ (phase' = "reading" => room' \in Nat \ {0})
    BY <1>1, <1>2
  <2>8. phase' \in {"between", "reading"} /\ request'.op = "history"
    BY <1>1, <1>2, <1>8
  <2> QED
    BY <1>4, <2>6, <2>7, <2>8 DEF ReaderInv
<1> QED
  BY <1>7, <1>8

\* What the pages have given of the commit at the place, and what the cursor says of it.
LEMMA PartIs ==
    ASSUME ReaderInv, phase = "reading", NEW c, c = H!Current,
           NEW q, q = H!Ordered(ChangesOf(c)), ~ ShownWhole(c)
    PROVE  /\ q \in Seq(ChangesOf(c)) /\ Len(q) \in Nat /\ Len(q) = H!Cardinality(ChangesOf(c))
           /\ cursor.offset \in 0 .. Len(q) /\ H!Matches(q)
           /\ seen = Given(Place - 1) \o Front(c, q, cursor.offset)
           /\ H!Entries(request, c) = Front(c, q, Len(q))
<1>1. /\ HistoryPlace /\ c = Pinned[Place] /\ Place \in 1 .. Len(Pinned)
      /\ c \in DOMAIN commits /\ c \in Nat \ {0} /\ ReadTypes
  BY PlaceIs DEF ReaderInv
<1>2. q \in Seq(ChangesOf(c)) /\ Len(q) = H!Cardinality(ChangesOf(c)) /\ Len(q) \in Nat
  BY EntriesAre, OrderedIs
<1>3. H!Entries(request, c) = Front(c, q, Len(q))
  BY <1>2, EntriesAre DEF Front
<1>4. Given(Place - 1) \in Seq(Items) /\ H!Entries(request, c) \in Seq(Items)
  BY <1>1, GivenGrows
<1>5. CASE cursor.state = 0
  <2>1. cursor.offset = 0 /\ cursor.last = {} /\ seen = Given(Place - 1)
    BY <1>1, <1>5 DEF HistoryPlace
  <2>2. H!Matches(q)
    BY <1>2, <2>1 DEF H!Matches
  <2>3. Front(c, q, 0) = <<>>
    BY DEF Front
  <2>4. Given(Place - 1) \o <<>> = Given(Place - 1)
    BY <1>4, ConcatEmptySeq
  <2>5. Front(c, q, cursor.offset) = <<>>
    BY <2>1, <2>3
  <2>6. seen = Given(Place - 1) \o Front(c, q, cursor.offset)
    BY <2>1, <2>4, <2>5
  <2>7. cursor.offset \in 0 .. Len(q)
    BY <1>2, <2>1
  <2> QED
    BY <1>2, <1>3, <2>2, <2>6, <2>7
<1>6. CASE cursor.state # 0
  <2>1. /\ c = cursor.state
        /\ cursor.offset \in 1 .. H!Cardinality(ChangesOf(c)) - 1
        /\ cursor.last = {H!Ordered(ChangesOf(c))[cursor.offset]}
        /\ seen = Given(Place - 1) \o SubSeq(H!Entries(request, c), 1, cursor.offset)
    BY <1>1, <1>6 DEF HistoryPlace
  <2>2. cursor.offset \in 1 .. Len(q) /\ cursor.offset \in 0 .. Len(q) /\ cursor.offset <= Len(q)
    BY <1>2, <2>1
  <2>3. DOMAIN q = 1 .. Len(q) /\ {cursor.offset} \cap DOMAIN q = {cursor.offset}
    BY <1>2, <2>2
  <2>4. cursor.last = {q[n] : n \in {cursor.offset} \cap DOMAIN q}
    BY <2>1, <2>3
  <2>5. H!Matches(q)
    BY <2>2, <2>4 DEF H!Matches
  <2> DEFINE I == H!Entries(request, c)
  <2>6. Len(I) = Len(q) /\ \A n \in 1 .. Len(q) : I[n] = [state |-> c, change |-> {q[n]}]
    BY <1>2, <1>3 DEF Front
  <2> HIDE DEF I
  <2>7. SubSeq(I, 1, cursor.offset) = [n \in 1 .. cursor.offset |-> I[n]]
    <3>1. cursor.offset \in 0 .. Len(I) /\ Len(I) \in cursor.offset .. Len(I) /\ I \in Seq(Items)
      BY <1>2, <1>4, <2>2, <2>6 DEF I
    <3> QED
      BY <3>1, NextItems
  <2>8. [n \in 1 .. cursor.offset |-> I[n]]
            = Front(c, q, cursor.offset)
    <3>1. \A n \in 1 .. cursor.offset : n \in 1 .. Len(q)
      BY <1>2, <2>2
    <3> QED
      BY <2>6, <3>1 DEF Front
  <2>9. seen = Given(Place - 1) \o Front(c, q, cursor.offset)
    BY <2>1, <2>7, <2>8 DEF I
  <2> QED
    BY <1>2, <1>3, <2>2, <2>5, <2>9
<1> QED
  BY <1>5, <1>6

\* What a page adds to it.
LEMMA PageOfPart ==
    ASSUME ReaderInv, phase = "reading", NEW c, c = H!Current,
           NEW q, q = H!Ordered(ChangesOf(c)), ~ ShownWhole(c),
           NEW e \in cursor.offset .. Len(q),
           NEW items, items = Page(c, q, cursor.offset, e)
    PROVE  seen \o items = Given(Place - 1) \o SubSeq(H!Entries(request, c), 1, e)
<1> DEFINE a == cursor.offset
           front == Front(c, q, a)
           I == H!Entries(request, c)
<1>1. /\ q \in Seq(ChangesOf(c)) /\ Len(q) \in Nat /\ a \in 0 .. Len(q)
      /\ seen = Given(Place - 1) \o front /\ I = Front(c, q, Len(q))
  BY PartIs
<1>2. Given(Place - 1) \in Seq(Items) /\ I \in Seq(Items)
  <2>1. ReadTypes /\ phase # "idle" /\ Place \in 1 .. Len(Pinned) /\ c = Pinned[Place]
    BY PlaceIs DEF ReaderInv
  <2> QED
    BY <2>1, GivenGrows
<1>3. /\ Len(q) \in Nat /\ a \in Nat /\ e \in Nat /\ e - a \in Nat /\ a <= e /\ e <= Len(q)
      /\ e \in a .. Len(q) /\ a \in 0 .. Len(q)
  BY <1>1
<1>4. Len(I) = Len(q) /\ \A n \in 1 .. Len(q) : I[n] = [state |-> c, change |-> {q[n]}]
  BY <1>1 DEF Front
<1>5. /\ \A n \in 1 .. a : n \in 1 .. Len(q)
      /\ \A n \in 1 .. (e - a) : a + n \in 1 .. Len(q)
  BY <1>3
<1>6. front = [n \in 1 .. a |-> I[n]]
  BY <1>4, <1>5 DEF Front
<1>7. items = [n \in 1 .. (e - a) |-> I[a + n]]
  BY <1>4, <1>5 DEF Page
<1> HIDE DEF front, I, a
<1>8. a \in 0 .. Len(I) /\ e \in a .. Len(I)
  BY <1>3, <1>4
<1>9. /\ SubSeq(I, 1, a) = [n \in 1 .. a |-> I[n]]
      /\ SubSeq(I, 1, a) \o [n \in 1 .. (e - a) |-> I[a + n]] = SubSeq(I, 1, e)
  BY <1>2, <1>8, NextItems
<1>10. front \o items = SubSeq(I, 1, e)
  BY <1>6, <1>7, <1>9
<1>11. front \in Seq(Items)
  <2>1. \A n \in 1 .. a : I[n] \in Items
    BY <1>2, <1>4, <1>5
  <2> QED
    BY <1>3, <1>6, <2>1
<1>12. items \in Seq(Items)
  <2>1. \A n \in 1 .. (e - a) : I[a + n] \in Items
    BY <1>2, <1>4, <1>5
  <2>2. PICK k \in Nat : k = e - a
    BY <1>3
  <2>3. items \in [1 .. k -> Items]
    BY <1>7, <2>1, <2>2
  <2> QED
    BY <2>3
<1>13. (Given(Place - 1) \o front) \o items = Given(Place - 1) \o (front \o items)
  <2>1. \A u, v, w \in Seq(Items) : Behind(Behind(u, v), w) = Behind(u, Behind(v, w))
    BY Regrouped, SMT
  <2>2. Behind(Behind(Given(Place - 1), front), items) = Behind(Given(Place - 1), Behind(front, items))
    BY <1>2, <1>11, <1>12, <2>1, SMT
  <2> QED
    BY <2>2 DEF Behind
<1> QED
  BY <1>1, <1>10, <1>13 DEF I

\* A page that is full within a State.
LEMMA StoppedStep ==
    ASSUME ReaderInv, phase = "reading", UNCHANGED <<commits, tip, request>>,
           NEW c, c = H!Current, NEW q, q = H!Ordered(ChangesOf(c)), ~ ShownWhole(c),
           Passes(c), commits[c].parents # <<>>,
           NEW e \in 1 .. Len(q) - 1, cursor.offset <= e,
           NEW items, items = Page(c, q, cursor.offset, e),
           H!Stopped(items, e, q[e])
    PROVE  ReaderInv'
<1>1. Len(q) \in Nat /\ Len(q) = H!Cardinality(ChangesOf(c)) /\ cursor.offset \in 0 .. Len(q)
  BY PartIs, Zenon
<1>2. /\ request.op = "history" /\ HistoryPlace /\ ReadTypes /\ phase # "idle"
      /\ Place \in 1 .. Len(Pinned) /\ Len(Pinned) \in Nat \ {0}
      /\ c = Pinned[Place] /\ c \in DOMAIN commits /\ c \in Nat \ {0}
      /\ H!NextNative = IF Place < Len(Pinned) THEN Place + 1 ELSE 0
  BY PlaceIs DEF ReaderInv
<1>3. /\ seen' = seen \o items /\ room' = 0 /\ phase' = "between"
      /\ cursor' = [state |-> c, offset |-> e, native |-> H!NextNative, last |-> {q[e]}]
  BY DEF H!Stopped
<1>4. /\ Pinned' = Pinned /\ \A n : Given(n)' = Given(n)
      /\ \A d \in DOMAIN commits :
             /\ Passes(d)' <=> Passes(d)
             /\ commits[d].parents # <<>> => ChangesOf(d)' = ChangesOf(d)
             /\ H!Entries(request, d)' = H!Entries(request, d)
  BY <1>2, PinnedRests
<1>5. ReadTypes'
  BY <1>2, <1>3 DEF ReadTypes
<1>6. Place' = Place /\ cursor'.state = c /\ cursor'.offset = e /\ cursor'.last = {q[e]}
      /\ cursor'.native \in 0 .. Len(Pinned)
  <2>1. cursor'.state = c /\ cursor'.offset = e /\ cursor'.last = {q[e]}
        /\ cursor'.native = H!NextNative
    BY <1>3
  <2>2. Place' = IF cursor'.native = 0 THEN Len(Pinned) ELSE cursor'.native - 1
    BY <1>2, <1>4, <2>1 DEF Place
  <2>3. cursor'.native = IF Place < Len(Pinned) THEN Place + 1 ELSE 0
    BY <1>2, <2>1
  <2>4. Place' = Place /\ cursor'.native \in 0 .. Len(Pinned)
    BY <1>2, <2>2, <2>3
  <2> QED
    BY <2>1, <2>4
<1>7. (Given(Place - 1))' = Given(Place - 1)
  BY <1>4, <1>6 DEF Given
<1>8. seen' = Given(Place - 1) \o SubSeq(H!Entries(request, c), 1, e)
  <2>1. e \in cursor.offset .. Len(q)
    BY <1>1
  <2>2. seen \o items = Given(Place - 1) \o SubSeq(H!Entries(request, c), 1, e)
    BY <2>1, PageOfPart
  <2> QED
    BY <1>3, <2>2
<1>9. (\A n \in 1 .. Place - 1 : Passes(Pinned[n]))'
  <2>1. \A n \in 1 .. Place - 1 : n \in 1 .. Len(Pinned) /\ Passes(Pinned[n])
    BY <1>2 DEF HistoryPlace
  <2>2. \A n \in 1 .. Len(Pinned) : Pinned[n] \in DOMAIN commits
    BY <1>2, PinnedIs
  <2>3. \A n \in 1 .. Place' - 1 : Passes(Pinned[n])'
    BY <1>4, <1>6, <2>1, <2>2 DEF Passes
  <2> QED
    BY <2>3
<1>10. HistoryPlace'
  <2>1. /\ ChangesOf(c)' = ChangesOf(c) /\ Passes(c)' /\ commits'[c].parents # <<>>
        /\ H!Entries(request, c)' = H!Entries(request, c)
    <3>1. c \in DOMAIN commits /\ commits' = commits
      BY <1>2
    <3>2. (Passes(c)' <=> Passes(c)) /\ ChangesOf(c)' = ChangesOf(c)
          /\ H!Entries(request, c)' = H!Entries(request, c)
      BY <1>4, <3>1, ZenonT(60)
    <3> QED
      BY <3>1, <3>2
  <2>2. /\ ChangesOf(cursor.state)' = ChangesOf(c) /\ Passes(cursor.state)'
        /\ commits'[cursor'.state].parents # <<>>
        /\ H!Entries(request, cursor.state)' = H!Entries(request, c)
    BY <1>6, <2>1 DEF ChangesOf, Passes, H!Entries
  <2>3. cursor'.offset \in 1 .. H!Cardinality(ChangesOf(cursor.state)') - 1
        /\ cursor'.last = {H!Ordered(ChangesOf(cursor.state)')[cursor'.offset]}
    BY <1>1, <1>6, <2>2
  <2>4. seen' = (Given(Place - 1))' \o SubSeq(H!Entries(request, cursor.state)', 1, cursor'.offset)
    BY <1>6, <1>7, <1>8, <2>2
  <2>5. cursor'.state # 0 /\ cursor'.state = Pinned'[Place']
        /\ Place' \in 1 .. Len(Pinned') /\ cursor'.native \in 0 .. Len(Pinned')
    BY <1>2, <1>4, <1>6
  <2> QED
    BY <1>9, <2>2, <2>3, <2>4, <2>5 DEF HistoryPlace
<1> QED
  BY <1>2, <1>3, <1>5, <1>10 DEF ReaderInv

\* The changes of one State against its first parent.
LEMMA ChangesStep ==
    ASSUME ReaderInv, phase = "reading", UNCHANGED <<commits, tip, request>>,
           H!Valid(H!Current), H!Parents # <<>>, H!Valid(H!Parents[1]), H!VisitChanges
    PROVE  ReaderInv'
<1> DEFINE c == H!Current
           q == H!Ordered(ChangesOf(c))
           e == H!Least(cursor.offset + room, Len(q))
           items == Page(c, q, cursor.offset, e)
<1>1. /\ request.op = "history" /\ HistoryPlace /\ ReadTypes /\ phase # "idle"
      /\ room \in Nat \ {0} /\ Place \in 1 .. Len(Pinned) /\ c = Pinned[Place]
      /\ c \in DOMAIN commits
  BY PlaceIs DEF ReaderInv
<1>2. commits[c].parents # <<>> /\ H!Valid(commits[c].parents[1]) /\ Passes(c)
  BY DEF H!Parents, Passes
<1>3. q = H!Ordered(H!Filtered(H!StateOf(H!Parents[1]), H!StateOf(H!Current),
                               request.scope, H!IdentityOf(request)))
  BY DEF ChangesOf, H!Parents
<1>4. Len(q) \in Nat /\ (q = <<>> <=> ChangesOf(c) = {}) /\ H!Cardinality(ChangesOf(c)) = Len(q)
  <2>1. IsFiniteSet(ChangesOf(c))
    BY EntriesAre
  <2>2. /\ H!Cardinality(ChangesOf(c)) \in Nat /\ (H!Cardinality(ChangesOf(c)) = 0 <=> ChangesOf(c) = {})
        /\ q \in Seq(ChangesOf(c)) /\ Len(q) = H!Cardinality(ChangesOf(c))
    BY <2>1, OrderedIs
  <2> HIDE DEF q
  <2>3. q = <<>> <=> Len(q) = 0
    BY <2>2, EmptySeq
  <2> QED
    BY <2>2, <2>3
<1>5. Given(Place) = Given(Place - 1) \o H!Entries(request, c)
      /\ Given(Place - 1) \in Seq(Items) /\ H!Entries(request, c) \in Seq(Items)
  BY <1>1, GivenGrows
<1>6. IF ~ H!Matches(q) THEN phase' = "refused" /\ UNCHANGED <<cursor, room, seen>>
      ELSE IF q = <<>> /\ request.scope = "all" THEN H!Passed(H!Whole(c), FALSE)
      ELSE IF Len(items) = room /\ e < Len(q) THEN H!Stopped(items, e, q[e])
      ELSE H!Passed(items, FALSE)
  BY <1>3, Zenon DEF H!VisitChanges, Page
<1>7. CASE q = <<>> /\ request.scope = "all"
  <2>1. ShownWhole(c)
    BY <1>4, <1>7 DEF ShownWhole
  <2>2. H!Entries(request, c) = H!Whole(c)
    BY <2>1, EntriesAre
  <2>3. cursor.state = 0
    <3>1. Len(q) = 0
      BY <1>7
    <3>2. cursor.state # 0 => c = cursor.state /\ cursor.offset \in 1 .. H!Cardinality(ChangesOf(c)) - 1
      BY <1>1 DEF HistoryPlace
    <3>3. H!Cardinality(ChangesOf(c)) = 0
      BY <1>4, <3>1
    <3> QED
      BY <3>2, <3>3
  <2>4. cursor.offset = 0 /\ cursor.last = {} /\ seen = Given(Place - 1)
    BY <1>1, <2>3 DEF HistoryPlace
  <2>5. H!Matches(q)
    BY <1>7, <2>4 DEF H!Matches
  <2>6. H!Passed(H!Whole(c), FALSE)
    BY <1>6, <1>7, <2>5
  <2>7. Len(H!Whole(c)) = 1 /\ 1 \in Nat /\ 1 <= room
    BY <1>1 DEF H!Whole
  <2>8. seen \o H!Whole(c) = Given(Place)
    BY <1>5, <2>2, <2>4
  <2> QED
    BY <1>2, <2>6, <2>7, <2>8, PassedStep
<1>8. CASE ~ (q = <<>> /\ request.scope = "all")
  <2>1. ~ ShownWhole(c)
    BY <1>2, <1>4, <1>8 DEF ShownWhole
  <2>2. cursor.offset \in 0 .. Len(q) /\ H!Matches(q) /\ H!Entries(request, c) = Front(c, q, Len(q))
    BY <2>1, PartIs
  <2>3. /\ e \in cursor.offset .. Len(q) /\ e - cursor.offset \in Nat /\ e - cursor.offset <= room
        /\ e = Len(q) \/ e = cursor.offset + room
    BY <1>1, <1>4, <2>2 DEF H!Least
  <2>4. Len(items) = e - cursor.offset
    <3> HIDE DEF e, q, c
    <3> QED
      BY <2>3 DEF Page
  <2>5. seen \o items = Given(Place - 1) \o SubSeq(H!Entries(request, c), 1, e)
    <3> HIDE DEF e
    <3> QED
      BY <2>1, <2>3, PageOfPart, ZenonT(60)
  <2>6. CASE Len(items) = room /\ e < Len(q)
    <3>1. H!Stopped(items, e, q[e])
      BY <1>6, <1>8, <2>2, <2>6
    <3>2. e \in 1 .. Len(q) - 1 /\ cursor.offset <= e
      BY <1>1, <1>4, <2>2, <2>3, <2>4, <2>6
    <3> HIDE DEF e, items
    <3> QED
      BY <1>2, <2>1, <3>1, <3>2, StoppedStep DEF items
  <2>7. CASE ~ (Len(items) = room /\ e < Len(q))
    <3>1. H!Passed(items, FALSE)
      BY <1>6, <1>8, <2>2, <2>7
    <3>2. e = Len(q)
      BY <1>1, <1>4, <2>2, <2>3, <2>4, <2>7
    <3>3. SubSeq(H!Entries(request, c), 1, Len(q)) = H!Entries(request, c)
      <4>1. Len(H!Entries(request, c)) = Len(q)
        BY <1>4, <2>2 DEF Front
      <4> QED
        BY <1>5, <4>1, SubSeqFull
    <3>4. seen \o items = Given(Place)
      BY <1>5, <2>5, <3>2, <3>3
    <3>5. Len(items) \in Nat /\ Len(items) <= room
      BY <2>3, <2>4
    <3> QED
      BY <1>2, <3>1, <3>4, <3>5, PassedStep
  <2> QED
    BY <2>6, <2>7
<1> QED
  BY <1>7, <1>8

LEMMA VisitStep ==
    ASSUME ReaderInv, H!Visit
    PROVE  ReaderInv'
<1> DEFINE c == H!Current
<1>1. phase = "reading" /\ UNCHANGED <<commits, tip, request>>
  BY DEF H!Visit
<1>2. /\ request.op = "history" /\ HistoryPlace /\ ReadTypes /\ phase # "idle"
      /\ room \in Nat \ {0} /\ Place \in 1 .. Len(Pinned) /\ Len(Pinned) \in Nat \ {0}
      /\ c = Pinned[Place] /\ c \in DOMAIN commits
  BY <1>1, PlaceIs DEF ReaderInv
<1>3. H!Parents = commits[c].parents
  BY DEF H!Parents
<1>4. cursor.state # 0 => Passes(c) /\ commits[c].parents # <<>>
  BY <1>2 DEF HistoryPlace
<1>5. Given(Place) = Given(Place - 1) \o H!Entries(request, c)
  BY <1>2, GivenGrows
<1>6. CASE ~ H!Valid(c)
  <2>1. phase' = "done" /\ UNCHANGED <<cursor, room, seen>>
    BY <1>6 DEF H!Visit
  <2>2. ~ Passes(c)
    BY <1>6 DEF Passes
  <2>3. seen = Given(Place - 1)
    BY <1>2, <1>4, <2>2 DEF HistoryPlace
  <2>4. \A n \in 1 .. Place - 1 : Passes(Pinned[n])
    BY <1>2 DEF HistoryPlace
  <2>5. H!Cardinality(H!Readable(request)) = Place - 1
    BY <1>2, <1>6, <2>2, <2>4, ReadableIs
  <2>6. seen = H!HistoryOf(request)
    BY <1>2, <2>3, <2>5, HistoryIs
  <2>7. H!HistoryOf(request)' = H!HistoryOf(request)
    BY <1>1, <1>2, PinnedRests
  <2>8. ReadTypes'
    BY <1>1, <1>2, <2>1 DEF ReadTypes
  <2>9. seen' = H!HistoryOf(request)' /\ phase' = "done" /\ request'.op = "history"
    BY <1>1, <1>2, <2>1, <2>6, <2>7
  <2> QED
    BY <2>8, <2>9 DEF ReaderInv
<1>7. CASE H!Valid(c) /\ (commits[c].parents = <<>> \/ ~ H!Valid(commits[c].parents[1]))
  <2>1. seen = Given(Place - 1)
    BY <1>2, <1>4, <1>7 DEF HistoryPlace, Passes
  <2>2. H!Entries(request, c) = H!Whole(c)
    BY <1>7, EntriesAre DEF ShownWhole
  <2>3. seen \o H!Whole(c) = Given(Place)
    BY <1>5, <2>1, <2>2
  <2>4. Len(H!Whole(c)) = 1 /\ 1 \in Nat /\ 1 <= room
    BY <1>2 DEF H!Whole
  <2>5. CASE commits[c].parents = <<>>
    <3>1. H!Passed(H!Whole(c), FALSE)
      BY <1>3, <1>7, <2>5 DEF H!Visit
    <3>2. Passes(c)
      BY <1>7, <2>5 DEF Passes
    <3> QED
      BY <1>1, <1>7, <2>3, <2>4, <3>1, <3>2, PassedStep
  <2>6. CASE commits[c].parents # <<>>
    <3>1. H!Passed(H!Whole(c), TRUE)
      BY <1>3, <1>7, <2>6 DEF H!Visit
    <3>2. ~ Passes(c)
      BY <1>7, <2>6 DEF Passes
    <3> QED
      BY <1>1, <1>7, <2>3, <2>4, <3>1, <3>2, PassedStep
  <2> QED
    BY <2>5, <2>6
<1>8. CASE H!Valid(c) /\ commits[c].parents # <<>> /\ H!Valid(commits[c].parents[1])
  <2>1. H!VisitChanges
    BY <1>3, <1>8 DEF H!Visit
  <2> QED
    BY <1>1, <1>3, <1>8, <2>1, ChangesStep
<1> QED
  BY <1>6, <1>7, <1>8

LEMMA ReaderStep ==
    ASSUME ReaderInv, H!Next
    PROVE  ReaderInv'
  BY AskStep, TurnStep, VisitStep, AdvanceStep DEF H!Next

LEMMA ReaderStutters ==
    ASSUME ReaderInv, UNCHANGED historyVars
    PROVE  ReaderInv'
<1>1. UNCHANGED <<commits, tip, request, cursor, room, seen, phase>>
  BY DEF historyVars
<1>2. ReadTypes /\ ReadTypes'
  BY <1>1 DEF ReaderInv, ReadTypes
<1>3. CASE phase = "idle"
  BY <1>1, <1>2, <1>3 DEF ReaderInv
<1>4. CASE phase # "idle"
  <2>1. phase \in {"between", "done"} /\ request.op = "diff" => DiffPlace'
    BY <1>1, <1>2, <1>4, DiffRests DEF ReaderInv
  <2>2. phase \in {"between", "reading"} /\ request.op = "history" => HistoryPlace'
    BY <1>1, <1>2, <1>4, PlaceRests DEF ReaderInv
  <2>3. H!HistoryOf(request)' = H!HistoryOf(request)
    BY <1>1, <1>2, <1>4, PinnedRests
  <2> QED
    BY <1>1, <1>2, <2>1, <2>2, <2>3 DEF ReaderInv
<1> QED
  BY <1>3, <1>4

\* What begins a list is a prefix of it.
LEMMA PrefixIs ==
    ASSUME NEW T, NEW s \in Seq(T), NEW r \in Seq(T)
    PROVE  H!IsPrefix(s, s \o r)
<1>1. Len(s \o r) = Len(s) + Len(r) /\ Len(s) \in Nat /\ Len(r) \in Nat /\ s \o r \in Seq(T)
  OBVIOUS
<1>2. Len(s) <= Len(s \o r) /\ Len(s) \in 0 .. Len(s \o r) /\ Len(s) \in Len(s) .. Len(s \o r)
  BY <1>1
<1>3. SubSeq(s \o r, 1, Len(s)) = [n \in 1 .. Len(s) |-> (s \o r)[n]]
      /\ SubSeq(s, 1, Len(s)) = [n \in 1 .. Len(s) |-> s[n]]
  BY <1>1, <1>2, NextItems
<1>4. \A n \in 1 .. Len(s) : (s \o r)[n] = s[n]
  BY <1>1
<1>5. [n \in 1 .. Len(s) |-> (s \o r)[n]] = [n \in 1 .. Len(s) |-> s[n]]
  BY <1>4
<1> QED
  BY <1>2, <1>3, <1>5 DEF H!IsPrefix

\* The pages of a history so far are a prefix of it.
LEMMA PagesBegin ==
    ASSUME ReaderInv, phase = "between", request.op = "history"
    PROVE  H!IsPrefix(seen, H!HistoryOf(request))
<1>1. /\ ReadTypes /\ HistoryPlace /\ phase # "idle"
      /\ Len(Pinned) \in Nat \ {0} /\ Place \in 1 .. Len(Pinned)
  BY PinnedIs DEF ReaderInv, HistoryPlace
<1>2. PICK k \in 0 .. Len(Pinned) :
         /\ H!Cardinality(H!Readable(request)) = k
         /\ \A n \in 1 .. Len(Pinned) : (\A m \in 1 .. n : Passes(Pinned[m])) => n <= k
  BY <1>1, ReadableIs
<1>3. H!HistoryOf(request) = Given(k) /\ k \in Nat
  BY <1>1, <1>2, HistoryIs
<1>4. \A n \in 1 .. k : Each[n] \in Seq(Items)
  <2>1. \A n \in 1 .. k : n \in 1 .. Len(Pinned)
    BY <1>1, <1>2
  <2> QED
    BY <1>1, <2>1, EachIs
<1>5. \A m \in 0 .. k : \E r \in Seq(Items) : Given(m) \in Seq(Items) /\ Given(k) = Given(m) \o r
  BY <1>3, <1>4, FlattenBegins DEF Given
<1>6. \A n \in 1 .. Place - 1 : Passes(Pinned[n])
  BY <1>1 DEF HistoryPlace
<1>7. CASE cursor.state = 0
  <2>1. seen = Given(Place - 1)
    BY <1>1, <1>7 DEF HistoryPlace
  <2>2. Place - 1 \in 0 .. k
    <3>1. CASE Place = 1
      BY <1>3, <3>1
    <3>2. CASE Place # 1
      <4>1. Place - 1 \in 1 .. Len(Pinned)
        BY <1>1, <3>2
      <4>2. Place - 1 <= k
        BY <1>2, <1>6, <4>1
      <4> QED
        BY <1>3, <4>1, <4>2
    <3> QED
      BY <3>1, <3>2
  <2>3. PICK r \in Seq(Items) : Given(Place - 1) \in Seq(Items) /\ Given(k) = Given(Place - 1) \o r
    BY <1>5, <2>2
  <2> QED
    BY <1>3, <2>1, <2>3, PrefixIs
<1>8. CASE cursor.state # 0
  <2> DEFINE c == cursor.state
             I == H!Entries(request, c)
             o == cursor.offset
  <2>1. /\ c = Pinned[Place] /\ Passes(c) /\ commits[c].parents # <<>>
        /\ o \in 1 .. H!Cardinality(ChangesOf(c)) - 1
        /\ seen = Given(Place - 1) \o SubSeq(I, 1, o)
    BY <1>1, <1>8 DEF HistoryPlace
  <2>2. Place \in 0 .. k
    <3>1. \A n \in 1 .. Place : Passes(Pinned[n])
      <4>1. \A n \in 1 .. Place : n \in 1 .. Place - 1 \/ n = Place
        BY <1>1
      <4> QED
        BY <1>6, <2>1, <4>1
    <3>2. Place <= k
      BY <1>1, <1>2, <3>1
    <3> QED
      BY <1>1, <1>3, <3>2
  <2>3. PICK r \in Seq(Items) : Given(k) = Given(Place) \o r
    BY <1>5, <2>2
  <2>4. /\ Given(Place) = Given(Place - 1) \o I
        /\ Given(Place - 1) \in Seq(Items) /\ I \in Seq(Items)
    BY <1>1, <2>1, GivenGrows
  <2>5. o \in 0 .. Len(I) /\ Len(I) \in o .. Len(I)
    <3>1. IsFiniteSet(ChangesOf(c)) /\ H!Cardinality(ChangesOf(c)) \in Nat
          /\ (H!Cardinality(ChangesOf(c)) = 0 <=> ChangesOf(c) = {})
      BY EntriesAre, OrderedIs
    <3>2. H!Cardinality(ChangesOf(c)) # 0
      BY <2>1, <3>1
    <3>3. ~ ShownWhole(c)
      BY <2>1, <3>1, <3>2 DEF ShownWhole, Passes
    <3>4. I = [n \in 1 .. H!Cardinality(ChangesOf(c)) |->
                 [state |-> c, change |-> {H!Ordered(ChangesOf(c))[n]}]]
      BY <3>3, EntriesAre
    <3>5. Len(I) = H!Cardinality(ChangesOf(c))
      BY <3>1, <3>4
    <3>6. o \in 1 .. H!Cardinality(ChangesOf(c)) - 1
      BY <2>1
    <3> HIDE DEF I, c, o
    <3>7. PICK m \in Nat : m = H!Cardinality(ChangesOf(c))
      BY <3>1
    <3>8. o \in 0 .. m /\ m \in o .. m
      BY <3>6, <3>7
    <3> QED
      BY <3>5, <3>7, <3>8
  <2> HIDE DEF I, c, o
  <2>6. PICK t : t = [n \in 1 .. (Len(I) - o) |-> I[o + n]]
    OBVIOUS
  <2>7. SubSeq(I, 1, o) \o t = I
    <3>1. SubSeq(I, 1, o) \o t = SubSeq(I, 1, Len(I))
      BY <2>4, <2>5, <2>6, NextItems
    <3>2. SubSeq(I, 1, Len(I)) = I
      BY <2>4, SubSeqFull
    <3> QED
      BY <3>1, <3>2
  <2>8. t \in Seq(Items) /\ SubSeq(I, 1, o) \in Seq(Items)
    <3>1. Len(I) \in Nat /\ o \in Nat /\ Len(I) - o \in Nat
      BY <2>4, <2>5
    <3>2. \A n \in 1 .. (Len(I) - o) : o + n \in 1 .. Len(I)
      BY <3>1
    <3>3. \A n \in 1 .. (Len(I) - o) : I[o + n] \in Items
      BY <2>4, <3>2
    <3>4. PICK m \in Nat : m = Len(I) - o
      BY <3>1
    <3>5. t \in [1 .. m -> Items]
      BY <2>6, <3>3, <3>4
    <3>6. t \in Seq(Items)
      BY <3>4, <3>5
    <3>7. PICK x : x = [n \in 1 .. o |-> I[n]]
      OBVIOUS
    <3>8. SubSeq(I, 1, o) = x
      BY <2>4, <2>5, <3>7, NextItems
    <3>9. \A n \in 1 .. o : n \in 1 .. Len(I)
      BY <2>5, <3>1
    <3>10. \A n \in 1 .. o : I[n] \in Items
      BY <2>4, <3>9
    <3>11. x \in [1 .. o -> Items]
      BY <3>7, <3>10
    <3>12. x \in Seq(Items)
      BY <3>1, <3>11
    <3> QED
      BY <3>6, <3>8, <3>12
  <2>9. PICK g \in Seq(Items) : g = Given(Place - 1)
    BY <2>4
  <2>10. PICK s \in Seq(Items) : s = SubSeq(I, 1, o)
    BY <2>8
  <2>11. PICK all \in Seq(Items) : all = Given(Place)
    BY <1>5, <2>2
  <2>12. PICK now \in Seq(Items) : now = g \o s
    <3>1. g \o s \in Seq(Items)
      BY <2>9, <2>10
    <3> QED
      BY <3>1
  <2>13. PICK end \in Seq(Items) : end = t \o r
    <3>1. t \o r \in Seq(Items)
      BY <2>3, <2>8
    <3> QED
      BY <3>1
  <2>14. all = g \o I /\ I = s \o t
    BY <2>4, <2>7, <2>9, <2>10, <2>11
  <2>15. all \o r = now \o end
    <3>1. t \in Seq(Items) /\ r \in Seq(Items)
      BY <2>3, <2>8
    <3>2. /\ now = Behind(g, s) /\ I = Behind(s, t)
          /\ end = Behind(t, r) /\ all = Behind(g, I)
      BY <2>12, <2>13, <2>14 DEF Behind
    <3>3. \A u, v, w \in Seq(Items) : Behind(Behind(u, v), w) = Behind(u, Behind(v, w))
      BY Regrouped, SMT
    <3>4. g \in Seq(Items) /\ s \in Seq(Items) /\ now \in Seq(Items)
      BY <2>9, <2>10, <2>12
    <3>5. Behind(now, t) = all
      BY <3>1, <3>2, <3>3, <3>4, SMT
    <3>6. Behind(Behind(now, t), r) = Behind(now, Behind(t, r))
      BY <3>1, <3>3, <3>4, SMT
    <3>7. Behind(all, r) = Behind(now, end)
      BY <3>2, <3>5, <3>6
    <3> QED
      BY <3>7 DEF Behind
  <2>16. seen = now /\ Given(k) = all \o r
    BY <2>1, <2>3, <2>9, <2>10, <2>11, <2>12
  <2>17. H!IsPrefix(now, now \o end)
    BY PrefixIs
  <2> QED
    BY <1>3, <2>15, <2>16, <2>17
<1> QED
  BY <1>7, <1>8

\* The reader's place makes the pages one answer.
LEMMA PagesFit ==
    ASSUME ReaderInv
    PROVE  H!PagesAreOneAnswer
<1>1. phase = "refused" => cursor = H!Start
  BY DEF ReaderInv
<1>2. ASSUME phase = "done"
      PROVE  IF request.op = "history" THEN seen = H!HistoryOf(request)
             ELSE seen = [n \in 1 .. Len(H!DiffOf(request)) |->
                            [state |-> 0, change |-> {H!DiffOf(request)[n]}]]
  <2>1. request.op \in {"diff", "history"}
    BY <1>2 DEF ReaderInv, ReadTypes
  <2>2. CASE request.op = "history"
    BY <1>2, <2>2 DEF ReaderInv
  <2>3. CASE request.op = "diff"
    <3>1. /\ cursor.offset = Len(H!DiffOf(request))
          /\ seen = [n \in 1 .. cursor.offset |-> [state |-> 0, change |-> {H!DiffOf(request)[n]}]]
      BY <1>2, <2>3 DEF ReaderInv, DiffPlace
    <3> QED
      BY <2>3, <3>1
  <2> QED
    BY <2>1, <2>2, <2>3
<1> QED
  BY <1>1, <1>2, PagesBegin DEF H!PagesAreOneAnswer

-----------------------------------------------------------------------------
(* Diff and history: what a diff tells of a Definition.                     *)

\* The owners of an index are some of finitely many Definitions.
LEMMA OwnersAre ==
    ASSUME NEW s, H!IsState(s), s.valid
    PROVE  /\ s.index.owners \subseteq DOMAIN s.definitions /\ DOMAIN s.definitions \subseteq Identities
           /\ s.index.on \in H!On /\ H!Named(s.definitions)
           /\ \A i \in DOMAIN s.definitions :
                  s.definitions[i] \in [name : DefinitionRefs, labels : Nat]
           /\ \A i \in s.index.owners : H!Cardinality(s.index.owners) = 1 <=> s.index.owners = {i}
<1>1. /\ s.index.owners \subseteq DOMAIN s.definitions /\ DOMAIN s.definitions \subseteq Identities
      /\ s.index.on \in H!On /\ H!Named(s.definitions)
      /\ \A i \in DOMAIN s.definitions : s.definitions[i] \in [name : DefinitionRefs, labels : Nat]
  <2>1. /\ DOMAIN s.definitions \subseteq Identities /\ H!Named(s.definitions)
        /\ s.definitions \in [DOMAIN s.definitions -> [name : DefinitionRefs, labels : Nat]]
        /\ s.index \in [owners : SUBSET DOMAIN s.definitions, on : H!On]
    BY DEF H!IsState
  <2>2. s.index.owners \subseteq DOMAIN s.definitions /\ s.index.on \in H!On
    BY <2>1
  <2>3. \A i \in DOMAIN s.definitions : s.definitions[i] \in [name : DefinitionRefs, labels : Nat]
    BY <2>1
  <2> QED
    BY <2>1, <2>2, <2>3
<1>2. IsFiniteSet(s.index.owners)
  <2>1. s.index.owners \subseteq Identities
    BY <1>1
  <2> QED
    BY <2>1, RepositoriesAssumption, FS_Subset
<1>3. ASSUME NEW i \in s.index.owners
      PROVE  H!Cardinality(s.index.owners) = 1 <=> s.index.owners = {i}
  <2>1. H!Cardinality(s.index.owners) = Cardinality(s.index.owners)
    BY HistoryCounts
  <2>2. Cardinality(s.index.owners) = 1 <=> \E x : s.index.owners = {x}
    BY <1>2, FS_Singleton
  <2> QED
    BY <1>3, <2>1, <2>2
<1> QED
  BY <1>1, <1>3

\* A diff for one Definition has a change if the Definition has one, or an
\* index of its that several share.
LEMMA FilteredIs ==
    ASSUME NEW b, NEW a, NEW i \in Identities
    PROVE  H!Filtered(b, a, "object", i) # {} <=>
               \/ H!ObjectChanges(b, a, i) # {}
               \/ H!IndexChanges(b, a) # {} /\ i \in b.index.owners \cup a.index.owners
<1> DEFINE objects == {H!ObjectChanges(b, a, j) : j \in Identities}
<1>1. \A c : H!Scoped(c, "object", i) <=> i \in c.identities
  BY DEF H!Scoped, H!InScope
<1>2. ASSUME NEW j, NEW c \in H!ObjectChanges(b, a, j)
      PROVE  c.identities = {j}
  <2> DEFINE old == b.definitions
             new == a.definitions
  <2>1. CASE j \notin DOMAIN old /\ j \notin DOMAIN new
    BY <1>2, <2>1 DEF H!ObjectChanges
  <2>2. CASE j \in DOMAIN old /\ j \notin DOMAIN new
    <3>1. c = H!Change("delete", "", {j}, {old[j].name}, H!NoRef, {})
      BY <1>2, <2>2 DEF H!ObjectChanges
    <3> QED
      BY <3>1 DEF H!Change
  <2>3. CASE j \notin DOMAIN old /\ j \in DOMAIN new
    <3>1. c = H!Change("add", "", {j}, H!NoRef, {new[j].name}, {})
      BY <1>2, <2>3 DEF H!ObjectChanges
    <3> QED
      BY <3>1 DEF H!Change
  <2>4. CASE j \in DOMAIN old /\ j \in DOMAIN new
    <3>1. c \in IF old[j].name # new[j].name
               THEN {H!Change("rename", "", {j}, {old[j].name}, {new[j].name}, {})}
               ELSE IF old[j].labels = new[j].labels THEN {}
               ELSE {H!Change("restructure", "/labels", {j}, {old[j].name}, {new[j].name}, {})}
      BY <1>2, <2>4 DEF H!ObjectChanges
    <3>2. \/ c = H!Change("rename", "", {j}, {old[j].name}, {new[j].name}, {})
          \/ c = H!Change("restructure", "/labels", {j}, {old[j].name}, {new[j].name}, {})
      BY <3>1
    <3>3. CASE c = H!Change("rename", "", {j}, {old[j].name}, {new[j].name}, {})
      BY <3>3 DEF H!Change
    <3>4. CASE c = H!Change("restructure", "/labels", {j}, {old[j].name}, {new[j].name}, {})
      BY <3>4 DEF H!Change
    <3> QED
      BY <3>2, <3>3, <3>4
  <2> QED
    BY <2>1, <2>2, <2>3, <2>4
<1>3. \A c \in H!IndexChanges(b, a) : c.identities = b.index.owners \cup a.index.owners
  BY DEF H!IndexChanges, H!Change
<1>4. ASSUME NEW c \in H!ElementChanges(b, a)
      PROVE  c.identities = {H!Element}
  <2>1. c = H!Change(IF b.element = 0 THEN "add" ELSE IF a.element = 0 THEN "delete" ELSE "update",
                     IF 0 \in {b.element, a.element} THEN "" ELSE "/properties", {H!Element},
                     IF b.element = 0 THEN H!NoRef ELSE {H!Element},
                     IF a.element = 0 THEN H!NoRef ELSE {H!Element}, {})
    BY <1>4, Zenon DEF H!ElementChanges
  <2> QED
    BY <2>1 DEF H!Change
<1>5. i # H!Element
  BY RepositoriesAssumption
<1>6. H!Changes(b, a) = (UNION objects) \cup H!IndexChanges(b, a) \cup H!ElementChanges(b, a)
  BY DEF H!Changes
<1>7. ASSUME NEW c \in H!Filtered(b, a, "object", i)
      PROVE  \/ H!ObjectChanges(b, a, i) # {}
             \/ H!IndexChanges(b, a) # {} /\ i \in b.index.owners \cup a.index.owners
  <2>1. c \in H!Changes(b, a) /\ i \in c.identities
    BY <1>1 DEF H!Filtered
  <2>2. CASE c \in UNION objects
    <3>1. PICK j \in Identities : c \in H!ObjectChanges(b, a, j)
      BY <2>2
    <3>2. j = i
      BY <1>2, <2>1, <3>1
    <3> QED
      BY <3>1, <3>2
  <2>3. CASE c \in H!IndexChanges(b, a)
    BY <1>3, <2>1, <2>3
  <2>4. CASE c \in H!ElementChanges(b, a)
    BY <1>4, <1>5, <2>1, <2>4
  <2> HIDE DEF objects
  <2> QED
    BY <1>6, <2>1, <2>2, <2>3, <2>4
<1>8. ASSUME NEW c \in H!ObjectChanges(b, a, i)
      PROVE  c \in H!Filtered(b, a, "object", i)
  <2>1. c \in UNION objects
    OBVIOUS
  <2>2. i \in c.identities
    BY <1>2
  <2> QED
    BY <1>1, <1>6, <2>1, <2>2 DEF H!Filtered
<1>9. ASSUME NEW c \in H!IndexChanges(b, a), i \in b.index.owners \cup a.index.owners
      PROVE  c \in H!Filtered(b, a, "object", i)
  <2>1. i \in c.identities
    BY <1>3, <1>9
  <2> HIDE DEF objects
  <2> QED
    BY <1>1, <1>6, <2>1 DEF H!Filtered
<1> QED
  BY <1>7, <1>8, <1>9

\* A Definition has a change of its own if it is not the same in both States.
LEMMA ObjectIs ==
    ASSUME NEW b, H!IsState(b), b.valid, NEW a, H!IsState(a), a.valid, NEW i
    PROVE  H!ObjectChanges(b, a, i) # {} <=>
               \/ i \in DOMAIN b.definitions /\ i \notin DOMAIN a.definitions
               \/ i \notin DOMAIN b.definitions /\ i \in DOMAIN a.definitions
               \/ /\ i \in DOMAIN b.definitions /\ i \in DOMAIN a.definitions
                  /\ b.definitions[i] # a.definitions[i]
<1>1. CASE i \in DOMAIN b.definitions /\ i \in DOMAIN a.definitions
  <2>1. PICK old \in [name : DefinitionRefs, labels : Nat] : old = b.definitions[i]
    BY <1>1, OwnersAre
  <2>2. PICK new \in [name : DefinitionRefs, labels : Nat] : new = a.definitions[i]
    BY <1>1, OwnersAre
  <2>3. old = new <=> old.name = new.name /\ old.labels = new.labels
    BY <2>1, <2>2
  <2>4. H!ObjectChanges(b, a, i) # {} <=> ~ (old.name = new.name /\ old.labels = new.labels)
    BY <1>1, <2>1, <2>2 DEF H!ObjectChanges
  <2> QED
    BY <1>1, <2>1, <2>2, <2>3, <2>4
<1>2. CASE ~ (i \in DOMAIN b.definitions /\ i \in DOMAIN a.definitions)
  BY <1>2 DEF H!ObjectChanges
<1> QED
  BY <1>1, <1>2

\* The name of an owner is among the names the index has, and of no other.
LEMMA RefsAre ==
    ASSUME NEW s, H!IsState(s), s.valid, NEW i \in DOMAIN s.definitions
    PROVE  s.definitions[i].name \in H!Refs(s) <=> i \in s.index.owners
<1>1. /\ s.index.owners \subseteq DOMAIN s.definitions
      /\ \A j, k \in DOMAIN s.definitions : s.definitions[j].name = s.definitions[k].name => j = k
  BY OwnersAre DEF H!Named
<1> QED
  BY <1>1 DEF H!Refs

\* If an index can lie on one place of its own only, what it says of its place
\* tells all: a Definition that had it and has it is shown the same exactly if
\* the index belongs to the same Definitions and says the same.
LEMMA IndexIsShown ==
    ASSUME ~ Moves, NEW b, H!IsState(b), b.valid, NEW a, H!IsState(a), a.valid,
           NEW i \in b.index.owners, i \in a.index.owners, b.definitions[i] = a.definitions[i]
    PROVE  /\ H!Raw(b) = H!Raw(a) => (H!Local(b.index) <=> H!Local(a.index)) /\ H!Refs(b) = H!Refs(a)
           /\ H!Local(b.index) /\ H!Local(a.index) => b.index.on = a.index.on
<1>1. /\ b.index.on \in {"p", "both"} /\ a.index.on \in {"p", "both"}
  BY OwnersAre DEF H!On
<1>2. /\ H!Cardinality(b.index.owners) = 1 <=> b.index.owners = {i}
      /\ H!Cardinality(a.index.owners) = 1 <=> a.index.owners = {i}
  BY OwnersAre
<1>3. H!Refs(b) # {} /\ H!Refs(a) # {}
  BY DEF H!Refs
<1>4. b.index.owners = {i} /\ a.index.owners = {i} => H!Refs(b) = H!Refs(a)
  BY DEF H!Refs
<1>5. \A s : /\ H!Raw(s)[1] = IF H!Local(s.index) \/ H!Cardinality(s.index.owners) = 1 THEN {} ELSE H!Refs(s)
             /\ H!Raw(s)[2] = IF H!Local(s.index) THEN "" ELSE s.index.on
             /\ H!Local(s.index) <=> H!Cardinality(s.index.owners) = 1 /\ s.index.on # "both"
  BY DEF H!Raw, H!Local
<1>6. ASSUME H!Raw(b) = H!Raw(a)
      PROVE  H!Local(b.index) <=> H!Local(a.index)
  <2>1. H!Raw(b)[2] = H!Raw(a)[2]
    BY <1>6
  <2> QED
    BY <1>1, <1>5, <2>1
<1>7. ASSUME H!Raw(b) = H!Raw(a)
      PROVE  H!Refs(b) = H!Refs(a)
  <2>1. H!Raw(b)[1] = H!Raw(a)[1]
    BY <1>7
  <2> QED
    BY <1>2, <1>3, <1>4, <1>5, <2>1
<1>8. H!Local(b.index) /\ H!Local(a.index) => b.index.on = a.index.on
  BY <1>1, <1>5
<1> QED
  BY <1>6, <1>7, <1>8

\* A diff tells of a Definition exactly what changed of it.
LEMMA DiffTells ==
    ASSUME ~ Moves, NEW b, H!IsState(b), b.valid, NEW a, H!IsState(a), a.valid, NEW i \in Identities
    PROVE  H!Shown(b, i) # H!Shown(a, i) <=> H!Filtered(b, a, "object", i) # {}
<1> DEFINE inB == i \in DOMAIN b.definitions
           inA == i \in DOMAIN a.definitions
           ownsB == i \in b.index.owners
           ownsA == i \in a.index.owners
           ofIndex == H!IndexChanges(b, a) # {} /\ (ownsB \/ ownsA)
           indexB == IF ownsB THEN <<IF H!Local(b.index) THEN b.index.on ELSE "own", H!Raw(b)>> ELSE <<>>
           indexA == IF ownsA THEN <<IF H!Local(a.index) THEN a.index.on ELSE "own", H!Raw(a)>> ELSE <<>>
<1>1. H!Filtered(b, a, "object", i) # {} <=> H!ObjectChanges(b, a, i) # {} \/ ofIndex
  BY FilteredIs
<1>2. (ownsB => inB) /\ (ownsA => inA)
  BY OwnersAre
<1>3. H!ObjectChanges(b, a, i) # {} <=>
          \/ (inB /\ ~ inA) \/ (~ inB /\ inA)
          \/ inB /\ inA /\ b.definitions[i] # a.definitions[i]
  BY ObjectIs
<1>4. /\ ~ inB => H!Shown(b, i) = <<>>
      /\ ~ inA => H!Shown(a, i) = <<>>
      /\ inB => H!Shown(b, i) = <<b.definitions[i], indexB>>
      /\ inA => H!Shown(a, i) = <<a.definitions[i], indexA>>
  BY DEF H!Shown
<1>5. CASE ~ inB /\ ~ inA
  BY <1>1, <1>2, <1>3, <1>4, <1>5
<1>6. CASE (inB /\ ~ inA) \/ (~ inB /\ inA)
  <2>1. H!Shown(b, i) # H!Shown(a, i)
    <3> HIDE DEF indexB, indexA, inB, inA
    <3>1. \A x, y : <<x, y>> # <<>>
      OBVIOUS
    <3> QED
      BY <1>4, <1>6, <3>1, Zenon
  <2> QED
    BY <1>1, <1>3, <1>6, <2>1
<1>7. CASE inB /\ inA /\ b.definitions[i] # a.definitions[i]
  <2>1. H!Shown(b, i) # H!Shown(a, i)
    <3> HIDE DEF indexB, indexA, inB, inA
    <3> QED
      BY <1>4, <1>7
  <2> QED
    BY <1>1, <1>3, <1>7, <2>1
<1>8. CASE inB /\ inA /\ b.definitions[i] = a.definitions[i]
  <2>1. H!Shown(b, i) # H!Shown(a, i) <=> indexB # indexA
    <3> HIDE DEF indexB, indexA, inB, inA
    <3> QED
      BY <1>4, <1>8
  <2>2. H!ObjectChanges(b, a, i) = {}
    BY <1>3, <1>8
  <2>3. indexB # indexA <=> ofIndex
    <3>1. ownsB \/ ownsA =>
              (H!IndexChanges(b, a) # {} <=> ~ (H!Refs(b) = H!Refs(a) /\ H!Raw(b) = H!Raw(a)))
      <4>1. ownsB \/ ownsA => H!Refs(b) \cup H!Refs(a) # {}
        BY <1>8, RefsAre
      <4> QED
        BY <4>1 DEF H!IndexChanges
    <3>2. CASE ~ ownsB /\ ~ ownsA
      BY <3>2
    <3>3. CASE (ownsB /\ ~ ownsA) \/ (~ ownsB /\ ownsA)
      <4>1. H!Refs(b) # H!Refs(a)
        <5>1. /\ b.definitions[i].name \in H!Refs(b) <=> ownsB
              /\ a.definitions[i].name \in H!Refs(a) <=> ownsA
          BY <1>8, RefsAre
        <5>2. b.definitions[i].name = a.definitions[i].name
          BY <1>8
        <5> QED
          BY <3>3, <5>1, <5>2
      <4>2. indexB # indexA
        BY <3>3
      <4> QED
        BY <3>1, <3>3, <4>1, <4>2
    <3>4. CASE ownsB /\ ownsA
      <4>1. /\ H!Raw(b) = H!Raw(a) => (H!Local(b.index) <=> H!Local(a.index)) /\ H!Refs(b) = H!Refs(a)
            /\ H!Local(b.index) /\ H!Local(a.index) => b.index.on = a.index.on
        BY <1>8, <3>4, IndexIsShown
      <4>2. indexB = indexA <=> H!Raw(b) = H!Raw(a)
        BY <3>4, <4>1
      <4> QED
        BY <3>1, <3>4, <4>1, <4>2
    <3> QED
      BY <3>2, <3>3, <3>4
  <2> QED
    BY <1>1, <2>1, <2>2, <2>3
<1> QED
  BY <1>5, <1>6, <1>7, <1>8

LEMMA DiffTellsAllOf ==
    ASSUME ~ Moves, ReaderInv
    PROVE  H!DiffTellsAll
<1> SUFFICES ASSUME phase = "idle",
                    NEW b \in {c \in DOMAIN commits : H!Valid(c)},
                    NEW a \in {c \in DOMAIN commits : H!Valid(c)}, NEW i \in Identities
             PROVE  H!Shown(H!StateOf(b), i) # H!Shown(H!StateOf(a), i)
                      <=> H!Filtered(H!StateOf(b), H!StateOf(a), "object", i) # {}
  BY DEF H!DiffTellsAll
<1>1. commits \in Repositories
  BY DEF ReaderInv, ReadTypes
<1>2. \A c \in DOMAIN commits : H!IsState(commits[c].state)
  BY <1>1, RepositoriesAssumption DEF H!IsRepository
<1>3. /\ H!IsState(H!StateOf(b)) /\ H!StateOf(b).valid
      /\ H!IsState(H!StateOf(a)) /\ H!StateOf(a).valid
  BY <1>2 DEF H!Valid, H!StateOf
<1> QED
  BY <1>3, DiffTells

-----------------------------------------------------------------------------
(* The composition.                                                        *)

allVars == <<oauthVars, previewVars, logVars, webVars, historyVars, part>>

IInv ==
    /\ part = "oauth" => BrokerInv /\ BrokerLimits
    /\ part = "preview" => PreviewInv
    /\ LogInv /\ LogFits
    /\ part = "history" => ReaderInv

LEMMA BrokerStutters ==
    ASSUME BrokerInv, BrokerLimits, UNCHANGED oauthVars
    PROVE  BrokerInv' /\ BrokerLimits'
<1> USE DEF oauthVars
<1>1. BrokerInv'
  BY DEF BrokerInv, BrokerTypes, AskedFirst, OneWay, Approved, Of
<1>2. Loading' = Loading
  BY DEF Loading
<1> QED
  BY <1>1, <1>2 DEF BrokerLimits, Fits

LEMMA PreviewStutters ==
    ASSUME PreviewInv, UNCHANGED previewVars
    PROVE  PreviewInv'
<1> USE DEF previewVars
<1>1. PreviewTypes' /\ ReadsItsList'
  BY DEF PreviewInv, PreviewTypes, ReadsItsList
<1> QED
  BY <1>1, CacheRests

LEMMA LogStutters ==
    ASSUME LogInv, LogFits, UNCHANGED logVars
    PROVE  LogInv' /\ LogFits'
<1> USE DEF logVars
<1>1. LogTypes' /\ PlaceIsFree' /\ LogFits'
  BY DEF LogInv, LogTypes, PlaceIsFree, LogFits
<1>2. NextIsNewest'
  BY DEF LogInv, NextIsNewest, In, L!ToSet
<1>3. L!NewestKept'
  BY DEF LogInv, L!NewestKept, L!Kept, L!ToSet
<1> QED
  BY <1>1, <1>2, <1>3 DEF LogInv

LEMMA PartsInit ==
    ASSUME Init
    PROVE  IInv
<1>1. LogInv /\ LogFits
  BY LogInit, LogFitsInit DEF Init
<1>2. part = "oauth" => BrokerInv /\ BrokerLimits
  BY BrokerInit, LimitsInit DEF Init
<1>3. part = "preview" => PreviewInv
  BY PreviewInit DEF Init
<1>4. part = "history" => ReaderInv
  BY ReaderInit DEF Init
<1> QED
  BY <1>1, <1>2, <1>3, <1>4 DEF IInv

LEMMA PartsStep ==
    ASSUME IInv, [Next]_allVars
    PROVE  IInv'
<1>1. part' = part
  BY DEF Next, allVars
<1>2. LogInv' /\ LogFits'
  <2>1. L!Next \/ UNCHANGED logVars
    BY DEF Next, allVars
  <2> QED
    BY <2>1, LogStep, LogFitsStep, LogStutters DEF IInv
<1>3. part = "oauth" => BrokerInv' /\ BrokerLimits'
  <2>1. O!Next \/ UNCHANGED oauthVars
    BY DEF Next, allVars
  <2> QED
    BY <2>1, BrokerStep, LimitsStep, BrokerStutters DEF IInv
<1>4. part = "preview" => PreviewInv'
  <2>1. P!Next \/ UNCHANGED previewVars
    BY DEF Next, allVars
  <2> QED
    BY <2>1, PreviewStep, PreviewStutters DEF IInv
<1>5. part = "history" => ReaderInv'
  <2>1. H!Next \/ UNCHANGED historyVars
    BY DEF Next, allVars
  <2> QED
    BY <2>1, ReaderStep, ReaderStutters DEF IInv
<1> QED
  BY <1>1, <1>2, <1>3, <1>4, <1>5 DEF IInv

\* Each part keeps its own invariant, and no step of another disturbs it.
THEOREM PartsInvariance == Spec => []IInv
<1>1. Init => IInv
  BY PartsInit
<1>2. IInv /\ [Next]_allVars => IInv'
  BY PartsStep
<1> QED
  BY <1>1, <1>2, PTL DEF Spec, allVars

\* The browser sessions of the composition are those of WebSessions.
THEOREM SessionsAreWebSessions == Spec => WP!Spec
<1>1. Init => WP!Init
  BY WebInit DEF Init
<1>2. [Next]_allVars => [WP!Next]_(WP!vars)
  <2>1. UNCHANGED webVars => UNCHANGED WP!vars
    BY DEF webVars, WP!vars, WP!memory
  <2>2. [Next]_allVars => W!Next \/ UNCHANGED webVars
    BY DEF Next, allVars
  <2> QED
    BY <2>1, <2>2, WebStep
<1> QED
  BY <1>1, <1>2, PTL DEF Spec, WP!Spec, allVars

\* Tokens, codes and tickets are what the Web user approved, for the client that
\* asked, and a request has one way forward at most (finishAuthorization,
\* issueToken, issueGrantLocked): no order of the calls makes two grants of one approval.
THEOREM GrantsAreApproved == Spec => []GrantsTrace
<1>1. IInv => GrantsTrace
  BY BrokerGrantsTrace DEF IInv, GrantsTrace
<1> QED
  BY <1>1, PartsInvariance, PTL

\* Every cached view keeps its place in the order, whatever expired (prune): the
\* loop that makes room for a new view always finds an entry to drop (preview).
THEOREM RoomIsFound == Spec => []OrderCovers
<1>1. IInv => OrderCovers
  BY DEF IInv, PreviewInv, OrderCovers
<1> QED
  BY <1>1, PartsInvariance, PTL

\* A preview shows all branches at one moment, however many commits came while
\* it was rendered and whoever rendered beside it (renderPreview).
THEOREM PreviewIsOneMoment == Spec => []ViewIsOneMoment
<1>1. IInv => ViewIsOneMoment
  BY DEF IInv, PreviewInv, ViewIsOneMoment
<1> QED
  BY <1>1, PartsInvariance, PTL

\* The log keeps the newest records in their order, wherever a rotation stops and
\* the process ends (rotate): a file is only ever renamed over a place that is
\* empty or over the oldest one.
THEOREM LogKeepsNewest == Spec => []NewestKept
<1>1. IInv => NewestKept
  BY DEF IInv, LogInv, NewestKept
<1> QED
  BY <1>1, PartsInvariance, PTL

\* However long the history, whatever the limits of the pages and whoever commits
\* to the branch between two of them, the pages of a diff or a history are one
\* answer about the States that the first page pinned: nothing is missing or given
\* twice, and no cursor is refused (evolutionCursor, validatedChangeOffset).
THEOREM PagesFitTogether == Spec => []PagesAreOneAnswer
<1>1. IInv => PagesAreOneAnswer
  BY PagesFit DEF IInv, PagesAreOneAnswer
<1> QED
  BY <1>1, PartsInvariance, PTL

\* As long as an index of one Definition cannot move between its properties, a
\* diff has a change of a Definition exactly if what a read shows of it changed,
\* whatever was renamed and however many Definitions share an index
\* (projectOntologyChanges, projectSharedIndexes).  An index that can move is not
\* told of: the run index_move shows it.
THEOREM DiffIsComplete ==
    ASSUME ~ Moves
    PROVE  Spec => []DiffTellsAll
<1>1. IInv => DiffTellsAll
  BY DiffTellsAllOf DEF IInv, DiffTellsAll
<1> QED
  BY <1>1, PartsInvariance, PTL

\* The file of the sessions and the memory never disagree (saveLocked).
THEOREM SessionsAreTheFile == Spec => []MemoryIsFile
<1>1. WP!Spec => []WP!MemoryIsFile
  BY WebBounds, WP!MemoryStaysFile
<1>2. WP!MemoryIsFile => MemoryIsFile
  BY WebMeans DEF MemoryIsFile
<1> QED
  BY <1>1, <1>2, SessionsAreWebSessions, PTL

\* The newest tokens work as long as their session lives (accessTokenLocked).
THEOREM TokensWork == Spec => []RecentTokensWork
<1>1. WP!Spec => []WP!RecentTokensWork
  BY WebBounds, WP!NewestTokensWork
<1>2. WP!RecentTokensWork => RecentTokensWork
  BY WebMeans DEF RecentTokensWork
<1> QED
  BY <1>1, <1>2, SessionsAreWebSessions, PTL

\* A session that ended is never honoured again (restore, logout).
THEOREM SessionsStayDead == Spec => DeadStaysDead
<1>1. WP!Spec => WP!DeadStaysDead
  BY WebBounds, WP!EndedStaysEnded
<1>2. [\A c \in known : ~WP!Alive(WP!View, c) => ~WP!Alive(WP!View, c)']_(WP!vars)
        => [\A c \in known : ~W!Alive(W!View, c) => ~W!Alive(W!View, c)']_(W!vars)
  <2>1. UNCHANGED WP!vars => UNCHANGED W!vars
    BY DEF WP!vars, W!vars, WP!memory, W!memory
  <2>2. /\ \A c : W!Alive(W!View, c) <=> WP!Alive(WP!View, c)
        /\ \A c : W!Alive(W!View, c)' <=> WP!Alive(WP!View, c)'
    BY DEF W!Alive, WP!Alive, W!View, WP!View
  <2> QED
    BY <2>1, <2>2
<1> QED
  BY <1>1, <1>2, SessionsAreWebSessions, PTL DEF DeadStaysDead, W!DeadStaysDead, WP!DeadStaysDead

\* The types and the limits: no table of the broker grows beyond its limit and
\* no slot of a download is lost (redirectsFor, pruneLocked), the cache and every
\* file of the log stay within theirs, and a restart accepts the session file.
THEOREM LimitsHold == Spec => []TypeOK
<1>1. IInv /\ WP!TypeOK /\ WP!FileLoadable => TypeOK
  BY BrokerTypeOK, PreviewTypeOK, LogTypeOK, WebMeans DEF IInv, TypeOK
<1>2. WP!Spec => []WP!TypeOK
  BY WebBounds, WP!TypeCorrect
<1>3. WP!Spec => []WP!FileLoadable
  BY WebBounds, WP!FileStaysLoadable
<1> QED
  BY <1>1, <1>2, <1>3, PartsInvariance, SessionsAreWebSessions, PTL

=============================================================================
