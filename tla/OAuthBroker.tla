---------------------------- MODULE OAuthBroker ----------------------------
(***************************************************************************)
(* The OAuth broker of the MCP server (internal/mcpserver/oauth.go and     *)
(* oauth_flow.go): an authorization request becomes a ticket, the Web user *)
(* turns the ticket into a code, the client turns the code into an access  *)
(* and a refresh token and each refresh token into the next pair.          *)
(*                                                                         *)
(* The tables live in the process and one mutex guards them.  Every        *)
(* handler prunes what has expired before it looks, under that mutex, so   *)
(* that an entry past its time is the same as no entry: Expire removes it. *)
(***************************************************************************)
EXTENDS Naturals, FiniteSets

CONSTANTS
    Clients,
    Requests,        \* authorization requests, each with one ticket at most
    MaxPending,      \* entries of the tickets, codes and documents (128)
    MaxTokens,       \* entries of the access and of the refresh table (256)
    MaxDownloads,    \* client documents fetched at once (8)
    MaxGrants        \* bound: pairs one request is given over time

VARIABLES
    stage,           \* of the handler of a request's first call
    client,          \* the client that made the request
    tickets, codes,  \* sets of requests
    access, refresh, \* sets of grants [request, serial, client]
    documents,       \* clients whose document is cached
    downloads,       \* the counter metadataRequests
    serial,          \* pairs issued for a request
    approved         \* requests the Web user approved

vars == <<stage, client, tickets, codes, access, refresh, documents,
          downloads, serial, approved>>

Grants == [request: Requests, serial: 1 .. MaxGrants, client: Clients]

\* The types, the limits of the tables, and that the counter of downloads is
\* the number of downloads: one that leaked would refuse every later client.
TypeOK ==
    /\ stage \in [Requests -> {"new", "loading", "listed", "asked", "refused"}]
    /\ client \in [Requests -> Clients]
    /\ tickets \subseteq Requests /\ Cardinality(tickets) <= MaxPending
    /\ codes \subseteq Requests /\ Cardinality(codes) <= MaxPending
    /\ access \subseteq Grants /\ Cardinality(access) <= MaxTokens
    /\ refresh \subseteq Grants /\ Cardinality(refresh) <= MaxTokens
    /\ documents \subseteq Clients /\ Cardinality(documents) <= MaxPending
    /\ serial \in [Requests -> 0 .. MaxGrants]
    /\ approved \subseteq Requests
    /\ downloads \in 0 .. MaxDownloads
    /\ downloads = Cardinality({r \in Requests : stage[r] = "loading"})

Init ==
    /\ stage = [r \in Requests |-> "new"]
    /\ client \in [Requests -> Clients]
    /\ tickets = {} /\ codes = {} /\ access = {} /\ refresh = {}
    /\ documents = {} /\ downloads = 0
    /\ serial = [r \in Requests |-> 0]
    /\ approved = {}

-----------------------------------------------------------------------------
\* redirectsFor, up to the fetch: the cached document, a slot, or a refusal.
Begin(r) ==
    /\ stage[r] = "new"
    /\ IF client[r] \in documents
       THEN stage' = [stage EXCEPT ![r] = "listed"] /\ UNCHANGED downloads
       ELSE IF downloads >= MaxDownloads \/ Cardinality(documents) >= MaxPending
       THEN stage' = [stage EXCEPT ![r] = "refused"] /\ UNCHANGED downloads
       ELSE stage' = [stage EXCEPT ![r] = "loading"] /\ downloads' = downloads + 1
    /\ UNCHANGED <<client, tickets, codes, access, refresh, documents, serial, approved>>

\* The document came and is valid; the cache may have filled meanwhile.
Loaded(r) ==
    /\ stage[r] = "loading"
    /\ documents' = IF Cardinality(documents) < MaxPending
                    THEN documents \cup {client[r]} ELSE documents
    /\ downloads' = downloads - 1
    /\ stage' = [stage EXCEPT ![r] = "listed"]
    /\ UNCHANGED <<client, tickets, codes, access, refresh, serial, approved>>

\* Mutant: a failed download keeps its slot.
LoadFailsCounted(r) ==
    /\ stage[r] = "loading"
    /\ stage' = [stage EXCEPT ![r] = "refused"]
    /\ UNCHANGED <<client, tickets, codes, access, refresh, documents, downloads,
                   serial, approved>>

\* The fetch fails, or the document is not that of a client.
LoadFails(r) ==
    /\ stage[r] = "loading"
    /\ downloads' = downloads - 1
    /\ stage' = [stage EXCEPT ![r] = "refused"]
    /\ UNCHANGED <<client, tickets, codes, access, refresh, documents, serial, approved>>

\* A redirect the document does not name is refused, and so is any request
\* while tickets or codes are full.
Ticket(r) ==
    /\ stage[r] = "listed"
    /\ \/ /\ Cardinality(tickets) < MaxPending /\ Cardinality(codes) < MaxPending
          /\ tickets' = tickets \cup {r}
          /\ stage' = [stage EXCEPT ![r] = "asked"]
       \/ stage' = [stage EXCEPT ![r] = "refused"] /\ UNCHANGED tickets
    /\ UNCHANGED <<client, codes, access, refresh, documents, downloads, serial, approved>>

-----------------------------------------------------------------------------
(* The decision of the Web user.  A gone ticket, or codes that are full, *)
(* change nothing.                                                       *)

Deny(r) ==
    /\ r \in tickets
    /\ tickets' = tickets \ {r}
    /\ UNCHANGED <<stage, client, codes, access, refresh, documents, downloads,
                   serial, approved>>

Approve(r) ==
    /\ r \in tickets
    /\ Cardinality(codes) < MaxPending
    /\ tickets' = tickets \ {r}
    /\ codes' = codes \cup {r}
    /\ approved' = approved \cup {r}
    /\ UNCHANGED <<stage, client, access, refresh, documents, downloads, serial>>

-----------------------------------------------------------------------------
(* The token endpoint.  The secret is spent before it is looked at, and *)
(* stays spent when the tables are full.                                *)

IssueGrant(r, c, left) ==
    /\ serial[r] < MaxGrants
    /\ IF Cardinality(access) >= MaxTokens \/ Cardinality(left) >= MaxTokens
       THEN refresh' = left /\ UNCHANGED <<access, serial>>
       ELSE LET g == [request |-> r, serial |-> serial[r] + 1, client |-> c]
            IN  /\ serial' = [serial EXCEPT ![r] = @ + 1]
                /\ access' = access \cup {g}
                /\ refresh' = left \cup {g}

\* Mutant: the code is not bound to the client that asked for it.
ExchangeAnyClient(r, c, matches) ==
    /\ r \in codes
    /\ codes' = codes \ {r}
    /\ IF matches THEN IssueGrant(r, c, refresh) ELSE UNCHANGED <<access, refresh, serial>>
    /\ UNCHANGED <<stage, client, tickets, documents, downloads, approved>>

\* "matches": the redirect is the request's and the verifier fits its challenge.
Exchange(r, c, matches) ==
    /\ r \in codes
    /\ codes' = codes \ {r}
    /\ IF c = client[r] /\ matches
       THEN IssueGrant(r, c, refresh)
       ELSE UNCHANGED <<access, refresh, serial>>
    /\ UNCHANGED <<stage, client, tickets, documents, downloads, approved>>

Refresh(g, c) ==
    /\ g \in refresh
    /\ IF c = g.client
       THEN IssueGrant(g.request, c, refresh \ {g})
       ELSE refresh' = refresh \ {g} /\ UNCHANGED <<access, serial>>
    /\ UNCHANGED <<stage, client, tickets, codes, documents, downloads, approved>>

-----------------------------------------------------------------------------
\* pruneLocked finds an entry past its time.
Expire ==
    /\ \/ /\ \E r \in tickets : tickets' = tickets \ {r}
          /\ UNCHANGED <<codes, access, refresh, documents>>
       \/ /\ \E r \in codes : codes' = codes \ {r}
          /\ UNCHANGED <<tickets, access, refresh, documents>>
       \/ /\ \E g \in access : access' = access \ {g}
          /\ UNCHANGED <<tickets, codes, refresh, documents>>
       \/ /\ \E g \in refresh : refresh' = refresh \ {g}
          /\ UNCHANGED <<tickets, codes, access, documents>>
       \/ /\ \E c \in documents : documents' = documents \ {c}
          /\ UNCHANGED <<tickets, codes, access, refresh>>
    /\ UNCHANGED <<stage, client, downloads, serial, approved>>

\* Nothing of the broker outlives the process.
Restart ==
    /\ stage' = [r \in Requests |-> IF stage[r] \in {"loading", "listed"} THEN "refused"
                                                                          ELSE stage[r]]
    /\ tickets' = {} /\ codes' = {} /\ access' = {} /\ refresh' = {}
    /\ documents' = {} /\ downloads' = 0
    /\ UNCHANGED <<client, serial, approved>>

Next ==
    \/ \E r \in Requests :
           \/ Begin(r) \/ Loaded(r) \/ LoadFails(r) \/ Ticket(r)
           \/ Deny(r) \/ Approve(r)
           \/ \E c \in Clients, matches \in BOOLEAN : Exchange(r, c, matches)
    \/ \E g \in refresh, c \in Clients : Refresh(g, c)
    \/ Expire \/ Restart

Spec == Init /\ [][Next]_vars

-----------------------------------------------------------------------------
\* What the tables hold was approved by the Web user, for the client that asked,
\* and cannot be had twice: a request has one way forward at most, its ticket,
\* its code or one refresh token.  Two would be two grants from one approval.
GrantsTrace ==
    /\ \A r \in Requests :
           Cardinality({g \in refresh : g.request = r})
             + Cardinality({r} \cap tickets) + Cardinality({r} \cap codes) <= 1
    /\ codes \subseteq approved
    /\ \A g \in access \cup refresh :
           g.request \in approved /\ g.client = client[g.request]

=============================================================================
