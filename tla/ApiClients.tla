----------------------------- MODULE ApiClients -----------------------------
(***************************************************************************)
(* API clients, their tokens and the pinned snapshots they page through.   *)
(* Administrators issue, rotate, disable and revoke on any host, consumers *)
(* present any token ever issued, at any time, to any host, and the clocks *)
(* of the hosts are off by at most Skew. rotate reads the clock before its *)
(* transaction, so the expiry it writes may be counted from an old time;   *)
(* authenticate and a snapshot's expiry read the clock when they use it.   *)
(*                                                                         *)
(* A request is an authentication, which rereads client and token, and a   *)
(* handler that works with the credential it returned, whatever has        *)
(* changed since. The snapshot routes are those of the leadership API; the *)
(* personnel API has the same ones. Left out: names, last-used stamps,     *)
(* lifecycle audits, lists, the routes' parsing and rate limits. A cursor  *)
(* carries its snapshot and is signed with the same key, so it admits no   *)
(* page its snapshot would not: the position in the listing is left out.   *)
(***************************************************************************)
EXTENDS Integers, FiniteSets

CONSTANTS
    Client, Token,      \* identifiers and secrets, each used once
    ApiScope,           \* the scopes of API_SCOPES told apart
    Overlap,            \* API_TOKEN_OVERLAP_MS
    Ttl,                \* LEADERSHIP_SNAPSHOT_TTL_MS
    Skew,               \* how far a host's clock is off
    MaxVersion,         \* Number.MAX_SAFE_INTEGER
    Absent,             \* no document, or no expiresAt
    MaxTime, MaxHeld, MaxSnapshots

Leadership == "district-leadership:read"
Contacts == "district-leadership:contacts:read"

(* What parseApiScopes accepts.                                            *)
Grants == {g \in SUBSET ApiScope : g # {} /\ (Contacts \in g => Leadership \in g)}

ClientStatuses == {"Active", "Disabled", "Revoked"}
TokenStatuses == {"Active", "Retiring", "Retired", "Revoked"}
ClientDocument == [status : ClientStatuses, scopes : Grants, version : Nat]
TokenDocument == [client : Client, status : TokenStatuses, expires : Int \cup {Absent}]
Credential == [client : Client, token : Token, scopes : Grants, version : Nat, changes : Nat]
Snapshot == [client : Client, token : Token, scopes : Grants, version : Nat, at : Int]
Page == [snapshot : Snapshot, contacts : BOOLEAN, changes : Nat]

ASSUME BoundsAssumption ==
    Overlap \in Nat /\ Ttl \in Nat /\ Skew \in Nat /\ MaxVersion \in Nat
ASSUME AbsentAssumption == Absent \notin Int \cup ClientDocument \cup TokenDocument

VARIABLES
    clock,      \* the true time
    clients,    \* api_clients
    tokens,     \* api_client_tokens, by token
    held,       \* credentials of requests being served
    snapshots,  \* snapshot tokens ever signed
    pages,      \* history: pages served, and the grants they were served under
    changes,    \* history: how often each client's grants were saved
    deadline    \* history: when each token must be refused by every host

vars == <<clock, clients, tokens, held, snapshots, pages, changes, deadline>>

Init ==
    /\ clock = 0
    /\ clients = [c \in Client |-> Absent]
    /\ tokens = [u \in Token |-> Absent]
    /\ held = {} /\ snapshots = {} /\ pages = {}
    /\ changes = [c \in Client |-> 0]
    /\ deadline = [u \in Token |-> Absent]

Reading == clock - Skew .. clock + Skew     \* of some host, now
EarlierReading == -Skew .. clock + Skew     \* of some host, until now

Tick ==
    /\ clock < MaxTime /\ clock' = clock + 1
    /\ UNCHANGED <<clients, tokens, held, snapshots, pages, changes, deadline>>

-----------------------------------------------------------------------------
Known(c) == clients[c] # Absent
Owned(c) == {u \in Token : tokens[u] # Absent /\ tokens[u].client = c}

TokenIsActive(token, now) ==
    /\ token.status \in {"Active", "Retiring"}
    /\ token.expires # Absent => token.expires > now

FaultyEarlierTimestamp(existing, maximum) == maximum    \* a new overlap each time
EarlierTimestamp(existing, maximum) ==
    IF existing # Absent /\ existing < maximum THEN existing ELSE maximum

Create(c, u, scopes) ==
    /\ ~Known(c) /\ tokens[u] = Absent
    /\ clients' = [clients EXCEPT ![c] =
          [status |-> "Active", scopes |-> scopes, version |-> 1]]
    /\ tokens' = [tokens EXCEPT ![u] =
          [client |-> c, status |-> "Active", expires |-> Absent]]
    /\ UNCHANGED <<clock, held, snapshots, pages, changes, deadline>>

ChangeStatus(c, expected, status) ==
    /\ Known(c) /\ clients[c].status = expected
    /\ clients' = [clients EXCEPT ![c].status = status]
    /\ UNCHANGED <<clock, tokens, held, snapshots, pages, changes, deadline>>

Disable(c) == ChangeStatus(c, "Active", "Disabled")
Enable(c) == ChangeStatus(c, "Disabled", "Active")

NextVersion(c) == clients[c].version + 1

(* The administrator's page named the grants it replaces.                  *)
UpdateScopes(c, requested, expected) ==
    /\ Known(c) /\ clients[c].status # "Revoked" /\ clients[c].scopes = expected
    /\ NextVersion(c) <= MaxVersion
    /\ clients' = [clients EXCEPT ![c].scopes = requested, ![c].version = NextVersion(c)]
    /\ changes' = [changes EXCEPT ![c] = @ + 1]
    /\ UNCHANGED <<clock, tokens, held, snapshots, pages, deadline>>

(* What rotate makes of a previous token. The expiry of a token that is    *)
(* retired or revoked is only displayed, and left out.                     *)
Ended(token, status) == [token EXCEPT !.status = status, !.expires = Absent]

Retire(token, atOnce, now) ==
    IF ~TokenIsActive(token, now) THEN token
    ELSE IF atOnce THEN Ended(token, "Retired")
    ELSE [token EXCEPT !.status = "Retiring",
                       !.expires = EarlierTimestamp(token.expires, now + Overlap)]

(* No host may accept a previous token later than this: two clocks come in, *)
(* the one that set the expiry and the one it is compared with.            *)
LastUse(atOnce) == clock + 2 * Skew + IF atOnce THEN 0 ELSE Overlap
Sooner(a, b) == IF a # Absent /\ a <= b THEN a ELSE b

Rotate(c, u, atOnce, now) ==
    /\ Known(c) /\ clients[c].status = "Active" /\ tokens[u] = Absent
    /\ tokens' = [v \in Token |->
          IF v = u THEN [client |-> c, status |-> "Active", expires |-> Absent]
          ELSE IF v \in Owned(c) THEN Retire(tokens[v], atOnce, now)
          ELSE tokens[v]]
    /\ deadline' = [v \in Token |->
          IF v \in Owned(c) THEN Sooner(deadline[v], LastUse(atOnce)) ELSE deadline[v]]
    /\ UNCHANGED <<clock, clients, held, snapshots, pages, changes>>

Revoke(c) ==
    /\ Known(c) /\ clients[c].status # "Revoked"
    /\ clients' = [clients EXCEPT ![c].status = "Revoked"]
    /\ tokens' = [u \in Token |->
          IF u \in Owned(c) THEN Ended(tokens[u], "Revoked") ELSE tokens[u]]
    /\ UNCHANGED <<clock, held, snapshots, pages, changes, deadline>>

-----------------------------------------------------------------------------
Authorizes(u, now) ==
    /\ tokens[u] # Absent
    /\ clients[tokens[u].client].status = "Active"
    /\ TokenIsActive(tokens[u], now)

CredentialOf(u) ==
    LET c == tokens[u].client IN
    [client |-> c, token |-> u, scopes |-> clients[c].scopes,
     version |-> clients[c].version, changes |-> changes[c]]

Authenticate(u, now) ==
    /\ Cardinality(held) < MaxHeld
    /\ Authorizes(u, now)
    /\ held' = held \cup {CredentialOf(u)}
    /\ UNCHANGED <<clock, clients, tokens, snapshots, pages, changes, deadline>>

(* A request ends: refused, failed, or answered by another route.          *)
End(q) ==
    /\ q \in held /\ held' = held \ {q}
    /\ UNCHANGED <<clock, clients, tokens, snapshots, pages, changes, deadline>>

OpenSnapshot(q, now) ==
    /\ q \in held /\ held' = held \ {q}
    /\ Leadership \in q.scopes
    /\ Cardinality(snapshots) < MaxSnapshots
    /\ snapshots' = snapshots \cup {[client |-> q.client, token |-> q.token,
          scopes |-> q.scopes, version |-> q.version, at |-> now]}
    /\ UNCHANGED <<clock, clients, tokens, pages, changes, deadline>>

FaultySnapshotValue(s, q) ==      \* bound to the token only
    s.client = q.client /\ s.token = q.token
SnapshotValue(s, q) ==
    /\ s.client = q.client /\ s.token = q.token
    /\ s.scopes = q.scopes /\ s.version = q.version

ReadPage(q, s, now) ==
    /\ q \in held /\ held' = held \ {q}
    /\ Leadership \in q.scopes
    /\ SnapshotValue(s, q)
    /\ s.at <= now /\ now < s.at + Ttl
    /\ pages' = pages \cup {[snapshot |-> s, contacts |-> Contacts \in q.scopes,
                             changes |-> q.changes]}
    /\ UNCHANGED <<clock, clients, tokens, snapshots, changes, deadline>>

-----------------------------------------------------------------------------
Next ==
    \/ Tick
    \/ \E c \in Client :
          \/ \E u \in Token, scopes \in Grants : Create(c, u, scopes)
          \/ Disable(c)
          \/ Enable(c)
          \/ \E requested, expected \in Grants : UpdateScopes(c, requested, expected)
          \/ \E u \in Token, atOnce \in BOOLEAN, now \in EarlierReading :
                Rotate(c, u, atOnce, now)
          \/ Revoke(c)
    \/ \E u \in Token, now \in Reading : Authenticate(u, now)
    \/ \E q \in held :
          \/ End(q)
          \/ \E now \in Reading : OpenSnapshot(q, now)
          \/ \E s \in snapshots, now \in Reading : ReadPage(q, s, now)

Spec == Init /\ [][Next]_vars

-----------------------------------------------------------------------------
(* Every document, credential, snapshot and page is of its kind.           *)
TypeOK ==
    /\ clock \in Nat
    /\ clients \in [Client -> ClientDocument \cup {Absent}]
    /\ tokens \in [Token -> TokenDocument \cup {Absent}]
    /\ held \subseteq Credential /\ snapshots \subseteq Snapshot /\ pages \subseteq Page
    /\ changes \in [Client -> Nat]
    /\ deadline \in [Token -> Int \cup {Absent}]

Accepted(u) == \E now \in Reading : Authorizes(u, now)

(* A token that was ever superseded is refused by every host once its      *)
(* overlap has run out, or at once if it was retired at once, give or take *)
(* the clocks: "Repeated rotations cannot extend an already-running        *)
(* overlap window" (API.md), and neither can a rotation that began long    *)
(* before its transaction ran, nor a host that took the token for expired. *)
OverlapEnds ==
    \A u \in Token : Accepted(u) /\ deadline[u] # Absent => clock < deadline[u]

(* "Revocation is terminal and invalidates every token version" (API.md):  *)
(* whatever else is requested for the client, nothing makes it active      *)
(* again, and no token of it, old or new, is accepted.                     *)
RevocationIsTerminal ==
    [][\A c \in Client : Known(c) /\ clients[c].status = "Revoked" =>
          /\ clients'[c] # Absent /\ clients'[c].status = "Revoked"
          /\ \A u \in Token : (u \in Owned(c))' => ~Accepted(u)']_vars

(* The pages of one snapshot were all served under one saving of the       *)
(* client's grants: a consumer that pages while its grants are changed,    *)
(* even there and back, never joins pages with and without contacts.       *)
SnapshotPagesShareGrants ==
    \A p, q \in pages : p.snapshot = q.snapshot =>
        p.contacts = q.contacts /\ p.changes = q.changes

(* A client that is not revoked has exactly one token without an expiry.   *)
OneCurrentToken ==
    \A c \in Client : Known(c) /\ clients[c].status # "Revoked" =>
        \E u \in Owned(c) : \A v \in Owned(c) : tokens[v].status = "Active" <=> v = u
=============================================================================
