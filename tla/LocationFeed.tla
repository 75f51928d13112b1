---------------------------- MODULE LocationFeed ----------------------------
(* The Location synchronisation API (v1) and one consumer that keeps a     *)
(* replica of the active Locations, with full passes and deltas, while     *)
(* Locations, the Region and District registry and the custom field        *)
(* definitions change.                                                     *)
(*                                                                         *)
(* Time is counted in the ticks of Firestore's commit clock, at most one   *)
(* commit each; a document's update time reaches the server in Milli, a    *)
(* watermark is a whole Second, and a host's clock is off by up to Skew.   *)
(* Pages and the registry are read at the watermark, definitions and the   *)
(* registry to compare with as they are now. A Location is its number,     *)
(* which stands for everything published of it; the registry and the       *)
(* definitions are values, which their digests name.                       *)
EXTENDS Integers, FiniteSets, FiniteSetsExt

CONSTANTS
    Locations,              \* document ids, numbers in their order
    Numbers,                \* store numbers
    Registries, Fields,     \* contents of the registry, and of the visible definitions
    None,
    Limit,                  \* page size, at least one
    Milli, Second,          \* ticks; a second is whole milliseconds
    Ttl, Skew,
    MaxTime, MaxWrites

Location == [active : BOOLEAN, number : Numbers, written : Nat]
Database == [locations : [Locations -> Location \cup {None}], registry : Registries]
View     == [number : Numbers, registry : Registries, fields : Fields, written : Nat]
Cursor   == [id : Locations, at : Nat, fields : Fields, registry : Registries]

\* Documents have an order, and a second is whole milliseconds.
Measured ==
    /\ Locations \subseteq Nat /\ IsFiniteSet(Locations)
    /\ {Limit, Milli, Second} \subseteq Nat \ {0} /\ Second % Milli = 0

\* Nothing is no number, no published Location and no position in a pass.
Apart == None \notin Int \cup View \cup Cursor

VARIABLES
    clock,      \* commit time
    past,       \* the database as it was at each time up to now
    fields,     \* custom field definitions, read without a snapshot
    replica,    \* the consumer's Locations
    checkpoint, \* what it persisted with them, or None
    stale,      \* a full pass is due: first contact, or a pass was given up
    run,        \* the pass in progress, or None
    writes

vars == <<clock, past, fields, replica, checkpoint, stale, run, writes>>
consumer == <<replica, checkpoint, stale, run>>

Init ==
    /\ clock = 0 /\ writes = 0
    /\ fields \in Fields
    /\ \E r \in Registries, ls \in [Locations -> [active : {TRUE}, number : Numbers, written : {0}]] :
          past = [t \in {0} |-> [locations |-> ls, registry |-> r]]
    /\ replica = [l \in Locations |-> None]
    /\ checkpoint = None /\ stale = TRUE /\ run = None

-----------------------------------------------------------------------------
(* FirestoreDirectoryStore.commit, as far as the feed can tell: a record   *)
(* is set or deleted at the next time, whichever checks the commit makes   *)
(* (DirectoryIntegrity has those).                                         *)
Advance(db) ==
    /\ clock < MaxTime /\ clock' = clock + 1
    /\ past' = [t \in 0 .. clock + 1 |-> IF t \in DOMAIN past THEN past[t] ELSE db]

Tick == Advance(past[clock]) /\ UNCHANGED <<fields, consumer, writes>>

Write == writes < MaxWrites /\ writes' = writes + 1 /\ UNCHANGED consumer

SaveLocation(l, active, number) ==
    /\ Write /\ UNCHANGED fields
    /\ Advance([past[clock] EXCEPT !.locations[l] =
          [active |-> active, number |-> number, written |-> clock + 1]])

DeleteLocation(l) ==
    /\ past[clock].locations[l] # None
    /\ Write /\ UNCHANGED fields
    /\ Advance([past[clock] EXCEPT !.locations[l] = None])

SaveRegistry(r) ==
    /\ Write /\ UNCHANGED fields
    /\ Advance([past[clock] EXCEPT !.registry = r])

SaveFields(f) ==
    /\ Write /\ fields' = f
    /\ Advance(past[clock])

-----------------------------------------------------------------------------
(* The handler of GET /locations.                                          *)
Reading == clock - Skew .. clock + Skew     \* of some host, now

Floor(t, unit) == t - (t % unit)

Present(s) == {l \in Locations : past[s].locations[l] # None}

Conflict(s) ==
    \E l, k \in Present(s) : l # k /\ past[s].locations[l].number = past[s].locations[k].number

(* readPage: the documents after a position, and where the next page       *)
(* begins if there is one.                                                 *)
After(s, id) == {l \in Present(s) : l > id}
PageOf(s, id) == {l \in After(s, id) : Cardinality({k \in After(s, id) : k <= l}) <= Limit}

NextId(s, id) == IF PageOf(s, id) # After(s, id) THEN Max(PageOf(s, id)) ELSE None

(* A request: the filter and the versions it names, and its cursor.        *)
Named(version, current) == version # None => version = current

(* snapshotAt: the cursor's, or this second by the host's clock.           *)
SnapshotOf(cursor, now) == IF cursor # None THEN cursor.at ELSE Floor(now, Second)

(* A snapshot in Firestore's future cannot be read.                        *)
SnapshotServed(s, now) == 0 <= s /\ s <= now /\ now - s <= Ttl /\ s <= clock

FieldsServed(req, cursor, defs) ==
    /\ cursor # None => cursor.fields = defs
    /\ Named(req.fields, defs)

RegistryServed(req, cursor, s) ==
    LET current == IF cursor # None \/ req.registry # None THEN past[clock].registry ELSE past[s].registry
    IN  /\ cursor # None => cursor.registry = past[s].registry /\ cursor.registry = current
        /\ Named(req.registry, past[s].registry) /\ Named(req.registry, current)

(* effectiveUpdatedSince: a delta only for who names both versions.        *)
SinceOf(req) == IF req.fields = None \/ req.registry = None THEN None ELSE req.since

FaultyRecent(written, since) == since = None \/ Floor(written, Milli) > since
Recent(written, since) == since = None \/ Floor(written, Milli) >= since

ViewOf(s, l, defs) ==
    [number |-> past[s].locations[l].number, written |-> past[s].locations[l].written,
     registry |-> past[s].registry, fields |-> defs]

Published(s, id, since) ==
    {l \in PageOf(s, id) :
        /\ past[s].locations[l].active
        /\ Floor(past[s].locations[l].written, Milli) <= s
        /\ Recent(past[s].locations[l].written, since)}

-----------------------------------------------------------------------------
(* The consumer (API.md, Store Manager Synchronization): one pass at a     *)
(* time, a full one on first contact and after a pass that failed.         *)
NoCursor == None
Request(since, f, r) == [since |-> since, fields |-> f, registry |-> r]

Begin(req) ==
    /\ run = None
    /\ run' = [req |-> req, cursor |-> NoCursor, defs |-> None,
               staged |-> [l \in Locations |-> None]]
    /\ UNCHANGED <<clock, past, fields, replica, checkpoint, stale, writes>>

BeginFull == Begin(Request(None, None, None))

(* A delta names the versions of its checkpoint; a consumer from before    *)
(* the versions names none.                                                *)
BeginDelta ==
    /\ checkpoint # None /\ ~stale
    /\ \/ Begin(Request(checkpoint.at, checkpoint.fields, checkpoint.registry))
       \/ Begin(Request(checkpoint.at, None, None))

(* The handler reads the definitions first ...                             *)
ReadFields ==
    /\ run # None /\ run.defs = None
    /\ run' = [run EXCEPT !.defs = fields]
    /\ UNCHANGED <<clock, past, fields, replica, checkpoint, stale, writes>>

(* ... then chooses the snapshot and reads the rest.                       *)
Serves(now) ==
    LET s == SnapshotOf(run.cursor, now) IN
    /\ SnapshotServed(s, now)
    /\ run.req.since # None => run.req.since <= s
    /\ FieldsServed(run.req, run.cursor, run.defs)
    /\ RegistryServed(run.req, run.cursor, s)
    /\ run.cursor = None => ~Conflict(s)

Staged(s, id) ==
    [l \in Locations |->
        IF l \in Published(s, id, SinceOf(run.req)) THEN ViewOf(s, l, run.defs) ELSE run.staged[l]]

Applied(since, staged) ==
    [l \in Locations |-> IF staged[l] # None \/ since = None THEN staged[l] ELSE replica[l]]

(* One step, though the handler awaits in between: the page and the        *)
(* registry are read as they were at s, which is past and does not change, *)
(* so that only the registry now, compared with them, is of this moment.   *)
AnswerPage(now) ==
    LET s == SnapshotOf(run.cursor, now)
        id == IF run.cursor = None THEN -1 ELSE run.cursor.id
        next == NextId(s, id)
    IN
    /\ run # None /\ run.defs # None /\ Serves(now)
    /\ IF next # None
       THEN /\ run' = [run EXCEPT !.staged = Staged(s, id), !.defs = None, !.cursor =
                          [id |-> next, at |-> s, fields |-> run.defs, registry |-> past[s].registry]]
            /\ UNCHANGED <<replica, checkpoint, stale>>
       ELSE /\ run' = None
            /\ replica' = Applied(run.req.since, Staged(s, id))
            /\ checkpoint' = [at |-> s, fields |-> run.defs, registry |-> past[s].registry]
            /\ stale' = IF run.req.since = None THEN FALSE ELSE stale
    /\ UNCHANGED <<clock, past, fields, writes>>

(* Refused, failed, lost or expired: the pass is discarded.                *)
GiveUp ==
    /\ run # None /\ run' = None /\ stale' = TRUE
    /\ UNCHANGED <<clock, past, fields, replica, checkpoint, writes>>

-----------------------------------------------------------------------------
Next ==
    \/ Tick
    \/ \E l \in Locations :
          \/ \E active \in BOOLEAN, number \in Numbers : SaveLocation(l, active, number)
          \/ DeleteLocation(l)
    \/ \E r \in Registries : SaveRegistry(r)
    \/ \E f \in Fields : SaveFields(f)
    \/ BeginFull \/ BeginDelta \/ ReadFields \/ GiveUp
    \/ \E now \in Reading : AnswerPage(now)

Spec == Init /\ [][Next]_vars
-----------------------------------------------------------------------------
TypeOK ==
    /\ clock \in Nat /\ past \in [0 .. clock -> Database] /\ fields \in Fields
    /\ replica \in [Locations -> View \cup {None}]
    /\ checkpoint \in [at : 0 .. clock, fields : Fields, registry : Registries] \cup {None}
    /\ stale \in BOOLEAN /\ writes \in Nat

ActiveAt(l, t) == past[t].locations[l] # None /\ past[t].locations[l].active

ReplicaHoldsWatermark ==
    checkpoint # None =>
        /\ \A l \in Locations : ActiveAt(l, checkpoint.at) =>
              replica[l] = ViewOf(checkpoint.at, l, checkpoint.fields)
        /\ checkpoint.registry = past[checkpoint.at].registry

FullPassIsRoster ==
    (checkpoint' # checkpoint /\ run.req.since = None) =>
        LET s == checkpoint'.at IN
        /\ \A l \in Locations : replica'[l] # None => ActiveAt(l, s)
        /\ \A l, k \in Locations : l # k /\ replica'[l] # None /\ replica'[k] # None =>
              replica'[l].number # replica'[k].number

(* "A consistent historical active roster": after any sequence of passes,  *)
(* whole or given up, the replica holds every Location that was active at  *)
(* the watermark exactly as it was then, under the registry of then and    *)
(* the definitions the checkpoint names, though pages, registry and        *)
(* definitions are read apart and a delta sees only what was written       *)
(* since. Whatever else it holds was retired or deleted meanwhile: a       *)
(* completed full pass lists no Location that was not active, and no two   *)
(* that share a number.                                                    *)
ReplicaTells == ReplicaHoldsWatermark' /\ FullPassIsRoster
=============================================================================
