----------------------------- MODULE ApiProofs ------------------------------
(***************************************************************************)
(* For any Locations, page size, clocks and passes: a record is what it    *)
(* was when it was last written, and up to its cursor a pass has staged    *)
(* what its watermark lists, so what a delta does not list is as the       *)
(* checkpoint had it.                                                      *)
(*                                                                         *)
(* For any clients, tokens, rotations and clocks: every expiry lies a      *)
(* clock's error before the deadline of its token, so a host whose clock   *)
(* is behind still refuses in time; and a version of a client's grants     *)
(* names one saving of them, so the pages of a snapshot share theirs.      *)
(***************************************************************************)
EXTENDS MCApi, FiniteSetTheorems, WellFoundedInduction, TLAPS

-----------------------------------------------------------------------------
(* The synchronised pages. A record is what it was when it was last written.*)
UnwrittenSince ==
    \A t, u \in 0 .. time, l \in Locations : past[u].locations[l] # None =>
        /\ past[u].locations[l].written <= u
        /\ past[u].locations[l].written <= t /\ t <= u => past[t].locations[l] = past[u].locations[l]

Whole(t) == \E k \in Int : t = Milli * k

(* A pass is about one watermark, and a delta is about the checkpoint.      *)
Passes == [req : [since : Int \cup {None}, fields : Fields \cup {None}, registry : Registries \cup {None}],
           cursor : Feed!Cursor \cup {None}, defs : Fields \cup {None},
           staged : [Locations -> Feed!View \cup {None}]]

PassFollows ==
    /\ checkpoint # None => Whole(checkpoint.at)
    /\ run # None =>
        /\ run \in Passes
        /\ run.cursor # None =>
              run.cursor.at <= time /\ Whole(run.cursor.at) /\ ~Feed!Conflict(run.cursor.at)
        /\ run.req.since # None =>
            /\ checkpoint # None /\ run.req.since = checkpoint.at
            /\ run.req.fields \in {None, checkpoint.fields}
            /\ run.req.registry \in {None, checkpoint.registry}

(* What a pass publishes of a watermark.                                    *)
Listed(s, l, since) ==
    /\ l \in Feed!Present(s) /\ past[s].locations[l].active
    /\ Feed!Floor(past[s].locations[l].written, Milli) <= s
    /\ Feed!Recent(past[s].locations[l].written, since)

(* Up to its cursor a pass has staged all of it, and nothing else.          *)
StagedToCursor ==
    run # None => \A l \in Locations : run.staged[l] =
        IF run.cursor # None /\ l <= run.cursor.id /\ Listed(run.cursor.at, l, Feed!SinceOf(run.req))
        THEN Feed!ViewOf(run.cursor.at, l, run.cursor.fields) ELSE None

FeedInv == Feed!TypeOK /\ UnwrittenSince /\ PassFollows /\ StagedToCursor /\ Feed!ReplicaHoldsWatermark

-----------------------------------------------------------------------------
(* Instances of the standard operators.                                     *)
LEMMA SameFinite == \A S : Feed!IsFiniteSet(S) = IsFiniteSet(S)
BY DEF Feed!IsFiniteSet, IsFiniteSet

LEMMA SameCardinality == \A S : Feed!Cardinality(S) = Cardinality(S)
BY DEF Feed!Cardinality, Cardinality

LEMMA Sizes ==
    /\ Locations \subseteq Nat /\ IsFiniteSet(Locations)
    /\ Limit \in Nat \ {0} /\ Milli \in Nat \ {0} /\ Second \in Nat \ {0} /\ Second % Milli = 0
BY FeedAssumption, SameFinite DEF Feed!Measured

LEMMA Nothing == None \notin Int /\ None \notin Feed!View /\ None \notin Feed!Cursor
BY FeedAssumption DEF Feed!Apart

(* Whole units.                                                             *)
LEMMA Division == ASSUME NEW t \in Int, NEW u \in Nat \ {0} PROVE \E k \in Int : t - (t % u) = u * k
OBVIOUS

LEMMA Units ==
    ASSUME NEW t \in Int, NEW u \in Nat \ {0}
    PROVE  /\ Feed!Floor(t, u) \in Int /\ Feed!Floor(t, u) <= t /\ t < Feed!Floor(t, u) + u
           /\ \E k \in Int : Feed!Floor(t, u) = u * k
<1>1. PICK r \in 0 .. u - 1 : t % u = r
  OBVIOUS
<1>2. Feed!Floor(t, u) = t - (t % u)
  BY DEF Feed!Floor
<1>3. Feed!Floor(t, u) = t - r
  BY <1>1, <1>2
<1>4. PICK k \in Int : t - (t % u) = u * k
  BY Division
<1>5. Feed!Floor(t, u) = u * k
  BY <1>2, <1>4
<1> QED BY <1>1, <1>3, <1>5

LEMMA SecondsAreWhole == ASSUME NEW now \in Int PROVE Whole(Feed!Floor(now, Second))
<1>1. PICK k \in Int : Feed!Floor(now, Second) = Second * k
  BY Units, Sizes
<1>2. Second \in Int /\ Milli \in Nat \ {0} /\ Second % Milli = 0
  BY Sizes
<1> DEFINE rest == Second % Milli
<1>5. PICK j \in Int : Second - rest = Milli * j
  <2> HIDE DEF rest
  <2>1. \E j \in Int : Second - (Second % Milli) = Milli * j
    BY <1>2, Division
  <2> QED BY <2>1 DEF rest
<1>3. Second = Milli * j
  <2>1. rest = 0
    BY <1>2
  <2> HIDE DEF rest
  <2> QED BY <1>2, <1>5, <2>1
<1>4. Second * k = Milli * (j * k) /\ j * k \in Int
  BY <1>3, Sizes
<1> QED BY <1>1, <1>4 DEF Whole

\* What was not written since a whole time was written before it.
LEMMA WrittenBefore ==
    ASSUME NEW w \in Int, NEW since \in Int, Whole(since), Feed!Floor(w, Milli) < since PROVE w < since
<1>1. PICK k \in Int : since = Milli * k
  BY DEF Whole
<1>2. PICK j \in Int : Feed!Floor(w, Milli) = Milli * j
  BY Units, Sizes
<1>3. j < k
  BY <1>1, <1>2, Sizes
<1>4. (Milli * j) + Milli <= Milli * k
  BY <1>3, Sizes
<1>5. w < Feed!Floor(w, Milli) + Milli /\ Feed!Floor(w, Milli) \in Int
  BY Units, Sizes
<1> QED BY <1>1, <1>2, <1>4, <1>5, Sizes

(* Pages.                                                                   *)
LEMMA Least == ASSUME NEW S \in SUBSET Nat, S # {} PROVE \E x \in S : \A y \in S : x <= y
<1>1. PICK x \in S : \A y \in S : ~ (<<y, x>> \in OpToRel(<, Nat))
  BY WFMin, NatLessThanWellFounded, Zenon
<1>2. \A y \in S : ~ (y < x)
  BY <1>1, Zenon DEF OpToRel
<1> QED BY <1>2

LEMMA Greatest ==
    ASSUME NEW S \in SUBSET Nat, IsFiniteSet(S), S # {}
    PROVE  Feed!Max(S) \in S /\ \A y \in S : y <= Feed!Max(S)
<1> DEFINE Above(l) == {k \in S : k > l}
<1>1. \A l \in S : IsFiniteSet(Above(l)) /\ Cardinality(Above(l)) \in Nat
  BY FS_Subset, FS_CardinalityType
<1>2. {Cardinality(Above(l)) : l \in S} \in SUBSET Nat /\ {Cardinality(Above(l)) : l \in S} # {}
  BY <1>1
<1>3. PICK x \in S : \A y \in S : Cardinality(Above(x)) <= Cardinality(Above(y))
  <2>1. PICK n \in {Cardinality(Above(l)) : l \in S} : \A k \in {Cardinality(Above(l)) : l \in S} : n <= k
    BY <1>2, Least
  <2> QED BY <2>1
<1>4. ASSUME NEW y \in S, y > x PROVE FALSE
  <2>1. Above(y) \subseteq Above(x) /\ y \in Above(x) /\ y \notin Above(y)
    <3>1. ASSUME NEW k \in S, k > y PROVE k > x
      BY <1>4, <3>1
    <3>2. ~ (y > y)
      OBVIOUS
    <3> QED BY <1>4, <3>1, <3>2
  <2>2. Cardinality(Above(y)) <= Cardinality(Above(x)) /\ Cardinality(Above(x)) # Cardinality(Above(y))
    BY <1>1, <2>1, FS_Subset
  <2> QED BY <1>1, <1>3, <1>4, <2>2
<1>5. \A y \in S : x >= y
  BY <1>4
<1> QED BY <1>5 DEF Feed!Max

(* A page holds the documents after a position, up to where the next one    *)
(* begins, and all of them if there is no next one.                         *)
LEMMA Paged ==
    ASSUME NEW s, NEW id
    PROVE  /\ Feed!PageOf(s, id) \subseteq Feed!After(s, id) /\ Feed!After(s, id) \subseteq Locations
           /\ Feed!NextId(s, id) = None => Feed!PageOf(s, id) = Feed!After(s, id)
           /\ Feed!NextId(s, id) # None =>
                 /\ Feed!NextId(s, id) \in Feed!PageOf(s, id)
                 /\ \A l \in Feed!After(s, id) : l \in Feed!PageOf(s, id) <=> l <= Feed!NextId(s, id)
<1> DEFINE A == Feed!After(s, id)
           P == Feed!PageOf(s, id)
           Upto(l) == {k \in A : k <= l}
<1>1. A \subseteq Locations /\ IsFiniteSet(A) /\ A \in SUBSET Nat
  <2>1. A \subseteq Locations
    BY DEF Feed!After, Feed!Present
  <2> QED BY <2>1, Sizes, FS_Subset
<1>2. P = {l \in A : Cardinality(Upto(l)) <= Limit}
  BY SameCardinality DEF Feed!PageOf
<1>3. \A l : IsFiniteSet(Upto(l)) /\ Cardinality(Upto(l)) \in Nat
  <2>1. ASSUME NEW l PROVE IsFiniteSet(Upto(l)) /\ Cardinality(Upto(l)) \in Nat
    <3>1. Upto(l) \subseteq A
      OBVIOUS
    <3> HIDE DEF A, Upto
    <3> QED BY <1>1, <3>1, FS_Subset, FS_CardinalityType
  <2> HIDE DEF A, Upto
  <2> QED BY <2>1
<1>4. Feed!NextId(s, id) = IF P # A THEN Feed!Max(P) ELSE None
  BY DEF Feed!NextId
<1>5. CASE P = A
  <2> HIDE DEF A, P, Upto
  <2>1. Feed!NextId(s, id) = None
    BY <1>4, <1>5
  <2> QED BY <1>1, <1>5, <2>1 DEF A, P
<1>6. CASE P # A
  <2>1. P \subseteq A /\ A # {}
    <3> HIDE DEF A, P, Upto
    <3> QED BY <1>2, <1>6
  <2>2. P # {}
    <3>1. PICK x \in A : \A y \in A : x <= y
      <4> HIDE DEF A, P, Upto
      <4> QED BY <1>1, <2>1, Least
    <3>2. Upto(x) = {x}
      <4>1. x \in Nat /\ \A k \in A : k \in Nat
        <5> HIDE DEF A, P, Upto
        <5> QED BY <1>1, <3>1
      <4>2. ASSUME NEW k \in A PROVE k <= x <=> k = x
        <5> HIDE DEF A, P, Upto
        <5> QED BY <3>1, <4>1
      <4> HIDE DEF A, P
      <4> QED BY <4>2, Zenon
    <3> HIDE DEF A, P, Upto
    <3>3. Cardinality(Upto(x)) = 1
      BY <3>2, FS_Singleton
    <3> QED BY <1>2, <3>1, <3>3, Sizes
  <2> HIDE DEF A, P
  <2>3. Feed!Max(P) \in P /\ \A y \in P : y <= Feed!Max(P)
    <3>1. IsFiniteSet(P) /\ P \in SUBSET Nat
      BY <1>1, <2>1, FS_Subset
    <3> QED BY <2>2, <3>1, Greatest
  <2>4. Feed!NextId(s, id) = Feed!Max(P) /\ Feed!Max(P) \in Nat /\ None \notin Nat
    <3> HIDE DEF Upto
    <3>1. Feed!NextId(s, id) = Feed!Max(P)
      BY <1>4, <1>6
    <3>2. Feed!Max(P) \in Nat
      BY <1>1, <2>1, <2>3
    <3>3. None \notin Nat
      BY Nothing
    <3> QED BY <3>1, <3>2, <3>3
  <2>5. ASSUME NEW l \in A, l <= Feed!Max(P) PROVE l \in P
    <3>1. Upto(l) \subseteq Upto(Feed!Max(P))
      <4>1. l \in Nat /\ \A k \in A : k \in Nat
        BY <1>1
      <4>2. ASSUME NEW k \in A, k <= l PROVE k <= Feed!Max(P)
        BY <2>4, <2>5, <4>1, <4>2
      <4> QED BY <4>2
    <3>2. Feed!Max(P) \in P /\ Cardinality(Upto(Feed!Max(P))) <= Limit
      <4> HIDE DEF Upto
      <4> QED BY <1>2, <2>3
    <3> HIDE DEF Upto
    <3>3. Cardinality(Upto(l)) <= Cardinality(Upto(Feed!Max(P)))
      BY <1>3, <3>1, FS_Subset
    <3>4. Cardinality(Upto(l)) <= Limit
      BY <1>3, <3>2, <3>3, Sizes
    <3> QED BY <1>2, <2>5, <3>4
  <2>6. \A l \in A : l \in P <=> l <= Feed!NextId(s, id)
    BY <2>3, <2>4, <2>5
  <2> QED BY <1>1, <2>1, <2>3, <2>4, <2>6 DEF A, P
<1> HIDE DEF A, P
<1> QED BY <1>5, <1>6

(* What a page publishes: what its watermark lists, position by position.   *)
LEMMA Publishes ==
    ASSUME NEW s, NEW id, NEW since, NEW l \in Locations
    PROVE  l \in Feed!Published(s, id, since) <=>
              /\ l > id /\ (Feed!NextId(s, id) = None \/ l <= Feed!NextId(s, id))
              /\ Listed(s, l, since)
<1>1. l \in Feed!PageOf(s, id) <=>
        /\ l \in Feed!Present(s) /\ l > id
        /\ Feed!NextId(s, id) = None \/ l <= Feed!NextId(s, id)
  <2>1. l \in Feed!After(s, id) <=> l \in Feed!Present(s) /\ l > id
    BY DEF Feed!After, Feed!Present
  <2> QED BY <2>1, Paged
<1> QED BY <1>1 DEF Feed!Published, Listed

-----------------------------------------------------------------------------
(* The first contact.                                                       *)
LEMMA InitFeed == Feed!Init => FeedInv
<1> SUFFICES ASSUME Feed!Init PROVE FeedInv
  OBVIOUS
<1>1. PICK r \in Registries, ls \in [Locations -> [active : {TRUE}, number : Numbers, written : {0}]] :
         past = [t \in {0} |-> [locations |-> ls, registry |-> r]]
  BY DEF Feed!Init
<1>2. time = 0 /\ writes = 0 /\ fields \in Fields /\ checkpoint = None /\ run = None /\ stale = TRUE
      /\ replica = [l \in Locations |-> None]
  BY DEF Feed!Init
<1>3. 0 .. time = {0} /\ past[0].locations = ls /\ past[0].registry = r
  BY <1>1, <1>2
<1>4. ls \in [Locations -> Feed!Location \cup {None}]
  <2>1. \A l \in Locations : ls[l] \in Feed!Location
    <3>1. ASSUME NEW x \in [active : {TRUE}, number : Numbers, written : {0}] PROVE x \in Feed!Location
      <4>1. {TRUE} \subseteq BOOLEAN /\ {0} \subseteq Nat
        OBVIOUS
      <4>2. x = [active |-> x.active, number |-> x.number, written |-> x.written]
            /\ x.active \in {TRUE} /\ x.number \in Numbers /\ x.written \in {0}
        BY <3>1, Zenon
      <4>3. x.active \in BOOLEAN /\ x.written \in Nat
        BY <4>1, <4>2, Zenon
      <4> QED BY <4>2, <4>3, Zenon DEF Feed!Location
    <3> QED BY <1>1, <3>1
  <2> QED BY <1>1, <2>1
<1>5. past \in [0 .. time -> Feed!Database]
  BY <1>1, <1>3, <1>4 DEF Feed!Database
<1>6. Feed!TypeOK
  BY <1>2, <1>5 DEF Feed!TypeOK
<1>7. \A l \in Locations : past[0].locations[l].written = 0
  BY <1>1, <1>3
<1>8. UnwrittenSince
  <2> SUFFICES ASSUME NEW t \in 0 .. time, NEW u \in 0 .. time, NEW l \in Locations
               PROVE  past[u].locations[l].written <= u /\ past[t].locations[l] = past[u].locations[l]
    BY DEF UnwrittenSince
  <2>1. t = 0 /\ u = 0
    BY <1>2
  <2> QED BY <1>7, <2>1
<1>9. PassFollows /\ StagedToCursor /\ Feed!ReplicaHoldsWatermark
  BY <1>2 DEF PassFollows, StagedToCursor, Feed!ReplicaHoldsWatermark
<1> QED BY <1>6, <1>8, <1>9 DEF FeedInv

-----------------------------------------------------------------------------
(* The Directory changes. What was committed stays as it was then.          *)
Follows(db) ==
    /\ db \in Feed!Database
    /\ \A l \in Locations : db.locations[l] # None =>
          \/ db.locations[l] = past[time].locations[l]
          \/ db.locations[l].written = time + 1

LEMMA AdvanceKeeps ==
    ASSUME FeedInv, NEW db, Follows(db), Feed!Advance(db),
           UNCHANGED <<replica, checkpoint, stale, run>>, fields' \in Fields, writes' \in Nat
    PROVE  FeedInv'
<1>1. /\ time \in Nat /\ time' = time + 1
      /\ past' = [t \in 0 .. time + 1 |-> IF t \in 0 .. time THEN past[t] ELSE db]
  BY DEF FeedInv, Feed!TypeOK, Feed!Advance
<1>2. \A t \in 0 .. time : t \in 0 .. time + 1 /\ past'[t] = past[t]
  BY <1>1
<1>3. past'[time + 1] = db
  BY <1>1
<1>4. Feed!TypeOK'
  <2>1. past' \in [0 .. time' -> Feed!Database]
    BY <1>1 DEF FeedInv, Feed!TypeOK, Follows
  <2>2. checkpoint' \in [at : 0 .. time', fields : Fields, registry : Registries] \cup {None}
    <3>1. checkpoint \in [at : 0 .. time, fields : Fields, registry : Registries] \cup {None}
      BY DEF FeedInv, Feed!TypeOK
    <3>2. 0 .. time \subseteq 0 .. time'
      BY <1>1
    <3> QED BY <3>1, <3>2
  <2>3. replica' \in [Locations -> Feed!View \cup {None}] /\ stale' \in BOOLEAN
    BY DEF FeedInv, Feed!TypeOK
  <2>4. Feed!View' = Feed!View /\ Feed!Database' = Feed!Database
    BY DEF Feed!View, Feed!Database, Feed!Location
  <2> QED BY <1>1, <2>1, <2>2, <2>3 DEF Feed!TypeOK
<1>5. UnwrittenSince'
  <2> SUFFICES ASSUME NEW t \in 0 .. time + 1, NEW u \in 0 .. time + 1, NEW l \in Locations,
                      past'[u].locations[l] # None
               PROVE  /\ past'[u].locations[l].written <= u
                      /\ past'[u].locations[l].written <= t /\ t <= u =>
                            past'[t].locations[l] = past'[u].locations[l]
    BY <1>1 DEF UnwrittenSince
  <2>1. CASE u <= time
    <3>1. u \in 0 .. time /\ (t <= u => t \in 0 .. time)
      BY <1>1, <2>1
    <3>2. past'[u] = past[u] /\ (t <= u => past'[t] = past[t])
      BY <1>2, <3>1
    <3>3. /\ past[u].locations[l].written <= u
          /\ t <= u /\ past[u].locations[l].written <= t => past[t].locations[l] = past[u].locations[l]
      BY <3>1, <3>2, <2>1, <1>1 DEF FeedInv, UnwrittenSince
    <3> QED BY <3>2, <3>3
  <2>2. CASE u > time
    <3>1. u = time + 1 /\ past'[u] = db
      BY <1>1, <1>3, <2>2
    <3>2. CASE db.locations[l] = past[time].locations[l]
      <4>1. time \in 0 .. time /\ past[time].locations[l] # None
        BY <1>1, <3>1, <3>2
      <4>2. past[time].locations[l].written <= time /\ past[time].locations[l].written \in Nat
        BY <4>1 DEF FeedInv, UnwrittenSince, Feed!TypeOK, Feed!Database, Feed!Location
      <4>3. past[time].locations[l].written <= t /\ t <= time =>
               past[t].locations[l] = past[time].locations[l]
        BY <4>1, <1>1 DEF FeedInv, UnwrittenSince
      <4>4. t <= time => past'[t] = past[t]
        BY <1>1, <1>2
      <4>5. t <= time \/ t = u
        BY <1>1, <3>1
      <4>6. past'[u].locations[l] = past[time].locations[l]
        BY <3>1, <3>2
      <4>7. past'[u].locations[l].written <= u
        BY <1>1, <3>1, <4>2, <4>6
      <4>8. ASSUME t <= time, past'[u].locations[l].written <= t
            PROVE past'[t].locations[l] = past'[u].locations[l]
        BY <4>3, <4>4, <4>6, <4>8
      <4> QED BY <4>5, <4>7, <4>8
    <3>3. CASE db.locations[l].written = time + 1
      <4>1. past'[u].locations[l].written = time + 1
        BY <3>1, <3>3
      <4>2. time + 1 <= t => t = u
        BY <1>1, <3>1
      <4> QED BY <1>1, <3>1, <4>1, <4>2
    <3> QED BY <3>1, <3>2, <3>3 DEF Follows
  <2> QED BY <1>1, <2>1, <2>2
<1>6. PassFollows'
  <2>1. ASSUME run # None
        PROVE /\ run' \in Passes'
              /\ run.cursor # None =>
                    run.cursor.at <= time' /\ Whole(run.cursor.at) /\ ~Feed!Conflict(run.cursor.at)'
    <3>1. run \in Passes
      BY <2>1 DEF FeedInv, PassFollows
    <3>2. ASSUME run.cursor # None
          PROVE run.cursor.at <= time' /\ Whole(run.cursor.at) /\ past'[run.cursor.at] = past[run.cursor.at]
                /\ ~Feed!Conflict(run.cursor.at)
      <4>1. run.cursor.at <= time /\ Whole(run.cursor.at) /\ ~Feed!Conflict(run.cursor.at)
        BY <2>1, <3>2 DEF FeedInv, PassFollows
      <4>2. run.cursor \in Feed!Cursor \cup {None}
        BY <3>1 DEF Passes
      <4>3. run.cursor.at \in Nat
        BY <3>2, <4>2 DEF Feed!Cursor
      <4> QED BY <1>1, <1>2, <4>1, <4>3
    <3>3. run.cursor # None => (Feed!Conflict(run.cursor.at)' <=> Feed!Conflict(run.cursor.at))
      BY <3>2 DEF Feed!Conflict, Feed!Present
    <3>4. run' = run /\ Passes' = Passes
      BY DEF Passes, Feed!Cursor, Feed!View
    <3> QED BY <3>1, <3>2, <3>3, <3>4
  <2>2. /\ checkpoint' = checkpoint /\ run' = run
        /\ checkpoint # None => Whole(checkpoint.at)
        /\ run # None /\ run.req.since # None =>
              /\ checkpoint # None /\ run.req.since = checkpoint.at
              /\ run.req.fields \in {None, checkpoint.fields}
              /\ run.req.registry \in {None, checkpoint.registry}
    BY DEF FeedInv, PassFollows
  <2> QED BY <2>1, <2>2 DEF PassFollows, Whole
<1>7. StagedToCursor'
  <2> SUFFICES ASSUME run # None PROVE StagedToCursor'
    BY DEF StagedToCursor
  <2>1. run.cursor # None => past'[run.cursor.at] = past[run.cursor.at]
    BY <1>1, <1>2 DEF FeedInv, PassFollows, Passes, Feed!Cursor
  <2> QED BY <2>1 DEF FeedInv, StagedToCursor, Listed, Feed!Present, Feed!Floor, Feed!Recent,
     Feed!SinceOf, Feed!ViewOf
<1>8. Feed!ReplicaHoldsWatermark'
  <2> SUFFICES ASSUME checkpoint # None PROVE Feed!ReplicaHoldsWatermark'
    BY DEF Feed!ReplicaHoldsWatermark
  <2>1. past'[checkpoint.at] = past[checkpoint.at]
    BY <1>2 DEF FeedInv, Feed!TypeOK
  <2> QED BY <2>1 DEF FeedInv, Feed!ReplicaHoldsWatermark, Feed!ActiveAt, Feed!ViewOf
<1> QED BY <1>4, <1>5, <1>6, <1>7, <1>8 DEF FeedInv

LEMMA ChangesKeep ==
    ASSUME FeedInv,
           \/ Feed!Tick
           \/ \E l \in Locations :
                 \/ \E active \in BOOLEAN, number \in Numbers : Feed!SaveLocation(l, active, number)
                 \/ Feed!DeleteLocation(l)
           \/ \E r \in Registries : Feed!SaveRegistry(r)
           \/ \E f \in Fields : Feed!SaveFields(f)
    PROVE  FeedInv'
<1> DEFINE now == past[time]
<1>1. /\ time \in 0 .. time /\ time \in Nat /\ writes \in Nat /\ fields \in Fields
      /\ now \in Feed!Database
  BY DEF FeedInv, Feed!TypeOK
<1>2. /\ now.locations \in [Locations -> Feed!Location \cup {None}] /\ now.registry \in Registries
      /\ now = [locations |-> now.locations, registry |-> now.registry]
  <2> HIDE DEF now
  <2> QED BY <1>1 DEF Feed!Database
<1>3. Follows(now)
  BY <1>1 DEF Follows
<1>4. CASE Feed!Tick
  BY <1>1, <1>3, <1>4, AdvanceKeeps DEF Feed!Tick, Feed!consumer
<1>5. ASSUME NEW l \in Locations, NEW active \in BOOLEAN, NEW number \in Numbers,
             Feed!SaveLocation(l, active, number)
      PROVE FeedInv'
  <2> DEFINE saved == [active |-> active, number |-> number, written |-> time + 1]
             db == [now EXCEPT !.locations[l] = saved]
  <2>1. saved \in Feed!Location
    <3>1. time + 1 \in Nat
      BY <1>1
    <3> QED BY <3>1, Zenon DEF Feed!Location
  <2>2. saved.written = time + 1
    OBVIOUS
  <2>3. Feed!Advance(db) /\ Feed!Write /\ fields' = fields
    BY <1>5 DEF Feed!SaveLocation
  <2>4. Follows(db)
    <3> HIDE DEF saved, now
    <3>1. db = [locations |-> [now.locations EXCEPT ![l] = saved], registry |-> now.registry]
      BY <1>2
    <3>2. db \in Feed!Database
      <4>1. [now.locations EXCEPT ![l] = saved] \in [Locations -> Feed!Location \cup {None}]
        BY <1>2, <2>1
      <4> QED BY <1>2, <3>1, <4>1 DEF Feed!Database
    <3>3. \A k \in Locations : db.locations[k] = IF k = l THEN saved ELSE now.locations[k]
      BY <1>2, <3>1
    <3> HIDE DEF db
    <3> QED BY <2>2, <3>2, <3>3 DEF Follows, now
  <2> HIDE DEF db
  <2> QED BY <1>1, <2>3, <2>4, AdvanceKeeps DEF Feed!Write, Feed!consumer
<1>6. ASSUME NEW l \in Locations, Feed!DeleteLocation(l) PROVE FeedInv'
  <2> DEFINE db == [now EXCEPT !.locations[l] = None]
  <2>1. Feed!Advance(db) /\ Feed!Write /\ fields' = fields
    BY <1>6 DEF Feed!DeleteLocation
  <2>2. Follows(db)
    <3> HIDE DEF now
    <3>1. db = [locations |-> [now.locations EXCEPT ![l] = None], registry |-> now.registry]
      BY <1>2
    <3>2. db \in Feed!Database
      BY <1>2, <3>1 DEF Feed!Database
    <3>3. \A k \in Locations : db.locations[k] = IF k = l THEN None ELSE now.locations[k]
      BY <1>2, <3>1
    <3> HIDE DEF db
    <3> QED BY <3>2, <3>3 DEF Follows, now
  <2> HIDE DEF db
  <2> QED BY <1>1, <2>1, <2>2, AdvanceKeeps DEF Feed!Write, Feed!consumer
<1>7. ASSUME NEW r \in Registries, Feed!SaveRegistry(r) PROVE FeedInv'
  <2> DEFINE db == [now EXCEPT !.registry = r]
  <2>1. Feed!Advance(db) /\ Feed!Write /\ fields' = fields
    BY <1>7 DEF Feed!SaveRegistry
  <2>2. Follows(db)
    <3> HIDE DEF now
    <3>1. db = [locations |-> now.locations, registry |-> r]
      BY <1>2
    <3>2. db \in Feed!Database /\ db.locations = now.locations
      BY <1>2, <3>1 DEF Feed!Database
    <3> HIDE DEF db
    <3> QED BY <3>2 DEF Follows, now
  <2> HIDE DEF db
  <2> QED BY <1>1, <2>1, <2>2, AdvanceKeeps DEF Feed!Write, Feed!consumer
<1>8. ASSUME NEW f \in Fields, Feed!SaveFields(f) PROVE FeedInv'
  BY <1>1, <1>3, <1>8, AdvanceKeeps DEF Feed!SaveFields, Feed!Write, Feed!consumer
<1> HIDE DEF now
<1> QED BY <1>4, <1>5, <1>6, <1>7, <1>8

-----------------------------------------------------------------------------
(* While the Directory and the replica rest, so does what is said of them.  *)
LEMMA RestsTrue ==
    ASSUME FeedInv, UNCHANGED <<time, past, fields, replica, checkpoint, writes>>, stale' \in BOOLEAN
    PROVE  Feed!TypeOK' /\ UnwrittenSince' /\ Feed!ReplicaHoldsWatermark'
<1>1. Feed!TypeOK'
  BY Zenon DEF FeedInv, Feed!TypeOK, Feed!View, Feed!Database, Feed!Location
<1>2. UnwrittenSince'
  BY DEF FeedInv, UnwrittenSince
<1>3. Feed!ReplicaHoldsWatermark'
  BY DEF FeedInv, Feed!ReplicaHoldsWatermark, Feed!ActiveAt, Feed!ViewOf
<1> QED BY <1>1, <1>2, <1>3

(* The consumer begins a pass, and gives it up.                             *)
LEMMA BeginsKeep == ASSUME FeedInv, Feed!BeginFull \/ Feed!BeginDelta PROVE FeedInv'
<1> DEFINE fresh(req) ==
              [req |-> req, cursor |-> None, defs |-> None, staged |-> [l \in Locations |-> None]]
<1>1. PICK req : /\ Feed!Begin(req)
                 /\ req = [since |-> req.since, fields |-> req.fields, registry |-> req.registry]
                 /\ req.since \in Int \cup {None}
                 /\ req.fields \in Fields \cup {None} /\ req.registry \in Registries \cup {None}
                 /\ req.since # None =>
                       /\ checkpoint # None /\ req.since = checkpoint.at
                       /\ req.fields \in {None, checkpoint.fields}
                       /\ req.registry \in {None, checkpoint.registry}
  <2>1. CASE Feed!BeginFull
    BY <2>1 DEF Feed!BeginFull, Feed!Request
  <2>2. CASE Feed!BeginDelta
    <3>1. /\ checkpoint # None /\ checkpoint.at \in Int
          /\ checkpoint.fields \in Fields /\ checkpoint.registry \in Registries
      BY <2>2 DEF Feed!BeginDelta, FeedInv, Feed!TypeOK
    <3>2. PICK f \in {None, checkpoint.fields}, r \in {None, checkpoint.registry} :
             Feed!Begin(Feed!Request(checkpoint.at, f, r))
      BY <2>2 DEF Feed!BeginDelta
    <3> QED BY <3>1, <3>2 DEF Feed!Request
  <2> QED BY <2>1, <2>2
<1>2. run' = fresh(req) /\ UNCHANGED <<time, past, fields, replica, checkpoint, stale, writes>>
  BY <1>1 DEF Feed!Begin, Feed!NoCursor
<1>3. fresh(req) \in Passes
  <2>1. req \in [since : Int \cup {None}, fields : Fields \cup {None}, registry : Registries \cup {None}]
    BY <1>1
  <2> QED BY <2>1 DEF Passes
<1>4. fresh(req).cursor = None /\ fresh(req).req = req /\ fresh(req).staged = [l \in Locations |-> None]
  OBVIOUS
<1> HIDE DEF fresh
<1>5. Feed!TypeOK' /\ UnwrittenSince' /\ Feed!ReplicaHoldsWatermark'
  <2>1. stale' \in BOOLEAN
    BY <1>2 DEF FeedInv, Feed!TypeOK
  <2> QED BY <1>2, <2>1, RestsTrue
<1>6. PassFollows'
  <2>1. run' \in Passes'
    BY <1>2, <1>3 DEF Passes, Feed!Cursor, Feed!View
  <2>2. checkpoint # None => Whole(checkpoint.at)
    BY DEF FeedInv, PassFollows
  <2> QED BY <1>1, <1>2, <1>4, <2>1, <2>2 DEF PassFollows, Whole
<1>7. StagedToCursor'
  BY <1>2, <1>4 DEF StagedToCursor
<1> QED BY <1>5, <1>6, <1>7 DEF FeedInv

LEMMA GiveUpKeeps == ASSUME FeedInv, Feed!GiveUp PROVE FeedInv'
<1>1. run' = None /\ stale' = TRUE /\ UNCHANGED <<time, past, fields, replica, checkpoint, writes>>
  BY DEF Feed!GiveUp
<1>2. Feed!TypeOK' /\ UnwrittenSince' /\ Feed!ReplicaHoldsWatermark'
  BY <1>1, RestsTrue
<1>3. PassFollows' /\ StagedToCursor'
  BY <1>1 DEF FeedInv, PassFollows, StagedToCursor, Whole
<1> QED BY <1>2, <1>3 DEF FeedInv

LEMMA ReadFieldsKeeps == ASSUME FeedInv, Feed!ReadFields PROVE FeedInv'
<1>1. /\ run # None /\ run' = [run EXCEPT !.defs = fields] /\ fields \in Fields
      /\ UNCHANGED <<time, past, fields, replica, checkpoint, stale, writes>>
  BY DEF Feed!ReadFields, FeedInv, Feed!TypeOK
<1>2. run \in Passes
  BY <1>1 DEF FeedInv, PassFollows
<1>3. run' \in Passes /\ run'.req = run.req /\ run'.cursor = run.cursor /\ run'.staged = run.staged
  BY <1>1, <1>2 DEF Passes
<1>4. Feed!TypeOK' /\ UnwrittenSince' /\ Feed!ReplicaHoldsWatermark'
  <2>1. stale' \in BOOLEAN
    BY <1>1 DEF FeedInv, Feed!TypeOK
  <2> QED BY <1>1, <2>1, RestsTrue
<1>5. PassFollows'
  <2>1. Passes' = Passes
    BY DEF Passes, Feed!Cursor, Feed!View
  <2>2. run.cursor # None => ((~Feed!Conflict(run.cursor.at))' <=> ~Feed!Conflict(run.cursor.at))
    BY <1>1, <1>3 DEF Feed!Conflict, Feed!Present
  <2> QED BY <1>1, <1>3, <2>1, <2>2 DEF FeedInv, PassFollows, Whole
<1>6. StagedToCursor'
  BY <1>1, <1>3 DEF FeedInv, StagedToCursor, Listed, Feed!Present, Feed!Floor, Feed!Recent,
     Feed!SinceOf, Feed!ViewOf
<1> QED BY <1>4, <1>5, <1>6 DEF FeedInv

-----------------------------------------------------------------------------
(* A page is answered: the pass has staged all that its watermark lists up  *)
(* to where the next page begins.                                           *)
Position == IF run.cursor = None THEN -1 ELSE run.cursor.id

LEMMA Answered ==
    ASSUME FeedInv, NEW now \in Int, Feed!AnswerPage(now), NEW s, s = Feed!SnapshotOf(run.cursor, now)
    PROVE  /\ run # None /\ run \in Passes /\ run.defs \in Fields
           /\ s \in 0 .. time /\ Whole(s) /\ ~Feed!Conflict(s)
           /\ past[s] \in Feed!Database /\ past[s].registry \in Registries
           /\ run.req.since # None => run.req.since <= s
           /\ run.req.fields # None => run.req.fields = run.defs
           /\ run.req.registry # None => run.req.registry = past[s].registry
           /\ run.cursor # None => run.cursor.at = s /\ run.cursor.fields = run.defs
<1>1. run # None /\ run.defs # None /\ Feed!Serves(now) /\ run \in Passes
  BY DEF Feed!AnswerPage, FeedInv, PassFollows
<1>2. run.defs \in Fields
  BY <1>1 DEF Passes
<1>3. s \in 0 .. time /\ Whole(s) /\ ~Feed!Conflict(s)
  <2>1. time \in Nat /\ 0 <= s /\ s <= time /\ (run.cursor = None => ~Feed!Conflict(s))
    BY <1>1 DEF Feed!Serves, Feed!SnapshotServed, FeedInv, Feed!TypeOK
  <2>2. CASE run.cursor = None
    <3>1. s = Feed!Floor(now, Second) /\ s \in Int
      BY <2>2, Units, Sizes DEF Feed!SnapshotOf
    <3>2. Whole(s)
      BY <3>1, SecondsAreWhole
    <3> QED BY <2>1, <2>2, <3>1, <3>2
  <2>3. CASE run.cursor # None
    <3>1. s = run.cursor.at /\ run.cursor \in Feed!Cursor
      BY <1>1, <2>3 DEF Feed!SnapshotOf, Passes
    <3>2. s \in Nat
      BY <3>1 DEF Feed!Cursor
    <3>3. Whole(s) /\ ~Feed!Conflict(s)
      BY <1>1, <2>3, <3>1 DEF FeedInv, PassFollows
    <3> QED BY <2>1, <3>2, <3>3
  <2> QED BY <2>2, <2>3
<1>4. past[s] \in Feed!Database /\ past[s].registry \in Registries
  BY <1>3 DEF FeedInv, Feed!TypeOK, Feed!Database
<1>5. /\ run.req.since # None => run.req.since <= s
      /\ run.req.fields # None => run.req.fields = run.defs
      /\ run.req.registry # None => run.req.registry = past[s].registry
  BY <1>1 DEF Feed!Serves, Feed!FieldsServed, Feed!RegistryServed, Feed!Named
<1>6. run.cursor # None => run.cursor.at = s /\ run.cursor.fields = run.defs
  BY <1>1 DEF Feed!Serves, Feed!FieldsServed, Feed!SnapshotOf
<1> QED BY <1>1, <1>2, <1>3, <1>4, <1>5, <1>6

LEMMA Stages ==
    ASSUME FeedInv, NEW now \in Int, Feed!AnswerPage(now), NEW s, s = Feed!SnapshotOf(run.cursor, now)
    PROVE  /\ Feed!Staged(s, Position) \in [Locations -> Feed!View \cup {None}]
           /\ \A l \in Locations : Feed!Staged(s, Position)[l] =
                 IF /\ Feed!NextId(s, Position) = None \/ l <= Feed!NextId(s, Position)
                    /\ Listed(s, l, Feed!SinceOf(run.req))
                 THEN Feed!ViewOf(s, l, run.defs) ELSE None
           /\ \A l \in Locations : Listed(s, l, Feed!SinceOf(run.req)) =>
                 Feed!ViewOf(s, l, run.defs) \in Feed!View
<1> DEFINE next == Feed!NextId(s, Position)
           since == Feed!SinceOf(run.req)
           viewed(l) == Feed!ViewOf(s, l, run.defs)
<1>1. /\ run # None /\ run \in Passes /\ run.defs \in Fields /\ s \in 0 .. time
      /\ past[s] \in Feed!Database /\ past[s].registry \in Registries
      /\ run.cursor # None => run.cursor.at = s /\ run.cursor.fields = run.defs
  BY Answered
<1>2. \A l \in Locations : Listed(s, l, since) => viewed(l) \in Feed!View
  BY <1>1 DEF Listed, Feed!Present, Feed!Database, Feed!Location, Feed!ViewOf, Feed!View
<1>3. \A l \in Locations : Feed!Staged(s, Position)[l] =
        IF l \in Feed!Published(s, Position, since) THEN viewed(l) ELSE run.staged[l]
  BY DEF Feed!Staged
<1>4. ASSUME NEW l \in Locations
      PROVE  Feed!Staged(s, Position)[l] =
                IF (next = None \/ l <= next) /\ Listed(s, l, since) THEN viewed(l) ELSE None
  <2>1. l \in Feed!Published(s, Position, since) <=>
           l > Position /\ (next = None \/ l <= next) /\ Listed(s, l, since)
    BY Publishes
  <2>2. l \in Nat
    BY Sizes
  <2>3. run.staged[l] = IF run.cursor # None /\ l <= run.cursor.id /\ Listed(run.cursor.at, l, since)
                        THEN Feed!ViewOf(run.cursor.at, l, run.cursor.fields) ELSE None
    BY <1>1 DEF FeedInv, StagedToCursor
  <2>4. CASE run.cursor = None
    <3>1. l > Position /\ run.staged[l] = None
      BY <2>2, <2>3, <2>4 DEF Position
    <3> HIDE DEF next, since, viewed
    <3> QED BY <1>3, <2>1, <3>1
  <2>5. CASE run.cursor # None
    <3>1. Position = run.cursor.id /\ Position \in Nat
      BY <1>1, <2>5, Sizes DEF Position, Passes, Feed!Cursor
    <3>2. run.staged[l] = IF l <= Position /\ Listed(s, l, since) THEN viewed(l) ELSE None
      BY <1>1, <2>3, <2>5, <3>1
    <3>3. next # None => next > Position /\ next \in Nat
      <4>1. next # None => next \in Feed!After(s, Position) /\ next \in Locations
        BY Paged
      <4> QED BY <4>1, Sizes DEF Feed!After
    <3>4. CASE l > Position
      <4>1. ~(l <= Position)
        BY <2>2, <3>1, <3>4
      <4> HIDE DEF next, since, viewed
      <4> QED BY <1>3, <2>1, <3>2, <3>4, <4>1
    <3>5. CASE l <= Position
      <4>1. ~(l > Position) /\ (next = None \/ l <= next)
        BY <2>2, <3>1, <3>3, <3>5
      <4> HIDE DEF next, since, viewed
      <4> QED BY <1>3, <2>1, <3>2, <3>5, <4>1
    <3> QED BY <2>2, <3>1, <3>4, <3>5
  <2> QED BY <2>4, <2>5
<1>5. Feed!Staged(s, Position) \in [Locations -> Feed!View \cup {None}]
  <2>1. \A l \in Locations : Feed!Staged(s, Position)[l] \in Feed!View \cup {None}
    BY <1>2, <1>4
  <2>2. Feed!Staged(s, Position) = [l \in Locations |-> Feed!Staged(s, Position)[l]]
    BY DEF Feed!Staged
  <2> QED BY <2>1, <2>2
<1> QED BY <1>2, <1>4, <1>5

\* What a delta does not list of its watermark is as the checkpoint had it.
LEMMA Unlisted ==
    ASSUME FeedInv, NEW s \in 0 .. time, NEW since \in Int \cup {None}, NEW l \in Locations,
           since # None => since \in 0 .. s /\ Whole(since),
           Feed!ActiveAt(l, s), ~Listed(s, l, since)
    PROVE  since # None /\ past[since].locations[l] = past[s].locations[l]
<1> DEFINE w == past[s].locations[l].written
<1>1. w \in Nat /\ w <= s /\ l \in Feed!Present(s) /\ past[s].locations[l].active
  BY DEF FeedInv, UnwrittenSince, Feed!TypeOK, Feed!Database, Feed!Location, Feed!ActiveAt, Feed!Present
<1>2. Feed!Floor(w, Milli) \in Int /\ Feed!Floor(w, Milli) <= w
  <2>1. w \in Int /\ Milli \in Nat \ {0}
    BY <1>1, Sizes
  <2> HIDE DEF w
  <2> QED BY <2>1, Units
<1>3. ~Feed!Recent(w, since)
  BY <1>1, <1>2 DEF Listed
<1>4. since # None /\ Feed!Floor(w, Milli) < since /\ since \in 0 .. s /\ Whole(since)
  BY <1>2, <1>3 DEF Feed!Recent
<1>5. w < since
  <2>1. w \in Int /\ since \in Int
    BY <1>1, <1>4
  <2> HIDE DEF w
  <2> QED BY <1>4, <2>1, WrittenBefore
<1>6. since \in 0 .. time /\ w <= since /\ since <= s /\ past[s].locations[l] # None
  BY <1>1, <1>4, <1>5 DEF Feed!Present, FeedInv, Feed!TypeOK
<1>7. past[since].locations[l] = past[s].locations[l]
  BY <1>6 DEF FeedInv, UnwrittenSince
<1> QED BY <1>4, <1>7

(* A page that is not the last.                                             *)
LEMMA PageKeeps ==
    ASSUME FeedInv, NEW now \in Int, Feed!AnswerPage(now),
           NEW s, s = Feed!SnapshotOf(run.cursor, now), Feed!NextId(s, Position) # None
    PROVE  FeedInv' /\ checkpoint' = checkpoint
<1> DEFINE next == Feed!NextId(s, Position)
           reached == [id |-> next, at |-> s, fields |-> run.defs, registry |-> past[s].registry]
<1>1. /\ run # None /\ run \in Passes /\ run.defs \in Fields
      /\ s \in 0 .. time /\ Whole(s) /\ ~Feed!Conflict(s)
      /\ past[s].registry \in Registries
  BY Answered
<1>2. /\ run' = [run EXCEPT !.staged = Feed!Staged(s, Position), !.defs = None, !.cursor = reached]
      /\ UNCHANGED <<time, past, fields, replica, checkpoint, stale, writes>>
  BY DEF Feed!AnswerPage, Position
<1>3. next \in Locations
  BY Paged
<1>4. /\ reached \in Feed!Cursor /\ reached # None
      /\ reached.id = next /\ reached.at = s /\ reached.fields = run.defs
  <2>1. s \in Nat
    BY <1>1
  <2>2. reached \in Feed!Cursor
    BY <1>1, <1>3, <2>1 DEF Feed!Cursor
  <2> QED BY <2>2, Nothing
<1> HIDE DEF next, reached
<1>5. /\ run' \in Passes /\ run'.req = run.req /\ run'.cursor = reached
      /\ run'.staged = Feed!Staged(s, Position)
  <2>1. Feed!Staged(s, Position) \in [Locations -> Feed!View \cup {None}]
    BY Stages
  <2>2. run' = [req |-> run.req, cursor |-> reached, defs |-> None, staged |-> Feed!Staged(s, Position)]
    BY <1>1, <1>2 DEF Passes
  <2>3. /\ run' \in Passes /\ run'.req = run.req /\ run'.cursor = reached
        /\ run'.staged = Feed!Staged(s, Position)
    BY <1>1, <1>4, <2>1, <2>2 DEF Passes
  <2> QED BY <2>3
<1>6. Feed!TypeOK' /\ UnwrittenSince' /\ Feed!ReplicaHoldsWatermark'
  <2>1. stale' \in BOOLEAN
    BY <1>2 DEF FeedInv, Feed!TypeOK
  <2> QED BY <1>2, <2>1, RestsTrue
<1>7. PassFollows'
  <2>1. Passes' = Passes
    BY DEF Passes, Feed!Cursor, Feed!View
  <2>2. s <= time' /\ Feed!Conflict(s)' = Feed!Conflict(s)
    BY <1>1, <1>2 DEF Feed!Conflict, Feed!Present
  <2>3. (Feed!Conflict(run.cursor.at))' = Feed!Conflict(s)
    BY <1>2, <1>4, <1>5 DEF Feed!Conflict, Feed!Present
  <2>4. /\ checkpoint # None => Whole(checkpoint.at)
        /\ run.req.since # None =>
              /\ checkpoint # None /\ run.req.since = checkpoint.at
              /\ run.req.fields \in {None, checkpoint.fields}
              /\ run.req.registry \in {None, checkpoint.registry}
    BY <1>1 DEF FeedInv, PassFollows
  <2> QED BY <1>1, <1>2, <1>4, <1>5, <2>1, <2>2, <2>3, <2>4 DEF PassFollows, Whole
<1>8. StagedToCursor'
  <2>1. \A l \in Locations : (Listed(s, l, Feed!SinceOf(run.req)))' = Listed(s, l, Feed!SinceOf(run.req))
    BY <1>2, <1>5 DEF Listed, Feed!Present, Feed!Floor, Feed!Recent, Feed!SinceOf
  <2>2. \A l \in Locations : run'.staged[l] =
           IF l <= next /\ Listed(s, l, Feed!SinceOf(run.req)) THEN Feed!ViewOf(s, l, run.defs) ELSE None
    BY <1>5, Stages DEF next
  <2> QED BY <1>2, <1>4, <1>5, <2>2
          DEF StagedToCursor, Listed, Feed!Present, Feed!Floor, Feed!Recent,
     Feed!SinceOf, Feed!ViewOf
<1> QED BY <1>2, <1>6, <1>7, <1>8 DEF FeedInv

(* The last page: the pass is applied, and what a delta did not list is as  *)
(* the replica has it.                                                      *)
LEMMA PassKeeps ==
    ASSUME FeedInv, NEW now \in Int, Feed!AnswerPage(now),
           NEW s, s = Feed!SnapshotOf(run.cursor, now), Feed!NextId(s, Position) = None
    PROVE  FeedInv' /\ Feed!FullPassIsRoster
<1> DEFINE staged == Feed!Staged(s, Position)
           since == Feed!SinceOf(run.req)
           reached == [at |-> s, fields |-> run.defs, registry |-> past[s].registry]
<1>1. /\ run # None /\ run \in Passes /\ run.defs \in Fields
      /\ s \in 0 .. time /\ Whole(s) /\ ~Feed!Conflict(s)
      /\ past[s] \in Feed!Database /\ past[s].registry \in Registries
      /\ run.req.since # None => run.req.since <= s
      /\ run.req.fields # None => run.req.fields = run.defs
      /\ run.req.registry # None => run.req.registry = past[s].registry
  BY Answered
<1>2. /\ run' = None /\ replica' = Feed!Applied(run.req.since, staged) /\ checkpoint' = reached
      /\ stale' = IF run.req.since = None THEN FALSE ELSE stale
      /\ UNCHANGED <<time, past, fields, writes>>
  BY DEF Feed!AnswerPage, Position
<1>3. staged \in [Locations -> Feed!View \cup {None}]
  BY Stages
<1>4. \A l \in Locations :
         /\ Listed(s, l, since) => staged[l] = Feed!ViewOf(s, l, run.defs) /\ staged[l] # None
         /\ ~Listed(s, l, since) => staged[l] = None
  BY Stages, Nothing
<1>5. \A l \in Locations :
         replica'[l] = IF staged[l] # None \/ run.req.since = None THEN staged[l] ELSE replica[l]
  BY <1>2 DEF Feed!Applied
<1>6. replica \in [Locations -> Feed!View \cup {None}] /\ stale \in BOOLEAN /\ time \in Nat
  BY DEF FeedInv, Feed!TypeOK
<1>7. reached \in [at : 0 .. time, fields : Fields, registry : Registries]
      /\ reached.at = s /\ reached.fields = run.defs /\ reached.registry = past[s].registry
  BY <1>1
<1> HIDE DEF staged, since, reached
<1>8. Feed!TypeOK'
  <2>1. replica' \in [Locations -> Feed!View \cup {None}]
    BY <1>2, <1>3, <1>6 DEF Feed!Applied
  <2>2. stale' \in BOOLEAN
    BY <1>2, <1>6
  <2>3. checkpoint' \in [at : 0 .. time', fields : Fields, registry : Registries] \cup {None}
    BY <1>2, <1>7
  <2>4. time' \in Nat /\ past' \in [0 .. time' -> Feed!Database] /\ fields' \in Fields /\ writes' \in Nat
    BY <1>2 DEF FeedInv, Feed!TypeOK
  <2> QED BY <2>1, <2>2, <2>3, <2>4, Zenon DEF Feed!TypeOK, Feed!View, Feed!Database, Feed!Location
<1>9. UnwrittenSince'
  BY <1>2 DEF FeedInv, UnwrittenSince
<1>10. PassFollows' /\ StagedToCursor'
  BY <1>1, <1>2, <1>7 DEF PassFollows, StagedToCursor, Whole
<1>11. ASSUME NEW l \in Locations, Feed!ActiveAt(l, s) PROVE replica'[l] = Feed!ViewOf(s, l, run.defs)
  <2>1. CASE Listed(s, l, since)
    BY <1>4, <1>5, <2>1
  <2>2. CASE ~Listed(s, l, since)
    <3>1. since # None =>
            /\ since = run.req.since /\ checkpoint # None /\ since = checkpoint.at
            /\ checkpoint.fields = run.defs /\ checkpoint.registry = past[s].registry
            /\ run.req.fields # None /\ run.req.registry # None
      BY <1>1 DEF since, Feed!SinceOf, FeedInv, PassFollows
    <3>2. since # None => since \in 0 .. s /\ Whole(since)
      <4>1. checkpoint # None => checkpoint.at \in 0 .. time /\ Whole(checkpoint.at)
        BY DEF FeedInv, Feed!TypeOK, PassFollows
      <4> QED BY <1>1, <1>6, <3>1, <4>1
    <3>3. since \in Int \cup {None}
      BY <3>2
    <3>4. since # None /\ past[since].locations[l] = past[s].locations[l]
      BY <1>1, <1>11, <2>2, <3>2, <3>3, Unlisted
    <3>5. Feed!ActiveAt(l, since)
      BY <1>11, <3>4 DEF Feed!ActiveAt
    <3>6. replica[l] = Feed!ViewOf(since, l, run.defs) /\ checkpoint.registry = past[since].registry
      BY <3>1, <3>4, <3>5 DEF FeedInv, Feed!ReplicaHoldsWatermark
    <3>7. replica'[l] = replica[l]
      BY <1>4, <1>5, <2>2, <3>1, <3>4
    <3> QED BY <3>1, <3>4, <3>6, <3>7 DEF Feed!ViewOf
  <2> QED BY <2>1, <2>2
<1>12. Feed!ReplicaHoldsWatermark'
  BY <1>2, <1>7, <1>11 DEF Feed!ReplicaHoldsWatermark, Feed!ActiveAt, Feed!ViewOf
<1>13. Feed!FullPassIsRoster
  <2> SUFFICES ASSUME run.req.since = None
               PROVE  /\ \A l \in Locations : replica'[l] # None => Feed!ActiveAt(l, s)
                      /\ \A l, k \in Locations : l # k /\ replica'[l] # None /\ replica'[k] # None =>
                            replica'[l].number # replica'[k].number
    BY <1>2, <1>7 DEF Feed!FullPassIsRoster
  <2>1. ASSUME NEW l \in Locations, replica'[l] # None
        PROVE  /\ l \in Feed!Present(s) /\ Feed!ActiveAt(l, s)
               /\ replica'[l].number = past[s].locations[l].number
    <3>1. Listed(s, l, since) /\ replica'[l] = Feed!ViewOf(s, l, run.defs)
      BY <1>4, <1>5, <2>1
    <3> QED BY <3>1 DEF Listed, Feed!Present, Feed!ActiveAt, Feed!ViewOf
  <2> QED BY <1>1, <2>1 DEF Feed!Conflict
<1> QED BY <1>8, <1>9, <1>10, <1>12, <1>13 DEF FeedInv

-----------------------------------------------------------------------------
LEMMA FeedSteps == ASSUME FeedInv, [Feed!Next]_feedVars PROVE FeedInv' /\ Feed!FullPassIsRoster
<1>1. CASE UNCHANGED feedVars
  <2>1. UNCHANGED <<time, past, fields, replica, checkpoint, stale, run, writes>>
    BY <1>1 DEF feedVars
  <2>2. Feed!TypeOK' /\ UnwrittenSince' /\ Feed!ReplicaHoldsWatermark'
    <3>1. stale' \in BOOLEAN
      BY <2>1 DEF FeedInv, Feed!TypeOK
    <3> QED BY <2>1, <3>1, RestsTrue
  <2>3. PassFollows'
    BY <2>1 DEF FeedInv, PassFollows, Passes, Feed!Cursor, Feed!View, Whole, Feed!Conflict, Feed!Present
  <2>4. StagedToCursor'
    BY <2>1 DEF FeedInv, StagedToCursor, Listed, Feed!Present, Feed!Floor, Feed!Recent,
     Feed!SinceOf, Feed!ViewOf
  <2>5. Feed!FullPassIsRoster
    BY <2>1 DEF Feed!FullPassIsRoster
  <2> QED BY <2>2, <2>3, <2>4, <2>5 DEF FeedInv
<1>2. CASE \/ Feed!Tick
           \/ \E l \in Locations :
                 \/ \E active \in BOOLEAN, number \in Numbers : Feed!SaveLocation(l, active, number)
                 \/ Feed!DeleteLocation(l)
           \/ \E r \in Registries : Feed!SaveRegistry(r)
           \/ \E f \in Fields : Feed!SaveFields(f)
  <2>1. checkpoint' = checkpoint
    BY <1>2 DEF Feed!Tick, Feed!SaveLocation, Feed!DeleteLocation, Feed!SaveRegistry, Feed!SaveFields,
       Feed!Write, Feed!consumer
  <2> QED BY <1>2, <2>1, ChangesKeep DEF Feed!FullPassIsRoster
<1>3. CASE Feed!BeginFull \/ Feed!BeginDelta
  <2>1. checkpoint' = checkpoint
    BY <1>3 DEF Feed!BeginFull, Feed!BeginDelta, Feed!Begin
  <2> QED BY <1>3, <2>1, BeginsKeep DEF Feed!FullPassIsRoster
<1>4. CASE Feed!ReadFields
  <2>1. checkpoint' = checkpoint
    BY <1>4 DEF Feed!ReadFields
  <2> QED BY <1>4, <2>1, ReadFieldsKeeps DEF Feed!FullPassIsRoster
<1>5. CASE Feed!GiveUp
  <2>1. checkpoint' = checkpoint
    BY <1>5 DEF Feed!GiveUp
  <2> QED BY <1>5, <2>1, GiveUpKeeps DEF Feed!FullPassIsRoster
<1>6. ASSUME NEW now \in Feed!Reading, Feed!AnswerPage(now) PROVE FeedInv' /\ Feed!FullPassIsRoster
  <2>1. now \in Int
    BY DEF Feed!Reading, FeedInv, Feed!TypeOK
  <2> DEFINE s == Feed!SnapshotOf(run.cursor, now)
  <2>2. CASE Feed!NextId(s, Position) # None
    BY <1>6, <2>1, <2>2, PageKeeps DEF Feed!FullPassIsRoster
  <2>3. CASE Feed!NextId(s, Position) = None
    BY <1>6, <2>1, <2>3, PassKeeps
  <2> QED BY <2>2, <2>3
<1> QED BY <1>1, <1>2, <1>3, <1>4, <1>5, <1>6 DEF Feed!Next

LEMMA FeedAlways == ApiSpec => []FeedInv
<1>1. ApiInit => FeedInv
  BY InitFeed DEF ApiInit
<1>2. FeedInv /\ [ApiNext]_<<vars, feedVars>> => FeedInv'
  BY FeedSteps DEF ApiNext, feedVars
<1> QED BY <1>1, <1>2, PTL DEF ApiSpec

(* After any passes, whole, delta or given up, the replica is the active    *)
(* roster of its watermark, or what is left of it.                          *)
THEOREM ReplicaFollowsRoster == ApiSpec => ReplicaIsRoster
<1>1. FeedInv /\ [ApiNext]_<<vars, feedVars>> => [Feed!ReplicaTells]_feedVars
  <2> SUFFICES ASSUME FeedInv, [ApiNext]_<<vars, feedVars>> PROVE Feed!ReplicaTells
    OBVIOUS
  <2>1. [Feed!Next]_feedVars
    BY DEF ApiNext, feedVars
  <2>2. FeedInv' /\ Feed!FullPassIsRoster
    BY <2>1, FeedSteps
  <2> QED BY <2>2 DEF FeedInv, Feed!ReplicaTells
<1> QED BY <1>1, FeedAlways, PTL DEF ApiSpec, ReplicaIsRoster

-----------------------------------------------------------------------------
(* A token belongs to a client; without an expiry it was never superseded. *)
TokensPlaced ==
    \A u \in Token :
       /\ tokens[u] = Absent => deadline[u] = Absent
       /\ tokens[u] # Absent =>
             /\ Known(tokens[u].client)
             /\ tokens[u].status = "Active" =>
                   tokens[u].expires = Absent /\ deadline[u] = Absent
             /\ tokens[u].status = "Retiring" => tokens[u].expires # Absent

(* A retiring token expires early enough for the slowest clock.            *)
ExpiriesBeforeDeadlines ==
    \A u \in Token :
        tokens[u] # Absent /\ deadline[u] # Absent /\ tokens[u].status = "Retiring"
           => tokens[u].expires + Skew <= deadline[u]

(* Wherever grants are carried, their version counts how often they were   *)
(* saved.                                                                  *)
VersionsCount ==
    /\ \A c \in Client : IF Known(c) THEN clients[c].version = changes[c] + 1
                                     ELSE changes[c] = 0
    /\ \A q \in held : q.version = q.changes + 1
    /\ \A p \in pages : /\ p.snapshot.version = p.changes + 1
                        /\ p.contacts <=> Contacts \in p.snapshot.scopes

Inv ==
    /\ TypeOK /\ TokensPlaced /\ ExpiriesBeforeDeadlines
    /\ OneCurrentToken /\ VersionsCount

(* Nothing is issued at first.                                             *)
LEMMA InitHolds == Init => Inv
BY DEF Init, Inv, TypeOK, TokensPlaced, ExpiriesBeforeDeadlines, OneCurrentToken,
       VersionsCount, Known

USE BoundsAssumption, AbsentAssumption
USE DEF BoundsAssumption, AbsentAssumption

(* What rotate makes of a token that is not absent.                        *)
LEMMA RetireResult ==
    ASSUME NEW t \in TokenDocument, NEW atOnce \in BOOLEAN, NEW now \in Int,
           t.status = "Active" => t.expires = Absent
    PROVE  LET r == Retire(t, atOnce, now) IN
           /\ r \in TokenDocument /\ r.client = t.client /\ r.status # "Active"
           /\ r.status = "Retiring" =>
                 \/ r = t /\ t.status = "Retiring" /\ (t.expires # Absent => t.expires <= now)
                 \/ /\ ~atOnce /\ r.expires \in Int /\ r.expires <= now + Overlap
                    /\ t.expires # Absent => r.expires <= t.expires
<1>1. t.expires \in Int \cup {Absent}
  BY DEF TokenDocument
<1>2. CASE ~TokenIsActive(t, now)
  BY <1>1, <1>2 DEF Retire, TokenIsActive, TokenDocument, TokenStatuses
<1>3. CASE TokenIsActive(t, now) /\ atOnce
  BY <1>3 DEF Retire, Ended, TokenDocument, TokenStatuses
<1>4. CASE TokenIsActive(t, now) /\ ~atOnce
  <2> DEFINE e == EarlierTimestamp(t.expires, now + Overlap)
  <2>1. e \in Int /\ e <= now + Overlap /\ (t.expires # Absent => e <= t.expires)
    BY <1>1 DEF EarlierTimestamp
  <2>2. Retire(t, atOnce, now) = [t EXCEPT !.status = "Retiring", !.expires = e]
    BY <1>4 DEF Retire
  <2> HIDE DEF e
  <2> QED BY <1>4, <2>1, <2>2 DEF TokenDocument, TokenStatuses
<1> QED BY <1>2, <1>3, <1>4

(* A new client has one token, without an expiry.                          *)
LEMMA CreateKeeps ==
    ASSUME Inv, NEW c \in Client, NEW u \in Token, NEW g \in Grants, Create(c, u, g)
    PROVE  Inv'
<1> DEFINE client == [status |-> "Active", scopes |-> g, version |-> 1]
           token == [client |-> c, status |-> "Active", expires |-> Absent]
<1> USE DEF Inv
<1>1. client \in ClientDocument /\ token \in TokenDocument
  BY DEF ClientDocument, ClientStatuses, TokenDocument, TokenStatuses
<1>2. client # Absent /\ token # Absent
  BY <1>1
<1>3. /\ clients' = [clients EXCEPT ![c] = client] /\ tokens' = [tokens EXCEPT ![u] = token]
      /\ clients[c] = Absent /\ tokens[u] = Absent
      /\ UNCHANGED <<clock, held, snapshots, pages, changes, deadline>>
  BY DEF Create, Known
<1>4. TypeOK'
  BY <1>1, <1>3 DEF TypeOK
<1>5. \A v \in Token : tokens[v] # Absent => tokens[v] \in TokenDocument
  BY DEF TypeOK
<1>6. \A v \in Token : tokens'[v] = IF v = u THEN token ELSE tokens[v]
  BY <1>3 DEF TypeOK
<1>7. \A d \in Client : clients'[d] = IF d = c THEN client ELSE clients[d]
  BY <1>3 DEF TypeOK
<1>8. token.client = c /\ token.status = "Active" /\ token.expires = Absent
  OBVIOUS
<1> HIDE DEF client, token
<1>9. TokensPlaced'
  BY <1>2, <1>3, <1>5, <1>6, <1>7, <1>8 DEF TokensPlaced, Known, TokenDocument
<1>10. ExpiriesBeforeDeadlines'
  BY <1>3, <1>6, <1>8 DEF ExpiriesBeforeDeadlines
<1>11. OneCurrentToken'
  <2> SUFFICES ASSUME NEW d \in Client, Known(d)', clients'[d].status # "Revoked"
               PROVE  \E v \in Owned(d)' : \A w \in Owned(d)' :
                         tokens'[w].status = "Active" <=> w = v
    BY DEF OneCurrentToken
  <2>1. CASE d = c
    <3>1. Owned(c)' = {u}
      BY <1>2, <1>3, <1>6, <1>8 DEF Owned, TokensPlaced, Known
    <3> QED BY <2>1, <3>1, <1>6, <1>8
  <2>2. CASE d # c
    <3>1. Owned(d)' = Owned(d) /\ u \notin Owned(d)
      BY <2>2, <1>3, <1>6, <1>8 DEF Owned
    <3>2. Known(d) /\ clients[d].status # "Revoked"
      BY <2>2, <1>7 DEF Known
    <3>3. PICK v \in Owned(d) : \A w \in Owned(d) : tokens[w].status = "Active" <=> w = v
      BY <3>2 DEF OneCurrentToken
    <3>4. \A w \in Owned(d) : tokens'[w] = tokens[w]
      BY <3>1, <1>6 DEF Owned
    <3> QED BY <3>1, <3>3, <3>4
  <2> QED BY <2>1, <2>2
<1>12. VersionsCount'
  <2>1. client.version = 1
    BY DEF client
  <2>2. changes[c] = 0
    BY <1>3 DEF VersionsCount, Known
  <2> QED BY <1>2, <1>3, <1>7, <2>1, <2>2 DEF VersionsCount, Known
<1> QED BY <1>4, <1>9, <1>10, <1>11, <1>12

(* Neither a status nor new grants touch a token.                          *)
LEMMA ClientChangeKeeps ==
    ASSUME Inv, NEW c \in Client, Known(c), clients[c].status # "Revoked",
           NEW client \in ClientDocument,
           clients' = [clients EXCEPT ![c] = client],
           client.version = changes'[c] + 1,
           \A d \in Client : d # c => changes'[d] = changes[d],
           changes' \in [Client -> Nat],
           UNCHANGED <<clock, tokens, held, snapshots, pages, deadline>>
    PROVE  Inv'
<1> USE DEF Inv
<1>1. client # Absent
  OBVIOUS
<1>2. \A d \in Client : clients'[d] = IF d = c THEN client ELSE clients[d]
  BY DEF TypeOK
<1>3. TypeOK'
  BY DEF TypeOK
<1>4. \A d \in Client : (Known(d)' <=> Known(d)) /\ Owned(d)' = Owned(d)
  BY <1>1, <1>2 DEF Known, Owned
<1>5. \A u \in Token : tokens[u] # Absent => tokens[u].client \in Client
  BY DEF TypeOK, TokenDocument
<1>6. TokensPlaced'
  BY <1>4, <1>5 DEF TokensPlaced
<1>7. ExpiriesBeforeDeadlines'
  BY DEF ExpiriesBeforeDeadlines
<1>8. OneCurrentToken'
  BY <1>2, <1>4 DEF OneCurrentToken
<1>9. VersionsCount'
  BY <1>2, <1>4 DEF VersionsCount
<1> QED BY <1>3, <1>6, <1>7, <1>8, <1>9

LEMMA ChangeStatusKeeps ==
    ASSUME Inv, NEW c \in Client, NEW from \in ClientStatuses \ {"Revoked"},
           NEW to \in ClientStatuses, ChangeStatus(c, from, to)
    PROVE  Inv'
<1> DEFINE client == [clients[c] EXCEPT !.status = to]
<1>1. clients[c] \in ClientDocument
  BY DEF ChangeStatus, Known, Inv, TypeOK
<1>2. client \in ClientDocument /\ client.version = clients[c].version
  BY <1>1 DEF ClientDocument
<1>3. clients' = [clients EXCEPT ![c] = client] /\ UNCHANGED changes
  BY DEF ChangeStatus
<1>4. clients[c].version = changes[c] + 1 /\ changes \in [Client -> Nat]
  BY DEF ChangeStatus, Inv, VersionsCount, TypeOK
<1> HIDE DEF client
<1> QED BY <1>2, <1>3, <1>4, ClientChangeKeeps DEF ChangeStatus

LEMMA UpdateScopesKeeps ==
    ASSUME Inv, NEW c \in Client, NEW g \in Grants, NEW expected \in Grants,
           UpdateScopes(c, g, expected)
    PROVE  Inv'
<1> DEFINE client == [clients[c] EXCEPT !.scopes = g, !.version = NextVersion(c)]
<1>1. clients[c] \in ClientDocument
  BY DEF UpdateScopes, Known, Inv, TypeOK
<1>2. clients[c].version = changes[c] + 1 /\ changes \in [Client -> Nat]
  BY DEF UpdateScopes, Inv, VersionsCount, TypeOK
<1>3. client \in ClientDocument /\ client.version = clients[c].version + 1
  <2> DEFINE next == NextVersion(c)
  <2>1. next = clients[c].version + 1 /\ next \in Nat
    BY <1>1 DEF ClientDocument, NextVersion
  <2>2. client = [clients[c] EXCEPT !.scopes = g, !.version = next]
    OBVIOUS
  <2> HIDE DEF next, client
  <2> QED BY <1>1, <2>1, <2>2 DEF ClientDocument
<1>4. clients' = [clients EXCEPT ![c] = client]
  BY DEF UpdateScopes
<1>5. changes' = [changes EXCEPT ![c] = @ + 1]
  BY DEF UpdateScopes
<1> HIDE DEF client
<1>6. /\ changes' \in [Client -> Nat] /\ changes'[c] = changes[c] + 1
      /\ \A d \in Client : d # c => changes'[d] = changes[d]
  BY <1>2, <1>5
<1> QED BY <1>2, <1>3, <1>4, <1>6, ClientChangeKeeps DEF UpdateScopes

(* A rotation supersedes every token of the client by one without expiry.  *)
LEMMA RotateKeeps ==
    ASSUME Inv, NEW c \in Client, NEW u \in Token, NEW atOnce \in BOOLEAN,
           NEW now \in EarlierReading, Rotate(c, u, atOnce, now)
    PROVE  Inv'
<1> DEFINE token == [client |-> c, status |-> "Active", expires |-> Absent]
           last == LastUse(atOnce)
           retired(v) == Retire(tokens[v], atOnce, now)
<1> USE DEF Inv
<1>1. /\ clock \in Nat /\ now \in Int /\ now <= clock + Skew /\ last \in Int
      /\ now + Skew <= last /\ (~atOnce => now + Overlap + Skew <= last)
  BY DEF TypeOK, EarlierReading, LastUse
<1>2. token \in TokenDocument /\ token # Absent
  BY DEF TokenDocument, TokenStatuses
<1>3. /\ tokens[u] = Absent /\ u \notin Owned(c) /\ Known(c)
      /\ \A v \in Token : tokens'[v] = IF v = u THEN token
                                       ELSE IF v \in Owned(c) THEN retired(v) ELSE tokens[v]
      /\ \A v \in Token : deadline'[v] = IF v \in Owned(c) THEN Sooner(deadline[v], last)
                                         ELSE deadline[v]
      /\ DOMAIN tokens' = Token /\ DOMAIN deadline' = Token
      /\ UNCHANGED <<clock, clients, held, snapshots, pages, changes>>
  BY DEF Rotate, Owned
<1>4. \A v \in Token : tokens[v] # Absent => tokens[v] \in TokenDocument
  BY DEF TypeOK
<1>5. ASSUME NEW v \in Token, v \in Owned(c)
      PROVE  /\ retired(v) \in TokenDocument /\ retired(v) # Absent
             /\ retired(v).client = c /\ retired(v).status # "Active"
             /\ retired(v).status = "Retiring" =>
                   /\ retired(v).expires \in Int
                   /\ retired(v).expires + Skew <= Sooner(deadline[v], last)
             /\ Sooner(deadline[v], last) \in Int
  <2> DEFINE r == retired(v)
             t == tokens[v]
  <2>1. t \in TokenDocument /\ t # Absent /\ t.client = c
    BY <1>4, <1>5 DEF Owned
  <2>2. /\ t.status = "Active" => t.expires = Absent /\ deadline[v] = Absent
        /\ t.status = "Retiring" => t.expires # Absent
        /\ t.status = "Retiring" /\ deadline[v] # Absent => t.expires + Skew <= deadline[v]
    BY <2>1 DEF TokensPlaced, ExpiriesBeforeDeadlines
  <2>3. /\ r \in TokenDocument /\ r.client = t.client /\ r.status # "Active"
        /\ r.status = "Retiring" =>
              \/ r = t /\ t.status = "Retiring" /\ (t.expires # Absent => t.expires <= now)
              \/ /\ ~atOnce /\ r.expires \in Int /\ r.expires <= now + Overlap
                 /\ t.expires # Absent => r.expires <= t.expires
    BY <1>1, <2>1, <2>2, RetireResult
  <2>4. deadline[v] \in Int \cup {Absent} /\ t.expires \in Int \cup {Absent}
    BY <2>1 DEF TypeOK, TokenDocument
  <2>5. Sooner(deadline[v], last) \in {deadline[v], last} /\ Sooner(deadline[v], last) \in Int
    BY <1>1, <2>4 DEF Sooner
  <2> HIDE DEF r, t, last
  <2>6. ASSUME r.status = "Retiring"
        PROVE  /\ r.expires \in Int /\ r.expires + Skew <= last
               /\ deadline[v] # Absent => r.expires + Skew <= deadline[v]
    <3>1. CASE r = t
      BY <1>1, <2>2, <2>3, <2>4, <2>6, <3>1
    <3>2. CASE r # t
      <4>1. /\ ~atOnce /\ r.expires \in Int /\ r.expires <= now + Overlap
            /\ t.expires # Absent => r.expires <= t.expires
        BY <2>3, <2>6, <3>2
      <4>2. deadline[v] # Absent => t.expires # Absent /\ t.expires + Skew <= deadline[v]
        <5>1. t.status \in {"Active", "Retiring"}
          BY <2>6, <3>2 DEF r, t, Retire, TokenIsActive
        <5> QED BY <2>2, <5>1
      <4> QED BY <1>1, <2>4, <4>1, <4>2
    <3> QED BY <3>1, <3>2
  <2>7. r = retired(v)
    BY DEF r
  <2> QED BY <2>1, <2>3, <2>5, <2>6, <2>7
<1> HIDE DEF token, last, retired
<1>6. token.client = c /\ token.status = "Active" /\ token.expires = Absent
  BY DEF token
<1>7. TypeOK'
  <2>1. tokens' \in [Token -> TokenDocument \cup {Absent}]
    <3>1. \A v \in Token : tokens'[v] \in TokenDocument \cup {Absent}
      BY <1>2, <1>3, <1>4, <1>5
    <3>2. tokens' = [v \in Token |-> tokens'[v]]
      BY DEF Rotate
    <3> QED BY <3>1, <3>2
  <2>2. deadline' \in [Token -> Int \cup {Absent}]
    <3>1. \A v \in Token : deadline'[v] \in Int \cup {Absent}
      BY <1>3, <1>5 DEF TypeOK
    <3>2. deadline' = [v \in Token |-> deadline'[v]]
      BY DEF Rotate
    <3> QED BY <3>1, <3>2
  <2> QED BY <1>3, <2>1, <2>2 DEF TypeOK
<1>8. TokensPlaced' /\ ExpiriesBeforeDeadlines'
  <2> SUFFICES ASSUME NEW v \in Token
               PROVE  /\ tokens'[v] = Absent => deadline'[v] = Absent
                      /\ tokens'[v] # Absent =>
                            /\ clients'[tokens'[v].client] # Absent
                            /\ tokens'[v].status = "Active" =>
                                  tokens'[v].expires = Absent /\ deadline'[v] = Absent
                            /\ tokens'[v].status = "Retiring" => tokens'[v].expires # Absent
                      /\ tokens'[v] # Absent /\ deadline'[v] # Absent
                            /\ tokens'[v].status = "Retiring"
                         => tokens'[v].expires + Skew <= deadline'[v]
    BY DEF TokensPlaced, ExpiriesBeforeDeadlines, Known
  <2>1. clients' = clients /\ clients[c] # Absent
    BY <1>3 DEF Known
  <2>2. CASE v = u
    BY <1>2, <1>3, <1>6, <2>1, <2>2 DEF TokensPlaced, Known
  <2>3. CASE v \in Owned(c)
    BY <1>3, <1>5, <2>1, <2>3
  <2>4. CASE v # u /\ v \notin Owned(c)
    <3>1. tokens'[v] = tokens[v] /\ deadline'[v] = deadline[v]
      BY <1>3, <2>4
    <3>2. tokens[v] # Absent => tokens[v].client \in Client
      BY <1>4 DEF TokenDocument
    <3> QED BY <2>1, <3>1, <3>2 DEF TokensPlaced, ExpiriesBeforeDeadlines, Known
  <2> QED BY <2>2, <2>3, <2>4
<1>9. OneCurrentToken'
  <2> SUFFICES ASSUME NEW d \in Client, Known(d)', clients'[d].status # "Revoked"
               PROVE  \E v \in Owned(d)' : \A w \in Owned(d)' :
                         tokens'[w].status = "Active" <=> w = v
    BY DEF OneCurrentToken
  <2>1. CASE d = c
    <3>1. u \in Owned(c)'
      BY <1>2, <1>3, <1>6 DEF Owned
    <3>2. \A w \in Owned(c)' : w = u \/ w \in Owned(c)
      BY <1>3 DEF Owned
    <3>3. Owned(c) \subseteq Token
      BY DEF Owned
    <3>4. \A w \in Owned(c)' : tokens'[w].status = "Active" <=> w = u
      BY <1>3, <1>5, <1>6, <3>2, <3>3
    <3> QED BY <2>1, <3>1, <3>4
  <2>2. CASE d # c
    <3>1. \A w \in Token : w \in Owned(d)' <=> w \in Owned(d)
      BY <2>2, <1>3, <1>5, <1>6 DEF Owned
    <3>2. \A w \in Owned(d) : w \in Token /\ tokens'[w] = tokens[w]
      BY <2>2, <1>3 DEF Owned
    <3>3. Known(d) /\ clients[d].status # "Revoked"
      BY <1>3 DEF Known
    <3>4. PICK v \in Owned(d) : \A w \in Owned(d) : tokens[w].status = "Active" <=> w = v
      BY <3>3 DEF OneCurrentToken
    <3>5. Owned(d)' \subseteq Token
      BY DEF Owned
    <3> QED BY <3>1, <3>2, <3>4, <3>5
  <2> QED BY <2>1, <2>2
<1>10. VersionsCount'
  BY <1>3 DEF VersionsCount, Known
<1> QED BY <1>7, <1>8, <1>9, <1>10

LEMMA RevokeKeeps ==
    ASSUME Inv, NEW c \in Client, Revoke(c)
    PROVE  Inv'
<1> DEFINE ended(v) == Ended(tokens[v], "Revoked")
           client == [clients[c] EXCEPT !.status = "Revoked"]
<1> USE DEF Inv
<1>1. /\ Known(c) /\ clients' = [clients EXCEPT ![c] = client]
      /\ \A v \in Token : tokens'[v] = IF v \in Owned(c) THEN ended(v) ELSE tokens[v]
      /\ UNCHANGED <<clock, held, snapshots, pages, changes, deadline>>
  BY DEF Revoke
<1>2. clients[c] \in ClientDocument
  BY <1>1 DEF TypeOK, Known
<1>3. /\ client \in ClientDocument /\ client # Absent /\ client.status = "Revoked"
      /\ client.version = clients[c].version
  BY <1>2 DEF ClientDocument, ClientStatuses
<1>4. \A v \in Token : tokens[v] # Absent => tokens[v] \in TokenDocument
  BY DEF TypeOK
<1>5. \A v \in Owned(c) : /\ ended(v) \in TokenDocument /\ ended(v) # Absent
                          /\ ended(v).client = tokens[v].client
                          /\ ended(v).status = "Revoked"
  BY <1>4 DEF Owned, Ended, TokenDocument, TokenStatuses
<1>6. \A d \in Client : clients'[d] = IF d = c THEN client ELSE clients[d]
  BY <1>1 DEF TypeOK
<1> HIDE DEF ended, client
<1>7. TypeOK'
  <2>1. tokens' \in [Token -> TokenDocument \cup {Absent}]
    <3>1. \A v \in Token : tokens'[v] \in TokenDocument \cup {Absent}
      BY <1>1, <1>4, <1>5
    <3>2. tokens' = [v \in Token |-> tokens'[v]]
      BY DEF Revoke
    <3> QED BY <3>1, <3>2
  <2> QED BY <1>1, <1>3, <2>1 DEF TypeOK
<1>8. \A v \in Token : /\ tokens'[v] = Absent <=> tokens[v] = Absent
                       /\ tokens[v] # Absent => tokens'[v].client = tokens[v].client
                       /\ tokens'[v] = tokens[v] \/ tokens'[v].status = "Revoked"
  BY <1>1, <1>5 DEF Owned
<1>9. \A v \in Token : tokens[v] # Absent => tokens[v].client \in Client
  BY <1>4 DEF TokenDocument
<1>10. TokensPlaced' /\ ExpiriesBeforeDeadlines'
  BY <1>1, <1>3, <1>6, <1>8, <1>9 DEF TokensPlaced, ExpiriesBeforeDeadlines, Known
<1>11. OneCurrentToken'
  <2> SUFFICES ASSUME NEW d \in Client, Known(d)', clients'[d].status # "Revoked"
               PROVE  \E v \in Owned(d)' : \A w \in Owned(d)' :
                         tokens'[w].status = "Active" <=> w = v
    BY DEF OneCurrentToken
  <2>1. d # c /\ Known(d) /\ clients[d].status # "Revoked"
    BY <1>3, <1>6 DEF Known
  <2>2. Owned(d)' = Owned(d)
    BY <1>8 DEF Owned
  <2>3. \A w \in Owned(d) : tokens'[w] = tokens[w]
    BY <1>1, <2>1 DEF Owned
  <2> QED BY <2>1, <2>2, <2>3 DEF OneCurrentToken
<1>12. VersionsCount'
  BY <1>1, <1>3, <1>6 DEF VersionsCount, Known
<1> QED BY <1>7, <1>10, <1>11, <1>12

(* A request that leaves clients and tokens alone only has to carry the    *)
(* version it was given.                                                   *)
LEMMA RequestKeeps ==
    ASSUME Inv, clock' \in Nat,
           UNCHANGED <<clients, tokens, changes, deadline>>,
           held' \subseteq Credential, snapshots' \subseteq Snapshot, pages' \subseteq Page,
           \A q \in held' : q.version = q.changes + 1,
           \A p \in pages' : /\ p.snapshot.version = p.changes + 1
                             /\ p.contacts <=> Contacts \in p.snapshot.scopes
    PROVE  Inv'
<1>1. TypeOK'
  BY DEF Inv, TypeOK
<1>2. TokensPlaced' /\ ExpiriesBeforeDeadlines' /\ OneCurrentToken'
  BY DEF Inv, TokensPlaced, ExpiriesBeforeDeadlines, OneCurrentToken, Known, Owned
<1>3. VersionsCount'
  <2>1. /\ \A q \in held' : q.version = q.changes + 1
        /\ \A p \in pages' : /\ p.snapshot.version = p.changes + 1
                             /\ p.contacts <=> Contacts \in p.snapshot.scopes
    OBVIOUS
  <2>2. \A c \in Client : IF clients'[c] # Absent THEN clients'[c].version = changes'[c] + 1
                                                 ELSE changes'[c] = 0
    BY DEF Inv, VersionsCount, Known
  <2> QED BY <2>1, <2>2, Zenon DEF VersionsCount, Known
<1> QED BY <1>1, <1>2, <1>3 DEF Inv

LEMMA AuthenticateKeeps ==
    ASSUME Inv, NEW u \in Token, NEW now \in Reading, Authenticate(u, now)
    PROVE  Inv'
<1> DEFINE c == tokens[u].client
<1>1. c \in Client /\ clients[c] \in ClientDocument
  BY DEF Authenticate, Authorizes, Inv, TypeOK, TokenDocument, TokensPlaced, Known
<1>2. CredentialOf(u) = [client |-> c, token |-> u, scopes |-> clients[c].scopes,
                         version |-> clients[c].version, changes |-> changes[c]]
  BY DEF CredentialOf
<1>3. clients[c].version = changes[c] + 1 /\ changes[c] \in Nat
  BY <1>1 DEF Inv, TypeOK, VersionsCount, Known
<1> HIDE DEF c
<1>4. CredentialOf(u) \in Credential /\ CredentialOf(u).version = CredentialOf(u).changes + 1
  BY <1>1, <1>2, <1>3 DEF Credential, ClientDocument
<1>5. \A q \in held' : q \in Credential /\ q.version = q.changes + 1
  BY <1>4 DEF Authenticate, Inv, TypeOK, VersionsCount
<1> QED BY <1>5, RequestKeeps DEF Authenticate, Inv, TypeOK, VersionsCount

LEMMA OpenSnapshotKeeps ==
    ASSUME Inv, NEW q \in held, NEW now \in Reading, OpenSnapshot(q, now)
    PROVE  Inv'
<1>1. q \in Credential /\ now \in Int
  BY DEF Inv, TypeOK, Reading
<1>2. [client |-> q.client, token |-> q.token, scopes |-> q.scopes,
       version |-> q.version, at |-> now] \in Snapshot
  BY <1>1 DEF Credential, Snapshot
<1>3. snapshots' \subseteq Snapshot
  BY <1>2 DEF OpenSnapshot, Inv, TypeOK
<1> QED BY <1>3, RequestKeeps DEF OpenSnapshot, Inv, TypeOK, VersionsCount

LEMMA ReadPageKeeps ==
    ASSUME Inv, NEW q \in held, NEW s \in snapshots, NEW now \in Reading,
           ReadPage(q, s, now)
    PROVE  Inv'
<1> DEFINE page == [snapshot |-> s, contacts |-> Contacts \in q.scopes, changes |-> q.changes]
<1>1. q \in Credential /\ s \in Snapshot /\ q.version = q.changes + 1
  BY DEF Inv, TypeOK, VersionsCount
<1>2. page \in Page
  BY <1>1 DEF Credential, Page
<1>3. page.snapshot = s /\ page.changes = q.changes /\ (page.contacts <=> Contacts \in q.scopes)
  BY Zenon
<1>4. s.version = q.version /\ s.scopes = q.scopes /\ pages' = pages \cup {page}
  BY DEF ReadPage, SnapshotValue
<1> HIDE DEF page
<1>5. /\ page.snapshot.version = page.changes + 1
      /\ page.contacts <=> Contacts \in page.snapshot.scopes
  BY <1>1, <1>3, <1>4
<1>6. pages' \subseteq Page
  BY <1>2, <1>4 DEF Inv, TypeOK
<1>7. \A p \in pages' : /\ p.snapshot.version = p.changes + 1
                        /\ p.contacts <=> Contacts \in p.snapshot.scopes
  BY <1>4, <1>5, Zenon DEF Inv, VersionsCount
<1> QED BY <1>6, <1>7, RequestKeeps DEF ReadPage, Inv, TypeOK, VersionsCount

(* Every step keeps the invariant.                                         *)
LEMMA NextHolds == Inv /\ [Next]_vars => Inv'
<1> SUFFICES ASSUME Inv, [Next]_vars PROVE Inv'
  OBVIOUS
<1>1. CASE Tick
  <2>1. clock' \in Nat
    BY <1>1 DEF Tick, Inv, TypeOK
  <2> QED BY <1>1, <2>1, RequestKeeps DEF Tick, Inv, TypeOK, VersionsCount
<1>2. ASSUME NEW c \in Client, NEW u \in Token, NEW g \in Grants, Create(c, u, g) PROVE Inv'
  BY <1>2, CreateKeeps
<1>3. ASSUME NEW c \in Client, Disable(c) \/ Enable(c) PROVE Inv'
  BY <1>3, ChangeStatusKeeps DEF Disable, Enable, ClientStatuses
<1>4. ASSUME NEW c \in Client, NEW g \in Grants, NEW expected \in Grants,
             UpdateScopes(c, g, expected)
      PROVE  Inv'
  BY <1>4, UpdateScopesKeeps
<1>5. ASSUME NEW c \in Client, NEW u \in Token, NEW atOnce \in BOOLEAN,
             NEW now \in EarlierReading, Rotate(c, u, atOnce, now)
      PROVE  Inv'
  BY <1>5, RotateKeeps
<1>6. ASSUME NEW c \in Client, Revoke(c) PROVE Inv'
  BY <1>6, RevokeKeeps
<1>7. ASSUME NEW u \in Token, NEW now \in Reading, Authenticate(u, now) PROVE Inv'
  BY <1>7, AuthenticateKeeps
<1>8. ASSUME NEW q \in held, End(q) PROVE Inv'
  BY <1>8, RequestKeeps DEF End, Inv, TypeOK, VersionsCount
<1>9. ASSUME NEW q \in held, NEW now \in Reading, OpenSnapshot(q, now) PROVE Inv'
  BY <1>9, OpenSnapshotKeeps
<1>10. ASSUME NEW q \in held, NEW s \in snapshots, NEW now \in Reading, ReadPage(q, s, now)
       PROVE  Inv'
  BY <1>10, ReadPageKeeps
<1>11. CASE UNCHANGED vars
  BY <1>11, RequestKeeps DEF vars, Inv, TypeOK, VersionsCount
<1> QED BY <1>1, <1>2, <1>3, <1>4, <1>5, <1>6, <1>7, <1>8, <1>9, <1>10, <1>11 DEF Next

LEMMA InvAlways == Spec => []Inv
BY InitHolds, NextHolds, PTL DEF Spec

-----------------------------------------------------------------------------
(* Every reachable state is of its type (authenticate, rotate and the      *)
(* snapshot routes included).                                              *)
THEOREM TypeCorrect == Spec => []TypeOK
<1>1. Inv => TypeOK
  BY DEF Inv
<1> QED BY <1>1, InvAlways, PTL

(* No sequence of rotations, however late or on whatever host, lets a      *)
(* superseded token outlive its overlap (tokenIsActive, earlierTimestamp). *)
THEOREM OverlapsEnd == Spec => []OverlapEnds
<1>1. Inv => OverlapEnds
  <2> SUFFICES ASSUME Inv, NEW u \in Token, NEW now \in Reading, Authorizes(u, now),
                      deadline[u] # Absent
               PROVE  clock < deadline[u]
    BY DEF OverlapEnds, Accepted
  <2>1. tokens[u] \in TokenDocument /\ deadline[u] \in Int /\ clock \in Nat
    BY DEF Inv, TypeOK, Authorizes
  <2>2. tokens[u].status = "Retiring" /\ tokens[u].expires # Absent
    BY <2>1 DEF Inv, TokensPlaced, Authorizes, TokenIsActive
  <2>3. tokens[u].expires \in Int /\ now < tokens[u].expires
    BY <2>1, <2>2 DEF Authorizes, TokenIsActive, TokenDocument, Reading
  <2>4. tokens[u].expires + Skew <= deadline[u]
    BY <2>1, <2>2 DEF Inv, ExpiriesBeforeDeadlines
  <2>5. now \in Int /\ clock - Skew <= now
    BY <2>1 DEF Reading
  <2> QED BY <2>1, <2>3, <2>4, <2>5
<1> QED BY <1>1, InvAlways, PTL

(* A client once revoked stays revoked, and none of its tokens, whenever   *)
(* issued, is accepted (revoke, changeStatus, authenticate).               *)
THEOREM RevokedForGood == Spec => RevocationIsTerminal
<1> DEFINE Stays == \A c \in Client : Known(c) /\ clients[c].status = "Revoked" =>
              /\ clients'[c] # Absent /\ clients'[c].status = "Revoked"
              /\ \A u \in Token : (u \in Owned(c))' => ~Accepted(u)'
<1>1. Inv /\ [Next]_vars => Stays
  <2> SUFFICES ASSUME Inv, [Next]_vars, NEW c \in Client, Known(c),
                      clients[c].status = "Revoked"
               PROVE  clients'[c] = clients[c]
    BY DEF Known, Owned, Accepted, Authorizes
  <2>1. clients \in [Client -> ClientDocument \cup {Absent}]
    BY DEF Inv, TypeOK
  <2>2. ASSUME NEW d \in Client, NEW u \in Token, NEW g \in Grants, Create(d, u, g)
        PROVE  clients'[c] = clients[c]
    BY <2>1, <2>2 DEF Create
  <2>3. ASSUME NEW d \in Client, Disable(d) \/ Enable(d) PROVE clients'[c] = clients[c]
    BY <2>1, <2>3 DEF Disable, Enable, ChangeStatus
  <2>4. ASSUME NEW d \in Client, NEW g \in Grants, NEW expected \in Grants,
               UpdateScopes(d, g, expected)
        PROVE  clients'[c] = clients[c]
    BY <2>1, <2>4 DEF UpdateScopes
  <2>5. ASSUME NEW d \in Client, Revoke(d) PROVE clients'[c] = clients[c]
    BY <2>1, <2>5 DEF Revoke
  <2> QED BY <2>2, <2>3, <2>4, <2>5 DEF Next, vars, Tick, Rotate, Authenticate, End,
             OpenSnapshot, ReadPage
<1>2. Stays => [Stays]_vars
  OBVIOUS
<1> QED BY <1>1, InvAlways, PTL DEF Spec, RevocationIsTerminal

(* Whatever happens to the client's grants while a consumer pages, the     *)
(* pages of one snapshot carry contacts alike (snapshotValue, grants).     *)
THEOREM PagesShareGrants == Spec => []SnapshotPagesShareGrants
<1>1. Inv => SnapshotPagesShareGrants
  <2> SUFFICES ASSUME Inv, NEW p \in pages, NEW q \in pages, p.snapshot = q.snapshot
               PROVE  p.contacts = q.contacts /\ p.changes = q.changes
    BY DEF SnapshotPagesShareGrants
  <2>1. p \in Page /\ q \in Page
    BY DEF Inv, TypeOK
  <2>2. p.changes \in Nat /\ q.changes \in Nat
    BY <2>1 DEF Page
  <2>3. p.changes + 1 = q.changes + 1
    BY DEF Inv, VersionsCount
  <2>4. p.contacts \in BOOLEAN /\ q.contacts \in BOOLEAN
    BY <2>1 DEF Page
  <2>5. p.contacts <=> q.contacts
    BY DEF Inv, VersionsCount
  <2>6. p.contacts = q.contacts
    BY <2>4, <2>5
  <2> QED BY <2>2, <2>3, <2>6
<1> QED BY <1>1, InvAlways, PTL

(* Rotation never leaves a client without a lasting token, or with two     *)
(* (create, rotate).                                                       *)
THEOREM AlwaysOneCurrent == Spec => []OneCurrentToken
<1>1. Inv => OneCurrentToken
  BY DEF Inv
<1> QED BY <1>1, InvAlways, PTL
=============================================================================
