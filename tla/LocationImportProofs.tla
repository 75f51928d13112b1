------------------------ MODULE LocationImportProofs ------------------------
(***************************************************************************)
(* What imports and edits of Locations keep, for any files, forms and      *)
(* numbers of Locations, previews and confirmations: each save replaces    *)
(* the record its author was shown, because a version is never used twice  *)
(* and no Location is taken away; and nobody comes to share an inbox that  *)
(* was not shown to be shared, because what is acknowledged is compared    *)
(* with what is shared at the moment of the save.                          *)
(***************************************************************************)
EXTENDS LocationImport, FiniteSetTheorems, TLAPS

Receipts == UNION {[S -> Location] : S \in SUBSET Ids}
Directories == [Ids -> Location \cup {None}]

(* Rows that are written, or found unchanged and checked again.            *)
PlannedRows == [row : Nat, id : Ids, data : Data, first : {1}, version : Nat \cup {None},
                action : {"add", "update", "unchanged"}]
Acknowledgments == SUBSET (Nat \X Inboxes \X SUBSET (Ids \X Numbers \X Nat))
Manifests == [file : Files, writes : SUBSET PlannedRows, unchanged : SUBSET PlannedRows,
              acks : Acknowledgments, expires : Nat, seen : Directories]
Stages == {"sent", "denied", "late", "admitted", "saved", "stale"}
Confirmations == [op : Nat, stage : Stages]
Drafts == [write : [row : {0}, id : Ids, data : Data, first : {0}],
           base : Location \cup {None}, acks : Acknowledgments]

ImportTypes ==
    /\ TypeOK
    /\ receipts \in [1 .. MaxPreviews -> Receipts \cup {None}]
    /\ signed \in Seq(Manifests)
    /\ calls \in Seq(Confirmations) /\ \A c \in DOMAIN calls : calls[c].op \in DOMAIN signed
    /\ DOMAIN panel = DOMAIN EmptyPanel
    /\ panel.file \in Files \cup {None} /\ panel.op \in DOMAIN signed \cup {None}
    /\ drafts \in [Editor -> Drafts \cup {None}]

(* A signed preview writes something, and what it updates or found          *)
(* unchanged was there, in the version it names.                            *)
Faithful(m) ==
    /\ m.writes # {}
    /\ \A w \in m.writes : w.action # "unchanged"
    /\ \A u \in m.unchanged : u.action = "unchanged"
    /\ \A p \in m.writes \cup m.unchanged : p.action # "add" =>
          m.seen[p.id] # None /\ p.version = m.seen[p.id].version

(* A record that was seen is there still, or was replaced under a higher   *)
(* version.                                                                *)
Follows(record, seen) == seen # None =>
    /\ record # None /\ record.version >= seen.version
    /\ record.version = seen.version => record = seen

SeenIsFollowed ==
    /\ \A o \in DOMAIN signed : Faithful(signed[o]) /\ \A l \in Ids : Follows(locations[l], signed[o].seen[l])
    /\ \A e \in Editor : drafts[e] # None => Follows(locations[drafts[e].write.id], drafts[e].base)

ImportInv == ImportTypes /\ SeenIsFollowed /\ SharingAgreed

-----------------------------------------------------------------------------
(* Sets of more than one element.                                          *)
LEMMA MoreThanOne ==
    ASSUME NEW S, IsFiniteSet(S)
    PROVE  Cardinality(S) > 1 <=> \E x, y \in S : x # y
<1>1. Cardinality(S) \in Nat BY FS_CardinalityType
<1>2. Cardinality(S) = 0 <=> S = {} BY FS_EmptySet
<1>3. Cardinality(S) = 1 <=> \E x : S = {x} BY FS_Singleton
<1> QED BY <1>1, <1>2, <1>3

LEMMA OneOrNone == ASSUME NEW S, Cardinality(S) = 1 PROVE S # {}
BY FS_EmptySet

(* What shares an inbox, and the Locations that do.                        *)
Sharers(L, inbox) == {l \in Ids : L[l] # None /\ L[l].data.inbox = inbox}

LEMMA SharingCounts ==
    ASSUME NEW L, NEW inbox
    PROVE  /\ Cardinality(Sharers(L, inbox)) > 1 <=> Cardinality(Sharing(L, inbox)) > 1
           /\ Sharers(L, inbox) = {s[1] : s \in Sharing(L, inbox)} /\ IsFiniteSet(Sharing(L, inbox))
           /\ Cardinality(Sharers(L, inbox)) > 1 <=> \E k, l \in Sharers(L, inbox) : k # l
<1> DEFINE S == Sharers(L, inbox)
           Shown == [l \in S |-> <<l, L[l].data.number, L[l].version>>]
<1>1. IsFiniteSet(S) BY FiniteAssumption, FS_Subset DEF Sharers
<1>2. Sharing(L, inbox) = {Shown[l] : l \in S} BY DEF Sharing, Sharers
<1>3. Shown \in Surjection(S, Sharing(L, inbox)) BY <1>2 DEF Surjection
<1>4. IsFiniteSet(Sharing(L, inbox)) BY <1>1, <1>3, FS_Surjection
<1>5. \A l \in S : Shown[l][1] = l OBVIOUS
<1>6. (\E k, l \in S : k # l) <=> \E s, t \in Sharing(L, inbox) : s # t
  <2> HIDE DEF S, Shown
  <2>1. ASSUME NEW k \in S, NEW l \in S, k # l PROVE \E s, t \in Sharing(L, inbox) : s # t
    <3>1. Shown[k] # Shown[l] BY <1>5, <2>1
    <3> QED BY <1>2, <3>1
  <2>2. ASSUME NEW s \in Sharing(L, inbox), NEW t \in Sharing(L, inbox), s # t
        PROVE  \E k, l \in S : k # l
    <3>1. PICK k \in S, l \in S : s = Shown[k] /\ t = Shown[l] BY <1>2
    <3> QED BY <2>2, <3>1
  <2> QED BY <2>1, <2>2
<1>7. S = {s[1] : s \in Sharing(L, inbox)}
  <2> HIDE DEF S, Shown
  <2>1. \A l \in S : l \in {s[1] : s \in Sharing(L, inbox)}
    <3> SUFFICES ASSUME NEW l \in S PROVE \E s \in Sharing(L, inbox) : s[1] = l OBVIOUS
    <3> QED BY <1>2, <1>5
  <2>2. \A s \in Sharing(L, inbox) : s[1] \in S BY <1>2, <1>5
  <2> QED BY <2>1, <2>2
<1> HIDE DEF S
<1>8. Cardinality(S) > 1 <=> \E k, l \in S : k # l BY <1>1, MoreThanOne
<1>9. Cardinality(Sharing(L, inbox)) > 1 <=> \E s, t \in Sharing(L, inbox) : s # t
  BY <1>4, MoreThanOne
<1> QED BY <1>4, <1>6, <1>7, <1>8, <1>9 DEF S

(* What is written, over what was there.                                   *)
Writeable(W) == \A w \in W : w.row \in Nat /\ w.id \in Ids /\ w.data \in Data /\ w.first \in Nat

LEMMA SavedTypes ==
    ASSUME NEW L \in Directories, NEW w, Writeable({w})
    PROVE  /\ Saved(L, w) \in Location /\ Saved(L, w) # None
           /\ Saved(L, w).data = w.data
           /\ L[w.id] # None => Saved(L, w).version > L[w.id].version
BY NoneAssumption DEF Directories, Location, Saved, Writeable

LEMMA AfterTypes ==
    ASSUME NEW L \in Directories, NEW W, Writeable(W)
    PROVE  /\ After(L, W) \in Directories
           /\ \A l \in Ids : /\ \/ After(L, W)[l] = L[l]
                                \/ \E w \in W : w.id = l /\ After(L, W)[l] = Saved(L, w)
                             /\ (\E w \in W : w.id = l) => After(L, W)[l] \in Location
                             /\ Follows(After(L, W)[l], L[l])
<1>1. ASSUME NEW l \in Ids, NEW w \in W, w.id = l
      PROVE  \E v \in W : v.id = l /\ After(L, W)[l] = Saved(L, v)
  BY <1>1 DEF After
<1>2. ASSUME NEW l \in Ids, ~ \E w \in W : w.id = l PROVE After(L, W)[l] = L[l]
  BY <1>2 DEF After
<1>3. \A v \in W : Writeable({v}) BY DEF Writeable
<1>4. \A v \in W : /\ Saved(L, v) \in Location /\ Saved(L, v) # None
                   /\ L[v.id] # None => Saved(L, v).version > L[v.id].version
  BY <1>3, SavedTypes
<1>5. \A l \in Ids : L[l] # None => L[l].version \in Nat BY DEF Directories, Location
<1>6. \A l \in Ids : After(L, W)[l] \in Location \cup {None} BY <1>1, <1>2, <1>4 DEF Directories
<1>7. After(L, W) \in Directories BY <1>6 DEF After, Directories
<1>8. ASSUME NEW l \in Ids PROVE Follows(After(L, W)[l], L[l])
  <2>1. CASE \E w \in W : w.id = l
    <3>1. PICK v \in W : v.id = l /\ After(L, W)[l] = Saved(L, v) BY <2>1, <1>1
    <3>2. Saved(L, v).version \in Nat BY <1>4 DEF Location
    <3> QED BY <3>1, <3>2, <1>4, <1>5 DEF Follows
  <2>2. CASE ~ \E w \in W : w.id = l BY <2>2, <1>2, <1>5 DEF Follows
  <2> QED BY <2>1, <2>2
<1> QED BY <1>1, <1>2, <1>4, <1>7, <1>8

LEMMA FollowsOn ==
    ASSUME NEW new \in Location \cup {None}, NEW old \in Location \cup {None},
           NEW seen \in Location \cup {None}, Follows(new, old), Follows(old, seen)
    PROVE  Follows(new, seen)
BY DEF Follows, Location

(* What a save comes to share an inbox with is what was acknowledged.      *)
LEMMA SavedSharing ==
    ASSUME NEW L \in Directories, NEW W, Writeable(W), NEW inbox \in Inboxes,
           Cardinality(Sharers(After(L, W), inbox)) > 1
    PROVE  \/ Sharers(After(L, W), inbox) \subseteq Sharers(L, inbox)
           \/ \E s \in Shared(L, W) : s[2] = inbox /\ Sharers(After(L, W), inbox) = {m[1] : m \in s[3]}
<1> DEFINE N == After(L, W)
<1> SUFFICES ASSUME NEW l \in Sharers(N, inbox), l \notin Sharers(L, inbox)
             PROVE  \E s \in Shared(L, W) : s[2] = inbox /\ Sharers(N, inbox) = {m[1] : m \in s[3]}
  OBVIOUS
<1>1. l \in Ids /\ N[l] # None /\ N[l].data.inbox = inbox BY DEF Sharers
<1>2. N[l] # L[l] BY <1>1 DEF Sharers
<1>3. PICK w \in W : w.id = l /\ N[l] = Saved(L, w) BY <1>1, <1>2, AfterTypes
<1>4. w.data.inbox = inbox BY <1>1, <1>3 DEF Saved
<1>5. inbox # None BY NoneAssumption
<1>6. NewInbox(L, w) BY <1>1, <1>3, <1>4, <1>5 DEF NewInbox, Sharers
<1>7. Cardinality(Sharing(N, inbox)) > 1 BY SharingCounts
<1>8. <<w.row, inbox, Sharing(N, inbox)>> \in Shared(L, W) BY <1>4, <1>6, <1>7 DEF Shared
<1> QED BY <1>8, SharingCounts

LEMMA SharedTypes ==
    ASSUME NEW L \in Directories, NEW W, Writeable(W)
    PROVE  Shared(L, W) \in Acknowledgments
<1> DEFINE N == After(L, W)
<1>1. \A inbox : Sharing(N, inbox) \subseteq Ids \X Numbers \X Nat
  BY AfterTypes DEF Sharing, Directories, Location, Data
<1>2. \A w \in W : NewInbox(L, w) => w.data.inbox \in Inboxes BY DEF NewInbox, Writeable, Data
<1> HIDE DEF N
<1>3. \A w \in W : NewInbox(L, w) =>
          <<w.row, w.data.inbox, Sharing(N, w.data.inbox)>> \in Nat \X Inboxes \X SUBSET (Ids \X Numbers \X Nat)
  BY <1>1, <1>2 DEF Writeable
<1> QED BY <1>3 DEF Shared, Acknowledgments, N

(* The plan.                                                               *)
LEMMA MatchTypes ==
    ASSUME NEW L \in Directories, NEW row \in FileRow
    PROVE  Match(L, row) # None => Match(L, row) \in Ids /\ L[Match(L, row)] # None
<1> DEFINE found == IF row.location # None THEN {row.location} ELSE StoreMatches(L, row)
<1>1. SUFFICES ASSUME Cardinality(found) = 1, \A l \in found : L[l] # None
               PROVE  (CHOOSE l \in found : TRUE) \in found /\ found \subseteq Ids
  BY DEF Match
<1>2. found # {} BY <1>1, OneOrNone
<1>3. found \subseteq Ids BY DEF StoreMatches, WithNumber, FileRow
<1> HIDE DEF found
<1> QED BY <1>2, <1>3

LEMMA NewIdTypes ==
    ASSUME NEW L \in Directories, NEW f \in Files, NEW i \in DOMAIN Csv[f], Addition(L, Csv[f][i])
    PROVE  NewId(L, f, i) \in Ids
<1>1. Csv[f] \in Seq(FileRow) BY FilesAssumption
<1>2. Csv[f][i] \in FileRow /\ i \in Nat /\ i >= 1 /\ 1 .. i \subseteq DOMAIN Csv[f] BY <1>1
<1>3. CASE Csv[f][i].location # None BY <1>2, <1>3 DEF NewId, FileRow
<1>4. CASE Csv[f][i].location = None
  <2> DEFINE Added == {j \in 1 .. i : Csv[f][j].location = None /\ Addition(L, Csv[f][j])}
  <2>1. IsFiniteSet(1 .. i) /\ Cardinality(1 .. i) = i BY <1>2, FS_Interval
  <2>2. IsFiniteSet(Added) /\ Cardinality(Added) <= i BY <2>1, FS_Subset
  <2>3. i \in Added BY <1>2, <1>4
  <2>4. Cardinality(Added) \in Nat /\ Cardinality(Added) # 0 BY <2>2, <2>3, FS_CardinalityType, FS_EmptySet
  <2>5. Cardinality(Added) \in 1 .. i BY <2>2, <2>4, <1>2
  <2>6. Cardinality(Added) \in Rows BY <2>5, <1>2 DEF Rows
  <2>7. NewId(L, f, i) = <<f, Cardinality(Added)>> BY <1>4 DEF NewId
  <2>8. ASSUME NEW k \in Rows PROVE <<f, k>> \in Ids BY DEF Ids
  <2> HIDE DEF Added
  <2> QED BY <2>6, <2>7, <2>8
<1> QED BY <1>3, <1>4

LEMMA EntryTypes ==
    ASSUME NEW L \in Directories, NEW f \in Files, NEW mode, NEW i \in DOMAIN Csv[f],
           Entry(L, f, mode, i).action # "blocked"
    PROVE  LET e == Entry(L, f, mode, i)
           IN  e \in PlannedRows /\ (e.action # "add" => L[e.id] # None /\ e.version = L[e.id].version)
<1> DEFINE row == Csv[f][i]
           e == Entry(L, f, mode, i)
<1>1. row \in FileRow /\ i \in Nat
  <2>1. Csv[f] \in Seq(FileRow) BY FilesAssumption
  <2> QED BY <2>1
<1>2. ~Blocked(L, Csv[f], mode, i) BY DEF Entry
<1>3. e.row = i /\ e.id = Target(L, f, i) /\ e.data = Proposed(L, row) /\ e.first = 1
  BY DEF Entry
<1>4. CASE Match(L, row) = None
  <2>1. Addition(L, row) BY <1>2, <1>4 DEF Blocked, Addition
  <2>2. e.id \in Ids BY <1>3, <2>1, NewIdTypes DEF Target
  <2>3. row.number # None /\ row.value # None BY <1>2, <2>1 DEF Blocked
  <2>4. Proposed(L, row) \in Data BY <1>1, <1>4, <2>3 DEF Proposed, Data, FileRow
  <2>5. e.action = "add" /\ e.version = None BY <1>2, <1>4 DEF Entry
  <2> QED BY <1>1, <1>3, <2>2, <2>4, <2>5 DEF PlannedRows, Entry
<1>5. CASE Match(L, row) # None
  <2> DEFINE l == Match(L, row)
  <2>1. l \in Ids /\ L[l] # None BY <1>1, <1>5, MatchTypes
  <2>2. L[l] \in Location BY <2>1 DEF Directories
  <2>3. e.id = l BY <1>3, <1>5 DEF Target, Addition
  <2>4. e.version = L[l].version /\ e.action \in {"update", "unchanged"}
    BY <1>2, <1>5 DEF Entry
  <2>5. L[l].data \in Data BY <2>2 DEF Location
  <2>6. Proposed(L, row) \in Data
    BY <1>1, <1>5, <2>5 DEF Proposed, Data, FileRow
  <2> QED BY <1>1, <1>3, <2>1, <2>2, <2>3, <2>4, <2>6 DEF PlannedRows, Entry, Location
<1> QED BY <1>4, <1>5

(* What is signed is sound, and faithful to the Directory it was read from.*)
LEMMA ManifestSound ==
    ASSUME NEW L \in Directories, L = locations, clock \in Nat, NEW f \in Files, NEW mode,
           NEW rows, rows \subseteq Ready(PlanOf(L, f, mode)), rows # {}
    PROVE  LET plan == PlanOf(L, f, mode)
               W == {p \in plan : p.row \in rows}
               m == Manifest(f, plan, rows, Shared(L, W))
           IN  m \in Manifests /\ Faithful(m) /\ m.seen = locations
<1> DEFINE plan == PlanOf(L, f, mode)
           W == {p \in plan : p.row \in rows}
           U == {p \in plan : p.action = "unchanged"}
           m == Manifest(f, plan, rows, Shared(L, W))
<1>1. \A p \in plan : p.action # "blocked" =>
          p \in PlannedRows /\ (p.action # "add" => L[p.id] # None /\ p.version = L[p.id].version)
  BY EntryTypes DEF PlanOf
<1>2. \A p, q \in plan : p.row = q.row => p = q
  <2>1. \A i \in DOMAIN Csv[f] : Entry(L, f, mode, i).row = i BY DEF Entry
  <2> QED BY <2>1 DEF PlanOf
<1>3. \A p \in W : p.action \in {"add", "update"} BY <1>2 DEF Ready
<1>4. W # {} BY DEF Ready
<1>5. W \in SUBSET PlannedRows /\ U \in SUBSET PlannedRows BY <1>1, <1>3
<1>6. Writeable(W) BY <1>5 DEF Writeable, PlannedRows
<1>7. Shared(L, W) \in Acknowledgments BY <1>6, SharedTypes
<1>8. clock + Ttl \in Nat BY BoundsAssumption
<1>9. m = [file |-> f, writes |-> W, unchanged |-> U, acks |-> Shared(L, W), expires |-> clock + Ttl, seen |-> L]
  BY DEF Manifest
<1> HIDE DEF plan, W, U
<1>10. m \in Manifests BY <1>5, <1>7, <1>8, <1>9 DEF Manifests
<1>11. Faithful(m)
  <2>1. \A p \in W \cup U : p.action # "add" => L[p.id] # None /\ p.version = L[p.id].version
    BY <1>1, <1>3 DEF W, U
  <2>2. \A p \in U : p.action = "unchanged" BY DEF U
  <2> QED BY <1>3, <1>4, <1>9, <2>1, <2>2 DEF Faithful
<1> QED BY <1>9, <1>10, <1>11 DEF plan, W, m

-----------------------------------------------------------------------------
(* Where a call is in the panel, and in what it signed, changes no record. *)
Still == UNCHANGED <<locations, receipts, edits, agreed>>

LEMMA StillKeeps ==
    ASSUME ImportInv, Still
    PROVE  /\ locations' \in Directories /\ SharingAgreed'
           /\ \A l \in Ids : Follows(locations[l], locations[l])
BY DEF ImportInv, ImportTypes, TypeOK, Still, SharingAgreed, Directories, Follows, Location

PanelStep ==
    /\ UNCHANGED <<signed, clock, calls, drafts>>
    /\ DOMAIN panel' = DOMAIN EmptyPanel /\ panel'.file \in Files \cup {None}
    /\ panel'.op \in {panel.op, None} /\ panel'.outcome \in {"pending", "rejected", "uncertain"}

LEMMA PanelKeeps == ImportInv /\ Still /\ PanelStep => ImportInv'
BY DEF ImportInv, ImportTypes, TypeOK, Still, PanelStep, SharingAgreed, SeenIsFollowed

LEMMA PanelSteps ==
    ASSUME ImportInv,
           \/ SelectFile \/ ValidateFails \/ Toggle \/ Acknowledge
           \/ ConfirmFails \/ Answer \/ Lose \/ Reload
    PROVE  ImportInv'
<1>1. /\ DOMAIN panel = DOMAIN EmptyPanel /\ panel.file \in Files \cup {None}
      /\ panel.outcome \in {"pending", "rejected", "uncertain"}
  BY DEF ImportInv, ImportTypes, TypeOK
<1>2. DOMAIN EmptyPanel = {"file", "mode", "plan", "shown", "rows", "acks", "op", "dirty", "outcome",
                           "receipt", "stale", "waiting"}
  BY DEF EmptyPanel
<1>3. Still /\ PanelStep
  <2>1. CASE SelectFile BY <2>1, <1>2 DEF SelectFile, Still, PanelStep, EmptyPanel
  <2>2. CASE ValidateFails BY <2>2, <1>1, <1>2 DEF ValidateFails, Still, PanelStep
  <2>3. CASE Toggle BY <2>3, <1>1, <1>2 DEF Toggle, Still, PanelStep
  <2>4. CASE Acknowledge BY <2>4, <1>1, <1>2 DEF Acknowledge, Still, PanelStep
  <2>5. CASE ConfirmFails BY <2>5, <1>1, <1>2 DEF ConfirmFails, Still, PanelStep
  <2>6. CASE Answer BY <2>6, <1>1, <1>2 DEF Answer, Still, PanelStep
  <2>7. CASE Lose BY <2>7, <1>1, <1>2 DEF Lose, Still, PanelStep
  <2>8. CASE Reload BY <2>8, <1>2 DEF Reload, Still, PanelStep, EmptyPanel
  <2> QED BY <2>1, <2>2, <2>3, <2>4, <2>5, <2>6, <2>7, <2>8
<1> QED BY <1>3, PanelKeeps

LEMMA ValidateKeeps == ASSUME ImportInv, Validate PROVE ImportInv'
<1> DEFINE L == locations
           plan == PlanOf(L, panel.file, panel.mode)
           asked == [panel EXCEPT !.receipt = None, !.outcome = "pending", !.stale = FALSE]
<1>1. /\ DOMAIN panel = DOMAIN EmptyPanel /\ panel.file \in Files /\ panel.op \in DOMAIN signed \cup {None}
      /\ L \in Directories /\ signed \in Seq(Manifests) /\ clock \in Nat /\ Len(signed) < MaxPreviews
      /\ MaxPreviews \in Nat
  BY BoundsAssumption DEF ImportInv, ImportTypes, TypeOK, Validate, Directories
<1>2. DOMAIN EmptyPanel = {"file", "mode", "plan", "shown", "rows", "acks", "op", "dirty", "outcome",
                           "receipt", "stale", "waiting"}
  BY DEF EmptyPanel
<1>3. Still /\ UNCHANGED <<clock, calls, drafts>> BY DEF Validate, Still
<1>4. PICK rows :
        LET shown == Shared(L, {p \in plan : p.row \in rows})
            refused == ~ rows \subseteq Ready(plan) \/ \E a \in panel.acks : \A s \in shown : s[1] # a[1]
            token == rows # {} /\ shown \subseteq panel.acks
        IN  /\ panel' = IF refused THEN asked
                        ELSE [asked EXCEPT !.plan = plan, !.shown = shown, !.rows = rows,
                                           !.acks = @ \cap shown, !.dirty = FALSE,
                                           !.op = IF token THEN Len(signed) + 1 ELSE None]
            /\ signed' = IF refused \/ ~token THEN signed
                         ELSE Append(signed, Manifest(panel.file, plan, rows, shown))
  BY DEF Validate
<1> DEFINE shown == Shared(L, {p \in plan : p.row \in rows})
           m == Manifest(panel.file, plan, rows, shown)
<1>5. DOMAIN panel' = DOMAIN EmptyPanel /\ panel'.file = panel.file /\ panel'.outcome = "pending"
  BY <1>1, <1>2, <1>4
<1>6. CASE UNCHANGED signed /\ panel'.op \in {panel.op, None}
  BY <1>1, <1>3, <1>5, <1>6, PanelKeeps DEF PanelStep
<1>7. CASE /\ signed' = Append(signed, m) /\ panel'.op \in {panel.op, Len(signed) + 1, None}
           /\ rows \subseteq Ready(plan) /\ rows # {}
  <2>1. m \in Manifests /\ Faithful(m) /\ m.seen = locations BY <1>1, <1>7, ManifestSound
  <2> HIDE DEF m
  <2>2. /\ signed' \in Seq(Manifests) /\ Len(signed') <= MaxPreviews
        /\ DOMAIN signed \subseteq DOMAIN signed' /\ Len(signed) + 1 \in DOMAIN signed'
        /\ \A o \in DOMAIN signed' : (o \in DOMAIN signed /\ signed'[o] = signed[o]) \/ signed'[o] = m
    BY <1>1, <1>7, <2>1
  <2>3. ImportTypes'
    BY <1>1, <1>3, <1>5, <1>7, <2>2 DEF ImportInv, ImportTypes, TypeOK, Still
  <2>4. SeenIsFollowed'
    BY <1>3, <2>1, <2>2, StillKeeps DEF ImportInv, SeenIsFollowed, Still
  <2> QED BY <2>3, <2>4, <1>3, StillKeeps DEF ImportInv
<1> DEFINE refused == ~ rows \subseteq Ready(plan) \/ \E a \in panel.acks : \A s \in shown : s[1] # a[1]
           token == rows # {} /\ shown \subseteq panel.acks
<1>8. CASE refused BY <1>1, <1>2, <1>4, <1>6, <1>8
<1>9. CASE ~refused /\ ~token BY <1>1, <1>2, <1>4, <1>6, <1>9
<1>10. CASE ~refused /\ token BY <1>1, <1>2, <1>4, <1>7, <1>10
<1> QED BY <1>8, <1>9, <1>10

LEMMA ConfirmKeeps == ASSUME ImportInv, Confirm PROVE ImportInv'
<1> DEFINE call == [op |-> panel.op, stage |-> "sent"]
<1>1. /\ DOMAIN panel = DOMAIN EmptyPanel /\ panel.file \in Files \cup {None}
      /\ panel.outcome \in {"pending", "rejected", "uncertain"} /\ panel.op \in DOMAIN signed
      /\ signed \in Seq(Manifests) /\ calls \in Seq(Confirmations)
      /\ \A c \in DOMAIN calls : calls[c].op \in DOMAIN signed
      /\ Len(calls) < MaxCalls /\ MaxCalls \in Nat
  BY BoundsAssumption DEF ImportInv, ImportTypes, TypeOK, Confirm, Eligible
<1>2. Still /\ UNCHANGED <<signed, clock, drafts>> BY DEF Confirm, Still
<1>3. DOMAIN panel' = DOMAIN panel /\ panel'.file = panel.file /\ panel'.op = panel.op
      /\ panel'.outcome = panel.outcome
  <2>1. {"file", "op", "outcome"} \subseteq DOMAIN panel BY <1>1 DEF EmptyPanel
  <2> QED BY <2>1 DEF Confirm
<1>4. call \in Confirmations
  <2>1. panel.op \in Nat BY <1>1
  <2> QED BY <2>1 DEF Confirmations, Stages
<1>5. calls' = Append(calls, call) BY DEF Confirm
<1> HIDE DEF call
<1>6. /\ calls' \in Seq(Confirmations) /\ Len(calls') <= MaxCalls
      /\ \A c \in DOMAIN calls' : (c \in DOMAIN calls /\ calls'[c] = calls[c]) \/ calls'[c] = call
  BY <1>1, <1>4, <1>5
<1>7. \A c \in DOMAIN calls' : calls'[c].op \in DOMAIN signed BY <1>1, <1>6 DEF call
<1>8. ImportTypes'
  BY <1>1, <1>2, <1>3, <1>6, <1>7 DEF ImportInv, ImportTypes, TypeOK, Still
<1> QED BY <1>2, <1>8, StillKeeps DEF ImportInv, SeenIsFollowed, Still

LEMMA StageTypes ==
    ASSUME ImportTypes, NEW c \in DOMAIN calls, NEW stage \in Stages, Staged(c, stage)
    PROVE  /\ calls' \in Seq(Confirmations) /\ Len(calls') = Len(calls)
           /\ DOMAIN calls' = DOMAIN calls /\ \A d \in DOMAIN calls : calls'[d].op = calls[d].op
<1>1. calls \in Seq(Confirmations) BY DEF ImportTypes
<1>2. calls' = [calls EXCEPT ![c] = [calls[c] EXCEPT !.stage = stage]] BY DEF Staged
<1>3. calls[c] \in Confirmations BY <1>1
<1>4. /\ [calls[c] EXCEPT !.stage = stage] \in Confirmations
      /\ [calls[c] EXCEPT !.stage = stage].op = calls[c].op
  BY <1>3 DEF Confirmations
<1> QED BY <1>1, <1>2, <1>4

LEMMA AdmitKeeps == ASSUME ImportInv, NEW c \in DOMAIN calls, Admit(c) PROVE ImportInv'
<1>1. \E stage \in Stages : Staged(c, stage) BY DEF Admit, Stages
<1>2. Still /\ UNCHANGED <<signed, clock, panel, drafts>> BY DEF Admit, Still
<1>3. /\ calls' \in Seq(Confirmations) /\ Len(calls') = Len(calls)
      /\ DOMAIN calls' = DOMAIN calls /\ \A d \in DOMAIN calls : calls'[d].op = calls[d].op
  BY <1>1, StageTypes DEF ImportInv
<1>4. ImportTypes' BY <1>2, <1>3 DEF ImportInv, ImportTypes, TypeOK, Still
<1> QED BY <1>2, <1>4, StillKeeps DEF ImportInv, SeenIsFollowed, Still

LEMMA TickKeeps == ImportInv /\ Tick => ImportInv'
<1> SUFFICES ASSUME ImportInv, Tick PROVE ImportInv' OBVIOUS
<1>1. Still /\ UNCHANGED <<signed, calls, panel, drafts>> BY DEF Tick, Still
<1>2. clock' \in 0 .. MaxTime BY BoundsAssumption DEF ImportInv, ImportTypes, TypeOK, Tick
<1>3. ImportTypes' BY <1>1, <1>2 DEF ImportInv, ImportTypes, TypeOK, Still
<1> QED BY <1>1, <1>3, StillKeeps DEF ImportInv, SeenIsFollowed, Still

-----------------------------------------------------------------------------
(* A save, of an import or of a form, that acknowledges what it shares.    *)
SavedAs(W) ==
    /\ Writeable(W) /\ locations' = After(locations, W)
    /\ agreed' = agreed \cup {<<s[2], s[3]>> : s \in Shared(locations, W)}

LEMMA SaveKeeps ==
    ASSUME ImportInv, NEW W, SavedAs(W)
    PROVE  /\ locations' \in Directories /\ SharingAgreed'
           /\ \A l \in Ids : Follows(locations'[l], locations[l])
<1>1. locations \in Directories BY DEF ImportInv, ImportTypes, TypeOK, Directories
<1>2. locations' \in Directories /\ \A l \in Ids : Follows(locations'[l], locations[l])
  BY <1>1, AfterTypes DEF SavedAs
<1>3. ASSUME NEW inbox \in Inboxes, Cardinality(Sharers(locations', inbox)) > 1
      PROVE  \E a \in agreed' : a[1] = inbox /\ Sharers(locations', inbox) \subseteq {m[1] : m \in a[2]}
  <2>1. CASE Sharers(locations', inbox) \subseteq Sharers(locations, inbox)
    <3>1. \E k, l \in Sharers(locations, inbox) : k # l BY <1>3, <2>1, SharingCounts
    <3>2. Cardinality(Sharers(locations, inbox)) > 1 BY <3>1, SharingCounts
    <3>3. PICK a \in agreed : a[1] = inbox /\ Sharers(locations, inbox) \subseteq {m[1] : m \in a[2]}
      BY <3>2 DEF ImportInv, SharingAgreed, Sharers
    <3> QED BY <2>1, <3>3 DEF SavedAs
  <2>2. CASE \E s \in Shared(locations, W) : s[2] = inbox /\ Sharers(locations', inbox) = {m[1] : m \in s[3]}
    <3>1. PICK s \in Shared(locations, W) :
                 s[2] = inbox /\ Sharers(locations', inbox) = {m[1] : m \in s[3]}
      BY <2>2
    <3>2. <<s[2], s[3]>> \in agreed' BY DEF SavedAs
    <3> QED BY <3>1, <3>2
  <2> QED BY <1>1, <1>3, <2>1, <2>2, SavedSharing DEF SavedAs
<1> QED BY <1>2, <1>3 DEF SharingAgreed, Sharers

LEMMA SavesAreFollowed ==
    ASSUME ImportInv, NEW W, SavedAs(W), UNCHANGED signed, \A e \in Editor : drafts'[e] \in {drafts[e], None}
    PROVE  SeenIsFollowed'
<1>1. locations \in Directories BY DEF ImportInv, ImportTypes, TypeOK, Directories
<1>2. /\ locations' \in Directories /\ \A l \in Ids : Follows(locations'[l], locations[l])
  BY SaveKeeps
<1>3. ASSUME NEW o \in DOMAIN signed, NEW l \in Ids PROVE Follows(locations'[l], signed[o].seen[l])
  <2>1. signed[o].seen \in Directories
    <3>1. signed \in Seq(Manifests) BY DEF ImportInv, ImportTypes
    <3>2. signed[o] \in Manifests BY <3>1
    <3> QED BY <3>2 DEF Manifests
  <2>2. Follows(locations[l], signed[o].seen[l]) BY DEF ImportInv, SeenIsFollowed
  <2> QED BY <1>1, <1>2, <2>1, <2>2, FollowsOn DEF Directories
<1>4. ASSUME NEW e \in Editor, drafts'[e] # None
      PROVE  Follows(locations'[drafts'[e].write.id], drafts'[e].base)
  <2>1. drafts'[e] = drafts[e] /\ drafts[e] # None BY <1>4
  <2>2. drafts[e] \in Drafts BY <2>1 DEF ImportInv, ImportTypes
  <2>3. drafts[e].write.id \in Ids /\ drafts[e].base \in Location \cup {None} BY <2>2 DEF Drafts
  <2>4. Follows(locations[drafts[e].write.id], drafts[e].base) BY <2>1 DEF ImportInv, SeenIsFollowed
  <2> QED BY <1>1, <1>2, <2>1, <2>3, <2>4, FollowsOn DEF Directories
<1> QED BY <1>3, <1>4 DEF SeenIsFollowed, ImportInv

(* The transaction of an import finds what its preview was read from.      *)
LEMMA SignedTypes ==
    ASSUME ImportInv, NEW o \in DOMAIN signed
    PROVE  /\ signed[o] \in Manifests /\ Faithful(signed[o]) /\ o \in 1 .. MaxPreviews
           /\ Writeable(signed[o].writes)
           /\ \A l \in Ids : Follows(locations[l], signed[o].seen[l])
<1>1. signed \in Seq(Manifests) /\ Len(signed) <= MaxPreviews /\ MaxPreviews \in Nat
  BY BoundsAssumption DEF ImportInv, ImportTypes, TypeOK
<1>2. signed[o] \in Manifests /\ o \in 1 .. MaxPreviews BY <1>1
<1>3. Writeable(signed[o].writes) BY <1>2 DEF Manifests, Writeable, PlannedRows
<1> QED BY <1>2, <1>3 DEF ImportInv, SeenIsFollowed

LEMMA AcceptedWasSeen ==
    ASSUME ImportInv, NEW o \in DOMAIN signed, Accepts(locations, signed[o]), NEW id \in Reviewed(signed[o])
    PROVE  id \in Ids /\ locations[id] = signed[o].seen[id]
<1> DEFINE m == signed[o]
<1>1. m \in Manifests /\ Faithful(m) /\ \A l \in Ids : Follows(locations[l], m.seen[l]) BY SignedTypes
<1>2. id \in Ids BY DEF Accepts, Unique, WithNumber
<1>3. m.seen \in Directories BY <1>1 DEF Manifests
<1>4. m.seen[id] \in Location \cup {None} BY <1>2, <1>3 DEF Directories
<1>5. PICK p \in m.writes \cup m.unchanged : p.id = id BY DEF Reviewed
<1>6. CASE p.action = "add"
  <2>1. p \in m.writes BY <1>1, <1>5, <1>6 DEF Faithful
  <2>2. locations[id] = None BY <1>5, <1>6, <2>1 DEF Accepts, Current
  <2> QED BY <1>1, <1>2, <2>2 DEF Follows
<1>7. CASE p.action # "add"
  <2>1. m.seen[id] # None /\ p.version = m.seen[id].version BY <1>1, <1>5, <1>7 DEF Faithful
  <2>2. locations[id] # None /\ locations[id].version = p.version
    BY <1>5, <1>7 DEF Accepts, Current, Unmoved
  <2> QED BY <1>1, <1>2, <2>1, <2>2 DEF Follows
<1> QED BY <1>2, <1>6, <1>7

(* What a confirmation does: nothing, or all of an import.                 *)
Committed(o) ==
    /\ o \in DOMAIN signed /\ o \in DOMAIN receipts
    /\ receipts[o] = None /\ Accepts(locations, signed[o]) /\ SavedAs(signed[o].writes)
    /\ \E r \in Receipts : receipts' = [receipts EXCEPT ![o] = r]

LEMMA CommitStep ==
    ASSUME ImportInv, NEW c \in DOMAIN calls, CommitImport(c)
    PROVE  /\ UNCHANGED <<signed, clock, panel, drafts, edits>> /\ \E stage \in Stages : Staged(c, stage)
           /\ UNCHANGED <<locations, receipts, agreed>> \/ Committed(calls[c].op)
<1> DEFINE o == calls[c].op
           m == signed[o]
           commits == receipts[o] = None /\ calls[c].stage = "admitted" /\ Accepts(locations, m)
<1>1. o \in DOMAIN signed BY DEF ImportInv, ImportTypes
<1>2. m \in Manifests /\ Writeable(m.writes) /\ o \in 1 .. MaxPreviews BY <1>1, SignedTypes
<1>3. DOMAIN receipts = 1 .. MaxPreviews /\ locations \in Directories
  BY DEF ImportInv, ImportTypes, TypeOK, Directories
<1>4. UNCHANGED <<signed, clock, panel, drafts, edits>> /\ \E stage \in Stages : Staged(c, stage)
  BY DEF CommitImport, Stages
<1>5. CASE ~commits BY <1>4, <1>5 DEF CommitImport
<1>6. CASE commits
  <2> DEFINE r == [l \in {w.id : w \in m.writes} |-> After(locations, m.writes)[l]]
  <2>1. locations' = After(locations, m.writes) /\ agreed' = agreed \cup {<<a[2], a[3]>> : a \in m.acks}
        /\ receipts' = [receipts EXCEPT ![o] = r]
    BY <1>6 DEF CommitImport
  <2>2. m.acks = Shared(locations, m.writes) BY <1>6 DEF Accepts
  <2>3. {w.id : w \in m.writes} \subseteq Ids BY <1>2 DEF Writeable
  <2>4. \A l \in {w.id : w \in m.writes} : After(locations, m.writes)[l] \in Location
    BY <1>2, <1>3, <2>3, AfterTypes
  <2>5. r \in [{w.id : w \in m.writes} -> Location] BY <2>4
  <2>6. r \in Receipts BY <2>3, <2>5 DEF Receipts
  <2> HIDE DEF r
  <2>7. SavedAs(m.writes) BY <1>2, <2>1, <2>2 DEF SavedAs
  <2> QED BY <1>1, <1>2, <1>3, <1>4, <1>6, <2>1, <2>6, <2>7 DEF Committed
<1> QED BY <1>5, <1>6

LEMMA CommitKeeps == ASSUME ImportInv, NEW c \in DOMAIN calls, CommitImport(c) PROVE ImportInv'
<1>1. UNCHANGED <<signed, clock, panel, drafts, edits>> BY CommitStep
<1>2. /\ calls' \in Seq(Confirmations) /\ Len(calls') = Len(calls)
      /\ DOMAIN calls' = DOMAIN calls /\ \A d \in DOMAIN calls : calls'[d].op = calls[d].op
  BY CommitStep, StageTypes DEF ImportInv
<1>3. CASE UNCHANGED <<locations, receipts, agreed>>
  <2>1. Still BY <1>1, <1>3 DEF Still
  <2>2. ImportTypes' BY <1>1, <1>2, <1>3 DEF ImportInv, ImportTypes, TypeOK
  <2> QED BY <1>1, <2>1, <2>2, StillKeeps DEF ImportInv, SeenIsFollowed, Still
<1>4. CASE Committed(calls[c].op)
  <2>1. PICK r \in Receipts : receipts' = [receipts EXCEPT ![calls[c].op] = r] BY <1>4 DEF Committed
  <2>2. SavedAs(signed[calls[c].op].writes) BY <1>4 DEF Committed
  <2>3. locations' \in Directories /\ SharingAgreed' BY <2>2, SaveKeeps
  <2>4. SeenIsFollowed' BY <1>1, <2>2, SavesAreFollowed
  <2>5. ImportTypes' BY <1>1, <1>2, <2>1, <2>3 DEF ImportInv, ImportTypes, TypeOK, Directories
  <2> QED BY <2>3, <2>4, <2>5 DEF ImportInv
<1> QED BY <1>3, <1>4, CommitStep

(* The editing form.                                                       *)
LEMMA FormData ==
    ASSUME NEW form \in Forms, NEW stored \in Location \cup {None}, stored = None => form.id \in Created
    PROVE  [field \in {"number", "value", "inbox"} |->
               IF field \in DOMAIN form.fields THEN form.fields[field] ELSE stored.data[field]] \in Data
<1> DEFINE data == [field \in {"number", "value", "inbox"} |->
                       IF field \in DOMAIN form.fields THEN form.fields[field] ELSE stored.data[field]]
<1>1. data["number"] \in Numbers BY FormsAssumption DEF Location, Data
<1>2. data["value"] \in Values BY FormsAssumption DEF Location, Data
<1>3. data["inbox"] \in Inboxes \cup {None} BY FormsAssumption DEF Location, Data
<1>4. data = [number |-> data["number"], value |-> data["value"], inbox |-> data["inbox"]] OBVIOUS
<1> HIDE DEF data
<1>5. data \in Data BY <1>1, <1>2, <1>3, <1>4 DEF Data
<1> QED BY <1>5 DEF data

LEMMA DraftKeeps == ASSUME ImportInv, NEW e \in Editor, Draft(e) PROVE ImportInv'
<1>1. Still /\ UNCHANGED <<signed, clock, panel, calls>> BY DEF Draft, Still
<1>2. locations \in Directories BY DEF ImportInv, ImportTypes, TypeOK, Directories
<1>3. PICK form \in Forms :
        LET stored == locations[form.id]
            data == [field \in {"number", "value", "inbox"} |->
                        IF field \in DOMAIN form.fields THEN form.fields[field] ELSE stored.data[field]]
            write == [row |-> 0, id |-> form.id, data |-> data, first |-> 0]
        IN  /\ IF stored = None THEN form.id \in Created ELSE stored.data # data
            /\ drafts' = [drafts EXCEPT ![e] =
                  [write |-> write, base |-> stored, acks |-> Shared(locations, {write})]]
  BY DEF Draft
<1> DEFINE stored == locations[form.id]
           data == [field \in {"number", "value", "inbox"} |->
                       IF field \in DOMAIN form.fields THEN form.fields[field] ELSE stored.data[field]]
           write == [row |-> 0, id |-> form.id, data |-> data, first |-> 0]
           draft == [write |-> write, base |-> stored, acks |-> Shared(locations, {write})]
<1>4. form.id \in Ids BY FormsAssumption DEF Ids
<1>5. stored \in Location \cup {None} BY <1>2, <1>4 DEF Directories
<1>6. data \in Data BY <1>3, <1>5, FormData
<1>7. drafts' = [drafts EXCEPT ![e] = draft] BY <1>3
<1> HIDE DEF data
<1>8. Writeable({write}) BY <1>4, <1>6 DEF Writeable
<1>9. Shared(locations, {write}) \in Acknowledgments BY <1>2, <1>8, SharedTypes
<1>10. draft \in Drafts /\ draft.write.id = form.id /\ draft.base = locations[form.id]
  BY <1>4, <1>5, <1>6, <1>9 DEF Drafts
<1> HIDE DEF draft
<1>11. ImportTypes' BY <1>1, <1>7, <1>10 DEF ImportInv, ImportTypes, TypeOK, Still
<1>12. \A l \in Ids : Follows(locations[l], locations[l]) BY <1>1, StillKeeps
<1>13. SeenIsFollowed'
  BY <1>1, <1>4, <1>7, <1>10, <1>12 DEF ImportInv, ImportTypes, SeenIsFollowed, Still
<1> QED BY <1>1, <1>11, <1>13, StillKeeps DEF ImportInv

(* A save from the form replaces what the form was opened on.              *)
LEMMA SaveStep ==
    ASSUME ImportInv, NEW e \in Editor, Save(e)
    PROVE  /\ drafts[e] \in Drafts /\ SavedAs({drafts[e].write})
           /\ locations[drafts[e].write.id] = drafts[e].base
<1> DEFINE d == drafts[e]
<1>1. d \in Drafts /\ d # None BY DEF Save, ImportInv, ImportTypes
<1>2. /\ d.write \in [row : {0}, id : Ids, data : Data, first : {0}] /\ d.base \in Location \cup {None}
  BY <1>1 DEF Drafts
<1>3. Writeable({d.write}) BY <1>2 DEF Writeable
<1>4. SaveAccepted(locations, d) BY DEF Save
<1>5. SavedAs({d.write}) BY <1>3, <1>4 DEF Save, SavedAs, SaveAccepted
<1>6. Follows(locations[d.write.id], d.base) BY <1>1 DEF ImportInv, SeenIsFollowed
<1>7. locations[d.write.id] = d.base BY <1>4, <1>6 DEF SaveAccepted, Follows
<1> QED BY <1>1, <1>5, <1>7

LEMMA SaveKeepsAll == ASSUME ImportInv, NEW e \in Editor, Save(e) PROVE ImportInv'
<1>1. SavedAs({drafts[e].write}) BY SaveStep
<1>2. UNCHANGED <<receipts, signed, clock, panel, calls>> /\ drafts' = [drafts EXCEPT ![e] = None]
  BY DEF Save
<1>3. edits' \in 0 .. MaxEdits BY BoundsAssumption DEF Save, ImportInv, ImportTypes, TypeOK
<1>4. locations' \in Directories /\ SharingAgreed' BY <1>1, SaveKeeps
<1>5. \A f \in Editor : drafts'[f] \in {drafts[f], None} BY <1>2 DEF ImportInv, ImportTypes
<1>6. SeenIsFollowed' BY <1>1, <1>2, <1>5, SavesAreFollowed
<1>7. ImportTypes' BY <1>2, <1>3, <1>4 DEF ImportInv, ImportTypes, TypeOK, Directories
<1> QED BY <1>4, <1>6, <1>7 DEF ImportInv

-----------------------------------------------------------------------------
LEMMA ImportInit == Init => ImportInv
<1> SUFFICES ASSUME Init PROVE ImportInv OBVIOUS
<1>1. locations \in Directories
  <2>1. PICK start \in Starts : locations = [l \in Ids |-> IF l \in Existing THEN start[l] ELSE None] BY DEF Init
  <2>2. start \in [Existing -> Location] BY <2>1, StartsAssumption
  <2> QED BY <2>1, <2>2 DEF Directories
<1>2. ImportTypes
  BY <1>1, BoundsAssumption DEF Init, ImportTypes, TypeOK, Directories, EmptyPanel
<1>3. SeenIsFollowed BY DEF Init, SeenIsFollowed
<1>4. SharingAgreed
  <2>1. \A inbox \in Inboxes : Cardinality(Sharers(locations, inbox)) > 1 => FALSE
    <3> SUFFICES ASSUME NEW inbox \in Inboxes, Cardinality(Sharers(locations, inbox)) > 1 PROVE FALSE OBVIOUS
    <3>1. Cardinality(Sharing(locations, inbox)) > 1 BY SharingCounts
    <3>2. Cardinality(Sharing(locations, inbox)) < 2 BY DEF Init
    <3>3. IsFiniteSet(Sharing(locations, inbox)) BY SharingCounts
    <3> QED BY <3>1, <3>2, <3>3, FS_CardinalityType
  <2> QED BY <2>1 DEF SharingAgreed, Sharers
<1> QED BY <1>2, <1>3, <1>4 DEF ImportInv

LEMMA ImportKeeps == ImportInv /\ [Next]_vars => ImportInv'
<1> SUFFICES ASSUME ImportInv, [Next]_vars PROVE ImportInv' OBVIOUS
<1>1. CASE UNCHANGED vars
  BY <1>1 DEF vars, ImportInv, ImportTypes, TypeOK, SeenIsFollowed, SharingAgreed
<1>2. ASSUME NEW c \in DOMAIN calls, Admit(c) \/ CommitImport(c) PROVE ImportInv'
  BY <1>2, AdmitKeeps, CommitKeeps
<1>3. ASSUME NEW e \in Editor, Draft(e) \/ Save(e) PROVE ImportInv' BY <1>3, DraftKeeps, SaveKeepsAll
<1> QED BY <1>1, <1>2, <1>3, PanelSteps, ValidateKeeps, ConfirmKeeps, TickKeeps DEF Next

(* Whatever is imported, edited, retried or late: what was signed or       *)
(* opened is there still or was replaced under a higher version.           *)
THEOREM ImportsHold == Spec => []ImportInv
BY ImportInit, ImportKeeps, PTL DEF Spec

(* No interleaving of imports and edits makes Locations share an inbox     *)
(* that were not shown together to someone who agreed (the digests that    *)
(* commitLocationImport and the commit of the form compare).               *)
THEOREM SharingIsAgreed == Spec => []SharingAgreed
BY ImportsHold, PTL DEF ImportInv

LEMMA StepsCommit ==
    ASSUME ImportInv, [Next]_vars, NEW o \in DOMAIN receipts, Commits(o)
    PROVE  Committed(o) /\ UNCHANGED <<signed, drafts>>
<1>1. \E c \in DOMAIN calls : CommitImport(c)
  <2>1. receipts' # receipts BY DEF Commits
  <2> QED BY <2>1 DEF Next, vars, SelectFile, Validate, ValidateFails, Toggle, Acknowledge, Confirm,
                    ConfirmFails, Answer, Lose, Reload, Tick, Admit, Draft, Save
<1>2. PICK c \in DOMAIN calls : CommitImport(c) BY <1>1
<1>3. UNCHANGED <<signed, drafts>> /\ (UNCHANGED receipts \/ Committed(calls[c].op)) BY <1>2, CommitStep
<1>4. Committed(calls[c].op) BY <1>3 DEF Commits
<1>5. o = calls[c].op BY <1>4 DEF Commits, Committed, ImportInv, ImportTypes
<1> QED BY <1>3, <1>4, <1>5

(* A save replaces the record its author had before him, an import in all  *)
(* the Locations it reviewed: what carries the version that was seen is    *)
(* what was seen (version checks of the import's transaction and of the    *)
(* commit of the form).                                                    *)
THEOREM SavesReplaceWhatWasSeen == Spec => ReplacesWhatWasSeen
<1> DEFINE Honest ==
      /\ \A o \in DOMAIN receipts : Commits(o) => \A id \in Reviewed(signed[o]) :
            locations[id] = signed[o].seen[id]
      /\ \A id \in Ids : locations'[id] # locations[id] =>
            \/ \E o \in DOMAIN receipts : Commits(o) /\ \E w \in signed[o].writes : w.id = id
            \/ \E e \in Editor : drafts[e] # None /\ drafts'[e] = None /\ drafts[e].write.id = id
                                    /\ drafts[e].base = locations[id]
<1>1. ASSUME ImportInv, [Next]_vars PROVE Honest
  <2>1. ASSUME NEW o \in DOMAIN receipts, Commits(o), NEW id \in Reviewed(signed[o])
        PROVE  locations[id] = signed[o].seen[id]
    BY <1>1, <2>1, StepsCommit, AcceptedWasSeen DEF Committed
  <2>2. ASSUME NEW id \in Ids, locations'[id] # locations[id]
        PROVE  \/ \E o \in DOMAIN receipts : Commits(o) /\ \E w \in signed[o].writes : w.id = id
               \/ \E e \in Editor : drafts[e] # None /\ drafts'[e] = None /\ drafts[e].write.id = id
                                       /\ drafts[e].base = locations[id]
    <3>0. locations \in Directories BY <1>1 DEF ImportInv, ImportTypes, TypeOK, Directories
    <3>1. (\E c \in DOMAIN calls : CommitImport(c)) \/ (\E e \in Editor : Save(e))
      <4>1. locations' # locations BY <2>2
      <4> QED BY <1>1, <4>1 DEF Next, vars, SelectFile, Validate, ValidateFails, Toggle, Acknowledge,
                     Confirm, ConfirmFails, Answer, Lose, Reload, Tick, Admit, Draft
    <3>2. ASSUME NEW c \in DOMAIN calls, CommitImport(c)
          PROVE  \E o \in DOMAIN receipts : Commits(o) /\ \E w \in signed[o].writes : w.id = id
      <4>1. Committed(calls[c].op) BY <1>1, <2>2, <3>2, CommitStep
      <4> DEFINE o == calls[c].op
      <4>2. o \in DOMAIN receipts /\ receipts[o] = None BY <4>1 DEF Committed
      <4>3. PICK r \in Receipts : receipts' = [receipts EXCEPT ![o] = r] BY <4>1 DEF Committed
      <4>4. r # None BY NoneAssumption DEF Receipts
      <4>5. Commits(o) BY <4>2, <4>3, <4>4 DEF Commits
      <4>6. SavedAs(signed[o].writes) BY <4>1 DEF Committed
      <4>7. \E w \in signed[o].writes : w.id = id
        BY <2>2, <3>0, <4>6, AfterTypes DEF SavedAs
      <4> QED BY <4>2, <4>5, <4>7
    <3>3. ASSUME NEW e \in Editor, Save(e)
          PROVE  drafts[e] # None /\ drafts'[e] = None /\ drafts[e].write.id = id
                 /\ drafts[e].base = locations[id]
      <4>1. SavedAs({drafts[e].write}) /\ locations[drafts[e].write.id] = drafts[e].base
        BY <1>1, <3>3, SaveStep
      <4>2. drafts[e].write.id = id BY <2>2, <3>0, <4>1, AfterTypes DEF SavedAs
      <4>3. drafts[e] # None /\ drafts'[e] = None
        BY <1>1, <3>3 DEF Save, ImportInv, ImportTypes
      <4> QED BY <4>1, <4>2, <4>3
    <3> QED BY <3>1, <3>2, <3>3
  <2> QED BY <2>1, <2>2
<1> QED BY <1>1, ImportsHold, PTL DEF Spec, ReplacesWhatWasSeen

(* No import gives a Location a number that means the same store as one of *)
(* a Location that was not reviewed with it, however late it is confirmed. *)
THEOREM ImportedNumbersStayApart == Spec => ImportsKeepNumbersApart
<1> DEFINE Apart == \A o \in DOMAIN receipts : Commits(o) =>
      \A id \in Reviewed(signed[o]), other \in Ids \ Reviewed(signed[o]) :
          locations'[other] # None => locations'[id].data.number[2] # locations'[other].data.number[2]
<1>1. ASSUME ImportInv, [Next]_vars PROVE Apart
  <2> SUFFICES ASSUME NEW o \in DOMAIN receipts, Commits(o), NEW id \in Reviewed(signed[o]),
                      NEW other \in Ids \ Reviewed(signed[o]), locations'[other] # None,
                      locations'[id].data.number[2] = locations'[other].data.number[2]
               PROVE  FALSE
    OBVIOUS
  <2>1. Committed(o) BY <1>1, StepsCommit
  <2>2. Unique(locations', id) BY <2>1 DEF Committed, SavedAs, Accepts
  <2>3. other \in WithNumber(locations', locations'[id].data.number) BY DEF WithNumber, Key
  <2> QED BY <2>2, <2>3 DEF Unique
<1> QED BY <1>1, ImportsHold, PTL DEF Spec, ImportsKeepNumbersApart
=============================================================================
