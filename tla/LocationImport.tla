--------------------------- MODULE LocationImport ---------------------------
(***************************************************************************)
(* The CSV import of Locations.  The server previews a file against one    *)
(* read of the Directory and signs what it would write (server/            *)
(* locationImportPreview.ts, src/lib/locationImportPreview.ts); the panel  *)
(* lets the user select and acknowledge rows and confirms within the life  *)
(* of the signature (LocationImportPreviewPanel.tsx); the server commits   *)
(* the reviewed writes with their receipt in one transaction, against      *)
(* whatever others have saved meanwhile (server/firestoreDirectory.ts).    *)
(*                                                                         *)
(* A file is a sequence of rows.  A row names a Location by its id or by   *)
(* its store number, and proposes a number, a value (any other field) and  *)
(* an inbox; None is a blank cell, which keeps what is stored; sound tells *)
(* whether nothing else is wrong with it, then and whenever it is looked   *)
(* at.  A number is <<leading zeros, the rest>>.  The digest by which an acknowledgment  *)
(* names the Locations that share an inbox is the set it is computed from. *)
(* Warnings are read before a confirmation is enabled; nothing else turns  *)
(* on that.  No screen deletes a Location.                                 *)
(***************************************************************************)
EXTENDS Integers, FiniteSets, Sequences

CONSTANTS
    Existing,       \* ids of the Locations the Directory starts with
    Created,        \* ids the editing form draws for new Locations
    Starts,         \* the Directories it may start as: Existing -> Location
    Editor,         \* people with the editing form open
    Numbers, Values, Inboxes,
    Csv,            \* the files that may be chosen: name -> rows
    Forms,          \* what may be filled in: an id and the fields changed
    Modes,          \* a subset of {"add-and-update", "update-existing-only"}
    Clear,          \* the cell that empties an inbox
    None,
    Ttl,            \* life of a signed preview
    MaxTime,        \* bound: the clock
    MaxPreviews,    \* bound: signed previews
    MaxCalls,       \* bound: confirmations sent
    MaxEdits        \* bound: saves from the editing form

VARIABLES
    locations,      \* id -> the stored record, or None
    receipts,       \* operation -> what it saved, or None
    signed,         \* the signed previews, in order: an operation is its place
    clock,
    panel,          \* the import panel
    calls,          \* the confirmations sent
    drafts,         \* editor -> the open editing form, or None
    edits,          \* number of saves from the editing form
    agreed          \* the sets of Locations acknowledged, in a save, to share an inbox

vars == <<locations, receipts, signed, clock, panel, calls, drafts, edits, agreed>>

Files == DOMAIN Csv
Rows == UNION {DOMAIN Csv[f] : f \in Files}
Ids == Existing \cup Created \cup {<<f, k>> : f \in Files, k \in Rows}

Data == [number : Numbers, value : Values, inbox : Inboxes \cup {None}]
Location == [data : Data, version : Nat]

FileRow == [location : Ids \cup {None}, number : Numbers \cup {None}, value : Values \cup {None},
            inbox : Inboxes \cup {None, Clear}, sound : BOOLEAN]

(* A file is read into rows, a form filled in with what it has inputs for,  *)
(* all of it for a new Location.                                            *)
ASSUME FilesAssumption == \A f \in Files : Csv[f] \in Seq(FileRow)
ASSUME FormsAssumption == \A form \in Forms :
    /\ form.id \in Existing \cup Created /\ DOMAIN form.fields \subseteq {"number", "value", "inbox"}
    /\ form.id \in Created => DOMAIN form.fields = {"number", "value", "inbox"}
    /\ "number" \in DOMAIN form.fields => form.fields["number"] \in Numbers
    /\ "value" \in DOMAIN form.fields => form.fields["value"] \in Values
    /\ "inbox" \in DOMAIN form.fields => form.fields["inbox"] \in Inboxes \cup {None}
ASSUME StartsAssumption == Starts \subseteq [Existing -> Location]
ASSUME BoundsAssumption == {Ttl, MaxTime, MaxPreviews, MaxCalls, MaxEdits} \subseteq Nat
ASSUME NoneAssumption ==
    /\ None \notin Ids \cup Numbers \cup Values \cup Inboxes \cup Location
    /\ \A S \in SUBSET Ids : None \notin [S -> Location]
ASSUME FiniteAssumption == IsFiniteSet(Ids)

\* A number as it is compared, and compared with its zeros.
FaultyKey(number) == number
Key(number) == number[2]

-----------------------------------------------------------------------------
(* The plan of a file against a read of the Directory.                      *)

WithNumber(L, number) == {l \in Ids : L[l] # None /\ Key(L[l].data.number) = Key(number)}

StoreMatches(L, row) == IF row.number = None THEN {} ELSE WithNumber(L, row.number)

Match(L, row) ==
    LET found == IF row.location # None THEN {row.location} ELSE StoreMatches(L, row)
    IN  IF Cardinality(found) = 1 /\ \A l \in found : L[l] # None
        THEN CHOOSE l \in found : TRUE ELSE None

\* The number belongs to another Location than the id, or to several.
Conflicting(L, row) ==
    \/ Cardinality(StoreMatches(L, row)) > 1
    \/ row.location # None /\ \E l \in StoreMatches(L, row) : l # row.location

Addition(L, row) == Match(L, row) = None /\ ~Conflicting(L, row)

\* A new Location without an id of its own takes the next of the ids that
\* are derived from the file.
NewId(L, f, i) ==
    IF Csv[f][i].location # None THEN Csv[f][i].location
    ELSE <<f, Cardinality({j \in 1 .. i : Csv[f][j].location = None /\ Addition(L, Csv[f][j])})>>

Target(L, f, i) == IF Addition(L, Csv[f][i]) THEN NewId(L, f, i) ELSE Match(L, Csv[f][i])

Proposed(L, row) ==
    LET Stored(field) == IF Match(L, row) # None THEN L[Match(L, row)].data[field] ELSE None
        Cell(field) == IF row[field] # None THEN row[field] ELSE Stored(field)
    IN  [number |-> Cell("number"), value |-> Cell("value"),
         inbox |-> IF row.inbox = Clear THEN None ELSE Cell("inbox")]

Duplicated(L, file, i) == \E j \in DOMAIN file \ {i} :
    \/ file[i].location # None /\ file[j].location = file[i].location
    \/ file[i].number # None /\ file[j].number # None /\ Key(file[j].number) = Key(file[i].number)
    \/ Match(L, file[i]) # None /\ Match(L, file[j]) = Match(L, file[i])

\* Whatever else is wrong with a row: its shape, an id or a value that is not
\* allowed, a place in the hierarchy or a person that does not fit.
Unsound(row) == ~row.sound

Blocked(L, file, mode, i) ==
    \/ Unsound(file[i])
    \/ Conflicting(L, file[i])
    \/ Duplicated(L, file, i)
    \/ file[i].location = None /\ file[i].number = None
    \/ /\ Addition(L, file[i])
       /\ mode = "update-existing-only" \/ None \in {file[i].number, file[i].value}

\* A row as previewed: what it would write, and over which version. A Location
\* an import adds starts with version 1.
Entry(L, f, mode, i) ==
    LET proposed == Proposed(L, Csv[f][i])
        stored == Match(L, Csv[f][i])
    IN  [row |-> i, id |-> Target(L, f, i), data |-> proposed, first |-> 1,
         version |-> IF stored = None THEN None ELSE L[stored].version,
         action |-> IF Blocked(L, Csv[f], mode, i) THEN "blocked"
                    ELSE IF stored = None THEN "add"
                    ELSE IF L[stored].data = proposed THEN "unchanged" ELSE "update"]

PlanOf(L, f, mode) == {Entry(L, f, mode, i) : i \in DOMAIN Csv[f]}

Ready(plan) == {p.row : p \in {q \in plan : q.action \in {"add", "update"}}}

-----------------------------------------------------------------------------
(* A set of writes, from an import or from the form, against a Directory.   *)

Saved(L, w) == [data |-> w.data, version |-> IF L[w.id] = None THEN w.first ELSE L[w.id].version + 1]

After(L, W) == [l \in Ids |-> IF \E w \in W : w.id = l THEN Saved(L, CHOOSE w \in W : w.id = l) ELSE L[l]]

Sharing(L, inbox) ==
    {<<l, L[l].data.number, L[l].version>> : l \in {k \in Ids : L[k] # None /\ L[k].data.inbox = inbox}}

NewInbox(L, w) == w.data.inbox # None /\ (L[w.id] # None => L[w.id].data.inbox # w.data.inbox)

\* As it must not be: the sharing Locations are those of the Directory before.
FaultyShared(L, W) ==
    {s \in {<<w.row, w.data.inbox, Sharing(L, w.data.inbox)>> : w \in {v \in W : NewInbox(L, v)}} :
        Cardinality(s[3]) > 1}

\* The rows that give a Location an inbox it comes to share, each with the
\* Locations that then share it: what is shown, and what must be acknowledged.
Shared(L, W) ==
    {s \in {<<w.row, w.data.inbox, Sharing(After(L, W), w.data.inbox)>> : w \in {v \in W : NewInbox(L, v)}} :
        Cardinality(s[3]) > 1}

Unique(L, id) == WithNumber(L, L[id].data.number) = {id}

\* What the token binds; seen is the Directory the preview was read from.
Manifest(f, plan, rows, shown) ==
    [file |-> f, writes |-> {p \in plan : p.row \in rows},
     unchanged |-> {p \in plan : p.action = "unchanged"},
     acks |-> shown, expires |-> clock + Ttl, seen |-> locations]

Reviewed(m) == {p.id : p \in m.writes \cup m.unchanged}

\* A Location found unchanged must be there with the version and number seen.
FaultyUnmoved(L, u) == L[u.id] # None /\ L[u.id].data.number = u.data.number
Unmoved(L, u) == L[u.id] # None /\ L[u.id].version = u.version /\ L[u.id].data.number = u.data.number

Current(L, w) == IF w.action = "add" THEN L[w.id] = None
                 ELSE L[w.id] # None /\ L[w.id].version = w.version

Accepts(L, m) ==
    /\ Cardinality(m.writes) + Cardinality(m.unchanged) = Cardinality(Reviewed(m))
    /\ \A u \in m.unchanged : Unmoved(L, u)
    /\ \A w \in m.writes : Current(L, w)
    /\ \A id \in Reviewed(m) : Unique(After(L, m.writes), id)
    /\ m.acks = Shared(L, m.writes)

-----------------------------------------------------------------------------
EmptyPanel == [file |-> None, mode |-> None, plan |-> {}, shown |-> {}, rows |-> {}, acks |-> {},
               op |-> None, dirty |-> FALSE, outcome |-> "pending", receipt |-> None,
               stale |-> FALSE, waiting |-> None]

Init ==
    /\ \E start \in Starts : locations = [l \in Ids |-> IF l \in Existing THEN start[l] ELSE None]
    /\ \A l \in Existing : Unique(locations, l)
    /\ \A inbox \in Inboxes : Cardinality(Sharing(locations, inbox)) < 2
    /\ receipts = [o \in 1 .. MaxPreviews |-> None]
    /\ signed = <<>>
    /\ clock = 0
    /\ panel = EmptyPanel
    /\ calls = <<>>
    /\ drafts = [e \in Editor |-> None]
    /\ edits = 0
    /\ agreed = {}

Idle == panel.waiting = None
Free == Idle /\ panel.outcome # "uncertain"

SelectFile == Free /\ \E file \in Files, mode \in Modes :
    /\ panel' = [EmptyPanel EXCEPT !.file = file, !.mode = mode]
    /\ UNCHANGED <<locations, receipts, signed, clock, calls, drafts, edits, agreed>>

\* The file is previewed with the rows the user selected, at first all that
\* are ready. No token is signed while a selected row shares an inbox with
\* Locations the user has not acknowledged as they now are. The rows are
\* refused when one selected is not ready or one acknowledged is unshared.
Validate == Free /\ panel.file # None /\ Len(signed) < MaxPreviews /\
    LET plan == PlanOf(locations, panel.file, panel.mode)
        asked == [panel EXCEPT !.receipt = None, !.outcome = "pending", !.stale = FALSE]
    IN  \E rows \in {Ready(plan)} \cup ({panel.rows} \ {{}}) :
        LET shown == Shared(locations, {p \in plan : p.row \in rows})
            refused == ~ rows \subseteq Ready(plan) \/ \E a \in panel.acks : \A s \in shown : s[1] # a[1]
            token == rows # {} /\ shown \subseteq panel.acks
        IN  /\ panel' = IF refused THEN asked
                        ELSE [asked EXCEPT !.plan = plan, !.shown = shown, !.rows = rows,
                                           !.acks = @ \cap shown, !.dirty = FALSE,
                                           !.op = IF token THEN Len(signed) + 1 ELSE None]
            /\ signed' = IF refused \/ ~token THEN signed
                         ELSE Append(signed, Manifest(panel.file, plan, rows, shown))
            /\ UNCHANGED <<locations, receipts, clock, calls, drafts, edits, agreed>>

\* The preview could not be had; what was shown stays, and may be confirmed.
ValidateFails ==
    /\ Free /\ panel.plan # {}
    /\ panel' = [panel EXCEPT !.receipt = None, !.outcome = "pending", !.stale = FALSE]
    /\ UNCHANGED <<locations, receipts, signed, clock, calls, drafts, edits, agreed>>

Toggle == Free /\ \E i \in Ready(panel.plan) :
    /\ panel' = [panel EXCEPT !.rows = IF i \in @ THEN @ \ {i} ELSE @ \cup {i},
                              !.acks = {a \in @ : a[1] # i},
                              !.dirty = TRUE, !.receipt = None, !.outcome = "pending"]
    /\ UNCHANGED <<locations, receipts, signed, clock, calls, drafts, edits, agreed>>

Acknowledge == Free /\ \E s \in panel.shown :
    /\ s[1] \in panel.rows
    /\ panel' = [panel EXCEPT !.acks = {a \in @ : a[1] # s[1]} \cup ({s} \ @),
                              !.dirty = TRUE, !.receipt = None, !.outcome = "pending"]
    /\ UNCHANGED <<locations, receipts, signed, clock, calls, drafts, edits, agreed>>

Eligible == Idle /\ panel.op # None /\ panel.receipt = None /\ ~panel.dirty /\ ~panel.stale

Confirm ==
    /\ Eligible /\ Len(calls) < MaxCalls
    /\ calls' = Append(calls, [op |-> panel.op, stage |-> "sent"])
    /\ panel' = [panel EXCEPT !.waiting = Len(calls) + 1]
    /\ UNCHANGED <<locations, receipts, signed, clock, drafts, edits, agreed>>

\* The confirmation could not be sent: no credential was to be had.
ConfirmFails ==
    /\ Eligible
    /\ panel' = [panel EXCEPT !.outcome = "rejected"]
    /\ UNCHANGED <<locations, receipts, signed, clock, calls, drafts, edits, agreed>>

-----------------------------------------------------------------------------
Staged(c, stage) == calls' = [calls EXCEPT ![c].stage = stage]

\* The route checks who asks and compares the token's end with its clock.
Admit(c) ==
    /\ calls[c].stage = "sent"
    /\ \/ Staged(c, "denied")
       \/ Staged(c, IF signed[calls[c].op].expires <= clock THEN "late" ELSE "admitted")
    /\ UNCHANGED <<locations, receipts, signed, clock, panel, drafts, edits, agreed>>

\* The transaction: replayed from its receipt, refused, or committed.
CommitImport(c) ==
    LET o == calls[c].op
        m == signed[o]
        commits == receipts[o] = None /\ calls[c].stage = "admitted" /\ Accepts(locations, m)
    IN  /\ calls[c].stage \in {"admitted", "late"}
        /\ Staged(c, IF receipts[o] # None \/ commits THEN "saved" ELSE "stale")
        /\ locations' = IF commits THEN After(locations, m.writes) ELSE locations
        /\ receipts' = IF ~commits THEN receipts ELSE [receipts EXCEPT ![o] =
                          [l \in {w.id : w \in m.writes} |-> After(locations, m.writes)[l]]]
        /\ agreed' = IF commits THEN agreed \cup {<<a[2], a[3]>> : a \in m.acks} ELSE agreed
        /\ UNCHANGED <<signed, clock, panel, drafts, edits>>

Answer ==
    /\ panel.waiting # None
    /\ LET call == calls[panel.waiting]
       IN  /\ call.stage \in {"denied", "stale", "saved"}
           /\ panel' = IF call.stage = "saved"
                       THEN [panel EXCEPT !.waiting = None, !.receipt = receipts[call.op], !.outcome = "pending"]
                       ELSE [panel EXCEPT !.waiting = None, !.outcome = "rejected", !.stale = call.stage = "stale"]
    /\ UNCHANGED <<locations, receipts, signed, clock, calls, drafts, edits, agreed>>

\* The answer is lost or unreadable, or the outcome unknown to the server;
\* the call may still be on its way.
Lose ==
    /\ panel.waiting # None
    /\ panel' = [panel EXCEPT !.waiting = None, !.outcome = "uncertain"]
    /\ UNCHANGED <<locations, receipts, signed, clock, calls, drafts, edits, agreed>>

Reload ==
    /\ panel' = EmptyPanel
    /\ UNCHANGED <<locations, receipts, signed, clock, calls, drafts, edits, agreed>>

Tick ==
    /\ clock < MaxTime
    /\ clock' = clock + 1
    /\ UNCHANGED <<locations, receipts, signed, panel, calls, drafts, edits, agreed>>

-----------------------------------------------------------------------------
(* The editing form (LocationEditModal.tsx), saved through the commit.      *)

\* The form is opened and filled in; a shared inbox is acknowledged as it is
\* now shown. A Location the form adds is stored without a version.
Draft(e) ==
    /\ edits < MaxEdits /\ drafts[e] = None
    /\ \E form \in Forms :
        LET stored == locations[form.id]
            data == [field \in {"number", "value", "inbox"} |->
                        IF field \in DOMAIN form.fields THEN form.fields[field] ELSE stored.data[field]]
            write == [row |-> 0, id |-> form.id, data |-> data, first |-> 0]
        IN  /\ IF stored = None THEN form.id \in Created ELSE stored.data # data
            /\ drafts' = [drafts EXCEPT ![e] =
                  [write |-> write, base |-> stored, acks |-> Shared(locations, {write})]]
    /\ UNCHANGED <<locations, receipts, signed, clock, panel, calls, edits, agreed>>

SaveAccepted(L, d) ==
    LET id == d.write.id
    IN  /\ IF d.base = None THEN L[id] = None ELSE L[id] # None /\ L[id].version = d.base.version
        /\ {l \in Ids \ {id} : L[l] # None /\ L[l].data.number = d.write.data.number} = {}
        /\ d.acks = Shared(L, {d.write})

Save(e) ==
    /\ drafts[e] # None /\ edits < MaxEdits
    /\ LET d == drafts[e] IN
        /\ SaveAccepted(locations, d)
        /\ locations' = After(locations, {d.write})
        /\ agreed' = agreed \cup {<<a[2], a[3]>> : a \in d.acks}
    /\ drafts' = [drafts EXCEPT ![e] = None]
    /\ edits' = edits + 1
    /\ UNCHANGED <<receipts, signed, clock, panel, calls>>

Next ==
    \/ SelectFile \/ Validate \/ ValidateFails \/ Toggle \/ Acknowledge
    \/ Confirm \/ ConfirmFails \/ Answer \/ Lose \/ Reload \/ Tick
    \/ \E c \in DOMAIN calls : Admit(c) \/ CommitImport(c)
    \/ \E e \in Editor : Draft(e) \/ Save(e)

Spec == Init /\ [][Next]_vars

-----------------------------------------------------------------------------
TypeOK ==
    /\ locations \in [Ids -> Location \cup {None}]
    /\ clock \in 0 .. MaxTime /\ edits \in 0 .. MaxEdits
    /\ Len(signed) <= MaxPreviews /\ Len(calls) <= MaxCalls
    /\ panel.outcome \in {"pending", "rejected", "uncertain"}

Commits(o) == receipts[o] = None /\ receipts'[o] # None

\* A save replaces the record its author had before him: an import, in every
\* Location it writes or found unchanged, the record the preview was read
\* from, whatever was saved, confirmed twice or answered late in between;
\* an edit, the record the form was opened on.
ReplacesWhatWasSeen == [][
    /\ \A o \in DOMAIN receipts : Commits(o) => \A id \in Reviewed(signed[o]) :
          locations[id] = signed[o].seen[id]
    /\ \A id \in Ids : locations'[id] # locations[id] =>
          \/ \E o \in DOMAIN receipts : Commits(o) /\ \E w \in signed[o].writes : w.id = id
          \/ \E e \in Editor : drafts[e] # None /\ drafts'[e] = None /\ drafts[e].write.id = id
                                  /\ drafts[e].base = locations[id]]_vars

\* When an import commits, no Location it reviewed has a number that means
\* the same store as another's.
ImportsKeepNumbersApart == [][\A o \in DOMAIN receipts : Commits(o) =>
    \A id \in Reviewed(signed[o]), other \in Ids \ Reviewed(signed[o]) :
        locations'[other] # None => locations'[id].data.number[2] # locations'[other].data.number[2]]_vars

\* Locations that share an inbox were shown together, by id and number, to
\* someone who agreed: no interleaving of imports and edits makes two
\* Locations share an inbox unseen.
SharingAgreed == \A inbox \in Inboxes :
    LET sharing == {l \in Ids : locations[l] # None /\ locations[l].data.inbox = inbox}
    IN  Cardinality(sharing) > 1 =>
            \E a \in agreed : a[1] = inbox /\ sharing \subseteq {m[1] : m \in a[2]}

\* What the results file calls not saved was not saved
\* (src/lib/locationImportPreviewClient.ts).
NotSavedTruth == Idle /\ panel.outcome = "rejected" /\ panel.op # None => receipts[panel.op] = None

\* A Location to be added keeps its id across the previews of one file.
NewIdsStable == \A o, p \in DOMAIN signed : signed[o].file = signed[p].file =>
    \A w \in signed[o].writes, v \in signed[p].writes :
        w.row = v.row /\ w.action = "add" /\ v.action = "add" => w.id = v.id
=============================================================================
