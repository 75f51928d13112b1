--------------------------- MODULE LocationEditor ---------------------------
(***************************************************************************)
(* Saves of whole records from what a tab shows: the Location form         *)
(* (LocationEditModal.tsx), and the operations of DirectoryContext.tsx     *)
(* that show their change before it is saved: verifying a Location, hours  *)
(* templates, and a person's name with its copies.  Custom fields are      *)
(* defined in one tab while another still fills in the old definition.     *)
(*                                                                         *)
(* Every save writes all of a Location as the tab shows it; what keeps it  *)
(* from writing what its user never asked for is the version it expects.   *)
(* A refused or lost save is taken back as its code takes it back: to the  *)
(* copy captured when it was sent, or not at all.                          *)
(*                                                                         *)
(* Type and choices of a custom field are the set of its valid values. A   *)
(* schedule, a name and a value are model values. Polls that race with a   *)
(* save are DirectoryRefresh's; who may be manager, and what a District    *)
(* decides, is DirectoryIntegrity's; new Locations are LocationImport's.   *)
(***************************************************************************)
EXTENDS Integers, FiniteSets

CONSTANTS
    Tabs, Locations, People, Names, Schedules, Templates, Fields, Values,
    None,           \* nothing
    Done,           \* a save that is over
    Kept,           \* a reference a write leaves out, which keeps the stored one
    MaxCalls,       \* bound: saves sent
    MaxFailures     \* bound: lost answers and reloads

VARIABLES
    stored,         \* the saved Directory
    shown,          \* tab -> the Directory as the tab shows it
    form,           \* tab -> the open Location form, or None
    calls,          \* the saves sent
    asked,          \* tab -> what its user asked for since it last read the Directory
    failures

vars == <<stored, shown, form, calls, asked, failures>>

LocationData == [hours : Schedules, template : Templates \cup {None}, mode : {"template", "custom"},
                 manager : People \cup {None}, managerName : Names \cup {None},
                 verifiedBy : Tabs \cup {None}, version : Nat, metadata : [Fields -> Values \cup {None}]]
Definition == [valid : SUBSET Values, retired : BOOLEAN]
Directory == [locations : [Locations -> LocationData],
              people : [People -> [name : Names, version : Nat]],
              templates : [Templates -> Schedules \cup {None}],
              definitions : [Fields -> Definition \cup {None}]]

\* Nothing is no definition.
Apart == None \notin Definition

PlainFields == {"hours", "template", "mode", "manager", "managerName", "verifiedBy"}

\* What two copies of a Location differ in, as <<where, value>> pairs.
Changes(old, new) ==
    {<<k, new[k]>> : k \in {j \in PlainFields : new[j] # old[j]}}
    \cup {<<f, new.metadata[f]>> : f \in {g \in Fields : new.metadata[g] # old.metadata[g]}}
Of(l, changes) == {<<l, c[1], c[2]>> : c \in changes}

-----------------------------------------------------------------------------
(* What the commit accepts.                                                 *)

\* As it must not be: a value is retained only if it is still supplied.
FaultyRetained(definitions, metadata, existing) == metadata

\* Values of retired fields are put back (validateCustomMetadata).
Retained(definitions, metadata, existing) ==
    [f \in Fields |-> IF definitions[f] # None /\ definitions[f].retired /\ existing[f] # None
                      THEN existing[f] ELSE metadata[f]]

\* A value that is supplied must suit its definition or, in a retired field,
\* be the one that is there.
Suits(definitions, metadata, existing) == \A f \in Fields : metadata[f] # None =>
    /\ definitions[f] # None
    /\ IF definitions[f].retired THEN metadata[f] = existing[f] ELSE metadata[f] \in definitions[f].valid

MetadataAccepted(w) ==
    LET existing == stored.locations[w.id].metadata
    IN  w.data.metadata # existing =>
            w.expected = existing /\ Suits(stored.definitions, w.data.metadata, existing)

LocationAccepted(w) == stored.locations[w.id].version = w.data.version /\ MetadataAccepted(w)

PersonAccepted(w) == stored.people[w.id].version = w.data.version

\* A field keeps its type and its choices.
Redefines(old, new) == old # None => old.valid \subseteq new.valid

DefinitionAccepted(w) ==
    stored.definitions[w.id] = w.expected /\ Redefines(stored.definitions[w.id], w.data)

Accepted(c) ==
    /\ \A w \in c.locations : LocationAccepted(w)
    /\ \A w \in c.people : PersonAccepted(w)
    /\ \A w \in c.definitions : DefinitionAccepted(w)

Written(w) ==
    LET old == stored.locations[w.id]
        changed == w.data.metadata # old.metadata
    IN  [w.data EXCEPT !.version = old.version + 1,
                       !.manager = IF @ = Kept THEN old.manager ELSE @,
                       !.metadata = IF changed THEN Retained(stored.definitions, @, old.metadata) ELSE @]

The(W, id) == CHOOSE w \in W : w.id = id
IdsIn(W) == {w.id : w \in W}

\* The Directory with the writes of a save in it. Templates have no version.
After(c) ==
    [locations |-> [l \in Locations |->
        IF l \in IdsIn(c.locations) THEN Written(The(c.locations, l)) ELSE stored.locations[l]],
     people |-> [p \in People |->
        IF p \in IdsIn(c.people) THEN [The(c.people, p).data EXCEPT !.version = @ + 1] ELSE stored.people[p]],
     templates |-> [t \in Templates |->
        IF t \in IdsIn(c.templates) THEN The(c.templates, t).data ELSE stored.templates[t]],
     definitions |-> [f \in Fields |->
        IF f \in IdsIn(c.definitions) THEN The(c.definitions, f).data ELSE stored.definitions[f]]]

-----------------------------------------------------------------------------
\* A Location at the start: it follows a template and has a manager, if there
\* are any. The copied name may be out of date: only Rename keeps it.
Fresh == {[hours |-> h, template |-> u, mode |-> IF u = None THEN "custom" ELSE "template", manager |-> p,
           managerName |-> n, verifiedBy |-> None, version |-> 0, metadata |-> [f \in Fields |-> x]] :
    h \in Schedules, u \in IF Templates = {} THEN {None} ELSE Templates,
    p \in IF People = {} THEN {None} ELSE People, n \in IF People = {} THEN {None} ELSE Names,
    x \in Values \cup {None}}

Init ==
    /\ stored \in {[locations |-> [l \in Locations |-> data], people |-> [p \in People |-> [name |-> n, version |-> 0]],
                    templates |-> [u \in Templates |-> h],
                    definitions |-> [f \in Fields |-> [valid |-> {v}, retired |-> FALSE]]] :
        data \in Fresh, n \in Names, h \in Schedules, v \in Values}
    /\ \A l \in Locations :
        LET data == stored.locations[l]
        IN  /\ \A f \in Fields : data.metadata[f] \in stored.definitions[f].valid \cup {None}
            /\ \A u \in Templates : data.hours = stored.templates[u]
    /\ shown = [t \in Tabs |-> stored]
    /\ form = [t \in Tabs |-> None]
    /\ calls = [n \in 1 .. MaxCalls |-> None]
    /\ asked = [t \in Tabs |-> {}]
    /\ failures = 0

Unsent == {n \in 1 .. MaxCalls : calls[n] = None}
NextCall == CHOOSE n \in Unsent : TRUE
Sending(n) == calls[n] \notin {None, Done}
Waiting(t) == {n \in 1 .. MaxCalls : Sending(n) /\ calls[n].tab = t /\ calls[n].waiting}

Nothing == [locations |-> {}, people |-> {}, templates |-> {}, definitions |-> {}]
NoUndo == [locations |-> <<>>, people |-> <<>>]

\* persist: the writes are sent; undo is what a failure puts back, asks what
\* the user has asked for.
Send(t, writes, undo, asks) ==
    /\ Unsent # {}
    /\ calls' = [calls EXCEPT ![NextCall] =
            [tab |-> t, writes |-> writes, undo |-> undo, asked |-> asks,
             stage |-> "sent", waiting |-> TRUE, result |-> None]]

\* A Location as an operation sends it: JSON leaves an undefined reference out.
LocationWrite(l, data) ==
    [id |-> l, expected |-> None, data |-> [data EXCEPT !.manager = IF @ = None THEN Kept ELSE @]]

\* An operation that shows its Locations and people at once.
Optimistic(t, writes, locations, people, templates, undo) ==
    LET asks == asked[t] \cup UNION {Of(l, Changes(shown[t].locations[l], locations[l])) : l \in Locations}
    IN  /\ form[t] = None
        /\ Send(t, writes, undo, asks)
        /\ shown' = [shown EXCEPT ![t].locations = locations, ![t].people = people, ![t].templates = templates]
        /\ asked' = [asked EXCEPT ![t] = asks]
        /\ UNCHANGED <<stored, form, failures>>

-----------------------------------------------------------------------------
(* The form.                                                                *)

Open(t) == form[t] = None /\ \E l \in Locations :
    LET data == shown[t].locations[l]
    IN  /\ form' = [form EXCEPT ![t] = [id |-> l, base |-> data, data |-> data, asked |-> asked[t], saving |-> None]]
        /\ UNCHANGED <<stored, shown, calls, asked, failures>>

\* What may be filled in: hours, a template, a manager, a custom field that
\* the tab knows as not retired.
Filled(t) ==
    LET now == form[t].data
    IN  {[now EXCEPT !.hours = h, !.mode = "custom"] : h \in Schedules}
        \cup {[now EXCEPT !.hours = shown[t].templates[u], !.template = u, !.mode = "template"] :
                u \in {v \in Templates : shown[t].templates[v] # None}}
        \cup {[now EXCEPT !.manager = p] : p \in People \cup {None}}
        \cup {[now EXCEPT !.metadata[x[1]] = x[2]] : x \in {y \in Fields \X (Values \cup {None}) :
                LET definition == shown[t].definitions[y[1]]
                IN  definition # None /\ ~definition.retired /\ y[2] \in definition.valid \cup {None}}}

\* Once: a second change adds to the first.
Fill(t) == form[t] # None /\ form[t].saving = None /\ form[t].data = form[t].base /\ \E data \in Filled(t) :
    /\ form' = [form EXCEPT ![t].data = data,
                            ![t].asked = @ \cup Of(form[t].id, Changes(form[t].data, data))]
    /\ UNCHANGED <<stored, shown, calls, asked, failures>>

\* Staffing that was not touched is saved as it was (preserveUnchangedStaffing).
Staffed(t, base, data) ==
    IF data.manager = base.manager THEN data
    ELSE [data EXCEPT !.managerName = IF data.manager = None THEN None ELSE shown[t].people[data.manager].name]

\* As it must not be: the version the tab shows by now.
FaultyExpected(t) == shown[t].locations[form[t].id].version
Expected(t) == form[t].base.version

\* A reference the form clears is sent as null if the tab shows one.
Cleared(t, data) == [data EXCEPT !.manager =
    IF @ = None /\ shown[t].locations[form[t].id].manager = None THEN Kept ELSE @]

Submit(t) == form[t] # None /\ form[t].saving = None /\
    LET base == form[t].base
        data == Staffed(t, base, form[t].data)
        name == IF data.manager = base.manager THEN {} ELSE {<<form[t].id, "managerName", data.managerName>>}
        write == [id |-> form[t].id, expected |-> base.metadata,
                  data |-> [Cleared(t, data) EXCEPT !.version = Expected(t),
                                !.metadata = Retained(shown[t].definitions, @, base.metadata)]]
    IN  /\ Suits(shown[t].definitions, data.metadata, base.metadata)
        /\ Send(t, [Nothing EXCEPT !.locations = {write}], NoUndo, form[t].asked \cup name)
        /\ form' = [form EXCEPT ![t].saving = NextCall]
        /\ UNCHANGED <<stored, shown, asked, failures>>

Leave(t) ==
    /\ form[t] # None /\ form[t].saving = None
    /\ form' = [form EXCEPT ![t] = None]
    /\ UNCHANGED <<stored, shown, calls, asked, failures>>

-----------------------------------------------------------------------------
(* Operations of the tab that show what they save.                          *)

Verify(t) == \E l \in Locations :
    LET now == shown[t].locations
        next == [now EXCEPT ![l].verifiedBy = t]
    IN  Optimistic(t, [Nothing EXCEPT !.locations = {LocationWrite(l, next[l])}], next, shown[t].people,
                   shown[t].templates, [NoUndo EXCEPT !.locations = [k \in {l} |-> now[l]]])

\* A template's new schedule goes to the Locations that follow it; if the
\* save fails, nothing is put back.
UpdateTemplate(t) == \E u \in Templates, h \in Schedules :
    LET now == shown[t].locations
        following == {l \in Locations : now[l].template = u /\ now[l].mode = "template"}
        next == [l \in Locations |-> IF l \in following THEN [now[l] EXCEPT !.hours = h] ELSE now[l]]
    IN  /\ shown[t].templates[u] \notin {None, h}
        /\ Optimistic(t, [Nothing EXCEPT !.locations = {LocationWrite(l, next[l]) : l \in following},
                                         !.templates = {[id |-> u, data |-> h]}],
                      next, shown[t].people, [shown[t].templates EXCEPT ![u] = h], NoUndo)

DeleteTemplate(t) == \E u \in Templates :
    LET now == shown[t].locations
        using == {l \in Locations : now[l].template = u}
        next == [l \in Locations |-> IF l \in using
                    THEN [now[l] EXCEPT !.template = None, !.mode = "custom"] ELSE now[l]]
    IN  /\ shown[t].templates[u] # None
        /\ Optimistic(t, [Nothing EXCEPT !.locations = {LocationWrite(l, next[l]) : l \in using},
                                         !.templates = {[id |-> u, data |-> None]}],
                      next, shown[t].people, [shown[t].templates EXCEPT ![u] = None], NoUndo)

\* A new name goes to the copies in the Locations the person manages; if the
\* save fails, every Location is shown again as when it was sent.
Rename(t) == \E p \in People, n \in Names :
    LET now == shown[t].locations
        managed == {l \in Locations : now[l].manager = p}
        next == [l \in Locations |-> IF l \in managed THEN [now[l] EXCEPT !.managerName = n] ELSE now[l]]
        person == [shown[t].people[p] EXCEPT !.name = n]
    IN  /\ shown[t].people[p] # person
        /\ Optimistic(t, [Nothing EXCEPT !.locations = {LocationWrite(l, next[l]) : l \in managed},
                                         !.people = {[id |-> p, data |-> person]}],
                      next, [shown[t].people EXCEPT ![p] = person], shown[t].templates,
                      [locations |-> now, people |-> [q \in {p} |-> shown[t].people[p]]])

\* The panel of custom fields, which waits for its answer.
SaveDefinition(t) == \E f \in Fields, definition \in Definition :
    LET old == shown[t].definitions[f]
    IN  /\ form[t] = None
        /\ \A n \in Waiting(t) : calls[n].writes.definitions = {}
        /\ definition.valid # {} /\ definition # old /\ (old = None => ~definition.retired)
        /\ Send(t, [Nothing EXCEPT !.definitions = {[id |-> f, data |-> definition, expected |-> old]}],
                NoUndo, asked[t])
        /\ UNCHANGED <<stored, shown, form, asked, failures>>

-----------------------------------------------------------------------------
\* An answer brings what was saved of the records the save names.
Answer(writes, directory) ==
    [part \in {"locations", "people", "definitions"} |-> [r \in IdsIn(writes[part]) |-> directory[part][r]]]

Commit(n) ==
    LET c == calls[n]
        saved == Accepted(c.writes)
    IN  /\ Sending(n) /\ c.stage = "sent"
        /\ stored' = IF saved THEN After(c.writes) ELSE stored
        /\ calls' = [calls EXCEPT ![n] = IF ~c.waiting THEN Done ELSE
                        [c EXCEPT !.stage = IF saved THEN "saved" ELSE "refused",
                                  !.result = IF saved THEN Answer(c.writes, After(c.writes)) ELSE None]]
        /\ UNCHANGED <<shown, form, asked, failures>>

\* reconcileCommittedRecords, and the definition that was saved.
Confirm(n) ==
    LET c == calls[n]
        now == shown[c.tab]
        Newer(part) == [r \in DOMAIN now[part] |->
            IF r \in IdsIn(c.writes[part]) THEN c.result[part][r] ELSE now[part][r]]
    IN  /\ Sending(n) /\ c.waiting /\ c.stage = "saved"
        /\ shown' = [shown EXCEPT ![c.tab] = [@ EXCEPT !.locations = Newer("locations"),
                        !.people = Newer("people"), !.definitions = Newer("definitions")]]
        /\ form' = [form EXCEPT ![c.tab] = IF @ # None /\ @.saving = n THEN None ELSE @]
        /\ calls' = [calls EXCEPT ![n] = Done]
        /\ asked' = [asked EXCEPT ![c.tab] = {x \in @ : x[1] \notin IdsIn(c.writes.locations)}]
        /\ UNCHANGED <<stored, failures>>

\* A refused or lost save: what was captured is shown again.
Undone(c) ==
    LET now == shown[c.tab]
        Before(part) == [r \in DOMAIN now[part] |->
            IF r \in DOMAIN c.undo[part] THEN c.undo[part][r] ELSE now[part][r]]
    IN  [now EXCEPT !.locations = Before("locations"), !.people = Before("people")]

Fail(n) ==
    LET c == calls[n]
    IN  /\ Sending(n) /\ c.waiting
        /\ \/ c.stage = "refused" /\ UNCHANGED failures
           \/ failures < MaxFailures /\ failures' = failures + 1
        /\ shown' = [shown EXCEPT ![c.tab] = Undone(c)]
        /\ form' = [form EXCEPT ![c.tab] = IF @ # None /\ @.saving = n THEN [@ EXCEPT !.saving = None] ELSE @]
        /\ calls' = [calls EXCEPT ![n] = IF c.stage = "sent" THEN [c EXCEPT !.waiting = FALSE] ELSE Done]
        /\ UNCHANGED <<stored, asked>>

\* A refresh brings everything but the custom fields.
Poll(t) ==
    /\ Waiting(t) = {}
    /\ shown' = [shown EXCEPT ![t] = [stored EXCEPT !.definitions = shown[t].definitions]]
    /\ asked' = [asked EXCEPT ![t] = {}]
    /\ UNCHANGED <<stored, form, calls, failures>>

Reload(t) ==
    /\ failures < MaxFailures /\ failures' = failures + 1
    /\ shown' = [shown EXCEPT ![t] = stored]
    /\ form' = [form EXCEPT ![t] = None]
    /\ asked' = [asked EXCEPT ![t] = {}]
    /\ calls' = [n \in 1 .. MaxCalls |-> IF n \notin Waiting(t) THEN calls[n]
                    ELSE IF calls[n].stage = "sent" THEN [calls[n] EXCEPT !.waiting = FALSE] ELSE Done]
    /\ UNCHANGED stored

Next ==
    \/ \E t \in Tabs :
        \/ Open(t) \/ Fill(t) \/ Submit(t) \/ Leave(t)
        \/ Verify(t) \/ UpdateTemplate(t) \/ DeleteTemplate(t) \/ Rename(t) \/ SaveDefinition(t)
        \/ Poll(t) \/ Reload(t)
    \/ \E n \in 1 .. MaxCalls : Commit(n) \/ Confirm(n) \/ Fail(n)

Spec == Init /\ [][Next]_vars

-----------------------------------------------------------------------------
TypeOK ==
    /\ stored \in Directory
    /\ \A t \in Tabs : shown[t] \in Directory
    /\ failures \in Nat

\* The commit of a save changes only what its user has asked for.
OnlyAsked == \A n \in 1 .. MaxCalls : Sending(n) /\ calls[n].stage = "sent" /\ stored' # stored /\ calls'[n] # calls[n] =>
    \A l \in Locations : Of(l, Changes(stored.locations[l], stored'.locations[l])) \subseteq calls[n].asked

RetiredKept == \A l \in Locations, f \in Fields :
    LET value == stored.locations[l].metadata[f]
    IN  value # None /\ stored.definitions[f].retired => stored'.locations[l].metadata[f] = value

\* A save changes only what the user of its tab asked for since the tab read
\* or saved what it shows, whatever other tabs have saved, this tab has polled,
\* and earlier saves of this tab were refused or lost meanwhile. (One that was
\* refused and not put back is still asked for.)
NothingUnasked == [][OnlyAsked]_vars

MetadataDefined == \A l \in Locations, f \in Fields :
    LET value == stored.locations[l].metadata[f]
    IN  value # None => stored.definitions[f] # None /\ value \in stored.definitions[f].valid

\* Every stored value of a custom field is one that its definition, however
\* often saved since, allows, and stays as it is while the field is retired,
\* whatever forms opened before are saved (docs/custom-fields.md).
MetadataKept == []MetadataDefined /\ [][RetiredKept]_vars
=============================================================================
