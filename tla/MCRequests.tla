----------------------------- MODULE MCRequests -----------------------------
(* Correction requests, and the edits of records that need none. Neither    *)
(* reads what the other adds to the Directory: each is explored alone, as   *)
(* scope says. Whole Locations are edited once with hours templates, once   *)
(* with the names copied into them and once with custom fields; and the     *)
(* forms of units and of people each alone, with three saves of a unit, for *)
(* a conflict that is reviewed and reapplied, and two of a person.          *)
EXTENDS RequestSubmission, FiniteSets, TLC

CONSTANTS Tabs, Locations, People, Names, Schedules, Templates, Fields, Choices, Done, Kept,
    MaxEdits,       \* bound: saves of whole Locations
    MaxSaves,       \* bound: saves of a unit, and of a person
    MaxFailures     \* bound: answers lost and pages reloaded

VARIABLES scope, records, display, form, saves, asked, failures, created, offered

Editor == INSTANCE LocationEditor WITH
    Values <- Choices, MaxCalls <- MaxEdits,
    stored <- records, shown <- display, calls <- saves

Forms == INSTANCE RecordForms WITH
    Values <- Names, MaxCalls <- MaxSaves, kind <- scope,
    stored <- records, shown <- display, calls <- saves

ASSUME EditsAssumption == Editor!Apart
ASSUME FormsAssumption == Forms!Apart

Edits == {"hours", "copies", "custom"}
Kinds == {"unit", "person"}

formVars == <<created, offered>>
edits == <<scope, records, display, form, saves, asked, failures, formVars>>

One(S) == CHOOSE x \in S : TRUE

(* What each scope of whole Locations leaves at rest.                       *)

\* The inputs of the form that are filled in.
Inputs == [hours |-> {"hours", "template", "mode"}, copies |-> {"manager"}, custom |-> Fields]

\* The records that are saved beside Locations.
Parts == [hours |-> "templates", copies |-> "people", custom |-> "definitions"]

InHand == {t \in Tabs : form[t] # None}
Sent == {n \in DOMAIN saves : saves[n] \notin {None, Done}}

\* The Locations that were saved, are being edited or are being saved.
Touched ==
    {l \in Locations : records.locations[l].version > 0}
    \cup {form[t].id : t \in InHand}
    \cup UNION {Editor!IdsIn(saves[n].writes.locations) : n \in Sent}

Within ==
    /\ \A t \in InHand : \A c \in Editor!Changes(form[t].base, form[t].data) : c[1] \in Inputs[scope]
    /\ \A n \in Sent, part \in {"templates", "people", "definitions"} :
           saves[n].writes[part] # {} => part = Parts[scope]
    /\ scope = "custom" => Cardinality(Touched) <= 1

\* The edits start from one schedule, one name and one choice.
EditsInit ==
    /\ scope \in Edits /\ Editor!Init
    /\ \A p \in People : records.people[p].name = One(Names)
    /\ \A f \in Fields : records.definitions[f].valid = {One(Choices)}
    /\ \A l \in Locations :
        /\ records.locations[l].hours = One(Schedules)
        /\ scope # "copies" => records.locations[l].managerName = One(Names)
        /\ scope # "custom" => \A f \in Fields : records.locations[l].metadata[f] = None

FormsInit == Forms!Init /\ records.name = One(Names) /\ asked = None

RequestsInit ==
    /\ Init
    /\ \/ scope = "requests" /\ records = None /\ display = None /\ form = None
          /\ saves = None /\ asked = None /\ failures = 0
          /\ created = {} /\ offered = {}
       \/ EditsInit /\ location.field = location.other /\ created = {} /\ offered = {}
       \/ FormsInit /\ location.field = location.other

RequestsNext ==
    \/ scope = "requests" /\ Next /\ UNCHANGED edits
    \/ scope \in Edits /\ Editor!Next /\ UNCHANGED <<vars, scope, formVars>> /\ Within'
    \/ scope \in Kinds /\ Forms!Next /\ UNCHANGED <<vars, asked>>

RequestsSpec == RequestsInit /\ [][RequestsNext]_<<vars, edits>>

\* A save changes only what its user asked for (LocationEditor).
NothingUnasked == [][(scope \in Edits => Editor!OnlyAsked)]_edits

\* Stored values of custom fields are as their definitions have them, and stay
\* as they are while the field is retired (LocationEditor).
MetadataKept ==
    /\ [](scope \in Edits => Editor!MetadataDefined)
    /\ [][(scope \in Edits => Editor!RetiredKept)]_edits

\* A form's save changes what its author saw and meant to change (RecordForms).
FormsSaveWhatWasShown == [][(scope \in Kinds => Forms!Honest)]_edits

ThreeAndTwo == [unit |-> 3, person |-> 2]

Symmetric == Permutations(Ids) \cup Permutations(Values) \cup Permutations(Tabs) \cup Permutations(Locations)
=============================================================================
