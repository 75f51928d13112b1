----------------------------- MODULE RecordForms -----------------------------
(***************************************************************************)
(* The forms of single records: a Region or District in the registry panel *)
(* (HierarchyRegistryPanel.tsx, hierarchyRegistryEditing.ts), which after a *)
(* conflict compares its draft with what is saved by now, and a Person     *)
(* (PersonEditorForm.tsx), new or not, which after an unknown outcome      *)
(* sends nothing more.                                                     *)
(*                                                                         *)
(* The tabs edit one record; kind says which. Its status stands for what   *)
(* the registry changes by a button, its name for what forms have inputs   *)
(* for, the parent of a District included. What the commit checks of them  *)
(* is DirectoryIntegrity's; here it may refuse what it likes. The copies   *)
(* of a name in Locations are LocationEditor's. New units are left out:    *)
(* their ids are typed, so a second attempt meets the first.               *)
(***************************************************************************)
EXTENDS Naturals

CONSTANTS
    Tabs, Values,
    None,           \* nothing
    Done,           \* a save that is over
    MaxCalls,       \* bound: saves sent, for each kind of record
    MaxFailures     \* bound: answers lost

VARIABLES
    kind,           \* what the record is, "unit" or "person"
    stored,         \* the saved record
    created,        \* the new people saved: <<call, first call of its form>>
    shown,          \* tab -> the record as the tab shows it
    form,           \* tab -> the open form, or None
    offered,        \* the tabs that offer to refresh the registry
    calls,          \* the saves sent
    failures

vars == <<kind, stored, created, shown, form, offered, calls, failures>>

FormFields == {"name", "status"}
Record == [name : Values, status : Values, version : Nat]
Form == [new : BOOLEAN, seen : Record, draft : Record, touched : SUBSET FormFields,
         review : Record \cup {None}, uncertain : BOOLEAN,
         first : Nat \cup {None}, saving : Nat \cup {None}]
Call == [tab : Tabs, data : Record, expected : Nat \cup {None}, seen : Record \cup {None},
         asked : SUBSET FormFields, first : Nat, undo : Record \cup {None},
         stage : {"sent", "saved", "conflict", "invalid"}, waiting : BOOLEAN]

\* Nothing is no version, record, form or save, and neither is the end of a save.
Apart == None \notin Nat \cup Record \cup Form \cup Call /\ Done \notin Call \cup {None}

Differ(r, s) == {f \in FormFields : r[f] # s[f]}
With(r, s, fields) == [f \in DOMAIN r |-> IF f \in fields THEN s[f] ELSE r[f]]

Numbers == 1 .. MaxCalls[kind]
Unsent  == {n \in Numbers : calls[n] = None}
NextCall   == CHOOSE n \in Unsent : TRUE
Sending(n) == calls[n] \notin {None, Done}
InFlight(n) == Sending(n) /\ calls[n].stage = "sent"

Init ==
    /\ kind \in {"unit", "person"}
    /\ \E v \in Values : stored = [name |-> v, status |-> v, version |-> 1]
    /\ created = {}
    /\ shown = [t \in Tabs |-> stored]
    /\ form = [t \in Tabs |-> None]
    /\ offered = {}
    /\ calls = [n \in Numbers |-> None]
    /\ failures = 0

-----------------------------------------------------------------------------
(* The forms. seen is the record the form is based on, draft what it has    *)
(* in its inputs, touched the fields a person's form sends.                 *)

Blank(t, new) == [new |-> new, seen |-> shown[t], draft |-> shown[t], touched |-> {},
                  review |-> None, uncertain |-> FALSE, first |-> None, saving |-> None]

Idle(t) == form[t] # None /\ form[t].saving = None

\* beginRegionEdit, beginDistrictEdit, and the form of a person.
Open(t) == form[t] = None /\ \E new \in BOOLEAN :
    /\ new => kind = "person"
    /\ form' = [form EXCEPT ![t] = Blank(t, new)]
    /\ UNCHANGED <<kind, stored, created, shown, offered, calls, failures>>

\* The fields a form has inputs for.
Inputs == IF kind = "unit" THEN {"name"} ELSE FormFields

\* Once for each input: a second change replaces the first.
Fill(t) == Idle(t) /\ ~form[t].uncertain /\ \E f \in Inputs \ form[t].touched, v \in Values :
    /\ v # form[t].draft[f]
    /\ form' = [form EXCEPT ![t].draft[f] = v, ![t].touched = @ \cup {f}]
    /\ UNCHANGED <<kind, stored, created, shown, offered, calls, failures>>

Sent(t, data, expected, seen, asked, first) ==
    [tab |-> t, data |-> data, expected |-> expected, seen |-> seen, asked |-> asked,
     first |-> first, undo |-> IF kind = "unit" THEN None ELSE shown[t], stage |-> "sent", waiting |-> TRUE]

Ready(t) == Idle(t) /\ form[t].review = None /\ ~form[t].uncertain /\ Unsent # {}

Saving(t, call) ==
    /\ calls' = [calls EXCEPT ![NextCall] = call]
    /\ form' = [form EXCEPT ![t].saving = NextCall, ![t].first = call.first]
    /\ offered' = offered \ {t}
    /\ UNCHANGED <<kind, stored, created, failures>>

\* The first call of a form.
First(t) == IF form[t].first = None THEN NextCall ELSE form[t].first

\* registryEditRecord: what the form has inputs for, in the record it is based on.
RegistryEdit(t) == With(form[t].seen, form[t].draft, Inputs)

\* saveEdit
SaveEdit(t) == kind = "unit" /\ Ready(t) /\ LET f == form[t] IN
    /\ Saving(t, Sent(t, RegistryEdit(t), f.seen.version, f.seen, Inputs, First(t)))
    /\ UNCHANGED shown

\* updatePerson: the touched fields in the person the tab shows by now, at the
\* version the form was opened with. The tab shows the change at once.
SavePerson(t) == kind = "person" /\ Ready(t) /\ ~form[t].new /\
    LET f == form[t]
        data == With(shown[t], f.draft, f.touched)
    IN  /\ Saving(t, Sent(t, data, f.seen.version, f.seen, f.touched, First(t)))
        /\ shown' = [shown EXCEPT ![t] = data]

\* addPerson, under an id of its own each time.
AddPerson(t) == kind = "person" /\ Ready(t) /\ form[t].new
    /\ Saving(t, Sent(t, form[t].draft, None, None, FormFields, First(t)))
    /\ UNCHANGED shown

\* setRegionStatus, setDistrictStatus: no form is open, but the panel is busy
\* as if one were saving.
SetStatus(t) == kind = "unit" /\ form[t] = None /\ Unsent # {} /\ \E v \in Values \ {shown[t].status} :
    /\ calls' = [calls EXCEPT ![NextCall] =
            Sent(t, [shown[t] EXCEPT !.status = v], shown[t].version, shown[t], {"status"}, NextCall)]
    /\ form' = [form EXCEPT ![t] = [Blank(t, TRUE) EXCEPT !.saving = NextCall]]
    /\ offered' = offered \ {t}
    /\ UNCHANGED <<kind, stored, created, shown, failures>>

\* refreshConflict: the tab shows what is saved, beside the draft.
Refresh(t) ==
    /\ t \in offered /\ (form[t] = None \/ Idle(t))
    /\ shown' = [shown EXCEPT ![t] = stored]
    /\ form' = [form EXCEPT ![t] = IF @ = None THEN None ELSE [@ EXCEPT !.review = stored]]
    /\ offered' = offered \ {t}
    /\ UNCHANGED <<kind, stored, created, calls, failures>>

\* reapplyRegistryDraft: the draft as it is, on the record that was reviewed.
Reapply(t) ==
    /\ Idle(t) /\ form[t].review # None
    /\ form' = [form EXCEPT ![t].seen = form[t].review, ![t].review = None]
    /\ offered' = offered \ {t}
    /\ UNCHANGED <<kind, stored, created, shown, calls, failures>>

\* discardDraft, finishEditing, and the person form closed.
Close(t) ==
    /\ Idle(t)
    /\ form' = [form EXCEPT ![t] = None]
    /\ offered' = IF form[t].review = None THEN offered ELSE offered \ {t}
    /\ UNCHANGED <<kind, stored, created, shown, calls, failures>>

-----------------------------------------------------------------------------
(* The commit, its answers, and polls.                                      *)

Accepted(c) == c.expected = None \/ c.expected = stored.version

Settled(c, stage) == IF c.waiting THEN [c EXCEPT !.stage = stage] ELSE Done

Commit(n) == InFlight(n) /\ LET c == calls[n] IN
    /\ Accepted(c)
    /\ IF c.expected = None THEN created' = created \cup {<<n, c.first>>} /\ UNCHANGED stored
       ELSE stored' = [c.data EXCEPT !.version = stored.version + 1] /\ UNCHANGED created
    /\ calls' = [calls EXCEPT ![n] = Settled(@, "saved")]
    /\ UNCHANGED <<kind, shown, form, offered, failures>>

\* A conflict, or something else the commit does not accept.
Refuse(n) == InFlight(n) /\ \E why \in {"conflict", "invalid"} :
    /\ why = "conflict" => ~Accepted(calls[n])
    /\ calls' = [calls EXCEPT ![n] = Settled(@, why)]
    /\ UNCHANGED <<kind, stored, created, shown, form, offered, failures>>

\* A call is answered to a tab that waits for it.
Answerable(n) == Sending(n) /\ calls[n].waiting

\* persist and reconcileCommittedRecords; the form closes.
Saved(n) == Answerable(n) /\ calls[n].stage = "saved" /\ LET c == calls[n] IN
    /\ shown' = [shown EXCEPT ![c.tab] = IF c.expected = None THEN @
                    ELSE [c.data EXCEPT !.version = c.expected + 1]]
    /\ form' = [form EXCEPT ![c.tab] = None]
    /\ calls' = [calls EXCEPT ![n] = Done]
    /\ UNCHANGED <<kind, stored, created, offered, failures>>

\* What the form is after a failed save; a status button leaves none.
\* As it must not be: a person's form may send again whatever happened.
FaultyAfter(f, known) == [f EXCEPT !.saving = None]
After(f, known) == [f EXCEPT !.saving = None, !.uncertain = kind = "person" /\ ~known]

Failed(n, known) == LET c == calls[n] IN
    /\ shown' = [shown EXCEPT ![c.tab] = IF kind = "person" /\ c.expected # None THEN c.undo ELSE @]
    /\ form' = [form EXCEPT ![c.tab] = IF kind = "unit" /\ @.new THEN None ELSE After(@, known)]
    /\ calls' = [calls EXCEPT ![n] = IF c.stage = "sent" THEN [c EXCEPT !.waiting = FALSE] ELSE Done]
    /\ UNCHANGED <<kind, stored, created>>

Refused(n) ==
    /\ Answerable(n) /\ calls[n].stage \in {"conflict", "invalid"} /\ Failed(n, TRUE)
    /\ offered' = IF kind = "unit" /\ calls[n].stage = "conflict" THEN offered \cup {calls[n].tab} ELSE offered
    /\ UNCHANGED failures

\* The answer is lost, or says nothing of the outcome.
Lost(n) ==
    /\ Answerable(n) /\ Failed(n, FALSE)
    /\ failures < MaxFailures /\ failures' = failures + 1
    /\ UNCHANGED offered

Poll(t) ==
    /\ form[t] # None => form[t].saving = None
    /\ shown' = [shown EXCEPT ![t] = stored]
    /\ UNCHANGED <<kind, stored, created, form, offered, calls, failures>>

Next ==
    \/ \E t \in Tabs : \/ Open(t) \/ Fill(t) \/ SaveEdit(t) \/ SavePerson(t) \/ AddPerson(t) \/ SetStatus(t)
                       \/ Refresh(t) \/ Reapply(t) \/ Close(t) \/ Poll(t)
    \/ \E n \in Numbers : Commit(n) \/ Refuse(n) \/ Saved(n) \/ Refused(n) \/ Lost(n)

Spec == Init /\ [][Next]_vars

-----------------------------------------------------------------------------
TypeOK ==
    /\ stored \in Record
    /\ shown \in [Tabs -> Record]
    /\ form \in [Tabs -> Form \cup {None}]
    /\ calls \in [Numbers -> Call \cup {None, Done}]
    /\ created \subseteq Numbers \X Numbers
    /\ offered \subseteq Tabs
    /\ failures \in Nat

\* The commit of a save replaces the very record its author was shown, when
\* the form was opened or in the last review, and only in the fields asked for.
ReplacesWhatWasShown == \A n \in Numbers :
    Sending(n) /\ stored' # stored /\ calls'[n] # calls[n] =>
        Differ(stored, calls[n].seen) = {} /\ Differ(stored', stored) \subseteq calls[n].asked

\* One form of a new person creates one person at most.
CreatesOnce == \A p, q \in created' : p[2] = q[2] => p = q

Honest == ReplacesWhatWasShown /\ CreatesOnce

\* A save of a form changes what its author saw and meant to change, once,
\* whatever was saved, lost, polled or reviewed since the form was opened.
FormsSaveWhatWasShown == [][Honest]_vars
=============================================================================
