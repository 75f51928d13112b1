-------------------------- MODULE LeadershipRoster --------------------------
(***************************************************************************)
(* Who leads a District or a Region (organizationLeadershipPlanner.ts): a  *)
(* unit that is managed has tenures, one of them its primary, which stores *)
(* carry as a copy; a unit that is not has at most a pointer of old.  A    *)
(* plan takes the whole roster a unit shall have and is written as it is   *)
(* planned or not at all, so a step of this module is a plan written on    *)
(* the records it was made from.  Between plans people change: a leader    *)
(* who no longer qualifies stays until a plan ends the tenure.             *)
(*                                                                         *)
(* That a person qualifies stands for the position, the active status and  *)
(* the name that are asked for. The versions an intent expects, reasons,   *)
(* names in stores and the limits on the size of a plan are left out, and  *)
(* so are the preconditions for its writer, which does not exist yet: a    *)
(* unit keeps its parent and a store its place.                            *)
(***************************************************************************)
EXTENDS FiniteSets

CONSTANTS Managers, Districts, Regions, Stores, Operations, None

\* A unit is known by its type as well as by its id.
NamesApart == Districts \cap Regions = {}

VARIABLES
    qualified,   \* person -> the types of unit the person may lead
    units,       \* unit -> its parent, and who leads it
    tenures,     \* every tenure, ended ones included
    stores       \* store -> where it lies, and the leaders copied into it

vars == <<qualified, units, tenures, stores>>

Units     == Districts \cup Regions
Occupant  == Managers \cup {None}
UnitTypes == {"district", "region"}
TypeOf(u) == IF u \in Districts THEN "district" ELSE "region"

Unit   == [active : BOOLEAN, parent : Regions \cup {None}, managed : BOOLEAN, primary : Occupant]
Tenure == [op : Operations, unit : Units, person : Managers, active : BOOLEAN]
Store  == [kind : {"retail", "other", "unknown"}, applicable : BOOLEAN, region : Regions \cup {None},
           district : Districts \cup {None}, copies : [UnitTypes -> Occupant]]

TypeOK ==
    /\ qualified \in [Managers -> SUBSET UnitTypes]
    /\ units \in [Units -> Unit]
    /\ tenures \subseteq Tenure
    /\ stores \in [Stores -> Store]

Init ==
    /\ qualified \in [Managers -> SUBSET UnitTypes]
    /\ units \in [Units -> {u \in Unit : ~u.managed}]
    /\ \A u \in Regions : units[u].parent = None
    /\ tenures = {}
    /\ stores \in [Stores -> Store]

Serving(u) == {t \in tenures : t.unit = u /\ t.active}
Members(u) == {t.person : t \in Serving(u)}

\* What is stored of a unit agrees with its tenures; a plan refuses it otherwise.
Agrees(u) ==
    /\ \A s, t \in Serving(u) : s.person = t.person => s = t
    /\ IF ~units[u].managed THEN Serving(u) = {}
       ELSE IF Serving(u) = {} THEN units[u].primary = None ELSE units[u].primary \in Members(u)

Open(u) ==
    /\ units[u].active
    /\ u \in Districts => units[u].parent \in Regions /\ units[units[u].parent].active

\* The stores a unit leads.
Relevant(u) ==
    {s \in Stores : stores[s].kind # "other" /\
        IF u \in Districts THEN stores[s].district = u
        ELSE \/ stores[s].region = u
             \/ stores[s].district \in Districts /\ units[stores[s].district].parent = u}

\* A store that may take a copy.
Placed(s) ==
    LET d == stores[s].district IN
    /\ stores[s].kind = "retail" /\ stores[s].applicable
    /\ d \in Districts /\ units[d].active /\ units[d].parent = stores[s].region
    /\ stores[s].region \in Regions /\ units[stores[s].region].active

\* The rosters a unit can be asked to have: one primary, or nobody.
Rosters == {[members |-> m, primary |-> p] : m \in SUBSET Managers, p \in Occupant}
Roster  == {r \in Rosters : IF r.members = {} THEN r.primary = None ELSE r.primary \in r.members}

Promotes(u, r) == r.primary # units[u].primary
\* As it must not be: only a new primary reaches the stores.
FaultyHandsOver(u, r) == units[u].managed /\ Promotes(u, r)
HandsOver(u, r) == Promotes(u, r) \/ ~units[u].managed

Allowed(u, r, op) ==
    /\ Open(u) /\ Agrees(u)
    /\ units[u].managed => Promotes(u, r) \/ r.members # Members(u)
    /\ \A p \in r.members :
          p \notin Members(u) \/ (Promotes(u, r) /\ p = r.primary) => TypeOf(u) \in qualified[p]
    /\ \A t \in tenures : t.op = op /\ t.unit = u => t.person \notin r.members \ Members(u)
    /\ HandsOver(u, r) => \A s \in Relevant(u) : Placed(s)

Ended(t, U, roster) ==
    IF t.unit \in U /\ t.active /\ t.person \notin roster[t.unit].members
    THEN [t EXCEPT !.active = FALSE] ELSE t

Begun(U, roster, op) ==
    {t \in [op : {op}, unit : U, person : Managers, active : {TRUE}] :
        t.person \in roster[t.unit].members \ Members(t.unit)}

\* The copy a store has of a type of leader, after the plan.
Copy(s, type, U, roster) ==
    LET over == {u \in U : TypeOf(u) = type /\ HandsOver(u, roster[u]) /\ s \in Relevant(u)}
    IN  IF over = {} THEN stores[s].copies[type] ELSE roster[CHOOSE u \in over : TRUE].primary

\* The patches of a plan.
Write(U, roster, op) ==
    /\ tenures' = {Ended(t, U, roster) : t \in tenures} \cup Begun(U, roster, op)
    /\ units' = [u \in Units |-> IF u \in U
                    THEN [units[u] EXCEPT !.managed = TRUE, !.primary = roster[u].primary] ELSE units[u]]
    /\ stores' = [s \in Stores |->
                    [stores[s] EXCEPT !.copies = [type \in UnitTypes |-> Copy(s, type, U, roster)]]]
    /\ UNCHANGED qualified

\* planOrganizationLeadership: an intent for some units, all of it or nothing.
Plan(op) == \E U \in SUBSET Units \ {{}} : \E roster \in [U -> Roster] :
    (\A u \in U : Allowed(u, roster[u], op)) /\ Write(U, roster, op)

\* A position is given or taken, a person inactivated or back, within what the
\* commit allows of it or beyond.
ChangePerson(p) == \E types \in SUBSET UnitTypes :
    /\ qualified' = [qualified EXCEPT ![p] = types]
    /\ UNCHANGED <<units, tenures, stores>>

Next == (\E op \in Operations : Plan(op)) \/ (\E p \in Managers : ChangePerson(p))
Spec == Init /\ [][Next]_vars

-----------------------------------------------------------------------------
(* Correctness.                                                             *)

\* Whatever plans were written, a managed unit can be planned again: its
\* primary is one of the people who serve it, nobody serves twice, and every
\* store it leads carries the primary, as the readers that know only the
\* copies need (the checks of planOrganizationLeadership on stored rosters).
RosterCoherent == \A u \in Units :
    /\ Agrees(u)
    /\ units[u].managed => \A s \in Relevant(u) :
          Placed(s) /\ stores[s].copies[TypeOf(u)] = units[u].primary

\* A tenure that has ended stays in the history and never resumes.
HistoryKept == [][\A t \in tenures : ~t.active => t \in tenures']_vars
=============================================================================
