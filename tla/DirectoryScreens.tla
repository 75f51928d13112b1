-------------------------- MODULE DirectoryScreens --------------------------
(* What the screens let an administrator send to the commit. A form offers *)
(* choices and looks for obstacles in the Directory it shows, by rules of  *)
(* its own; the server applies the checks of DirectoryIntegrity, or of     *)
(* PersonTransition for a reviewed change, to what was sent. Here the two  *)
(* are asked about the same Directory, so that what they differ in is the  *)
(* rules and not the time between them.                                    *)
(*                                                                         *)
(* Names, contacts, inboxes, applicability and versions are left out; so   *)
(* is a form that repeats what is there.                                   *)
EXTENDS DirectoryReaders

CONSTANT MaxCells    \* bound on the cells a row of an import fills in

(* A record is known by its collection as well as by its id.               *)
ASSUME RecordsApart ==
    /\ Persons \cap (Locations \cup Districts) = {} /\ Locations \cap Districts = {}
    /\ (Persons \cup Locations \cup Districts) \cap (Regions \cup Users) = {}
    /\ None \notin BOOLEAN \cup Types

(* One batch, and whether the commit takes it. No screen below writes an   *)
(* account or a Region.                                                    *)
Only(x, v) == [y \in {x} |-> v]
NoWrites == [people |-> << >>, locations |-> << >>, districts |-> << >>, gone |-> {}]

Written(batch) == UNION {DOMAIN batch.people, DOMAIN batch.locations, DOMAIN batch.districts, batch.gone}

Proposed(P, L, D) == INSTANCE CommitChecks WITH
    newPeople <- P, newLocations <- L, newRegions <- regions, newDistricts <- D

Accepted(batch) ==
    Proposed(Saved(people, batch.people, batch.gone), Saved(locations, batch.locations, {}),
             Saved(districts, Kept(batch.districts), {}))!Checked(Written(batch), << >>)

InUse == {l \in DOMAIN locations : ~locations[l].retired}

Candidates(f) == {p \in DOMAIN people : Qualified(p, f)}

-----------------------------------------------------------------------------
(* A person's page: deletion and inactivation wait until the person leads  *)
(* nothing and no account is linked.                                       *)
Accounts(p) == {u \in DOMAIN users : users[u] = p}
OwnedDistricts(p) == {d \in DOMAIN districts : districts[d].manager = p}
Blockers(p) == UNION {Led(p), Accounts(p), OwnedDistricts(p)}

Deletion(p) == [NoWrites EXCEPT !.gone = {p}]
Inactivation(p) == [NoWrites EXCEPT !.people = Only(p, [people[p] EXCEPT !.active = FALSE])]

PersonPage ==
    \A p \in DOMAIN people :
        /\ Blockers(p) = {} <=> Accepted(Deletion(p))
        /\ people[p].active => (Blockers(p) = {} <=> Accepted(Inactivation(p)))

(* The person's form. A name goes into the Locations that carry a copy.    *)
FaultyResponsibilities(p) ==    \* the Districts are forgotten
    {row \in (DOMAIN locations) \X Fields :
        /\ locations[row[1]].leader[row[2]] = p
        /\ row[2] # DistrictManager \/ ~InheritsNow(row[1])}
Responsibilities(p) ==
    (OwnedDistricts(p) \X {DistrictManager}) \cup
    {row \in (DOMAIN locations) \X Fields :
        /\ locations[row[1]].leader[row[2]] = p
        /\ row[2] # DistrictManager \/ ~InheritsNow(row[1])}

Copies(p) == {l \in DOMAIN locations : \E f \in Fields : locations[l].leader[f] = p}

\* The workplaces offered are the Locations in use and those there were.
Drafts(p) ==
    LET there == IF p \in DOMAIN people THEN Workplaces(p) ELSE {} IN
    {is \in Person : /\ is.worksAt \in InUse \cup there \cup {None}
                     /\ is.supports \subseteq (InUse \cup there) \ {is.worksAt}}

PersonReady(p, is) ==
    LET duties == Responsibilities(p) IN
    /\ is.positions # people[p].positions =>
        (duties # {} => is.active) /\ \A row \in duties : row[2] \in is.positions
    /\ people[p].active /\ ~is.active => duties = {} /\ Accounts(p) = {}

PersonSaved(p, is, copies) ==
    [NoWrites EXCEPT !.people = Only(p, is), !.locations = [l \in copies |-> locations[l]]]

PersonForm ==
    /\ \A p \in DOMAIN people : \A is \in Drafts(p), copies \in {{}, Copies(p)} :
        PersonReady(p, is) <=> Accepted(PersonSaved(p, is, copies))
    /\ \A p \in Persons \ DOMAIN people : \A is \in Drafts(p) : Accepted(PersonSaved(p, is, {}))

(* The handover of a District: the preview, and the batch made of it.      *)
HandoverPreviewed(d, p) ==
    /\ districts[d].active
    /\ districts[d].region \in DOMAIN regions /\ regions[districts[d].region].active
    /\ p \in Candidates(DistrictManager) \cup {None}
    /\ \A l \in Members(d) : locations[l].region = districts[d].region

Handover(d, p) ==
    [NoWrites EXCEPT !.districts = Only(d, [districts[d] EXCEPT !.manager = p]),
                     !.locations = [l \in Members(d) |-> [locations[l] EXCEPT !.leader[DistrictManager] = p]]]

DistrictPanel ==
    \A d \in DOMAIN districts, p \in Persons \cup {None} :
        p # districts[d].manager => (HandoverPreviewed(d, p) <=> Accepted(Handover(d, p)))

(* A District added under one of the Regions offered.                      *)
NewDistrict(d, r) ==
    [NoWrites EXCEPT !.districts = Only(d, [active |-> TRUE, region |-> r, manager |-> Unowned])]

RegistryPanel ==
    \A d \in Districts \ DOMAIN districts, r \in DOMAIN regions :
        regions[r].active => Accepted(NewDistrict(d, r))

-----------------------------------------------------------------------------
(* A Location takes the manager of a District that owns one.               *)
Inheriting(place) ==
    /\ place.type \in Retail /\ place.district \in DOMAIN districts
    /\ districts[place.district].manager # Unowned
Inherited(place) ==
    IF Inheriting(place) THEN [place EXCEPT !.leader[DistrictManager] = districts[place.district].manager]
    ELSE place

LocationSaved(l, place) == [NoWrites EXCEPT !.locations = Only(l, place)]

Blank == [type |-> None, retired |-> FALSE, region |-> None, district |-> None, leader |-> [f \in Fields |-> None]]
Was(l) == IF l \in DOMAIN locations THEN locations[l] ELSE Blank

(* A Location's form. A Region clears the District, and Districts are      *)
(* offered in the Region that was chosen. It does not ask who works in a   *)
(* Location it retires, nor whether there is a District yet.               *)
Places(l) ==
    {<<Was(l).region, Was(l).district>>} \cup
    {place \in (DOMAIN regions \cup {None}) \X (DOMAIN districts \cup {None}) :
        LET r == place[1]  d == place[2] IN
        /\ r = Was(l).region \/ r = None \/ regions[r].active
        /\ d # None => districts[d].active /\ districts[d].region = r}

Forms(l) ==
    {place \in [type : Types, retired : IF l \in DOMAIN locations THEN BOOLEAN ELSE {FALSE},
                region : DOMAIN regions \cup {None}, district : DOMAIN districts \cup {None},
                leader : [Fields -> Persons \cup {None}]] :
        /\ <<place.region, place.district>> \in Places(l)
        /\ \A f \in Fields : place.leader[f] \in Candidates(f) \cup {None, Was(l).leader[f]}}

Workers(l) == {p \in DOMAIN people : l \in Workplaces(p)}

LocationForm ==
    \A l \in Locations : \A place \in Forms(l) :
        LET retiring == place.retired /\ ~Was(l).retired
            unlisted == (place.region # None \/ place.district # None) /\ districts = << >>
        IN  (~unlisted /\ (retiring => Workers(l) = {})) <=> Accepted(LocationSaved(l, Inherited(place)))

(* A row of an import: the cells it leaves blank keep what there was, and  *)
(* no cell can say that something is none.                                 *)
Filled(row) ==
    Cardinality({c \in {"type", "retired", "region", "district"} : row[c] # None}) +
    Cardinality({f \in Fields : row.leader[f] # None})

Rows ==
    {row \in [type : Types \cup {None}, retired : {TRUE, FALSE, None}, region : Regions \cup {None},
              district : Districts \cup {None}, leader : [Fields -> Persons \cup {None}]] :
        Filled(row) <= MaxCells}

\* A new Location needs the cells that every Location has.
Complete(l, row) == l \in DOMAIN locations \/ (row.type # None /\ row.retired # None)

Cell(new, old) == IF new = None THEN old ELSE new

AsSpelled(l, row) ==
    [type |-> Cell(row.type, Was(l).type), retired |-> Cell(row.retired, Was(l).retired),
     region |-> Cell(row.region, Was(l).region), district |-> Cell(row.district, Was(l).district),
     leader |-> [f \in Fields |-> Cell(row.leader[f], Was(l).leader[f])]]

Entering(l, place) ==
    locations[l].district # place.district \/ locations[l].type \notin Retail

RowReady(l, row) ==
    LET new   == l \notin DOMAIN locations
        place == AsSpelled(l, row)
        final == Inherited(place)
        moved == \E c \in {"type", "region", "district"} : final[c] # Was(l)[c]
    IN
    /\ Complete(l, row)
    /\ Inheriting(place) /\ ~new /\ ~Entering(l, place) =>
        row.leader[DistrictManager] \in {None, districts[place.district].manager}
    /\ new \/ moved => RegistryIssues(final.region, final.district) = {}
    /\ \A f \in Fields :
        /\ final.leader[f] # None /\ (new \/ final.leader[f] # Was(l).leader[f])
        /\ f # DistrictManager \/ ~Inheriting(place)
        => Qualified(final.leader[f], f)
    /\ ~new /\ row.retired = TRUE /\ ~Was(l).retired => Workers(l) = {}

ImportRows ==
    \A l \in Locations : \A row \in Rows : Complete(l, row) =>
        IF RowReady(l, row) THEN Accepted(LocationSaved(l, Inherited(AsSpelled(l, row))))
        ELSE ~Accepted(LocationSaved(l, AsSpelled(l, row)))

-----------------------------------------------------------------------------
(* The removal of a position, reviewed: a replacement or a vacancy for     *)
(* every assignment that needs the position.                               *)
Assignable(unit) ==
    IF unit \in DOMAIN districts
    THEN /\ districts[unit].active
         /\ districts[unit].region \in DOMAIN regions /\ regions[districts[unit].region].active
    ELSE /\ ~locations[unit].retired /\ HierarchyIssues(unit) = {}
         /\ ~Applicable(unit) \/ (HierarchyStatus(unit) = "resolved" /\ locations[unit].district # None)

RemovalRows(p, desired) == {row \in Responsibilities(p) : row[2] \notin desired}

Replacements(p, row) == IF Assignable(row[1]) THEN Candidates(row[2]) \ {p} ELSE {}

ManagersChosen(choice) ==
    [d \in DOMAIN districts |->
        IF <<d, DistrictManager>> \in DOMAIN choice THEN choice[<<d, DistrictManager>>] ELSE districts[d].manager]
LeadersChosen(choice) ==
    [l \in DOMAIN locations |-> [f \in Fields |->
        IF <<l, f>> \in DOMAIN choice THEN choice[<<l, f>>] ELSE locations[l].leader[f]]]

\* The plan that is made of the review has no blockers.
Removal(p, desired, choice) ==
    Unblocked([people EXCEPT ![p].positions = desired], p, ManagersChosen(choice), LeadersChosen(choice))

\* The one thing the screen does not look at: stores outside the District's Region.
Straying(d) == d \in DOMAIN districts /\ \E l \in Members(d) : locations[l].region # districts[d].region

RemovalReview ==
    \A p \in DOMAIN people, desired \in SUBSET Fields : people[p].active =>
        LET required == RemovalRows(p, desired) IN
        \A choice \in [required -> Persons \cup {None}] :
            (\A row \in required : choice[row] \in Replacements(p, row) \cup {None}) =>
                (Removal(p, desired, choice) <=>
                    \A row \in required : choice[row] # None => ~Straying(row[1]))

-----------------------------------------------------------------------------
(* Whatever Directory the writers made, a form that finds no obstacle in   *)
(* it sends what the commit takes, and one that finds an obstacle holds    *)
(* back what the commit refuses, but for the refusals named above that the *)
(* form leaves to the server. Otherwise an administrator would be refused  *)
(* what was offered, or kept from what is allowed, however often the       *)
(* Directory is read again.                                                *)
ScreensForetell ==
    /\ PersonPage /\ PersonForm
    /\ DistrictPanel /\ RegistryPanel
    /\ LocationForm /\ ImportRows
    /\ RemovalReview
=============================================================================
