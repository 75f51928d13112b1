------------------------ MODULE DirectoryIntegrity ------------------------
(***************************************************************************)
(* The relations between the Directory's records, and the commit that must *)
(* keep them whatever batch of writes it is handed. People hold positions, *)
(* lead Locations and Districts, and work at or support Locations; users   *)
(* are linked to people; Locations belong to Districts and Regions; a      *)
(* District may own the District Manager of its retail Locations, each of  *)
(* which keeps a copy.                                                     *)
(*                                                                         *)
(* A commit reads the five collections and saves in one transaction, so it *)
(* is one step. It accepts a record only from a writer who holds its       *)
(* current version and refuses every other batch whole: a refusal is a     *)
(* stutter, and an accepted batch writes over the records it was made      *)
(* from. Most checks look only at what a batch changes, so that records    *)
(* from before the checks can still be saved; what is checked here is that *)
(* those narrow checks are enough. The actor is a company-wide System      *)
(* Administrator; hierarchy applicability and copied names are left out.   *)
(***************************************************************************)
EXTENDS FiniteSets, Naturals

CONSTANTS Persons, Locations, Users, Regions, Districts,
    Fields,           \* leadership fields of a Location
    DistrictManager,  \* the field a District may own
    Types, Retail,    \* Location types, and the retail ones among them
    None,             \* an empty reference; on a District, an explicit vacancy
    Unowned,          \* a District without the districtManagerId property
    Omitted,          \* a user write that leaves personId out
    MaxWrites         \* bound on the writes of one batch

Person   == [active : BOOLEAN, positions : SUBSET Fields,
             worksAt : Locations \cup {None}, supports : SUBSET Locations]
Location == [type : Types, retired : BOOLEAN, region : Regions \cup {None},
             district : Districts \cup {None}, leader : [Fields -> Persons \cup {None}]]
Region   == [active : BOOLEAN]
District == [active : BOOLEAN, region : Regions,
             manager : Persons \cup {None, Unowned}]
Partial(D, R) == UNION {[S -> R] : S \in SUBSET D}

ASSUME FieldAssumption == DistrictManager \in Fields /\ Retail \subseteq Types
ASSUME NoneAssumption ==
    /\ None \notin Persons \cup Locations \cup Regions \cup Districts
    /\ Unowned \notin Persons \cup {None}
    /\ Omitted \notin Persons \cup {None}

VARIABLES
    people,     \* people: the record of each person that exists
    locations,  \* locations
    users,      \* users: the person each account is linked to
    regions,    \* regions
    districts   \* districts

vars == <<people, locations, users, regions, districts>>

Init ==
    /\ people = << >> /\ locations = << >> /\ users = << >>
    /\ regions = << >> /\ districts = << >>

-----------------------------------------------------------------------------
(* Saving a batch: what it sets, over what it deletes, over what there was. *)
Saved(old, set, gone) ==
    [d \in (DOMAIN old \ gone) \cup DOMAIN set |-> IF d \in DOMAIN set THEN set[d] ELSE old[d]]

\* Users are merged: a write without personId keeps the link there was.
Link(u, input) ==
    IF input # Omitted THEN input ELSE IF u \in DOMAIN users THEN users[u] ELSE None

Linked(set) == [u \in DOMAIN set |-> Link(u, set[u])]

\* A District write without districtManagerId keeps the one there was.
Kept(set) ==
    [d \in DOMAIN set |->
        IF set[d].manager = Unowned /\ d \in DOMAIN districts
        THEN [active |-> set[d].active, region |-> set[d].region,
              manager |-> districts[d].manager]
        ELSE set[d]]

-----------------------------------------------------------------------------
(* The checks, of the records before a step and after it.                   *)
INSTANCE CommitChecks WITH
    newPeople <- people', newLocations <- locations', newRegions <- regions', newDistricts <- districts'

-----------------------------------------------------------------------------
Batches ==
    {W \in SUBSET (Persons \cup Locations \cup Users \cup Regions \cup Districts) :
        Cardinality(W) <= MaxWrites}

(* A batch that writes the records W, its people and Locations among those *)
(* given. Regions and Districts are retired, never deleted.                *)
CommitOf(W, persons, places) ==
    \E gone \in SUBSET (W \cap (Persons \cup Locations \cup Users)) :
    \E ps \in [(W \cap Persons) \ gone -> persons],
       ls \in [(W \cap Locations) \ gone -> places],
       us \in [(W \cap Users) \ gone -> Persons \cup {None, Omitted}],
       rs \in [W \cap Regions -> Region],
       ds \in [W \cap Districts -> District] :
        /\ people'    = Saved(people, ps, gone)
        /\ locations' = Saved(locations, ls, gone)
        /\ users'     = Saved(users, Linked(us), gone)
        /\ regions'   = Saved(regions, rs, {})
        /\ districts' = Saved(districts, Kept(ds), {})
        /\ Checked(W, us)

Commit(W) == CommitOf(W, Person, Location)

Next == \E W \in Batches : Commit(W)
Spec == Init /\ [][Next]_vars

-----------------------------------------------------------------------------
TypeOK ==
    /\ people    \in Partial(Persons, Person)
    /\ locations \in Partial(Locations, Location)
    /\ users     \in Partial(Users, Persons \cup {None})
    /\ regions   \in Partial(Regions, Region)
    /\ districts \in Partial(Districts, District)

Qualified(p, f) == p \in DOMAIN people /\ people[p].active /\ f \in people[p].positions

(* Whoever leads a Location or a District exists, is active and holds the  *)
(* position, though a batch is checked only for the assignments it makes   *)
(* and the people it writes, and though the copies of a District's manager *)
(* are passed over (personPositionValidation, validateCombinedRelationship- *)
(* State).                                                                  *)
LeadersQualified ==
    /\ \A l \in DOMAIN locations, f \in Fields :
        locations[l].leader[f] # None => Qualified(locations[l].leader[f], f)
    /\ \A d \in DOMAIN districts :
        districts[d].manager \in Persons => Qualified(districts[d].manager, DistrictManager)

(* Every retail Location of a District that owns its manager shows that    *)
(* manager, through handovers, moves, changes of type and vacancies         *)
(* (validateDistrictLeadershipState).                                       *)
OneDistrictManager ==
    \A l \in DOMAIN locations, d \in DOMAIN districts :
        /\ locations[l].type \in Retail /\ locations[l].district = d
        /\ districts[d].manager # Unowned
        => locations[l].leader[DistrictManager] = districts[d].manager

(* Nothing refers to a Region or District that is missing or retired, and  *)
(* a Location's District lies in its Region (validateRegistryRetirement,    *)
(* validateFinalHierarchyState).                                            *)
HierarchyCoherent ==
    /\ \A l \in DOMAIN locations :
        LET r == locations[l].region
            d == locations[l].district
        IN  /\ r # None => r \in DOMAIN regions /\ regions[r].active
            /\ d # None => d \in DOMAIN districts /\ districts[d].active
            /\ r # None /\ d # None => districts[d].region = r
    /\ \A d \in DOMAIN districts : districts[d].active =>
        districts[d].region \in DOMAIN regions /\ regions[districts[d].region].active

(* People work at and support only Locations that exist and are not         *)
(* retired (validateEmploymentRelationshipState).                           *)
WorkplacesOpen ==
    \A p \in DOMAIN people, l \in Locations :
        people[p].worksAt = l \/ l \in people[p].supports =>
            l \in DOMAIN locations /\ ~locations[l].retired

(* A user is linked only to a person who exists and is active, whichever   *)
(* of the two records is written (validateCombinedRelationshipState).       *)
LinksLive ==
    \A u \in DOMAIN users : users[u] # None => users[u] \in DOMAIN people /\ people[users[u]].active
=============================================================================
