---------------------------- MODULE CommitChecks ----------------------------
(***************************************************************************)
(* What a commit checks before it saves a batch: the records there are,    *)
(* beside those there would be (validateMetadataWrites and the checks it   *)
(* calls). They are parameters, so that DirectoryIntegrity can ask it of a *)
(* step and DirectoryScreens of a batch that nobody has sent. W is the set *)
(* of records the batch writes.                                            *)
(***************************************************************************)
CONSTANTS
    Persons, Locations, Fields, DistrictManager, Retail, None, Unowned, Omitted,
    people, locations, users, regions, districts,         \* as they are
    newPeople, newLocations, newRegions, newDistricts     \* as they would be

Active(p) == p \in DOMAIN newPeople /\ newPeople[p].active

Changed(l, f) == l \notin DOMAIN locations \/ locations[l].leader[f] # newLocations[l].leader[f]

Owned(d) == d \in DOMAIN newDistricts /\ newDistricts[d].manager # Unowned

FaultyInheritedBy(l, d) ==    \* looks at the type from before the write
    l \in DOMAIN locations /\ locations[l].type \in Retail /\ newLocations[l].district = d
InheritedBy(l, d) == newLocations[l].type \in Retail /\ newLocations[l].district = d

Inherits(l) == newLocations[l].type \in Retail /\ Owned(newLocations[l].district)

(* The parent is looked up when it is new, and when the District returns   *)
(* from retirement.                                                        *)
FaultyParentValid(d) ==    \* not when it returns from retirement
    \/ d \in DOMAIN districts /\ districts[d].region = newDistricts[d].region
    \/ /\ newDistricts[d].region \in DOMAIN newRegions
       /\ newDistricts[d].active => newRegions[newDistricts[d].region].active
ParentValid(d) ==
    \/ /\ d \in DOMAIN districts /\ districts[d].region = newDistricts[d].region
       /\ districts[d].active \/ ~newDistricts[d].active
    \/ /\ newDistricts[d].region \in DOMAIN newRegions
       /\ newDistricts[d].active => newRegions[newDistricts[d].region].active

RegistryReferencesValid(l) ==
    LET region == newLocations[l].region
        district == newLocations[l].district
    IN /\ region # None \/ district # None => DOMAIN newRegions # {} /\ DOMAIN newDistricts # {}
       /\ region # None => region \in DOMAIN newRegions /\ newRegions[region].active
       /\ district # None => district \in DOMAIN newDistricts /\ newDistricts[district].active
       /\ region # None /\ district # None => newDistricts[district].region = region

HierarchyTouched(l) ==
    \/ l \notin DOMAIN locations
    \/ newLocations[l].type # locations[l].type
    \/ newLocations[l].region # locations[l].region
    \/ newLocations[l].district # locations[l].district

LeadersValid(l) ==
    \A f \in Fields : newLocations[l].leader[f] # None /\ Changed(l, f) => Active(newLocations[l].leader[f])

WritesValid(W) ==
    /\ \A d \in W \cap DOMAIN newDistricts : ParentValid(d)
    /\ \A l \in W \cap DOMAIN newLocations :
        /\ HierarchyTouched(l) => RegistryReferencesValid(l)
        /\ LeadersValid(l)

\* us: the links as the batch gives them, before an omitted one is filled in
LinksValid(us) == \A u \in DOMAIN us : us[u] \in Persons => Active(us[u])

Remapped(W) ==
    {p \in W \cap DOMAIN newPeople : p \notin DOMAIN people \/ people[p].positions # newPeople[p].positions}

Holds(p, f) == p \in DOMAIN newPeople => newPeople[p].active /\ f \in newPeople[p].positions

PositionsValid(W) ==
    /\ \A l \in DOMAIN newLocations, f \in Fields :
        LET p == newLocations[l].leader[f]
        IN  /\ p # None
            /\ (l \in W /\ Changed(l, f)) \/ p \in Remapped(W)
            /\ f # DistrictManager \/ ~Inherits(l)
            => Holds(p, f)
    /\ \A d \in DOMAIN newDistricts :
        LET p == newDistricts[d].manager
        IN  /\ p \in Persons
            /\ \/ d \in W /\ (d \notin DOMAIN districts \/ districts[d].manager # p)
               \/ p \in Remapped(W)
            => Holds(p, DistrictManager)

HandedOver(W) ==
    {d \in W \cap DOMAIN newDistricts :
        /\ newDistricts[d].manager # Unowned
        /\ d \notin DOMAIN districts \/ districts[d].manager # newDistricts[d].manager}

\* A handover changes the manager, the copies of every member, and nothing else.
HandoverValid(W, d) ==
    LET members == {l \in DOMAIN locations : locations[l].type \in Retail /\ locations[l].district = d}
        region == newDistricts[d].region
    IN /\ d \in DOMAIN districts /\ newDistricts[d].active /\ districts[d].active
       /\ districts[d].region = region
       /\ region \in DOMAIN newRegions /\ newRegions[region].active
       /\ newDistricts[d].manager \in Persons => Active(newDistricts[d].manager)
       /\ W = members \cup {d}
       /\ \A l \in members :
            /\ l \in DOMAIN newLocations /\ locations[l].region = region
            /\ newLocations[l] = [type |-> locations[l].type, retired |-> locations[l].retired,
                    region |-> region, district |-> d,
                    leader |-> [locations[l].leader EXCEPT
                        ![DistrictManager] = newLocations[l].leader[DistrictManager]]]

DistrictLeadershipValid(W) ==
    /\ \A d \in W \cap DOMAIN newDistricts : ~newDistricts[d].active => newDistricts[d].manager \notin Persons
    /\ \A d \in HandedOver(W) : HandoverValid(W, d)
    /\ \A d \in DOMAIN newDistricts : newDistricts[d].manager # Unowned =>
        /\ newDistricts[d].manager \in W => Active(newDistricts[d].manager)
        /\ \A l \in DOMAIN newLocations :
            InheritedBy(l, d) /\ (l \in W \/ d \in HandedOver(W)) =>
                /\ newLocations[l].leader[DistrictManager] = newDistricts[d].manager
                /\ newDistricts[d].manager # None => newDistricts[d].manager \in DOMAIN newPeople

FaultyUnlinked(u, us) == u \in DOMAIN us /\ us[u] \in {None, Omitted}    \* omission clears
Unlinked(u, us) == u \in DOMAIN us /\ us[u] = None

CombinedValid(W, us) ==
    /\ \A l \in DOMAIN newLocations, f \in Fields :
        newLocations[l].leader[f] \in W \cap Persons /\ (f # DistrictManager \/ ~Inherits(l))
            => Active(newLocations[l].leader[f])
    /\ \A p \in W \cap Persons : ~Active(p) =>
        \A u \in DOMAIN users : users[u] = p => Unlinked(u, us)

FaultyLeaving(l) ==    \* deletion is forgotten
    l \in DOMAIN newLocations /\ newLocations[l].retired /\ (l \in DOMAIN locations => ~locations[l].retired)
Leaving(l) ==
    l \in DOMAIN newLocations => newLocations[l].retired /\ (l \in DOMAIN locations => ~locations[l].retired)

EmploymentValid(W) ==
    LET Open(l) == l \in DOMAIN newLocations /\ ~newLocations[l].retired
        Moved(p) == p \notin DOMAIN people \/ people[p].worksAt # newPeople[p].worksAt
        Resupported(p) == p \notin DOMAIN people \/ people[p].supports # newPeople[p].supports
    IN /\ \A p \in W \cap DOMAIN newPeople :
            /\ Moved(p) \/ Resupported(p) => newPeople[p].worksAt \notin newPeople[p].supports
            /\ Moved(p) /\ newPeople[p].worksAt # None => Open(newPeople[p].worksAt)
            /\ Resupported(p) => \A l \in newPeople[p].supports : Open(l)
       /\ \A l \in W \cap Locations :
            Leaving(l) => \A p \in DOMAIN newPeople : newPeople[p].worksAt # l /\ l \notin newPeople[p].supports

RetirementValid(W) ==
    /\ \A r \in W \cap DOMAIN newRegions :
        ~newRegions[r].active /\ (r \in DOMAIN regions => regions[r].active) =>
            /\ \A l \in DOMAIN newLocations : newLocations[l].region # r
            /\ \A d \in DOMAIN newDistricts : newDistricts[d].region = r => ~newDistricts[d].active
    /\ \A d \in W \cap DOMAIN newDistricts :
        ~newDistricts[d].active /\ (d \in DOMAIN districts => districts[d].active) =>
            \A l \in DOMAIN newLocations : newLocations[l].district # d

HierarchyValid(W) ==
    \A l \in DOMAIN newLocations :
        LET r == newLocations[l].region
            d == newLocations[l].district
        IN  \/ l \in W /\ HierarchyTouched(l)
            \/ r \in W /\ (r \in DOMAIN regions => regions[r] # newRegions[r])
            \/ d \in W /\ (d \in DOMAIN districts =>
                    \/ districts[d].active # newDistricts[d].active
                    \/ districts[d].region # newDistricts[d].region)
            => RegistryReferencesValid(l)

Checked(W, us) ==
    /\ WritesValid(W) /\ LinksValid(us) /\ PositionsValid(W)
    /\ DistrictLeadershipValid(W) /\ CombinedValid(W, us)
    /\ EmploymentValid(W) /\ RetirementValid(W) /\ HierarchyValid(W)
=============================================================================
