--------------------------- MODULE DirectoryProofs ---------------------------
(***************************************************************************)
(* What stays true of the Directory for every set of records and batches   *)
(* of every size.                                                          *)
(*                                                                         *)
(* The checks of a commit, narrow as they are, keep the relations from one *)
(* batch to the next: Integrity is inductive. A reviewed person change is  *)
(* written past those checks, and the blockers of its plan keep the        *)
(* relations in their place. A plan of rosters keeps what is stored of     *)
(* each unit in agreement, in the unit and in its stores. What the readers *)
(* make of the records then follows from the relations alone, and so does  *)
(* that the screens foresee what the commit will say.                      *)
(***************************************************************************)
EXTENDS MCDirectoryIntegrity, TLAPS

(* Batches.                                                                *)
Integrity ==
    /\ TypeOK /\ LeadersQualified /\ OneDistrictManager
    /\ HierarchyCoherent /\ WorkplacesOpen /\ LinksLive

(* What a batch does not write stays as it was.                            *)
Unwritten(D, W, old, new) ==
    \A x \in D \ W :
        /\ x \in DOMAIN new <=> x \in DOMAIN old
        /\ x \in DOMAIN old => new[x] = old[x]

Frame(W) ==
    /\ Unwritten(Persons, W, people, people')
    /\ Unwritten(Locations, W, locations, locations')
    /\ Unwritten(Regions, W, regions, regions')
    /\ Unwritten(Districts, W, districts, districts')

(* A user record after the batch: unwritten, given a link, or left one.    *)
LinkFrame(us) ==
    \A u \in DOMAIN users' :
        \/ u \in DOMAIN users /\ u \notin DOMAIN us /\ users'[u] = users[u]
        \/ u \in DOMAIN us /\ us[u] \in Persons \cup {None} /\ users'[u] = us[u]
        \/ u \in DOMAIN us /\ us[u] = Omitted /\ u \in DOMAIN users /\ users'[u] = users[u]
        \/ users'[u] = None

(* Regions and Districts are never deleted, nor is a manager disowned.     *)
RegistryGrows ==
    /\ DOMAIN regions \subseteq DOMAIN regions'
    /\ \A d \in DOMAIN districts :
        d \in DOMAIN districts' /\ (districts[d].manager # Unowned => districts'[d].manager # Unowned)

-----------------------------------------------------------------------------
LEMMA SavedType ==
    ASSUME NEW D, NEW R, NEW old \in Partial(D, R), NEW T \in SUBSET D, NEW set \in [T -> R], NEW gone
    PROVE  Saved(old, set, gone) \in Partial(D, R)
<1> PICK S \in SUBSET D : old \in [S -> R] BY DEF Partial
<1> DEFINE E == (S \ gone) \cup T
<1>1. Saved(old, set, gone) \in [E -> R] BY DEF Saved
<1>2. E \in SUBSET D OBVIOUS
<1> QED BY <1>1, <1>2 DEF Partial

LEMMA SavedFrame ==
    ASSUME NEW D, NEW R, NEW W, NEW old, NEW T \in SUBSET W, NEW set \in [T -> R], NEW gone \in SUBSET W
    PROVE  Unwritten(D, W, old, Saved(old, set, gone))
BY DEF Saved, Unwritten

LEMMA LinkedType ==
    ASSUME TypeOK, NEW T, NEW us \in [T -> Persons \cup {None, Omitted}]
    PROVE  Linked(us) \in [T -> Persons \cup {None}]
<1> PICK S \in SUBSET Users : users \in [S -> Persons \cup {None}] BY DEF TypeOK, Partial
<1> QED BY NoneAssumption DEF Linked, Link

LEMMA KeptType ==
    ASSUME TypeOK, NEW T, NEW ds \in [T -> District]
    PROVE  /\ Kept(ds) \in [T -> District]
           /\ \A d \in T \cap DOMAIN districts :
                districts[d].manager # Unowned => Kept(ds)[d].manager # Unowned
<1> PICK S \in SUBSET Districts : districts \in [S -> District] BY DEF TypeOK, Partial
<1> QED BY DEF Kept, District

LEMMA CommitStep ==
    ASSUME TypeOK, NEW W \in Batches, Commit(W)
    PROVE  /\ TypeOK' /\ Frame(W) /\ RegistryGrows
           /\ \E us : LinkFrame(us) /\ Checked(W, us)
<1>1. PICK gone \in SUBSET (W \cap (Persons \cup Locations \cup Users)) :
      \E ps \in [(W \cap Persons) \ gone -> Person],
         ls \in [(W \cap Locations) \ gone -> Location],
         us \in [(W \cap Users) \ gone -> Persons \cup {None, Omitted}],
         rs \in [W \cap Regions -> Region],
         ds \in [W \cap Districts -> District] :
        /\ people'    = Saved(people, ps, gone)
        /\ locations' = Saved(locations, ls, gone)
        /\ users'     = Saved(users, Linked(us), gone)
        /\ regions'   = Saved(regions, rs, {})
        /\ districts' = Saved(districts, Kept(ds), {})
        /\ Checked(W, us)
    BY DEF Commit, CommitOf
<1>2. PICK ps \in [(W \cap Persons) \ gone -> Person],
           ls \in [(W \cap Locations) \ gone -> Location],
           us \in [(W \cap Users) \ gone -> Persons \cup {None, Omitted}],
           rs \in [W \cap Regions -> Region],
           ds \in [W \cap Districts -> District] :
        /\ people'    = Saved(people, ps, gone)
        /\ locations' = Saved(locations, ls, gone)
        /\ users'     = Saved(users, Linked(us), gone)
        /\ regions'   = Saved(regions, rs, {})
        /\ districts' = Saved(districts, Kept(ds), {})
        /\ Checked(W, us)
    BY <1>1
<1> DEFINE Tp == (W \cap Persons) \ gone
           Tl == (W \cap Locations) \ gone
           Tu == (W \cap Users) \ gone
           Tr == W \cap Regions
           Td == W \cap Districts
<1>3. ps \in [Tp -> Person] /\ ls \in [Tl -> Location] OBVIOUS
<1>4. Linked(us) \in [Tu -> Persons \cup {None}] BY LinkedType
<1>5. /\ Kept(ds) \in [Td -> District]
      /\ \A d \in Td \cap DOMAIN districts :
            districts[d].manager # Unowned => Kept(ds)[d].manager # Unowned
    BY KeptType
<1>6. TypeOK'
  <2>1. people' \in Partial(Persons, Person) BY <1>2, <1>3, SavedType DEF TypeOK
  <2>2. locations' \in Partial(Locations, Location) BY <1>2, <1>3, SavedType DEF TypeOK
  <2>3. users' \in Partial(Users, Persons \cup {None}) BY <1>2, <1>4, SavedType DEF TypeOK
  <2>4. regions' \in Partial(Regions, Region) BY <1>2, SavedType DEF TypeOK
  <2>5. districts' \in Partial(Districts, District) BY <1>2, <1>5, SavedType DEF TypeOK
  <2> QED BY <2>1, <2>2, <2>3, <2>4, <2>5 DEF TypeOK
<1>7. Frame(W)
  <2>1. Unwritten(Persons, W, people, people') BY <1>2, SavedFrame
  <2>2. Unwritten(Locations, W, locations, locations') BY <1>2, SavedFrame
  <2>3. Unwritten(Regions, W, regions, regions') BY <1>2, SavedFrame
  <2>4. Unwritten(Districts, W, districts, districts') BY <1>2, <1>5, SavedFrame
  <2> QED BY <2>1, <2>2, <2>3, <2>4 DEF Frame
<1>8. RegistryGrows BY <1>2, <1>5 DEF RegistryGrows, Saved
<1>9. LinkFrame(us)
  <2> SUFFICES ASSUME NEW u \in DOMAIN users'
      PROVE  \/ u \in DOMAIN users /\ u \notin DOMAIN us /\ users'[u] = users[u]
             \/ u \in DOMAIN us /\ us[u] \in Persons \cup {None} /\ users'[u] = us[u]
             \/ u \in DOMAIN us /\ us[u] = Omitted /\ u \in DOMAIN users /\ users'[u] = users[u]
             \/ users'[u] = None
      BY DEF LinkFrame
  <2>1. CASE u \in DOMAIN us
    <3>1. users'[u] = Link(u, us[u]) BY <1>2, <2>1 DEF Saved, Linked
    <3>2. us[u] \in Persons \cup {None, Omitted} BY <2>1
    <3> QED BY <2>1, <3>1, <3>2, NoneAssumption DEF Link
  <2>2. CASE u \notin DOMAIN us
    <3>1. DOMAIN Linked(us) = DOMAIN us BY DEF Linked
    <3> QED BY <1>2, <2>2, <3>1 DEF Saved
  <2> QED BY <2>1, <2>2
<1> QED BY <1>2, <1>6, <1>7, <1>8, <1>9

-----------------------------------------------------------------------------
LEMMA LinksStep ==
    ASSUME Integrity, TypeOK', NEW W, NEW us, Frame(W), LinkFrame(us), Checked(W, us)
    PROVE  LinksLive'
<1> SUFFICES ASSUME NEW u \in DOMAIN users', users'[u] # None PROVE Active(users'[u])
    BY DEF LinksLive, Active
<1> DEFINE p == users'[u]
<1>1. p \in Persons BY DEF TypeOK, Partial
<1>2. CASE u \in DOMAIN us /\ us[u] = p
    BY <1>1, <1>2 DEF Checked, LinksValid
<1>3. CASE u \in DOMAIN users /\ users[u] = p /\ (u \notin DOMAIN us \/ us[u] = Omitted)
  <2>1. p \in DOMAIN people /\ people[p].active BY <1>3 DEF Integrity, LinksLive
  <2>2. CASE p \in W
    <3>1. ~Unlinked(u, us) BY <1>3, NoneAssumption DEF Unlinked
    <3> QED BY <1>1, <1>3, <2>2, <3>1 DEF Checked, CombinedValid
  <2>3. CASE p \notin W
    BY <1>1, <2>1, <2>3 DEF Frame, Unwritten, Active
  <2> QED BY <2>2, <2>3
<1> QED BY <1>2, <1>3 DEF LinkFrame

LEMMA WorkplacesStep ==
    ASSUME Integrity, TypeOK', NEW W, NEW us, Frame(W), Checked(W, us)
    PROVE  WorkplacesOpen'
<1> SUFFICES ASSUME NEW p \in DOMAIN people', NEW l \in Locations,
                    people'[p].worksAt = l \/ l \in people'[p].supports
             PROVE  l \in DOMAIN locations' /\ ~locations'[l].retired
    BY DEF WorkplacesOpen
<1>1. p \in Persons /\ l # None BY NoneAssumption DEF TypeOK, Partial
<1>2. EmploymentValid(W) BY DEF Checked
<1>3. l \in W => ~Leaving(l) BY <1>2 DEF EmploymentValid
<1>4. ASSUME l \in DOMAIN locations, ~locations[l].retired
      PROVE  l \in DOMAIN locations' /\ ~locations'[l].retired
  <2>1. CASE l \in W BY <1>3, <1>4, <2>1 DEF Leaving
  <2>2. CASE l \notin W BY <1>4, <2>2 DEF Frame, Unwritten
  <2> QED BY <2>1, <2>2
<1>5. CASE p \notin W
  <2>1. p \in DOMAIN people /\ people'[p] = people[p] BY <1>1, <1>5 DEF Frame, Unwritten
  <2> QED BY <1>4, <2>1 DEF Integrity, WorkplacesOpen
<1>6. CASE p \in W
  <2>1. CASE people'[p].worksAt = l
    <3>1. CASE p \in DOMAIN people /\ people[p].worksAt = l
      BY <1>4, <3>1 DEF Integrity, WorkplacesOpen
    <3>2. CASE p \notin DOMAIN people \/ people[p].worksAt # l
      BY <1>1, <1>2, <1>6, <2>1, <3>2 DEF EmploymentValid
    <3> QED BY <3>1, <3>2
  <2>2. CASE l \in people'[p].supports
    <3>1. CASE p \in DOMAIN people /\ people[p].supports = people'[p].supports
      BY <1>4, <2>2, <3>1 DEF Integrity, WorkplacesOpen
    <3>2. CASE p \notin DOMAIN people \/ people[p].supports # people'[p].supports
      BY <1>1, <1>2, <1>6, <2>2, <3>2 DEF EmploymentValid
    <3> QED BY <3>1, <3>2
  <2> QED BY <2>1, <2>2
<1> QED BY <1>5, <1>6

(* The manager's copies.                                                    *)
LEMMA ManagerStep ==
    ASSUME Integrity, TypeOK', NEW W, NEW us, Frame(W), RegistryGrows, Checked(W, us)
    PROVE  OneDistrictManager'
<1> SUFFICES ASSUME NEW l \in DOMAIN locations', NEW d \in DOMAIN districts',
                    InheritedBy(l, d), districts'[d].manager # Unowned
             PROVE  locations'[l].leader[DistrictManager] = districts'[d].manager
    BY DEF OneDistrictManager, InheritedBy
<1>1. l \in Locations /\ d \in Districts BY DEF TypeOK, Partial
<1>2. CASE l \in W \/ d \in HandedOver(W)
    BY <1>2 DEF Checked, DistrictLeadershipValid
<1>3. CASE l \notin W /\ d \notin HandedOver(W)
  <2>1. l \in DOMAIN locations /\ locations'[l] = locations[l]
      BY <1>1, <1>3 DEF Frame, Unwritten
  <2>2. d \in DOMAIN districts /\ districts[d].manager = districts'[d].manager
    <3>1. CASE d \in W BY <1>3, <3>1 DEF HandedOver
    <3>2. CASE d \notin W BY <1>1, <3>2 DEF Frame, Unwritten
    <3> QED BY <3>1, <3>2
  <2> QED BY <2>1, <2>2 DEF Integrity, OneDistrictManager, InheritedBy
<1> QED BY <1>2, <1>3

LEMMA HierarchyStep ==
    ASSUME Integrity, TypeOK', NEW W, Frame(W), RegistryGrows,
           WritesValid(W), RetirementValid(W), HierarchyValid(W)
    PROVE  HierarchyCoherent'
<1>1. ASSUME NEW l \in DOMAIN locations'
      PROVE  LET r == locations'[l].region
                 d == locations'[l].district
             IN  /\ r # None => r \in DOMAIN regions' /\ regions'[r].active
                 /\ d # None => d \in DOMAIN districts' /\ districts'[d].active
                 /\ r # None /\ d # None => districts'[d].region = r
  <2> DEFINE r == locations'[l].region
             d == locations'[l].district
  <2>1. l \in Locations /\ r \in Regions \cup {None} /\ d \in Districts \cup {None}
      BY DEF TypeOK, Partial, Location
  <2>2. CASE RegistryReferencesValid(l) BY <2>2 DEF RegistryReferencesValid
  <2>3. CASE ~RegistryReferencesValid(l)
    <3>1. l \in DOMAIN locations /\ locations[l].region = r /\ locations[l].district = d
      <4>1. CASE l \in W BY <2>3, <4>1 DEF WritesValid, HierarchyTouched
      <4>2. CASE l \notin W BY <2>1, <4>2 DEF Frame, Unwritten
      <4> QED BY <4>1, <4>2
    <3>2. r # None => r \in DOMAIN regions' /\ regions'[r].active
      <4> SUFFICES ASSUME r # None PROVE r \in DOMAIN regions' /\ regions'[r].active OBVIOUS
      <4>1. r \in DOMAIN regions /\ regions[r].active
          BY <3>1 DEF Integrity, HierarchyCoherent
      <4>2. CASE r \notin W BY <2>1, <4>1, <4>2 DEF Frame, Unwritten
      <4>3. CASE r \in W
          BY <2>3, <4>1, <4>3 DEF HierarchyValid, RegistryGrows
      <4> QED BY <4>2, <4>3
    <3>3. d # None => /\ d \in DOMAIN districts' /\ districts'[d].active
                      /\ r # None => districts'[d].region = r
      <4> SUFFICES ASSUME d # None
                   PROVE  /\ d \in DOMAIN districts' /\ districts'[d].active
                          /\ r # None => districts'[d].region = r
          OBVIOUS
      <4>1. /\ d \in DOMAIN districts /\ districts[d].active
            /\ r # None => districts[d].region = r
          BY <3>1 DEF Integrity, HierarchyCoherent
      <4>2. CASE d \notin W BY <2>1, <4>1, <4>2 DEF Frame, Unwritten
      <4>3. CASE d \in W
        <5>1. d \in DOMAIN districts' BY <4>1 DEF RegistryGrows
        <5>2. districts[d].active = districts'[d].active /\ districts[d].region = districts'[d].region
            BY <2>3, <4>1, <4>3 DEF HierarchyValid
        <5> QED BY <4>1, <5>1, <5>2
      <4> QED BY <4>2, <4>3
    <3> QED BY <3>2, <3>3
  <2> QED BY <2>2, <2>3
<1>2. ASSUME NEW d \in DOMAIN districts', districts'[d].active
      PROVE  districts'[d].region \in DOMAIN regions' /\ regions'[districts'[d].region].active
  <2> DEFINE r == districts'[d].region
  <2>1. d \in Districts /\ r \in Regions BY DEF TypeOK, Partial, District
  <2>2. CASE d \in DOMAIN districts /\ districts[d].region = r /\ districts[d].active
    <3>1. r \in DOMAIN regions /\ regions[r].active
        BY <2>2 DEF Integrity, HierarchyCoherent
    <3>2. CASE r \notin W BY <2>1, <3>1, <3>2 DEF Frame, Unwritten
    <3>3. CASE r \in W
      <4>1. r \in DOMAIN regions' BY <3>1 DEF RegistryGrows
      <4> QED BY <1>2, <3>1, <3>3, <4>1 DEF RetirementValid
    <3> QED BY <3>2, <3>3
  <2>3. CASE ~(d \in DOMAIN districts /\ districts[d].region = r /\ districts[d].active)
    <3>1. d \in W BY <1>2, <2>1, <2>3 DEF Frame, Unwritten
    <3> QED BY <1>2, <2>3, <3>1 DEF WritesValid, ParentValid
  <2> QED BY <2>2, <2>3
<1> QED BY <1>1, <1>2 DEF HierarchyCoherent

Qualifies(p, f) == p \in DOMAIN people' /\ people'[p].active /\ f \in people'[p].positions

(* A person who was qualified still is, if a batch that writes the person   *)
(* keeps them active and, should it remap their positions, the position.   *)
LEMMA StillQualified ==
    ASSUME TypeOK, TypeOK', NEW W, Frame(W), NEW p \in Persons, NEW f, Qualified(p, f),
           p \in W => Active(p), p \in Remapped(W) => Holds(p, f)
    PROVE  Qualifies(p, f)
<1>1. CASE p \notin W BY <1>1 DEF Frame, Unwritten, Qualified, Qualifies
<1>2. CASE p \in Remapped(W) BY <1>2 DEF Remapped, Holds, Qualifies
<1>3. CASE p \in W /\ p \notin Remapped(W)
    BY <1>3 DEF Remapped, Active, Qualified, Qualifies
<1> QED BY <1>1, <1>2, <1>3

LEMMA LeadersStep ==
    ASSUME Integrity, TypeOK', OneDistrictManager', NEW W, NEW us, Frame(W), Checked(W, us)
    PROVE  LeadersQualified'
<1>0. PositionsValid(W) BY DEF Checked
<1>1. ASSUME NEW d \in DOMAIN districts', districts'[d].manager \in Persons
      PROVE  Qualifies(districts'[d].manager, DistrictManager)
  <2> DEFINE p == districts'[d].manager
  <2>1. d \in Districts /\ p \in Persons /\ p # Unowned
      BY <1>1, NoneAssumption DEF TypeOK, Partial
  <2>2. CASE d \in HandedOver(W)
    <3>1. Active(p) BY <1>1, <2>2 DEF Checked, DistrictLeadershipValid, HandoverValid
    <3>2. Holds(p, DistrictManager) BY <1>0, <1>1, <2>2 DEF PositionsValid, HandedOver
    <3> QED BY <3>1, <3>2 DEF Active, Holds, Qualifies
  <2>3. CASE d \notin HandedOver(W)
    <3>1. d \in DOMAIN districts /\ districts[d].manager = p
      <4>1. CASE d \in W BY <2>1, <2>3, <4>1 DEF HandedOver
      <4>2. CASE d \notin W BY <2>1, <4>2 DEF Frame, Unwritten
      <4> QED BY <4>1, <4>2
    <3>2. Qualified(p, DistrictManager) BY <2>1, <3>1 DEF Integrity, LeadersQualified
    <3>3. p \in W => Active(p) BY <2>1 DEF Checked, DistrictLeadershipValid
    <3>4. p \in Remapped(W) => Holds(p, DistrictManager) BY <1>0, <1>1 DEF PositionsValid
    <3> QED BY <2>1, <3>2, <3>3, <3>4, StillQualified DEF Integrity
  <2> QED BY <2>2, <2>3
<1>2. ASSUME NEW l \in DOMAIN locations', NEW f \in Fields, locations'[l].leader[f] # None
      PROVE  Qualifies(locations'[l].leader[f], f)
  <2> DEFINE p == locations'[l].leader[f]
  <2>1. l \in Locations /\ p \in Persons BY <1>2 DEF TypeOK, Partial, Location
  <2>2. CASE f = DistrictManager /\ Inherits(l)
    <3> DEFINE d == locations'[l].district
    <3>1. d \in DOMAIN districts' /\ districts'[d].manager = p
        BY <2>2 DEF Inherits, Owned, OneDistrictManager
    <3> QED BY <1>1, <2>1, <2>2, <3>1
  <2>3. CASE ~(f = DistrictManager /\ Inherits(l))
    <3>1. p \in Remapped(W) => Holds(p, f) BY <1>0, <1>2, <2>3 DEF PositionsValid
    <3>2. CASE l \in W /\ Changed(l, f)
      <4>1. Active(p) BY <1>2, <3>2 DEF Checked, WritesValid, LeadersValid
      <4>2. Holds(p, f) BY <1>0, <1>2, <2>3, <3>2 DEF PositionsValid
      <4> QED BY <4>1, <4>2 DEF Active, Holds, Qualifies
    <3>3. CASE ~(l \in W /\ Changed(l, f))
      <4>1. l \in DOMAIN locations /\ locations[l].leader[f] = p
        <5>1. CASE l \in W BY <3>3, <5>1 DEF Changed
        <5>2. CASE l \notin W BY <2>1, <5>2 DEF Frame, Unwritten
        <5> QED BY <5>1, <5>2
      <4>2. Qualified(p, f) BY <1>2, <4>1 DEF Integrity, LeadersQualified
      <4>3. p \in W => Active(p) BY <2>1, <2>3 DEF Checked, CombinedValid
      <4> QED BY <2>1, <3>1, <4>2, <4>3, StillQualified DEF Integrity
    <3> QED BY <3>2, <3>3
  <2> QED BY <2>2, <2>3
<1> QED BY <1>1, <1>2 DEF LeadersQualified, Qualified, Qualifies

-----------------------------------------------------------------------------
LEMMA IntegrityInit == Init => Integrity
<1> SUFFICES ASSUME Init PROVE Integrity OBVIOUS
<1>1. \A D, R : << >> \in Partial(D, R)
  <2> TAKE D, R
  <2>1. << >> \in [{} -> R] OBVIOUS
  <2> QED BY <2>1 DEF Partial
<1>2. TypeOK BY <1>1 DEF Init, TypeOK
<1>3. DOMAIN << >> = {} OBVIOUS
<1> QED
    BY <1>2, <1>3 DEF Init, Integrity, LeadersQualified, OneDistrictManager,
        HierarchyCoherent, WorkplacesOpen, LinksLive

LEMMA IntegrityNext == Integrity /\ [Next]_vars => Integrity'
<1> SUFFICES ASSUME Integrity, [Next]_vars PROVE Integrity' OBVIOUS
<1>1. CASE Next
  <2>1. PICK W \in Batches : Commit(W) BY <1>1 DEF Next
  <2>2. TypeOK' /\ Frame(W) /\ RegistryGrows BY <2>1, CommitStep DEF Integrity
  <2>3. PICK us : LinkFrame(us) /\ Checked(W, us) BY <2>1, CommitStep DEF Integrity
  <2>4. LinksLive' BY <2>2, <2>3, LinksStep
  <2>5. WorkplacesOpen' BY <2>2, <2>3, WorkplacesStep
  <2>6. OneDistrictManager' BY <2>2, <2>3, ManagerStep
  <2>7. HierarchyCoherent' BY <2>2, <2>3, HierarchyStep DEF Checked
  <2>8. LeadersQualified' BY <2>2, <2>3, <2>6, LeadersStep
  <2> QED BY <2>2, <2>4, <2>5, <2>6, <2>7, <2>8 DEF Integrity
<1>2. CASE UNCHANGED vars
    BY <1>2 DEF vars, Integrity, TypeOK, LeadersQualified, Qualified, OneDistrictManager,
        HierarchyCoherent, WorkplacesOpen, LinksLive
<1> QED BY <1>1, <1>2

LEMMA IntegrityHolds == Spec => []Integrity
BY IntegrityInit, IntegrityNext, PTL DEF Spec

(* Batches of any size leave every record well typed.                       *)
THEOREM TypeCorrect == Spec => []TypeOK
BY IntegrityHolds, PTL DEF Integrity

(* Checking only the assignments a batch makes and the people it writes is  *)
(* enough: every leader exists, is active and holds the position.           *)
THEOREM LeadersAreQualified == Spec => []LeadersQualified
BY IntegrityHolds, PTL DEF Integrity

(* No sequence of moves, changes of type, handovers and vacancies lets a    *)
(* retail Location of a managed District show another District Manager.     *)
THEOREM OneManagerPerDistrict == Spec => []OneDistrictManager
BY IntegrityHolds, PTL DEF Integrity

(* Nothing ever refers to a missing or retired Region or District.          *)
THEOREM HierarchyStaysCoherent == Spec => []HierarchyCoherent
BY IntegrityHolds, PTL DEF Integrity

(* No Location is retired or deleted from under the people working there.   *)
THEOREM WorkplacesStayOpen == Spec => []WorkplacesOpen
BY IntegrityHolds, PTL DEF Integrity

(* No person is inactivated or deleted from under an account.               *)
THEOREM LinksStayLive == Spec => []LinksLive
BY IntegrityHolds, PTL DEF Integrity
-----------------------------------------------------------------------------
(* Reviewed changes: what one leaves alone, and what it decides.           *)
Rest(p) ==
    /\ DOMAIN people' = DOMAIN people /\ p \in DOMAIN people
    /\ \A q \in DOMAIN people : q # p => people'[q] = people[q]
    /\ people'[p].active => people[p].active
    /\ Workplace(p) /\ (Inactivated(p) => \A u \in DOMAIN users : users[u] # p)
    /\ users' = users /\ regions' = regions
    /\ DOMAIN districts' = DOMAIN districts /\ DOMAIN locations' = DOMAIN locations
    /\ \A d \in DOMAIN districts :
          /\ districts'[d].active = districts[d].active /\ districts'[d].region = districts[d].region
    /\ \A l \in DOMAIN locations :
          /\ locations'[l].type = locations[l].type /\ locations'[l].retired = locations[l].retired
          /\ locations'[l].region = locations[l].region /\ locations'[l].district = locations[l].district

(* A slot before and after, and whom it may name.                          *)
Settled(p, before, after, f) ==
    /\ before = Unowned <=> after = Unowned
    /\ after \in Persons /\ (after # before \/ after = p) => Eligible(people', after, f)

Slots(p) ==
    /\ \A d \in DOMAIN districts : Settled(p, districts[d].manager, districts'[d].manager, DistrictManager)
    /\ \A l \in DOMAIN locations, f \in Fields :
          f # DistrictManager \/ ~InheritsNow(l) =>
             Settled(p, locations[l].leader[f], locations'[l].leader[f], f)
    /\ \A l \in DOMAIN locations : InheritsNow(l) =>
          LET d == locations[l].district IN
          locations'[l].leader[DistrictManager] =
             IF districts'[d].manager = districts[d].manager THEN locations[l].leader[DistrictManager]
             ELSE districts'[d].manager

(* A change is what it leaves alone and what it decides.                   *)
LEMMA TransitionParts ==
    ASSUME TypeOK, NEW p \in Persons, Transition(p)
    PROVE  TypeOK' /\ Rest(p) /\ Slots(p)
<1> USE FieldAssumption, NoneAssumption
<1>1. PICK is \in Person :
        /\ is.active => people[p].active
        /\ people' = [people EXCEPT ![p] = is]
  BY DEF Transition, TransitionOf
<1>2. PICK managers \in [DOMAIN districts -> Persons \cup {None, Unowned}],
           leaders \in [DOMAIN locations -> [Fields -> Persons \cup {None}]] :
        /\ \A d \in DOMAIN districts : managers[d] \in Choices(p, districts[d].manager)
        /\ \A l \in DOMAIN locations, f \in Fields :
             IF f = DistrictManager /\ InheritsNow(l) THEN leaders[l][f] = locations[l].leader[f]
             ELSE leaders[l][f] \in Choices(p, locations[l].leader[f])
        /\ \A d \in DOMAIN districts :
              Decided(people', p, districts[d].manager, managers[d], DistrictManager, Managed(d))
        /\ \A l \in DOMAIN locations, f \in Fields :
              f # DistrictManager \/ ~InheritsNow(l) =>
                 Decided(people', p, locations[l].leader[f], leaders[l][f], f, Resolved(l))
        /\ districts' = [d \in DOMAIN districts |-> [districts[d] EXCEPT !.manager = managers[d]]]
        /\ locations' = [l \in DOMAIN locations |-> [locations[l] EXCEPT !.leader =
              IF InheritsNow(l) THEN [leaders[l] EXCEPT ![DistrictManager] = Copied(l, managers)]
              ELSE leaders[l]]]
  BY DEF Transition, TransitionOf, Unblocked, Reassigned
<1>3. p \in DOMAIN people /\ Workplace(p) /\ UNCHANGED <<users, regions>>
      /\ (Inactivated(p) => \A u \in DOMAIN users : users[u] # p)
  BY DEF Transition, TransitionOf
<1>p. PICK P \in SUBSET Persons : people \in [P -> Person] BY DEF TypeOK, Partial
<1>l. PICK L \in SUBSET Locations : locations \in [L -> Location] BY DEF TypeOK, Partial
<1>d. PICK D \in SUBSET Districts : districts \in [D -> District] BY DEF TypeOK, Partial
<1>4. ASSUME NEW d \in D
      PROVE  /\ managers[d] = Unowned <=> districts[d].manager = Unowned
             /\ districts'[d].active = districts[d].active /\ districts'[d].region = districts[d].region
             /\ districts'[d].manager = managers[d] /\ districts'[d] \in District
  <2>1. districts[d] \in District /\ managers[d] \in Persons \cup {None, Unowned} BY <1>2, <1>d
  <2>2. districts'[d] = [districts[d] EXCEPT !.manager = managers[d]] BY <1>2, <1>d
  <2>3. managers[d] = Unowned <=> districts[d].manager = Unowned BY <1>2, <1>d, <2>1 DEF Choices
  <2> QED BY <2>1, <2>2, <2>3 DEF District
<1>5. ASSUME NEW l \in L, InheritsNow(l) PROVE Copied(l, managers) \in Persons \cup {None}
  <2> DEFINE d == locations[l].district
  <2>1. d \in D /\ districts[d].manager # Unowned BY <1>5, <1>d DEF InheritsNow
  <2>2. managers[d] \in Persons \cup {None} BY <2>1, <1>2, <1>4, <1>d
  <2>3. locations[l].leader[DistrictManager] \in Persons \cup {None} BY <1>l DEF Location
  <2> QED BY <2>2, <2>3 DEF Copied
<1>6. ASSUME NEW l \in L
      PROVE  /\ locations'[l].type = locations[l].type /\ locations'[l].retired = locations[l].retired
             /\ locations'[l].region = locations[l].region /\ locations'[l].district = locations[l].district
             /\ locations'[l] \in Location
             /\ ~InheritsNow(l) => locations'[l].leader = leaders[l]
             /\ InheritsNow(l) => locations'[l].leader = [leaders[l] EXCEPT ![DistrictManager] = Copied(l, managers)]
  <2> DEFINE next == IF InheritsNow(l) THEN [leaders[l] EXCEPT ![DistrictManager] = Copied(l, managers)]
                     ELSE leaders[l]
  <2>1. locations[l] \in Location /\ leaders[l] \in [Fields -> Persons \cup {None}] BY <1>2, <1>l
  <2>2. next \in [Fields -> Persons \cup {None}] BY <2>1, <1>5
  <2>3. locations'[l] = [locations[l] EXCEPT !.leader = next] BY <1>2, <1>l
  <2> HIDE DEF next
  <2>4. /\ locations'[l].type = locations[l].type /\ locations'[l].retired = locations[l].retired
        /\ locations'[l].region = locations[l].region /\ locations'[l].district = locations[l].district
        /\ locations'[l] \in Location /\ locations'[l].leader = next
    BY <2>1, <2>2, <2>3 DEF Location
  <2> QED BY <2>4 DEF next
<1>7. TypeOK'
  <2>1. people' \in [P -> Person] BY <1>1, <1>p
  <2>2. locations' \in [L -> Location] BY <1>2, <1>6, <1>l
  <2>3. districts' \in [D -> District] BY <1>2, <1>4, <1>d
  <2> QED BY <2>1, <2>2, <2>3, <1>3 DEF TypeOK, Partial
<1>8. Rest(p)
  <2>1. \A l \in DOMAIN locations :
          /\ locations'[l].type = locations[l].type /\ locations'[l].retired = locations[l].retired
          /\ locations'[l].region = locations[l].region /\ locations'[l].district = locations[l].district
    BY <1>6, <1>l
  <2>2. \A d \in DOMAIN districts :
          /\ districts'[d].active = districts[d].active /\ districts'[d].region = districts[d].region
    BY <1>4, <1>d
  <2>3. DOMAIN districts' = DOMAIN districts /\ DOMAIN locations' = DOMAIN locations BY <1>2
  <2>4. /\ DOMAIN people' = DOMAIN people
        /\ \A q \in DOMAIN people : q # p => people'[q] = people[q]
        /\ people'[p] = is
    BY <1>1, <1>3
  <2> QED BY <2>1, <2>2, <2>3, <2>4, <1>1, <1>3 DEF Rest
<1>9. Slots(p)
  <2>1. ASSUME NEW d \in DOMAIN districts
        PROVE  Settled(p, districts[d].manager, districts'[d].manager, DistrictManager)
    <3>1. districts'[d].manager = managers[d] BY <1>4, <1>d
    <3> QED BY <3>1, <1>2, <1>4, <1>d DEF Settled, Decided
  <2>2. ASSUME NEW l \in DOMAIN locations, NEW f \in Fields, f # DistrictManager \/ ~InheritsNow(l)
        PROVE  Settled(p, locations[l].leader[f], locations'[l].leader[f], f)
    <3>1. locations'[l].leader[f] = leaders[l][f]
      <4>1. l \in L /\ leaders[l] \in [Fields -> Persons \cup {None}] BY <1>2, <1>l
      <4>2. CASE ~InheritsNow(l) BY <4>1, <4>2, <1>6
      <4>3. CASE InheritsNow(l) /\ f # DistrictManager
        <5>1. locations'[l].leader = [leaders[l] EXCEPT ![DistrictManager] = Copied(l, managers)]
          BY <4>1, <4>3, <1>6
        <5> QED BY <4>1, <4>3, <5>1
      <4> QED BY <2>2, <4>2, <4>3
    <3>2. leaders[l][f] # Unowned /\ locations[l].leader[f] # Unowned BY <1>2, <1>l DEF Location
    <3>3. Decided(people', p, locations[l].leader[f], leaders[l][f], f, Resolved(l)) BY <2>2, <1>2
    <3> QED BY <3>1, <3>2, <3>3 DEF Settled, Decided
  <2>3. ASSUME NEW l \in DOMAIN locations, InheritsNow(l)
        PROVE  locations'[l].leader[DistrictManager] =
                 IF districts'[locations[l].district].manager = districts[locations[l].district].manager
                 THEN locations[l].leader[DistrictManager] ELSE districts'[locations[l].district].manager
    <3>1. locations'[l].leader[DistrictManager] = Copied(l, managers)
      <4>1. l \in L /\ leaders[l] \in [Fields -> Persons \cup {None}] BY <1>2, <1>l
      <4>2. locations'[l].leader = [leaders[l] EXCEPT ![DistrictManager] = Copied(l, managers)]
        BY <2>3, <4>1, <1>6
      <4> QED BY <4>1, <4>2
    <3>2. districts'[locations[l].district].manager = managers[locations[l].district]
      BY <2>3, <1>4, <1>d DEF InheritsNow
    <3> QED BY <3>1, <3>2 DEF Copied
  <2> QED BY <2>1, <2>2, <2>3 DEF Slots
<1> QED BY <1>7, <1>8, <1>9

(* The copies follow their District.                                       *)
LEMMA CopiesFollow ==
    ASSUME Integrity, TypeOK', NEW p, Rest(p), Slots(p)
    PROVE  OneDistrictManager'
<1> SUFFICES ASSUME NEW l \in DOMAIN locations', NEW d \in DOMAIN districts',
                    locations'[l].type \in Retail, locations'[l].district = d, districts'[d].manager # Unowned
             PROVE  locations'[l].leader[DistrictManager] = districts'[d].manager
  BY DEF OneDistrictManager
<1>1. l \in DOMAIN locations /\ d \in DOMAIN districts /\ locations[l].type \in Retail /\ locations[l].district = d
  BY DEF Rest
<1>2. districts[d].manager # Unowned BY <1>1 DEF Slots, Settled
<1>3. InheritsNow(l) BY <1>1, <1>2 DEF InheritsNow
<1>4. locations[l].leader[DistrictManager] = districts[d].manager
  BY <1>1, <1>2 DEF Integrity, OneDistrictManager
<1> QED BY <1>1, <1>3, <1>4 DEF Slots

(* Every slot of the person is decided, and nobody else loses a position.  *)
LEMMA LeadersKept ==
    ASSUME Integrity, TypeOK', NEW p \in Persons, Rest(p), Slots(p), OneDistrictManager'
    PROVE  LeadersQualified'
<1> USE FieldAssumption, NoneAssumption
<1>1. ASSUME NEW before, NEW after \in Persons, NEW f, Settled(p, before, after, f),
             before \in Persons => Qualified(before, f)
      PROVE  Qualified(after, f)'
  <2>1. CASE after # before \/ after = p BY <1>1, <2>1 DEF Settled, Eligible, Active, Qualified
  <2>2. CASE after = before /\ after # p BY <1>1, <2>2 DEF Qualified, Rest
  <2> QED BY <2>1, <2>2
<1>2. ASSUME NEW d \in DOMAIN districts', districts'[d].manager \in Persons
      PROVE  Qualified(districts[d].manager, DistrictManager)'
  <2>1. d \in DOMAIN districts /\ Settled(p, districts[d].manager, districts'[d].manager, DistrictManager)
    BY DEF Rest, Slots
  <2> QED BY <1>1, <1>2, <2>1 DEF Integrity, LeadersQualified
<1>3. ASSUME NEW l \in DOMAIN locations', NEW f \in Fields, locations'[l].leader[f] # None
      PROVE  Qualified(locations[l].leader[f], f)'
  <2>1. l \in DOMAIN locations BY DEF Rest
  <2>2. locations'[l].leader[f] \in Persons BY <1>3 DEF TypeOK, Partial, Location
  <2>3. locations[l].leader[f] \in Persons \cup {None} BY <2>1 DEF Integrity, TypeOK, Partial, Location
  <2>4. CASE f # DistrictManager \/ ~InheritsNow(l)
    <3>1. Settled(p, locations[l].leader[f], locations'[l].leader[f], f) BY <2>1, <2>4 DEF Slots
    <3> QED BY <1>1, <2>1, <2>2, <3>1 DEF Integrity, LeadersQualified
  <2>5. CASE f = DistrictManager /\ InheritsNow(l)
    <3> DEFINE d == locations[l].district
    <3>1. d \in DOMAIN districts' /\ locations'[l].type \in Retail /\ locations'[l].district = d
      BY <2>1, <2>5 DEF InheritsNow, Rest
    <3>2. districts'[d].manager # Unowned BY <2>5 DEF InheritsNow, Slots, Settled
    <3>3. locations'[l].leader[f] = districts'[d].manager BY <2>5, <3>1, <3>2 DEF OneDistrictManager
    <3> QED BY <1>2, <2>2, <2>5, <3>1, <3>3
  <2> QED BY <2>4, <2>5
<1> QED BY <1>2, <1>3 DEF LeadersQualified

LEMMA TransitionStep ==
    ASSUME Integrity, NEW p \in Persons, Transition(p)
    PROVE  Integrity'
<1>1. TypeOK' /\ Rest(p) /\ Slots(p) BY TransitionParts DEF Integrity
<1>2. OneDistrictManager' BY <1>1, CopiesFollow
<1>3. LeadersQualified' BY <1>1, <1>2, LeadersKept
<1>4. HierarchyCoherent' BY <1>1 DEF Integrity, HierarchyCoherent, Rest
<1>5. WorkplacesOpen'
  <2> SUFFICES ASSUME NEW q \in DOMAIN people', NEW l \in Locations,
                      people'[q].worksAt = l \/ l \in people'[q].supports
               PROVE  l \in DOMAIN locations' /\ ~locations'[l].retired
    BY DEF WorkplacesOpen
  <2>1. q \in DOMAIN people BY <1>1 DEF Rest
  <2>2. l \in DOMAIN locations /\ ~locations[l].retired => l \in DOMAIN locations' /\ ~locations'[l].retired
    BY <1>1 DEF Rest
  <2>3. CASE q # p BY <1>1, <2>1, <2>2, <2>3 DEF Rest, Integrity, WorkplacesOpen
  <2>4. CASE q = p
    <3>1. l # None BY NoneAssumption
    <3> QED BY <1>1, <2>1, <2>2, <2>4, <3>1 DEF Rest, Workplace, Integrity, WorkplacesOpen
  <2> QED BY <2>3, <2>4
<1>6. LinksLive' BY <1>1 DEF Integrity, LinksLive, Rest, Inactivated
<1> QED BY <1>1, <1>2, <1>3, <1>4, <1>5, <1>6 DEF Integrity

(* Batches and reviewed changes, in any order, for any sets of records.    *)
LEMMA ChangesHold == ChangeSpec => []Integrity
<1>1. Integrity /\ [ChangeNext]_vars => Integrity'
  <2> SUFFICES ASSUME Integrity, [ChangeNext]_vars PROVE Integrity' OBVIOUS
  <2>1. CASE [Next]_vars BY <2>1, IntegrityNext
  <2>2. CASE \E p \in Persons : Transition(p) BY <2>2, TransitionStep
  <2> QED BY <2>1, <2>2 DEF ChangeNext
<1> QED BY <1>1, IntegrityInit, PTL DEF ChangeSpec

(* A reviewed change leaves no leader unqualified, though only the slots   *)
(* of its person are decided and the copies in Locations are passed over.  *)
THEOREM ChangesKeepLeaders == ChangeSpec => []LeadersQualified
BY ChangesHold, PTL DEF Integrity

(* It hands a District over with every copy, retired Locations included.   *)
THEOREM ChangesKeepManagers == ChangeSpec => []OneDistrictManager
BY ChangesHold, PTL DEF Integrity

(* It moves nobody to a Location that is missing or retired.               *)
THEOREM ChangesKeepWorkplaces == ChangeSpec => []WorkplacesOpen
BY ChangesHold, PTL DEF Integrity

(* It inactivates nobody under an account.                                 *)
THEOREM ChangesKeepLinks == ChangeSpec => []LinksLive
BY ChangesHold, PTL DEF Integrity
-----------------------------------------------------------------------------
(* Rosters of leaders.                                                     *)
LEMMA RosterTypesStep == Rosters!TypeOK /\ [Rosters!Next]_(Rosters!vars) => Rosters!TypeOK'
<1> SUFFICES ASSUME Rosters!TypeOK, [Rosters!Next]_(Rosters!vars) PROVE Rosters!TypeOK'
  OBVIOUS
<1>1. CASE UNCHANGED Rosters!vars
  BY <1>1 DEF Rosters!TypeOK, Rosters!vars
<1>2. ASSUME NEW p \in Managers, Rosters!ChangePerson(p) PROVE Rosters!TypeOK'
  BY <1>2 DEF Rosters!TypeOK, Rosters!ChangePerson
<1>3. ASSUME NEW op \in Operations, Rosters!Plan(op) PROVE Rosters!TypeOK'
  <2>1. PICK U \in SUBSET Rosters!Units : \E roster \in [U -> Rosters!Roster] : Rosters!Write(U, roster, op)
    BY <1>3 DEF Rosters!Plan
  <2>2. PICK roster \in [U -> Rosters!Roster] : Rosters!Write(U, roster, op)
    BY <2>1
  <2>3. \A u \in U : roster[u].members \subseteq Managers /\ roster[u].primary \in Rosters!Occupant
    BY <2>2 DEF Rosters!Roster, Rosters!Rosters
  <2>4. tenures' \subseteq Rosters!Tenure
    <3>1. ASSUME NEW t \in tenures PROVE Rosters!Ended(t, U, roster) \in Rosters!Tenure
      BY <3>1 DEF Rosters!Ended, Rosters!TypeOK, Rosters!Tenure
    <3>2. Rosters!Begun(U, roster, op) \subseteq Rosters!Tenure
      BY DEF Rosters!Begun, Rosters!Tenure
    <3> QED
      BY <2>2, <3>1, <3>2 DEF Rosters!Write
  <2>5. units' \in [Rosters!Units -> Rosters!Unit]
    BY <2>2, <2>3 DEF Rosters!TypeOK, Rosters!Unit, Rosters!Write
  <2>6. ASSUME NEW s \in Stores, NEW type \in Rosters!UnitTypes PROVE Rosters!Copy(s, type, U, roster) \in Rosters!Occupant
    BY <2>3 DEF Rosters!Copy, Rosters!TypeOK, Rosters!Store
  <2>7. stores' \in [Stores -> Rosters!Store]
    BY <2>2, <2>6 DEF Rosters!TypeOK, Rosters!Store, Rosters!Write
  <2> QED
    BY <2>2, <2>4, <2>5, <2>7 DEF Rosters!TypeOK, Rosters!Write
<1> QED
  BY <1>1, <1>2, <1>3 DEF Rosters!Next

(* The types of the records, of which tenures may be any number.            *)
THEOREM RosterTypes == Rosters!Spec => []Rosters!TypeOK
<1>1. Rosters!Init => Rosters!TypeOK
  BY DEF Rosters!Init, Rosters!TypeOK
<1> QED
  BY <1>1, RosterTypesStep, PTL DEF Rosters!Spec

(* A store that may take copies takes each from one unit.                   *)
LEMMA OneUnitLeads ==
    ASSUME Rosters!NamesApart, NEW s \in Stores, Rosters!Placed(s), NEW u \in Rosters!Units, NEW v \in Rosters!Units,
           s \in Rosters!Relevant(u), s \in Rosters!Relevant(v), Rosters!TypeOf(u) = Rosters!TypeOf(v)
    PROVE  u = v
BY DEF Rosters!NamesApart, Rosters!Placed, Rosters!Relevant, Rosters!TypeOf, Rosters!Units

(* Who serves a unit after a plan: its roster if the plan is about it, and  *)
(* otherwise who served it before. Nobody comes to serve twice.             *)
LEMMA ServingAfter ==
    ASSUME Rosters!TypeOK, NEW op \in Operations, NEW U \in SUBSET Rosters!Units, NEW roster \in [U -> Rosters!Roster],
           Rosters!Write(U, roster, op), NEW u \in Rosters!Units
    PROVE  /\ u \notin U => Rosters!Serving(u)' = Rosters!Serving(u)
           /\ u \in U /\ Rosters!Agrees(u) =>
                 /\ Rosters!Members(u)' = roster[u].members
                 /\ \A s, t \in Rosters!Serving(u)' : s.person = t.person => s = t
<1> DEFINE begun(v, p) == [op |-> op, unit |-> v, person |-> p, active |-> TRUE]
<1>0. tenures' = {Rosters!Ended(t, U, roster) : t \in tenures} \cup Rosters!Begun(U, roster, op)
  BY DEF Rosters!Write
<1>1. ASSUME NEW t \in Rosters!Serving(u)'
      PROVE  \/ t \in Rosters!Serving(u) /\ (u \in U => t.person \in roster[u].members)
             \/ u \in U /\ t.person \in roster[u].members \ Rosters!Members(u) /\ t = begun(u, t.person)
  <2>1. t \in tenures' /\ t.unit = u /\ t.active
    BY <1>1 DEF Rosters!Serving
  <2>2. CASE t \in Rosters!Begun(U, roster, op)
    BY <2>1, <2>2 DEF Rosters!Begun
  <2>3. ASSUME NEW o \in tenures, t = Rosters!Ended(o, U, roster) PROVE t \in Rosters!Serving(u) /\ (u \in U => t.person \in roster[u].members)
    BY <2>1, <2>3 DEF Rosters!Ended, Rosters!Serving, Rosters!TypeOK, Rosters!Tenure
  <2> QED
    BY <1>0, <2>1, <2>2, <2>3
<1>2. ASSUME NEW t \in Rosters!Serving(u), u \in U => t.person \in roster[u].members PROVE t \in Rosters!Serving(u)'
  <2>1. t = Rosters!Ended(t, U, roster)
    BY <1>2 DEF Rosters!Ended, Rosters!Serving
  <2> QED
    BY <1>0, <1>2, <2>1 DEF Rosters!Serving
<1>3. ASSUME u \in U, NEW p \in roster[u].members \ Rosters!Members(u) PROVE begun(u, p) \in Rosters!Serving(u)'
  <2>1. p \in Managers
    BY <1>3 DEF Rosters!Roster, Rosters!Rosters
  <2>2. begun(u, p) \in Rosters!Begun(U, roster, op)
    BY <1>3, <2>1 DEF Rosters!Begun
  <2> QED
    BY <1>0, <1>3, <2>2 DEF Rosters!Serving
<1>4. u \notin U => Rosters!Serving(u)' = Rosters!Serving(u)
  BY <1>1, <1>2
<1>5. u \in U => Rosters!Members(u)' = roster[u].members
  <2> SUFFICES ASSUME u \in U PROVE Rosters!Members(u)' = roster[u].members
    OBVIOUS
  <2>1. ASSUME NEW p \in Rosters!Members(u)' PROVE p \in roster[u].members
    BY <1>1, <2>1 DEF Rosters!Members
  <2>2. ASSUME NEW p \in roster[u].members, p \in Rosters!Members(u) PROVE p \in Rosters!Members(u)'
    BY <1>2, <2>2 DEF Rosters!Members
  <2>3. ASSUME NEW p \in roster[u].members, p \notin Rosters!Members(u) PROVE p \in Rosters!Members(u)'
    <3>1. begun(u, p) \in Rosters!Serving(u)' /\ begun(u, p).person = p
      BY <1>3, <2>3
    <3> QED
      BY <3>1 DEF Rosters!Members
  <2> QED
    BY <2>1, <2>2, <2>3
<1>6. ASSUME u \in U, Rosters!Agrees(u), NEW s \in Rosters!Serving(u)', NEW t \in Rosters!Serving(u)', s.person = t.person PROVE s = t
  <2>1. s \in Rosters!Serving(u) => s.person \in Rosters!Members(u)
    BY DEF Rosters!Members
  <2>2. t \in Rosters!Serving(u) => t.person \in Rosters!Members(u)
    BY DEF Rosters!Members
  <2>3. s \in Rosters!Serving(u) \/ (s.person \notin Rosters!Members(u) /\ s = begun(u, s.person))
    BY <1>1, <1>6
  <2>4. t \in Rosters!Serving(u) \/ (t.person \notin Rosters!Members(u) /\ t = begun(u, t.person))
    BY <1>1, <1>6
  <2>5. s \in Rosters!Serving(u) /\ t \in Rosters!Serving(u) => s = t
    BY <1>6 DEF Rosters!Agrees
  <2> QED
    BY <1>6, <2>1, <2>2, <2>3, <2>4, <2>5
<1> QED
  BY <1>4, <1>5, <1>6

(* A plan keeps the copies of a unit, or writes them.                       *)
LEMMA CopiesAfter ==
    ASSUME Rosters!NamesApart, Rosters!TypeOK, Rosters!RosterCoherent, NEW op \in Operations, NEW U \in SUBSET Rosters!Units,
           NEW roster \in [U -> Rosters!Roster], Rosters!Write(U, roster, op),
           \A u \in U : Rosters!Allowed(u, roster[u], op),
           NEW v \in Rosters!Units, units'[v].managed, NEW s \in Rosters!Relevant(v)
    PROVE  Rosters!Placed(s) /\ stores'[s].copies[Rosters!TypeOf(v)] = units'[v].primary
<1> DEFINE over == {u \in U : Rosters!TypeOf(u) = Rosters!TypeOf(v) /\ Rosters!HandsOver(u, roster[u]) /\ s \in Rosters!Relevant(u)}
<1>1. s \in Stores /\ Rosters!TypeOf(v) \in Rosters!UnitTypes
  BY DEF Rosters!Relevant, Rosters!TypeOf, Rosters!UnitTypes
<1>2. stores'[s].copies[Rosters!TypeOf(v)] = Rosters!Copy(s, Rosters!TypeOf(v), U, roster)
  BY <1>1 DEF Rosters!Write, Rosters!TypeOK, Rosters!Store
<1>3. ASSUME NEW u \in over PROVE u = v /\ Rosters!Placed(s)
  <2>1. Rosters!Placed(s)
    BY DEF Rosters!Allowed
  <2> QED
    BY <1>1, <2>1, OneUnitLeads
<1>4. CASE v \in over
  <2>1. over = {v} /\ Rosters!Placed(s)
    BY <1>3, <1>4
  <2>2. Rosters!Copy(s, Rosters!TypeOf(v), U, roster) = roster[v].primary
    BY <2>1 DEF Rosters!Copy
  <2>3. units'[v].primary = roster[v].primary
    BY <1>4 DEF Rosters!Write, Rosters!TypeOK, Rosters!Unit
  <2> QED
    BY <1>2, <2>1, <2>2, <2>3
<1>5. CASE v \notin over
  <2>1. over = {}
    BY <1>3, <1>5
  <2>2. Rosters!Copy(s, Rosters!TypeOf(v), U, roster) = stores[s].copies[Rosters!TypeOf(v)]
    BY <2>1 DEF Rosters!Copy
  <2>3. units[v].managed /\ units'[v].primary = units[v].primary
    <3>1. CASE v \in U
      BY <1>5, <3>1 DEF Rosters!HandsOver, Rosters!Promotes, Rosters!Write, Rosters!TypeOK, Rosters!Unit
    <3>2. CASE v \notin U
      BY <3>2 DEF Rosters!Write
    <3> QED
      BY <3>1, <3>2
  <2> QED
    BY <1>2, <2>2, <2>3 DEF Rosters!RosterCoherent
<1> QED
  BY <1>4, <1>5

LEMMA RosterCoherentStep ==
    Rosters!TypeOK /\ Rosters!RosterCoherent /\ [Rosters!Next]_(Rosters!vars) => Rosters!RosterCoherent'
<1> USE RosterAssumption
<1> SUFFICES ASSUME Rosters!TypeOK, Rosters!RosterCoherent, [Rosters!Next]_(Rosters!vars) PROVE Rosters!RosterCoherent'
  OBVIOUS
<1>1. CASE UNCHANGED Rosters!vars
  BY <1>1 DEF Rosters!vars, Rosters!RosterCoherent, Rosters!Agrees, Rosters!Serving, Rosters!Members, Rosters!Relevant, Rosters!Placed
<1>2. ASSUME NEW p \in Managers, Rosters!ChangePerson(p) PROVE Rosters!RosterCoherent'
  BY <1>2 DEF Rosters!ChangePerson, Rosters!RosterCoherent, Rosters!Agrees, Rosters!Serving, Rosters!Members, Rosters!Relevant, Rosters!Placed
<1>3. ASSUME NEW op \in Operations, Rosters!Plan(op) PROVE Rosters!RosterCoherent'
  <2>0. PICK U \in SUBSET Rosters!Units : \E roster \in [U -> Rosters!Roster] :
          (\A u \in U : Rosters!Allowed(u, roster[u], op)) /\ Rosters!Write(U, roster, op)
    BY <1>3 DEF Rosters!Plan
  <2>1. PICK roster \in [U -> Rosters!Roster] :
          (\A u \in U : Rosters!Allowed(u, roster[u], op)) /\ Rosters!Write(U, roster, op)
    BY <2>0
  <2>2. ASSUME NEW u \in Rosters!Units PROVE Rosters!Agrees(u)'
    <3>1. CASE u \notin U
      <4>1. units'[u] = units[u] /\ Rosters!Serving(u)' = Rosters!Serving(u)
        BY <2>1, <3>1, ServingAfter DEF Rosters!Write
      <4>2. Rosters!Agrees(u)
        BY DEF Rosters!RosterCoherent
      <4> QED
        BY <4>1, <4>2 DEF Rosters!Agrees, Rosters!Members
    <3>2. CASE u \in U
      <4>1. Rosters!Agrees(u)
        BY <2>1, <3>2 DEF Rosters!Allowed
      <4>2. /\ Rosters!Members(u)' = roster[u].members
            /\ \A s, t \in Rosters!Serving(u)' : s.person = t.person => s = t
        BY <2>1, <3>2, <4>1, ServingAfter
      <4>3. units'[u].managed /\ units'[u].primary = roster[u].primary
        BY <2>1, <3>2 DEF Rosters!Write, Rosters!TypeOK, Rosters!Unit
      <4>4. IF roster[u].members = {} THEN roster[u].primary = None ELSE roster[u].primary \in roster[u].members
        BY <3>2 DEF Rosters!Roster
      <4>5. Rosters!Serving(u)' = {} <=> Rosters!Members(u)' = {}
        BY DEF Rosters!Members
      <4> QED
        BY <4>2, <4>3, <4>4, <4>5 DEF Rosters!Agrees
    <3> QED
      BY <3>1, <3>2
  <2>3. ASSUME NEW u \in Rosters!Units, units'[u].managed, NEW s \in Rosters!Relevant(u)'
        PROVE  Rosters!Placed(s)' /\ stores'[s].copies[Rosters!TypeOf(u)] = units'[u].primary
    <3>1. /\ \A r \in Stores : /\ stores'[r].kind = stores[r].kind /\ stores'[r].applicable = stores[r].applicable
                              /\ stores'[r].region = stores[r].region /\ stores'[r].district = stores[r].district
          /\ \A v \in Rosters!Units : units'[v].active = units[v].active /\ units'[v].parent = units[v].parent
      BY <2>1 DEF Rosters!Write, Rosters!TypeOK, Rosters!Store, Rosters!Unit
    <3>2. Rosters!Relevant(u)' = Rosters!Relevant(u) /\ (Rosters!Placed(s)' <=> Rosters!Placed(s))
      BY <2>3, <3>1 DEF Rosters!Relevant, Rosters!Placed, Rosters!Units
    <3> QED
      BY <2>1, <2>3, <3>2, CopiesAfter
  <2> QED
    BY <2>2, <2>3 DEF Rosters!RosterCoherent
<1> QED
  BY <1>1, <1>2, <1>3 DEF Rosters!Next

LEMMA RosterCoherentInit == Rosters!Init => Rosters!RosterCoherent
BY DEF Rosters!Init, Rosters!RosterCoherent, Rosters!Agrees, Rosters!Serving

(* Whatever plans were written, every managed unit can be planned again and *)
(* every store carries the primary of its District and its Region           *)
(* (planOrganizationLeadership).                                            *)
THEOREM RostersStayCoherent == Rosters!Spec => []Rosters!RosterCoherent
BY RosterCoherentInit, RosterCoherentStep, RosterTypes, PTL DEF Rosters!Spec

(* No plan takes a tenure back out of the history, or resumes one.          *)
THEOREM HistoryIsKept == Rosters!Spec => Rosters!HistoryKept
<1>1. [Rosters!Next]_(Rosters!vars) => [\A t \in tenures : ~t.active => t \in tenures']_(Rosters!vars)
  <2> SUFFICES ASSUME Rosters!Next, NEW t \in tenures, ~t.active PROVE t \in tenures'
    BY DEF Rosters!vars
  <2>1. ASSUME NEW op \in Operations, Rosters!Plan(op) PROVE t \in tenures'
    <3>1. PICK U \in SUBSET Rosters!Units : \E roster \in [U -> Rosters!Roster] : Rosters!Write(U, roster, op)
      BY <2>1 DEF Rosters!Plan
    <3>2. PICK roster \in [U -> Rosters!Roster] : Rosters!Write(U, roster, op)
      BY <3>1
    <3>3. t = Rosters!Ended(t, U, roster)
      BY DEF Rosters!Ended
    <3> QED
      BY <3>2, <3>3 DEF Rosters!Write
  <2> QED
    BY <2>1 DEF Rosters!Next, Rosters!ChangePerson
<1> QED
  BY <1>1, PTL DEF Rosters!Spec, Rosters!HistoryKept
-----------------------------------------------------------------------------
(* What the readers make of the relations.                                 *)

(* Where a Location is in the hierarchy there is a registry to look it up  *)
(* in, and nobody supports the Location they work at.                      *)
Registered ==
    \A l \in DOMAIN locations : locations[l].region # None \/ locations[l].district # None
        => DOMAIN regions # {} /\ DOMAIN districts # {}
NoOverlap == \A p \in DOMAIN people : people[p].worksAt \notin people[p].supports

Readable == Integrity /\ Registered /\ NoOverlap

LEMMA RegisteredStep ==
    ASSUME Integrity, TypeOK', Registered, NEW W, Frame(W), RegistryGrows, WritesValid(W)
    PROVE  Registered'
<1> SUFFICES ASSUME NEW l \in DOMAIN locations',
                    locations'[l].region # None \/ locations'[l].district # None
             PROVE  DOMAIN regions' # {} /\ DOMAIN districts' # {}
    BY DEF Registered
<1>1. l \in Locations BY DEF TypeOK, Partial
<1>2. CASE l \in W /\ HierarchyTouched(l)
    BY <1>2 DEF WritesValid, RegistryReferencesValid
<1>3. CASE ~(l \in W /\ HierarchyTouched(l))
  <2>1. /\ l \in DOMAIN locations
        /\ locations[l].region = locations'[l].region /\ locations[l].district = locations'[l].district
    BY <1>1, <1>3 DEF Frame, Unwritten, HierarchyTouched
  <2>2. DOMAIN regions # {} /\ DOMAIN districts # {} BY <2>1 DEF Registered
  <2> QED BY <2>2 DEF RegistryGrows
<1> QED BY <1>2, <1>3

LEMMA NoOverlapStep ==
    ASSUME TypeOK', NoOverlap, NEW W, Frame(W), EmploymentValid(W)
    PROVE  NoOverlap'
<1> SUFFICES ASSUME NEW p \in DOMAIN people' PROVE people'[p].worksAt \notin people'[p].supports
    BY DEF NoOverlap
<1>1. p \in Persons BY DEF TypeOK, Partial
<1>2. CASE p \in W BY <1>2 DEF EmploymentValid, NoOverlap
<1>3. CASE p \notin W BY <1>1, <1>3 DEF Frame, Unwritten, NoOverlap
<1> QED BY <1>2, <1>3

LEMMA ReadableHolds == ChangeSpec => []Readable
<1>1. Init => Readable
  <2>1. DOMAIN << >> = {} OBVIOUS
  <2> QED BY <2>1, IntegrityInit DEF Init, Readable, Registered, NoOverlap
<1>2. Readable /\ [ChangeNext]_vars => Readable'
  <2> SUFFICES ASSUME Readable, [ChangeNext]_vars PROVE Readable' OBVIOUS
  <2>1. CASE Next
    <3>1. Integrity' BY <2>1, IntegrityNext DEF Readable
    <3>2. PICK W \in Batches : Commit(W) BY <2>1 DEF Next
    <3>3. /\ TypeOK' /\ Frame(W) /\ RegistryGrows /\ \E us : Checked(W, us)
      BY <3>2, CommitStep DEF Readable, Integrity
    <3>4. Registered' /\ NoOverlap'
      BY <3>3, RegisteredStep, NoOverlapStep DEF Readable, Checked
    <3> QED BY <3>1, <3>4 DEF Readable
  <2>2. ASSUME NEW p \in Persons, Transition(p) PROVE Readable'
    <3>1. Integrity' BY <2>2, TransitionStep DEF Readable
    <3>2. Rest(p) BY <2>2, TransitionParts DEF Readable, Integrity
    <3>3. Registered' BY <3>2 DEF Rest, Readable, Registered
    <3>4. NoOverlap'
      <4> SUFFICES ASSUME NEW q \in DOMAIN people' PROVE people'[q].worksAt \notin people'[q].supports
          BY DEF NoOverlap
      <4>1. CASE q # p BY <3>2, <4>1 DEF Rest, Readable, NoOverlap
      <4>2. CASE q = p BY <3>2, <4>2 DEF Rest, Workplace, Readable, NoOverlap
      <4> QED BY <4>1, <4>2
    <3> QED BY <3>1, <3>3, <3>4 DEF Readable
  <2>3. CASE UNCHANGED vars
    <3>1. Integrity' BY <2>3, IntegrityNext DEF Readable
    <3>2. Registered' /\ NoOverlap' BY <2>3 DEF vars, Readable, Registered, NoOverlap
    <3> QED BY <3>1, <3>2 DEF Readable
  <2> QED BY <2>1, <2>2, <2>3 DEF ChangeNext
<1> QED BY <1>1, <1>2, PTL DEF ChangeSpec

(* A leader named by a Location or by a District is there and active.      *)
LEMMA LeadersFound ==
    ASSUME Integrity, NEW l \in DOMAIN locations, NEW f \in Fields
    PROVE  /\ locations[l].leader[f] \in Persons \cup {None}
           /\ ActivePerson(locations[l].leader[f]) = locations[l].leader[f]
           /\ ReferenceIssues(locations[l].leader[f]) = {}
<1> DEFINE p == locations[l].leader[f]
<1>1. p \in Persons \cup {None} BY DEF Integrity, TypeOK, Partial, Location
<1>2. p # None => p \in DOMAIN people /\ people[p].active
    BY DEF Integrity, LeadersQualified, Qualified
<1>3. None \notin DOMAIN people /\ None \notin Persons
    BY NoneAssumption DEF Integrity, TypeOK, Partial
<1> QED BY <1>1, <1>2, <1>3 DEF ActivePerson, ReferenceIssues, Issue

(* The manager that is resolved is the copy.                               *)
LEMMA ManagerResolved ==
    ASSUME Integrity, NEW l \in DOMAIN locations
    PROVE  ResolvedManager(l) = locations[l].leader[DistrictManager]
BY DEF Integrity, OneDistrictManager, ResolvedManager, InheritsNow

(* Where a Location lies.                                                  *)
LEMMA PlacesResolve ==
    ASSUME Integrity, NEW l \in DOMAIN locations
    PROVE  LET r == locations[l].region
               d == locations[l].district
           IN  /\ r \in DOMAIN regions \cup {None} /\ d \in DOMAIN districts \cup {None}
               /\ None \notin DOMAIN regions /\ None \notin DOMAIN districts
               /\ r # None => regions[r].active
               /\ d # None => districts[d].active /\ districts[d].region # None
               /\ r # None /\ d # None => districts[d].region = r
               /\ ~Missing(l) /\ ~Retired(l)
               /\ Mismatched(l) <=> r = None /\ d # None
<1> DEFINE r == locations[l].region
           d == locations[l].district
<1>1. DOMAIN regions \subseteq Regions /\ DOMAIN districts \subseteq Districts
    BY DEF Integrity, TypeOK, Partial
<1>2. \A e \in DOMAIN districts : districts[e].region \in Regions
    BY DEF Integrity, TypeOK, Partial, District
<1>3. /\ r # None => r \in DOMAIN regions /\ regions[r].active
      /\ d # None => d \in DOMAIN districts /\ districts[d].active
      /\ r # None /\ d # None => districts[d].region = r
    BY DEF Integrity, HierarchyCoherent
<1> QED BY <1>1, <1>2, <1>3, NoneAssumption DEF Missing, Retired, Mismatched

LEMMA LocationReads ==
    ASSUME Readable, NEW l \in DOMAIN locations
    PROVE  LocationRead(l)
<1> DEFINE r == locations[l].region
           d == locations[l].district
           reported == Issue("hierarchy_parent_mismatch", r = None /\ d # None)
<1>0. Integrity /\ DistrictManager \in Fields BY FieldAssumption DEF Readable
<1>1. \A f \in Fields :
        /\ locations[l].leader[f] \in Persons \cup {None}
        /\ ActivePerson(locations[l].leader[f]) = locations[l].leader[f]
        /\ ReferenceIssues(locations[l].leader[f]) = {}
    BY <1>0, LeadersFound
<1>2. ResolvedManager(l) = locations[l].leader[DistrictManager] BY <1>0, ManagerResolved
<1>3. /\ r \in DOMAIN regions \cup {None} /\ d \in DOMAIN districts \cup {None}
      /\ None \notin DOMAIN regions /\ None \notin DOMAIN districts
      /\ r # None => regions[r].active
      /\ d # None => districts[d].active /\ districts[d].region # None
      /\ r # None /\ d # None => districts[d].region = r
      /\ ~Missing(l) /\ ~Retired(l)
      /\ Mismatched(l) <=> r = None /\ d # None
    BY <1>0, PlacesResolve
<1>4. DOMAIN districts \subseteq Districts BY <1>0 DEF Integrity, TypeOK, Partial
<1>5. HierarchyIssues(l) = reported
    BY <1>3 DEF HierarchyIssues, Issue
<1>6. \A f \in Fields :
        ActivePerson(IF f = DistrictManager THEN ResolvedManager(l) ELSE locations[l].leader[f])
            = locations[l].leader[f]
    BY <1>1, <1>2
<1>7. ReadProjection(l) = Staffing(l).staff
  <2>1. locations[l].leader = [f \in Fields |-> locations[l].leader[f]]
    <3>1. locations[l] \in Location BY <1>0 DEF Integrity, TypeOK, Partial
    <3> QED BY <3>1 DEF Location
  <2>2. ReadProjection(l) = [f \in Fields |-> locations[l].leader[f]] BY <1>6 DEF ReadProjection
  <2> QED BY <2>1, <2>2 DEF Staffing
<1>8. Staffing(l).issues = reported
  <2>1. UNION {ReferenceIssues(locations[l].leader[f]) : f \in Fields} = {} BY <1>1
  <2> QED BY <1>5, <2>1 DEF Staffing
<1>9. ReadWarnings(l) = {}
  <2>1. UNION {ReferenceIssues(locations[l].leader[f]) : f \in Fields \ {DistrictManager}} = {} BY <1>1
  <2>2. ReferenceIssues(ResolvedManager(l)) = {} BY <1>0, <1>1, <1>2
  <2> QED BY <1>2, <2>1, <2>2 DEF ReadWarnings, Issue
<1>10. ExportedStaff(l) = ReadProjection(l) /\ MissingReferences(l) = {}
    BY <1>1, <1>6 DEF ExportedStaff, ReadProjection, MissingReferences
<1>11. reported = {} <=> ~(r = None /\ d # None) BY DEF Issue
<1>12. HierarchyStatus(l) = IF r = None /\ d = None THEN "unassigned"
                            ELSE IF r = None THEN "parent-mismatch" ELSE "resolved"
    BY <1>3 DEF HierarchyStatus
<1>13. Group(l) = IF d # None THEN d
                  ELSE IF locations[l].type \in Retail THEN "unassigned-retail"
                  ELSE IF r = None THEN "operational-centers" ELSE "needs-review"
    BY <1>5, <1>11 DEF Group, Applicable
<1>14. d \in DOMAIN districts <=> d # None BY <1>3
<1>15. Group(l) \in DOMAIN districts <=> d # None
    BY <1>4, <1>13, <1>14, HeadingAssumption
<1>16. d # None => d \notin {"unassigned-retail", "operational-centers", "needs-review"}
    BY <1>4, <1>14, HeadingAssumption
<1>17. ReviewStatus(l) = IF locations[l].type \notin Retail /\ r = None /\ d = None THEN "NonApplicable"
                         ELSE IF d = None THEN "Unassigned"
                         ELSE IF r = None THEN "ParentMismatch" ELSE "AlreadyValid"
    BY <1>3 DEF ReviewStatus, Applicable
<1>18. HierarchyStatus(l) \in {"unassigned", "resolved"} <=> reported = {} BY <1>11, <1>12
<1>19. ReviewStatus(l) = "AlreadyValid" <=> HierarchyStatus(l) = "resolved" /\ Group(l) \in DOMAIN districts
    BY <1>12, <1>15, <1>17
<1>20. ReviewStatus(l) = "ParentMismatch" <=> reported # {} BY <1>11, <1>17
<1>21. ReviewStatus(l) = "NonApplicable" <=> Group(l) = "operational-centers" BY <1>13, <1>16, <1>17
<1>22. Group(l) = "needs-review" => HierarchyStatus(l) = "resolved" /\ ReviewStatus(l) = "Unassigned"
    BY <1>12, <1>13, <1>16, <1>17
<1>23. /\ locations[l].type \in Retail /\ d \in DOMAIN districts
       /\ DistrictLeadership(d).state \in {"assigned", "vacant"}
       => DistrictLeadership(d).manager = Staffing(l).staff[DistrictManager]
  <2> SUFFICES ASSUME locations[l].type \in Retail, d \in DOMAIN districts,
                      DistrictLeadership(d).state \in {"assigned", "vacant"}
               PROVE  districts[d].manager = locations[l].leader[DistrictManager]
      BY DEF DistrictLeadership, Staffing
  <2>1. districts[d].manager # Unowned BY DEF DistrictLeadership
  <2> QED BY <1>0, <2>1 DEF Integrity, OneDistrictManager
<1> QED BY <1>7, <1>8, <1>9, <1>10, <1>18, <1>19, <1>20, <1>21, <1>22, <1>23 DEF LocationRead

(* The reconciliation report finds nothing.                                *)
LEMMA NothingReported == ASSUME Readable PROVE Report = {}
<1>0. Integrity BY DEF Readable
<1>1. ASSUME NEW l \in DOMAIN locations PROVE LocationIssues(l) = {}
  <2> DEFINE r == locations[l].region
             d == locations[l].district
  <2>1. UNION {ReferenceIssues(locations[l].leader[f]) : f \in Fields} = {} BY <1>0, LeadersFound
  <2>2. /\ r \in DOMAIN regions \cup {None} /\ d \in DOMAIN districts \cup {None}
        /\ None \notin DOMAIN regions /\ None \notin DOMAIN districts
        /\ r # None => regions[r].active
        /\ d # None => districts[d].active
        /\ r # None /\ d # None => districts[d].region = r
      BY <1>0, PlacesResolve
  <2>3. r # None \/ d # None => regions # << >> /\ districts # << >>
    <3>1. DOMAIN << >> = {} OBVIOUS
    <3> QED BY <3>1 DEF Readable, Registered
  <2>4. RegistryIssues(r, d) = {} BY <2>2, <2>3 DEF RegistryIssues, Issue
  <2> QED BY <2>1, <2>4 DEF LocationIssues
<1>2. ASSUME NEW u \in DOMAIN users, users[u] # None PROVE ActivePerson(users[u]) # None
  <2>1. users[u] \in DOMAIN people /\ people[users[u]].active
      BY <1>0, <1>2 DEF Integrity, LinksLive
  <2> QED BY <1>2, <2>1 DEF ActivePerson
<1> QED BY <1>1, <1>2 DEF Report, Issue

(* The screens, both APIs, the export, the lists and the reviews read the  *)
(* same out of the Directory whichever batches and changes made it, and    *)
(* find no reference that leads nowhere, but for a Location in a District  *)
(* and no Region.                                                          *)
THEOREM ReadersTellTheSame == ChangeSpec => []ReadersAgree
<1>1. Readable => ReadersAgree
  <2> SUFFICES ASSUME Readable PROVE ReadersAgree OBVIOUS
  <2>0. Integrity BY DEF Readable
  <2>1. ASSUME NEW d \in DOMAIN districts
        PROVE  DistrictLeadership(d).state # "unresolved" /\ DistrictLeadership(d).issues = {}
    <3> DEFINE p == districts[d].manager
    <3>1. p \in Persons \cup {None, Unowned} BY <2>0 DEF Integrity, TypeOK, Partial, District
    <3>2. p \in Persons => p \in DOMAIN people /\ people[p].active
        BY <2>0 DEF Integrity, LeadersQualified, Qualified
    <3>3. DOMAIN people \subseteq Persons BY <2>0 DEF Integrity, TypeOK, Partial
    <3> QED BY <3>1, <3>2, <3>3, NoneAssumption DEF DistrictLeadership, ReferenceIssues, Issue
  <2>2. ASSUME NEW p \in DOMAIN people
        PROVE  PersonIssues(p) = {} /\ Unavailable(p) \cap Workplaces(p) = {}
    <3>1. Workplaces(p) \subseteq Locations
      <4>1. people[p] \in Person BY <2>0 DEF Integrity, TypeOK, Partial
      <4> QED BY <4>1 DEF Person, Workplaces
    <3>2. \A l \in Workplaces(p) : l \in DOMAIN locations /\ ~locations[l].retired
        BY <2>0, <3>1 DEF Integrity, WorkplacesOpen, Workplaces
    <3>3. people[p].worksAt \notin people[p].supports BY DEF Readable, NoOverlap
    <3>4. PersonIssues(p) = {} BY <3>2, <3>3 DEF PersonIssues, Workplaces, Issue
    <3>5. Unavailable(p) \cap Workplaces(p) = {} BY <3>2 DEF Unavailable
    <3> QED BY <3>4, <3>5
  <2> QED BY <2>1, <2>2, LocationReads, NothingReported DEF ReadersAgree
<1> QED BY <1>1, ReadableHolds, PTL

(* Nor does any change leave a reference to a retired Region or District.  *)
THEOREM ChangesKeepHierarchy == ChangeSpec => []HierarchyCoherent
BY ChangesHold, PTL DEF Integrity
-----------------------------------------------------------------------------
(* The scopes explored together are scopes of the whole: every step in one *)
(* of them is a batch, a reviewed change, or a step of the rosters.        *)
LEMMA ScopedStep ==
    ASSUME NEW persons \in SUBSET Person, NEW places \in SUBSET Location
    PROVE  /\ \A W \in Batches : CommitOf(W, persons, places) => Next
           /\ \A p \in Persons : TransitionOf(p, persons) => Transition(p)
<1>1. ASSUME NEW W \in Batches, CommitOf(W, persons, places) PROVE Commit(W)
  <2>1. PICK gone \in SUBSET (W \cap (Persons \cup Locations \cup Users)) :
        \E ps \in [(W \cap Persons) \ gone -> persons],
           ls \in [(W \cap Locations) \ gone -> places],
           us \in [(W \cap Users) \ gone -> Persons \cup {None, Omitted}],
           rs \in [W \cap Regions -> Region],
           ds \in [W \cap Districts -> District] :
          /\ people'    = Saved(people, ps, gone)
          /\ locations' = Saved(locations, ls, gone)
          /\ users'     = Saved(users, Linked(us), gone)
          /\ regions'   = Saved(regions, rs, {})
          /\ districts' = Saved(districts, Kept(ds), {})
          /\ Checked(W, us)
    BY <1>1 DEF CommitOf
  <2>2. [(W \cap Persons) \ gone -> persons] \subseteq [(W \cap Persons) \ gone -> Person] OBVIOUS
  <2>3. [(W \cap Locations) \ gone -> places] \subseteq [(W \cap Locations) \ gone -> Location] OBVIOUS
  <2> QED BY <2>1, <2>2, <2>3 DEF Commit, CommitOf
<1>2. ASSUME NEW p \in Persons, TransitionOf(p, persons) PROVE Transition(p)
  <2>1. (\E is \in persons : (is.active => people[p].active) /\ people' = [people EXCEPT ![p] = is])
        => (\E is \in Person : (is.active => people[p].active) /\ people' = [people EXCEPT ![p] = is])
    OBVIOUS
  <2> QED BY <1>2, <2>1 DEF Transition, TransitionOf
<1> QED BY <1>1, <1>2 DEF Next

(* What the run about the Directory explores are behaviours of ChangeSpec. *)
THEOREM ScopesAreChanges == ScopedSpec => ChangeSpec
<1>1. ScopedInit => Init BY DEF ScopedInit
<1> DEFINE ScopedNext ==
        \/ scope = "records" /\ UNCHANGED <<scope, rosterVars>>
            /\ (CommitRelations \/ CommitHierarchy \/ ChangeRelations \/ ChangeHierarchy)
        \/ scope = "rosters" /\ Rosters!Next /\ UNCHANGED <<scope, vars>>
<1>2. [ScopedNext]_<<vars, scope, rosterVars>> => [ChangeNext]_vars
  <2> SUFFICES ASSUME CommitRelations \/ CommitHierarchy \/ ChangeRelations \/ ChangeHierarchy
               PROVE  ChangeNext
      BY DEF vars
  <2>1. /\ Unplaced \in SUBSET Location /\ Leaders \in SUBSET Person /\ Placed \in SUBSET Location
        /\ Person \in SUBSET Person
      BY DEF Unplaced, Leaders, Placed
  <2>2. CASE CommitRelations
    <3>1. PICK W \in SUBSET (Persons \cup Locations \cup Users) :
            Cardinality(W) <= MaxWrites /\ CommitOf(W, Person, Unplaced)
        BY <2>2 DEF CommitRelations
    <3>2. W \in Batches BY <3>1 DEF Batches
    <3> QED BY <2>1, <3>1, <3>2, ScopedStep DEF ChangeNext
  <2>3. CASE CommitHierarchy
    <3>1. PICK W \in SUBSET (Persons \cup Locations \cup Regions \cup Districts) :
            W \in Batches /\ CommitOf(W, Leaders, Placed)
        BY <2>3 DEF CommitHierarchy
    <3> QED BY <2>1, <3>1, ScopedStep DEF ChangeNext
  <2>4. CASE ChangeRelations
    BY <2>1, <2>4, ScopedStep DEF ChangeRelations, ChangeNext
  <2>5. CASE ChangeHierarchy
    BY <2>1, <2>5, ScopedStep DEF ChangeHierarchy, ChangeNext
  <2> QED BY <2>2, <2>3, <2>4, <2>5
<1> QED BY <1>1, <1>2, PTL DEF ScopedSpec, ChangeSpec

(* In that run the rosters stay coherent, from any rosters it starts with. *)
THEOREM ScopedRostersStayCoherent == ScopedSpec => []RosterCoherent
<1> DEFINE Sound == scope = "rosters" => Rosters!TypeOK /\ Rosters!RosterCoherent
           ScopedNext ==
        \/ scope = "records" /\ UNCHANGED <<scope, rosterVars>>
            /\ (CommitRelations \/ CommitHierarchy \/ ChangeRelations \/ ChangeHierarchy)
        \/ scope = "rosters" /\ Rosters!Next /\ UNCHANGED <<scope, vars>>
<1>1. ScopedInit => Sound
  <2>1. Rosters!Init => Rosters!TypeOK BY DEF Rosters!Init, Rosters!TypeOK
  <2> QED BY <2>1, RosterCoherentInit DEF ScopedInit, RostersInit
<1>2. Sound /\ [ScopedNext]_<<vars, scope, rosterVars>> => Sound'
  <2> SUFFICES ASSUME Sound, [ScopedNext]_<<vars, scope, rosterVars>>, scope' = "rosters" PROVE Sound'
      OBVIOUS
  <2>1. scope = "rosters" /\ [Rosters!Next]_(Rosters!vars) BY DEF rosterVars, Rosters!vars
  <2> QED BY <2>1, RosterTypesStep, RosterCoherentStep
<1>3. Sound => RosterCoherent BY DEF RosterCoherent
<1> QED BY <1>1, <1>2, <1>3, PTL DEF ScopedSpec

-----------------------------------------------------------------------------
(* What the screens find out beforehand.                                   *)

(* The records are of their kinds.                                         *)
LEMMA Records ==
    ASSUME Integrity
    PROVE  /\ DOMAIN people \subseteq Persons /\ DOMAIN locations \subseteq Locations
           /\ DOMAIN users \subseteq Users /\ DOMAIN regions \subseteq Regions
           /\ DOMAIN districts \subseteq Districts
           /\ \A p \in DOMAIN people : people[p] \in Person
           /\ \A l \in DOMAIN locations : locations[l] \in Location
           /\ \A u \in DOMAIN users : users[u] \in Persons \cup {None}
           /\ \A r \in DOMAIN regions : regions[r] \in Region
           /\ \A d \in DOMAIN districts : districts[d] \in District
           /\ people = [p \in DOMAIN people |-> people[p]]
           /\ locations = [l \in DOMAIN locations |-> locations[l]]
           /\ regions = [r \in DOMAIN regions |-> regions[r]]
           /\ districts = [d \in DOMAIN districts |-> districts[d]]
BY DEF Integrity, TypeOK, Partial

(* A batch that writes one record of a collection, and one that writes     *)
(* none of it.                                                             *)
LEMMA SavedNothing ==
    ASSUME NEW old, old = [x \in DOMAIN old |-> old[x]]
    PROVE  Saved(old, << >>, {}) = old
<1>1. DOMAIN << >> = {} OBVIOUS
<1>2. Saved(old, << >>, {}) = [x \in DOMAIN old |-> old[x]] BY <1>1 DEF Saved
<1> QED BY <1>2

LEMMA SavedOne ==
    ASSUME NEW old, NEW x, NEW v
    PROVE  /\ DOMAIN Saved(old, Only(x, v), {}) = DOMAIN old \cup {x}
           /\ Saved(old, Only(x, v), {})[x] = v
           /\ \A y \in DOMAIN old \ {x} : Saved(old, Only(x, v), {})[y] = old[y]
BY DEF Saved, Only

(* What a batch about a person may do: nobody else, and no record but      *)
(* copies that are as they were.                                           *)
Employed(P, p) ==
    LET Open(l) == l \in DOMAIN locations /\ ~locations[l].retired
        Moved == p \notin DOMAIN people \/ people[p].worksAt # P[p].worksAt
        Resupported == p \notin DOMAIN people \/ people[p].supports # P[p].supports
    IN  /\ Moved \/ Resupported => P[p].worksAt \notin P[p].supports
        /\ Moved /\ P[p].worksAt # None => Open(P[p].worksAt)
        /\ Resupported => \A l \in P[p].supports : Open(l)

PersonLawful(P, p) ==
    /\ ~(p \in DOMAIN P /\ P[p].active) => Responsibilities(p) = {} /\ Accounts(p) = {}
    /\ p \in DOMAIN P /\ (p \notin DOMAIN people \/ people[p].positions # P[p].positions) =>
        \A row \in Responsibilities(p) : P[p].active /\ row[2] \in P[p].positions
    /\ p \in DOMAIN P => Employed(P, p)

LEMMA ResponsibilitiesAre ==
    ASSUME Integrity, NEW p \in Persons
    PROVE  /\ Responsibilities(p) = {} <=>
              /\ \A d \in DOMAIN districts : districts[d].manager # p
              /\ \A l \in DOMAIN locations, f \in Fields :
                    locations[l].leader[f] = p => f = DistrictManager /\ InheritsNow(l)
           /\ \A Q \in SUBSET Fields : (\A row \in Responsibilities(p) : row[2] \in Q) <=>
              /\ \A d \in DOMAIN districts : districts[d].manager = p => DistrictManager \in Q
              /\ \A l \in DOMAIN locations, f \in Fields :
                    /\ locations[l].leader[f] = p
                    /\ f # DistrictManager \/ ~InheritsNow(l)
                    => f \in Q
<1> DEFINE Duty(l, f) == /\ locations[l].leader[f] = p
                         /\ f # DistrictManager \/ ~InheritsNow(l)
<1>1. ASSUME NEW row
      PROVE  row \in Responsibilities(p) <=>
                \/ \E d \in DOMAIN districts : districts[d].manager = p /\ row = <<d, DistrictManager>>
                \/ \E l \in DOMAIN locations, f \in Fields : Duty(l, f) /\ row = <<l, f>>
  BY DEF Responsibilities, OwnedDistricts
<1>2. ASSUME NEW d \in DOMAIN districts, districts[d].manager = p
      PROVE  <<d, DistrictManager>> \in Responsibilities(p)
  BY <1>1, <1>2
<1>3. ASSUME NEW l \in DOMAIN locations, NEW f \in Fields, Duty(l, f)
      PROVE  <<l, f>> \in Responsibilities(p)
  BY <1>1, <1>3
<1>4. Responsibilities(p) = {} <=>
              /\ \A d \in DOMAIN districts : districts[d].manager # p
              /\ \A l \in DOMAIN locations, f \in Fields : ~Duty(l, f)
  <2> HIDE DEF Duty
  <2> QED BY <1>1, <1>2, <1>3
<1>5. ASSUME NEW Q \in SUBSET Fields
      PROVE (\A row \in Responsibilities(p) : row[2] \in Q) <=>
              /\ \A d \in DOMAIN districts : districts[d].manager = p => DistrictManager \in Q
              /\ \A l \in DOMAIN locations, f \in Fields : Duty(l, f) => f \in Q
  <2>1. ASSUME NEW row \in Responsibilities(p),
               \A d \in DOMAIN districts : districts[d].manager = p => DistrictManager \in Q,
               \A l \in DOMAIN locations, f \in Fields : Duty(l, f) => f \in Q
        PROVE  row[2] \in Q
    <3> HIDE DEF Duty
    <3> QED BY <1>1, <2>1
  <2>2. ASSUME \A row \in Responsibilities(p) : row[2] \in Q, NEW d \in DOMAIN districts, districts[d].manager = p
        PROVE  DistrictManager \in Q
    BY <1>2, <2>2
  <2>3. ASSUME \A row \in Responsibilities(p) : row[2] \in Q,
               NEW l \in DOMAIN locations, NEW f \in Fields, Duty(l, f)
        PROVE  f \in Q
    BY <1>3, <2>3
  <2> HIDE DEF Duty
  <2> QED BY <2>1, <2>2, <2>3
<1> QED BY <1>4, <1>5

LEMMA PersonBatch ==
    ASSUME Readable, NEW p \in Persons, NEW P, NEW copies \in SUBSET DOMAIN locations,
           \A q : q # p => (q \in DOMAIN P <=> q \in DOMAIN people),
           \A q \in DOMAIN people \ {p} : P[q] = people[q],
           p \in DOMAIN P => P[p] \in Person
    PROVE  Proposed(P, locations, districts)!Checked({p} \cup copies, << >>) <=> PersonLawful(P, p)
<1> DEFINE W == {p} \cup copies
           Is == p \in DOMAIN P /\ P[p].active
           New == p \in DOMAIN P /\ (p \notin DOMAIN people \/ people[p].positions # P[p].positions)
<1>0. Integrity BY DEF Readable
<1>1. /\ p \notin Locations /\ p \notin Districts /\ p \notin Regions /\ p \notin Users
      /\ copies \subseteq Locations /\ p # None /\ p # Unowned
      /\ W \cap DOMAIN districts = {} /\ W \cap DOMAIN regions = {} /\ W \cap DOMAIN locations = copies
      /\ W \cap Persons = {p} /\ W \cap Locations = copies
      /\ \A r \in Regions \cup Districts \cup {None} : r \notin W \/ r = None
      /\ None \notin W
  BY <1>0, Records, RecordsApart, NoneAssumption
<1>2. \A l \in DOMAIN locations : Proposed(P, locations, districts)!Inherits(l) <=> InheritsNow(l)
  BY DEF Proposed!Inherits, Proposed!Owned, InheritsNow
<1>3. Proposed(P, locations, districts)!WritesValid(W)
  BY <1>1 DEF Proposed!WritesValid, Proposed!HierarchyTouched, Proposed!LeadersValid, Proposed!Changed
<1>4. Proposed(P, locations, districts)!LinksValid(<< >>)
  <2>1. DOMAIN << >> = {} OBVIOUS
  <2> QED BY <2>1 DEF Proposed!LinksValid
<1>5. Proposed(P, locations, districts)!HandedOver(W) = {}
  BY <1>1 DEF Proposed!HandedOver
<1>6. Proposed(P, locations, districts)!RetirementValid(W)
  BY <1>1 DEF Proposed!RetirementValid
<1>7. Proposed(P, locations, districts)!HierarchyValid(W)
  BY <1>0, <1>1, Records DEF Proposed!HierarchyValid, Proposed!HierarchyTouched, Location
<1>8. Proposed(P, locations, districts)!EmploymentValid(W) <=> (p \in DOMAIN P => Employed(P, p))
  <2>1. \A l \in W \cap Locations : ~Proposed(P, locations, districts)!Leaving(l)
    BY <1>1 DEF Proposed!Leaving
  <2>2. W \cap DOMAIN P = {p} \cap DOMAIN P
    <3>1. \A l \in copies : l \notin DOMAIN P BY <1>0, <1>1, Records, RecordsApart
    <3> QED BY <3>1
  <2> QED BY <2>1, <2>2 DEF Proposed!EmploymentValid, Employed
<1>9. Proposed(P, locations, districts)!PositionsValid(W) <=>
        (New => \A row \in Responsibilities(p) : P[p].active /\ row[2] \in P[p].positions)
  <2>1. Proposed(P, locations, districts)!Remapped(W) = IF New THEN {p} ELSE {}
    <3>1. \A q \in W : q \in DOMAIN P => q = p
      BY <1>0, <1>1, Records, RecordsApart
    <3> QED BY <3>1 DEF Proposed!Remapped
  <2>2. \A l \in copies, f \in Fields : ~Proposed(P, locations, districts)!Changed(l, f)
    BY DEF Proposed!Changed
  <2>3. p \in DOMAIN P => \A f : Proposed(P, locations, districts)!Holds(p, f) <=> P[p].active /\ f \in P[p].positions
    BY DEF Proposed!Holds
  <2>4. Proposed(P, locations, districts)!PositionsValid(W) <=>
        /\ \A l \in DOMAIN locations, f \in Fields :
              New /\ locations[l].leader[f] = p /\ (f # DistrictManager \/ ~InheritsNow(l))
                => P[p].active /\ f \in P[p].positions
        /\ \A d \in DOMAIN districts : New /\ districts[d].manager = p
                => P[p].active /\ DistrictManager \in P[p].positions
    <3>1. ASSUME NEW l \in DOMAIN locations, NEW f \in Fields
          PROVE  (l \in W /\ Proposed(P, locations, districts)!Changed(l, f)) <=> FALSE
      BY <1>1, <2>2
    <3>2. \A d \in DOMAIN districts : d \notin W BY <1>1
    <3>3. \A q : q \in Proposed(P, locations, districts)!Remapped(W) <=> New /\ q = p BY <2>1
    <3>4. New => p \in DOMAIN P OBVIOUS
    <3>5. p # None /\ p \in Persons BY <1>1
    <3> HIDE DEF W, New
    <3>6. \A l \in DOMAIN locations, f \in Fields :
            (LET q == locations[l].leader[f]
             IN  /\ q # None
                 /\ (l \in W /\ Proposed(P, locations, districts)!Changed(l, f))
                    \/ q \in Proposed(P, locations, districts)!Remapped(W)
                 /\ f # DistrictManager \/ ~Proposed(P, locations, districts)!Inherits(l)
                 => Proposed(P, locations, districts)!Holds(q, f))
            <=>
            (New /\ locations[l].leader[f] = p /\ (f # DistrictManager \/ ~InheritsNow(l))
                => P[p].active /\ f \in P[p].positions)
      BY <1>2, <2>3, <3>1, <3>3, <3>4, <3>5
    <3>7. \A d \in DOMAIN districts :
            (LET q == districts[d].manager
             IN  /\ q \in Persons
                 /\ \/ d \in W /\ (d \notin DOMAIN districts \/ districts[d].manager # q)
                    \/ q \in Proposed(P, locations, districts)!Remapped(W)
                 => Proposed(P, locations, districts)!Holds(q, DistrictManager))
            <=> (New /\ districts[d].manager = p => P[p].active /\ DistrictManager \in P[p].positions)
      BY <2>3, <3>2, <3>3, <3>4, <3>5
    <3> QED BY <3>6, <3>7 DEF Proposed!PositionsValid
  <2>5. CASE ~New BY <2>4, <2>5
  <2>6. CASE New /\ P[p].active
    <3>1. P[p].positions \in SUBSET Fields BY <2>6 DEF Person
    <3>2. (\A row \in Responsibilities(p) : row[2] \in P[p].positions) <=>
              /\ \A d \in DOMAIN districts : districts[d].manager = p => DistrictManager \in P[p].positions
              /\ \A l \in DOMAIN locations, f \in Fields :
                    /\ locations[l].leader[f] = p
                    /\ f # DistrictManager \/ ~InheritsNow(l)
                    => f \in P[p].positions
      BY <1>0, <3>1, ResponsibilitiesAre
    <3> HIDE DEF New, W
    <3> QED BY <2>4, <2>6, <3>2
  <2>7. CASE New /\ ~P[p].active
    <3>1. Responsibilities(p) = {} <=>
              /\ \A d \in DOMAIN districts : districts[d].manager # p
              /\ \A l \in DOMAIN locations, f \in Fields :
                    locations[l].leader[f] = p => f = DistrictManager /\ InheritsNow(l)
      BY <1>0, ResponsibilitiesAre
    <3> HIDE DEF New, W
    <3> QED BY <2>4, <2>7, <3>1
  <2> QED BY <2>5, <2>6, <2>7
<1>10. Proposed(P, locations, districts)!DistrictLeadershipValid(W) <=>
        (\A d \in DOMAIN districts : districts[d].manager = p => Is)
  <2>1. \A d \in DOMAIN districts : districts[d].manager # Unowned =>
            (districts[d].manager \in W <=> districts[d].manager = p)
    <3>1. \A d \in DOMAIN districts : districts[d].manager \in Persons \cup {None, Unowned}
      BY <1>0, Records DEF District
    <3>2. \A l \in copies : l \notin Persons \cup {None} BY <1>1, RecordsApart, NoneAssumption
    <3> QED BY <3>1, <3>2
  <2>2. ASSUME NEW d \in DOMAIN districts, NEW l \in DOMAIN locations, districts[d].manager # Unowned,
               Proposed(P, locations, districts)!InheritedBy(l, d), l \in W
        PROVE  /\ locations[l].leader[DistrictManager] = districts[d].manager
               /\ districts[d].manager # None => districts[d].manager \in DOMAIN people
    BY <1>0, <2>2, FieldAssumption
    DEF Proposed!InheritedBy, Integrity, OneDistrictManager, LeadersQualified, Qualified
  <2>3. \A d \in DOMAIN districts : districts[d].manager = p => p \in DOMAIN people
    BY <1>0 DEF Integrity, LeadersQualified, Qualified
  <2>4. ASSUME NEW d \in DOMAIN districts, NEW l \in DOMAIN locations, districts[d].manager # Unowned,
               Proposed(P, locations, districts)!InheritedBy(l, d), l \in W, districts[d].manager # None,
               districts[d].manager = p => Is
        PROVE  districts[d].manager \in DOMAIN P
    BY <2>2, <2>4
  <2>5. W \cap DOMAIN districts = {} BY <1>1
  <2> HIDE DEF W, Is
  <2>6. \A d \in DOMAIN districts : districts[d].manager # Unowned /\ districts[d].manager \in W =>
            (Proposed(P, locations, districts)!Active(districts[d].manager) <=> Is)
    BY <2>1 DEF Proposed!Active, Is
  <2>7. p # Unowned BY <1>1
  <2> QED BY <1>5, <2>1, <2>2, <2>4, <2>5, <2>6, <2>7 DEF Proposed!DistrictLeadershipValid
<1>11. Proposed(P, locations, districts)!CombinedValid(W, << >>) <=>
        /\ \A l \in DOMAIN locations, f \in Fields :
              locations[l].leader[f] = p /\ (f # DistrictManager \/ ~InheritsNow(l)) => Is
        /\ ~Is => Accounts(p) = {}
  <2>1. \A u \in DOMAIN users : ~Proposed(P, locations, districts)!Unlinked(u, << >>)
    <3>1. DOMAIN << >> = {} OBVIOUS
    <3> QED BY <3>1 DEF Proposed!Unlinked
  <2> HIDE DEF W
  <2> QED BY <1>1, <1>2, <2>1 DEF Proposed!CombinedValid, Proposed!Active, Accounts
<1> QED BY <1>0, <1>3, <1>4, <1>6, <1>7, <1>8, <1>9, <1>10, <1>11, ResponsibilitiesAre
        DEF Proposed!Checked, PersonLawful

(* What a batch about one Location may do.                                 *)
LocationLawful(l, place) ==
    /\ l \notin DOMAIN locations \/ place.type # locations[l].type
       \/ place.region # locations[l].region \/ place.district # locations[l].district
        => RegistryIssues(place.region, place.district) = {}
    /\ \A f \in Fields :
        /\ place.leader[f] # None
        /\ l \notin DOMAIN locations \/ locations[l].leader[f] # place.leader[f]
        /\ f # DistrictManager \/ ~Inheriting(place)
        => Qualified(place.leader[f], f)
    /\ Inheriting(place) => place.leader[DistrictManager] = districts[place.district].manager
    /\ place.retired /\ (l \in DOMAIN locations => ~locations[l].retired) => Workers(l) = {}

(* Empty because nobody is there, or nothing is in the way.                *)
LEMMA EmptyFunction ==
    ASSUME NEW g, g = [x \in DOMAIN g |-> g[x]], DOMAIN g = {}
    PROVE  g = << >>
<1> g = [x \in {} |-> g[x]] OBVIOUS
<1> << >> = [x \in {} |-> g[x]] OBVIOUS
<1> QED OBVIOUS

LEMMA NoRegistryIssues ==
    ASSUME NEW r \in Regions \cup {None}, NEW d \in Districts \cup {None},
           DOMAIN regions \subseteq Regions, DOMAIN districts \subseteq Districts
    PROVE  RegistryIssues(r, d) = {} <=>
               /\ r # None \/ d # None => regions # << >> /\ districts # << >>
               /\ r # None => r \in DOMAIN regions /\ regions[r].active
               /\ d # None => d \in DOMAIN districts /\ districts[d].active
               /\ r # None /\ d # None => districts[d].region = r
BY NoneAssumption DEF RegistryIssues, Issue

LEMMA LocationBatch ==
    ASSUME Readable, NEW l \in Locations, NEW place \in Location, NEW L,
           DOMAIN L = DOMAIN locations \cup {l}, L[l] = place,
           \A k \in DOMAIN locations \ {l} : L[k] = locations[k]
    PROVE  Proposed(people, L, districts)!Checked({l}, << >>) <=> LocationLawful(l, place)
<1> DEFINE W == {l}
           r == place.region
           d == place.district
           Touched == \/ l \notin DOMAIN locations \/ place.type # locations[l].type
                      \/ place.region # locations[l].region \/ place.district # locations[l].district
           Named(f) == /\ place.leader[f] # None
                       /\ l \notin DOMAIN locations \/ locations[l].leader[f] # place.leader[f]
<1>0. Integrity BY DEF Readable
<1>1. /\ l \notin DOMAIN people /\ l \notin Persons /\ l \notin DOMAIN districts /\ l \notin DOMAIN regions /\ l # None
      /\ l \notin Districts /\ l \notin Regions
      /\ W \cap DOMAIN districts = {} /\ W \cap DOMAIN regions = {} /\ W \cap DOMAIN L = {l}
      /\ W \cap Persons = {} /\ W \cap Locations = {l} /\ W \cap DOMAIN people = {}
      /\ \A k \in DOMAIN L : k \in Locations
  BY <1>0, Records, RecordsApart, NoneAssumption
<1>2. r \in Regions \cup {None} /\ d \in Districts \cup {None} /\ place.leader \in [Fields -> Persons \cup {None}]
  BY DEF Location
<1>3. /\ Proposed(people, L, districts)!Inherits(l) <=> Inheriting(place)
      /\ Proposed(people, L, districts)!HierarchyTouched(l) <=> Touched
      /\ \A f : Proposed(people, L, districts)!Changed(l, f)
                <=> l \notin DOMAIN locations \/ locations[l].leader[f] # place.leader[f]
  BY DEF Proposed!Inherits, Proposed!Owned, Inheriting, Proposed!HierarchyTouched, Proposed!Changed
<1>4. Proposed(people, L, districts)!RegistryReferencesValid(l) <=> RegistryIssues(r, d) = {}
  <2>1. \A g : g = << >> => DOMAIN g = {} OBVIOUS
  <2>2. (regions # << >> <=> DOMAIN regions # {}) /\ (districts # << >> <=> DOMAIN districts # {})
    BY <1>0, <2>1, Records, EmptyFunction
  <2> QED BY <1>0, <1>2, <2>2, Records, NoRegistryIssues DEF Proposed!RegistryReferencesValid
<1>5. Proposed(people, L, districts)!WritesValid(W) <=>
        /\ Touched => RegistryIssues(r, d) = {}
        /\ \A f \in Fields : Named(f) => place.leader[f] \in DOMAIN people /\ people[place.leader[f]].active
  <2> HIDE DEF Touched
  <2> QED BY <1>1, <1>3, <1>4 DEF Proposed!WritesValid, Proposed!LeadersValid, Proposed!Active
<1>6. Proposed(people, L, districts)!LinksValid(<< >>)
  <2>1. DOMAIN << >> = {} OBVIOUS
  <2> QED BY <2>1 DEF Proposed!LinksValid
<1>7. Proposed(people, L, districts)!PositionsValid(W) <=>
        \A f \in Fields : Named(f) /\ (f # DistrictManager \/ ~Inheriting(place)) =>
            (place.leader[f] \in DOMAIN people =>
                people[place.leader[f]].active /\ f \in people[place.leader[f]].positions)
  <2>1. Proposed(people, L, districts)!Remapped(W) = {} BY <1>1 DEF Proposed!Remapped
  <2>2. l \in DOMAIN L /\ \A k \in DOMAIN L : k \in W <=> k = l OBVIOUS
  <2>3. \A e \in DOMAIN districts : e \notin W BY <1>1
  <2> HIDE DEF W
  <2> QED BY <1>3, <2>1, <2>2, <2>3 DEF Proposed!PositionsValid, Proposed!Holds
<1>8. Proposed(people, L, districts)!DistrictLeadershipValid(W) <=>
        (Inheriting(place) => /\ place.leader[DistrictManager] = districts[d].manager
                              /\ districts[d].manager # None => districts[d].manager \in DOMAIN people)
  <2>1. Proposed(people, L, districts)!HandedOver(W) = {} BY <1>1 DEF Proposed!HandedOver
  <2>2. \A e \in DOMAIN districts : districts[e].manager # Unowned => districts[e].manager \notin W
    <3>1. \A e \in DOMAIN districts : districts[e].manager \in Persons \cup {None, Unowned}
      BY <1>0, Records DEF District
    <3> QED BY <1>1, <3>1
  <2>3. l \in DOMAIN L /\ \A k \in DOMAIN L : k \in W <=> k = l OBVIOUS
  <2>4. \A e \in DOMAIN districts : e \notin W BY <1>1
  <2> HIDE DEF W
  <2> QED BY <2>1, <2>2, <2>3, <2>4
        DEF Proposed!DistrictLeadershipValid, Proposed!InheritedBy, Inheriting
<1>9. Inheriting(place) => (districts[d].manager # None => Qualified(districts[d].manager, DistrictManager))
  <2>1. \A e \in DOMAIN districts : districts[e].manager \in Persons \cup {None, Unowned}
    BY <1>0, Records DEF District
  <2> QED BY <1>0, <2>1 DEF Inheriting, Integrity, LeadersQualified
<1>10. Proposed(people, L, districts)!CombinedValid(W, << >>)
  BY <1>1 DEF Proposed!CombinedValid
<1>11. Proposed(people, L, districts)!EmploymentValid(W) <=>
        (place.retired /\ (l \in DOMAIN locations => ~locations[l].retired) => Workers(l) = {})
  <2>1. Proposed(people, L, districts)!Leaving(l) <=>
            place.retired /\ (l \in DOMAIN locations => ~locations[l].retired)
    BY DEF Proposed!Leaving
  <2>2. Workers(l) = {} <=> \A p \in DOMAIN people : people[p].worksAt # l /\ l \notin people[p].supports
    BY <1>1 DEF Workers, Workplaces
  <2> HIDE DEF W
  <2> QED BY <1>1, <2>1, <2>2 DEF Proposed!EmploymentValid
<1>12. Proposed(people, L, districts)!RetirementValid(W)
  BY <1>1 DEF Proposed!RetirementValid
<1>13. Proposed(people, L, districts)!HierarchyValid(W) <=> (Touched => RegistryIssues(r, d) = {})
  <2>1. ASSUME NEW k \in DOMAIN L PROVE L[k].region \notin W /\ L[k].district \notin W
    <3>1. L[k] \in Location BY <1>0, Records
    <3> QED BY <1>1, <3>1 DEF Location
  <2>2. l \in DOMAIN L /\ \A k \in DOMAIN L : k \in W <=> k = l OBVIOUS
  <2> HIDE DEF W, Touched
  <2> QED BY <1>3, <1>4, <2>1, <2>2 DEF Proposed!HierarchyValid
<1>14. DistrictManager \in Fields BY FieldAssumption
<1> HIDE DEF W, Touched
<1>15. Proposed(people, L, districts)!Checked(W, << >>) <=>
          /\ Touched => RegistryIssues(r, d) = {}
          /\ \A f \in Fields : Named(f) => place.leader[f] \in DOMAIN people /\ people[place.leader[f]].active
          /\ \A f \in Fields : Named(f) /\ (f # DistrictManager \/ ~Inheriting(place)) =>
                (place.leader[f] \in DOMAIN people =>
                    people[place.leader[f]].active /\ f \in people[place.leader[f]].positions)
          /\ Inheriting(place) => /\ place.leader[DistrictManager] = districts[d].manager
                                  /\ districts[d].manager # None => districts[d].manager \in DOMAIN people
          /\ place.retired /\ (l \in DOMAIN locations => ~locations[l].retired) => Workers(l) = {}
  BY <1>5, <1>6, <1>7, <1>8, <1>10, <1>11, <1>12, <1>13 DEF Proposed!Checked
<1>16. Proposed(people, L, districts)!Checked(W, << >>) <=> LocationLawful(l, place)
  <2>1. ASSUME NEW f \in Fields, Inheriting(place), f = DistrictManager,
               place.leader[DistrictManager] = districts[d].manager, Named(f)
        PROVE  place.leader[f] \in DOMAIN people /\ people[place.leader[f]].active
    BY <1>9, <2>1 DEF Qualified
  <2> QED BY <1>9, <1>14, <1>15, <2>1 DEF LocationLawful, Qualified, Touched
<1> QED BY <1>16 DEF W

(* A person's page.                                                        *)
LEMMA NothingKept == Kept(<< >>) = << >>
<1>1. DOMAIN << >> = {} OBVIOUS
<1>2. Kept(<< >>) = [d \in {} |-> None] BY <1>1 DEF Kept
<1>3. << >> = [d \in {} |-> None] OBVIOUS
<1> QED BY <1>2, <1>3

LEMMA PersonAccepted ==
    ASSUME Readable, NEW p \in Persons, NEW batch,
           batch.districts = << >>, Written(batch) = {p} \cup DOMAIN batch.locations,
           DOMAIN batch.locations \subseteq DOMAIN locations,
           \A l \in DOMAIN batch.locations : batch.locations[l] = locations[l],
           NEW P, P = Saved(people, batch.people, batch.gone),
           \A q : q # p => (q \in DOMAIN P <=> q \in DOMAIN people),
           \A q \in DOMAIN people \ {p} : P[q] = people[q],
           p \in DOMAIN P => P[p] \in Person
    PROVE  Accepted(batch) <=> PersonLawful(P, p)
<1>0. Integrity BY DEF Readable
<1>1. Saved(locations, batch.locations, {}) = locations
  <2>1. DOMAIN locations \cup DOMAIN batch.locations = DOMAIN locations OBVIOUS
  <2>2. Saved(locations, batch.locations, {}) = [l \in DOMAIN locations |-> locations[l]]
    BY <2>1 DEF Saved
  <2> QED BY <1>0, <2>2, Records
<1>2. Saved(districts, Kept(batch.districts), {}) = districts
  BY <1>0, NothingKept, SavedNothing, Records
<1>3. Accepted(batch) <=> Proposed(P, locations, districts)!Checked({p} \cup DOMAIN batch.locations, << >>)
  BY <1>1, <1>2 DEF Accepted
<1> QED BY <1>3, PersonBatch

LEMMA NothingLed ==
    ASSUME Integrity, NEW p \in Persons
    PROVE  Blockers(p) = {} <=> Responsibilities(p) = {} /\ Accounts(p) = {}
<1>1. Responsibilities(p) = {} <=>
              /\ \A d \in DOMAIN districts : districts[d].manager # p
              /\ \A l \in DOMAIN locations, f \in Fields :
                    locations[l].leader[f] = p => f = DistrictManager /\ InheritsNow(l)
  BY ResponsibilitiesAre
<1>2. Led(p) = {} <=> \A l \in DOMAIN locations, f \in Fields : locations[l].leader[f] # p
  <2>1. \A l \in DOMAIN locations : ResolvedManager(l) = locations[l].leader[DistrictManager]
    BY ManagerResolved
  <2> QED BY <2>1, FieldAssumption DEF Led
<1>3. \A l \in DOMAIN locations : InheritsNow(l) =>
        /\ locations[l].district \in DOMAIN districts
        /\ locations[l].leader[DistrictManager] = districts[locations[l].district].manager
  BY DEF InheritsNow, Integrity, OneDistrictManager
<1>4. Blockers(p) = {} <=> Led(p) = {} /\ Accounts(p) = {} /\ \A d \in DOMAIN districts : districts[d].manager # p
  BY DEF Blockers, OwnedDistricts
<1> QED BY <1>1, <1>2, <1>3, <1>4

LEMMA PersonPageForetells == ASSUME Readable PROVE PersonPage
<1>0. Integrity /\ \A p \in DOMAIN people : p \in Persons /\ people[p] \in Person BY Records DEF Readable
<1> SUFFICES ASSUME NEW p \in DOMAIN people
             PROVE  /\ Blockers(p) = {} <=> Accepted(Deletion(p))
                    /\ people[p].active => (Blockers(p) = {} <=> Accepted(Inactivation(p)))
  BY DEF PersonPage
<1>1. Blockers(p) = {} <=> Responsibilities(p) = {} /\ Accounts(p) = {}
  BY <1>0, NothingLed
<1>2. Accepted(Deletion(p)) <=> Responsibilities(p) = {} /\ Accounts(p) = {}
  <2> DEFINE batch == Deletion(p)
             P == Saved(people, << >>, {p})
  <2>1. /\ batch.people = << >> /\ batch.locations = << >> /\ batch.districts = << >> /\ batch.gone = {p}
        /\ DOMAIN << >> = {}
    BY DEF Deletion, NoWrites
  <2>2. Written(batch) = {p} \cup DOMAIN batch.locations
    BY <2>1 DEF Written
  <2>3. DOMAIN P = DOMAIN people \ {p} /\ \A q \in DOMAIN people \ {p} : P[q] = people[q]
    BY <2>1 DEF Saved
  <2> HIDE DEF batch, P
  <2>4. Accepted(batch) <=> PersonLawful(P, p)
    BY <1>0, <2>1, <2>2, <2>3, PersonAccepted DEF P
  <2> QED BY <2>3, <2>4 DEF PersonLawful, batch
<1>3. ASSUME people[p].active
      PROVE  Accepted(Inactivation(p)) <=> Responsibilities(p) = {} /\ Accounts(p) = {}
  <2> DEFINE batch == Inactivation(p)
             is == [people[p] EXCEPT !.active = FALSE]
             P == Saved(people, Only(p, is), {})
  <2>1. /\ batch.people = Only(p, is) /\ batch.locations = << >> /\ batch.districts = << >> /\ batch.gone = {}
        /\ DOMAIN << >> = {}
    BY DEF Inactivation, NoWrites
  <2>2. Written(batch) = {p} \cup DOMAIN batch.locations
    BY <2>1 DEF Written, Only
  <2>3. /\ is \in Person /\ ~is.active /\ is.positions = people[p].positions
        /\ is.worksAt = people[p].worksAt /\ is.supports = people[p].supports
    BY <1>0 DEF Person
  <2> HIDE DEF batch, is
  <2>4. /\ DOMAIN P = DOMAIN people \cup {p} /\ P[p] = is /\ \A q \in DOMAIN people \ {p} : P[q] = people[q]
    BY DEF Saved, Only
  <2> HIDE DEF P
  <2>5. Accepted(batch) <=> PersonLawful(P, p)
    BY <1>0, <2>1, <2>2, <2>3, <2>4, PersonAccepted DEF P
  <2> QED BY <2>3, <2>4, <2>5 DEF PersonLawful, Employed, batch
<1> QED BY <1>1, <1>2, <1>3

(* A person's form. Who is not there, or not active, has no duties.        *)
LEMMA NoDuties ==
    ASSUME Integrity, NEW p \in Persons, ~(p \in DOMAIN people /\ people[p].active)
    PROVE  Responsibilities(p) = {} /\ Accounts(p) = {}
<1>1. \A d \in DOMAIN districts : districts[d].manager # p
  BY DEF Integrity, LeadersQualified, Qualified
<1>2. \A l \in DOMAIN locations, f \in Fields : locations[l].leader[f] # p
  BY NoneAssumption DEF Integrity, LeadersQualified, Qualified
<1>3. Accounts(p) = {}
  BY NoneAssumption DEF Integrity, LinksLive, Accounts
<1>4. Responsibilities(p) = {}
  BY <1>1, <1>2 DEF Responsibilities, OwnedDistricts
<1> QED BY <1>3, <1>4

LEMMA DraftEmployed ==
    ASSUME Readable, NEW p \in Persons, NEW is \in Drafts(p), NEW P, P[p] = is
    PROVE  Employed(P, p)
<1> DEFINE there == IF p \in DOMAIN people THEN Workplaces(p) ELSE {}
<1>1. /\ is \in Person /\ is.worksAt \in InUse \cup there \cup {None}
      /\ is.supports \subseteq (InUse \cup there) \ {is.worksAt}
  BY DEF Drafts
<1>2. ASSUME NEW l \in there PROVE l \in DOMAIN locations /\ ~locations[l].retired
  <2>1. p \in DOMAIN people /\ l \in Workplaces(p) BY <1>2
  <2>2. people[p].worksAt = l \/ l \in people[p].supports BY <2>1 DEF Workplaces
  <2>3. l \in Locations
    <3>1. people[p] \in Person BY <2>1, Records DEF Readable
    <3> QED BY <2>1, <3>1 DEF Workplaces, Person
  <2> QED BY <2>1, <2>2, <2>3 DEF Readable, Integrity, WorkplacesOpen
<1> HIDE DEF there
<1>3. /\ is.worksAt \notin is.supports
      /\ is.worksAt # None => is.worksAt \in DOMAIN locations /\ ~locations[is.worksAt].retired
      /\ \A l \in is.supports : l \in DOMAIN locations /\ ~locations[l].retired
  BY <1>1, <1>2 DEF InUse
<1> QED BY <1>3 DEF Employed

LEMMA PersonSavedAs ==
    ASSUME Readable, NEW p \in Persons, NEW is \in Person, NEW copies \in SUBSET DOMAIN locations
    PROVE  LET P == Saved(people, Only(p, is), {}) IN
           /\ Accepted(PersonSaved(p, is, copies)) <=> PersonLawful(P, p)
           /\ p \in DOMAIN P /\ P[p] = is
<1> DEFINE batch == PersonSaved(p, is, copies)
           P == Saved(people, Only(p, is), {})
<1>1. /\ batch.people = Only(p, is) /\ batch.locations = [l \in copies |-> locations[l]]
      /\ batch.districts = << >> /\ batch.gone = {}
      /\ DOMAIN << >> = {}
  BY DEF PersonSaved, NoWrites
<1>2. Written(batch) = {p} \cup DOMAIN batch.locations
  BY <1>1 DEF Written, Only
<1>3. /\ DOMAIN P = DOMAIN people \cup {p} /\ P[p] = is
      /\ \A q \in DOMAIN people \ {p} : P[q] = people[q]
  BY DEF Saved, Only
<1> HIDE DEF batch, P
<1>4. Accepted(batch) <=> PersonLawful(P, p)
  BY <1>1, <1>2, <1>3, PersonAccepted DEF P
<1> QED BY <1>3, <1>4 DEF batch, P

LEMMA PersonFormForetells == ASSUME Readable PROVE PersonForm
<1>0. Integrity /\ \A p \in DOMAIN people : p \in Persons /\ people[p] \in Person BY Records DEF Readable
<1>1. ASSUME NEW p \in DOMAIN people, NEW is \in Drafts(p), NEW copies \in {{}, Copies(p)}
      PROVE  PersonReady(p, is) <=> Accepted(PersonSaved(p, is, copies))
  <2> DEFINE P == Saved(people, Only(p, is), {})
  <2>1. p \in Persons /\ copies \in SUBSET DOMAIN locations /\ is \in Person
    BY <1>0 DEF Copies, Drafts
  <2>2. /\ Accepted(PersonSaved(p, is, copies)) <=> PersonLawful(P, p)
        /\ p \in DOMAIN P /\ P[p] = is
    BY <2>1, PersonSavedAs
  <2> HIDE DEF P
  <2>3. Employed(P, p) BY <2>1, <2>2, DraftEmployed
  <2>4. ~people[p].active => Responsibilities(p) = {} /\ Accounts(p) = {} BY <1>0, NoDuties
  <2> QED BY <2>2, <2>3, <2>4 DEF PersonLawful, PersonReady
<1>2. ASSUME NEW p \in Persons \ DOMAIN people, NEW is \in Drafts(p)
      PROVE  Accepted(PersonSaved(p, is, {}))
  <2> DEFINE P == Saved(people, Only(p, is), {})
  <2>1. is \in Person BY DEF Drafts
  <2>2. /\ Accepted(PersonSaved(p, is, {})) <=> PersonLawful(P, p)
        /\ p \in DOMAIN P /\ P[p] = is
    BY <2>1, PersonSavedAs
  <2> HIDE DEF P
  <2>3. Employed(P, p) BY <2>2, DraftEmployed
  <2>4. Responsibilities(p) = {} /\ Accounts(p) = {} BY <1>0, NoDuties
  <2> QED BY <2>2, <2>3, <2>4 DEF PersonLawful
<1> QED BY <1>1, <1>2 DEF PersonForm

(* A Location whose record names another leader.                           *)
Given(was, f, q) == [was EXCEPT !.leader[f] = q]

LEMMA LeaderGiven ==
    ASSUME NEW was \in Location, NEW f \in Fields, NEW q
    PROVE  LET is == Given(was, f, q) IN
           /\ is.type = was.type /\ is.retired = was.retired
           /\ is.region = was.region /\ is.district = was.district
           /\ is.leader = [was.leader EXCEPT ![f] = q] /\ is.leader[f] = q
           /\ \A g \in Fields \ {f} : is.leader[g] = was.leader[g]
           /\ is = [type |-> was.type, retired |-> was.retired, region |-> was.region,
                    district |-> was.district, leader |-> [was.leader EXCEPT ![f] = q]]
<1> DEFINE leader == [was.leader EXCEPT ![f] = q]
           is == [was EXCEPT !.leader = leader]
<1>1. was.leader \in [Fields -> Persons \cup {None}] BY DEF Location
<1>2. leader[f] = q /\ \A g \in Fields \ {f} : leader[g] = was.leader[g] BY <1>1
<1>3. Given(was, f, q) = is BY DEF Given
<1> HIDE DEF leader
<1>4. was = [type |-> was.type, retired |-> was.retired, region |-> was.region,
             district |-> was.district, leader |-> was.leader]
  BY DEF Location
<1>5. is = [type |-> was.type, retired |-> was.retired, region |-> was.region,
            district |-> was.district, leader |-> leader]
  BY <1>4
<1> HIDE DEF is
<1>6. /\ is.type = was.type /\ is.retired = was.retired
      /\ is.region = was.region /\ is.district = was.district /\ is.leader = leader
  BY <1>5
<1> QED BY <1>2, <1>3, <1>5, <1>6 DEF leader

(* The handover of a District.                                             *)
LEMMA HandoverBatch ==
    ASSUME Readable, NEW d \in DOMAIN districts, NEW p \in Persons \cup {None}, p # districts[d].manager,
           NEW L, NEW D, DOMAIN L = DOMAIN locations, DOMAIN D = DOMAIN districts,
           D[d].active = districts[d].active, D[d].region = districts[d].region, D[d].manager = p,
           \A e \in DOMAIN districts \ {d} : D[e] = districts[e],
           \A l \in Members(d) : L[l] = Given(locations[l], DistrictManager, p),
           \A l \in DOMAIN locations \ Members(d) : L[l] = locations[l]
    PROVE  Proposed(people, L, D)!Checked({d} \cup Members(d), << >>) <=> HandoverPreviewed(d, p)
<1> DEFINE W == {d} \cup Members(d)
           r == districts[d].region
<1>0. Integrity BY DEF Readable
<1>1. /\ Members(d) \subseteq DOMAIN locations /\ DOMAIN locations \subseteq Locations
      /\ d \in Districts /\ districts[d] \in District /\ d \notin Locations /\ d # None
      /\ W \cap Persons = {} /\ W \cap DOMAIN people = {} /\ W \cap DOMAIN regions = {}
      /\ W \cap DOMAIN districts = {d} /\ W \cap DOMAIN locations = Members(d)
      /\ W \cap Locations = Members(d) /\ None \notin W /\ \A x \in Regions : x \notin W
      /\ d \notin Members(d) /\ p # Unowned
  BY <1>0, Records, RecordsApart, NoneAssumption DEF Members
<1>2. D[d].active = districts[d].active /\ D[d].region = r /\ D[d].manager = p
  BY <1>1 DEF District
<1>3. ASSUME NEW l \in Members(d)
      PROVE  /\ L[l].type = locations[l].type /\ L[l].type \in Retail /\ L[l].retired = locations[l].retired
             /\ L[l].region = locations[l].region /\ L[l].district = locations[l].district
             /\ L[l].district = d /\ L[l].leader[DistrictManager] = p
             /\ L[l].leader = [locations[l].leader EXCEPT ![DistrictManager] = p]
             /\ \A f \in Fields \ {DistrictManager} : L[l].leader[f] = locations[l].leader[f]
             /\ L[l] = [type |-> locations[l].type, retired |-> locations[l].retired,
                        region |-> locations[l].region, district |-> locations[l].district,
                        leader |-> [locations[l].leader EXCEPT ![DistrictManager] = p]]
  <2>1. locations[l] \in Location /\ l \in DOMAIN locations BY <1>0, <1>1, Records
  <2>2. locations[l].type \in Retail /\ locations[l].district = d BY DEF Members
  <2>3. L[l] = Given(locations[l], DistrictManager, p) OBVIOUS
  <2> QED BY <2>1, <2>2, <2>3, FieldAssumption, LeaderGiven
<1>4. \A l \in DOMAIN locations : /\ L[l].type = locations[l].type /\ L[l].retired = locations[l].retired
                                  /\ L[l].region = locations[l].region
                                  /\ L[l].district = locations[l].district
                                  /\ L[l].region \in Regions \cup {None}
  <2>1. \A l \in DOMAIN locations : locations[l].region \in Regions \cup {None}
    BY <1>0, Records DEF Location
  <2> QED BY <1>3, <2>1
<1>5. \A e \in DOMAIN districts : /\ D[e].active = districts[e].active /\ D[e].region = districts[e].region
                                  /\ e # d => D[e].manager = districts[e].manager
                                  /\ D[e].manager \in Persons \cup {None, Unowned}
  <2>1. \A e \in DOMAIN districts : districts[e].manager \in Persons \cup {None, Unowned}
    BY <1>0, Records DEF District
  <2> QED BY <1>2, <2>1
<1>6. Proposed(people, L, D)!HandedOver(W) = {d}
  BY <1>1, <1>2 DEF Proposed!HandedOver
<1>7. Members(d) = {l \in DOMAIN locations : locations[l].type \in Retail /\ locations[l].district = d}
  BY DEF Members
<1>8. ASSUME Proposed(people, L, D)!Checked(W, << >>) PROVE HandoverPreviewed(d, p)
  <2>1. Proposed(people, L, D)!HandoverValid(W, d)
    BY <1>6, <1>8 DEF Proposed!Checked, Proposed!DistrictLeadershipValid
  <2>2. /\ districts[d].active /\ r \in DOMAIN regions /\ regions[r].active
        /\ p \in Persons => p \in DOMAIN people /\ people[p].active
        /\ \A l \in Members(d) : locations[l].region = r
    BY <1>2, <1>7, <2>1 DEF Proposed!HandoverValid, Proposed!Active
  <2>3. p \in Persons => Proposed(people, L, D)!Holds(p, DistrictManager)
    <3> HIDE DEF W
    <3>1. d \in W BY DEF W
    <3> QED BY <1>2, <1>8, <3>1 DEF Proposed!Checked, Proposed!PositionsValid
  <2> QED BY <2>2, <2>3 DEF Proposed!Holds, HandoverPreviewed, Candidates, Qualified
<1>9. ASSUME HandoverPreviewed(d, p) PROVE Proposed(people, L, D)!Checked(W, << >>)
  <2>1. /\ districts[d].active /\ r \in DOMAIN regions /\ regions[r].active
        /\ p # None => p \in DOMAIN people /\ people[p].active /\ DistrictManager \in people[p].positions
        /\ \A l \in Members(d) : locations[l].region = r
    BY <1>9 DEF HandoverPreviewed, Candidates, Qualified
  <2>2. \A l \in Members(d) : Proposed(people, L, D)!Inherits(l)
    BY <1>1, <1>2, <1>3 DEF Proposed!Inherits, Proposed!Owned
  <2>3. \A l \in DOMAIN locations : ~Proposed(people, L, D)!HierarchyTouched(l)
    BY <1>4 DEF Proposed!HierarchyTouched
  <2>4. \A l \in Members(d), f \in Fields : Proposed(people, L, D)!Changed(l, f) => f = DistrictManager
    <3>1. \A l \in Members(d), f \in Fields : f # DistrictManager => L[l].leader[f] = locations[l].leader[f]
      BY <1>3
    <3>2. Members(d) \subseteq DOMAIN locations BY <1>1
    <3> QED BY <3>1, <3>2 DEF Proposed!Changed
  <2>5. Proposed(people, L, D)!WritesValid(W)
    <3>1. Proposed(people, L, D)!ParentValid(d) BY <1>2, <2>1 DEF Proposed!ParentValid
    <3>2. \A l \in Members(d) : Proposed(people, L, D)!LeadersValid(l)
      BY <1>3, <2>1, <2>4 DEF Proposed!LeadersValid, Proposed!Active
    <3> QED BY <1>1, <2>3, <3>1, <3>2 DEF Proposed!WritesValid
  <2>6. Proposed(people, L, D)!LinksValid(<< >>)
    <3>1. DOMAIN << >> = {} OBVIOUS
    <3> QED BY <3>1 DEF Proposed!LinksValid
  <2>7. Proposed(people, L, D)!PositionsValid(W)
    <3>1. Proposed(people, L, D)!Remapped(W) = {} BY <1>1 DEF Proposed!Remapped
    <3>2. \A l \in DOMAIN L, f \in Fields : l \in W /\ Proposed(people, L, D)!Changed(l, f) =>
              f = DistrictManager /\ Proposed(people, L, D)!Inherits(l)
      BY <1>1, <2>2, <2>4
    <3>3. Proposed(people, L, D)!Holds(p, DistrictManager)
      BY <2>1, <1>0, Records, NoneAssumption DEF Proposed!Holds
    <3>4. \A e \in DOMAIN D : e \in W => e = d BY <1>1
    <3> HIDE DEF W
    <3> QED BY <1>2, <3>1, <3>2, <3>3, <3>4 DEF Proposed!PositionsValid
  <2>8. Proposed(people, L, D)!DistrictLeadershipValid(W)
    <3>1. Proposed(people, L, D)!HandoverValid(W, d)
      <4>1. \A l \in Members(d) : L[l] =
              [type |-> locations[l].type, retired |-> locations[l].retired, region |-> r, district |-> d,
               leader |-> [locations[l].leader EXCEPT ![DistrictManager] = L[l].leader[DistrictManager]]]
        <5> SUFFICES ASSUME NEW l \in Members(d)
                     PROVE  L[l] =
              [type |-> locations[l].type, retired |-> locations[l].retired, region |-> r, district |-> d,
               leader |-> [locations[l].leader EXCEPT ![DistrictManager] = L[l].leader[DistrictManager]]]
            OBVIOUS
        <5>1. locations[l] \in Location /\ locations[l].region = r /\ locations[l].district = d
          BY <1>0, <1>1, <1>7, <2>1, Records
        <5> QED BY <1>3, <5>1
      <4> QED BY <1>1, <1>2, <1>7, <2>1, <4>1, NoneAssumption DEF Proposed!HandoverValid, Proposed!Active
    <3>2. \A e \in DOMAIN D : D[e].manager # Unowned => D[e].manager \notin W
      BY <1>1, <1>5
    <3>3. ASSUME NEW e \in DOMAIN D, NEW l \in DOMAIN L, Proposed(people, L, D)!InheritedBy(l, e),
                 l \in W \/ e \in Proposed(people, L, D)!HandedOver(W)
          PROVE  e = d /\ l \in Members(d)
      BY <1>1, <1>3, <1>4, <1>6, <1>7, <3>3 DEF Proposed!InheritedBy
    <3>4. \A e \in W \cap DOMAIN D : D[e].active BY <1>1, <1>2, <2>1
    <3> HIDE DEF W
    <3> QED BY <1>2, <1>3, <1>6, <2>1, <3>1, <3>2, <3>3, <3>4 DEF Proposed!DistrictLeadershipValid
  <2>9. Proposed(people, L, D)!CombinedValid(W, << >>)
    <3> HIDE DEF W
    <3> QED BY <1>1 DEF Proposed!CombinedValid
  <2>10. Proposed(people, L, D)!EmploymentValid(W)
    <3>1. \A l \in Members(d) : ~Proposed(people, L, D)!Leaving(l)
      BY <1>1, <1>4 DEF Proposed!Leaving
    <3> HIDE DEF W
    <3> QED BY <1>1, <3>1 DEF Proposed!EmploymentValid
  <2>11. Proposed(people, L, D)!RetirementValid(W)
    <3> HIDE DEF W
    <3> QED BY <1>1, <1>2, <2>1 DEF Proposed!RetirementValid
  <2>12. Proposed(people, L, D)!HierarchyValid(W)
    <3>1. \A l \in DOMAIN L : L[l].region \notin W BY <1>1, <1>4
    <3>2. \A e \in W : e \in DOMAIN D \/ e \in DOMAIN locations BY <1>1
    <3>3. \A l \in DOMAIN L : L[l].district \in W => L[l].district = d
      <4>1. \A l \in DOMAIN L : L[l].district \in Districts \cup {None}
        <5>1. \A l \in DOMAIN locations : locations[l].district \in Districts \cup {None}
          BY <1>0, Records DEF Location
        <5> QED BY <1>4, <5>1
      <4>2. \A x \in Districts : x \notin Members(d) BY <1>1, RecordsApart
      <4> QED BY <1>1, <4>1, <4>2
    <3> HIDE DEF W
    <3> QED BY <1>2, <2>3, <3>1, <3>3 DEF Proposed!HierarchyValid
  <2> QED BY <2>5, <2>6, <2>7, <2>8, <2>9, <2>10, <2>11, <2>12 DEF Proposed!Checked
<1> QED BY <1>8, <1>9

LEMMA DistrictPanelForetells == ASSUME Readable PROVE DistrictPanel
<1>0. Integrity BY DEF Readable
<1> SUFFICES ASSUME NEW d \in DOMAIN districts, NEW p \in Persons \cup {None}, p # districts[d].manager
             PROVE  HandoverPreviewed(d, p) <=> Accepted(Handover(d, p))
  BY DEF DistrictPanel
<1> DEFINE batch == Handover(d, p)
           is == [districts[d] EXCEPT !.manager = p]
           L == Saved(locations, batch.locations, {})
           D == Saved(districts, Kept(batch.districts), {})
<1>1. /\ batch.people = << >> /\ batch.gone = {} /\ batch.districts = Only(d, is)
      /\ batch.locations = [l \in Members(d) |-> Given(locations[l], DistrictManager, p)]
      /\ DOMAIN << >> = {}
  BY DEF Handover, NoWrites, Given
<1>2. districts[d] \in District /\ Members(d) \subseteq DOMAIN locations BY <1>0, Records DEF Members
<1>3. /\ is.manager = p /\ p # Unowned
      /\ is.active = districts[d].active /\ is.region = districts[d].region
  BY <1>2, NoneAssumption DEF District
<1> HIDE DEF batch, is
<1>4. Kept(batch.districts) = Only(d, is)
  BY <1>1, <1>3 DEF Kept, Only
<1>5. Written(batch) = {d} \cup Members(d)
  BY <1>1 DEF Written, Only
<1>6. Saved(people, batch.people, batch.gone) = people
  BY <1>0, <1>1, SavedNothing, Records
<1>7. /\ DOMAIN L = DOMAIN locations
      /\ \A l \in Members(d) : L[l] = Given(locations[l], DistrictManager, p)
      /\ \A l \in DOMAIN locations \ Members(d) : L[l] = locations[l]
  BY <1>1, <1>2 DEF Saved
<1>8. DOMAIN D = DOMAIN districts /\ D[d] = is /\ \A e \in DOMAIN districts \ {d} : D[e] = districts[e]
  BY <1>4 DEF Saved, Only
<1>9. Accepted(batch) <=> Proposed(people, L, D)!Checked({d} \cup Members(d), << >>)
  BY <1>5, <1>6 DEF Accepted
<1> HIDE DEF L, D
<1>10. Proposed(people, L, D)!Checked({d} \cup Members(d), << >>) <=> HandoverPreviewed(d, p)
  BY <1>3, <1>7, <1>8, HandoverBatch
<1> QED BY <1>9, <1>10 DEF batch

(* A District that is added.                                               *)
LEMMA DistrictAdded ==
    ASSUME Readable, NEW d \in Districts \ DOMAIN districts, NEW D,
           DOMAIN D = DOMAIN districts \cup {d},
           D[d].region \in DOMAIN regions, regions[D[d].region].active, D[d].active, D[d].manager = Unowned,
           \A e \in DOMAIN districts : D[e] = districts[e]
    PROVE  Proposed(people, locations, D)!Checked({d}, << >>)
<1>0. Integrity BY DEF Readable
<1>1. /\ d \notin DOMAIN people /\ d \notin Persons /\ d \notin DOMAIN locations /\ d \notin Locations
      /\ d \notin DOMAIN regions /\ d \notin Regions /\ d # None /\ Unowned \notin Persons
  BY <1>0, Records, RecordsApart, NoneAssumption
<1>2. \A e \in DOMAIN D : e = d \/ (e \in DOMAIN districts /\ e # d /\ D[e] = districts[e])
  OBVIOUS
<1>3. \A e \in DOMAIN D : D[e].manager # Unowned => D[e].manager # d
  <2>1. \A e \in DOMAIN districts : districts[e].manager \in Persons \cup {None, Unowned}
    BY <1>0, Records DEF District
  <2> QED BY <1>1, <1>2, <2>1
<1>4. \A l \in DOMAIN locations : locations[l].district # d /\ locations[l].region # d
  BY <1>0, <1>1, Records DEF Integrity, HierarchyCoherent, Location
<1>5. Proposed(people, locations, D)!WritesValid({d})
  BY <1>1 DEF Proposed!WritesValid, Proposed!ParentValid
<1>6. Proposed(people, locations, D)!LinksValid(<< >>)
  <2>1. DOMAIN << >> = {} OBVIOUS
  <2> QED BY <2>1 DEF Proposed!LinksValid
<1>7. Proposed(people, locations, D)!PositionsValid({d})
  <2>1. Proposed(people, locations, D)!Remapped({d}) = {} BY <1>1 DEF Proposed!Remapped
  <2>2. \A l \in DOMAIN locations : l # d BY <1>1
  <2> QED BY <1>1, <2>1, <2>2 DEF Proposed!PositionsValid
<1>8. Proposed(people, locations, D)!DistrictLeadershipValid({d})
  <2>1. Proposed(people, locations, D)!HandedOver({d}) = {} BY DEF Proposed!HandedOver
  <2>2. \A l \in DOMAIN locations : l # d BY <1>1
  <2> QED BY <1>3, <2>1, <2>2 DEF Proposed!DistrictLeadershipValid
<1>9. Proposed(people, locations, D)!CombinedValid({d}, << >>)
  BY <1>1 DEF Proposed!CombinedValid
<1>10. Proposed(people, locations, D)!EmploymentValid({d})
  BY <1>1 DEF Proposed!EmploymentValid
<1>11. Proposed(people, locations, D)!RetirementValid({d})
  BY <1>1 DEF Proposed!RetirementValid
<1>12. Proposed(people, locations, D)!HierarchyValid({d})
  BY <1>1, <1>4 DEF Proposed!HierarchyValid
<1> QED BY <1>5, <1>6, <1>7, <1>8, <1>9, <1>10, <1>11, <1>12 DEF Proposed!Checked

LEMMA RegistryPanelForetells == ASSUME Readable PROVE RegistryPanel
<1>0. Integrity BY DEF Readable
<1> SUFFICES ASSUME NEW d \in Districts \ DOMAIN districts, NEW r \in DOMAIN regions, regions[r].active
             PROVE  Accepted(NewDistrict(d, r))
  BY DEF RegistryPanel
<1> DEFINE batch == NewDistrict(d, r)
           is == [active |-> TRUE, region |-> r, manager |-> Unowned]
           D == Saved(districts, Kept(batch.districts), {})
<1>1. /\ batch.people = << >> /\ batch.gone = {} /\ batch.districts = Only(d, is) /\ batch.locations = << >>
      /\ DOMAIN << >> = {}
  BY DEF NewDistrict, NoWrites
<1>2. is.active /\ is.region = r /\ is.manager = Unowned OBVIOUS
<1> HIDE DEF batch, is
<1>3. Kept(batch.districts) = Only(d, is)
  BY <1>1 DEF Kept, Only
<1>4. Written(batch) = {d}
  BY <1>1 DEF Written, Only
<1>5. Saved(people, batch.people, batch.gone) = people /\ Saved(locations, batch.locations, {}) = locations
  BY <1>0, <1>1, SavedNothing, Records
<1>6. DOMAIN D = DOMAIN districts \cup {d} /\ D[d] = is /\ \A e \in DOMAIN districts : D[e] = districts[e]
  BY <1>3 DEF Saved, Only
<1>7. Accepted(batch) <=> Proposed(people, locations, D)!Checked({d}, << >>)
  BY <1>4, <1>5 DEF Accepted
<1> HIDE DEF D
<1>8. Proposed(people, locations, D)!Checked({d}, << >>)
  BY <1>2, <1>6, DistrictAdded
<1> QED BY <1>7, <1>8 DEF batch

(* A Location's form, and a row of an import.                              *)
LEMMA LocationAccepted ==
    ASSUME Readable, NEW l \in Locations, NEW place \in Location
    PROVE  Accepted(LocationSaved(l, place)) <=> LocationLawful(l, place)
<1>0. Integrity BY DEF Readable
<1> DEFINE batch == LocationSaved(l, place)
           L == Saved(locations, batch.locations, {})
<1>1. /\ batch.people = << >> /\ batch.gone = {} /\ batch.districts = << >> /\ batch.locations = Only(l, place)
      /\ DOMAIN << >> = {}
  BY DEF LocationSaved, NoWrites
<1> HIDE DEF batch
<1>2. Written(batch) = {l}
  BY <1>1 DEF Written, Only
<1>3. Saved(people, batch.people, batch.gone) = people /\ Saved(districts, Kept(batch.districts), {}) = districts
  BY <1>0, <1>1, SavedNothing, NothingKept, Records
<1>4. DOMAIN L = DOMAIN locations \cup {l} /\ L[l] = place /\ \A k \in DOMAIN locations \ {l} : L[k] = locations[k]
  BY <1>1 DEF Saved, Only
<1>5. Accepted(batch) <=> Proposed(people, L, districts)!Checked({l}, << >>)
  BY <1>2, <1>3 DEF Accepted
<1> HIDE DEF L
<1>6. Proposed(people, L, districts)!Checked({l}, << >>) <=> LocationLawful(l, place)
  BY <1>4, LocationBatch
<1> QED BY <1>5, <1>6 DEF batch

LEMMA InheritedIs ==
    ASSUME Integrity, NEW place \in Location
    PROVE  LET final == Inherited(place) IN
           /\ final \in Location
           /\ final.type = place.type /\ final.retired = place.retired
           /\ final.region = place.region /\ final.district = place.district
           /\ Inheriting(final) <=> Inheriting(place)
           /\ \A f \in Fields : f # DistrictManager \/ ~Inheriting(place) => final.leader[f] = place.leader[f]
           /\ Inheriting(place) => final.leader[DistrictManager] = districts[place.district].manager
<1> DEFINE final == Inherited(place)
           q == districts[place.district].manager
<1>1. CASE ~Inheriting(place)
  <2>1. final = place BY <1>1 DEF Inherited
  <2> QED BY <1>1, <2>1
<1>2. CASE Inheriting(place)
  <2>1. final = Given(place, DistrictManager, q) BY <1>2 DEF Inherited, Given
  <2>2. q \in Persons \cup {None}
    BY <1>2, Records DEF Inheriting, District
  <2>3. /\ place.type \in Types /\ place.retired \in BOOLEAN /\ place.region \in Regions \cup {None}
        /\ place.district \in Districts \cup {None} /\ place.leader \in [Fields -> Persons \cup {None}]
    BY DEF Location
  <2>4. [place.leader EXCEPT ![DistrictManager] = q] \in [Fields -> Persons \cup {None}]
    BY <2>2, <2>3
  <2> DEFINE leader == [place.leader EXCEPT ![DistrictManager] = q]
  <2>5. /\ final.type = place.type /\ final.retired = place.retired
        /\ final.region = place.region /\ final.district = place.district
        /\ final.leader[DistrictManager] = q
        /\ \A g \in Fields \ {DistrictManager} : final.leader[g] = place.leader[g]
        /\ final = [type |-> place.type, retired |-> place.retired, region |-> place.region,
                    district |-> place.district, leader |-> leader]
    BY <2>1, FieldAssumption, LeaderGiven
  <2> HIDE DEF leader, final
  <2>6. final \in Location BY <2>3, <2>4, <2>5 DEF Location, leader
  <2>7. Inheriting(final) BY <1>2, <2>5 DEF Inheriting
  <2> QED BY <1>2, <2>5, <2>6, <2>7 DEF final
<1> QED BY <1>1, <1>2

LEMMA LocationFormForetells == ASSUME Readable PROVE LocationForm
<1>0. Integrity BY DEF Readable
<1> SUFFICES ASSUME NEW l \in Locations, NEW place \in Forms(l)
             PROVE  LET retiring == place.retired /\ ~Was(l).retired
                        unlisted == (place.region # None \/ place.district # None) /\ districts = << >>
                    IN  (~unlisted /\ (retiring => Workers(l) = {})) <=> Accepted(LocationSaved(l, Inherited(place)))
  BY DEF LocationForm
<1> DEFINE final == Inherited(place)
           r == place.region
           d == place.district
           unlisted == (r # None \/ d # None) /\ districts = << >>
           Touched == \/ l \notin DOMAIN locations \/ place.type # locations[l].type
                      \/ place.region # locations[l].region \/ place.district # locations[l].district
<1>1. /\ place \in Location /\ r \in DOMAIN regions \cup {None} /\ d \in DOMAIN districts \cup {None}
      /\ <<r, d>> \in Places(l) /\ (place.retired => l \in DOMAIN locations)
      /\ \A f \in Fields : place.leader[f] \in Candidates(f) \cup {None, Was(l).leader[f]}
  <2>1. /\ place \in [type : Types, retired : IF l \in DOMAIN locations THEN BOOLEAN ELSE {FALSE},
                region : DOMAIN regions \cup {None}, district : DOMAIN districts \cup {None},
                leader : [Fields -> Persons \cup {None}]]
        /\ <<r, d>> \in Places(l)
        /\ \A f \in Fields : place.leader[f] \in Candidates(f) \cup {None, Was(l).leader[f]}
    BY DEF Forms
  <2>2. DOMAIN regions \subseteq Regions /\ DOMAIN districts \subseteq Districts BY <1>0, Records
  <2>3. place.retired \in BOOLEAN /\ (place.retired => l \in DOMAIN locations)
    <3>1. CASE l \in DOMAIN locations BY <2>1, <3>1
    <3>2. CASE l \notin DOMAIN locations
      <4>1. place.retired \in {FALSE} BY <2>1, <3>2
      <4> QED BY <4>1
    <3> QED BY <3>1, <3>2
  <2>4. place \in Location BY <2>1, <2>2, <2>3 DEF Location
  <2> QED BY <2>1, <2>3, <2>4
<1>2. /\ l \notin DOMAIN locations => Was(l).region = None /\ Was(l).district = None /\ ~Was(l).retired
                                      /\ \A f \in Fields : Was(l).leader[f] = None
      /\ l \in DOMAIN locations => Was(l) = locations[l]
  BY DEF Was, Blank
<1>3. /\ final \in Location /\ final.type = place.type /\ final.retired = place.retired
      /\ final.region = r /\ final.district = d /\ (Inheriting(final) <=> Inheriting(place))
      /\ \A f \in Fields : f # DistrictManager \/ ~Inheriting(place) => final.leader[f] = place.leader[f]
      /\ Inheriting(place) => final.leader[DistrictManager] = districts[d].manager
  BY <1>0, <1>1, InheritedIs
<1> HIDE DEF final
<1>4. \A f \in Fields :
        /\ final.leader[f] # None
        /\ l \notin DOMAIN locations \/ locations[l].leader[f] # final.leader[f]
        /\ f # DistrictManager \/ ~Inheriting(place)
        => Qualified(final.leader[f], f)
  BY <1>1, <1>2, <1>3 DEF Candidates
<1>5. LocationLawful(l, final) <=>
        /\ Touched => RegistryIssues(r, d) = {}
        /\ place.retired /\ (l \in DOMAIN locations => ~locations[l].retired) => Workers(l) = {}
  <2>1. (\/ l \notin DOMAIN locations \/ final.type # locations[l].type
         \/ final.region # locations[l].region \/ final.district # locations[l].district) <=> Touched
    BY <1>3
  <2>2. Inheriting(final) => final.leader[DistrictManager] = districts[final.district].manager
    BY <1>3
  <2>3. \A f \in Fields :
        /\ final.leader[f] # None
        /\ l \notin DOMAIN locations \/ locations[l].leader[f] # final.leader[f]
        /\ f # DistrictManager \/ ~Inheriting(final)
        => Qualified(final.leader[f], f)
    BY <1>3, <1>4
  <2>4. final.region = r /\ final.district = d /\ (final.retired <=> place.retired)
    BY <1>3
  <2> HIDE DEF Touched, r, d
  <2> QED BY <2>1, <2>2, <2>3, <2>4 DEF LocationLawful
<1>6. Accepted(LocationSaved(l, final)) <=> LocationLawful(l, final)
  BY <1>3, LocationAccepted
<1>7. (Touched => RegistryIssues(r, d) = {}) <=> ~unlisted
  <2>1. CASE unlisted
    <3>1. DOMAIN << >> = {} OBVIOUS
    <3>2. Touched BY <2>1, <3>1 DEF Readable, Registered
    <3>3. RegistryIssues(r, d) = {"roster_required"} BY <2>1 DEF RegistryIssues
    <3> QED BY <2>1, <3>2, <3>3
  <2>2. CASE ~unlisted
    <3>1. r \in Regions \cup {None} /\ d \in Districts \cup {None} BY <1>1 DEF Location
    <3>2. /\ DOMAIN regions \subseteq Regions /\ DOMAIN districts \subseteq Districts
          /\ \A e \in DOMAIN districts : districts[e].region # None
      BY <1>0, Records, NoneAssumption DEF District
    <3>3. CASE <<r, d>> = <<Was(l).region, Was(l).district>>
      <4>1. CASE l \in DOMAIN locations
        <5>1. r = locations[l].region /\ d = locations[l].district BY <1>2, <3>3, <4>1
        <5>2. /\ r # None => r \in DOMAIN regions /\ regions[r].active
              /\ d # None => d \in DOMAIN districts /\ districts[d].active
              /\ r # None /\ d # None => districts[d].region = r
          BY <1>0, <4>1, <5>1 DEF Integrity, HierarchyCoherent
        <5>3. r # None \/ d # None => DOMAIN regions # {} /\ DOMAIN districts # {}
          BY <4>1, <5>1 DEF Readable, Registered
        <5>4. DOMAIN << >> = {} OBVIOUS
        <5>5. r # None \/ d # None => regions # << >> /\ districts # << >>
          BY <5>3, <5>4
        <5> QED BY <2>2, <3>1, <3>2, <5>2, <5>5, NoRegistryIssues
      <4>2. CASE l \notin DOMAIN locations
        <5>1. r = None /\ d = None BY <1>2, <3>3, <4>2
        <5> QED BY <2>2, <3>1, <3>2, <5>1, NoRegistryIssues
      <4> QED BY <4>1, <4>2
    <3>4. CASE /\ r = Was(l).region \/ r = None \/ regions[r].active
               /\ d # None => districts[d].active /\ districts[d].region = r
      <4>1. r # None => r \in DOMAIN regions /\ regions[r].active
        <5>1. CASE r = Was(l).region BY <1>0, <1>2, <5>1 DEF Integrity, HierarchyCoherent
        <5> QED BY <1>1, <3>4, <5>1
      <4>2. d # None => r # None BY <1>1, <3>2, <3>4
      <4>3. DOMAIN << >> = {} OBVIOUS
      <4>4. r # None => regions # << >> BY <4>1, <4>3
      <4> QED BY <1>1, <2>2, <3>1, <3>2, <3>4, <4>1, <4>2, <4>4, NoRegistryIssues
    <3> QED BY <1>1, <3>3, <3>4 DEF Places
  <2> QED BY <2>1, <2>2
<1>8. (place.retired /\ ~Was(l).retired => Workers(l) = {}) <=>
      (place.retired /\ (l \in DOMAIN locations => ~locations[l].retired) => Workers(l) = {})
  BY <1>1, <1>2
<1> HIDE DEF Touched, unlisted
<1>9. (~unlisted /\ (place.retired /\ ~Was(l).retired => Workers(l) = {})) <=> Accepted(LocationSaved(l, final))
  BY <1>5, <1>6, <1>7, <1>8
<1> QED BY <1>9 DEF final, unlisted

LEMMA SpelledPlace ==
    ASSUME Readable, NEW l \in Locations, NEW row \in Rows, Complete(l, row)
    PROVE  AsSpelled(l, row) \in Location
<1>0. Integrity BY DEF Readable
<1>1. /\ row.type \in Types \cup {None} /\ row.retired \in {TRUE, FALSE, None}
      /\ row.region \in Regions \cup {None} /\ row.district \in Districts \cup {None}
      /\ row.leader \in [Fields -> Persons \cup {None}]
  BY DEF Rows
<1>2. /\ l \in DOMAIN locations => Was(l) \in Location
      /\ l \notin DOMAIN locations => Was(l) = Blank
  BY <1>0, Records DEF Was
<1>3. CASE l \in DOMAIN locations
  <2>1. /\ Was(l).type \in Types /\ Was(l).retired \in BOOLEAN /\ Was(l).region \in Regions \cup {None}
        /\ Was(l).district \in Districts \cup {None} /\ Was(l).leader \in [Fields -> Persons \cup {None}]
    BY <1>2, <1>3 DEF Location
  <2>2. Cell(row.retired, Was(l).retired) \in BOOLEAN
    <3>1. CASE row.retired = None BY <2>1, <3>1 DEF Cell
    <3>2. CASE row.retired # None
      <4>1. row.retired \in BOOLEAN BY <1>1, <3>2
      <4> QED BY <3>2, <4>1 DEF Cell
    <3> QED BY <3>1, <3>2
  <2>3. /\ Cell(row.type, Was(l).type) \in Types /\ Cell(row.region, Was(l).region) \in Regions \cup {None}
        /\ Cell(row.district, Was(l).district) \in Districts \cup {None}
        /\ \A f \in Fields : Cell(row.leader[f], Was(l).leader[f]) \in Persons \cup {None}
    BY <1>1, <2>1 DEF Cell
  <2> QED BY <2>2, <2>3 DEF AsSpelled, Location
<1>4. CASE l \notin DOMAIN locations
  <2>1. Was(l).region = None /\ Was(l).district = None /\ \A f \in Fields : Was(l).leader[f] = None
    BY <1>2, <1>4 DEF Blank
  <2>2. row.type \in Types /\ row.type # None /\ row.retired \in BOOLEAN /\ row.retired # None
    BY <1>1, <1>4 DEF Complete
  <2>3. Cell(row.retired, Was(l).retired) \in BOOLEAN
    BY <2>2 DEF Cell
  <2>4. /\ Cell(row.type, Was(l).type) \in Types /\ Cell(row.region, Was(l).region) \in Regions \cup {None}
        /\ Cell(row.district, Was(l).district) \in Districts \cup {None}
        /\ \A f \in Fields : Cell(row.leader[f], Was(l).leader[f]) \in Persons \cup {None}
    BY <1>1, <2>1, <2>2 DEF Cell
  <2> QED BY <2>3, <2>4 DEF AsSpelled, Location
<1> QED BY <1>3, <1>4

LEMMA RowRetires ==
    ASSUME Readable, NEW l \in Locations, NEW row \in Rows, Complete(l, row)
    PROVE  (~(l \notin DOMAIN locations) /\ row.retired = TRUE /\ ~Was(l).retired => Workers(l) = {}) <=>
           (AsSpelled(l, row).retired /\ (l \in DOMAIN locations => ~locations[l].retired) => Workers(l) = {})
<1>0. Integrity BY DEF Readable
<1>1. row.retired \in {TRUE, FALSE, None} BY DEF Rows
<1>2. AsSpelled(l, row).retired = Cell(row.retired, Was(l).retired) BY DEF AsSpelled
<1>3. CASE l \in DOMAIN locations
  <2>1. Was(l).retired = locations[l].retired /\ locations[l].retired \in BOOLEAN
    BY <1>0, <1>3, Records DEF Was, Location
  <2>2. CASE row.retired = None
    <3>1. row.retired # TRUE BY <2>2, RecordsApart
    <3>2. AsSpelled(l, row).retired = locations[l].retired BY <1>2, <2>1, <2>2 DEF Cell
    <3> QED BY <1>3, <3>1, <3>2
  <2>3. CASE row.retired # None
    <3>1. AsSpelled(l, row).retired = row.retired BY <1>2, <2>3 DEF Cell
    <3>2. CASE row.retired = TRUE BY <1>3, <2>1, <3>1, <3>2
    <3>3. CASE row.retired = FALSE BY <1>3, <3>1, <3>3
    <3> QED BY <1>1, <2>3, <3>2, <3>3
  <2> QED BY <2>2, <2>3
<1>4. CASE l \notin DOMAIN locations
  <2>1. Workers(l) = {}
    BY <1>0, <1>4, Records, NoneAssumption DEF Integrity, WorkplacesOpen, Workers, Workplaces, Person
  <2> QED BY <1>4, <2>1
<1> QED BY <1>3, <1>4

LEMMA RowMoves ==
    ASSUME NEW l \in Locations, NEW place \in Location
    PROVE  (l \notin DOMAIN locations \/ \E c \in {"type", "region", "district"} : place[c] # Was(l)[c]) <=>
           \/ l \notin DOMAIN locations \/ place.type # locations[l].type
           \/ place.region # locations[l].region \/ place.district # locations[l].district
<1>1. (\E c \in {"type", "region", "district"} : place[c] # Was(l)[c]) <=>
           place.type # Was(l).type \/ place.region # Was(l).region \/ place.district # Was(l).district
  OBVIOUS
<1>2. l \in DOMAIN locations => Was(l) = locations[l] BY DEF Was
<1> QED BY <1>1, <1>2

LEMMA ImportRowsForetell == ASSUME Readable PROVE ImportRows
<1>0. Integrity BY DEF Readable
<1> SUFFICES ASSUME NEW l \in Locations, NEW row \in Rows, Complete(l, row)
             PROVE  IF RowReady(l, row) THEN Accepted(LocationSaved(l, Inherited(AsSpelled(l, row))))
                    ELSE ~Accepted(LocationSaved(l, AsSpelled(l, row)))
  BY DEF ImportRows
<1> DEFINE place == AsSpelled(l, row)
           final == Inherited(place)
           new == l \notin DOMAIN locations
           Touched(is) == \/ l \notin DOMAIN locations \/ is.type # locations[l].type
                          \/ is.region # locations[l].region \/ is.district # locations[l].district
           Named(is, f) == /\ is.leader[f] # None
                           /\ l \notin DOMAIN locations \/ locations[l].leader[f] # is.leader[f]
                           /\ f # DistrictManager \/ ~Inheriting(place)
           Retires == place.retired /\ (l \in DOMAIN locations => ~locations[l].retired)
<1>1. place \in Location BY SpelledPlace
<1>2. l \in DOMAIN locations => Was(l) = locations[l] BY DEF Was
<1>3. /\ final \in Location /\ final.type = place.type /\ final.retired = place.retired
      /\ final.region = place.region /\ final.district = place.district
      /\ Inheriting(final) <=> Inheriting(place)
      /\ \A f \in Fields : f # DistrictManager \/ ~Inheriting(place) => final.leader[f] = place.leader[f]
      /\ Inheriting(place) => final.leader[DistrictManager] = districts[place.district].manager
  <2> HIDE DEF place
  <2> QED BY <1>0, <1>1, InheritedIs
<1>4. RowReady(l, row) <=>
        /\ Inheriting(place) /\ ~new /\ ~Entering(l, place) =>
              row.leader[DistrictManager] \in {None, districts[place.district].manager}
        /\ Touched(final) => RegistryIssues(final.region, final.district) = {}
        /\ \A f \in Fields : Named(final, f) => Qualified(final.leader[f], f)
        /\ Retires => Workers(l) = {}
  <2>1. (~new /\ row.retired = TRUE /\ ~Was(l).retired => Workers(l) = {}) <=> (Retires => Workers(l) = {})
    BY RowRetires
  <2>2. (new \/ \E c \in {"type", "region", "district"} : final[c] # Was(l)[c]) <=> Touched(final)
    BY <1>3, RowMoves
  <2>3. \A f \in Fields :
          (/\ final.leader[f] # None /\ (new \/ final.leader[f] # Was(l).leader[f])
           /\ f # DistrictManager \/ ~Inheriting(place)) <=> Named(final, f)
    BY <1>2
  <2> HIDE DEF Touched, Named, Retires
  <2>4. RowReady(l, row) <=>
          /\ Inheriting(place) /\ ~new /\ ~Entering(l, place) =>
                row.leader[DistrictManager] \in {None, districts[place.district].manager}
          /\ new \/ (\E c \in {"type", "region", "district"} : final[c] # Was(l)[c])
                => RegistryIssues(final.region, final.district) = {}
          /\ \A f \in Fields :
              /\ final.leader[f] # None /\ (new \/ final.leader[f] # Was(l).leader[f])
              /\ f # DistrictManager \/ ~Inheriting(place)
              => Qualified(final.leader[f], f)
          /\ ~new /\ row.retired = TRUE /\ ~Was(l).retired => Workers(l) = {}
    BY DEF RowReady
  <2> HIDE DEF place, final, new
  <2> QED BY <2>1, <2>2, <2>3, <2>4
<1>5. \A is \in Location : Accepted(LocationSaved(l, is)) <=> LocationLawful(l, is)
  BY LocationAccepted
<1>6. LocationLawful(l, final) <=>
        /\ Touched(final) => RegistryIssues(final.region, final.district) = {}
        /\ \A f \in Fields : Named(final, f) => Qualified(final.leader[f], f)
        /\ Retires => Workers(l) = {}
  <2> HIDE DEF place, final
  <2>1. Inheriting(final) => final.leader[DistrictManager] = districts[final.district].manager
    BY <1>3
  <2>2. (final.retired /\ (l \in DOMAIN locations => ~locations[l].retired)) <=> Retires
    BY <1>3
  <2> QED BY <1>3, <2>1, <2>2 DEF LocationLawful
<1>7. LocationLawful(l, place) =>
        /\ Touched(place) => RegistryIssues(place.region, place.district) = {}
        /\ \A f \in Fields : Named(place, f) => Qualified(place.leader[f], f)
        /\ Inheriting(place) => place.leader[DistrictManager] = districts[place.district].manager
        /\ Retires => Workers(l) = {}
  <2> HIDE DEF place
  <2> QED BY DEF LocationLawful
<1>8. place.leader[DistrictManager] = Cell(row.leader[DistrictManager], Was(l).leader[DistrictManager])
  BY FieldAssumption DEF AsSpelled
<1> HIDE DEF place, final
<1>9. CASE RowReady(l, row)
  BY <1>3, <1>4, <1>5, <1>6, <1>9 DEF place, final
<1>10. CASE ~RowReady(l, row)
  <2>1. ASSUME LocationLawful(l, place) PROVE RowReady(l, row)
    <3>1. Inheriting(place) => row.leader[DistrictManager] \in {None, districts[place.district].manager}
      BY <1>7, <1>8, <2>1 DEF Cell
    <3>2. Touched(final) => RegistryIssues(final.region, final.district) = {}
      BY <1>3, <1>7, <2>1
    <3>3. \A f \in Fields : Named(final, f) => Qualified(final.leader[f], f)
      BY <1>3, <1>7, <2>1
    <3>4. Retires => Workers(l) = {}
      BY <1>7, <2>1
    <3> HIDE DEF Touched, Named, Retires
    <3> QED BY <1>4, <3>1, <3>2, <3>3, <3>4
  <2> QED BY <1>1, <1>5, <1>10, <2>1 DEF place
<1> QED BY <1>9, <1>10 DEF place, final

(* The review of a removal. What may be assigned may be given a leader.    *)
LEMMA AssignableLocation ==
    ASSUME Integrity, NEW l \in DOMAIN locations, Assignable(l)
    PROVE  Resolved(l)
<1> DEFINE r == locations[l].region
           d == locations[l].district
<1>1. l \notin DOMAIN districts BY Records, RecordsApart
<1>2. /\ ~locations[l].retired
      /\ ~Applicable(l) \/ (HierarchyStatus(l) = "resolved" /\ d # None)
  BY <1>1 DEF Assignable
<1>3. /\ r \in DOMAIN regions \cup {None} /\ d \in DOMAIN districts \cup {None}
      /\ r # None => regions[r].active
      /\ d # None => districts[d].active
      /\ r # None /\ d # None => districts[d].region = r
      /\ Mismatched(l) <=> r = None /\ d # None
  BY PlacesResolve
<1>4. CASE ~Applicable(l)
  BY <1>2, <1>4 DEF Applicable, Resolved
<1>5. CASE HierarchyStatus(l) = "resolved" /\ d # None
  <2>1. ~Mismatched(l) BY <1>5 DEF HierarchyStatus
  <2> QED BY <1>2, <1>3, <1>5, <2>1 DEF Resolved
<1> QED BY <1>2, <1>4, <1>5

LEMMA RemovalForetells ==
    ASSUME Readable, NEW p \in DOMAIN people, NEW desired \in SUBSET Fields, people[p].active,
           NEW choice \in [RemovalRows(p, desired) -> Persons \cup {None}],
           \A row \in RemovalRows(p, desired) : choice[row] \in Replacements(p, row) \cup {None}
    PROVE  Removal(p, desired, choice) <=>
               \A row \in RemovalRows(p, desired) : choice[row] # None => ~Straying(row[1])
<1>0. Integrity /\ p \in Persons /\ people[p] \in Person BY Records DEF Readable
<1> DEFINE required == RemovalRows(p, desired)
           next == [people EXCEPT ![p].positions = desired]
           managers == ManagersChosen(choice)
           leaders == LeadersChosen(choice)
<1>1. /\ DOMAIN locations \cap DOMAIN districts = {} /\ None \notin Persons
  BY <1>0, Records, RecordsApart, NoneAssumption
<1>2. /\ \A f : f \in desired => Eligible(next, p, f)
      /\ \A q, f : q # p => (Eligible(next, q, f) <=> Qualified(q, f))
  BY <1>0 DEF Eligible, Qualified, Person
<1>3. ASSUME NEW d \in DOMAIN districts
      PROVE  <<d, DistrictManager>> \in required <=>
                districts[d].manager = p /\ DistrictManager \notin desired
  BY <1>1 DEF RemovalRows, Responsibilities, OwnedDistricts
<1>4. ASSUME NEW l \in DOMAIN locations, NEW f \in Fields
      PROVE  <<l, f>> \in required <=>
                /\ locations[l].leader[f] = p /\ f \notin desired
                /\ f # DistrictManager \/ ~InheritsNow(l)
  BY <1>1 DEF RemovalRows, Responsibilities, OwnedDistricts
<1>5. ASSUME NEW row \in required
      PROVE  \/ \E d \in DOMAIN districts : row = <<d, DistrictManager>>
             \/ \E l \in DOMAIN locations, f \in Fields : row = <<l, f>>
  BY DEF RemovalRows, Responsibilities, OwnedDistricts
<1>6. ASSUME NEW row \in required, choice[row] # None
      PROVE  Assignable(row[1]) /\ choice[row] # p /\ Qualified(choice[row], row[2])
  BY <1>6 DEF Replacements, Candidates
<1>7. ASSUME NEW d \in DOMAIN districts
      PROVE  Decided(next, p, districts[d].manager, managers[d], DistrictManager, Managed(d)) <=>
                (<<d, DistrictManager>> \in required /\ choice[<<d, DistrictManager>>] # None => ~Straying(d))
  <2> DEFINE row == <<d, DistrictManager>>
  <2>1. managers[d] = IF row \in required THEN choice[row] ELSE districts[d].manager
    BY DEF ManagersChosen
  <2> HIDE DEF next, managers
  <2>2. CASE row \notin required
    BY <1>2, <1>3, <2>1, <2>2 DEF Decided
  <2>3. CASE row \in required /\ choice[row] = None
    BY <1>1, <2>1, <2>3 DEF Decided
  <2>4. CASE row \in required /\ choice[row] # None
    <3> DEFINE q == choice[row]
    <3>1. Assignable(d) /\ q # p /\ Qualified(q, DistrictManager) /\ q \in Persons
      BY <1>6, <2>4
    <3>2. Managed(d) <=> ~Straying(d)
      BY <3>1 DEF Assignable, Managed, Straying
    <3>3. Eligible(next, q, DistrictManager) BY <1>2, <3>1
    <3>4. managers[d] = q /\ districts[d].manager = p BY <1>3, <2>1, <2>4
    <3> HIDE DEF q
    <3>5. Decided(next, p, districts[d].manager, managers[d], DistrictManager, Managed(d)) <=> ~Straying(d)
      BY <3>1, <3>2, <3>3, <3>4 DEF Decided
    <3> QED BY <2>4, <3>5
  <2> QED BY <2>2, <2>3, <2>4
<1>8. ASSUME NEW l \in DOMAIN locations, NEW f \in Fields, f # DistrictManager \/ ~InheritsNow(l)
      PROVE  Decided(next, p, locations[l].leader[f], leaders[l][f], f, Resolved(l))
  <2> DEFINE row == <<l, f>>
  <2>1. leaders[l][f] = IF row \in required THEN choice[row] ELSE locations[l].leader[f]
    BY DEF LeadersChosen
  <2> HIDE DEF next, leaders
  <2>2. CASE row \notin required
    BY <1>2, <1>4, <1>8, <2>1, <2>2 DEF Decided
  <2>3. CASE row \in required /\ choice[row] = None
    BY <1>1, <2>1, <2>3 DEF Decided
  <2>4. CASE row \in required /\ choice[row] # None
    <3> DEFINE q == choice[row]
    <3>1. Assignable(l) /\ q # p /\ Qualified(q, f) /\ q \in Persons
      BY <1>6, <2>4
    <3>2. Resolved(l) BY <1>0, <3>1, AssignableLocation
    <3>3. Eligible(next, q, f) BY <1>2, <3>1
    <3>4. leaders[l][f] = q BY <2>1, <2>4
    <3> HIDE DEF q
    <3> QED BY <3>2, <3>3, <3>4 DEF Decided
  <2> QED BY <2>2, <2>3, <2>4
<1>9. Removal(p, desired, choice) <=>
        \A d \in DOMAIN districts :
            <<d, DistrictManager>> \in required /\ choice[<<d, DistrictManager>>] # None => ~Straying(d)
  <2>1. Removal(p, desired, choice) <=>
          /\ \A d \in DOMAIN districts :
                Decided(next, p, districts[d].manager, managers[d], DistrictManager, Managed(d))
          /\ \A l \in DOMAIN locations, f \in Fields : f # DistrictManager \/ ~InheritsNow(l) =>
                Decided(next, p, locations[l].leader[f], leaders[l][f], f, Resolved(l))
    BY DEF Removal, Unblocked
  <2> HIDE DEF next, managers, leaders, required
  <2> QED BY <1>7, <1>8, <2>1
<1>10. ASSUME NEW row \in required, choice[row] # None,
              \A d \in DOMAIN districts :
                 <<d, DistrictManager>> \in required /\ choice[<<d, DistrictManager>>] # None => ~Straying(d)
       PROVE  ~Straying(row[1])
  <2>1. CASE \E d \in DOMAIN districts : row = <<d, DistrictManager>>
    BY <1>10, <2>1
  <2>2. CASE \E l \in DOMAIN locations, f \in Fields : row = <<l, f>>
    <3>1. row[1] \notin DOMAIN districts BY <1>1, <2>2
    <3> QED BY <3>1 DEF Straying
  <2> QED BY <1>5, <2>1, <2>2
<1>11. ASSUME \A row \in required : choice[row] # None => ~Straying(row[1]), NEW d \in DOMAIN districts,
              <<d, DistrictManager>> \in required, choice[<<d, DistrictManager>>] # None
       PROVE  ~Straying(d)
  <2> DEFINE row == <<d, DistrictManager>>
  <2>1. ~Straying(row[1]) BY <1>11
  <2>2. row[1] = d OBVIOUS
  <2> QED BY <2>1, <2>2
<1> HIDE DEF required
<1> QED BY <1>9, <1>10, <1>11 DEF required

LEMMA RemovalReviewForetells == ASSUME Readable PROVE RemovalReview
BY RemovalForetells DEF RemovalReview

(* What the screens offer the commit takes, and what they hold back it      *)
(* refuses, whatever Directory the batches and the reviewed changes made.   *)
THEOREM ScreensForetellTheCommit == ChangeSpec => []ScreensForetell
<1>1. Readable => ScreensForetell
  BY PersonPageForetells, PersonFormForetells, DistrictPanelForetells, RegistryPanelForetells,
     LocationFormForetells, ImportRowsForetell, RemovalReviewForetells
  DEF ScreensForetell
<1> QED BY <1>1, ReadableHolds, PTL
=============================================================================
