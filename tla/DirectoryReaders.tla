-------------------------- MODULE DirectoryReaders --------------------------
(* What the readers of the Directory make of its relations: the screens,   *)
(* the personnel API (v2), the leadership API (v3), the exported list of   *)
(* stores and the resolution of a Location's place in the hierarchy. Each  *)
(* reads its records and what they refer to in one transaction and follows *)
(* the references by rules of its own; a District Manager is read from the *)
(* District by two of them, and from the Location's copy by the others.    *)
(*                                                                         *)
(* Names, contacts and applicability are left out, and with them the       *)
(* issues that only they can raise.                                        *)
EXTENDS PersonTransition

(* The screens.                                                            *)
FaultyResolvedManager(l) ==    \* whatever the type of the Location
    LET d == locations[l].district IN
    IF d \in DOMAIN districts /\ districts[d].manager # Unowned THEN districts[d].manager
    ELSE locations[l].leader[DistrictManager]
ResolvedManager(l) ==
    IF InheritsNow(l) THEN districts[locations[l].district].manager
    ELSE locations[l].leader[DistrictManager]

ActivePerson(p) == IF p \in DOMAIN people /\ people[p].active THEN p ELSE None

ReadProjection(l) ==
    [f \in Fields |-> ActivePerson(IF f = DistrictManager THEN ResolvedManager(l) ELSE locations[l].leader[f])]

(* The personnel API: a Location's staff, and a person's workplaces.       *)
Issue(code, found) == IF found THEN {code} ELSE {}

ReferenceIssues(p) ==
    Issue("missing_person", p \in Persons \ DOMAIN people) \cup
    Issue("inactive_person", p \in DOMAIN people /\ ~people[p].active)

Retired(l) ==
    LET r == locations[l].region  d == locations[l].district IN
    \/ r \in DOMAIN regions /\ ~regions[r].active
    \/ d \in DOMAIN districts /\ ~districts[d].active
Missing(l) ==
    \/ locations[l].region \notin DOMAIN regions \cup {None}
    \/ locations[l].district \notin DOMAIN districts \cup {None}
Mismatched(l) ==
    LET d == locations[l].district IN d \in DOMAIN districts /\ districts[d].region # locations[l].region

HierarchyIssues(l) ==
    Issue("missing_hierarchy", Missing(l)) \cup Issue("retired_hierarchy", Retired(l)) \cup
    Issue("hierarchy_parent_mismatch", Mismatched(l))

Staffing(l) ==
    [staff |-> locations[l].leader,
     issues |-> HierarchyIssues(l) \cup UNION {ReferenceIssues(locations[l].leader[f]) : f \in Fields}]

PersonIssues(p) ==
    LET links == people[p].supports \cup ({people[p].worksAt} \ {None}) IN
    Issue("missing_location", ~(links \subseteq DOMAIN locations)) \cup
    Issue("retired_location", \E l \in links \cap DOMAIN locations : locations[l].retired) \cup
    Issue("overlapping_workplace", people[p].worksAt \in people[p].supports)

(* The leadership API: explicit ownership of a District, never its copies. *)
DistrictLeadership(d) ==
    LET p == districts[d].manager IN
    [state |-> IF p = Unowned THEN "unmanaged" ELSE IF p = None THEN "vacant"
               ELSE IF p \in DOMAIN people THEN "assigned" ELSE "unresolved",
     manager |-> p, issues |-> ReferenceIssues(p)]

(* The export: staff from the Location alone, and the references counted   *)
(* as missing in its summary.                                              *)
ExportedStaff(l) == [f \in Fields |-> ActivePerson(locations[l].leader[f])]

MissingReferences(l) ==
    {f \in Fields : locations[l].leader[f] # None /\ ActivePerson(locations[l].leader[f]) = None}

(* The hierarchy, in the order in which its conditions are looked at.      *)
HierarchyStatus(l) ==
    IF locations[l].region = None /\ locations[l].district = None THEN "unassigned"
    ELSE IF Mismatched(l) THEN "parent-mismatch"
    ELSE IF Missing(l) THEN "unresolved-reference"
    ELSE IF Retired(l) THEN "retired-reference"
    ELSE "resolved"

(* A non-retail Location is outside the hierarchy until it refers to it.   *)
Applicable(l) == locations[l].type \in Retail \/ locations[l].region # None \/ locations[l].district # None

(* Under which heading the screens list a Location. A District's is named   *)
(* apart from the others.                                                  *)
ASSUME HeadingAssumption == {"unassigned-retail", "operational-centers", "needs-review"} \cap Districts = {}

Group(l) ==
    LET certain == HierarchyIssues(l) = {} IN
    IF locations[l].district # None THEN locations[l].district
    ELSE IF locations[l].type \in Retail /\ certain THEN "unassigned-retail"
    ELSE IF ~Applicable(l) /\ certain THEN "operational-centers"
    ELSE "needs-review"

(* What the screens warn of, beside the leaders they show.                 *)
ReadWarnings(l) ==
    Issue("historical_copy", ResolvedManager(l) # locations[l].leader[DistrictManager]) \cup
    ReferenceIssues(ResolvedManager(l)) \cup
    UNION {ReferenceIssues(locations[l].leader[f]) : f \in Fields \ {DistrictManager}}

(* The Locations on a person's page: where the person works or helps, and  *)
(* those the person leads.                                                 *)
Workplaces(p) == people[p].supports \cup ({people[p].worksAt} \ {None})
Led(p) ==
    {l \in DOMAIN locations : \/ ResolvedManager(l) = p
                              \/ \E f \in Fields \ {DistrictManager} : locations[l].leader[f] = p}
Unavailable(p) ==
    {l \in Workplaces(p) \cup Led(p) : l \in DOMAIN locations => locations[l].retired}

(* The registry as a Location's editor and the reconciliation report check *)
(* it, and the report.                                                     *)
RegistryIssues(r, d) ==
    IF (r # None \/ d # None) /\ (regions = << >> \/ districts = << >>) THEN {"roster_required"}
    ELSE Issue("missing_region", r \notin DOMAIN regions \cup {None}) \cup
         Issue("retired_region", r \in DOMAIN regions /\ ~regions[r].active) \cup
         Issue("missing_district", d \notin DOMAIN districts \cup {None}) \cup
         Issue("retired_district", d \in DOMAIN districts /\ ~districts[d].active) \cup
         Issue("parent_mismatch", r # None /\ d \in DOMAIN districts /\ districts[d].region # r)

LocationIssues(l) ==
    RegistryIssues(locations[l].region, locations[l].district) \cup
    UNION {ReferenceIssues(locations[l].leader[f]) : f \in Fields}

Report ==
    UNION {LocationIssues(l) : l \in DOMAIN locations} \cup
    Issue("invalid_user_link", \E u \in DOMAIN users : users[u] # None /\ ActivePerson(users[u]) = None)

(* The review of hierarchy references made before the hierarchy's cutover, *)
(* in the order of its conditions.                                         *)
ReviewStatus(l) ==
    LET r == locations[l].region  d == locations[l].district IN
    IF ~Applicable(l) THEN "NonApplicable"
    ELSE IF d = None THEN "Unassigned"
    ELSE IF d \notin DOMAIN districts THEN "MissingReference"
    ELSE IF ~districts[d].active THEN "RetiredReference"
    ELSE IF r \notin DOMAIN regions \/ districts[d].region # r THEN "ParentMismatch"
    ELSE IF ~regions[r].active THEN "ParentMismatch"
    ELSE "AlreadyValid"

-----------------------------------------------------------------------------
(* Whichever batches and reviewed changes made the Directory, its readers  *)
(* tell the same of it: the screens and the personnel API name the same    *)
(* leaders of a Location, and so does the export of one that is listed;    *)
(* the leadership API names the same manager of a retail one, none of them *)
(* finds a person or workplace that is missing or no longer there, and the *)
(* hierarchy resolves for the readers, the lists and both reviews. What    *)
(* they may report is a Location with a District and no Region, which a    *)
(* batch may save, and a non-retail one with a Region and no District,     *)
(* which the lists alone hold for review.                                  *)
LocationRead(l) ==
    LET d == locations[l].district
        reported == Issue("hierarchy_parent_mismatch", locations[l].region = None /\ d # None)
    IN
    /\ ReadProjection(l) = Staffing(l).staff /\ Staffing(l).issues = reported
    /\ ReadWarnings(l) = {}
    /\ ~locations[l].retired => ExportedStaff(l) = ReadProjection(l) /\ MissingReferences(l) = {}
    /\ HierarchyStatus(l) \in {"unassigned", "resolved"} <=> reported = {}
    /\ ReviewStatus(l) = "AlreadyValid" <=> HierarchyStatus(l) = "resolved" /\ Group(l) \in DOMAIN districts
    /\ ReviewStatus(l) = "ParentMismatch" <=> reported # {}
    /\ ReviewStatus(l) = "NonApplicable" <=> Group(l) = "operational-centers"
    /\ Group(l) = "needs-review" => HierarchyStatus(l) = "resolved" /\ ReviewStatus(l) = "Unassigned"
    /\ /\ locations[l].type \in Retail /\ d \in DOMAIN districts
       /\ DistrictLeadership(d).state \in {"assigned", "vacant"}
       => DistrictLeadership(d).manager = Staffing(l).staff[DistrictManager]

ReadersAgree ==
    /\ \A l \in DOMAIN locations : LocationRead(l)
    /\ \A d \in DOMAIN districts : DistrictLeadership(d).state # "unresolved" /\ DistrictLeadership(d).issues = {}
    /\ \A p \in DOMAIN people : PersonIssues(p) = {} /\ Unavailable(p) \cap Workplaces(p) = {}
    /\ Report = {}
=============================================================================
