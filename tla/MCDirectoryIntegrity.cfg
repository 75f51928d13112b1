SPECIFICATION ScopedSpec
CONSTANTS
    Persons = {p1, p2}
    Leader = p1
    Locations = {l1}
    Users = {u1}
    Regions = {r1, r2}
    Districts = {d1, d2}
    Fields = {districtManager}
    DistrictManager = districtManager
    Types = {mall, office}
    Retail = {mall}
    None = None
    Unowned = Unowned
    Omitted = Omitted
    MaxWrites = 3
    MaxCells = 2
    Managers = {m1, m2}
    RosterRegions = {x1}
    RosterDistricts = {y1}
    Stores = {s1}
    Operations = {o1, o2}
SYMMETRY Symmetry
INVARIANTS LeadersQualified OneDistrictManager HierarchyCoherent WorkplacesOpen LinksLive ReadersAgree RosterCoherent ScreensForetell
