------------------------ MODULE MCDirectoryIntegrity ------------------------
(* Two scopes in one state space. Outside the hierarchy: two people, one   *)
(* Location and an account, in batches of three, enough to promote, to     *)
(* inactivate and to swap. Inside it: one person who holds positions but   *)
(* no workplace, a Location of two types, two Regions and two Districts,   *)
(* or two such people beside one of each, in batches of two, enough for a  *)
(* handover. A Directory that lies in both continues in either. The        *)
(* rosters of leaders are explored alone, scope says where: a Region, its  *)
(* District and a store in the District, in the Region or in both, two     *)
(* people and two plans.                                                   *)
EXTENDS DirectoryScreens, TLC

CONSTANTS Leader, Managers, RosterRegions, RosterDistricts, Stores, Operations

VARIABLES scope, qualified, units, tenures, stores

Rosters == INSTANCE LeadershipRoster WITH Regions <- RosterRegions, Districts <- RosterDistricts
rosterVars == <<qualified, units, tenures, stores>>

ASSUME RosterAssumption == Rosters!NamesApart

Unplaced == {l \in Location : l.type \in Retail /\ l.region = None /\ l.district = None}
Leaders  == {p \in Person : p.worksAt = None /\ p.supports = {}}
Placed   == {l \in Location : ~l.retired}

CommitRelations ==
    \E W \in SUBSET (Persons \cup Locations \cup Users) :
        /\ regions = << >> /\ \A l \in DOMAIN locations : locations[l] \in Unplaced
        /\ Cardinality(W) <= MaxWrites
        /\ CommitOf(W, Person, Unplaced)

\* One person beside two Regions and two Districts, or two beside one of each.
Small(persons, registry) ==
    \/ persons \cap Persons \subseteq {Leader}
    \/ Cardinality(registry \cap Regions) <= 1 /\ Cardinality(registry \cap Districts) <= 1

CommitHierarchy ==
    \E W \in SUBSET (Persons \cup Locations \cup Regions \cup Districts) :
        /\ users = << >> /\ Small(DOMAIN people \cup W, UNION {DOMAIN regions, DOMAIN districts, W})
        /\ \A p \in DOMAIN people : people[p] \in Leaders
        /\ \A l \in DOMAIN locations : locations[l] \in Placed
        /\ W \in Batches /\ Cardinality(W) < MaxWrites
        /\ CommitOf(W, Leaders, Placed)

ChangeRelations ==
    /\ regions = << >> /\ \A l \in DOMAIN locations : locations[l] \in Unplaced
    /\ \E p \in Persons : TransitionOf(p, Person)

ChangeHierarchy ==
    /\ users = << >> /\ Small(DOMAIN people, DOMAIN regions \cup DOMAIN districts)
    /\ \A p \in DOMAIN people : people[p] \in Leaders
    /\ \A l \in DOMAIN locations : locations[l] \in Placed
    /\ \E p \in Persons : TransitionOf(p, Leaders)

RostersInit ==
    /\ Rosters!Init
    /\ \A u \in Rosters!Units : units[u].active
    /\ \A r \in RosterRegions : units[r].primary = None
    /\ \A d \in RosterDistricts : units[d].parent # None
    /\ \A s \in Stores : stores[s].kind # "other" /\ stores[s].applicable
                      /\ (stores[s].region # None \/ stores[s].district # None)
                      /\ stores[s].copies = [type \in Rosters!UnitTypes |-> None]

ScopedInit ==
    /\ Init
    /\ \/ scope = "records" /\ qualified = None /\ units = None /\ tenures = {} /\ stores = None
       \/ scope = "rosters" /\ RostersInit

ScopedSpec == ScopedInit /\ [][
    \/ scope = "records" /\ UNCHANGED <<scope, rosterVars>>
        /\ (CommitRelations \/ CommitHierarchy \/ ChangeRelations \/ ChangeHierarchy)
    \/ scope = "rosters" /\ Rosters!Next /\ UNCHANGED <<scope, vars>>]_<<vars, scope, rosterVars>>

\* Every managed unit can be planned again, and its stores carry its primary.
RosterCoherent == scope = "rosters" => Rosters!RosterCoherent

Symmetry == Permutations(Regions) \cup Permutations(Districts)
    \cup Permutations(Managers) \cup Permutations(Operations)
=============================================================================
