-------------------------- MODULE PersonTransition --------------------------
(* What a reviewed person change writes, over the records of               *)
(* DirectoryIntegrity: positions taken or given, a person inactivated,     *)
(* workplaces changed, and a decision for every assignment the person      *)
(* holds. The plan is written in the transaction that reads it and passes  *)
(* none of the checks of a batch, so its own blockers must keep what they  *)
(* keep; TransitionOperation is how it comes to be written once.           *)
(*                                                                         *)
(* An intent is represented by what it asks to be true afterwards. Draft   *)
(* Locations, applicability, names and the acknowledgement of pending      *)
(* requests are left out, as is an intent that changes nothing.            *)
EXTENDS DirectoryIntegrity

InheritsNow(l) ==
    /\ locations[l].type \in Retail /\ locations[l].district \in DOMAIN districts
    /\ districts[locations[l].district].manager # Unowned

(* Decisions.                                                              *)
Choices(p, holder) ==
    CASE holder = p    -> Persons \cup {None}   \* retain, replace, vacate
      [] holder = None -> {p, None}             \* assign
      [] OTHER         -> {holder}

(* eligible, and what is asked of a decision to retain. next is people, as *)
(* the change would leave them.                                            *)
Eligible(next, p, f) == p \in DOMAIN next /\ next[p].active /\ f \in next[p].positions

FaultyDecided(next, p, before, after, f, open) ==    \* what is retained is not looked at
    after \in Persons /\ after # before => Eligible(next, after, f) /\ open
Decided(next, p, before, after, f, open) ==
    after \in Persons =>
        /\ after # before => open
        /\ after # before \/ after = p => Eligible(next, after, f)

(* A Location that may be given a leader is outside the hierarchy by its   *)
(* type, or lies wholly inside.                                            *)
Resolved(l) ==
    LET r == locations[l].region  d == locations[l].district IN
    /\ ~locations[l].retired
    /\ \/ locations[l].type \notin Retail /\ r = None /\ d = None
       \/ /\ d \in DOMAIN districts /\ districts[d].active /\ districts[d].region = r
          /\ r \in DOMAIN regions /\ regions[r].active

Members(d) == {l \in DOMAIN locations : locations[l].type \in Retail /\ locations[l].district = d}

(* A District that may be given a manager.                                 *)
Managed(d) ==
    /\ districts[d].active
    /\ districts[d].region \in DOMAIN regions /\ regions[districts[d].region].active
    /\ \A l \in Members(d) : locations[l].region = districts[d].region

Copied(l, managers) ==
    LET d == locations[l].district IN
    IF managers[d] = districts[d].manager THEN locations[l].leader[DistrictManager] ELSE managers[d]

Workplace(p) ==
    LET was == people[p]  is == people'[p]
        Open(l) == l \in DOMAIN locations /\ ~locations[l].retired
    IN
    /\ is.worksAt # was.worksAt => is.worksAt = None \/ Open(is.worksAt)
    /\ is.supports # was.supports => \A l \in is.supports : Open(l)
    /\ is.worksAt # was.worksAt \/ is.supports # was.supports => is.worksAt \notin is.supports

Inactivated(p) == people[p].active /\ ~people'[p].active

(* None of the decisions is blocked, and what they make of the assignments. *)
Unblocked(next, p, managers, leaders) ==
    /\ \A d \in DOMAIN districts :
          Decided(next, p, districts[d].manager, managers[d], DistrictManager, Managed(d))
    /\ \A l \in DOMAIN locations, f \in Fields :
          f # DistrictManager \/ ~InheritsNow(l) =>
             Decided(next, p, locations[l].leader[f], leaders[l][f], f, Resolved(l))

Reassigned(managers, leaders) ==
    /\ districts' = [d \in DOMAIN districts |-> [districts[d] EXCEPT !.manager = managers[d]]]
    /\ locations' = [l \in DOMAIN locations |-> [locations[l] EXCEPT !.leader =
          IF InheritsNow(l) THEN [leaders[l] EXCEPT ![DistrictManager] = Copied(l, managers)]
          ELSE leaders[l]]]

(* The patches of an intent that has no blockers. is is the person after.  *)
TransitionOf(p, persons) ==
    /\ p \in DOMAIN people
    /\ \E is \in persons :
          /\ is.active => people[p].active
          /\ people' = [people EXCEPT ![p] = is]
    /\ Workplace(p)
    /\ Inactivated(p) => \A u \in DOMAIN users : users[u] # p
    /\ \E managers \in {m \in [DOMAIN districts -> Persons \cup {None, Unowned}] :
                          \A d \in DOMAIN districts : m[d] \in Choices(p, districts[d].manager)},
          leaders \in {m \in [DOMAIN locations -> [Fields -> Persons \cup {None}]] :
                          \A l \in DOMAIN locations, f \in Fields :
                             IF f = DistrictManager /\ InheritsNow(l) THEN m[l][f] = locations[l].leader[f]
                             ELSE m[l][f] \in Choices(p, locations[l].leader[f])} :
          Unblocked(people', p, managers, leaders) /\ Reassigned(managers, leaders)
    /\ UNCHANGED <<users, regions>>

Transition(p) == TransitionOf(p, Person)

ChangeNext == Next \/ \E p \in Persons : Transition(p)
ChangeSpec == Init /\ [][ChangeNext]_vars
=============================================================================
