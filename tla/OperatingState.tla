--------------------------- MODULE OperatingState ---------------------------
(* The calculation of a Location's current state (resolveOperatingState)   *)
(* and a page or API consumer that shows its answer until the transition   *)
(* the answer names (API.md, Current operating state).                     *)
(*                                                                         *)
(* Instants and wall times are integers of one unit, Day of them to a day; *)
(* a zone has one offset before an instant and another from it on, so that *)
(* a wall time may occur never or twice. A date is a number of days, a     *)
(* weekday its remainder. Reasons and issues are left out: every answer    *)
(* that needs verification is Unknown.                                     *)
EXTENDS Integers, FiniteSets, FiniteSetsExt

CONSTANTS
    Day, Week,
    Zones,              \* [offset, at, by]: local time, changed by "by" from "at" on
    None,
    Locations,          \* the records a run starts from
    MaxTime, MaxUpdates

Hours == [closed : BOOLEAN, open : 0 .. Day - 1, close : 0 .. Day - 1]
Closure == [starts : Int, ends : Int, zone : Zones]
OperatingLocation ==
    [status : {"Active", "Draft", "Retired"},
     lifecycle : {"normal", "modified", "emergency", "remodel", "ended", "other"},
     zone : Zones \cup {None}, closure : Closure \cup {None},
     standard : [0 .. Week - 1 -> Hours],
     dated : SUBSET (Int \X Hours)]

VARIABLES
    now, location,
    shown,      \* the last answer read and the record it was made from, or None
    updates

vars == <<now, location, shown, updates>>

-----------------------------------------------------------------------------
(* Local time.                                                             *)
Wall(zone, t) == t + zone.offset + IF t >= zone.at THEN zone.by ELSE 0
DateOf(zone, t) == Wall(zone, t) \div Day

\* Zones and records are of their kinds, no clock is set back to an earlier
\* date, and a closure has begun when it is saved.
Dated ==
    /\ {Day, Week} \subseteq Nat \ {0} /\ None \notin Int
    /\ Zones \subseteq [offset : Int, at : Int, by : Int]
    /\ \A z \in Zones : DateOf(z, z.at - 1) <= DateOf(z, z.at)
    /\ Locations \subseteq OperatingLocation
    /\ \A l \in Locations : l.closure # None => l.closure.starts <= 0

(* nextLocalMidnight: a search between now and a day and a half later.     *)
NextLocalMidnight(t, zone) ==
    LET search[r \in Int \X Int] ==
            LET mid == (r[1] + r[2]) \div 2 IN
            IF r[2] - r[1] <= 1 THEN r[2]
            ELSE search[IF DateOf(zone, mid) = DateOf(zone, t) THEN <<mid, r[2]>> ELSE <<r[1], mid>>]
    IN  search[<<t, t + (3 * Day) \div 2>>]

(* wallInstants: a wall time that is skipped has none, a repeated one two. *)
WallInstants(date, time, zone) ==
    LET wall == date * Day + time
        noon == date * Day + Day \div 2
        offsets == {Wall(zone, t) - t : t \in {noon + k * (Day \div 2) : k \in -3 .. 3}}
    IN  {t \in {wall - o : o \in offsets} : Wall(zone, t) = wall}

ValidHours(h) == h.closed \/ h.open # h.close

(* The hours of a date: dated ones, if they agree, before weekly ones.     *)
ScheduleOf(l, date) ==
    LET overrides == {d[2] : d \in {e \in l.dated : e[1] = date}}
        weekly == l.standard[date % Week]
    IN  IF overrides # {}
        THEN IF Cardinality(overrides) = 1 /\ \A h \in overrides : ValidHours(h)
             THEN [hours |-> CHOOSE h \in overrides : TRUE, dated |-> TRUE] ELSE None
        ELSE IF ValidHours(weekly) THEN [hours |-> weekly, dated |-> FALSE] ELSE None

(* The shift that begins on a date, as instants; None if it cannot be told *)
(* and {} if there is none.                                                *)
ShiftOf(l, date) ==
    LET entry == ScheduleOf(l, date)
        h == entry.hours
        starts == WallInstants(date, h.open, l.zone)
        ends == WallInstants(IF h.close < h.open THEN date + 1 ELSE date, h.close, l.zone)
    IN  IF entry = None THEN {None}
        ELSE IF h.closed THEN {}
        ELSE IF starts = {} \/ ends = {} THEN {None}
        ELSE {<<Min(starts), Max(ends)>>}

-----------------------------------------------------------------------------
(* An answer: the state, and when to ask again (None: no earlier than a    *)
(* change of the record).                                                  *)
Answer(state, next) == [state |-> state, next |-> next]

ClosureValid(c) == c.starts < c.ends /\ NextLocalMidnight(c.starts, c.zone) = c.ends

(* What the schedule says of an instant of today, and the instants at      *)
(* which that may change.                                                  *)
Shifts(l, t) == (UNION {ShiftOf(l, DateOf(l.zone, t) + k) : k \in {-1, 0, 1}}) \ {None}

FaultyChanges(l, t) == {s[1] : s \in Shifts(l, t)}     \* closing is no transition
Changes(l, t) == UNION {{s[1], s[2]} : s \in Shifts(l, t)}

Scheduled(l, t, boundaries) ==
    LET today == DateOf(l.zone, t)
        told == ShiftOf(l, today - 1) # {None} /\ ShiftOf(l, today) # {None}
        open == \E s \in Shifts(l, t) : s[1] <= t /\ t < s[2]
    IN  IF ~told THEN Answer("Unknown", NextLocalMidnight(t, l.zone))
        ELSE Answer(IF open THEN "Open" ELSE "Closed",
                    Min(boundaries \cup {u \in Changes(l, t) : u > t}))

Ended(l) == l.status = "Retired" \/ l.lifecycle = "ended"

Boundaries(l, t) ==
    {NextLocalMidnight(t, l.zone)} \cup
    IF l.closure = None THEN {} ELSE {u \in {l.closure.starts, l.closure.ends} : u > t}

OnClosure(l, t) == l.closure # None /\ l.closure.starts <= t /\ t < l.closure.ends

ResolveOperatingState(l, t) ==
    LET midnight == NextLocalMidnight(t, l.zone)
        entry == ScheduleOf(l, DateOf(l.zone, t))
    IN
    IF Ended(l) THEN Answer("Closed", None)
    ELSE IF l.zone = None THEN Answer("Unknown", None)
    ELSE IF l.status # "Active" THEN Answer("Unknown", midnight)
    ELSE IF l.closure # None /\ ~ClosureValid(l.closure) THEN Answer("Unknown", midnight)
    ELSE IF OnClosure(l, t) THEN Answer("Closed", Min(Boundaries(l, t)))
    ELSE IF l.lifecycle = "emergency" THEN Answer("Closed", midnight)
    ELSE IF l.lifecycle \notin {"normal", "modified"} THEN Answer("Unknown", midnight)
    ELSE IF entry = None THEN Answer("Unknown", midnight)
    ELSE IF l.lifecycle = "modified" /\ ~entry.dated THEN Answer("Unknown", midnight)
    ELSE IF entry.hours.closed /\ entry.dated THEN Answer("Closed", midnight)
    ELSE Scheduled(l, t, Boundaries(l, t))

-----------------------------------------------------------------------------
Init == now = 0 /\ location \in Locations /\ shown = None /\ updates = 0

Tick == now < MaxTime /\ now' = now + 1 /\ UNCHANGED <<location, shown, updates>>

Update(l) ==
    /\ updates < MaxUpdates /\ updates' = updates + 1
    /\ location' = l /\ UNCHANGED <<now, shown>>

(* A closure runs from its confirmation to the next midnight of the zone   *)
(* the Location has then; an editor may choose another zone under it, and  *)
(* the commit keeps the closure as it is.                                  *)
Close ==
    /\ location.zone # None
    /\ Update([location EXCEPT !.closure =
          [starts |-> now, ends |-> NextLocalMidnight(now, location.zone), zone |-> location.zone]])

Reopen == location.closure # None /\ Update([location EXCEPT !.closure = None])

Rezone(zone) == location.closure # None /\ Update([location EXCEPT !.zone = zone])

(* Shown once, and again at each transition and after each change.         *)
Due == shown # None =>
    \/ shown.of # location
    \/ shown.answer.next # None /\ shown.answer.next <= now

Read ==
    /\ Due
    /\ shown' = [of |-> location, answer |-> ResolveOperatingState(location, now)]
    /\ UNCHANGED <<now, location, updates>>

Next == Tick \/ Close \/ Reopen \/ Read \/ \E zone \in Zones \cup {None} : Rezone(zone)

Spec == Init /\ [][Next]_vars

-----------------------------------------------------------------------------
(* What is shown is the state of the Location at every moment until the    *)
(* transition that was named with it, unless the record was changed: over  *)
(* overnight shifts, dated hours that replace or contradict weekly ones,   *)
(* closures that end at a midnight of another zone, and days on which wall *)
(* times are skipped or repeated.                                          *)
ShownStateHolds ==
    (shown # None /\ shown.of = location /\ (shown.answer.next = None \/ now < shown.answer.next))
        => ResolveOperatingState(location, now).state = shown.answer.state
=============================================================================
