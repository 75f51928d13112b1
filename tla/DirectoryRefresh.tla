-------------------------- MODULE DirectoryRefresh --------------------------
(***************************************************************************)
(* The Directory one browser tab shows (DirectoryContext) against the      *)
(* saved one: optimistic and awaited saves, the background poll, the       *)
(* reconciliation that follows a transition, and the registry panel's own  *)
(* refresh. A write fence (epoch and pending) is meant to discard the      *)
(* answer of a read that raced with a save of this tab.                    *)
(*                                                                         *)
(* Locations and Regions stand for the collections a poll replaces. Other  *)
(* users save them too. An answer may arrive late or be lost.              *)
(***************************************************************************)
EXTENDS Naturals

CONSTANTS
    Locations, Regions,
    Writes,         \* saves of this tab
    None,           \* nothing
    MaxVersion,     \* bound: versions other users' saves may reach
    MaxRefreshes,   \* bound: transition reconciliations
    MaxFailures     \* bound: lost answers and failed reads

VARIABLES
    server,     \* saved records
    local,      \* records the tab shows
    fence,      \* writeFence: [epoch, pending]
    read,       \* the one read under "polling": [kind, epoch, snap]
    write,      \* each save of this tab
    registry,   \* the registry refresh in flight: [waiting, snap]
    panel,      \* what the mounted registry panel waits for
    refreshes, failures,
    confirmed   \* history: highest version a save was confirmed with

vars == <<server, local, fence, read, write, registry, panel, refreshes, failures, confirmed>>
readVars == <<server, write, registry, panel, confirmed>>

Records == Locations \cup Regions
Empty == [r \in Records |-> None]
NoRead == [kind |-> "none", epoch |-> 0, snap |-> Empty]
Unused == [phase |-> "unused", target |-> None, base |-> None, result |-> None, waiting |-> FALSE]

Init ==
    /\ server = [r \in Records |-> [version |-> 0, by |-> "seed"]]
    /\ local = server
    /\ fence = [epoch |-> 0, pending |-> 0]
    /\ read = NoRead
    /\ write = [w \in Writes |-> Unused]
    /\ registry = [waiting |-> FALSE, snap |-> None]
    /\ panel = None
    /\ refreshes = 0 /\ failures = 0
    /\ confirmed = [r \in Records |-> 0]

Failing == failures < MaxFailures /\ failures' = failures + 1
Steady == UNCHANGED <<refreshes, failures>>

-----------------------------------------------------------------------------
OutsideSave(r) ==
    /\ server[r].version < MaxVersion
    /\ server' = [server EXCEPT ![r] = [version |-> @.version + 1, by |-> "others"]]
    /\ UNCHANGED <<local, fence, read, write, registry, panel, confirmed>> /\ Steady

(* persist: every save raises the fence before it is sent.                 *)
Persist(w, r) ==
    /\ write[w].phase = "unused"
    /\ fence' = [epoch |-> fence.epoch + 1, pending |-> fence.pending + 1]
    /\ write' = [write EXCEPT ![w] = [phase |-> "sent", target |-> r, base |-> local[r],
                                      result |-> None, waiting |-> TRUE]]

(* updateLocation shows the change at once, at the version it edits.       *)
UpdateLocation(w, l) ==
    /\ Persist(w, l)
    /\ local' = [local EXCEPT ![l] = [@ EXCEPT !.by = w]]
    /\ UNCHANGED <<server, read, registry, panel, confirmed>> /\ Steady

SaveRegion(w, r) ==
    /\ panel = None /\ panel' = w
    /\ Persist(w, r)
    /\ UNCHANGED <<server, local, read, registry, confirmed>> /\ Steady

(* FirestoreDirectoryStore.commit, as far as versions go.                  *)
ServeWrite(w) ==
    LET saved == server[write[w].target]
        next == [version |-> saved.version + 1, by |-> w]
    IN /\ write[w].phase = "sent"
       /\ IF saved.version = write[w].base.version
          THEN /\ server' = [server EXCEPT ![write[w].target] = next]
               /\ write' = [write EXCEPT ![w].phase = "served", ![w].result = next]
          ELSE /\ write' = [write EXCEPT ![w].phase = "served"]
               /\ UNCHANGED server
       /\ UNCHANGED <<local, fence, read, registry, panel, confirmed>> /\ Steady

FaultySettled == fence      \* a save that failed keeps the fence up
Settled == [fence EXCEPT !.pending = @ - 1]

Released(id) == IF panel = id THEN None ELSE panel

(* reconcileCommittedRecords: the committed record replaces the shown one. *)
WriteConfirmed(w) ==
    LET r == write[w].target
        saved == write[w].result
    IN /\ write[w].waiting /\ write[w].phase = "served" /\ saved # None
       /\ local' = [local EXCEPT ![r] = saved]
       /\ confirmed' = [confirmed EXCEPT ![r] = IF saved.version > @ THEN saved.version ELSE @]
       /\ fence' = [fence EXCEPT !.pending = @ - 1]
       /\ write' = [write EXCEPT ![w].waiting = FALSE]
       /\ panel' = Released(w)
       /\ UNCHANGED <<server, read, registry>>

(* A refused or lost save: a Location goes back to what it was before.     *)
WriteFailed(w) ==
    /\ write[w].waiting
    /\ local' = IF write[w].target \in Locations
                THEN [local EXCEPT ![write[w].target] = write[w].base] ELSE local
    /\ fence' = Settled
    /\ write' = [write EXCEPT ![w].waiting = FALSE]
    /\ panel' = Released(w)
    /\ UNCHANGED <<server, read, registry, confirmed>>

WriteReturns(w) ==
    /\ WriteConfirmed(w) \/ (write[w].phase = "served" /\ write[w].result = None /\ WriteFailed(w))
    /\ Steady
WriteLost(w) == Failing /\ WriteFailed(w) /\ UNCHANGED refreshes

-----------------------------------------------------------------------------
MayRead == read.kind = "none" /\ fence.pending = 0

(* refreshOperatingDirectory, on a timer and whenever the tab is shown.    *)
StartPoll ==
    /\ MayRead
    /\ read' = [kind |-> "poll", epoch |-> fence.epoch, snap |-> Empty]
    /\ UNCHANGED <<local, fence, readVars>> /\ Steady

(* refreshTransitionDirectory raises the epoch, so that no earlier answer  *)
(* is applied after it.                                                    *)
StartTransitionRefresh ==
    /\ MayRead /\ refreshes < MaxRefreshes
    /\ refreshes' = refreshes + 1
    /\ fence' = [fence EXCEPT !.epoch = @ + 1]
    /\ read' = [kind |-> "transition", epoch |-> fence'.epoch, snap |-> Empty]
    /\ UNCHANGED <<local, failures, readVars>>

(* readOperatingDirectory is one read-only transaction; the bootstrap read *)
(* gets each collection at its own time.                                   *)
ServeRead ==
    /\ \/ read.kind = "poll" /\ read.snap = Empty /\ read' = [read EXCEPT !.snap = server]
       \/ /\ read.kind = "transition"
          /\ \E collection \in {Locations, Regions} :
                /\ \A r \in collection : read.snap[r] = None
                /\ read' = [read EXCEPT !.snap =
                      [r \in Records |-> IF r \in collection THEN server[r] ELSE @[r]]]
    /\ UNCHANGED <<local, fence, readVars>> /\ Steady

Complete == read.kind # "none" /\ \A r \in Records : read.snap[r] # None

FaultyUnraced == fence.pending = 0      \* a save that came and went is not noticed
Unraced == read.epoch = fence.epoch /\ fence.pending = 0

ApplyRead ==
    /\ Complete /\ Unraced
    /\ local' = read.snap /\ read' = NoRead
    /\ UNCHANGED <<fence, readVars>> /\ Steady

DiscardRead ==
    /\ Complete /\ ~Unraced
    /\ read' = NoRead
    /\ UNCHANGED <<local, fence, readVars>> /\ Steady

ReadFails ==
    /\ Failing /\ read.kind # "none"
    /\ read' = NoRead
    /\ UNCHANGED <<local, fence, refreshes, readVars>>

-----------------------------------------------------------------------------
(* refreshConflict: the panel's own refresh, outside the fence.            *)
StartRegistryRefresh ==
    /\ panel = None /\ ~registry.waiting
    /\ panel' = "refresh"
    /\ registry' = [waiting |-> TRUE, snap |-> None]
    /\ UNCHANGED <<server, local, fence, read, write, confirmed>> /\ Steady

ServeRegistry ==
    /\ registry.waiting /\ registry.snap = None
    /\ registry' = [registry EXCEPT !.snap = [r \in Regions |-> server[r]]]
    /\ UNCHANGED <<server, local, fence, read, write, panel, confirmed>> /\ Steady

RegistryReturns ==
    /\ registry.waiting /\ registry.snap # None
    /\ local' = [r \in Records |-> IF r \in Regions THEN registry.snap[r] ELSE local[r]]
    /\ registry' = [waiting |-> FALSE, snap |-> None]
    /\ panel' = Released("refresh")
    /\ UNCHANGED <<server, fence, read, write, confirmed>> /\ Steady

(* Another view and back: the panel is a new one, its calls go on.         *)
LeavePanel ==
    /\ panel # None /\ panel' = None
    /\ UNCHANGED <<server, local, fence, read, write, registry, confirmed>> /\ Steady

-----------------------------------------------------------------------------
Next ==
    \/ \E r \in Records : OutsideSave(r)
    \/ \E w \in Writes : \/ \E l \in Locations : UpdateLocation(w, l)
                         \/ \E r \in Regions : SaveRegion(w, r)
                         \/ ServeWrite(w) \/ WriteReturns(w) \/ WriteLost(w)
    \/ StartPoll \/ StartTransitionRefresh \/ ServeRead \/ ApplyRead \/ DiscardRead \/ ReadFails
    \/ StartRegistryRefresh \/ ServeRegistry \/ RegistryReturns \/ LeavePanel

(* The interval timer keeps polling a visible tab and every read ends with *)
(* an answer or its timeout; a save that was sent is served and answered.  *)
Fairness ==
    /\ WF_vars(StartPoll \/ ServeRead \/ ApplyRead \/ DiscardRead)
    /\ \A w \in Writes : WF_vars(ServeWrite(w)) /\ WF_vars(WriteReturns(w))

Spec == Init /\ [][Next]_vars
FairSpec == Spec /\ Fairness

-----------------------------------------------------------------------------
(* The answer of a poll or of a transition's reconciliation never takes    *)
(* back a save this tab has already confirmed to its user.                 *)
FencedReadsKeepConfirmedSaves ==
    [][read.kind # "none" /\ read'.kind = "none" /\ local' # local =>
          \A r \in Records : local'[r].version >= confirmed[r]]_vars

(* Whatever was lost, refused, raced or rolled back, the tab in the end    *)
(* shows what is saved.                                                    *)
EventuallyFresh == <>[](local = server)

(* "Read responses racing a local write are discarded": no read at all     *)
(* takes back a Region save this tab has confirmed.                        *)
ReadsKeepConfirmedSaves == \A r \in Regions : local[r].version >= confirmed[r]
=============================================================================
