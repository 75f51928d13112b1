----------------------- MODULE DirectoryRefreshProofs -----------------------
(***************************************************************************)
(* The answer of a fenced read never takes back a save that its tab has    *)
(* confirmed, for any number of Locations and Regions, of saves of the tab *)
(* and of other users, of reconciliations and of failures.                 *)
(***************************************************************************)
EXTENDS DirectoryRefresh, FiniteSetTheorems, TLAPS

Saved == [version : Nat, by : Writes \cup {"seed", "others"}]
Read  == Saved \cup {None}

TypeOK ==
    /\ server \in [Records -> Saved]
    /\ local \in [Records -> Saved]
    /\ fence \in [epoch : Nat, pending : Nat]
    /\ read \in [kind : {"none", "poll", "transition"}, epoch : Nat, snap : [Records -> Read]]
    /\ write \in [Writes -> [phase : {"unused", "sent", "served"}, target : Records \cup {None},
                             base : Read, result : Read, waiting : BOOLEAN]]
    /\ \A w \in Writes : write[w].phase # "unused" => write[w].target \in Records /\ write[w].base \in Saved
    /\ \A w \in Writes : write[w].waiting => write[w].phase # "unused"
    /\ \A w \in Writes : write[w].phase = "sent" => write[w].result = None
    /\ registry \in [waiting : BOOLEAN, snap : [Regions -> Saved] \cup {None}]
    /\ confirmed \in [Records -> Nat]

Waiting == {w \in Writes : write[w].waiting}

(* pending counts the saves of this tab that have no answer yet.           *)
PendingCounts == IsFiniteSet(Waiting) /\ fence.pending = Cardinality(Waiting)

(* No answer of a save is ahead of what is saved.                          *)
ConfirmedAreSaved ==
    /\ \A r \in Records : confirmed[r] <= server[r].version
    /\ \A w \in Writes : write[w].phase = "served" /\ write[w].result # None =>
           write[w].result.version <= server[write[w].target].version

(* A read whose epoch is the fence's began when no save was waiting, and    *)
(* none was sent since: nothing was confirmed after what it has read.       *)
UnracedKeeps ==
    read.kind # "none" =>
        /\ read.epoch <= fence.epoch
        /\ read.epoch = fence.epoch =>
             /\ Waiting = {}
             /\ \A r \in Records : read.snap[r] # None => confirmed[r] <= read.snap[r].version

FenceInv == TypeOK /\ PendingCounts /\ ConfirmedAreSaved /\ UnracedKeeps

-----------------------------------------------------------------------------
LEMMA InitFenced == Init => FenceInv
<1> SUFFICES ASSUME Init PROVE FenceInv
    OBVIOUS
<1>1. TypeOK
  BY DEF Init, TypeOK, Saved, Read, NoRead, Unused, Empty, Records
<1>2. Waiting = {}
  BY DEF Init, Waiting, Unused
<1>3. PendingCounts
  BY <1>2, FS_EmptySet DEF Init, PendingCounts
<1>4. ConfirmedAreSaved /\ UnracedKeeps
  BY DEF Init, ConfirmedAreSaved, UnracedKeeps, NoRead, Unused, Records
<1> QED BY <1>1, <1>3, <1>4 DEF FenceInv

(* A save that is sent waits; its answer ends one wait.                    *)
LEMMA Counted ==
    ASSUME FenceInv, NEW w \in Writes
    PROVE  /\ ~write[w].waiting /\ Waiting' = Waiting \cup {w} /\ fence'.pending = fence.pending + 1 => PendingCounts'
           /\ write[w].waiting /\ Waiting' = Waiting \ {w} /\ fence'.pending = fence.pending - 1 => PendingCounts'
<1>1. IsFiniteSet(Waiting) /\ fence.pending = Cardinality(Waiting) /\ Cardinality(Waiting) \in Nat
  BY FS_CardinalityType DEF FenceInv, PendingCounts
<1>2. write[w].waiting <=> w \in Waiting
  BY DEF Waiting
<1>3. IsFiniteSet(Waiting \cup {w}) /\ (w \notin Waiting => Cardinality(Waiting \cup {w}) = Cardinality(Waiting) + 1)
  BY <1>1, FS_AddElement
<1>4. IsFiniteSet(Waiting \ {w}) /\ (w \in Waiting => Cardinality(Waiting \ {w}) = Cardinality(Waiting) - 1)
  BY <1>1, FS_RemoveElement
<1> QED BY <1>1, <1>2, <1>3, <1>4 DEF PendingCounts

LEMMA PendingAtLeast == ASSUME FenceInv, NEW w \in Writes, write[w].waiting PROVE fence.pending > 0
<1>1. IsFiniteSet(Waiting) /\ Waiting # {} /\ fence.pending = Cardinality(Waiting)
  BY DEF FenceInv, PendingCounts, Waiting
<1> QED BY <1>1, FS_EmptySet, FS_CardinalityType

LEMMA NothingPending == FenceInv /\ fence.pending = 0 => Waiting = {}
BY PendingAtLeast DEF Waiting

-----------------------------------------------------------------------------
(* The saves of this tab and of others.                                     *)
LEMMA PersistFenced ==
    ASSUME FenceInv, NEW w \in Writes,
           (\E l \in Locations : UpdateLocation(w, l)) \/ (\E r \in Regions : SaveRegion(w, r))
    PROVE  FenceInv'
<1>1. PICK r \in Records : Persist(w, r) /\ UNCHANGED <<server, read, registry, confirmed>>
            /\ (UNCHANGED local \/ local' = [local EXCEPT ![r] = [@ EXCEPT !.by = w]])
  BY DEF UpdateLocation, SaveRegion, Records
<1>2. /\ write[w].phase = "unused" /\ ~write[w].waiting
      /\ fence' = [epoch |-> fence.epoch + 1, pending |-> fence.pending + 1]
  BY <1>1 DEF Persist, FenceInv, TypeOK
<1>3. TypeOK'
  <2>1. local \in [Records -> Saved] /\ r \in Records
    BY DEF FenceInv, TypeOK
  <2>2. local' \in [Records -> Saved]
    BY <1>1, <2>1 DEF Saved
  <2>3. /\ write' = [write EXCEPT ![w] = [phase |-> "sent", target |-> r, base |-> local[r],
                                      result |-> None, waiting |-> TRUE]]
        /\ local[r] \in Read /\ local[r] \in Saved /\ None \in Read
    BY <1>1, <2>1 DEF Persist, Read
  <2>4. /\ write' \in [Writes -> [phase : {"unused", "sent", "served"}, target : Records \cup {None},
                                   base : Read, result : Read, waiting : BOOLEAN]]
        /\ \A v \in Writes : v # w => write'[v] = write[v]
        /\ write'[w].phase = "sent" /\ write'[w].target = r /\ write'[w].base = local[r] /\ write'[w].waiting
        /\ write'[w].result = None
    BY <2>3 DEF FenceInv, TypeOK
  <2>5. \A v \in Writes :
            /\ write'[v].phase # "unused" => write'[v].target \in Records /\ write'[v].base \in Saved
            /\ write'[v].waiting => write'[v].phase # "unused"
            /\ write'[v].phase = "sent" => write'[v].result = None
    BY <2>1, <2>3, <2>4 DEF FenceInv, TypeOK
  <2> QED BY <1>1, <1>2, <2>2, <2>4, <2>5 DEF FenceInv, TypeOK
<1>4. Waiting' = Waiting \cup {w}
  <2>1. write' = [write EXCEPT ![w] = [phase |-> "sent", target |-> r, base |-> local[r],
                                      result |-> None, waiting |-> TRUE]]
    BY <1>1 DEF Persist
  <2> QED BY <2>1 DEF FenceInv, TypeOK, Waiting
<1>5. PendingCounts'
  BY <1>2, <1>4, Counted DEF FenceInv, TypeOK
<1>6. ConfirmedAreSaved'
  BY <1>1 DEF Persist, FenceInv, TypeOK, ConfirmedAreSaved
<1>7. UnracedKeeps'
  BY <1>1, <1>2 DEF FenceInv, TypeOK, UnracedKeeps
<1> QED BY <1>3, <1>5, <1>6, <1>7 DEF FenceInv

LEMMA ServedFenced ==
    ASSUME FenceInv,
           (\E r \in Records : OutsideSave(r)) \/ (\E w \in Writes : ServeWrite(w))
    PROVE  FenceInv'
<1>1. TypeOK' /\ Waiting' = Waiting /\ UNCHANGED <<fence, read, confirmed>>
  <2>1. ASSUME NEW r \in Records, OutsideSave(r)
        PROVE  TypeOK' /\ Waiting' = Waiting /\ UNCHANGED <<fence, read, confirmed>>
    BY <2>1 DEF FenceInv, TypeOK, Saved, OutsideSave, Steady, Waiting
  <2>2. ASSUME NEW w \in Writes, ServeWrite(w)
        PROVE  TypeOK' /\ Waiting' = Waiting /\ UNCHANGED <<fence, read, confirmed>>
    <3> DEFINE r == write[w].target
               next == [version |-> server[r].version + 1, by |-> w]
    <3>1. r \in Records /\ next \in Saved /\ next \in Read /\ None \in Read
      BY <2>2 DEF FenceInv, TypeOK, Saved, Read, ServeWrite
    <3>2. /\ write[w].phase = "sent" /\ UNCHANGED <<local, fence, read, registry, confirmed>>
          /\ \/ /\ server' = [server EXCEPT ![r] = next]
                /\ write' = [write EXCEPT ![w].phase = "served", ![w].result = next]
             \/ server' = server /\ write' = [write EXCEPT ![w].phase = "served"]
      BY <2>2 DEF ServeWrite
    <3> HIDE DEF next
    <3>3. TypeOK'
      BY <3>1, <3>2 DEF FenceInv, TypeOK
    <3>4. \A v \in Writes : write'[v].waiting = write[v].waiting
      BY <3>2 DEF FenceInv, TypeOK
    <3>5. Waiting' = Waiting
      BY <3>4 DEF Waiting
    <3> QED BY <3>2, <3>3, <3>5
  <2> QED BY <2>1, <2>2
<1>2. Waiting' = Waiting
  BY <1>1
<1>3. \A r \in Records : server'[r].version \in Nat /\ server[r].version \in Nat /\ server'[r].version >= server[r].version
  <2>1. ASSUME NEW r \in Records, OutsideSave(r)
        PROVE  \A s \in Records : server'[s].version \in Nat /\ server[s].version \in Nat /\ server'[s].version >= server[s].version
    BY <2>1 DEF FenceInv, TypeOK, Saved, OutsideSave
  <2>2. ASSUME NEW w \in Writes, ServeWrite(w)
        PROVE  \A s \in Records : server'[s].version \in Nat /\ server[s].version \in Nat /\ server'[s].version >= server[s].version
    <3>1. write[w].target \in Records /\ server \in [Records -> Saved]
      BY <2>2 DEF FenceInv, TypeOK, ServeWrite
    <3>2. UNCHANGED server \/ server' = [server EXCEPT ![write[w].target] =
                                [version |-> server[write[w].target].version + 1, by |-> w]]
      BY <2>2 DEF ServeWrite
    <3> QED BY <3>1, <3>2 DEF Saved
  <2> QED BY <2>1, <2>2
<1>4. \A w \in Writes : write'[w].phase = "served" /\ write'[w].result # None =>
          /\ write'[w].target = write[w].target
          /\ \/ write[w].phase = "served" /\ write'[w].result = write[w].result
             \/ write'[w].result.version <= server'[write[w].target].version
  <2>1. CASE \E r \in Records : OutsideSave(r)
    BY <2>1 DEF OutsideSave
  <2>2. ASSUME NEW v \in Writes, ServeWrite(v)
        PROVE  \A w \in Writes : write'[w].phase = "served" /\ write'[w].result # None =>
          /\ write'[w].target = write[w].target
          /\ \/ write[w].phase = "served" /\ write'[w].result = write[w].result
             \/ write'[w].result.version <= server'[write[w].target].version
    <3> DEFINE r == write[v].target
               next == [version |-> server[r].version + 1, by |-> v]
    <3>1. /\ write[v].phase = "sent" /\ r \in Records /\ server[r].version \in Nat
          /\ DOMAIN server = Records
      BY <2>2 DEF ServeWrite, FenceInv, TypeOK, Saved
    <3>2. \/ write' = [write EXCEPT ![v].phase = "served"] /\ write[v].result = None
          \/ /\ server' = [server EXCEPT ![r] = next]
             /\ write' = [write EXCEPT ![v].phase = "served", ![v].result = next]
      BY <2>2 DEF ServeWrite, FenceInv, TypeOK
    <3> QED BY <3>1, <3>2 DEF FenceInv, TypeOK
  <2> QED BY <2>1, <2>2
<1>5. ConfirmedAreSaved'
  <2>1. \A r \in Records : confirmed'[r] <= server'[r].version
    BY <1>1, <1>3 DEF FenceInv, TypeOK, ConfirmedAreSaved
  <2>2. ASSUME NEW w \in Writes, write'[w].phase = "served", write'[w].result # None
        PROVE  write'[w].result.version <= server'[write'[w].target].version
    <3>1. write[w].target = write'[w].target /\ write'[w].target \in Records /\ write'[w].result \in Saved
      BY <1>1, <1>4, <2>2 DEF TypeOK, Read
    <3>2. CASE write[w].phase = "served" /\ write'[w].result = write[w].result
      <4>1. write[w].result.version <= server[write[w].target].version
        BY <2>2, <3>2 DEF FenceInv, ConfirmedAreSaved
      <4> QED BY <1>3, <3>1, <3>2, <4>1 DEF Saved
    <3> QED BY <1>4, <2>2, <3>1, <3>2
  <2> QED BY <2>1, <2>2 DEF ConfirmedAreSaved
<1>6. PendingCounts' /\ UnracedKeeps'
  BY <1>1, <1>2 DEF FenceInv, PendingCounts, UnracedKeeps
<1> QED BY <1>1, <1>5, <1>6 DEF FenceInv

LEMMA AnsweredFenced ==
    ASSUME FenceInv, NEW w \in Writes, WriteConfirmed(w) \/ WriteFailed(w) PROVE FenceInv'
<1>1. /\ write[w].waiting /\ write' = [write EXCEPT ![w].waiting = FALSE]
      /\ fence' = [fence EXCEPT !.pending = @ - 1] /\ UNCHANGED <<server, read, registry>>
  BY DEF WriteConfirmed, WriteFailed, Settled
<1>2. fence.pending > 0
  BY <1>1, PendingAtLeast
<1>3. TypeOK'
  <2>1. local' \in [Records -> Saved] /\ confirmed' \in [Records -> Nat]
    <3>1. write[w].target \in Records /\ write[w].base \in Saved
          /\ local \in [Records -> Saved] /\ confirmed \in [Records -> Nat]
          /\ (write[w].result # None => write[w].result \in Saved)
      BY <1>1 DEF FenceInv, TypeOK, Read
    <3>2. CASE WriteFailed(w)
      BY <3>1, <3>2 DEF WriteFailed
    <3>3. CASE WriteConfirmed(w)
      BY <3>1, <3>3 DEF WriteConfirmed, Saved
    <3> QED BY <3>2, <3>3
  <2>2. fence' \in [epoch : Nat, pending : Nat]
    BY <1>1, <1>2 DEF FenceInv, TypeOK
  <2> QED BY <1>1, <2>1, <2>2 DEF FenceInv, TypeOK
<1>4. Waiting' = Waiting \ {w}
  BY <1>1 DEF FenceInv, TypeOK, Waiting
<1>5. PendingCounts'
  BY <1>1, <1>4, Counted DEF FenceInv, TypeOK
<1>6. ConfirmedAreSaved'
  <2>1. \A r \in Records : confirmed'[r] <= server[r].version
    BY DEF FenceInv, TypeOK, ConfirmedAreSaved, WriteConfirmed, WriteFailed, Saved, Read
  <2> QED BY <1>1, <2>1 DEF FenceInv, TypeOK, ConfirmedAreSaved
<1>7. w \in Waiting /\ fence'.epoch = fence.epoch
  BY <1>1 DEF Waiting, FenceInv, TypeOK
<1>8. UnracedKeeps'
  BY <1>1, <1>7 DEF FenceInv, TypeOK, UnracedKeeps
<1> QED BY <1>3, <1>5, <1>6, <1>8 DEF FenceInv

-----------------------------------------------------------------------------
(* The reads.                                                               *)
LEMMA ReadFenced ==
    ASSUME FenceInv,
           StartPoll \/ StartTransitionRefresh \/ ServeRead \/ ApplyRead \/ DiscardRead \/ ReadFails
    PROVE  FenceInv'
<1>1. UNCHANGED <<server, write, registry, confirmed>> /\ fence'.pending = fence.pending
  BY DEF StartPoll, StartTransitionRefresh, ServeRead, ApplyRead, DiscardRead, ReadFails, readVars,
         FenceInv, TypeOK
<1>2. TypeOK'
  BY DEF StartPoll, StartTransitionRefresh, ServeRead, ApplyRead, DiscardRead, ReadFails, readVars,
         FenceInv, TypeOK, Complete, NoRead, Empty, Read
<1>3. Waiting' = Waiting /\ PendingCounts' /\ ConfirmedAreSaved'
  BY <1>1 DEF Waiting, FenceInv, PendingCounts, ConfirmedAreSaved
<1>4. UnracedKeeps'
  <2>1. CASE StartPoll \/ StartTransitionRefresh
    <3>1. Waiting = {}
      BY <2>1, NothingPending DEF StartPoll, StartTransitionRefresh, MayRead
    <3>2. read'.epoch = fence'.epoch /\ \A r \in Records : read'.snap[r] = None
      BY <2>1 DEF StartPoll, StartTransitionRefresh, Empty
    <3> QED BY <1>2, <1>3, <3>1, <3>2 DEF UnracedKeeps, TypeOK
  <2>2. CASE ServeRead
    <3>1. read'.epoch = read.epoch /\ read'.kind = read.kind /\ fence' = fence
      BY <2>2 DEF ServeRead, FenceInv, TypeOK
    <3>2. \A r \in Records : read'.snap[r] \in {read.snap[r], server[r]}
      BY <2>2 DEF ServeRead, FenceInv, TypeOK
    <3> QED BY <1>1, <1>3, <3>1, <3>2 DEF FenceInv, TypeOK, UnracedKeeps, ConfirmedAreSaved
  <2>3. CASE ApplyRead \/ DiscardRead \/ ReadFails
    BY <2>3 DEF ApplyRead, DiscardRead, ReadFails, NoRead, UnracedKeeps
  <2> QED BY <2>1, <2>2, <2>3
<1> QED BY <1>2, <1>3, <1>4 DEF FenceInv

LEMMA PanelFenced ==
    ASSUME FenceInv, StartRegistryRefresh \/ ServeRegistry \/ RegistryReturns \/ LeavePanel \/ UNCHANGED vars
    PROVE  FenceInv'
<1>1. UNCHANGED <<server, fence, read, write, confirmed>>
  BY DEF StartRegistryRefresh, ServeRegistry, RegistryReturns, LeavePanel, vars
<1>2. TypeOK'
  <2>1. /\ [r \in Regions |-> server[r]] \in [Regions -> Saved]
        /\ local \in [Records -> Saved]
    BY DEF FenceInv, TypeOK, Records
  <2>2. registry' \in [waiting : BOOLEAN, snap : [Regions -> Saved] \cup {None}]
    <3> DEFINE T == [waiting : BOOLEAN, snap : [Regions -> Saved] \cup {None}]
    <3>1. registry \in T
      BY DEF FenceInv, TypeOK
    <3>2. StartRegistryRefresh => registry' \in T
      BY DEF StartRegistryRefresh
    <3>3. ServeRegistry => registry' \in T
      BY <2>1, <3>1 DEF ServeRegistry
    <3>4. RegistryReturns => registry' \in T
      BY DEF RegistryReturns
    <3>5. LeavePanel \/ UNCHANGED vars => registry' \in T
      BY <3>1 DEF LeavePanel, vars
    <3> QED BY <3>2, <3>3, <3>4, <3>5
  <2>3. registry.snap # None => registry.snap \in [Regions -> Saved]
    BY DEF FenceInv, TypeOK
  <2>4. ~RegistryReturns => UNCHANGED local
    BY DEF StartRegistryRefresh, ServeRegistry, LeavePanel, vars
  <2>5. local' \in [Records -> Saved]
    <3>1. RegistryReturns => registry.snap # None
             /\ local' = [r \in Records |-> IF r \in Regions THEN registry.snap[r] ELSE local[r]]
      BY DEF RegistryReturns
    <3> QED BY <2>1, <2>3, <2>4, <3>1
  <2> QED BY <1>1, <2>2, <2>5 DEF FenceInv, TypeOK
<1>3. Waiting' = Waiting /\ PendingCounts' /\ ConfirmedAreSaved' /\ UnracedKeeps'
  BY <1>1 DEF Waiting, FenceInv, PendingCounts, ConfirmedAreSaved, UnracedKeeps
<1> QED BY <1>2, <1>3 DEF FenceInv

LEMMA StepFenced == FenceInv /\ [Next]_vars => FenceInv'
BY PersistFenced, ServedFenced, AnsweredFenced, ReadFenced, PanelFenced
   DEF Next, WriteReturns, WriteLost

(* For any number of Locations and Regions and of saves of them: whatever   *)
(* is saved, polled, refreshed, lost or left, a read of the                 *)
(* Directory that ends with its answer on the screen shows every record at  *)
(* least as new as the newest save of it this tab has confirmed             *)
(* (refreshOperatingDirectory, refreshTransitionDirectory and the write     *)
(* fence of DirectoryContext.tsx).                                          *)
THEOREM ReadsRespectTheFence == Spec => FencedReadsKeepConfirmedSaves
<1>1. ASSUME FenceInv, [Next]_vars, read.kind # "none", read'.kind = "none", local' # local
      PROVE  \A r \in Records : local'[r].version >= confirmed[r]
  <2>1. ApplyRead
    <3>1. (\E r \in Records : OutsideSave(r)) \/ UNCHANGED vars => read' = read
      BY DEF OutsideSave, vars
    <3>2. \A w \in Writes :
             /\ \A l \in Locations : UpdateLocation(w, l) => read' = read
             /\ \A r \in Regions : SaveRegion(w, r) => read' = read
             /\ ServeWrite(w) \/ WriteReturns(w) \/ WriteLost(w) => read' = read
      BY DEF UpdateLocation, SaveRegion, ServeWrite, WriteReturns, WriteLost, WriteConfirmed, WriteFailed
    <3>3. StartPoll \/ StartTransitionRefresh \/ ServeRead => read'.kind # "none"
      BY <1>1 DEF StartPoll, StartTransitionRefresh, ServeRead, FenceInv, TypeOK
    <3>4. DiscardRead \/ ReadFails => local' = local
      BY DEF DiscardRead, ReadFails
    <3>5. StartRegistryRefresh \/ ServeRegistry \/ RegistryReturns \/ LeavePanel => read' = read
      BY DEF StartRegistryRefresh, ServeRegistry, RegistryReturns, LeavePanel
    <3> QED BY <1>1, <3>1, <3>2, <3>3, <3>4, <3>5 DEF Next
  <2>2. local' = read.snap /\ Unraced /\ \A r \in Records : read.snap[r] # None
    BY <2>1 DEF ApplyRead, Complete
  <2> QED BY <1>1, <2>2 DEF FenceInv, TypeOK, UnracedKeeps, Unraced, Saved, Read
<1>2. FenceInv /\ [Next]_vars =>
          [read.kind # "none" /\ read'.kind = "none" /\ local' # local =>
              \A r \in Records : local'[r].version >= confirmed[r]]_vars
  BY <1>1
<1> QED BY <1>2, InitFenced, StepFenced, PTL DEF Spec, FencedReadsKeepConfirmedSaves
=============================================================================
