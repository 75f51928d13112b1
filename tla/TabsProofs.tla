----------------------------- MODULE TabsProofs -----------------------------
(***************************************************************************)
(* What the tabs of an administrator may rely on, for any numbers of tabs, *)
(* operations, identities, records and failures. First the controllers of  *)
(* a Person change: a marker outlives every request that can still take    *)
(* effect, and what a tab saw or said of an operation stays true, because  *)
(* outcomes are final and a tab forgets only what it has seen final. Then  *)
(* the session of a tab, which no late answer takes back; the records that *)
(* admit an identity, which bind it to one life of one record; and what    *)
(* the outbox says of the mail that invites it.                            *)
(***************************************************************************)
EXTENDS MCTabs, TLAPS

(* The client of Person changes.                                           *)
Outcomes == {"unknown", "prepared"} \cup Terminal
Seen == UNION {[S -> Outcomes] : S \in SUBSET Ops}
Controller == [phase : Phases, step : Steps, reviewed : Ops \cup {None}, recovered : BOOLEAN,
               op : Ops \cup {None}, local : SUBSET Ops, listed : SUBSET Ops, seen : Seen]

ClientTypes ==
    /\ outcome \in [Ops -> Outcomes] /\ applied \in [Ops -> {0, 1}]
    /\ sent \subseteq {"prepare", "commit", "cancel"} \X Ops
    /\ vault \subseteq Ops /\ shown \subseteq Ops /\ cleared \subseteq Ops
    /\ told \subseteq Terminal \X Ops
    /\ tab \in [Tabs -> Controller]

(* The business writes are made exactly by the commits.                    *)
AppliedWhenCommitted == \A o \in Ops : applied[o] = IF outcome[o] = "committed" THEN 1 ELSE 0

(* What a controller c holds is sound for the outcomes there are and the   *)
(* changes that were displayed: a final status that a recovery was         *)
(* answered is still the outcome and, if a change was saved, displayed     *)
(* before markers are forgotten; a call that awaits an answer names its    *)
(* operation, and one that is being resolved is final, and displayed       *)
(* before its marker is removed.                                           *)
Sound(c, outcomes, displayed) ==
    /\ \A o \in DOMAIN c.seen :
          /\ c.seen[o] \in Terminal => outcomes[o] = c.seen[o]
          /\ c.step = "finishing" /\ c.seen[o] = "committed" => o \in displayed
    /\ c.step \in {"prepare", "commit", "cancel", "resolve-refresh", "resolve-remove"} => c.op \in Ops
    /\ c.step = "resolve-refresh" => outcomes[c.op] = "committed"
    /\ c.step = "resolve-remove" =>
          outcomes[c.op] \in Terminal /\ (outcomes[c.op] = "committed" => c.op \in displayed)

ControllersSound == \A t \in Tabs : Sound(tab[t], outcome, shown)

ClientInv ==
    /\ ClientTypes /\ AppliedWhenCommitted /\ ControllersSound
    /\ UnresolvedNeverForgotten /\ SavedShownBeforeForgotten /\ ToldTruth

-----------------------------------------------------------------------------
(* What a step of a tab may do to what it shares: markers go only to a     *)
(* sign-out or with an outcome that is final and shown, requests leave     *)
(* only for marked operations, and what is told is the outcome.            *)
Final(o, seen) == outcome[o] \in Terminal /\ (outcome[o] = "committed" => o \in seen)

Requested(o, messages) == {<<"prepare", o>>, <<"commit", o>>} \cap messages # {}

Careful(t) ==
    /\ UNCHANGED serverVars
    /\ tab'[t] \in Controller /\ Sound(tab'[t], outcome', shown') /\ tab' = [tab EXCEPT ![t] = tab'[t]]
    /\ sent' \subseteq {"prepare", "commit", "cancel"} \X Ops
    /\ vault' \subseteq Ops /\ shown \subseteq shown' /\ shown' \subseteq Ops
    /\ cleared' \subseteq Ops
    /\ \A o \in vault \cup cleared : o \in vault' \cup cleared' \/ Final(o, shown')
    /\ \A o \in Ops : Requested(o, sent') => Requested(o, sent) \/ o \in vault'
    /\ \A r \in told' : r \in told \/ (r \in Terminal \X Ops /\ outcome[r[2]] = r[1])

LEMMA ClosedSound ==
    /\ Closed \in Controller /\ Closed.step = "idle" /\ DOMAIN Closed.seen = {}
<1>1. [o \in {} |-> "unknown"] \in [{} -> Outcomes] OBVIOUS
<1>2. [o \in {} |-> "unknown"] \in Seen BY <1>1 DEF Seen
<1> QED BY <1>2 DEF Closed, Controller, Phases, Steps

LEMMA FailedSound ==
    ASSUME NEW c \in Controller
    PROVE  /\ Uncertain(c) \in Controller /\ Uncertain(c).step = "idle" /\ Uncertain(c).seen = Closed.seen
           /\ RecoverFailed(c) \in Controller /\ RecoverFailed(c).step = "idle"
           /\ RecoverFailed(c).seen = Closed.seen
<1>1. /\ Uncertain(c) \in Controller /\ Uncertain(c).step = "idle" /\ Uncertain(c).seen = Closed.seen
  <2>1. c.reviewed \in Ops \cup {None} BY DEF Controller
  <2> QED BY <2>1, ClosedSound DEF Uncertain, Controller, Phases
<1> QED BY <1>1 DEF RecoverFailed, Controller, Phases

(* A controller that awaits nothing and has seen nothing is sound.         *)
LEMMA QuietSound ==
    ASSUME NEW c, c.step = "idle", c.seen = Closed.seen
    PROVE  Sound(c, outcome, shown) /\ Sound(c, outcome', shown')
BY ClosedSound DEF Sound, Closed

(* The invariant survives every careful step.                              *)
LEMMA CarefulStep ==
    ASSUME ClientInv, NEW t \in Tabs, Careful(t)
    PROVE  ClientInv'
<1> USE DEF ClientInv, serverVars
<1>1. outcome' = outcome /\ applied' = applied /\ shown \subseteq shown' BY DEF Careful
<1>2. ClientTypes'
  <2>1. told' \subseteq Terminal \X Ops BY DEF Careful, ClientTypes
  <2>2. tab' \in [Tabs -> Controller] BY DEF Careful, ClientTypes
  <2> QED BY <1>1, <2>1, <2>2 DEF Careful, ClientTypes
<1>3. AppliedWhenCommitted' BY <1>1 DEF AppliedWhenCommitted
<1>4. ControllersSound'
  <2> SUFFICES ASSUME NEW s \in Tabs PROVE Sound(tab'[s], outcome', shown') BY DEF ControllersSound
  <2>1. CASE s = t BY <2>1 DEF Careful
  <2>2. CASE s # t
    <3>1. tab'[s] = tab[s] BY <2>2 DEF Careful, ClientTypes
    <3>2. Sound(tab[s], outcome, shown) BY DEF ControllersSound
    <3> QED BY <1>1, <3>1, <3>2 DEF Sound
  <2> QED BY <2>1, <2>2
<1>5. UnresolvedNeverForgotten'
  <2> SUFFICES ASSUME NEW o \in Ops, Requested(o, sent'), outcome[o] \notin Terminal
               PROVE  o \in vault' \cup cleared'
    BY <1>1 DEF UnresolvedNeverForgotten, Requested
  <2>1. CASE o \in vault' BY <2>1
  <2>2. CASE Requested(o, sent)
    <3>1. o \in vault \cup cleared BY <2>2 DEF UnresolvedNeverForgotten, Requested
    <3> QED BY <3>1 DEF Careful, Final
  <2> QED BY <2>1, <2>2 DEF Careful
<1>6. SavedShownBeforeForgotten'
  <2> SUFFICES ASSUME NEW o \in Ops, outcome[o] = "committed" PROVE o \in vault' \cup cleared' \cup shown'
    BY <1>1 DEF SavedShownBeforeForgotten
  <2>1. o \in vault \cup cleared \cup shown BY DEF SavedShownBeforeForgotten
  <2> QED BY <1>1, <2>1 DEF Careful, Final
<1>7. ToldTruth'
  <2> SUFFICES ASSUME NEW r \in told'
               PROVE  outcome[r[2]] = r[1] /\ applied[r[2]] = IF r[1] = "committed" THEN 1 ELSE 0
    BY <1>1 DEF ToldTruth
  <2>1. CASE r \in told BY <2>1 DEF ToldTruth
  <2>2. CASE r \in Terminal \X Ops /\ outcome[r[2]] = r[1] BY <2>2 DEF AppliedWhenCommitted
  <2> QED BY <2>1, <2>2 DEF Careful
<1> QED BY <1>2, <1>3, <1>4, <1>5, <1>6, <1>7

(* The server answers any request that was ever sent.                      *)
LEMMA ServerKeeps == ClientInv /\ ServerStep => ClientInv'
<1> SUFFICES ASSUME ClientInv, NEW o \in Ops, ServerPrepare(o) \/ ServerCommit(o) \/ ServerCancel(o),
                    UNCHANGED <<sent, vault, tab, used, failures, historyVars>>
             PROVE  ClientInv'
  BY DEF ServerStep
<1> USE DEF ClientInv, historyVars
<1>1. /\ outcome' = [outcome EXCEPT ![o] = outcome'[o]] /\ outcome'[o] \in Outcomes
      /\ outcome[o] \notin Terminal
      /\ applied' = IF outcome'[o] = "committed" THEN [applied EXCEPT ![o] = 1] ELSE applied
      /\ outcome'[o] = "committed" => Requested(o, sent)
  BY DEF ServerPrepare, ServerCommit, ServerCancel, Server!Prepare, Server!Commit, Server!Cancel,
         ClientTypes, Outcomes, Terminal, Requested
<1>2. ClientTypes' BY <1>1 DEF ClientTypes
<1>3. AppliedWhenCommitted' BY <1>1 DEF AppliedWhenCommitted, ClientTypes, Terminal
<1>4. \A p \in Ops : outcome[p] \in Terminal => outcome'[p] = outcome[p] BY <1>1 DEF ClientTypes
<1>5. ControllersSound'
  <2> SUFFICES ASSUME NEW t \in Tabs PROVE Sound(tab'[t], outcome', shown') BY DEF ControllersSound
  <2>1. Sound(tab[t], outcome, shown) /\ DOMAIN tab[t].seen \subseteq Ops
    BY DEF ControllersSound, ClientTypes, Controller, Seen
  <2> QED BY <1>4, <2>1 DEF Sound, Terminal
<1>6. UnresolvedNeverForgotten' BY <1>1, <1>4 DEF UnresolvedNeverForgotten, ClientTypes
<1>7. SavedShownBeforeForgotten'
  <2> SUFFICES ASSUME NEW p \in Ops, outcome'[p] = "committed" PROVE p \in vault \cup cleared \cup shown
    BY DEF SavedShownBeforeForgotten
  <2>1. CASE p = o BY <1>1, <2>1 DEF UnresolvedNeverForgotten, Requested
  <2>2. CASE p # o BY <1>1, <2>2 DEF SavedShownBeforeForgotten, ClientTypes
  <2> QED BY <2>1, <2>2
<1>8. ToldTruth'
  <2> SUFFICES ASSUME NEW r \in told
               PROVE  outcome'[r[2]] = r[1] /\ applied'[r[2]] = IF r[1] = "committed" THEN 1 ELSE 0
    BY DEF ToldTruth
  <2>1. r[2] \in Ops /\ r[1] \in Terminal /\ outcome[r[2]] = r[1] BY DEF ClientTypes, ToldTruth
  <2> QED BY <1>3, <1>4, <2>1 DEF AppliedWhenCommitted
<1> QED BY <1>2, <1>3, <1>5, <1>6, <1>7, <1>8

(* A step that only changes its controller, into a sound one, is careful.  *)
LEMMA OwnStep ==
    ASSUME ClientInv, NEW t \in Tabs, NEW c \in Controller, Sound(c, outcome', shown'), Set(t, c),
           UNCHANGED <<serverVars, sent, vault, historyVars>>
    PROVE  Careful(t)
<1>1. tab'[t] = c /\ tab' = [tab EXCEPT ![t] = tab'[t]] BY DEF Set, ClientInv, ClientTypes
<1>2. Sound(tab'[t], outcome', shown') BY <1>1 DEF Sound
<1> QED BY <1>1, <1>2 DEF Careful, ClientInv, ClientTypes, historyVars, Requested

(* What a controller in its place is, and that sound it stays.             *)
LEMMA ControllerOf ==
    ASSUME ClientInv, NEW t \in Tabs
    PROVE  tab[t] \in Controller /\ Sound(tab[t], outcome, shown)
BY DEF ClientInv, ClientTypes, ControllersSound

LEMMA OpenCareful == ClientInv => \A t \in Tabs : Open(t) => Careful(t)
<1> SUFFICES ASSUME ClientInv, NEW t \in Tabs, Open(t) PROVE Careful(t) OBVIOUS
<1> DEFINE c == [Closed EXCEPT !.phase = "recovery-required"]
<1>1. c \in Controller /\ c.step = "idle" /\ c.seen = Closed.seen
  BY ClosedSound DEF Controller, Phases
<1>2. Sound(c, outcome', shown') BY <1>1, QuietSound
<1> HIDE DEF c
<1>3. Set(t, c) BY DEF Open, c
<1> QED BY <1>1, <1>2, <1>3, OwnStep DEF Open

LEMMA RecoverListCareful == ClientInv => \A t \in Tabs : RecoverList(t) => Careful(t)
<1> SUFFICES ASSUME ClientInv, NEW t \in Tabs, RecoverList(t) PROVE Careful(t) OBVIOUS
<1> DEFINE c == [tab[t] EXCEPT !.step = "persisting", !.recovered = FALSE, !.local = vault,
                               !.listed = {o \in Ops : outcome[o] = "prepared"}]
<1>1. tab[t] \in Controller /\ Sound(tab[t], outcome, shown) BY ControllerOf
<1>2. c \in Controller /\ c.step = "persisting" /\ c.seen = tab[t].seen
  BY <1>1 DEF Controller, Steps, ClientInv, ClientTypes
<1>3. outcome' = outcome /\ shown' = shown BY DEF RecoverList, serverVars, historyVars
<1> HIDE DEF c
<1>4. Sound(c, outcome', shown') BY <1>1, <1>2, <1>3 DEF Sound
<1>5. Set(t, c) BY DEF RecoverList, c
<1> QED BY <1>2, <1>4, <1>5, OwnStep DEF RecoverList

LEMMA RecoverPersistCareful == ClientInv => \A t \in Tabs : RecoverPersist(t) => Careful(t)
<1> SUFFICES ASSUME ClientInv, NEW t \in Tabs, RecoverPersist(t) PROVE Careful(t) OBVIOUS
<1> DEFINE c == [tab[t] EXCEPT !.step = "status", !.local = @ \cup tab[t].listed,
                               !.seen = [o \in {} |-> "unknown"]]
<1>1. tab[t] \in Controller BY ControllerOf
<1>2. [o \in {} |-> "unknown"] = Closed.seen BY DEF Closed
<1>3. c \in Controller /\ c.step = "status" /\ c.seen = Closed.seen
  <2>1. Closed.seen \in Seen BY ClosedSound DEF Controller
  <2> QED BY <1>1, <1>2, <2>1 DEF Controller, Steps
<1> HIDE DEF c
<1>4. Sound(c, outcome', shown') BY <1>3, ClosedSound DEF Sound
<1>5. Set(t, c) BY DEF RecoverPersist, c
<1>6. tab'[t] = c /\ tab' = [tab EXCEPT ![t] = tab'[t]] BY <1>5 DEF Set, ClientInv, ClientTypes
<1>7. Sound(tab'[t], outcome', shown') BY <1>4, <1>6 DEF Sound
<1>8. vault \subseteq vault' /\ vault' \subseteq Ops
  BY <1>1 DEF RecoverPersist, ClientInv, ClientTypes, Controller
<1> QED BY <1>3, <1>6, <1>7, <1>8 DEF Careful, RecoverPersist, ClientInv, ClientTypes, historyVars, Requested

LEMMA RecoverStatusCareful == ClientInv => \A t \in Tabs, o \in Ops : RecoverStatus(t, o) => Careful(t)
<1> SUFFICES ASSUME ClientInv, NEW t \in Tabs, NEW o \in Ops, RecoverStatus(t, o) PROVE Careful(t) OBVIOUS
<1> DEFINE f == [p \in DOMAIN tab[t].seen \cup {o} |-> IF p = o THEN outcome[o] ELSE tab[t].seen[p]]
           c == [tab[t] EXCEPT !.seen = f]
<1>1. tab[t] \in Controller /\ Sound(tab[t], outcome, shown) /\ tab[t].step = "status" BY ControllerOf DEF RecoverStatus
<1>2. PICK S \in SUBSET Ops : tab[t].seen \in [S -> Outcomes] BY <1>1 DEF Controller, Seen
<1>3. f \in [S \cup {o} -> Outcomes] BY <1>2 DEF ClientInv, ClientTypes
<1>4. f \in Seen BY <1>3 DEF Seen
<1>5. \A p \in DOMAIN f : f[p] \in Terminal => outcome[p] = f[p] BY <1>1 DEF Sound
<1> HIDE DEF f
<1>6. c \in Controller /\ c.step = "status" /\ c.seen = f BY <1>1, <1>4 DEF Controller
<1>7. outcome' = outcome BY DEF RecoverStatus, serverVars
<1>8. Set(t, c) BY DEF RecoverStatus, f
<1> HIDE DEF c
<1>9. Sound(c, outcome', shown') BY <1>5, <1>6, <1>7 DEF Sound
<1> QED BY <1>6, <1>8, <1>9, OwnStep DEF RecoverStatus

LEMMA RecoverReconcileCareful == ClientInv => \A t \in Tabs : RecoverReconcile(t) => Careful(t)
<1> SUFFICES ASSUME ClientInv, NEW t \in Tabs, RecoverReconcile(t) PROVE Careful(t) OBVIOUS
<1> DEFINE step == IF \E o \in tab[t].local : tab[t].seen[o] = "committed" THEN "refreshing" ELSE "finishing"
           c == [tab[t] EXCEPT !.step = step]
<1>1. /\ tab[t] \in Controller /\ Sound(tab[t], outcome, shown) /\ tab[t].step = "status" /\ DOMAIN tab[t].seen = tab[t].local
      /\ UNCHANGED <<serverVars, sent, vault, historyVars>>
      /\ Set(t, IF vault # tab[t].local THEN RecoverFailed(tab[t]) ELSE c)
  BY ControllerOf DEF RecoverReconcile
<1>2. CASE vault # tab[t].local
  <2>1. RecoverFailed(tab[t]) \in Controller /\ Sound(RecoverFailed(tab[t]), outcome', shown') BY <1>1, FailedSound, QuietSound
  <2> QED BY <1>1, <1>2, <2>1, OwnStep
<1>3. CASE vault = tab[t].local
  <2>1. c \in Controller /\ c.step = step /\ c.seen = tab[t].seen BY <1>1 DEF Controller, Steps
  <2>2. step = "finishing" => \A o \in DOMAIN c.seen : c.seen[o] # "committed" BY <1>1, <2>1
  <2>3. step \in {"refreshing", "finishing"} /\ Set(t, c) BY <1>1, <1>3
  <2> HIDE DEF c, step
  <2>4. Sound(c, outcome', shown') BY <1>1, <2>1, <2>2, <2>3 DEF Sound, serverVars
  <2> QED BY <1>1, <2>1, <2>3, <2>4, OwnStep
<1> QED BY <1>2, <1>3

(* What a refresh shows: every change that was saved.                      *)
LEMMA RefreshShows ==
    ASSUME ClientInv, Refresh
    PROVE  shown \subseteq shown' /\ shown' \subseteq Ops /\ \A o \in Ops : outcome[o] = "committed" => o \in shown'
BY DEF ClientInv, ClientTypes, AppliedWhenCommitted, Refresh

LEMMA RecoverRefreshCareful == ClientInv => \A t \in Tabs : RecoverRefresh(t) => Careful(t)
<1> SUFFICES ASSUME ClientInv, NEW t \in Tabs, RecoverRefresh(t) PROVE Careful(t) OBVIOUS
<1> DEFINE c == [tab[t] EXCEPT !.step = "finishing"]
<1>1. tab[t] \in Controller /\ Sound(tab[t], outcome, shown) BY ControllerOf
<1>2. c \in Controller /\ c.step = "finishing" /\ c.seen = tab[t].seen BY <1>1 DEF Controller, Steps
<1>3. Set(t, c) BY DEF RecoverRefresh
<1> HIDE DEF c
<1>4. /\ outcome' = outcome /\ shown \subseteq shown' /\ shown' \subseteq Ops
      /\ \A o \in Ops : outcome[o] = "committed" => o \in shown'
  BY RefreshShows DEF RecoverRefresh, serverVars
<1>5. DOMAIN c.seen \subseteq Ops BY <1>2 DEF Controller, Seen
<1>6. Sound(c, outcome', shown') BY <1>1, <1>2, <1>4, <1>5 DEF Sound, Terminal
<1>7. tab'[t] = c /\ tab' = [tab EXCEPT ![t] = tab'[t]] BY <1>3 DEF Set, ClientInv, ClientTypes
<1> QED BY <1>2, <1>4, <1>6, <1>7 DEF Careful, RecoverRefresh, ClientInv, ClientTypes, Requested

(* What a recovery forgets is final, and shown if it is saved.             *)
LEMMA ForgettableFinal ==
    ASSUME NEW c \in Controller, Sound(c, outcome, shown), c.step = "finishing", NEW o \in Forgettable(c)
    PROVE  /\ o \in Ops /\ Merged(c, o) = outcome[o] /\ Final(o, shown)
<1>1. o \in DOMAIN c.seen /\ Merged(c, o) \in Terminal BY DEF Forgettable
<1>2. Merged(c, o) = c.seen[o] /\ c.seen[o] \in Terminal BY <1>1 DEF Merged, Terminal
<1>3. o \in Ops BY <1>1 DEF Controller, Seen
<1> QED BY <1>1, <1>2, <1>3 DEF Sound, Final

LEMMA RecoverFinishCareful == ClientInv => \A t \in Tabs : RecoverFinish(t) => Careful(t)
<1> SUFFICES ASSUME ClientInv, NEW t \in Tabs, RecoverFinish(t) PROVE Careful(t) OBVIOUS
<1> DEFINE done == Forgettable(tab[t])
           keep == IF tab[t].reviewed \in done \/ vault \ done = {} THEN None ELSE tab[t].reviewed
           c(phase) == [Closed EXCEPT !.phase = phase, !.recovered = TRUE, !.reviewed = keep]
<1>1. /\ tab[t] \in Controller /\ Sound(tab[t], outcome, shown) /\ tab[t].step = "finishing"
      /\ UNCHANGED <<serverVars, sent, shown, cleared>>
      /\ vault' = vault \ done
      /\ told' = told \cup {<<Merged(tab[t], o), o>> : o \in done}
  BY ControllerOf DEF RecoverFinish
<1>2. PICK phase \in Phases : Set(t, c(phase))
  BY DEF RecoverFinish, Phases, PhaseOf
<1>3. c(phase) \in Controller /\ c(phase).step = "idle" /\ c(phase).seen = Closed.seen
  <2>1. keep \in Ops \cup {None} BY <1>1 DEF Controller
  <2> HIDE DEF keep
  <2> QED BY <2>1, ClosedSound DEF Controller
<1>4. \A o \in done : o \in Ops /\ Merged(tab[t], o) = outcome[o] /\ Final(o, shown)
  BY <1>1, ForgettableFinal
<1> HIDE DEF done, keep, c
<1>5. Sound(c(phase), outcome', shown') BY <1>3, QuietSound
<1>6. tab'[t] = c(phase) /\ tab' = [tab EXCEPT ![t] = tab'[t]] BY <1>2 DEF Set, ClientInv, ClientTypes
<1>7. \A r \in told' : r \in told \/ (r \in Terminal \X Ops /\ outcome[r[2]] = r[1])
  BY <1>1, <1>4 DEF Final
<1> QED BY <1>1, <1>3, <1>4, <1>5, <1>6, <1>7 DEF Careful, ClientInv, ClientTypes, Requested

LEMMA StageCareful == ClientInv => \A t \in Tabs, o \in Ops : Stage(t, o) => Careful(t)
<1> SUFFICES ASSUME ClientInv, NEW t \in Tabs, NEW o \in Ops, Stage(t, o) PROVE Careful(t) OBVIOUS
<1> DEFINE c == [tab[t] EXCEPT !.phase = "review-ready", !.reviewed = o]
<1>1. tab[t] \in Controller /\ Sound(tab[t], outcome, shown) BY ControllerOf
<1>2. c \in Controller /\ c.step = tab[t].step /\ c.seen = tab[t].seen /\ c.op = tab[t].op
  BY <1>1 DEF Controller, Phases
<1>3. Set(t, c) /\ outcome' = outcome /\ shown' = shown BY DEF Stage, serverVars, historyVars
<1> HIDE DEF c
<1>4. Sound(c, outcome', shown') BY <1>1, <1>2, <1>3 DEF Sound
<1> QED BY <1>2, <1>3, <1>4, OwnStep DEF Stage

LEMMA InvalidateReviewCareful == ClientInv => \A t \in Tabs : InvalidateReview(t) => Careful(t)
<1> SUFFICES ASSUME ClientInv, NEW t \in Tabs, InvalidateReview(t) PROVE Careful(t) OBVIOUS
<1> DEFINE c == [tab[t] EXCEPT !.phase = "review-required", !.reviewed = None]
<1>1. tab[t] \in Controller /\ Sound(tab[t], outcome, shown) BY ControllerOf
<1>2. c \in Controller /\ c.step = tab[t].step /\ c.seen = tab[t].seen /\ c.op = tab[t].op
  BY <1>1 DEF Controller, Phases
<1>3. Set(t, c) /\ outcome' = outcome /\ shown' = shown BY DEF InvalidateReview, serverVars, historyVars
<1> HIDE DEF c
<1>4. Sound(c, outcome', shown') BY <1>1, <1>2, <1>3 DEF Sound
<1> QED BY <1>2, <1>3, <1>4, OwnStep DEF InvalidateReview

LEMMA PrepareExpiredCareful == ClientInv => \A t \in Tabs : PrepareExpired(t) => Careful(t)
<1> SUFFICES ASSUME ClientInv, NEW t \in Tabs, PrepareExpired(t) PROVE Careful(t) OBVIOUS
<1> DEFINE c == [tab[t] EXCEPT !.phase = "review-required", !.reviewed = None]
<1>1. tab[t] \in Controller /\ Sound(tab[t], outcome, shown) BY ControllerOf
<1>2. c \in Controller /\ c.step = tab[t].step /\ c.seen = tab[t].seen /\ c.op = tab[t].op
  BY <1>1 DEF Controller, Phases
<1>3. Set(t, IF vault = {} THEN c ELSE Uncertain(tab[t])) /\ outcome' = outcome /\ shown' = shown
  BY DEF PrepareExpired, serverVars, historyVars
<1> HIDE DEF c
<1>4. Sound(c, outcome', shown') BY <1>1, <1>2, <1>3 DEF Sound
<1>5. Uncertain(tab[t]) \in Controller /\ Sound(Uncertain(tab[t]), outcome', shown')
  BY <1>1, FailedSound, QuietSound
<1>6. CASE vault = {} BY <1>2, <1>3, <1>4, <1>6, OwnStep DEF PrepareExpired
<1>7. CASE vault # {} BY <1>3, <1>5, <1>7, OwnStep DEF PrepareExpired
<1> QED BY <1>6, <1>7

(* A call is sent by a controller that awaits it, of its own operation,    *)
(* which a prepare or commit has marked first.                             *)
LEMMA SendStep ==
    ASSUME ClientInv, NEW t \in Tabs, NEW c \in Controller, Set(t, c),
           NEW o \in Ops, c.op = o, c.seen = tab[t].seen, c.step \in {"prepare", "commit", "cancel"},
           sent' = sent \cup {<<c.step, o>>}, vault' = IF c.step = "cancel" THEN vault ELSE vault \cup {o},
           UNCHANGED <<serverVars, historyVars>>
    PROVE  Careful(t)
<1>1. Sound(tab[t], outcome, shown) BY ControllerOf
<1>2. Sound(c, outcome', shown') BY <1>1 DEF Sound, serverVars, historyVars
<1>3. tab'[t] = c /\ tab' = [tab EXCEPT ![t] = tab'[t]] BY DEF Set, ClientInv, ClientTypes
<1>4. \A p \in Ops : Requested(p, sent') => Requested(p, sent) \/ p \in vault' BY DEF Requested
<1>5. sent' \subseteq {"prepare", "commit", "cancel"} \X Ops BY DEF ClientInv, ClientTypes
<1>6. vault \subseteq vault' /\ vault' \subseteq Ops BY DEF ClientInv, ClientTypes
<1> QED BY <1>2, <1>3, <1>4, <1>5, <1>6 DEF Careful, ClientInv, ClientTypes, historyVars

LEMMA PrepareCareful == ClientInv => \A t \in Tabs : Prepare(t) => Careful(t)
<1> SUFFICES ASSUME ClientInv, NEW t \in Tabs, Prepare(t) PROVE Careful(t) OBVIOUS
<1> DEFINE o == tab[t].reviewed
           c == [tab[t] EXCEPT !.phase = "preparing", !.step = "prepare", !.recovered = FALSE, !.op = o]
<1>1. tab[t] \in Controller BY ControllerOf
<1>2. o \in Ops BY <1>1 DEF Prepare, Controller
<1>3. c \in Controller /\ c.op = o /\ c.seen = tab[t].seen /\ c.step = "prepare"
  BY <1>1, <1>2 DEF Controller, Phases, Steps
<1>4. Set(t, c) /\ sent' = sent \cup {<<"prepare", o>>} /\ vault' = vault \cup {o}
  BY DEF Prepare, Mark
<1> HIDE DEF c, o
<1> QED BY <1>2, <1>3, <1>4, SendStep DEF Prepare

LEMMA CommitCareful == ClientInv => \A t \in Tabs : Commit(t) => Careful(t)
<1> SUFFICES ASSUME ClientInv, NEW t \in Tabs, Commit(t) PROVE Careful(t) OBVIOUS
<1> DEFINE o == tab[t].reviewed
           c == [tab[t] EXCEPT !.phase = "saving", !.step = "commit", !.op = o]
<1>1. tab[t] \in Controller BY ControllerOf
<1>2. o \in Ops BY <1>1 DEF Commit, Controller
<1>3. c \in Controller /\ c.op = o /\ c.seen = tab[t].seen /\ c.step = "commit"
  BY <1>1, <1>2 DEF Controller, Phases, Steps
<1>4. \/ Set(t, Uncertain(tab[t])) /\ UNCHANGED <<vault, sent>>
      \/ Set(t, c) /\ sent' = sent \cup {<<"commit", o>>} /\ vault' = vault \cup {o}
  BY DEF Commit, Mark
<1>5. CASE Set(t, Uncertain(tab[t])) /\ UNCHANGED <<vault, sent>>
  <2>1. Uncertain(tab[t]) \in Controller /\ Sound(Uncertain(tab[t]), outcome', shown')
    BY <1>1, FailedSound, QuietSound
  <2> QED BY <1>5, <2>1, OwnStep DEF Commit
<1>6. CASE Set(t, c) /\ sent' = sent \cup {<<"commit", o>>} /\ vault' = vault \cup {o}
  <2> HIDE DEF c, o
  <2> QED BY <1>2, <1>3, <1>6, SendStep DEF Commit
<1> QED BY <1>4, <1>5, <1>6

LEMMA CancelCareful == ClientInv => \A t \in Tabs, o \in Ops : Cancel(t, o) => Careful(t)
<1> SUFFICES ASSUME ClientInv, NEW t \in Tabs, NEW o \in Ops, Cancel(t, o) PROVE Careful(t) OBVIOUS
<1> DEFINE c == [tab[t] EXCEPT !.step = "cancel", !.op = o]
<1>1. tab[t] \in Controller BY ControllerOf
<1>2. c \in Controller /\ c.op = o /\ c.seen = tab[t].seen /\ c.step = "cancel"
  BY <1>1 DEF Controller, Steps
<1>3. Set(t, c) /\ sent' = sent \cup {<<"cancel", o>>} /\ vault' = vault BY DEF Cancel
<1> HIDE DEF c
<1> QED BY <1>2, <1>3, SendStep DEF Cancel

LEMMA RefusedCareful == ClientInv => \A t \in Tabs : Refused(t) => Careful(t)
<1> SUFFICES ASSUME ClientInv, NEW t \in Tabs, Refused(t) PROVE Careful(t) OBVIOUS
<1>1. Uncertain(tab[t]) \in Controller /\ Sound(Uncertain(tab[t]), outcome', shown')
  BY ControllerOf, FailedSound, QuietSound
<1> QED BY <1>1, OwnStep DEF Refused

(* The receipt that ends a call is final, and stays the outcome.           *)
LEMMA AnsweredCareful == ClientInv => \A t \in Tabs : Answered(t) => Careful(t)
<1> SUFFICES ASSUME ClientInv, NEW t \in Tabs, Answered(t) PROVE Careful(t) OBVIOUS
<1> DEFINE result == outcome[tab[t].op]
           step == IF result = "committed" THEN "resolve-refresh" ELSE "resolve-remove"
           c == [tab[t] EXCEPT !.phase = "prepared", !.step = "idle", !.op = None]
           d == [tab[t] EXCEPT !.step = step]
<1>1. tab[t] \in Controller /\ Sound(tab[t], outcome, shown) BY ControllerOf
<1>2. tab[t].op \in Ops BY <1>1 DEF Answered, Calling, Sound
<1>3. \/ Set(t, c)
      \/ result \in Conclusive(tab[t].step) /\ Set(t, d)
  BY DEF Answered, CommittedNext
<1>4. UNCHANGED <<serverVars, sent, vault, historyVars>> BY DEF Answered
<1>5. CASE Set(t, c)
  <2>1. c \in Controller /\ c.step = "idle" /\ c.seen = tab[t].seen
    BY <1>1 DEF Controller, Phases, Steps
  <2> HIDE DEF c
  <2>2. Sound(c, outcome', shown') BY <1>1, <1>4, <2>1 DEF Sound, serverVars, historyVars
  <2> QED BY <1>4, <1>5, <2>1, <2>2, OwnStep
<1>6. CASE result \in Conclusive(tab[t].step) /\ Set(t, d)
  <2>1. result \in Terminal /\ step \in {"resolve-refresh", "resolve-remove"}
    BY <1>6 DEF Conclusive, Terminal
  <2>2. d \in Controller /\ d.step = step /\ d.seen = tab[t].seen /\ d.op = tab[t].op
    BY <1>1, <2>1 DEF Controller, Steps
  <2>3. /\ step = "resolve-refresh" => outcome[tab[t].op] = "committed"
        /\ step = "resolve-remove" => outcome[tab[t].op] \in Terminal /\ outcome[tab[t].op] # "committed"
    BY <2>1
  <2> HIDE DEF d, step, result
  <2>4. Sound(d, outcome', shown')
    BY <1>1, <1>2, <1>4, <2>1, <2>2, <2>3 DEF Sound, serverVars, historyVars
  <2> QED BY <1>4, <1>6, <2>2, <2>4, OwnStep
<1> QED BY <1>3, <1>5, <1>6

LEMMA ResolveRefreshCareful == ClientInv => \A t \in Tabs : ResolveRefresh(t) => Careful(t)
<1> SUFFICES ASSUME ClientInv, NEW t \in Tabs, ResolveRefresh(t) PROVE Careful(t) OBVIOUS
<1> DEFINE c == [tab[t] EXCEPT !.step = "resolve-remove"]
<1>1. tab[t] \in Controller /\ Sound(tab[t], outcome, shown) BY ControllerOf
<1>2. c \in Controller /\ c.step = "resolve-remove" /\ c.seen = tab[t].seen /\ c.op = tab[t].op
  BY <1>1 DEF Controller, Steps
<1>3. tab[t].op \in Ops /\ outcome[tab[t].op] = "committed" BY <1>1 DEF ResolveRefresh, Sound
<1>4. Set(t, c) BY DEF ResolveRefresh
<1> HIDE DEF c
<1>5. /\ outcome' = outcome /\ shown \subseteq shown' /\ shown' \subseteq Ops
      /\ \A o \in Ops : outcome[o] = "committed" => o \in shown'
  BY RefreshShows DEF ResolveRefresh, serverVars
<1>6. Sound(c, outcome', shown') BY <1>1, <1>2, <1>3, <1>5 DEF Sound, Terminal
<1>7. tab'[t] = c /\ tab' = [tab EXCEPT ![t] = tab'[t]] BY <1>4 DEF Set, ClientInv, ClientTypes
<1> QED BY <1>2, <1>5, <1>6, <1>7 DEF Careful, ResolveRefresh, ClientInv, ClientTypes, Requested

LEMMA ResolveRemoveCareful == ClientInv => \A t \in Tabs : ResolveRemove(t) => Careful(t)
<1> SUFFICES ASSUME ClientInv, NEW t \in Tabs, ResolveRemove(t) PROVE Careful(t) OBVIOUS
<1> DEFINE o == tab[t].op
           kept == IF tab[t].reviewed = o THEN None ELSE tab[t].reviewed
           c == [tab[t] EXCEPT !.phase = PhaseOf(outcome[o]), !.step = "idle", !.op = None,
                               !.recovered = FALSE, !.reviewed = IF @ = o THEN None ELSE @]
<1>1. tab[t] \in Controller /\ Sound(tab[t], outcome, shown) BY ControllerOf
<1>2. o \in Ops /\ outcome[o] \in Terminal /\ Final(o, shown) BY <1>1 DEF ResolveRemove, Sound, Final
<1>3. c \in Controller /\ c.step = "idle" /\ c.seen = tab[t].seen
  <2>1. kept \in Ops \cup {None} /\ PhaseOf(outcome[o]) \in Phases BY <1>1 DEF Controller, PhaseOf, Phases
  <2> QED BY <1>1, <2>1 DEF Controller, Steps
<1>4. /\ Set(t, c) /\ vault' = vault \ {o} /\ told' = told \cup {<<outcome[o], o>>}
      /\ UNCHANGED <<serverVars, sent, shown, cleared>>
  BY DEF ResolveRemove
<1> HIDE DEF c, o
<1>5. Sound(c, outcome', shown') BY <1>1, <1>3, <1>4 DEF Sound, serverVars
<1>6. tab'[t] = c /\ tab' = [tab EXCEPT ![t] = tab'[t]] BY <1>4 DEF Set, ClientInv, ClientTypes
<1> QED BY <1>2, <1>3, <1>4, <1>5, <1>6 DEF Careful, ClientInv, ClientTypes, Requested

LEMMA FailCareful == ClientInv => \A t \in Tabs : Fail(t) => Careful(t)
<1> SUFFICES ASSUME ClientInv, NEW t \in Tabs, Fail(t) PROVE Careful(t) OBVIOUS
<1>1. /\ Uncertain(tab[t]) \in Controller /\ Sound(Uncertain(tab[t]), outcome', shown')
      /\ RecoverFailed(tab[t]) \in Controller /\ Sound(RecoverFailed(tab[t]), outcome', shown')
  BY ControllerOf, FailedSound, QuietSound
<1>2. Set(t, Uncertain(tab[t])) \/ Set(t, RecoverFailed(tab[t])) BY DEF Fail
<1> QED BY <1>1, <1>2, OwnStep DEF Fail

LEMMA ReloadCareful == ClientInv => \A t \in Tabs : Reload(t) => Careful(t)
<1> SUFFICES ASSUME ClientInv, NEW t \in Tabs, Reload(t) PROVE Careful(t) OBVIOUS
<1>1. Closed \in Controller /\ Sound(Closed, outcome', shown') BY ClosedSound, QuietSound
<1> QED BY <1>1, OwnStep DEF Reload

LEMMA SignOutCareful == ClientInv => \A t \in Tabs : SignOut(t) => Careful(t)
<1> SUFFICES ASSUME ClientInv, NEW t \in Tabs, SignOut(t) PROVE Careful(t) OBVIOUS
<1>1. Closed \in Controller /\ Sound(Closed, outcome', shown') BY ClosedSound, QuietSound
<1>2. tab'[t] = Closed /\ tab' = [tab EXCEPT ![t] = tab'[t]] BY DEF SignOut, Set, ClientInv, ClientTypes
<1> QED BY <1>1, <1>2 DEF Careful, SignOut, ClientInv, ClientTypes, Requested

LEMMA ClientInit == Init => ClientInv
<1> SUFFICES ASSUME Init PROVE ClientInv OBVIOUS
<1> USE DEF Init, Server!Init
<1>1. ClientTypes BY ClosedSound DEF ClientTypes, Outcomes
<1>2. AppliedWhenCommitted BY DEF AppliedWhenCommitted
<1>3. ControllersSound
  <2> SUFFICES ASSUME NEW t \in Tabs PROVE Sound(tab[t], outcome, shown) BY DEF ControllersSound
  <2> QED BY ClosedSound, QuietSound
<1>4. UnresolvedNeverForgotten /\ SavedShownBeforeForgotten /\ ToldTruth
  BY DEF UnresolvedNeverForgotten, SavedShownBeforeForgotten, ToldTruth
<1> QED BY <1>1, <1>2, <1>3, <1>4 DEF ClientInv

LEMMA ClientKeeps == ClientInv /\ [Next]_vars => ClientInv'
<1> SUFFICES ASSUME ClientInv, [Next]_vars PROVE ClientInv' OBVIOUS
<1>1. CASE ServerStep BY <1>1, ServerKeeps
<1>2. CASE \E t \in Tabs : Careful(t) BY <1>2, CarefulStep
<1>3. ASSUME NEW t \in Tabs, Recovering(t) PROVE Careful(t)
  BY <1>3, RecoverPersistCareful, RecoverReconcileCareful, RecoverRefreshCareful,
     RecoverFinishCareful, RecoverStatusCareful DEF Recovering
<1>4. ASSUME NEW t \in Tabs, Resolving(t) PROVE Careful(t)
  BY <1>4, RefusedCareful, AnsweredCareful, ResolveRefreshCareful, ResolveRemoveCareful DEF Resolving
<1>5. CASE UNCHANGED vars
  BY <1>5 DEF vars, serverVars, historyVars, ClientInv, ClientTypes, AppliedWhenCommitted, ControllersSound,
              UnresolvedNeverForgotten, SavedShownBeforeForgotten, ToldTruth
<1> QED
  BY <1>1, <1>2, <1>3, <1>4, <1>5, OpenCareful, RecoverListCareful, StageCareful, CancelCareful,
     InvalidateReviewCareful, PrepareCareful, PrepareExpiredCareful, CommitCareful, FailCareful,
     ReloadCareful, SignOutCareful DEF Next

(* However many tabs, operations and failures there are: as long as a      *)
(* prepare or commit that left a browser may still take effect, a marker   *)
(* in localStorage leads back to its operation, unless the user signed     *)
(* out. The vault is marked before the request leaves (sendPrepare), and   *)
(* recover and resolve unmark only what they saw final.                    *)
THEOREM MarkersOutliveRequests == Spec => []UnresolvedNeverForgotten
<1>1. ClientInv => UnresolvedNeverForgotten BY DEF ClientInv
<1> QED BY <1>1, ClientInit, ClientKeeps, PTL DEF Spec

(* The marker of a saved change is given up only after a refreshed         *)
(* Directory has shown the change (vault.resolve and recover refresh       *)
(* before they remove).                                                    *)
THEOREM SavedChangesAreShown == Spec => []SavedShownBeforeForgotten
<1>1. ClientInv => SavedShownBeforeForgotten BY DEF ClientInv
<1> QED BY <1>1, ClientInit, ClientKeeps, PTL DEF Spec

(* What a tab told the administrator of an operation stays true: reported  *)
(* as saved it is applied, once; reported as cancelled it never is, however *)
(* late a request of it still arrives.                                     *)
THEOREM WhatWasToldStaysTrue == Spec => []ToldTruth
<1>1. ClientInv => ToldTruth BY DEF ClientInv
<1> QED BY <1>1, ClientInit, ClientKeeps, PTL DEF Spec

-----------------------------------------------------------------------------
(* The session of a tab. At most one restore holds the generation, and     *)
(* none once sign-out has begun; what it was answered is no older than     *)
(* what the page has shown, as it was asked for after that.                *)
Replies == [version : Nat, active : BOOLEAN]
UnderWay == [user : Identities, current : BOOLEAN, reply : Replies \cup {Session!NoReply}]

SessionTypes ==
    /\ access \in [Identities -> Replies] /\ newest \in [Identities -> Nat]
    /\ user \in Identities \cup {None} /\ restores \subseteq UnderWay

AnswersDated ==
    /\ \A u \in Identities : newest[u] <= access[u].version
    /\ \A q \in restores : q.current /\ q.reply # Session!NoReply => newest[q.user] <= q.reply.version
    /\ \A q \in restores : q.reply # Session!NoReply => q.reply.version <= access[q.user].version

OneCurrent ==
    /\ \A p, q \in restores : p.current /\ q.current => p = q
    /\ signingOut => \A q \in restores : ~q.current

AuthorizedKnown ==
    session.status = "authorized" => session.user \in Identities /\ session.version \in Nat

SessionInv == SessionTypes /\ AnswersDated /\ OneCurrent /\ AuthorizedKnown /\ AccessNeverGoesBack

-----------------------------------------------------------------------------
(* The access records. Within one life of a record its identity, once      *)
(* bound, is bound for good, and whoever was admitted under it has that    *)
(* identity.                                                               *)
Progress(phases) == [phase : phases, uid : Identities \cup {None}, email : Emails \cup {None},
                     record : Records \cup {None}, life : Nat]

AccessTypes ==
    /\ identities \in [Identities -> Access!Identity]
    /\ users \in [Records -> Access!Record \cup {None}] /\ life \in [Records -> Nat]
    /\ signIn \in [SignIns -> Progress({"idle", "uid", "email", "bind", "done"})]
    /\ invitation \in [Invitations -> Progress({"idle", "read", "merge", "done"})]
    /\ granted \subseteq Records \X Nat
    /\ admitted \subseteq [uid : Identities, record : Records, found : Nat, life : Nat]

(* A sign-in under way has an identity, and one that binds has a record    *)
(* that was granted in the life in which it was found.                     *)
SignInsBegun == \A q \in SignIns :
    /\ signIn[q].phase \in {"uid", "email", "bind"} => signIn[q].uid \in Identities
    /\ signIn[q].phase = "bind" =>
          signIn[q].record \in Records /\ <<signIn[q].record, signIn[q].life>> \in granted

AdmittedBound == \A a \in admitted :
    /\ a.life <= life[a.record]
    /\ a.life = life[a.record] => users[a.record] # None /\ users[a.record].uid = a.uid

GrantsKept == \A r \in Records : users[r] # None /\ users[r].granted => <<r, life[r]>> \in granted

AccessInv == AccessTypes /\ SignInsBegun /\ AdmittedBound /\ GrantsKept /\ BindingsOneToOne
-----------------------------------------------------------------------------
(* The steps of the session.                                               *)
LEMMA SessionInit == Session!Init => SessionInv
<1> SUFFICES ASSUME Session!Init PROVE SessionInv OBVIOUS
<1> USE DEF Session!Init
<1>1. SessionTypes BY DEF SessionTypes, Replies
<1>2. access \in [Identities -> [version : {0}, active : BOOLEAN]] /\ \A u \in Identities : newest[u] <= access[u].version
  OBVIOUS
<1> QED BY <1>1, <1>2 DEF SessionInv, AnswersDated, OneCurrent, AuthorizedKnown, AccessNeverGoesBack,
     Session!AccessNeverGoesBack, Session!Shown

(* Restores that a newer generation left behind.                           *)
LEMMA OutdatedKeep ==
    ASSUME SessionInv
    PROVE  /\ Session!Outdated \subseteq UnderWay
           /\ \A q \in Session!Outdated : ~q.current
           /\ \A q \in Session!Outdated : q.reply # Session!NoReply => q.reply.version <= access[q.user].version
<1> SUFFICES ASSUME NEW q \in restores, NEW p, p = [q EXCEPT !.current = FALSE]
             PROVE  /\ p \in UnderWay /\ ~p.current
                    /\ p.reply # Session!NoReply => p.reply.version <= access[p.user].version
  BY DEF Session!Outdated
<1>1. q \in UnderWay BY DEF SessionInv, SessionTypes
<1>2. p \in UnderWay /\ ~p.current /\ p.reply = q.reply /\ p.user = q.user BY <1>1 DEF UnderWay
<1> QED BY <1>2 DEF SessionInv, AnswersDated

(* Whatever starts a restore, or gives up those under way.                 *)
LEMMA GenerationStep ==
    ASSUME SessionInv, UNCHANGED <<access, newest>>, user' \in Identities \cup {None},
           NEW fresh, fresh \subseteq [user : Identities, current : {TRUE}, reply : {Session!NoReply}],
           \A p, q \in fresh : p = q,
           restores' = Session!Outdated \cup fresh,
           signingOut' => fresh = {},
           session'.status = "authorized" => session' = session /\ ~signingOut'
    PROVE  SessionInv'
<1> USE DEF SessionInv
<1>1. fresh \subseteq UnderWay BY DEF UnderWay
<1>2. SessionTypes' BY <1>1, OutdatedKeep DEF SessionTypes
<1>3. \A q \in fresh : q.reply = Session!NoReply OBVIOUS
<1>4. AnswersDated' BY <1>3, OutdatedKeep DEF AnswersDated, Session!NoReply
<1>5. OneCurrent' BY OutdatedKeep DEF OneCurrent
<1>6. AuthorizedKnown' /\ AccessNeverGoesBack'
  BY DEF AuthorizedKnown, AccessNeverGoesBack, Session!AccessNeverGoesBack
<1> QED BY <1>2, <1>4, <1>5, <1>6

LEMMA RestoreKeeps ==
    ASSUME SessionInv, NEW u \in Identities \cup {None}, NEW background \in BOOLEAN, ~signingOut,
           Session!Restore(u, background), UNCHANGED <<access, newest, signingOut>>,
           user' \in Identities \cup {None}
    PROVE  SessionInv'
<1> DEFINE fresh == IF u = None THEN {} ELSE {[user |-> u, current |-> TRUE, reply |-> Session!NoReply]}
<1>1. fresh \subseteq [user : Identities, current : {TRUE}, reply : {Session!NoReply}]
  <2>1. CASE u = None BY <2>1
  <2>2. CASE u # None
    <3>1. u \in Identities BY <2>2
    <3>2. [user |-> u, current |-> TRUE, reply |-> Session!NoReply]
             \in [user : Identities, current : {TRUE}, reply : {Session!NoReply}]
      BY <3>1
    <3> QED BY <2>2, <3>2
  <2> QED BY <2>1, <2>2
<1>2. \A p, q \in fresh : p = q OBVIOUS
<1>3. restores' = Session!Outdated \cup fresh BY DEF Session!Restore
<1>4. session'.status = "authorized" => session' = session BY DEF Session!Restore, Session!Shown
<1> HIDE DEF fresh
<1> QED BY <1>1, <1>2, <1>3, <1>4, GenerationStep

LEMMA PutKeeps ==
    ASSUME SessionInv, NEW status, status # "authorized", Session!Put(status),
           UNCHANGED <<access, newest, user>>
    PROVE  SessionInv'
<1> DEFINE fresh == {}
<1>1. session'.status # "authorized" /\ restores' = Session!Outdated \cup fresh BY DEF Session!Put, Session!Shown
<1>2. user' \in Identities \cup {None} BY DEF SessionInv, SessionTypes
<1>3. /\ fresh \subseteq [user : Identities, current : {TRUE}, reply : {Session!NoReply}]
      /\ \A p, q \in fresh : p = q
      /\ fresh = {}
  OBVIOUS
<1> HIDE DEF fresh
<1> QED BY <1>1, <1>2, <1>3, GenerationStep

LEMMA SettleKeeps ==
    ASSUME SessionInv, NEW q \in restores, Session!Answered(q) \/ Session!Failed(q)
    PROVE  SessionInv'
<1> USE DEF SessionInv
<1>1. /\ restores' = restores \ {q} /\ UNCHANGED <<access, user, signingOut>>
      /\ q \in UnderWay /\ q.user \in Identities
  BY DEF Session!Answered, Session!Failed, Session!Settle, SessionTypes, UnderWay
<1>2. CASE newest' = newest /\ (session' = session \/ (session'.status # "authorized"))
  BY <1>1, <1>2 DEF SessionTypes, AnswersDated, OneCurrent, AuthorizedKnown, AccessNeverGoesBack,
                    Session!AccessNeverGoesBack
<1>3. CASE ~q.current
  BY <1>2, <1>3 DEF Session!Answered, Session!Failed, Session!Settle, Session!Latest
<1>4. CASE q.current /\ Session!Answered(q)
  <2>1. q.reply # Session!NoReply /\ q.reply \in Replies BY <1>1, <1>4 DEF Session!Answered, UnderWay
  <2>2. newest[q.user] \in Nat /\ newest[q.user] <= q.reply.version /\ q.reply.version <= access[q.user].version
    BY <1>1, <1>4, <2>1 DEF AnswersDated, SessionTypes
  <2>3. \/ session' = session /\ newest' = newest
        \/ newest' = [newest EXCEPT ![q.user] = q.reply.version]
    <3>1. newest' = IF session' # session /\ q.reply.version > newest[q.user]
                    THEN [newest EXCEPT ![q.user] = q.reply.version] ELSE newest
      BY <1>4 DEF Session!Answered
    <3>2. CASE q.reply.version > newest[q.user] BY <3>1, <3>2
    <3>3. CASE ~(q.reply.version > newest[q.user])
      <4>1. newest[q.user] = q.reply.version BY <2>1, <2>2, <3>3 DEF Replies
      <4> QED BY <3>1, <3>3, <4>1 DEF SessionTypes
    <3> QED BY <3>2, <3>3
  <2>4. \/ session' = [status |-> "authorized", user |-> q.user, version |-> q.reply.version]
        \/ session'.status = "denied"
    BY <1>4 DEF Session!Answered, Session!Settle, Session!Latest, Session!Shown
  <2>5. \A p \in restores' : ~p.current BY <1>1, <1>4 DEF OneCurrent
  <2>6. CASE session' = session /\ newest' = newest BY <1>2, <2>6
  <2>7. CASE newest' = [newest EXCEPT ![q.user] = q.reply.version]
    <3>1. SessionTypes' BY <1>1, <2>1, <2>7 DEF SessionTypes, Replies
    <3>2. AnswersDated' BY <1>1, <2>2, <2>5, <2>7 DEF AnswersDated, SessionTypes
    <3>3. OneCurrent' BY <1>1 DEF OneCurrent
    <3>4. AuthorizedKnown' BY <1>1, <2>1, <2>4 DEF AuthorizedKnown, Replies
    <3>5. ~signingOut' BY <1>1, <1>4 DEF OneCurrent
    <3>6. session'.status = "authorized" => session'.version >= newest'[session'.user]
      <4> SUFFICES ASSUME session'.status = "authorized" PROVE session'.version >= newest'[session'.user]
        OBVIOUS
      <4>1. session'.user = q.user /\ session'.version = q.reply.version BY <2>4
      <4>2. newest'[q.user] = q.reply.version BY <1>1, <2>7 DEF SessionTypes
      <4> QED BY <2>1, <4>1, <4>2 DEF Replies
    <3>7. AccessNeverGoesBack' BY <3>5, <3>6 DEF AccessNeverGoesBack, Session!AccessNeverGoesBack
    <3> QED BY <3>1, <3>2, <3>3, <3>4, <3>7
  <2> QED BY <2>3, <2>6, <2>7
<1>5. CASE q.current /\ Session!Failed(q)
  BY <1>2, <1>5 DEF Session!Failed, Session!Settle, Session!Latest, Session!Shown
<1> QED BY <1>3, <1>4, <1>5

LEMMA ServeKeeps ==
    ASSUME SessionInv, NEW q \in restores, Session!Serve(q)
    PROVE  SessionInv'
<1> USE DEF SessionInv
<1> DEFINE p == [q EXCEPT !.reply = access[q.user]]
<1>1. q \in UnderWay BY DEF SessionTypes
<1>2. p \in UnderWay /\ p.user = q.user /\ p.current = q.current /\ p.reply = access[q.user]
  BY <1>1 DEF UnderWay, SessionTypes
<1>3. restores' = (restores \ {q}) \cup {p} /\ UNCHANGED <<access, user, session, signingOut, newest>>
  BY DEF Session!Serve
<1>4. q.user \in Identities BY <1>1 DEF UnderWay
<1>5. newest[q.user] <= access[q.user].version /\ access[q.user].version <= access[q.user].version
  BY <1>4 DEF AnswersDated, SessionTypes, Replies
<1> HIDE DEF p
<1>6. SessionTypes' BY <1>2, <1>3 DEF SessionTypes
<1>7. AnswersDated' BY <1>2, <1>3, <1>5 DEF AnswersDated
<1>8. OneCurrent' BY <1>2, <1>3 DEF OneCurrent
<1>9. AuthorizedKnown' /\ AccessNeverGoesBack'
  BY <1>3 DEF AuthorizedKnown, AccessNeverGoesBack, Session!AccessNeverGoesBack
<1> QED BY <1>6, <1>7, <1>8, <1>9

LEMMA ChangeAccessKeeps ==
    ASSUME SessionInv, NEW u \in Identities, NEW active \in BOOLEAN, Session!ChangeAccess(u, active)
    PROVE  SessionInv'
<1> USE DEF SessionInv
<1>1. access' = [access EXCEPT ![u] = [version |-> access[u].version + 1, active |-> active]]
  BY DEF Session!ChangeAccess
<1>2. UNCHANGED <<user, session, restores, signingOut, newest>> BY DEF Session!ChangeAccess
<1>3. access[u].version \in Nat BY DEF SessionTypes, Replies
<1>4. SessionTypes' BY <1>1, <1>2, <1>3 DEF SessionTypes, Replies
<1>5. \A v \in Identities : access[v].version \in Nat /\ access[v].version <= access'[v].version
  BY <1>1, <1>3 DEF SessionTypes, Replies
<1>6. \A q \in restores : q.user \in Identities /\ (q.reply # Session!NoReply => q.reply.version \in Nat)
  BY DEF SessionTypes, UnderWay, Replies
<1>7. AnswersDated'
  <2>1. \A v \in Identities : newest[v] \in Nat /\ newest[v] <= access'[v].version
    BY <1>4, <1>5 DEF AnswersDated, SessionTypes, Replies
  <2>2. ASSUME NEW q \in restores, q.reply # Session!NoReply PROVE q.reply.version <= access'[q.user].version
    <3>1. q.reply.version <= access[q.user].version BY <2>2 DEF AnswersDated
    <3> QED BY <1>4, <1>5, <1>6, <2>2, <3>1 DEF SessionTypes, Replies
  <2> QED BY <1>2, <2>1, <2>2 DEF AnswersDated
<1>8. OneCurrent' /\ AuthorizedKnown' /\ AccessNeverGoesBack'
  BY <1>2 DEF OneCurrent, AuthorizedKnown, AccessNeverGoesBack, Session!AccessNeverGoesBack
<1> QED BY <1>4, <1>7, <1>8

LEMMA SessionKeeps == SessionInv /\ [Session!Next]_sessionVars => SessionInv'
<1> SUFFICES ASSUME SessionInv, [Session!Next]_sessionVars PROVE SessionInv' OBVIOUS
<1>1. ASSUME UNCHANGED <<access, session, restores, signingOut, newest>>, user' \in Identities \cup {None}
      PROVE  SessionInv'
  BY <1>1 DEF SessionInv, SessionTypes, AnswersDated, OneCurrent, AuthorizedKnown, AccessNeverGoesBack,
              Session!AccessNeverGoesBack
<1>2. user \in Identities \cup {None} BY DEF SessionInv, SessionTypes
<1>3. CASE UNCHANGED sessionVars \/ Session!NewToken \/ \E u \in Identities \cup {None} : Session!SignIn(u)
  BY <1>1, <1>2, <1>3 DEF sessionVars, Session!NewToken, Session!SignIn
<1>4. CASE \E u \in Identities, active \in BOOLEAN : Session!ChangeAccess(u, active)
  BY <1>4, ChangeAccessKeeps
<1>5. CASE \E q \in restores : Session!Serve(q) \/ Session!Answered(q) \/ Session!Failed(q)
  BY <1>5, ServeKeeps, SettleKeeps
<1>6. CASE Session!TokenChanged
  <2>1. UNCHANGED <<access, user, signingOut, newest>> BY <1>6 DEF Session!TokenChanged
  <2>2. CASE signingOut BY <1>1, <1>2, <1>6, <2>1, <2>2 DEF Session!TokenChanged
  <2>3. CASE ~signingOut
    <3>1. PICK background \in BOOLEAN : Session!Restore(user, background)
      BY <1>6, <2>3 DEF Session!TokenChanged
    <3> QED BY <1>2, <2>1, <2>3, <3>1, RestoreKeeps
  <2> QED BY <2>2, <2>3
<1>7. CASE Session!Refresh \/ Session!Retry
  BY <1>2, <1>7, RestoreKeeps DEF Session!Refresh, Session!Retry
<1>8. CASE Session!ListenerFails \/ Session!SignOut \/ Session!SignOutFails
  BY <1>8, PutKeeps DEF Session!ListenerFails, Session!SignOut, Session!SignOutFails
<1>9. CASE Session!SignOutDone \/ Session!Reload
  <2>1. /\ access' = access /\ user' \in Identities \cup {None} /\ restores' = {} /\ ~signingOut'
        /\ session'.status = "loading" /\ newest' = [u \in Identities |-> 0]
    BY <1>2, <1>9 DEF Session!SignOutDone, Session!Reload, Session!NewPage, Session!Shown
  <2>2. \A u \in Identities : newest'[u] <= access'[u].version
    BY <2>1 DEF SessionInv, SessionTypes, Replies
  <2> QED BY <2>1, <2>2 DEF SessionInv, SessionTypes, AnswersDated, OneCurrent, AuthorizedKnown,
              AccessNeverGoesBack, Session!AccessNeverGoesBack
<1> QED BY <1>3, <1>4, <1>5, <1>6, <1>7, <1>8, <1>9 DEF Session!Next, sessionVars

(* For any number of users, restores and changes of access: the protected  *)
(* screens are shown only under the newest answer the page has had for the *)
(* user they are shown to, and never once sign-out has begun (the          *)
(* generation of createSessionController, which every restore, denial and  *)
(* sign-out advances).                                                     *)
THEOREM LateAnswersChangeNothing == Session!Spec => []AccessNeverGoesBack
<1>1. SessionInv => AccessNeverGoesBack BY DEF SessionInv
<1>2. SessionInv /\ [Session!Next]_(Session!vars) => SessionInv' BY SessionKeeps DEF Session!vars, sessionVars
<1> QED BY <1>1, <1>2, SessionInit, PTL DEF Session!Spec
-----------------------------------------------------------------------------
(* The steps of the access records.                                        *)
LEMMA AccessInit == Access!Init => AccessInv
<1> SUFFICES ASSUME Access!Init PROVE AccessInv OBVIOUS
<1> USE DEF Access!Init
<1>1. AccessTypes BY DEF AccessTypes, Access!Identity, Access!NotYet, Progress
<1>2. SignInsBegun BY DEF SignInsBegun, Access!NotYet
<1>3. AdmittedBound /\ GrantsKept BY DEF AdmittedBound, GrantsKept
<1>4. BindingsOneToOne BY DEF BindingsOneToOne, Access!BindingsOneToOne, Access!Known
<1> QED BY <1>1, <1>2, <1>3, <1>4 DEF AccessInv

LEMMA DoneTyped == Access!Done \in Progress({"done"}) /\ Access!Done.phase = "done"
BY DEF Access!Done, Access!NotYet, Progress

(* What touches neither records nor sign-ins.                              *)
LEMMA ProvidersKeep ==
    ASSUME AccessInv, UNCHANGED <<users, signIn, life, granted, admitted>>,
           identities' \in [Identities -> Access!Identity],
           invitation' \in [Invitations -> Progress({"idle", "read", "merge", "done"})]
    PROVE  AccessInv'
BY DEF AccessInv, AccessTypes, SignInsBegun, AdmittedBound, GrantsKept, BindingsOneToOne,
       Access!BindingsOneToOne, Access!Known

LEMMA InvitationTyped ==
    ASSUME AccessInv, NEW v \in Invitations
    PROVE  /\ invitation[v].uid \in Identities \cup {None} /\ invitation[v].email \in Emails \cup {None}
           /\ [invitation[v] EXCEPT !.phase = "merge"] \in Progress({"merge"})
BY DEF AccessInv, AccessTypes, Progress

LEMMA InvitationsKeep ==
    ASSUME AccessInv,
           \/ \E i \in Identities, email \in Emails : Access!Verify(i, email)
           \/ \E v \in Invitations :
                 \/ \E r \in Records : Access!Invite(v, r)
                 \/ Access!Provision(v) \/ Access!EndInvitation(v)
    PROVE  AccessInv'
<1> USE DEF AccessInv, AccessTypes
<1>1. ASSUME NEW i \in Identities, NEW email \in Emails, Access!Verify(i, email) PROVE AccessInv'
  <2>1. identities' \in [Identities -> Access!Identity] BY <1>1 DEF Access!Verify, Access!Identity
  <2>2. UNCHANGED <<users, signIn, invitation, life, granted, admitted>> BY <1>1 DEF Access!Verify
  <2> QED BY <2>1, <2>2, ProvidersKeep
<1>2. ASSUME NEW v \in Invitations, NEW r \in Records, Access!Invite(v, r) PROVE AccessInv'
  <2>1. users[r] \in Access!Record /\ life[r] \in Nat
    BY <1>2 DEF Access!Invite, Access!Known
  <2>2. [phase |-> "read", uid |-> users[r].uid, email |-> users[r].email, record |-> r, life |-> life[r]]
            \in Progress({"idle", "read", "merge", "done"})
    BY <2>1 DEF Progress, Access!Record
  <2>3. invitation' \in [Invitations -> Progress({"idle", "read", "merge", "done"})]
    BY <1>2, <2>2 DEF Access!Invite
  <2>4. UNCHANGED <<identities, users, signIn, life, granted, admitted>> BY <1>2 DEF Access!Invite
  <2> QED BY <2>3, <2>4, ProvidersKeep
<1>3. ASSUME NEW v \in Invitations, Access!Provision(v) PROVE AccessInv'
  <2>1. UNCHANGED <<users, signIn, life, granted, admitted>> BY <1>3 DEF Access!Provision
  <2>2. PICK i \in Identities :
           /\ \/ UNCHANGED identities
              \/ identities' = [identities EXCEPT ![i] = [email |-> invitation[v].email, verified |-> FALSE]]
           /\ invitation' = [invitation EXCEPT ![v] =
                 IF @.uid \in {None, i} THEN [@ EXCEPT !.phase = "merge"] ELSE Access!Done]
    BY <1>3 DEF Access!Provision
  <2>3. identities' \in [Identities -> Access!Identity]
    <3>1. [email |-> invitation[v].email, verified |-> FALSE] \in Access!Identity
      BY InvitationTyped DEF Access!Identity
    <3>2. CASE UNCHANGED identities BY <3>2
    <3>3. CASE identities' = [identities EXCEPT ![i] = [email |-> invitation[v].email, verified |-> FALSE]]
      BY <3>1, <3>3
    <3> QED BY <2>2, <3>2, <3>3
  <2>4. /\ Access!Done \in Progress({"idle", "read", "merge", "done"})
        /\ [invitation[v] EXCEPT !.phase = "merge"] \in Progress({"idle", "read", "merge", "done"})
    BY DoneTyped, InvitationTyped DEF Progress
  <2>5. invitation' \in [Invitations -> Progress({"idle", "read", "merge", "done"})] BY <2>2, <2>4
  <2> QED BY <2>1, <2>3, <2>5, ProvidersKeep
<1>4. ASSUME NEW v \in Invitations, Access!EndInvitation(v) PROVE AccessInv'
  <2>1. Access!Done \in Progress({"idle", "read", "merge", "done"}) BY DoneTyped DEF Progress
  <2>2. invitation' \in [Invitations -> Progress({"idle", "read", "merge", "done"})]
    BY <1>4, <2>1 DEF Access!EndInvitation
  <2>3. UNCHANGED <<identities, users, signIn, life, granted, admitted>> BY <1>4 DEF Access!EndInvitation
  <2> QED BY <2>2, <2>3, ProvidersKeep
<1> QED BY <1>1, <1>2, <1>3, <1>4

(* A sign-in that moves on without being admitted.                         *)
LEMMA SignInMoves ==
    ASSUME AccessInv, NEW q \in SignIns, NEW s \in Progress({"idle", "uid", "email", "bind", "done"}),
           signIn' = [signIn EXCEPT ![q] = s],
           s.phase \in {"uid", "email", "bind"} => s.uid \in Identities,
           s.phase = "bind" => s.record \in Records /\ <<s.record, s.life>> \in granted,
           UNCHANGED <<identities, users, invitation, life, granted, admitted>>
    PROVE  AccessInv'
<1> USE DEF AccessInv
<1>1. AccessTypes' BY DEF AccessTypes
<1>2. SignInsBegun' BY DEF SignInsBegun, AccessTypes
<1>3. AdmittedBound' /\ GrantsKept' /\ BindingsOneToOne'
  BY DEF AdmittedBound, GrantsKept, BindingsOneToOne, Access!BindingsOneToOne, Access!Known
<1> QED BY <1>1, <1>2, <1>3

LEMMA DenyKeeps ==
    ASSUME AccessInv, NEW q \in SignIns, Access!Deny(q),
           UNCHANGED <<identities, users, invitation, life, granted>>
    PROVE  AccessInv'
<1> DEFINE s == Access!Done
<1>1. s \in Progress({"idle", "uid", "email", "bind", "done"}) /\ s.phase = "done"
  BY DoneTyped DEF Progress
<1>2. signIn' = [signIn EXCEPT ![q] = s] /\ UNCHANGED admitted BY DEF Access!Deny
<1> HIDE DEF s
<1> QED BY <1>1, <1>2, SignInMoves

(* A sign-in is admitted under a record that is bound to its identity.     *)
LEMMA SettleAccessKeeps ==
    ASSUME AccessInv, NEW q \in SignIns, NEW r \in Records, NEW until \in Nat,
           signIn[q].uid \in Identities, Access!Settle(q, r, until), <<r, until>> \in granted,
           users[r] # None, users[r].uid = signIn[q].uid,
           UNCHANGED <<identities, users, invitation, life, granted>>
    PROVE  AccessInv'
<1> USE DEF AccessInv
<1> DEFINE a == [uid |-> signIn[q].uid, record |-> r, found |-> until, life |-> life[r]]
<1>1. signIn' = [signIn EXCEPT ![q] = Access!Done] /\ admitted' = admitted \cup {a}
  BY DEF Access!Settle
<1>2. a \in [uid : Identities, record : Records, found : Nat, life : Nat] BY DEF AccessTypes
<1>3. Access!Done \in Progress({"idle", "uid", "email", "bind", "done"}) /\ Access!Done.phase = "done"
  BY DoneTyped DEF Progress
<1>4. AccessTypes' BY <1>1, <1>2, <1>3 DEF AccessTypes
<1>5. SignInsBegun' BY <1>1, <1>3 DEF SignInsBegun, AccessTypes
<1>6. a.uid = users[r].uid /\ a.record = r /\ a.found = until /\ a.life = life[r] /\ life[r] \in Nat
  BY DEF AccessTypes
<1> HIDE DEF a
<1>7. AdmittedBound' BY <1>1, <1>6 DEF AdmittedBound
<1>8. GrantsKept' BY DEF GrantsKept
<1>9. BindingsOneToOne'
  <2>1. \A b \in admitted : b.record = r /\ b.life = life[r] => b.uid = users[r].uid
    BY DEF AdmittedBound
  <2>2. \A b, d \in admitted' : b.record = d.record /\ b.life = d.life => b.uid = d.uid
    BY <1>1, <1>6, <2>1 DEF BindingsOneToOne, Access!BindingsOneToOne
  <2>3. \A b \in admitted' : <<b.record, b.found>> \in granted
    BY <1>1, <1>6 DEF BindingsOneToOne, Access!BindingsOneToOne
  <2> QED BY <2>2, <2>3 DEF BindingsOneToOne, Access!BindingsOneToOne, Access!Known
<1> QED BY <1>4, <1>5, <1>7, <1>8, <1>9

LEMMA SignInsKeep ==
    ASSUME AccessInv, NEW q \in SignIns,
           \/ \E i \in Identities : Access!Identify(q, i)
           \/ Access!FindByUid(q) \/ Access!FindByEmail(q) \/ Access!Fail(q)
    PROVE  AccessInv'
<1>0. signIn[q] \in Progress({"idle", "uid", "email", "bind", "done"}) BY DEF AccessInv, AccessTypes
<1>1. ASSUME NEW i \in Identities, Access!Identify(q, i) PROVE AccessInv'
  <2> DEFINE s == [phase |-> "uid", uid |-> i, record |-> None, life |-> 0,
                   email |-> IF identities[i].verified THEN identities[i].email ELSE None]
  <2>1. s.email \in Emails \cup {None} BY DEF AccessInv, AccessTypes, Access!Identity
  <2>2. s \in Progress({"idle", "uid", "email", "bind", "done"}) BY <2>1 DEF Progress
  <2>3. signIn' = [signIn EXCEPT ![q] = s] /\ UNCHANGED <<identities, users, invitation, life, granted, admitted>>
    BY <1>1 DEF Access!Identify
  <2>4. s.phase = "uid" /\ s.uid \in Identities OBVIOUS
  <2> HIDE DEF s
  <2> QED BY <2>2, <2>3, <2>4, SignInMoves
<1>2. CASE Access!FindByUid(q)
  <2>1. signIn[q].phase = "uid" /\ signIn[q].uid \in Identities
    BY <1>2 DEF Access!FindByUid, AccessInv, SignInsBegun
  <2>2. UNCHANGED <<identities, users, invitation, life, granted>> BY <1>2 DEF Access!FindByUid
  <2>3. CASE signIn' = [signIn EXCEPT ![q].phase = "email"] /\ UNCHANGED admitted
    <3> DEFINE s == [signIn[q] EXCEPT !.phase = "email"]
    <3>1. s \in Progress({"idle", "uid", "email", "bind", "done"}) /\ s.phase = "email" /\ s.uid \in Identities
      BY <1>0, <2>1 DEF Progress
    <3>2. signIn' = [signIn EXCEPT ![q] = s] BY <2>3
    <3> HIDE DEF s
    <3> QED BY <2>2, <2>3, <3>1, <3>2, SignInMoves
  <2>4. ASSUME NEW r \in Access!With("uid", signIn[q].uid), users[r].granted, Access!Settle(q, r, life[r])
        PROVE  AccessInv'
    <3>1. r \in Records /\ users[r] # None /\ users[r].uid = signIn[q].uid
      BY DEF Access!With, Access!Known
    <3>2. life[r] \in Nat /\ <<r, life[r]>> \in granted
      BY <2>4, <3>1 DEF AccessInv, AccessTypes, GrantsKept
    <3> QED BY <2>1, <2>2, <2>4, <3>1, <3>2, SettleAccessKeeps
  <2>5. CASE Access!Deny(q) BY <2>2, <2>5, DenyKeeps
  <2> QED BY <1>2, <2>3, <2>4, <2>5 DEF Access!FindByUid
<1>3. CASE Access!FindByEmail(q)
  <2>1. signIn[q].phase = "email" /\ signIn[q].uid \in Identities
    BY <1>3 DEF Access!FindByEmail, AccessInv, SignInsBegun
  <2>2. UNCHANGED <<identities, users, invitation, life, granted>> BY <1>3 DEF Access!FindByEmail
  <2>3. ASSUME NEW r \in Access!With("email", signIn[q].email), Access!Usable(r, signIn[q].uid)
        PROVE  r \in Records /\ users[r] # None /\ life[r] \in Nat /\ <<r, life[r]>> \in granted
    BY <2>3 DEF Access!With, Access!Known, Access!Usable, AccessInv, AccessTypes, GrantsKept
  <2>4. ASSUME NEW r \in Access!With("email", signIn[q].email), Access!Usable(r, signIn[q].uid),
               users[r].uid = signIn[q].uid, Access!Settle(q, r, life[r])
        PROVE  AccessInv'
    BY <2>1, <2>2, <2>3, <2>4, SettleAccessKeeps
  <2>5. ASSUME NEW r \in Access!With("email", signIn[q].email), Access!Usable(r, signIn[q].uid),
               signIn' = [signIn EXCEPT ![q].phase = "bind", ![q].record = r, ![q].life = life[r]],
               UNCHANGED admitted
        PROVE  AccessInv'
    <3> DEFINE s == [signIn[q] EXCEPT !.phase = "bind", !.record = r, !.life = life[r]]
    <3>1. s \in Progress({"idle", "uid", "email", "bind", "done"}) BY <1>0, <2>3, <2>5 DEF Progress
    <3>2. s.phase = "bind" /\ s.uid \in Identities /\ s.record = r /\ s.life = life[r]
      BY <1>0, <2>1 DEF Progress
    <3>3. signIn' = [signIn EXCEPT ![q] = s] BY <1>0, <2>5 DEF AccessInv, AccessTypes, Progress
    <3> HIDE DEF s
    <3> QED BY <2>2, <2>3, <2>5, <3>1, <3>2, <3>3, SignInMoves
  <2>6. CASE Access!Deny(q) BY <2>2, <2>6, DenyKeeps
  <2> QED BY <1>3, <2>4, <2>5, <2>6 DEF Access!FindByEmail
<1>4. CASE Access!Fail(q) BY <1>4, DenyKeeps DEF Access!Fail
<1> QED BY <1>1, <1>2, <1>3, <1>4

(* First sign-ins bind a record that nobody has, to an identity that has   *)
(* none.                                                                   *)
LEMMA BindKeeps ==
    ASSUME AccessInv, NEW q \in SignIns, Access!BindUid(q)
    PROVE  AccessInv'
<1> USE DEF AccessInv
<1> DEFINE r == signIn[q].record
           i == signIn[q].uid
           a == [uid |-> i, record |-> r, found |-> signIn[q].life, life |-> life[r]]
<1>1. /\ r \in Records /\ i \in Identities /\ <<r, signIn[q].life>> \in granted /\ signIn[q].life \in Nat
      /\ UNCHANGED <<identities, invitation, life, granted>>
  BY DEF Access!BindUid, SignInsBegun, AccessTypes, Progress
<1>2. CASE ~Access!Bindable(r, i) BY <1>1, <1>2, DenyKeeps DEF Access!BindUid
<1>3. CASE Access!Bindable(r, i)
  <2>1. /\ users' = [users EXCEPT ![r].uid = i] /\ signIn' = [signIn EXCEPT ![q] = Access!Done]
        /\ admitted' = admitted \cup {a}
    BY <1>3 DEF Access!BindUid, Access!Settle
  <2>2. /\ users[r] \in Access!Record /\ users[r] # None /\ users[r].uid \in {None, i}
        /\ \A s \in Records : users[s] # None => users[s].uid # i
    BY <1>1, <1>3 DEF Access!Bindable, Access!With, Access!Known, AccessTypes
  <2>3. /\ users'[r] \in Access!Record /\ users'[r] # None /\ users'[r].uid = i
        /\ users'[r].granted = users[r].granted
    BY <1>1, <2>1, <2>2, NoneAssumption DEF Access!Record, AccessTypes
  <2>4. \A s \in Records : s # r => users'[s] = users[s] BY <1>1, <2>1 DEF AccessTypes
  <2>5. users' \in [Records -> Access!Record \cup {None}] BY <1>1, <2>1, <2>3, <2>4 DEF AccessTypes
  <2>6. /\ a \in [uid : Identities, record : Records, found : Nat, life : Nat]
        /\ a.uid = i /\ a.record = r /\ a.found = signIn[q].life /\ a.life = life[r] /\ life[r] \in Nat
    BY <1>1 DEF AccessTypes
  <2>7. Access!Done \in Progress({"idle", "uid", "email", "bind", "done"}) /\ Access!Done.phase = "done"
    BY DoneTyped DEF Progress
  <2> HIDE DEF a
  <2>8. AccessTypes' BY <1>1, <2>1, <2>5, <2>6, <2>7 DEF AccessTypes
  <2>9. SignInsBegun' BY <1>1, <2>1, <2>7 DEF SignInsBegun, AccessTypes
  <2>10. \A b \in admitted : ~(b.record = r /\ b.life = life[r])
    <3> SUFFICES ASSUME NEW b \in admitted, b.record = r, b.life = life[r] PROVE FALSE OBVIOUS
    <3>1. users[r].uid = b.uid /\ b.uid \in Identities BY DEF AdmittedBound, AccessTypes
    <3> QED BY <1>1, <2>2, <3>1, NoneAssumption
  <2> HIDE DEF r, i
  <2>11. \A b \in admitted' : b.life <= life[b.record]
    BY <2>1, <2>6 DEF AdmittedBound
  <2>12. ASSUME NEW b \in admitted', b.life = life[b.record]
         PROVE  users'[b.record] # None /\ users'[b.record].uid = b.uid
    <3>1. CASE b = a BY <2>3, <2>6, <3>1
    <3>2. CASE b \in admitted
      <4>1. b.record # r /\ b.record \in Records BY <2>10, <2>12, <3>2 DEF AccessTypes
      <4> QED BY <2>4, <2>12, <3>2, <4>1 DEF AdmittedBound
    <3> QED BY <2>1, <3>1, <3>2
  <2>13. AdmittedBound' BY <1>1, <2>11, <2>12 DEF AdmittedBound
  <2>14. GrantsKept' BY <1>1, <2>2, <2>3, <2>4 DEF GrantsKept
  <2>15. \A s, u \in Records :
            users'[s] # None /\ users'[u] # None /\ users'[s].uid = users'[u].uid /\ users'[s].uid # None => s = u
    BY <1>1, <2>2, <2>3, <2>4 DEF BindingsOneToOne, Access!BindingsOneToOne, Access!Known
  <2>16. \A b, d \in admitted' : b.record = d.record /\ b.life = d.life => b.uid = d.uid
    BY <2>1, <2>6, <2>10 DEF BindingsOneToOne, Access!BindingsOneToOne
  <2>17. \A b \in admitted' : <<b.record, b.found>> \in granted
    BY <1>1, <2>1, <2>6 DEF BindingsOneToOne, Access!BindingsOneToOne
  <2>18. BindingsOneToOne'
    BY <1>1, <2>15, <2>16, <2>17 DEF BindingsOneToOne, Access!BindingsOneToOne, Access!Known
  <2> QED BY <2>8, <2>9, <2>13, <2>14, <2>18
<1> QED BY <1>2, <1>3

(* A save keeps the identity of its record, a merge brings back a record   *)
(* without one, and a deletion ends a life.                                *)
LEMMA RecordsKeep ==
    ASSUME AccessInv, NEW r \in Records, NEW record \in Access!Record \cup {None},
           users' = [users EXCEPT ![r] = record], UNCHANGED <<identities, signIn, invitation, admitted>>,
           life' = IF record = None THEN [life EXCEPT ![r] = @ + 1] ELSE life,
           granted \subseteq granted', granted' \subseteq Records \X Nat,
           record # None => record.uid = IF users[r] = None THEN None ELSE users[r].uid,
           record # None /\ record.granted => <<r, life[r]>> \in granted'
    PROVE  AccessInv'
<1> USE DEF AccessInv
<1>1. /\ \A s \in Records : s # r => users'[s] = users[s] /\ life'[s] = life[s]
      /\ users'[r] = record /\ life[r] \in Nat /\ life'[r] \in Nat
      /\ life'[r] = IF record = None THEN life[r] + 1 ELSE life[r]
      /\ users' \in [Records -> Access!Record \cup {None}] /\ life' \in [Records -> Nat]
  BY DEF AccessTypes
<1>2. AccessTypes' BY <1>1 DEF AccessTypes
<1>3. SignInsBegun' BY DEF SignInsBegun
<1>4. AdmittedBound'
  <2> SUFFICES ASSUME NEW b \in admitted
               PROVE  /\ b.life <= life'[b.record]
                      /\ b.life = life'[b.record] => users'[b.record] # None /\ users'[b.record].uid = b.uid
    BY DEF AdmittedBound
  <2>1. /\ b.record \in Records /\ b.life \in Nat /\ b.life <= life[b.record] /\ b.uid \in Identities
        /\ b.life = life[b.record] => users[b.record] # None /\ users[b.record].uid = b.uid
    BY DEF AdmittedBound, AccessTypes
  <2>2. CASE b.record # r BY <1>1, <2>1, <2>2
  <2>3. CASE b.record = r BY <1>1, <2>1, <2>3
  <2> QED BY <2>2, <2>3
<1>5. GrantsKept'
  <2> SUFFICES ASSUME NEW s \in Records, users'[s] # None, users'[s].granted PROVE <<s, life'[s]>> \in granted'
    BY DEF GrantsKept
  <2>1. CASE s = r BY <1>1, <2>1
  <2>2. CASE s # r BY <1>1, <2>2 DEF GrantsKept
  <2> QED BY <2>1, <2>2
<1>6. BindingsOneToOne'
  <2>1. \A s, u \in Records :
           users'[s] # None /\ users'[u] # None /\ users'[s].uid = users'[u].uid /\ users'[s].uid # None => s = u
    BY <1>1 DEF BindingsOneToOne, Access!BindingsOneToOne, Access!Known
  <2>2. /\ \A b, d \in admitted : b.record = d.record /\ b.life = d.life => b.uid = d.uid
        /\ \A b \in admitted : <<b.record, b.found>> \in granted'
    BY DEF BindingsOneToOne, Access!BindingsOneToOne
  <2> QED BY <2>1, <2>2 DEF BindingsOneToOne, Access!BindingsOneToOne, Access!Known
<1> QED BY <1>2, <1>3, <1>4, <1>5, <1>6

LEMMA AccessKeeps == AccessInv /\ [Access!Next]_accessVars => AccessInv'
<1> SUFFICES ASSUME AccessInv, [Access!Next]_accessVars PROVE AccessInv' OBVIOUS
<1>1. ASSUME UNCHANGED <<identities, users, signIn, invitation, life, granted, admitted>> PROVE AccessInv'
  BY <1>1 DEF AccessInv, AccessTypes, SignInsBegun, AdmittedBound, GrantsKept, BindingsOneToOne,
              Access!BindingsOneToOne, Access!Known
<1>2. ASSUME NEW r \in Records, NEW email \in Emails, NEW grant \in BOOLEAN, Access!SaveUser(r, email, grant)
      PROVE  AccessInv'
  <2> DEFINE record == Access!Merged(r, email, grant)
  <2>1. users[r] \in Access!Record \cup {None} /\ life[r] \in Nat BY DEF AccessInv, AccessTypes
  <2>2. /\ record \in Access!Record /\ record.granted = grant
        /\ record.uid = IF users[r] = None THEN None ELSE users[r].uid
    BY <2>1 DEF Access!Merged, Access!Record, Access!Known
  <2>3. record # None BY <2>2, NoneAssumption
  <2>4. granted' = IF grant THEN granted \cup {<<r, life[r]>>} ELSE granted BY <1>2 DEF Access!SaveUser
  <2>5. granted \subseteq granted' /\ granted' \subseteq Records \X Nat
    BY <2>1, <2>4 DEF AccessInv, AccessTypes
  <2>6. users' = [users EXCEPT ![r] = record] /\ UNCHANGED <<identities, signIn, invitation, life, admitted>>
    BY <1>2 DEF Access!SaveUser
  <2> HIDE DEF record
  <2> QED BY <2>2, <2>3, <2>4, <2>5, <2>6, RecordsKeep
<1>3. ASSUME NEW r \in Records, Access!DeleteUser(r) PROVE AccessInv'
  <2>1. granted \subseteq Records \X Nat BY DEF AccessInv, AccessTypes
  <2> QED BY <1>3, <2>1, RecordsKeep DEF Access!DeleteUser
<1>4. ASSUME NEW v \in Invitations, Access!MergeInvitation(v) PROVE AccessInv'
  <2> DEFINE r == invitation[v].record
             record == IF users[r] = None THEN Access!Fragment ELSE users[r]
  <2>1. UNCHANGED <<identities, signIn, invitation, life, granted, admitted>>
    BY <1>4 DEF Access!MergeInvitation
  <2>2. users' = [users EXCEPT ![r] = record] BY <1>4 DEF Access!MergeInvitation
  <2>3. CASE r \notin Records BY <1>1, <2>1, <2>2, <2>3 DEF AccessInv, AccessTypes
  <2>4. CASE r \in Records
    <3>1. Access!Fragment \in Access!Record /\ Access!Fragment.uid = None /\ ~Access!Fragment.granted
      BY DEF Access!Fragment, Access!Record
    <3>2. record \in Access!Record /\ record # None
      BY <2>4, <3>1, NoneAssumption DEF AccessInv, AccessTypes
    <3>3. record.uid = IF users[r] = None THEN None ELSE users[r].uid BY <3>1
    <3>4. record.granted => <<r, life[r]>> \in granted BY <2>4, <3>1 DEF AccessInv, GrantsKept
    <3>5. granted \subseteq Records \X Nat BY DEF AccessInv, AccessTypes
    <3> HIDE DEF r, record
    <3> QED BY <2>1, <2>2, <2>4, <3>2, <3>3, <3>4, <3>5, RecordsKeep
  <2> QED BY <2>3, <2>4
<1> QED
  BY <1>1, <1>2, <1>3, <1>4, InvitationsKeep, SignInsKeep, BindKeeps DEF Access!Next, accessVars

(* For any number of identities, records, sign-ins and invitations: no     *)
(* identity has two records, no two identities are admitted under one life *)
(* of a record, and nobody is admitted without a grant of that life        *)
(* (bindUid and its transaction, saveUser, the merges of an invitation).   *)
THEOREM IdentitiesBoundOneToOne == Access!Spec => []BindingsOneToOne
<1>1. AccessInv => BindingsOneToOne BY DEF AccessInv
<1>2. AccessInv /\ [Access!Next]_(Access!vars) => AccessInv' BY AccessKeeps DEF Access!vars, accessVars
<1> QED BY <1>1, <1>2, AccessInit, PTL DEF Access!Spec
-----------------------------------------------------------------------------
(* The mail that is not an alert: an entry is there before anything is     *)
(* sent and names whom it was resolved for, and each mark on an access     *)
(* record was made of it once.                                             *)
Unresolved == {"idle", "resolving"}

(* Nothing is relayed for a call before its entry, and what is relayed goes *)
(* to the recipient it resolved.                                            *)
RelayedAsResolved ==
    \A m \in relayed :
        m.to = mails[m.call].to /\ mails[m.call].step \notin Unresolved \cup {"resolved", "queued"}

(* Where a call stands tells what was written for it.                       *)
StepsTell ==
    \A c \in Mails :
        /\ mails[c].step \in {"accepted", "recorded"} => Outbox!Took(c)
        /\ mails[c].step \in {"queued", "accepted", "recorded"} => outbox[c] # None
        /\ mails[c].step \in Unresolved => outbox[c] = None
        /\ outbox[c] # None => outbox[c].to = mails[c].to
        /\ mails[c].step = "recorded" => outbox[c].status = "Accepted" /\ mails[c].event = "invitation"
        /\ answers[c] # None => mails[c].step = "done"
        /\ mails[c].step # "idle" =>
              /\ mails[c].event \in Outbox!Events /\ mails[c].entity \in Outbox!Entities(mails[c].event)
              /\ mails[c].event # "link" => mails[c].with \in Outbox!Configuration

(* A call about a decision that has its recipient is about a request that   *)
(* was so decided, and that the recipient made.                             *)
DecisionsStand ==
    \A c \in Mails :
        mails[c].event \in Outbox!Decisions
           /\ (mails[c].step \notin Unresolved \cup {"done"} \/ Outbox!Took(c)) =>
            /\ requests[mails[c].entity] # None /\ requests[mails[c].entity].status = mails[c].event
            /\ requests[mails[c].entity].requester = mails[c].to

(* A record is marked as it once was, and as accepted only after a message *)
(* to it was.                                                               *)
MarksTell ==
    \A u \in Invitees :
        /\ accounts[u] # None /\ accounts[u].invited # None => accounts[u].invited \in marks[u]
        /\ "Accepted" \in marks[u] =>
              \E c \in Mails : Outbox!Took(c) /\ mails[c].event = "invitation" /\ mails[c].entity = u

MailInv == Outbox!TypeOK /\ Outbox!OutboxTruth /\ RelayedAsResolved /\ StepsTell
   /\ DecisionsStand /\ MarksTell

-----------------------------------------------------------------------------
LEMMA MailInit == Outbox!Init => MailInv
BY MailAssumption DEF Outbox!Apart, Outbox!Init, MailInv, Outbox!TypeOK, Outbox!Idle,
       Outbox!Steps, Outbox!OutboxTruth, Outbox!Took, RelayedAsResolved, StepsTell,
       DecisionsStand, MarksTell, Unresolved, Outbox!Events, Outbox!Answers, Outbox!Invited

(* What a call is about is named by its entity.                             *)
LEMMA EntityTypes ==
    ASSUME NEW e \in Outbox!Events
    PROVE  /\ Outbox!Entities(e) \subseteq Outbox!Things
           /\ e \in Outbox!Decisions => Outbox!Entities(e) = Corrections
           /\ e = "invitation" \/ e = "link" => Outbox!Entities(e) = Invitees
BY DEF Outbox!Events, Outbox!Decisions, Outbox!Entities, Outbox!Things

LEMMA RecipientTypes ==
    ASSUME MailInv, NEW c \in Mails, mails[c].step # "idle"
    PROVE  /\ Outbox!Recipients(mails[c].event, mails[c].entity, mails[c].with) \subseteq Emails
           /\ mails[c].event \in Outbox!Decisions /\ Outbox!Recipients(mails[c].event,
                 mails[c].entity, mails[c].with) # {} =>
                 /\ requests[mails[c].entity] # None
                 /\ requests[mails[c].entity].status = mails[c].event
                 /\ Outbox!Recipients(mails[c].event, mails[c].entity, mails[c].with)
                       = {requests[mails[c].entity].requester}
<1> DEFINE e == mails[c].event
<1>0. e \in Outbox!Events /\ mails[c].entity \in Outbox!Entities(e) /\ (e # "link" =>
         mails[c].with \in Outbox!Configuration)
  BY DEF MailInv, StepsTell
<1>1. CASE e \in Outbox!Decisions
  BY <1>0, <1>1, EntityTypes DEF Outbox!Recipients, Outbox!Decisions, MailInv, Outbox!TypeOK,
         Outbox!Request
<1>2. CASE e = "submitted"
  BY <1>0, <1>2 DEF Outbox!Recipients, Outbox!Decisions, Outbox!Configuration
<1>3. CASE e = "diagnostic"
  BY <1>0, <1>3 DEF Outbox!Recipients, Outbox!Decisions, Outbox!Configuration
<1>4. CASE e \in {"invitation", "link"}
  BY <1>0, <1>4, EntityTypes DEF Outbox!Recipients, Outbox!Decisions, MailInv, Outbox!TypeOK
<1> QED
  BY <1>0, <1>1, <1>2, <1>3, <1>4 DEF Outbox!Events

MailCall == [step : Outbox!Steps, event : Outbox!Events \cup {None}, entity : Outbox!Things \cup {None},
               with : Configurations \cup {Environment, None}, to : Emails \cup {None}]

LEMMA MailTypes == ASSUME MailInv, [Outbox!Next]_(Outbox!vars) PROVE Outbox!TypeOK'
<1> USE DEF MailInv, Outbox!TypeOK, Outbox!records, MailCall
<1>1. CASE UNCHANGED Outbox!vars
  BY <1>1 DEF Outbox!vars
<1>2. ASSUME NEW s \in Configurations, Outbox!WriteSettings(s) PROVE Outbox!TypeOK'
  BY <1>2 DEF Outbox!WriteSettings
<1>3. ASSUME NEW q \in Corrections, NEW a \in Emails, Outbox!Submit(q, a) PROVE Outbox!TypeOK'
  BY <1>3 DEF Outbox!Submit, Outbox!Request
<1>4. ASSUME NEW q \in Corrections, NEW d \in Outbox!Decisions, Outbox!Decide(q, d) PROVE Outbox!TypeOK'
  BY <1>4 DEF Outbox!Decide, Outbox!Request
<1>5. ASSUME NEW u \in Invitees, Outbox!DeleteUser(u) PROVE Outbox!TypeOK'
  BY <1>5 DEF Outbox!DeleteUser
<1>6. ASSUME NEW u \in Invitees, NEW a \in Emails, Outbox!SaveUser(u, a) PROVE Outbox!TypeOK'
  <2>0. \A v \in Invitees : accounts[v] # None => accounts[v].invited \in {None} \cup Outbox!Invited
    OBVIOUS
  <2>1. PICK mark \in {IF accounts[u] = None THEN None ELSE accounts[u].invited} \cup marks[u] :
           accounts' = [accounts EXCEPT ![u] = [address |-> a, invited |-> mark]]
    BY <1>6 DEF Outbox!SaveUser
  <2>2. mark \in {None} \cup Outbox!Invited
    BY <2>0
  <2> QED
    BY <1>6, <2>1, <2>2 DEF Outbox!SaveUser
<1>7. ASSUME NEW c \in Mails PROVE
         /\ \A step \in Outbox!Steps : Outbox!Advance(c, step) =>
               mails' \in [Mails -> MailCall] /\ answers' = answers
         /\ \A text \in Outbox!Answers : Outbox!End(c, text) =>
               mails' \in [Mails -> MailCall] /\ answers' \in [Mails -> Outbox!Answers \cup {None}]
         /\ \A status \in {"Queued", "Accepted", "Failed"} :
               Outbox!Record(c, status) => outbox' \in [Mails -> Outbox!Entry \cup {None}]
  <2>1. ASSUME NEW step \in Outbox!Steps, Outbox!Advance(c, step)
        PROVE mails' \in [Mails -> MailCall] /\ answers' = answers
    BY <2>1 DEF Outbox!Advance, MailCall
  <2>2. ASSUME NEW text \in Outbox!Answers, Outbox!End(c, text)
        PROVE  mails' \in [Mails -> MailCall] /\ answers' \in [Mails -> Outbox!Answers \cup {None}]
    BY <2>2 DEF Outbox!End, Outbox!Answer, MailCall, Outbox!Steps
  <2>3. ASSUME NEW status \in {"Queued", "Accepted", "Failed"}, Outbox!Record(c, status)
        PROVE  outbox' \in [Mails -> Outbox!Entry \cup {None}]
    <3>1. mails[c].to \in Emails \cup {None}
      OBVIOUS
    <3>2. [status |-> status, to |-> mails[c].to] \in Outbox!Entry
      BY <3>1 DEF Outbox!Entry
    <3> QED
      BY <2>3, <3>2 DEF Outbox!Record
  <2> QED
    BY <2>1, <2>2, <2>3
<1>8. ASSUME NEW c \in Mails, NEW event \in Outbox!Events, NEW entity \in Outbox!Entities(event),
                Outbox!Start(c, event, entity) PROVE Outbox!TypeOK'
  BY <1>8, EntityTypes DEF Outbox!Start, Outbox!Steps, Outbox!ActiveConfiguration
<1>9. ASSUME NEW c \in Mails, Outbox!Resolve(c) PROVE Outbox!TypeOK'
  <2>1. CASE Outbox!End(c, "failed")
    BY <1>7, <1>9, <2>1 DEF Outbox!Resolve, Outbox!Answers
  <2>2. ASSUME NEW address \in Outbox!Recipients(mails[c].event, mails[c].entity, mails[c].with),
               mails' = [mails EXCEPT ![c] = [@ EXCEPT !.to = address, !.step = "resolved"]],
                  UNCHANGED answers
        PROVE Outbox!TypeOK'
    <3>1. address \in Emails
      BY <1>9, <2>2, RecipientTypes DEF Outbox!Resolve
    <3> QED
      BY <1>9, <2>2, <3>1 DEF Outbox!Resolve, Outbox!Steps
  <2> QED
    BY <1>9, <2>1, <2>2 DEF Outbox!Resolve
<1>10. ASSUME NEW c \in Mails, Outbox!RecordQueued(c) PROVE Outbox!TypeOK'
  BY <1>7, <1>10 DEF Outbox!RecordQueued, Outbox!Steps
<1>11. ASSUME NEW c \in Mails, Outbox!Send(c) PROVE Outbox!TypeOK'
  BY <1>7, <1>11 DEF Outbox!Send, Outbox!Steps
<1>12. ASSUME NEW c \in Mails, Outbox!RecordAccepted(c) PROVE Outbox!TypeOK'
  BY <1>7, <1>12 DEF Outbox!RecordAccepted, Outbox!Steps, Outbox!Answers
<1>13. ASSUME NEW c \in Mails, Outbox!MarkInvited(c) \/ Outbox!CopyLink(c) PROVE Outbox!TypeOK'
  BY <1>7, <1>13 DEF Outbox!MarkInvited, Outbox!CopyLink, Outbox!Merge, Outbox!Steps,
         Outbox!Answers, Outbox!Invited
<1>14. ASSUME NEW c \in Mails, Outbox!RecordFailed(c) \/ Outbox!Crash(c) PROVE Outbox!TypeOK'
  BY <1>7, <1>14 DEF Outbox!RecordFailed, Outbox!Crash, Outbox!Steps, Outbox!Answers
<1> QED
  BY <1>1, <1>2, <1>3, <1>4, <1>5, <1>6, <1>8, <1>9, <1>10, <1>11, <1>12, <1>13, <1>14 DEF Outbox!Next

-----------------------------------------------------------------------------
(* Whoever writes settings, requests and access records leaves the calls;   *)
(* a decision that is made stays.                                           *)
LEMMA MailWaits ==
    ASSUME MailInv,
           \/ UNCHANGED Outbox!vars
           \/ \E s \in Configurations : Outbox!WriteSettings(s)
           \/ \E q \in Corrections :
                 \/ \E a \in Emails : Outbox!Submit(q, a)
                 \/ \E d \in Outbox!Decisions : Outbox!Decide(q, d)
           \/ \E u \in Invitees : Outbox!DeleteUser(u) \/ \E a \in Emails : Outbox!SaveUser(u, a)
    PROVE  Outbox!OutboxTruth' /\ RelayedAsResolved' /\ StepsTell' /\ DecisionsStand' /\ MarksTell'
<1> USE DEF MailInv
<1>1. UNCHANGED <<mails, outbox, answers, relayed>>
  BY DEF Outbox!vars, Outbox!WriteSettings, Outbox!Submit, Outbox!Decide, Outbox!DeleteUser,
         Outbox!SaveUser
<1>2. \A q \in Corrections : requests[q] # None /\ requests[q].status \in Outbox!Decisions =>
         /\ requests'[q] # None /\ requests'[q].status = requests[q].status
         /\ requests'[q].requester = requests[q].requester
  BY MailAssumption DEF Outbox!vars, Outbox!WriteSettings, Outbox!Submit, Outbox!Decide,
         Outbox!DeleteUser, Outbox!SaveUser, Outbox!TypeOK, Outbox!Apart, Outbox!Request,
            Outbox!Decisions
<1>3. RelayedAsResolved' /\ StepsTell'
  BY <1>1 DEF RelayedAsResolved, StepsTell, Outbox!Took
<1>4. DecisionsStand'
  BY <1>1, <1>2, EntityTypes DEF DecisionsStand, Outbox!Took, StepsTell, RelayedAsResolved,
         Unresolved
<1>5. marks' = marks
  BY DEF Outbox!vars, Outbox!WriteSettings, Outbox!Submit, Outbox!Decide, Outbox!DeleteUser,
         Outbox!SaveUser
<1>6. \A u \in Invitees : accounts'[u] # None /\ accounts'[u].invited # None =>
         accounts'[u].invited \in marks[u]
  <2>1. ASSUME NEW v \in Invitees, NEW a \in Emails, Outbox!SaveUser(v, a), NEW u \in Invitees,
               accounts'[u] # None, accounts'[u].invited # None
        PROVE  accounts'[u].invited \in marks[u]
    <3>1. PICK mark \in {IF accounts[v] = None THEN None ELSE accounts[v].invited} \cup marks[v] :
             accounts' = [accounts EXCEPT ![v] = [address |-> a, invited |-> mark]]
      BY <2>1 DEF Outbox!SaveUser
    <3> QED
      BY <2>1, <3>1 DEF Outbox!TypeOK, MarksTell
  <2>2. ASSUME NEW v \in Invitees, Outbox!DeleteUser(v), NEW u \in Invitees, accounts'[u] # None
        PROVE  accounts'[u] = accounts[u]
    BY <2>2 DEF Outbox!DeleteUser, Outbox!TypeOK
  <2> QED
    BY <2>1, <2>2 DEF Outbox!vars, Outbox!WriteSettings, Outbox!Submit, Outbox!Decide, MarksTell
<1>7. MarksTell'
  BY <1>1, <1>5, <1>6 DEF MarksTell, Outbox!Took
<1>8. \A u \in Invitees : accounts'[u] # None /\ accounts'[u].invited = "Accepted" =>
         \E c \in Mails : Outbox!Took(c)' /\ mails'[c].event = "invitation" /\ mails'[c].entity = u
  BY <1>7, MailAssumption DEF MarksTell, Outbox!Apart, Outbox!Invited
<1>9. Outbox!OutboxTruth'
  <2>1. \A m \in relayed : m.to = mails'[m.call].to /\ m.call \in Mails /\ Outbox!Took(m.call)'
    BY <1>1 DEF RelayedAsResolved, Outbox!TypeOK, Outbox!Took
  <2>2. \A m \in relayed : mails'[m.call].event \in Outbox!Decisions =>
           /\ requests'[mails'[m.call].entity].status = mails'[m.call].event
           /\ requests'[mails'[m.call].entity].requester = m.to
    BY <1>4, <2>1 DEF DecisionsStand
  <2> QED
    BY <1>1, <1>8, <2>2 DEF Outbox!OutboxTruth, Outbox!Took
<1> QED
  BY <1>3, <1>4, <1>7, <1>9

-----------------------------------------------------------------------------
(* The steps of a call. Each writes for that call alone.                    *)
OthersKept(c) == \A d \in Mails \ {c} : mails'[d] = mails[d] /\ outbox'[d] = outbox[d]
   /\ answers'[d] = answers[d]

LEMMA MailStarts ==
    ASSUME MailInv, NEW c \in Mails, NEW event \in Outbox!Events,
              NEW entity \in Outbox!Entities(event), Outbox!Start(c, event, entity)
    PROVE  Outbox!OutboxTruth' /\ RelayedAsResolved' /\ StepsTell' /\ DecisionsStand' /\ MarksTell'
<1> USE DEF MailInv
<1>0. mails[c].step = "idle" /\ ~Outbox!Took(c) /\ UNCHANGED <<Outbox!records, outbox, answers,
         relayed>>
  BY DEF Outbox!Start, Outbox!Idle, RelayedAsResolved, Outbox!Took, Unresolved
<1>1. /\ mails'[c].step = "resolving" /\ mails'[c].event = event /\ mails'[c].entity = entity
      /\ event # "link" => mails'[c].with \in Outbox!Configuration
      /\ \A d \in Mails \ {c} : mails'[d] = mails[d]
  BY MailAssumption DEF Outbox!Start, Outbox!TypeOK, Outbox!ActiveConfiguration, Outbox!Apart
<1>2. RelayedAsResolved'
  BY <1>0, <1>1 DEF RelayedAsResolved, Outbox!TypeOK, Outbox!Took
<1>3. StepsTell'
  BY <1>0, <1>1 DEF StepsTell, Outbox!TypeOK, Outbox!Took, Unresolved, Outbox!records
<1>4. DecisionsStand'
  BY <1>0, <1>1 DEF DecisionsStand, Outbox!TypeOK, Outbox!Took, Unresolved, Outbox!records
<1>5. Outbox!OutboxTruth'
  BY <1>0, <1>1 DEF Outbox!OutboxTruth, Outbox!TypeOK, Outbox!Took, Outbox!records
<1>6. MarksTell'
  <2>1. accounts' = accounts /\ marks' = marks /\ relayed' = relayed
    BY <1>0 DEF Outbox!records
  <2>2. \A d \in Mails : Outbox!Took(d) => Outbox!Took(d)' /\ mails'[d] = mails[d]
    BY <1>0, <1>1, <2>1 DEF Outbox!Took
  <2> QED
    BY <2>1, <2>2 DEF MarksTell
<1> QED
  BY <1>2, <1>3, <1>4, <1>5, <1>6

LEMMA MailResolves ==
    ASSUME MailInv, NEW c \in Mails, Outbox!Resolve(c)
    PROVE  Outbox!OutboxTruth' /\ RelayedAsResolved' /\ StepsTell' /\ DecisionsStand' /\ MarksTell'
<1> USE DEF MailInv
<1> DEFINE to == Outbox!Recipients(mails[c].event, mails[c].entity, mails[c].with)
<1>0. mails[c].step = "resolving" /\ ~Outbox!Took(c) /\ outbox[c] = None
         /\ UNCHANGED <<Outbox!records, outbox, relayed>>
  <2>1. mails[c].step = "resolving" /\ UNCHANGED <<Outbox!records, outbox, relayed>>
    BY DEF Outbox!Resolve
  <2>2. ~Outbox!Took(c)
    BY <2>1 DEF RelayedAsResolved, Outbox!Took, Unresolved
  <2>3. outbox[c] = None
    BY <2>1 DEF StepsTell, Unresolved
  <2> QED
    BY <2>1, <2>2, <2>3
<1>1. /\ mails'[c].event = mails[c].event /\ mails'[c].entity = mails[c].entity
            /\ mails'[c].with = mails[c].with
      /\ \/ mails'[c].step = "resolved" /\ mails'[c].to \in to /\ answers' = answers
         \/ mails'[c].step = "done" /\ answers'[c] = "failed"
      /\ \A d \in Mails \ {c} : mails'[d] = mails[d] /\ answers'[d] = answers[d]
  <2>1. CASE Outbox!End(c, "failed")
    BY <2>1 DEF Outbox!TypeOK, Outbox!End, Outbox!Answer
  <2>2. ASSUME NEW address \in to,
               mails' = [mails EXCEPT ![c] = [@ EXCEPT !.to = address, !.step = "resolved"]],
                  UNCHANGED answers
        PROVE  <1>1
    <3>1. mails[c] \in MailCall
      BY DEF Outbox!TypeOK, MailCall
    <3>2. mails'[c] = [mails[c] EXCEPT !.to = address, !.step = "resolved"]
      BY <2>2 DEF Outbox!TypeOK
    <3>3. \A d \in Mails \ {c} : mails'[d] = mails[d]
      BY <2>2 DEF Outbox!TypeOK
    <3> QED
      BY <2>2, <3>1, <3>2, <3>3 DEF MailCall
  <2> QED
    BY <2>1, <2>2 DEF Outbox!Resolve
<1>2. RelayedAsResolved'
  BY <1>0, <1>1 DEF RelayedAsResolved, Outbox!TypeOK, Outbox!Took
<1>3. StepsTell'
  BY <1>0, <1>1 DEF StepsTell, Outbox!TypeOK, Outbox!Took, Unresolved, Outbox!records
<1>4. DecisionsStand'
  <2>1. mails[c].event \in Outbox!Decisions /\ to # {} =>
           /\ requests[mails[c].entity] # None /\ requests[mails[c].entity].status = mails[c].event
           /\ to = {requests[mails[c].entity].requester}
    BY <1>0, RecipientTypes
  <2> QED
    BY <1>0, <1>1, <2>1 DEF DecisionsStand, Outbox!TypeOK, Outbox!Took, Unresolved, Outbox!records
<1>5. Outbox!OutboxTruth' /\ MarksTell'
  BY <1>0, <1>1 DEF Outbox!OutboxTruth, MarksTell, Outbox!TypeOK, Outbox!Took, Outbox!records
<1> QED
  BY <1>2, <1>3, <1>4, <1>5

(* The steps after a call has its recipient: what each writes for its call. *)
LEMMA DeliveryWrites ==
    ASSUME MailInv, NEW c \in Mails,
           \/ Outbox!RecordQueued(c) \/ Outbox!Send(c) \/ Outbox!RecordAccepted(c)
           \/ Outbox!MarkInvited(c) \/ Outbox!CopyLink(c) \/ Outbox!RecordFailed(c) \/ Outbox!Crash(c)
    PROVE  /\ UNCHANGED <<settings, requests>>
           /\ \A d \in Mails \ {c} :
                 mails'[d] = mails[d] /\ outbox'[d] = outbox[d] /\ answers'[d] = answers[d]
           /\ mails'[c].event = mails[c].event /\ mails'[c].entity = mails[c].entity
           /\ mails'[c].with = mails[c].with /\ mails'[c].to = mails[c].to
           /\ mails[c].step # "idle" /\ mails[c].step # "done"
           /\ outbox'[c] = outbox[c] \/ (outbox'[c].to = mails[c].to /\ outbox'[c] # None)
<1> USE DEF MailInv, Outbox!TypeOK, Outbox!records
<1>1. /\ UNCHANGED <<settings, requests>> /\ mails[c].step # "idle" /\ mails[c].step # "done"
      /\ outbox' = outbox \/ \E status \in {"Queued", "Accepted", "Failed"} : Outbox!Record(c, status)
      /\ \E step \in Outbox!Steps : mails' = [mails EXCEPT ![c].step = step]
      /\ answers' = answers \/ \E text \in Outbox!Answers : Outbox!Answer(c, text)
  BY DEF Outbox!RecordQueued, Outbox!Send, Outbox!RecordAccepted, Outbox!MarkInvited,
         Outbox!CopyLink, Outbox!RecordFailed, Outbox!Crash, Outbox!Advance, Outbox!End,
         Outbox!Steps, Outbox!Answers
<1>2. \A d \in Mails \ {c} :
         mails'[d] = mails[d] /\ outbox'[d] = outbox[d] /\ answers'[d] = answers[d]
  BY <1>1 DEF Outbox!Record, Outbox!Answer
<1>3. /\ mails'[c].event = mails[c].event /\ mails'[c].entity = mails[c].entity
      /\ mails'[c].with = mails[c].with /\ mails'[c].to = mails[c].to
  BY <1>1
<1>4. outbox'[c] = outbox[c] \/ (outbox'[c].to = mails[c].to /\ outbox'[c] # None)
  <2>1. mails[c].to \in Emails \cup {None}
    OBVIOUS
  <2>2. \A status \in {"Queued", "Accepted", "Failed"} : [status |-> status,
           to |-> mails[c].to] \in Outbox!Entry
    BY <2>1 DEF Outbox!Entry
  <2>3. ASSUME NEW status \in {"Queued", "Accepted", "Failed"}, Outbox!Record(c, status)
        PROVE  outbox'[c].to = mails[c].to /\ outbox'[c] # None
    <3>1. outbox'[c] = [status |-> status, to |-> mails[c].to]
      BY <2>3 DEF Outbox!Record
    <3>2. outbox'[c] \in Outbox!Entry
      BY <2>2, <3>1
    <3> QED
      BY <3>1, <3>2, MailAssumption DEF Outbox!Apart
  <2>4. outbox' = outbox \/ \E status \in {"Queued", "Accepted", "Failed"} : Outbox!Record(c, status)
    BY <1>1
  <2>5. CASE outbox' = outbox
    BY <2>5
  <2> QED
    BY <2>3, <2>4, <2>5
<1> QED
  BY <1>1, <1>2, <1>3, <1>4

(* What each step takes and leaves; all else follows.                       *)
RecordQueuedDoes(c) ==
    /\ mails[c].step = "resolved" /\ mails'[c].step \in {"queued", "failing"}
    /\ UNCHANGED <<accounts, marks, answers, relayed>>
    /\ mails'[c].step = "queued" => outbox'[c] # None
    /\ outbox'[c] = outbox[c] \/ outbox'[c].status = "Queued"

SendDoes(c) ==
    /\ mails[c].step = "queued" /\ mails'[c].step \in {"accepted", "failing"}
    /\ UNCHANGED <<accounts, marks, answers, outbox>>
    /\ \/ relayed' = relayed \cup {[call |-> c, to |-> mails[c].to]}
       \/ relayed' = relayed /\ mails'[c].step = "failing"

RecordAcceptedDoes(c) ==
    /\ mails[c].step = "accepted" /\ UNCHANGED <<accounts, marks, relayed>>
    /\ outbox'[c] = outbox[c] \/ outbox'[c].status = "Accepted"
    /\ \/ /\ mails'[c].step = "recorded" /\ mails[c].event = "invitation"
          /\ outbox'[c].status = "Accepted" /\ UNCHANGED answers
       \/ mails'[c].step = "done" /\ outbox'[c].status = "Accepted"
       \/ mails'[c].step = "failing" /\ UNCHANGED answers

MarkInvitedDoes(c) ==
    /\ mails[c].step = "recorded" /\ UNCHANGED <<outbox, relayed>>
    /\ UNCHANGED <<accounts, marks>> \/ Outbox!Merge(mails[c].entity, "Accepted")
    /\ mails'[c].step = "done" \/ (mails'[c].step = "failing" /\ UNCHANGED answers)

CopyLinkDoes(c) ==
    /\ mails[c].step = "resolved" /\ mails'[c].step = "done"
    /\ UNCHANGED <<outbox, relayed>>
    /\ UNCHANGED <<accounts, marks>> \/ Outbox!Merge(mails[c].entity, "Submitted")
    /\ answers'[c] \in {"link", "failed"}

RecordFailedDoes(c) ==
    /\ mails[c].step = "failing" /\ mails'[c].step = "done"
    /\ UNCHANGED <<accounts, marks, relayed>> /\ answers'[c] = "failed"
    /\ outbox'[c] = outbox[c] \/ outbox'[c].status = "Failed"

CrashDoes(c) ==
    /\ mails[c].step \notin {"idle", "done"} /\ mails'[c].step = "done"
    /\ UNCHANGED <<accounts, marks, answers, outbox, relayed>>

LEMMA DeliverySteps ==
    ASSUME MailInv, NEW c \in Mails
    PROVE  /\ Outbox!RecordQueued(c) => RecordQueuedDoes(c)
           /\ Outbox!Send(c) => SendDoes(c)
           /\ Outbox!RecordAccepted(c) => RecordAcceptedDoes(c)
           /\ Outbox!MarkInvited(c) => MarkInvitedDoes(c)
           /\ Outbox!CopyLink(c) => CopyLinkDoes(c)
           /\ Outbox!RecordFailed(c) => RecordFailedDoes(c)
           /\ Outbox!Crash(c) => CrashDoes(c)
<1> USE DEF MailInv, Outbox!TypeOK, Outbox!records
<1>1. /\ \A step \in Outbox!Steps : Outbox!Advance(c, step) =>
            mails'[c].step = step /\ answers' = answers
      /\ \A text \in Outbox!Answers : Outbox!End(c, text) =>
            mails'[c].step = "done" /\ answers'[c] = text
  BY DEF Outbox!Advance, Outbox!End, Outbox!Answer
<1>2. \A status \in {"Queued", "Accepted", "Failed"} : Outbox!Record(c, status) =>
         outbox'[c].status = status
  BY DEF Outbox!Record
<1>3. ASSUME Outbox!Record(c, "Queued") PROVE outbox'[c] # None
  <2>1. [status |-> "Queued", to |-> mails[c].to] \in Outbox!Entry
    BY DEF Outbox!Entry
  <2> QED
    BY <1>3, <2>1, MailAssumption DEF Outbox!Record, Outbox!Apart
<1>4. {"queued", "accepted", "recorded", "failing",
         "done"} \subseteq Outbox!Steps /\ {"accepted", "link", "failed"} \subseteq Outbox!Answers
  BY DEF Outbox!Steps, Outbox!Answers
<1> USE <1>1, <1>2, <1>3, <1>4
<1>5. Outbox!RecordQueued(c) => RecordQueuedDoes(c)
  BY DEF Outbox!RecordQueued, RecordQueuedDoes
<1>6. Outbox!Send(c) => SendDoes(c)
  BY DEF Outbox!Send, SendDoes
<1>7. Outbox!RecordAccepted(c) => RecordAcceptedDoes(c)
  BY DEF Outbox!RecordAccepted, RecordAcceptedDoes
<1>8. Outbox!MarkInvited(c) => MarkInvitedDoes(c)
  BY DEF Outbox!MarkInvited, MarkInvitedDoes
<1>9. Outbox!CopyLink(c) => CopyLinkDoes(c)
  BY DEF Outbox!CopyLink, CopyLinkDoes
<1>10. Outbox!RecordFailed(c) => RecordFailedDoes(c)
  BY DEF Outbox!RecordFailed, RecordFailedDoes
<1>11. Outbox!Crash(c) => CrashDoes(c)
  BY DEF Outbox!Crash, CrashDoes
<1> QED
  BY <1>5, <1>6, <1>7, <1>8, <1>9, <1>10, <1>11

LEMMA DeliveryKeeps ==
    ASSUME MailInv, NEW c \in Mails,
           \/ Outbox!RecordQueued(c) \/ Outbox!Send(c) \/ Outbox!RecordAccepted(c)
           \/ Outbox!MarkInvited(c) \/ Outbox!CopyLink(c) \/ Outbox!RecordFailed(c) \/ Outbox!Crash(c)
    PROVE  Outbox!OutboxTruth' /\ RelayedAsResolved' /\ StepsTell' /\ DecisionsStand' /\ MarksTell'
<1> USE DEF MailInv
<1>1. /\ UNCHANGED <<settings, requests>>
      /\ \A d \in Mails \ {c} :
            mails'[d] = mails[d] /\ outbox'[d] = outbox[d] /\ answers'[d] = answers[d]
      /\ mails'[c].event = mails[c].event /\ mails'[c].entity = mails[c].entity
      /\ mails'[c].with = mails[c].with /\ mails'[c].to = mails[c].to
      /\ mails[c].step # "idle" /\ mails[c].step # "done"
      /\ outbox'[c] = outbox[c] \/ (outbox'[c].to = mails[c].to /\ outbox'[c] # None)
  BY DeliveryWrites
<1>2. \/ RecordQueuedDoes(c) \/ SendDoes(c) \/ RecordAcceptedDoes(c)
      \/ MarkInvitedDoes(c) \/ CopyLinkDoes(c) \/ RecordFailedDoes(c) \/ CrashDoes(c)
  BY DeliverySteps
<1> USE DEF RecordQueuedDoes, SendDoes, RecordAcceptedDoes, MarkInvitedDoes, CopyLinkDoes,
        RecordFailedDoes, CrashDoes
(* What was relayed stays, and is new only in Send.                         *)
<1>3. /\ relayed \subseteq relayed'
      /\ \A m \in relayed' : m \in relayed \/ (SendDoes(c) /\ m.call = c /\ m.to = mails[c].to)
  BY <1>2
<1>4. /\ \A d \in Mails : Outbox!Took(d) => Outbox!Took(d)'
      /\ \A d \in Mails \ {c} : Outbox!Took(d)' => Outbox!Took(d)
      /\ ~SendDoes(c) => (Outbox!Took(c)' => Outbox!Took(c))
  BY <1>3 DEF Outbox!Took
<1>5. mails'[c].step \notin Unresolved \cup {"resolved"} /\ (SendDoes(c) \/ Outbox!Took(c) =>
         mails'[c].step # "queued")
  BY <1>2 DEF Unresolved, RelayedAsResolved, Outbox!Took
<1>6. RelayedAsResolved'
  <2> SUFFICES ASSUME NEW m \in relayed'
               PROVE  m.to = mails'[m.call].to
                         /\ mails'[m.call].step \notin Unresolved \cup {"resolved", "queued"}
    BY DEF RelayedAsResolved
  <2>1. CASE m \in relayed /\ m.call # c
    BY <1>1, <2>1 DEF RelayedAsResolved, Outbox!TypeOK
  <2>2. CASE m \in relayed /\ m.call = c
    BY <1>1, <1>5, <2>2 DEF RelayedAsResolved, Outbox!Took
  <2>3. CASE SendDoes(c) /\ m.call = c /\ m.to = mails[c].to
    BY <1>1, <1>5, <2>3
  <2> QED
    BY <1>3, <2>1, <2>2, <2>3
<1>7. mails'[c].step \in {"accepted", "recorded"} => Outbox!Took(c)'
  <2>1. SendDoes(c) /\ mails'[c].step = "accepted" => Outbox!Took(c)'
    <3> SUFFICES ASSUME relayed' = relayed \cup {[call |-> c, to |-> mails[c].to]} PROVE Outbox!Took(c)'
      OBVIOUS
    <3>1. [call |-> c, to |-> mails[c].to] \in relayed'
      OBVIOUS
    <3> QED
      BY <3>1 DEF Outbox!Took
  <2>2. ~SendDoes(c) /\ mails'[c].step \in {"accepted", "recorded"} => Outbox!Took(c)
    BY <1>2 DEF StepsTell
  <2> QED
    BY <1>2, <1>4, <2>1, <2>2
<1>8. StepsTell'
  <2>1. mails'[c].step \in {"queued", "accepted", "recorded"} => outbox'[c] # None
    BY <1>1, <1>2 DEF StepsTell
  <2>2. outbox'[c] # None => outbox'[c].to = mails'[c].to
    BY <1>1 DEF StepsTell
  <2>3. mails'[c].step = "recorded" => outbox'[c].status = "Accepted" /\ mails'[c].event = "invitation"
    BY <1>1, <1>2
  <2>4. answers'[c] # None => mails'[c].step = "done"
    BY <1>1, <1>2 DEF StepsTell
  <2> QED
    BY <1>1, <1>4, <1>5, <1>7, <2>1, <2>2, <2>3, <2>4 DEF StepsTell
<1>9. DecisionsStand'
  <2>1. mails'[c].step # "done" \/ Outbox!Took(c)' =>
           mails[c].step \notin Unresolved \cup {"done"} \/ Outbox!Took(c)
    BY <1>2, <1>4 DEF Unresolved
  <2> SUFFICES ASSUME NEW d \in Mails, mails'[d].event \in Outbox!Decisions,
                      mails'[d].step \notin Unresolved \cup {"done"} \/ Outbox!Took(d)'
               PROVE  /\ requests'[mails'[d].entity] # None
                      /\ requests'[mails'[d].entity].status = mails'[d].event
                      /\ requests'[mails'[d].entity].requester = mails'[d].to
    BY DEF DecisionsStand
  <2>2. mails[d].step \notin Unresolved \cup {"done"} \/ Outbox!Took(d)
    BY <1>1, <1>4, <2>1
  <2>3. mails'[d].entity = mails[d].entity /\ mails'[d].event = mails[d].event /\ mails'[d].to = mails[d].to
    BY <1>1
  <2> QED
    BY <1>1, <2>2, <2>3 DEF DecisionsStand
(* A mark is made by a merge, and Accepted by one of a call that was taken. *)
<1>10. MarksTell'
  <2>1. \/ UNCHANGED <<accounts, marks>>
        \/ Outbox!Merge(mails[c].entity, "Accepted") /\ MarkInvitedDoes(c)
        \/ Outbox!Merge(mails[c].entity, "Submitted")
    BY <1>2
  <2>2. ASSUME NEW u \in Invitees, accounts'[u] # None, accounts'[u].invited # None
        PROVE  accounts'[u].invited \in marks'[u]
    BY <2>1, <2>2 DEF Outbox!Merge, Outbox!TypeOK, MarksTell
  <2>3. ASSUME NEW u \in Invitees, "Accepted" \in marks'[u]
        PROVE  \E d \in Mails : Outbox!Took(d)' /\ mails'[d].event = "invitation"
                  /\ mails'[d].entity = u
    <3>1. CASE "Accepted" \in marks[u]
      BY <1>1, <1>4, <3>1 DEF MarksTell
    <3>2. CASE "Accepted" \notin marks[u]
      <4>1. u = mails[c].entity /\ MarkInvitedDoes(c)
        BY <2>1, <2>3, <3>2 DEF Outbox!Merge, Outbox!TypeOK
      <4> QED
        BY <1>1, <1>4, <4>1 DEF StepsTell
    <3> QED
      BY <3>1, <3>2
  <2> QED
    BY <2>2, <2>3 DEF MarksTell
<1>11. Outbox!OutboxTruth'
  <2>1. \A m \in relayed' : outbox'[m.call] # None /\ outbox'[m.call].to = m.to
    <3> SUFFICES ASSUME NEW m \in relayed' PROVE outbox'[m.call] # None /\ outbox'[m.call].to = m.to
      OBVIOUS
    <3>1. CASE m \in relayed
      BY <1>1, <3>1 DEF Outbox!OutboxTruth, RelayedAsResolved, Outbox!TypeOK
    <3>2. CASE SendDoes(c) /\ m.call = c /\ m.to = mails[c].to
      BY <3>2 DEF StepsTell
    <3> QED
      BY <1>3, <3>1, <3>2
  <2>2. outbox'[c] # None /\ outbox'[c].status = "Accepted" => Outbox!Took(c)'
    BY <1>2, <1>4 DEF Outbox!OutboxTruth, StepsTell
  <2>3. answers'[c] = "accepted" => outbox'[c].status = "Accepted"
    BY <1>1, <1>2, MailAssumption DEF StepsTell, Outbox!Apart, Outbox!Answers
  <2>4. \A m \in relayed' : mails'[m.call].event \in Outbox!Decisions =>
           /\ requests'[mails'[m.call].entity].status = mails'[m.call].event
           /\ requests'[mails'[m.call].entity].requester = m.to
    <3>1. \A m \in relayed' : m.call \in Mails /\ Outbox!Took(m.call)' /\ m.to = mails'[m.call].to
      BY <1>3, <1>6 DEF RelayedAsResolved, Outbox!TypeOK, Outbox!Took
    <3> QED
      BY <1>9, <3>1 DEF DecisionsStand
  <2>5. \A d \in Mails :
           /\ outbox'[d] # None /\ outbox'[d].status = "Accepted" => Outbox!Took(d)'
           /\ answers'[d] = "accepted" => outbox'[d].status = "Accepted"
    BY <1>1, <1>4, <2>2, <2>3 DEF Outbox!OutboxTruth
  <2>6. \A u \in Invitees : accounts'[u] # None /\ accounts'[u].invited = "Accepted" =>
           \E d \in Mails : Outbox!Took(d)' /\ mails'[d].event = "invitation" /\ mails'[d].entity = u
    BY <1>10, MailAssumption DEF MarksTell, Outbox!Apart, Outbox!Invited
  <2> QED
    BY <2>1, <2>4, <2>5, <2>6 DEF Outbox!OutboxTruth, Outbox!Took
<1> QED
  BY <1>6, <1>8, <1>9, <1>10, <1>11

(* For any numbers of calls, requests, records and addresses, whatever     *)
(* fails or stops and whoever else writes: what the outbox, the answers    *)
(* and the marks on access records say of a message happened to it         *)
(* (mailApi.ts, from the entry it creates to the one it updates).          *)
THEOREM OutboxStaysTrue == Outbox!Spec => []OutboxTruth
<1>1. MailInv /\ [Outbox!Next]_(Outbox!vars) => MailInv'
  <2> SUFFICES ASSUME MailInv, [Outbox!Next]_(Outbox!vars) PROVE MailInv'
    OBVIOUS
  <2>1. Outbox!TypeOK'
    BY MailTypes
  <2>2. Outbox!OutboxTruth' /\ RelayedAsResolved' /\ StepsTell' /\ DecisionsStand' /\ MarksTell'
    BY MailWaits, MailStarts, MailResolves, DeliveryKeeps DEF Outbox!Next
  <2> QED
    BY <2>1, <2>2 DEF MailInv
<1>2. MailInv => OutboxTruth
  BY DEF MailInv, OutboxTruth
<1> QED
  BY <1>1, <1>2, MailInit, PTL DEF Outbox!Spec

-----------------------------------------------------------------------------
(* The behaviours that are explored together are behaviours of each part,  *)
(* so that what is proved of the parts holds in them.                      *)
THEOREM PartsAreExplored == TabsSpec => Spec /\ Access!Spec /\ Session!Spec /\ Outbox!Spec
<1>1. TabsInit => Init /\ Access!Init /\ Session!Init /\ Outbox!Init
  BY DEF TabsInit
<1>2. [TabsNext]_<<vars, accessVars, sessionVars, outboxVars>> =>
         /\ [Next]_vars /\ [Access!Next]_(Access!vars)
         /\ [Session!Next]_(Session!vars) /\ [Outbox!Next]_(Outbox!vars)
  BY DEF TabsNext, accessVars, Access!vars, sessionVars, Session!vars, outboxVars, Outbox!vars
<1> QED BY <1>1, <1>2, PTL DEF TabsSpec, Spec, Access!Spec, Session!Spec, Outbox!Spec
=============================================================================
