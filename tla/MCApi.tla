------------------------------- MODULE MCApi -------------------------------
(* The API consumers see: who may call, and the synchronised pages of v1.  *)
(* The two share no record, so either is explored with the other at rest.  *)
(*                                                                         *)
(* One client and three tokens, so that a token in its overlap is rotated  *)
(* again; an overlap of two and clocks off by one, so that the overlap     *)
(* ends, for the slowest clock, within the run; three versions of the      *)
(* grants, so that they are changed there and back while a consumer pages. *)
(* The third token and changes of grants need not meet: with a third       *)
(* token the grants are those of the first version and nothing is paged.   *)
(* Tokens are issued in the order of their names, which tells nothing.     *)
EXTENDS ApiClients, TLC

CONSTANTS Locations, Numbers, Registries, Fields, None, Limit, Milli, Second, Age, FeedTime, MaxWrites

VARIABLES time, past, fields, replica, checkpoint, stale, run, writes

Scopes == {Leadership, Contacts}
Scope ==
    /\ \A u, v \in Token : v < u /\ tokens'[u] # Absent => tokens'[v] # Absent
    /\ \/ Cardinality({u \in Token : tokens'[u] # Absent}) < Cardinality(Token)
       \/ snapshots' = {} /\ \A c \in Client : changes'[c] = 0

Feed == INSTANCE LocationFeed WITH clock <- time, MaxTime <- FeedTime, Ttl <- Age

ASSUME FeedAssumption == Feed!Measured /\ Feed!Apart

feedVars == <<time, past, fields, replica, checkpoint, stale, run, writes>>

FeedAtRest == run = None /\ time = 0 /\ \A l, k \in Locations :
    past[0].locations[l] = past[0].locations[k]
AccessAtRest == clock = 0 /\ \A c \in Client : clients[c] = Absent

ApiInit == Init /\ Feed!Init
ApiNext ==
    \/ AccessAtRest /\ Feed!Next /\ UNCHANGED vars
    \/ FeedAtRest /\ Next /\ Scope /\ UNCHANGED feedVars

ApiSpec == ApiInit /\ [][ApiNext]_<<vars, feedVars>>

\* After every step the consumer's replica is the active roster of its
\* watermark, or what is left of it (LocationFeed).
ReplicaIsRoster == [][Feed!ReplicaTells]_feedVars

Symmetry == Permutations(Numbers) \cup Permutations(Registries) \cup Permutations(Fields)
=============================================================================
