--------------------------- MODULE AccessRecords ---------------------------
(* The access records of users: sign-ins that look one up by identity, or, *)
(* the first time, by verified email, and bind it; administrators who      *)
(* create, change and delete records; and invitations, which read a record *)
(* and later merge into it whatever became of it meanwhile.                *)
(*                                                                         *)
(* Each query is a read of its own, only the binding and the               *)
(* administrators' saves are transactions. Identities and their emails are *)
(* the identity provider's. A role, scope or status that admits nobody is  *)
(* a record without a grant; versions of records, which only order the     *)
(* administrators among themselves, and the protection of an               *)
(* administrator's own record are left out, as are names and mail.         *)
EXTENDS Naturals, FiniteSets

CONSTANTS
    Identities,     \* uids of the identity provider
    Emails, Records,
    Requests,       \* sign-ins
    Invitations,
    None,
    MaxSaves        \* bound: saves and deletions by administrators

Record   == [email : Emails \cup {None}, uid : Identities \cup {None}, granted : BOOLEAN]
Identity == [email : Emails \cup {None}, verified : BOOLEAN]

VARIABLES
    identities, \* the identity provider
    users,      \* access records
    signIn,     \* where each sign-in stands
    invitation, \* where each invitation stands
    life,       \* history: how often each record was deleted
    granted,    \* history: lives in which an administrator granted a record
    admitted,   \* history: sign-ins answered with an account
    saves

vars == <<identities, users, signIn, invitation, life, granted, admitted, saves>>

NotYet == [phase |-> "idle", uid |-> None, email |-> None, record |-> None, life |-> 0]
Done == [NotYet EXCEPT !.phase = "done"]

Init ==
    /\ identities \in [Identities -> [email : {None}, verified : {FALSE}]]
    /\ users = [r \in Records |-> None]
    /\ signIn = [q \in Requests |-> NotYet]
    /\ invitation = [v \in Invitations |-> NotYet]
    /\ life = [r \in Records |-> 0] /\ granted = {} /\ admitted = {} /\ saves = 0

Known == {r \in Records : users[r] # None}
With(field, value) == {r \in Known : users[r][field] = value}   \* a query
Holders(email) == {i \in Identities : identities[i].email = email}

-----------------------------------------------------------------------------
(* The identity provider: an email has one identity at a time, which may   *)
(* give it up.                                                             *)
Verify(i, email) ==
    /\ Holders(email) \subseteq {i}
    /\ identities' = [identities EXCEPT ![i] = [email |-> email, verified |-> TRUE]]
    /\ UNCHANGED <<users, signIn, invitation, life, granted, admitted, saves>>

-----------------------------------------------------------------------------
(* Administrators. The fields of a save replace those of the record, the   *)
(* identity it is bound to is not among them.                              *)
Merged(r, email, grant) ==
    [email |-> email, granted |-> grant, uid |-> IF r \in Known THEN users[r].uid ELSE None]

SaveUser(r, email, grant) ==
    /\ saves < MaxSaves /\ saves' = saves + 1
    /\ With("email", email) \subseteq {r}
    /\ r \in Known \/ life[r] = 0           \* a new record has a new id
    /\ users' = [users EXCEPT ![r] = Merged(r, email, grant)]
    /\ granted' = IF grant THEN granted \cup {<<r, life[r]>>} ELSE granted
    /\ UNCHANGED <<identities, signIn, invitation, life, admitted>>

DeleteUser(r) ==
    /\ saves < MaxSaves /\ saves' = saves + 1
    /\ r \in Known
    /\ users' = [users EXCEPT ![r] = None]
    /\ life' = [life EXCEPT ![r] = @ + 1]
    /\ UNCHANGED <<identities, signIn, invitation, granted, admitted>>

-----------------------------------------------------------------------------
(* The authenticator, one action for each of its awaits.                   *)
Settle(q, r, until) ==
    /\ signIn' = [signIn EXCEPT ![q] = Done]
    /\ admitted' = admitted \cup
          {[uid |-> signIn[q].uid, record |-> r, found |-> until, life |-> life[r]]}
Deny(q) == signIn' = [signIn EXCEPT ![q] = Done] /\ UNCHANGED admitted

(* verifyIdToken and getUser.                                              *)
Identify(q, i) ==
    /\ signIn[q].phase = "idle" /\ identities[i].email # None
    /\ signIn' = [signIn EXCEPT ![q] = [phase |-> "uid", uid |-> i, record |-> None, life |-> 0,
          email |-> IF identities[i].verified THEN identities[i].email ELSE None]]
    /\ UNCHANGED <<identities, users, invitation, life, granted, admitted, saves>>

FindByUid(q) ==
    LET matches == With("uid", signIn[q].uid) IN
    /\ signIn[q].phase = "uid"
    /\ \/ /\ matches = {} /\ signIn[q].email # None
          /\ signIn' = [signIn EXCEPT ![q].phase = "email"]
          /\ UNCHANGED admitted
       \/ \E r \in matches : matches = {r} /\ users[r].granted /\ Settle(q, r, life[r])
       \/ /\ IF matches = {} THEN signIn[q].email = None
             ELSE \A r \in matches : matches # {r} \/ ~users[r].granted
          /\ Deny(q)
    /\ UNCHANGED <<identities, users, invitation, life, granted, saves>>

Usable(r, i) == users[r].uid \in {None, i} /\ users[r].granted

FindByEmail(q) ==
    LET i == signIn[q].uid
        matches == With("email", signIn[q].email)
    IN
    /\ signIn[q].phase = "email"
    /\ \/ \E r \in matches :
             /\ matches = {r} /\ Usable(r, i)
             /\ IF users[r].uid = i THEN Settle(q, r, life[r])
                ELSE /\ signIn' = [signIn EXCEPT ![q].phase = "bind", ![q].record = r, ![q].life = life[r]]
                     /\ UNCHANGED admitted
       \/ (\A r \in matches : matches # {r} \/ ~Usable(r, i)) /\ Deny(q)
    /\ UNCHANGED <<identities, users, invitation, life, granted, saves>>

FaultyBindable(r, i) == r \in Known /\ With("uid", i) = {}      \* found unbound before
Bindable(r, i) == r \in Known /\ With("uid", i) = {} /\ users[r].uid \in {None, i}

(* bindUid; the account that is answered is the record as it was found.    *)
BindUid(q) ==
    LET r == signIn[q].record  i == signIn[q].uid IN
    /\ signIn[q].phase = "bind"
    /\ IF Bindable(r, i)
       THEN users' = [users EXCEPT ![r].uid = i] /\ Settle(q, r, signIn[q].life)
       ELSE Deny(q) /\ UNCHANGED users
    /\ UNCHANGED <<identities, invitation, life, granted, saves>>

(* Any of its calls fails, or the host that serves it stops.               *)
Fail(q) ==
    /\ signIn[q].phase \notin {"idle", "done"} /\ Deny(q)
    /\ UNCHANGED <<identities, users, invitation, life, granted, saves>>

-----------------------------------------------------------------------------
(* An invitation, by mail or as a link to copy.                            *)
Invite(v, r) ==
    /\ invitation[v].phase = "idle"
    /\ r \in Known /\ users[r].email # None /\ users[r].granted
    /\ invitation' = [invitation EXCEPT ![v] = [phase |-> "read", uid |-> users[r].uid,
          email |-> users[r].email, record |-> r, life |-> life[r]]]
    /\ UNCHANGED <<identities, users, signIn, life, granted, admitted, saves>>

(* getUserByEmail or createUser; a record bound to another identity ends it. *)
Provision(v) ==
    LET email == invitation[v].email IN
    /\ invitation[v].phase = "read"
    /\ \E i \in Identities :
          /\ IF Holders(email) # {} THEN i \in Holders(email) /\ UNCHANGED identities
             ELSE /\ identities[i].email = None
                  /\ identities' = [identities EXCEPT ![i] = [email |-> email, verified |-> FALSE]]
          /\ invitation' = [invitation EXCEPT ![v] =
                IF @.uid \in {None, i} THEN [@ EXCEPT !.phase = "merge"] ELSE Done]
    /\ UNCHANGED <<users, signIn, life, granted, admitted, saves>>

(* Its merges, of the provisioning, the link or the delivery: a record that *)
(* is gone comes back with nothing but them.                               *)
Fragment == [email |-> None, uid |-> None, granted |-> FALSE]

MergeInvitation(v) ==
    LET r == invitation[v].record IN
    /\ invitation[v].phase = "merge"
    /\ users' = [users EXCEPT ![r] = IF @ = None THEN Fragment ELSE @]
    /\ UNCHANGED <<identities, signIn, invitation, life, granted, admitted, saves>>

EndInvitation(v) ==
    /\ invitation[v].phase \in {"read", "merge"}
    /\ invitation' = [invitation EXCEPT ![v] = Done]
    /\ UNCHANGED <<identities, users, signIn, life, granted, admitted, saves>>

-----------------------------------------------------------------------------
Next ==
    \/ \E i \in Identities, email \in Emails : Verify(i, email)
    \/ \E r \in Records :
          \/ \E email \in Emails, grant \in BOOLEAN : SaveUser(r, email, grant)
          \/ DeleteUser(r)
    \/ \E q \in Requests :
          \/ \E i \in Identities : Identify(q, i)
          \/ FindByUid(q) \/ FindByEmail(q) \/ BindUid(q) \/ Fail(q)
    \/ \E v \in Invitations :
          \/ \E r \in Records : Invite(v, r)
          \/ Provision(v) \/ MergeInvitation(v) \/ EndInvitation(v)

Spec == Init /\ [][Next]_vars
-----------------------------------------------------------------------------
(* Identities and records are bound one to one, whatever first sign-ins,   *)
(* changes of email, deletions and invitations cross each other: no        *)
(* identity has two records, two identities are never admitted under one   *)
(* life of a record, and nobody is admitted under a life in which no       *)
(* administrator granted the record, which is all an invitation can start. *)
BindingsOneToOne ==
    /\ \A r, s \in Known : users[r].uid = users[s].uid /\ users[r].uid # None => r = s
    /\ \A a, b \in admitted : a.record = b.record /\ a.life = b.life => a.uid = b.uid
    /\ \A a \in admitted : <<a.record, a.found>> \in granted
=============================================================================
