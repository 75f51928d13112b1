------------------------------- MODULE MCTabs -------------------------------
(* The tabs of an administrator with a Person change in hand, the session  *)
(* of a tab, the access records that decide whom the server lets in, and   *)
(* the mail that invites and informs them. None reads another's state:     *)
(* each is explored with the others at rest. Of mail there are two calls,  *)
(* about one request and one access record, while the settings that are    *)
(* saved change the steward and withdraw a recipient.                      *)
EXTENDS TransitionClient, TLC

CONSTANTS Identities, Emails, Records, SignIns, Invitations, MaxSaves, MaxVersion, MaxRestores,
          Mails, Corrections, Invitees, Environment, Configurations

VARIABLES identities, users, signIn, invitation, life, granted, admitted, saves,
          access, user, pending, session, restores, signingOut, signed, newest,
          settings, requests, accounts, mails, outbox, answers, relayed, marks

Access == INSTANCE AccessRecords WITH Requests <- SignIns
Session == INSTANCE BrowserSession WITH Users <- Identities

Outbox == INSTANCE MailOutbox WITH
    Calls <- Mails, Requests <- Corrections, Users <- Invitees, Addresses <- Emails,
    users <- accounts, calls <- mails, answer <- answers

\* The host is configured with one address for all, and what is saved has
\* another for the steward and withdraws it as a recipient.
One(S) == CHOOSE x \in S : TRUE
Installed == [steward |-> One(Emails), recipients |-> Emails]
Replacements == {[steward |-> a, recipients |-> Emails \ {a}] : a \in Emails \ {One(Emails)}}

ASSUME NoneAssumption == None \notin Identities \cup Access!Record
ASSUME MailAssumption == Outbox!Apart

outboxVars == <<settings, requests, accounts, mails, outbox, answers, relayed, marks>>
accessVars == <<identities, users, signIn, invitation, life, granted, admitted, saves>>
sessionVars == <<access, user, pending, session, restores, signingOut, signed, newest>>

ClientAtRest == used = {} /\ \A t \in Tabs : tab[t] = Closed
AccessAtRest == saves = 0 /\ \A i \in Identities : identities[i].email = None
SessionAtRest ==
    /\ pending /\ user = None /\ session.status = "loading" /\ restores = {} /\ ~signingOut
    /\ \A i \in Identities : access[i] = [version |-> 0, active |-> FALSE]
OutboxAtRest ==
    /\ settings = None /\ \A q \in DOMAIN requests : requests[q] = None
    /\ \A r \in DOMAIN accounts : accounts[r] = None
    /\ \A c \in Mails : mails[c].step = "idle"

TabsInit == Init /\ Access!Init /\ Session!Init /\ Outbox!Init

TabsNext ==
    \/ /\ AccessAtRest /\ SessionAtRest /\ OutboxAtRest
       /\ Next /\ UNCHANGED <<accessVars, sessionVars, outboxVars>>
    \/ /\ ClientAtRest /\ SessionAtRest /\ OutboxAtRest
       /\ Access!Next /\ UNCHANGED <<vars, sessionVars, outboxVars>>
    \/ /\ ClientAtRest /\ AccessAtRest /\ OutboxAtRest
       /\ Session!Next /\ UNCHANGED <<vars, accessVars, outboxVars>>
    \/ /\ ClientAtRest /\ AccessAtRest /\ SessionAtRest
       /\ Outbox!Next /\ UNCHANGED <<vars, accessVars, sessionVars>>

TabsSpec == TabsInit /\ [][TabsNext]_<<vars, accessVars, sessionVars, outboxVars>>

BindingsOneToOne == Access!BindingsOneToOne
AccessNeverGoesBack == Session!AccessNeverGoesBack
OutboxTruth == Outbox!OutboxTruth

Symmetry == Permutations(Mails) \cup Permutations(Tabs) \cup Permutations(Ops)
=============================================================================
