----------------------------- MODULE ChatLedger -----------------------------
(***************************************************************************)
(* What the chat promises, with no handler, no transaction and no socket   *)
(* room: a message is posted in one step, by somebody who takes part in    *)
(* its room, and never changes or goes away; a client learns of messages   *)
(* only by reading a room it takes part in, or by an announcement; and a   *)
(* live message is announced at most once, to everybody who follows its    *)
(* room, which they have read and are still listening to.                  *)
(***************************************************************************)
CONSTANTS Users, Rooms, Clients, Messages, None

VARIABLES
  participants,  \* participants[rm]: the users of room rm
  user,          \* user[c]: whom client c is signed in as, or None
  posted,        \* posted[m]: the message m, or None
  pending,       \* the live messages that are still to be announced
  follows,       \* follows[c]: the rooms c has read and listens to since
  knows          \* knows[c]: the messages c has learnt of

people == <<participants, user>>
vars == <<participants, user, posted, pending, follows, knows>>

Init ==
  /\ participants = [rm \in Rooms |-> {}]
  /\ user = [c \in Clients |-> None]
  /\ posted = [m \in Messages |-> None]
  /\ pending = {}
  /\ follows = [c \in Clients |-> {}]
  /\ knows = [c \in Clients |-> {}]

PostedIn(rm) == {m \in Messages : posted[m] # None /\ posted[m].room = rm}

Enroll(rm, u) ==
  /\ participants' = [participants EXCEPT ![rm] = @ \cup {u}]
  /\ UNCHANGED <<user, posted, pending, follows, knows>>

SignIn(c, u) ==
  /\ user[c] = None
  /\ user' = [user EXCEPT ![c] = u]
  /\ UNCHANGED <<participants, posted, pending, follows, knows>>

SignOut(c) ==
  /\ user' = [user EXCEPT ![c] = None]
  /\ follows' = [follows EXCEPT ![c] = {}]
  /\ knows' = [knows EXCEPT ![c] = {}]
  /\ UNCHANGED <<participants, posted, pending>>

Post(m, rm, u, live) ==
  /\ posted[m] = None
  /\ u \in participants[rm]
  /\ posted' = [posted EXCEPT ![m] = [room |-> rm, sender |-> u, live |-> live]]
  /\ pending' = IF live THEN pending \cup {m} ELSE pending
  /\ UNCHANGED <<people, follows, knows>>

(* It may reach others as well: whoever listens without having read.       *)
Announce(m, reached) ==
  /\ {c \in Clients : posted[m].room \in follows[c]} \subseteq reached
  /\ pending' = pending \ {m}
  /\ knows' = [c \in Clients |-> IF c \in reached THEN knows[c] \cup {m} ELSE knows[c]]
  /\ UNCHANGED <<people, posted, follows>>

Read(c, rm) ==
  /\ user[c] \in participants[rm]
  /\ knows' = [knows EXCEPT ![c] = @ \cup PostedIn(rm)]
  /\ follows' \in {follows, [follows EXCEPT ![c] = @ \cup {rm}]}
  /\ UNCHANGED <<people, posted, pending>>

Leave(c, rm) ==
  /\ follows' = [follows EXCEPT ![c] = @ \ {rm}]
  /\ UNCHANGED <<people, posted, pending, knows>>

(* All clients are cut off, and what was not announced never will be.      *)
Restart ==
  /\ user' = [c \in Clients |-> None]
  /\ follows' = [c \in Clients |-> {}]
  /\ knows' = [c \in Clients |-> {}]
  /\ pending' = {}
  /\ UNCHANGED <<participants, posted>>

Next ==
  \/ \E c \in Clients, rm \in Rooms : Leave(c, rm) \/ Read(c, rm)
  \/ \E rm \in Rooms, u \in Users : Enroll(rm, u)
  \/ \E c \in Clients : SignOut(c) \/ \E u \in Users : SignIn(c, u)
  \/ \E m \in Messages, rm \in Rooms, u \in Users, live \in BOOLEAN : Post(m, rm, u, live)
  \/ \E m \in pending, reached \in SUBSET Clients : Announce(m, reached)
  \/ Restart

Spec == Init /\ [][Next]_vars
=============================================================================
