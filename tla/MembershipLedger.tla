-------------------------- MODULE MembershipLedger --------------------------
(***************************************************************************)
(* What the membership tables of sohojog-backend promise, with no request, *)
(* no transaction and no status column: a project has one owner, who is a  *)
(* member from the moment the project exists; anyone else becomes a member *)
(* only after an invitation to that project; membership, invitations and   *)
(* ownership are never taken back; and the project's chat is open to       *)
(* exactly the members.                                                    *)
(***************************************************************************)
CONSTANTS Users, Projects, None

VARIABLES
  owner,    \* owner[p]: the user who created project p, or None
  invited,  \* invited[p]: the users an invitation to p was ever recorded for
  members,  \* members[p]: the users with a participation in p
  chat      \* chat[p]: the participants of p's chat room

vars == <<owner, invited, members, chat>>

Init ==
  /\ owner = [p \in Projects |-> None]
  /\ invited = [p \in Projects |-> {}]
  /\ members = [p \in Projects |-> {}]
  /\ chat = [p \in Projects |-> {}]

Found(p, u) ==
  /\ owner[p] = None
  /\ owner' = [owner EXCEPT ![p] = u]
  /\ members' = [members EXCEPT ![p] = {u}]
  /\ chat' = [chat EXCEPT ![p] = {u}]
  /\ UNCHANGED invited

Invite(p, u) ==
  /\ owner[p] \notin {None, u}
  /\ u \notin members[p]
  /\ invited' = [invited EXCEPT ![p] = @ \cup {u}]
  /\ UNCHANGED <<owner, members, chat>>

Join(p, u) ==
  /\ u \in invited[p] \ members[p]
  /\ members' = [members EXCEPT ![p] = @ \cup {u}]
  /\ chat' = [chat EXCEPT ![p] = @ \cup {u}]
  /\ UNCHANGED <<owner, invited>>

Next == \E p \in Projects, u \in Users : Found(p, u) \/ Invite(p, u) \/ Join(p, u)

Spec == Init /\ [][Next]_vars
=============================================================================
