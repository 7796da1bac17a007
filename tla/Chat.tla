-------------------------------- MODULE Chat --------------------------------
(***************************************************************************)
(* The live chat: ChatGateway over MessageService.                         *)
(*                                                                         *)
(* A socket listens to the rooms it has joined; what is announced in a     *)
(* room reaches whoever listens at that moment and is not kept.  Messages  *)
(* are kept in the database, so a client sees a room by joining it and     *)
(* fetching what is stored.  `seen' is what the client of a socket knows   *)
(* by the one way or the other.                                            *)
(*                                                                         *)
(* sendMessage is a process: the transaction checks the room and creates   *)
(* the message with its number; it commits; only then does the gateway     *)
(* announce the message.  The sender may leave or disconnect in between.   *)
(* A message over HTTP touches nothing that a request in flight has read,  *)
(* and is one step.                                                        *)
(*                                                                         *)
(* Left out: contents and files (Files has the files), message_receivers   *)
(* (written, read by nothing), what rooms are told of who comes and goes,  *)
(* the relaying of call offers, answers and candidates (Calls).            *)
(*                                                                         *)
(* "slip: P" marks a plausible mistake in the operator defined after it:   *)
(* nothing uses it, and with it in that operator's place P fails.          *)
(***************************************************************************)
EXTENDS Gateway, Naturals

CONSTANTS
  Users,
  MaxMessages  \* how many messages are made in all: a bound

ASSUME NoneAssumption == None \notin Users
ASSUME MaxMessagesAssumption == MaxMessages \in Nat

VARIABLES
  participants,  \* participants[rm]: the users of room rm
  user,          \* user[s]: the user of socket s, None if it is not connected
  listening,     \* listening[s]: the rooms that socket s has joined
  message,       \* message[m]: the message numbered m, None if it is not stored
  created,       \* how many numbers were given to messages
  last,          \* last[rm]: lastMessageId of rm, 0 if it has none
  req,           \* req[r]: the sendMessage in flight, None when there is none
  seen,          \* seen[s]: the messages that the client of s knows
  fetched,       \* fetched[s]: the rooms it fetched since it listens
  overlapped     \* whether two sendMessage were ever in flight at once

stored == <<message, last>>
client == <<seen, fetched>>
vars == <<participants, user, listening, message, created, last, req, seen, fetched,
          overlapped>>

Numbers == 1..MaxMessages

Message == [room : Rooms, sender : Users, live : BOOLEAN]

Request ==
  [at : {"created", "stored"}, socket : Sockets, user : Users, room : Rooms,
   number : Numbers]

ASSUME NoneIsNoRecord == None \notin Message \cup Request

TypeOK ==
  /\ participants \in [Rooms -> SUBSET Users]
  /\ user \in [Sockets -> Users \cup {None}]
  /\ listening \in [Sockets -> SUBSET Rooms]
  /\ message \in [Numbers -> Message \cup {None}]
  /\ created \in 0..MaxMessages
  /\ last \in [Rooms -> 0..MaxMessages]
  /\ req \in [Requests -> Request \cup {None}]
  /\ seen \in [Sockets -> SUBSET Numbers]
  /\ fetched \in [Sockets -> SUBSET Rooms]
  /\ overlapped \in BOOLEAN

Init ==
  /\ participants = [rm \in Rooms |-> {}]
  /\ user = [s \in Sockets |-> None]
  /\ listening = [s \in Sockets |-> {}]
  /\ message = [m \in Numbers |-> None]
  /\ created = 0
  /\ last = [rm \in Rooms |-> 0]
  /\ req = [r \in Requests |-> None]
  /\ seen = [s \in Sockets |-> {}]
  /\ fetched = [s \in Sockets |-> {}]
  /\ overlapped = FALSE

At(r, stage) == req[r] # None /\ req[r].at = stage
End(r) == req' = [req EXCEPT ![r] = None]

StoredIn(rm) == {m \in Numbers : message[m] # None /\ message[m].room = rm}
LiveIn(rm) == {m \in StoredIn(rm) : message[m].live}

-----------------------------------------------------------------------------
(* A room gains a participant: the commits of Membership and Teams, which   *)
(* the unique index of room and user lets happen once.                     *)
Enroll(rm, u) ==
  /\ u \notin participants[rm]
  /\ participants' = [participants EXCEPT ![rm] = @ \cup {u}]
  /\ UNCHANGED <<user, listening, stored, created, req, client, overlapped>>

(* handleConnection verifies the token before the next event is handled;   *)
(* a socket it refuses was never there.  A slot is taken again only when   *)
(* no handler holds on to its former socket.                               *)
Connect(s, u) ==
  /\ user[s] = None
  /\ \A r \in Requests : req[r] # None => req[r].socket # s
  /\ user' = [user EXCEPT ![s] = u]
  /\ UNCHANGED <<participants, listening, stored, created, req, client, overlapped>>

(* Whoever has logged in may listen to any room.                           *)
JoinRoom(s, rm) ==
  /\ user[s] # None
  /\ listening' = [listening EXCEPT ![s] = @ \cup {rm}]
  /\ UNCHANGED <<participants, user, stored, created, req, client, overlapped>>

LeaveRoom(s, rm) ==
  /\ user[s] # None
  /\ listening' = [listening EXCEPT ![s] = @ \ {rm}]
  /\ fetched' = [fetched EXCEPT ![s] = @ \ {rm}]
  /\ UNCHANGED <<participants, user, stored, created, req, seen, overlapped>>

(* socket.io takes a socket out of its rooms before it reports the         *)
(* disconnect: handleDisconnect finds none to tell that it has left.       *)
Disconnect(s) ==
  /\ user[s] # None
  /\ user' = [user EXCEPT ![s] = None]
  /\ listening' = [listening EXCEPT ![s] = {}]
  /\ fetched' = [fetched EXCEPT ![s] = {}]
  /\ seen' = [seen EXCEPT ![s] = {}]
  /\ UNCHANGED <<participants, stored, created, req, overlapped>>

(* getMessages, all pages of it.                                           *)
GetMessages(s, rm) ==
  /\ user[s] # None
  /\ user[s] \in participants[rm]
  /\ seen' = [seen EXCEPT ![s] = @ \cup StoredIn(rm)]
  /\ fetched' = [fetched EXCEPT ![s] = @ \cup ({rm} \cap listening[s])]
  /\ UNCHANGED <<participants, user, listening, stored, created, req, overlapped>>

-----------------------------------------------------------------------------
(* sendMessage and sendCleanMessageToRoom *)

SendMessage(r, s, rm) ==
  /\ req[r] = None
  /\ user[s] # None
  /\ user[s] \in participants[rm]
  /\ created < MaxMessages
  /\ created' = created + 1
  /\ req' = [req EXCEPT ![r] =
               [at |-> "created", socket |-> s, user |-> user[s], room |-> rm,
                number |-> created + 1]]
  /\ overlapped' = (overlapped \/ \E q \in Requests : req[q] # None)
  /\ UNCHANGED <<participants, user, listening, stored, client>>

KeepLast(rm, m) == last' = last  \* slip: LastMessageIsNewest
RecordLast(rm, m) == last' = [last EXCEPT ![rm] = m]

SendMessageCommit(r) ==
  /\ At(r, "created")
  /\ message' = [message EXCEPT ![req[r].number] =
                   [room |-> req[r].room, sender |-> req[r].user, live |-> TRUE]]
  /\ RecordLast(req[r].room, req[r].number)
  /\ req' = [req EXCEPT ![r].at = "stored"]
  /\ UNCHANGED <<participants, user, listening, created, client, overlapped>>

(* The gateway awaits the service.                                         *)
NotAwaited(r) == req[r] # None  \* slip: ImplementsChatLedger
Announceable(r) == At(r, "stored")

(* The sender joins its room, a no-op on a socket that has disconnected.   *)
JoinAnyway(s, rm) == [listening EXCEPT ![s] = @ \cup {rm}]  \* slip: ListenersAreConnected
JoinIfConnected(s, rm) ==
  IF user[s] = None THEN listening ELSE [listening EXCEPT ![s] = @ \cup {rm}]

(* server.to reaches the whole room, client.to all but the client.         *)
OthersListening(s, rm) == {c \in Sockets : rm \in listening'[c]} \ {s}  \* slip: JoinThenFetchMissesNothing
Audience(s, rm) == {c \in Sockets : rm \in listening'[c]}

Announce(r) ==
  /\ Announceable(r)
  /\ listening' = JoinIfConnected(req[r].socket, req[r].room)
  /\ seen' = [s \in Sockets |->
                IF s \in Audience(req[r].socket, req[r].room)
                  THEN seen[s] \cup {req[r].number} ELSE seen[s]]
  /\ End(r)
  /\ UNCHANGED <<participants, user, stored, created, fetched, overlapped>>

(* A file that is not the sender's, or a database that does not answer.    *)
Fail(r) ==
  /\ At(r, "created")
  /\ End(r)
  /\ UNCHANGED <<participants, user, listening, stored, created, client, overlapped>>

(* sendMessageToRoom over HTTP: neither lastMessageId nor an announcement. *)
PostMessage(u, rm) ==
  /\ u \in participants[rm]
  /\ created < MaxMessages
  /\ created' = created + 1
  /\ message' = [message EXCEPT ![created + 1] = [room |-> rm, sender |-> u, live |-> FALSE]]
  /\ UNCHANGED <<participants, user, listening, last, req, client, overlapped>>

(* The server goes down: sockets and handlers are gone, the tables stay.   *)
Crash ==
  /\ user' = [s \in Sockets |-> None]
  /\ listening' = [s \in Sockets |-> {}]
  /\ fetched' = [s \in Sockets |-> {}]
  /\ seen' = [s \in Sockets |-> {}]
  /\ req' = [r \in Requests |-> None]
  /\ UNCHANGED <<participants, stored, created, overlapped>>

-----------------------------------------------------------------------------
SocketEvent(s) ==
  \/ Disconnect(s)
  \/ \E u \in Users : Connect(s, u)
  \/ \E rm \in Rooms : JoinRoom(s, rm) \/ LeaveRoom(s, rm) \/ GetMessages(s, rm)

Advance(r) ==
  \/ \E s \in Sockets, rm \in Rooms : SendMessage(r, s, rm)
  \/ SendMessageCommit(r)
  \/ Announce(r)
  \/ Fail(r)

Next ==
  \/ \E s \in Sockets : SocketEvent(s)
  \/ \E r \in Requests : Advance(r)
  \/ \E rm \in Rooms, u \in Users : Enroll(rm, u) \/ PostMessage(u, rm)
  \/ Crash

Spec == Init /\ [][Next]_vars

-----------------------------------------------------------------------------
(* A client knows only messages that are in the database, written by        *)
(* participants of their room: nothing that was rolled back is announced.   *)
SeenAreStored ==
  \A s \in Sockets : \A m \in seen[s] :
    message[m] # None /\ message[m].sender \in participants[message[m].room]

(* Join, then fetch: a client that does so misses no message sent over a    *)
(* socket.  It has each of them, or is about to hear it, although the       *)
(* database and the announcements are not read in one step.                 *)
JoinThenFetchMissesNothing ==
  \A s \in Sockets : \A rm \in fetched[s] : \A m \in LiveIn(rm) :
    m \in seen[s] \/ \E r \in Requests : At(r, "stored") /\ req[r].number = m

(* Only sockets that are connected listen, also when the handler of a       *)
(* message comes back after its socket has gone.                            *)
ListenersAreConnected == \A s \in Sockets : listening[s] # {} => user[s] # None

(* The chat implements its ledger: `seen' and the handlers that have stored *)
(* their message and not yet announced it account for every message, from   *)
(* its commit on, towards everybody who has joined and fetched.             *)
Pending == {req[r].number : r \in {q \in Requests : At(q, "stored")}}

Ledger ==
  INSTANCE ChatLedger WITH
    Clients <- Sockets,
    Messages <- Numbers,
    posted <- message,
    pending <- Pending,
    follows <- fetched,
    knows <- seen

ImplementsChatLedger == Ledger!Spec

(* The last message of a room, by which chats are sorted, is the newest one *)
(* sent over a socket, as long as no two are in the making at once.         *)
LastMessageIsNewest ==
  ~overlapped =>
    \A rm \in Rooms :
      /\ \A m \in LiveIn(rm) : m <= last[rm]
      /\ last[rm] # 0 => last[rm] \in LiveIn(rm)

(* What that rests on: the one message in the making is newer than all.      *)
OneAtATime ==
  ~overlapped =>
    /\ \A q, r \in Requests : req[q] # None /\ req[r] # None => q = r
    /\ \A r \in Requests : At(r, "created") =>
         \A rm \in Rooms : \A m \in LiveIn(rm) : m < req[r].number

(* The inductive strengthening: numbers are given once, and what is stored  *)
(* or in the making carries one of them.                                    *)
NumbersAreGivenOnce ==
  /\ \A m \in Numbers : message[m] # None => m <= created
  /\ \A r \in Requests : req[r] # None => req[r].number <= created
  /\ \A r \in Requests : At(r, "created") => message[req[r].number] = None
  /\ \A q, r \in Requests :
       req[q] # None /\ req[r] # None /\ req[q].number = req[r].number => q = r

RequestsHold ==
  \A r \in Requests : req[r] # None =>
    /\ req[r].user \in participants[req[r].room]
    /\ At(r, "stored") =>
         message[req[r].number] =
           [room |-> req[r].room, sender |-> req[r].user, live |-> TRUE]

FetchersListen == \A s \in Sockets : fetched[s] \subseteq listening[s]

SendersParticipate ==
  \A m \in Numbers :
    message[m] # None => message[m].sender \in participants[message[m].room]

Inductive ==
  /\ NumbersAreGivenOnce
  /\ RequestsHold
  /\ ListenersAreConnected
  /\ FetchersListen
  /\ SendersParticipate
  /\ SeenAreStored
  /\ JoinThenFetchMissesNothing

=============================================================================
