----------------------------- MODULE ChatProofs -----------------------------
(***************************************************************************)
(* Theorems about the two halves of the gateway.  The first part is about  *)
(* Chat: any sets of users, rooms, sockets and requests in flight, and any *)
(* number of messages.  The second is about Calls: the same, and any       *)
(* number of signals.                                                      *)
(***************************************************************************)
EXTENDS Chat, Calls, TLAPS

LEMMA TypeInit == Init => TypeOK
<1> SUFFICES ASSUME Init PROVE TypeOK
  OBVIOUS
<1>1. overlapped \in BOOLEAN
  BY Zenon DEF Init
<1>2. 0 \in 0..MaxMessages
  BY MaxMessagesAssumption
<1> QED
  BY <1>1, <1>2 DEF Init, TypeOK

(* Every table, socket and request in flight keeps its type.                 *)
LEMMA TypeStep ==
  ASSUME TypeOK, [Next]_vars
  PROVE  TypeOK'
<1> USE MaxMessagesAssumption DEF TypeOK, At, End, stored, client
<1>1. ASSUME NEW s \in Sockets, NEW u \in Users, Connect(s, u)
      PROVE  TypeOK'
  BY <1>1 DEF Connect
<1>2. ASSUME NEW s \in Sockets, NEW rm \in Rooms, JoinRoom(s, rm)
      PROVE  TypeOK'
  BY <1>2 DEF JoinRoom
<1>3. ASSUME NEW s \in Sockets, NEW rm \in Rooms, LeaveRoom(s, rm)
      PROVE  TypeOK'
  BY <1>3 DEF LeaveRoom
<1>4. ASSUME NEW s \in Sockets, NEW rm \in Rooms, GetMessages(s, rm)
      PROVE  TypeOK'
  BY <1>4 DEF GetMessages, StoredIn
<1>5. ASSUME NEW s \in Sockets, Disconnect(s)
      PROVE  TypeOK'
  BY <1>5 DEF Disconnect
<1>6. ASSUME NEW r \in Requests, NEW s \in Sockets, NEW rm \in Rooms, SendMessage(r, s, rm)
      PROVE  TypeOK'
  <2>1. created + 1 \in Numbers /\ created' \in 0..MaxMessages
    BY <1>6 DEF SendMessage, Numbers
  <2>2. user[s] \in Users
    BY <1>6 DEF SendMessage
  <2>3. overlapped' \in BOOLEAN
    BY <1>6, Zenon DEF SendMessage
  <2> QED
    BY <1>6, <2>1, <2>2, <2>3 DEF SendMessage, Request
<1>7. ASSUME NEW r \in Requests, SendMessageCommit(r)
      PROVE  TypeOK'
  <2>1. req[r] \in Request
    BY <1>7 DEF SendMessageCommit
  <2>2. req[r].room \in Rooms /\ req[r].user \in Users /\ req[r].number \in Numbers
    BY <2>1 DEF Request
  <2>3. [req[r] EXCEPT !.at = "stored"] \in Request
    BY <2>1 DEF Request
  <2>4. last' \in [Rooms -> 0..MaxMessages]
    BY <1>7, <2>2 DEF SendMessageCommit, RecordLast, Numbers
  <2>5. message' \in [Numbers -> Message \cup {None}]
    BY <1>7, <2>2 DEF SendMessageCommit, Message
  <2> QED
    BY <1>7, <2>3, <2>4, <2>5 DEF SendMessageCommit
<1>8. ASSUME NEW r \in Requests, Announce(r)
      PROVE  TypeOK'
  <2>1. req[r].socket \in Sockets /\ req[r].room \in Rooms /\ req[r].number \in Numbers
    BY <1>8 DEF Announce, Announceable, Request
  <2>2. listening' \in [Sockets -> SUBSET Rooms]
    BY <1>8, <2>1 DEF Announce, JoinIfConnected
  <2>3. seen' \in [Sockets -> SUBSET Numbers]
    BY <1>8, <2>1 DEF Announce
  <2> QED
    BY <1>8, <2>2, <2>3 DEF Announce
<1>9. ASSUME NEW r \in Requests, Fail(r)
      PROVE  TypeOK'
  BY <1>9 DEF Fail
<1>10. ASSUME NEW rm \in Rooms, NEW u \in Users, Enroll(rm, u)
       PROVE  TypeOK'
  BY <1>10 DEF Enroll
<1>11. ASSUME NEW rm \in Rooms, NEW u \in Users, PostMessage(u, rm)
       PROVE  TypeOK'
  <2>1. created + 1 \in Numbers /\ created' \in 0..MaxMessages
    BY <1>11 DEF PostMessage, Numbers
  <2> QED
    BY <1>11, <2>1 DEF PostMessage, Message
<1>12. ASSUME Crash
       PROVE  TypeOK'
  BY <1>12 DEF Crash
<1>13. CASE UNCHANGED vars
  BY <1>13 DEF vars
<1> QED
  BY <1>1, <1>2, <1>3, <1>4, <1>5, <1>6, <1>7, <1>8, <1>9, <1>10, <1>11, <1>12, <1>13
  DEF Next, SocketEvent, Advance

THEOREM TypeCorrect == Spec => []TypeOK
<1> QED
  BY TypeInit, TypeStep, PTL DEF Spec

-----------------------------------------------------------------------------
(* One step per action, one conjunct at a time.                              *)
LEMMA InductiveStep ==
  ASSUME TypeOK, Inductive, [Next]_vars
  PROVE  Inductive'
<1> USE DEF TypeOK, At, End, stored, client
<1>1. ASSUME NEW s \in Sockets, NEW u \in Users, Connect(s, u)
      PROVE  Inductive'
  <2>1. NumbersAreGivenOnce'
    BY <1>1 DEF Connect, Inductive, NumbersAreGivenOnce
  <2>2. RequestsHold'
    BY <1>1 DEF Connect, Inductive, RequestsHold
  <2>3. ListenersAreConnected'
    BY <1>1 DEF Connect, Inductive, ListenersAreConnected
  <2>4. FetchersListen'
    BY <1>1 DEF Connect, Inductive, FetchersListen
  <2>5. SendersParticipate'
    BY <1>1 DEF Connect, Inductive, SendersParticipate
  <2>6. SeenAreStored'
    BY <1>1 DEF Connect, Inductive, SeenAreStored
  <2>7. JoinThenFetchMissesNothing'
    BY <1>1 DEF Connect, Inductive, JoinThenFetchMissesNothing, LiveIn, StoredIn
  <2> QED
    BY <2>1, <2>2, <2>3, <2>4, <2>5, <2>6, <2>7 DEF Inductive
<1>2. ASSUME NEW s \in Sockets, NEW rm \in Rooms, JoinRoom(s, rm)
      PROVE  Inductive'
  <2>1. NumbersAreGivenOnce'
    BY <1>2 DEF JoinRoom, Inductive, NumbersAreGivenOnce
  <2>2. RequestsHold'
    BY <1>2 DEF JoinRoom, Inductive, RequestsHold
  <2>3. ListenersAreConnected'
    BY <1>2 DEF JoinRoom, Inductive, ListenersAreConnected
  <2>4. FetchersListen'
    BY <1>2 DEF JoinRoom, Inductive, FetchersListen
  <2>5. SendersParticipate'
    BY <1>2 DEF JoinRoom, Inductive, SendersParticipate
  <2>6. SeenAreStored'
    BY <1>2 DEF JoinRoom, Inductive, SeenAreStored
  <2>7. JoinThenFetchMissesNothing'
    BY <1>2 DEF JoinRoom, Inductive, JoinThenFetchMissesNothing, LiveIn, StoredIn
  <2> QED
    BY <2>1, <2>2, <2>3, <2>4, <2>5, <2>6, <2>7 DEF Inductive
<1>3. ASSUME NEW s \in Sockets, NEW rm \in Rooms, LeaveRoom(s, rm)
      PROVE  Inductive'
  <2>1. NumbersAreGivenOnce'
    BY <1>3 DEF LeaveRoom, Inductive, NumbersAreGivenOnce
  <2>2. RequestsHold'
    BY <1>3 DEF LeaveRoom, Inductive, RequestsHold
  <2>3. ListenersAreConnected'
    BY <1>3 DEF LeaveRoom, Inductive, ListenersAreConnected
  <2>4. FetchersListen'
    BY <1>3 DEF LeaveRoom, Inductive, FetchersListen
  <2>5. SendersParticipate'
    BY <1>3 DEF LeaveRoom, Inductive, SendersParticipate
  <2>6. SeenAreStored'
    BY <1>3 DEF LeaveRoom, Inductive, SeenAreStored
  <2>7. JoinThenFetchMissesNothing'
    BY <1>3 DEF LeaveRoom, Inductive, JoinThenFetchMissesNothing, LiveIn, StoredIn
  <2> QED
    BY <2>1, <2>2, <2>3, <2>4, <2>5, <2>6, <2>7 DEF Inductive
<1>4. ASSUME NEW s \in Sockets, NEW rm \in Rooms, GetMessages(s, rm)
      PROVE  Inductive'
  <2>1. NumbersAreGivenOnce'
    BY <1>4 DEF GetMessages, Inductive, NumbersAreGivenOnce
  <2>2. RequestsHold'
    BY <1>4 DEF GetMessages, Inductive, RequestsHold
  <2>3. ListenersAreConnected'
    BY <1>4 DEF GetMessages, Inductive, ListenersAreConnected
  <2>4. FetchersListen'
    BY <1>4 DEF GetMessages, Inductive, FetchersListen
  <2>5. SendersParticipate'
    BY <1>4 DEF GetMessages, Inductive, SendersParticipate
  <2>6. SeenAreStored'
    BY <1>4 DEF GetMessages, Inductive, SeenAreStored, StoredIn, SendersParticipate
  <2>7. JoinThenFetchMissesNothing'
    BY <1>4 DEF GetMessages, Inductive, JoinThenFetchMissesNothing, LiveIn, StoredIn
  <2> QED
    BY <2>1, <2>2, <2>3, <2>4, <2>5, <2>6, <2>7 DEF Inductive
<1>5. ASSUME NEW s \in Sockets, Disconnect(s)
      PROVE  Inductive'
  <2>1. NumbersAreGivenOnce'
    BY <1>5 DEF Disconnect, Inductive, NumbersAreGivenOnce
  <2>2. RequestsHold'
    BY <1>5 DEF Disconnect, Inductive, RequestsHold
  <2>3. ListenersAreConnected'
    BY <1>5 DEF Disconnect, Inductive, ListenersAreConnected
  <2>4. FetchersListen'
    BY <1>5 DEF Disconnect, Inductive, FetchersListen
  <2>5. SendersParticipate'
    BY <1>5 DEF Disconnect, Inductive, SendersParticipate
  <2>6. SeenAreStored'
    BY <1>5 DEF Disconnect, Inductive, SeenAreStored
  <2>7. JoinThenFetchMissesNothing'
    BY <1>5 DEF Disconnect, Inductive, JoinThenFetchMissesNothing, LiveIn, StoredIn
  <2> QED
    BY <2>1, <2>2, <2>3, <2>4, <2>5, <2>6, <2>7 DEF Inductive
<1>6. ASSUME NEW r \in Requests, NEW s \in Sockets, NEW rm \in Rooms,
             SendMessage(r, s, rm)
      PROVE  Inductive'
  <2>1. NumbersAreGivenOnce'
    <3>1. created \in Nat /\ created' = created + 1 /\ message' = message
      BY <1>6 DEF SendMessage
    <3>2. req'[r].number = created + 1 /\ \A q \in Requests \ {r} : req'[q] = req[q]
      BY <1>6 DEF SendMessage
    <3>3. \A m \in Numbers : message[m] # None => m <= created
      BY DEF Inductive, NumbersAreGivenOnce
    <3>4. created + 1 \in Numbers /\ message[created + 1] = None
      <4>1. created + 1 \in Numbers /\ ~(created + 1 <= created)
        BY <1>6, <3>1, MaxMessagesAssumption DEF SendMessage, Numbers
      <4> QED
        BY <3>3, <4>1
    <3>5. \A q \in Requests : req[q] # None => req[q].number \in Nat /\ req[q].number <= created
      BY DEF Inductive, NumbersAreGivenOnce, Request, Numbers
    <3>6. \A m \in Numbers : message'[m] # None => m <= created'
      BY <3>1, <3>3 DEF Numbers
    <3>7. \A q \in Requests : req'[q] # None => req'[q].number <= created'
      BY <3>1, <3>2, <3>5
    <3>8. \A q \in Requests :
            req'[q] # None /\ req'[q].at = "created" => message'[req'[q].number] = None
      BY <3>1, <3>2, <3>4 DEF Inductive, NumbersAreGivenOnce
    <3>9. \A p, q \in Requests :
            req'[p] # None /\ req'[q] # None /\ req'[p].number = req'[q].number => p = q
      <4> SUFFICES ASSUME NEW p \in Requests, NEW q \in Requests, req'[p] # None,
                          req'[q] # None, req'[p].number = req'[q].number, p # q
                   PROVE  FALSE
        OBVIOUS
      <4>1. CASE p # r /\ q # r
        BY <3>2, <4>1 DEF Inductive, NumbersAreGivenOnce
      <4>2. CASE p = r /\ q # r
        BY <3>1, <3>2, <3>5, <4>2
      <4>3. CASE q = r /\ p # r
        BY <3>1, <3>2, <3>5, <4>3
      <4> QED
        BY <4>1, <4>2, <4>3
    <3> QED
      BY <3>6, <3>7, <3>8, <3>9 DEF NumbersAreGivenOnce
  <2>2. RequestsHold'
    BY <1>6 DEF SendMessage, Inductive, RequestsHold
  <2>3. UNCHANGED <<participants, user, listening, message, seen, fetched>>
    BY <1>6 DEF SendMessage
  <2>4. JoinThenFetchMissesNothing'
    BY <1>6 DEF SendMessage, Inductive, JoinThenFetchMissesNothing, LiveIn, StoredIn
  <2> QED
    BY <2>1, <2>2, <2>3, <2>4 DEF Inductive, ListenersAreConnected, FetchersListen,
       SendersParticipate, SeenAreStored
<1>7. ASSUME NEW r \in Requests, SendMessageCommit(r)
      PROVE  Inductive'
  <2> DEFINE n == req[r].number
             rm == req[r].room
             u == req[r].user
  <2>1. /\ req[r] \in Request /\ n \in Numbers /\ rm \in Rooms /\ u \in Users
        /\ message[n] = None /\ n <= created /\ u \in participants[rm]
    BY <1>7 DEF SendMessageCommit, Request, Inductive, NumbersAreGivenOnce, RequestsHold
  <2>2. /\ message' = [message EXCEPT ![n] = [room |-> rm, sender |-> u, live |-> TRUE]]
        /\ UNCHANGED <<participants, user, listening, created, seen, fetched>>
    BY <1>7 DEF SendMessageCommit
  <2>3. /\ req'[r].at = "stored" /\ req'[r].number = n /\ req'[r].room = rm
        /\ req'[r].user = u /\ \A q \in Requests \ {r} : req'[q] = req[q]
    BY <1>7, <2>1 DEF SendMessageCommit, Request
  <2>4. req'[r] # None
    BY <1>7, <2>1, NoneIsNoRecord DEF SendMessageCommit, Request
  <2>5. \A q \in Requests \ {r} : req[q] # None => req[q].number # n
    BY <1>7 DEF SendMessageCommit, Inductive, NumbersAreGivenOnce
  <2> HIDE DEF n, rm, u
  <2>6. \A m \in Numbers :
          message'[m] = IF m = n THEN [room |-> rm, sender |-> u, live |-> TRUE] ELSE message[m]
    BY <2>1, <2>2
  <2>7. \A q \in Requests : req[q] # None => req[q].number \in Numbers
    BY DEF Request
  <2>8. NumbersAreGivenOnce'
    <3>1. \A m \in Numbers : message'[m] # None => m <= created'
      BY <2>1, <2>2, <2>6 DEF Inductive, NumbersAreGivenOnce
    <3>2. \A q \in Requests : req'[q] # None => req'[q].number <= created'
      BY <2>1, <2>2, <2>3 DEF Inductive, NumbersAreGivenOnce
    <3>3. \A q \in Requests :
            req'[q] # None /\ req'[q].at = "created" => message'[req'[q].number] = None
      BY <2>3, <2>5, <2>6, <2>7 DEF Inductive, NumbersAreGivenOnce
    <3>4. \A p, q \in Requests :
            req'[p] # None /\ req'[q] # None /\ req'[p].number = req'[q].number => p = q
      BY <2>3, <2>5 DEF Inductive, NumbersAreGivenOnce
    <3> QED
      BY <3>1, <3>2, <3>3, <3>4 DEF NumbersAreGivenOnce
  <2>9. RequestsHold'
    <3>1. \A q \in Requests : req'[q] # None => req'[q].user \in participants'[req'[q].room]
      BY <2>1, <2>2, <2>3 DEF Inductive, RequestsHold
    <3>2. \A q \in Requests : req'[q] # None /\ req'[q].at = "stored" =>
            message'[req'[q].number] =
              [room |-> req'[q].room, sender |-> req'[q].user, live |-> TRUE]
      <4> SUFFICES ASSUME NEW q \in Requests, req'[q] # None, req'[q].at = "stored"
                   PROVE  message'[req'[q].number] =
                            [room |-> req'[q].room, sender |-> req'[q].user, live |-> TRUE]
        OBVIOUS
      <4>1. CASE q = r
        BY <2>1, <2>3, <2>6, <4>1
      <4>2. CASE q # r
        <5>1. message'[req[q].number] = message[req[q].number]
          BY <2>3, <2>5, <2>6, <2>7, <4>2
        <5> QED
          BY <2>3, <4>2, <5>1 DEF Inductive, RequestsHold
      <4> QED
        BY <4>1, <4>2
    <3> QED
      BY <3>1, <3>2 DEF RequestsHold
  <2>10. SendersParticipate'
    BY <2>1, <2>2, <2>6 DEF Inductive, SendersParticipate
  <2>11. SeenAreStored'
    <3>1. \A s \in Sockets : n \notin seen[s] /\ seen[s] \subseteq Numbers
      BY <2>1 DEF Inductive, SeenAreStored
    <3> QED
      BY <2>2, <2>6, <3>1 DEF Inductive, SeenAreStored
  <2>12. JoinThenFetchMissesNothing'
    <3> SUFFICES ASSUME NEW s \in Sockets, NEW x \in fetched[s], NEW m \in LiveIn(x)',
                        m \notin seen[s]
                 PROVE  \E q \in Requests :
                          req'[q] # None /\ req'[q].at = "stored" /\ req'[q].number = m
      BY <2>2 DEF JoinThenFetchMissesNothing
    <3>1. CASE m = n
      BY <2>3, <2>4, <3>1
    <3>2. CASE m # n
      <4>1. m \in LiveIn(x)
        BY <2>6, <3>2 DEF LiveIn, StoredIn
      <4>2. PICK q \in Requests : req[q] # None /\ req[q].at = "stored" /\ req[q].number = m
        BY <4>1 DEF Inductive, JoinThenFetchMissesNothing
      <4>3. q # r
        BY <1>7, <4>2 DEF SendMessageCommit
      <4> QED
        BY <2>3, <4>2, <4>3
    <3> QED
      BY <3>1, <3>2
  <2> QED
    BY <2>2, <2>8, <2>9, <2>10, <2>11, <2>12 DEF Inductive, ListenersAreConnected, FetchersListen
<1>8. ASSUME NEW r \in Requests, Announce(r)
      PROVE  Inductive'
  <2> DEFINE n == req[r].number
             rm == req[r].room
             c == req[r].socket
  <2>1. /\ req[r] # None /\ req[r].at = "stored"
        /\ n \in Numbers /\ rm \in Rooms /\ c \in Sockets
    BY <1>8 DEF Announce, Announceable, Request
  <2>2. message[n] # None /\ message[n].sender \in participants[message[n].room]
            /\ message[n].room = rm
    <3>1. /\ message[n] = [room |-> rm, sender |-> req[r].user, live |-> TRUE]
          /\ req[r].user \in participants[rm]
      BY <2>1 DEF Inductive, RequestsHold
    <3>2. message[n] # None
      <4>1. req[r].user \in Users
        BY <1>8 DEF Announce, Announceable, Request
      <4>2. [room |-> rm, sender |-> req[r].user, live |-> TRUE] \in Message
        BY <2>1, <4>1 DEF Message
      <4> QED
        BY <3>1, <4>2, NoneIsNoRecord
    <3> QED
      BY <3>1, <3>2
  <2>3. /\ UNCHANGED <<participants, user, message, created, fetched>>
        /\ req' = [req EXCEPT ![r] = None]
        /\ listening' = IF user[c] = None THEN listening
                        ELSE [listening EXCEPT ![c] = @ \cup {rm}]
        /\ seen' = [s \in Sockets |->
                      IF rm \in listening'[s] THEN seen[s] \cup {n} ELSE seen[s]]
    BY <1>8 DEF Announce, JoinIfConnected, Audience
  <2> HIDE DEF n, rm, c
  <2>4. NumbersAreGivenOnce'
    BY <2>3 DEF Inductive, NumbersAreGivenOnce
  <2>5. RequestsHold'
    BY <2>3 DEF Inductive, RequestsHold
  <2>6. ListenersAreConnected'
    BY <2>1, <2>3 DEF Inductive, ListenersAreConnected
  <2>7. FetchersListen'
    BY <2>1, <2>3 DEF Inductive, FetchersListen
  <2>8. SendersParticipate'
    BY <2>3 DEF Inductive, SendersParticipate
  <2>9. SeenAreStored'
    BY <2>2, <2>3 DEF Inductive, SeenAreStored
  <2>10. JoinThenFetchMissesNothing'
    <3> SUFFICES ASSUME NEW s \in Sockets, NEW x \in fetched[s], NEW m \in LiveIn(x),
                        m \notin seen'[s]
                 PROVE  \E q \in Requests :
                          req'[q] # None /\ req'[q].at = "stored" /\ req'[q].number = m
      BY <2>3 DEF JoinThenFetchMissesNothing, LiveIn, StoredIn
    <3>1. m \notin seen[s]
      BY <2>3
    <3>2. PICK q \in Requests : req[q] # None /\ req[q].at = "stored" /\ req[q].number = m
      BY <3>1 DEF Inductive, JoinThenFetchMissesNothing
    <3>3. q # r
      <4> SUFFICES ASSUME q = r PROVE FALSE
        OBVIOUS
      <4>1. m = n
        BY <3>2 DEF n
      <4>2. x = rm
        BY <2>2, <4>1 DEF LiveIn, StoredIn
      <4>3. rm \in listening'[s]
        BY <2>1, <2>3, <4>2 DEF Inductive, FetchersListen
      <4> QED
        BY <2>3, <4>1, <4>3
    <3> QED
      BY <2>3, <3>2, <3>3
  <2> QED
    BY <2>4, <2>5, <2>6, <2>7, <2>8, <2>9, <2>10 DEF Inductive
<1>9. ASSUME NEW r \in Requests, Fail(r)
      PROVE  Inductive'
  <2>1. NumbersAreGivenOnce'
    BY <1>9 DEF Fail, Inductive, NumbersAreGivenOnce
  <2>2. RequestsHold'
    BY <1>9 DEF Fail, Inductive, RequestsHold
  <2>3. ListenersAreConnected'
    BY <1>9 DEF Fail, Inductive, ListenersAreConnected
  <2>4. FetchersListen'
    BY <1>9 DEF Fail, Inductive, FetchersListen
  <2>5. SendersParticipate'
    BY <1>9 DEF Fail, Inductive, SendersParticipate
  <2>6. SeenAreStored'
    BY <1>9 DEF Fail, Inductive, SeenAreStored
  <2>7. JoinThenFetchMissesNothing'
    BY <1>9 DEF Fail, Inductive, JoinThenFetchMissesNothing, LiveIn, StoredIn
  <2> QED
    BY <2>1, <2>2, <2>3, <2>4, <2>5, <2>6, <2>7 DEF Inductive
<1>10. ASSUME NEW rm \in Rooms, NEW u \in Users, Enroll(rm, u)
      PROVE  Inductive'
  <2>1. NumbersAreGivenOnce'
    BY <1>10 DEF Enroll, Inductive, NumbersAreGivenOnce
  <2>2. RequestsHold'
    BY <1>10 DEF Enroll, Inductive, RequestsHold
  <2>3. ListenersAreConnected'
    BY <1>10 DEF Enroll, Inductive, ListenersAreConnected
  <2>4. FetchersListen'
    BY <1>10 DEF Enroll, Inductive, FetchersListen
  <2>5. SendersParticipate'
    BY <1>10 DEF Enroll, Inductive, SendersParticipate
  <2>6. SeenAreStored'
    BY <1>10 DEF Enroll, Inductive, SeenAreStored
  <2>7. JoinThenFetchMissesNothing'
    BY <1>10 DEF Enroll, Inductive, JoinThenFetchMissesNothing, LiveIn, StoredIn
  <2> QED
    BY <2>1, <2>2, <2>3, <2>4, <2>5, <2>6, <2>7 DEF Inductive
<1>11. ASSUME NEW rm \in Rooms, NEW u \in Users, PostMessage(u, rm)
      PROVE  Inductive'
  <2> DEFINE n == created + 1
  <2>1. /\ u \in participants[rm] /\ n \in Numbers /\ created' = n
        /\ message' = [message EXCEPT ![n] = [room |-> rm, sender |-> u, live |-> FALSE]]
        /\ UNCHANGED <<participants, user, listening, req, seen, fetched>>
    BY <1>11, MaxMessagesAssumption DEF PostMessage, Numbers
  <2>2. \A m \in Numbers : message[m] # None => m # n /\ m <= n
    BY DEF Inductive, NumbersAreGivenOnce, Numbers
  <2>3. \A q \in Requests : req[q] # None =>
          req[q].number \in Numbers /\ req[q].number # n /\ req[q].number <= n
    BY DEF Inductive, NumbersAreGivenOnce, Numbers, Request
  <2>4. n <= n
    BY <2>1 DEF Numbers
  <2> HIDE DEF n
  <2>5. \A m \in Numbers :
          message'[m] = IF m = n THEN [room |-> rm, sender |-> u, live |-> FALSE] ELSE message[m]
    BY <2>1
  <2>6. NumbersAreGivenOnce'
    BY <2>1, <2>2, <2>3, <2>4, <2>5 DEF Inductive, NumbersAreGivenOnce
  <2>7. RequestsHold'
    BY <2>1, <2>3, <2>5 DEF Inductive, RequestsHold
  <2>8. SendersParticipate'
    BY <2>1, <2>5 DEF Inductive, SendersParticipate
  <2>9. SeenAreStored'
    BY <2>1, <2>2, <2>5 DEF Inductive, SeenAreStored
  <2>10. JoinThenFetchMissesNothing'
    BY <2>1, <2>5 DEF Inductive, JoinThenFetchMissesNothing, LiveIn, StoredIn
  <2> QED
    BY <2>1, <2>6, <2>7, <2>8, <2>9, <2>10 DEF Inductive, ListenersAreConnected, FetchersListen
<1>12. ASSUME Crash
      PROVE  Inductive'
  <2>1. NumbersAreGivenOnce'
    BY <1>12 DEF Crash, Inductive, NumbersAreGivenOnce
  <2>2. RequestsHold'
    BY <1>12 DEF Crash, Inductive, RequestsHold
  <2>3. ListenersAreConnected'
    BY <1>12 DEF Crash, Inductive, ListenersAreConnected
  <2>4. FetchersListen'
    BY <1>12 DEF Crash, Inductive, FetchersListen
  <2>5. SendersParticipate'
    BY <1>12 DEF Crash, Inductive, SendersParticipate
  <2>6. SeenAreStored'
    BY <1>12 DEF Crash, Inductive, SeenAreStored
  <2>7. JoinThenFetchMissesNothing'
    BY <1>12 DEF Crash, Inductive, JoinThenFetchMissesNothing, LiveIn, StoredIn
  <2> QED
    BY <2>1, <2>2, <2>3, <2>4, <2>5, <2>6, <2>7 DEF Inductive
<1>13. CASE UNCHANGED vars
  BY <1>13 DEF vars, Inductive, NumbersAreGivenOnce, RequestsHold, ListenersAreConnected,
     FetchersListen, SendersParticipate, SeenAreStored, JoinThenFetchMissesNothing, LiveIn, StoredIn
<1> QED
  BY <1>1, <1>2, <1>3, <1>4, <1>5, <1>6, <1>7, <1>8, <1>9, <1>10, <1>11, <1>12, <1>13
  DEF Next, SocketEvent, Advance

LEMMA InductiveInit == Init => Inductive
BY DEF Init, Inductive, NumbersAreGivenOnce, RequestsHold, ListenersAreConnected,
   FetchersListen, SendersParticipate, SeenAreStored, JoinThenFetchMissesNothing, At

(* Numbers are given once, what is announced was committed, and clients that *)
(* fetch while they listen miss nothing: all of it survives every step.      *)
THEOREM ChatConsistent == Spec => []Inductive
<1> QED
  BY TypeInit, TypeStep, InductiveInit, InductiveStep, PTL DEF Spec

(* A client knows only messages that are stored.                             *)
THEOREM SeenAreAlwaysStored == Spec => []SeenAreStored
<1>1. Inductive => SeenAreStored
  BY DEF Inductive
<1> QED
  BY <1>1, ChatConsistent, PTL

(* To join and then to fetch misses no message sent over a socket.           *)
THEOREM NothingIsMissed == Spec => []JoinThenFetchMissesNothing
<1>1. Inductive => JoinThenFetchMissesNothing
  BY DEF Inductive
<1> QED
  BY <1>1, ChatConsistent, PTL

(* No socket listens after it has disconnected.                              *)
THEOREM ListenersAreAlwaysConnected == Spec => []ListenersAreConnected
<1>1. Inductive => ListenersAreConnected
  BY DEF Inductive
<1> QED
  BY <1>1, ChatConsistent, PTL

-----------------------------------------------------------------------------
(* Under Inductive, what is said of serial sending survives every step.      *)
LEMMA SerialStep ==
  ASSUME TypeOK, Inductive, OneAtATime, LastMessageIsNewest, [Next]_vars
  PROVE  OneAtATime' /\ LastMessageIsNewest'
<1> SUFFICES ASSUME ~overlapped'
             PROVE  /\ \A q, r \in Requests : req'[q] # None /\ req'[r] # None => q = r
                    /\ \A r \in Requests : req'[r] # None /\ req'[r].at = "created" =>
                         \A rm \in Rooms : \A m \in LiveIn(rm)' : m < req'[r].number
                    /\ \A rm \in Rooms :
                         /\ \A m \in LiveIn(rm)' : m <= last'[rm]
                         /\ last'[rm] # 0 => last'[rm] \in LiveIn(rm)'
  BY DEF OneAtATime, LastMessageIsNewest, At
<1> USE DEF TypeOK, At, End, stored, client
<1>1. ~overlapped
  BY Zenon DEF Next, SocketEvent, Advance, Connect, JoinRoom, LeaveRoom, GetMessages, Disconnect,
     SendMessage, SendMessageCommit, Announce, Fail, Enroll, PostMessage, Crash, vars
<1>2. /\ \A q, r \in Requests : req[q] # None /\ req[r] # None => q = r
      /\ \A r \in Requests : req[r] # None /\ req[r].at = "created" =>
           \A rm \in Rooms : \A m \in LiveIn(rm) : m < req[r].number
      /\ \A rm \in Rooms :
           /\ \A m \in LiveIn(rm) : m <= last[rm]
           /\ last[rm] # 0 => last[rm] \in LiveIn(rm)
  BY <1>1 DEF OneAtATime, LastMessageIsNewest
<1>3. CASE \E r \in Requests, s \in Sockets, rm \in Rooms : SendMessage(r, s, rm)
  <2>1. PICK r \in Requests, s \in Sockets, rm \in Rooms : SendMessage(r, s, rm)
    BY <1>3
  <2>2. \A q \in Requests : req[q] = None
    BY <2>1, Zenon DEF SendMessage
  <2>3. /\ UNCHANGED <<message, last>>
        /\ req'[r].number = created + 1 /\ \A q \in Requests \ {r} : req'[q] = None
    BY <2>1, <2>2 DEF SendMessage
  <2>4. \A x \in Rooms : LiveIn(x)' = LiveIn(x)
    BY <2>3 DEF LiveIn, StoredIn
  <2>5. \A x \in Rooms : \A m \in LiveIn(x) : m < created + 1
    BY DEF LiveIn, StoredIn, Numbers, Inductive, NumbersAreGivenOnce
  <2> QED
    BY <1>2, <2>3, <2>4, <2>5
<1>4. CASE \E r \in Requests : SendMessageCommit(r)
  <2>1. PICK r \in Requests : SendMessageCommit(r)
    BY <1>4
  <2> DEFINE n == req[r].number
             rm == req[r].room
  <2>2. /\ n \in Numbers /\ rm \in Rooms /\ message[n] = None
        /\ \A x \in Rooms : \A m \in LiveIn(x) : m < n
        /\ \A q \in Requests \ {r} : req[q] = None
    BY <1>2, <2>1 DEF SendMessageCommit, Request, Inductive, NumbersAreGivenOnce
  <2>3. message'[n] = [room |-> rm, sender |-> req[r].user, live |-> TRUE]
          /\ [room |-> rm, sender |-> req[r].user, live |-> TRUE] \in Message
          /\ \A m \in Numbers \ {n} : message'[m] = message[m]
    BY <2>1 DEF SendMessageCommit, Request, Message
  <2>4. last' = [last EXCEPT ![rm] = n] /\ req'[r].at = "stored"
          /\ \A q \in Requests \ {r} : req'[q] = req[q]
    BY <2>1 DEF SendMessageCommit, RecordLast, Request
  <2> HIDE DEF n, rm
  <2>5. message'[n] # None
    BY <2>3, NoneIsNoRecord
  <2>6. \A x \in Rooms : LiveIn(x)' = IF x = rm THEN LiveIn(x) \cup {n} ELSE LiveIn(x)
    BY <2>2, <2>3, <2>5 DEF LiveIn, StoredIn
  <2>7. \A x \in Rooms : LiveIn(x) \subseteq Nat /\ n \in Nat
    BY <2>2 DEF LiveIn, StoredIn, Numbers
  <2> QED
    BY <1>2, <2>2, <2>4, <2>6, <2>7
<1>5. CASE \E rm \in Rooms, u \in Users : PostMessage(u, rm)
  <2>1. PICK rm \in Rooms, u \in Users : PostMessage(u, rm)
    BY <1>5
  <2> DEFINE n == created + 1
  <2>2. /\ n \in Numbers /\ ~(n <= created)
        /\ message' = [message EXCEPT ![n] = [room |-> rm, sender |-> u, live |-> FALSE]]
        /\ UNCHANGED <<last, req>>
    BY <2>1, MaxMessagesAssumption DEF PostMessage, Numbers
  <2>3. message[n] = None
    BY <2>2 DEF Inductive, NumbersAreGivenOnce
  <2> HIDE DEF n
  <2>4. \A x \in Rooms : LiveIn(x)' = LiveIn(x)
    BY <2>2, <2>3 DEF LiveIn, StoredIn
  <2> QED
    BY <1>2, <2>2, <2>4
<1>6. CASE UNCHANGED <<message, last>> /\ \A r \in Requests : req'[r] \in {req[r], None}
  <2>1. \A x \in Rooms : LiveIn(x)' = LiveIn(x)
    BY <1>6 DEF LiveIn, StoredIn
  <2> QED
    BY <1>2, <1>6, <2>1
<1> QED
  BY <1>3, <1>4, <1>5, <1>6
  DEF Next, SocketEvent, Advance, Connect, JoinRoom, LeaveRoom, GetMessages, Disconnect,
      Announce, Fail, Enroll, Crash, vars

(* As long as no two messages are in the making at once, lastMessageId is    *)
(* the newest message sent over a socket.                                    *)
THEOREM SerialLastIsNewest == Spec => []LastMessageIsNewest
<1>1. Init => OneAtATime /\ LastMessageIsNewest
  BY DEF Init, OneAtATime, LastMessageIsNewest, At, LiveIn, StoredIn
<1> QED
  BY <1>1, TypeInit, TypeStep, InductiveInit, InductiveStep, SerialStep, PTL DEF Spec

-----------------------------------------------------------------------------
(* The refinement.  What is pending changes only when a handler stores its   *)
(* message and when it announces it.                                         *)
LEMMA PendingStays ==
  ASSUME \A r \in Requests :
           req'[r] = req[r] \/ ~(At(r, "stored") \/ At(r, "stored")')
  PROVE  Pending' = Pending
BY DEF Pending, At

LEMMA PendingChanges ==
  ASSUME TypeOK, Inductive, NEW r \in Requests,
         \A q \in Requests \ {r} : req'[q] = req[q]
  PROVE  /\ At(r, "created") /\ At(r, "stored")' /\ req'[r].number = req[r].number =>
              Pending' = Pending \cup {req[r].number}
         /\ At(r, "stored") /\ req'[r] = None => Pending' = Pending \ {req[r].number}
<1>1. ASSUME NEW q \in Requests \ {r}, req[q] # None, req[r] # None
      PROVE  req[q].number # req[r].number
  BY <1>1 DEF Inductive, NumbersAreGivenOnce
<1>2. ASSUME At(r, "created"), At(r, "stored")', req'[r].number = req[r].number
      PROVE  Pending' = Pending \cup {req[r].number}
  BY <1>2 DEF Pending, At
<1>3. ASSUME At(r, "stored"), req'[r] = None
      PROVE  Pending' = Pending \ {req[r].number}
  BY <1>1, <1>3 DEF Pending, At
<1> QED
  BY <1>2, <1>3

(* A commit posts, a message over HTTP posts one that is not live.           *)
LEMMA CommitPosts ==
  ASSUME TypeOK, Inductive, NEW r \in Requests, SendMessageCommit(r)
  PROVE  Ledger!Next
<1> DEFINE n == req[r].number
           rm == req[r].room
           u == req[r].user
<1>1. /\ req[r] \in Request /\ At(r, "created")
      /\ n \in Numbers /\ rm \in Rooms /\ u \in Users
  BY DEF SendMessageCommit, At, TypeOK, Request
<1>2. u \in participants[rm] /\ message[n] = None
  BY <1>1 DEF Inductive, RequestsHold, NumbersAreGivenOnce, At
<1>3. req' = [req EXCEPT ![r] = [req[r] EXCEPT !.at = "stored"]]
  BY DEF SendMessageCommit
<1>4. [req[r] EXCEPT !.at = "stored"] \in Request /\ [req[r] EXCEPT !.at = "stored"].number = n
        /\ [req[r] EXCEPT !.at = "stored"].at = "stored"
  BY <1>1 DEF Request
<1>5. req'[r] = [req[r] EXCEPT !.at = "stored"] /\ \A q \in Requests \ {r} : req'[q] = req[q]
  BY <1>3 DEF TypeOK
<1>6. At(r, "stored")' /\ req'[r].number = n
  BY <1>4, <1>5, NoneIsNoRecord DEF At
<1>7. Pending' = Pending \cup {n}
  BY <1>1, <1>5, <1>6, PendingChanges
<1>8. /\ message' = [message EXCEPT ![n] = [room |-> rm, sender |-> u, live |-> TRUE]]
      /\ UNCHANGED <<participants, user, seen, fetched>>
  BY DEF SendMessageCommit, client
<1> HIDE DEF n, rm, u
<1>9. Ledger!Post(n, rm, u, TRUE)
  BY <1>2, <1>7, <1>8 DEF Ledger!Post, Ledger!people
<1> QED
  BY <1>1, <1>9 DEF Ledger!Next

LEMMA PostMessagePosts ==
  ASSUME TypeOK, Inductive, NEW rm \in Rooms, NEW u \in Users, PostMessage(u, rm)
  PROVE  Ledger!Next
<1> DEFINE n == created + 1
<1>1. n \in Numbers /\ ~(n <= created)
  BY MaxMessagesAssumption DEF PostMessage, TypeOK, Numbers
<1>2. message[n] = None
  BY <1>1 DEF Inductive, NumbersAreGivenOnce
<1>3. UNCHANGED <<participants, user, req, seen, fetched>>
  BY DEF PostMessage, client
<1>4. Pending' = Pending
  BY <1>3, PendingStays
<1>5. /\ u \in participants[rm]
      /\ message' = [message EXCEPT ![n] = [room |-> rm, sender |-> u, live |-> FALSE]]
  BY DEF PostMessage
<1> HIDE DEF n
<1>6. Ledger!Post(n, rm, u, FALSE)
  BY <1>2, <1>3, <1>4, <1>5 DEF Ledger!Post, Ledger!people
<1> QED
  BY <1>1, <1>6 DEF Ledger!Next

(* An announcement reaches whoever listens: at least those who follow.       *)
LEMMA AnnounceAnnounces ==
  ASSUME TypeOK, Inductive, NEW r \in Requests, Announce(r)
  PROVE  Ledger!Next
<1> DEFINE n == req[r].number
           rm == req[r].room
           reached == Audience(req[r].socket, rm)
<1>1. /\ req[r] \in Request /\ At(r, "stored") /\ req[r].socket \in Sockets
      /\ n \in Numbers /\ rm \in Rooms /\ n \in Pending
  BY DEF Announce, Announceable, At, TypeOK, Request, Pending
<1>2. message[n].room = rm
  <2>1. message[n] = [room |-> rm, sender |-> req[r].user, live |-> TRUE]
    BY <1>1 DEF Inductive, RequestsHold, At
  <2> HIDE DEF n, rm
  <2> QED
    BY <2>1
<1>3. \A s \in Sockets : listening[s] \subseteq listening'[s]
  BY <1>1 DEF Announce, JoinIfConnected, TypeOK
<1>4. {s \in Sockets : message[n].room \in fetched[s]} \subseteq reached
  BY <1>2, <1>3 DEF Inductive, FetchersListen, Audience
<1>5. reached \in SUBSET Sockets
  BY DEF Audience
<1>6. Pending' = Pending \ {n}
  <2>1. req'[r] = None /\ \A q \in Requests \ {r} : req'[q] = req[q]
    BY DEF Announce, End, TypeOK
  <2> QED
    BY <1>1, <2>1, PendingChanges
<1>7. /\ seen' = [s \in Sockets |-> IF s \in reached THEN seen[s] \cup {n} ELSE seen[s]]
      /\ UNCHANGED <<participants, user, message, fetched>>
  BY DEF Announce, stored
<1> HIDE DEF n, reached
<1>8. Ledger!Announce(n, reached)
  BY <1>1, <1>4, <1>6, <1>7 DEF Ledger!Announce, Ledger!people
<1> QED
  BY <1>1, <1>5, <1>8 DEF Ledger!Next

(* Every step of Chat is, for the ledger, one step or none.                  *)
LEMMA ChatLedgerStep ==
  ASSUME TypeOK, Inductive, [Next]_vars
  PROVE  [Ledger!Next]_(Ledger!vars)
<1> USE DEF stored, client
<1>1. ASSUME NEW s \in Sockets, SocketEvent(s)
      PROVE  [Ledger!Next]_(Ledger!vars)
  <2>1. UNCHANGED <<participants, message, req>> /\ Pending' = Pending
    BY <1>1, PendingStays DEF SocketEvent, Disconnect, Connect, JoinRoom, LeaveRoom, GetMessages
  <2>2. ASSUME Disconnect(s) PROVE Ledger!SignOut(s)
    BY <2>1, <2>2 DEF Disconnect, Ledger!SignOut
  <2>3. ASSUME NEW u \in Users, Connect(s, u) PROVE Ledger!SignIn(s, u)
    BY <2>1, <2>3 DEF Connect, Ledger!SignIn
  <2>4. ASSUME NEW rm \in Rooms, JoinRoom(s, rm) PROVE UNCHANGED Ledger!vars
    BY <2>1, <2>4 DEF JoinRoom, Ledger!vars
  <2>5. ASSUME NEW rm \in Rooms, LeaveRoom(s, rm) PROVE Ledger!Leave(s, rm)
    BY <2>1, <2>5 DEF LeaveRoom, Ledger!Leave, Ledger!people
  <2>6. ASSUME NEW rm \in Rooms, GetMessages(s, rm) PROVE Ledger!Read(s, rm)
    <3>1. fetched' \in {fetched, [fetched EXCEPT ![s] = @ \cup {rm}]}
      <4>1. fetched' = [fetched EXCEPT ![s] = @ \cup ({rm} \cap listening[s])]
        BY <2>6 DEF GetMessages
      <4>2. CASE rm \in listening[s]
        <5>1. {rm} \cap listening[s] = {rm}
          BY <4>2
        <5> QED
          BY <4>1, <5>1
      <4>3. CASE rm \notin listening[s]
        <5>1. fetched[s] \cup ({rm} \cap listening[s]) = fetched[s]
          BY <4>3
        <5> QED
          BY <4>1, <5>1 DEF TypeOK
      <4> QED
        BY <4>2, <4>3
    <3> QED
      BY <2>1, <2>6, <3>1 DEF GetMessages, StoredIn, Ledger!Read, Ledger!PostedIn, Ledger!people
  <2> QED
    BY <1>1, <2>2, <2>3, <2>4, <2>5, <2>6 DEF SocketEvent, Ledger!Next
<1>2. ASSUME NEW r \in Requests, NEW s \in Sockets, NEW rm \in Rooms, SendMessage(r, s, rm)
      PROVE  UNCHANGED Ledger!vars
  <2>1. \A q \in Requests : req'[q] = req[q] \/ ~(At(q, "stored") \/ At(q, "stored")')
    BY <1>2 DEF SendMessage, At, TypeOK
  <2> QED
    BY <1>2, <2>1, PendingStays DEF SendMessage, Ledger!vars
<1>3. ASSUME NEW r \in Requests, Fail(r)
      PROVE  UNCHANGED Ledger!vars
  <2>1. \A q \in Requests : req'[q] = req[q] \/ ~(At(q, "stored") \/ At(q, "stored")')
    BY <1>3 DEF Fail, End, At, TypeOK
  <2> QED
    BY <1>3, <2>1, PendingStays DEF Fail, Ledger!vars
<1>4. ASSUME NEW rm \in Rooms, NEW u \in Users, Enroll(rm, u)
      PROVE  Ledger!Enroll(rm, u)
  BY <1>4, PendingStays DEF Enroll, Ledger!Enroll
<1>5. ASSUME Crash
      PROVE  Ledger!Restart
  <2>1. Pending' = {}
    BY <1>5 DEF Crash, Pending, At
  <2> QED
    BY <1>5, <2>1 DEF Crash, Ledger!Restart
<1>6. CASE UNCHANGED vars
  BY <1>6, PendingStays DEF vars, Ledger!vars
<1> QED
  BY <1>1, <1>2, <1>3, <1>4, <1>5, <1>6, CommitPosts, PostMessagePosts, AnnounceAnnounces
  DEF Next, Advance, Ledger!Next

(* With all its handlers, interleavings and crashes, the gateway over the    *)
(* message service does what the ledger of the chat promises.                *)
THEOREM ChatImplementsLedger == Spec => ImplementsChatLedger
<1>1. Init => Ledger!Init
  BY DEF Init, Ledger!Init, Pending, At
<1>2. TypeOK /\ Inductive /\ [Next]_vars => [Ledger!Next]_(Ledger!vars)
  BY ChatLedgerStep
<1> QED
  BY <1>1, <1>2, TypeCorrect, ChatConsistent, PTL
  DEF Spec, ImplementsChatLedger, Ledger!Spec

-----------------------------------------------------------------------------
(* An offer or an answer in the making carries a socket, a room and a signal.*)
LEMMA CallRequestFields ==
  ASSUME CallTypeOK, NEW r \in Requests, call[r] # None
  PROVE  /\ call[r].socket \in Sockets
         /\ call[r].room \in Rooms
         /\ call[r].signal \in Signals
  BY DEF CallTypeOK, CallRequest

(* What the types say of the lists at hand.                                  *)
LEMMA SignalLists ==
  ASSUME CallTypeOK
  PROVE  /\ sent \in Seq(Signal) /\ Len(sent) \in Nat /\ DOMAIN sent = 1..Len(sent)
         /\ \A n \in DOMAIN sent : sent[n].room \in Rooms /\ sent[n].known \subseteq Signals
         /\ \A s \in Sockets :
              /\ heard[s] \in Seq(Signals) /\ Len(heard[s]) \in Nat
              /\ DOMAIN heard[s] = 1..Len(heard[s])
<1>1. \A n \in DOMAIN sent : sent[n] \in Signal
  BY DEF CallTypeOK
<1> QED
  BY <1>1 DEF CallTypeOK, Signal

(* What a relay leaves of the list of one client.                            *)
LEMMA RelayHeard ==
  ASSUME CallTypeOK, NEW n \in Signals, NEW A \in SUBSET Sockets, Relay(n, A)
  PROVE  /\ heard' \in [Sockets -> Seq(Signals)]
         /\ \A t \in Sockets \ A : heard'[t] = heard[t]
         /\ \A t \in A :
              /\ DOMAIN heard'[t] = 1..(Len(heard[t]) + 1)
              /\ heard'[t][Len(heard[t]) + 1] = n
              /\ \A i \in DOMAIN heard[t] : heard'[t][i] = heard[t][i]
         /\ \A t \in Sockets :
              /\ Range(heard[t]) \subseteq Range(heard'[t])
              /\ Range(heard'[t]) \subseteq Range(heard[t]) \cup {n}
              /\ t \in A => n \in Range(heard'[t])
<1>1. \A t \in Sockets : heard'[t] = IF t \in A THEN Append(heard[t], n) ELSE heard[t]
  BY DEF Relay
<1>2. \A t \in Sockets : Append(heard[t], n) \in Seq(Signals)
  BY SignalLists
<1>3. heard' \in [Sockets -> Seq(Signals)]
  BY <1>2 DEF Relay, CallTypeOK
<1>4. \A t \in A :
        /\ DOMAIN heard'[t] = 1..(Len(heard[t]) + 1)
        /\ heard'[t][Len(heard[t]) + 1] = n
        /\ \A i \in DOMAIN heard[t] : heard'[t][i] = heard[t][i]
  <2> TAKE t \in A
  <2>1. heard[t] \in Seq(Signals) /\ heard'[t] = Append(heard[t], n)
    BY <1>1, SignalLists
  <2> QED
    BY <2>1
<1>5. ASSUME NEW t \in A
      PROVE  Range(heard'[t]) = Range(heard[t]) \cup {n}
  <2>1. DOMAIN heard'[t] = DOMAIN heard[t] \cup {Len(heard[t]) + 1}
    BY <1>4, SignalLists
  <2> QED
    BY <2>1, <1>4 DEF Range
<1> QED
  BY <1>1, <1>3, <1>4, <1>5

(* A signal that reaches the server is the last of those sent.               *)
LEMMA SentGrows ==
  ASSUME CallTypeOK, NEW g \in Signal, sent' = Append(sent, g), Len(sent) < MaxSignals
  PROVE  /\ sent' \in Seq(Signal) /\ Len(sent') = Len(sent) + 1 /\ Len(sent') <= MaxSignals
         /\ DOMAIN sent' = DOMAIN sent \cup {Len(sent) + 1}
         /\ sent'[Len(sent) + 1] = g
         /\ \A n \in DOMAIN sent : sent'[n] = sent[n]
         /\ Len(sent) + 1 \in Signals /\ Len(sent) + 1 \notin DOMAIN sent
  BY SignalLists, MaxSignalsAssumption DEF Signals

(* Its sender knows but signals.                                             *)
LEMMA SignalTypes ==
  ASSUME CallTypeOK, NEW s \in Sockets, NEW rm \in Rooms
  PROVE  SignalOf(s, rm) \in Signal
<1>1. Range(heard[s]) \subseteq Signals
  BY SignalLists DEF Range
<1> QED
  BY <1>1 DEF SignalOf, Signal, Known, CallTypeOK

LEMMA CallTypeInit == CallInit => CallTypeOK
  BY MaxSignalsAssumption DEF CallInit, CallTypeOK, Gone

(* Every list, socket and handler keeps its type.                            *)
LEMMA CallTypeStep ==
  ASSUME CallTypeOK, [CallNext]_callVars
  PROVE  CallTypeOK'
<1> USE MaxSignalsAssumption
<1>1. ASSUME NEW s \in Sockets, HandleConnection(s) PROVE CallTypeOK'
  BY <1>1 DEF HandleConnection, CallTypeOK
<1>2. ASSUME NEW s \in Sockets, HandleDisconnect(s) PROVE CallTypeOK'
  BY <1>2 DEF HandleDisconnect, CallTypeOK, Gone
<1>3. ASSUME NEW s \in Sockets, NEW rm \in Rooms, HandleJoinRoom(s, rm)
      PROVE  CallTypeOK'
  <2>1. Len(sent) \in 0..MaxSignals
    BY SignalLists DEF CallTypeOK
  <2> QED
    BY <1>3, <2>1 DEF HandleJoinRoom, CallTypeOK
<1>4. ASSUME NEW s \in Sockets, NEW rm \in Rooms, HandleLeaveRoom(s, rm)
      PROVE  CallTypeOK'
  BY <1>4 DEF HandleLeaveRoom, CallTypeOK
<1>5. ASSUME NEW s \in Sockets, NEW rm \in Rooms, IceCandidate(s, rm)
      PROVE  CallTypeOK'
  <2>1. sent' \in Seq(Signal) /\ Len(sent') <= MaxSignals /\ Len(sent) + 1 \in Signals
    BY <1>5, SentGrows, SignalTypes DEF IceCandidate
  <2>2. heard' \in [Sockets -> Seq(Signals)]
    BY <1>5, <2>1, RelayHeard DEF IceCandidate, Others
  <2>3. awaited' \in [Sockets -> SUBSET Signals] /\ relayed' \in [Sockets -> SUBSET Signals]
    BY <1>5, <2>1 DEF IceCandidate, Acknowledge, CallTypeOK
  <2> QED
    BY <1>5, <2>1, <2>2, <2>3 DEF IceCandidate, CallTypeOK
<1>6. ASSUME NEW r \in Requests, NEW s \in Sockets, NEW rm \in Rooms, Describe(r, s, rm)
      PROVE  CallTypeOK'
  <2>1. sent' \in Seq(Signal) /\ Len(sent') <= MaxSignals /\ Len(sent) + 1 \in Signals
    BY <1>6, SentGrows, SignalTypes DEF Describe
  <2>2. call' \in [Requests -> CallRequest \cup {None}]
    BY <1>6, <2>1 DEF Describe, CallTypeOK, CallRequest
  <2>3. awaited' \in [Sockets -> SUBSET Signals]
    BY <1>6, <2>1 DEF Describe, AcknowledgeLater, CallTypeOK
  <2> QED
    BY <1>6, <2>1, <2>2, <2>3 DEF Describe, AcknowledgeLater, CallTypeOK
<1>7. ASSUME NEW r \in Requests, RelayDescription(r) PROVE CallTypeOK'
  <2>1. call[r].signal \in Signals /\ call[r].socket \in Sockets
    BY <1>7, CallRequestFields DEF RelayDescription
  <2>2. heard' \in [Sockets -> Seq(Signals)]
    BY <1>7, <2>1, RelayHeard DEF RelayDescription, OthersAfterLookUp, Others
  <2>3. awaited' \in [Sockets -> SUBSET Signals] /\ relayed' \in [Sockets -> SUBSET Signals]
    BY <1>7, <2>1 DEF RelayDescription, Acknowledge, CallTypeOK
  <2>4. call' \in [Requests -> CallRequest \cup {None}]
    BY <1>7 DEF RelayDescription, CallTypeOK
  <2> QED
    BY <1>7, <2>2, <2>3, <2>4 DEF RelayDescription, CallTypeOK
<1>8. ASSUME NEW r \in Requests, LookUpFails(r) PROVE CallTypeOK'
  BY <1>8 DEF LookUpFails, SayFailed, CallTypeOK
<1>9. CASE ServerStops
  BY <1>9 DEF ServerStops, CallTypeOK, Gone
<1>10. CASE UNCHANGED callVars
  BY <1>10 DEF callVars, CallTypeOK
<1> QED
  BY <1>1, <1>2, <1>3, <1>4, <1>5, <1>6, <1>7, <1>8, <1>9, <1>10
  DEF CallNext, CallEvent, Resume

(* The types of Calls hold for any sockets, rooms and handlers.              *)
THEOREM CallTypeCorrect == CallSpec => []CallTypeOK
  BY CallTypeInit, CallTypeStep, PTL DEF CallSpec

-----------------------------------------------------------------------------
LEMMA CallInductiveInit == CallInit => CallInductive
<1> SUFFICES ASSUME CallInit PROVE CallInductive
  OBVIOUS
<1>1. sent = <<>> /\ (\A s \in Sockets : heard[s] = <<>> /\ relayed[s] = {})
  BY DEF CallInit
<1>2. ASSUME NEW s \in Sockets PROVE Known(s) = {}
  <2>1. DOMAIN heard[s] = {} /\ relayed[s] = {}
    BY <1>1
  <2> QED
    BY <2>1 DEF Known, Range
<1> QED
  BY <1>1, <1>2 DEF CallInit, CallInductive, CausalOrder, RelayedWereHeard, KnownIsEarlier,
     OnlySentIsKnown, InFlightIsUnknown

(* Relaying a signal nobody knows of yet to everybody else in its room, and  *)
(* telling its sender, keeps what clients know in order.                     *)
LEMMA RelayKeepsOrder ==
  ASSUME CallTypeOK, CallInductive, CallTypeOK',
         NEW s \in Sockets, NEW rm \in Rooms, NEW n \in Signals,
         Relay(n, Others(s, rm)), Acknowledge(s, n), UNCHANGED joined,
         n \in DOMAIN sent', sent'[n].room = rm,
         DOMAIN sent \subseteq DOMAIN sent',
         \A k \in DOMAIN sent : sent'[k] = sent[k],
         \A k \in DOMAIN sent' : n \notin sent'[k].known,
         \A k \in DOMAIN sent' : sent'[k].known \subseteq 1..(k - 1)
  PROVE  /\ CausalOrder' /\ RelayedWereHeard' /\ KnownIsEarlier' /\ OnlySentIsKnown'
         /\ \A t \in Sockets : Known(t)' \subseteq Known(t) \cup {n}
<1> DEFINE A == Others(s, rm)
<1>1. A \subseteq Sockets
  BY DEF Others
<1>2. /\ \A t \in Sockets \ A : heard'[t] = heard[t]
      /\ \A t \in A :
           /\ DOMAIN heard'[t] = 1..(Len(heard[t]) + 1)
           /\ heard'[t][Len(heard[t]) + 1] = n
           /\ \A i \in DOMAIN heard[t] : heard'[t][i] = heard[t][i]
      /\ \A t \in Sockets :
           /\ Range(heard[t]) \subseteq Range(heard'[t])
           /\ Range(heard'[t]) \subseteq Range(heard[t]) \cup {n}
           /\ t \in A => n \in Range(heard'[t])
  BY <1>1, RelayHeard
<1>3. \A t \in Sockets : relayed'[t] \subseteq IF t = s THEN relayed[t] \cup {n} ELSE relayed[t]
  BY DEF Acknowledge, CallTypeOK
<1>4. \A t \in Sockets : Known(t)' \subseteq Known(t) \cup {n}
  BY <1>2, <1>3 DEF Known
<1>5. \A t \in Sockets : \A i \in DOMAIN heard[t] : heard[t][i] \in DOMAIN sent
  BY DEF CallInductive, OnlySentIsKnown, Known, Range
<1>6. CausalOrder'
  <2> SUFFICES ASSUME NEW t \in Sockets, NEW i \in DOMAIN heard'[t], NEW j \in DOMAIN heard'[t],
                      heard'[t][i] \in sent'[heard'[t][j]].known
               PROVE  i < j
    BY DEF CausalOrder
  <2>1. heard'[t][j] \in DOMAIN sent'
    <3>1. heard'[t][j] \in Range(heard[t]) \cup {n}
      BY <1>2 DEF Range
    <3> QED
      BY <1>5, <3>1 DEF Range
  <2>2. heard'[t][i] # n
    BY <2>1
  <2>3. i \in DOMAIN heard[t] /\ heard'[t][i] = heard[t][i]
    BY <1>2, <2>2, SignalLists
  <2>4. CASE j \in DOMAIN heard[t]
    <3>1. heard'[t][j] = heard[t][j] /\ sent'[heard[t][j]] = sent[heard[t][j]]
      BY <1>2, <1>5, <2>4
    <3> QED
      BY <2>3, <2>4, <3>1 DEF CallInductive, CausalOrder
  <2>5. CASE j \notin DOMAIN heard[t]
    <3>1. t \in A /\ j = Len(heard[t]) + 1
      BY <1>2, <2>5, SignalLists
    <3> QED
      BY <2>3, <3>1, SignalLists
  <2> QED
    BY <2>4, <2>5
<1>7. RelayedWereHeard'
  <2> SUFFICES ASSUME NEW u \in Sockets, NEW t \in Sockets, NEW k \in relayed'[u], u # t,
                      joined[t][sent'[k].room] # None, joined[t][sent'[k].room] < k
               PROVE  k \in Range(heard'[t])
    BY DEF RelayedWereHeard
  <2>1. CASE k = n /\ u = s
    BY <2>1, <1>2 DEF Others
  <2>2. CASE k \in relayed[u]
    <3>1. k \in DOMAIN sent /\ sent'[k] = sent[k]
      BY <2>2 DEF CallInductive, OnlySentIsKnown, Known
    <3>2. k \in Range(heard[t])
      BY <2>2, <3>1 DEF CallInductive, RelayedWereHeard
    <3> QED
      BY <3>2, <1>2
  <2> QED
    BY <1>3, <2>1, <2>2
<1>8. KnownIsEarlier'
  <2>1. \A k \in DOMAIN sent' : k \in Nat
    BY SignalLists DEF CallTypeOK
  <2> QED
    BY <2>1 DEF KnownIsEarlier
<1>9. OnlySentIsKnown'
  BY <1>4 DEF CallInductive, OnlySentIsKnown
<1> QED
  BY <1>4, <1>6, <1>7, <1>8, <1>9

(* One step of the gateway keeps the order, by whoever is making it: a signal*)
(* is relayed once, and nobody knew of it before.                            *)
LEMMA CallInductiveStep ==
  ASSUME CallTypeOK, CallInductive, [CallNext]_callVars
  PROVE  CallInductive'
<1> USE MaxSignalsAssumption, NoneIsNoCallRequest
<1>0. CallTypeOK'
  BY CallTypeStep
<1>1. ASSUME NEW s \in Sockets, HandleConnection(s) PROVE CallInductive'
  BY <1>1 DEF HandleConnection, CallInductive, CausalOrder, RelayedWereHeard, KnownIsEarlier,
     OnlySentIsKnown, InFlightIsUnknown, Known
<1>2. ASSUME NEW T \in SUBSET Sockets,
             joined' = [t \in Sockets |-> IF t \in T THEN Gone ELSE joined[t]],
             heard' = [t \in Sockets |-> IF t \in T THEN <<>> ELSE heard[t]],
             relayed' = [t \in Sockets |-> IF t \in T THEN {} ELSE relayed[t]],
             \A r \in Requests : call'[r] # None => call'[r] = call[r],
             UNCHANGED sent
      PROVE  CallInductive'
  <2>1. \A t \in Sockets : Known(t)' \subseteq Known(t)
    BY <1>2 DEF Known, Range
  <2>2. CausalOrder'
    BY <1>2 DEF CallInductive, CausalOrder
  <2>3. RelayedWereHeard'
    <3> SUFFICES ASSUME NEW u \in Sockets, NEW t \in Sockets, NEW k \in relayed'[u], u # t,
                        joined'[t][sent[k].room] # None, joined'[t][sent[k].room] < k
                 PROVE  k \in Range(heard'[t])
      BY <1>2 DEF RelayedWereHeard
    <3>1. k \in relayed[u] /\ k \in DOMAIN sent
      BY <1>2 DEF CallInductive, OnlySentIsKnown, Known
    <3>2. sent[k].room \in Rooms
      BY <3>1, SignalLists
    <3>3. t \notin T
      BY <1>2, <3>2 DEF Gone
    <3> QED
      BY <1>2, <3>1, <3>3 DEF CallInductive, RelayedWereHeard
  <2>4. KnownIsEarlier' /\ OnlySentIsKnown'
    BY <1>2, <2>1 DEF CallInductive, KnownIsEarlier, OnlySentIsKnown
  <2>5. InFlightIsUnknown'
    BY <1>2, <2>1 DEF CallInductive, InFlightIsUnknown
  <2> QED
    BY <2>2, <2>3, <2>4, <2>5 DEF CallInductive
<1>3. ASSUME NEW s \in Sockets, HandleDisconnect(s) PROVE CallInductive'
  <2>1. /\ joined' = [t \in Sockets |-> IF t \in {s} THEN Gone ELSE joined[t]]
        /\ heard' = [t \in Sockets |-> IF t \in {s} THEN <<>> ELSE heard[t]]
        /\ relayed' = [t \in Sockets |-> IF t \in {s} THEN {} ELSE relayed[t]]
        /\ UNCHANGED <<sent, call>>
    BY <1>3 DEF HandleDisconnect, CallTypeOK
  <2> QED
    BY <1>2, <2>1
<1>4. ASSUME ServerStops PROVE CallInductive'
  <2>1. /\ joined' = [t \in Sockets |-> IF t \in Sockets THEN Gone ELSE joined[t]]
        /\ heard' = [t \in Sockets |-> IF t \in Sockets THEN <<>> ELSE heard[t]]
        /\ relayed' = [t \in Sockets |-> IF t \in Sockets THEN {} ELSE relayed[t]]
        /\ \A r \in Requests : call'[r] = None
        /\ UNCHANGED sent
    BY <1>4 DEF ServerStops
  <2> QED
    BY <1>2, <2>1
<1>5. ASSUME NEW s \in Sockets, NEW rm \in Rooms, HandleJoinRoom(s, rm)
      PROVE  CallInductive'
  <2>1. RelayedWereHeard'
    <3> SUFFICES ASSUME NEW u \in Sockets, NEW t \in Sockets, NEW k \in relayed[u], u # t,
                        joined'[t][sent[k].room] # None, joined'[t][sent[k].room] < k
                 PROVE  k \in Range(heard[t])
      BY <1>5 DEF RelayedWereHeard, HandleJoinRoom
    <3>1. k \in DOMAIN sent
      BY DEF CallInductive, OnlySentIsKnown, Known
    <3>2. joined'[t][sent[k].room] = joined[t][sent[k].room]
      <4>1. sent[k].room \in Rooms /\ k <= Len(sent) /\ k \in Nat /\ Len(sent) \in Nat
        BY <3>1, SignalLists
      <4>2. joined'[t][sent[k].room] # Len(sent)
        BY <4>1
      <4> QED
        BY <1>5, <4>1, <4>2 DEF HandleJoinRoom, CallTypeOK
    <3> QED
      BY <3>2 DEF CallInductive, RelayedWereHeard
  <2> QED
    BY <1>5, <2>1 DEF HandleJoinRoom, CallInductive, CausalOrder, KnownIsEarlier, OnlySentIsKnown,
       InFlightIsUnknown, Known
<1>6. ASSUME NEW s \in Sockets, NEW rm \in Rooms, HandleLeaveRoom(s, rm)
      PROVE  CallInductive'
  <2>1. RelayedWereHeard'
    <3> SUFFICES ASSUME NEW u \in Sockets, NEW t \in Sockets, NEW k \in relayed[u], u # t,
                        joined'[t][sent[k].room] # None, joined'[t][sent[k].room] < k
                 PROVE  k \in Range(heard[t])
      BY <1>6 DEF RelayedWereHeard, HandleLeaveRoom
    <3>1. sent[k].room \in Rooms
      BY SignalLists DEF CallInductive, OnlySentIsKnown, Known
    <3>2. joined'[t][sent[k].room] = joined[t][sent[k].room]
      BY <1>6, <3>1 DEF HandleLeaveRoom, CallTypeOK
    <3> QED
      BY <3>2 DEF CallInductive, RelayedWereHeard
  <2> QED
    BY <1>6, <2>1 DEF HandleLeaveRoom, CallInductive, CausalOrder, KnownIsEarlier, OnlySentIsKnown,
       InFlightIsUnknown, Known
<1>7. ASSUME NEW s \in Sockets, NEW rm \in Rooms, Len(sent) < MaxSignals,
             sent' = Append(sent, SignalOf(s, rm))
      PROVE  /\ Len(sent) + 1 \in Signals /\ Len(sent) + 1 \notin DOMAIN sent
             /\ DOMAIN sent' = DOMAIN sent \cup {Len(sent) + 1}
             /\ sent'[Len(sent) + 1].room = rm
             /\ \A k \in DOMAIN sent : sent'[k] = sent[k]
             /\ \A k \in DOMAIN sent' : Len(sent) + 1 \notin sent'[k].known
             /\ \A k \in DOMAIN sent' : sent'[k].known \subseteq 1..(k - 1)
             /\ \A k \in DOMAIN sent' : sent'[k].known \subseteq DOMAIN sent
  <2> DEFINE n == Len(sent) + 1
  <2>1. /\ DOMAIN sent' = DOMAIN sent \cup {n} /\ sent'[n] = SignalOf(s, rm)
        /\ \A k \in DOMAIN sent : sent'[k] = sent[k]
        /\ n \in Signals /\ n \notin DOMAIN sent
    BY <1>7, SentGrows, SignalTypes
  <2>2. sent'[n].room = rm /\ sent'[n].known \subseteq 1..(n - 1)
    BY <2>1, SignalLists DEF SignalOf, CallInductive, OnlySentIsKnown
  <2>3. \A k \in DOMAIN sent : sent[k].known \subseteq 1..(k - 1)
    <3>1. \A k \in DOMAIN sent : sent[k].known \subseteq Signals
      BY SignalLists
    <3> QED
      BY <3>1, SignalLists DEF CallInductive, KnownIsEarlier, Signals
  <2>4. \A k \in DOMAIN sent' : sent'[k].known \subseteq 1..(k - 1)
    BY <2>1, <2>2, <2>3
  <2>5. \A k \in DOMAIN sent' : 1..(k - 1) \subseteq DOMAIN sent
    BY <2>1, SignalLists
  <2> QED
    BY <2>1, <2>2, <2>4, <2>5
<1>8. ASSUME NEW s \in Sockets, NEW rm \in Rooms, IceCandidate(s, rm)
      PROVE  CallInductive'
  <2> DEFINE n == Len(sent) + 1
  <2>1. /\ n \in Signals /\ n \notin DOMAIN sent
        /\ DOMAIN sent' = DOMAIN sent \cup {n}
        /\ sent'[n].room = rm
        /\ \A k \in DOMAIN sent : sent'[k] = sent[k]
        /\ \A k \in DOMAIN sent' : n \notin sent'[k].known
        /\ \A k \in DOMAIN sent' : sent'[k].known \subseteq 1..(k - 1)
        /\ \A k \in DOMAIN sent' : sent'[k].known \subseteq DOMAIN sent
    BY <1>7, <1>8 DEF IceCandidate
  <2>2. Relay(n, Others(s, rm)) /\ Acknowledge(s, n) /\ UNCHANGED <<joined, call>>
    BY <1>8 DEF IceCandidate
  <2> HIDE DEF n
  <2>3. /\ CausalOrder' /\ RelayedWereHeard' /\ KnownIsEarlier' /\ OnlySentIsKnown'
        /\ \A t \in Sockets : Known(t)' \subseteq Known(t) \cup {n}
    BY <1>0, <2>1, <2>2, RelayKeepsOrder
  <2>4. InFlightIsUnknown'
    <3> SUFFICES ASSUME NEW r \in Requests, call[r] # None
                 PROVE  LET m == call[r].signal IN
                        /\ m \in DOMAIN sent'
                        /\ call[r].room = sent'[m].room
                        /\ \A k \in DOMAIN sent' : m \notin sent'[k].known
                        /\ \A t \in Sockets : m \notin Known(t)'
                        /\ \A q \in Requests \ {r} : call[q] # None => call[q].signal # m
      BY <2>2 DEF InFlightIsUnknown
    <3> DEFINE m == call[r].signal
    <3>1. /\ m \in DOMAIN sent /\ call[r].room = sent[m].room
          /\ \A k \in DOMAIN sent : m \notin sent[k].known
          /\ \A t \in Sockets : m \notin Known(t)
          /\ \A q \in Requests \ {r} : call[q] # None => call[q].signal # m
      BY DEF CallInductive, InFlightIsUnknown
    <3>2. sent'[n].known = Known(s)
      BY <1>8, SentGrows, SignalTypes DEF IceCandidate, n, SignalOf
    <3>3. \A t \in Sockets : m \notin Known(t)'
      BY <2>1, <2>3, <3>1
    <3>4. \A k \in DOMAIN sent' : m \notin sent'[k].known
      BY <2>1, <3>1, <3>2
    <3> QED
      BY <2>1, <3>1, <3>3, <3>4
  <2> QED
    BY <2>3, <2>4 DEF CallInductive
<1>9. ASSUME NEW r \in Requests, NEW s \in Sockets, NEW rm \in Rooms, Describe(r, s, rm)
      PROVE  CallInductive'
  <2> DEFINE n == Len(sent) + 1
             d == [socket |-> s, room |-> rm, signal |-> n]
  <2>1. /\ n \in Signals /\ n \notin DOMAIN sent
        /\ DOMAIN sent' = DOMAIN sent \cup {n}
        /\ sent'[n].room = rm
        /\ \A k \in DOMAIN sent : sent'[k] = sent[k]
        /\ \A k \in DOMAIN sent' : n \notin sent'[k].known
        /\ \A k \in DOMAIN sent' : sent'[k].known \subseteq 1..(k - 1)
        /\ \A k \in DOMAIN sent' : sent'[k].known \subseteq DOMAIN sent
    BY <1>7, <1>9 DEF Describe
  <2>2. UNCHANGED <<joined, heard, relayed>> /\ \A t \in Sockets : Known(t)' = Known(t)
    BY <1>9 DEF Describe, AcknowledgeLater, Known
  <2>3. /\ call[r] = None /\ call'[r] = d /\ \A q \in Requests \ {r} : call'[q] = call[q]
    BY <1>9 DEF Describe, CallTypeOK
  <2>4. sent'[n].known = Known(s)
    BY <1>9, SentGrows, SignalTypes DEF Describe, SignalOf
  <2> HIDE DEF n
  <2>5. \A t \in Sockets : \A i \in DOMAIN heard[t] : heard[t][i] \in DOMAIN sent
    BY DEF CallInductive, OnlySentIsKnown, Known, Range
  <2>6. CausalOrder'
    BY <2>1, <2>2, <2>5 DEF CallInductive, CausalOrder
  <2>7. RelayedWereHeard'
    <3>1. \A t \in Sockets : relayed[t] \subseteq DOMAIN sent
      BY DEF CallInductive, OnlySentIsKnown, Known
    <3> QED
      BY <2>1, <2>2, <3>1 DEF CallInductive, RelayedWereHeard
  <2>8. KnownIsEarlier' /\ OnlySentIsKnown'
    <3>1. \A k \in DOMAIN sent' : k \in Nat
      BY <1>0, SignalLists DEF CallTypeOK
    <3> QED
      BY <2>1, <2>2, <3>1 DEF CallInductive, KnownIsEarlier, OnlySentIsKnown
  <2>9. InFlightIsUnknown'
    <3>1. \A q \in Requests : call[q] # None =>
            /\ call[q].signal \in DOMAIN sent /\ call[q].room = sent[call[q].signal].room
            /\ \A k \in DOMAIN sent' : call[q].signal \notin sent'[k].known
            /\ \A t \in Sockets : call[q].signal \notin Known(t)'
            /\ \A p \in Requests \ {q} : call[p] # None => call[p].signal # call[q].signal
      BY <2>1, <2>2, <2>4 DEF CallInductive, InFlightIsUnknown
    <3>2. \A t \in Sockets : n \notin Known(t)'
      BY <2>1, <2>2 DEF CallInductive, OnlySentIsKnown
    <3>3. d.signal = n /\ d.room = rm
      OBVIOUS
    <3> HIDE DEF d
    <3> QED
      BY <2>1, <2>3, <3>1, <3>2, <3>3 DEF InFlightIsUnknown
  <2> QED
    BY <2>6, <2>7, <2>8, <2>9 DEF CallInductive
<1>10. ASSUME NEW r \in Requests, RelayDescription(r) PROVE CallInductive'
  <2> DEFINE n == call[r].signal
             s == call[r].socket
             rm == call[r].room
  <2>1. /\ call[r] # None /\ n \in Signals /\ s \in Sockets /\ rm \in Rooms
        /\ Relay(n, Others(s, rm)) /\ Acknowledge(s, n)
        /\ UNCHANGED <<joined, sent>>
    BY <1>10, CallRequestFields DEF RelayDescription, OthersAfterLookUp
  <2>2. /\ n \in DOMAIN sent /\ rm = sent[n].room
        /\ \A k \in DOMAIN sent : n \notin sent[k].known
        /\ \A q \in Requests \ {r} : call[q] # None => call[q].signal # n
    BY <2>1 DEF CallInductive, InFlightIsUnknown
  <2>3. \A q \in Requests : call'[q] # None => call'[q] = call[q] /\ q # r
    BY <1>10 DEF RelayDescription, CallTypeOK
  <2> HIDE DEF n, s, rm
  <2>4. \A k \in DOMAIN sent' : sent'[k].known \subseteq 1..(k - 1)
    <3>1. \A k \in DOMAIN sent : sent[k].known \subseteq Signals
      BY SignalLists DEF Signal
    <3> QED
      BY <2>1, <3>1, SignalLists DEF CallInductive, KnownIsEarlier, Signals
  <2>5. /\ CausalOrder' /\ RelayedWereHeard' /\ KnownIsEarlier' /\ OnlySentIsKnown'
        /\ \A t \in Sockets : Known(t)' \subseteq Known(t) \cup {n}
    BY <1>0, <2>1, <2>2, <2>4, RelayKeepsOrder
  <2>6. InFlightIsUnknown'
    BY <2>1, <2>2, <2>3, <2>5 DEF CallInductive, InFlightIsUnknown
  <2> QED
    BY <2>5, <2>6 DEF CallInductive
<1>11. ASSUME NEW r \in Requests, LookUpFails(r) PROVE CallInductive'
  <2>1. /\ \A q \in Requests : call'[q] # None => call'[q] = call[q]
        /\ UNCHANGED <<joined, sent, heard, relayed>>
    BY <1>11 DEF LookUpFails, CallTypeOK
  <2> QED
    BY <2>1 DEF CallInductive, CausalOrder, RelayedWereHeard, KnownIsEarlier, OnlySentIsKnown,
       InFlightIsUnknown, Known
<1>12. CASE UNCHANGED callVars
  BY <1>12 DEF callVars, CallInductive, CausalOrder, RelayedWereHeard, KnownIsEarlier,
     OnlySentIsKnown, InFlightIsUnknown, Known
<1> QED
  BY <1>1, <1>3, <1>4, <1>5, <1>6, <1>8, <1>9, <1>10, <1>11, <1>12
  DEF CallNext, CallEvent, Resume

(* Signals know only earlier ones, and a signal whose handler awaits the     *)
(* look-up of its sender is known to nobody.                                 *)
THEOREM CallsConsistent == CallSpec => []CallInductive
  BY CallInductiveInit, CallTypeInit, CallTypeStep, CallInductiveStep, PTL DEF CallSpec

(* However the look-ups of the handlers interleave, a client hears an offer  *)
(* before its answer, and before the candidates sent once it was acknowledged.*)
THEOREM SignalsInCausalOrder == CallSpec => []CausalOrder
<1>1. CallInductive => CausalOrder
  BY DEF CallInductive
<1> QED
  BY <1>1, CallsConsistent, PTL

(* The acknowledgement of an offer, an answer or a candidate is the truth:   *)
(* whoever was in the room since before it was sent has heard it.            *)
THEOREM RelayedWereAlwaysHeard == CallSpec => []RelayedWereHeard
<1>1. CallInductive => RelayedWereHeard
  BY DEF CallInductive
<1> QED
  BY <1>1, CallsConsistent, PTL
=============================================================================
