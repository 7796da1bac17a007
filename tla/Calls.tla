------------------------------- MODULE Calls -------------------------------
(***************************************************************************)
(* The setting up of calls: what ChatGateway relays of offers, answers and *)
(* ICE candidates.  Nothing of it is stored.                               *)
(*                                                                         *)
(* The handler of an offer or an answer looks its sender up in the         *)
(* database and only then relays the signal and acknowledges it, in one    *)
(* step: other events are handled in between, and its sender may have      *)
(* left.  A candidate is relayed at once.  A client is taken to know what  *)
(* the server has sent it, the most it can know.                           *)
(*                                                                         *)
(* Signals the handlers refuse before they await anything change nothing   *)
(* and are left out, and so is what a room is told of who comes and goes.  *)
(*                                                                         *)
(* "slip: P" marks a plausible mistake in the operator defined after it:   *)
(* nothing uses it, and with it in that operator's place P fails.          *)
(***************************************************************************)
EXTENDS Gateway, Sequences, Functions

CONSTANT MaxSignals  \* how many signals are sent in all: a bound

ASSUME MaxSignalsAssumption == MaxSignals \in Nat

VARIABLES
  connected,  \* the sockets whose token was accepted
  joined,     \* joined[s][rm]: how many signals there were when s joined rm, or None
  sent,       \* the signals, in the order they reached the server
  call,       \* call[r]: the offer or answer in the making, None when there is none
  heard,      \* heard[s]: the signals relayed to s, in this order
  awaited,    \* awaited[s]: the signals of s that are not acknowledged
  relayed     \* relayed[s]: the signals of s acknowledged as relayed

callVars == <<connected, joined, sent, call, heard, awaited, relayed>>

Signals == 1..MaxSignals

(* known: the signals its sender knew of when it sent this one.              *)
Signal == [socket : Sockets, room : Rooms, known : SUBSET Signals]
CallRequest == [socket : Sockets, room : Rooms, signal : Signals]

ASSUME NoneIsNoCallRequest == None \notin Nat \cup CallRequest

Gone == [rm \in Rooms |-> None]

CallTypeOK ==
  /\ connected \subseteq Sockets
  /\ joined \in [Sockets -> [Rooms -> 0..MaxSignals \cup {None}]]
  /\ sent \in Seq(Signal) /\ Len(sent) <= MaxSignals
  /\ call \in [Requests -> CallRequest \cup {None}]
  /\ heard \in [Sockets -> Seq(Signals)]
  /\ awaited \in [Sockets -> SUBSET Signals]
  /\ relayed \in [Sockets -> SUBSET Signals]

CallInit ==
  /\ connected = {}
  /\ joined = [s \in Sockets |-> Gone]
  /\ sent = <<>>
  /\ call = [r \in Requests |-> None]
  /\ heard = [s \in Sockets |-> <<>>]
  /\ awaited = [s \in Sockets |-> {}]
  /\ relayed = [s \in Sockets |-> {}]

-----------------------------------------------------------------------------
(* A slot is taken again only when no handler holds on to its former socket. *)
HandleConnection(s) ==
  /\ s \notin connected
  /\ \A r \in Requests : call[r] # None => call[r].socket # s
  /\ connected' = connected \cup {s}
  /\ UNCHANGED <<joined, sent, call, heard, awaited, relayed>>

(* Joining a room again changes nothing.                                     *)
HandleJoinRoom(s, rm) ==
  /\ s \in connected
  /\ joined[s][rm] = None
  /\ joined' = [joined EXCEPT ![s][rm] = Len(sent)]
  /\ UNCHANGED <<connected, sent, call, heard, awaited, relayed>>

HandleLeaveRoom(s, rm) ==
  /\ joined[s][rm] # None
  /\ joined' = [joined EXCEPT ![s][rm] = None]
  /\ UNCHANGED <<connected, sent, call, heard, awaited, relayed>>

(* The handlers of its signals go on.                                        *)
HandleDisconnect(s) ==
  /\ s \in connected
  /\ connected' = connected \ {s}
  /\ joined' = [joined EXCEPT ![s] = Gone]
  /\ heard' = [heard EXCEPT ![s] = <<>>]
  /\ awaited' = [awaited EXCEPT ![s] = {}]
  /\ relayed' = [relayed EXCEPT ![s] = {}]
  /\ UNCHANGED <<sent, call>>

(* The server goes down, the sockets and the handlers with it.               *)
ServerStops ==
  /\ connected' = {}
  /\ joined' = [s \in Sockets |-> Gone]
  /\ call' = [r \in Requests |-> None]
  /\ heard' = [s \in Sockets |-> <<>>]
  /\ awaited' = [s \in Sockets |-> {}]
  /\ relayed' = [s \in Sockets |-> {}]
  /\ UNCHANGED sent

-----------------------------------------------------------------------------
Known(s) == Range(heard[s]) \cup relayed[s]
SignalOf(s, rm) == [socket |-> s, room |-> rm, known |-> Known(s)]

(* client.to: everybody in the room but the client, in the room or not.      *)
Others(s, rm) == {t \in Sockets \ {s} : joined[t][rm] # None}
Relay(n, audience) ==
  heard' = [t \in Sockets |-> IF t \in audience THEN Append(heard[t], n) ELSE heard[t]]

Acknowledge(s, n) ==
  /\ awaited' = [awaited EXCEPT ![s] = @ \ {n}]
  /\ relayed' = [relayed EXCEPT ![s] = IF s \in connected THEN @ \cup {n} ELSE @]

AcknowledgeAtOnce(s, n) ==  \* slip: CausalOrder
  /\ awaited' = awaited
  /\ relayed' = [relayed EXCEPT ![s] = @ \cup {n}]
AcknowledgeLater(s, n) ==
  /\ awaited' = [awaited EXCEPT ![s] = @ \cup {n}]
  /\ UNCHANGED relayed

(* handleOffer and handleAnswer, to the look-up of the sender.               *)
Describe(r, s, rm) ==
  /\ call[r] = None
  /\ Len(sent) < MaxSignals
  /\ joined[s][rm] # None
  /\ sent' = Append(sent, SignalOf(s, rm))
  /\ call' = [call EXCEPT ![r] =
                [socket |-> s, room |-> rm, signal |-> Len(sent) + 1]]
  /\ AcknowledgeLater(s, Len(sent) + 1)
  /\ UNCHANGED <<connected, joined, heard>>

(* The sender was found.                                                     *)
StillThere(s, rm) == IF joined[s][rm] = None THEN {} ELSE Others(s, rm)  \* slip: RelayedWereHeard
OthersAfterLookUp(s, rm) == Others(s, rm)

RelayDescription(r) ==
  /\ call[r] # None
  /\ Relay(call[r].signal, OthersAfterLookUp(call[r].socket, call[r].room))
  /\ Acknowledge(call[r].socket, call[r].signal)
  /\ call' = [call EXCEPT ![r] = None]
  /\ UNCHANGED <<connected, joined, sent>>

(* The look-up failed: the handler catches it and says so.                   *)
Uncaught(s, n) == UNCHANGED awaited  \* slip: EverySignalIsAnswered
SayFailed(s, n) == awaited' = [awaited EXCEPT ![s] = @ \ {n}]

LookUpFails(r) ==
  /\ call[r] # None
  /\ SayFailed(call[r].socket, call[r].signal)
  /\ call' = [call EXCEPT ![r] = None]
  /\ UNCHANGED <<connected, joined, sent, heard, relayed>>

(* Whoever is connected may send candidates to any room.                     *)
IceCandidate(s, rm) ==
  /\ s \in connected
  /\ Len(sent) < MaxSignals
  /\ sent' = Append(sent, SignalOf(s, rm))
  /\ Relay(Len(sent) + 1, Others(s, rm))
  /\ Acknowledge(s, Len(sent) + 1)
  /\ UNCHANGED <<connected, joined, call>>

-----------------------------------------------------------------------------
CallEvent(s) ==
  \/ HandleConnection(s)
  \/ HandleDisconnect(s)
  \/ \E rm \in Rooms :
       \/ HandleJoinRoom(s, rm)
       \/ HandleLeaveRoom(s, rm)
       \/ IceCandidate(s, rm)
       \/ \E r \in Requests : Describe(r, s, rm)

Resume(r) == RelayDescription(r) \/ LookUpFails(r)

CallNext ==
  \/ \E s \in Sockets : CallEvent(s)
  \/ \E r \in Requests : Resume(r)
  \/ ServerStops

(* The database answers a look-up or fails it.  Clients do what they like.   *)
CallFairness == \A r \in Requests : WF_callVars(Resume(r))

CallSpec == CallInit /\ [][CallNext]_callVars /\ CallFairness

-----------------------------------------------------------------------------
(* A client that hears two signals hears first what the sender of the other  *)
(* knew of: an offer before its answer, and before the candidates its sender *)
(* sent when the offer was acknowledged.  (A candidate sent any sooner may   *)
(* overtake the offer, whose handler awaits the look-up.)                    *)
CausalOrder ==
  \A s \in Sockets : \A i, j \in DOMAIN heard[s] :
    heard[s][i] \in sent[heard[s][j]].known => i < j

(* A signal acknowledged as relayed was heard by everybody else who is in    *)
(* its room since before it was sent, whether its sender still is or not.    *)
RelayedWereHeard ==
  \A s, t \in Sockets : \A n \in relayed[s] :
    LET since == joined[t][sent[n].room] IN
    s # t /\ since # None /\ since < n => n \in Range(heard[t])

(* The inductive strengthening of both: signals know only earlier ones; only *)
(* sent signals are heard; and nobody has heard or knows of a signal before  *)
(* its handler relays it.                                                    *)
KnownIsEarlier == \A n \in DOMAIN sent : \A k \in sent[n].known : k < n

OnlySentIsKnown == \A s \in Sockets : Known(s) \subseteq DOMAIN sent

InFlightIsUnknown ==
  \A r \in Requests : call[r] # None =>
    LET n == call[r].signal IN
    /\ n \in DOMAIN sent
    /\ call[r].room = sent[n].room
    /\ \A k \in DOMAIN sent : n \notin sent[k].known
    /\ \A s \in Sockets : n \notin Known(s)
    /\ \A q \in Requests \ {r} : call[q] # None => call[q].signal # n

CallInductive ==
  /\ CausalOrder
  /\ RelayedWereHeard
  /\ KnownIsEarlier
  /\ OnlySentIsKnown
  /\ InFlightIsUnknown

(* Every signal is answered, relayed or not, unless its client is gone.      *)
EverySignalIsAnswered ==
  \A s \in Sockets, n \in Signals : n \in awaited[s] ~> n \notin awaited[s]
=============================================================================
