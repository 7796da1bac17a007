------------------------------ MODULE Gateway ------------------------------
(***************************************************************************)
(* What the two halves of ChatGateway have in common: the live chat (Chat) *)
(* and the setting up of calls (Calls) serve the same sockets and rooms.   *)
(* They write no state of each other's, and their names are kept apart, so *)
(* that ChatProofs extends both.                                           *)
(***************************************************************************)

CONSTANTS
  Sockets,
  Rooms,
  Requests,  \* how many handlers of each half may be at work at once: a bound
  None
=============================================================================
