--------------------------- MODULE ExclusiveTurn ---------------------------
(***************************************************************************)
(* What the broker promises its clients: one slot for a turn.  A client    *)
(* asks for the slot when it is free; its turn starts or is refused; the    *)
(* slot passes to another client only through being free, and becomes free *)
(* only when the holder's turn was refused or is over.  The holder may ask  *)
(* for its next turn as soon as the last one is over.                      *)
(***************************************************************************)
CONSTANTS Sockets, NoSocket

VARIABLES holder,  \* the client that has the slot
          phase    \* "free", "asked", "running" or "over"

turnVars == <<holder, phase>>

Init == holder = NoSocket /\ phase = "free"

Ask(s) ==
  /\ phase = "free"
  /\ holder' = s /\ phase' = "asked"

Again ==
  /\ phase = "over"
  /\ phase' = "asked" /\ UNCHANGED holder

Start == phase = "asked" /\ phase' = "running" /\ UNCHANGED holder

\* The turn is over; its holder has yet to be told, or to be answered.
Over == phase = "running" /\ phase' = "over" /\ UNCHANGED holder

Free ==
  /\ phase \in {"asked", "over"}
  /\ holder' = NoSocket /\ phase' = "free"

Next == (\E s \in Sockets : Ask(s)) \/ Again \/ Start \/ Over \/ Free

Spec == Init /\ [][Next]_turnVars
============================================================================
