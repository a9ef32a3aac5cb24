---------------------------- MODULE LossyChannel ----------------------------
(***************************************************************************)
(* What the MQTT to OPC UA bridge promises between the MQTT client and the *)
(* OPC UA address space: a channel of bounded capacity that delivers the   *)
(* messages it is offered in the order it was offered them, each at most   *)
(* once.  A message may be lost at the entry, at the exit, or together     *)
(* with its neighbours in between; none is repeated and none overtakes     *)
(* another.                                                                *)
(***************************************************************************)
EXTENDS Naturals, Sequences

CONSTANTS Message, Capacity

VARIABLES inFlight, delivered

vars == <<inFlight, delivered>>

Init == inFlight = << >> /\ delivered = << >>

Offer(m) == /\ Len(inFlight) < Capacity
            /\ inFlight' = Append(inFlight, m)
            /\ UNCHANGED delivered

\* The messages from the i-th to the j-th are lost.
Lose(i, j) == /\ inFlight' = SubSeq(inFlight, 1, i - 1)
                               \o SubSeq(inFlight, j + 1, Len(inFlight))
              /\ UNCHANGED delivered

Deliver == /\ inFlight # << >>
           /\ delivered' = Append(delivered, Head(inFlight))
           /\ inFlight' = Tail(inFlight)

Next == \/ \E m \in Message : Offer(m)
        \/ \E j \in 1..Len(inFlight) : \E i \in 1..j : Lose(i, j)
        \/ Deliver

Spec == Init /\ [][Next]_vars
=============================================================================
