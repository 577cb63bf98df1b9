---------------------------- MODULE SlidingWindow ----------------------------
(***************************************************************************)
(* What vk::RingBuffer promises: the values pushed last, up to a number,   *)
(* in the order they were pushed.                                          *)
(***************************************************************************)
EXTENDS Naturals, Sequences

CONSTANTS
  Values, \* the values that are pushed
  Size    \* how many are kept

VARIABLE window

Init == window = <<>>

Push(v) ==
  window' = IF Len(window) < Size THEN Append(window, v) ELSE Append(Tail(window), v)

Next == \E v \in Values : Push(v)

Spec == Init /\ [][Next]_window
=============================================================================
