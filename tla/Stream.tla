------------------------------- MODULE Stream -------------------------------
(***************************************************************************)
(* What a channel between two tasks promises, wherever its ends are        *)
(* placed: items come out in the order in which they went in, none is lost *)
(* and none is made up, and each of them comes out if the receiver keeps   *)
(* taking items.  Items are numbered modulo Tags.                          *)
(***************************************************************************)
EXTENDS Naturals, Sequences

CONSTANT Tags

VARIABLES queue,    \* items sent and not yet received
          next,     \* the item that is sent next
          got       \* the item that was received last

stream == <<queue, next, got>>

Init == queue = <<>> /\ next = 0 /\ got = 0

Transfer(send, receive) ==
  /\ next' = IF send THEN (next + 1) % Tags ELSE next
  /\ receive => queue # <<>>
  /\ queue' = (IF receive THEN Tail(queue) ELSE queue)
                \o (IF send THEN <<next>> ELSE <<>>)
  /\ got' = IF receive THEN Head(queue) ELSE got

Next == \E send, receive \in BOOLEAN : Transfer(send, receive)

Receive == \E send \in BOOLEAN : Transfer(send, TRUE)

Spec == Init /\ [][Next]_stream

\* The receiver takes the items that are there.
Arrival == WF_stream(Receive)
=============================================================================
