---------------------------- MODULE MCTicketAuth ----------------------------
(* Two requests at a time, and a login more than can be referred to. *)
EXTENDS TicketAuth, TLC

CONSTANTS r1, r2, l1, l2, l3, l4

TwoRequests == {r1, r2}
FourLogins == {l1, l2, l3, l4}
=============================================================================
