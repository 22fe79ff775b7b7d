----------------------------- MODULE MCRunGroup -----------------------------
(* The actors main() adds, for TLC. *)
EXTENDS RunGroup

\* Every flag set: UDP, TCP and the debug server.
AllOrder == <<"auth", "udp", "tcp", "update", "debug", "signal">>
\* UDP only, without a debug server.
SmallOrder == <<"auth", "udp", "update", "signal">>

Jobs == {"auth", "update"}
=============================================================================
