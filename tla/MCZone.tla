------------------------------- MODULE MCZone -------------------------------
(* Small zones for TLC. *)
EXTENDS Zone

Guest(n, addrs) == [name |-> n, addrs |-> addrs]

\* Two guests of the same name; a guest without address; one the other of
\* which has two addresses; nothing at all.
SomeInventories ==
  {<<>>,
   <<Guest("x", {"4a"}), Guest("x", {"4b", "6a"})>>,
   <<Guest("y", {}), Guest("x", {"4a"}), Guest("y", {"6a"})>>}

\* One that a guest has the name of, alone and followed by another one.
SomeExtras ==
  {<<Guest("x", {"6a"})>>, <<Guest("x", {"6a"}), Guest("y", {"4b"})>>}

\* Of the DNS messages main() hands none to its handlers that has not exactly
\* one question: the servers keep miekg/dns's default MsgAcceptFunc.
SomeRequests == {{q} : q \in Question}
=============================================================================
