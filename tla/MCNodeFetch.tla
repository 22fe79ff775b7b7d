---------------------------- MODULE MCNodeFetch ----------------------------
(* A cluster of two nodes, for TLC. *)
EXTENDS NodeFetch

\* A VM asked for its address through its agent, and a container whose
\* configuration gives it.
TwoGuests == {"vm", "ct"}
OneVM == {"vm"}
OneContainer == {"ct"}
=============================================================================
