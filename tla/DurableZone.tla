---------------------------- MODULE DurableZone ----------------------------
(***************************************************************************)
(* The promise of proxmox-service-discovery with a cache path to the       *)
(* clients of the DNS zone, over all the processes run one after another:  *)
(* the zone offered is always a version of the cluster that was made       *)
(* durable before it was offered, and durable versions only get newer, so  *)
(* neither an update nor a restart takes the zone back in time.            *)
(***************************************************************************)
EXTENDS Naturals

CONSTANTS
  MaxWorld,   \* bound on the changes of the cluster
  None        \* no version

VARIABLES
  world,      \* version the cluster is at
  durable,    \* version the next process could start from
  zone        \* version offered to clients, None while nothing is served

zoneVars == <<world, durable, zone>>

Init ==
  /\ world = 0
  /\ durable \in {None, 0}
  /\ zone = None

\* The cluster changes.
Advance ==
  /\ world < MaxWorld
  /\ world' = world + 1
  /\ UNCHANGED <<durable, zone>>

\* A version seen since the last one stored is made durable.
Store ==
  /\ durable' \in 0..world
  /\ durable # None => durable <= durable'
  /\ UNCHANGED <<world, zone>>

\* Clients are offered the durable version, and no other.
Serve ==
  /\ durable # None
  /\ zone' = durable
  /\ UNCHANGED <<world, durable>>

\* The process ends.
Withdraw ==
  /\ zone' = None
  /\ UNCHANGED <<world, durable>>

Next == Advance \/ Store \/ Serve \/ Withdraw

Spec == Init /\ [][Next]_zoneVars
=============================================================================
