----------------------------- MODULE NodeFetch -----------------------------
(***************************************************************************)
(* One call of fetchInventoryFromProxmox against a cluster that goes on    *)
(* changing: one goroutine per node lists the node's VMs, asks for the     *)
(* addresses of each running one, does the same for its containers, and    *)
(* appends what it found to the shared inventory under a mutex; the caller *)
(* waits for all of them and fails if any failed.                          *)
(***************************************************************************)
EXTENDS Naturals

CONSTANTS
  Nodes, Guests, Addrs,
  VMs,          \* the guests that are QEMU VMs; the others are containers
  Static,       \* the guests whose configuration gives their address
  MaxEvents,    \* bound on the changes of the cluster during the fetch
  Nobody, NoGuest

ASSUME SetsAssumption == VMs \subseteq Guests /\ Static \subseteq Guests
ASSUME EventsAssumption == MaxEvents \in Nat
ASSUME NobodyAssumption == Nobody \notin Nodes /\ NoGuest \notin Guests

VARIABLES
  \* The cluster.
  home,         \* node each guest's configuration is on
  on,           \* guests that are running
  ip,           \* address each guest has, or would have when started
  events,       \* changes so far
  was,          \* each guest's states since the fetch began
  \* The fetch.
  main,         \* "nodes", "wait", "ok" or "error"
  pc,           \* each node's goroutine: "vms", "lxcs" (about to list),
                \* "addrs", "interfaces", "lock", "append", "done", "failed"
  vmsDone,      \* nodes whose VMs have all been asked for
  todo,         \* each node's guests listed as running and not asked for yet
  cur,          \* the guest whose interfaces are being asked for
  got,          \* each node's own inventory
  mu,           \* holder of the mutex
  base,         \* the shared inventory as the holder read it
  resources     \* the shared inventory

cluster == <<home, on, ip, events, was>>
local == <<vmsDone, todo, cur, got>>
shared == <<mu, base, resources>>
vars == <<home, on, ip, events, was, main, pc, vmsDone, todo, cur, got,
          mu, base, resources>>

Item == [guest : Guests, node : Nodes, addr : Addrs]
State == [node : Nodes, addr : Addrs, on : BOOLEAN]

StateOf(g) == [node |-> home[g], addr |-> ip[g], on |-> g \in on]

TypeOK ==
  /\ home \in [Guests -> Nodes]
  /\ on \subseteq Guests
  /\ ip \in [Guests -> Addrs]
  /\ events \in 0..MaxEvents
  /\ was \in [Guests -> SUBSET State]
  /\ main \in {"nodes", "wait", "ok", "error"}
  /\ pc \in [Nodes -> {"vms", "lxcs", "addrs", "interfaces", "lock",
                       "append", "done", "failed"}]
  /\ vmsDone \subseteq Nodes
  /\ todo \in [Nodes -> SUBSET Guests]
  /\ cur \in [Nodes -> Guests \cup {NoGuest}]
  /\ got \in [Nodes -> SUBSET Item]
  /\ mu \in Nodes \cup {Nobody}
  /\ base \in SUBSET Item
  /\ resources \in SUBSET Item

Init ==
  /\ home \in [Guests -> Nodes]
  /\ on \in SUBSET Guests
  /\ ip \in [Guests -> Addrs]
  /\ events = 0 /\ was = [g \in Guests |-> {StateOf(g)}]
  /\ main = "nodes"
  /\ pc = [n \in Nodes |-> "vms"]
  /\ vmsDone = {}
  /\ todo = [n \in Nodes |-> {}]
  /\ cur = [n \in Nodes |-> NoGuest]
  /\ got = [n \in Nodes |-> {}]
  /\ mu = Nobody /\ base = {} /\ resources = {}
-----------------------------------------------------------------------------
(***************************************************************************)
(* The cluster changes.                                                    *)
(***************************************************************************)
Event(g) ==
  /\ events < MaxEvents
  /\ events' = events + 1
  /\ was' = [was EXCEPT ![g] = @ \cup {StateOf(g)'}]
  /\ UNCHANGED <<main, pc, local, shared>>

\* Live, or while the guest is stopped.
Migrate(g) ==
  /\ \E n \in Nodes \ {home[g]} : home' = [home EXCEPT ![g] = n]
  /\ UNCHANGED <<on, ip>>
  /\ Event(g)

StartOrStop(g) ==
  /\ on' = IF g \in on THEN on \ {g} ELSE on \cup {g}
  /\ UNCHANGED <<home, ip>>
  /\ Event(g)

Readdress(g) ==
  /\ \E a \in Addrs \ {ip[g]} : ip' = [ip EXCEPT ![g] = a]
  /\ UNCHANGED <<home, on>>
  /\ Event(g)
-----------------------------------------------------------------------------
(***************************************************************************)
(* fetchInventoryFromNode, one API call per step.                          *)
(***************************************************************************)
Goto(n, place) == pc' = [pc EXCEPT ![n] = place]

GetNodes ==
  /\ main = "nodes"
  /\ main' = "wait"
  /\ UNCHANGED <<cluster, pc, local, shared>>

GetNodesFails ==
  /\ main = "nodes"
  /\ main' = "error"
  /\ UNCHANGED <<cluster, pc, local, shared>>

\* Mutant: guests that are not running are not skipped.
AnyStatus(n, kind) == {g \in kind : home[g] = n}

\* What the list of a node's guests names as running.
Running(n, kind) == {g \in kind : home[g] = n /\ g \in on}

GetQEMUVMs(n) ==
  /\ main = "wait" /\ pc[n] = "vms"
  /\ todo' = [todo EXCEPT ![n] = Running(n, VMs)]
  /\ Goto(n, "addrs")
  /\ UNCHANGED <<cluster, main, vmsDone, cur, got, shared>>

\* Mutant: the second list names the VMs again.
ListsAgain(n) ==
  /\ pc[n] = "lxcs"
  /\ todo' = [todo EXCEPT ![n] = Running(n, Guests)]
  /\ Goto(n, "addrs")
  /\ UNCHANGED <<cluster, main, vmsDone, cur, got, shared>>

GetLXCs(n) ==
  /\ pc[n] = "lxcs"
  /\ todo' = [todo EXCEPT ![n] = Running(n, Guests \ VMs)]
  /\ Goto(n, "addrs")
  /\ UNCHANGED <<cluster, main, vmsDone, cur, got, shared>>

Found(n, g) ==
  got' = [got EXCEPT ![n] = @ \cup {[guest |-> g, node |-> n, addr |-> ip[g]]}]

\* The configuration is on the node the guest is on, running or not, and
\* gives a static address or leaves it to the guest's interfaces.
GetConfig(n) ==
  /\ pc[n] = "addrs"
  /\ \E g \in todo[n] :
       /\ home[g] = n
       /\ todo' = [todo EXCEPT ![n] = @ \ {g}]
       /\ IF g \in Static
          THEN Found(n, g) /\ UNCHANGED <<pc, cur>>
          ELSE /\ cur' = [cur EXCEPT ![n] = g]
               /\ Goto(n, "interfaces")
               /\ UNCHANGED got
  /\ UNCHANGED <<cluster, main, vmsDone, shared>>

\* Only a running guest on this node can be asked for its interfaces.
GetInterfaces(n) ==
  /\ pc[n] = "interfaces"
  /\ home[cur[n]] = n /\ cur[n] \in on
  /\ Found(n, cur[n])
  /\ cur' = [cur EXCEPT ![n] = NoGuest]
  /\ Goto(n, "addrs")
  /\ UNCHANGED <<cluster, main, vmsDone, todo, shared>>

\* The first error ends the node's goroutine.
OnError == "failed"

\* Mutant: a guest that does not answer is left out.
SkipGuest(n) ==
  /\ main = "wait" /\ pc[n] = "interfaces"
  /\ cur' = [cur EXCEPT ![n] = NoGuest]
  /\ Goto(n, "addrs")
  /\ UNCHANGED <<cluster, main, vmsDone, todo, got, shared>>

\* Any call may fail: the node is off, the guest has gone, no agent answers.
CallFails(n) ==
  /\ main = "wait"
  /\ \/ pc[n] \in {"vms", "lxcs", "interfaces"}
     \/ pc[n] = "addrs" /\ todo[n] # {}
  /\ Goto(n, OnError)
  /\ UNCHANGED <<cluster, main, local, shared>>

AllAsked(n) ==
  /\ pc[n] = "addrs" /\ todo[n] = {}
  /\ IF n \in vmsDone
     THEN Goto(n, "lock") /\ UNCHANGED vmsDone
     ELSE Goto(n, "lxcs") /\ vmsDone' = vmsDone \cup {n}
  /\ UNCHANGED <<cluster, main, todo, cur, got, shared>>

\* Mutant: the inventory is appended to without the mutex.
NoMutex(n) ==
  /\ pc[n] = "lock"
  /\ base' = resources
  /\ Goto(n, "append")
  /\ UNCHANGED <<cluster, main, local, mu, resources>>

\* mu.Lock(), and append reads the shared slice.
Lock(n) ==
  /\ pc[n] = "lock" /\ mu = Nobody
  /\ mu' = n
  /\ base' = resources
  /\ Goto(n, "append")
  /\ UNCHANGED <<cluster, main, local, resources>>

\* Mutant: the mutex is not unlocked.
KeepMutex(n) ==
  /\ pc[n] = "append"
  /\ resources' = base \cup got[n]
  /\ Goto(n, "done")
  /\ UNCHANGED <<cluster, main, local, mu, base>>

\* The longer slice is stored, and the deferred mu.Unlock().
Append(n) ==
  /\ pc[n] = "append"
  /\ resources' = base \cup got[n]
  /\ mu' = Nobody
  /\ Goto(n, "done")
  /\ UNCHANGED <<cluster, main, local, base>>

Ended == {n \in Nodes : pc[n] \in {"done", "failed"}}

\* g.Wait() returns when every goroutine has, with the first error if any.
Wait ==
  /\ main = "wait" /\ Ended = Nodes
  /\ main' = IF \E n \in Nodes : pc[n] = "failed" THEN "error" ELSE "ok"
  /\ UNCHANGED <<cluster, pc, local, shared>>
-----------------------------------------------------------------------------
NodeStep(n) ==
  \/ GetQEMUVMs(n) \/ GetLXCs(n) \/ GetConfig(n) \/ GetInterfaces(n)
  \/ CallFails(n) \/ AllAsked(n) \/ Lock(n) \/ Append(n)

FetchStep == GetNodes \/ GetNodesFails \/ Wait

ClusterStep == \E g \in Guests : Migrate(g) \/ StartOrStop(g) \/ Readdress(g)

Next == ClusterStep \/ FetchStep \/ \E n \in Nodes : NodeStep(n)

Spec == Init /\ [][Next]_vars

\* Every request ends, with an answer or an error, and goroutines run.
Fairness == WF_vars(FetchStep) /\ \A n \in Nodes : WF_vars(NodeStep(n))

FairSpec == Spec /\ Fairness
-----------------------------------------------------------------------------
(***************************************************************************)
(* Safety.                                                                 *)
(***************************************************************************)

\* The inventory is complete or there is none: it is returned only when every
\* node delivered, and holds what all of them delivered whatever the order in
\* which they got to append.
AllOrNothing ==
  main = "ok" =>
    /\ \A n \in Nodes : pc[n] = "done"
    /\ resources = UNION {got[n] : n \in Nodes}

Settled == {g \in Guests : was[g] = {StateOf(g)}}

\* A guest that nothing happens to during the fetch is in the inventory if it
\* runs, once, with its node and address, and is not if it does not run,
\* whatever happens to the other guests meanwhile.
SettledGuestsExact ==
  main = "ok" =>
    \A g \in Settled :
      {i \in resources : i.guest = g} =
        IF g \in on THEN {[guest |-> g, node |-> home[g], addr |-> ip[g]]}
        ELSE {}

\* The fetch is regular (module RegularFetch) although every call sees the
\* cluster at another moment: an item is a state its guest had on that node
\* (inventory.go:356-378, 388-405), a guest that runs on one node all the time
\* is not missed wherever the others go, no node has a guest twice, and nothing
\* is returned before all nodes are done (inventory.go:331-334).
Regular == INSTANCE RegularFetch WITH
  States <- State,
  now <- [g \in Guests |-> StateOf(g)],
  outcome <- CASE main = "ok" -> "items" [] main = "error" -> "error"
               [] OTHER -> "none",
  items <- IF main = "ok" THEN resources ELSE {}

IsRegular == Regular!Spec
-----------------------------------------------------------------------------
(***************************************************************************)
(* Liveness: a fetch returns, one way or the other.                        *)
(***************************************************************************)
Returns == <>(main \in {"ok", "error"})
=============================================================================
