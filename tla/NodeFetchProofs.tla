-------------------------- MODULE NodeFetchProofs --------------------------
(***************************************************************************)
(* Theorems about NodeFetch for any nodes, guests and number of changes.   *)
(***************************************************************************)
EXTENDS NodeFetch, TLAPS

(***************************************************************************)
(* The inductive invariant.  Mutex: who appends holds the mutex and knows  *)
(* the shared inventory as it is.  Collected: the shared inventory is what *)
(* the nodes that are done have got.  Known: what a node's goroutine has   *)
(* of a guest was true since the fetch began.  Once: it has every guest at *)
(* one place only.  Present: where a guest that stays on the node is on    *)
(* its way into the inventory.                                             *)
(***************************************************************************)
Mutex ==
  /\ \A n \in Nodes : pc[n] = "append" <=> mu = n
  /\ mu # Nobody => base = resources

Collected ==
  /\ resources = UNION {got[n] : n \in {m \in Nodes : pc[m] = "done"}}
  /\ main = "ok" => \A n \in Nodes : pc[n] = "done"

History == \A g \in Guests : StateOf(g) \in was[g]

\* The list that names g has yet to be asked for.
Unlisted(g, n) ==
  \/ pc[n] = "vms"
  \/ g \notin VMs /\ (n \notin vmsDone \/ pc[n] = "lxcs")

RanOn(g, n) == \E s \in was[g] : s.node = n /\ s.on

KnownAt(n) ==
  /\ \A g \in Guests :
       g \in todo[n] \/ cur[n] = g => RanOn(g, n) /\ ~Unlisted(g, n)
  /\ \A i \in got[n] :
       i.node = n /\ Regular!Witnessed(i) /\ ~Unlisted(i.guest, n)

Known == \A n \in Nodes : KnownAt(n)

Once ==
  \A n \in Nodes :
    /\ cur[n] \notin todo[n]
    /\ \A i \in got[n] : i.guest \notin todo[n] /\ i.guest # cur[n]
    /\ \A i, j \in got[n] : i.guest = j.guest => i = j

PresentAt(n) ==
  \A g \in Guests :
    Regular!Stayed(g, n) =>
      \/ Unlisted(g, n) \/ g \in todo[n] \/ cur[n] = g \/ pc[n] = "failed"
      \/ \E i \in got[n] : i.guest = g

Present == \A n \in Nodes : PresentAt(n)

Steps ==
  \A n \in Nodes :
    /\ cur[n] # NoGuest => pc[n] \in {"interfaces", "failed"}
    /\ pc[n] = "interfaces" => cur[n] \in Guests
    /\ pc[n] \in {"lock", "append", "done"} => todo[n] = {} /\ n \in vmsDone
    /\ pc[n] = "lxcs" => todo[n] = {} /\ n \in vmsDone
    /\ pc[n] = "vms" => n \notin vmsDone

IInv ==
  /\ TypeOK /\ Mutex /\ Collected /\ Steps
  /\ History /\ Known /\ Once /\ Present

-----------------------------------------------------------------------------
LEMMA InitInv == Init => IInv
<1> SUFFICES ASSUME Init PROVE IInv
  OBVIOUS
<1>1. TypeOK /\ History
  <2>1. \A g \in Guests : StateOf(g) \in State
    BY DEF Init, StateOf, State
  <2> QED
    BY <2>1, EventsAssumption DEF Init, TypeOK, History
<1>2. Mutex /\ Collected /\ Steps
  BY NobodyAssumption DEF Init, Mutex, Collected, Steps
<1>3. Known /\ Once /\ Present
  BY NobodyAssumption DEF Init, Known, KnownAt, Once, Present, PresentAt,
                           Unlisted
<1> QED
  BY <1>1, <1>2, <1>3 DEF IInv

-----------------------------------------------------------------------------
(***************************************************************************)
(* Type correctness.                                                       *)
(***************************************************************************)
LEMMA FoundType ==
  ASSUME TypeOK, NEW n \in Nodes, NEW g \in Guests, Found(n, g)
  PROVE  got' \in [Nodes -> SUBSET Item]
BY DEF TypeOK, Found, Item

\* A change of the cluster adds the changed guest's state to what was, and
\* the fetch is as it was.
LEMMA ClusterChange ==
  ASSUME TypeOK, ClusterStep
  PROVE  /\ home' \in [Guests -> Nodes] /\ on' \subseteq Guests
         /\ ip' \in [Guests -> Addrs] /\ events' \in 0..MaxEvents
         /\ was' \in [Guests -> SUBSET State]
         /\ \E g \in Guests :
              /\ was' = [was EXCEPT ![g] = @ \cup {StateOf(g)'}]
              /\ \A h \in Guests \ {g} : StateOf(h)' = StateOf(h)
         /\ UNCHANGED <<main, pc, local, shared>>
<1>1. PICK g \in Guests : Migrate(g) \/ StartOrStop(g) \/ Readdress(g)
  BY DEF ClusterStep
<1>2. /\ home' \in [Guests -> Nodes] /\ on' \subseteq Guests
      /\ ip' \in [Guests -> Addrs]
      /\ \A h \in Guests \ {g} : StateOf(h)' = StateOf(h)
  BY <1>1 DEF Migrate, StartOrStop, Readdress, StateOf, TypeOK
<1>3. Event(g)
  BY <1>1 DEF Migrate, StartOrStop, Readdress
<1>4. StateOf(g)' \in State
  BY <1>2 DEF StateOf, State
<1>5. /\ was' \in [Guests -> SUBSET State]
      /\ was' = [was EXCEPT ![g] = @ \cup {StateOf(g)'}]
  BY <1>3, <1>4 DEF Event, TypeOK
<1>6. events' \in 0..MaxEvents /\ UNCHANGED <<main, pc, local, shared>>
  BY <1>3, EventsAssumption DEF Event, TypeOK
<1> QED
  BY <1>2, <1>5, <1>6 DEF StateOf

LEMMA NextType ==
  ASSUME TypeOK, Steps, [Next]_vars
  PROVE  TypeOK'
<1> USE DEF TypeOK, Goto, cluster, local, shared
<1>1. CASE ClusterStep
  BY <1>1, ClusterChange
<1>2. CASE FetchStep
  BY <1>2 DEF FetchStep, GetNodes, GetNodesFails, Wait
<1>3. ASSUME NEW n \in Nodes, NodeStep(n)
      PROVE  TypeOK'
  <2>1. CASE GetQEMUVMs(n) \/ GetLXCs(n)
    BY <2>1, SetsAssumption DEF GetQEMUVMs, GetLXCs, Running
  <2>2. CASE GetConfig(n)
    <3>1. PICK g \in todo[n] :
            /\ todo' = [todo EXCEPT ![n] = @ \ {g}]
            /\ IF g \in Static
               THEN Found(n, g) /\ UNCHANGED <<pc, cur>>
               ELSE /\ cur' = [cur EXCEPT ![n] = g]
                    /\ Goto(n, "interfaces")
                    /\ UNCHANGED got
      BY <2>2 DEF GetConfig
    <3>2. g \in Guests
      OBVIOUS
    <3>3. got' \in [Nodes -> SUBSET Item]
      BY <3>1, <3>2, FoundType
    <3>4. todo' \in [Nodes -> SUBSET Guests]
      BY <3>1
    <3>5. /\ cur' \in [Nodes -> Guests \cup {NoGuest}]
          /\ pc' \in [Nodes -> {"vms", "lxcs", "addrs", "interfaces", "lock",
                                "append", "done", "failed"}]
      BY <3>1, <3>2
    <3> QED
      BY <2>2, <3>3, <3>4, <3>5 DEF GetConfig
  <2>3. CASE GetInterfaces(n)
    <3>1. cur[n] \in Guests
      BY <2>3 DEF GetInterfaces, Steps
    <3>2. got' \in [Nodes -> SUBSET Item]
      BY <2>3, <3>1, FoundType DEF GetInterfaces
    <3> QED
      BY <2>3, <3>2 DEF GetInterfaces
  <2>4. CASE CallFails(n) \/ AllAsked(n)
    BY <2>4 DEF CallFails, OnError, AllAsked
  <2>5. CASE Lock(n) \/ Append(n)
    BY <2>5 DEF Lock, Append
  <2> QED
    BY <1>3, <2>1, <2>2, <2>3, <2>4, <2>5 DEF NodeStep
<1>4. CASE UNCHANGED vars
  BY <1>4 DEF vars
<1> QED
  BY <1>1, <1>2, <1>3, <1>4 DEF Next

-----------------------------------------------------------------------------
(***************************************************************************)
(* The mutex, and what is collected under it.                              *)
(***************************************************************************)
LEMMA NextMutex ==
  ASSUME TypeOK, Mutex, [Next]_vars
  PROVE  Mutex'
<1> USE DEF TypeOK, Mutex, Goto, cluster, local, shared
<1>1. CASE ClusterStep
  BY <1>1 DEF ClusterStep, Event, Migrate, StartOrStop, Readdress
<1>2. CASE FetchStep
  BY <1>2 DEF FetchStep, GetNodes, GetNodesFails, Wait
<1>3. ASSUME NEW n \in Nodes, NodeStep(n)
      PROVE  Mutex'
  <2>1. CASE GetQEMUVMs(n) \/ GetLXCs(n)
    BY <2>1 DEF GetQEMUVMs, GetLXCs
  <2>2. CASE GetConfig(n)
    BY <2>2 DEF GetConfig
  <2>3. CASE GetInterfaces(n)
    BY <2>3 DEF GetInterfaces
  <2>4. CASE CallFails(n)
    BY <2>4 DEF CallFails, OnError
  <2>5. CASE AllAsked(n)
    BY <2>5 DEF AllAsked
  <2>6. CASE Lock(n)
    BY <2>6, NobodyAssumption DEF Lock
  <2>7. CASE Append(n)
    BY <2>7, NobodyAssumption DEF Append
  <2> QED
    BY <1>3, <2>1, <2>2, <2>3, <2>4, <2>5, <2>6, <2>7 DEF NodeStep
<1>4. CASE UNCHANGED vars
  BY <1>4 DEF vars
<1> QED
  BY <1>1, <1>2, <1>3, <1>4 DEF Next

\* A goroutine that is not done changes only its own inventory.
LEMMA OthersKeep ==
  ASSUME TypeOK, Collected, main # "ok", UNCHANGED <<main, resources>>,
         NEW n \in Nodes, pc[n] # "done", pc'[n] # "done",
         \A m \in Nodes \ {n} : pc'[m] = pc[m] /\ got'[m] = got[m]
  PROVE  Collected'
<1>1. {m \in Nodes : pc'[m] = "done"} = {m \in Nodes : pc[m] = "done"}
  OBVIOUS
<1>2. \A m \in Nodes : pc[m] = "done" => got'[m] = got[m]
  OBVIOUS
<1>3. UNION {got'[m] : m \in {k \in Nodes : pc'[k] = "done"}} =
      UNION {got[m] : m \in {k \in Nodes : pc[k] = "done"}}
  BY <1>1, <1>2
<1> QED
  BY <1>3 DEF Collected

LEMMA NextCollected ==
  ASSUME TypeOK, Mutex, Collected, [Next]_vars
  PROVE  Collected'
<1> USE DEF TypeOK, Goto, cluster, local, shared
<1>1. CASE ClusterStep
  BY <1>1 DEF ClusterStep, Event, Migrate, StartOrStop, Readdress, Collected
<1>2. CASE FetchStep
  <2>1. UNCHANGED <<pc, got, resources>>
    BY <1>2 DEF FetchStep, GetNodes, GetNodesFails, Wait
  <2>2. main' = "ok" => \A n \in Nodes : pc[n] = "done"
    BY <1>2 DEF FetchStep, GetNodes, GetNodesFails, Wait, Ended
  <2> QED
    BY <2>1, <2>2 DEF Collected
<1>3. ASSUME NEW n \in Nodes, NodeStep(n)
      PROVE  Collected'
  <2>1. main # "ok" /\ pc[n] # "done" /\ main' = main
    BY <1>3
    DEF NodeStep, GetQEMUVMs, GetLXCs, GetConfig, GetInterfaces, CallFails,
        AllAsked, Lock, Append, Collected
  <2>2. CASE ~Append(n)
    <3>1. resources' = resources /\ pc'[n] # "done"
      BY <1>3, <2>2
      DEF NodeStep, GetQEMUVMs, GetLXCs, GetConfig, GetInterfaces, CallFails,
          OnError, AllAsked, Lock, Found
    <3>2. \A m \in Nodes \ {n} : pc'[m] = pc[m] /\ got'[m] = got[m]
      BY <1>3, <2>2
      DEF NodeStep, GetQEMUVMs, GetLXCs, GetConfig, GetInterfaces, CallFails,
          OnError, AllAsked, Lock, Found
    <3> QED
      BY <2>1, <3>1, <3>2, OthersKeep
  <2>3. CASE Append(n)
    <3>1. base = resources
      BY <2>3, NobodyAssumption DEF Append, Mutex
    <3>2. resources' = resources \cup got[n] /\ got' = got
      BY <2>3, <3>1 DEF Append
    <3>3. {m \in Nodes : pc'[m] = "done"} =
          {m \in Nodes : pc[m] = "done"} \cup {n}
      BY <2>3 DEF Append
    <3> QED
      BY <2>1, <3>2, <3>3 DEF Collected
  <2> QED
    BY <2>2, <2>3
<1>4. CASE UNCHANGED vars
  BY <1>4 DEF vars, Collected
<1> QED
  BY <1>1, <1>2, <1>3, <1>4 DEF Next

-----------------------------------------------------------------------------
(***************************************************************************)
(* Which steps of a goroutine follow which.                                *)
(***************************************************************************)
LEMMA NextSteps ==
  ASSUME TypeOK, Steps, [Next]_vars
  PROVE  Steps'
<1> USE DEF TypeOK, Steps, Goto, cluster, local, shared
<1>1. CASE ClusterStep
  BY <1>1 DEF ClusterStep, Event, Migrate, StartOrStop, Readdress
<1>2. CASE FetchStep
  BY <1>2 DEF FetchStep, GetNodes, GetNodesFails, Wait
<1>3. ASSUME NEW n \in Nodes, NodeStep(n)
      PROVE  Steps'
  <2>1. CASE GetQEMUVMs(n) \/ GetLXCs(n)
    BY <2>1 DEF GetQEMUVMs, GetLXCs
  <2>2. CASE GetConfig(n)
    <3>1. PICK g \in todo[n] :
            /\ todo' = [todo EXCEPT ![n] = @ \ {g}]
            /\ \/ UNCHANGED <<pc, cur>>
               \/ /\ cur' = [cur EXCEPT ![n] = g]
                  /\ pc' = [pc EXCEPT ![n] = "interfaces"]
      BY <2>2 DEF GetConfig
    <3>2. g \in Guests /\ pc[n] = "addrs" /\ vmsDone' = vmsDone
      BY <2>2 DEF GetConfig
    <3> QED
      BY <3>1, <3>2
  <2>3. CASE GetInterfaces(n)
    BY <2>3 DEF GetInterfaces
  <2>4. CASE CallFails(n)
    BY <2>4 DEF CallFails, OnError
  <2>5. CASE AllAsked(n)
    BY <2>5 DEF AllAsked
  <2>6. CASE Lock(n)
    BY <2>6 DEF Lock
  <2>7. CASE Append(n)
    BY <2>7 DEF Append
  <2> QED
    BY <1>3, <2>1, <2>2, <2>3, <2>4, <2>5, <2>6, <2>7 DEF NodeStep
<1>4. CASE UNCHANGED vars
  BY <1>4 DEF vars
<1> QED
  BY <1>1, <1>2, <1>3, <1>4 DEF Next

-----------------------------------------------------------------------------
(***************************************************************************)
(* The guests' states since the fetch began.                               *)
(***************************************************************************)
LEMMA NextHistory ==
  ASSUME TypeOK, History, [Next]_vars
  PROVE  History'
<1>1. CASE ClusterStep
  <2>1. PICK g \in Guests :
          /\ was' = [was EXCEPT ![g] = @ \cup {StateOf(g)'}]
          /\ \A h \in Guests \ {g} : StateOf(h)' = StateOf(h)
    BY <1>1, ClusterChange
  <2> QED
    BY <2>1 DEF History, TypeOK
<1>2. CASE UNCHANGED cluster
  BY <1>2 DEF cluster, History, StateOf
<1>3. FetchStep \/ (\E n \in Nodes : NodeStep(n)) => UNCHANGED cluster
  BY DEF FetchStep, GetNodes, GetNodesFails, Wait, NodeStep, GetQEMUVMs,
         GetLXCs, GetConfig, GetInterfaces, CallFails, AllAsked, Lock, Append
<1> QED
  BY <1>1, <1>2, <1>3 DEF Next, vars, cluster

\* What a guest was stays on record.
LEMMA Remembered ==
  ASSUME TypeOK, ClusterStep, NEW g \in Guests
  PROVE  was[g] \subseteq was'[g]
<1>1. PICK h \in Guests : was' = [was EXCEPT ![h] = @ \cup {StateOf(h)'}]
  BY ClusterChange
<1> QED
  BY <1>1 DEF TypeOK

-----------------------------------------------------------------------------
(***************************************************************************)
(* Where a guest is on its way into the inventory.                         *)
(***************************************************************************)

\* The goroutine n takes a guest from its list: it has its item or asks for
\* its interfaces.
LEMMA ConfigRead ==
  ASSUME NEW n \in Nodes, TypeOK, GetConfig(n)
  PROVE  \E g \in todo[n] :
           /\ g \in Guests /\ home[g] = n /\ pc[n] = "addrs"
           /\ todo' = [todo EXCEPT ![n] = @ \ {g}]
           /\ \/ g \in Static /\ Found(n, g) /\ UNCHANGED <<pc, cur>>
              \/ /\ cur' = [cur EXCEPT ![n] = g] /\ UNCHANGED got
                 /\ pc' = [pc EXCEPT ![n] = "interfaces"]
           /\ UNCHANGED <<was, vmsDone>>
<1>1. PICK g \in todo[n] :
        /\ home[g] = n
        /\ todo' = [todo EXCEPT ![n] = @ \ {g}]
        /\ IF g \in Static
           THEN Found(n, g) /\ UNCHANGED <<pc, cur>>
           ELSE /\ cur' = [cur EXCEPT ![n] = g]
                /\ Goto(n, "interfaces")
                /\ UNCHANGED got
  BY DEF GetConfig
<1>2. g \in Guests /\ pc[n] = "addrs" /\ UNCHANGED <<was, vmsDone>>
  BY DEF TypeOK, GetConfig, cluster
<1> QED
  BY <1>1, <1>2 DEF Goto

LEMMA NextOnce ==
  ASSUME TypeOK, Steps, Known, Once, [Next]_vars
  PROVE  Once'
<1> USE DEF Goto, local, shared
<1>1. CASE ClusterStep
  BY <1>1, ClusterChange DEF Once
<1>2. CASE FetchStep
  BY <1>2 DEF FetchStep, GetNodes, GetNodesFails, Wait, Once
<1>3. ASSUME NEW n \in Nodes, NodeStep(n)
      PROVE  Once'
  <2>1. CASE GetQEMUVMs(n)
    <3>1. got[n] = {} /\ cur[n] = NoGuest
      BY <2>1 DEF GetQEMUVMs, Known, KnownAt, Unlisted, Steps, TypeOK
    <3>2. /\ todo' \in [Nodes -> SUBSET Guests]
          /\ \A m \in Nodes \ {n} : todo'[m] = todo[m]
      BY <2>1, SetsAssumption DEF GetQEMUVMs, Running, TypeOK
    <3>3. UNCHANGED <<cur, got>>
      BY <2>1 DEF GetQEMUVMs
    <3> QED
      BY <3>1, <3>2, <3>3, NobodyAssumption DEF Once
  <2>2. CASE GetLXCs(n)
    <3>1. cur[n] = NoGuest /\ \A i \in got[n] : i.guest \in VMs
      BY <2>2 DEF GetLXCs, Known, KnownAt, Unlisted, Steps, TypeOK
    <3>2. /\ todo'[n] \subseteq Guests \ VMs
          /\ \A m \in Nodes \ {n} : todo'[m] = todo[m]
      BY <2>2 DEF GetLXCs, Running, TypeOK
    <3>3. UNCHANGED <<cur, got>>
      BY <2>2 DEF GetLXCs
    <3> QED
      BY <3>1, <3>2, <3>3, NobodyAssumption DEF Once
  <2>3. CASE GetConfig(n)
    <3>1. PICK g \in todo[n] :
            /\ g \in Guests
            /\ todo' = [todo EXCEPT ![n] = @ \ {g}]
            /\ \/ Found(n, g) /\ UNCHANGED cur
               \/ cur' = [cur EXCEPT ![n] = g] /\ UNCHANGED got
      BY <2>3, ConfigRead
    <3> QED
      BY <3>1 DEF Found, TypeOK, Once
  <2>4. CASE GetInterfaces(n)
    <3>1. /\ cur[n] \in Guests /\ UNCHANGED todo
          /\ todo[n] \subseteq Guests /\ \A i \in got[n] : i.guest \in Guests
      BY <2>4 DEF GetInterfaces, Steps, TypeOK, Item
    <3>2. /\ got'[n] = got[n] \cup {[guest |-> cur[n], node |-> n,
                                    addr |-> ip[cur[n]]]}
          /\ cur'[n] = NoGuest
          /\ \A m \in Nodes \ {n} : got'[m] = got[m] /\ cur'[m] = cur[m]
      BY <2>4 DEF GetInterfaces, Found, TypeOK
    <3>3. cur'[n] \notin todo'[n] /\ \A i \in got'[n] :
            i.guest \notin todo'[n] /\ i.guest # cur'[n]
      BY <3>1, <3>2, NobodyAssumption DEF Once
    <3>4. \A i, j \in got'[n] : i.guest = j.guest => i = j
      BY <3>1, <3>2 DEF Once
    <3> QED
      BY <3>1, <3>2, <3>3, <3>4 DEF Once
  <2>5. CASE CallFails(n) \/ AllAsked(n) \/ Lock(n) \/ Append(n)
    BY <2>5 DEF CallFails, AllAsked, Lock, Append, Once
  <2> QED
    BY <1>3, <2>1, <2>2, <2>3, <2>4, <2>5 DEF NodeStep
<1>4. CASE UNCHANGED vars
  BY <1>4 DEF vars, Once
<1> QED
  BY <1>1, <1>2, <1>3, <1>4 DEF Next

-----------------------------------------------------------------------------
(***************************************************************************)
(* What is known of a guest was true since the fetch began.                *)
(***************************************************************************)

\* The item of a guest that is on the node, listed before as running there.
LEMMA FoundWitnessed ==
  ASSUME TypeOK, History, NEW n \in Nodes, NEW g \in Guests,
         home[g] = n, RanOn(g, n), g \in Static \/ g \in on,
         NEW i, i = [guest |-> g, node |-> n, addr |-> ip[g]]
  PROVE  Regular!Witnessed(i)
<1>1. /\ StateOf(g) \in was[g] /\ StateOf(g).node = n
      /\ StateOf(g).addr = ip[g]
      /\ StateOf(g).on <=> g \in on
  BY DEF History, StateOf
<1>2. i.guest = g /\ i.node = n /\ i.addr = ip[g]
  OBVIOUS
<1>3. CASE g \in on
  BY <1>1, <1>2, <1>3 DEF Regular!Witnessed
<1>4. CASE g \in Static
  <2>1. PICK s \in was[g] : s.node = n /\ s.on
    BY DEF RanOn
  <2>2. PICK t \in was[g] : t.node = n /\ t.addr = ip[g]
    BY <1>1
  <2> QED
    BY <1>2, <1>4, <2>1, <2>2 DEF Regular!Witnessed
<1> QED
  BY <1>3, <1>4

\* A goroutine changes nothing of the cluster or of another one.
LEMMA OnlyItsOwn ==
  ASSUME TypeOK, NEW n \in Nodes, NodeStep(n)
  PROVE  /\ UNCHANGED <<home, on, ip, was, main>>
         /\ \A m \in Nodes \ {n} :
              /\ pc'[m] = pc[m] /\ todo'[m] = todo[m] /\ cur'[m] = cur[m]
              /\ got'[m] = got[m]
              /\ m \in vmsDone' <=> m \in vmsDone
<1> USE DEF TypeOK, Goto, cluster, local, shared
<1>1. CASE GetQEMUVMs(n) \/ GetLXCs(n) \/ CallFails(n)
  BY <1>1 DEF GetQEMUVMs, GetLXCs, CallFails
<1>2. CASE GetConfig(n) \/ GetInterfaces(n)
  BY <1>2 DEF GetConfig, GetInterfaces, Found
<1>3. CASE AllAsked(n) \/ Lock(n) \/ Append(n)
  BY <1>3 DEF AllAsked, Lock, Append
<1> QED
  BY <1>1, <1>2, <1>3 DEF NodeStep

LEMMA NextKnownAt ==
  ASSUME TypeOK, Steps, History, Known, NEW n \in Nodes, NodeStep(n)
  PROVE  KnownAt(n)'
<1> USE DEF TypeOK, Goto
<1>0. /\ KnownAt(n) /\ UNCHANGED was
      /\ \A g : RanOn(g, n)' = RanOn(g, n)
      /\ \A i : Regular!Witnessed(i)' = Regular!Witnessed(i)
  BY OnlyItsOwn DEF Known, RanOn, Regular!Witnessed
<1>1. CASE GetQEMUVMs(n) \/ GetLXCs(n)
  <2>1. ASSUME NEW g \in Guests, g \in todo'[n]
        PROVE  RanOn(g, n) /\ ~Unlisted(g, n)'
    <3>1. home[g] = n /\ g \in on
      BY <1>1, <2>1 DEF GetQEMUVMs, GetLXCs, Running
    <3>2. ~Unlisted(g, n)'
      BY <1>1, <2>1 DEF GetQEMUVMs, GetLXCs, Running, Unlisted, Steps
    <3> QED
      BY <3>1, <3>2 DEF History, StateOf, RanOn
  <2>2. UNCHANGED <<cur, got, vmsDone>> /\ pc'[n] = "addrs"
    BY <1>1 DEF GetQEMUVMs, GetLXCs
  <2> QED
    BY <1>0, <2>1, <2>2 DEF KnownAt, Unlisted
<1>2. CASE GetConfig(n)
  <2>1. PICK g \in todo[n] :
          /\ g \in Guests /\ home[g] = n /\ pc[n] = "addrs"
          /\ todo' = [todo EXCEPT ![n] = @ \ {g}]
          /\ \/ g \in Static /\ Found(n, g) /\ UNCHANGED <<pc, cur>>
             \/ /\ cur' = [cur EXCEPT ![n] = g] /\ UNCHANGED got
                /\ pc' = [pc EXCEPT ![n] = "interfaces"]
          /\ UNCHANGED vmsDone
    BY <1>2, ConfigRead
  <2>2. RanOn(g, n) /\ ~Unlisted(g, n)
    BY <1>0, <2>1 DEF KnownAt
  <2>3. \A h : Unlisted(h, n)' => Unlisted(h, n)
    BY <2>1 DEF Unlisted
  <2>4. ASSUME NEW i \in got'[n], i \notin got[n]
        PROVE  /\ i.node = n /\ Regular!Witnessed(i)
               /\ ~Unlisted(i.guest, n)
    <3>1. g \in Static /\ i = [guest |-> g, node |-> n, addr |-> ip[g]]
      BY <2>1, <2>4 DEF Found
    <3> QED
      BY <2>1, <2>2, <3>1, FoundWitnessed
  <2>5. \A h \in Guests :
          h \in todo'[n] \/ cur'[n] = h => h \in todo[n] \/ cur[n] = h
    BY <2>1
  <2> QED
    BY <1>0, <2>3, <2>4, <2>5 DEF KnownAt
<1>3. CASE GetInterfaces(n)
  <2>1. /\ cur[n] \in Guests /\ home[cur[n]] = n /\ cur[n] \in on
        /\ Found(n, cur[n])
    BY <1>3 DEF GetInterfaces, Steps
  <2>2. RanOn(cur[n], n) /\ ~Unlisted(cur[n], n)
    BY <1>0, <2>1 DEF KnownAt
  <2>3. /\ \A h : Unlisted(h, n)' => Unlisted(h, n)
        /\ todo'[n] = todo[n] /\ cur'[n] \notin Guests
    BY <1>3, NobodyAssumption DEF GetInterfaces, Unlisted
  <2>4. ASSUME NEW i \in got'[n], i \notin got[n]
        PROVE  /\ i.node = n /\ Regular!Witnessed(i)
               /\ ~Unlisted(i.guest, n)
    <3>1. i = [guest |-> cur[n], node |-> n, addr |-> ip[cur[n]]]
      BY <2>1, <2>4 DEF Found
    <3> QED
      BY <2>1, <2>2, <3>1, FoundWitnessed
  <2> QED
    BY <1>0, <2>3, <2>4 DEF KnownAt
<1>4. CASE CallFails(n) \/ AllAsked(n) \/ Lock(n) \/ Append(n)
  <2>1. UNCHANGED <<todo, cur, got>>
    BY <1>4 DEF CallFails, AllAsked, Lock, Append, local, shared
  <2>2. \A g : Unlisted(g, n)' => Unlisted(g, n)
    BY <1>4
    DEF CallFails, OnError, AllAsked, Lock, Append, local, Unlisted
  <2> QED
    BY <1>0, <2>1, <2>2 DEF KnownAt
<1> QED
  BY <1>1, <1>2, <1>3, <1>4 DEF NodeStep

LEMMA NextKnown ==
  ASSUME TypeOK, Steps, History, Known, [Next]_vars
  PROVE  Known'
<1>1. CASE ClusterStep
  <2>1. \A g \in Guests : was[g] \subseteq was'[g]
    BY <1>1, Remembered
  <2>2. UNCHANGED <<main, pc, vmsDone, todo, cur, got>>
    BY <1>1, ClusterChange DEF local
  <2>3. ASSUME NEW n \in Nodes, NEW i \in got[n]
        PROVE  Regular!Witnessed(i)'
    <3>1. i.guest \in Guests /\ Regular!Witnessed(i)
      BY <2>3 DEF TypeOK, Item, Known, KnownAt
    <3> QED
      BY <2>1, <3>1 DEF Regular!Witnessed
  <2> QED
    BY <2>1, <2>2, <2>3 DEF Known, KnownAt, RanOn, Unlisted
<1>2. CASE FetchStep \/ UNCHANGED vars
  BY <1>2
  DEF FetchStep, GetNodes, GetNodesFails, Wait, cluster, local, shared, vars,
      Known, KnownAt, RanOn, Unlisted, Regular!Witnessed
<1>3. ASSUME NEW n \in Nodes, NodeStep(n)
      PROVE  Known'
  <2>1. ASSUME NEW m \in Nodes \ {n}
        PROVE  KnownAt(m)'
    <3>1. /\ KnownAt(m) /\ was' = was
          /\ \A g : RanOn(g, m)' = RanOn(g, m)
          /\ \A i : Regular!Witnessed(i)' = Regular!Witnessed(i)
      BY <1>3, OnlyItsOwn DEF Known, RanOn, Regular!Witnessed
    <3>2. \A g : Unlisted(g, m)' = Unlisted(g, m)
      BY <1>3, OnlyItsOwn DEF Unlisted
    <3>3. todo'[m] = todo[m] /\ cur'[m] = cur[m] /\ got'[m] = got[m]
      BY <1>3, OnlyItsOwn
    <3> QED
      BY <3>1, <3>2, <3>3 DEF KnownAt
  <2> QED
    BY <1>3, <2>1, NextKnownAt DEF Known
<1> QED
  BY <1>1, <1>2, <1>3 DEF Next

\* What is found is in the inventory of the node.
LEMMA FoundPresent ==
  ASSUME TypeOK, NEW n \in Nodes, NEW g \in Guests, Found(n, g)
  PROVE  got[n] \subseteq got'[n] /\ \E i \in got'[n] : i.guest = g
<1> DEFINE item == [guest |-> g, node |-> n, addr |-> ip[g]]
<1>1. got'[n] = got[n] \cup {item}
  BY DEF TypeOK, Found
<1>2. item.guest = g
  OBVIOUS
<1> QED
  BY <1>1, <1>2

LEMMA NextPresentAt ==
  ASSUME TypeOK, Steps, History, Present, NEW n \in Nodes, NodeStep(n)
  PROVE  PresentAt(n)'
<1> USE DEF TypeOK, Goto, cluster, local, shared, Unlisted
<1>0. PresentAt(n) /\ \A g : Regular!Stayed(g, n)' = Regular!Stayed(g, n)
  BY OnlyItsOwn DEF Present, Regular!Stayed
<1>1. CASE GetQEMUVMs(n) \/ GetLXCs(n)
  <2>1. \A g \in Guests : Regular!Stayed(g, n) => home[g] = n /\ g \in on
    BY DEF Regular!Stayed, History, StateOf
  <2> QED
    BY <1>0, <1>1, <2>1
    DEF GetQEMUVMs, GetLXCs, Running, Steps, PresentAt
<1>2. CASE GetConfig(n)
  <2>1. PICK g \in todo[n] :
          /\ g \in Guests /\ pc[n] = "addrs"
          /\ todo' = [todo EXCEPT ![n] = @ \ {g}]
          /\ \/ g \in Static /\ Found(n, g) /\ UNCHANGED <<pc, cur>>
             \/ /\ cur' = [cur EXCEPT ![n] = g] /\ UNCHANGED got
                /\ pc' = [pc EXCEPT ![n] = "interfaces"]
          /\ UNCHANGED vmsDone
    BY <1>2, ConfigRead
  <2>2. cur[n] = NoGuest /\ \A h : Unlisted(h, n) => Unlisted(h, n)'
    BY <2>1 DEF Steps
  <2>3. CASE Found(n, g) /\ UNCHANGED <<pc, cur>>
    <3>1. /\ got[n] \subseteq got'[n]
          /\ \E i \in got'[n] : i.guest = g
      BY <2>1, <2>3, FoundPresent
    <3>2. todo[n] \ {g} = todo'[n] /\ cur'[n] = cur[n] /\ pc'[n] = pc[n]
      BY <2>1, <2>3
    <3> QED
      BY <1>0, <2>2, <3>1, <3>2 DEF PresentAt
  <2>4. CASE cur' = [cur EXCEPT ![n] = g] /\ UNCHANGED got
    <3>1. /\ todo[n] \ {g} = todo'[n] /\ cur'[n] = g
          /\ cur[n] \notin Guests /\ pc[n] # "failed"
      BY <2>1, <2>2, <2>4, NobodyAssumption
    <3> QED
      BY <1>0, <2>2, <2>4, <3>1 DEF PresentAt
  <2> QED
    BY <2>1, <2>3, <2>4
<1>3. CASE GetInterfaces(n)
  <2>1. /\ todo' = todo /\ pc[n] # "failed" /\ cur[n] \in Guests
        /\ \A h : Unlisted(h, n) => Unlisted(h, n)'
    BY <1>3 DEF GetInterfaces, Steps
  <2>2. got[n] \subseteq got'[n] /\ \E i \in got'[n] : i.guest = cur[n]
    BY <1>3, <2>1, FoundPresent DEF GetInterfaces
  <2> QED
    BY <1>0, <2>1, <2>2 DEF PresentAt
<1>4. CASE CallFails(n)
  BY <1>0, <1>4 DEF CallFails, OnError, PresentAt
<1>5. CASE AllAsked(n)
  BY <1>0, <1>5 DEF AllAsked, PresentAt
<1>6. CASE Lock(n) \/ Append(n)
  BY <1>0, <1>6 DEF Lock, Append, PresentAt
<1> QED
  BY <1>1, <1>2, <1>3, <1>4, <1>5, <1>6 DEF NodeStep

LEMMA NextPresent ==
  ASSUME TypeOK, Steps, History, Present, [Next]_vars
  PROVE  Present'
<1>1. CASE ClusterStep
  <2>1. \A g \in Guests : was[g] \subseteq was'[g]
    BY <1>1, Remembered
  <2>2. UNCHANGED <<pc, vmsDone, todo, cur, got>>
    BY <1>1, ClusterChange DEF local
  <2> QED
    BY <2>1, <2>2 DEF Present, PresentAt, Unlisted, Regular!Stayed
<1>2. CASE FetchStep \/ UNCHANGED vars
  BY <1>2
  DEF FetchStep, GetNodes, GetNodesFails, Wait, cluster, local, vars,
      Present, PresentAt, Unlisted, Regular!Stayed
<1>3. ASSUME NEW n \in Nodes, NodeStep(n)
      PROVE  Present'
  <2>1. ASSUME NEW m \in Nodes \ {n}
        PROVE  PresentAt(m)'
    <3>1. /\ PresentAt(m)
          /\ \A g : Regular!Stayed(g, m)' = Regular!Stayed(g, m)
      BY <1>3, OnlyItsOwn DEF Present, Regular!Stayed
    <3>2. \A g : Unlisted(g, m)' = Unlisted(g, m)
      BY <1>3, OnlyItsOwn DEF Unlisted
    <3>3. /\ todo'[m] = todo[m] /\ cur'[m] = cur[m] /\ got'[m] = got[m]
          /\ pc'[m] = pc[m]
      BY <1>3, OnlyItsOwn
    <3> QED
      BY <3>1, <3>2, <3>3 DEF PresentAt
  <2> QED
    BY <1>3, <2>1, NextPresentAt DEF Present
<1> QED
  BY <1>1, <1>2, <1>3 DEF Next

-----------------------------------------------------------------------------
LEMMA NextInv == IInv /\ [Next]_vars => IInv'
BY NextType, NextMutex, NextCollected, NextSteps, NextHistory, NextKnown,
   NextOnce, NextPresent
   DEF IInv

LEMMA Invariance == Spec => []IInv
BY InitInv, NextInv, PTL DEF Spec

\* Every variable keeps its type.
THEOREM TypeCorrect == Spec => []TypeOK
BY Invariance, PTL DEF IInv

\* However the goroutines interleave and whichever calls fail, an inventory is
\* returned only when it holds what every node delivered.
THEOREM AllOrNothingHolds == Spec => []AllOrNothing
<1>1. IInv => AllOrNothing
  <2> SUFFICES ASSUME IInv, main = "ok"
               PROVE  /\ \A n \in Nodes : pc[n] = "done"
                      /\ resources = UNION {got[n] : n \in Nodes}
    BY DEF AllOrNothing
  <2>1. \A n \in Nodes : pc[n] = "done"
    BY DEF IInv, Collected
  <2>2. {m \in Nodes : pc[m] = "done"} = Nodes
    BY <2>1
  <2>3. resources = UNION {got[n] : n \in {m \in Nodes : pc[m] = "done"}}
    BY DEF IInv, Collected
  <2> QED
    BY <2>1, <2>2, <2>3
<1> QED
  BY <1>1, Invariance, PTL

\* What is collected when all nodes are done is what RegularFetch allows.
LEMMA DoneIsRegular ==
  ASSUME IInv, \A n \in Nodes : pc[n] = "done"
  PROVE  /\ \A i \in resources :
              i \in Item /\ Regular!Witnessed(i)
         /\ \A g \in Guests, n \in Nodes :
              Regular!Stayed(g, n) => \E i \in resources : i.guest = g
         /\ \A i, j \in resources :
              i.guest = j.guest /\ i.node = j.node => i = j
<1>1. {m \in Nodes : pc[m] = "done"} = Nodes
  OBVIOUS
<1>2. \A i : i \in resources <=> \E n \in Nodes : i \in got[n]
  BY <1>1 DEF IInv, Collected
<1>3. \A i \in resources : i \in Item /\ Regular!Witnessed(i)
  BY <1>2 DEF IInv, TypeOK, Known, KnownAt
<1>4. ASSUME NEW g \in Guests, NEW n \in Nodes, Regular!Stayed(g, n)
      PROVE  \E i \in resources : i.guest = g
  <2>1. /\ ~Unlisted(g, n) /\ g \notin todo[n] /\ cur[n] # g
        /\ pc[n] # "failed"
    BY NobodyAssumption DEF IInv, Steps, Unlisted
  <2>2. \E i \in got[n] : i.guest = g
    BY <1>4, <2>1 DEF IInv, Present, PresentAt
  <2> QED
    BY <1>2, <2>2
<1>5. ASSUME NEW i \in resources, NEW j \in resources,
             i.guest = j.guest, i.node = j.node
      PROVE  i = j
  <2>1. i \in got[i.node] /\ j \in got[j.node] /\ i.node \in Nodes
    BY <1>2 DEF IInv, Known, KnownAt
  <2> QED
    BY <1>5, <2>1 DEF IInv, Once
<1> QED
  BY <1>3, <1>4, <1>5

\* The guests nothing happens to are in the inventory exactly as they are.
THEOREM SettledGuestsExactHolds == Spec => []SettledGuestsExact
<1>1. IInv => SettledGuestsExact
  <2> SUFFICES ASSUME IInv, main = "ok", NEW g \in Settled
               PROVE  {i \in resources : i.guest = g} =
                        IF g \in on
                        THEN {[guest |-> g, node |-> home[g], addr |-> ip[g]]}
                        ELSE {}
    BY DEF SettledGuestsExact
  <2>0. \A n \in Nodes : pc[n] = "done"
    BY DEF IInv, Collected
  <2>1. /\ g \in Guests /\ was[g] = {StateOf(g)} /\ home[g] \in Nodes
        /\ StateOf(g).node = home[g] /\ StateOf(g).addr = ip[g]
        /\ StateOf(g).on <=> g \in on
    BY DEF Settled, StateOf, IInv, TypeOK
  <2>2. ASSUME NEW i \in resources, i.guest = g
        PROVE  /\ g \in on
               /\ i = [guest |-> g, node |-> home[g], addr |-> ip[g]]
    <3>1. i \in Item /\ Regular!Witnessed(i)
      BY <2>0, DoneIsRegular
    <3>2. g \in on /\ i.node = home[g] /\ i.addr = ip[g]
      BY <2>1, <2>2, <3>1 DEF Regular!Witnessed
    <3> QED
      BY <2>2, <3>1, <3>2 DEF Item
  <2>3. ASSUME g \in on
        PROVE  \E i \in resources : i.guest = g
    <3>1. Regular!Stayed(g, home[g])
      BY <2>1, <2>3 DEF Regular!Stayed
    <3> QED
      BY <2>0, <2>1, <3>1, DoneIsRegular
  <2> QED
    BY <2>2, <2>3
<1> QED
  BY <1>1, Invariance, PTL

-----------------------------------------------------------------------------
(***************************************************************************)
(* Refinement: a change of the cluster is Change, the end of Wait Return   *)
(* or Fail, and every call and every wait in between is a stutter.         *)
(***************************************************************************)
Now == [g \in Guests |-> StateOf(g)]

LEMMA InitRegular == Init => Regular!Init
<1> SUFFICES ASSUME Init PROVE Regular!Init
  OBVIOUS
<1>1. Now \in [Guests -> State]
  BY DEF Init, Now, StateOf, State
<1>2. was = [g \in Guests |-> {Now[g]}]
  BY DEF Init, Now
<1> QED
  BY <1>1, <1>2 DEF Init, Regular!Init, Now

LEMMA ChangeRegular ==
  ASSUME TypeOK, TypeOK', ClusterStep
  PROVE  \E g \in Guests : Regular!Change(g)
<1>1. PICK g \in Guests :
        /\ was' = [was EXCEPT ![g] = @ \cup {StateOf(g)'}]
        /\ \A h \in Guests \ {g} : StateOf(h)' = StateOf(h)
  BY ClusterChange
<1>2. StateOf(g)' \in State
  BY DEF TypeOK, StateOf, State
<1>3. Now' = [Now EXCEPT ![g] = StateOf(g)'] /\ Now'[g] = StateOf(g)'
  BY <1>1 DEF Now
<1>4. UNCHANGED <<main, resources>>
  BY ClusterChange DEF shared
<1> QED
  BY <1>1, <1>2, <1>3, <1>4 DEF Regular!Change, Now

LEMMA WaitRegular ==
  ASSUME IInv, Wait
  PROVE  Regular!Fail \/ \E result \in SUBSET Item : Regular!Return(result)
<1>1. Now' = Now /\ was' = was
  BY DEF Wait, cluster, Now, StateOf
<1>2. CASE main' = "error"
  BY <1>1, <1>2 DEF Wait, Regular!Fail, Now
<1>3. CASE main' = "ok"
  <2>1. \A n \in Nodes : pc[n] = "done"
    BY <1>3 DEF Wait, Ended
  <2>2. resources \in SUBSET Item /\ resources' = resources
    BY DEF IInv, TypeOK, Wait, shared
  <2>3. \A i \in resources : i.guest \in Guests /\ Regular!Witnessed(i)
    BY <2>1, DoneIsRegular DEF Item
  <2>4. \A g \in Guests : \A s \in was[g] :
          Regular!Stayed(g, s.node) => \E i \in resources : i.guest = g
    <3>1. \A g \in Guests : \A s \in was[g] : s.node \in Nodes
      BY DEF IInv, TypeOK, State
    <3> QED
      BY <2>1, <3>1, DoneIsRegular
  <2>5. \A i, j \in resources :
          i.guest = j.guest /\ i.node = j.node => i = j
    BY <2>1, DoneIsRegular
  <2>6. Regular!Return(resources)
    BY <1>1, <1>3, <2>2, <2>3, <2>4, <2>5 DEF Wait, Regular!Return, Now
  <2> QED
    BY <2>2, <2>6
<1> QED
  BY <1>2, <1>3 DEF Wait

LEMMA NextRegular ==
  ASSUME IInv, TypeOK', [Next]_vars
  PROVE  [Regular!Next]_(Regular!fetchVars)
<1>1. CASE ClusterStep
  BY <1>1, ChangeRegular DEF Regular!Next, IInv
<1>2. CASE GetNodes \/ UNCHANGED vars
  BY <1>2 DEF GetNodes, vars, cluster, StateOf, Regular!fetchVars
<1>3. CASE GetNodesFails
  <2>1. Regular!Fail
    BY <1>3 DEF GetNodesFails, cluster, StateOf, Regular!Fail
  <2> QED
    BY <2>1 DEF Regular!Next
<1>4. CASE Wait
  <2>1. Item = [guest : Guests, node : {s.node : s \in State},
                addr : {s.addr : s \in State}]
    <3>1. ASSUME NEW n \in Nodes, NEW a \in Addrs
          PROVE  \E s \in State : s.node = n /\ s.addr = a
      <4>1. [node |-> n, addr |-> a, on |-> TRUE] \in State
        BY DEF State
      <4> QED
        BY <4>1
    <3>2. \A s \in State : s.node \in Nodes /\ s.addr \in Addrs
      BY DEF State
    <3>3. ASSUME Addrs # {} PROVE Nodes = {s.node : s \in State}
      BY <3>1, <3>2, <3>3
    <3>4. ASSUME Nodes # {} PROVE Addrs = {s.addr : s \in State}
      BY <3>1, <3>2, <3>4
    <3>5. CASE Addrs # {} /\ Nodes # {}
      BY <3>3, <3>4, <3>5 DEF Item
    <3>6. CASE Addrs = {} \/ Nodes = {}
      BY <3>2, <3>6 DEF Item
    <3> QED
      BY <3>5, <3>6
  <2> QED
    BY <1>4, <2>1, WaitRegular DEF Regular!Next
<1>5. ASSUME NEW n \in Nodes, NodeStep(n)
      PROVE  UNCHANGED Regular!fetchVars
  <2>1. UNCHANGED <<home, on, ip, was, main>>
    BY <1>5, OnlyItsOwn DEF IInv
  <2>2. main # "ok"
    BY <1>5
    DEF NodeStep, GetQEMUVMs, GetLXCs, GetConfig, GetInterfaces, CallFails,
        AllAsked, Lock, Append, IInv, Collected
  <2> QED
    BY <2>1, <2>2 DEF StateOf, Regular!fetchVars
<1> QED
  BY <1>1, <1>2, <1>3, <1>4, <1>5 DEF Next, FetchStep

\* A fetch returns all at once what was true of each guest at some moment since
\* it began, without missing a guest that stays and without naming one twice on
\* a node; or an error.  Each call of it may see another cluster
\* (inventory.go:291-407).
THEOREM FetchIsRegular == Spec => IsRegular
<1>1. IInv => TypeOK
  BY DEF IInv
<1> QED
  BY <1>1, InitRegular, NextRegular, Invariance, PTL
  DEF Spec, IsRegular, Regular!Spec
=============================================================================
