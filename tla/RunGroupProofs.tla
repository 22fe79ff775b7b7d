--------------------------- MODULE RunGroupProofs ---------------------------
(***************************************************************************)
(* Theorems about RunGroup for any actors in any order.                    *)
(***************************************************************************)
EXTENDS RunGroup, TLAPS

(***************************************************************************)
(* The inductive invariant: where Run is in the order of the actors, what  *)
(* a debug server that has returned has waited for, that whoever has       *)
(* returned stays so, that only a server that serves has queries, and where*)
(* each kind of actor can be.                                              *)
(***************************************************************************)
Phases ==
  /\ main = "running" => next = 1
  /\ main = "shutting" => next <= Len(Order) /\ Order[next] \in DNSServers
  /\ main \in {"waiting", "done"} => next = Len(Order) + 1

Awaited == \A a \in HTTPServers : pc[a] = "returned" => stop[a] = "complete"

Queried == \A a \in DNSServers : query[a] => pc[a] = "serve"

AllBack == main = "done" => \A a \in Actors : pc[a] = "returned"

\* Each kind of actor has its own places and its own way to be stopped.
Kinds ==
  /\ \A a \in Periodics :
       /\ pc[a] \in {"new", "serve", "work", "lock", "returned"}
       /\ pc[a] = "lock" => a \in Updaters
       /\ stop[a] \in {"none", "asked"}
  /\ \A a \in DNSServers :
       /\ pc[a] \in {"new", "serve", "returned"}
       /\ stop[a] \in {"none", "asked", "missed"}
  /\ \A a \in HTTPServers :
       /\ pc[a] \in {"new", "serve", "await", "returned"}
       /\ stop[a] \in {"none", "asked", "complete"}
  /\ pc[Signal] \in {"new", "serve", "returned"}
  /\ stop[Signal] \in {"none", "asked"}

IInv ==
  /\ TypeOK /\ Phases /\ InterruptedInOrder
  /\ OnlySignalOrDNSStops /\ Awaited /\ Queried /\ AllBack /\ Kinds

-----------------------------------------------------------------------------
\* Every actor is somewhere in the order, and every place holds an actor.
LEMMA OrderActors ==
  /\ Len(Order) \in Nat
  /\ \A i \in 1..Len(Order) : Order[i] \in Actors
BY OrderAssumption

\* Before anything is interrupted, nothing has been asked to stop.
LEMMA NothingAsked ==
  ASSUME Phases, InterruptedInOrder, main = "running", NEW a \in Actors
  PROVE  stop[a] = "none"
<1>1. PICK i \in 1..Len(Order) : Order[i] = a
  BY OrderAssumption
<1>2. ~(i < next) /\ main # "shutting"
  BY <1>1, OrderActors DEF Phases
<1> QED
  BY <1>1, <1>2 DEF InterruptedInOrder

\* The actor about to be interrupted has not been interrupted before.
LEMMA NextNotAsked ==
  ASSUME TypeOK, InterruptedInOrder, main = "interrupting",
         next <= Len(Order)
  PROVE  next \in 1..Len(Order) /\ stop[Order[next]] = "none"
<1>1. next \in 1..Len(Order) /\ ~(next < next)
  BY OrderActors DEF TypeOK
<1> QED
  BY <1>1 DEF InterruptedInOrder

LEMMA InitInv == Init => IInv
BY OrderActors
   DEF Init, IInv, TypeOK, Phases, InterruptedInOrder, OnlySignalOrDNSStops,
       Awaited, AllBack, Actors, Places, Queried, Kinds

\* A step of an actor that leaves Run and the interrupts alone keeps all that
\* is said of them.
LEMMA ActorStep ==
  ASSUME IInv, UNCHANGED <<main, next, stop>>, Kinds',
         pc' \in [Actors -> Places], tick' \in [Periodics -> BOOLEAN],
         query' \in [DNSServers -> BOOLEAN], page' \in [HTTPServers -> BOOLEAN],
         \A a \in DNSServers : query'[a] => pc'[a] = "serve",
         \A a \in Actors : pc[a] = "returned" => pc'[a] = "returned",
         \A a \in Actors : pc'[a] = "returned" =>
            \/ pc[a] = "returned"
            \/ a \in DNSServers \cup {Signal}
            \/ stop[a] = "complete"
            \/ stop[a] = "asked" /\ a \in Periodics
  PROVE  IInv'
<1>1. TypeOK' /\ Phases' /\ InterruptedInOrder' /\ AllBack'
  BY DEF IInv, TypeOK, Phases, InterruptedInOrder, AllBack
<1>2. OnlySignalOrDNSStops'
  BY NothingAsked DEF IInv, OnlySignalOrDNSStops
<1>3. Awaited'
  BY ActorsAssumption DEF IInv, Awaited, Actors
<1>4. Queried'
  BY DEF Queried
<1> QED
  BY <1>1, <1>2, <1>3, <1>4 DEF IInv

LEMMA PeriodicInv ==
  ASSUME IInv, NEW a \in Periodics, PeriodicStep(a)
  PROVE  IInv'
<1> USE ActorsAssumption
    DEF Goto, IInv, TypeOK, Actors, Places, handlers, Queried, Kinds
<1>1. CASE PeriodicStarts(a)
  BY <1>1, ActorStep DEF PeriodicStarts
<1>2. CASE Tick(a)
  BY <1>2, ActorStep DEF Tick
<1>3. CASE RunJob(a)
  BY <1>3, ActorStep DEF RunJob
<1>4. CASE JobEnds(a)
  BY <1>4, ActorStep DEF JobEnds, AfterJob
<1>5. CASE JobCancelled(a)
  BY <1>5, ActorStep DEF JobCancelled, AfterJob
<1>6. CASE PeriodicReturns(a)
  BY <1>6, ActorStep DEF PeriodicReturns
<1>7. CASE JobLocks(a)
  BY <1>7, ActorStep DEF JobLocks
<1>8. CASE JobUnlocks(a)
  BY <1>8, ActorStep DEF JobUnlocks, AfterJob
<1> QED
  BY <1>1, <1>2, <1>3, <1>4, <1>5, <1>6, <1>7, <1>8 DEF PeriodicStep

LEMMA DNSInv ==
  ASSUME IInv, NEW a \in DNSServers, DNSStep(a)
  PROVE  IInv'
<1> USE ActorsAssumption
    DEF Goto, IInv, TypeOK, Actors, Places, handlers, Queried, Kinds
<1>1. CASE Listen(a)
  BY <1>1, ActorStep DEF Listen
<1>2. CASE DNSFails(a)
  BY <1>2, ActorStep DEF DNSFails
<1>3. CASE DNSReturns(a)
  BY <1>3, ActorStep DEF DNSReturns
<1>4. CASE Query(a)
  BY <1>4, ActorStep DEF Query
<1>5. CASE Answer(a)
  BY <1>5, ActorStep DEF Answer
<1> QED
  BY <1>1, <1>2, <1>3, <1>4, <1>5 DEF DNSStep

LEMMA SignalInv ==
  ASSUME IInv, SignalStep
  PROVE  IInv'
<1> USE ActorsAssumption
    DEF Goto, IInv, TypeOK, Actors, Places, handlers, Queried, Kinds
<1>1. CASE SignalStarts
  BY <1>1, ActorStep DEF SignalStarts
<1>2. CASE GotSignal
  BY <1>2, ActorStep DEF GotSignal
<1>3. CASE SignalReturns
  BY <1>3, ActorStep DEF SignalReturns
<1> QED
  BY <1>1, <1>2, <1>3 DEF SignalStep

LEMMA HTTPInv ==
  ASSUME IInv, NEW a \in HTTPServers, HTTPStep(a)
  PROVE  IInv'
<1>1. CASE HTTPListens(a)
  BY <1>1, ActorStep, ActorsAssumption DEF HTTPListens,
      Goto, IInv, TypeOK, Actors, Places, handlers, Queried, Kinds
<1>2. CASE HTTPFails(a)
  BY <1>2, ActorStep, ActorsAssumption DEF HTTPFails, AfterServe,
      Goto, IInv, TypeOK, Actors, Places, handlers, Queried, Kinds
<1>3. CASE HTTPCloses(a)
  BY <1>3, ActorStep, ActorsAssumption DEF HTTPCloses, AfterServe,
      Goto, IInv, TypeOK, Actors, Places, handlers, Queried, Kinds
<1>4. CASE ShutdownReturns(a)
  <2>1. TypeOK'
    BY <1>4 DEF ShutdownReturns, IInv, TypeOK, Actors, handlers
  <2>2. InterruptedInOrder'
    <3>1. \A b \in Actors : stop'[b] = "none" <=> stop[b] = "none"
      BY <1>4 DEF ShutdownReturns, IInv, TypeOK, Actors
    <3> QED
      BY <1>4, <3>1, OrderActors
      DEF ShutdownReturns, IInv, InterruptedInOrder
  <2>3. Awaited'
    BY <1>4 DEF ShutdownReturns, IInv, TypeOK, Awaited, Actors
  <2>4. Kinds'
    BY <1>4, ActorsAssumption DEF ShutdownReturns, IInv, TypeOK, Kinds, Actors
  <2> QED
    BY <1>4, <2>1, <2>2, <2>3, <2>4
    DEF ShutdownReturns, IInv, Phases, OnlySignalOrDNSStops, AllBack, Queried,
        handlers
<1>5. CASE HTTPReturns(a)
  BY <1>5, ActorStep, ActorsAssumption DEF HTTPReturns,
      Goto, IInv, TypeOK, Actors, Places, handlers, Queried, Kinds
<1>6. CASE OpenPage(a) \/ ClosePage(a)
  BY <1>6, ActorStep, ActorsAssumption
  DEF OpenPage, ClosePage, IInv, TypeOK, Actors, Places, Queried, Kinds
<1> QED
  BY <1>1, <1>2, <1>3, <1>4, <1>5, <1>6 DEF HTTPStep

\* Setting one actor's interrupt state keeps the order.
LEMMA AskedInOrder ==
  ASSUME IInv, main = "interrupting", next <= Len(Order),
         NEW s \in {"asked", "missed"},
         stop' = [stop EXCEPT ![Order[next]] = s],
         \/ main' = main /\ next' = next + 1
         \/ main' = "shutting" /\ next' = next
  PROVE  InterruptedInOrder'
<1>1. next \in 1..Len(Order) /\ Order[next] \in Actors
  BY NextNotAsked, OrderActors DEF IInv
<1>2. SUFFICES ASSUME NEW i \in 1..Len(Order)
               PROVE  stop'[Order[i]] # "none" <=>
                        i < next' \/ (i = next' /\ main' = "shutting")
  BY DEF InterruptedInOrder
<1>3. Order[i] \in Actors
  BY OrderActors
<1>4. CASE i = next
  BY <1>1, <1>4 DEF IInv, TypeOK
<1>5. CASE i # next
  <2>1. Order[i] # Order[next]
    BY <1>1, <1>5, OrderAssumption
  <2>2. stop'[Order[i]] = stop[Order[i]]
    BY <1>1, <1>3, <2>1 DEF IInv, TypeOK
  <2>3. stop[Order[i]] # "none" <=> i < next
    BY <1>5 DEF IInv, InterruptedInOrder
  <2>4. i < next' <=> i < next
    BY <1>1, <1>5
  <2>5. ~(i = next' /\ main' = "shutting")
    BY <1>5
  <2> QED
    BY <2>2, <2>3, <2>4, <2>5
<1> QED
  BY <1>4, <1>5

LEMMA GroupInv ==
  ASSUME IInv, GroupStep
  PROVE  IInv'
<1>1. CASE FirstReturned
  BY <1>1, OrderActors
  DEF FirstReturned, IInv, TypeOK, Phases, InterruptedInOrder,
      OnlySignalOrDNSStops, Awaited, AllBack, Queried, Kinds, handlers
<1>2. CASE InterruptAtOnce
  <2>1. next \in 1..Len(Order) /\ stop[Order[next]] = "none"
    BY <1>2, NextNotAsked DEF InterruptAtOnce, IInv
  <2>2. InterruptedInOrder'
    BY <1>2, AskedInOrder DEF InterruptAtOnce
  <2>3. TypeOK' /\ Phases'
    BY <1>2, <2>1, OrderActors
    DEF InterruptAtOnce, IInv, TypeOK, Phases, handlers
  <2>4. Awaited'
    BY <1>2, <2>1 DEF InterruptAtOnce, IInv, TypeOK, Awaited, Actors
  <2>5. Kinds'
    BY <1>2, <2>1, OrderActors, ActorsAssumption
    DEF InterruptAtOnce, IInv, TypeOK, Kinds, Actors
  <2> QED
    BY <1>2, <2>2, <2>3, <2>4, <2>5
    DEF InterruptAtOnce, IInv, OnlySignalOrDNSStops, AllBack, Queried, handlers
<1>3. CASE InterruptDNS
  <2>1. next \in 1..Len(Order) /\ Order[next] \in DNSServers
    BY <1>3, NextNotAsked DEF InterruptDNS, IInv
  <2>2. InterruptedInOrder'
    BY <1>3, AskedInOrder DEF InterruptDNS
  <2>3. TypeOK' /\ Phases'
    BY <1>3, <2>1, OrderActors DEF InterruptDNS, IInv, TypeOK, Phases, handlers
  <2>4. Awaited'
    BY <1>3, <2>1, ActorsAssumption
    DEF InterruptDNS, IInv, TypeOK, Awaited, Actors
  <2>5. Kinds'
    BY <1>3, <2>1, ActorsAssumption
    DEF InterruptDNS, IInv, TypeOK, Kinds, Actors
  <2> QED
    BY <1>3, <2>2, <2>3, <2>4, <2>5
    DEF InterruptDNS, IInv, OnlySignalOrDNSStops, AllBack, Queried, handlers
<1>4. CASE DNSWaitEnds
  <2>1. next \in 1..Len(Order)
    BY <1>4, OrderActors DEF DNSWaitEnds, IInv, TypeOK, Phases
  <2>2. InterruptedInOrder'
    BY <1>4, <2>1, OrderActors DEF DNSWaitEnds, IInv, InterruptedInOrder
  <2> QED
    BY <1>4, <2>1, <2>2, OrderActors
    DEF DNSWaitEnds, IInv, TypeOK, Phases, OnlySignalOrDNSStops, Awaited,
        AllBack, Queried, Kinds, handlers
<1>5. CASE AllInterrupted
  BY <1>5 DEF AllInterrupted, IInv, TypeOK, Phases, InterruptedInOrder,
              OnlySignalOrDNSStops, Awaited, AllBack, Queried, Kinds,
              handlers
<1>6. CASE RunReturns
  BY <1>6 DEF RunReturns, IInv, TypeOK, Phases, InterruptedInOrder,
              OnlySignalOrDNSStops, Awaited, AllBack, Queried, Kinds,
              handlers
<1> QED
  BY <1>1, <1>2, <1>3, <1>4, <1>5, <1>6 DEF GroupStep

LEMMA NextInv == IInv /\ [Next]_vars => IInv'
<1> SUFFICES ASSUME IInv, [Next]_vars PROVE IInv'
  OBVIOUS
<1>1. CASE UNCHANGED vars
  BY <1>1 DEF vars, IInv, TypeOK, Phases, InterruptedInOrder,
              OnlySignalOrDNSStops, Awaited, AllBack, Queried, Kinds,
              handlers
<1> QED
  BY <1>1, PeriodicInv, DNSInv, HTTPInv, SignalInv, GroupInv
  DEF Next, Finished

LEMMA Invariance == Spec => []IInv
BY InitInv, NextInv, PTL DEF Spec

-----------------------------------------------------------------------------
\* Every variable keeps its type.
THEOREM TypeCorrect == Spec => []TypeOK
BY Invariance, PTL DEF IInv

\* No failing job and no failing debug server ends the process.
THEOREM OnlySignalOrDNSStopsHolds == Spec => []OnlySignalOrDNSStops
BY Invariance, PTL DEF IInv

\* Run interrupts every actor, in order, before it waits for them.
THEOREM InterruptedInOrderHolds == Spec => []InterruptedInOrder
BY Invariance, PTL DEF IInv

\* When Run returns nothing is left running behind it.
THEOREM NothingLeftRunningHolds == Spec => []NothingLeftRunning
<1>1. IInv => NothingLeftRunning
  BY ActorsAssumption
  DEF IInv, AllBack, Awaited, Queried, NothingLeftRunning, Actors
<1> QED
  BY <1>1, Invariance, PTL

-----------------------------------------------------------------------------
(***************************************************************************)
(* That nobody is stuck at the end: s.mu is the one thing the actors wait  *)
(* for each other at, and a waiting update needs only the last reader.     *)
(***************************************************************************)
\* When Run waits for the actors, each has been interrupted.
LEMMA AllAsked ==
  ASSUME IInv, main = "waiting", NEW a \in Actors
  PROVE  stop[a] # "none"
<1>1. PICK i \in 1..Len(Order) : Order[i] = a
  BY OrderAssumption
<1>2. i < next
  BY <1>1, OrderActors DEF IInv, Phases
<1> QED
  BY <1>1, <1>2 DEF IInv, InterruptedInOrder

\* With no page open, an update in s.mu.Lock() gets it.
LEMMA WriterGoesOn ==
  ASSUME WriterWaits, \A s \in HTTPServers : ~page[s]
  PROVE  \E u \in Updaters : GoesOn(u)
BY UpdatersAssumption DEF WriterWaits, GoesOn

\* Run, the jobs, the queries and the shutdowns never wait for each other in a
\* circle, whatever the actors and their order.
THEOREM StopNeverStuckHolds == Spec => []StopNeverStuck
<1>1. ASSUME IInv, main = "waiting", \A s \in HTTPServers : ~page[s],
             NEW a \in Actors
      PROVE  \/ pc[a] = "returned" \/ GoesOn(a)
             \/ a \in DNSServers /\ Escaped(a)
             \/ a \in DNSServers /\ query[a] /\ \E u \in Updaters : GoesOn(u)
  <2>1. stop[a] # "none"
    BY <1>1, AllAsked
  <2>2. CASE a \in Periodics
    BY <1>1, <2>1, <2>2 DEF IInv, Kinds, GoesOn, Cancelled
  <2>3. CASE a \in DNSServers
    BY <1>1, <2>1, <2>3, WriterGoesOn DEF IInv, Kinds, GoesOn, Escaped
  <2>4. CASE a \in HTTPServers
    BY <1>1, <2>1, <2>4 DEF IInv, Kinds, GoesOn
  <2>5. CASE a = Signal
    BY <1>1, <2>1, <2>5 DEF IInv, Kinds, GoesOn
  <2> QED
    BY <2>2, <2>3, <2>4, <2>5 DEF Actors
<1>2. IInv => StopNeverStuck
  BY <1>1 DEF StopNeverStuck
<1> QED
  BY <1>2, Invariance, PTL
=============================================================================
