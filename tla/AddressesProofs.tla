--------------------------- MODULE AddressesProofs ---------------------------
(***************************************************************************)
(* Proofs about the module Addresses, for every parser and every set of    *)
(* configurations and interfaces.  The inductive invariant says what the   *)
(* part of a loop that is done has gathered, in terms of that part alone.  *)
(***************************************************************************)
EXTENDS Addresses, SequenceTheorems, TLAPS

\* The keys the code looks up in the map.
Keys == {"ip", "macaddr", "virtio"}

\* What the map from a split setting says of a key.
ValueOf(key) == IF key \in DOMAIN kvs THEN {kvs[key]} ELSE {}

\* A VM stays a VM.
SameKind ==
  /\ guest \in VMs <=> conf \in VMs
  /\ pc \in {"ipconfig0", "net0"} => conf \in VMs
  /\ pc = "parts" => conf \in Containers
  /\ pc = "walk" => seen \in (IF conf \in VMs THEN Seq(AgentInterface)
                              ELSE Seq(LXCInterface))

\* The map holds the last value of each key of the parts that were split.
SplitSoFar ==
  pc \in {"ipconfig0", "net0"} =>
    /\ at <= Len(Parts) + 1
    /\ \A key \in Keys : LastOf(Parts, at - 1, key) = ValueOf(key)

\* No part of a container's net0 so far was a static address.
PartsSoFar ==
  pc = "parts" =>
    /\ at <= Len(Parts) + 1
    /\ \A j \in 1..at - 1 : Parts[j].key = "ip" => Static(Parts[j].value) = {}
    /\ LastOf(Parts, at - 1, "hwaddr") \ {Empty} = {hw} \ {Empty}

\* The interfaces are only asked for when there is no static address.
Searched ==
  /\ pc \in {"net0", "ask", "walk"} => StaticOf(conf) = {}
  /\ pc \in {"ask", "walk"} => HardwareOf(conf) = {hw} \ {Empty}
  /\ pc \in {"config", "ipconfig0", "net0"} => hw = Empty
  /\ pc = "config" => kvs = <<>>
  /\ pc \notin {"walk", "done"} => found = {}

\* The addresses of the right ones among the first n interfaces.
Gathered(n) ==
  UNION {AddrsOf(seen[i]) :
           i \in {j \in 1..n : seen[j].name # "lo" /\ RightHardware(seen[j])}}

WalkedSoFar ==
  pc = "walk" => at <= Len(seen) + 1 /\ found = Gathered(at - 1)

\* Where a function has returned.
Result ==
  pc = "done" =>
    \/ StaticOf(conf) # {} /\ found = StaticOf(conf)
    \/ /\ StaticOf(conf) = {} /\ HardwareOf(conf) = {hw} \ {Empty}
       /\ found = Gathered(Len(seen))

IInv == /\ TypeOK /\ SameKind /\ SplitSoFar /\ PartsSoFar
        /\ Searched /\ WalkedSoFar /\ Result
-----------------------------------------------------------------------------
\* With one more part, the last value of its key is its value.
LEMMA LastOfNext ==
  ASSUME NEW parts, NEW n \in Nat, NEW key
  PROVE  LastOf(parts, n + 1, key) =
           IF parts[n + 1].key = key THEN {parts[n + 1].value}
           ELSE LastOf(parts, n, key)
<1> DEFINE Last(m) == {j \in 1..m :
       parts[j].key = key /\ \A k \in j + 1..m : parts[k].key # key}
<1>1. CASE parts[n + 1].key = key
  <2>1. n + 1 \in Last(n + 1)
    BY <1>1
  <2>2. \A j \in Last(n + 1) : j = n + 1
    <3> SUFFICES ASSUME NEW j \in Last(n + 1), j # n + 1 PROVE FALSE
      OBVIOUS
    <3> QED
      BY <1>1
  <2>3. Last(n + 1) = {n + 1}
    BY <2>1, <2>2
  <2> QED
    BY <1>1, <2>3 DEF LastOf
<1>2. CASE parts[n + 1].key # key
  <2>1. Last(n + 1) = Last(n)
    BY <1>2
  <2> QED
    BY <1>2, <2>1 DEF LastOf
<1> QED
  BY <1>1, <1>2

\* Before the first part there is none.
LEMMA LastOfNone == \A parts, key : LastOf(parts, 0, key) = {}
BY DEF LastOf

\* The first static address, when none came before it.
LEMMA FirstStaticIs ==
  ASSUME NEW parts, NEW n \in Nat, NEW j \in 1..n,
         \A k \in 1..j - 1 : parts[k].key = "ip" => Static(parts[k].value) = {},
         parts[j].key = "ip", Static(parts[j].value) # {}
  PROVE  FirstStatic(parts, n) = Static(parts[j].value)
<1> DEFINE First == {i \in 1..n :
       /\ parts[i].key = "ip"
       /\ \A k \in 1..i - 1 :
            parts[k].key = "ip" => Static(parts[k].value) = {}}
<1>1. j \in First
  OBVIOUS
<1>2. ASSUME NEW i \in First, i # j
      PROVE  Static(parts[i].value) = {}
  <2>1. i < j
    BY <1>2
  <2> QED
    BY <2>1
<1>3. FirstStatic(parts, n) = UNION {Static(parts[i].value) : i \in First}
  BY DEF FirstStatic
<1> HIDE DEF First
<1> QED
  BY <1>1, <1>2, <1>3

\* No part is a static address.
LEMMA NoFirstStatic ==
  ASSUME NEW parts, NEW n \in Nat,
         \A k \in 1..n : parts[k].key = "ip" => Static(parts[k].value) = {}
  PROVE  FirstStatic(parts, n) = {}
BY DEF FirstStatic

\* With one more interface, its addresses are there if it is a right one.
LEMMA GatheredNext ==
  ASSUME NEW n \in Nat
  PROVE  Gathered(n + 1) =
           IF seen[n + 1].name # "lo" /\ RightHardware(seen[n + 1])
           THEN Gathered(n) \cup AddrsOf(seen[n + 1])
           ELSE Gathered(n)
<1> DEFINE Right(m) ==
             {j \in 1..m : seen[j].name # "lo" /\ RightHardware(seen[j])}
<1>1. Right(n + 1) = IF seen[n + 1].name # "lo" /\ RightHardware(seen[n + 1])
                     THEN Right(n) \cup {n + 1} ELSE Right(n)
  OBVIOUS
<1>2. \A m : Gathered(m) = UNION {AddrsOf(seen[i]) : i \in Right(m)}
  BY DEF Gathered
<1> HIDE DEF Right
<1> QED
  BY <1>1, <1>2

LEMMA GatheredNone == Gathered(0) = {}
BY DEF Gathered

\* What is gathered depends on these variables alone.
LEMMA GatheredSame ==
  ASSUME UNCHANGED <<conf, seen, hw>>, NEW n
  PROVE  Gathered(n)' = Gathered(n)
BY DEF Gathered, RightHardware, AddrsOf

\* Whatever an interface reports is an address.
LEMMA AddrsAreFound ==
  /\ \A text : Static(text) \subseteq Found
  /\ \A iface : AddrsOf(iface) \subseteq Found
BY DEF Static, AddrsOf, AddrsVM, AddrsLXC, Found

\* The parts and interfaces are sequences of their kinds.
LEMMA ConfTypes ==
  /\ \A c \in VMs : /\ c.ipconfig0 \in Seq(Setting) /\ c.net0 \in Seq(Setting)
                    /\ c.interfaces \in Seq(AgentInterface)
  /\ \A c \in Containers : /\ c.net0 \in Seq(Setting)
                           /\ c.interfaces \in Seq(LXCInterface)
  /\ \A c \in Guests : c \in Containers <=> c \notin VMs
BY GuestsAssumption DEF QEMU, LXC, Guests

\* The parts being split, and the one the loop is at.
LEMMA PartsType ==
  ASSUME TypeOK, SameKind, pc \in {"ipconfig0", "net0", "parts"}
  PROVE  /\ Parts \in Seq(Setting) /\ Len(Parts) \in Nat
         /\ at <= Len(Parts) => Parts[at] \in Setting
<1>1. Parts \in Seq(Setting)
  BY ConfTypes DEF TypeOK, SameKind, Parts
<1>2. Len(Parts) \in Nat /\ at \in Nat \ {0}
  BY <1>1 DEF TypeOK
<1> QED
  BY <1>1, <1>2
-----------------------------------------------------------------------------
LEMMA InitIInv == Init => IInv
<1> SUFFICES ASSUME Init PROVE IInv
  OBVIOUS
<1>1. TypeOK
  BY DEF Init, TypeOK
<1> QED
  BY <1>1 DEF Init, IInv, SameKind, SplitSoFar, PartsSoFar, Searched,
              WalkedSoFar, Result

\* Steps between the loops.
LEMMA OutsideIInv ==
  ASSUME IInv, Change \/ CallFails \/ Again \/ GetConfig \/ GetInterfaces
  PROVE  IInv'
<1>1. CASE Change
  <2>1. TypeOK' /\ SameKind'
    BY <1>1, ConfTypes DEF Change, IInv, TypeOK, SameKind, Guests
  <2> QED
    BY <1>1, <2>1
       DEF Change, IInv, SplitSoFar, PartsSoFar, Searched, WalkedSoFar, Result
<1>2. CASE CallFails
  <2>1. TypeOK' /\ SameKind'
    BY <1>2 DEF CallFails, IInv, TypeOK, SameKind
  <2> QED
    BY <1>2, <2>1 DEF CallFails, IInv, SplitSoFar, PartsSoFar, Searched,
                      WalkedSoFar, Result
<1>3. CASE Again
  <2>1. TypeOK' /\ SameKind'
    BY <1>3 DEF Again, IInv, TypeOK, SameKind
  <2> QED
    BY <1>3, <2>1 DEF Again, IInv, SplitSoFar, PartsSoFar, Searched,
                      WalkedSoFar, Result
<1>4. CASE GetConfig
  <2>1. TypeOK' /\ SameKind'
    BY <1>4, ConfTypes DEF GetConfig, IInv, TypeOK, SameKind
  <2>2. Parts' \in Seq(Setting) /\ at' = 1 /\ hw' = Empty /\ found' = {}
    BY <1>4, <2>1, PartsType, ConfTypes
       DEF GetConfig, IInv, TypeOK, SameKind, Parts, Searched
  <2>3. SplitSoFar'
    <3>1. kvs' = <<>>
      BY <1>4 DEF GetConfig, IInv, Searched
    <3>2. at' - 1 = 0 /\ Len(Parts') \in Nat
      BY <2>2
    <3> QED
      BY <2>2, <3>1, <3>2, LastOfNone DEF SplitSoFar, ValueOf
  <2>4. PartsSoFar'
    BY <1>4, <2>2, LastOfNone DEF GetConfig, PartsSoFar
  <2> QED
    BY <1>4, <2>1, <2>2, <2>3, <2>4
       DEF GetConfig, IInv, Searched, WalkedSoFar, Result
<1>5. CASE GetInterfaces
  <2>1. TypeOK' /\ SameKind'
    BY <1>5, ConfTypes DEF GetInterfaces, IInv, TypeOK, SameKind
  <2>2. WalkedSoFar'
    <3>1. seen' \in Seq(AgentInterface) \cup Seq(LXCInterface)
      BY <2>1 DEF TypeOK
    <3>2. Len(seen') \in Nat
      BY <3>1
    <3>3. at' = 1 /\ at' - 1 = 0 /\ found' = {}
      BY <1>5 DEF GetInterfaces, IInv, Searched
    <3>4. Gathered(at - 1)' = {}
      BY <3>3 DEF Gathered
    <3> QED
      BY <3>2, <3>3, <3>4 DEF WalkedSoFar
  <2> QED
    BY <1>5, <2>1, <2>2 DEF GetInterfaces, IInv, SplitSoFar, PartsSoFar,
                            Searched, Result
<1> QED
  BY <1>1, <1>2, <1>3, <1>4, <1>5

\* Splitting a setting.
LEMMA SplitIInv ==
  ASSUME IInv, SplitPart \/ IPConfigSplit \/ NetSplit
  PROVE  IInv'
<1>0. /\ pc \in {"ipconfig0", "net0"} /\ conf \in VMs
      /\ Parts \in Seq(Setting) /\ Len(Parts) \in Nat /\ at \in Nat \ {0}
      /\ at <= Len(Parts) => Parts[at] \in Setting
  BY PartsType
     DEF SplitPart, IPConfigSplit, NetSplit, IInv, SameKind, TypeOK
<1>1. CASE SplitPart
  <2> DEFINE part == Parts[at]
  <2>1. part \in Setting /\ at <= Len(Parts)
    BY <1>0, <1>1 DEF SplitPart
  <2>2. TypeOK' /\ SameKind'
    BY <1>0, <1>1, <2>1 DEF SplitPart, IInv, TypeOK, SameKind, Put, Setting
  <2>3. SplitSoFar'
    <3>1. Parts' = Parts /\ pc' = pc /\ at' = at + 1
      BY <1>1 DEF SplitPart, Parts
    <3> SUFFICES ASSUME NEW key \in Keys
                 PROVE  LastOf(Parts, at, key) = ValueOf(key)'
      BY <1>0, <2>1, <3>1 DEF SplitSoFar
    <3>2. LastOf(Parts, at - 1, key) = ValueOf(key)
      BY <1>0 DEF IInv, SplitSoFar
    <3>3. LastOf(Parts, at, key) =
            IF part.key = key THEN {part.value} ELSE LastOf(Parts, at - 1, key)
      <4>1. at - 1 \in Nat /\ (at - 1) + 1 = at
        BY <1>0
      <4> QED
        BY <4>1, LastOfNext
    <3> QED
      BY <1>1, <3>2, <3>3 DEF SplitPart, Put, ValueOf
  <2> QED
    BY <1>0, <1>1, <2>2, <2>3
       DEF SplitPart, IInv, PartsSoFar, Searched, WalkedSoFar, Result
<1>2. CASE IPConfigSplit
  <2>1. /\ pc = "ipconfig0" /\ Parts = conf.ipconfig0
        /\ at - 1 = Len(conf.ipconfig0)
    BY <1>0, <1>2 DEF IPConfigSplit, Parts
  <2>2. LastOf(conf.ipconfig0, Len(conf.ipconfig0), "ip") = ValueOf("ip")
    BY <1>0, <2>1 DEF IInv, SplitSoFar, Keys
  <2>3. StaticOf(conf) = IF "ip" \in DOMAIN kvs THEN Static(kvs["ip"]) ELSE {}
    BY <1>0, <2>2 DEF StaticOf, ValueOf
  <2>4. TypeOK' /\ SameKind'
    BY <1>0, <1>2, AddrsAreFound DEF IPConfigSplit, IInv, TypeOK, SameKind
  <2>5. SplitSoFar'
    <3> SUFFICES ASSUME pc' = "net0" PROVE SplitSoFar'
      BY <1>2 DEF IPConfigSplit, SplitSoFar
    <3>1. at' = 1 /\ kvs' = <<>>
      BY <1>2 DEF IPConfigSplit
    <3>2. Len(Parts') \in Nat
      BY <2>4, PartsType, <1>0, <1>2, ConfTypes DEF IPConfigSplit, Parts
    <3> QED
      BY <3>1, <3>2, LastOfNone DEF SplitSoFar, ValueOf
  <2> QED
    BY <1>0, <1>2, <2>1, <2>3, <2>4, <2>5
       DEF IPConfigSplit, IInv, PartsSoFar, Searched, WalkedSoFar, Result,
           StaticOf
<1>3. CASE NetSplit
  <2>1. /\ pc = "net0" /\ Parts = conf.net0 /\ at - 1 = Len(conf.net0)
    BY <1>0, <1>3 DEF NetSplit, Parts
  <2>2. /\ Configured(conf, "macaddr") = ValueOf("macaddr")
        /\ Configured(conf, "virtio") = ValueOf("virtio")
    BY <1>0, <2>1 DEF IInv, SplitSoFar, Keys, Configured
  <2>3. HardwareOf(conf) = {hw'} \ {Empty}
    BY <1>0, <1>3, <2>2, ConfTypes
       DEF NetSplit, Hardware, HardwareOf, ValueOf, IInv, TypeOK
  <2>4. TypeOK' /\ SameKind'
    BY <1>0, <1>3 DEF NetSplit, Hardware, IInv, TypeOK, SameKind
  <2>5. HardwareOf(conf)' = HardwareOf(conf) /\ StaticOf(conf)' = StaticOf(conf)
    BY <1>3 DEF NetSplit, HardwareOf, StaticOf, Configured
  <2> QED
    BY <1>0, <1>3, <2>1, <2>3, <2>4, <2>5
       DEF NetSplit, IInv, SplitSoFar, PartsSoFar, Searched, WalkedSoFar, Result
<1> QED
  BY <1>1, <1>2, <1>3
-----------------------------------------------------------------------------
\* The parts of a container's net0.
LEMMA LXCIInv ==
  ASSUME IInv, LXCPart \/ LXCPartsEnd
  PROVE  IInv'
<1>0. /\ pc = "parts" /\ conf \in Containers /\ conf \notin VMs
      /\ Parts = conf.net0
      /\ Parts \in Seq(Setting) /\ Len(Parts) \in Nat /\ at \in Nat \ {0}
      /\ at <= Len(Parts) => Parts[at] \in Setting
  BY PartsType, ConfTypes
     DEF LXCPart, LXCPartsEnd, Parts, IInv, SameKind, TypeOK
<1>1. CASE LXCPart
  <2> DEFINE part == Parts[at]
  <2>1. part \in Setting /\ at <= Len(Parts)
    BY <1>0, <1>1 DEF LXCPart
  <2>2. CASE ReturnStatic(part)
    <3>1. FirstStatic(Parts, Len(Parts)) = Static(part.value)
      <4>1. at \in 1..Len(Parts) /\ part.key = "ip" /\ Static(part.value) # {}
        BY <1>0, <2>1, <2>2 DEF ReturnStatic
      <4>2. \A k \in 1..at - 1 :
              Parts[k].key = "ip" => Static(Parts[k].value) = {}
        BY <1>0 DEF IInv, PartsSoFar
      <4> QED
        BY <1>0, <4>1, <4>2, FirstStaticIs
    <3>2. StaticOf(conf)' = Static(part.value)
      BY <1>0, <1>1, <3>1 DEF LXCPart, StaticOf
    <3>3. TypeOK' /\ SameKind'
      BY <1>0, <1>1, <2>2, AddrsAreFound
         DEF LXCPart, ReturnStatic, IInv, TypeOK, SameKind
    <3> QED
      BY <1>0, <1>1, <2>2, <3>2, <3>3
         DEF LXCPart, ReturnStatic, IInv, SplitSoFar, PartsSoFar, Searched,
             WalkedSoFar, Result
  <2>3. CASE NextPart(part)
    <3>1. TypeOK' /\ SameKind'
      BY <1>0, <1>1, <2>1, <2>3
         DEF LXCPart, NextPart, IInv, TypeOK, SameKind, Setting
    <3>2. /\ Parts' = Parts /\ pc' = pc /\ at' = at + 1
          /\ part.key = "ip" => Static(part.value) = {}
          /\ hw' = IF part.key = "hwaddr" THEN part.value ELSE hw
      BY <1>1, <2>3 DEF LXCPart, NextPart, Parts
    <3>3. LastOf(Parts, at, "hwaddr") \ {Empty} = {hw'} \ {Empty}
      <4>1. at - 1 \in Nat /\ (at - 1) + 1 = at
        BY <1>0
      <4>2. LastOf(Parts, at, "hwaddr") =
              IF part.key = "hwaddr" THEN {part.value}
              ELSE LastOf(Parts, at - 1, "hwaddr")
        BY <4>1, LastOfNext
      <4> QED
        BY <1>0, <3>2, <4>2 DEF IInv, PartsSoFar
    <3>4. \A j \in 1..at : Parts[j].key = "ip" => Static(Parts[j].value) = {}
      <4> SUFFICES ASSUME NEW j \in 1..at PROVE
                     Parts[j].key = "ip" => Static(Parts[j].value) = {}
        OBVIOUS
      <4>1. CASE j = at
        BY <3>2, <4>1
      <4>2. CASE j # at
        <5>1. j \in 1..at - 1
          BY <1>0, <4>2
        <5> QED
          BY <1>0, <5>1 DEF IInv, PartsSoFar
      <4> QED
        BY <4>1, <4>2
    <3>5. PartsSoFar'
      <4>1. at' - 1 = at /\ at' <= Len(Parts) + 1
        BY <1>0, <2>1, <3>2
      <4> QED
        BY <3>2, <3>3, <3>4, <4>1 DEF PartsSoFar
    <3> QED
      BY <1>0, <1>1, <2>3, <3>1, <3>2, <3>5
         DEF LXCPart, NextPart, IInv, SplitSoFar, Searched, WalkedSoFar, Result
  <2> QED
    BY <1>1, <2>2, <2>3 DEF LXCPart
<1>2. CASE LXCPartsEnd
  <2>1. at - 1 = Len(Parts)
    BY <1>0, <1>2 DEF LXCPartsEnd
  <2>2. StaticOf(conf) = {}
    BY <1>0, <2>1, NoFirstStatic DEF StaticOf, IInv, PartsSoFar
  <2>3. HardwareOf(conf) = {hw} \ {Empty}
    BY <1>0, <2>1 DEF HardwareOf, Configured, IInv, PartsSoFar
  <2>4. TypeOK' /\ SameKind'
    BY <1>0, <1>2 DEF LXCPartsEnd, IInv, TypeOK, SameKind
  <2>5. HardwareOf(conf)' = HardwareOf(conf) /\ StaticOf(conf)' = StaticOf(conf)
    BY <1>2 DEF LXCPartsEnd, HardwareOf, StaticOf, Configured
  <2> QED
    BY <1>0, <1>2, <2>2, <2>3, <2>4, <2>5
       DEF LXCPartsEnd, IInv, SplitSoFar, PartsSoFar, Searched, WalkedSoFar,
           Result
<1> QED
  BY <1>1, <1>2

\* The walk over the interfaces.
LEMMA WalkIInv ==
  ASSUME IInv, WalkInterface \/ WalkEnds
  PROVE  IInv'
<1>0. /\ pc = "walk" /\ seen \in Seq(AgentInterface) \cup Seq(LXCInterface)
      /\ at \in Nat \ {0}
  BY DEF WalkInterface, WalkEnds, IInv, TypeOK
<1>1. Len(seen) \in Nat
  BY <1>0
<1>2. UNCHANGED <<conf, seen, hw>>
  BY DEF WalkInterface, WalkEnds
<1>3. \A n : Gathered(n)' = Gathered(n)
  BY <1>2, GatheredSame
<1>4. HardwareOf(conf)' = HardwareOf(conf) /\ StaticOf(conf)' = StaticOf(conf)
  BY <1>2 DEF HardwareOf, StaticOf, Configured
<1>5. CASE WalkInterface
  <2>1. /\ found' \subseteq found \cup AddrsOf(seen[at])
        /\ found' = IF seen[at].name # "lo" /\ RightHardware(seen[at])
                    THEN found \cup AddrsOf(seen[at]) ELSE found
    BY <1>5 DEF WalkInterface
  <2>2. TypeOK' /\ SameKind'
    BY <1>0, <1>5, <2>1, AddrsAreFound DEF WalkInterface, IInv, TypeOK, SameKind
  <2>3. WalkedSoFar'
    <3>1. at - 1 \in Nat /\ (at - 1) + 1 = at /\ at' - 1 = at
      BY <1>0, <1>5 DEF WalkInterface
    <3>2. found' = Gathered(at)
      BY <2>1, <1>0, <3>1, GatheredNext DEF IInv, WalkedSoFar
    <3> QED
      <4>1. seen' = seen /\ at' <= Len(seen) + 1
        BY <1>0, <1>1, <1>5 DEF WalkInterface
      <4>2. Gathered(at - 1)' = Gathered(at)
        BY <1>2, <3>1 DEF Gathered, RightHardware, AddrsOf
      <4> QED
        BY <3>2, <4>1, <4>2 DEF WalkedSoFar
  <2> QED
    BY <1>0, <1>2, <1>4, <1>5, <2>2, <2>3
       DEF WalkInterface, IInv, SplitSoFar, PartsSoFar, Searched, Result
<1>6. CASE WalkEnds
  <2>1. found = Gathered(Len(seen))
    <3>1. at - 1 = Len(seen)
      BY <1>0, <1>1, <1>6 DEF WalkEnds
    <3> QED
      BY <1>0, <3>1 DEF IInv, WalkedSoFar
  <2>2. TypeOK' /\ SameKind'
    BY <1>0, <1>6 DEF WalkEnds, IInv, TypeOK, SameKind
  <2>3. Result'
    <3>1. found' = Gathered(Len(seen))'
      BY <1>2, <1>3, <1>6, <2>1 DEF WalkEnds
    <3> QED
      BY <1>0, <1>2, <1>4, <3>1 DEF Result, IInv, Searched
  <2> QED
    BY <1>0, <1>6, <2>2, <2>3
       DEF WalkEnds, IInv, SplitSoFar, PartsSoFar, Searched, WalkedSoFar
<1> QED
  BY <1>5, <1>6

\* A stuttering step.
LEMMA StutterIInv == ASSUME IInv, UNCHANGED vars PROVE IInv'
<1>1. TypeOK' /\ SameKind'
  BY DEF vars, IInv, TypeOK, SameKind
<1>2. \A n : Gathered(n)' = Gathered(n)
  BY GatheredSame DEF vars
<1>3. HardwareOf(conf)' = HardwareOf(conf) /\ StaticOf(conf)' = StaticOf(conf)
  BY DEF vars, HardwareOf, StaticOf, Configured
<1>4. SplitSoFar' /\ PartsSoFar'
  BY DEF vars, IInv, SplitSoFar, PartsSoFar, Parts, ValueOf
<1> QED
  BY <1>1, <1>2, <1>3, <1>4
     DEF vars, IInv, Searched, WalkedSoFar, Result

LEMMA NextIInv == IInv /\ [Next]_vars => IInv'
BY OutsideIInv, SplitIInv, LXCIInv, WalkIInv, StutterIInv DEF Next

THEOREM Invariance == Spec => []IInv
BY InitIInv, NextIInv, PTL DEF Spec
-----------------------------------------------------------------------------
\* The program's state keeps its types.
THEOREM TypeCorrect == Spec => []TypeOK
<1>1. IInv => TypeOK
  BY DEF IInv
<1> QED
  BY <1>1, Invariance, PTL

\* A static address is the only one, wherever in the configuration it stands
\* (inventory.go:433-442, 507-518).
THEOREM StaticAddressIsAlone == Spec => []StaticAddressAlone
<1>1. IInv => StaticAddressAlone
  BY DEF IInv, Result, StaticAddressAlone
<1> QED
  BY <1>1, Invariance, PTL

\* No other interface's address is taken for the guest's
\* (inventory.go:472, 550).
THEOREM FindsOnlyOwnAddresses == Spec => []OnlyOwnAddresses
<1>1. ASSUME IInv PROVE OnlyOwnAddresses
  <2> SUFFICES ASSUME pc = "done", StaticOf(conf) = {}, NEW a \in found
               PROVE  \E i \in 1..Len(seen) :
                        /\ a \in Reported(seen[i]) /\ seen[i].name # "lo"
                        /\ \A h \in HardwareOf(conf) : EqualFold(seen[i].hw, h)
    BY DEF OnlyOwnAddresses
  <2>1. HardwareOf(conf) = {hw} \ {Empty} /\ found = Gathered(Len(seen))
    BY <1>1 DEF IInv, Result
  <2>2. PICK i \in 1..Len(seen) : /\ seen[i].name # "lo"
                                  /\ RightHardware(seen[i])
                                  /\ a \in AddrsOf(seen[i])
    BY <2>1 DEF Gathered
  <2>3. a \in Reported(seen[i])
    BY <2>2 DEF AddrsOf, AddrsLXC, Reported
  <2>4. \A h \in HardwareOf(conf) : EqualFold(seen[i].hw, h)
    BY <2>1, <2>2 DEF RightHardware, EqualFold
  <2> QED
    BY <2>2, <2>3, <2>4
<1> QED
  BY <1>1, Invariance, PTL

\* Nor is one of its own missed (inventory.go:466-492, 542-573).
THEOREM MissesNoAddress == Spec => []NoAddressMissed
<1>1. ASSUME IInv PROVE NoAddressMissed
  <2> SUFFICES ASSUME pc = "done", StaticOf(conf) = {},
                      NEW i \in 1..Len(seen), seen[i].name # "lo",
                      \A h \in HardwareOf(conf) :
                        IF conf \in VMs THEN seen[i].hw = h
                        ELSE EqualFold(seen[i].hw, h),
                      ~ (/\ conf \in Containers
                         /\ Static(seen[i].inet) = {} /\ seen[i].inet # Empty)
               PROVE  Reported(seen[i]) \subseteq found
    BY DEF NoAddressMissed
  <2>1. HardwareOf(conf) = {hw} \ {Empty} /\ found = Gathered(Len(seen))
    BY <1>1 DEF IInv, Result
  <2>2. RightHardware(seen[i])
    BY <2>1 DEF RightHardware
  <2>3. AddrsOf(seen[i]) \subseteq found
    BY <2>1, <2>2 DEF Gathered
  <2>4. Reported(seen[i]) = AddrsOf(seen[i])
    BY <1>1, ConfTypes DEF Reported, AddrsOf, AddrsLXC, IInv, TypeOK
  <2> QED
    BY <2>3, <2>4
<1> QED
  BY <1>1, Invariance, PTL
-----------------------------------------------------------------------------
(***************************************************************************)
(* When a guest is found at all.  A VM may be missed (the run              *)
(* MCAddressesCase), but only where agent and configuration disagree about *)
(* the case of letters.                                                    *)
(***************************************************************************)
\* No VM's agent writes a configured hardware address in another case.
CaseAgrees ==
  \A c, d \in VMs : \A i \in 1..Len(d.interfaces), h \in HardwareOf(c) :
    EqualFold(d.interfaces[i].hw, h) => d.interfaces[i].hw = h

\* What was seen are interfaces a guest of its kind may have.
Origin ==
  seen # <<>> =>
    \E d \in Guests : (d \in VMs <=> conf \in VMs) /\ seen = d.interfaces

LEMMA InitOrigin == Init => Origin
BY DEF Init, Origin

LEMMA NextOrigin == IInv /\ Origin /\ [Next]_vars => Origin'
<1> SUFFICES ASSUME IInv, Origin, [Next]_vars PROVE Origin'
  OBVIOUS
<1>1. CASE GetInterfaces
  <2>1. guest \in Guests /\ (guest \in VMs <=> conf \in VMs)
    BY DEF IInv, TypeOK, SameKind
  <2> QED
    BY <1>1, <2>1 DEF GetInterfaces, Origin
<1>2. CASE GetConfig
  BY <1>2 DEF GetConfig, Origin, IInv, SameKind
<1>3. CASE Again
  BY <1>3 DEF Again, Origin
<1>4. CASE UNCHANGED <<conf, seen>>
  BY <1>4 DEF Origin
<1> QED
  BY <1>1, <1>2, <1>3, <1>4
     DEF Next, Change, CallFails, SplitPart, IPConfigSplit, NetSplit, LXCPart,
         LXCPartsEnd, WalkInterface, WalkEnds, vars

LEMMA OriginHolds == Spec => []Origin
BY InitOrigin, NextOrigin, Invariance, PTL DEF Spec

\* A guest whose configured interface reports an address is found with one
\* (inventory.go:459) wherever agents write hardware addresses as the
\* configurations do; that of a container may be written in any case.
THEOREM FindsWhereCaseAgrees ==
  ASSUME CaseAgrees
  PROVE  Spec => []FindsConfiguredInterface
<1>1. ASSUME IInv, Origin PROVE FindsConfiguredInterface
  <2> SUFFICES ASSUME pc = "done", StaticOf(conf) = {},
                      NEW i \in 1..Len(seen), NEW h \in HardwareOf(conf),
                      seen[i].name # "lo", EqualFold(seen[i].hw, h),
                      AddrsOf(seen[i]) # {}
               PROVE  found # {}
    BY DEF FindsConfiguredInterface
  <2>1. HardwareOf(conf) = {hw} \ {Empty} /\ found = Gathered(Len(seen))
    BY <1>1 DEF IInv, Result
  <2>2. h = hw
    BY <2>1
  <2>3. conf \in VMs => seen[i].hw = hw
    <3> SUFFICES ASSUME conf \in VMs PROVE seen[i].hw = hw
      OBVIOUS
    <3>1. seen # <<>>
      OBVIOUS
    <3>2. PICK d \in VMs : seen = d.interfaces
      BY <1>1, <3>1 DEF Origin
    <3> QED
      BY <2>2, <3>2, CaseAgrees DEF CaseAgrees
  <2>4. RightHardware(seen[i])
    BY <2>2, <2>3 DEF RightHardware
  <2>5. AddrsOf(seen[i]) \subseteq found
    BY <2>1, <2>4 DEF Gathered
  <2> QED
    BY <2>5
<1> QED
  BY <1>1, Invariance, OriginHolds, PTL
=============================================================================
