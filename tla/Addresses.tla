------------------------------ MODULE Addresses ------------------------------
(***************************************************************************)
(* How the addresses of one guest are found: from the static address in    *)
(* its configuration or, without one, from the network interfaces that its *)
(* agent (for a VM) or its node (for a container) reports, where only the  *)
(* interface with the configured hardware address counts.  The guest may   *)
(* be reconfigured between the two requests.                               *)
(***************************************************************************)
EXTENDS Naturals, Sequences

CONSTANTS
  ParsePrefix,  \* the address in each text netip.ParsePrefix accepts
  ParseAddr,    \* the address each text netip.ParseAddr accepts stands for
  Fold,         \* each hardware address, its letters in one case
  VMs,          \* what a VM may have: its configuration and interfaces
  Containers    \* likewise

\* A field that is missing, or that was given no value.
Empty == ""

Setting == [key : STRING, value : STRING]
AgentInterface ==
  [name : STRING, hw : STRING, addrs : SUBSET [type : STRING, text : STRING]]
LXCInterface == [name : STRING, hw : STRING, inet : STRING, inet6 : STRING]
QEMU == [ipconfig0 : Seq(Setting), net0 : Seq(Setting),
         interfaces : Seq(AgentInterface)]
LXC == [net0 : Seq(Setting), interfaces : Seq(LXCInterface)]

Guests == VMs \cup Containers

ASSUME GuestsAssumption ==
  /\ VMs \subseteq QEMU /\ Containers \subseteq LXC /\ VMs \cap Containers = {}
  /\ "dhcp" \notin DOMAIN ParsePrefix

VARIABLES
  pc,     \* "config" (about to be asked for), "ipconfig0" and "net0" (a VM's
          \* settings), "parts" (a container's net0), "ask" (for the
          \* interfaces), "walk" (over them), "done", "failed"
  guest,  \* the guest as it is now
  conf,   \* the guest when its configuration was read
  seen,   \* its interfaces when they were read
  kvs,    \* the map splitKVs is filling
  hw,     \* hwAddr
  at,     \* index of the part or interface the loop is at
  found   \* addrs, or the static address

vars == <<pc, guest, conf, seen, kvs, hw, at, found>>

Found == {ParsePrefix[text] : text \in DOMAIN ParsePrefix} \cup
         {ParseAddr[text] : text \in DOMAIN ParseAddr}

TypeOK ==
  /\ pc \in {"config", "ipconfig0", "net0", "parts", "ask", "walk", "done",
             "failed"}
  /\ guest \in Guests /\ conf \in Guests
  /\ seen \in Seq(AgentInterface) \cup Seq(LXCInterface)
  /\ DOMAIN kvs \subseteq STRING /\ \A key \in DOMAIN kvs : kvs[key] \in STRING
  /\ hw \in STRING \cup {Empty} /\ at \in Nat \ {0} /\ found \subseteq Found

Init ==
  /\ pc = "config" /\ guest \in Guests /\ conf = guest
  /\ seen = <<>> /\ kvs = <<>> /\ hw = Empty /\ at = 1 /\ found = {}
-----------------------------------------------------------------------------
(***************************************************************************)
(* The configuration: comma-separated parts key=value.                     *)
(***************************************************************************)
\* The address of a static setting, if it is one.
Static(text) ==
  IF text \in DOMAIN ParsePrefix THEN {ParsePrefix[text]} ELSE {}

\* The setting that is being split.
Parts == IF pc = "ipconfig0" THEN conf.ipconfig0 ELSE conf.net0

\* The guest is reconfigured, or its interfaces change.
Change ==
  /\ pc = "ask"
  /\ guest' \in (IF guest \in VMs THEN VMs ELSE Containers) \ {guest}
  /\ UNCHANGED <<pc, conf, seen, kvs, hw, at, found>>

CallFails ==
  /\ pc \in {"config", "ask"}
  /\ pc' = "failed"
  /\ UNCHANGED <<guest, conf, seen, kvs, hw, at, found>>

GetConfig ==
  /\ pc = "config"
  /\ conf' = guest
  /\ pc' = IF guest \in VMs THEN "ipconfig0" ELSE "parts"
  /\ at' = 1
  /\ UNCHANGED <<guest, seen, kvs, hw, found>>

\* Mutant: a key that is there already is kept.
KeepFirst(part) ==
  [key \in DOMAIN kvs \cup {part.key} |->
     IF key \in DOMAIN kvs THEN kvs[key] ELSE part.value]

\* A later part with the same key overwrites an earlier one.
Put(part) ==
  [key \in DOMAIN kvs \cup {part.key} |->
     IF key = part.key THEN part.value ELSE kvs[key]]

SplitPart ==
  /\ pc \in {"ipconfig0", "net0"}
  /\ at <= Len(Parts)
  /\ kvs' = Put(Parts[at]) /\ at' = at + 1
  /\ UNCHANGED <<pc, guest, conf, seen, hw, found>>

\* A static address that can be read is returned.
IPConfigSplit ==
  /\ pc = "ipconfig0" /\ at = Len(Parts) + 1
  /\ IF "ip" \in DOMAIN kvs /\ Static(kvs["ip"]) # {}
     THEN found' = Static(kvs["ip"]) /\ pc' = "done" /\ UNCHANGED <<kvs, at>>
     ELSE pc' = "net0" /\ kvs' = <<>> /\ at' = 1 /\ UNCHANGED found
  /\ UNCHANGED <<guest, conf, seen, hw>>

\* The first of the keys "macaddr" and "virtio" that is there.
Hardware ==
  IF "macaddr" \in DOMAIN kvs THEN kvs["macaddr"]
  ELSE IF "virtio" \in DOMAIN kvs THEN kvs["virtio"] ELSE Empty

NetSplit ==
  /\ pc = "net0" /\ at = Len(Parts) + 1
  /\ hw' = Hardware /\ pc' = "ask"
  /\ UNCHANGED <<guest, conf, seen, kvs, at, found>>

\* Mutant: no return, the loop goes on behind the static address.
NoteStatic(part) ==
  /\ part.key = "ip" /\ Static(part.value) # {}
  /\ found' = Static(part.value) /\ at' = at + 1
  /\ UNCHANGED <<pc, hw>>

\* A static address ends the loop and the function ("dhcp" is none).
ReturnStatic(part) ==
  /\ part.key = "ip" /\ Static(part.value) # {}
  /\ found' = Static(part.value) /\ pc' = "done"
  /\ UNCHANGED <<hw, at>>

NextPart(part) ==
  /\ part.key = "ip" => Static(part.value) = {}
  /\ hw' = IF part.key = "hwaddr" THEN part.value ELSE hw
  /\ at' = at + 1
  /\ UNCHANGED <<pc, found>>

LXCPart ==
  /\ pc = "parts" /\ at <= Len(Parts)
  /\ ReturnStatic(Parts[at]) \/ NextPart(Parts[at])
  /\ UNCHANGED <<guest, conf, seen, kvs>>

LXCPartsEnd ==
  /\ pc = "parts" /\ at = Len(Parts) + 1
  /\ pc' = "ask"
  /\ UNCHANGED <<guest, conf, seen, kvs, hw, at, found>>
-----------------------------------------------------------------------------
(***************************************************************************)
(* The interfaces.                                                         *)
(***************************************************************************)
GetInterfaces ==
  /\ pc = "ask"
  /\ seen' = guest.interfaces
  /\ at' = 1 /\ pc' = "walk"
  /\ UNCHANGED <<guest, conf, kvs, hw, found>>

EqualFold(x, y) == Fold[x] = Fold[y]

\* Mutant: the hardware address is not looked at.
AnyHardware(iface) == TRUE

\* For a VM the hardware addresses are compared exactly, for a container
\* regardless of case.
RightHardware(iface) ==
  \/ hw = Empty
  \/ IF conf \in VMs THEN iface.hw = hw ELSE EqualFold(iface.hw, hw)

\* Addresses of another type or that do not parse are passed over.
AddrsVM(iface) ==
  {ParseAddr[a.text] :
     a \in {b \in iface.addrs : /\ b.type \in {"ipv4", "ipv6"}
                                /\ b.text \in DOMAIN ParseAddr}}

\* An IPv4 address that does not parse hides the IPv6 address.
AddrsLXC(iface) ==
  IF iface.inet # Empty /\ Static(iface.inet) = {} THEN {}
  ELSE Static(iface.inet) \cup Static(iface.inet6)

AddrsOf(iface) == IF conf \in VMs THEN AddrsVM(iface) ELSE AddrsLXC(iface)

\* Mutant: the loop ends at the interface it was looking for.
StopAtMatch ==
  /\ pc = "walk" /\ at <= Len(seen)
  /\ IF seen[at].name # "lo" /\ RightHardware(seen[at])
     THEN found' = AddrsOf(seen[at]) /\ pc' = "done" /\ UNCHANGED at
     ELSE at' = at + 1 /\ UNCHANGED <<found, pc>>
  /\ UNCHANGED <<guest, conf, seen, kvs, hw>>

WalkInterface ==
  /\ pc = "walk" /\ at <= Len(seen)
  /\ found' = IF seen[at].name # "lo" /\ RightHardware(seen[at])
              THEN found \cup AddrsOf(seen[at])
              ELSE found
  /\ at' = at + 1
  /\ UNCHANGED <<pc, guest, conf, seen, kvs, hw>>

WalkEnds ==
  /\ pc = "walk" /\ at = Len(seen) + 1
  /\ pc' = "done"
  /\ UNCHANGED <<guest, conf, seen, kvs, hw, at, found>>

\* The next update asks again.
Again ==
  /\ pc \in {"done", "failed"}
  /\ pc' = "config" /\ conf' = guest
  /\ seen' = <<>> /\ kvs' = <<>> /\ hw' = Empty /\ at' = 1 /\ found' = {}
  /\ UNCHANGED guest
-----------------------------------------------------------------------------
Next ==
  \/ Change \/ CallFails \/ Again
  \/ GetConfig \/ SplitPart \/ IPConfigSplit \/ NetSplit
  \/ LXCPart \/ LXCPartsEnd
  \/ GetInterfaces \/ WalkInterface \/ WalkEnds

Spec == Init /\ [][Next]_vars
-----------------------------------------------------------------------------
(***************************************************************************)
(* Safety.                                                                 *)
(***************************************************************************)
\* The value of the last of the first n parts with a key, if there is one.
LastOf(parts, n, key) ==
  {parts[i].value : i \in {j \in 1..n :
     parts[j].key = key /\ \A k \in j + 1..n : parts[k].key # key}}

\* The first of the first n addresses among the values of "ip".
FirstStatic(parts, n) ==
  UNION {Static(parts[i].value) : i \in {j \in 1..n :
     /\ parts[j].key = "ip"
     /\ \A k \in 1..j - 1 : parts[k].key = "ip" => Static(parts[k].value) = {}}}

\* The static address of a guest: the last setting of a VM, the first one of a
\* container that is an address.
StaticOf(c) ==
  IF c \in VMs
  THEN UNION {Static(text) :
                text \in LastOf(c.ipconfig0, Len(c.ipconfig0), "ip")}
  ELSE FirstStatic(c.net0, Len(c.net0))

\* Its hardware address, if its configuration has one in the expected form.
Configured(c, key) == LastOf(c.net0, Len(c.net0), key)
HardwareOf(c) ==
  (IF c \in Containers THEN Configured(c, "hwaddr")
   ELSE IF Configured(c, "macaddr") # {} THEN Configured(c, "macaddr")
   ELSE Configured(c, "virtio")) \ {Empty}

\* What an interface reports, readable or not in its other address.
Reported(iface) ==
  IF conf \in VMs THEN AddrsVM(iface)
  ELSE Static(iface.inet) \cup Static(iface.inet6)

\* A guest with a static address has that one, wherever in its configuration
\* it stands, and none of those its interfaces report (inventory.go:433-442,
\* 507-518).
StaticAddressAlone ==
  pc = "done" /\ StaticOf(conf) # {} => found = StaticOf(conf)

\* No address of another interface of the guest (a bridge, a tunnel, the
\* loopback) is taken for the guest's when its hardware address is configured,
\* although that is looked up in one request and the interfaces are listed by
\* a later one (inventory.go:472, 550).
OnlyOwnAddresses ==
  pc = "done" /\ StaticOf(conf) = {} =>
    \A a \in found : \E i \in 1..Len(seen) :
      /\ a \in Reported(seen[i]) /\ seen[i].name # "lo"
      /\ \A h \in HardwareOf(conf) : EqualFold(seen[i].hw, h)

\* No address is missed: neither one of several on the interface nor one on
\* several interfaces of the same hardware address (VLANs), unless a
\* container's interface has an unreadable IPv4 address, or the letters of the
\* hardware address of a VM are in another case.
NoAddressMissed ==
  pc = "done" /\ StaticOf(conf) = {} =>
    \A i \in 1..Len(seen) :
      /\ seen[i].name # "lo"
      /\ \A h \in HardwareOf(conf) :
           IF conf \in VMs THEN seen[i].hw = h ELSE EqualFold(seen[i].hw, h)
      => \/ Reported(seen[i]) \subseteq found
         \/ /\ conf \in Containers
            /\ Static(seen[i].inet) = {} /\ seen[i].inet # Empty

\* A guest whose configured interface reports an address is found with one
\* ("fetch and return all non-localhost IP addresses from the QEMU guest, if
\* any", inventory.go:459).
FindsConfiguredInterface ==
  pc = "done" /\ StaticOf(conf) = {} =>
    \A i \in 1..Len(seen), h \in HardwareOf(conf) :
      /\ seen[i].name # "lo" /\ EqualFold(seen[i].hw, h)
      /\ AddrsOf(seen[i]) # {}
      => found # {}
=============================================================================
