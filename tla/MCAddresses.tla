----------------------------- MODULE MCAddresses -----------------------------
(* Small configurations and interfaces for TLC. *)
EXTENDS Addresses, TLC

Prefixes == "a/24" :> "a" @@ "b/24" :> "b" @@ "c/64" :> "c"
Plain == "a" :> "a" @@ "b" :> "b" @@ "c" :> "c" @@ "l" :> "l"

\* Two hardware addresses, one of them written in both cases.
Lower == "ee" :> "ee" @@ "EE" :> "ee" @@ "11" :> "11" @@ "" :> ""

Set(key, value) == [key |-> key, value |-> value]
bridge == Set("bridge", "vmbr0")

\* Nothing; a static address; twice the same key, the last one no address and
\* the other way round; an address by DHCP.
Settings ==
  {<<>>, <<Set("ip", "a/24")>>, <<Set("ip", "dhcp")>>,
   <<Set("ip", "a/24"), Set("ip", "a")>>, <<Set("ip", "a"), Set("ip", "b/24")>>}

VMNets ==
  {<<bridge>>, <<Set("virtio", "EE"), bridge>>,
   <<Set("virtio", "11"), Set("macaddr", "EE")>>}

Agent(name, hardware, addrs) ==
  [name |-> name, hw |-> hardware, addrs |-> addrs]
IP4(text) == [type |-> "ipv4", text |-> text]
IP6(text) == [type |-> "ipv6", text |-> text]

\* The loopback, a bridge, and the first interface in both cases and twice.
VMInterfaces ==
  {<<Agent("lo", "", {IP4("l")}), Agent("eth0", "EE", {IP4("a"), IP6("c")}),
     Agent("eth0.2", "EE", {IP4("b"), IP4("?")})>>,
   <<Agent("eth0", "ee", {IP4("a")}), Agent("docker0", "11", {IP4("b")})>>,
   <<>>}

SomeVMs == [ipconfig0 : Settings, net0 : VMNets, interfaces : VMInterfaces]

Net(name, hardware, four, six) ==
  [name |-> name, hw |-> hardware, inet |-> four, inet6 |-> six]

LXCNets ==
  {parts \o <<bridge, Set("hwaddr", "EE")>> : parts \in Settings} \cup
  {<<Set("hwaddr", "EE"), Set("ip", "dhcp"), Set("hwaddr", "11")>>, <<bridge>>}

\* An IPv4 address that is none, with an IPv6 address that is one.
LXCInterfaces ==
  {<<Net("lo", "", "l", ""), Net("eth0", "ee", "a/24", "c/64"),
     Net("eth1", "11", "b/24", "")>>,
   <<Net("eth0", "EE", "?", "c/64"), Net("eth0.2", "ee", "", "c/64"),
     Net("eth1", "11", "a/24", "?")>>}

SomeContainers == [net0 : LXCNets, interfaces : LXCInterfaces]
=============================================================================
