------------------------------ MODULE MCFilter ------------------------------
(* Command lines and guests for TLC. *)
EXTENDS Filter

\* As a regular expression "db" also matches "db-old", and "a+b" does not
\* match itself; "c++" does not compile.
AllTags == {"db", "db-old", "a+b", ""}
AllStrings == {"db", "a+b", "c++", "old$"}
TagsMatched ==
  [s \in {"db", "a+b", "old$"} |->
     CASE s = "db" -> {"db", "db-old"}
       [] s = "a+b" -> {}
       [] s = "old$" -> {"db-old"}]

AllAddrs == {"10.0.0.1", "192.168.1.1"}
AllCIDRs == {"10.0.0.0/8", "192.168.1.0/24", "10.0.0.0"}
AddrsWithin ==
  [c \in {"10.0.0.0/8", "192.168.1.0/24"} |->
     IF c = "10.0.0.0/8" THEN {"10.0.0.1"} ELSE {"192.168.1.1"}]

SomeFlags ==
  [type : {"", "QEMU", "qemu"},
   includeTags : {{}, {"db"}, {"db", "a+b"}, {"c++"}},
   includeTagsRe : {{}, {"old$"}},
   excludeTags : {{}, {"db"}, {"a+b"}},
   excludeTagsRe : {{}, {"old$"}},
   includeCIDRs : {{}, {"192.168.1.0/24"}, {"10.0.0.0"}},
   excludeCIDRs : {{}, {"10.0.0.0/8"}}]

SomeGuests ==
  [type : {"QEMU", "LXC"}, tags : {{""}, {"db"}, {"db-old"}, {"db-old", "a+b"}},
   addrs : {{}, {"192.168.1.1"}, AllAddrs}]

\* The filter decides guest by guest: every guest alone; and, for the order,
\* two guests, and a guest before and after an equal one.
SomeInventories ==
  {<<g>> : g \in SomeGuests} \cup
  {<<[type |-> "LXC", tags |-> {"db"}, addrs |-> {"192.168.1.1"}],
     [type |-> "QEMU", tags |-> {"db-old"}, addrs |-> {"192.168.1.1"}]>>,
   <<[type |-> "QEMU", tags |-> {"db"}, addrs |-> {}],
     [type |-> "LXC", tags |-> {""}, addrs |-> AllAddrs],
     [type |-> "QEMU", tags |-> {"db"}, addrs |-> {}]>>}
=============================================================================
