----------------------------- MODULE ZoneProofs -----------------------------
(***************************************************************************)
(* What is served and what readers of the zone see, for any updates,       *)
(* requests and handlers.  The inductive invariant says who holds the      *)
(* lock, that what a handler has read so far is what the zone still says   *)
(* (the zone changes only when nobody holds the lock), and what the map    *)
(* under construction has of the items behind the loop.                    *)
(***************************************************************************)
EXTENDS Zone, TLAPS

\* A handler between RLock and RUnlock holds the lock; only page handlers
\* have half a page.
ReadersHold ==
  /\ \A h \in Handlers : pc[h] \in {"reading", "half", "read"} => h \in holders
  /\ \A h \in DNSHandlers : pc[h] \notin {"half", "read"}

\* What a DNS handler has found so far.
FoundSoFar ==
  \A h \in DNSHandlers :
    /\ todo[h] \subseteq asked[h]
    /\ pc[h] = "asked" => todo[h] = asked[h] /\ answer[h] = {}
    /\ pc[h] = "reading" =>
         answer[h] = UNION {Lookup(q) : q \in asked[h] \ todo[h]}

\* What a page handler has read so far.
ReadSoFar ==
  \A h \in PageHandlers :
    /\ pc[h] \in {"half", "read"} => page[h].records = records
    /\ pc[h] = "read" => page[h].noAddrs = noAddrs

Readers == ReadersHold /\ FoundSoFar /\ ReadSoFar

\* The map `data' is what the first n items of an update make.
MadeOf(data, in, n) ==
  /\ \A name \in Names : data.records[name] # {} =>
       \E i \in 1..n :
         Items(in)[i] = [name |-> name, addrs |-> data.records[name]]
  /\ \A i \in 1..n :
       IF Items(in)[i].addrs = {} THEN Items(in)[i].name \in data.noAddrs
       ELSE data.records[Items(in)[i].name] # {}
  /\ \A j \in 1..Len(in.extra) : Len(in.filtered) + j <= n =>
       data.records[in.extra[j].name] = in.extra[j].addrs

BuiltSoFar ==
  /\ updater # "idle" => MadeOf(built, input, next - 1)
  /\ updater \in {"lock", "waiting"} => next = Len(Items(input)) + 1

PublishedWhole ==
  MadeOf([records |-> records, noAddrs |-> noAddrs], source, Len(Items(source)))

IInv == TypeOK /\ Readers /\ BuiltSoFar /\ PublishedWhole
-----------------------------------------------------------------------------
(***************************************************************************)
(* Inputs.                                                                 *)
(***************************************************************************)
LEMMA Concatenation ==
  ASSUME NEW S, NEW s \in Seq(S), NEW t \in Seq(S)
  PROVE  /\ s \o t \in Seq(S) /\ Len(s \o t) = Len(s) + Len(t)
         /\ Len(s) \in Nat /\ Len(t) \in Nat
         /\ \A j \in 1..Len(t) : (s \o t)[Len(s) + j] = t[j]
OBVIOUS

\* A place in the second of two sequences.
LEMMA Offset ==
  ASSUME NEW m \in Nat, NEW n \in Nat, NEW i \in 1..m + n, NEW j \in 1..n,
         m + j <= i, m + j # i
  PROVE  \E k \in 1..n : k # j /\ i = m + k
<1> WITNESS i - m \in 1..n
<1> QED
  OBVIOUS

LEMMA InputTypes ==
  ASSUME NEW in \in Input
  PROVE  in.filtered \in Seq(Item) /\ in.extra \in Seq(Item)
<1>1. <<>> \in Seq(Item)
  OBVIOUS
<1> QED
  BY <1>1, InputAssumption DEF Input

\* An input's items: first the filtered ones, then the extra ones.
LEMMA InputItems ==
  ASSUME NEW in \in Input
  PROVE  /\ Items(in) \in Seq(Item)
         /\ Len(in.filtered) \in Nat /\ Len(in.extra) \in Nat
         /\ Len(Items(in)) = Len(in.filtered) + Len(in.extra)
         /\ \A j \in 1..Len(in.extra) :
              Items(in)[Len(in.filtered) + j] = in.extra[j]
BY InputTypes, Concatenation DEF Items

\* Every item has a name and addresses.
LEMMA ItemType ==
  ASSUME NEW in \in Input, NEW i \in 1..Len(Items(in))
  PROVE  /\ Items(in)[i] \in Item
         /\ Items(in)[i].name \in Names /\ Items(in)[i].addrs \subseteq Addrs
<1>1. Items(in) \in Seq(Item)
  BY InputItems
<1>2. Items(in)[i] \in Item
  BY <1>1
<1> QED
  BY <1>2 DEF Item

\* No two extra records have the same name, and all have an address.
LEMMA ExtraNames ==
  ASSUME NEW in \in Input, NEW i \in 1..Len(in.extra),
              NEW j \in 1..Len(in.extra)
  PROVE  in.extra[i].addrs # {} /\ (in.extra[i].name = in.extra[j].name => i = j)
<1>1. CASE in.extra = <<>>
  BY <1>1
<1>2. CASE in.extra \in Extras
  BY <1>2, ExtrasAssumption
<1> QED
  BY <1>1, <1>2 DEF Input

\* An extra record is an item.
LEMMA ExtraType ==
  ASSUME NEW in \in Input, NEW j \in 1..Len(in.extra)
  PROVE  in.extra[j].name \in Names /\ in.extra[j].addrs # {}
<1>1. in.extra \in Seq(Item)
  BY InputTypes
<1>2. in.extra[j] \in Item
  BY <1>1
<1> QED
  BY <1>2, ExtraNames DEF Item

LEMMA NothingType == Nothing \in ZoneData /\ NoInput \in Input
BY DEF Nothing, ZoneData, NoInput, Input

\* An empty map is made of no items.
LEMMA NothingMade == ASSUME NEW in \in Input PROVE MadeOf(Nothing, in, 0)
<1>1. Len(in.filtered) \in Nat
  BY InputItems
<1> QED
  BY <1>1 DEF MadeOf, Nothing

LEMMA InitIInv == Init => IInv
<1> SUFFICES ASSUME Init PROVE IInv
  OBVIOUS
<1>1. NoInput \in Input /\ Nothing \in ZoneData /\ Items(NoInput) = <<>>
  BY NothingType DEF NoInput, Items
<1>2. TypeOK
  BY <1>1 DEF Init, TypeOK, ZoneData, Nothing, Handlers
<1>3. Readers
  BY DEF Init, Readers, ReadersHold, FoundSoFar, ReadSoFar, Handlers
<1>4. MadeOf(Nothing, NoInput, 0)
  BY <1>1, NothingMade
<1>5. BuiltSoFar /\ PublishedWhole
  BY <1>1, <1>4 DEF Init, BuiltSoFar, PublishedWhole, Nothing
<1> QED
  BY <1>2, <1>3, <1>5 DEF IInv
-----------------------------------------------------------------------------
(***************************************************************************)
(* The update.                                                             *)
(***************************************************************************)
\* Where the zone and the handlers stay as they are, so does what is said of
\* them.
LEMMA ZoneStays ==
  ASSUME IInv, UNCHANGED <<published, handling>>
  PROVE  Readers' /\ PublishedWhole'
<1> USE DEF IInv, published, handling
<1>1. ReadersHold' /\ ReadSoFar'
  BY DEF Readers, ReadersHold, ReadSoFar
<1>2. FoundSoFar'
  BY DEF Readers, FoundSoFar, Lookup, AnswersIn
<1> QED
  BY <1>1, <1>2 DEF Readers, PublishedWhole, MadeOf, Items

\* One more item: a later guest of a name replaces an earlier one, and an
\* extra record is replaced by nothing.
LEMMA AddItemMade ==
  ASSUME IInv, AddItem
  PROVE  built' \in ZoneData /\ MadeOf(built', input, next)
<1> DEFINE item == Items(input)[next]
<1>1. /\ input \in Input /\ built \in ZoneData /\ next \in Nat \ {0}
      /\ MadeOf(built, input, next - 1)
      /\ next \in 1..Len(Items(input))
  BY InputItems DEF IInv, TypeOK, BuiltSoFar, AddItem
<1>2. item \in Item
  BY <1>1, ItemType
<1>3. CASE item.addrs = {}
  <2>1. built' = [built EXCEPT !.noAddrs = @ \cup {item.name}]
    BY <1>3 DEF AddItem
  <2>2. /\ built' \in ZoneData /\ built'.records = built.records
        /\ built'.noAddrs = built.noAddrs \cup {item.name}
    BY <2>1, <1>1, <1>2 DEF ZoneData, Item
  <2>3. ASSUME NEW j \in 1..Len(input.extra), Len(input.filtered) + j <= next
        PROVE  Len(input.filtered) + j <= next - 1
    <3>1. Items(input)[Len(input.filtered) + j] = input.extra[j]
      BY <1>1, InputItems
    <3>2. input.extra[j].addrs # {}
      BY <1>1, ExtraType
    <3>3. Len(input.filtered) + j # next
      BY <3>1, <3>2, <1>3
    <3>4. Len(input.filtered) \in Nat
      BY <1>1, InputItems
    <3> QED
      BY <3>3, <3>4, <2>3, <1>1
  <2>4. \A i \in 1..next : i \in 1..next - 1 \/ i = next
    BY <1>1
  <2> QED
    BY <2>2, <2>3, <2>4, <1>1, <1>3 DEF MadeOf
<1>4. CASE item.addrs # {}
  <2>1. built' = [built EXCEPT !.records[item.name] = item.addrs]
    BY <1>4 DEF AddItem
  <2>2. /\ built' \in ZoneData /\ built'.noAddrs = built.noAddrs
        /\ built'.records[item.name] = item.addrs
        /\ \A name \in Names \ {item.name} :
             built'.records[name] = built.records[name]
    BY <2>1, <1>1, <1>2 DEF ZoneData, Item
  <2>3. ASSUME NEW name \in Names, built'.records[name] # {}
        PROVE  \E i \in 1..next :
                 Items(input)[i] = [name |-> name,
                             addrs |-> built'.records[name]]
    <3>1. CASE name = item.name
      <4>1. item = [name |-> name, addrs |-> built'.records[name]]
        BY <3>1, <2>2, <1>2 DEF Item
      <4> QED
        BY <4>1, <1>1
    <3>2. CASE name # item.name
      <4>1. PICK i \in 1..next - 1 :
              Items(input)[i] = [name |-> name, addrs |-> built.records[name]]
        BY <2>2, <2>3, <3>2, <1>1 DEF MadeOf
      <4> QED
        BY <4>1, <2>2, <3>2, <1>1
    <3> QED
      BY <3>1, <3>2
  <2>4. ASSUME NEW i \in 1..next
        PROVE  IF Items(input)[i].addrs = {}
               THEN Items(input)[i].name \in built'.noAddrs
               ELSE built'.records[Items(input)[i].name] # {}
    <3>1. CASE i = next
      BY <3>1, <1>4, <2>2
    <3>2. CASE i # next
      <4>1. i \in 1..next - 1 /\ i \in 1..Len(Items(input))
        BY <3>2, <1>1, InputItems
      <4>2. Items(input)[i].name \in Names
        BY <4>1, <1>1, ItemType
      <4> QED
        BY <4>1, <4>2, <1>1, <1>4, <2>2 DEF MadeOf
    <3> QED
      BY <3>1, <3>2
  <2>5. ASSUME NEW j \in 1..Len(input.extra), Len(input.filtered) + j <= next
        PROVE  built'.records[input.extra[j].name] = input.extra[j].addrs
    <3>1. CASE Len(input.filtered) + j = next
      BY <3>1, <1>1, <2>2, InputItems
    <3>2. CASE Len(input.filtered) + j # next
      <4>1. Len(input.filtered) + j <= next - 1
        BY <2>5, <3>2, <1>1, InputItems
      <4>2. PICK k \in 1..Len(input.extra) :
              k # j /\ next = Len(input.filtered) + k
        <5>1. /\ Len(input.filtered) \in Nat /\ Len(input.extra) \in Nat
              /\ Len(Items(input)) = Len(input.filtered) + Len(input.extra)
          BY <1>1, InputItems
        <5>2. next \in 1..Len(Items(input)) /\ Len(input.filtered) + j <= next
          BY <1>1, <2>5
        <5>3. next \in 1..Len(input.filtered) + Len(input.extra)
          BY <5>1, <5>2
        <5> QED
          BY <5>1, <5>2, <5>3, <3>2, Offset, Zenon
      <4>3. item = input.extra[k]
        <5>1. Items(input)[Len(input.filtered) + k] = input.extra[k]
          BY <4>2, <1>1, InputItems
        <5> QED
          BY <5>1, <4>2
      <4>4. input.extra[j].name # item.name /\ input.extra[j].name \in Names
        <5>1. input.extra[j].name # input.extra[k].name
          BY <4>2, <1>1, ExtraNames
        <5> QED
          BY <5>1, <4>3, <1>1, ExtraType
      <4> QED
        BY <4>1, <4>4, <1>1, <2>2 DEF MadeOf
    <3> QED
      BY <3>1, <3>2
  <2> QED
    BY <2>2, <2>3, <2>4, <2>5 DEF MadeOf
<1> QED
  BY <1>3, <1>4

LEMMA UpdateIInv == IInv /\ UpdateStep => IInv'
<1> SUFFICES ASSUME IInv, UpdateStep PROVE IInv'
  OBVIOUS
<1> USE DEF IInv
<1>1. CASE Fetched
  <2>1. MadeOf(Nothing, input', 0) /\ Nothing \in ZoneData
    BY <1>1, NothingMade, NothingType DEF Fetched
  <2>2. Len(Items(input')) \in Nat
    BY <1>1, InputItems DEF Fetched
  <2>3. TypeOK'
    BY <1>1, <2>1, <2>2
       DEF Fetched, FreshMap, TypeOK, published, handling
  <2>4. MadeOf(built', input', next' - 1) /\ updater' = "build"
    BY <1>1, <2>1 DEF Fetched, FreshMap
  <2> QED
    BY <1>1, <2>3, <2>4, ZoneStays DEF Fetched, BuiltSoFar
<1>2. CASE AddItem
  <2>1. Len(Items(input)) \in Nat
    BY InputItems DEF TypeOK
  <2>2. TypeOK'
    BY <1>2, <2>1, AddItemMade DEF AddItem, TypeOK, published, handling
  <2>3. MadeOf(built', input', next' - 1)
    BY <1>2, AddItemMade DEF AddItem, TypeOK
  <2> QED
    BY <1>2, <2>2, <2>3, ZoneStays DEF AddItem, BuiltSoFar
<1>3. CASE AllAdded \/ AskLock
  <2>1. TypeOK' /\ BuiltSoFar'
    BY <1>3
       DEF AllAdded, AskLock, TypeOK, BuiltSoFar, published, handling, MadeOf,
           Items
  <2> QED
    BY <1>3, <2>1, ZoneStays DEF AllAdded, AskLock
<1>4. CASE Publish
  <2>1. TypeOK'
    BY <1>4 DEF Publish, TypeOK, ZoneData, handling
  <2>2. BuiltSoFar'
    BY <1>4 DEF Publish, BuiltSoFar
  <2>3. PublishedWhole'
    <3>1. /\ MadeOf(built, input, Len(Items(input)))
          /\ Len(Items(input)) \in Nat
      BY <1>4, InputItems DEF Publish, BuiltSoFar, TypeOK
    <3> QED
      BY <1>4, <3>1 DEF Publish, PublishedWhole, MadeOf, Items
  <2>4. \A h \in Handlers : pc'[h] \notin {"reading", "half", "read"}
    BY <1>4 DEF Publish, Readers, ReadersHold, handling
  <2>5. Readers'
    BY <1>4, <2>4
       DEF Publish, Readers, ReadersHold, FoundSoFar, ReadSoFar, handling,
           Handlers
  <2> QED
    BY <2>1, <2>2, <2>3, <2>5
<1> QED
  BY <1>1, <1>2, <1>3, <1>4 DEF UpdateStep
-----------------------------------------------------------------------------
(***************************************************************************)
(* The handlers.                                                           *)
(***************************************************************************)
\* No handler changes the zone or an update in progress.
LEMMA UpdateStays ==
  ASSUME IInv, UNCHANGED <<published, update>>
  PROVE  BuiltSoFar' /\ PublishedWhole' /\ \A q : Lookup(q)' = Lookup(q)
BY DEF IInv, published, update, BuiltSoFar, PublishedWhole, MadeOf, Items,
       Lookup, AnswersIn

\* One handler moves on, and keeps what is said of itself.
LEMMA HandlerMoves ==
  ASSUME IInv, UNCHANGED <<published, update>>, TypeOK',
         NEW h \in Handlers, NEW place, Goto(h, place),
         \A g \in Handlers \ {h} : g \in holders => g \in holders',
         \A g \in DNSHandlers \ {h} :
           todo'[g] = todo[g] /\ asked'[g] = asked[g] /\ answer'[g] = answer[g],
         \A g \in PageHandlers \ {h} : page'[g] = page[g],
         place \in {"reading", "half", "read"} => h \in holders',
         h \in DNSHandlers =>
           /\ place \notin {"half", "read"}
           /\ todo'[h] \subseteq asked'[h]
           /\ place = "asked" => todo'[h] = asked'[h] /\ answer'[h] = {}
           /\ place = "reading" =>
                answer'[h] = UNION {Lookup(q) : q \in asked'[h] \ todo'[h]},
         h \in PageHandlers =>
           /\ place \in {"half", "read"} => page'[h].records = records
           /\ place = "read" => page'[h].noAddrs = noAddrs
  PROVE  IInv'
<1> USE DEF IInv, Readers
<1>1. /\ pc'[h] = place
      /\ \A g \in Handlers \ {h} : pc'[g] = pc[g]
  BY DEF TypeOK, Goto
<1>2. ReadersHold'
  BY <1>1 DEF ReadersHold, Handlers
<1>3. FoundSoFar'
  <2> SUFFICES ASSUME NEW g \in DNSHandlers
               PROVE  /\ todo'[g] \subseteq asked'[g]
                      /\ pc'[g] = "asked" => todo'[g] = asked'[g] /\ answer'[g] = {}
                      /\ pc'[g] = "reading" =>
                           answer'[g] = UNION {Lookup(q) : q \in asked'[g] \ todo'[g]}
    BY UpdateStays DEF FoundSoFar
  <2> QED
    BY <1>1 DEF FoundSoFar, Handlers
<1>4. ReadSoFar'
  BY <1>1 DEF ReadSoFar, Handlers, published
<1> QED
  BY <1>2, <1>3, <1>4, UpdateStays

LEMMA AskIInv ==
  ASSUME IInv, NEW h \in DNSHandlers, NEW request \in Requests, Ask(h, request)
  PROVE  IInv'
<1>1. TypeOK'
  BY RequestsAssumption DEF IInv, TypeOK, Ask, Goto, Handlers, published, update
<1>2. /\ todo'[h] = request /\ asked'[h] = request /\ answer'[h] = {}
      /\ \A g \in DNSHandlers \ {h} :
           todo'[g] = todo[g] /\ asked'[g] = asked[g] /\ answer'[g] = answer[g]
  BY DEF IInv, TypeOK, Ask
<1> QED
  BY <1>1, <1>2, HandlerMoves, HandlersAssumption DEF Ask, Handlers

LEMMA AskPageIInv ==
  ASSUME IInv, NEW h \in PageHandlers, AskPage(h)
  PROVE  IInv'
<1>1. TypeOK'
  BY DEF IInv, TypeOK, AskPage, Goto, Handlers, published, update
<1> QED
  BY <1>1, HandlerMoves, HandlersAssumption DEF AskPage, Handlers

LEMMA RLockIInv ==
  ASSUME IInv, NEW h \in Handlers, RLock(h)
  PROVE  IInv'
<1>1. TypeOK'
  BY DEF IInv, TypeOK, RLock, Goto, published, update
<1>2. h \in DNSHandlers =>
        /\ todo[h] = asked[h] /\ answer[h] = {}
        /\ answer[h] = UNION {Lookup(q) : q \in asked[h] \ todo[h]}
  BY DEF IInv, Readers, FoundSoFar, RLock
<1> QED
  BY <1>1, <1>2, HandlerMoves, HandlersAssumption DEF RLock

LEMMA LookUpIInv ==
  ASSUME IInv, NEW h \in DNSHandlers, LookUp(h)
  PROVE  IInv'
<1>1. PICK q \in todo[h] :
        /\ todo' = [todo EXCEPT ![h] = @ \ {q}]
        /\ answer' = [answer EXCEPT ![h] = @ \cup Lookup(q)]
  BY DEF LookUp
<1>2. /\ todo'[h] = todo[h] \ {q} /\ answer'[h] = answer[h] \cup Lookup(q)
      /\ \A g \in DNSHandlers \ {h} : todo'[g] = todo[g] /\ answer'[g] = answer[g]
  BY <1>1 DEF IInv, TypeOK
<1>3. q \in Question /\ q \in asked[h] /\ todo[h] \subseteq asked[h]
  BY DEF IInv, TypeOK, Readers, FoundSoFar
<1>4. Lookup(q) \subseteq Names \X Addrs
  BY <1>3 DEF Lookup, AnswersIn, OfType, Question, Addrs
<1>5. TypeOK'
  BY <1>1, <1>4 DEF IInv, TypeOK, LookUp, published, update
<1>6. answer'[h] = UNION {Lookup(r) : r \in asked[h] \ todo'[h]}
  <2>1. answer[h] = UNION {Lookup(r) : r \in asked[h] \ todo[h]}
    BY DEF IInv, Readers, FoundSoFar, LookUp
  <2>2. asked[h] \ todo'[h] = (asked[h] \ todo[h]) \cup {q}
    BY <1>2, <1>3
  <2> QED
    BY <2>1, <2>2, <1>2
<1>7. Goto(h, "reading") /\ h \in holders
  BY DEF LookUp, Goto, IInv, TypeOK, Readers, ReadersHold, Handlers
<1> QED
  BY <1>2, <1>3, <1>5, <1>6, <1>7, HandlerMoves, HandlersAssumption
     DEF LookUp, Handlers

LEMMA ReplyIInv ==
  ASSUME IInv, NEW h \in Handlers,
         (h \in DNSHandlers /\ Reply(h)) \/ (h \in PageHandlers /\ WritePage(h))
  PROVE  IInv'
<1>1. TypeOK'
  BY DEF IInv, TypeOK, Reply, WritePage, Goto, published, update
<1>2. h \in DNSHandlers => todo[h] \subseteq asked[h]
  BY DEF IInv, Readers, FoundSoFar
<1> QED
  BY <1>1, <1>2, HandlerMoves, HandlersAssumption DEF Reply, WritePage

LEMMA ReadPageIInv ==
  ASSUME IInv, NEW h \in PageHandlers, ReadRecords(h) \/ ReadNoAddrs(h)
  PROVE  IInv'
<1>1. h \in Handlers /\ h \notin DNSHandlers /\ h \in holders
  BY HandlersAssumption
     DEF Handlers, IInv, Readers, ReadersHold, ReadRecords, ReadNoAddrs
<1>2. page[h] \in ZoneData
  BY DEF IInv, TypeOK
<1>3. CASE ReadRecords(h)
  <2>1. /\ page'[h].records = records /\ page'[h] \in ZoneData
        /\ \A g \in PageHandlers \ {h} : page'[g] = page[g]
    BY <1>2, <1>3 DEF ReadRecords, IInv, TypeOK, ZoneData
  <2>2. TypeOK'
    BY <1>3, <2>1 DEF ReadRecords, IInv, TypeOK, Goto, published, update
  <2> QED
    BY <1>1, <1>3, <2>1, <2>2, HandlerMoves DEF ReadRecords
<1>4. CASE ReadNoAddrs(h)
  <2>1. /\ page'[h].records = records /\ page'[h].noAddrs = noAddrs
        /\ page'[h] \in ZoneData
        /\ \A g \in PageHandlers \ {h} : page'[g] = page[g]
    BY <1>2, <1>4
       DEF ReadNoAddrs, IInv, TypeOK, ZoneData, Readers, ReadSoFar
  <2>2. TypeOK'
    BY <1>4, <2>1 DEF ReadNoAddrs, IInv, TypeOK, Goto, published, update
  <2> QED
    BY <1>1, <1>4, <2>1, <2>2, HandlerMoves DEF ReadNoAddrs
<1> QED
  BY <1>3, <1>4

LEMMA StutterIInv == IInv /\ UNCHANGED vars => IInv'
<1> SUFFICES ASSUME IInv, UNCHANGED vars PROVE IInv'
  OBVIOUS
<1>1. UNCHANGED <<published, handling>> /\ UNCHANGED <<published, update>>
  BY DEF vars, published, handling, update
<1>2. TypeOK'
  BY DEF IInv, TypeOK, vars
<1> QED
  BY <1>1, <1>2, ZoneStays, UpdateStays DEF IInv

LEMMA NextIInv == IInv /\ [Next]_vars => IInv'
<1> SUFFICES ASSUME IInv, [Next]_vars PROVE IInv'
  OBVIOUS
<1>1. CASE UpdateStep
  BY <1>1, UpdateIInv
<1>2. ASSUME NEW h \in DNSHandlers,
             DNSStep(h) \/ \E request \in Requests : Ask(h, request)
      PROVE  IInv'
  BY <1>2, AskIInv, RLockIInv, LookUpIInv, ReplyIInv DEF DNSStep, Handlers
<1>3. ASSUME NEW h \in PageHandlers, PageStep(h) \/ AskPage(h)
      PROVE  IInv'
  BY <1>3, AskPageIInv, RLockIInv, ReadPageIInv, ReplyIInv
  DEF PageStep, Handlers
<1>4. CASE UNCHANGED vars
  BY <1>4, StutterIInv
<1> QED
  BY <1>1, <1>2, <1>3, <1>4 DEF Next

\* The invariant is inductive, hence invariant.
LEMMA Invariance == Spec => []IInv
BY InitIInv, NextIInv, PTL DEF Spec
-----------------------------------------------------------------------------
(***************************************************************************)
(* The theorems.                                                           *)
(***************************************************************************)
\* The zone, the update and the handlers keep their types.
THEOREM TypeCorrect == Spec => []TypeOK
BY Invariance, PTL DEF IInv

\* Every reply is the answer of the zone as it is when the reply is written
\* (handleDNSRequest, main.go:458-483).
THEOREM ReplyIsCurrentHolds == Spec => []ReplyIsCurrent
<1>1. IInv => ReplyIsCurrent
  BY DEF IInv, Readers, FoundSoFar, ReplyIsCurrent
<1> QED
  BY <1>1, Invariance, PTL

\* The two parts of the debug DNS page are from the same update
\* (handleDebugDNS, debug.go:465-542).
THEOREM PageIsOneZoneHolds == Spec => []PageIsOneZone
<1>1. IInv => PageIsOneZone
  BY DEF IInv, TypeOK, ZoneData, Readers, ReadSoFar, PageIsOneZone
<1> QED
  BY <1>1, Invariance, PTL

\* What is served is made of the items of one update, the extra records over
\* the guests (updateDNSRecords, main.go:391-446).
THEOREM ServesItsSourceHolds == Spec => []ServesItsSource
<1>1. IInv => ServesItsSource
  <2> SUFFICES ASSUME IInv PROVE ServesItsSource
    OBVIOUS
  <2>1. source \in Input /\ Len(source.filtered) \in Nat /\ Len(source.extra) \in Nat
    BY InputItems DEF IInv, TypeOK
  <2>2. Len(Items(source)) = Len(source.filtered) + Len(source.extra)
    BY <2>1, InputItems
  <2>3. \A j \in 1..Len(source.extra) :
          Len(source.filtered) + j <= Len(Items(source))
    BY <2>1, <2>2
  <2> QED
    BY <2>3 DEF IInv, PublishedWhole, MadeOf, ServesItsSource, Image
<1> QED
  BY <1>1, Invariance, PTL
-----------------------------------------------------------------------------
(***************************************************************************)
(* Refinement: the updates and the handlers implement AtomicZone.  The map *)
(* under construction is exactly the zone of the items behind the loop.    *)
(***************************************************************************)
Exact == updater # "idle" => built = Made(Items(input), next - 1)

\* One more item: the addresses of its name are its own, if it has any.
LEMMA LastAddrsNext ==
  ASSUME NEW items, NEW n \in Nat, NEW name
  PROVE  LastAddrs(items, n + 1, name) =
           IF items[n + 1].name = name /\ items[n + 1].addrs # {}
           THEN items[n + 1].addrs ELSE LastAddrs(items, n, name)
<1> DEFINE Last(m) == {j \in 1..m :
       /\ items[j].name = name /\ items[j].addrs # {}
       /\ \A k \in j + 1..m : items[k].name = name => items[k].addrs = {}}
<1>1. CASE items[n + 1].name = name /\ items[n + 1].addrs # {}
  <2>1. n + 1 \in Last(n + 1)
    BY <1>1
  <2>2. \A j \in Last(n + 1) : j = n + 1
    <3> SUFFICES ASSUME NEW j \in Last(n + 1), j # n + 1 PROVE FALSE
      OBVIOUS
    <3> QED
      BY <1>1
  <2>3. Last(n + 1) = {n + 1}
    BY <2>1, <2>2
  <2> QED
    BY <1>1, <2>3 DEF LastAddrs
<1>2. CASE ~ (items[n + 1].name = name /\ items[n + 1].addrs # {})
  <2>1. Last(n + 1) = Last(n)
    BY <1>2
  <2> QED
    BY <1>2, <2>1 DEF LastAddrs
<1> QED
  BY <1>1, <1>2

LEMMA MadeNone == ASSUME NEW items PROVE Made(items, 0) = Nothing
<1>1. \A name \in Names : LastAddrs(items, 0, name) = {}
  BY DEF LastAddrs
<1> QED
  BY <1>1 DEF Made, Nothing

\* The loop adds an item as the zone of one more item has it.
LEMMA AddItemExact ==
  ASSUME IInv, Exact, AddItem
  PROVE  built' = Made(Items(input), next)
<1> DEFINE items == Items(input)
           n == next - 1
           item == items[next]
           addrs == [name \in Names |-> LastAddrs(items, next, name)]
           none == {items[i].name : i \in {j \in 1..next : items[j].addrs = {}}}
<1>1. /\ n \in Nat /\ n + 1 = next /\ item \in Item /\ built \in ZoneData
      /\ built = Made(items, n)
  BY ItemType, InputItems DEF IInv, TypeOK, AddItem, Exact
<1>2. \A name \in Names : LastAddrs(items, next, name) =
        IF item.name = name /\ item.addrs # {} THEN item.addrs
        ELSE LastAddrs(items, n, name)
  BY <1>1, LastAddrsNext
<1>3. none = IF item.addrs = {} THEN built.noAddrs \cup {item.name}
              ELSE built.noAddrs
  <2>1. {j \in 1..next : items[j].addrs = {}} =
          IF item.addrs = {}
          THEN {j \in 1..n : items[j].addrs = {}} \cup {next}
          ELSE {j \in 1..n : items[j].addrs = {}}
    BY <1>1
  <2>2. built.noAddrs =
          {items[i].name : i \in {j \in 1..n : items[j].addrs = {}}}
    BY <1>1 DEF Made
  <2> HIDE DEF items, n
  <2> QED
    BY <2>1, <2>2
<1>4. \A name \in Names : built.records[name] = LastAddrs(items, n, name)
  BY <1>1 DEF Made
<1>5. built' = [records |-> built'.records, noAddrs |-> built'.noAddrs]
      /\ built'.records \in [Names -> SUBSET Addrs]
  BY AddItemMade DEF ZoneData
<1>6. Made(items, next) = [records |-> addrs, noAddrs |-> none]
  BY DEF Made
<1> HIDE DEF addrs, none
<1>7. CASE item.addrs = {}
  <2>1. built'.records = built.records
        /\ built'.noAddrs = built.noAddrs \cup {item.name}
    BY <1>1, <1>7 DEF AddItem, ZoneData
  <2> HIDE DEF items, n, item
  <2>2. built'.records = addrs
    BY <1>2, <1>4, <1>5, <1>7, <2>1 DEF addrs
  <2>3. built'.noAddrs = none
    BY <1>3, <1>7, <2>1
  <2> QED
    BY <1>5, <1>6, <2>2, <2>3 DEF items
<1>8. CASE item.addrs # {}
  <2>1. /\ built'.noAddrs = built.noAddrs
        /\ \A name \in Names : built'.records[name] =
             IF name = item.name THEN item.addrs ELSE built.records[name]
    BY <1>1, <1>8 DEF AddItem, ZoneData
  <2> HIDE DEF items, n, item
  <2>2. built'.records = addrs
    BY <1>2, <1>4, <1>5, <1>8, <2>1 DEF addrs
  <2>3. built'.noAddrs = none
    BY <1>3, <1>8, <2>1
  <2> QED
    BY <1>5, <1>6, <2>2, <2>3 DEF items
<1> QED
  BY <1>7, <1>8

LEMMA NextExact ==
  ASSUME IInv, Exact, [Next]_vars
  PROVE  Exact'
<1>1. CASE Fetched
  BY <1>1, MadeNone DEF Fetched, FreshMap, Exact
<1>2. CASE AddItem
  <2>1. input' = input /\ next' - 1 = next
    BY <1>2 DEF AddItem, IInv, TypeOK
  <2> QED
    BY <1>2, <2>1, AddItemExact DEF Exact
<1>3. CASE /\ UNCHANGED <<input, next, built>>
           /\ updater = "idle" => updater' = "idle"
  <2>1. Made(Items(input), next - 1)' = Made(Items(input), next - 1)
    BY <1>3
  <2> QED
    BY <1>3, <2>1 DEF Exact
<1>4. Fetched \/ AddItem \/ (UNCHANGED <<input, next, built>>
        /\ (updater = "idle" => updater' = "idle"))
  BY DEF Next, UpdateStep, AllAdded, AskLock, Publish, DNSStep, PageStep, RLock,
         LookUp, Reply, Ask, AskPage, ReadRecords, ReadNoAddrs, WritePage,
         update, vars
<1> QED
  BY <1>1, <1>2, <1>3, <1>4

LEMMA Exactness == Spec => []Exact
<1>1. Init => Exact
  BY DEF Init, Exact
<1> QED
  BY <1>1, NextExact, Invariance, PTL DEF Spec

LEMMA InitAtomic == Init => Atomic!Init
BY HandlersAssumption DEF Init, Atomic!Init, Nothing, Handlers

\* Replacing the map is replacing the zone by one that an update makes.
LEMMA PublishReplaces ==
  ASSUME IInv, Exact, Publish
  PROVE  Atomic!Replace
<1>1. built = ZoneOf(input) /\ input \in Input
  <2>1. next - 1 = Len(Items(input)) /\ updater # "idle"
    BY InputItems DEF Publish, IInv, BuiltSoFar, TypeOK
  <2> QED
    BY <2>1 DEF Exact, ZoneOf, IInv, TypeOK
<1>2. [records |-> records', noAddrs |-> noAddrs'] = built
  BY DEF Publish, IInv, TypeOK, ZoneData
<1> QED
  BY <1>1, <1>2 DEF Publish, handling, Atomic!Replace

\* Other steps of an update are invisible.
LEMMA UpdateInvisible ==
  ASSUME Fetched \/ AddItem \/ AllAdded \/ AskLock
  PROVE  UNCHANGED Atomic!zoneVars
BY DEF Fetched, AddItem, AllAdded, AskLock, published, handling,
       Atomic!zoneVars

\* So are the steps of a handler while it is answering.
LEMMA HandlerInvisible ==
  ASSUME IInv, NEW h \in Handlers,
         \/ RLock(h)
         \/ h \in DNSHandlers /\ LookUp(h)
         \/ h \in PageHandlers /\ (ReadRecords(h) \/ ReadNoAddrs(h))
  PROVE  UNCHANGED Atomic!zoneVars
<1>1. /\ UNCHANGED <<published, asked>> /\ pc[h] # "idle" /\ pc'[h] # "idle"
      /\ \A g \in Handlers \ {h} : pc'[g] = pc[g]
      /\ \A g \in DNSHandlers \ {h} : answer'[g] = answer[g]
      /\ \A g \in PageHandlers \ {h} : page'[g] = page[g]
  BY HandlersAssumption
     DEF RLock, LookUp, ReadRecords, ReadNoAddrs, Goto, IInv, TypeOK
<1> QED
  BY <1>1 DEF Handlers, published, Atomic!zoneVars

LEMMA AskAtomic ==
  ASSUME IInv, NEW h \in DNSHandlers, NEW request \in Requests, Ask(h, request)
  PROVE  Atomic!Ask(h, request)
<1>1. /\ UNCHANGED <<published, page>> /\ pc[h] = "idle" /\ pc'[h] = "asked"
      /\ h \in Handlers
      /\ \A g \in Handlers \ {h} : pc'[g] = pc[g]
      /\ \A g \in DNSHandlers \ {h} : answer'[g] = answer[g]
      /\ asked' = [asked EXCEPT ![h] = request]
  BY DEF Ask, Goto, IInv, TypeOK, Handlers
<1> QED
  BY <1>1, HandlersAssumption DEF Handlers, published, Atomic!Ask

LEMMA AskPageAtomic ==
  ASSUME IInv, NEW h \in PageHandlers, AskPage(h)
  PROVE  Atomic!AskPage(h)
<1>1. /\ UNCHANGED <<published, page, asked, answer>>
      /\ pc[h] = "idle" /\ pc'[h] = "asked" /\ h \in Handlers
      /\ \A g \in Handlers \ {h} : pc'[g] = pc[g]
  BY DEF AskPage, Goto, IInv, TypeOK, Handlers
<1> QED
  BY <1>1, HandlersAssumption DEF Handlers, published, Atomic!AskPage

LEMMA ReplyAtomic ==
  ASSUME IInv, NEW h \in DNSHandlers, Reply(h)
  PROVE  Atomic!Reply(h)
<1>1. /\ UNCHANGED <<published, page, asked, answer>>
      /\ pc[h] # "idle" /\ pc'[h] = "idle" /\ h \in Handlers
      /\ \A g \in Handlers \ {h} : pc'[g] = pc[g]
  BY DEF Reply, Goto, IInv, TypeOK, Handlers
<1>2. answer[h] =
        AnswersOf([records |-> records, noAddrs |-> noAddrs], asked[h])
  BY DEF Reply, IInv, Readers, FoundSoFar, Lookup, AnswersOf
<1> QED
  BY <1>1, <1>2, HandlersAssumption DEF Handlers, published, Atomic!Reply

LEMMA ShowAtomic ==
  ASSUME IInv, NEW h \in PageHandlers, WritePage(h)
  PROVE  Atomic!Show(h)
<1>1. /\ UNCHANGED <<published, page, asked, answer>>
      /\ pc[h] # "idle" /\ pc'[h] = "idle" /\ h \in Handlers
      /\ \A g \in Handlers \ {h} : pc'[g] = pc[g]
  BY DEF WritePage, Goto, IInv, TypeOK, Handlers
<1>2. page[h] = [records |-> records, noAddrs |-> noAddrs]
  BY DEF WritePage, IInv, TypeOK, ZoneData, Readers, ReadSoFar
<1> QED
  BY <1>1, <1>2, HandlersAssumption DEF Handlers, published, Atomic!Show

LEMMA NextAtomic ==
  ASSUME IInv, Exact, [Next]_vars
  PROVE  [Atomic!Next]_(Atomic!zoneVars)
<1>1. CASE UpdateStep
  BY <1>1, PublishReplaces, UpdateInvisible DEF UpdateStep, Atomic!Next
<1>2. ASSUME NEW h \in DNSHandlers,
             DNSStep(h) \/ \E request \in Requests : Ask(h, request)
      PROVE  [Atomic!Next]_(Atomic!zoneVars)
  <2>1. h \in Handlers
    BY DEF Handlers
  <2> QED
    BY <1>2, <2>1, HandlerInvisible, AskAtomic, ReplyAtomic
       DEF DNSStep, Atomic!Next
<1>3. ASSUME NEW h \in PageHandlers, PageStep(h) \/ AskPage(h)
      PROVE  [Atomic!Next]_(Atomic!zoneVars)
  <2>1. h \in Handlers
    BY DEF Handlers
  <2> QED
    BY <1>3, <2>1, HandlerInvisible, AskPageAtomic, ShowAtomic
       DEF PageStep, Atomic!Next
<1>4. CASE UNCHANGED vars
  BY <1>4 DEF vars, Atomic!zoneVars
<1> QED
  BY <1>1, <1>2, <1>3, <1>4 DEF Next

\* The zone, its updates and its readers implement AtomicZone: each reply and
\* each page is of one moment, of a zone that one update made
\* (main.go:390-486, debug.go:465-542).
THEOREM ZoneIsAtomic == Spec => IsAtomic
BY InitAtomic, NextAtomic, Invariance, Exactness, PTL
   DEF Spec, IsAtomic, Atomic!Spec
=============================================================================
