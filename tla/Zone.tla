-------------------------------- MODULE Zone --------------------------------
(***************************************************************************)
(* The DNS zone in memory, shared under one sync.RWMutex (s.mu).  Each     *)
(* update builds a new record map from the filtered inventory and the      *)
(* extra records, item by item, and replaces the old map by it; DNS        *)
(* requests and the debug DNS page read the map in several steps.  A       *)
(* reader holds the lock until its client has been written to, and a       *)
(* writer that waits for the readers holds new readers back.               *)
(***************************************************************************)
EXTENDS Naturals, Sequences

CONSTANTS
  Names,        \* names of guests and extra records
  V4, V6,       \* IPv4 and IPv6 addresses
  Inventories,  \* what FilterResources may return: sequences of items
  Extras,       \* what loadExtraRecords may return, likewise
  Requests,     \* DNS requests: sets of questions
  DNSHandlers,  \* goroutines answering DNS requests
  PageHandlers  \* goroutines writing the debug DNS page

Addrs == V4 \cup V6
Item == [name : Names, addrs : SUBSET Addrs]
Question == [name : Names, type : {"A", "AAAA"}]
Handlers == DNSHandlers \cup PageHandlers

ASSUME AddrsAssumption == V4 \cap V6 = {}
ASSUME InputAssumption ==
  Inventories \subseteq Seq(Item) /\ Extras \subseteq Seq(Item)
\* The names of a JSON object are different, and each has one address.
ASSUME ExtrasAssumption ==
  \A extra \in Extras :
    \A i, j \in 1..Len(extra) :
      /\ extra[i].addrs # {}
      /\ extra[i].name = extra[j].name => i = j
ASSUME RequestsAssumption == Requests \subseteq SUBSET Question
ASSUME HandlersAssumption == DNSHandlers \cap PageHandlers = {}

VARIABLES
  records,    \* s.records: the addresses of each name, {} for no record
  noAddrs,    \* s.noAddrs
  source,     \* the input they were built from
  updater,    \* updateDNSRecords: "idle", "build", "lock", "waiting"
  input,      \* what the update in progress has fetched and loaded
  next,       \* index of the item its loop is at
  built,      \* its local variables records and noAddrs
  holders,    \* handlers holding s.mu.RLock()
  pc,         \* each handler: "idle", "asked" (in RLock), "reading", and a
              \* page handler that has read the records "half", then "read"
  asked,      \* the request each DNS handler answers
  todo,       \* its questions not looked up yet
  answer,     \* its answers so far
  page        \* what each page handler has read

update == <<updater, input, next, built>>
published == <<records, noAddrs, source>>
handling == <<holders, pc, asked, todo, answer, page>>
vars == <<records, noAddrs, source, updater, input, next, built,
          holders, pc, asked, todo, answer, page>>

ZoneData == [records : [Names -> SUBSET Addrs], noAddrs : SUBSET Names]
Nothing == [records |-> [n \in Names |-> {}], noAddrs |-> {}]
Input == [filtered : Inventories \cup {<<>>}, extra : Extras \cup {<<>>}]
NoInput == [filtered |-> <<>>, extra |-> <<>>]

\* The items of an update: the extra records follow the filtered inventory.
Items(in) == in.filtered \o in.extra

TypeOK ==
  /\ [records |-> records, noAddrs |-> noAddrs] \in ZoneData
  /\ source \in Input /\ input \in Input
  /\ updater \in {"idle", "build", "lock", "waiting"}
  /\ next \in 1..Len(Items(input)) + 1
  /\ built \in ZoneData
  /\ holders \subseteq Handlers
  /\ pc \in [Handlers -> {"idle", "asked", "reading", "half", "read"}]
  /\ asked \in [DNSHandlers -> SUBSET Question]
  /\ todo \in [DNSHandlers -> SUBSET Question]
  /\ answer \in [DNSHandlers -> SUBSET (Names \X Addrs)]
  /\ page \in [PageHandlers -> ZoneData]

Init ==
  /\ records = Nothing.records /\ noAddrs = {} /\ source = NoInput
  /\ updater = "idle" /\ input = NoInput /\ next = 1 /\ built = Nothing
  /\ holders = {} /\ pc = [h \in Handlers |-> "idle"]
  /\ asked = [h \in DNSHandlers |-> {}]
  /\ todo = [h \in DNSHandlers |-> {}]
  /\ answer = [h \in DNSHandlers |-> {}]
  /\ page = [h \in PageHandlers |-> Nothing]
-----------------------------------------------------------------------------
(***************************************************************************)
(* updateDNSRecords after the inventory has been fetched.                  *)
(***************************************************************************)
\* Mutant: the new map starts from the one being served.
OldMap == [records |-> records, noAddrs |-> {}]

\* Every update builds a map of its own.
FreshMap == Nothing

Fetched ==
  /\ updater = "idle"
  /\ input' \in Input
  /\ next' = 1 /\ built' = FreshMap
  /\ updater' = "build"
  /\ UNCHANGED <<published, handling>>

\* Mutant: an earlier guest keeps its name.
FirstWins ==
  /\ updater = "build" /\ next <= Len(Items(input))
  /\ LET item == Items(input)[next] IN
       built' = IF item.addrs = {}
                THEN [built EXCEPT !.noAddrs = @ \cup {item.name}]
                ELSE [built EXCEPT !.records[item.name] =
                        IF @ = {} THEN item.addrs ELSE @]
  /\ next' = next + 1
  /\ UNCHANGED <<updater, input, published, handling>>

AddItem ==
  /\ updater = "build" /\ next <= Len(Items(input))
  /\ LET item == Items(input)[next] IN
       built' = IF item.addrs = {}
                THEN [built EXCEPT !.noAddrs = @ \cup {item.name}]
                ELSE [built EXCEPT !.records[item.name] = item.addrs]
  /\ next' = next + 1
  /\ UNCHANGED <<updater, input, published, handling>>

AllAdded ==
  /\ updater = "build" /\ next = Len(Items(input)) + 1
  /\ updater' = "lock"
  /\ UNCHANGED <<input, next, built, published, handling>>

\* s.mu.Lock(): from here on RLock blocks.
AskLock ==
  /\ updater = "lock"
  /\ updater' = "waiting"
  /\ UNCHANGED <<input, next, built, published, handling>>

\* Mutant: the map is replaced without the lock.
PublishUnlocked ==
  /\ updater = "waiting"
  /\ records' = built.records /\ noAddrs' = built.noAddrs
  /\ source' = input
  /\ updater' = "idle"
  /\ UNCHANGED <<input, next, built, handling>>

\* Mutant: no Unlock.
PublishKeepsLock ==
  /\ updater = "waiting" /\ holders = {}
  /\ records' = built.records /\ noAddrs' = built.noAddrs
  /\ source' = input
  /\ UNCHANGED <<update, handling>>

\* The lock is taken, the map replaced and the lock released.
Publish ==
  /\ updater = "waiting" /\ holders = {}
  /\ records' = built.records /\ noAddrs' = built.noAddrs
  /\ source' = input
  /\ updater' = "idle"
  /\ UNCHANGED <<input, next, built, handling>>
-----------------------------------------------------------------------------
(***************************************************************************)
(* handleDNSRequest and handleDebugDNS.                                    *)
(***************************************************************************)
Goto(h, place) == pc' = [pc EXCEPT ![h] = place]

Ask(h, request) ==
  /\ pc[h] = "idle" /\ Goto(h, "asked")
  /\ asked' = [asked EXCEPT ![h] = request]
  /\ todo' = [todo EXCEPT ![h] = request]
  /\ answer' = [answer EXCEPT ![h] = {}]
  /\ UNCHANGED <<published, update, holders, page>>

AskPage(h) ==
  /\ pc[h] = "idle" /\ Goto(h, "asked")
  /\ UNCHANGED <<published, update, holders, asked, todo, answer, page>>

\* Mutant: readers are let in although a writer waits.
ReadersFirst(h) ==
  /\ pc[h] = "asked"
  /\ holders' = holders \cup {h}
  /\ Goto(h, "reading")
  /\ UNCHANGED <<published, update, asked, todo, answer, page>>

\* s.mu.RLock().
RLock(h) ==
  /\ pc[h] = "asked" /\ updater # "waiting"
  /\ holders' = holders \cup {h}
  /\ Goto(h, "reading")
  /\ UNCHANGED <<published, update, asked, todo, answer, page>>

OfType(type) == IF type = "A" THEN V4 ELSE V6

\* The answers a record map has for one question.
AnswersIn(map, q) == {q.name} \X (map[q.name] \cap OfType(q.type))

\* The answers of the zone to one question.
Lookup(q) == AnswersIn(records, q)

LookUp(h) ==
  /\ pc[h] = "reading"
  /\ \E q \in todo[h] :
       /\ todo' = [todo EXCEPT ![h] = @ \ {q}]
       /\ answer' = [answer EXCEPT ![h] = @ \cup Lookup(q)]
  /\ UNCHANGED <<published, update, holders, pc, asked, page>>

\* The reply is written, an NXDOMAIN if there are no answers, and then the
\* deferred RUnlock runs.
Reply(h) ==
  /\ pc[h] = "reading" /\ todo[h] = {}
  /\ holders' = holders \ {h}
  /\ Goto(h, "idle")
  /\ UNCHANGED <<published, update, asked, todo, answer, page>>

ReadRecords(h) ==
  /\ pc[h] = "reading" /\ Goto(h, "half")
  /\ page' = [page EXCEPT ![h].records = records]
  /\ UNCHANGED <<published, update, holders, asked, todo, answer>>

ReadNoAddrs(h) ==
  /\ pc[h] = "half" /\ Goto(h, "read")
  /\ page' = [page EXCEPT ![h].noAddrs = noAddrs]
  /\ UNCHANGED <<published, update, holders, asked, todo, answer>>

\* The page is written out under the lock.
WritePage(h) ==
  /\ pc[h] = "read" /\ Goto(h, "idle")
  /\ holders' = holders \ {h}
  /\ UNCHANGED <<published, update, asked, todo, answer, page>>
-----------------------------------------------------------------------------
UpdateStep == Fetched \/ AddItem \/ AllAdded \/ AskLock \/ Publish

DNSStep(h) == RLock(h) \/ LookUp(h) \/ Reply(h)

PageStep(h) == RLock(h) \/ ReadRecords(h) \/ ReadNoAddrs(h) \/ WritePage(h)

Next ==
  \/ UpdateStep
  \/ \E h \in DNSHandlers :
       DNSStep(h) \/ \E request \in Requests : Ask(h, request)
  \/ \E h \in PageHandlers : PageStep(h) \/ AskPage(h)

Spec == Init /\ [][Next]_vars

(***************************************************************************)
(* Goroutines run, the lock wakes who waits for it (Unlock lets the        *)
(* readers that waited for the writer in before the next writer, so an     *)
(* asking reader is not overtaken for ever), and clients read what is      *)
(* written to them: the debug server sets no write timeout, so this is an  *)
(* assumption about its clients.                                           *)
(***************************************************************************)
Fairness ==
  /\ WF_vars(UpdateStep)
  /\ \A h \in Handlers : SF_vars(RLock(h))
  /\ \A h \in DNSHandlers : WF_vars(LookUp(h)) /\ WF_vars(Reply(h))
  /\ \A h \in PageHandlers :
       /\ WF_vars(ReadRecords(h)) /\ WF_vars(ReadNoAddrs(h))
       /\ WF_vars(WritePage(h))

FairSpec == Spec /\ Fairness
-----------------------------------------------------------------------------
(***************************************************************************)
(* Safety.                                                                 *)
(***************************************************************************)
Image(items) == {items[i] : i \in 1..Len(items)}

\* What is served comes from one update: every name has the addresses of one
\* guest or extra record of that name, an extra record's if there is one;
\* nothing with an address is missing; and what stopped running or was
\* filtered out is gone.
ServesItsSource ==
  /\ \A n \in Names :
       records[n] # {} =>
         [name |-> n, addrs |-> records[n]] \in Image(Items(source))
  /\ \A item \in Image(Items(source)) :
       IF item.addrs = {} THEN item.name \in noAddrs
       ELSE records[item.name] # {}
  /\ \A item \in Image(source.extra) : records[item.name] = item.addrs

\* A reply, whatever it was asked and however the updates interleave with its
\* lookups, is the answer of the zone as it is when the reply is written.
ReplyIsCurrent ==
  \A h \in DNSHandlers :
    pc[h] = "reading" /\ todo[h] = {} =>
      answer[h] = UNION {Lookup(q) : q \in asked[h]}

\* The two parts of the debug DNS page are from the same update.
PageIsOneZone ==
  \A h \in PageHandlers :
    pc[h] = "read" => page[h] = [records |-> records, noAddrs |-> noAddrs]

-----------------------------------------------------------------------------
(***************************************************************************)
(* Refinement.                                                             *)
(***************************************************************************)
\* The addresses of a name in a zone made of the first n items: those of the
\* last item of that name that has any.
LastAddrs(items, n, name) ==
  UNION {items[i].addrs : i \in {j \in 1..n :
    /\ items[j].name = name /\ items[j].addrs # {}
    /\ \A k \in j + 1..n : items[k].name = name => items[k].addrs = {}}}

Made(items, n) ==
  [records |-> [name \in Names |-> LastAddrs(items, n, name)],
   noAddrs |-> {items[i].name : i \in {j \in 1..n : items[j].addrs = {}}}]

ZoneOf(in) == Made(Items(in), Len(Items(in)))

AnswersOf(zone, request) ==
  UNION {AnswersIn(zone.records, q) : q \in request}

\* The updates, under the lock and item by item, and the handlers, lookup by
\* lookup and part by part, do what the module AtomicZone says is done in one
\* step each (main.go:390-486, debug.go:465-542).
Atomic == INSTANCE AtomicZone WITH
  Zones <- {ZoneOf(in) : in \in Input}, NoZone <- Nothing,
  Answers <- AnswersOf,
  zone <- [records |-> records, noAddrs |-> noAddrs],
  open <- {h \in Handlers : pc[h] # "idle"},
  reply <- [h \in DNSHandlers |-> IF pc[h] = "idle" THEN answer[h] ELSE {}],
  shown <- [h \in PageHandlers |->
              IF pc[h] = "idle" THEN page[h] ELSE Nothing]

IsAtomic == Atomic!Spec
-----------------------------------------------------------------------------
(***************************************************************************)
(* Liveness.                                                               *)
(***************************************************************************)

\* Every request is answered and every update is published, although the
\* answers are written under the lock.
Answered ==
  \A h \in Handlers : pc[h] = "asked" ~> pc[h] = "idle"
Published == updater = "lock" ~> updater = "idle"
=============================================================================
