------------------------------ MODULE AtomicZone ------------------------------
(***************************************************************************)
(* What the readers of the zone may rely on: the zone is replaced as a     *)
(* whole, each time by one that an update of the program makes of one      *)
(* inventory and one set of extra records, and every reply and every page  *)
(* is made at one moment, of the zone of that moment.                      *)
(***************************************************************************)
CONSTANTS
  Zones,         \* the zones updates make
  NoZone,        \* the zone before the first update
  Requests,      \* DNS requests
  DNSHandlers,   \* who answers them
  PageHandlers,  \* who writes the debug DNS page
  Answers(_, _)  \* the answers of a zone to a request

VARIABLES
  zone,   \* the zone
  open,   \* the handlers that have not answered yet
  asked,  \* the request each DNS handler was last asked
  reply,  \* its reply, {} while it has not answered
  shown   \* the zone each page shows, NoZone while it is not written

zoneVars == <<zone, open, asked, reply, shown>>

Init ==
  /\ zone = NoZone /\ open = {}
  /\ asked = [h \in DNSHandlers |-> {}]
  /\ reply = [h \in DNSHandlers |-> {}]
  /\ shown = [h \in PageHandlers |-> NoZone]

Replace == zone' \in Zones /\ UNCHANGED <<open, asked, reply, shown>>

Ask(h, request) ==
  /\ h \notin open /\ open' = open \cup {h}
  /\ asked' = [asked EXCEPT ![h] = request]
  /\ reply' = [reply EXCEPT ![h] = {}]
  /\ UNCHANGED <<zone, shown>>

Reply(h) ==
  /\ h \in open /\ open' = open \ {h}
  /\ reply' = [reply EXCEPT ![h] = Answers(zone, asked[h])]
  /\ UNCHANGED <<zone, asked, shown>>

AskPage(h) ==
  /\ h \notin open /\ open' = open \cup {h}
  /\ shown' = [shown EXCEPT ![h] = NoZone]
  /\ UNCHANGED <<zone, asked, reply>>

Show(h) ==
  /\ h \in open /\ open' = open \ {h}
  /\ shown' = [shown EXCEPT ![h] = zone]
  /\ UNCHANGED <<zone, asked, reply>>

Next ==
  \/ Replace
  \/ \E h \in DNSHandlers :
       Reply(h) \/ \E request \in Requests : Ask(h, request)
  \/ \E h \in PageHandlers : AskPage(h) \/ Show(h)

Spec == Init /\ [][Next]_zoneVars
=============================================================================
