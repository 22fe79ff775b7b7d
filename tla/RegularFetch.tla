----------------------------- MODULE RegularFetch -----------------------------
(***************************************************************************)
(* What a fetch promises although the cluster changes while it is read.    *)
(* It is not a snapshot.  Like a read of a regular register it returns,    *)
(* all at once, what was true at some moment since it began, guest by      *)
(* guest; or it returns an error, and nothing.                             *)
(***************************************************************************)
CONSTANTS
  Guests,
  States,   \* what a guest may be: [node, addr, on]
  Static    \* the guests whose configuration gives their address

VARIABLES
  now,      \* each guest's state
  was,      \* its states since the fetch began
  outcome,  \* "none", "items" or "error"
  items     \* what is returned: [guest, node, addr]

fetchVars == <<now, was, outcome, items>>

Init ==
  /\ now \in [Guests -> States]
  /\ was = [g \in Guests |-> {now[g]}]
  /\ outcome = "none" /\ items = {}

Change(g) ==
  /\ \E s \in States : now' = [now EXCEPT ![g] = s]
  /\ was' = [was EXCEPT ![g] = @ \cup {now'[g]}]
  /\ UNCHANGED <<outcome, items>>

\* The guest ran on the node and had the address, both at one moment unless
\* the address was read of its configuration.
Witnessed(i) ==
  \E s, t \in was[i.guest] :
    /\ s.node = i.node /\ s.on
    /\ t.node = i.node /\ t.addr = i.addr
    /\ i.guest \in Static \/ s = t

\* The guest ran on the node all the time, whatever its address.
Stayed(g, n) == \A s \in was[g] : s.on /\ s.node = n

Return(result) ==
  /\ outcome = "none"
  /\ \A i \in result : i.guest \in Guests /\ Witnessed(i)
  /\ \A g \in Guests : \A s \in was[g] :
       Stayed(g, s.node) => \E i \in result : i.guest = g
  /\ \A i, j \in result : i.guest = j.guest /\ i.node = j.node => i = j
  /\ outcome' = "items" /\ items' = result
  /\ UNCHANGED <<now, was>>

Fail ==
  /\ outcome = "none" /\ outcome' = "error"
  /\ UNCHANGED <<now, was, items>>

Next ==
  \/ \E g \in Guests : Change(g)
  \/ \E result \in SUBSET [guest : Guests, node : {s.node : s \in States},
                           addr : {s.addr : s \in States}] : Return(result)
  \/ Fail

Spec == Init /\ [][Next]_fetchVars
=============================================================================
