----------------------------- MODULE AtomicLogin -----------------------------
(***************************************************************************)
(* What the password provider promises to the requests: there is one       *)
(* stored login, replaced as a whole by one that is valid at that moment   *)
(* or, when Proxmox answers without a ticket, by none; and each request    *)
(* bears, in both its headers, the login stored at one moment between its  *)
(* call and its sending.                                                   *)
(***************************************************************************)
CONSTANTS
  Requests,
  Logins,
  None       \* no login

VARIABLES
  valid,   \* the logins Proxmox accepts
  stored,  \* the login requests are to bear
  at,      \* where each request is: "idle", "called" or "sent"
  bears    \* the logins of its two headers, None unless it is sent

loginVars == <<valid, stored, at, bears>>

Both(l) == [csrf |-> l, ticket |-> l]

Init ==
  /\ valid = {} /\ stored = None
  /\ at = [r \in Requests |-> "idle"]
  /\ bears = [r \in Requests |-> Both(None)]

Grant ==
  /\ \E l \in Logins : valid' = valid \cup {l}
  /\ UNCHANGED <<stored, at, bears>>

Expire ==
  /\ \E l \in valid : valid' = valid \ {l}
  /\ UNCHANGED <<stored, at, bears>>

Replace ==
  /\ stored' \in valid \cup {None}
  /\ UNCHANGED <<valid, at, bears>>

Call(r) ==
  /\ at[r] = "idle" /\ at' = [at EXCEPT ![r] = "called"]
  /\ UNCHANGED <<valid, stored, bears>>

Send(r) ==
  /\ at[r] = "called" /\ at' = [at EXCEPT ![r] = "sent"]
  /\ bears' = [bears EXCEPT ![r] = Both(stored)]
  /\ UNCHANGED <<valid, stored>>

Return(r) ==
  /\ at[r] = "sent" /\ at' = [at EXCEPT ![r] = "idle"]
  /\ bears' = [bears EXCEPT ![r] = Both(None)]
  /\ UNCHANGED <<valid, stored>>

Next ==
  \/ Grant \/ Expire \/ Replace
  \/ \E r \in Requests : Call(r) \/ Send(r) \/ Return(r)

Spec == Init /\ [][Next]_loginVars
=============================================================================
