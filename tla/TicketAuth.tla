------------------------------ MODULE TicketAuth ------------------------------
(***************************************************************************)
(* The password provider: main() and then a periodic job log in to Proxmox *)
(* and store the ticket and the CSRF token of the login in two variables,  *)
(* under the lock under which the requests that fetch the inventory read   *)
(* them.  A login is not known to be answered: the client has no timeout.  *)
(* Go's RWMutex lets no reader in behind a writer that waits.              *)
(***************************************************************************)
CONSTANTS
  Requests,  \* the goroutines that call fetchFromProxmox
  Logins,    \* logins at Proxmox, each with its ticket and its token
  None       \* what the empty ticket and the empty token stand for

ASSUME LoginsAssumption == None \notin Logins

VARIABLES
  up,       \* whether Proxmox accepts logins
  valid,    \* the logins whose tickets Proxmox accepts
  auth,     \* where Authenticate is; "idle" when nobody is in it
  started,  \* whether main() is behind its first call of it
  client,   \* whether there is an HTTP client
  answer,   \* data: the login in the answer that is being stored
  mu,       \* the writer's side of mu: "free", "asked" or "held"
  ticket,   \* the login of which the stored ticket is
  csrf,     \* the login of which the stored token is
  pc,       \* where each request is; "csrf" and "cookie" hold mu for reading
  header    \* the logins of its two headers

auths == <<auth, started, client, answer, mu, ticket, csrf>>
vars == <<up, valid, auths, pc, header>>

Bare == [csrf |-> None, ticket |-> None]

TypeOK ==
  /\ up \in BOOLEAN /\ valid \subseteq Logins
  /\ auth \in {"idle", "client", "sent", "lock", "ticket", "csrf"}
  /\ started \in BOOLEAN /\ client \in BOOLEAN
  /\ answer \in Logins \cup {None} /\ mu \in {"free", "asked", "held"}
  /\ ticket \in Logins \cup {None} /\ csrf \in Logins \cup {None}
  /\ pc \in [Requests -> {"idle", "rlock", "csrf", "cookie", "sent"}]
  /\ header \in
       [Requests -> [csrf : Logins \cup {None}, ticket : Logins \cup {None}]]

\* main() calls Authenticate before anything else.
Init ==
  /\ up \in BOOLEAN /\ valid = {}
  /\ auth = "client" /\ started = FALSE /\ client = FALSE
  /\ answer = None /\ mu = "free" /\ ticket = None /\ csrf = None
  /\ pc = [r \in Requests |-> "idle"]
  /\ header = [r \in Requests |-> Bare]
-----------------------------------------------------------------------------
(***************************************************************************)
(* Proxmox.                                                                *)
(***************************************************************************)
Outage == up' = ~up /\ UNCHANGED <<valid, auths, pc, header>>

\* A ticket outlives the moment between the answer and its storing.
Expire ==
  /\ \E l \in valid \ {answer} : valid' = valid \ {l}
  /\ UNCHANGED <<up, auths, pc, header>>
-----------------------------------------------------------------------------
(***************************************************************************)
(* Authenticate.                                                           *)
(***************************************************************************)
\* Mutant: only who has no ticket logs in.
LoginOnce ==
  /\ auth = "idle" /\ ticket = None
  /\ auth' = "client"
  /\ UNCHANGED <<up, valid, started, client, answer, mu, ticket, csrf, pc,
                 header>>

\* The periodic job calls it; an error is logged and the job called again.
Refresh ==
  /\ auth = "idle"
  /\ auth' = "client"
  /\ UNCHANGED <<up, valid, started, client, answer, mu, ticket, csrf, pc,
                 header>>

\* Mutant: the old login is forgotten before there is another.
ForgetFirst ==
  /\ auth = "client"
  /\ client' = TRUE /\ auth' = "sent" /\ ticket' = None /\ csrf' = None
  /\ UNCHANGED <<up, valid, started, answer, mu, pc, header>>

\* Mutant: the lock is taken for the login, not only for storing it.
LockForLogin ==
  /\ auth = "client" /\ \A r \in Requests : pc[r] \notin {"csrf", "cookie"}
  /\ client' = TRUE /\ auth' = "sent" /\ mu' = "held"
  /\ UNCHANGED <<up, valid, started, answer, ticket, csrf, pc, header>>

\* getClient: nobody else writes, so its first look never waits; the client
\* is made by main(), before there are requests.
GetClient ==
  /\ auth = "client" /\ (client \/ ~started)
  /\ client' = TRUE /\ auth' = "sent"
  /\ UNCHANGED <<up, valid, started, answer, mu, ticket, csrf, pc, header>>

\* Names of logins nothing refers to any more are used again.
Fresh(l) ==
  /\ l \notin {ticket, csrf}
  /\ \A r \in Requests : l \notin {header[r].csrf, header[r].ticket}

Login ==
  /\ auth = "sent" /\ up
  /\ \E l \in Logins : Fresh(l) /\ answer' = l /\ valid' = valid \cup {l}
  /\ auth' = "lock" /\ mu' = "asked"
  /\ UNCHANGED <<up, started, client, ticket, csrf, pc, header>>

\* An answer of status 200 without a ticket counts as a login.
LoginEmpty ==
  /\ auth = "sent" /\ ~up
  /\ answer' = None
  /\ auth' = "lock" /\ mu' = "asked"
  /\ UNCHANGED <<up, valid, started, client, ticket, csrf, pc, header>>

\* Refused, unreadable, no connection, or the context is cancelled.
LoginFails ==
  /\ auth = "sent" /\ ~up
  /\ auth' = "idle" /\ started' = TRUE
  /\ UNCHANGED <<up, valid, client, answer, mu, ticket, csrf, pc, header>>

\* Mutant: the readers are not waited for.
StoreAnyway ==
  /\ auth = "lock"
  /\ auth' = "ticket" /\ mu' = "held"
  /\ UNCHANGED <<up, valid, started, client, answer, ticket, csrf, pc, header>>

Lock ==
  /\ auth = "lock" /\ \A r \in Requests : pc[r] \notin {"csrf", "cookie"}
  /\ auth' = "ticket" /\ mu' = "held"
  /\ UNCHANGED <<up, valid, started, client, answer, ticket, csrf, pc, header>>

StoreTicket ==
  /\ auth = "ticket"
  /\ ticket' = answer /\ auth' = "csrf"
  /\ UNCHANGED <<up, valid, started, client, answer, mu, csrf, pc, header>>

\* Mutant: an empty token does not replace the one there was.
StoreUnlessEmpty ==
  /\ auth = "csrf"
  /\ csrf' = (IF answer = None THEN csrf ELSE answer) /\ mu' = "free"
  /\ auth' = "idle" /\ started' = TRUE /\ answer' = None
  /\ UNCHANGED <<up, valid, client, ticket, pc, header>>

\* The deferred Unlock is part of it.
StoreCSRF ==
  /\ auth = "csrf"
  /\ csrf' = answer /\ mu' = "free"
  /\ auth' = "idle" /\ started' = TRUE /\ answer' = None
  /\ UNCHANGED <<up, valid, client, ticket, pc, header>>
-----------------------------------------------------------------------------
(***************************************************************************)
(* fetchFromProxmox, with UpdateRequest.                                   *)
(***************************************************************************)
Request(r) ==
  /\ pc[r] = "idle" /\ started
  /\ pc' = [pc EXCEPT ![r] = "rlock"]
  /\ UNCHANGED <<up, valid, auths, header>>

RLock(r) ==
  /\ pc[r] = "rlock" /\ mu = "free"
  /\ pc' = [pc EXCEPT ![r] = "csrf"]
  /\ UNCHANGED <<up, valid, auths, header>>

SetCSRF(r) ==
  /\ pc[r] = "csrf"
  /\ header' = [header EXCEPT ![r].csrf = csrf]
  /\ pc' = [pc EXCEPT ![r] = "cookie"]
  /\ UNCHANGED <<up, valid, auths>>

SetCookie(r) ==
  /\ pc[r] = "cookie"
  /\ header' = [header EXCEPT ![r].ticket = ticket]
  /\ pc' = [pc EXCEPT ![r] = "sent"]
  /\ UNCHANGED <<up, valid, auths>>

\* With data or an error; the headers go with the request.
Return(r) ==
  /\ pc[r] = "sent"
  /\ header' = [header EXCEPT ![r] = Bare]
  /\ pc' = [pc EXCEPT ![r] = "idle"]
  /\ UNCHANGED <<up, valid, auths>>
-----------------------------------------------------------------------------
UpdateRequest(r) == RLock(r) \/ SetCSRF(r) \/ SetCookie(r)
Authenticate == Refresh \/ GetClient \/ Lock \/ StoreTicket \/ StoreCSRF

Next ==
  \/ Outage \/ Expire
  \/ Authenticate \/ Login \/ LoginEmpty \/ LoginFails
  \/ \E r \in Requests : Request(r) \/ UpdateRequest(r) \/ Return(r)

\* Ticks come for ever and goroutines run; Unlock lets the readers in that
\* waited for it; no answer is ever certain.
Fairness ==
  /\ WF_vars(Authenticate)
  /\ \A r \in Requests :
       SF_vars(RLock(r)) /\ WF_vars(SetCSRF(r) \/ SetCookie(r))

Spec == Init /\ [][Next]_vars /\ Fairness
-----------------------------------------------------------------------------
(***************************************************************************)
(* Properties.                                                             *)
(***************************************************************************)
\* A request bears the ticket and the token of one login, although both are
\* stored and read one after the other (auth.go:152-155, 160-163).
OneLogin ==
  \A r \in Requests : pc[r] = "sent" => header[r].csrf = header[r].ticket

\* A ticket Proxmox accepts is not given up for nothing: neither while the
\* next login is under way nor when that fails, unless it is answered with
\* status 200 and no ticket (auth.go:132-155).
KeepsLogin ==
  [][(ticket \in valid /\ ticket' # ticket) =>
       \/ ticket' \in valid'
       \/ auth = "ticket" /\ answer = None]_vars

\* Storing and reading the pair, each in two steps under the lock, look as if
\* one login were stored and read in one step, as the module AtomicLogin has it:
\* a login is stored with its token, and a request reads with its ticket
\* (auth.go:152-155, 160-163).
Atomic == INSTANCE AtomicLogin WITH
  stored <- csrf,
  at <- [r \in Requests |->
           IF pc[r] \in {"rlock", "csrf", "cookie"} THEN "called" ELSE pc[r]],
  bears <- [r \in Requests |-> IF pc[r] = "sent" THEN header[r] ELSE Bare]

IsAtomicLogin == Atomic!Spec

\* A login that hangs keeps no request from being sent (auth.go:132, 160).
RequestsGoOn == \A r \in Requests : pc[r] = "rlock" ~> pc[r] = "sent"

\* However long Proxmox was away and whatever tickets expired, there is a valid
\* one again and again once it accepts logins, unless a login hangs (auth.go:
\* 60-62, main.go:151-158).
Hangs == <>[](auth = "sent")
Recovers == <>[]up => Hangs \/ []<>(ticket \in valid)
=============================================================================
