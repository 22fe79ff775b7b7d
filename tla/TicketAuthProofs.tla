-------------------------- MODULE TicketAuthProofs --------------------------
(***************************************************************************)
(* Proofs about the module TicketAuth, for any number of requests.         *)
(***************************************************************************)
EXTENDS TicketAuth, TLAPS

Readers == {r \in Requests : pc[r] \in {"csrf", "cookie"}}

\* The writer's side of the lock goes with Authenticate, and who writes is
\* alone.
Exclusion ==
  /\ mu = "held" <=> auth \in {"ticket", "csrf"}
  /\ mu = "asked" <=> auth = "lock"
  /\ mu = "held" => Readers = {}

\* Only between the two assignments are they of different logins.
OnePair == IF auth = "csrf" THEN ticket = answer ELSE csrf = ticket

\* What is about to be stored is valid.
Granted == answer # None => answer \in valid

\* Who has read the token reads the ticket of the same login.
HalfRead == \A r \in Requests : pc[r] = "cookie" => header[r].csrf = csrf

IInv == TypeOK /\ Exclusion /\ OnePair /\ HalfRead /\ OneLogin /\ Granted
-----------------------------------------------------------------------------
LEMMA InitIInv == Init => IInv
<1> SUFFICES ASSUME Init PROVE IInv
  OBVIOUS
<1>1. TypeOK
  BY DEF Init, TypeOK, Bare
<1> QED
  BY <1>1 DEF Init, IInv, Exclusion, Readers, OnePair, HalfRead, OneLogin,
              Granted

\* Proxmox changes nothing of the program.
LEMMA ProxmoxIInv ==
  ASSUME IInv, Outage \/ Expire
  PROVE  IInv'
<1>1. TypeOK'
  BY DEF IInv, TypeOK, Outage, Expire, auths
<1> QED
  BY <1>1 DEF Outage, Expire, auths, IInv, Exclusion, Readers, OnePair,
              HalfRead, OneLogin, Granted

\* Authenticate up to the answer, and where it waits for the lock.
LEMMA LoginIInv ==
  ASSUME IInv, Refresh \/ GetClient \/ Login \/ LoginEmpty \/ LoginFails
  PROVE  IInv'
<1>1. TypeOK'
  BY DEF IInv, TypeOK, Refresh, GetClient, Login, LoginEmpty, LoginFails
<1> QED
  BY <1>1 DEF Refresh, GetClient, Login, LoginEmpty, LoginFails, IInv, TypeOK,
              Exclusion, Readers, OnePair, HalfRead, OneLogin, Granted

\* Storing the pair under the lock.
LEMMA StoreIInv ==
  ASSUME IInv, Lock \/ StoreTicket \/ StoreCSRF
  PROVE  IInv'
<1>1. TypeOK'
  BY DEF IInv, TypeOK, Lock, StoreTicket, StoreCSRF
<1>2. Exclusion'
  BY DEF Lock, StoreTicket, StoreCSRF, IInv, Exclusion, Readers
<1>3. OnePair'
  <2>1. CASE Lock \/ StoreTicket
    BY <2>1 DEF Lock, StoreTicket, IInv, OnePair
  <2>2. CASE StoreCSRF
    BY <2>2 DEF StoreCSRF, IInv, OnePair
  <2> QED
    BY <2>1, <2>2
<1>4. HalfRead'
  <2>1. CASE csrf' = csrf
    BY <2>1 DEF Lock, StoreTicket, StoreCSRF, IInv, HalfRead
  <2>2. CASE StoreCSRF
    BY <2>2 DEF StoreCSRF, IInv, Exclusion, Readers, HalfRead
  <2> QED
    BY <2>1, <2>2 DEF Lock, StoreTicket
<1> QED
  BY <1>1, <1>2, <1>3, <1>4
     DEF Lock, StoreTicket, StoreCSRF, IInv, OneLogin, Granted

\* A step of a request touches nothing of another one.
LEMMA RequestIInv ==
  ASSUME IInv, NEW r \in Requests,
         Request(r) \/ UpdateRequest(r) \/ Return(r)
  PROVE  IInv'
<1>0. /\ UNCHANGED <<up, valid, auths>>
      /\ \A s \in Requests \ {r} : pc'[s] = pc[s] /\ header'[s] = header[s]
  BY DEF Request, UpdateRequest, RLock, SetCSRF, SetCookie, Return, IInv, TypeOK
<1>1. TypeOK'
  BY <1>0 DEF IInv, TypeOK, auths, Bare, Request, UpdateRequest, RLock, SetCSRF,
              SetCookie, Return
<1>2. Exclusion'
  <2>1. pc'[r] \in {"csrf", "cookie"} => mu = "free" \/ r \in Readers
    BY DEF Request, UpdateRequest, RLock, SetCSRF, SetCookie, Return, Readers,
           IInv, TypeOK
  <2> QED
    BY <1>0, <2>1 DEF auths, IInv, Exclusion, Readers
<1>3. OnePair'
  BY <1>0 DEF auths, IInv, OnePair
<1>4. HalfRead'
  <2>1. pc'[r] = "cookie" => header'[r].csrf = csrf
    BY DEF Request, UpdateRequest, RLock, SetCSRF, SetCookie, Return, IInv,
           TypeOK
  <2> QED
    BY <1>0, <2>1 DEF auths, IInv, HalfRead
<1>5. OneLogin'
  <2>1. pc'[r] = "sent" => header'[r].csrf = header'[r].ticket
    <3> SUFFICES ASSUME SetCookie(r) PROVE header'[r].csrf = header'[r].ticket
      BY DEF Request, UpdateRequest, RLock, SetCSRF, Return, IInv, TypeOK
    <3>1. header'[r].ticket = ticket /\ header'[r].csrf = header[r].csrf
      BY DEF SetCookie, IInv, TypeOK
    <3>2. header[r].csrf = csrf
      BY DEF SetCookie, IInv, HalfRead
    <3>3. csrf = ticket
      BY DEF SetCookie, IInv, Exclusion, Readers, OnePair
    <3> QED
      BY <3>1, <3>2, <3>3
  <2> QED
    BY <1>0, <2>1 DEF IInv, OneLogin
<1> QED
  BY <1>0, <1>1, <1>2, <1>3, <1>4, <1>5 DEF auths, IInv, Granted

LEMMA NextIInv == IInv /\ [Next]_vars => IInv'
<1> SUFFICES ASSUME IInv, [Next]_vars PROVE IInv'
  OBVIOUS
<1>1. CASE Next
  BY <1>1, ProxmoxIInv, LoginIInv, StoreIInv, RequestIInv
     DEF Next, Authenticate
<1>2. CASE UNCHANGED vars
  BY <1>2 DEF vars, auths, IInv, TypeOK, Exclusion, Readers, OnePair, HalfRead,
              OneLogin, Granted
<1> QED
  BY <1>1, <1>2

THEOREM Invariance == Spec => []IInv
BY InitIInv, NextIInv, PTL DEF Spec
-----------------------------------------------------------------------------
\* The program's state keeps its types.
THEOREM TypeCorrect == Spec => []TypeOK
<1>1. IInv => TypeOK
  BY DEF IInv
<1> QED
  BY <1>1, Invariance, PTL

\* Every request bears the ticket and the token of one login
\* (auth.go:152-155, 160-163).
THEOREM RequestsBearOneLogin == Spec => []OneLogin
<1>1. IInv => OneLogin
  BY DEF IInv
<1> QED
  BY <1>1, Invariance, PTL

\* A login that is in use and valid is only replaced by one that is valid, or
\* by an answer without a ticket (auth.go:132-155).
THEOREM LoginIsKept == Spec => KeepsLogin
<1>1. ASSUME IInv, [Next]_vars, ticket \in valid, ticket' # ticket,
             ~ (auth = "ticket" /\ answer = None)
      PROVE  ticket' \in valid'
  <2>1. CASE StoreTicket
    BY <1>1, <2>1 DEF StoreTicket, IInv, Granted
  <2>2. CASE ~StoreTicket
    BY <1>1, <2>2
       DEF Next, Authenticate, Outage, Expire, Refresh, GetClient, Login,
           LoginEmpty, LoginFails, Lock, StoreCSRF, Request, UpdateRequest,
           RLock, SetCSRF, SetCookie, Return, vars, auths
  <2> QED
    BY <2>1, <2>2
<1> QED
  BY <1>1, Invariance, PTL DEF Spec, KeepsLogin

-----------------------------------------------------------------------------
(***************************************************************************)
(* Refinement: a login is stored when its token is, and a request reads it *)
(* with its ticket.  Both happen under the lock, when the stored pair is   *)
(* of one login.                                                           *)
(***************************************************************************)
\* The refinement mapping: what AtomicLogin calls at and bears.
At == [r \in Requests |->
         IF pc[r] \in {"rlock", "csrf", "cookie"} THEN "called" ELSE pc[r]]
Bears == [r \in Requests |-> IF pc[r] = "sent" THEN header[r] ELSE Bare]

LEMMA InitAtomic == Init => Atomic!Init
BY DEF Init, Atomic!Init, Atomic!Both, Bare

\* A step that leaves the requests alone leaves their part of AtomicLogin.
LEMMA RequestsUnseen ==
  ASSUME UNCHANGED <<pc, header>>
  PROVE  At' = At /\ Bears' = Bears
BY DEF At, Bears

\* Proxmox grants logins and lets them expire.
LEMMA ProxmoxAtomic ==
  ASSUME Outage \/ Expire \/ Login
  PROVE  [Atomic!Next]_(Atomic!loginVars)
<1>1. At' = At /\ Bears' = Bears /\ csrf' = csrf
  BY RequestsUnseen DEF Outage, Expire, Login, auths
<1>2. CASE Outage
  BY <1>1, <1>2 DEF Outage, Atomic!loginVars, At, Bears
<1>3. CASE Expire
  BY <1>1, <1>3 DEF Expire, Atomic!Next, Atomic!Expire, At, Bears
<1>4. CASE Login
  BY <1>1, <1>4 DEF Login, Atomic!Next, Atomic!Grant, At, Bears
<1> QED
  BY <1>2, <1>3, <1>4

\* Until the token is stored nothing is seen of Authenticate.
LEMMA LoginUnseen ==
  ASSUME \/ Refresh \/ GetClient \/ LoginEmpty \/ LoginFails
         \/ Lock \/ StoreTicket
  PROVE  UNCHANGED Atomic!loginVars
<1>1. UNCHANGED <<valid, csrf, pc, header>>
  BY DEF Refresh, GetClient, LoginEmpty, LoginFails, Lock, StoreTicket
<1> QED
  BY <1>1, RequestsUnseen DEF Atomic!loginVars, At, Bears

\* Storing the token replaces the login.
LEMMA StoreReplaces ==
  ASSUME IInv, StoreCSRF
  PROVE  Atomic!Replace
<1>1. csrf' \in valid \cup {None} /\ UNCHANGED <<valid, pc, header>>
  BY DEF StoreCSRF, IInv, Granted
<1> QED
  BY <1>1, RequestsUnseen DEF Atomic!Replace, At, Bears

\* What a request does to its own part of AtomicLogin it does to that alone.
LEMMA RequestAlone ==
  ASSUME IInv, NEW r \in Requests,
         Request(r) \/ UpdateRequest(r) \/ Return(r)
  PROVE  /\ UNCHANGED <<valid, csrf, ticket, mu, auth>>
         /\ At' = [At EXCEPT ![r] = At'[r]]
         /\ Bears' = [Bears EXCEPT ![r] = Bears'[r]]
<1>1. /\ UNCHANGED <<valid, csrf, ticket, mu, auth>>
      /\ \A s \in Requests \ {r} : pc'[s] = pc[s] /\ header'[s] = header[s]
  BY DEF Request, UpdateRequest, RLock, SetCSRF, SetCookie, Return, auths,
         IInv, TypeOK
<1> QED
  BY <1>1 DEF At, Bears

\* The ticket is read of the same login as the token, the stored one.
LEMMA CookieSends ==
  ASSUME IInv, NEW r \in Requests, SetCookie(r)
  PROVE  Atomic!Send(r)
<1>1. /\ UNCHANGED <<valid, csrf>>
      /\ At' = [At EXCEPT ![r] = At'[r]]
      /\ Bears' = [Bears EXCEPT ![r] = Bears'[r]]
  BY RequestAlone DEF UpdateRequest
<1>2. pc[r] = "cookie" /\ pc'[r] = "sent"
  BY DEF SetCookie, IInv, TypeOK
<1>3. At[r] = "called" /\ At'[r] = "sent"
  BY <1>2 DEF At
<1>4. header[r].csrf = csrf /\ ticket = csrf
  BY <1>2 DEF IInv, HalfRead, Exclusion, Readers, OnePair
<1>5. header'[r] = [csrf |-> csrf, ticket |-> csrf]
  BY <1>4 DEF SetCookie, IInv, TypeOK
<1>6. Bears'[r] = Atomic!Both(csrf)
  BY <1>2, <1>5 DEF Bears, Atomic!Both
<1> QED
  BY <1>1, <1>3, <1>6 DEF Atomic!Send, At, Bears

LEMMA RequestAtomic ==
  ASSUME IInv, NEW r \in Requests,
         Request(r) \/ UpdateRequest(r) \/ Return(r)
  PROVE  [Atomic!Next]_(Atomic!loginVars)
<1>1. /\ UNCHANGED <<valid, csrf>>
      /\ At' = [At EXCEPT ![r] = At'[r]]
      /\ Bears' = [Bears EXCEPT ![r] = Bears'[r]]
  BY RequestAlone
<1>2. At \in [Requests -> {At[s] : s \in Requests}]
      /\ Bears \in [Requests -> {Bears[s] : s \in Requests}]
  BY DEF At, Bears
<1>3. CASE Request(r)
  <2>1. pc[r] = "idle" /\ pc'[r] = "rlock"
    BY <1>3 DEF Request, IInv, TypeOK
  <2>2. At[r] = "idle" /\ At'[r] = "called" /\ Bears'[r] = Bears[r]
    BY <2>1 DEF At, Bears
  <2>3. Bears' = Bears
    BY <1>1, <1>2, <2>2
  <2>4. Atomic!Call(r)
    BY <1>1, <2>2, <2>3 DEF Atomic!Call, At, Bears
  <2> QED
    BY <2>4 DEF Atomic!Next
<1>4. CASE RLock(r) \/ SetCSRF(r)
  <2>1. pc[r] \in {"rlock", "csrf"} /\ pc'[r] \in {"csrf", "cookie"}
    BY <1>4 DEF RLock, SetCSRF, IInv, TypeOK
  <2>2. At'[r] = At[r] /\ Bears'[r] = Bears[r]
    BY <2>1 DEF At, Bears
  <2>3. At' = At /\ Bears' = Bears
    BY <1>1, <1>2, <2>2
  <2> QED
    BY <1>1, <2>3 DEF Atomic!loginVars, At, Bears
<1>5. CASE SetCookie(r)
  BY <1>5, CookieSends DEF Atomic!Next
<1>6. CASE Return(r)
  <2>1. pc[r] = "sent" /\ pc'[r] = "idle"
    BY <1>6 DEF Return, IInv, TypeOK
  <2>2. /\ At[r] = "sent" /\ At'[r] = "idle"
        /\ Bears'[r] = Atomic!Both(None)
    BY <2>1 DEF At, Bears, Bare, Atomic!Both
  <2>3. Atomic!Return(r)
    BY <1>1, <2>2 DEF Atomic!Return, At, Bears
  <2> QED
    BY <2>3 DEF Atomic!Next
<1> QED
  BY <1>3, <1>4, <1>5, <1>6 DEF UpdateRequest

\* Whatever requests and logins interleave, storing and reading the pair look
\* like one step each (auth.go:152-155, 160-163).
THEOREM LoginIsAtomic == Spec => IsAtomicLogin
<1>1. ASSUME IInv, [Next]_vars
      PROVE  [Atomic!Next]_(Atomic!loginVars)
  <2>1. CASE Outage \/ Expire \/ Login
    BY <2>1, ProxmoxAtomic
  <2>2. CASE \/ Refresh \/ GetClient \/ LoginEmpty \/ LoginFails
             \/ Lock \/ StoreTicket
    BY <2>2, LoginUnseen
  <2>3. CASE StoreCSRF
    BY <1>1, <2>3, StoreReplaces DEF Atomic!Next
  <2>4. CASE \E r \in Requests : Request(r) \/ UpdateRequest(r) \/ Return(r)
    BY <1>1, <2>4, RequestAtomic
  <2>5. CASE UNCHANGED vars
    BY <2>5, RequestsUnseen DEF vars, auths, Atomic!loginVars, At, Bears
  <2> QED
    BY <1>1, <2>1, <2>2, <2>3, <2>4, <2>5 DEF Next, Authenticate
<1> QED
  BY <1>1, InitAtomic, Invariance, PTL DEF Spec, IsAtomicLogin, Atomic!Spec
=============================================================================
