-------------------------- MODULE DiscoveryProofs --------------------------
(***************************************************************************)
(* Theorems about Discovery for every set of configurations, every bound   *)
(* on the changes of the cluster and every set of file system faults.      *)
(***************************************************************************)
EXTENDS Discovery, TLAPS

(***************************************************************************)
(* The inductive invariant.  Shape says which variables are set in which   *)
(* phase and at which step of an update; Own follows the cluster's         *)
(* identity from the command line to the file and back; Newer orders the   *)
(* inventories a step may replace one by the other; Backward says where an *)
(* older one comes from; Durable relates the file to the records where     *)
(* saving always works; Dated is DatedAsServed with the first update       *)
(* included.                                                               *)
(***************************************************************************)
Saving == step \in {"create", "write", "rename"}
Saved == step \in {"mark", "publish"}

Shape ==
  /\ phase = "down" <=> conf = NoConfig
  /\ phase \in {"down", "auth"} => step = "idle"
  /\ phase = "initial" => step # "idle"
  /\ records # NoInv <=> phase = "running"
  /\ inv = NoInv <=> step \in {"idle", "fetch"}
  /\ step = "rename" => temp = Stamped

Own ==
  /\ inv # NoInv => CacheKey(inv.by) = CacheKey(conf)
  /\ records # NoInv => CacheKey(records.by) = CacheKey(conf)
  /\ Whole(file) => file.key = CacheKey(file.inv.by)

Newer ==
  /\ inv # NoInv => inv.at <= world
  /\ records # NoInv => records.at <= world
  /\ Whole(file) => file.inv.at <= world
  /\ Saving => conf.cache /\ (Whole(file) => file.inv.at <= inv.at)

\* What holds where "save" \notin Faults.
Durable ==
  /\ WriteAhead
  /\ Saved /\ conf.cache => Loadable /\ file.inv = inv
  /\ inv # NoInv /\ records # NoInv => records.at <= inv.at

\* An update that goes back in time comes from the file.
Backward ==
  inv # NoInv /\ records # NoInv =>
    \/ records.at <= inv.at
    \/ step = "publish" /\ once /\ conf.cache /\ Loadable /\ file.inv = inv

Dated ==
  "stat" \notin Faults =>
    /\ step = "publish" => lastUpdate = inv.at
    /\ phase = "running" /\ step # "publish" => lastUpdate = records.at

IInv ==
  /\ TypeOK /\ Shape /\ Own /\ Newer /\ Backward
  /\ "save" \notin Faults => Durable
  /\ Dated
-----------------------------------------------------------------------------
(***************************************************************************)
(* What the variables hold at a given moment.                              *)
(***************************************************************************)

\* A whole cache file is exactly a value of the type.
LEMMA WholeIsCacheFile ==
  ASSUME TypeOK
  PROVE  Whole(file) <=> file \in CacheFile
BY SentinelAssumption DEF TypeOK, Whole

\* During an update a process with a command line is there.
LEMMA Busy ==
  ASSUME TypeOK, Shape, step # "idle"
  PROVE  conf \in Configs /\ phase \in {"initial", "running"}
BY DEF TypeOK, Shape

\* So it is while records are served.
LEMMA Serving ==
  ASSUME TypeOK, Shape, records # NoInv
  PROVE  conf \in Configs /\ records \in Inventory /\ phase = "running"
BY DEF TypeOK, Shape

\* What saveCache is about to write has the file's type.
LEMMA StampedType ==
  ASSUME TypeOK, Shape, inv # NoInv
  PROVE  Stamped \in CacheFile /\ inv \in Inventory /\ conf \in Configs
<1>1. inv \in Inventory /\ step # "idle"
  BY DEF TypeOK, Shape
<1>2. conf \in Configs
  BY <1>1, Busy
<1>3. CacheKey(conf) \in {CacheKey(c) : c \in Configs}
  BY <1>2
<1> QED
  BY <1>1, <1>2, <1>3, VersionAssumption DEF Stamped, CacheFile

-----------------------------------------------------------------------------
(***************************************************************************)
(* Type correctness.                                                       *)
(***************************************************************************)
LEMMA InitType == Init => TypeOK
<1> SUFFICES ASSUME Init PROVE TypeOK
  OBVIOUS
<1>1. file \in CacheFile \cup {NoFile, Garbage}
  <2>1. ASSUME NEW v \in Versions, NEW c \in Accepted,
               file = [version |-> v, key |-> CacheKey(c),
                       inv |-> [by |-> c, at |-> 0]]
        PROVE  file \in CacheFile
    <3>1. c \in Configs /\ 0 \in 0..MaxWorld
      BY ConfigsAssumption, WorldAssumption
    <3>2. CacheKey(c) \in {CacheKey(d) : d \in Configs}
      BY <3>1
    <3> QED
      BY <2>1, <3>1, <3>2 DEF CacheFile, Inventory
  <2> QED
    BY <2>1 DEF Init
<1>2. 0 \in 0..MaxWorld
  BY WorldAssumption
<1>3. /\ world = 0 /\ healthy \in BOOLEAN
      /\ phase = "down" /\ conf = NoConfig /\ ticket = FALSE
      /\ step = "idle" /\ inv = NoInv /\ once = FALSE
      /\ records = NoInv /\ lastUpdate = Never /\ temp = NoTemp
  BY DEF Init
<1> QED
  BY <1>1, <1>2, <1>3 DEF TypeOK

LEMMA NextType ==
  ASSUME TypeOK, Shape, [Next]_vars
  PROVE  TypeOK'
<1> USE DEF TypeOK, env, disk, updater, served
<1>1. CASE Environment
  <2>1. CASE Change
    <3>1. world' \in 0..MaxWorld
      BY <2>1, WorldAssumption DEF Change
    <3> QED
      BY <2>1, <3>1 DEF Change
  <2>2. CASE Outage
    BY <2>2 DEF Outage
  <2>3. CASE ExpireTicket
    BY <2>3 DEF ExpireTicket
  <2>4. CASE Kill
    BY <2>4 DEF Kill, Exit
  <2> QED
    BY <1>1, <2>1, <2>2, <2>3, <2>4 DEF Environment
<1>2. CASE \E c \in Configs : Boot(c)
  BY <1>2 DEF Boot
<1>3. CASE Start
  BY <1>3 DEF Start, AuthenticateAtStart, AuthenticateAtStartFails, Exit
<1>4. CASE Authenticate
  BY <1>4 DEF Authenticate
<1>5. CASE Tick
  BY <1>5 DEF Tick
<1>6. CASE FetchFromProxmox
  <2>1. [by |-> conf, at |-> world] \in Inventory
    BY <1>6, Busy DEF FetchFromProxmox, Inventory
  <2> QED
    BY <1>6, <2>1 DEF FetchFromProxmox, AfterFetch
<1>7. CASE FallBackToCache
  <2>1. file \in CacheFile
    BY <1>7, WholeIsCacheFile DEF FallBackToCache, Loadable
  <2>2. file.inv \in Inventory /\ file.inv.at \in 0..MaxWorld
    BY <2>1 DEF CacheFile, Inventory
  <2> QED
    BY <1>7, <2>2 DEF FallBackToCache, DateByFile
<1>8. CASE FallBackFails \/ FetchFails
  BY <1>8 DEF FallBackFails, FetchFails, UpdateFails, Exit
<1>9. CASE CreateTemp
  BY <1>9 DEF CreateTemp
<1>10. CASE WriteTemp
  <2>1. inv # NoInv
    BY <1>10 DEF WriteTemp, Shape
  <2> QED
    BY <1>10, <2>1, StampedType DEF WriteTemp
<1>11. CASE RenameTemp
  <2>1. inv # NoInv /\ temp = Stamped
    BY <1>11 DEF RenameTemp, Shape
  <2> QED
    BY <1>11, <2>1, StampedType DEF RenameTemp
<1>12. CASE SaveFails
  BY <1>12 DEF SaveFails
<1>13. CASE MarkUpdated
  <2>1. inv \in Inventory
    BY <1>13 DEF MarkUpdated, Shape
  <2>2. inv.at \in 0..MaxWorld
    BY <2>1 DEF Inventory
  <2> QED
    BY <1>13, <2>2 DEF MarkUpdated
<1>14. CASE Publish
  BY <1>14 DEF Publish
<1>15. CASE UNCHANGED vars
  BY <1>15 DEF vars
<1> QED
  BY <1>1, <1>2, <1>3, <1>4, <1>5, <1>6, <1>7, <1>8, <1>9, <1>10, <1>11,
     <1>12, <1>13, <1>14, <1>15 DEF Next, Update

-----------------------------------------------------------------------------
(***************************************************************************)
(* Phases, steps and what is set in them.                                  *)
(***************************************************************************)
LEMMA NextShape ==
  ASSUME TypeOK, Shape, [Next]_vars
  PROVE  Shape'
<1> USE DEF TypeOK, Shape, env, disk, updater, served
<1>1. CASE Change
  BY <1>1 DEF Change, Stamped
<1>2. CASE Outage
  BY <1>2 DEF Outage, Stamped
<1>3. CASE ExpireTicket
  BY <1>3 DEF ExpireTicket, Stamped
<1>4. CASE Kill
  BY <1>4 DEF Kill, Exit
<1>5. ASSUME NEW c \in Configs, Boot(c)
      PROVE  Shape'
  BY <1>5, ConfigsAssumption DEF Boot
<1>6. CASE AuthenticateAtStart
  BY <1>6 DEF AuthenticateAtStart
<1>7. CASE AuthenticateAtStartFails
  BY <1>7 DEF AuthenticateAtStartFails, Exit
<1>8. CASE Authenticate
  BY <1>8 DEF Authenticate, Stamped
<1>9. CASE Tick
  BY <1>9 DEF Tick
<1>10. CASE FetchFromProxmox
  BY <1>10, Busy, SentinelAssumption DEF FetchFromProxmox, AfterFetch, Inventory
<1>11. CASE FallBackToCache
  BY <1>11, WholeIsCacheFile, SentinelAssumption
  DEF FallBackToCache, DateByFile, Loadable, CacheFile
<1>12. CASE FallBackFails
  BY <1>12 DEF FallBackFails, UpdateFails, Exit
<1>13. CASE FetchFails
  BY <1>13 DEF FetchFails, UpdateFails, Exit
<1>14. CASE CreateTemp
  BY <1>14 DEF CreateTemp
<1>15. CASE WriteTemp
  BY <1>15 DEF WriteTemp, Stamped
<1>16. CASE RenameTemp
  BY <1>16 DEF RenameTemp
<1>17. CASE SaveFails
  BY <1>17 DEF SaveFails
<1>18. CASE MarkUpdated
  BY <1>18 DEF MarkUpdated
<1>19. CASE Publish
  BY <1>19 DEF Publish
<1>20. CASE UNCHANGED vars
  BY <1>20 DEF vars, Stamped
<1> QED
  BY <1>1, <1>2, <1>3, <1>4, <1>5, <1>6, <1>7, <1>8, <1>9, <1>10,
     <1>11, <1>12, <1>13, <1>14, <1>15, <1>16, <1>17, <1>18, <1>19, <1>20
  DEF Next, Environment, Start, Update

-----------------------------------------------------------------------------
(***************************************************************************)
(* The cluster and user an inventory was fetched for go with it.           *)
(***************************************************************************)
LEMMA NextOwn ==
  ASSUME TypeOK, Shape, Own,
         [Next]_vars
  PROVE  Own'
<1> USE DEF TypeOK, Shape, Own, env, disk, updater, served
<1>1. CASE Change
  BY <1>1 DEF Change
<1>2. CASE Outage
  BY <1>2 DEF Outage
<1>3. CASE ExpireTicket
  BY <1>3 DEF ExpireTicket
<1>4. CASE Kill
  BY <1>4 DEF Kill, Exit
<1>5. ASSUME NEW c \in Configs, Boot(c)
      PROVE  Own'
  BY <1>5 DEF Boot
<1>6. CASE AuthenticateAtStart
  BY <1>6 DEF AuthenticateAtStart
<1>7. CASE AuthenticateAtStartFails
  BY <1>7 DEF AuthenticateAtStartFails, Exit
<1>8. CASE Authenticate
  BY <1>8 DEF Authenticate
<1>9. CASE Tick
  BY <1>9 DEF Tick
<1>10. CASE FetchFromProxmox
  BY <1>10, Busy DEF FetchFromProxmox, AfterFetch
<1>11. CASE FallBackToCache
  BY <1>11, WholeIsCacheFile
  DEF FallBackToCache, DateByFile, Loadable, CacheFile
<1>12. CASE FallBackFails
  BY <1>12 DEF FallBackFails, UpdateFails, Exit
<1>13. CASE FetchFails
  BY <1>13 DEF FetchFails, UpdateFails, Exit
<1>14. CASE CreateTemp
  BY <1>14 DEF CreateTemp
<1>15. CASE WriteTemp
  BY <1>15 DEF WriteTemp
<1>16. CASE RenameTemp
  BY <1>16, StampedType DEF RenameTemp, Stamped, Whole, CacheFile
<1>17. CASE SaveFails
  BY <1>17 DEF SaveFails
<1>18. CASE MarkUpdated
  BY <1>18 DEF MarkUpdated
<1>19. CASE Publish
  BY <1>19 DEF Publish
<1>20. CASE UNCHANGED vars
  BY <1>20 DEF vars
<1> QED
  BY <1>1, <1>2, <1>3, <1>4, <1>5, <1>6, <1>7, <1>8, <1>9, <1>10,
     <1>11, <1>12, <1>13, <1>14, <1>15, <1>16, <1>17, <1>18, <1>19, <1>20
  DEF Next, Environment, Start, Update

-----------------------------------------------------------------------------
(***************************************************************************)
(* No inventory is from the future, and the one being saved is no older    *)
(* than the one it replaces.                                               *)
(***************************************************************************)
LEMMA NextNewer ==
  ASSUME TypeOK, Shape, Newer,
         [Next]_vars
  PROVE  Newer'
<1> USE DEF TypeOK, Shape, Newer, Saving, env, disk, updater, served
<1>1. CASE Change
  <2>1. world \in Nat /\ world' = world + 1
    BY <1>1, WorldAssumption DEF Change
  <2>2. Whole(file) => file.inv.at \in Nat
    BY WholeIsCacheFile DEF CacheFile, Inventory
  <2>3. /\ inv # NoInv => inv.at \in Nat
        /\ records # NoInv => records.at \in Nat
    BY DEF Inventory
  <2> QED
    BY <1>1, <2>1, <2>2, <2>3 DEF Change
<1>2. CASE Outage
  BY <1>2 DEF Outage
<1>3. CASE ExpireTicket
  BY <1>3 DEF ExpireTicket
<1>4. CASE Kill
  BY <1>4 DEF Kill, Exit
<1>5. ASSUME NEW c \in Configs, Boot(c)
      PROVE  Newer'
  BY <1>5 DEF Boot
<1>6. CASE AuthenticateAtStart
  BY <1>6 DEF AuthenticateAtStart
<1>7. CASE AuthenticateAtStartFails
  BY <1>7 DEF AuthenticateAtStartFails, Exit
<1>8. CASE Authenticate
  BY <1>8 DEF Authenticate
<1>9. CASE Tick
  BY <1>9 DEF Tick
<1>10. CASE FetchFromProxmox
  BY <1>10, Busy DEF FetchFromProxmox, AfterFetch
<1>11. CASE FallBackToCache
  BY <1>11, WholeIsCacheFile
  DEF FallBackToCache, DateByFile, Loadable, CacheFile
<1>12. CASE FallBackFails
  BY <1>12 DEF FallBackFails, UpdateFails, Exit
<1>13. CASE FetchFails
  BY <1>13 DEF FetchFails, UpdateFails, Exit
<1>14. CASE CreateTemp
  BY <1>14 DEF CreateTemp
<1>15. CASE WriteTemp
  BY <1>15 DEF WriteTemp
<1>16. CASE RenameTemp
  BY <1>16, StampedType DEF RenameTemp, Stamped, Whole, CacheFile
<1>17. CASE SaveFails
  BY <1>17 DEF SaveFails
<1>18. CASE MarkUpdated
  BY <1>18 DEF MarkUpdated
<1>19. CASE Publish
  BY <1>19 DEF Publish
<1>20. CASE UNCHANGED vars
  BY <1>20 DEF vars
<1> QED
  BY <1>1, <1>2, <1>3, <1>4, <1>5, <1>6, <1>7, <1>8, <1>9, <1>10,
     <1>11, <1>12, <1>13, <1>14, <1>15, <1>16, <1>17, <1>18, <1>19, <1>20
  DEF Next, Environment, Start, Update

-----------------------------------------------------------------------------
(***************************************************************************)
(* Where saving always works, the file is ahead of the records.            *)
(***************************************************************************)
LEMMA NextDurable ==
  ASSUME TypeOK, Shape, Own, Newer, Durable, "save" \notin Faults,
         [Next]_vars
  PROVE  Durable'
<1> USE DEF TypeOK, Shape, Durable, WriteAhead, Loadable, Saved, env, disk,
            updater, served
<1>1. CASE Change
  BY <1>1 DEF Change
<1>2. CASE Outage
  BY <1>2 DEF Outage
<1>3. CASE ExpireTicket
  BY <1>3 DEF ExpireTicket
<1>4. CASE Kill
  BY <1>4 DEF Kill, Exit
<1>5. ASSUME NEW c \in Configs, Boot(c)
      PROVE  Durable'
  BY <1>5 DEF Boot
<1>6. CASE AuthenticateAtStart
  BY <1>6 DEF AuthenticateAtStart
<1>7. CASE AuthenticateAtStartFails
  BY <1>7 DEF AuthenticateAtStartFails, Exit
<1>8. CASE Authenticate
  BY <1>8 DEF Authenticate
<1>9. CASE Tick
  BY <1>9 DEF Tick
<1>10. CASE FetchFromProxmox
  BY <1>10, Busy DEF FetchFromProxmox, AfterFetch, Newer
<1>11. CASE FallBackToCache
  BY <1>11, WholeIsCacheFile
  DEF FallBackToCache, DateByFile, CacheFile, Inventory
<1>12. CASE FallBackFails
  BY <1>12 DEF FallBackFails, UpdateFails, Exit
<1>13. CASE FetchFails
  BY <1>13 DEF FetchFails, UpdateFails, Exit
<1>14. CASE CreateTemp
  BY <1>14 DEF CreateTemp
<1>15. CASE WriteTemp
  BY <1>15 DEF WriteTemp
<1>16. CASE RenameTemp
  <2>1. inv # NoInv /\ temp = Stamped /\ temp \in CacheFile
    BY <1>16, StampedType DEF RenameTemp
  <2>2. /\ Whole(file') /\ file'.version = CurrentCacheVersion
        /\ file'.key = CacheKey(conf) /\ file'.inv = inv
    BY <1>16, <2>1, SentinelAssumption DEF RenameTemp, Stamped, Whole
  <2>3. Loadable'
    BY <1>16, <2>2 DEF RenameTemp
  <2>4. records # NoInv => file'.inv.at >= records.at
    BY <2>1, <2>2, WorldAssumption DEF Inventory
  <2>5. WriteAhead'
    BY <1>16, <2>3, <2>4 DEF RenameTemp
  <2> QED
    BY <1>16, <2>1, <2>2, <2>3, <2>5 DEF RenameTemp
<1>17. CASE SaveFails
  BY <1>17 DEF SaveFails
<1>18. CASE MarkUpdated
  BY <1>18 DEF MarkUpdated
<1>19. CASE Publish
  BY <1>19, WholeIsCacheFile DEF Publish, CacheFile, Inventory
<1>20. CASE UNCHANGED vars
  BY <1>20 DEF vars, Whole
<1> QED
  BY <1>1, <1>2, <1>3, <1>4, <1>5, <1>6, <1>7, <1>8, <1>9, <1>10,
     <1>11, <1>12, <1>13, <1>14, <1>15, <1>16, <1>17, <1>18, <1>19, <1>20
  DEF Next, Environment, Start, Update

-----------------------------------------------------------------------------
(***************************************************************************)
(* The date of what is served.                                             *)
(***************************************************************************)
LEMMA NextDated ==
  ASSUME TypeOK, Shape, Dated,
         [Next]_vars
  PROVE  Dated'
<1> USE DEF TypeOK, Shape, Dated, env, disk, updater, served
<1>1. CASE Change
  BY <1>1 DEF Change
<1>2. CASE Outage
  BY <1>2 DEF Outage
<1>3. CASE ExpireTicket
  BY <1>3 DEF ExpireTicket
<1>4. CASE Kill
  BY <1>4 DEF Kill, Exit
<1>5. ASSUME NEW c \in Configs, Boot(c)
      PROVE  Dated'
  BY <1>5 DEF Boot
<1>6. CASE AuthenticateAtStart
  BY <1>6 DEF AuthenticateAtStart
<1>7. CASE AuthenticateAtStartFails
  BY <1>7 DEF AuthenticateAtStartFails, Exit
<1>8. CASE Authenticate
  BY <1>8 DEF Authenticate
<1>9. CASE Tick
  BY <1>9 DEF Tick
<1>10. CASE FetchFromProxmox
  BY <1>10 DEF FetchFromProxmox, AfterFetch
<1>11. CASE FallBackToCache
  BY <1>11 DEF FallBackToCache, DateByFile
<1>12. CASE FallBackFails
  BY <1>12 DEF FallBackFails, UpdateFails, Exit
<1>13. CASE FetchFails
  BY <1>13 DEF FetchFails, UpdateFails, Exit
<1>14. CASE CreateTemp
  BY <1>14 DEF CreateTemp
<1>15. CASE WriteTemp
  BY <1>15 DEF WriteTemp
<1>16. CASE RenameTemp
  BY <1>16 DEF RenameTemp
<1>17. CASE SaveFails
  BY <1>17 DEF SaveFails
<1>18. CASE MarkUpdated
  BY <1>18 DEF MarkUpdated
<1>19. CASE Publish
  BY <1>19 DEF Publish
<1>20. CASE UNCHANGED vars
  BY <1>20 DEF vars
<1> QED
  BY <1>1, <1>2, <1>3, <1>4, <1>5, <1>6, <1>7, <1>8, <1>9, <1>10,
     <1>11, <1>12, <1>13, <1>14, <1>15, <1>16, <1>17, <1>18, <1>19, <1>20
  DEF Next, Environment, Start, Update

-----------------------------------------------------------------------------
(***************************************************************************)
(* Only the cache file takes a process back in time.                       *)
(***************************************************************************)
LEMMA NextBackward ==
  ASSUME TypeOK, Shape, Newer, Backward,
         [Next]_vars
  PROVE  Backward'
<1> USE DEF TypeOK, Shape, Backward, Loadable, env, disk, updater, served
<1>1. CASE Change
  BY <1>1 DEF Change
<1>2. CASE Outage
  BY <1>2 DEF Outage
<1>3. CASE ExpireTicket
  BY <1>3 DEF ExpireTicket
<1>4. CASE Kill
  BY <1>4 DEF Kill, Exit
<1>5. ASSUME NEW c \in Configs, Boot(c)
      PROVE  Backward'
  BY <1>5 DEF Boot
<1>6. CASE AuthenticateAtStart
  BY <1>6 DEF AuthenticateAtStart
<1>7. CASE AuthenticateAtStartFails
  BY <1>7 DEF AuthenticateAtStartFails, Exit
<1>8. CASE Authenticate
  BY <1>8 DEF Authenticate
<1>9. CASE Tick
  BY <1>9 DEF Tick
<1>10. CASE FetchFromProxmox
  BY <1>10 DEF FetchFromProxmox, AfterFetch, Newer
<1>11. CASE FallBackToCache
  BY <1>11 DEF FallBackToCache, DateByFile
<1>12. CASE FallBackFails
  BY <1>12 DEF FallBackFails, UpdateFails, Exit
<1>13. CASE FetchFails
  BY <1>13 DEF FetchFails, UpdateFails, Exit
<1>14. CASE CreateTemp
  BY <1>14 DEF CreateTemp
<1>15. CASE WriteTemp
  BY <1>15 DEF WriteTemp
<1>16. CASE RenameTemp
  BY <1>16 DEF RenameTemp
<1>17. CASE SaveFails
  BY <1>17 DEF SaveFails
<1>18. CASE MarkUpdated
  BY <1>18 DEF MarkUpdated
<1>19. CASE Publish
  BY <1>19 DEF Publish
<1>20. CASE UNCHANGED vars
  BY <1>20 DEF vars, Whole
<1> QED
  BY <1>1, <1>2, <1>3, <1>4, <1>5, <1>6, <1>7, <1>8, <1>9, <1>10,
     <1>11, <1>12, <1>13, <1>14, <1>15, <1>16, <1>17, <1>18, <1>19, <1>20
  DEF Next, Environment, Start, Update

-----------------------------------------------------------------------------
(***************************************************************************)
(* The invariant.                                                          *)
(***************************************************************************)
LEMMA InitInv == Init => IInv
<1> SUFFICES ASSUME Init PROVE IInv
  OBVIOUS
<1>1. TypeOK
  BY InitType
<1>2. Shape
  BY ConfigsAssumption DEF Init, Shape
<1>3. Own /\ Newer
  <2>1. Whole(file) => file.key = CacheKey(file.inv.by) /\ file.inv.at <= world
    <3>1. CASE file \in {NoFile, Garbage}
      BY <3>1 DEF Whole
    <3>2. ASSUME NEW v \in Versions, NEW c \in Accepted,
                 file = [version |-> v, key |-> CacheKey(c),
                         inv |-> [by |-> c, at |-> 0]]
          PROVE  file.key = CacheKey(file.inv.by) /\ file.inv.at <= world
      BY <3>2 DEF Init
    <3> QED
      BY <3>1, <3>2 DEF Init
  <2> QED
    BY <2>1 DEF Init, Own, Newer, Saving
<1>4. Durable /\ Dated /\ Backward
  BY DEF Init, Durable, WriteAhead, Saved, Dated, Backward
<1> QED
  BY <1>1, <1>2, <1>3, <1>4 DEF IInv

LEMMA NextInv == IInv /\ [Next]_vars => IInv'
BY NextType, NextShape, NextOwn, NextNewer, NextDurable, NextDated,
   NextBackward DEF IInv

LEMMA Invariance == Spec => []IInv
BY InitInv, NextInv, PTL DEF Spec

-----------------------------------------------------------------------------
(***************************************************************************)
(* Safety.                                                                 *)
(***************************************************************************)

\* Every variable keeps its type.
THEOREM TypeCorrect == Spec => []TypeOK
BY Invariance, PTL DEF IInv

\* However many processes with whatever command lines share the cache file,
\* none serves an inventory of another cluster or another user.
THEOREM OwnClusterOnlyHolds == Spec => []OwnClusterOnly
<1>1. IInv => OwnClusterOnly
  BY DEF IInv, Own, OwnClusterOnly
<1> QED
  BY <1>1, Invariance, PTL

\* Where saving always works, the file is ahead of the zone in every state.
THEOREM WriteAheadHolds == Spec => []WriteAhead
<1>1. IInv => WriteAhead
  BY DEF IInv, Durable, WriteAhead
<1> QED
  BY <1>1, Invariance, PTL

\* lastInventoryUpdate dates what is served, or is about to be.
THEOREM DatedAsServedHolds == Spec => []DatedAsServed
<1>1. IInv => DatedAsServed
  BY DEF IInv, Dated, DatedAsServed
<1> QED
  BY <1>1, Invariance, PTL

\* The only step that changes the file is the rename.
LEMMA FileChanges ==
  ASSUME [Next]_vars, file' # file
  PROVE  RenameTemp
BY DEF Next, Environment, Start, Update, Change, Outage, ExpireTicket, Kill,
   Exit, Boot, AuthenticateAtStart, AuthenticateAtStartFails, Authenticate,
   Tick, FetchFromProxmox, FallBackToCache, FallBackFails, FetchFails,
   UpdateFails, CreateTemp, WriteTemp, SaveFails, MarkUpdated, Publish, vars,
   env, disk, updater, served

\* Whatever fails and whenever a process is killed, the cache file is replaced
\* only by a whole file, of the current format, of an inventory no older.
THEOREM CacheNeverRegressesHolds == Spec => CacheNeverRegresses
<1> DEFINE Step == file' # file =>
      /\ Whole(file') /\ file'.version = CurrentCacheVersion
      /\ Whole(file) => file.inv.at <= file'.inv.at
<1>1. IInv /\ [Next]_vars => [Step]_vars
  <2> SUFFICES ASSUME IInv, [Next]_vars, file' # file PROVE Step
    OBVIOUS
  <2>1. RenameTemp
    BY FileChanges
  <2>2. inv # NoInv /\ temp = Stamped
    BY <2>1 DEF IInv, Shape, RenameTemp
  <2>3. temp \in CacheFile
    BY <2>2, StampedType DEF IInv
  <2>4. /\ Whole(file') /\ file'.version = CurrentCacheVersion
        /\ file'.inv = inv
    BY <2>1, <2>2, <2>3, SentinelAssumption DEF RenameTemp, Whole, Stamped
  <2>5. Whole(file) => file.inv.at <= inv.at
    BY <2>1 DEF IInv, Newer, Saving, RenameTemp
  <2> QED
    BY <2>4, <2>5
<1> QED
  BY <1>1, Invariance, PTL DEF Spec, CacheNeverRegresses

\* The records are replaced by others only when an update publishes.
LEMMA RecordsChange ==
  ASSUME [Next]_vars, records' # records, records' # NoInv
  PROVE  Publish
BY DEF Next, Environment, Start, Update, Change, Outage, ExpireTicket, Kill,
   Exit, Boot, AuthenticateAtStart, AuthenticateAtStartFails, Authenticate,
   Tick, FetchFromProxmox, FallBackToCache, FallBackFails, FetchFails,
   UpdateFails, CreateTemp, WriteTemp, RenameTemp, SaveFails, MarkUpdated,
   vars, env, disk, updater, served

\* Where saving always works, a process never replaces its records by older
\* ones, even when the fetch that fails first comes long after its start.
THEOREM NoRollbackIfSavedHolds == Spec => NoRollbackIfSaved
<1>1. IInv /\ [Next]_vars => ["save" \notin Faults => NotOlder]_vars
  <2> SUFFICES ASSUME IInv, [Next]_vars, "save" \notin Faults,
                      records # NoInv, records' # NoInv
               PROVE  records.at <= records'.at
    BY DEF NotOlder
  <2>1. records.at \in Nat
    BY WorldAssumption DEF IInv, TypeOK, Inventory
  <2>2. CASE records' = records
    BY <2>1, <2>2
  <2>3. CASE Publish
    BY <2>3 DEF Publish, IInv, Shape, Durable
  <2> QED
    BY <2>2, <2>3, RecordsChange
<1> QED
  BY <1>1, Invariance, PTL DEF Spec, NoRollbackIfSaved

\* With any faults, a process goes back in time only to its own cache file, and
\* only with the one fallback it has.
THEOREM RollsBackToFileOnlyHolds == Spec => RollsBackToFileOnly
<1>1. IInv /\ [Next]_vars => [NotOlder \/ GoesBackToFile]_vars
  <2> SUFFICES ASSUME IInv, [Next]_vars, ~NotOlder
               PROVE  GoesBackToFile
    OBVIOUS
  <2>1. /\ records # NoInv /\ records' # NoInv
        /\ ~(records.at <= records'.at)
    BY DEF NotOlder
  <2>2. records.at \in Nat
    BY <2>1, WorldAssumption DEF IInv, TypeOK, Inventory
  <2>3. Publish
    BY <2>1, <2>2, RecordsChange
  <2>4. inv # NoInv /\ records' = inv
    BY <2>3 DEF Publish, IInv, Shape
  <2>5. conf.cache /\ Loadable /\ once /\ file.inv = inv
    BY <2>1, <2>4 DEF IInv, Backward
  <2>6. "save" \in Faults
    BY <2>1, <2>4 DEF IInv, Durable
  <2> QED
    BY <2>4, <2>5, <2>6 DEF GoesBackToFile
<1> QED
  BY <1>1, Invariance, PTL DEF Spec, RollsBackToFileOnly

\* No failing update ends the process or empties its zone.
THEOREM ZoneSurvivesOutageHolds == Spec => ZoneSurvivesOutage
<1> DEFINE Step == phase = "running" /\ Update =>
                     phase' = "running" /\ records' # NoInv
<1>1. IInv /\ [Next]_vars => [Step]_vars
  <2> SUFFICES ASSUME IInv, phase = "running", Update
               PROVE  phase' = "running" /\ records' # NoInv
    OBVIOUS
  <2> QED
    BY DEF IInv, Shape, Update, Tick, FetchFromProxmox, FallBackToCache,
       FallBackFails, FetchFails, UpdateFails, CreateTemp, WriteTemp,
       RenameTemp, SaveFails, MarkUpdated, Publish, served
<1> QED
  BY <1>1, Invariance, PTL DEF Spec, ZoneSurvivesOutage

-----------------------------------------------------------------------------
(***************************************************************************)
(* Refinement: processes that all have a cache path, on a disk that always *)
(* takes the file, implement DurableZone.                                  *)
(***************************************************************************)

\* The refinement mapping: what DurableZone calls durable and zone.
Dur == IF Whole(file) /\ file.version = CurrentCacheVersion
       THEN file.inv.at ELSE Never
Zone == IF records = NoInv THEN Never ELSE records.at

LEMMA InitPromise == Init => Promise!Init
<1> SUFFICES ASSUME Init PROVE Promise!Init
  OBVIOUS
<1>1. Whole(file) => file.inv.at = 0
  <2>1. CASE file \in {NoFile, Garbage}
    BY <2>1 DEF Whole
  <2>2. ASSUME NEW v \in Versions, NEW c \in Accepted,
               file = [version |-> v, key |-> CacheKey(c),
                       inv |-> [by |-> c, at |-> 0]]
        PROVE  file.inv.at = 0
    BY <2>2
  <2> QED
    BY <2>1, <2>2 DEF Init
<1> QED
  BY <1>1 DEF Init, Promise!Init

\* The rename is the only step that makes something durable.
LEMMA RenameStores ==
  ASSUME IInv, RenameTemp
  PROVE  Promise!Store
<1>1. inv # NoInv /\ temp = Stamped
  BY DEF IInv, Shape, RenameTemp
<1>2. Stamped \in CacheFile /\ inv \in Inventory
  BY <1>1, StampedType DEF IInv
<1>3. Dur' = inv.at
  BY <1>1, <1>2, SentinelAssumption DEF RenameTemp, Whole, Stamped, Dur
<1>4. inv.at \in 0..world
  BY <1>1, <1>2, WorldAssumption DEF IInv, TypeOK, Newer, Inventory
<1>5. Dur # Never => Dur <= inv.at
  BY DEF IInv, Newer, Saving, RenameTemp, Dur
<1>6. world' = world /\ records' = records
  BY DEF RenameTemp, env, served
<1> QED
  BY <1>3, <1>4, <1>5, <1>6 DEF Promise!Store, Dur

\* What is published is what the file holds.
LEMMA PublishServes ==
  ASSUME IInv, Publish, "save" \notin Faults, \A c \in Configs : c.cache
  PROVE  Promise!Serve
<1>1. step # "idle" /\ Saved /\ inv # NoInv
  BY DEF Publish, Saved, IInv, Shape
<1>2. conf.cache /\ inv \in Inventory
  BY <1>1, Busy DEF IInv, TypeOK
<1>3. Loadable /\ file.inv = inv
  BY <1>1, <1>2 DEF IInv, Durable
<1>4. inv.at # Never
  BY <1>2, WorldAssumption DEF Inventory
<1> QED
  BY <1>1, <1>3, <1>4 DEF Publish, Loadable, Promise!Serve, env, disk

\* A process that ends withdraws the zone.
LEMMA ExitWithdraws ==
  ASSUME Exit
  PROVE  Promise!Withdraw
BY DEF Exit, Promise!Withdraw, env

\* Every other step is invisible.
LEMMA Invisible ==
  ASSUME UNCHANGED <<world, records, file>>
  PROVE  UNCHANGED Promise!zoneVars
BY DEF Promise!zoneVars, Whole

LEMMA NextPromise ==
  ASSUME IInv, [Next]_vars, "save" \notin Faults, \A c \in Configs : c.cache
  PROVE  [Promise!Next]_(Promise!zoneVars)
<1> USE DEF env, disk, updater, served
<1>1. CASE Change
  BY <1>1, WorldAssumption DEF Change, Promise!Advance, Promise!Next, Whole
<1>2. CASE Kill \/ AuthenticateAtStartFails
  BY <1>2, ExitWithdraws, Invisible
  DEF Kill, AuthenticateAtStartFails, Promise!Next
<1>3. CASE FallBackFails \/ FetchFails
  BY <1>3, ExitWithdraws, Invisible
  DEF FallBackFails, FetchFails, UpdateFails, Promise!Next
<1>4. CASE RenameTemp
  BY <1>4, RenameStores DEF Promise!Next
<1>5. CASE Publish
  BY <1>5, PublishServes DEF Promise!Next
<1>6. CASE Outage \/ ExpireTicket \/ AuthenticateAtStart \/ Authenticate
  BY <1>6, Invisible
  DEF Outage, ExpireTicket, AuthenticateAtStart, Authenticate
<1>7. ASSUME NEW c \in Configs, Boot(c)
      PROVE  UNCHANGED Promise!zoneVars
  BY <1>7, Invisible DEF Boot
<1>8. CASE Tick \/ FetchFromProxmox \/ FallBackToCache
  BY <1>8, Invisible DEF Tick, FetchFromProxmox, FallBackToCache
<1>9. CASE CreateTemp \/ WriteTemp \/ SaveFails \/ MarkUpdated
  BY <1>9, Invisible DEF CreateTemp, WriteTemp, SaveFails, MarkUpdated
<1>10. CASE UNCHANGED vars
  BY <1>10, Invisible DEF vars
<1> QED
  BY <1>1, <1>2, <1>3, <1>4, <1>5, <1>6, <1>7, <1>8, <1>9, <1>10
  DEF Next, Environment, Start, Update

\* With a cache path in every command line and a disk that takes every save,
\* the zone only ever offers durable versions, and they only get newer.
THEOREM KeepsPromiseHolds ==
  ASSUME "save" \notin Faults, \A c \in Configs : c.cache
  PROVE  Spec => KeepsPromise
<1>1. IInv /\ [Next]_vars => [Promise!Next]_(Promise!zoneVars)
  BY NextPromise
<1> QED
  BY <1>1, InitPromise, Invariance, PTL DEF Spec, KeepsPromise, Promise!Spec

=============================================================================
