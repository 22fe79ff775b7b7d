------------------------------ MODULE Discovery ------------------------------
(***************************************************************************)
(* One proxmox-service-discovery process after another on one host: start, *)
(* the initial record fetch, the periodic update of the served records,    *)
(* the inventory cache file the processes leave to each other, and the     *)
(* ticket the updates are authenticated with (main.go, inventory.go).      *)
(*                                                                         *)
(* The cluster's contents are abstracted to a version number: `world'      *)
(* counts the changes of the cluster (guests started, stopped, moved,      *)
(* renumbered), and an inventory is what one fetch saw, that is, the       *)
(* version `at' which it was taken and the configuration `by' which it was *)
(* fetched.  Times (lastInventoryUpdate, the modification time of the      *)
(* cache file) are named by the version of the inventory they date.        *)
(***************************************************************************)
EXTENDS Naturals

CONSTANTS
  Configs,      \* command lines a process may be started with
  Accepted,     \* those whose credentials the cluster accepts
  Versions,     \* cache file format versions found on disk
  CurrentCacheVersion,
  Faults,       \* which file system calls may fail: "save", "read", "stat"
  MaxWorld,     \* bound on the changes of the cluster
  NoConfig, NoInv, NoFile, Garbage, NoTemp, EmptyTemp, Never

Config == [host : STRING, user : STRING, kind : {"password", "token"},
           secret : STRING, cache : BOOLEAN]

ASSUME ConfigsAssumption ==
  /\ Configs \subseteq Config
  /\ Accepted \subseteq Configs
  /\ NoConfig \notin Configs
ASSUME WorldAssumption == MaxWorld \in Nat /\ Never \notin 0..MaxWorld
ASSUME VersionAssumption == CurrentCacheVersion \in Versions

VARIABLES
  world,        \* changes the cluster has been through
  healthy,      \* would every API call of one inventory fetch succeed now?
  phase,        \* "down", "auth", "initial" (first fetch) or "running"
  conf,         \* the command line of the current process
  ticket,       \* PasswordAuthProvider holds a ticket that is still valid
  step,         \* program counter of updateDNSRecords
  inv,          \* its local variable `inventory'
  once,         \* cacheLoadOnce has run
  records,      \* s.records: the inventory they were built from
  lastUpdate,   \* s.lastInventoryUpdate
  file,         \* contents of the file at cachePath
  temp          \* the temporary file saveCache is writing

env == <<world, healthy>>
disk == <<file, temp>>
updater == <<step, inv, once>>
served == <<records, lastUpdate>>
vars == <<world, healthy, phase, conf, ticket, step, inv, once,
          records, lastUpdate, file, temp>>

Inventory == [by : Configs, at : 0..MaxWorld]

\* inventoryCacheKey: the host and the auth provider's WriteCacheKey, which
\* leaves the password and the token secret out.
CacheKey(c) == [host |-> c.host, kind |-> c.kind, user |-> c.user]

CacheFile == [version : Versions, key : {CacheKey(c) : c \in Configs},
              inv : Inventory]

\* Whether a value of `file' or `temp' is a whole cache file.
Whole(f) == f \notin {NoFile, Garbage, NoTemp, EmptyTemp}

ASSUME SentinelAssumption ==
  /\ NoInv \notin Inventory
  /\ \A f \in {NoFile, Garbage, NoTemp, EmptyTemp} : f \notin CacheFile

TypeOK ==
  /\ world \in 0..MaxWorld
  /\ healthy \in BOOLEAN
  /\ phase \in {"down", "auth", "initial", "running"}
  /\ conf \in Configs \cup {NoConfig}
  /\ ticket \in BOOLEAN
  /\ step \in {"idle", "fetch", "create", "write", "rename", "mark", "publish"}
  /\ inv \in Inventory \cup {NoInv}
  /\ once \in BOOLEAN
  /\ records \in Inventory \cup {NoInv}
  /\ lastUpdate \in (0..MaxWorld) \cup {Never}
  /\ file \in CacheFile \cup {NoFile, Garbage}
  /\ temp \in CacheFile \cup {NoTemp, EmptyTemp}

(***************************************************************************)
(* The file may be there from before: none, unreadable as JSON, written by *)
(* another release of the program, or by this release for some cluster.    *)
(***************************************************************************)
Init ==
  /\ world = 0 /\ healthy \in BOOLEAN
  /\ phase = "down" /\ conf = NoConfig /\ ticket = FALSE
  /\ step = "idle" /\ inv = NoInv /\ once = FALSE
  /\ records = NoInv /\ lastUpdate = Never
  /\ \/ file \in {NoFile, Garbage}
     \/ \E v \in Versions, c \in Accepted :
          file = [version |-> v, key |-> CacheKey(c),
                  inv |-> [by |-> c, at |-> 0]]
  /\ temp = NoTemp
-----------------------------------------------------------------------------
(***************************************************************************)
(* The environment.                                                        *)
(***************************************************************************)
Change ==
  /\ world < MaxWorld
  /\ world' = world + 1
  /\ UNCHANGED <<healthy, phase, conf, ticket, updater, served, disk>>

\* A node, a guest agent or the API itself stops or resumes answering.
Outage ==
  /\ healthy' = ~healthy
  /\ UNCHANGED <<world, phase, conf, ticket, updater, served, disk>>

\* A ticket outlives several refresh periods, so it expires only while
\* refreshing it may be failing.
ExpireTicket ==
  /\ ~healthy /\ ticket
  /\ ticket' = FALSE
  /\ UNCHANGED <<env, phase, conf, updater, served, disk>>
-----------------------------------------------------------------------------
(***************************************************************************)
(* The process: start, exit.                                               *)
(***************************************************************************)
\* Everything in memory is gone, and so is the knowledge of the temporary
\* file's random name; the cache file stays.
Exit ==
  /\ phase' = "down" /\ conf' = NoConfig /\ ticket' = FALSE
  /\ step' = "idle" /\ inv' = NoInv /\ once' = FALSE
  /\ records' = NoInv /\ lastUpdate' = Never
  /\ temp' = NoTemp
  /\ UNCHANGED <<env, file>>

Boot(c) ==
  /\ phase = "down"
  /\ phase' = "auth"
  /\ conf' = c
  /\ UNCHANGED <<env, ticket, updater, served, disk>>

\* Killed at any moment, or stopped by a signal.
Kill == phase # "down" /\ Exit

\* The credentials main() authenticates with before anything else.  A token
\* needs no request.
AuthenticateAtStart ==
  /\ phase = "auth"
  /\ conf.kind = "token" \/ conf \in Accepted
  /\ ticket' = (conf.kind = "password")
  /\ phase' = "initial" /\ step' = "fetch"
  /\ UNCHANGED <<env, conf, inv, once, served, disk>>

\* An authentication error at start is fatal unless there is a cache path.
AuthenticateAtStartFails ==
  /\ phase = "auth"
  /\ conf.kind = "password"
  /\ ~healthy \/ conf \notin Accepted
  /\ IF conf.cache
     THEN /\ phase' = "initial" /\ step' = "fetch"
          /\ UNCHANGED <<env, conf, ticket, inv, once, served, disk>>
     ELSE Exit

\* Mutant: the ticket is only ever refreshed, never obtained late.
RefreshOnly ==
  /\ phase = "running"
  /\ conf.kind = "password" /\ conf \in Accepted /\ ticket
  /\ ticket' = TRUE
  /\ UNCHANGED <<env, phase, conf, updater, served, disk>>

\* The 15-minute actor.  When the request fails the old ticket stays.
Authenticate ==
  /\ phase = "running"
  /\ conf.kind = "password" /\ conf \in Accepted
  /\ ticket' = TRUE
  /\ UNCHANGED <<env, phase, conf, updater, served, disk>>
-----------------------------------------------------------------------------
(***************************************************************************)
(* updateDNSRecords, called once by main() and then by the 1-minute actor. *)
(***************************************************************************)
Tick ==
  /\ phase = "running" /\ step = "idle"
  /\ step' = "fetch"
  /\ UNCHANGED <<env, phase, conf, ticket, inv, once, served, disk>>

Reachable ==
  /\ healthy
  /\ conf \in Accepted
  /\ conf.kind = "token" \/ ticket

\* Mutants: the cache file is never written; the records are replaced without
\* anything after the fetch.
NeverSave == "mark"
StraightToPublish == "publish"

\* A fetched inventory is saved first when there is a cache path.
AfterFetch == IF conf.cache THEN "create" ELSE "mark"

FetchFromProxmox ==
  /\ step = "fetch" /\ Reachable
  /\ inv' = [by |-> conf, at |-> world]
  /\ step' = AfterFetch
  /\ UNCHANGED <<env, phase, conf, ticket, once, served, disk>>

\* Mutant: an update's error ends the process at any time.
AlwaysFatal(onceAfter) == Exit

\* updateDNSRecords returns an error: fatal in main(), logged by the actor.
UpdateFails(onceAfter) ==
  IF phase = "initial"
  THEN Exit
  ELSE /\ step' = "idle" /\ once' = onceAfter /\ inv' = NoInv
       /\ UNCHANGED <<env, phase, conf, ticket, served, disk>>

\* Mutants: any cluster's file is loaded; the file's date is not used.
AnyCluster ==
  /\ Whole(file)
  /\ file.version = CurrentCacheVersion
Undated == UNCHANGED lastUpdate

\* What loadCache accepts.
Loadable ==
  /\ Whole(file)
  /\ file.version = CurrentCacheVersion
  /\ file.key = CacheKey(conf)

\* The inventory is dated by its file, unless Stat fails.
DateByFile ==
  \/ lastUpdate' = file.inv.at
  \/ "stat" \in Faults /\ UNCHANGED lastUpdate

\* Mutant: the fallback is not remembered, and taken again at every failure.
FallBackAgain ==
  /\ step = "fetch" /\ ~Reachable
  /\ conf.cache /\ Loadable
  /\ inv' = file.inv
  /\ DateByFile
  /\ step' = "publish"
  /\ UNCHANGED <<env, phase, conf, ticket, once, records, disk>>

\* The fetch fails for the first time in this process and the cache file is
\* good: its inventory is used.
FallBackToCache ==
  /\ step = "fetch" /\ ~Reachable
  /\ conf.cache /\ ~once
  /\ Loadable
  /\ once' = TRUE
  /\ inv' = file.inv
  /\ DateByFile
  /\ step' = "publish"
  /\ UNCHANGED <<env, phase, conf, ticket, records, disk>>

FallBackFails ==
  /\ step = "fetch" /\ ~Reachable
  /\ conf.cache /\ ~once
  /\ ~Loadable \/ "read" \in Faults
  /\ UpdateFails(TRUE)

FetchFails ==
  /\ step = "fetch" /\ ~Reachable
  /\ ~conf.cache \/ once
  /\ UpdateFails(once)
-----------------------------------------------------------------------------
(***************************************************************************)
(* saveCache: write a temporary file in the same directory and rename it.  *)
(***************************************************************************)
\* Mutant: the file is renamed before it is written.
CreateThenRename ==
  /\ step = "create"
  /\ temp' = EmptyTemp
  /\ step' = "rename"
  /\ UNCHANGED <<env, phase, conf, ticket, inv, once, served, file>>

CreateTemp ==
  /\ step = "create"
  /\ temp' = EmptyTemp
  /\ step' = "write"
  /\ UNCHANGED <<env, phase, conf, ticket, inv, once, served, file>>

\* Mutant: the version is left at Go's zero value.
Unstamped == [version |-> 0, key |-> CacheKey(conf), inv |-> inv]

\* The inventory as it is saved.
Stamped ==
  [version |-> CurrentCacheVersion, key |-> CacheKey(conf), inv |-> inv]

WriteTemp ==
  /\ step = "write"
  /\ temp' = Stamped
  /\ step' = "rename"
  /\ UNCHANGED <<env, phase, conf, ticket, inv, once, served, file>>

RenameTemp ==
  /\ step = "rename"
  /\ file' = temp
  /\ temp' = NoTemp
  /\ step' = "mark"
  /\ UNCHANGED <<env, phase, conf, ticket, inv, once, served>>

\* Any of the three calls fails: the temporary file is removed and the error
\* is logged, not returned.
SaveFails ==
  /\ "save" \in Faults
  /\ step \in {"create", "write", "rename"}
  /\ temp' = NoTemp
  /\ step' = "mark"
  /\ UNCHANGED <<env, phase, conf, ticket, inv, once, served, file>>

\* The end of fetchInventory, in a critical section of its own.
MarkUpdated ==
  /\ step = "mark"
  /\ lastUpdate' = inv.at
  /\ step' = "publish"
  /\ UNCHANGED <<env, phase, conf, ticket, inv, once, records, disk>>

\* The end of updateDNSRecords: the new record map replaces the old one.
\* After the first one main() starts the run group.
Publish ==
  /\ step = "publish"
  /\ records' = inv
  /\ inv' = NoInv
  /\ step' = "idle"
  /\ phase' = "running"
  /\ UNCHANGED <<env, conf, ticket, once, lastUpdate, disk>>
-----------------------------------------------------------------------------
Environment == Change \/ Outage \/ ExpireTicket \/ Kill

Start == AuthenticateAtStart \/ AuthenticateAtStartFails

Update ==
  \/ Tick \/ FetchFromProxmox \/ FallBackToCache \/ FallBackFails \/ FetchFails
  \/ CreateTemp \/ WriteTemp \/ RenameTemp \/ SaveFails
  \/ MarkUpdated \/ Publish

Next ==
  \/ Environment
  \/ \E c \in Configs : Boot(c)
  \/ Start \/ Authenticate \/ Update

Spec == Init /\ [][Next]_vars

(***************************************************************************)
(* The supervisor restarts the process, the goroutines run, the tickers    *)
(* tick, and every request to Proxmox ends (the code sets no time limit on *)
(* a request, so this is an assumption about Proxmox).                     *)
(***************************************************************************)
Fairness ==
  /\ WF_vars(\E c \in Configs : Boot(c))
  /\ WF_vars(Start)
  /\ WF_vars(Authenticate)
  /\ WF_vars(Update)

FairSpec == Spec /\ Fairness
-----------------------------------------------------------------------------
(***************************************************************************)
(* Safety.                                                                 *)
(***************************************************************************)

\* What is served was fetched from the host, and as the user, the process was
\* started for, whatever processes ran before it and left in the cache file.
OwnClusterOnly ==
  records # NoInv => CacheKey(records.by) = CacheKey(conf)

\* As long as saving works, a running process with a cache path serves nothing
\* that its cache file could not bring back: the file is saved before the zone
\* changes, and a process started next accepts it.
WriteAhead ==
  "save" \notin Faults /\ phase = "running" /\ conf.cache =>
    Loadable /\ file.inv.at >= records.at

\* The debug page's "Last Updated" dates what is served, except between the
\* two critical sections that end one update, where it dates what is about to
\* be served.
DatedAsServed ==
  "stat" \notin Faults /\ phase = "running" =>
    lastUpdate = IF step = "publish" THEN inv.at ELSE records.at

\* The cache file is only ever replaced by a whole file of the current format
\* whose inventory is no older, whichever process wrote it, wherever it was
\* killed and whatever failed.
CacheNeverRegresses ==
  [][file' # file =>
       /\ Whole(file') /\ file'.version = CurrentCacheVersion
       /\ Whole(file) => file.inv.at <= file'.inv.at]_vars

\* No update, however it fails, takes the zone away: once a process serves
\* records it goes on serving the last ones, and only what ends the process
\* from outside withdraws them.
ZoneSurvivesOutage ==
  [][phase = "running" /\ Update =>
       phase' = "running" /\ records' # NoInv]_vars

\* One process never replaces its records by older ones (inventory.go:158-161).
NotOlder == records # NoInv /\ records' # NoInv => records.at <= records'.at
NoRollback == [][NotOlder]_vars

\* It does so only where saving may have failed, and then goes back to what its
\* cache file holds for its own cluster, having used up its one fallback.
GoesBackToFile ==
  /\ "save" \in Faults
  /\ conf.cache /\ Loadable /\ once
  /\ records' = file.inv
RollsBackToFileOnly == [][NotOlder \/ GoesBackToFile]_vars

\* Where saving the cache file always works, it never does.
NoRollbackIfSaved == []["save" \notin Faults => NotOlder]_vars

\* What the processes promise to the zone's clients together, where saving
\* works and every process has the cache path: module DurableZone.
Promise == INSTANCE DurableZone WITH
  None <- Never,
  durable <- IF Whole(file) /\ file.version = CurrentCacheVersion
             THEN file.inv.at ELSE Never,
  zone <- IF records = NoInv THEN Never ELSE records.at

KeepsPromise == Promise!Spec

-----------------------------------------------------------------------------
(***************************************************************************)
(* Liveness: once the cluster answers for good, nobody kills the process   *)
(* and it is started with credentials that are accepted, the zone catches  *)
(* up with the cluster and stays there.                                    *)
(***************************************************************************)
CatchesUp ==
  <>[](healthy /\ conf \in Accepted \cup {NoConfig}) /\ <>[][~Kill]_vars =>
    <>[](phase = "running" /\ records # NoInv /\ records.at = world)
=============================================================================
