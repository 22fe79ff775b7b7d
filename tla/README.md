# A TLA+ model of proxmox-service-discovery

proxmox-service-discovery reads the inventory of a Proxmox cluster over its API,
turns every running guest into DNS records, and serves them. This directory
models the parts of the program whose state outlives one function call or is
shared between goroutines, checks them with TLC on small instances, and proves
their safety properties with TLAPS for all values of the constants.
`PROJECT.json` maps every definition to the lines it stands for.

    tlc -config MCZone.cfg MCZone           # one run; PROJECT.json lists them
    tlapm ZoneProofs.tla                    # one set of proofs

## 1. Inventory of the system

| Component (source) | State | Operations | Interacts with |
|---|---|---|---|
| Process lifecycle, `main()` (`main.go:73-229`) | command line, phase | authenticate, first update, start the run group, exit | all others |
| Update loop (`main.go:383-447`, `inventory.go:150-215`) | local inventory, `cacheLoadOnce`, `lastInventoryUpdate` | fetch, fall back to the cache, save, publish; every minute | API, cache file, zone |
| Inventory cache (`inventory.go:217-289`) | the file at `--cache-path` | `loadCache`, `saveCache` | update loop, and the next process |
| Inventory fetch (`inventory.go:291-407`) | shared slice and statistics under a mutex | one goroutine per node, list guests, ask for addresses | API |
| Address discovery (`inventory.go:418-593`) | the loops' locals, over two requests | static address, interfaces by hardware address | API, inventory fetch |
| Zone (`main.go:440-486`, `debug.go:464-542`) | `records`, `noAddrs` under a `sync.RWMutex` | update, DNS request, debug DNS page | update loop, DNS and HTTP servers |
| Resource filter (`filter.go`, `main.go:87-98`) | flags, patterns, `Filter` (immutable after start) | `NewFilter`, `FilterResources` | update loop |
| Run group and handlers (`internal/rghandlers`, `main.go:151-220`) | each actor's goroutine, context, shutdown channel | execute and interrupt of each actor | servers, periodic jobs, signals |
| Authentication (`internal/pveapi/auth.go`) | ticket, CSRF token, cached client under a `sync.RWMutex` | `Authenticate`, `UpdateRequest`, `WriteCacheKey` | API client, every 15 minutes |
| API client (`internal/pveapi/api.go`) | none | one GET per call | Proxmox |
| Debug pages, metrics, logging | counters | render | HTTP server |

What is hard in it:

* **Concurrency.** Node goroutines share one inventory; DNS handlers and page
  handlers read the zone in several steps while updates replace it; requests read
  a ticket and a token in two steps while a login replaces them; six actors start,
  end and are interrupted in any order.
* **Failure and restart.** A process may be killed anywhere, also while it
  saves; any file system call may fail; Proxmox, one node or one guest agent may
  stop answering for any time; authentication may fail at start and succeed an
  hour later.
* **Staleness.** What a process serves may come from a file another process,
  user or release wrote; the cluster goes on changing while it is being read.
* **Progress.** No request has a time limit, replies and pages are written under
  the read lock, a writer that waits for it holds back every new reader and hears
  of no cancelled context, and Run waits for every actor.

What makes each component correct:

* *Lifecycle, update, cache*: serve only one's own cluster; save before serving;
  never go back in time, in one process or over a restart (and where a save
  failed, to the cache file only); keep the zone through
  an outage; catch up after it; never damage the cache file.
* *Inventory fetch*: everything or an error; exact for guests left alone, and
  for every other guest true at some moment of the fetch; it returns.
* *Address discovery*: a static address alone; otherwise no address of another
  interface and none missed, although the guest may be reconfigured in between.
* *Authentication*: a request bears the ticket and the token of one login, the one
  stored when it is sent; a good
  login is given up for nothing; nobody waits for the next one; after an outage
  there is one again.
* *Zone*: what is served comes from one update and is complete; every reader
  sees one update, as if each did its work in one step; everybody gets the lock.
* *Filter*: exclusion wins; nothing that meets the flags is dropped or moved.
* *Run group*: only a signal or a DNS server ends the process; interrupts pass
  over nobody; nothing is left running; nobody waits in a circle; it ends.

## 2. Modules

| Module | Models | Composes or extends |
|---|---|---|
| `Discovery` | lifecycle, update loop, cache file, when a ticket is held | implements `DurableZone` |
| `DurableZone` | the abstract promise of all processes together | |
| `NodeFetch` | one fetch over all nodes, one API call per step | implements `RegularFetch` |
| `RegularFetch` | the abstract promise of a fetch from a cluster that changes | |
| `Addresses` | one guest's addresses, one request, key, part or interface per step | detail of a step of `NodeFetch` |
| `TicketAuth` | `PasswordAuthProvider` and the requests that use it | implements `AtomicLogin`; detail of the ticket in `Discovery` |
| `AtomicLogin` | the abstract promise of the provider to the requests | |
| `Zone` | building and publishing the record map, DNS and page handlers | implements `AtomicZone` |
| `AtomicZone` | the abstract promise to the readers of the zone | |
| `Filter` | flags to patterns to filter to guests kept | |
| `RunGroup` | the six actors and `run.Group.Run`, with the update job, queries and pages at the lock of the zone | |
| `MCDiscovery` ... | constants for TLC | the module of that name |
| `DiscoveryProofs` ... | theorems and proofs | the module of that name and `TLAPS` |

An operator whose comment starts with "Mutant" is a plausible bug in the
definition that follows it. It is part of no specification: `PROJECT.json` names
the property that fails when it takes that definition's place.

### Discovery

One process after another on one host. The contents of the cluster are a
version number (`world`), an inventory is the version `at` which and the
configuration `by` which it was fetched, and times are named by the version
they date. `step` is the program counter of `updateDNSRecords`:

| `step` | Code | Actions that leave it |
|---|---|---|
| `idle` | the periodic actor waits (`main.go:200`) | `Tick` |
| `fetch` | `fetchInventory` asks Proxmox, and `loadCache` on an error (`inventory.go:154-185`) | `FetchFromProxmox`, `FallBackToCache`, `FallBackFails`, `FetchFails` |
| `create`, `write`, `rename` | `saveCache` (`inventory.go:249-289`) | `CreateTemp`, `WriteTemp`, `RenameTemp`, `SaveFails` |
| `mark` | `lastInventoryUpdate` (`inventory.go:207-213`) | `MarkUpdated` |
| `publish` | filter, build and replace the map (`main.go:390-446`) | `Publish` |

`phase` distinguishes authentication at start, the first update (its error is
fatal) and the running process (errors are logged). `Kill` may come between any
two steps and keeps the cache file only. The cache file at the start may be
missing, unreadable, of another format version, or of any acceptable
configuration. `Faults` says which file system calls may fail, so the same
module answers what holds in general and what holds where saves work.
`ExpireTicket` needs `~healthy`: a ticket outlives several 15-minute refreshes.

A fetch is one step here and a protocol in `NodeFetch`; building the map is one
step here and a protocol in `Zone`. Both leave the variables of `Discovery`
alone until they end.

### DurableZone

What clients of the zone may rely on whichever process serves them: the zone
offered is always the version last made durable, and durable versions never get
older. `Discovery!Promise` maps `durable` to the cache file (if whole and of the
current format) and `zone` to the records served.

### NodeFetch

`home`, `on` and `ip` are the cluster, which may change `MaxEvents` times during
the fetch. Each node's goroutine goes through `pc`: `vms`, `addrs`, (for a guest
without static address) `interfaces`, `lxcs`, `addrs`, `lock`, `append`, `done`.
Any call may fail (`CallFails`), and `taskgroup.Group` turns the first failure
into the error of the fetch. `append` reads the shared slice (`base`) in one step
and stores it in another, so that the mutex matters. `was` is a history variable
for the properties only: the states each guest has been in since the fetch began;
a guest is `Settled` when there is one. A guest's order among the guests of its
node is not modelled: `GetConfig` takes any guest still to be asked for.

### RegularFetch

A fetch is no snapshot of the cluster: guests are read at different moments, and
even the node and the address of one guest may be. It is what a regular register
is to its readers. `Return` says what may be returned, in one step: an item only
if its guest ran on that node and had that address since the fetch began, both at
once unless the address is in its configuration (a container that migrates
between the listing and the request is found with the address of then and the
node of before); an item for every guest that stayed on one node, whatever its
address; and never two for one guest on one node. A guest that moved may be in
twice, under two nodes, or not at all. `NodeFetch!Regular` maps `now` to the
cluster and `items` to the returned inventory.

### Addresses

`pc` goes through `config`, then `ipconfig0` and `net0` (`fetchQEMUAddrs`) or
`parts` (`fetchLXCAddrs`), `ask`, `walk` and `done`, and `at` is the index in the
loop it is in: `SplitPart` is an iteration of `splitKVs`, `LXCPart` one of the
loop at `inventory.go:508`, `WalkInterface` one of those at lines 467 and 546.
`guest` is the guest as it is, `conf` and `seen` what was read of it; `Change`
falls between the two requests. Texts are values whose meaning three tables give:
`ParsePrefix` and `ParseAddr` (what parses, and to which address) and `Fold` (a
hardware address with its letters in one case). The properties compare the loops
with reference definitions over the whole configuration (`StaticOf`,
`HardwareOf`, `Reported`) that know nothing of `kvs`, `hw` or `at`. An address
list is a set here: its order and repetitions only order the answers of one name.

### TicketAuth

Ticket and token are named by the login they came with. `auth` is where
`Authenticate` is: `client`, `sent` (in `client.Do`, for any time), `lock` (in
`a.mu.Lock()`, from where on `RLock` waits), `ticket` and `csrf` (the two
assignments). A request goes through `rlock`, `csrf`, `cookie` (the reads in
`UpdateRequest`) and `sent`. An answer may be a login, a refusal or an error, or a
status 200 without a ticket, which the code stores like any other (`LoginEmpty`).
`main()` calls `Authenticate` before there are requests, and afterwards only one
job does, so `getClient` makes the client once and its locks never wait:
`GetClient` is one step whose guard says so. A hung login ends when the process
stops, which is `RunGroup`'s subject.

### AtomicLogin

What the lock of the provider is for: one login is stored, replaced in one step by
one that is valid at that moment (or by none, after an answer without a ticket),
and a request bears, in both headers, the login stored at one moment between its
call and its sending. `TicketAuth!Atomic` takes a login for stored when its token
is, the second of the two assignments, and lets a request bear what it has read
from the step on in which it is sent.

### Zone

`updater` goes through `idle`, `build` (one item per step), `lock`, `waiting`
(in `s.mu.Lock()`, from where on `RLock` blocks). `holders` are the readers. A
DNS handler looks up its questions one by one (`todo`, `answer`); a page handler
reads `records`, then `noAddrs`. `source` is a history variable: the input the
published map was built from. The handler loops over any number of questions
and so does the model, and the proofs are for all; TLC asks one at a time, because
the DNS library, with the `MsgAcceptFunc` `main()` leaves at its default, hands on
no other message (that is external code, not in this repository). A question's class, TTLs and the rendering are
left out.

### AtomicZone

What the lock is for: the zone is replaced in one step by one that an update
makes of one inventory and one set of extra records, a reply is the answer of the
zone at one moment, and a page shows the zone of one moment. `Zone!Atomic` maps
`zone` to the two published variables and lets a reply and a page exist from the
step on in which they are written. `ZoneOf` says which zone an input makes
without the loop: the last item of a name that has addresses, and the names of
the items that have none.

### Filter

A pattern is the set of tags Go's `MatchString` accepts for it and a network the
set of addresses in it; what does not compile or parse is outside the tables'
domain, which gives the panic of `MustCompile` and the fatal error of
`NewFilter`. `RegexFlags` says which flags `main()` compiles.

### RunGroup

`pc` is each actor's execute function, `stop` its interrupt function, `main`
where `Run` is. The parts of oklog/run, miekg/dns and net/http the handlers rely
on are external actions, read off the handlers' use of them: Run starts every
actor on a goroutine, waits for the first to return, interrupts all in order and
waits for all; `ShutdownContext` only stops a DNS server that has started;
`Shutdown` of a HTTP server also keeps a later `ListenAndServe` from listening.

Three of the actors meet at the lock of the zone, and no context reaches there:
the job of an `Updaters` actor waits in `lock` for the page that is being written
(`page`), `WriterWaits` then holds back new pages and the handlers of queries
(`query`), and a DNS server returns when its handlers have. This composes the run
group with as much of `Zone` as can hold it up.

`NothingLeftRunning` says that the handlers of queries have returned, not that
each has replied. `ShutdownContext` waits five seconds; a handler that gets the
lock only afterwards finds its socket closed and logs the failed write
(`main.go:483-485`), which is the same step `Answer` here.

## 3. Runs

Passing runs:

| Run | Instance | Distinct states | Shows |
|---|---|---|---|
| `MCDiscoverySafe` | three command lines with a cache path (two hosts, password and token, a rejected password), 3 changes, reads may fail, saves work | 3696 | `TypeOK`, `WriteAhead`, `DatedAsServed`, `NoRollbackIfSaved`, and with `KeepsPromise` that `Discovery` implements `DurableZone` |
| `MCDiscoveryFaults` | a command line without cache path in addition, every call may fail | 23654 | `OwnClusterOnly`, `CacheNeverRegresses`, `ZoneSurvivesOutage`, `RollsBackToFileOnly`, `CatchesUp` |
| `MCNodeFetch` | two nodes, a VM asked through its agent and a container with a static address, two addresses, 2 changes | 573072 | `AllOrNothing`, `SettledGuestsExact`, with `IsRegular` that `NodeFetch` implements `RegularFetch`, `Returns` |
| `MCAddresses` | 45 VMs and 14 containers: no static address, one, one that does not parse, DHCP, a key twice; no, one and two hardware addresses, in both cases; loopback, a bridge, a VLAN, unreadable addresses | 8016 | `StaticAddressAlone`, `OnlyOwnAddresses`, `NoAddressMissed` |
| `MCTicketAuth` | two requests at a time, four logins (names are used again) | 102370 | `OneLogin`, `KeepsLogin`, with `IsAtomicLogin` that `TicketAuth` implements `AtomicLogin`, `RequestsGoOn`, `Recovers` |
| `MCZone` | two names, three addresses, three inventories, two files of extra records or none, one DNS handler with every question, one page handler | 247104 | `ServesItsSource`, `ReplyIsCurrent`, `PageIsOneZone`, with `IsAtomic` that `Zone` implements `AtomicZone`, `Answered`, `Published` |
| `MCFilter` | three values of the type flag, four sets of tags to include, three to exclude, with and without the other flags; 24 guests alone, one pair, and three guests of which two are equal | 37368 | `ExclusionWins`, `KeepsOrder` |
| `MCRunGroup` | all six actors | 238760 | `InterruptedInOrder`, `OnlySignalOrDNSStops`, `NothingLeftRunning`, `StopNeverStuck`, `StopsUnlessHeld` |

Why the bounds are enough. `MaxWorld` = 3 lets the file, the records, the
inventory in flight and the cluster all be of different versions, which is the
most the properties compare; two hosts and two credentials per host are what a
cache key can confuse. Two nodes and two guests let a guest migrate in both
directions between listings, two changes let one guest change twice or both
once, and two goroutines are what a mutex is for. The loops of `Addresses` treat
a part and an interface by what it is and what came before, so two or three of
each, right and wrong, in both orders, are what can go wrong in them. Of logins,
the stored one, one under way and one in the headers of each request are told
apart. One reader of each kind and
one writer meet in every way the lock allows, and two readers are enough to
keep a writer out for ever by turns. The filter decides guest by guest, so guests
alone suffice for what it keeps, and two or three together for their order. The six actors are all there are. The safety
properties are proved without the bounds (section 5).

Runs that end in a violation; each shows a disagreement between the code and
what the repository says of it (`PROJECT.json`, "findings", quotes the lines):

| Run | Violated | What happens |
|---|---|---|
| `MCDiscoveryRollback` | `NoRollback` | saves fail, then the first failing fetch of the process loads the old cache file over newer records |
| `MCAddressesCase` | `FindsConfiguredInterface` | a VM's agent writes the hardware address in lower case and its configuration in upper case: no interface counts |
| `MCRunGroupEscape` | `Stops` | a DNS server interrupted before it listens is never stopped |
| `MCFilterRegex` | `RegexFlagsObeyed` | the regular expression flags are never read |

Smaller disagreements met on the way, without a run:

* The CIDR flags choose guests and not addresses (`filter.go:246`, README line 95
  "Only return IP addresses in these CIDRs").
* The type filter compares with `QEMU` and `LXC` exactly while its help says
  `'qemu' or 'lxc'` (`filter.go:14`, `filter.go:152`): with that spelling no guest
  is kept. `KeepsOrder` is about the spelling of README line 90.
* The cache key has the user but not the password (`auth.go:166`), so a process
  with another, even a rejected, password serves what the former process cached;
  the comment at `inventory.go:142-144` says "if we use a different
  username/password we won't leak potentially sensitive information".
* Nodes are listed one after the other, so a VM that migrates from a node not
  listed yet to one already listed is in no listing and loses its record until
  the next update; README line 16 says "Finds all running VMs and containers".
* A client that asks for the debug DNS page and stops reading keeps the lock, and
  with it updates, queries and the end of the process (`debug.go:539`), for as
  long as its connection stays up; `handlers.go:115-116` says the server is
  stopped gracefully. `StopsUnlessHeld` names it as the exception it is.

Deadlock is checked except where the modelled code really ends: `NodeFetch` (the
fetch returns) and `Filter` (a panic or fatal error ends the process). In
`RunGroup` the end is the explicit action `Finished`.

## 4. Fairness

* `Discovery`: a supervisor restarts the process (the README's systemd unit),
  goroutines run, tickers tick, and requests to Proxmox end. The last is an
  assumption about Proxmox: the code sets no time limit. `CatchesUp` assumes in
  addition that the cluster answers for good, that nobody kills the process and
  that the command line's credentials are accepted.
  Healthy periods, changes and file system faults are under no fairness.
* `NodeFetch`: requests end with an answer or an error, goroutines run.
* `TicketAuth`: ticks come for ever, goroutines run, and whoever waited for a
  writer gets the lock before the next one (strong fairness of `RLock`). No answer
  to a login is ever certain, so `Recovers` excepts the login that hangs for ever
  (`Hangs`): the client has no timeout, and the next tick waits for it.
* `RunGroup`: goroutines run, `Shutdown` and `ShutdownContext` have timeouts, a
  query gets the lock between two updates (strong fairness of `Answer`, as in
  `Zone`), and an update gets it once no page is being written. Strong fairness of
  `PeriodicReturns`: with a tick and the cancelled context both ready Go's
  `select` picks either at random, so it does not pass over the context for ever.
  Nothing makes Proxmox answer, a page's client read, a signal arrive or a socket
  break: a hung job only ends because its context is cancelled.
* `Zone`: strong fairness of `RLock`, because `sync.RWMutex` lets the readers
  that waited for a writer in before the next writer; and clients read what is
  written to them. The debug server has no write timeout, so that is an
  assumption about its clients; what happens without it is in `RunGroup`.

## 5. Proofs

All theorems hold for every value of the constants that the named assumptions in
the modules allow (`ConfigsAssumption` and the like: sets are what they are
called, handler sets are disjoint, sentinel values are no data). TLC evaluates
these assumptions in every run.

| Module | Theorems | Inductive invariant |
|---|---|---|
| `DiscoveryProofs` | `TypeCorrect`, `OwnClusterOnlyHolds`, `WriteAheadHolds`, `DatedAsServedHolds`, `CacheNeverRegressesHolds`, `NoRollbackIfSavedHolds`, `RollsBackToFileOnlyHolds`, `ZoneSurvivesOutageHolds`, `KeepsPromiseHolds` | `Shape` (what is set at which step), `Own` (the cluster's identity along command line, inventory, file and back), `Newer` (what may replace what), `Backward` (where an older inventory comes from), `Durable` (file against records where saves work), `Dated` |
| `NodeFetchProofs` | `TypeCorrect`, `AllOrNothingHolds`, `SettledGuestsExactHolds`, `FetchIsRegular` | `Mutex`, `Collected` (the shared inventory is the union of the nodes done), `Steps`, `History` (the present state is among those remembered), `Known` (what a goroutine was told of a guest was true of it), `Once` (a guest is in one place of a goroutine only), `Present` (where a guest that stayed is on its way) |
| `AddressesProofs` | `TypeCorrect`, `StaticAddressIsAlone`, `FindsOnlyOwnAddresses`, `MissesNoAddress`, `FindsWhereCaseAgrees` | `SameKind`, `SplitSoFar`, `PartsSoFar` and `WalkedSoFar` (what each loop has of the part behind it), `Searched` (no static address, and `hw` is the configured one, from the end of the settings on), `Result`; for the last theorem `Origin` (where what was read came from) |
| `TicketAuthProofs` | `TypeCorrect`, `RequestsBearOneLogin`, `LoginIsKept`, `LoginIsAtomic` | `Exclusion` (who writes is alone), `OnePair` (ticket and token differ only between their assignments), `HalfRead` (who has read the token is still of the stored login), `Granted` |
| `ZoneProofs` | `TypeCorrect`, `ReplyIsCurrentHolds`, `PageIsOneZoneHolds`, `ServesItsSourceHolds`, `ZoneIsAtomic` | `Readers` (who holds the lock; what was read so far is still so), `BuiltSoFar` (what the map has of the items behind the loop), `PublishedWhole`; for the refinement that the map is exactly `Made` of those items |
| `FilterProofs` | `TypeCorrect`, `ExclusionWinsHolds`, `KeepsOrderHolds` | `MadeOfFlags`, `Loop`, `KeptSoFar` (which places behind the loop the kept guests come from, in order), `ExclusionWins` |
| `RunGroupProofs` | `TypeCorrect`, `InterruptedInOrderHolds`, `OnlySignalOrDNSStopsHolds`, `NothingLeftRunningHolds`, `StopNeverStuckHolds` | `Phases`, `InterruptedInOrder`, `OnlySignalOrDNSStops`, `Awaited`, `Queried` (a DNS server with a query has not returned), `AllBack`, `Kinds` (where each kind of actor can be) |

Why the strengthenings are needed, by example: `WriteAhead` is not inductive
because publishing compares records with a file written three steps earlier;
`Durable` carries `file.inv = inv` over those steps, and needs `Newer` to know
that renaming never replaces a newer inventory. `SettledGuestsExact` is about the
end of the fetch; `Present` says where a guest that stayed on its node is at every
earlier moment (not listed yet, waiting, being asked for, collected), `Known` that
what was noted of it on the way was true when it was noted and is still in `was`,
and `Mutex` and `Collected` carry both into the shared slice. `ReplyIsCurrent` rests on the
zone changing only when `holders` is empty. The properties of `Addresses` speak
of the end of its loops; the invariant says the same of the first `at - 1` parts
or interfaces, and one lemma (`LastOfNext`) what one more part changes. `OneLogin`
is about two reads; `HalfRead` says of the moment between them that no writer came
in, which is `Exclusion`.

Four theorems are refinements: initial states map to initial states, and every
step to a step of the abstract module or a stutter.

* `KeepsPromiseHolds` (`DurableZone`): renaming is `Store`, publishing is `Serve`,
  every way to exit is `Withdraw`. It assumes what the promise is made under: every
  command line has a cache path and saves do not fail.
* `FetchIsRegular` (`RegularFetch`): `Wait` is `Return` or `Fail`, the cluster's
  changes are `Change`, and every step of a goroutine is a stutter.
* `ZoneIsAtomic` (`AtomicZone`): `Publish` is `Replace`, `Reply` and `WritePage`
  are `Reply` and `Show`, and every other step of an update or a handler is a
  stutter.
* `LoginIsAtomic` (`AtomicLogin`): `StoreCSRF` is `Replace`, `SetCookie` is `Send`.

Two theorems say exactly how far a run that ends in a violation goes.
`RollsBackToFileOnlyHolds` bounds `MCDiscoveryRollback`: whatever fails, a process
goes back in time only to what its own cache file holds, and only with the one
fallback it has. `FindsWhereCaseAgrees` bounds `MCAddressesCase`: under the
assumption `CaseAgrees` (no two hardware addresses differ in their case alone)
the property violated there holds, for all configurations and interfaces.

`StopNeverStuckHolds` is what can be proved of the liveness property
`StopsUnlessHeld`: `GoesOn` repeats the guards of the steps that lead an actor to
its return, and the theorem says that, in the last wait of Run, some such step is
always there for everybody who has not returned, directly or behind an update that
waits for the lock. That each is taken in the end is the part TLC checks.

Only model-checked: the liveness properties (`CatchesUp`, `Returns`,
`RequestsGoOn`, `Recovers`, `Answered`, `Published`, `StopsUnlessHeld`), because
temporal reasoning with fairness and `ENABLED` is out of the prover's reach. No
induction over data and no recursive operator is used.

## 6. Not modelled

* Crashes of the machine: `saveCache` does not fsync, so a power loss may leave
  an empty file; `loadCache` rejects it like any unreadable file (`Garbage`).
* Leftover temporary files: never read.
* HTTP, JSON, URLs and status codes: pure I/O; a request succeeds or fails. How
  a text is parsed as an address is a table.
* The API token provider and the API client keep no state. The root debug page
  reads the number of records and their date in one critical section and shows
  them; configuration, health, version and metrics pages, the counting of queries,
  logging and build tags read nothing that changes, or only count.
* Which node is appended last, and hence which of two guests of one name is
  served: not determined; `Zone` shows that it is one of them, whole, and
  `KeepsOrder` that the filter does not change which.
* A name's case: records are looked up by the exact bytes asked for.
* Starts without any credentials (a nil provider): a violation of the flags'
  contract (`main.go:58`).

## 7. Plan

Done, in this order: `Discovery` with `DurableZone`, `RunGroup`, `NodeFetch`,
`Zone`, `Filter`, `RunGroup` at the lock of the zone, `Addresses`, `TicketAuth`,
`AtomicZone`, the proofs of each, `RegularFetch`, `AtomicLogin`.

What is left:

1. `Addresses` as a step of `NodeFetch`, with a guest that migrates between its
   two requests.
2. The stalled page client in `Discovery`: how stale the zone gets, and that it
   catches up when the connection breaks.
3. What a name of the zone may be answered with, over `NodeFetch`, `Filter` and
   `Zone` together: no address of a guest the flags exclude, and none no guest of
   that name had since the fetch began.
