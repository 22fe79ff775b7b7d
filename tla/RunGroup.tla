------------------------------ MODULE RunGroup ------------------------------
(***************************************************************************)
(* How one process runs and stops: the actors main() adds to the run group *)
(* (two periodic jobs, the DNS servers, the debug HTTP server, the signal  *)
(* handler), their handlers in internal/rghandlers, and the part of        *)
(* run.Group.Run they rely on: start every actor on a goroutine, wait for  *)
(* the first to return, interrupt all of them one after the other, wait    *)
(* for all of them to return.  The update job, the DNS queries and the     *)
(* debug DNS page meet at the lock s.mu, which no context can cancel.      *)
(***************************************************************************)
EXTENDS Naturals, Sequences

CONSTANTS
  Periodics,    \* actors made by Periodic
  Updaters,     \* those of them whose job replaces the records, under s.mu
  DNSServers,   \* actors made by DNSServer
  HTTPServers,  \* actors made by HTTPServer
  Signal,       \* the actor made by run.SignalHandler
  Order         \* all of them, in the order main() adds them

Actors == Periodics \cup DNSServers \cup HTTPServers \cup {Signal}

ASSUME ActorsAssumption ==
  /\ Periodics \cap DNSServers = {} /\ Periodics \cap HTTPServers = {}
  /\ DNSServers \cap HTTPServers = {}
  /\ Signal \notin Periodics \cup DNSServers \cup HTTPServers
ASSUME UpdatersAssumption == Updaters \subseteq Periodics
ASSUME OrderAssumption ==
  /\ Order \in Seq(Actors)
  /\ \A a \in Actors : \E i \in 1..Len(Order) : Order[i] = a
  /\ \A i, j \in 1..Len(Order) : Order[i] = Order[j] => i = j

VARIABLES
  main,   \* where Run is: "running", "interrupting", "shutting", "waiting",
          \* "done"
  next,   \* index in Order of the next actor to interrupt
  pc,     \* each actor's execute function: "new" (goroutine not scheduled
          \* yet), "serve", "work" (a job is running), "lock" (it is in
          \* s.mu.Lock()), "await" (<-shutdownComplete), "returned"
  stop,   \* each actor's interrupt function: "none", "asked", "complete"
          \* (shutdownComplete is closed), "missed" (there was nothing to stop)
  tick,   \* each Periodic's ticker has a tick in its channel
  query,  \* a query of this DNS server is in its handler
  page    \* the debug DNS page is being written, under s.mu.RLock()

handlers == <<query, page>>
vars == <<main, next, pc, stop, tick, query, page>>

Places == {"new", "serve", "work", "lock", "await", "returned"}

TypeOK ==
  /\ main \in {"running", "interrupting", "shutting", "waiting", "done"}
  /\ next \in 1..Len(Order) + 1
  /\ pc \in [Actors -> Places]
  /\ stop \in [Actors -> {"none", "asked", "complete", "missed"}]
  /\ tick \in [Periodics -> BOOLEAN]
  /\ query \in [DNSServers -> BOOLEAN] /\ page \in [HTTPServers -> BOOLEAN]

Init ==
  /\ main = "running" /\ next = 1
  /\ pc = [a \in Actors |-> "new"]
  /\ stop = [a \in Actors |-> "none"]
  /\ tick = [a \in Periodics |-> FALSE]
  /\ query = [a \in DNSServers |-> FALSE]
  /\ page = [a \in HTTPServers |-> FALSE]

Goto(a, place) == pc' = [pc EXCEPT ![a] = place]
-----------------------------------------------------------------------------
(***************************************************************************)
(* Periodic: a loop that selects between the context and the ticker.       *)
(***************************************************************************)
PeriodicStarts(a) ==
  /\ pc[a] = "new" /\ Goto(a, "serve")
  /\ UNCHANGED <<main, next, stop, tick, handlers>>

Tick(a) ==
  /\ pc[a] \in {"serve", "work", "lock"} /\ ~tick[a]
  /\ tick' = [tick EXCEPT ![a] = TRUE]
  /\ UNCHANGED <<main, next, pc, stop, handlers>>

\* With a tick ready as well as the cancelled context, select takes either.
RunJob(a) ==
  /\ pc[a] = "serve" /\ tick[a]
  /\ tick' = [tick EXCEPT ![a] = FALSE]
  /\ Goto(a, "work")
  /\ UNCHANGED <<main, next, stop, handlers>>

\* Mutant: the job's error is returned, and ends the loop.
AfterFailedJob == "returned"

\* Both jobs log their errors and return nil, so the loop goes on.
AfterJob == "serve"

\* Proxmox answers every request of the job that has nothing to replace, or
\* refuses one.
JobEnds(a) ==
  /\ pc[a] = "work" /\ Goto(a, AfterJob)
  /\ UNCHANGED <<main, next, stop, tick, handlers>>

\* Mutant: the job's requests are made under a context that is never cancelled.
RunsOn(a) == FALSE

\* The job's requests were made with the handler's context.
Cancelled(a) == stop[a] = "asked"

\* A request that Proxmox does not answer ends when its context is cancelled.
JobCancelled(a) ==
  /\ pc[a] = "work" /\ Cancelled(a) /\ Goto(a, AfterJob)
  /\ UNCHANGED <<main, next, stop, tick, handlers>>

\* The inventory is there; what follows is bounded by nothing but the lock
\* (which it takes twice, one time after the other).
JobLocks(a) ==
  /\ pc[a] = "work" /\ a \in Updaters /\ Goto(a, "lock")
  /\ UNCHANGED <<main, next, stop, tick, handlers>>

\* The last reader has left.
JobUnlocks(a) ==
  /\ pc[a] = "lock" /\ \A s \in HTTPServers : ~page[s]
  /\ Goto(a, AfterJob)
  /\ UNCHANGED <<main, next, stop, tick, handlers>>

\* A waiting writer holds new readers back.
WriterWaits == \E a \in Updaters : pc[a] = "lock"

PeriodicReturns(a) ==
  /\ pc[a] = "serve" /\ stop[a] = "asked" /\ Goto(a, "returned")
  /\ UNCHANGED <<main, next, stop, tick, handlers>>
-----------------------------------------------------------------------------
(***************************************************************************)
(* DNSServer: ListenAndServe and ShutdownContext of miekg/dns.             *)
(***************************************************************************)
Listen(a) ==
  /\ pc[a] = "new" /\ Goto(a, "serve")
  /\ UNCHANGED <<main, next, stop, tick, handlers>>

Query(a) ==
  /\ pc[a] = "serve" /\ stop[a] # "asked"
  /\ query' = [query EXCEPT ![a] = TRUE]
  /\ UNCHANGED <<main, next, pc, stop, tick, page>>

\* The handler gets the lock, writes the reply, or logs that it cannot (the
\* five seconds of ShutdownContext may have passed and its socket may be
\* closed), and releases the lock.
Answer(a) ==
  /\ query[a] /\ ~WriterWaits
  /\ query' = [query EXCEPT ![a] = FALSE]
  /\ UNCHANGED <<main, next, pc, stop, tick, page>>

\* The address is taken or not permitted, or the socket breaks later.  Like
\* after a shutdown, ListenAndServe first waits for the handlers.
DNSFails(a) ==
  /\ pc[a] \in {"new", "serve"} /\ ~query[a] /\ Goto(a, "returned")
  /\ UNCHANGED <<main, next, stop, tick, handlers>>

\* Mutant: the handlers are not waited for.
LeavesQueries(a) ==
  /\ pc[a] = "serve" /\ stop[a] = "asked" /\ Goto(a, "returned")
  /\ UNCHANGED <<main, next, stop, tick, handlers>>

\* The listener is closed and the last handler has returned.
DNSReturns(a) ==
  /\ pc[a] = "serve" /\ stop[a] = "asked" /\ ~query[a] /\ Goto(a, "returned")
  /\ UNCHANGED <<main, next, stop, tick, handlers>>
-----------------------------------------------------------------------------
(***************************************************************************)
(* HTTPServer: ListenAndServe of net/http, then <-shutdownComplete; the    *)
(* interrupt function runs Shutdown on a goroutine of its own, which       *)
(* closes shutdownComplete.                                                *)
(***************************************************************************)
\* Mutant: the error of ListenAndServe is returned at once.
AtOnce == "returned"

\* The execute function blocks until Shutdown has returned.
AfterServe == "await"

\* A server that has been shut down does not listen any more.
HTTPListens(a) ==
  /\ pc[a] = "new" /\ stop[a] = "none" /\ Goto(a, "serve")
  /\ UNCHANGED <<main, next, stop, tick, handlers>>

\* The address cannot be listened on, or ErrServerClosed.
HTTPFails(a) ==
  /\ pc[a] = "new" /\ Goto(a, AfterServe)
  /\ UNCHANGED <<main, next, stop, tick, handlers>>

HTTPCloses(a) ==
  /\ pc[a] = "serve" /\ stop[a] # "none" /\ Goto(a, AfterServe)
  /\ UNCHANGED <<main, next, stop, tick, handlers>>

OpenPage(a) ==
  /\ pc[a] = "serve" /\ ~page[a] /\ ~WriterWaits
  /\ page' = [page EXCEPT ![a] = TRUE]
  /\ UNCHANGED <<main, next, pc, stop, tick, query>>

\* The client has read the page, or its connection has broken.
ClosePage(a) ==
  /\ page[a]
  /\ page' = [page EXCEPT ![a] = FALSE]
  /\ UNCHANGED <<main, next, pc, stop, tick, query>>

\* Mutant: when the timeout has passed shutdownComplete is not closed.
NotClosed(a) ==
  /\ stop[a] = "asked"
  /\ \E how \in {"complete", "missed"} : stop' = [stop EXCEPT ![a] = how]
  /\ UNCHANGED <<main, next, pc, tick, handlers>>

\* The open requests have ended or the timeout has passed; what is open then
\* stays open, because nobody calls Close.
ShutdownReturns(a) ==
  /\ stop[a] = "asked"
  /\ stop' = [stop EXCEPT ![a] = "complete"]
  /\ UNCHANGED <<main, next, pc, tick, handlers>>

HTTPReturns(a) ==
  /\ pc[a] = "await" /\ stop[a] = "complete" /\ Goto(a, "returned")
  /\ UNCHANGED <<main, next, stop, tick, handlers>>
-----------------------------------------------------------------------------
(***************************************************************************)
(* run.SignalHandler.                                                      *)
(***************************************************************************)
SignalStarts ==
  /\ pc[Signal] = "new" /\ Goto(Signal, "serve")
  /\ UNCHANGED <<main, next, stop, tick, handlers>>

GotSignal ==
  /\ pc[Signal] = "serve" /\ stop[Signal] = "none" /\ Goto(Signal, "returned")
  /\ UNCHANGED <<main, next, stop, tick, handlers>>

SignalReturns ==
  /\ pc[Signal] = "serve" /\ stop[Signal] = "asked" /\ Goto(Signal, "returned")
  /\ UNCHANGED <<main, next, stop, tick, handlers>>
-----------------------------------------------------------------------------
(***************************************************************************)
(* run.Group.Run.                                                          *)
(***************************************************************************)
FirstReturned ==
  /\ main = "running"
  /\ \E a \in Actors : pc[a] = "returned"
  /\ main' = "interrupting"
  /\ UNCHANGED <<next, pc, stop, tick, handlers>>

\* Interrupting a Periodic or the signal handler cancels its context, and an
\* HTTP server is shut down in the background: neither waits.
InterruptAtOnce ==
  /\ main = "interrupting" /\ next <= Len(Order)
  /\ Order[next] \notin DNSServers
  /\ stop' = [stop EXCEPT ![Order[next]] = "asked"]
  /\ next' = next + 1
  /\ UNCHANGED <<main, pc, tick, handlers>>

\* Mutant: the interrupt function does not wait for its own server, and the
\* wait passes over the next actor.
SkipNext ==
  /\ main = "interrupting" /\ next <= Len(Order)
  /\ Order[next] \in DNSServers
  /\ stop' = [stop EXCEPT ![Order[next]] =
                IF pc[Order[next]] = "serve" THEN "asked" ELSE "missed"]
  /\ next' = next + 1
  /\ main' = IF pc[Order[next]] = "serve" THEN "shutting" ELSE main
  /\ UNCHANGED <<pc, tick, handlers>>

\* ShutdownContext stops a DNS server that has been started, and waits; on
\* any other it only returns an error, which is dropped.
InterruptDNS ==
  /\ main = "interrupting" /\ next <= Len(Order)
  /\ Order[next] \in DNSServers
  /\ IF pc[Order[next]] = "serve"
     THEN /\ stop' = [stop EXCEPT ![Order[next]] = "asked"]
          /\ main' = "shutting" /\ UNCHANGED next
     ELSE /\ stop' = [stop EXCEPT ![Order[next]] = "missed"]
          /\ next' = next + 1 /\ UNCHANGED main
  /\ UNCHANGED <<pc, tick, handlers>>

\* The DNS server has stopped, or five seconds have passed.
DNSWaitEnds ==
  /\ main = "shutting"
  /\ main' = "interrupting" /\ next' = next + 1
  /\ UNCHANGED <<pc, stop, tick, handlers>>

AllInterrupted ==
  /\ main = "interrupting" /\ next = Len(Order) + 1
  /\ main' = "waiting"
  /\ UNCHANGED <<next, pc, stop, tick, handlers>>

RunReturns ==
  /\ main = "waiting" /\ \A a \in Actors : pc[a] = "returned"
  /\ main' = "done"
  /\ UNCHANGED <<next, pc, stop, tick, handlers>>

\* main() returns and the process is gone.
Finished == main = "done" /\ UNCHANGED vars
-----------------------------------------------------------------------------
PeriodicStep(a) ==
  \/ PeriodicStarts(a) \/ Tick(a) \/ RunJob(a) \/ JobEnds(a)
  \/ JobCancelled(a) \/ JobLocks(a) \/ JobUnlocks(a) \/ PeriodicReturns(a)

DNSStep(a) ==
  \/ Listen(a) \/ Query(a) \/ Answer(a) \/ DNSFails(a) \/ DNSReturns(a)

HTTPStep(a) ==
  \/ HTTPListens(a) \/ HTTPFails(a) \/ HTTPCloses(a)
  \/ OpenPage(a) \/ ClosePage(a)
  \/ ShutdownReturns(a) \/ HTTPReturns(a)

SignalStep == SignalStarts \/ GotSignal \/ SignalReturns

GroupStep ==
  \/ FirstReturned \/ InterruptAtOnce \/ InterruptDNS \/ DNSWaitEnds
  \/ AllInterrupted \/ RunReturns

Next ==
  \/ \E a \in Periodics : PeriodicStep(a)
  \/ \E a \in DNSServers : DNSStep(a)
  \/ \E a \in HTTPServers : HTTPStep(a)
  \/ SignalStep \/ GroupStep \/ Finished

Spec == Init /\ [][Next]_vars

(***************************************************************************)
(* Goroutines run, Shutdown and ShutdownContext have timeouts, the lock    *)
(* wakes who waits for it (and lets a query in between two updates), and a *)
(* select between two ready channels picks each of them with probability   *)
(* one half, so it does not pass over the context for ever.  Nothing makes *)
(* Proxmox answer, a page's client read, a signal arrive or a socket       *)
(* break.                                                                  *)
(***************************************************************************)
Fairness ==
  /\ \A a \in Periodics :
       /\ WF_vars(PeriodicStarts(a)) /\ WF_vars(JobCancelled(a))
       /\ WF_vars(JobUnlocks(a))
       /\ SF_vars(PeriodicReturns(a))
  /\ \A a \in DNSServers :
       /\ WF_vars(Listen(a)) /\ SF_vars(Answer(a)) /\ WF_vars(DNSReturns(a))
  /\ \A a \in HTTPServers :
       /\ WF_vars(HTTPListens(a)) /\ WF_vars(HTTPFails(a))
       /\ WF_vars(HTTPCloses(a)) /\ WF_vars(ShutdownReturns(a))
       /\ WF_vars(HTTPReturns(a))
  /\ WF_vars(SignalStarts) /\ WF_vars(SignalReturns)
  /\ WF_vars(GroupStep)

FairSpec == Spec /\ Fairness
-----------------------------------------------------------------------------
(***************************************************************************)
(* Safety.                                                                 *)
(***************************************************************************)

\* Only a signal or a DNS server that cannot serve ends a process: whatever
\* Proxmox answers, and whether the debug address can be listened on or not,
\* no job and no debug server makes Run leave its first wait.
OnlySignalOrDNSStops ==
  main = "running" =>
    \A a \in Actors : pc[a] = "returned" => a \in DNSServers \cup {Signal}

\* When Run returns, no job runs, no DNS handler does, although it may have had
\* to wait for the lock, and no Shutdown is under way: the debug server's open
\* requests had their time to end.  That every query has its reply is not
\* said: a handler that gets the lock only after ShutdownContext has given up
\* writes to a closed socket, and logs that (main.go:483-485).
NothingLeftRunning ==
  main = "done" =>
    /\ \A a \in Actors : pc[a] = "returned"
    /\ \A a \in DNSServers : ~query[a]
    /\ \A a \in HTTPServers : stop[a] = "complete"

\* Interrupts go through the actors in order and pass over none: when Run
\* waits for them all, all have been interrupted.
InterruptedInOrder ==
  \A i \in 1..Len(Order) :
    stop[Order[i]] # "none" <=> i < next \/ (i = next /\ main = "shutting")

\* A DNS server that began to listen after it had been interrupted: nothing
\* stops it any more.
Escaped(a) == stop[a] = "missed" /\ pc[a] = "serve"

\* The actor has a step of its own to take towards its return, one that
\* neither Proxmox nor a client nor a signal has to cause.
GoesOn(a) ==
  \/ pc[a] = "new"
  \/ /\ a \in Periodics
     /\ \/ pc[a] = "serve" /\ stop[a] = "asked"
        \/ pc[a] = "work" /\ Cancelled(a)
        \/ pc[a] = "lock" /\ \A s \in HTTPServers : ~page[s]
  \/ /\ a \in DNSServers /\ pc[a] = "serve"
     /\ IF query[a] THEN ~WriterWaits ELSE stop[a] = "asked"
  \/ /\ a \in HTTPServers
     /\ \/ pc[a] = "serve" /\ stop[a] # "none"
        \/ stop[a] = "asked"
        \/ pc[a] = "await" /\ stop[a] = "complete"
  \/ a = Signal /\ pc[a] = "serve" /\ stop[a] = "asked"

\* Nobody is left waiting on somebody who waits: once Run waits for all of
\* them, and unless the client of a debug DNS page holds s.mu, every actor has
\* returned, has escaped, can go on by itself, or waits for s.mu behind an
\* update that can.
StopNeverStuck ==
  main = "waiting" /\ (\A s \in HTTPServers : ~page[s]) =>
    \A a \in Actors :
      \/ pc[a] = "returned" \/ GoesOn(a)
      \/ a \in DNSServers /\ Escaped(a)
      \/ a \in DNSServers /\ query[a] /\ \E u \in Updaters : GoesOn(u)

-----------------------------------------------------------------------------
(***************************************************************************)
(* Liveness.                                                               *)
(***************************************************************************)

\* A client that never reads the debug DNS page it asked for keeps s.mu from
\* being written, and hence the update job and the queries behind it from
\* ending, whatever is cancelled and shut down.
Stalled(a) == <>[]page[a]

\* Once Run has left its first wait the process ends, even with a job waiting
\* for an answer that never comes, unless a DNS server escapes or the client
\* of a debug DNS page stops reading.
StopsUnlessHeld ==
  (\A a \in HTTPServers : ~Stalled(a)) =>
    (main # "running" ~> main = "done" \/ \E a \in DNSServers : Escaped(a))

\* The same without the exceptions (internal/rghandlers/handlers.go:16-17 and
\* 115-116: handlers "that properly starts and gracefully stops" the servers).
Stops == main # "running" ~> main = "done"
=============================================================================
