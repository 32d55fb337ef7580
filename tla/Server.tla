-------------------------------- MODULE Server --------------------------------
(***************************************************************************)
(* src/main.cpp: construction of the parts, the io threads, the signal     *)
(* handler and the way out.  An asynchronous operation is outstanding from *)
(* its start until its handler has run; io_context::run returns when none  *)
(* is outstanding and the work guard has been reset.  What the handlers do *)
(* with their data is the business of Collector; here only matters which   *)
(* operations a handler leaves behind.                                     *)
(***************************************************************************)
EXTENDS Naturals, FiniteSets

CONSTANTS
  IoThreads,   \* io_threads
  Sessions     \* the connections that clients may open, to either port

VARIABLES
  phase,       \* where main is
  threads,     \* Processor::threads_ holds running threads
  work_guard,
  acceptor_,   \* the Collector's acceptor
  ops,         \* outstanding work: "accept", "monitor", "signal", the sessions,
               \* and the handlers "on accept" and "on scrape" while they run
  served,      \* sessions opened so far
  signalled,   \* SIGINT or SIGTERM has been delivered
  io           \* the io threads: "none", "run" or "returned"

vars == <<phase, threads, work_guard, acceptor_, ops, served, signalled, io>>
context == <<work_guard, acceptor_, ops, served, signalled, io>>

Init ==
  /\ phase = "collector"
  /\ threads = FALSE
  /\ work_guard = TRUE
  /\ acceptor_ = "none"
  /\ ops = {}
  /\ served = {}
  /\ signalled = FALSE
  /\ io = [i \in IoThreads |-> "none"]

-----------------------------------------------------------------------------
(* Construction.  A constructor that throws ends in the catch of main.     *)

(* Collector(...): the port may be taken; then collector.start(). *)
MakeCollector ==
  /\ phase = "collector"
  /\ \/ phase' = "exit 1" /\ UNCHANGED <<acceptor_, ops>>
     \/ /\ phase' = "processor"
        /\ acceptor_' = "open"
        /\ ops' = ops \cup {"accept"}
  /\ UNCHANGED <<threads, work_guard, served, signalled, io>>

(* Processor(...): a malformed EVENT_COLLECTOR_REDIS_PORT or _RATE_LIMIT   *)
(* throws from std::stoi or std::stoull; then processor.start().           *)
MakeProcessor ==
  /\ phase = "processor"
  /\ \/ phase' = "exit 1" /\ UNCHANGED threads
     \/ phase' = "monitor" /\ threads' = TRUE
  /\ UNCHANGED context

(* Monitor(...): the port may be taken.  By then threads_ holds joinable   *)
(* threads, which nobody stops: their destructor calls std::terminate.     *)
(* Otherwise monitor.start(), signals.async_wait and the io threads.       *)
MakeMonitor ==
  /\ phase = "monitor"
  /\ \/ phase' = "std::terminate" /\ UNCHANGED <<ops, io>>
     \/ /\ phase' = "join"
        /\ ops' = ops \cup {"monitor", "signal"}
        /\ io' = [i \in IoThreads |-> "run"]
  /\ UNCHANGED <<threads, work_guard, acceptor_, served, signalled>>

-----------------------------------------------------------------------------
(* The handlers, run by the io threads.                                    *)

Running == \E i \in IoThreads : io[i] = "run"

(* An operation completes and its handler runs, or the handler returns     *)
(* having started the next operation.                                      *)
Replace(old, new) ==
  /\ Running
  /\ old \in ops
  /\ ops' = (ops \ {old}) \cup new
  /\ UNCHANGED <<phase, threads, work_guard, acceptor_, signalled, io>>

(* A connection is accepted and gets a session. *)
Accept(s) ==
  /\ acceptor_ = "open"
  /\ s \notin served
  /\ served' = served \cup {s}
  /\ Replace("accept", {"on accept", s})

(* The accept fails; on a closed acceptor it does so at once. *)
AcceptFails == Replace("accept", {"on accept"}) /\ UNCHANGED served

(* In every case the accept handler ends by calling start(). *)
AcceptAgain == Replace("on accept", {"accept"}) /\ UNCHANGED served

(* A scraper connects and handle_request reads its request, ... *)
Scrape(s) ==
  /\ s \notin served
  /\ served' = served \cup {s}
  /\ Replace("monitor", {"on scrape", s})

(* ... or the accept of the Monitor fails. *)
ScrapeFails == Replace("monitor", {"on scrape"}) /\ UNCHANGED served

(* In both cases the handler ends by calling do_accept(). *)
ScrapeAgain == Replace("on scrape", {"monitor"}) /\ UNCHANGED served

(* The last handler of a session, or of a scrape. *)
SessionEnds(s) == Replace(s, {}) /\ UNCHANGED served

(* SIGINT or SIGTERM arrives. *)
Signal ==
  /\ phase = "join"
  /\ ~signalled
  /\ signalled' = TRUE
  /\ UNCHANGED <<phase, threads, work_guard, acceptor_, ops, served, io>>

(* The signal handler: collector.stop(); work_guard.reset(); it does not   *)
(* wait for another signal, and does not stop the Monitor.                 *)
SignalHandler ==
  /\ Running
  /\ signalled /\ "signal" \in ops
  /\ acceptor_' = "closed"
  /\ work_guard' = FALSE
  /\ ops' = ops \ {"signal"}
  /\ UNCHANGED <<phase, threads, served, signalled, io>>

-----------------------------------------------------------------------------
(* The way out.                                                            *)

RunReturns(i) ==
  /\ io[i] = "run"
  /\ ~work_guard /\ ops = {}
  /\ io' = [io EXCEPT ![i] = "returned"]
  /\ UNCHANGED <<phase, threads, work_guard, acceptor_, ops, served, signalled>>

(* The io threads are joined; processor.stop(); return 0. *)
StopProcessor ==
  /\ phase = "join"
  /\ \A i \in IoThreads : io[i] = "returned"
  /\ threads' = FALSE
  /\ phase' = "exit 0"
  /\ UNCHANGED context

Ended == phase \in {"exit 0", "exit 1", "std::terminate"} /\ UNCHANGED vars

Next ==
  \/ MakeCollector \/ MakeProcessor \/ MakeMonitor
  \/ \E s \in Sessions : Accept(s) \/ Scrape(s) \/ SessionEnds(s)
  \/ AcceptFails \/ AcceptAgain \/ ScrapeFails \/ ScrapeAgain
  \/ Signal \/ SignalHandler
  \/ \E i \in IoThreads : RunReturns(i)
  \/ StopProcessor \/ Ended

Spec == Init /\ [][Next]_vars

(***************************************************************************)
(* Every step of main and of the io threads that can be taken is taken,    *)
(* and even every session and scrape ends; only the signal and the clients *)
(* that connect are free.                                                  *)
(***************************************************************************)
Fairness ==
  /\ WF_vars(MakeCollector) /\ WF_vars(MakeProcessor) /\ WF_vars(MakeMonitor)
  /\ \A s \in Sessions : WF_vars(SessionEnds(s))
  /\ WF_vars(acceptor_ = "closed" /\ AcceptFails)
  /\ WF_vars(AcceptAgain) /\ WF_vars(ScrapeAgain)
  /\ WF_vars(SignalHandler)
  /\ \A i \in IoThreads : WF_vars(RunReturns(i))
  /\ WF_vars(StopProcessor)

FairSpec == Spec /\ Fairness

-----------------------------------------------------------------------------
(* What the repository says of this component and the code does not keep.  *)

(***************************************************************************)
(* start.sh:26 and the tree in README.md:210 promise a graceful exit: once *)
(* a signal has arrived, the Processor is stopped and main returns 0.      *)
(***************************************************************************)
GracefulExit == signalled ~> phase = "exit 0"
=============================================================================
