------------------------------- MODULE Monitor -------------------------------
(***************************************************************************)
(* src/monitor/monitor.cpp: the /metrics endpoint, over the counters of a  *)
(* service that does EventLifecycle (Processor implements it).             *)
(*                                                                         *)
(* A scrape loads the counters one after the other, in the order of        *)
(* build_prometheus_text, while the service goes on.  The counters of      *)
(* Kafka, of the storage and of the queue are loaded after the ones here   *)
(* and are not part of EventLifecycle.                                     *)
(***************************************************************************)
EXTENDS Naturals, Sequences, FiniteSets

CONSTANTS
  Events, MaxBusy,  \* of EventLifecycle
  Conns             \* the connections that scrapers may open, each once

ASSUME MonitorAssumption == IsFiniteSet(Events) /\ MaxBusy \in Nat

VARIABLES
  stage, count,     \* of EventLifecycle
  sock,             \* what becomes of each connection
  asked,            \* connections on which a request was sent
  gone,             \* connections closed by the scraper, until a read succeeds
  seen              \* values loaded so far for the connection's response

L == INSTANCE EventLifecycle

service == <<stage, count>>
vars == <<service, sock, asked, gone, seen>>

Init ==
  /\ L!Init
  /\ sock = [c \in Conns |-> "none"]
  /\ asked = {}
  /\ gone = {}
  /\ seen = [c \in Conns |-> <<>>]

Turn(c, l) == sock' = [sock EXCEPT ![c] = l]

(* The service handles its events. *)
Service == L!Next /\ UNCHANGED <<sock, asked, gone, seen>>

-----------------------------------------------------------------------------
(* The scrapers: they connect, may send a request, and may go.  One that   *)
(* goes after its request was read makes no difference: the completion of  *)
(* the write ignores its error.                                            *)

Connect(c) ==
  /\ sock[c] = "none"
  /\ Turn(c, "backlog")
  /\ UNCHANGED <<service, asked, gone, seen>>

Request(c) ==
  /\ sock[c] \in {"backlog", "reading"}
  /\ c \notin asked \cup gone
  /\ asked' = asked \cup {c}
  /\ UNCHANGED <<service, sock, gone, seen>>

Hangup(c) ==
  /\ sock[c] \in {"backlog", "reading"}
  /\ c \notin gone
  /\ gone' = gone \cup {c}
  /\ UNCHANGED <<service, sock, asked, seen>>

-----------------------------------------------------------------------------
(* do_accept.                                                              *)

AcceptIf(c, ready) ==
  /\ sock[c] = "backlog"
  /\ ready
  /\ Turn(c, "reading")
  /\ UNCHANGED <<service, asked, gone, seen>>

(* Mutant of Accepted: do_accept is called when the request is finished. *)
OneAtATime(c) == AcceptIf(c, \A d \in Conns : sock[d] \notin {"reading", "loading"})

(* The handler without an error: handle_request starts the read, and       *)
(* do_accept the next accept, so that one is outstanding all the time.     *)
Accepted(c) == AcceptIf(c, TRUE)

(* The handler with an error (out of descriptors, aborted connection)      *)
(* calls do_accept again.                                                  *)
AcceptFails == UNCHANGED vars

-----------------------------------------------------------------------------
(* handle_request.                                                         *)

(* The read completes with some bytes, whatever they are. *)
ReadSome(c) ==
  /\ sock[c] = "reading"
  /\ c \in asked
  /\ Turn(c, "loading")
  /\ gone' = gone \ {c}
  /\ UNCHANGED <<service, asked, seen>>

(* The read fails: the handler returns and the socket goes with it. *)
ReadFails(c) ==
  /\ sock[c] = "reading"
  /\ c \in gone
  /\ Turn(c, "closed")
  /\ UNCHANGED <<service, asked, gone, seen>>

(* Mutant of Loads: downstream counters first. *)
DownstreamFirst == <<"parse_fail", "invalid", "rate_limited", "valid", "parsed", "received">>

(* The order of build_prometheus_text. *)
Loads == <<"received", "parsed", "valid", "invalid", "parse_fail", "rate_limited">>

(* metrics_.total_x.load() *)
Load(c) ==
  /\ sock[c] = "loading"
  /\ Len(seen[c]) < Len(Loads)
  /\ seen' = [seen EXCEPT ![c] = Append(@, count[Loads[Len(@) + 1]])]
  /\ UNCHANGED <<service, sock, asked, gone>>

(* async_write completes and the socket is released. *)
Write(c) ==
  /\ sock[c] = "loading"
  /\ Len(seen[c]) = Len(Loads)
  /\ Turn(c, "answered")
  /\ seen' = [seen EXCEPT ![c] = <<>>]
  /\ UNCHANGED <<service, asked, gone>>

-----------------------------------------------------------------------------
Handler(c) == ReadSome(c) \/ ReadFails(c) \/ Load(c) \/ Write(c)

Next ==
  \/ Service
  \/ \E c \in Conns : Connect(c) \/ Request(c) \/ Hangup(c) \/ Accepted(c) \/ Handler(c)
  \/ AcceptFails

Spec == Init /\ [][Next]_vars

(* The io threads run what is ready; scrapers and events promise nothing. *)
Fairness == \A c \in Conns : WF_vars(Accepted(c)) /\ WF_vars(Handler(c))

FairSpec == Spec /\ Fairness

-----------------------------------------------------------------------------
(* The value of counter x in the response for c, once it was loaded. *)
Loaded(c, x) == seen[c][CHOOSE i \in 1..Len(Loads) : Loads[i] = x]

(***************************************************************************)
(* A response may be torn, but it never shows a backlog that the service   *)
(* did not have: what it says was received (parsed) and not yet parsed or  *)
(* failed (judged) is no more than the workers can have in hand, because   *)
(* every counter is loaded before the ones downstream of it.               *)
(***************************************************************************)
NoPhantomBacklog ==
  \A c \in Conns : Len(seen[c]) = Len(Loads) =>
    /\ Loaded(c, "received") <= Loaded(c, "parsed") + Loaded(c, "parse_fail") + MaxBusy
    /\ Loaded(c, "parsed") <= Loaded(c, "valid") + Loaded(c, "invalid") + MaxBusy

(***************************************************************************)
(* A scraper that sends a request is answered, whatever the others do:     *)
(* one that connects and stays silent keeps its own socket for ever (there *)
(* is no timeout) and delays nobody.                                       *)
(***************************************************************************)
ScrapeAnswered == \A c \in Conns : c \in asked ~> sock[c] = "answered" \/ c \in gone
==============================================================================
