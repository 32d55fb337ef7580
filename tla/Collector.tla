------------------------------ MODULE Collector ------------------------------
(***************************************************************************)
(* src/collector/collector.cpp: the accept chain of Collector and the      *)
(* read and timer chains of each Session.                                  *)
(*                                                                         *)
(* The handlers run on several io threads and without a strand: the read   *)
(* handler and the timer handler of one session may run at the same time.  *)
(* At most one accept handler and one read handler per session exist at a  *)
(* time, because each is started by its predecessor.  One action is one    *)
(* access to state that another handler can see.                           *)
(*                                                                         *)
(* A connection is used once.  wire is what the client has sent and the    *)
(* server has not read, cut into the pieces that complete an async_read:   *)
(* "H" a header with a valid length, "X" one with an invalid length (0, or *)
(* 102400 and more), "B" a body.  A piece that is not complete completes   *)
(* no read and is not there yet.                                           *)
(***************************************************************************)
EXTENDS Integers, Sequences, FiniteSets

CONSTANTS
  Conns,            \* the connections that clients may open
  NoConn,
  MAX_CONNECTIONS,
  Capacity,         \* capacity_ of the queue
  MaxFrames         \* bound: frames a client sends on one connection

ASSUME CollectorAssumption ==
  /\ IsFiniteSet(Conns) /\ NoConn \notin Conns
  /\ MAX_CONNECTIONS \in Nat
  /\ Capacity \in Nat
  /\ MaxFrames \in Nat

Chains == {"read", "timer"}
Handlers == Conns \X Chains

VARIABLES
  acceptor_,        \* "open" or "closed"
  accept,           \* the accept chain: "armed", or what its handler does next
  accepting,        \* the connection in the hands of the accept handler
  sock,             \* server side of each connection
  gone,             \* connections closed by the client
  wire,             \* unread pieces of each connection
  parts,            \* number of pieces the client has sent
  pc,               \* the read and timer chain of each session
  cleaned_up_,      \* Session::cleaned_up_
  active_count_,    \* Session::active_count_
  created,          \* history: connections for which a Session was made
  got,              \* history: bodies received on each connection
  pushed, popped,   \* values the ThreadSafeQueue has taken and given
  total_queue_drop

listen == <<acceptor_, accept, accepting>>
net == <<sock, gone, wire, parts>>
count == <<cleaned_up_, active_count_, created>>
events == <<got, pushed, popped, total_queue_drop>>
vars == <<listen, net, pc, count, events>>

Init ==
  /\ acceptor_ = "open"
  /\ accept = "armed"
  /\ accepting = NoConn
  /\ sock = [c \in Conns |-> "none"]
  /\ gone = {}
  /\ wire = [c \in Conns |-> <<>>]
  /\ parts = [c \in Conns |-> 0]
  /\ pc = [h \in Handlers |-> "none"]
  /\ cleaned_up_ = {}
  /\ active_count_ = 0
  /\ created = {}
  /\ got = [c \in Conns |-> 0]
  /\ pushed = 0 /\ popped = 0
  /\ total_queue_drop = 0

queued == pushed - popped    \* the length of the queue

Goto(h, l) == pc' = [pc EXCEPT ![h] = l]

-----------------------------------------------------------------------------
(* The clients and the consumers of the queue.                             *)

Connect(c) ==
  /\ acceptor_ = "open"
  /\ sock[c] = "none"
  /\ sock' = [sock EXCEPT ![c] = "backlog"]
  /\ UNCHANGED <<listen, gone, wire, parts, pc, count, events>>

(* Headers and bodies alternate; nothing follows an invalid header. *)
Send(c) ==
  /\ sock[c] \in {"backlog", "open"}
  /\ c \notin gone
  /\ parts[c] < 2 * MaxFrames
  /\ \E piece \in IF parts[c] % 2 = 0 THEN {"H", "X"} ELSE {"B"} :
       /\ wire' = [wire EXCEPT ![c] = Append(@, piece)]
       /\ parts' = [parts EXCEPT ![c] = IF piece = "X" THEN 2 * MaxFrames ELSE @ + 1]
  /\ UNCHANGED <<listen, sock, gone, pc, count, events>>

(* At any point, also inside a frame. *)
Disconnect(c) ==
  /\ sock[c] \in {"backlog", "open"}
  /\ c \notin gone
  /\ gone' = gone \cup {c}
  /\ UNCHANGED <<listen, sock, wire, parts, pc, count, events>>

Consume ==
  /\ queued > 0
  /\ popped' = popped + 1
  /\ UNCHANGED <<listen, net, pc, count, got, pushed, total_queue_drop>>

-----------------------------------------------------------------------------
(* Collector::start: the accept handler.                                   *)

AcceptStep(l, c) == accept' = l /\ accepting' = c

AcceptIf(c, ready) ==
  /\ acceptor_ = "open" /\ ready
  /\ accept = "armed"
  /\ sock[c] = "backlog"
  /\ sock' = [sock EXCEPT ![c] = "open"]
  /\ AcceptStep("check", c)
  /\ UNCHANGED <<acceptor_, gone, wire, parts, pc, count, events>>

(* Mutant of Accepted: waits for a free slot before it accepts. *)
AcceptsBelowLimit(c) == AcceptIf(c, active_count_ < MAX_CONNECTIONS)

(* The handler is called without an error, for a connection of the backlog. *)
Accepted(c) == AcceptIf(c, TRUE)

(* Called with an error, as it is again and again once the acceptor is     *)
(* closed: the handler logs it and calls start().                          *)
AcceptFails == accept = "armed" /\ UNCHANGED vars

(* Closes the socket, or lets it go out of scope, and calls start(). *)
Refuse ==
  /\ sock' = [sock EXCEPT ![accepting] = "closed"]
  /\ AcceptStep("armed", NoConn)

(* The early returns: too many connections, or remote_endpoint fails since *)
(* the client has already gone.                                            *)
CheckWith(full) ==
  /\ accept = "check"
  /\ \/ (full \/ accepting \in gone) /\ Refuse
     \/ ~full /\ AcceptStep("create", accepting) /\ UNCHANGED sock
  /\ UNCHANGED <<acceptor_, gone, wire, parts, pc, count, events>>

(* Mutant of CheckConnections: > instead of >=. *)
OneConnectionTooMany == CheckWith(active_count_ > MAX_CONNECTIONS)

CheckConnections == CheckWith(active_count_ >= MAX_CONNECTIONS)

(* The constructor of Session: active_count_.fetch_add(1). *)
CreateSession ==
  /\ accept = "create"
  /\ active_count_' = active_count_ + 1
  /\ created' = created \cup {accepting}
  /\ AcceptStep("start_timeout", accepting)
  /\ UNCHANGED <<acceptor_, net, pc, cleaned_up_, events>>

(* Session::start: start_timeout() ... *)
start_timeout ==
  /\ accept = "start_timeout"
  /\ Goto(<<accepting, "timer">>, "armed")
  /\ AcceptStep("start_read", accepting)
  /\ UNCHANGED <<acceptor_, net, count, events>>

(* ... and do_read_header(); then the accept handler calls start(). *)
StartRead ==
  /\ accept = "start_read"
  /\ Goto(<<accepting, "read">>, "header")
  /\ AcceptStep("armed", NoConn)
  /\ UNCHANGED <<acceptor_, net, count, events>>

(* Collector::stop, called by the signal handler. *)
stop ==
  /\ acceptor_ = "open"
  /\ acceptor_' = "closed"
  /\ sock' = [c \in Conns |-> IF sock[c] = "backlog" THEN "closed" ELSE sock[c]]
  /\ UNCHANGED <<accept, accepting, gone, wire, parts, pc, count, events>>

-----------------------------------------------------------------------------
(* The read chain of a session.                                            *)

Reading(c) == pc[<<c, "read">>] \in {"header", "body"}

(* The read that is pending at label l can complete with this piece. *)
CanRead(c, l, piece) ==
  pc[<<c, "read">>] = l /\ wire[c] # <<>> /\ Head(wire[c]) = piece

(* socket_.close().  A pending read is aborted, unless it had completed    *)
(* and its handler is about to run.                                        *)
Close(c) ==
  /\ sock' = [sock EXCEPT ![c] = "closed"]
  /\ \E n \in {0} \cup (IF Reading(c) /\ wire[c] # <<>> THEN {1} ELSE {}) :
       wire' = [wire EXCEPT ![c] = SubSeq(@, 1, n)]

(* The header handler, with a length in range: do_read_body. *)
HeaderRead(c) ==
  /\ CanRead(c, "header", "H")
  /\ wire' = [wire EXCEPT ![c] = Tail(@)]
  /\ Goto(<<c, "read">>, "body")
  /\ UNCHANGED <<listen, sock, gone, parts, count, events>>

BadLength(c, l) ==
  /\ CanRead(c, "header", "X")
  /\ Close(c)
  /\ Goto(<<c, "read">>, l)
  /\ UNCHANGED <<listen, gone, parts, count, events>>

(* Mutant of InvalidLength: returns without cleanup(). *)
NoCleanupOnBadLength(c) == BadLength(c, "done")

(* The header handler, with a length out of range: close, then cleanup.    *)
(* This close is the overload that throws; it is taken to succeed, as the  *)
(* socket is open or already closed here.                                  *)
InvalidLength(c) == BadLength(c, "cleanup")

ReadError(c, l) ==
  /\ Reading(c)
  /\ c \in gone \/ (sock[c] = "closed" /\ wire[c] = <<>>)
  /\ Goto(<<c, "read">>, l)
  /\ UNCHANGED <<listen, net, count, events>>

(* Mutant of ReadFails: logs the error and reads on. *)
ErrorReadsOn(c) == ReadError(c, "header")

(* Either handler with an error: the peer has gone or the socket was closed. *)
ReadFails(c) == ReadError(c, "cleanup")

(* The body handler: timer_.expires_after cancels a wait that has not      *)
(* expired yet (its handler is called with an error and does nothing).  No *)
(* new async_wait is started.                                              *)
BodyRead(c) ==
  /\ CanRead(c, "body", "B")
  /\ wire' = [wire EXCEPT ![c] = Tail(@)]
  /\ got' = [got EXCEPT ![c] = @ + 1]
  /\ pc' = [pc EXCEPT ![<<c, "read">>] = "push",
                      ![<<c, "timer">>] = IF @ = "armed" THEN "done" ELSE @]
  /\ UNCHANGED <<listen, sock, gone, parts, count, pushed, popped, total_queue_drop>>

PushWith(c, full, dropped) ==
  /\ pc[<<c, "read">>] = "push"
  /\ \/ ~full /\ pushed' = pushed + 1 /\ UNCHANGED total_queue_drop
     \/ full /\ total_queue_drop' = total_queue_drop + dropped /\ UNCHANGED pushed
  /\ Goto(<<c, "read">>, "header")
  /\ UNCHANGED <<listen, net, count, got, popped>>

(* Mutant of Push: a refused event is not counted. *)
DropNotCounted(c) == PushWith(c, queued >= Capacity, 0)

(* Mutant of Push: pushes into a full queue. *)
PushUnchecked(c) == PushWith(c, FALSE, 1)

(* try_push, the drop counter, and do_read_header(). *)
Push(c) == PushWith(c, queued >= Capacity, 1)

-----------------------------------------------------------------------------
(* The timer chain of a session.                                           *)

(* TIMEOUT_SECS are over: the wait is no longer cancellable. *)
Expire(c) ==
  /\ pc[<<c, "timer">>] = "armed"
  /\ Goto(<<c, "timer">>, "expired")
  /\ UNCHANGED <<listen, net, count, events>>

(* Mutant of on_timeout: does not close the socket. *)
TimeoutLeavesSocket(c) ==
  /\ pc[<<c, "timer">>] = "expired"
  /\ Goto(<<c, "timer">>, "cleanup")
  /\ UNCHANGED <<listen, net, count, events>>

(* on_timeout: socket_.close(ec), then cleanup(). *)
on_timeout(c) ==
  /\ pc[<<c, "timer">>] = "expired"
  /\ Close(c)
  /\ Goto(<<c, "timer">>, "cleanup")
  /\ UNCHANGED <<listen, gone, parts, count, events>>

CleanupWith(h, skip) ==
  /\ pc[h] = "cleanup"
  /\ cleaned_up_' = cleaned_up_ \cup {h[1]}
  /\ Goto(h, IF skip THEN "done" ELSE "fetch_sub")
  /\ UNCHANGED <<listen, net, active_count_, created, events>>

(* Mutant of cleanup: the flag is not tested. *)
CleanupUntested(h) == CleanupWith(h, FALSE)

(* cleanup: if (cleaned_up_.exchange(true)) return; *)
cleanup(h) == CleanupWith(h, h[1] \in cleaned_up_)

(* active_count_.fetch_sub(1); *)
FetchSub(h) ==
  /\ pc[h] = "fetch_sub"
  /\ active_count_' = active_count_ - 1
  /\ Goto(h, "done")
  /\ UNCHANGED <<listen, net, cleaned_up_, created, events>>

-----------------------------------------------------------------------------
AcceptHandler ==
  \/ \E c \in Conns : Accepted(c)
  \/ CheckConnections \/ CreateSession \/ start_timeout \/ StartRead

ReadHandler(c) ==
  HeaderRead(c) \/ InvalidLength(c) \/ ReadFails(c) \/ BodyRead(c) \/ Push(c)

Cleanup(h) == cleanup(h) \/ FetchSub(h)

Next ==
  \/ \E c \in Conns :
       \/ Connect(c) \/ Send(c) \/ Disconnect(c)
       \/ ReadHandler(c) \/ Expire(c) \/ on_timeout(c)
  \/ \E h \in Handlers : Cleanup(h)
  \/ AcceptHandler \/ AcceptFails
  \/ stop
  \/ Consume

Spec == Init /\ [][Next]_vars

(***************************************************************************)
(* The io threads run every handler that is ready and a timer that is      *)
(* armed expires.  Clients, consumers and the signal promise nothing.      *)
(***************************************************************************)
Fairness ==
  /\ WF_vars(AcceptHandler)
  /\ \A c \in Conns :
       WF_vars(ReadHandler(c)) /\ WF_vars(Expire(c)) /\ WF_vars(on_timeout(c))
  /\ \A h \in Handlers : WF_vars(Cleanup(h))

FairSpec == Spec /\ Fairness

-----------------------------------------------------------------------------
Labels == {"none", "armed", "expired", "header", "body", "push", "cleanup",
           "fetch_sub", "done"}

TypeOK ==
  /\ acceptor_ \in {"open", "closed"}
  /\ accept \in {"armed", "check", "create", "start_timeout", "start_read"}
  /\ accepting \in Conns \cup {NoConn}
  /\ sock \in [Conns -> {"none", "backlog", "open", "closed"}]
  /\ gone \subseteq Conns
  /\ wire \in [Conns -> Seq({"H", "X", "B"})]
  /\ parts \in [Conns -> 0..(2 * MaxFrames)]
  /\ pc \in [Handlers -> Labels]
  /\ cleaned_up_ \subseteq Conns
  /\ active_count_ \in Int
  /\ created \subseteq Conns
  /\ got \in [Conns -> Nat]
  /\ pushed \in Nat /\ popped \in Nat
  /\ queued \in 0..Capacity
  /\ total_queue_drop \in Nat

(* Some chain, or the accept handler, still holds a shared_ptr to it. *)
Alive(c) ==
  \/ \E k \in Chains : pc[<<c, k>>] \notin {"none", "done"}
  \/ c = accepting

(***************************************************************************)
(* active_count_ is the number of sessions not yet cleaned up: each is     *)
(* subtracted exactly once, although the read handler and the timer        *)
(* handler of a session may run cleanup at the same time.                  *)
(***************************************************************************)
ActiveCountExact ==
  active_count_ = Cardinality(created \ cleaned_up_)
                    + Cardinality({h \in Handlers : pc[h] = "fetch_sub"})

(***************************************************************************)
(* The limit holds although the accept handler tests active_count_ in one  *)
(* step and adds to it in another.                                         *)
(***************************************************************************)
WithinMaxConnections == active_count_ <= MAX_CONNECTIONS

(***************************************************************************)
(* No slot leaks: a Session that nothing refers to any more has been       *)
(* cleaned up, whichever error, bad length or timeout ended it.            *)
(***************************************************************************)
ReleasedIsCleanedUp == \A c \in created : ~Alive(c) => c \in cleaned_up_

(* The events read from the sockets: the first, second, ... of each. *)
EventsRead == UNION {{c} \X (1..got[c]) : c \in Conns}

(***************************************************************************)
(* Each event read from a socket went into the queue or was counted in     *)
(* total_queue_drop, over all sessions and however full the queue was.     *)
(***************************************************************************)
EventsAccounted ==
  Cardinality(EventsRead) =
    pushed + total_queue_drop + Cardinality({c \in Conns : pc[<<c, "read">>] = "push"})

(***************************************************************************)
(* A session whose client has gone, or whose socket the server closed, is  *)
(* released with its socket: neither chain keeps it for ever.              *)
(***************************************************************************)
EndedIsReleased ==
  \A c \in Conns : c \in created /\ (c \in gone \/ sock[c] = "closed") ~> ~Alive(c)

(***************************************************************************)
(* The accept chain never dies: a connection in the backlog is accepted,   *)
(* refused, or closed with the acceptor, whatever became of earlier ones.  *)
(***************************************************************************)
BacklogServed == \A c \in Conns : sock[c] = "backlog" ~> sock[c] # "backlog"

(***************************************************************************)
(* A client that never completes a frame cannot keep its session: the      *)
(* timer started by Session::start ends it.                                *)
(***************************************************************************)
SilentIsClosed ==
  \A c \in Conns : c \in created /\ got[c] = 0 ~> got[c] > 0 \/ ~Alive(c)

-----------------------------------------------------------------------------
(* What the repository says of this component and the code does not keep.  *)

Idle(c) == Reading(c) /\ wire[c] = <<>> /\ c \notin gone

(***************************************************************************)
(* README.md:32, "5s idle timeout": a session that waits for input does    *)
(* not wait for ever; either input arrives or it is closed.                *)
(***************************************************************************)
IdleTimeout == \A c \in Conns : Idle(c) ~> ~Idle(c)
=============================================================================
