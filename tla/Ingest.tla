-------------------------------- MODULE Ingest --------------------------------
(***************************************************************************)
(* The way of an event from the bytes of one connection to its verdict:    *)
(* the framing of Session::do_read_header and do_read_body, the wait in    *)
(* the queue, ParseFromString and validate_event.  The life of sessions,   *)
(* a full queue (the event is dropped and counted) and the concurrency of  *)
(* workers are the business of Collector and Processor: the queue has room *)
(* here.                                                                   *)
(*                                                                         *)
(* The client sends frames as the repository's clients do: a header of     *)
(* four little-endian digits (bytes: base 256) and the serialized event.   *)
(* The bytes of frame k's body are all written k, which tells them apart   *)
(* from those of any other frame.  async_read completes when it has all    *)
(* the bytes it asked for, however TCP cuts them.                          *)
(***************************************************************************)
EXTENDS Validation, Sequences

CONSTANTS
  Radix,            \* 256
  MAX_LEN,          \* 102400
  Shapes,           \* the sizes of the fields of the events that are sent
  Offsets,          \* their timestamps, relative to the client's clock
  MaxFrames,        \* bound: frames sent
  FirstClock, LastClock  \* bounds of the clock

VARIABLES
  clock,
  sent,             \* history: the frames, [evt, at]
  unread,           \* bytes sent and not yet read
  body_,
  reading,          \* "header" or "body": the pending read; or "closed"
  queue_,           \* bodies pushed and not yet popped
  judged            \* history: what became of each popped body

vars == <<clock, sent, unread, body_, reading, queue_, judged>>

Init ==
  /\ clock = FirstClock
  /\ sent = <<>>
  /\ unread = <<>>
  /\ body_ = <<>>
  /\ reading = "header"
  /\ queue_ = <<>>
  /\ judged = <<>>

-----------------------------------------------------------------------------
(* The client, protobuf and the clock.                                     *)

Field(size) == IF size = 0 THEN 0 ELSE size + 1

(* proto3 leaves out a field that has its default value, so that an empty  *)
(* event has no bytes at all.                                              *)
SerializedSize(evt) ==
  Field(evt.event_id) + Field(evt.user_id) + Field(evt.event_type)
    + Field(evt.platform) + Field(evt.payload) + (IF evt.ts = 0 THEN 0 ELSE 1)

(* Protobuf limits a message to 2 GB, so that four bytes hold its length. *)
ASSUME IngestAssumption ==
  /\ Radix \in Nat \ {0} /\ MAX_LEN \in Nat
  /\ Shapes \subseteq [event_id : Nat, user_id : Nat, event_type : Nat, platform : Nat,
                       payload : Nat, ts : Int]
  /\ \A shape \in Shapes :
       SerializedSize([shape EXCEPT !.ts = 1]) < Radix * (Radix * (Radix * Radix))
  /\ Offsets \subseteq Int
  /\ MaxFrames \in Nat /\ FirstClock \in Nat /\ LastClock \in Nat

(* The little-endian digits of a length. *)
Header(len) ==
  LET q == len \div Radix
      r == q \div Radix
      s == r \div Radix
  IN  <<len % Radix, q % Radix, r % Radix, s % Radix>>

Body(k) == [i \in 1..SerializedSize(sent[k].evt) |-> k]

Send ==
  /\ Len(sent) < MaxFrames
  /\ \E shape \in Shapes, ts \in {0} \cup {clock + d : d \in Offsets} :
       LET evt == [shape EXCEPT !.ts = ts]
           len == SerializedSize(evt)
       IN  /\ sent' = Append(sent, [evt |-> evt, at |-> clock])
           /\ unread' = unread \o Header(len) \o [i \in 1..len |-> Len(sent) + 1]
  /\ UNCHANGED <<clock, body_, reading, queue_, judged>>

Tick ==
  /\ clock < LastClock
  /\ clock' = clock + 1
  /\ UNCHANGED <<sent, unread, body_, reading, queue_, judged>>

-----------------------------------------------------------------------------
(* The session.                                                            *)

(* Mutant of Length: big-endian. *)
BigEndian(h) == h[4] + Radix * (h[3] + Radix * (h[2] + Radix * h[1]))

(* uint32_t len: byte i of the header counts Radix ^ (i - 1). *)
Length(h) == h[1] + Radix * (h[2] + Radix * (h[3] + Radix * h[4]))

(* Mutant of LengthOk: <= instead of <. *)
LimitInclusive(len) == len > 0 /\ len <= MAX_LEN

LengthOk(len) == len > 0 /\ len < MAX_LEN

Consume(n) == unread' = SubSeq(unread, n + 1, Len(unread))

(* Mutant of Resized: the buffer only grows. *)
OnlyGrows(len) ==
  IF Len(body_) >= len THEN body_ ELSE body_ \o [i \in 1..(len - Len(body_)) |-> 0]

(* body_.resize(len), which keeps what is there and fills up with zeros. *)
Resized(len) == [i \in 1..len |-> IF i <= Len(body_) THEN body_[i] ELSE 0]

(* The handler of the header. *)
ReadHeader ==
  /\ reading = "header"
  /\ Len(unread) >= 4
  /\ LET len == Length(SubSeq(unread, 1, 4))
     IN  \/ LengthOk(len) /\ body_' = Resized(len) /\ reading' = "body"
         \/ ~LengthOk(len) /\ reading' = "closed" /\ UNCHANGED body_
  /\ Consume(4)
  /\ UNCHANGED <<clock, sent, queue_, judged>>

(* The handler of the body: a string of body_.size() bytes is pushed. *)
ReadBody ==
  /\ reading = "body"
  /\ Len(unread) >= Len(body_)
  /\ body_' = SubSeq(unread, 1, Len(body_))
  /\ queue_' = Append(queue_, body_')
  /\ Consume(Len(body_))
  /\ reading' = "header"
  /\ UNCHANGED <<clock, sent, judged>>

-----------------------------------------------------------------------------
(* A worker.                                                               *)

(* ParseFromString gives the event of frame k from the body of frame k. *)
Parses(body, k) == body = Body(k)

(* Pops a body, parses and validates it. *)
Judge ==
  /\ queue_ # <<>>
  /\ LET body == Head(queue_)
         verdict == IF \E k \in 1..Len(sent) : Parses(body, k) /\ validate_event(sent[k].evt, clock)
                    THEN "valid"
                    ELSE IF \E k \in 1..Len(sent) : Parses(body, k) THEN "invalid"
                    ELSE "parse_fail"
     IN  judged' = Append(judged, [body |-> body, verdict |-> verdict, at |-> clock])
  /\ queue_' = Tail(queue_)
  /\ UNCHANGED <<clock, sent, unread, body_, reading>>

Quiet == Len(sent) = MaxFrames /\ clock = LastClock /\ UNCHANGED vars

Next == Send \/ Tick \/ ReadHeader \/ ReadBody \/ Judge \/ Quiet

Spec == Init /\ [][Next]_vars

(* Handlers and workers that can run do run. *)
FairSpec == Spec /\ WF_vars(ReadHeader) /\ WF_vars(ReadBody) /\ WF_vars(Judge)

-----------------------------------------------------------------------------
Delivered == [i \in 1..Len(judged) |-> judged[i].body] \o queue_

(***************************************************************************)
(* The session stays in step with the client: the bodies it pushes are     *)
(* those of the frames sent, one each, in order, with no byte of another   *)
(* frame or of the buffer's earlier contents.                              *)
(***************************************************************************)
InStep ==
  /\ Len(Delivered) <= Len(sent)
  /\ \A k \in 1..Len(Delivered) : Delivered[k] = Body(k)

(***************************************************************************)
(* The session is closed for its length test only at a frame that is empty *)
(* or reaches MAX_LEN, and no such frame gets past it.                     *)
(***************************************************************************)
ClosedForCause ==
  LET ok(k) == SerializedSize(sent[k].evt) \in 1..(MAX_LEN - 1)
  IN  /\ reading = "closed" => Len(Delivered) < Len(sent) /\ ~ok(Len(Delivered) + 1)
      /\ \A k \in 1..Len(Delivered) : ok(k)

(***************************************************************************)
(* The time at which a frame was sent and the true clock at its verdict    *)
(* explain the verdict: nothing passes that is more than MAX_AHEAD before  *)
(* its time or a second over MAX_AGE, and an event that was in order when  *)
(* it was sent fails only by growing too old in the queue, or within the   *)
(* last second of MAX_AHEAD, since the code's clock is late by less than   *)
(* a second.                                                               *)
(***************************************************************************)
VerdictExplained ==
  \A k \in 1..Len(judged) :
    LET evt == sent[k].evt
        at == judged[k].at
        inOrder == /\ {evt.user_id, evt.event_type} \subseteq 1..MAX_NAME
                   /\ evt.platform \in 0..MAX_PLATFORM /\ evt.payload \in 0..MAX_PAYLOAD
                   /\ evt.ts > 0
    IN  /\ judged[k].verdict = "valid" =>
             inOrder /\ evt.ts \in (at - MAX_AGE - SECOND + 1)..(at + MAX_AHEAD)
        /\ judged[k].verdict # "valid" =>
             \/ ~inOrder
             \/ evt.ts < at - MAX_AGE
             \/ evt.ts > sent[k].at + MAX_AHEAD - SECOND

(***************************************************************************)
(* Every frame that was sent is judged, unless the session was closed at   *)
(* an earlier frame or at this one: what was pushed before that is judged. *)
(***************************************************************************)
EveryFrameJudged ==
  \A k \in 1..MaxFrames :
    Len(sent) >= k ~> Len(judged) >= k \/ (reading = "closed" /\ Len(Delivered) < k)
===============================================================================
