----------------------------- MODULE IngestProofs -----------------------------
(***************************************************************************)
(* Proofs about Ingest for any number of frames, any shapes of events, any *)
(* limits and any base of the digits.                                      *)
(***************************************************************************)
EXTENDS Ingest, SequenceTheorems, TLAPS

Evts == [event_id : Nat, user_id : Nat, event_type : Nat, platform : Nat,
         payload : Nat, ts : Int]

(* Four digits hold every length below this. *)
Digits4 == Radix * (Radix * (Radix * Radix))

Typed ==
  /\ clock \in Nat
  /\ sent \in Seq([evt : Evts, at : Nat])
  /\ unread \in Seq(Nat)
  /\ body_ \in Seq(Nat)
  /\ reading \in {"header", "body", "closed"}
  /\ queue_ \in Seq(Seq(Nat))
  /\ judged \in Seq([body : Seq(Nat), verdict : {"valid", "invalid", "parse_fail"}, at : Nat])

Size(k) == SerializedSize(sent[k].evt)

Ok(k) == Size(k) \in 1..(MAX_LEN - 1)

(* The frames sent have a length and came from the past. *)
SentInv == \A k \in 1..Len(sent) : Size(k) \in Nat /\ Size(k) < Digits4 /\ sent[k].at <= clock

(* The number of frames that were read completely. *)
Done == Len(judged) + Len(queue_)

(* They are the first ones, judged or queued in their order. *)
DoneInv ==
  /\ Done <= Len(sent)
  /\ \A k \in 1..Done : Ok(k)
  /\ \A i \in 1..Len(judged) : judged[i].body = Body(i)
  /\ \A i \in 1..Len(queue_) : queue_[i] = Body(Len(judged) + i)

(* What the session knows of the frame it is reading. *)
ReadingInv ==
  /\ reading # "header" => Done < Len(sent)
  /\ reading = "body" => Ok(Done + 1) /\ Len(body_) = Size(Done + 1)
  /\ reading = "closed" => ~Ok(Done + 1)

(***************************************************************************)
(* The frames d + 1 .. n, with bodies of the sizes sz, one after the other *)
(* in u bytes: off gives the number of bytes before each of them.  It is   *)
(* negative for a first frame of which some bytes are gone.                *)
(***************************************************************************)
Starts(off, d, first) == off[d + 1] = first

Ends(off, n, u) == off[n + 1] = u

Ordered(off, d, n) == \A j, k \in (d + 1)..(n + 1) : j < k => off[j] + 4 <= off[k]

Spaced(off, d, n, sz) == \A k \in (d + 1)..n : off[k + 1] = off[k] + 4 + sz[k]

Positions(off, d, n, sz, first, u) ==
  Starts(off, d, first) /\ Ends(off, n, u) /\ Ordered(off, d, n) /\ Spaced(off, d, n, sz)

(* The bytes b at these positions are those of the frames. *)
Headers(off, d, n, sz, b) ==
  \A k \in (d + 1)..n : off[k] >= 0 => \A i \in 1..4 : b[off[k] + i] = Header(sz[k])[i]

Bodies(off, d, n, sz, b) ==
  \A k \in (d + 1)..n : \A i \in 1..sz[k] : b[off[k] + 4 + i] = k

Frames(d, n, sz, first, b) ==
  \E off \in [1..(n + 1) -> Int] :
    /\ Positions(off, d, n, sz, first, Len(b))
    /\ Headers(off, d, n, sz, b)
    /\ Bodies(off, d, n, sz, b)

Sizes == [k \in 1..Len(sent) |-> Size(k)]

(* The unread bytes are the frames not yet read; the header of the frame   *)
(* whose body is being read is gone already.                               *)
Framing == Frames(Done, Len(sent), Sizes, IF reading = "header" THEN 0 ELSE -4, unread)

(* A verdict is that of the event in the frame, at the time of the verdict. *)
VerdictInv ==
  \A k \in 1..Len(judged) :
    /\ sent[k].at <= judged[k].at
    /\ judged[k].verdict = IF validate_event(sent[k].evt, judged[k].at) THEN "valid" ELSE "invalid"

Inv == Typed /\ SentInv /\ DoneInv /\ ReadingInv /\ Framing /\ VerdictInv

-----------------------------------------------------------------------------
(* Arithmetic.                                                             *)

LEMMA Division ==
  ASSUME NEW a \in Nat, NEW r \in Nat \ {0}
  PROVE  /\ a \div r \in Nat /\ a % r \in Nat /\ a % r < r
         /\ a = r * (a \div r) + (a % r)
OBVIOUS

LEMMA QuotientBelow ==
  ASSUME NEW a \in Nat, NEW r \in Nat \ {0}, NEW b \in Nat, a < r * b
  PROVE  a \div r < b
<1> DEFINE q == a \div r
<1>1. q \in Nat /\ a % r \in Nat /\ a = r * q + (a % r)
  BY Division
<1> HIDE DEF q
<1> SUFFICES ASSUME q >= b PROVE FALSE
  BY <1>1 DEF q
<1>2. r * q >= r * b
  BY <1>1
<1> QED
  BY <1>1, <1>2

(* Four digits give back a length that they can hold. *)
LEMMA HeaderLength ==
  ASSUME NEW len \in Nat, len < Digits4
  PROVE  /\ Header(len) \in Seq(Nat) /\ Len(Header(len)) = 4
         /\ Length(Header(len)) = len
<1>0. Radix \in Nat \ {0} /\ Radix * Radix \in Nat /\ Radix * (Radix * Radix) \in Nat
  BY IngestAssumption
<1> DEFINE q == len \div Radix
           r == q \div Radix
           s == r \div Radix
<1>1. q \in Nat /\ len % Radix \in Nat /\ len = Radix * q + (len % Radix)
      /\ q < Radix * (Radix * Radix)
  BY <1>0, Division, QuotientBelow DEF Digits4
<1>2. r \in Nat /\ q % Radix \in Nat /\ q = Radix * r + (q % Radix) /\ r < Radix * Radix
  BY <1>0, <1>1, Division, QuotientBelow
<1>3. s \in Nat /\ r % Radix \in Nat /\ r = Radix * s + (r % Radix) /\ s < Radix
  BY <1>0, <1>2, Division, QuotientBelow
<1>4. s % Radix = s
  BY <1>0, <1>3
<1>5. Header(len) = <<len % Radix, q % Radix, r % Radix, s % Radix>>
  BY DEF Header
<1> HIDE DEF q, r, s
<1>6. Header(len) \in Seq(Nat) /\ Len(Header(len)) = 4
  BY <1>1, <1>2, <1>3, <1>4, <1>5
<1>7. Length(Header(len)) = (len % Radix) + Radix * ((q % Radix) + Radix * ((r % Radix) + Radix * s))
  BY <1>4, <1>5 DEF Length
<1>8. (r % Radix) + Radix * s = r
  BY <1>0, <1>3
<1>9. (q % Radix) + Radix * r = q
  BY <1>0, <1>2
<1>10. Length(Header(len)) = (len % Radix) + Radix * q
  BY <1>7, <1>8, <1>9
<1>11. (len % Radix) + Radix * q = len
  BY <1>0, <1>1
<1> QED
  BY <1>6, <1>10, <1>11

(* The clock of the code is late by less than a second. *)
LEMMA LateClock ==
  ASSUME NEW c \in Nat
  PROVE  Now(c) \in Int /\ Now(c) <= c /\ c < Now(c) + SECOND
<1>1. /\ SECOND \in Nat \ {0} /\ c \div SECOND \in Nat /\ c % SECOND \in Nat
      /\ c % SECOND < SECOND /\ c = SECOND * (c \div SECOND) + (c % SECOND)
  BY ValidationAssumption, Division
<1>2. Now(c) = SECOND * (c \div SECOND)
  BY <1>1 DEF Now
<1> DEFINE n == SECOND * (c \div SECOND)
<1>3. n \in Int
  BY <1>1
<1> HIDE DEF n
<1> QED
  BY <1>1, <1>2, <1>3 DEF n

LEMMA SizeType == \A evt \in Evts : SerializedSize(evt) \in Nat
BY DEF Evts, SerializedSize, Field

(* Sequences of bytes. *)
LEMMA Rest ==
  ASSUME NEW s \in Seq(Nat), NEW n \in Nat, n <= Len(s)
  PROVE  /\ SubSeq(s, n + 1, Len(s)) \in Seq(Nat)
         /\ Len(SubSeq(s, n + 1, Len(s))) = Len(s) - n
         /\ \A i \in 1..(Len(s) - n) : SubSeq(s, n + 1, Len(s))[i] = s[n + i]
OBVIOUS

LEMMA Front ==
  ASSUME NEW s \in Seq(Nat), NEW n \in Nat, n <= Len(s)
  PROVE  /\ SubSeq(s, 1, n) \in Seq(Nat) /\ Len(SubSeq(s, 1, n)) = n
         /\ \A i \in 1..n : SubSeq(s, 1, n)[i] = s[i]
OBVIOUS

LEMMA Joined ==
  ASSUME NEW s \in Seq(Nat), NEW t \in Seq(Nat)
  PROVE  /\ s \o t \in Seq(Nat) /\ Len(s \o t) = Len(s) + Len(t)
         /\ \A i \in 1..Len(s) : (s \o t)[i] = s[i]
         /\ \A i \in 1..Len(t) : (s \o t)[Len(s) + i] = t[i]
OBVIOUS

LEMMA Repeated ==
  ASSUME NEW n \in Nat, NEW v \in Nat
  PROVE  /\ [i \in 1..n |-> v] \in Seq(Nat) /\ Len([i \in 1..n |-> v]) = n
         /\ \A i \in 1..n : [j \in 1..n |-> v][i] = v
OBVIOUS

-----------------------------------------------------------------------------
(* What becomes of a stretch of frames.                                    *)

LEMMA Bounds ==
  ASSUME NEW n \in Nat, NEW d \in 0..n, NEW u \in Nat, NEW sz \in [1..n -> Nat],
         NEW off \in [1..(n + 1) -> Int], NEW first \in Int, first >= -4,
         Positions(off, d, n, sz, first, u), NEW k \in (d + 1)..n
  PROVE  /\ off[k] \in Int /\ sz[k] \in Nat
         /\ off[k] >= -4 /\ off[k] + 4 + sz[k] <= u
<1>1. d + 1 \in (d + 1)..(n + 1) /\ k \in (d + 1)..(n + 1) /\ k + 1 \in (d + 1)..(n + 1)
      /\ n + 1 \in (d + 1)..(n + 1) /\ k \in 1..n
  OBVIOUS
<1>2. \A i \in (d + 1)..(n + 1) : off[i] \in Int
  OBVIOUS
<1>3. off[k] \in Int /\ off[k + 1] \in Int /\ sz[k] \in Nat
  BY <1>1, <1>2
<1>4. off[d + 1] = first /\ off[n + 1] = u /\ off[k + 1] = off[k] + 4 + sz[k]
  BY DEF Positions, Starts, Ends, Spaced
<1>5. off[k] >= -4
  <2>1. CASE k = d + 1
    BY <1>4, <2>1
  <2>2. CASE d + 1 < k
    <3>1. off[d + 1] + 4 <= off[k]
      BY <1>1, <2>2 DEF Positions, Ordered
    <3>2. PICK x \in Int : x = off[k]
      BY <1>3
    <3>3. first + 4 <= x
      BY <1>4, <3>1, <3>2
    <3>4. x >= -4
      BY ONLY <3>3, first \in Int, x \in Int, first >= -4
    <3> QED
      BY <3>2, <3>4
  <2> QED
    BY <2>1, <2>2
<1>6. off[k + 1] <= u
  <2>1. CASE k = n
    BY <1>4, <2>1
  <2>2. CASE k < n
    <3>1. off[k + 1] + 4 <= off[n + 1]
      BY <1>1, <2>2 DEF Positions, Ordered
    <3> QED
      BY <1>3, <1>4, <3>1
  <2> QED
    BY <2>1, <2>2
<1> QED
  BY <1>3, <1>4, <1>5, <1>6

(* Where the bytes of a frame are. *)
LEMMA Inside ==
  ASSUME NEW x \in Int, NEW z \in Nat, NEW u \in Nat, x >= -4, x + 4 + z <= u
  PROVE  /\ x >= 0 => \A i \in 1..4 : x + i \in 1..u
         /\ \A i \in 1..z : x + 4 + i \in 1..u
OBVIOUS

(* Bytes behind a stretch of frames do not disturb it. *)
LEMMA MoreBytes ==
  ASSUME NEW n \in Nat, NEW d \in 0..n, NEW u \in Nat, NEW sz \in [1..n -> Nat],
         NEW off \in [1..(n + 1) -> Int], NEW first \in Int, first >= -4, NEW b, NEW c,
         Positions(off, d, n, sz, first, u), \A i \in 1..u : c[i] = b[i],
         Headers(off, d, n, sz, b), Bodies(off, d, n, sz, b)
  PROVE  Headers(off, d, n, sz, c) /\ Bodies(off, d, n, sz, c)
<1>1. ASSUME NEW k \in (d + 1)..n
      PROVE  /\ off[k] >= 0 => \A i \in 1..4 : c[off[k] + i] = Header(sz[k])[i]
             /\ \A i \in 1..sz[k] : c[off[k] + 4 + i] = k
  <2>1. /\ off[k] >= 0 => \A i \in 1..4 : off[k] + i \in 1..u
        /\ \A i \in 1..sz[k] : off[k] + 4 + i \in 1..u
    BY Bounds, Inside
  <2>2. off[k] >= 0 => \A i \in 1..4 : b[off[k] + i] = Header(sz[k])[i]
    BY DEF Headers
  <2>3. \A i \in 1..sz[k] : b[off[k] + 4 + i] = k
    BY DEF Bodies
  <2> QED
    BY <2>1, <2>2, <2>3
<1> QED
  BY <1>1 DEF Headers, Bodies

(* A frame in a sequence of bytes of which the first m are taken away. *)
LEMMA Moved ==
  ASSUME NEW x \in Int, NEW y \in Int, NEW m \in Nat, NEW z \in Nat, NEW v \in Nat,
         y = x - m, y >= -4, y + 4 + z <= v,
         NEW b, NEW c, \A i \in 1..v : c[i] = b[m + i]
  PROVE  /\ y >= 0 => x >= 0 /\ \A i \in 1..4 : c[y + i] = b[x + i]
         /\ \A i \in 1..z : c[y + 4 + i] = b[x + 4 + i]
<1>1. ASSUME NEW i \in 1..4, y >= 0
      PROVE  c[y + i] = b[x + i]
  <2>1. y + i \in 1..v /\ m + (y + i) = x + i
    BY <1>1
  <2> QED
    BY <2>1
<1>2. ASSUME NEW i \in 1..z
      PROVE  c[y + 4 + i] = b[x + 4 + i]
  <2>1. y + 4 + i \in 1..v /\ m + (y + 4 + i) = x + 4 + i
    OBVIOUS
  <2> QED
    BY <2>1
<1>3. y >= 0 => x >= 0
  OBVIOUS
<1> QED
  BY <1>1, <1>2, <1>3

(* Bytes taken from the front only move the frames. *)
Cut(off, n, m) == [k \in 1..(n + 1) |-> off[k] - m]

LEMMA FewerBytes ==
  ASSUME NEW n \in Nat, NEW d \in 0..n, NEW e \in d..n, NEW u \in Nat, NEW m \in 0..u,
         NEW sz \in [1..n -> Nat], NEW off \in [1..(n + 1) -> Int], NEW first \in Int, first >= -4,
         Positions(Cut(off, n, m), e, n, sz, first, u - m),
         NEW b, NEW c, \A i \in 1..(u - m) : c[i] = b[m + i],
         Headers(off, d, n, sz, b), Bodies(off, d, n, sz, b)
  PROVE  Headers(Cut(off, n, m), e, n, sz, c) /\ Bodies(Cut(off, n, m), e, n, sz, c)
<1> DEFINE ct == Cut(off, n, m)
<1>0. ct \in [1..(n + 1) -> Int] /\ u - m \in Nat /\ e \in 0..n /\ m \in Nat
      /\ \A k \in 1..(n + 1) : ct[k] = off[k] - m /\ off[k] \in Int
  <2>1. u - m \in Nat /\ e \in 0..n /\ m \in Nat
    OBVIOUS
  <2>2. \A k \in 1..(n + 1) : off[k] \in Int
    OBVIOUS
  <2>3. ct = [k \in 1..(n + 1) |-> off[k] - m]
    BY DEF Cut
  <2>4. \A k \in 1..(n + 1) : off[k] - m \in Int
    BY <2>1, <2>2
  <2> HIDE DEF ct
  <2> QED
    BY <2>1, <2>2, <2>3, <2>4
<1>a. Positions(ct, e, n, sz, first, u - m)
  OBVIOUS
<1> HIDE DEF ct
<1>1. ASSUME NEW k \in (e + 1)..n
      PROVE  /\ ct[k] >= 0 => \A i \in 1..4 : c[ct[k] + i] = Header(sz[k])[i]
             /\ \A i \in 1..sz[k] : c[ct[k] + 4 + i] = k
  <2>0. k \in (d + 1)..n /\ k \in 1..n /\ ct[k] = off[k] - m /\ off[k] \in Int /\ ct[k] \in Int
    <3>1. k \in (d + 1)..n /\ k \in 1..n /\ k \in 1..(n + 1)
      OBVIOUS
    <3>2. ct[k] = off[k] - m /\ off[k] \in Int /\ ct[k] \in Int
      BY <1>0, <3>1
    <3> QED
      BY <3>1, <3>2
  <2>a. sz[k] \in Nat /\ ct[k] >= -4 /\ ct[k] + 4 + sz[k] <= u - m
    BY <1>0, <1>a, Bounds
  <2>1. /\ ct[k] >= 0 => off[k] >= 0 /\ \A i \in 1..4 : c[ct[k] + i] = b[off[k] + i]
        /\ \A i \in 1..sz[k] : c[ct[k] + 4 + i] = b[off[k] + 4 + i]
    <3>1. PICK x \in Int : x = off[k]
      BY <2>0
    <3>2. PICK y \in Int : y = ct[k]
      BY <2>0
    <3>3. PICK z \in Nat : z = sz[k]
      BY <2>a
    <3>4. PICK v \in Nat : v = u - m
      BY <1>0
    <3>5. y = x - m /\ y >= -4 /\ y + 4 + z <= v /\ m \in Nat
      BY <1>0, <2>0, <2>a, <3>1, <3>2, <3>3, <3>4
    <3>6. \A i \in 1..v : c[i] = b[m + i]
      BY <3>4
    <3>7. /\ y >= 0 => x >= 0 /\ \A i \in 1..4 : c[y + i] = b[x + i]
          /\ \A i \in 1..z : c[y + 4 + i] = b[x + 4 + i]
      BY ONLY <3>5, <3>6, Moved
    <3> QED
      BY ONLY <3>1, <3>2, <3>3, <3>7
  <2>2. off[k] >= 0 => \A i \in 1..4 : b[off[k] + i] = Header(sz[k])[i]
    BY <2>0 DEF Headers
  <2>3. \A i \in 1..sz[k] : b[off[k] + 4 + i] = k
    BY <2>0 DEF Bodies
  <2> QED
    BY <2>1, <2>2, <2>3
<1> QED
  BY <1>1 DEF Headers, Bodies, ct

(* The positions of the frames from e + 1 on. *)
LEMMA CutPositions ==
  ASSUME NEW n \in Nat, NEW d \in 0..n, NEW e \in d..n, NEW u \in Nat, NEW m \in Nat,
         NEW sz \in [1..n -> Nat], NEW off \in [1..(n + 1) -> Int], NEW first,
         Positions(off, d, n, sz, first, u)
  PROVE  /\ Cut(off, n, m) \in [1..(n + 1) -> Int]
         /\ Positions(Cut(off, n, m), e, n, sz, off[e + 1] - m, u - m)
<1> DEFINE ct == Cut(off, n, m)
<1>1. /\ ct \in [1..(n + 1) -> Int]
      /\ \A k \in 1..(n + 1) : ct[k] = off[k] - m /\ off[k] \in Int
  BY DEF Cut
<1> HIDE DEF ct
<1>2. Starts(ct, e, off[e + 1] - m)
  BY <1>1 DEF Starts
<1>3. Ends(ct, n, u - m)
  BY <1>1 DEF Positions, Ends
<1>4. ASSUME NEW j \in (e + 1)..(n + 1), NEW k \in (e + 1)..(n + 1), j < k
      PROVE  ct[j] + 4 <= ct[k]
  <2>1. off[j] + 4 <= off[k]
    <3>1. j \in (d + 1)..(n + 1) /\ k \in (d + 1)..(n + 1)
      OBVIOUS
    <3>2. Ordered(off, d, n)
      BY DEF Positions
    <3> QED
      BY ONLY <1>4, <3>1, <3>2 DEF Ordered
  <2>2. ct[j] = off[j] - m /\ off[j] \in Int /\ ct[k] = off[k] - m /\ off[k] \in Int
    BY <1>1
  <2> QED
    BY ONLY <2>1, <2>2, m \in Nat
<1>5. ASSUME NEW k \in (e + 1)..n
      PROVE  ct[k + 1] = ct[k] + 4 + sz[k]
  <2>1. off[k + 1] = off[k] + 4 + sz[k]
    BY DEF Positions, Spaced
  <2>2. /\ ct[k] = off[k] - m /\ off[k] \in Int /\ ct[k + 1] = off[k + 1] - m
        /\ off[k + 1] \in Int /\ sz[k] \in Nat
    <3>1. k \in 1..(n + 1) /\ k + 1 \in 1..(n + 1) /\ k \in 1..n
      OBVIOUS
    <3> QED
      BY <1>1, <3>1
  <2>3. PICK x \in Int, y \in Int, z \in Nat : x = off[k] /\ y = off[k + 1] /\ z = sz[k]
    BY <2>2
  <2>4. y = x + 4 + z
    BY ONLY <2>1, <2>3
  <2>5. y - m = (x - m) + 4 + z
    BY ONLY <2>4, m \in Nat, x \in Int, z \in Nat
  <2> QED
    BY <2>2, <2>3, <2>5
<1> QED
  BY <1>1, <1>2, <1>3, <1>4, <1>5 DEF Positions, Ordered, Spaced, ct

(* A read of m bytes that reaches up to a point of frame e + 1. *)
LEMMA BytesTaken ==
  ASSUME NEW n \in Nat, NEW d \in 0..n, NEW e \in d..n, NEW sz \in [1..n -> Nat],
         NEW off \in [1..(n + 1) -> Int], NEW first,
         NEW b \in Seq(Nat), NEW m \in 0..Len(b), NEW next \in Int, next >= -4,
         off[e + 1] - m = next,
         Positions(off, d, n, sz, first, Len(b)),
         Headers(off, d, n, sz, b), Bodies(off, d, n, sz, b)
  PROVE  Frames(e, n, sz, next, SubSeq(b, m + 1, Len(b)))
<1>1. PICK c : c = SubSeq(b, m + 1, Len(b))
  OBVIOUS
<1>2. PICK u \in Nat : u = Len(b)
  OBVIOUS
<1>3. m \in Nat /\ m \in 0..u /\ c \in Seq(Nat) /\ Len(c) = u - m /\ \A i \in 1..(u - m) : c[i] = b[m + i]
  <2>1. m \in Nat /\ m \in 0..u /\ m <= Len(b)
    BY <1>2
  <2>2. c \in Seq(Nat) /\ Len(c) = Len(b) - m /\ \A i \in 1..(Len(b) - m) : c[i] = b[m + i]
    BY <1>1, <2>1, Rest
  <2> QED
    BY <1>2, <2>1, <2>2
<1>4. PICK ct : ct = Cut(off, n, m)
  OBVIOUS
<1>5. ct \in [1..(n + 1) -> Int] /\ Positions(ct, e, n, sz, next, u - m)
  BY <1>2, <1>3, <1>4, CutPositions
<1>6. Headers(ct, e, n, sz, c) /\ Bodies(ct, e, n, sz, c)
  BY <1>2, <1>3, <1>4, <1>5, FewerBytes
<1>7. Frames(e, n, sz, next, c)
  BY <1>3, <1>5, <1>6 DEF Frames
<1> QED
  BY <1>1, <1>7

(* Four bytes at the start of a frame are its header. *)
LEMMA HeaderTaken ==
  ASSUME NEW n \in Nat, NEW d \in 0..n, NEW sz \in [1..n -> Nat], NEW b \in Seq(Nat),
         Len(b) >= 4, Frames(d, n, sz, 0, b)
  PROVE  /\ d < n
         /\ \A i \in 1..4 : b[i] = Header(sz[d + 1])[i]
         /\ Frames(d, n, sz, -4, SubSeq(b, 5, Len(b)))
<1>1. PICK off \in [1..(n + 1) -> Int] :
        Positions(off, d, n, sz, 0, Len(b)) /\ Headers(off, d, n, sz, b) /\ Bodies(off, d, n, sz, b)
  BY DEF Frames
<1>2. off[d + 1] = 0 /\ off[n + 1] = Len(b)
  BY <1>1 DEF Positions, Starts, Ends
<1>3. d < n
  BY <1>2
<1>4. \A i \in 1..4 : b[i] = Header(sz[d + 1])[i]
  <2>1. d + 1 \in (d + 1)..n
    BY <1>3
  <2>2. PICK h : h = Header(sz[d + 1])
    OBVIOUS
  <2>3. off[d + 1] >= 0
    BY <1>2
  <2>4. \A i \in 1..4 : b[off[d + 1] + i] = h[i]
    BY <1>1, <2>1, <2>2, <2>3 DEF Headers
  <2>5. \A i \in 1..4 : b[i] = h[i]
    <3> TAKE i \in 1..4
    <3>1. off[d + 1] + i = i
      BY <1>2
    <3> QED
      BY <2>4, <3>1
  <2> QED
    BY <2>2, <2>5
<1>5. Frames(d, n, sz, -4, SubSeq(b, 4 + 1, Len(b)))
  <2>1. /\ off[d + 1] - 4 = -4 /\ 4 \in 0..Len(b) /\ -4 \in Int /\ -4 >= -4 /\ d \in d..n
    BY <1>2
  <2> QED
    BY <1>1, <2>1, BytesTaken
<1> QED
  BY <1>3, <1>4, <1>5

(* The bytes behind a header are the body. *)
LEMMA BodyTaken ==
  ASSUME NEW n \in Nat, NEW d \in 0..n, d < n, NEW sz \in [1..n -> Nat], NEW b \in Seq(Nat),
         Frames(d, n, sz, -4, b)
  PROVE  /\ sz[d + 1] <= Len(b)
         /\ \A i \in 1..sz[d + 1] : b[i] = d + 1
         /\ Frames(d + 1, n, sz, 0, SubSeq(b, sz[d + 1] + 1, Len(b)))
<1>1. PICK off \in [1..(n + 1) -> Int] :
        Positions(off, d, n, sz, -4, Len(b)) /\ Headers(off, d, n, sz, b) /\ Bodies(off, d, n, sz, b)
  BY DEF Frames
<1>2. PICK m \in Nat : m = sz[d + 1]
  OBVIOUS
<1>3. d + 1 \in (d + 1)..n /\ off[d + 1] = -4 /\ off[(d + 1) + 1] = off[d + 1] + 4 + m
  BY <1>1, <1>2 DEF Positions, Starts, Spaced
<1>4. off[(d + 1) + 1] = m
  BY <1>3
<1>5. m <= Len(b)
  <2>1. Len(b) \in Nat /\ -4 \in Int /\ -4 >= -4
    OBVIOUS
  <2>2. off[d + 1] + 4 + sz[d + 1] <= Len(b)
    BY <1>1, <1>3, <2>1, Bounds
  <2> QED
    BY <1>2, <1>3, <2>2
<1>6. \A i \in 1..m : b[i] = d + 1
  <2> TAKE i \in 1..m
  <2>1. b[off[d + 1] + 4 + i] = d + 1
    BY <1>1, <1>2, <1>3 DEF Bodies
  <2>2. off[d + 1] + 4 + i = i
    BY <1>3
  <2> QED
    BY <2>1, <2>2
<1>7. Frames(d + 1, n, sz, 0, SubSeq(b, m + 1, Len(b)))
  <2>1. off[(d + 1) + 1] - m = 0 /\ m \in 0..Len(b) /\ 0 \in Int /\ 0 >= -4 /\ d + 1 \in d..n
    BY <1>4, <1>5
  <2> QED
    BY <1>1, <2>1, BytesTaken
<1> QED
  BY <1>2, <1>5, <1>6, <1>7

(* A frame at the end. *)
LEMMA EndsLast ==
  ASSUME NEW n \in Nat, NEW d \in 0..n, NEW u \in Nat, NEW sz \in [1..n -> Nat],
         NEW off \in [1..(n + 1) -> Int], NEW first,
         Positions(off, d, n, sz, first, u), NEW j \in (d + 1)..(n + 1)
  PROVE  off[j] \in Int /\ off[j] <= u
<1>1. off[j] \in Int /\ off[n + 1] = u
  BY DEF Positions, Ends
<1>2. CASE j = n + 1
  BY <1>1, <1>2
<1>3. CASE j < n + 1
  <2>1. off[j] + 4 <= off[n + 1]
    BY <1>3 DEF Positions, Ordered
  <2> QED
    BY <1>1, <2>1
<1> QED
  BY <1>2, <1>3

LEMMA LaterEnd ==
  ASSUME NEW x \in Int, NEW u \in Nat, NEW len \in Nat, x <= u
  PROVE  x + 4 <= u + 4 + len
OBVIOUS

LEMMA PositionsExtended ==
  ASSUME NEW n \in Nat, NEW d \in 0..n, NEW u \in Nat, NEW len \in Nat,
         NEW sz \in [1..n -> Nat], NEW szx \in [1..(n + 1) -> Nat],
         \A k \in 1..n : szx[k] = sz[k], szx[n + 1] = len,
         NEW off \in [1..(n + 1) -> Int], NEW offx \in [1..(n + 2) -> Int],
         \A k \in 1..(n + 1) : offx[k] = off[k], offx[n + 2] = u + 4 + len,
         NEW first, Positions(off, d, n, sz, first, u)
  PROVE  Positions(offx, d, n + 1, szx, first, u + 4 + len)
<1>1. Starts(offx, d, first)
  BY DEF Positions, Starts
<1>2. Ends(offx, n + 1, u + 4 + len)
  BY DEF Ends
<1>3. ASSUME NEW j \in (d + 1)..(n + 2), NEW k \in (d + 1)..(n + 2), j < k
      PROVE  offx[j] + 4 <= offx[k]
  <2>1. j \in 1..(n + 1) /\ offx[j] = off[j]
    BY <1>3
  <2>2. CASE k = n + 2
    <3>1. j \in (d + 1)..(n + 1)
      BY <1>3
    <3>0. off[j] \in Int /\ off[j] <= u
      BY <3>1, EndsLast
    <3>2. off[j] + 4 <= u + 4 + len
      BY <3>0, LaterEnd
    <3> QED
      BY <2>1, <2>2, <3>2
  <2>3. CASE k # n + 2
    <3>1. j \in (d + 1)..(n + 1) /\ k \in (d + 1)..(n + 1) /\ k \in 1..(n + 1)
      BY <1>3, <2>3
    <3>2. off[j] + 4 <= off[k]
      BY <1>3, <3>1 DEF Positions, Ordered
    <3>3. offx[k] = off[k]
      BY <3>1
    <3> QED
      BY <2>1, <3>2, <3>3
  <2> QED
    BY <2>2, <2>3
<1>4. ASSUME NEW k \in (d + 1)..(n + 1)
      PROVE  offx[k + 1] = offx[k] + 4 + szx[k]
  <2>1. k \in 1..(n + 1) /\ offx[k] = off[k]
    OBVIOUS
  <2>2. CASE k = n + 1
    <3>1. off[k] = u /\ szx[k] = len /\ offx[k + 1] = u + 4 + len
      BY <2>2 DEF Positions, Ends
    <3> QED
      BY <2>1, <3>1
  <2>3. CASE k # n + 1
    <3>1. k \in (d + 1)..n /\ k \in 1..n /\ k + 1 \in 1..(n + 1)
      BY <2>3
    <3>2. off[k + 1] = off[k] + 4 + sz[k]
      BY <3>1 DEF Positions, Spaced
    <3>3. offx[k + 1] = off[k + 1] /\ szx[k] = sz[k]
      BY <3>1
    <3> QED
      BY <2>1, <3>2, <3>3
  <2> QED
    BY <2>2, <2>3
<1> QED
  BY <1>1, <1>2, <1>3, <1>4 DEF Positions, Ordered, Spaced

LEMMA FrameSent ==
  ASSUME NEW n \in Nat, NEW d \in 0..n, NEW sz \in [1..n -> Nat],
         NEW len \in Nat, len < Digits4, NEW szx \in [1..(n + 1) -> Nat],
         \A k \in 1..n : szx[k] = sz[k], szx[n + 1] = len,
         NEW first \in Int, first >= -4, NEW b \in Seq(Nat), Frames(d, n, sz, first, b)
  PROVE  /\ b \o Header(len) \o [i \in 1..len |-> n + 1] \in Seq(Nat)
         /\ Frames(d, n + 1, szx, first, b \o Header(len) \o [i \in 1..len |-> n + 1])
<1>1. PICK off \in [1..(n + 1) -> Int] :
        /\ Positions(off, d, n, sz, first, Len(b))
        /\ Headers(off, d, n, sz, b) /\ Bodies(off, d, n, sz, b)
  BY DEF Frames
<1>2. PICK u \in Nat : u = Len(b)
  OBVIOUS
<1>3. PICK h \in Seq(Nat) : h = Header(len) /\ Len(h) = 4
  BY HeaderLength
<1>4. PICK t : t = [i \in 1..len |-> n + 1]
  OBVIOUS
<1>a. t \in Seq(Nat) /\ Len(t) = len /\ \A i \in 1..len : t[i] = n + 1
  <2>1. n + 1 \in Nat
    OBVIOUS
  <2> QED
    BY ONLY <1>4, <2>1, len \in Nat, Repeated
<1>5. PICK a : a = b \o h
  OBVIOUS
<1>b. /\ a \in Seq(Nat) /\ Len(a) = u + 4
      /\ \A i \in 1..u : a[i] = b[i]
      /\ \A i \in 1..4 : a[u + i] = h[i]
  <2>1. /\ a \in Seq(Nat) /\ Len(a) = Len(b) + Len(h)
        /\ \A i \in 1..Len(b) : a[i] = b[i]
        /\ \A i \in 1..Len(h) : a[Len(b) + i] = h[i]
    BY <1>5, Joined
  <2> QED
    BY <1>2, <1>3, <2>1
<1>6. PICK c : c = a \o t
  OBVIOUS
<1>c. /\ c \in Seq(Nat) /\ Len(c) = u + 4 + len
      /\ \A i \in 1..(u + 4) : c[i] = a[i]
      /\ \A i \in 1..len : c[u + 4 + i] = t[i]
  <2>1. /\ c \in Seq(Nat) /\ Len(c) = Len(a) + Len(t)
        /\ \A i \in 1..Len(a) : c[i] = a[i]
        /\ \A i \in 1..Len(t) : c[Len(a) + i] = t[i]
    <3>1. a \in Seq(Nat) /\ t \in Seq(Nat)
      BY <1>a, <1>b
    <3> QED
      BY <1>6, <3>1, Joined
  <2> QED
    BY <1>a, <1>b, <2>1
<1>7. c = b \o Header(len) \o [i \in 1..len |-> n + 1]
  BY <1>3, <1>4, <1>5, <1>6
<1>8. \A i \in 1..u : c[i] = b[i]
  <2> TAKE i \in 1..u
  <2>1. i \in 1..(u + 4)
    OBVIOUS
  <2>2. c[i] = a[i] /\ a[i] = b[i]
    BY <1>b, <1>c, <2>1
  <2> QED
    BY <2>2
<1>9. \A i \in 1..4 : c[u + i] = Header(len)[i]
  <2> TAKE i \in 1..4
  <2>1. u + i \in 1..(u + 4)
    OBVIOUS
  <2> QED
    BY <1>3, <1>b, <1>c, <2>1
<1>10. PICK offx \in [1..(n + 2) -> Int] :
         (\A k \in 1..(n + 1) : offx[k] = off[k]) /\ offx[n + 2] = u + 4 + len
  <2> WITNESS [k \in 1..(n + 2) |-> IF k = n + 2 THEN u + 4 + len ELSE off[k]] \in [1..(n + 2) -> Int]
  <2> QED
    OBVIOUS
<1>11. Positions(offx, d, n + 1, szx, first, u + 4 + len)
  BY <1>1, <1>2, <1>10, PositionsExtended
<1>12. Headers(off, d, n, sz, c) /\ Bodies(off, d, n, sz, c)
  BY <1>1, <1>2, <1>8, MoreBytes
<1>13. off[n + 1] = u
  BY <1>1, <1>2 DEF Positions, Ends
<1>14. ASSUME NEW k \in (d + 1)..(n + 1)
       PROVE  /\ offx[k] >= 0 => \A i \in 1..4 : c[offx[k] + i] = Header(szx[k])[i]
              /\ \A i \in 1..szx[k] : c[offx[k] + 4 + i] = k
  <2>1. offx[k] = off[k]
    BY <1>10
  <2>2. CASE k = n + 1
    <3>1. offx[k] = u /\ szx[k] = len
      BY <1>13, <2>1, <2>2
    <3>2. /\ \A i \in 1..4 : c[u + i] = Header(len)[i]
          /\ \A i \in 1..len : c[u + 4 + i] = k
      BY <1>a, <1>c, <1>9, <2>2
    <3> QED
      BY <3>1, <3>2
  <2>3. CASE k # n + 1
    <3>1. k \in (d + 1)..n /\ szx[k] = sz[k]
      BY <2>3
    <3>2. PICK x, z : x = off[k] /\ z = sz[k]
      OBVIOUS
    <3>3. /\ x >= 0 => \A i \in 1..4 : c[x + i] = Header(z)[i]
          /\ \A i \in 1..z : c[x + 4 + i] = k
      BY <1>12, <3>1, <3>2 DEF Headers, Bodies
    <3> QED
      BY <2>1, <3>1, <3>2, <3>3
  <2> QED
    BY <2>2, <2>3
<1>15. Headers(offx, d, n + 1, szx, c) /\ Bodies(offx, d, n + 1, szx, c)
  BY <1>14 DEF Headers, Bodies
<1>16. offx \in [1..((n + 1) + 1) -> Int]
  OBVIOUS
<1>17. Frames(d, n + 1, szx, first, c)
  BY <1>c, <1>11, <1>15, <1>16 DEF Frames
<1> QED
  BY <1>7, <1>c, <1>17

-----------------------------------------------------------------------------
(* The steps.                                                              *)

LEMMA SizeBound ==
  ASSUME NEW shape \in Shapes, NEW ts \in Int
  PROVE  /\ [shape EXCEPT !.ts = ts] \in Evts
         /\ SerializedSize([shape EXCEPT !.ts = ts]) \in Nat
         /\ SerializedSize([shape EXCEPT !.ts = ts]) < Digits4
<1>1. shape \in Evts /\ [shape EXCEPT !.ts = ts] \in Evts /\ [shape EXCEPT !.ts = 1] \in Evts
  BY IngestAssumption DEF Evts
<1>2. PICK f \in Nat :
        f = Field(shape.event_id) + Field(shape.user_id) + Field(shape.event_type)
              + Field(shape.platform) + Field(shape.payload)
  BY <1>1 DEF Evts, Field
<1>3. SerializedSize([shape EXCEPT !.ts = ts]) = f + (IF ts = 0 THEN 0 ELSE 1)
  BY <1>1, <1>2 DEF SerializedSize, Evts
<1>4. SerializedSize([shape EXCEPT !.ts = 1]) = f + 1
  BY <1>1, <1>2 DEF SerializedSize, Evts
<1>5. f + 1 < Digits4
  BY <1>4, IngestAssumption DEF Digits4
<1>6. Digits4 \in Nat
  <2>1. Radix * Radix \in Nat /\ Radix \in Nat
    BY IngestAssumption
  <2>2. Radix * (Radix * Radix) \in Nat
    BY <2>1
  <2> QED
    BY <2>1, <2>2 DEF Digits4
<1> QED
  BY <1>1, <1>3, <1>5, <1>6

LEMMA InitInv == Init => Inv
<1> SUFFICES ASSUME Init PROVE Inv
  OBVIOUS
<1> USE DEF Init
<1>1. Typed
  BY IngestAssumption DEF Typed
<1>2. Done = 0 /\ Len(sent) = 0 /\ Len(unread) = 0 /\ Len(judged) = 0 /\ Len(queue_) = 0
  BY DEF Done
<1>3. SentInv /\ ReadingInv /\ VerdictInv
  BY <1>2 DEF SentInv, ReadingInv, VerdictInv
<1>4. DoneInv
  BY <1>2 DEF DoneInv
<1>5. Framing
  <2>1. PICK off \in [1..(0 + 1) -> Int] : off[1] = 0
    <3> WITNESS [k \in 1..(0 + 1) |-> 0] \in [1..(0 + 1) -> Int]
    <3> QED
      OBVIOUS
  <2>2. Positions(off, 0, 0, Sizes, 0, 0)
    BY <2>1 DEF Positions, Starts, Ends, Ordered, Spaced
  <2>3. Headers(off, 0, 0, Sizes, unread) /\ Bodies(off, 0, 0, Sizes, unread)
    BY DEF Headers, Bodies
  <2>4. Frames(0, 0, Sizes, 0, unread)
    BY <1>2, <2>2, <2>3 DEF Frames
  <2> QED
    BY <1>2, <2>4 DEF Framing
<1> QED
  BY <1>1, <1>3, <1>4, <1>5 DEF Inv

LEMMA DoneType == Typed => Done \in Nat /\ Len(judged) \in Nat /\ Len(queue_) \in Nat /\ Len(sent) \in Nat
BY DEF Typed, Done

(* What was sent stays as it was sent. *)
LEMMA SentGrows ==
  ASSUME Typed, NEW r \in [evt : Evts, at : Nat], sent' = Append(sent, r)
  PROVE  /\ sent' \in Seq([evt : Evts, at : Nat]) /\ Len(sent') = Len(sent) + 1
         /\ sent'[Len(sent) + 1] = r
         /\ \A k \in 1..Len(sent) : /\ sent'[k] = sent[k] /\ Size(k)' = Size(k)
                                     /\ Body(k)' = Body(k) /\ (Ok(k)' <=> Ok(k))
<1>1. sent \in Seq([evt : Evts, at : Nat])
  BY DEF Typed
<1>2. /\ sent' \in Seq([evt : Evts, at : Nat]) /\ Len(sent') = Len(sent) + 1
      /\ sent'[Len(sent) + 1] = r /\ \A k \in 1..Len(sent) : sent'[k] = sent[k]
  BY <1>1
<1>3. ASSUME NEW k \in 1..Len(sent)
      PROVE  Size(k)' = Size(k) /\ Body(k)' = Body(k) /\ (Ok(k)' <=> Ok(k))
  BY <1>2 DEF Size, Body, Ok
<1> QED
  BY <1>2, <1>3

LEMMA SendStep == Inv /\ Send => Inv'
<1> SUFFICES ASSUME Inv, Send PROVE Inv'
  OBVIOUS
<1>0. Typed /\ SentInv /\ DoneInv /\ ReadingInv /\ Framing /\ VerdictInv
  BY DEF Inv
<1>1. UNCHANGED <<clock, body_, reading, queue_, judged>>
  BY DEF Send
<1>2. PICK shape \in Shapes, ts \in {0} \cup {clock + x : x \in Offsets} :
        /\ sent' = Append(sent, [evt |-> [shape EXCEPT !.ts = ts], at |-> clock])
        /\ unread' = unread \o Header(SerializedSize([shape EXCEPT !.ts = ts]))
                       \o [i \in 1..SerializedSize([shape EXCEPT !.ts = ts]) |-> Len(sent) + 1]
  BY DEF Send
<1>3. ts \in Int
  <2>1. clock \in Nat /\ \A x \in Offsets : x \in Int
    BY <1>0, IngestAssumption DEF Typed
  <2>2. \A x \in Offsets : clock + x \in Int
    BY <2>1
  <2> QED
    BY <2>2
<1>4. PICK evt : evt = [shape EXCEPT !.ts = ts]
  OBVIOUS
<1>5. PICK len \in Nat : len = SerializedSize(evt)
  BY <1>3, <1>4, SizeBound
<1>6. evt \in Evts /\ len < Digits4
  BY <1>3, <1>4, <1>5, SizeBound
<1>7. PICK r : r = [evt |-> evt, at |-> clock]
  OBVIOUS
<1>8. r \in [evt : Evts, at : Nat] /\ r.evt = evt /\ r.at = clock
  BY <1>0, <1>6, <1>7 DEF Typed
<1>9. PICK n \in Nat : n = Len(sent)
  BY <1>0, DoneType
<1>10. PICK d \in Nat : d = Done
  BY <1>0, DoneType
<1>11. sent' = Append(sent, r)
  BY <1>2, <1>4, <1>7
<1>12. /\ sent' \in Seq([evt : Evts, at : Nat]) /\ Len(sent') = n + 1
       /\ sent'[n + 1] = r
       /\ \A k \in 1..n : /\ sent'[k] = sent[k] /\ Size(k)' = Size(k)
                           /\ Body(k)' = Body(k) /\ (Ok(k)' <=> Ok(k))
  BY <1>0, <1>8, <1>9, <1>11, SentGrows
<1>13. Size(n + 1)' = len
  BY <1>5, <1>8, <1>12 DEF Size
<1>14. Done' = d /\ d \in 0..n
  BY <1>0, <1>1, <1>9, <1>10 DEF Done, DoneInv
<1>15. unread' = unread \o Header(len) \o [i \in 1..len |-> n + 1]
  BY <1>2, <1>4, <1>5, <1>9
<1>16. SentInv'
  <2>1. ASSUME NEW k \in 1..(n + 1)
        PROVE  Size(k)' \in Nat /\ Size(k)' < Digits4 /\ sent'[k].at <= clock'
    <3>1. CASE k = n + 1
      BY <1>0, <1>1, <1>6, <1>8, <1>12, <1>13, <3>1 DEF Typed
    <3>2. CASE k # n + 1
      <4>1. k \in 1..n
        BY <3>2
      <4> QED
        BY <1>0, <1>1, <1>9, <1>12, <4>1 DEF SentInv
    <3> QED
      BY <3>1, <3>2
  <2> QED
    BY <1>12, <2>1 DEF SentInv, Digits4
<1>17. PICK sz \in [1..n -> Nat] : sz = Sizes
  BY <1>0, <1>9 DEF Sizes, SentInv
<1>18. PICK szx : szx = Sizes'
  OBVIOUS
<1>19. szx \in [1..(n + 1) -> Nat] /\ (\A k \in 1..n : szx[k] = sz[k]) /\ szx[n + 1] = len
  <2>1. szx = [k \in 1..(n + 1) |-> Size(k)']
    BY <1>12, <1>18 DEF Sizes
  <2>2. \A k \in 1..(n + 1) : Size(k)' \in Nat
    BY <1>12, <1>16 DEF SentInv
  <2>3. sz = [k \in 1..n |-> Size(k)]
    BY <1>9, <1>17 DEF Sizes
  <2> QED
    BY <1>12, <1>13, <2>1, <2>2, <2>3
<1>20. PICK first \in Int : first = (IF reading = "header" THEN 0 ELSE -4) /\ first >= -4
  OBVIOUS
<1>21. Frames(d, n, sz, first, unread)
  BY <1>0, <1>9, <1>10, <1>17, <1>20 DEF Framing
<1>22. unread' \in Seq(Nat) /\ Frames(d, n + 1, szx, first, unread')
  <2>1. unread \in Seq(Nat)
    BY <1>0 DEF Typed
  <2> QED
    BY <1>6, <1>14, <1>15, <1>19, <1>20, <1>21, <2>1, FrameSent
<1>23. Framing'
  BY <1>1, <1>12, <1>14, <1>18, <1>20, <1>22 DEF Framing
<1>24. Typed'
  BY <1>0, <1>1, <1>12, <1>22 DEF Typed
<1>25. DoneInv'
  <2>1. ASSUME NEW k \in 1..d PROVE Ok(k)'
    <3>1. k \in 1..n /\ k \in 1..Done
      BY <1>10, <1>14
    <3>2. Ok(k)
      BY <1>0, <3>1, Zenon DEF DoneInv
    <3> QED
      BY <1>12, <3>1, <3>2, Zenon
  <2>2. \A i \in 1..Len(judged) : i \in 1..n
    BY <1>0, <1>9, <1>10, <1>14, DoneType DEF Done
  <2>3. \A i \in 1..Len(judged) : judged'[i].body = Body(i)'
    BY <1>0, <1>1, <1>12, <2>2 DEF DoneInv
  <2>4. \A i \in 1..Len(queue_) : Len(judged) + i \in 1..n
    BY <1>0, <1>9, <1>10, <1>14, DoneType DEF Done
  <2>5. \A i \in 1..Len(queue_) : queue_'[i] = Body(Len(judged) + i)'
    BY <1>0, <1>1, <1>12, <2>4 DEF DoneInv
  <2> QED
    BY <1>1, <1>12, <1>14, <2>1, <2>3, <2>5 DEF DoneInv
<1>26. ReadingInv'
  <2>1. reading # "header" => d + 1 \in 1..n
    BY <1>0, <1>9, <1>10 DEF ReadingInv
  <2> QED
    <3>1. reading # "header" => d < n
      BY <1>0, <1>9, <1>10 DEF ReadingInv
    <3>2. reading = "body" => Ok(d + 1) /\ Len(body_) = Size(d + 1)
      BY <1>0, <1>10, Zenon DEF ReadingInv
    <3>3. reading = "closed" => ~Ok(d + 1)
      BY <1>0, <1>10, Zenon DEF ReadingInv
    <3>4. reading \in {"body", "closed"} => reading # "header"
      OBVIOUS
    <3>5. reading \in {"body", "closed"} => Size(d + 1)' = Size(d + 1) /\ (Ok(d + 1)' <=> Ok(d + 1))
      BY <1>12, <2>1, <3>4, Zenon
    <3>6. reading' = "body" => Ok(d + 1)' /\ Len(body_') = Size(d + 1)'
      BY <1>1, <3>2, <3>5
    <3>7. reading' = "closed" => ~Ok(d + 1)'
      BY <1>1, <3>3, <3>5
    <3>8. reading' # "header" => d < Len(sent')
      BY <1>1, <1>12, <3>1
    <3>9. Ok(Done + 1)' = Ok(d + 1)' /\ Size(Done + 1)' = Size(d + 1)'
      BY <1>14 DEF Ok, Size
    <3> QED
      BY <1>14, <3>6, <3>7, <3>8, <3>9 DEF ReadingInv
<1>27. VerdictInv'
  <2>1. \A i \in 1..Len(judged) : i \in 1..n
    BY <1>0, <1>9, <1>10, <1>14, DoneType DEF Done
  <2> QED
    BY <1>0, <1>1, <1>12, <2>1 DEF VerdictInv
<1> QED
  BY <1>16, <1>23, <1>24, <1>25, <1>26, <1>27 DEF Inv

(* Steps other than Send leave the frames alone. *)
LEMMA SameFrames ==
  ASSUME UNCHANGED sent
  PROVE  /\ Sizes' = Sizes
         /\ \A k : Size(k)' = Size(k) /\ Body(k)' = Body(k) /\ Ok(k)' = Ok(k)
BY DEF Sizes, Size, Body, Ok

LEMMA SentType ==
  ASSUME Typed, NEW k \in 1..Len(sent)
  PROVE  sent[k] \in [evt : Evts, at : Nat] /\ sent[k].evt \in Evts /\ sent[k].at \in Nat
<1>1. PICK F : F = [evt : Evts, at : Nat]
  OBVIOUS
<1>2. sent \in Seq(F)
  BY <1>1 DEF Typed
<1>3. sent[k] \in F
  BY <1>2, ElementOfSeq
<1> QED
  BY <1>1, <1>3

LEMMA TickStep == Inv /\ Tick => Inv'
<1> SUFFICES ASSUME Inv, Tick PROVE Inv'
  OBVIOUS
<1>0. Typed /\ SentInv /\ DoneInv /\ ReadingInv /\ Framing /\ VerdictInv
  BY DEF Inv
<1>1. UNCHANGED <<sent, unread, body_, reading, queue_, judged>> /\ clock' = clock + 1
  BY DEF Tick
<1>2. Typed'
  BY <1>0, <1>1 DEF Typed
<1>3. SentInv'
  <2>1. ASSUME NEW k \in 1..Len(sent)
        PROVE  Size(k)' \in Nat /\ Size(k)' < Digits4 /\ sent'[k].at <= clock'
    <3>1. sent[k].at \in Nat /\ clock \in Nat
      BY <1>0, SentType DEF Typed
    <3>2. Size(k) \in Nat /\ Size(k) < Digits4 /\ sent[k].at <= clock
      BY <1>0 DEF SentInv
    <3>3. Size(k)' = Size(k)
      BY <1>1, SameFrames
    <3>4. sent[k].at <= clock + 1
      BY <3>1, <3>2
    <3> QED
      BY <1>1, <3>2, <3>3, <3>4
  <2> QED
    BY <1>1, <2>1 DEF SentInv, Digits4
<1>4. DoneInv' /\ ReadingInv' /\ Framing' /\ VerdictInv'
  BY <1>0, <1>1 DEF DoneInv, ReadingInv, Framing, VerdictInv, Done, Sizes, Size, Ok, Body
<1> QED
  BY <1>2, <1>3, <1>4 DEF Inv

(* The session's reads, with the frame that they concern. *)
LEMMA HeaderStep == Inv /\ ReadHeader => Inv'
<1> SUFFICES ASSUME Inv, ReadHeader PROVE Inv'
  OBVIOUS
<1>0. Typed /\ SentInv /\ DoneInv /\ ReadingInv /\ Framing /\ VerdictInv
  BY DEF Inv
<1>1. /\ UNCHANGED <<clock, sent, queue_, judged>> /\ reading = "header" /\ Len(unread) >= 4
      /\ unread' = SubSeq(unread, 4 + 1, Len(unread))
  BY DEF ReadHeader, Consume
<1>2. PICK n \in Nat : n = Len(sent)
  BY <1>0, DoneType
<1>3. PICK d \in Nat : d = Done
  BY <1>0, DoneType
<1>4. PICK sz \in [1..n -> Nat] : sz = Sizes
  BY <1>0, <1>2 DEF Sizes, SentInv
<1>5. d \in 0..n /\ Done' = d
  BY <1>0, <1>1, <1>2, <1>3 DEF DoneInv, Done
<1>6. unread \in Seq(Nat) /\ Frames(d, n, sz, 0, unread)
  BY <1>0, <1>1, <1>2, <1>3, <1>4 DEF Framing, Typed
<1>7. /\ d < n /\ \A i \in 1..4 : unread[i] = Header(sz[d + 1])[i]
      /\ Frames(d, n, sz, -4, SubSeq(unread, 5, Len(unread)))
  BY <1>1, <1>5, <1>6, HeaderTaken
<1>8. d + 1 \in 1..n /\ sz[d + 1] = Size(d + 1) /\ Size(d + 1) \in Nat /\ Size(d + 1) < Digits4
  BY <1>0, <1>2, <1>4, <1>7 DEF Sizes, SentInv
<1>9. Length(SubSeq(unread, 1, 4)) = Size(d + 1)
  <2>1. PICK h : h = Header(Size(d + 1))
    OBVIOUS
  <2>2. PICK g : g = SubSeq(unread, 1, 4)
    OBVIOUS
  <2>3. 4 \in Nat /\ 4 <= Len(unread)
    BY <1>1, <1>6
  <2>4. \A i \in 1..4 : g[i] = unread[i]
    BY <1>6, <2>2, <2>3, Front
  <2>5. \A i \in 1..4 : g[i] = h[i]
    BY <1>7, <1>8, <2>1, <2>4
  <2>6. g[1] = h[1] /\ g[2] = h[2] /\ g[3] = h[3] /\ g[4] = h[4]
    BY <2>5
  <2>7. Length(g) = Length(h)
    BY <2>6 DEF Length
  <2> QED
    BY <1>8, <2>1, <2>2, <2>7, HeaderLength
<1>10. PICK len \in Nat : len = Size(d + 1)
  BY <1>8
<1>11. \/ LengthOk(len) /\ body_' = Resized(len) /\ reading' = "body"
       \/ ~LengthOk(len) /\ reading' = "closed" /\ UNCHANGED body_
  BY <1>9, <1>10 DEF ReadHeader
<1>12. LengthOk(len) <=> Ok(d + 1)
  BY <1>10, IngestAssumption DEF LengthOk, Ok
<1>13. Resized(len) \in Seq(Nat) /\ Len(Resized(len)) = len
  <2>1. body_ \in Seq(Nat)
    BY <1>0 DEF Typed
  <2>2. \A i \in 1..len : (IF i <= Len(body_) THEN body_[i] ELSE 0) \in Nat
    BY <2>1
  <2>3. Resized(len) \in [1..len -> Nat]
    BY <2>2 DEF Resized
  <2> QED
    BY <2>3
<1>14. Typed'
  <2>1. unread' \in Seq(Nat)
    BY <1>1, <1>6, Rest
  <2>2. body_' \in Seq(Nat) /\ reading' \in {"header", "body", "closed"}
    BY <1>0, <1>11, <1>13 DEF Typed
  <2> QED
    BY <1>0, <1>1, <2>1, <2>2 DEF Typed
<1>15. SentInv' /\ DoneInv' /\ VerdictInv'
  BY <1>0, <1>1 DEF SentInv, DoneInv, VerdictInv, Digits4, Done, Size, Ok, Body
<1>16. ReadingInv'
  <2>1. Done' < Len(sent')
    BY <1>1, <1>2, <1>5, <1>7
  <2>2. Size(Done + 1)' = len /\ (Ok(Done + 1)' <=> Ok(d + 1))
    BY <1>1, <1>5, <1>10 DEF Size, Ok
  <2>3. CASE LengthOk(len) /\ body_' = Resized(len) /\ reading' = "body"
    BY <1>12, <1>13, <2>1, <2>2, <2>3 DEF ReadingInv
  <2>4. CASE ~LengthOk(len) /\ reading' = "closed" /\ UNCHANGED body_
    BY <1>12, <2>1, <2>2, <2>4 DEF ReadingInv
  <2> QED
    BY <1>11, <2>3, <2>4
<1>17. Framing'
  <2>1. reading' # "header"
    BY <1>11
  <2>2. Frames(d, n, sz, -4, unread')
    BY <1>1, <1>7
  <2>3. Len(sent') = n /\ Sizes' = sz
    BY <1>1, <1>2, <1>4, SameFrames
  <2> QED
    BY <1>5, <2>1, <2>2, <2>3 DEF Framing
<1> QED
  BY <1>14, <1>15, <1>16, <1>17 DEF Inv

LEMMA BodyStep == Inv /\ ReadBody => Inv'
<1> SUFFICES ASSUME Inv, ReadBody PROVE Inv'
  OBVIOUS
<1>0. Typed /\ SentInv /\ DoneInv /\ ReadingInv /\ Framing /\ VerdictInv
  BY DEF Inv
<1>1. /\ UNCHANGED <<clock, sent, judged>> /\ reading = "body" /\ reading' = "header"
      /\ body_' = SubSeq(unread, 1, Len(body_)) /\ queue_' = Append(queue_, body_')
      /\ unread' = SubSeq(unread, Len(body_) + 1, Len(unread))
  BY DEF ReadBody, Consume
<1>2. PICK n \in Nat : n = Len(sent)
  BY <1>0, DoneType
<1>3. PICK d \in Nat : d = Done
  BY <1>0, DoneType
<1>4. PICK sz \in [1..n -> Nat] : sz = Sizes
  BY <1>0, <1>2 DEF Sizes, SentInv
<1>5. d \in 0..n /\ d < n /\ Ok(d + 1) /\ Len(body_) = Size(d + 1)
  <2>1. d < n
    BY <1>0, <1>1, <1>2, <1>3 DEF ReadingInv
  <2>2. Ok(d + 1) /\ Len(body_) = Size(d + 1)
    BY <1>0, <1>1, <1>3, Zenon DEF ReadingInv
  <2> QED
    BY <2>1, <2>2
<1>6. unread \in Seq(Nat) /\ Frames(d, n, sz, -4, unread)
  BY <1>0, <1>1, <1>2, <1>3, <1>4 DEF Framing, Typed
<1>7. PICK m \in Nat : m = Size(d + 1) /\ m = sz[d + 1]
  <2>1. d + 1 \in 1..n
    BY <1>5
  <2> QED
    BY <1>0, <1>2, <1>4, <2>1 DEF Sizes, SentInv
<1>8. /\ m <= Len(unread) /\ \A i \in 1..m : unread[i] = d + 1
      /\ Frames(d + 1, n, sz, 0, SubSeq(unread, m + 1, Len(unread)))
  <2>1. /\ sz[d + 1] <= Len(unread) /\ \A i \in 1..sz[d + 1] : unread[i] = d + 1
        /\ Frames(d + 1, n, sz, 0, SubSeq(unread, sz[d + 1] + 1, Len(unread)))
    <3>1. d \in 0..n /\ d < n
      BY <1>5
    <3> QED
      BY ONLY n \in Nat, <3>1, sz \in [1..n -> Nat], <1>6, BodyTaken
  <2> QED
    BY <1>7, <2>1
<1>9. PICK b \in Seq(Nat) : b = body_' /\ b = Body(d + 1)
  <2>1. PICK g : g = SubSeq(unread, 1, m)
    OBVIOUS
  <2>2. g \in Seq(Nat) /\ Len(g) = m /\ \A i \in 1..m : g[i] = d + 1
    BY <1>6, <1>8, <2>1, Front
  <2>3. g = [i \in 1..m |-> d + 1]
    BY <2>2
  <2>4. Body(d + 1) = [i \in 1..m |-> d + 1]
    BY <1>7 DEF Body, Size
  <2>5. body_' = g
    BY <1>1, <1>5, <1>7, <2>1
  <2> QED
    BY <2>2, <2>3, <2>4, <2>5
<1>10. PICK q \in Seq(Seq(Nat)) : q = queue_
  BY <1>0 DEF Typed
<1>11. PICK j \in Nat : j = Len(judged)
  BY <1>0, DoneType
<1>12. /\ queue_' = Append(q, b) /\ Append(q, b) \in Seq(Seq(Nat))
       /\ Len(Append(q, b)) = Len(q) + 1 /\ Append(q, b)[Len(q) + 1] = b
       /\ \A i \in 1..Len(q) : Append(q, b)[i] = q[i]
  BY <1>1, <1>9, <1>10, AppendProperties
<1>13. d = j + Len(q) /\ Done' = d + 1
  BY <1>1, <1>3, <1>10, <1>11, <1>12 DEF Done
<1>14. Typed'
  <2>1. unread' \in Seq(Nat)
    BY <1>1, <1>5, <1>6, <1>7, <1>8, Rest
  <2>2. queue_' \in Seq(Seq(Nat)) /\ body_' \in Seq(Nat)
    BY <1>9, <1>12
  <2> QED
    BY <1>0, <1>1, <2>1, <2>2 DEF Typed
<1>15. SentInv' /\ VerdictInv'
  BY <1>0, <1>1 DEF SentInv, VerdictInv, Digits4, Size
<1>16. DoneInv'
  <2>1. \A k \in 1..(d + 1) : Ok(k)
    <3> TAKE k \in 1..(d + 1)
    <3>1. CASE k = d + 1
      BY <1>5, <3>1
    <3>2. CASE k # d + 1
      <4>1. k \in 1..Done
        BY <1>3, <3>2
      <4> QED
        BY <1>0, <4>1, Zenon DEF DoneInv
    <3> QED
      BY <3>1, <3>2
  <2>2. \A k \in 1..(d + 1) : Ok(k)'
    BY <1>1, <2>1 DEF Ok, Size
  <2>3. \A i \in 1..Len(judged) : judged'[i].body = Body(i)'
    BY <1>0, <1>1 DEF DoneInv, Body
  <2>4. ASSUME NEW i \in 1..(Len(q) + 1) PROVE Append(q, b)[i] = Body(j + i)
    <3>1. CASE i = Len(q) + 1
      <4>1. j + i = d + 1
        BY <1>13, <3>1
      <4> QED
        BY <1>9, <1>12, <3>1, <4>1
    <3>2. CASE i # Len(q) + 1
      <4>1. i \in 1..Len(q)
        BY <3>2
      <4>2. q[i] = Body(j + i)
        BY <1>0, <1>10, <1>11, <4>1 DEF DoneInv
      <4> QED
        BY <1>12, <4>1, <4>2
    <3> QED
      BY <3>1, <3>2
  <2>5. ASSUME NEW i \in 1..Len(queue_') PROVE queue_'[i] = Body(Len(judged) + i)'
    <3>1. queue_'[i] = Body(j + i)
      BY <1>12, <2>4
    <3>2. Body(Len(judged) + i)' = Body(j + i)
      BY <1>1, <1>11 DEF Body
    <3> QED
      BY <3>1, <3>2
  <2>6. Done' <= Len(sent')
    BY <1>1, <1>2, <1>5, <1>13
  <2> QED
    BY <1>1, <1>13, <2>2, <2>3, <2>5, <2>6 DEF DoneInv
<1>17. ReadingInv'
  BY <1>1 DEF ReadingInv
<1>18. Framing'
  <2>1. Frames(d + 1, n, sz, 0, unread')
    BY <1>1, <1>5, <1>7, <1>8
  <2>2. Len(sent') = n /\ Sizes' = sz
    BY <1>1, <1>2, <1>4, SameFrames
  <2> QED
    BY <1>1, <1>13, <2>1, <2>2 DEF Framing
<1> QED
  BY <1>14, <1>15, <1>16, <1>17, <1>18 DEF Inv

(* A body that is not empty is the body of one frame only. *)
LEMMA BodyUnique ==
  ASSUME NEW j \in Nat, NEW k \in Nat, Size(j) \in Nat, Size(j) >= 1, Size(k) \in Nat,
         Body(k) = Body(j)
  PROVE  k = j
<1>1. Body(j) = [i \in 1..Size(j) |-> j] /\ Body(k) = [i \in 1..Size(k) |-> k]
  BY DEF Body, Size
<1>2. 1 \in DOMAIN Body(j) /\ 1 \in DOMAIN Body(k)
  BY <1>1
<1>3. Body(j)[1] = j /\ Body(k)[1] = k
  BY <1>1, <1>2
<1> QED
  BY <1>3

LEMMA JudgeStep == Inv /\ Judge => Inv'
<1> SUFFICES ASSUME Inv, Judge PROVE Inv'
  OBVIOUS
<1>0. Typed /\ SentInv /\ DoneInv /\ ReadingInv /\ Framing /\ VerdictInv
  BY DEF Inv
<1>1. /\ UNCHANGED <<clock, sent, unread, body_, reading>> /\ queue_ # <<>>
      /\ queue_' = Tail(queue_)
  BY DEF Judge
<1>2. PICK n \in Nat : n = Len(sent)
  BY <1>0, DoneType
<1>3. PICK q \in Seq(Seq(Nat)) : q = queue_ /\ q # <<>>
  BY <1>0, <1>1 DEF Typed
<1>4. PICK p \in Nat : p = Len(judged)
  BY <1>0, DoneType
<1>5. /\ Len(q) \in Nat /\ Len(q) >= 1 /\ Head(q) = q[1] /\ q[1] \in Seq(Nat)
      /\ Tail(q) \in Seq(Seq(Nat)) /\ Len(Tail(q)) = Len(q) - 1
      /\ \A i \in 1..(Len(q) - 1) : Tail(q)[i] = q[i + 1]
  BY <1>3
<1>6. Done = p + Len(q) /\ Done <= n
  BY <1>0, <1>2, <1>3, <1>4 DEF Done, DoneInv
<1>7. PICK j \in 1..n : j = p + 1
  BY <1>5, <1>6
<1>8. q[1] = Body(j) /\ Ok(j)
  <2>1. 1 \in 1..Len(queue_) /\ j \in 1..Done
    BY <1>3, <1>5, <1>6, <1>7
  <2>2. queue_[1] = Body(Len(judged) + 1)
    BY <1>0, <2>1 DEF DoneInv
  <2>3. Ok(j)
    BY <1>0, <2>1, Zenon DEF DoneInv
  <2> QED
    BY <1>3, <1>4, <1>7, <2>2, <2>3
<1>9. Parses(q[1], j) /\ \A k \in 1..n : Parses(q[1], k) => k = j
  <2>1. Parses(q[1], j)
    BY <1>8 DEF Parses
  <2>2. ASSUME NEW k \in 1..n, Parses(q[1], k) PROVE k = j
    <3>1. Size(j) \in Nat /\ Size(k) \in Nat
      BY <1>0, <1>2 DEF SentInv
    <3>2. Size(j) >= 1
      BY <1>8, <3>1, IngestAssumption DEF Ok
    <3>3. Body(k) = Body(j)
      BY <1>8, <2>2 DEF Parses
    <3> QED
      BY <3>1, <3>2, <3>3, BodyUnique
  <2> QED
    BY <2>1, <2>2
<1>10. PICK v : v = IF validate_event(sent[j].evt, clock) THEN "valid" ELSE "invalid"
  OBVIOUS
<1>11. PICK r : r = [body |-> q[1], verdict |-> v, at |-> clock]
  OBVIOUS
<1>12. judged' = Append(judged, r)
  <2>1. (\E k \in 1..n : Parses(q[1], k) /\ validate_event(sent[k].evt, clock))
          <=> validate_event(sent[j].evt, clock)
    BY <1>9
  <2>2. \E k \in 1..n : Parses(q[1], k)
    BY <1>9
  <2>3. judged' = Append(judged, [body |-> Head(queue_),
          verdict |-> IF \E k \in 1..Len(sent) : Parses(Head(queue_), k) /\ validate_event(sent[k].evt, clock)
                      THEN "valid"
                      ELSE IF \E k \in 1..Len(sent) : Parses(Head(queue_), k) THEN "invalid"
                      ELSE "parse_fail",
          at |-> clock])
    BY DEF Judge
  <2> QED
    BY <1>2, <1>3, <1>5, <1>10, <1>11, <2>1, <2>2, <2>3
<1>13. PICK R : R = [body : Seq(Nat), verdict : {"valid", "invalid", "parse_fail"}, at : Nat]
  OBVIOUS
<1>14. judged \in Seq(R) /\ r \in R
  <2>1. judged \in Seq(R) /\ clock \in Nat
    BY <1>0, <1>13 DEF Typed
  <2>2. v \in {"valid", "invalid", "parse_fail"}
    BY <1>10
  <2> QED
    BY <1>5, <1>11, <1>13, <2>1, <2>2
<1>15. /\ judged' \in Seq(R) /\ Len(judged') = p + 1 /\ judged'[p + 1] = r
       /\ \A i \in 1..p : judged'[i] = judged[i]
  BY <1>4, <1>12, <1>14, AppendProperties
<1>16. queue_' = Tail(q) /\ Len(queue_') = Len(q) - 1
  BY <1>1, <1>3, <1>5
<1>17. Done' = Done
  BY <1>5, <1>6, <1>15, <1>16 DEF Done
<1>18. Typed'
  BY <1>0, <1>1, <1>5, <1>13, <1>15, <1>16 DEF Typed
<1>19. SentInv'
  BY <1>0, <1>1 DEF SentInv, Digits4, Size
<1>20. DoneInv'
  <2>1. Done' <= Len(sent')
    BY <1>1, <1>2, <1>6, <1>17
  <2>2. \A k \in 1..Done' : Ok(k)'
    BY <1>0, <1>1, <1>17 DEF DoneInv, Ok, Size
  <2>3. ASSUME NEW i \in 1..(p + 1) PROVE judged'[i].body = Body(i)
    <3>1. CASE i = p + 1
      BY <1>7, <1>8, <1>11, <1>15, <3>1
    <3>2. CASE i # p + 1
      <4>1. i \in 1..p
        BY <3>2
      <4> QED
        BY <1>0, <1>4, <1>15, <4>1 DEF DoneInv
    <3> QED
      BY <3>1, <3>2
  <2>4. ASSUME NEW i \in 1..(Len(q) - 1) PROVE queue_'[i] = Body((p + 1) + i)
    <3>1. i + 1 \in 1..Len(q) /\ p + (i + 1) = (p + 1) + i
      BY <1>5
    <3>2. q[i + 1] = Body(p + (i + 1))
      BY <1>0, <1>3, <1>4, <3>1 DEF DoneInv
    <3>3. queue_'[i] = q[i + 1]
      BY <1>5, <1>16
    <3> QED
      BY <3>1, <3>2, <3>3
  <2>5. \A i \in 1..Len(judged') : judged'[i].body = Body(i)'
    BY <1>1, <1>15, <2>3 DEF Body
  <2>6. \A i \in 1..Len(queue_') : queue_'[i] = Body(Len(judged) + i)'
    BY <1>1, <1>15, <1>16, <2>4 DEF Body
  <2> QED
    BY <2>1, <2>2, <2>5, <2>6 DEF DoneInv
<1>21. ReadingInv'
  BY <1>0, <1>1, <1>17 DEF ReadingInv, Ok, Size
<1>22. Framing'
  <2>1. Sizes' = Sizes
    BY <1>1, SameFrames
  <2> QED
    BY <1>0, <1>1, <1>17, <2>1 DEF Framing
<1>23. VerdictInv'
  <2>1. ASSUME NEW k \in 1..(p + 1)
        PROVE  /\ sent[k].at <= judged'[k].at
               /\ judged'[k].verdict
                    = IF validate_event(sent[k].evt, judged'[k].at) THEN "valid" ELSE "invalid"
    <3>1. CASE k = p + 1
      <4>1. judged'[k] = r /\ r.at = clock /\ r.verdict = v /\ k = j
        BY <1>7, <1>11, <1>15, <3>1
      <4>2. sent[j].at <= clock
        BY <1>0, <1>2 DEF SentInv
      <4> QED
        BY <1>10, <4>1, <4>2
    <3>2. CASE k # p + 1
      <4>1. k \in 1..p /\ judged'[k] = judged[k]
        BY <1>15, <3>2
      <4> QED
        BY <1>0, <1>4, <4>1 DEF VerdictInv
    <3> QED
      BY <3>1, <3>2
  <2> QED
    BY <1>1, <1>15, <2>1 DEF VerdictInv
<1> QED
  BY <1>18, <1>19, <1>20, <1>21, <1>22, <1>23 DEF Inv

LEMMA InvStep == Inv /\ [Next]_vars => Inv'
<1> SUFFICES ASSUME Inv, [Next]_vars PROVE Inv'
  OBVIOUS
<1>1. CASE Send
  BY <1>1, SendStep
<1>2. CASE Tick
  BY <1>2, TickStep
<1>3. CASE ReadHeader
  BY <1>3, HeaderStep
<1>4. CASE ReadBody
  BY <1>4, BodyStep
<1>5. CASE Judge
  BY <1>5, JudgeStep
<1>6. CASE UNCHANGED vars
  <2>1. UNCHANGED <<clock, sent, unread, body_, reading, queue_, judged>>
    BY <1>6 DEF vars
  <2>2. Typed' /\ SentInv' /\ DoneInv' /\ ReadingInv' /\ Framing' /\ VerdictInv'
    BY <2>1 DEF Inv, Typed, SentInv, DoneInv, ReadingInv, Framing, VerdictInv, Done, Sizes, Size,
                Ok, Body, Digits4
  <2> QED
    BY <2>2 DEF Inv
<1> QED
  BY <1>1, <1>2, <1>3, <1>4, <1>5, <1>6 DEF Next, Quiet

LEMMA Invariant == Spec => []Inv
BY InitInv, InvStep, PTL DEF Spec

-----------------------------------------------------------------------------
(* What the invariant says.                                                *)

LEMMA DeliveredIs ==
  ASSUME Inv
  PROVE  /\ Len(Delivered) = Done
         /\ \A k \in 1..Done : Delivered[k] = Body(k)
<1>0. Typed /\ DoneInv
  BY DEF Inv
<1>1. PICK p \in Nat : p = Len(judged)
  BY <1>0, DoneType
<1>2. PICK q \in Seq(Seq(Nat)) : q = queue_
  BY <1>0 DEF Typed
<1>3. PICK b : b = [i \in 1..p |-> judged[i].body]
  OBVIOUS
<1>4. \A i \in 1..p : judged[i].body = Body(i) /\ judged[i].body \in Seq(Nat)
  <2>1. PICK R : R = [body : Seq(Nat), verdict : {"valid", "invalid", "parse_fail"}, at : Nat]
    OBVIOUS
  <2>2. judged \in Seq(R)
    BY <1>0, <2>1 DEF Typed
  <2>3. \A i \in 1..p : judged[i] \in R
    BY <1>1, <2>2, ElementOfSeq
  <2>4. \A i \in 1..p : judged[i].body \in Seq(Nat)
    BY <2>1, <2>3
  <2> QED
    BY <1>0, <1>1, <2>4 DEF DoneInv
<1>5. b \in Seq(Seq(Nat)) /\ Len(b) = p /\ \A i \in 1..p : b[i] = Body(i)
  BY <1>3, <1>4
<1>6. /\ Len(b \o q) = p + Len(q)
      /\ \A k \in 1..(p + Len(q)) : (b \o q)[k] = IF k <= p THEN b[k] ELSE q[k - p]
  BY <1>5, ConcatProperties
<1>7. Delivered = b \o q /\ Done = p + Len(q)
  BY <1>1, <1>2, <1>3 DEF Delivered, Done
<1>8. ASSUME NEW k \in 1..(p + Len(q)) PROVE (b \o q)[k] = Body(k)
  <2>1. CASE k <= p
    BY <1>5, <1>6, <2>1
  <2>2. CASE ~(k <= p)
    <3>1. k - p \in 1..Len(q) /\ p + (k - p) = k
      BY <2>2
    <3>2. q[k - p] = Body(p + (k - p))
      BY <1>0, <1>1, <1>2, <3>1 DEF DoneInv
    <3> QED
      BY <1>6, <2>2, <3>1, <3>2
  <2> QED
    BY <2>1, <2>2
<1> QED
  BY <1>6, <1>7, <1>8

(***************************************************************************)
(* Whatever the lengths of the frames and however the reads and the sends  *)
(* interleave, do_read_header and do_read_body push exactly the bodies of  *)
(* the frames, in order.                                                   *)
(***************************************************************************)
THEOREM StaysInStep == Spec => []InStep
<1>1. Inv => InStep
  BY DeliveredIs DEF Inv, DoneInv, InStep
<1> QED
  BY <1>1, Invariant, PTL

(***************************************************************************)
(* The test of len in do_read_header ends a session only at a frame that   *)
(* is empty or too long, and lets no such frame pass.                      *)
(***************************************************************************)
THEOREM ClosesForCause == Spec => []ClosedForCause
<1>1. Inv => ClosedForCause
  <2> SUFFICES ASSUME Inv PROVE ClosedForCause
    OBVIOUS
  <2>1. Len(Delivered) = Done /\ DoneInv /\ ReadingInv
    BY DeliveredIs DEF Inv
  <2>2. \A k : Ok(k) <=> SerializedSize(sent[k].evt) \in 1..(MAX_LEN - 1)
    BY DEF Ok, Size
  <2>3. reading = "closed" => Done < Len(sent) /\ ~Ok(Done + 1)
    BY <2>1 DEF ReadingInv
  <2>4. \A k \in 1..Done : Ok(k)
    BY <2>1, Zenon DEF DoneInv
  <2> QED
    BY <2>1, <2>2, <2>3, <2>4, Zenon DEF ClosedForCause
<1> QED
  BY <1>1, Invariant, PTL

(* The tests of validate_event, with the clock as it is. *)
InOrder(evt) ==
  /\ {evt.user_id, evt.event_type} \subseteq 1..MAX_NAME
  /\ evt.platform \in 0..MAX_PLATFORM /\ evt.payload \in 0..MAX_PAYLOAD
  /\ evt.ts > 0

LEMMA InOrderFields ==
  ASSUME NEW evt \in Evts
  PROVE  InOrder(evt) <=> FieldsOk(evt) /\ evt.ts > 0
<1>1. evt.platform \in Nat /\ evt.payload \in Nat /\ MAX_PLATFORM \in Nat /\ MAX_PAYLOAD \in Nat
  BY ValidationAssumption DEF Evts
<1>2. /\ evt.platform \in 0..MAX_PLATFORM <=> evt.platform <= MAX_PLATFORM
      /\ evt.payload \in 0..MAX_PAYLOAD <=> evt.payload <= MAX_PAYLOAD
  BY <1>1
<1> QED
  BY <1>2, Zenon DEF InOrder, FieldsOk

LEMMA TimeExplained ==
  ASSUME NEW ts \in Int, NEW at \in Nat, NEW sat \in Nat, sat <= at
  PROVE  /\ TimeOk(ts, at) => ts > 0 /\ ts \in (at - MAX_AGE - SECOND + 1)..(at + MAX_AHEAD)
         /\ ~TimeOk(ts, at) => ~(ts > 0) \/ ts < at - MAX_AGE \/ ts > sat + MAX_AHEAD - SECOND
<1>1. MAX_AGE \in Nat /\ MAX_AHEAD \in Nat /\ SECOND \in Nat
  BY ValidationAssumption
<1>2. PICK now \in Int : now = Now(at) /\ now <= at /\ at < now + SECOND
  BY LateClock
<1>3. TimeOk(ts, at) <=> ts > 0 /\ ts >= now - MAX_AGE /\ ts <= now + MAX_AHEAD
  BY <1>2 DEF TimeOk
<1> QED
  BY <1>1, <1>2, <1>3

(***************************************************************************)
(* The verdict of validate_event on a frame agrees with the time at which  *)
(* the frame was sent and the true time of the verdict, to the second that *)
(* std::time cuts off.                                                     *)
(***************************************************************************)
THEOREM VerdictsExplained == Spec => []VerdictExplained
<1>1. Inv => VerdictExplained
  <2> SUFFICES ASSUME Inv PROVE VerdictExplained
    OBVIOUS
  <2>0. Typed /\ DoneInv /\ VerdictInv
    BY DEF Inv
  <2>1. ASSUME NEW k \in 1..Len(judged)
        PROVE  /\ judged[k].verdict = "valid" =>
                    /\ InOrder(sent[k].evt)
                    /\ sent[k].evt.ts \in (judged[k].at - MAX_AGE - SECOND + 1)
                                             ..(judged[k].at + MAX_AHEAD)
               /\ judged[k].verdict # "valid" =>
                    \/ ~InOrder(sent[k].evt)
                    \/ sent[k].evt.ts < judged[k].at - MAX_AGE
                    \/ sent[k].evt.ts > sent[k].at + MAX_AHEAD - SECOND
    <3>1. k \in 1..Len(sent)
      BY <2>0, DoneType DEF DoneInv, Done
    <3>2. PICK evt \in Evts, sat \in Nat : evt = sent[k].evt /\ sat = sent[k].at
      BY <2>0, <3>1, SentType
    <3>3. PICK at \in Nat : at = judged[k].at
      <4>1. PICK R : R = [body : Seq(Nat), verdict : {"valid", "invalid", "parse_fail"}, at : Nat]
        OBVIOUS
      <4>2. judged \in Seq(R)
        BY <2>0, <4>1 DEF Typed
      <4>3. judged[k] \in R
        BY <4>2, ElementOfSeq
      <4> QED
        BY <4>1, <4>3
    <3>4. sat <= at /\ (judged[k].verdict = "valid" <=> FieldsOk(evt) /\ TimeOk(evt.ts, at))
      BY <2>0, <3>2, <3>3 DEF VerdictInv, validate_event
    <3>5. evt.ts \in Int
      BY DEF Evts
    <3>6. InOrder(evt) <=> FieldsOk(evt) /\ evt.ts > 0
      BY InOrderFields
    <3>7. /\ TimeOk(evt.ts, at) =>
               evt.ts > 0 /\ evt.ts \in (at - MAX_AGE - SECOND + 1)..(at + MAX_AHEAD)
          /\ ~TimeOk(evt.ts, at) =>
               ~(evt.ts > 0) \/ evt.ts < at - MAX_AGE \/ evt.ts > sat + MAX_AHEAD - SECOND
      BY <3>4, <3>5, TimeExplained
    <3> QED
      BY <3>2, <3>3, <3>4, <3>6, <3>7, Zenon
  <2> QED
    BY <2>1, Zenon DEF VerdictExplained, InOrder
<1> QED
  BY <1>1, Invariant, PTL
===============================================================================
