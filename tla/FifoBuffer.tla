------------------------------ MODULE FifoBuffer ------------------------------
(***************************************************************************)
(* fifo_buffer_t of queue.h: a ring of bytes in which messages of any      *)
(* length lie one behind the other, and a table of tags that says where.   *)
(* Messages are removed in any order, what they leave is added to the      *)
(* message in front, and a ring without room is reallocated.               *)
(*                                                                         *)
(* A pointer is its distance from top, so bottom is the size.  The bytes   *)
(* of a removed message, which nothing reads again, are forgotten.         *)
(***************************************************************************)
EXTENDS Integers, Sequences, FiniteSetsExt

CONSTANTS Moves,         \* how far realloc may move a ring
          IntSize        \* values of an int

ASSUME MovesAssumption == Moves \subseteq Int /\ IntSize \in Nat \ {0}

AsInt(n) == ((n + IntSize \div 2) % IntSize) - IntSize \div 2

Null == [buf |-> -1, bytes |-> 0, bound |-> 0]

New(bufsize, n) ==
  [size |-> bufsize, head |-> 0, tail |-> 0,
   tags |-> [i \in 1..n |-> Null],
   mem  |-> [p \in 0..(bufsize - 1) |-> 0]]

Live(b) == {id \in DOMAIN b.tags : b.tags[id] # Null}

Empty(b) == b.tail = b.head

(* Where the i-th byte from p on lies.                                     *)
Cell(b, p, i) == (p + i - 1) % b.size

Content(b, id) == [i \in 1..b.tags[id].bytes |-> b.mem[Cell(b, b.tags[id].buf, i)]]

(***************************************************************************)
(* A pointer past bottom goes on from top, one at bottom stays.  A message *)
(* that ends just there leaves head, or the search for the message in      *)
(* front of the next, at bottom, while tail went on from top.              *)
(***************************************************************************)
Fixup_NoWrap(b, p) == p

Fixup(b, p) == IF p > b.size THEN p - b.size ELSE p

End(b, id) == Fixup(b, b.tags[id].buf + b.tags[id].bound)

AddTag(b, p, bytes) ==
  LET free  == DOMAIN b.tags \ Live(b)
      count == Len(b.tags)
      grown == [i \in 1..(count + count \div 2 + 1) |->
                  IF i <= count THEN b.tags[i] ELSE Null]
      id    == IF free # {} THEN Min(free) ELSE count + 1
      tags  == IF free # {} THEN b.tags ELSE grown
  IN  [id |-> id,
       ring |-> [b EXCEPT !.tags = [tags EXCEPT ![id] = [buf |-> p, bytes |-> bytes, bound |-> bytes]]]]

Room(b, req) == IF b.tail >= b.head THEN b.size - b.tail + b.head > req
                                    ELSE b.head - b.tail > req

(* The ring grows at its end.  If the messages wrap, those from head on    *)
(* move to the new end.                                                    *)
MovedTo(b, n, p) == IF b.tail < b.head /\ p >= b.head THEN p + n ELSE p

Enlarged(b, n) ==
  [size |-> b.size + n, head |-> MovedTo(b, n, b.head), tail |-> b.tail,
   tags |-> [i \in DOMAIN b.tags |-> [b.tags[i] EXCEPT !.buf = MovedTo(b, n, @)]],
   mem  |-> [p \in 0..(b.size + n - 1) |->
               IF p < b.size /\ MovedTo(b, n, p) = p THEN b.mem[p]
               ELSE IF b.tail < b.head /\ p - n >= b.head THEN b.mem[p - n] ELSE 0]]

Grown(b, req) == b.size + b.size \div 2 + req

(* realloc moves the ring by m bytes.  head, tail and the tags follow by    *)
(* int offset = p - top, which is m only if m is an int.                    *)
Displaced(b, d) ==
  [b EXCEPT !.head = @ + d, !.tail = @ + d,
            !.tags = [i \in DOMAIN @ |-> IF i \in Live(b) THEN [b.tags[i] EXCEPT !.buf = @ + d]
                                        ELSE b.tags[i]]]

Expand_TagsStay(b, req, m) == [Enlarged(b, Grown(b, req) - b.size) EXCEPT !.tags = b.tags]

Expand(b, req, m) == Displaced(Enlarged(b, Grown(b, req) - b.size), AsInt(m) - m)

Written(b, datum) ==
  LET at(p) == ((p - b.tail) % b.size) + 1
  IN  [b EXCEPT !.mem  = [p \in DOMAIN @ |-> IF at(p) <= Len(datum) THEN datum[at(p)] ELSE @[p]],
                !.tail = Cell(b, @, Len(datum) + 1)]

Store(b, datum) == AddTag(Written(b, datum), b.tail, Len(datum))

Reset(b) == IF Empty(b) THEN [b EXCEPT !.head = 0, !.tail = 0] ELSE b

Put(b, datum, m) ==
  LET r == Reset(b)
  IN  Store(IF Room(r, Len(datum)) THEN r ELSE Expand(r, Len(datum), m), datum)

(* The put grows the ring, and its pointers do not follow or its new size   *)
(* is no int: what is stored then goes anywhere.                            *)
Wild(b, req, m) ==
  ~Room(Reset(b), req) /\ (AsInt(m) # m \/ AsInt(Grown(b, req)) # Grown(b, req))

(* The ring without the message, and the messages that end where it began. *)
Without(b, id) ==
  LET tag  == b.tags[id]
      gone == {Cell(b, tag.buf, i) : i \in 1..tag.bytes}
  IN  [b EXCEPT !.tags = [@ EXCEPT ![id] = Null],
                !.mem  = [p \in DOMAIN @ |-> IF p \in gone THEN 0 ELSE @[p]]]

Front(b, id) == {i \in Live(b) \ {id} : End(b, i) = b.tags[id].buf}

Remove_HeadOnly(b, id) ==
  LET tag == b.tags[id]
  IN  IF tag.buf = b.head THEN [Without(b, id) EXCEPT !.head = Fixup(b, @ + tag.bound)]
                          ELSE Without(b, id)

Remove(b, id) ==
  LET tag   == b.tags[id]
      front == Front(b, id)
  IN  IF tag.buf = b.head THEN [Without(b, id) EXCEPT !.head = Fixup(b, @ + tag.bound)]
      ELSE IF front # {} THEN [Without(b, id) EXCEPT !.tags[Min(front)].bound = @ + tag.bound]
      ELSE Without(b, id)

(***************************************************************************)
(* The shape of a ring.  Seen from head on, each message and what was left *)
(* to it is a stretch of its own, and all stretches end before tail; at    *)
(* least one byte of the ring is never used.                               *)
(***************************************************************************)
Tag == [buf : Int, bytes : Nat, bound : Nat]

RingType(b) ==
  /\ b.size \in Nat \ {0}
  /\ b \in [size : {b.size}, head : 0 .. b.size, tail : 0 .. b.size - 1, tags : Seq(Tag),
            mem : [0 .. b.size - 1 -> Int]]

Dist(b, p) == IF p >= b.head THEN p - b.head ELSE p - b.head + b.size
Fill(b) == Dist(b, b.tail)

From(b, id) == Dist(b, b.tags[id].buf)
To(b, id) == From(b, id) + b.tags[id].bound

RingShape(b) ==
  /\ \A id \in Live(b) :
       /\ b.tags[id].buf \in 0 .. b.size - 1
       /\ 0 < b.tags[id].bytes /\ b.tags[id].bytes <= b.tags[id].bound
       /\ To(b, id) <= Fill(b)
  /\ \A i, j \in Live(b) : i # j => To(b, i) <= From(b, j) \/ To(b, j) <= From(b, i)

RingOK(b) == RingType(b) /\ RingShape(b)

(* One stretch begins where another ends, as long as none ended exactly at *)
(* bottom; between head and bottom this is so even then.                   *)
EndsAtBottom(b) == b.head = b.size \/ \E id \in Live(b) : End(b, id) = b.size

Starts(b) == {From(b, id) : id \in Live(b)} \cup {Fill(b)}
Stops(b) == {To(b, id) : id \in Live(b)} \cup {0}

RingTiled(b) ==
  /\ \A d \in Starts(b) : d <= b.size - b.head => d \in Stops(b)
  /\ EndsAtBottom(b) \/ Starts(b) = Stops(b)
==============================================================================
