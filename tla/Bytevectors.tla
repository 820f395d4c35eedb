----------------------------- MODULE Bytevectors ------------------------------
(***************************************************************************)
(* Integers in a bytevector (subr_bvector.cpp), on a little-endian machine *)
(* whose word has four octets: one octet stands for 8 bits, two for 16 and *)
(* for 32, four for 64, so that a fixnum holds all but the widest.  A      *)
(* literal of the program's text may be read only.  IEEE numbers and text  *)
(* are left out.                                                           *)
(***************************************************************************)
EXTENDS Procedures, SequencesExt

ASSUME OctetAssumption == DigitBits % 4 = 0

OctetBits == DigitBits \div 4

OctetBase == 2 ^ OctetBits

Bytes(elts) == [type |-> "bytevector", literal |-> FALSE, elts |-> elts]

Accesses == {"little", "big", "native", "c"}

(* The index is looked at before it is known that the access is aligned,   *)
(* or that the byte order is a name of one.                                *)
Within(bv, k, octets, access) ==
  /\ IsFixnum(k) /\ k.n >= 0 /\ k.n + octets <= Len(bv.elts)
  /\ access \in Accesses
  /\ access = "native" => k.n % octets = 0

Writable(bv, k, octets, access) == ~bv.literal /\ Within(bv, k, octets, access)

RECURSIVE LittleEndian(_)
LittleEndian(octets) ==
  IF octets = <<>> THEN 0 ELSE Head(octets) + OctetBase * LittleEndian(Tail(octets))

Loaded(octets, access) == LittleEndian(IF access = "big" THEN Reverse(octets) ELSE octets)

Stored(n, octets, access) ==
  LET little == [i \in 1..octets |-> (n \div OctetBase ^ (i - 1)) % OctetBase]
  IN  IF access = "big" THEN Reverse(little) ELSE little

Put(bv, k, octets) ==
  [bv EXCEPT !.elts = [i \in DOMAIN @ |-> IF i - k.n \in DOMAIN octets THEN octets[i - k.n] ELSE @[i]]]

WordRange(signed, bits) == IF signed THEN Signed(bits) ELSE 0..(2 ^ bits - 1)

Datum(bv, k, octets, access, signed) ==
  LET n == Loaded(SubSeq(bv.elts, k.n + 1, k.n + octets), access)
  IN  IF n \in WordRange(signed, octets * OctetBits) THEN n ELSE n - OctetBase ^ octets

(***************************************************************************)
(* 8 and 16 bits, which no more than a fixnum is taken for.                *)
(***************************************************************************)
SmallRef(bv, k, octets, access, signed) ==
  IF Within(bv, k, octets, access) THEN MakeFixnum(Datum(bv, k, octets, access, signed)) ELSE Refused

SmallSet(bv, k, octets, access, signed, x) ==
  IF Writable(bv, k, octets, access) /\ IsFixnum(x)
  THEN IF x.n \in WordRange(signed, octets * OctetBits) THEN Put(bv, k, Stored(x.n, octets, access)) ELSE Refused
  ELSE Refused

(***************************************************************************)
(* 32 and 64 bits.                                                         *)
(***************************************************************************)
WideRef(bv, k, octets, access, signed) ==
  IF Within(bv, k, octets, access) THEN IntToInteger(Datum(bv, k, octets, access, signed)) ELSE Refused

Converted(x, signed, bits) ==
  IF ~IsNumber(x) THEN {}
  ELSE IF ~IsInteger(x) THEN {} ELSE IF signed THEN ToSigned(x, bits) ELSE ToUnsigned(x, bits)

HalfSet(bv, k, access, signed, x) ==
  LET word == Converted(x, signed, DigitBits \div 2)
  IN  IF Writable(bv, k, 2, access) /\ word # {} THEN Put(bv, k, Stored(Max(word), 2, access)) ELSE Refused

(* bytevector-s64-set! writes big-endian numbers with BE32.                *)
WordSet(bv, k, access, signed, x) ==
  LET word   == Converted(x, signed, DigitBits)
      octets == IF signed /\ access = "big" THEN 2 ELSE 4
  IN  IF Writable(bv, k, 4, access) /\ word # {} THEN Put(bv, k, Stored(Max(word), octets, access)) ELSE Refused

(***************************************************************************)
(* The types of C.  What is written may be signed or not; a char takes all *)
(* that a short does.                                                      *)
(***************************************************************************)
CTypes == [char |-> 1, short |-> 2, int |-> 2, long |-> 4]

CRef(bv, k, type, signed) ==
  IF CTypes[type] < 4 THEN SmallRef(bv, k, CTypes[type], "c", signed) ELSE WideRef(bv, k, 4, "c", signed)

CSetSmall(bv, k, octets, x) ==
  IF Writable(bv, k, octets, "c") /\ IsFixnum(x)
  THEN IF x.n >= -(OctetBase ^ octets \div 2) /\ x.n < OctetBase ^ 2
       THEN Put(bv, k, Stored(x.n, octets, "c")) ELSE Refused
  ELSE Refused

CSetWide(bv, k, octets, x) ==
  LET word == IF IsNumber(x) /\ IsInteger(x) THEN Converted(x, SignOf(x) < 0, octets * OctetBits) ELSE {}
  IN  IF Writable(bv, k, octets, "c") /\ word # {} THEN Put(bv, k, Stored(Max(word), octets, "c")) ELSE Refused

CSet(bv, k, type, x) ==
  IF type \in {"char", "short"} THEN CSetSmall(bv, k, CTypes[type], x) ELSE CSetWide(bv, k, CTypes[type], x)

(***************************************************************************)
(* Whole bytevectors.                                                      *)
(***************************************************************************)
IsOctetValue(x) == x.n >= -(OctetBase \div 2) /\ x.n < OctetBase

MakeBytevector(count, x) ==
  IF IsFixnum(count) /\ IsFixnum(x)
  THEN IF count.n >= 0 /\ IsOctetValue(x) THEN Bytes([i \in 1..count.n |-> x.n % OctetBase]) ELSE Refused
  ELSE Refused

Fill(bv, x) ==
  IF ~bv.literal /\ IsFixnum(x)
  THEN IF IsOctetValue(x) THEN [bv EXCEPT !.elts = [i \in DOMAIN @ |-> x.n % OctetBase]] ELSE Refused
  ELSE Refused

(* memmove takes a negative size for a huge one: what follows is open.     *)
Unbounded == [type |-> "unbounded"]

CopyInto(from, source, to, target, size) ==
  IF ~IsFixnum(source) \/ ~IsFixnum(target) \/ ~IsFixnum(size) \/ to.literal THEN Refused
  ELSE CASE \/ source.n \notin 0..Len(from.elts) \/ target.n \notin 0..Len(to.elts)
            \/ source.n + size.n > Len(from.elts) \/ target.n + size.n > Len(to.elts) -> Refused
         [] size.n < 0 -> Unbounded
         [] OTHER      -> Put(to, target, SubSeq(from.elts, source.n + 1, source.n + size.n))

U8List(bv) == [i \in DOMAIN bv.elts |-> MakeFixnum(bv.elts[i])]

OfU8List(list) ==
  IF \A i \in DOMAIN list : IsFixnum(list[i])
  THEN IF \A i \in DOMAIN list : list[i].n \in 0..(OctetBase - 1)
       THEN Bytes([i \in DOMAIN list |-> list[i].n]) ELSE Refused
  ELSE Refused

(* The octets before the first that is zero.                               *)
StrLen(bv) == Fixnum(Min({i \in 0..Len(bv.elts) : i = Len(bv.elts) \/ bv.elts[i + 1] = 0}))
==============================================================================
