------------------------------ MODULE ByteReader ------------------------------
(***************************************************************************)
(* ByteReader: bounds-checked little-endian reads from a buffer.  A read   *)
(* is given by the position it starts at and the kind of its field; one    *)
(* that does not fit in the buffer throws BufferOverrunError, and its end  *)
(* is then past the buffer.                                                *)
(***************************************************************************)
EXTENDS Integers, SequencesExt

CONSTANT Widths    \* the bytes of a u16, a u32 and a u64: 2, 4 and 8 in the code

Sizes == {"u16", "u32", "u64"}

ASSUME WidthsAssumption ==
  /\ Widths \in [Sizes -> Nat \ {0}]
  /\ Widths["u16"] <= Widths["u32"] /\ Widths["u32"] <= Widths["u64"]

Byte == 0 .. 255
WordLimit == 256 ^ Widths["u64"]     \* one past the greatest u64

ASSUME WordLimitAssumption == WordLimit \in Nat \ {0}

MaxU32 == 256 ^ Widths["u32"] - 1
-----------------------------------------------------------------------------
InBounds(b, p, n) == p + n <= Len(b)

Past(b) == Len(b) + 1

IsVariable(kind) == kind \in {"uleb", "sleb"}

Width(kind) ==
  CASE kind = "u8" -> 1
    [] kind \in {"u16", "s16"} -> Widths["u16"]
    [] kind \in {"u32", "s32"} -> Widths["u32"]
    [] kind = "u64" -> Widths["u64"]

\* The first position after p that one of the last bytes is at; dflt if none is.
EndingAt(b, p, lasts, dflt) ==
  LET ends == {q \in p + 1 .. Len(b) : b[q] \in lasts}
  IN IF ends = {} THEN dflt ELSE Min(ends)

\* The position after the field at p.  A string may lack its terminator: it
\* then ends with the buffer.
FieldEnd(b, p, kind) ==
  CASE IsVariable(kind) -> EndingAt(b, p, 0 .. 127, Past(b))
    [] kind = "string" -> EndingAt(b, p, {0}, Max({p, Len(b)}))
    [] OTHER -> IF InBounds(b, p, Width(kind)) THEN p + Width(kind) ELSE Past(b)

Overruns(b, p, kind) == FieldEnd(b, p, kind) > Len(b)

Field(b, p, kind) == SubSeq(b, p + 1, FieldEnd(b, p, kind))

\* The bytes of the string at p, without the terminator.
StringAt(b, p) == SubSeq(b, p + 1, EndingAt(b, p, {0}, Past(b)) - 1)
-----------------------------------------------------------------------------
\* The number that s writes in the given base, the lowest digit first, as a
\* word: what does not fit in one is lost.
Assembled(s, base) ==
  LET from[i \in 1 .. Len(s) + 1] ==
        IF i > Len(s) THEN 0 ELSE ((s[i] % base) + base * from[i + 1]) % WordLimit
  IN from[1]

\* So too, with the rest of the word filled with the sign, the top bit of s.
SignExtended(s, base) ==
  IF s # <<>> /\ s[Len(s)] % base >= base \div 2
  THEN Assembled(s \o [i \in 1 .. 8 * Widths["u64"] |-> base - 1], base)
  ELSE Assembled(s, base)

\* The value of the field at p, as a u64.  A leb has seven bits in each byte.
Value(b, p, kind) ==
  LET s == Field(b, p, kind)
  IN CASE kind = "uleb" -> Assembled(s, 128)
       [] kind = "sleb" -> SignExtended(s, 128)
       [] kind \in {"s16", "s32"} -> SignExtended(s, 256)
       [] OTHER -> Assembled(s, 256)
==============================================================================
