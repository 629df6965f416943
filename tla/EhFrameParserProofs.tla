-------------------------- MODULE EhFrameParserProofs --------------------------
(***************************************************************************)
(* Whatever bytes the unwind table of a file holds, the parser stays in    *)
(* it, goes forwards, and finds only ranges the pipeline can use.          *)
(***************************************************************************)
EXTENDS EhFrameParser, WellFoundedInduction, TLAPS

AnyWord == 0 .. WordLimit - 1

\* The lemmas on dataAt, which the code map rests on too.
Map == INSTANCE CodeMapBuilderProofs WITH
  regions <- <<>>, seen <- 0, anySection <- FALSE
-----------------------------------------------------------------------------
(***************************************************************************)
(* The reads of a ByteReader.                                              *)
(***************************************************************************)

\* A set of numbers that is not empty has a least element.
LEMMA HasLeast ==
  ASSUME NEW S \in SUBSET Nat, S # {}
  PROVE  \E m \in S : \A x \in S : m <= x
<1>1. PICK m \in S : \A x \in S : ~ (<<x, m>> \in OpToRel(<, Nat))
  BY NatLessThanWellFounded, WFMin
<1>2. \A x \in S : m <= x
  <2> SUFFICES ASSUME NEW x \in S, x < m PROVE FALSE
    OBVIOUS
  <2> QED
    BY <1>1 DEF OpToRel
<1> QED
  BY <1>2

\* Induction, as a fact about sets.
LEMMA Inductive ==
  ASSUME NEW S, 0 \in S, \A n \in Nat : n \in S => n + 1 \in S
  PROVE  Nat \subseteq S
<1> SUFFICES ASSUME Nat \ S # {} PROVE FALSE
  OBVIOUS
<1>1. PICK m \in Nat \ S : \A x \in Nat \ S : m <= x
  BY HasLeast
<1>2. m # 0 /\ m - 1 \in Nat /\ m - 1 \in S
  BY <1>1
<1> QED
  BY <1>1, <1>2

LEMMA Remainder ==
  ASSUME NEW a \in Int, NEW n \in Nat \ {0}
  PROVE  a % n \in 0 .. n - 1
  OBVIOUS

\* The step of Assembled.
Carry(s, base, i, rest) == ((s[i] % base) + base * rest) % WordLimit

LEMMA CarryIsAWord ==
  ASSUME NEW s \in Seq(Byte), NEW base \in Nat \ {0}, NEW i \in DOMAIN s,
         NEW rest \in AnyWord
  PROVE  Carry(s, base, i, rest) \in AnyWord
<1>1. s[i] % base \in Nat
  <2>1. PICK d \in Byte : d = s[i]
    OBVIOUS
  <2>2. \A x \in Byte : x % base \in Nat
    BY Remainder DEF Byte
  <2> QED
    BY <2>1, <2>2
<1>2. base * rest \in Nat
  BY DEF AnyWord
<1> DEFINE sum == (s[i] % base) + base * rest
<1>3. sum \in Nat
  BY <1>1, <1>2
<1> HIDE DEF sum
<1>4. sum % WordLimit \in 0 .. WordLimit - 1
  BY <1>3, WordLimitAssumption
<1> QED
  BY <1>4 DEF Carry, AnyWord, sum

\* The digits from the place i on make a word, whatever they are.
LEMMA AssembledIsAWord ==
  ASSUME NEW s \in Seq(Byte), NEW base \in Nat \ {0}
  PROVE  Assembled(s, base) \in AnyWord
<1>1. PICK n \in Nat : n = Len(s) /\ DOMAIN s = 1 .. n
  OBVIOUS
<1> DEFINE Places == 1 .. n + 1
           Body(f, i) == IF i > n THEN 0 ELSE Carry(s, base, i, f[i + 1])
           IsFold(f) == f = [i \in Places |-> Body(f, i)]
           fold == CHOOSE f : IsFold(f)
           Partial(m, f) ==
             /\ f \in [Places -> AnyWord]
             /\ \A i \in Places : i > n - m => f[i] = Body(f, i)
           Folded == {m \in Nat : m <= n => \E f : Partial(m, f)}
<1>2. 0 \in AnyWord
  BY WordLimitAssumption DEF AnyWord
<1>3. 0 \in Folded
  <2> DEFINE f == [i \in Places |-> 0]
  <2>1. Partial(0, f)
    BY <1>1, <1>2
  <2> QED
    BY <2>1
<1>4. ASSUME NEW m \in Nat, m \in Folded PROVE m + 1 \in Folded
  <2> SUFFICES ASSUME m + 1 <= n PROVE \E f : Partial(m + 1, f)
    OBVIOUS
  <2>1. PICK f : Partial(m, f)
    BY <1>1, <1>4
  <2> DEFINE k == n - m
             g == [f EXCEPT ![k] = Carry(s, base, k, f[k + 1])]
  <2>2. k \in DOMAIN s /\ k \in Places /\ k + 1 \in Places
    BY <1>1
  <2>3. f \in [Places -> AnyWord]
    BY <2>1
  <2>4. Carry(s, base, k, f[k + 1]) \in AnyWord
    <3>1. f[k + 1] \in AnyWord
      BY <2>2, <2>3
    <3> HIDE DEF k
    <3> QED
      BY <2>2, <3>1, CarryIsAWord
  <2>5. /\ g \in [Places -> AnyWord] /\ g[k] = Carry(s, base, k, f[k + 1])
        /\ \A i \in Places : i # k => g[i] = f[i]
    BY <2>2, <2>3, <2>4
  <2>6. \A i \in Places : i > k => Body(g, i) = Body(f, i)
    <3> SUFFICES ASSUME NEW i \in Places, i > k, i <= n
                 PROVE  g[i + 1] = f[i + 1]
      BY <1>1
    <3>1. i + 1 \in Places /\ i + 1 # k
      BY <1>1, <2>2
    <3> HIDE DEF g, k, Places
    <3> QED
      BY <2>5, <3>1
  <2>7. ASSUME NEW i \in Places, i > n - (m + 1)
        PROVE  g[i] = Body(g, i)
    <3>1. CASE i = k
      <4>1. g[k + 1] = f[k + 1]
        BY <2>2, <2>5
      <4>2. ~ (k > n)
        BY <1>1, <2>2
      <4> HIDE DEF g, k
      <4> QED
        BY <2>5, <3>1, <4>1, <4>2
    <3>2. CASE i # k
      <4>1. i > k
        BY <1>1, <2>7, <3>2
      <4>2. f[i] = Body(f, i)
        BY <2>1, <4>1
      <4> HIDE DEF g, k, Body
      <4> QED
        BY <2>5, <2>6, <3>2, <4>1, <4>2
    <3> QED
      BY <3>1, <3>2
  <2> HIDE DEF g, Body
  <2>8. Partial(m + 1, g)
    BY <2>5, <2>7
  <2> QED
    BY <2>8
<1>5. \E f : IsFold(f) /\ f \in [Places -> AnyWord]
  <2>1. n \in Folded
    <3> HIDE DEF Folded
    <3>1. Nat \subseteq Folded
      BY <1>3, <1>4, Inductive
    <3> QED
      BY <1>1, <3>1
  <2>2. PICK f : Partial(n, f)
    BY <1>1, <2>1
  <2>3. \A i \in Places : f[i] = Body(f, i)
    BY <1>1, <2>2
  <2>4. f = [i \in Places |-> f[i]]
    BY <2>2
  <2> HIDE DEF Body, Places
  <2>5. f = [i \in Places |-> Body(f, i)]
    BY <2>3, <2>4
  <2> QED
    BY <2>2, <2>5
<1> HIDE DEF Body
<1>6. IsFold(fold)
  BY <1>5
<1>7. Assembled(s, base) = fold[1]
  BY <1>1, Zenon DEF Assembled, Body, Carry
<1> HIDE DEF fold
<1> DEFINE Typed == {m \in Nat : m <= n => fold[n + 1 - m] \in AnyWord}
<1>8. \A i \in Places : fold[i] = Body(fold, i)
  <2> HIDE DEF Body
  <2> QED
    BY <1>6
<1>9. 0 \in Typed
  <2>1. n + 1 \in Places /\ n + 1 > n
    BY <1>1
  <2>2. fold[n + 1] = 0
    BY <1>8, <2>1 DEF Body
  <2> QED
    BY <1>1, <1>2, <2>2
<1>10. ASSUME NEW m \in Nat, m \in Typed PROVE m + 1 \in Typed
  <2> SUFFICES ASSUME m + 1 <= n
               PROVE  fold[n + 1 - (m + 1)] \in AnyWord
    OBVIOUS
  <2> DEFINE k == n - m
  <2>1. k \in DOMAIN s /\ k \in Places /\ ~ (k > n) /\ k + 1 = n + 1 - m
        /\ k = n + 1 - (m + 1)
    BY <1>1
  <2>2. fold[k + 1] \in AnyWord
    BY <1>1, <1>10, <2>1
  <2> HIDE DEF k
  <2>3. Carry(s, base, k, fold[k + 1]) \in AnyWord
    BY <2>1, <2>2, CarryIsAWord
  <2>4. fold[k] = Carry(s, base, k, fold[k + 1])
    BY <1>8, <2>1 DEF Body
  <2> QED
    BY <2>1, <2>3, <2>4
<1>11. fold[1] \in AnyWord
  <2> HIDE DEF Typed
  <2>1. n \in Typed
    BY <1>1, <1>9, <1>10, Inductive
  <2> QED
    BY <1>1, <2>1 DEF Typed
<1> QED
  BY <1>7, <1>11

\* A part of a sequence has no other elements.
LEMMA PartOfBytes ==
  ASSUME NEW b \in Seq(Byte), NEW p \in Nat, NEW e \in Int, e <= Len(b)
  PROVE  SubSeq(b, p + 1, e) \in Seq(Byte)
<1>1. CASE e < p + 1
  BY <1>1
<1>2. CASE e >= p + 1
  BY <1>2
<1> QED
  BY <1>1, <1>2

\* The kinds of the fields that have a value.
Kinds == {"u8", "u16", "s16", "u32", "s32", "u64", "uleb", "sleb"}

LEMMA WidthFacts == \A kind \in Kinds : IsVariable(kind) \/ Width(kind) \in Nat \ {0}
  BY WidthsAssumption DEF Kinds, IsVariable, Width, Sizes

LEMMA EndingAtFacts ==
  ASSUME NEW b \in Seq(Byte), NEW p \in Nat, NEW lasts, NEW dflt
  PROVE  \/ EndingAt(b, p, lasts, dflt) = dflt
         \/ EndingAt(b, p, lasts, dflt) \in p + 1 .. Len(b)
<1> DEFINE ends == {q \in p + 1 .. Len(b) : b[q] \in lasts}
<1>1. ASSUME ends # {} PROVE Min(ends) \in ends
  <2>1. ends \in SUBSET Nat
    OBVIOUS
  <2> HIDE DEF ends
  <2>2. PICK m \in ends : \A x \in ends : m <= x
    BY <1>1, <2>1, HasLeast
  <2> QED
    BY <2>2 DEF Min
<1>2. EndingAt(b, p, lasts, dflt) = IF ends = {} THEN dflt ELSE Min(ends)
  BY DEF EndingAt
<1>3. ends \subseteq p + 1 .. Len(b)
  OBVIOUS
<1> HIDE DEF ends
<1> QED
  BY <1>1, <1>2, <1>3

\* A read moves the position on, or past the end of the buffer.
LEMMA FieldEndFacts ==
  ASSUME NEW b \in Seq(Byte), NEW p \in Nat, NEW kind \in Kinds
  PROVE  /\ FieldEnd(b, p, kind) \in Nat
         /\ FieldEnd(b, p, kind) = Past(b) \/ p < FieldEnd(b, p, kind)
<1>1. CASE IsVariable(kind)
  <2>1. FieldEnd(b, p, kind) = EndingAt(b, p, 0 .. 127, Past(b))
    BY <1>1 DEF FieldEnd, IsVariable
  <2> QED
    BY <2>1, EndingAtFacts DEF Past
<1>2. CASE ~ IsVariable(kind)
  <2>1. FieldEnd(b, p, kind) = IF InBounds(b, p, Width(kind)) THEN p + Width(kind) ELSE Past(b)
    <3>1. kind # "string"
      BY DEF Kinds
    <3> QED
      BY <1>2, <3>1, Zenon DEF FieldEnd
  <2>2. Width(kind) \in Nat \ {0}
    BY <1>2, WidthFacts
  <2> QED
    BY <2>1, <2>2 DEF Past
<1> QED
  BY <1>1, <1>2

\* A string ends in the buffer, terminated or not.
LEMMA StringFacts ==
  ASSUME NEW b \in Seq(Byte), NEW p \in Nat, p <= Len(b)
  PROVE  /\ FieldEnd(b, p, "string") \in p .. Len(b)
         /\ StringAt(b, p) \in Seq(Byte)
<1>1. Max({p, Len(b)}) = Len(b)
  BY DEF Max
<1>2. FieldEnd(b, p, "string") = EndingAt(b, p, {0}, Len(b))
  BY <1>1 DEF FieldEnd, IsVariable
<1>3. FieldEnd(b, p, "string") \in p .. Len(b)
  BY <1>2, EndingAtFacts
<1>4. EndingAt(b, p, {0}, Past(b)) - 1 \in Int /\ EndingAt(b, p, {0}, Past(b)) - 1 <= Len(b)
  BY EndingAtFacts DEF Past
<1> QED
  BY <1>3, <1>4, PartOfBytes DEF StringAt

\* What is read is a word.
LEMMA ValueIsAWord ==
  ASSUME NEW b \in Seq(Byte), NEW p \in Nat, NEW kind \in Kinds, ~ Overruns(b, p, kind)
  PROVE  Value(b, p, kind) \in AnyWord
<1> DEFINE s == Field(b, p, kind)
<1>1. s \in Seq(Byte)
  BY FieldEndFacts, PartOfBytes DEF Overruns, Field
<1>2. ASSUME NEW base \in {128, 256} PROVE SignExtended(s, base) \in AnyWord
  <2> DEFINE fill == [i \in 1 .. 8 * Widths["u64"] |-> base - 1]
  <2>1. 8 * Widths["u64"] \in Nat
    BY WidthsAssumption DEF Sizes
  <2>2. base - 1 \in Byte /\ base \in Nat \ {0}
    BY DEF Byte
  <2>3. fill \in Seq(Byte)
    BY <2>1, <2>2
  <2> HIDE DEF fill, s
  <2>4. s \o fill \in Seq(Byte)
    BY <1>1, <2>3
  <2>5. Assembled(s \o fill, base) \in AnyWord /\ Assembled(s, base) \in AnyWord
    BY <1>1, <2>2, <2>4, AssembledIsAWord
  <2> QED
    BY <2>5, Zenon DEF SignExtended, fill
<1>3. Assembled(s, 128) \in AnyWord /\ Assembled(s, 256) \in AnyWord
  BY <1>1, AssembledIsAWord
<1>4. Value(b, p, kind) \in
        {Assembled(s, 128), Assembled(s, 256), SignExtended(s, 128), SignExtended(s, 256)}
  <2> HIDE DEF s
  <2>1. \/ Value(b, p, kind) = Assembled(s, 128)
        \/ Value(b, p, kind) = SignExtended(s, 128)
        \/ Value(b, p, kind) = SignExtended(s, 256)
        \/ Value(b, p, kind) = Assembled(s, 256)
    BY DEF Value, s, Kinds
  <2> QED
    BY <2>1
<1> HIDE DEF s
<1> QED
  BY <1>2, <1>3, <1>4

-----------------------------------------------------------------------------
(***************************************************************************)
(* Pointers and blobs.                                                     *)
(***************************************************************************)

LEMMA KindFacts == \A e \in Byte : IsKnown(e) => Kind(e) \in Kinds
<1> SUFFICES ASSUME NEW f \in {0, 1, 2, 3, 4, 9, 10, 11, 12} PROVE PointerField[f] \in Kinds
  BY DEF IsKnown, Kind, PointerField
<1>1. PointerField[f] = CASE f \in {0, 4, 12} -> "u64" [] f = 1 -> "uleb" [] f = 2 -> "u16"
                          [] f = 3 -> "u32" [] f = 9 -> "sleb" [] f = 10 -> "s16"
                          [] f = 11 -> "s32"
  BY DEF PointerField
<1> QED
  BY <1>1 DEF Kinds

LEMMA PointerEndFacts ==
  ASSUME NEW b \in Seq(Byte), NEW p \in Nat, NEW e \in Byte
  PROVE  PointerEnd(b, p, e) \in Nat
  BY KindFacts, FieldEndFacts DEF PointerEnd

LEMMA PointerIsAWord ==
  ASSUME NEW b \in Seq(Byte), NEW p \in Nat, NEW e \in Byte, NEW vaddr \in AnyWord,
         Decodes(e), ~ Overruns(b, p, Kind(e))
  PROVE  Pointer(b, p, e, vaddr) \in AnyWord
<1>1. Value(b, p, Kind(e)) \in Nat
  BY KindFacts, ValueIsAWord DEF Decodes, AnyWord
<1>2. Base(e, vaddr, p) \in Nat
  <2>1. Base(e, vaddr, p) \in {vaddr + p, vaddr, 0}
    BY DEF Base
  <2> QED
    BY <2>1 DEF AnyWord
<1>3. Base(e, vaddr, p) + Value(b, p, Kind(e)) \in Int
  BY <1>1, <1>2
<1> QED
  BY <1>3, Remainder, WordLimitAssumption DEF Pointer, AnyWord

IsBlob(blob) == blob.vaddr \in AnyWord /\ blob.bytes \in Seq(Byte)

LEMMA NoBlobIsBlob == IsBlob(NoBlob)
  BY WordLimitAssumption DEF IsBlob, NoBlob, AnyWord

\* The lemmas on dataAt are about this file.
LEMMA SameFile ==
  /\ Map!AnyWord = AnyWord
  /\ Map!NoData = NoData
  /\ \A addr : Map!DataAt(addr) = DataAt(addr)
  /\ \A f : Map!IsFile(f) <=> IsFile(f)
<1>1. Map!AnyWord = AnyWord
  BY DEF Map!AnyWord, AnyWord, Map!WordLimit, WordLimit
<1>2. Map!NoData = NoData
  BY DEF Map!NoData, NoData
<1>3. \A addr : Map!DataAt(addr) = DataAt(addr)
  BY DEF Map!DataAt, DataAt, Map!SectionsOver, SectionsOver, Map!LoadedOver, LoadedOver,
         Map!DataOfSection, DataOfSection, Map!DataOfSegment, DataOfSegment,
         Map!DataFrom, DataFrom, Map!InRange, InRange, Map!FirstOf, FirstOf,
         Map!Lesser, Lesser, Map!WordLimit, WordLimit, Map!NoData, NoData
<1>4. \A f : Map!IsFile(f) <=> IsFile(f)
  BY DEF Map!IsFile, IsFile, Map!Section, Section, Map!Segment, Segment, Map!Byte, Byte,
         Map!WordLimit, WordLimit
<1> QED
  BY <1>1, <1>2, <1>3, <1>4

LEMMA MapAssumptions ==
  /\ Widths \in [Map!Sizes -> Nat \ {0}]
  /\ Widths["u16"] <= Widths["u32"] /\ Widths["u32"] <= Widths["u64"]
  /\ Map!WordLimit \in Nat \ {0}
  /\ \A f \in Files : Map!IsFile(f)
<1>1. Map!Sizes = Sizes /\ Map!WordLimit = WordLimit
  BY DEF Map!Sizes, Sizes, Map!WordLimit, WordLimit
<1> QED
  BY <1>1, SameFile, WidthsAssumption, WordLimitAssumption, FilesAssumption

LEMMA BlobAtIsBlob ==
  ASSUME IsFile(file), NEW addr \in AnyWord, NEW size \in Nat, IsMapped(addr)
  PROVE  IsBlob(BlobAt(addr, size))
<1> DEFINE d == DataAt(addr)
<1>1. /\ d.from \in Nat /\ d.size \in Nat
      /\ d.from + d.size <= Len(file.bytes)
  <2>1. /\ Map!IsFile(file) /\ addr \in Map!AnyWord
        /\ d = Map!DataAt(addr) /\ d # Map!NoData
    BY SameFile DEF IsMapped
  <2> HIDE DEF d
  <2> QED
    BY <2>1, MapAssumptions, Map!DataAtIsBacked
<1> HIDE DEF d
<1>2. file.bytes \in Seq(Byte)
  BY DEF IsFile
<1>3. /\ d.from + Lesser(size, d.size) \in Int
      /\ d.from + Lesser(size, d.size) <= Len(file.bytes)
  BY <1>1, <1>2 DEF Lesser
<1>4. SubSeq(file.bytes, d.from + 1, d.from + Lesser(size, d.size)) \in Seq(Byte)
  BY <1>1, <1>2, <1>3, PartOfBytes
<1> QED
  BY <1>4 DEF IsBlob, BlobAt, d

\* The first of some places in a sequence is one of them.
LEMMA FirstOfIsIn ==
  ASSUME NEW S \in SUBSET Nat, S # {}
  PROVE  FirstOf(S) \in S
<1>1. PICK m \in S : \A x \in S : m <= x
  BY HasLeast
<1> QED
  BY <1>1 DEF FirstOf

LEMMA SectionBlob ==
  ASSUME IsFile(file), NEW name, HasSection(name)
  PROVE  IsBlob(BlobOfSection(name))
<1> DEFINE i == FirstOf(SectionsNamed(name))
<1>1. i \in DOMAIN file.sections
  <2>1. SectionsNamed(name) \in SUBSET Nat /\ SectionsNamed(name) # {}
    BY DEF SectionsNamed, HasSection, IsFile
  <2> QED
    BY <2>1, FirstOfIsIn DEF SectionsNamed
<1> HIDE DEF i
<1>2. file.sections[i].address \in AnyWord /\ file.sections[i].size \in Nat
  BY <1>1 DEF IsFile, AnyWord
<1>3. SectionNamed(name) = file.sections[i]
  BY DEF SectionNamed, i
<1> QED
  BY <1>2, <1>3, BlobAtIsBlob DEF BlobOfSection, HasSection

LEMMA HeaderBlob ==
  ASSUME IsFile(file)
  PROVE  IsBlob(LocateEhFrameHdr)
<1>1. ASSUME UnwindSegments # {}
      PROVE  LET s == file.segments[FirstOf(UnwindSegments)]
             IN  IsBlob(BlobAt(s.virtualAddress, s.fileSize))
  <2> DEFINE i == FirstOf(UnwindSegments)
  <2>1. UnwindSegments \in SUBSET Nat
    BY DEF UnwindSegments, IsFile
  <2>2. i \in UnwindSegments
    BY <1>1, <2>1, FirstOfIsIn
  <2> HIDE DEF i
  <2>3. /\ file.segments[i].virtualAddress \in AnyWord /\ file.segments[i].fileSize \in Nat
        /\ IsMapped(file.segments[i].virtualAddress)
    BY <2>2 DEF UnwindSegments, IsFile, AnyWord
  <2>4. IsBlob(BlobAt(file.segments[i].virtualAddress, file.segments[i].fileSize))
    BY <2>3, BlobAtIsBlob
  <2> QED
    BY <2>4 DEF i
<1> QED
  BY <1>1, SectionBlob, NoBlobIsBlob DEF LocateEhFrameHdr

LEMMA TableBlob ==
  ASSUME IsFile(file), IsBlob(ehFrameHdr)
  PROVE  IsBlob(LocateEhFrame)
<1> DEFINE b == ehFrameHdr.bytes
           at == Pointer(b, kEhFrameHdrPrologue, b[2], ehFrameHdr.vaddr)
<1>1. ASSUME HeaderPoints(b), IsMapped(at) PROVE IsBlob(BlobAt(at, WordLimit))
  <2>1. b \in Seq(Byte) /\ ehFrameHdr.vaddr \in AnyWord
    BY DEF IsBlob
  <2>2. b[2] \in Byte
    BY <1>1, <2>1 DEF HeaderPoints, kEhFrameHdrPrologue
  <2>3. at \in AnyWord
    BY <1>1, <2>1, <2>2, PointerIsAWord DEF HeaderPoints, kEhFrameHdrPrologue
  <2> HIDE DEF at
  <2> QED
    BY <1>1, <2>3, BlobAtIsBlob, WordLimitAssumption
<1> QED
  BY <1>1, SectionBlob, NoBlobIsBlob DEF LocateEhFrame

-----------------------------------------------------------------------------
(***************************************************************************)
(* The inductive invariant.                                                *)
(***************************************************************************)

BlobsInv == IsFile(file) /\ IsBlob(ehFrameHdr) /\ IsBlob(ehFrame)

\* The reader is in the table, between entries at the end of the last one.
PlaceInv ==
  /\ pc \in {"idle", "locate", "entry", "cie", "fields", "augmentation", "fde", "done"}
  /\ pos \in 0 .. Len(Table) /\ entryStart \in 0 .. Len(Table)
  /\ idFieldPos \in 0 .. Len(Table) /\ entryEnd \in 0 .. Len(Table)
  /\ pc \in {"idle", "locate"} =>
       pos = 0 /\ entryStart = 0 /\ idFieldPos = 0 /\ entryEnd = 0
  /\ pc = "entry" => pos = entryEnd

\* What is read of a CIE, and what is remembered of those before.
CieInv ==
  /\ id \in AnyWord /\ augEnd \in AnyWord
  /\ fields \in Seq(Kinds) /\ letters \in Seq(Byte)
  /\ fdeEncoding \in Byte
  /\ \A p \in DOMAIN cieEncoding : p \in 0 .. Len(Table) /\ cieEncoding[p] \in Byte
  /\ pc \in {"idle", "locate"} => DOMAIN cieEncoding = {}

FunctionsInv == functions \in Seq(EhFrameFunction)

IInv == BlobsInv /\ PlaceInv /\ CieInv /\ FunctionsInv

LEMMA IInvIsTyped == IInv => TypeOK
  BY DEF IInv, BlobsInv, IsBlob, PlaceInv, CieInv, FunctionsInv, TypeOK, AnyWord

LEMMA InitIInv == Init => IInv
<1> SUFFICES ASSUME Init PROVE IInv
  OBVIOUS
<1> USE DEF Init, ParserInit
<1>1. BlobsInv
  BY NoBlobIsBlob, FilesAssumption DEF BlobsInv, FileInit
<1>2. Len(Table) = 0
  BY DEF Table, NoBlob
<1>3. PlaceInv
  BY <1>2 DEF PlaceInv
<1>4. CieInv
  BY WordLimitAssumption DEF CieInv, AnyWord, Byte, kPeAbsptr
<1>5. FunctionsInv
  BY DEF FunctionsInv
<1> QED
  BY <1>1, <1>3, <1>4, <1>5 DEF IInv

\* What the invariant says of the table.
LEMMA TableFacts ==
  ASSUME IInv
  PROVE  /\ Table \in Seq(Byte) /\ Len(Table) \in Nat
         /\ pos \in Nat /\ pos <= Len(Table)
         /\ \A p \in Nat : p < Len(Table) => Table[p + 1] \in Byte
<1>1. Table \in Seq(Byte)
  BY DEF IInv, BlobsInv, IsBlob, Table
<1> QED
  BY <1>1 DEF IInv, PlaceInv

\* Finding the header and the table.
LEMMA LocateIInv == IInv /\ (LocateHeader \/ LocateTable) => IInv'
<1>1. ASSUME IInv, LocateHeader PROVE IInv'
  <2>1. /\ UNCHANGED <<file, ehFrame, pos, entryVars, cieEncoding, cieVars, functions>>
        /\ IsBlob(ehFrameHdr)' /\ pc = "idle" /\ pc' = "locate"
    BY <1>1, HeaderBlob DEF LocateHeader, IInv, BlobsInv, IsBlob
  <2>2. BlobsInv'
    BY <1>1, <2>1 DEF IInv, BlobsInv, IsBlob
  <2>3. PlaceInv' /\ CieInv' /\ FunctionsInv'
    BY <1>1, <2>1 DEF IInv, PlaceInv, CieInv, FunctionsInv, Table, entryVars, cieVars
  <2> QED
    BY <2>2, <2>3 DEF IInv
<1>2. ASSUME IInv, LocateTable PROVE IInv'
  <2>1. /\ UNCHANGED <<file, ehFrameHdr, pos, entryVars, cieEncoding, cieVars, functions>>
        /\ IsBlob(ehFrame)' /\ pc = "locate" /\ pc' \in {"entry", "done"}
    BY <1>2, TableBlob DEF LocateTable, IInv, BlobsInv, IsBlob
  <2>2. BlobsInv'
    BY <1>2, <2>1 DEF IInv, BlobsInv, IsBlob
  <2>3. Len(Table)' \in Nat
    BY <2>1 DEF IsBlob, Table
  <2>4. PlaceInv'
    BY <1>2, <2>1, <2>3 DEF IInv, PlaceInv, entryVars
  <2>5. CieInv' /\ FunctionsInv'
    BY <1>2, <2>1 DEF IInv, CieInv, FunctionsInv, entryVars, cieVars
  <2> QED
    BY <2>2, <2>4, <2>5 DEF IInv
<1> QED
  BY <1>1, <1>2

\* The end of the walk changes nothing.
LEMMA StopIInv == IInv /\ Stop => IInv'
BY DEF Stop, IInv, BlobsInv, IsBlob, PlaceInv, CieInv, FunctionsInv, Table, blobs, entryVars,
       cieVars

\* A step inside an entry that keeps its results in their types.
LEMMA ReadingIInv ==
  ASSUME IInv, UNCHANGED <<file, blobs, functions>>,
         PlaceInv', CieInv'
  PROVE  IInv'
BY DEF IInv, BlobsInv, IsBlob, FunctionsInv, blobs

\* What a header that is read says of its entry: it ends behind the header, in
\* the table.
LEMMA HeaderFacts ==
  ASSUME IInv, ReadHeader
  PROVE  /\ pos <= LengthAt /\ LengthAt \in Nat /\ LengthAt < LengthEnd
         /\ LengthEnd \in Nat /\ Length \in Nat /\ Length > 0
         /\ LengthEnd + Length <= Len(Table)
         /\ FieldEnd(Table, LengthEnd, IdKind) \in 0 .. Len(Table)
         /\ Value(Table, LengthEnd, IdKind) \in AnyWord
<1>1. /\ Table \in Seq(Byte) /\ Len(Table) \in Nat /\ pos \in Nat
      /\ LengthEnd <= Len(Table) /\ Length > 0 /\ LengthEnd + Length <= Len(Table)
      /\ ~ Overruns(Table, LengthEnd, IdKind)
  BY TableFacts DEF ReadHeader, IsWhole
<1>2. IdKind \in Kinds
  BY DEF IdKind, Kinds
<1>3. LengthAt \in Nat /\ pos <= LengthAt
  BY <1>1, WidthsAssumption DEF LengthAt, Sizes
<1>4. LengthEnd \in Nat /\ LengthAt < LengthEnd
  BY <1>1, <1>2, <1>3, FieldEndFacts DEF LengthEnd, Past
<1>5. Length \in Nat
  BY <1>1, <1>2, <1>3, <1>4, ValueIsAWord DEF Length, LengthEnd, Overruns, AnyWord
<1>6. /\ FieldEnd(Table, LengthEnd, IdKind) \in 0 .. Len(Table)
      /\ Value(Table, LengthEnd, IdKind) \in AnyWord
  BY <1>1, <1>2, <1>4, FieldEndFacts, ValueIsAWord DEF Overruns
<1> QED
  BY <1>1, <1>3, <1>4, <1>5, <1>6

LEMMA HeaderReadIInv == IInv /\ ReadHeader => IInv'
<1> SUFFICES ASSUME IInv, ReadHeader PROVE IInv'
  OBVIOUS
<1>1. UNCHANGED <<file, blobs, cieEncoding, cieVars, functions>> /\ Table' = Table
  BY DEF ReadHeader, blobs, Table
<1>2. /\ entryStart' = pos /\ idFieldPos' = LengthEnd /\ entryEnd' = LengthEnd + Length
      /\ id' = Value(Table, LengthEnd, IdKind)
      /\ pos' = FieldEnd(Table, LengthEnd, IdKind)
      /\ pc' \in {"cie", "fde"}
  BY DEF ReadHeader
<1>3. PlaceInv'
  BY <1>1, <1>2, HeaderFacts, TableFacts DEF PlaceInv
<1>4. CieInv'
  BY <1>1, <1>2, HeaderFacts DEF IInv, CieInv, cieVars
<1> QED
  BY <1>1, <1>3, <1>4, ReadingIInv

\* Skipping to the end of the entry, whatever was read of it.
LEMMA SkipPlace == IInv /\ SkipToNext => PlaceInv' /\ Table' = Table
BY DEF SkipToNext, IInv, PlaceInv, Table, blobs, entryVars

\* What is remembered of a CIE is the encoding it names, where it starts.
LEMMA RememberCie ==
  ASSUME IInv, SkipToNext, RememberEncoding(fdeEncoding), UNCHANGED cieVars
  PROVE  CieInv'
<1>1. Table' = Table /\ id' = id /\ entryStart \in 0 .. Len(Table) /\ pc' = "entry"
  BY SkipPlace DEF SkipToNext, entryVars, IInv, PlaceInv
<1>2. \A p \in DOMAIN cieEncoding' : p \in 0 .. Len(Table) /\ cieEncoding'[p] \in Byte
  BY <1>1 DEF RememberEncoding, IInv, CieInv
<1> QED
  BY <1>1, <1>2 DEF IInv, CieInv, cieVars

\* The fields between the augmentation and its data.
LEMMA FieldsType == \A version : CieFields(version) \in Seq(Kinds)
<1> SUFFICES ASSUME NEW version PROVE CieFields(version) \in Seq(Kinds)
  OBVIOUS
<1> DEFINE first == IF version >= 4 THEN <<"u8", "u8">> ELSE <<>>
           last == IF version = 1 THEN "u8" ELSE "uleb"
<1>1. first \in Seq(Kinds) /\ last \in Kinds
  <2>1. "u8" \in Kinds /\ "uleb" \in Kinds
    BY DEF Kinds
  <2> QED
    BY <2>1
<1> HIDE DEF first, last
<1>2. <<"uleb", "sleb", last>> \in Seq(Kinds)
  BY <1>1 DEF Kinds
<1> QED
  BY <1>1, <1>2 DEF CieFields, first, last

LEMMA CieIInv == IInv /\ ReadCieStep => IInv'
<1> SUFFICES ASSUME IInv, ReadCieStep PROVE IInv'
  OBVIOUS
<1>t. /\ Table \in Seq(Byte) /\ Len(Table) \in Nat /\ pos \in Nat /\ pos <= Len(Table)
      /\ \A p \in Nat : p < Len(Table) => Table[p + 1] \in Byte
  BY TableFacts
<1>b. ~ Overruns(Table, pos, "u8") => pos + 1 <= Len(Table) /\ FieldEnd(Table, pos, "u8") = pos + 1
  BY <1>t DEF Overruns, FieldEnd, IsVariable, InBounds, Width, Past
<1>f. \A kind \in Kinds : ~ Overruns(Table, pos, kind) =>
        FieldEnd(Table, pos, kind) \in 0 .. Len(Table)
  BY <1>t, FieldEndFacts DEF Overruns
<1>1. CASE BeginCie
  <2>1. /\ UNCHANGED <<file, blobs, entryVars, cieEncoding, augEnd, functions>>
        /\ Table' = Table /\ pc' = "fields"
        /\ letters' = StringAt(Table, pos + 1) /\ fields' = CieFields(Version)
        /\ fdeEncoding' = kPeAbsptr /\ pos' = FieldEnd(Table, pos + 1, "string")
    BY <1>1 DEF BeginCie, blobs, Table
  <2>2. pos + 1 \in Nat /\ pos + 1 <= Len(Table)
    BY <1>1, <1>t, <1>b DEF BeginCie
  <2>3. letters' \in Seq(Byte) /\ pos' \in 0 .. Len(Table)
    BY <1>t, <2>1, <2>2, StringFacts
  <2>4. fields' \in Seq(Kinds) /\ fdeEncoding' \in Byte
    BY <2>1, FieldsType DEF kPeAbsptr, Byte
  <2>5. PlaceInv'
    BY <2>1, <2>3 DEF IInv, PlaceInv, entryVars
  <2>6. CieInv'
    BY <2>1, <2>3, <2>4 DEF IInv, CieInv, entryVars
  <2> QED
    BY <2>1, <2>5, <2>6, ReadingIInv
<1>2. CASE SkipField
  <2>1. /\ UNCHANGED <<file, pc, blobs, entryVars, cieEncoding, fdeEncoding, letters, augEnd,
                        functions>>
        /\ Table' = Table /\ pc = "fields"
        /\ fields # <<>> /\ fields' = Tail(fields)
        /\ ~ Overruns(Table, pos, Head(fields)) /\ pos' = FieldEnd(Table, pos, Head(fields))
    BY <1>2 DEF SkipField, blobs, Table
  <2>2. Head(fields) \in Kinds /\ fields' \in Seq(Kinds)
    BY <2>1 DEF IInv, CieInv
  <2>3. pos' \in 0 .. Len(Table)
    BY <1>f, <2>1, <2>2
  <2>4. PlaceInv'
    BY <2>1, <2>3 DEF IInv, PlaceInv, entryVars
  <2>5. CieInv'
    BY <2>1, <2>2 DEF IInv, CieInv, entryVars
  <2> QED
    BY <2>1, <2>4, <2>5, ReadingIInv
<1>3. CASE EndPlainCie \/ EndCie
  <2>1. /\ SkipToNext /\ RememberEncoding(fdeEncoding) /\ UNCHANGED cieVars
        /\ UNCHANGED <<file, blobs, functions>>
    BY <1>3 DEF EndPlainCie, EndCie, SkipToNext
  <2> QED
    BY <2>1, SkipPlace, RememberCie, ReadingIInv
<1>4. CASE BeginAugmentation
  <2>1. /\ UNCHANGED <<file, blobs, entryVars, cieEncoding, fdeEncoding, fields, functions>>
        /\ Table' = Table /\ pc' = "augmentation"
        /\ letters # <<>> /\ letters' = Tail(letters)
        /\ ~ Overruns(Table, pos, "uleb") /\ pos' = FieldEnd(Table, pos, "uleb")
        /\ augEnd' = (pos' + Value(Table, pos, "uleb")) % WordLimit
    BY <1>4 DEF BeginAugmentation, HasAugmentationData, blobs, Table
  <2>2. pos' \in 0 .. Len(Table)
    BY <1>f, <2>1 DEF Kinds
  <2>3. Value(Table, pos, "uleb") \in Nat
    BY <1>t, <2>1, ValueIsAWord DEF Kinds, AnyWord
  <2>4. augEnd' \in AnyWord
    <3>1. pos' + Value(Table, pos, "uleb") \in Int
      BY <2>2, <2>3
    <3> QED
      BY <2>1, <3>1, Remainder, WordLimitAssumption DEF AnyWord
  <2>5. letters' \in Seq(Byte)
    BY <2>1 DEF IInv, CieInv
  <2>6. PlaceInv'
    BY <2>1, <2>2 DEF IInv, PlaceInv, entryVars
  <2>7. CieInv'
    BY <2>1, <2>4, <2>5 DEF IInv, CieInv, entryVars
  <2> QED
    BY <2>1, <2>6, <2>7, ReadingIInv
<1>5. CASE DamagedCie \/ DamagedLetter \/ DamagedAugmentation
  BY <1>5, StopIInv DEF DamagedCie, DamagedLetter, DamagedAugmentation
<1>6. CASE ReadR \/ ReadP \/ ReadL \/ ReadS
  <2>1. /\ NextLetter /\ pc = "augmentation" /\ letters # <<>>
        /\ UNCHANGED <<file, pc, blobs, entryVars, cieEncoding, fields, augEnd, functions>>
        /\ Table' = Table
    BY <1>6 DEF ReadR, ReadP, ReadL, ReadS, IsLetter, NextLetter, blobs, Table
  <2>2. pos' \in 0 .. Len(Table) /\ fdeEncoding' \in Byte
    <3>1. fdeEncoding \in Byte
      BY DEF IInv, CieInv
    <3>2. CASE ReadR
      BY <1>t, <1>b, <3>2 DEF ReadR
    <3>3. CASE ReadP
      <4>1. PersonalityEnd \in Nat
        <5>1. CASE Overruns(Table, pos, "u8")
          BY <1>t, <5>1 DEF PersonalityEnd, Past
        <5>2. CASE ~ Overruns(Table, pos, "u8")
          <6>1. Table[pos + 1] \in Byte /\ pos + 1 \in Nat
            BY <1>t, <1>b, <5>2
          <6> QED
            BY <1>t, <5>2, <6>1, PointerEndFacts DEF PersonalityEnd
        <5> QED
          BY <5>1, <5>2
      <4> QED
        BY <1>t, <3>1, <3>3, <4>1 DEF ReadP
    <3>4. CASE ReadL
      BY <1>t, <1>b, <3>1, <3>4 DEF ReadL
    <3>5. CASE ReadS
      BY <1>t, <3>1, <3>5 DEF ReadS
    <3> QED
      BY <1>6, <3>2, <3>3, <3>4, <3>5
  <2>3. letters' \in Seq(Byte)
    BY <2>1 DEF NextLetter, IInv, CieInv
  <2>4. PlaceInv'
    BY <2>1, <2>2 DEF IInv, PlaceInv, entryVars
  <2>5. CieInv'
    BY <2>1, <2>2, <2>3 DEF IInv, CieInv, entryVars
  <2> QED
    BY <2>1, <2>4, <2>5, ReadingIInv
<1> QED
  BY <1>1, <1>2, <1>3, <1>4, <1>5, <1>6 DEF ReadCieStep

\* An FDE gives a range that can be one of a function, or none.
LEMMA FdeIInv == IInv /\ (SkipFde \/ ReadFde \/ DamagedFde) => IInv'
<1>1. ASSUME IInv, SkipFde \/ ReadFde PROVE PlaceInv' /\ CieInv' /\ BlobsInv'
  <2>1. SkipToNext /\ UNCHANGED <<cieEncoding, cieVars>>
    BY <1>1 DEF SkipFde, ReadFde
  <2>2. Table' = Table /\ pc' = "entry" /\ id' = id /\ UNCHANGED <<file, blobs>>
    BY <1>1, <2>1, SkipPlace DEF SkipToNext, entryVars
  <2>3. CieInv' /\ BlobsInv'
    BY <1>1, <2>1, <2>2 DEF IInv, CieInv, BlobsInv, IsBlob, cieVars, blobs
  <2> QED
    BY <1>1, <2>1, <2>3, SkipPlace
<1>2. ASSUME IInv, SkipFde PROVE FunctionsInv'
  BY <1>2 DEF SkipFde, IInv, FunctionsInv
<1>3. ASSUME IInv, ReadFde PROVE FunctionsInv'
  <2> DEFINE start == Pointer(Table, pos, Encoding, ehFrame.vaddr)
             size == Value(Table, BeginEnd, Kind(Encoding))
  <2>1. Encoding \in Byte
    BY <1>3 DEF IInv, CieInv, Encoding, kPeAbsptr, Byte
  <2>2. Table \in Seq(Byte) /\ Len(Table) \in Nat /\ pos \in Nat /\ ehFrame.vaddr \in AnyWord
    BY <1>3, TableFacts DEF IInv, BlobsInv, IsBlob
  <2>3. IsKnown(Encoding) /\ Kind(Encoding) \in Kinds /\ Decodes(Encoding)
    BY <1>3, <2>1, KindFacts DEF ReadFde, Decodes
  <2>4. BeginEnd = FieldEnd(Table, pos, Kind(Encoding)) /\ BeginEnd \in Nat
        /\ RangeEnd = FieldEnd(Table, BeginEnd, Kind(Encoding)) /\ RangeEnd \in Nat
    BY <2>2, <2>3, FieldEndFacts DEF BeginEnd, RangeEnd, PointerEnd
  <2>5. RangeEnd <= Len(Table) /\ BeginEnd <= Len(Table)
    <3>1. RangeEnd <= Len(Table)
      BY <1>3 DEF ReadFde
    <3>2. RangeEnd = Past(Table) \/ BeginEnd < RangeEnd
      BY <2>2, <2>3, <2>4, FieldEndFacts
    <3> QED
      BY <2>2, <2>4, <3>1, <3>2 DEF Past
  <2>6. start \in AnyWord
    BY <2>1, <2>2, <2>3, <2>4, <2>5, PointerIsAWord DEF Overruns
  <2>7. size \in AnyWord
    BY <2>2, <2>3, <2>4, <2>5, ValueIsAWord DEF Overruns
  <2>8. functions' = IF size > 0 THEN Append(functions, [start |-> start, size |-> size])
                                 ELSE functions
    BY <1>3 DEF ReadFde
  <2> HIDE DEF start, size
  <2>9. size > 0 => [start |-> start, size |-> size] \in EhFrameFunction
    BY <2>6, <2>7, WordLimitAssumption DEF EhFrameFunction, AnyWord
  <2> QED
    BY <1>3, <2>8, <2>9 DEF IInv, FunctionsInv
<1>4. ASSUME IInv, DamagedFde PROVE IInv'
  BY <1>4, StopIInv DEF DamagedFde
<1> QED
  BY <1>1, <1>2, <1>3, <1>4 DEF IInv

LEMMA NextIInv == IInv /\ [Next]_vars => IInv'
<1> SUFFICES ASSUME IInv, [Next]_vars PROVE IInv'
  OBVIOUS
<1>1. CASE EndOfTable
  BY <1>1, StopIInv DEF EndOfTable
<1>2. CASE UNCHANGED vars
  BY <1>2 DEF vars, parserVars, IInv, BlobsInv, IsBlob, PlaceInv, CieInv, FunctionsInv, Table,
              blobs, entryVars, cieVars
<1> QED
  BY <1>1, <1>2, LocateIInv, HeaderReadIInv, CieIInv, FdeIInv DEF Next

\* The inductive invariant of the parser, for every file.
THEOREM Invariance == Spec => []IInv
  BY InitIInv, NextIInv, PTL DEF Spec

\* Whatever bytes the file holds, the reader stays in the table and each range
\* found has a start that is an address and a size that is not 0: what
\* FunctionAnalyzer takes for the sizes of functions without a look.
THEOREM TypeCorrect == Spec => []TypeOK
  BY Invariance, IInvIsTyped, PTL

\* The entries lie one behind the other: each header is read where the entry
\* before it ended, and the entry ends behind it, whatever its length says and
\* wherever the augmentation data of a CIE is said to end.
EntriesGoForwards ==
  [][pc = "entry" /\ pc' # "done" => entryStart' = entryEnd /\ entryEnd < entryEnd']_vars

\* The walk never returns to bytes it has read as a header, so it can end.
THEOREM EntriesAlwaysGoForwards == Spec => EntriesGoForwards
<1>1. IInv /\ [Next]_vars =>
        [pc = "entry" /\ pc' # "done" => entryStart' = entryEnd /\ entryEnd < entryEnd']_vars
  <2> SUFFICES ASSUME IInv, Next, pc = "entry", pc' # "done"
               PROVE  entryStart' = entryEnd /\ entryEnd < entryEnd'
    BY DEF vars
  <2>1. ReadHeader
    BY DEF Next, LocateHeader, LocateTable, EndOfTable, Stop, ReadCieStep, BeginCie, SkipField,
           FieldsRead, EndPlainCie, BeginAugmentation, DamagedCie, IsLetter, ReadR, ReadP, ReadL,
           ReadS, DamagedLetter, LettersRead, EndCie, DamagedAugmentation, SkipFde, ReadFde,
           DamagedFde
  <2>2. entryStart' = pos /\ entryEnd' = LengthEnd + Length /\ pos = entryEnd /\ pos \in Nat
    BY <2>1, TableFacts DEF ReadHeader, IInv, PlaceInv
  <2> QED
    BY <2>1, <2>2, HeaderFacts
<1> QED
  BY <1>1, Invariance, PTL DEF Spec, EntriesGoForwards
===============================================================================
