---------------------------- MODULE ElfParserProofs ----------------------------
(***************************************************************************)
(* Whatever bytes a file holds, the parser reads none that are not there,  *)
(* goes forwards, takes no byte for part of two symbols of a table, and    *)
(* leaves an image of the kind the analyses start from.                    *)
(***************************************************************************)
EXTENDS ElfParser, WellFoundedInduction, TLAPS

AnyWord == 0 .. WordLimit - 1

LEMMA WordsAreNumbers == AnyWord \subseteq Nat
BY WordLimitAssumption DEF AnyWord

\* The lemmas on reads and on dataAt, which the unwind table and the code map
\* rest on too.
Reader == INSTANCE EhFrameParserProofs WITH
  file <- image, Files <- {}, Names <- Seq(Byte), ehFrameHdr <- 0, ehFrame <- 0, pos <- 0,
  entryStart <- 0, idFieldPos <- 0, entryEnd <- 0, id <- 0, cieEncoding <- 0, fdeEncoding <- 0,
  fields <- 0, letters <- 0, augEnd <- 0, functions <- 0

Map == INSTANCE CodeMapBuilderProofs WITH
  file <- image, Files <- {}, Names <- Seq(Byte), regions <- <<>>, seen <- 0, anySection <- FALSE
-----------------------------------------------------------------------------
(***************************************************************************)
(* The lemmas cited are about this file.                                   *)
(***************************************************************************)

LEMMA ReaderAssumptions ==
  /\ Widths \in [Reader!Sizes -> Nat \ {0}]
  /\ Widths["u16"] <= Widths["u32"] /\ Widths["u32"] <= Widths["u64"]
  /\ Reader!WordLimit \in Nat \ {0}
  /\ \A f \in {} : Reader!IsFile(f)
BY WidthsAssumption, WordLimitAssumption
   DEF Reader!Sizes, Sizes, Reader!WordLimit, WordLimit

LEMMA MapAssumptions ==
  /\ Widths \in [Map!Sizes -> Nat \ {0}]
  /\ Widths["u16"] <= Widths["u32"] /\ Widths["u32"] <= Widths["u64"]
  /\ Map!WordLimit \in Nat \ {0}
  /\ \A f \in {} : Map!IsFile(f)
BY WidthsAssumption, WordLimitAssumption
   DEF Map!Sizes, Sizes, Map!WordLimit, WordLimit

LEMMA SameReader ==
  /\ Reader!AnyWord = AnyWord /\ Reader!Byte = Byte
  /\ \A b, p, kind : Reader!FieldEnd(b, p, kind) = FieldEnd(b, p, kind)
  /\ \A b, p, kind : Reader!Value(b, p, kind) = Value(b, p, kind)
  /\ \A b, p : Reader!StringAt(b, p) = StringAt(b, p)
<1>1. Reader!WordLimit = WordLimit /\ Reader!Byte = Byte
  BY DEF Reader!WordLimit, WordLimit, Reader!Byte, Byte
<1> USE DEF Reader!EndingAt, EndingAt, Reader!Past, Past, Reader!Min, Min, Reader!Max, Max
<1>2. \A b, p, kind : Reader!FieldEnd(b, p, kind) = FieldEnd(b, p, kind)
  BY DEF Reader!FieldEnd, FieldEnd, Reader!IsVariable, IsVariable, Reader!InBounds, InBounds,
         Reader!Width, Width
<1>3. \A s, base : Reader!Assembled(s, base) = Assembled(s, base)
  BY <1>1 DEF Reader!Assembled, Assembled
<1>4. \A s, base : Reader!SignExtended(s, base) = SignExtended(s, base)
  BY <1>3 DEF Reader!SignExtended, SignExtended
<1>5. \A b, p, kind : Reader!Value(b, p, kind) = Value(b, p, kind)
  BY <1>2, <1>3, <1>4 DEF Reader!Value, Value, Reader!Field, Field
<1>6. \A b, p : Reader!StringAt(b, p) = StringAt(b, p)
  BY DEF Reader!StringAt, StringAt
<1> QED
  BY <1>1, <1>2, <1>5, <1>6 DEF Reader!AnyWord, AnyWord

LEMMA SameImage ==
  /\ Map!NoData = Image!NoData
  /\ \A addr : Map!DataAt(addr) = Image!DataAt(addr)
  /\ Map!IsFile(image) <=> Image!IsFile(image)
<1>1. Map!NoData = Image!NoData
  BY DEF Map!NoData, Image!NoData
<1>2. \A addr : Map!DataAt(addr) = Image!DataAt(addr)
  BY DEF Map!DataAt, Image!DataAt, Map!SectionsOver, Image!SectionsOver, Map!LoadedOver,
         Image!LoadedOver, Map!DataOfSection, Image!DataOfSection, Map!DataOfSegment,
         Image!DataOfSegment, Map!DataFrom, Image!DataFrom, Map!InRange, Image!InRange,
         Map!FirstOf, Image!FirstOf, Map!Lesser, Image!Lesser, Map!WordLimit,
         Image!WordLimit, Map!NoData, Image!NoData
<1>3. Map!IsFile(image) <=> Image!IsFile(image)
  BY DEF Map!IsFile, Image!IsFile, Map!Section, Image!Section, Map!Segment, Image!Segment,
         Map!Byte, Image!Byte, Map!WordLimit, Image!WordLimit
<1> QED
  BY <1>1, <1>2, <1>3

LEMMA HasLeast ==
  ASSUME NEW S \in SUBSET Nat, S # {}
  PROVE  \E m \in S : \A x \in S : m <= x
BY Reader!HasLeast, ReaderAssumptions

LEMMA Inductive ==
  ASSUME NEW S, 0 \in S, \A n \in Nat : n \in S => n + 1 \in S
  PROVE  Nat \subseteq S
BY Reader!Inductive, ReaderAssumptions
-----------------------------------------------------------------------------
(***************************************************************************)
(* What is read.                                                           *)
(***************************************************************************)

\* The kinds of the fields of a structure.
Fixed == {"u8", "u16", "u32", "u64"}

LEMMA WidthFacts ==
  \A kind \in Fixed :
    /\ Width(kind) \in Nat \ {0}
    /\ \A b, p : FieldEnd(b, p, kind) = IF InBounds(b, p, Width(kind)) THEN p + Width(kind)
                                                                       ELSE Past(b)
BY WidthsAssumption DEF Fixed, Width, FieldEnd, IsVariable, Sizes

LEMMA ReadIsAWord ==
  ASSUME NEW b \in Seq(Byte), NEW p \in Nat, NEW kind \in Fixed, InBounds(b, p, Width(kind))
  PROVE  Value(b, p, kind) \in AnyWord
<1>1. kind \in Reader!Kinds
  BY DEF Fixed, Reader!Kinds
<1>2. FieldEnd(b, p, kind) = p + Width(kind)
  BY WidthFacts
<1>3. ~ Reader!Overruns(b, p, kind)
  BY <1>2, SameReader, WidthFacts DEF Reader!Overruns, InBounds
<1>4. b \in Seq(Reader!Byte)
  BY SameReader
<1>5. Reader!Value(b, p, kind) \in Reader!AnyWord
  BY <1>1, <1>3, <1>4, ReaderAssumptions, Reader!ValueIsAWord
<1> QED
  BY <1>5, SameReader

LEMMA StringIsBytes ==
  ASSUME NEW b \in Seq(Byte), NEW p \in Nat, p <= Len(b)
  PROVE  StringAt(b, p) \in Seq(Byte)
<1>1. b \in Seq(Reader!Byte)
  BY SameReader
<1>2. Reader!StringAt(b, p) \in Seq(Reader!Byte)
  BY <1>1, ReaderAssumptions, Reader!StringFacts
<1> QED
  BY <1>2, SameReader

LEMMA PartOfBytes ==
  ASSUME NEW b \in Seq(Byte), NEW p \in Nat, NEW e \in Int, e <= Len(b)
  PROVE  SubSeq(b, p + 1, e) \in Seq(Byte)
<1>1. b \in Seq(Reader!Byte)
  BY SameReader
<1>2. SubSeq(b, p + 1, e) \in Seq(Reader!Byte)
  BY <1>1, ReaderAssumptions, Reader!PartOfBytes
<1> QED
  BY <1>2, SameReader

\* Where a part of the file is, which may be empty.
Extent == [from : Nat, size : Nat]

\* The file has all of it.
IsBacked(range) == range \in Extent /\ range.from + range.size <= Len(bytes)

\* What dataAt answers lies in the file.
LEMMA LoadedIsBacked ==
  ASSUME Image!IsFile(image), NEW addr \in AnyWord, NEW d, d = Image!DataAt(addr)
  PROVE  IsBacked(d) /\ d.size < WordLimit
<1>1. CASE d = Image!NoData
  BY <1>1, WordLimitAssumption DEF Image!NoData, AnyWord, Image!IsFile, image, IsBacked, Extent
<1>2. CASE d # Image!NoData
  <2>1. /\ Map!IsFile(image) /\ addr \in Map!AnyWord /\ Map!WordLimit = WordLimit
        /\ d = Map!DataAt(addr) /\ d # Map!NoData
    BY <1>2, SameImage DEF Map!AnyWord, AnyWord, Map!WordLimit, WordLimit
  <2>2. /\ d.from \in Nat /\ d.size \in Nat \ {0}
        /\ d.from + d.size <= Len(image.bytes)
        /\ addr + d.size < Map!WordLimit
    BY <2>1, MapAssumptions, Map!DataAtIsBacked
  <2>3. Len(image.bytes) = Len(bytes) /\ addr \in Nat /\ WordLimit \in Nat
    BY WordLimitAssumption DEF image, AnyWord
  <2>4. \E from, size : d = [from |-> from, size |-> size]
    BY <1>2 DEF Image!DataAt, Image!DataOfSection, Image!DataOfSegment, Image!DataFrom, Image!NoData
  <2>5. d \in Extent
    BY <2>2, <2>4 DEF Extent
  <2> QED
    BY <2>1, <2>2, <2>3, <2>5 DEF IsBacked
<1> QED
  BY <1>1, <1>2
-----------------------------------------------------------------------------
(***************************************************************************)
(* Structures.                                                             *)
(***************************************************************************)

\* A structure of some size, each field of which lies in it.
IsStruct(struct) ==
  /\ struct.size \in Nat \ {0}
  /\ \A name \in DOMAIN struct.fields :
       LET f == struct.fields[name]
       IN f.offset \in Nat /\ f.kind \in Fixed /\ f.offset + Width(f.kind) <= struct.size

AreFields(fields) ==
  /\ Len(fields) \in Nat \ {0} /\ DOMAIN fields = 1 .. Len(fields)
  /\ \A i \in DOMAIN fields : fields[i][2] \in Fixed

\* Each field of Struct ends where the next begins.
LEMMA StructFacts ==
  ASSUME NEW fields, AreFields(fields)
  PROVE  /\ IsStruct(Struct(fields))
         /\ DOMAIN Struct(fields).fields = {fields[i][1] : i \in DOMAIN fields}
<1>1. PICK n \in Nat \ {0} : n = Len(fields) /\ DOMAIN fields = 1 .. n
  BY DEF AreFields
<1>2. \A i \in 1 .. n : fields[i][2] \in Fixed /\ Width(fields[i][2]) \in Nat \ {0}
  BY <1>1, WidthFacts DEF AreFields
<1> DEFINE w(i) == Width(fields[i][2])
           Body(f, i) == IF i = 0 THEN 0 ELSE f[i - 1] + w(i)
           IsEnd(f) == f = [i \in 0 .. n |-> Body(f, i)]
           Partial(m, f) == f \in [0 .. n -> Nat] /\ \A i \in 0 .. m : f[i] = Body(f, i)
           Summed == {m \in Nat : m <= n => \E f : Partial(m, f)}
           end == CHOOSE f : IsEnd(f)
<1>3. 0 \in Summed
  <2>1. Partial(0, [i \in 0 .. n |-> 0])
    BY <1>1
  <2> QED
    BY <2>1
<1>4. ASSUME NEW m \in Nat, m \in Summed PROVE m + 1 \in Summed
  <2> SUFFICES ASSUME m + 1 <= n PROVE \E f : Partial(m + 1, f)
    OBVIOUS
  <2>0. \E f : Partial(m, f)
    <3>1. m <= n
      BY <1>1
    <3> HIDE DEF Partial
    <3> QED
      BY <1>4, <3>1
  <2>1. PICK f : Partial(m, f)
    BY <2>0
  <2> DEFINE k == m + 1
             g == [f EXCEPT ![k] = f[m] + w(k)]
  <2>2. f[m] + w(k) \in Nat
    <3>1. m \in 0 .. n /\ k \in 1 .. n
      BY <1>1
    <3>2. f[m] \in Nat /\ w(k) \in Nat
      BY <1>2, <2>1, <3>1
    <3> QED
      BY <3>2
  <2>3. /\ g \in [0 .. n -> Nat] /\ g[k] = f[m] + w(k)
        /\ \A i \in 0 .. n : i # k => g[i] = f[i]
    BY <1>1, <2>1, <2>2
  <2>4. f[m] = g[m]
    BY <1>1, <2>3
  <2> HIDE DEF g, w
  <2>5. \A i \in 0 .. m + 1 : g[i] = Body(g, i)
    <3> SUFFICES ASSUME NEW i \in 0 .. m + 1 PROVE g[i] = Body(g, i)
      OBVIOUS
    <3>1. CASE i = k
      BY <2>3, <2>4, <3>1
    <3>2. CASE i # k
      BY <1>1, <2>1, <2>3, <3>2
    <3> QED
      BY <3>1, <3>2
  <2> QED
    BY <2>3, <2>5
<1>5. \E f : IsEnd(f)
  <2>1. n \in Summed
    <3> HIDE DEF Summed
    <3> QED
      BY <1>1, <1>3, <1>4, Inductive
  <2>2. PICK f : Partial(n, f)
    <3> HIDE DEF Partial
    <3> QED
      BY <1>1, <2>1
  <2>3. f = [i \in 0 .. n |-> f[i]]
    BY <2>2
  <2>4. \A i \in 0 .. n : f[i] = Body(f, i)
    BY <2>2
  <2> HIDE DEF Body
  <2>5. f = [i \in 0 .. n |-> Body(f, i)]
    BY <2>3, <2>4
  <2> QED
    BY <2>5
<1>6. \A i \in 0 .. n : end[i] = Body(end, i)
  <2> HIDE DEF Body
  <2>1. IsEnd(end)
    BY <1>5
  <2> HIDE DEF end
  <2> QED
    BY <2>1
<1> DEFINE Place(name) == CHOOSE i \in DOMAIN fields : fields[i][1] = name
           named == {fields[i][1] : i \in DOMAIN fields}
           struct == [size |-> end[n],
                      fields |-> [name \in named |->
                        [offset |-> end[Place(name) - 1], kind |-> fields[Place(name)][2]]]]
<1>7. Struct(fields) = struct
  BY <1>1, Zenon DEF Struct
<1> HIDE DEF end
<1>8. \A i \in 1 .. n : end[i] = end[i - 1] + w(i)
  BY <1>1, <1>6
<1>9. \A i \in 0 .. n : end[i] \in Nat
  <2> DEFINE Typed == {m \in Nat : m <= n => end[m] \in Nat}
  <2>1. 0 \in Typed
    BY <1>1, <1>6
  <2>2. ASSUME NEW m \in Nat, m \in Typed PROVE m + 1 \in Typed
    BY <1>1, <1>2, <1>8, <2>2
  <2> HIDE DEF Typed
  <2>3. Nat \subseteq Typed
    BY <2>1, <2>2, Inductive
  <2> QED
    BY <1>1, <2>3 DEF Typed
<1>10. \A i \in 0 .. n : end[i] <= end[n]
  <2> DEFINE Below == {m \in Nat : m <= n => end[n - m] <= end[n]}
  <2>1. 0 \in Below
    BY <1>1, <1>9
  <2>2. ASSUME NEW m \in Nat, m \in Below PROVE m + 1 \in Below
    <3> SUFFICES ASSUME m + 1 <= n PROVE end[n - (m + 1)] <= end[n]
      OBVIOUS
    <3> DEFINE i == n - m
    <3>1. i \in 1 .. n /\ i - 1 = n - (m + 1) /\ i - 1 \in 0 .. n /\ n \in 0 .. n
      BY <1>1
    <3>2. end[i] = end[i - 1] + w(i) /\ w(i) \in Nat
      BY <1>2, <1>8, <3>1
    <3>3. m <= n /\ end[n - m] <= end[n]
      BY <1>1, <2>2
    <3>4. end[i - 1] \in Nat /\ end[n] \in Nat
      BY <1>9, <3>1
    <3>5. end[i - 1] <= end[n]
      <4> HIDE DEF w
      <4> QED
        BY <3>2, <3>3, <3>4
    <3> QED
      BY <3>1, <3>5
  <2> HIDE DEF Below
  <2>3. Nat \subseteq Below
    BY <2>1, <2>2, Inductive
  <2>4. ASSUME NEW i \in 0 .. n PROVE end[i] <= end[n]
    <3>1. n - i \in Below /\ n - i \in Nat /\ n - (n - i) = i /\ n - i <= n
      BY <1>1, <2>3
    <3> QED
      BY <3>1 DEF Below
  <2> QED
    BY <2>4
<1>11. end[n] \in Nat \ {0}
  <2>1. n \in 1 .. n /\ n - 1 \in 0 .. n /\ n \in 0 .. n
    BY <1>1
  <2> QED
    BY <1>2, <1>8, <1>9, <2>1
<1>12. ASSUME NEW name \in named
       PROVE  LET f == struct.fields[name]
              IN f.offset \in Nat /\ f.kind \in Fixed /\ f.offset + Width(f.kind) <= struct.size
  <2> DEFINE i == Place(name)
  <2>1. i \in 1 .. n
    BY <1>1, <1>12
  <2> HIDE DEF i
  <2>2. i - 1 \in 0 .. n /\ i \in 0 .. n
    BY <1>1, <2>1
  <2>3. end[i - 1] \in Nat /\ fields[i][2] \in Fixed /\ end[i - 1] + w(i) <= end[n]
    BY <1>2, <1>8, <1>9, <1>10, <2>1, <2>2
  <2>4. struct.fields[name] = [offset |-> end[i - 1], kind |-> fields[i][2]]
    BY <1>12, Zenon DEF i
  <2> HIDE DEF struct
  <2>5. struct.size = end[n]
    BY DEF struct
  <2> QED
    BY <2>3, <2>4, <2>5
<1> QED
  <2>1. DOMAIN struct.fields = named /\ struct.size = end[n]
    OBVIOUS
  <2> HIDE DEF struct, named
  <2>2. IsStruct(struct)
    BY <1>11, <1>12, <2>1 DEF IsStruct
  <2> QED
    BY <1>7, <2>1, <2>2 DEF named

\* The structures of a file, as far as the parser uses their fields.
LEMMA EhdrFacts ==
  /\ IsStruct(Ehdr)
  /\ {"phoff", "shoff", "phentsize", "phnum", "shentsize", "shnum", "shstrndx"}
       \subseteq DOMAIN Ehdr.fields
<1> DEFINE fields ==
      << <<"mag0", "u8">>, <<"mag1", "u8">>, <<"mag2", "u8">>, <<"mag3", "u8">>, <<"class", "u8">>,
         <<"data", "u8">>, <<"ident6", "u8">>, <<"ident7", "u8">>, <<"ident8", "u8">>,
         <<"ident9", "u8">>, <<"ident10", "u8">>, <<"ident11", "u8">>, <<"ident12", "u8">>,
         <<"ident13", "u8">>, <<"ident14", "u8">>, <<"ident15", "u8">>, <<"type", "u16">>,
         <<"machine", "u16">>, <<"version", "u32">>, <<"entry", "u64">>,
         <<"phoff", "u64">>, <<"shoff", "u64">>, <<"flags", "u32">>, <<"ehsize", "u16">>,
         <<"phentsize", "u16">>, <<"phnum", "u16">>, <<"shentsize", "u16">>, <<"shnum", "u16">>,
         <<"shstrndx", "u16">> >>
<1>1. AreFields(fields)
  <2>1. DOMAIN fields = 1 .. 29 /\ Len(fields) = 29
    OBVIOUS
  <2>2. \A i \in 1 .. 29 : fields[i][2] \in Fixed
    BY SMTT(60) DEF Fixed
  <2> HIDE DEF fields
  <2> QED
    BY <2>1, <2>2 DEF AreFields
<1>2. {"phoff", "shoff", "phentsize", "phnum", "shentsize", "shnum", "shstrndx"}
        \subseteq {fields[i][1] : i \in DOMAIN fields}
  <2>1. {21, 22, 25, 26, 27, 28, 29} \subseteq DOMAIN fields
    OBVIOUS
  <2>2. /\ fields[21][1] = "phoff" /\ fields[22][1] = "shoff" /\ fields[25][1] = "phentsize"
        /\ fields[26][1] = "phnum" /\ fields[27][1] = "shentsize" /\ fields[28][1] = "shnum"
        /\ fields[29][1] = "shstrndx"
    OBVIOUS
  <2> HIDE DEF fields
  <2> QED
    BY <2>1, <2>2
<1>3. Ehdr = Struct(fields)
  BY DEF Ehdr
<1> HIDE DEF fields
<1> QED
  BY <1>1, <1>2, <1>3, StructFacts

LEMMA PhdrFacts ==
  /\ IsStruct(Phdr)
  /\ {"type", "flags", "fileOffset", "virtualAddress", "fileSize"} \subseteq DOMAIN Phdr.fields
<1> DEFINE fields ==
      << <<"type", "u32">>, <<"flags", "u32">>, <<"fileOffset", "u64">>,
         <<"virtualAddress", "u64">>, <<"paddr", "u64">>, <<"fileSize", "u64">>,
         <<"memorySize", "u64">>, <<"align", "u64">> >>
<1>1. AreFields(fields)
  BY DEF AreFields, Fixed
<1>2. {"type", "flags", "fileOffset", "virtualAddress", "fileSize"}
        \subseteq {fields[i][1] : i \in DOMAIN fields}
  <2>1. {1, 2, 3, 4, 6} \subseteq DOMAIN fields
    OBVIOUS
  <2>2. /\ fields[1][1] = "type" /\ fields[2][1] = "flags" /\ fields[3][1] = "fileOffset"
        /\ fields[4][1] = "virtualAddress" /\ fields[6][1] = "fileSize"
    OBVIOUS
  <2> HIDE DEF fields
  <2> QED
    BY <2>1, <2>2
<1>3. Phdr = Struct(fields)
  BY DEF Phdr
<1> HIDE DEF fields
<1> QED
  BY <1>1, <1>2, <1>3, StructFacts

LEMMA ShdrFacts ==
  /\ IsStruct(Shdr)
  /\ DOMAIN Shdr.fields = {"nameOffset", "type", "flags", "address", "fileOffset", "size",
                           "link", "info", "addralign", "entrySize"}
<1> DEFINE fields ==
      << <<"nameOffset", "u32">>, <<"type", "u32">>, <<"flags", "u64">>, <<"address", "u64">>,
         <<"fileOffset", "u64">>, <<"size", "u64">>, <<"link", "u32">>, <<"info", "u32">>,
         <<"addralign", "u64">>, <<"entrySize", "u64">> >>
<1>1. AreFields(fields)
  BY DEF AreFields, Fixed
<1>2. {"nameOffset", "type", "flags", "address", "fileOffset", "size", "link", "info",
        "addralign", "entrySize"} = {fields[i][1] : i \in DOMAIN fields}
  <2>1. DOMAIN fields = {1, 2, 3, 4, 5, 6, 7, 8, 9, 10}
    OBVIOUS
  <2>2. /\ fields[1][1] = "nameOffset" /\ fields[2][1] = "type" /\ fields[3][1] = "flags"
        /\ fields[4][1] = "address" /\ fields[5][1] = "fileOffset" /\ fields[6][1] = "size"
        /\ fields[7][1] = "link" /\ fields[8][1] = "info" /\ fields[9][1] = "addralign"
        /\ fields[10][1] = "entrySize"
    OBVIOUS
  <2> HIDE DEF fields
  <2> QED
    BY <2>1, <2>2
<1>3. Shdr = Struct(fields)
  BY DEF Shdr
<1> HIDE DEF fields
<1> QED
  BY <1>1, <1>2, <1>3, StructFacts

LEMMA SymFacts ==
  /\ IsStruct(Sym)
  /\ {"nameOffset", "info", "sectionIndex", "value", "size"} \subseteq DOMAIN Sym.fields
<1> DEFINE fields ==
      << <<"nameOffset", "u32">>, <<"info", "u8">>, <<"other", "u8">>,
         <<"sectionIndex", "u16">>, <<"value", "u64">>, <<"size", "u64">> >>
<1>1. AreFields(fields)
  BY DEF AreFields, Fixed
<1>2. {"nameOffset", "info", "sectionIndex", "value", "size"}
        \subseteq {fields[i][1] : i \in DOMAIN fields}
  <2>1. {1, 2, 4, 5, 6} \subseteq DOMAIN fields
    OBVIOUS
  <2>2. /\ fields[1][1] = "nameOffset" /\ fields[2][1] = "info"
        /\ fields[4][1] = "sectionIndex" /\ fields[5][1] = "value" /\ fields[6][1] = "size"
    OBVIOUS
  <2> HIDE DEF fields
  <2> QED
    BY <2>1, <2>2
<1>3. Sym = Struct(fields)
  BY DEF Sym
<1> HIDE DEF fields
<1> QED
  BY <1>1, <1>2, <1>3, StructFacts

LEMMA DynFacts == IsStruct(Dyn) /\ {"tag", "val"} \subseteq DOMAIN Dyn.fields
<1> DEFINE fields == << <<"tag", "u64">>, <<"val", "u64">> >>
<1>1. AreFields(fields)
  BY DEF AreFields, Fixed
<1>2. {"tag", "val"} \subseteq {fields[i][1] : i \in DOMAIN fields}
  <2>1. {1, 2} \subseteq DOMAIN fields /\ fields[1][1] = "tag" /\ fields[2][1] = "val"
    OBVIOUS
  <2> HIDE DEF fields
  <2> QED
    BY <2>1
<1>3. Dyn = Struct(fields)
  BY DEF Dyn
<1> HIDE DEF fields
<1> QED
  BY <1>1, <1>2, <1>3, StructFacts

\* What Read finds where a structure lies in the file.
Words(struct) == [DOMAIN struct.fields -> AnyWord]

LEMMA ReadIsWords ==
  ASSUME NEW struct, IsStruct(struct), NEW p \in Nat, bytes \in Seq(Byte), Fits(p, struct)
  PROVE  Read(p, struct) \in Words(struct)
<1>1. ASSUME NEW name \in DOMAIN struct.fields
      PROVE  Value(bytes, p + struct.fields[name].offset, struct.fields[name].kind) \in AnyWord
  <2> DEFINE at == p + struct.fields[name].offset
             kind == struct.fields[name].kind
  <2>1. at \in Nat /\ kind \in Fixed /\ InBounds(bytes, at, Width(kind))
    BY <1>1, WidthFacts DEF IsStruct, Fits, InBounds
  <2> HIDE DEF at, kind
  <2>2. Value(bytes, at, kind) \in AnyWord
    BY <2>1, ReadIsAWord
  <2> QED
    BY <2>2 DEF at, kind
<1> QED
  BY <1>1 DEF Read, Words
-----------------------------------------------------------------------------
(***************************************************************************)
(* Numbers.                                                                *)
(***************************************************************************)

LEMMA Multiples ==
  ASSUME NEW a \in Int, NEW b \in Int, NEW W \in Nat \ {0}, a < b
  PROVE  a * W + W <= b * W
<1> DEFINE c == b - a - 1
<1>1. c \in Nat /\ b = a + c + 1
  OBVIOUS
<1> HIDE DEF c
<1>2. c * W \in Nat
  BY <1>1
<1> QED
  BY <1>1, <1>2

LEMMA DivMod ==
  ASSUME NEW x \in Nat, NEW W \in Nat \ {0}
  PROVE  x = (x \div W) * W + (x % W) /\ x \div W \in Nat /\ x % W \in 0 .. W - 1
OBVIOUS

LEMMA Remainder ==
  ASSUME NEW q \in Nat, NEW W \in Nat \ {0}, NEW r \in 0 .. W - 1, NEW x \in Nat, x = q * W + r
  PROVE  x % W = r
<1> DEFINE p == x \div W
           s == x % W
<1>1. x = p * W + s /\ p \in Nat /\ s \in 0 .. W - 1
  OBVIOUS
<1> HIDE DEF p
<1>2. q * W \in Nat /\ p * W \in Nat
  BY <1>1
<1>3. CASE q < p
  <2>1. q * W + W <= p * W
    BY <1>1, <1>3, Multiples
  <2> QED
    BY <2>1, <1>2, <1>1
<1>4. CASE p < q
  <2>1. p * W + W <= q * W
    BY <1>1, <1>4, Multiples
  <2> QED
    BY <2>1, <1>2, <1>1
<1>5. CASE p = q
  BY <1>5, <1>1, <1>2
<1> QED
  BY <1>1, <1>3, <1>4, <1>5

LEMMA LaterFacts ==
  ASSUME NEW x \in Nat, NEW W \in Nat \ {0}, NEW d \in 0 .. W - 1
  PROVE  (x + d) % W = (x % W) + d \/ (x + d) % W = (x % W) + d - W
<1> DEFINE q == x \div W
           r == x % W
           y == x + d
<1>1. x = q * W + r /\ q \in Nat /\ r \in 0 .. W - 1
  OBVIOUS
<1> HIDE DEF q, r
<1>2. q * W \in Nat /\ (q + 1) * W = q * W + W /\ q + 1 \in Nat /\ y \in Nat
  BY <1>1
<1>3. CASE r + d < W
  <2> DEFINE t == r + d
  <2>1. t \in 0 .. W - 1 /\ y = q * W + t /\ q \in Nat /\ y \in Nat
    BY <1>1, <1>2, <1>3
  <2> HIDE DEF y, t
  <2>2. y % W = t
    BY <2>1, Remainder
  <2> QED
    BY <2>2 DEF r, y, t
<1>4. CASE r + d >= W
  <2>1. r + d - W \in 0 .. W - 1 /\ y = (q + 1) * W + (r + d - W)
    BY <1>1, <1>2, <1>4
  <2> HIDE DEF y
  <2>2. y % W = r + d - W
    BY <1>2, <2>1, Remainder
  <2> QED
    BY <2>2 DEF r, y
<1> QED
  BY <1>1, <1>3, <1>4

LEMMA TimesFacts ==
  ASSUME NEW j \in Nat, NEW k \in Nat, NEW s \in Nat, j < k
  PROVE  \E d \in Nat : k * s = j * s + d /\ s <= d
<1> DEFINE m == k - j - 1
<1>1. k = j + m + 1 /\ m \in Nat
  OBVIOUS
<1> HIDE DEF m
<1>2. m * s \in Nat /\ k * s = j * s + m * s + s
  BY <1>1
<1>3. m * s + s \in Nat
  BY <1>2
<1> WITNESS m * s + s \in Nat
<1> QED
  BY <1>2

LEMMA ProductsGrow ==
  ASSUME NEW j \in Nat, NEW k \in Nat, NEW s \in Nat, j <= k
  PROVE  j * s \in Nat /\ k * s \in Nat /\ j * s <= k * s
OBVIOUS

\* Whole entries do not go past what they are entries of.
LEMMA DivFacts ==
  ASSUME NEW n \in Nat, NEW d \in Nat \ {0}
  PROVE  n \div d \in Nat /\ (n \div d) * d <= n /\ n \div d <= n
OBVIOUS

LEMMA ModFacts ==
  ASSUME NEW x \in Nat, NEW W \in Nat \ {0}
  PROVE  x % W \in 0 .. W - 1 /\ x % W <= x
OBVIOUS

LEMMA FirstFacts ==
  ASSUME NEW S \in SUBSET Nat, S # {}
  PROVE  Image!FirstOf(S) \in S /\ \A x \in S : Image!FirstOf(S) <= x
BY HasLeast DEF Image!FirstOf

LEMMA MinFacts ==
  ASSUME NEW S \in SUBSET Nat, S # {}
  PROVE  Min(S) \in S /\ \A x \in S : Min(S) <= x
BY HasLeast DEF Min

LEMMA MaxFacts ==
  ASSUME NEW S \in SUBSET Nat, S # {}, NEW most \in Nat, \A x \in S : x <= most
  PROVE  Max(S) \in S /\ \A x \in S : Max(S) >= x
<1> DEFINE T == {most - x : x \in S}
<1>1. T \in SUBSET Nat /\ T # {}
  <2>1. \A x \in S : most - x \in Nat
    OBVIOUS
  <2> QED
    BY <2>1
<1> HIDE DEF T
<1>2. PICK m \in T : \A y \in T : m <= y
  BY <1>1, HasLeast
<1>3. PICK x \in S : m = most - x
  BY <1>2 DEF T
<1>4. \A y \in S : x >= y
  <2> SUFFICES ASSUME NEW y \in S PROVE x >= y
    OBVIOUS
  <2>1. most - y \in T
    BY DEF T
  <2>2. most - x <= most - y /\ x \in Nat /\ y \in Nat
    BY <1>2, <1>3, <2>1
  <2> QED
    BY <2>2
<1> QED
  BY <1>3, <1>4 DEF Max

\* The least of some numbers, and the greater of two.
LEMMA StrideFacts ==
  ASSUME NEW declared \in Nat, NEW struct, IsStruct(struct)
  PROVE  StrideOf(declared, struct) \in Nat \ {0} /\ StrideOf(declared, struct) >= struct.size
<1> DEFINE S == {declared, struct.size}
           most == declared + struct.size
<1>1. S \in SUBSET Nat /\ S # {} /\ most \in Nat /\ (\A x \in S : x <= most)
      /\ struct.size \in S /\ struct.size \in Nat \ {0}
  BY DEF IsStruct
<1> HIDE DEF S, most
<1>2. Max(S) \in S /\ \A x \in S : Max(S) >= x
  BY <1>1, MaxFacts
<1>3. Max(S) \in Nat /\ Max(S) >= struct.size
  BY <1>1, <1>2
<1> QED
  BY <1>1, <1>3 DEF StrideOf, S

\* Where an entry is: a word, and no further than the sum that may wrap.
LEMMA EntryFacts ==
  ASSUME NEW offset \in Nat, NEW k \in Nat, NEW stride \in Nat
  PROVE  EntryAt(offset, k, stride) \in AnyWord
         /\ EntryAt(offset, k, stride) <= offset + k * stride
<1> DEFINE x == offset + k * stride
<1>1. x \in Nat
  <2>1. k * stride \in Nat
    OBVIOUS
  <2> QED
    BY <2>1
<1> HIDE DEF x
<1>2. x % WordLimit \in 0 .. WordLimit - 1 /\ x % WordLimit <= x
  BY <1>1, WordLimitAssumption, ModFacts
<1> QED
  BY <1>2 DEF EntryAt, AnyWord, x
-----------------------------------------------------------------------------
(***************************************************************************)
(* What the parser knows, whatever it has read.                            *)
(***************************************************************************)

\* A section header as it was read, with the name that is found for it later.
SectionHeaders ==
  {s \in [DOMAIN Shdr.fields \cup {"name"} -> AnyWord \cup Seq(Byte)] :
     /\ \A field \in DOMAIN Shdr.fields : s[field] \in AnyWord
     /\ s["name"] \in Seq(Byte)}

Origins == {"symtab", "dynsym"}

Symbols ==
  [name : Seq(Byte), info : AnyWord, sectionIndex : AnyWord, value : AnyWord, size : AnyWord,
   origin : Origins]

Tables ==
  [range : Extent, offset : AnyWord, stride : Nat \ {0}, count : Nat,
   strings : Extent, stringsOffset : AnyWord, origin : Origins]

Tags == {"symtab", "strtab", "hash", "gnuHash", "strSize", "symEntSize"}

BytesInv == bytes \in Seq(Byte)

HeaderInv == pc \notin {"header", "failed"} => header \in Words(Ehdr)

CountersInv ==
  /\ sectionCount \in Nat /\ sectionNameIndex \in Nat
  /\ next \in Nat /\ current \in 0 .. Len(sections)

TablesInv ==
  /\ segments \in Seq(Words(Phdr)) /\ sections \in Seq(SectionHeaders)
  /\ symbols \in Seq(Symbols)

\* The table being read lies in the file.  Its entries do not overlap, and as many
\* as it is said to have do not go once around the address space.
TableInv ==
  /\ table \in Tables /\ IsBacked(table.range) /\ IsBacked(table.strings)
  /\ pc \in {"hash", "nchain", "buckets", "chain"} =>
       table.stride >= Sym.size /\ table.range.size < WordLimit
  /\ pc \in {"sectionSymbols", "dynamicSymbols"} =>
       table.stride >= Sym.size /\ table.count * table.stride < WordLimit

TagsInv ==
  /\ tags \in [Tags -> Nat]
  /\ \A tag \in Tags \ {"symEntSize"} : tags[tag] \in AnyWord
  /\ pc = "tags" =>
       /\ SegmentsOf(kPtDynamic) # {}
       /\ InBounds(bytes, Dynamic.fileOffset, Dynamic.fileSize)

\* The hash table that is read lies in the file, and has the numbers at its start.
DataInv ==
  /\ IsBacked(data)
  /\ pc = "nchain" /\ data # Image!NoData => 2 * Widths["u32"] <= data.size
  /\ pc = "buckets" /\ data # Image!NoData => 4 * Widths["u32"] <= data.size
  /\ pc = "chain" => HasBuckets /\ 4 * Widths["u32"] <= data.size

IInv ==
  /\ BytesInv /\ HeaderInv /\ CountersInv /\ TablesInv
  /\ TableInv /\ TagsInv /\ DataInv

LEMMA ImageIsFile ==
  ASSUME BytesInv, TablesInv
  PROVE  Image!IsFile(image)
<1>1. Image!WordLimit = WordLimit /\ Image!Byte = Byte
  BY DEF Image!WordLimit, WordLimit, Image!Byte, Byte
<1>2. ASSUME NEW s \in SectionHeaders
      PROVE  /\ ElfSection(s) \in Image!Section
             /\ {ElfSection(s).address, ElfSection(s).fileOffset, ElfSection(s).size}
                  \subseteq AnyWord
  <2>1. {s.address, s.fileOffset, s.size} \subseteq AnyWord /\ s.name \in Seq(Byte)
    BY ShdrFacts DEF SectionHeaders
  <2> QED
    BY <2>1, WordLimitAssumption DEF ElfSection, Image!Section, AnyWord, HasFlag
<1>3. ASSUME NEW s \in Words(Phdr)
      PROVE  /\ ElfSegment(s) \in Image!Segment
             /\ {ElfSegment(s).virtualAddress, ElfSegment(s).fileOffset, ElfSegment(s).fileSize}
                  \subseteq AnyWord
  <2>1. {s.virtualAddress, s.fileOffset, s.fileSize} \subseteq AnyWord
    BY PhdrFacts DEF Words
  <2> QED
    BY <2>1, WordLimitAssumption DEF ElfSegment, Image!Segment, AnyWord, HasFlag
<1> DEFINE these == [i \in DOMAIN sections |-> ElfSection(sections[i])]
           those == [i \in DOMAIN segments |-> ElfSegment(segments[i])]
<1>4. /\ these \in Seq(Image!Section)
      /\ \A i \in DOMAIN these :
           {these[i].address, these[i].fileOffset, these[i].size} \subseteq AnyWord
  <2>1. \A i \in DOMAIN sections : sections[i] \in SectionHeaders
    BY DEF TablesInv
  <2> HIDE DEF ElfSection
  <2> QED
    BY <1>2, <2>1 DEF TablesInv
<1>5. /\ those \in Seq(Image!Segment)
      /\ \A i \in DOMAIN those :
           {those[i].virtualAddress, those[i].fileOffset, those[i].fileSize} \subseteq AnyWord
  <2>1. \A i \in DOMAIN segments : segments[i] \in Words(Phdr)
    BY DEF TablesInv
  <2> QED
    BY <1>3, <2>1 DEF TablesInv
<1>6. image = [bytes |-> bytes, sections |-> these, segments |-> those]
  BY DEF image
<1> HIDE DEF these, those
<1> QED
  BY <1>1, <1>4, <1>5, <1>6 DEF Image!IsFile, BytesInv, AnyWord
-----------------------------------------------------------------------------
(***************************************************************************)
(* What each part reads is there.                                          *)
(***************************************************************************)

LEMMA DynamicFacts ==
  ASSUME segments \in Seq(Words(Phdr)), SegmentsOf(kPtDynamic) # {}
  PROVE  Dynamic.fileOffset \in AnyWord /\ Dynamic.fileSize \in AnyWord
<1>1. SegmentsOf(kPtDynamic) \in SUBSET Nat
  BY DEF SegmentsOf
<1>2. Image!FirstOf(SegmentsOf(kPtDynamic)) \in SegmentsOf(kPtDynamic)
  BY <1>1, FirstFacts
<1>3. Dynamic \in Words(Phdr)
  BY <1>2 DEF Dynamic, SegmentsOf
<1> QED
  BY <1>3, PhdrFacts DEF Words

\* The tag to read next is in the part of the file that holds the tags.
LEMMA TagFits ==
  ASSUME IInv, pc = "tags", next < Dynamic.fileSize \div Dyn.size
  PROVE  Fits(EntryAt(Dynamic.fileOffset, next, Dyn.size), Dyn)
<1> DEFINE from == Dynamic.fileOffset
           size == Dynamic.fileSize
           count == size \div Dyn.size
           at == EntryAt(from, next, Dyn.size)
<1>1. from \in Nat /\ size \in Nat /\ from + size <= Len(bytes)
  BY DynamicFacts, WordLimitAssumption DEF IInv, TablesInv, TagsInv, InBounds, AnyWord
<1>2. Dyn.size \in Nat \ {0} /\ next \in Nat
  BY DynFacts DEF IsStruct, IInv, CountersInv
<1> HIDE DEF from, size
<1>3. count \in Nat /\ count * Dyn.size <= size
  BY <1>1, <1>2, DivFacts
<1>4. next < count
  BY DEF size
<1> HIDE DEF count
<1> DEFINE before == next * Dyn.size
           all == count * Dyn.size
<1>5. before + Dyn.size <= all /\ before \in Nat
  BY <1>2, <1>3, <1>4, Multiples
<1>6. EntryAt(from, next, Dyn.size) \in AnyWord /\ EntryAt(from, next, Dyn.size) <= from + before
  BY <1>1, <1>2, EntryFacts
<1>7. all \in Nat /\ all <= size
  BY <1>2, <1>3
<1> HIDE DEF before, all
<1>8. at + Dyn.size <= Len(bytes)
  <2>1. at \in AnyWord /\ at <= from + before
    BY <1>6
  <2> HIDE DEF at
  <2>2. at \in Nat /\ Len(bytes) \in Nat
    BY <2>1, WordsAreNumbers DEF IInv, BytesInv
  <2> QED
    BY <1>1, <1>2, <1>5, <1>7, <2>1, <2>2
<1> QED
  BY <1>8 DEF at, from, Fits, InBounds

LEMMA TagIsWords ==
  ASSUME IInv, pc = "tags", HasTag
  PROVE  TagAt(next) \in Words(Dyn)
<1> DEFINE at == EntryAt(Dynamic.fileOffset, next, Dyn.size)
<1>1. Fits(at, Dyn)
  BY TagFits DEF HasTag
<1>2. at \in Nat
  <2>1. Dynamic.fileOffset \in Nat
    BY DynamicFacts, WordsAreNumbers DEF IInv, TablesInv, TagsInv
  <2>2. next \in Nat /\ Dyn.size \in Nat
    BY DynFacts DEF IInv, CountersInv, IsStruct
  <2> QED
    BY <2>1, <2>2, EntryFacts, WordsAreNumbers
<1> HIDE DEF at
<1>3. Read(at, Dyn) \in Words(Dyn)
  BY <1>1, <1>2, DynFacts, ReadIsWords DEF IInv, BytesInv
<1> QED
  BY <1>3 DEF TagAt, at

LEMMA U32Facts == Widths["u32"] \in Nat \ {0} /\ Widths["u64"] \in Nat \ {0}
BY WidthsAssumption DEF Sizes

LEMMA WordFacts ==
  ASSUME BytesInv, IsBacked(data), NEW offset \in Nat, offset + Widths["u32"] <= data.size
  PROVE  HoldsWord(offset) /\ Word(offset) \in AnyWord
<1> DEFINE at == data.from + offset
<1>1. at \in Nat /\ InBounds(bytes, at, Widths["u32"])
  BY U32Facts DEF IsBacked, Extent, InBounds, BytesInv
<1>2. Width("u32") = Widths["u32"] /\ "u32" \in Fixed
  BY DEF Width, Fixed
<1> HIDE DEF at
<1>3. Value(bytes, at, "u32") \in AnyWord
  BY <1>1, <1>2, ReadIsAWord DEF BytesInv
<1> QED
  BY <1>1, <1>3 DEF at, HoldsWord, Word

\* The numbers at the start of a hash table.
LEMMA StartFacts ==
  ASSUME BytesInv, IsBacked(data), NEW n \in {2, 4}, n * Widths["u32"] <= data.size
  PROVE  \A k \in 0 .. n - 1 : HoldsWord(k * Widths["u32"]) /\ WordOf(k) \in AnyWord
<1> SUFFICES ASSUME NEW k \in 0 .. n - 1
             PROVE  HoldsWord(k * Widths["u32"]) /\ WordOf(k) \in AnyWord
  OBVIOUS
<1>1. k * Widths["u32"] + Widths["u32"] <= n * Widths["u32"] /\ k * Widths["u32"] \in Nat
  BY U32Facts, Multiples
<1>2. k * Widths["u32"] + Widths["u32"] <= data.size
  BY <1>1, U32Facts DEF IsBacked, Extent
<1> QED
  BY <1>1, <1>2, WordFacts DEF WordOf

\* The buckets lie between the numbers and the chains, and the chains in the table.
LEMMA BucketFacts ==
  ASSUME BytesInv, IsBacked(data), 4 * Widths["u32"] <= data.size
  PROVE  /\ BucketsOff \in Nat /\ ChainOff \in Nat /\ SymOffset \in AnyWord
         /\ \A k \in 0 .. 3 : HoldsWord(k * Widths["u32"]) /\ WordOf(k) \in AnyWord
         /\ HasBuckets =>
              /\ \A b \in 0 .. WordOf(0) - 1 : HoldsWord(BucketsOff + b * Widths["u32"])
              /\ LastSym \in AnyWord
<1>1. \A k \in 0 .. 3 : HoldsWord(k * Widths["u32"]) /\ WordOf(k) \in AnyWord
  BY StartFacts
<1> DEFINE buckets == WordOf(0)
           width == Widths["u32"]
<1>2. buckets \in Nat /\ width \in Nat \ {0} /\ WordOf(1) \in AnyWord
  BY <1>1, U32Facts, WordLimitAssumption DEF AnyWord
<1>3. BucketsOff \in Nat
  <2>1. WordOf(2) \in Nat /\ Widths["u64"] \in Nat /\ Widths["u32"] \in Nat
    BY <1>1, U32Facts, WordLimitAssumption DEF AnyWord
  <2>2. WordOf(2) * Widths["u64"] \in Nat /\ 4 * Widths["u32"] \in Nat
    BY <2>1
  <2> QED
    BY <2>2 DEF BucketsOff
<1>4. ChainOff = BucketsOff + buckets * width
  BY DEF ChainOff
<1> HIDE DEF buckets, width
<1>5. ChainOff \in Nat /\ buckets * width \in Nat
  <2>1. buckets * width \in Nat
    BY <1>2
  <2> QED
    BY <1>3, <1>4, <2>1
<1>6. ASSUME HasBuckets, NEW b \in 0 .. buckets - 1
      PROVE  HoldsWord(BucketsOff + b * width) /\ Word(BucketsOff + b * width) \in AnyWord
  <2>1. b * width + width <= buckets * width /\ b * width \in Nat
    BY <1>2, Multiples
  <2>2. ChainOff <= data.size
    BY <1>6 DEF HasBuckets
  <2> DEFINE offset == BucketsOff + b * width
  <2>3. offset \in Nat /\ offset + width <= data.size
    BY <1>2, <1>3, <1>4, <1>5, <2>1, <2>2 DEF IsBacked, Extent
  <2> HIDE DEF offset
  <2>4. HoldsWord(offset) /\ Word(offset) \in AnyWord
    BY <2>3, WordFacts DEF width
  <2> QED
    BY <2>4 DEF offset
<1>7. ASSUME HasBuckets PROVE LastSym \in AnyWord
  <2> DEFINE S == {Word(BucketsOff + b * width) : b \in 0 .. buckets - 1}
             most == WordLimit - 1
  <2>1. buckets > 0
    BY <1>7 DEF HasBuckets, buckets
  <2>2. S \in SUBSET AnyWord
    BY <1>6, <1>7
  <2>3. S # {}
    BY <1>2, <2>1
  <2> HIDE DEF S
  <2>4. S \in SUBSET Nat /\ most \in Nat /\ \A x \in S : x <= most
    BY <2>2, WordLimitAssumption DEF AnyWord
  <2> HIDE DEF most
  <2>5. Max(S) \in S
    BY <2>3, <2>4, MaxFacts
  <2> QED
    BY <2>2, <2>5 DEF LastSym, S, buckets, width
<1> QED
  BY <1>1, <1>2, <1>3, <1>5, <1>6, <1>7 DEF SymOffset, buckets, width

\* The symbol to read next is in the part of the file that holds the table.
LEMMA SymbolFits ==
  ASSUME IInv, HasSymbol
  PROVE  /\ table.range.from + TableEntryAt(next) \in Nat
         /\ Fits(table.range.from + TableEntryAt(next), Sym)
<1> DEFINE at == TableEntryAt(next)
<1>1. at \in AnyWord
  <2>1. table.offset \in Nat /\ table.stride \in Nat /\ next \in Nat
    BY WordsAreNumbers DEF IInv, TableInv, Tables, CountersInv
  <2> QED
    BY <2>1, EntryFacts DEF TableEntryAt
<1>2. at + Sym.size <= table.range.size
  BY DEF HasSymbol
<1> HIDE DEF at
<1>3. /\ table.range.from \in Nat /\ table.range.size \in Nat
      /\ table.range.from + table.range.size <= Len(bytes) /\ Len(bytes) \in Nat
  BY DEF IInv, TableInv, IsBacked, Extent, BytesInv
<1>4. at \in Nat /\ Sym.size \in Nat
  BY <1>1, SymFacts, WordLimitAssumption DEF AnyWord, IsStruct
<1>5. table.range.from + at \in Nat /\ table.range.from + at + Sym.size <= Len(bytes)
  BY <1>2, <1>3, <1>4
<1> QED
  BY <1>5 DEF Fits, InBounds, at

LEMMA SymbolIsTyped ==
  ASSUME IInv, NEW p \in Nat, Fits(p, Sym)
  PROVE  SymbolAt(p) \in Symbols
<1>1. bytes \in Seq(Byte)
  BY DEF IInv, BytesInv
<1>2. Read(p, Sym) \in Words(Sym)
  BY <1>1, SymFacts, ReadIsWords
<1> DEFINE entry == Read(p, Sym)
<1>3. {entry.nameOffset, entry.info, entry.sectionIndex, entry.value, entry.size} \subseteq AnyWord
  BY <1>2, SymFacts DEF Words
<1> HIDE DEF entry
<1>4. NameAt(entry.nameOffset) \in Seq(Byte)
  <2> DEFINE at == (table.stringsOffset + entry.nameOffset) % WordLimit
             from == table.strings.from
             end == table.strings.from + table.strings.size
             strings == SubSeq(bytes, from + 1, end)
  <2>1. /\ from \in Nat /\ end \in Nat /\ end <= Len(bytes) /\ Len(bytes) \in Nat
        /\ table.strings.size \in Nat /\ end = from + table.strings.size
    BY <1>1 DEF IInv, TableInv, IsBacked, Extent
  <2>2. at \in Nat
    <3>1. table.stringsOffset + entry.nameOffset \in Nat
      BY <1>3, WordLimitAssumption DEF IInv, TableInv, Tables, AnyWord
    <3> QED
      BY <3>1, ModFacts, WordLimitAssumption
  <2>3. strings \in Seq(Byte)
    BY <1>1, <2>1, PartOfBytes
  <2>4. Len(strings) = table.strings.size
    <3> HIDE DEF end
    <3> QED
      BY <1>1, <2>1
  <2> HIDE DEF strings, at
  <2>5. at < table.strings.size => StringAt(strings, at) \in Seq(Byte)
    BY <2>2, <2>3, <2>4, <2>1, StringIsBytes
  <2>6. <<>> \in Seq(Byte)
    OBVIOUS
  <2> QED
    BY <2>5, <2>6 DEF NameAt, strings, at
<1>5. table.origin \in Origins
  BY DEF IInv, TableInv, Tables
<1> QED
  BY <1>3, <1>4, <1>5 DEF SymbolAt, Symbols, entry
-----------------------------------------------------------------------------
(***************************************************************************)
(* The parser starts with what it knows being so.                          *)
(***************************************************************************)

LEMMA InitIInv == Init => IInv
<1> SUFFICES ASSUME Init PROVE IInv
  OBVIOUS
<1> USE DEF Init
<1>1. BytesInv
  BY FilesAssumption DEF BytesInv, bytes
<1>2. Len(bytes) \in Nat /\ 0 \in AnyWord
  BY <1>1, WordLimitAssumption DEF BytesInv, AnyWord
<1>3. HeaderInv
  BY DEF HeaderInv
<1>4. CountersInv /\ TablesInv
  BY DEF CountersInv, TablesInv
<1>5. TableInv
  BY <1>2 DEF TableInv, Tables, NoTable, IsBacked, Extent, Origins
<1>6. TagsInv
  <2>1. Sym.size \in Nat
    BY SymFacts DEF IsStruct
  <2>2. 0 \in Nat
    OBVIOUS
  <2> QED
    BY <1>2, <2>1, <2>2 DEF TagsInv, NoTags, Tags
<1>7. DataInv
  BY <1>2 DEF DataInv, IsBacked, Extent, Image!NoData
<1> QED
  BY <1>1, <1>3, <1>4, <1>5, <1>6, <1>7 DEF IInv
-----------------------------------------------------------------------------
(***************************************************************************)
(* What a step leaves alone.                                               *)
(***************************************************************************)

LEMMA SameBytes ==
  ASSUME BytesInv, UNCHANGED file
  PROVE  bytes' = bytes /\ BytesInv'
BY DEF BytesInv, bytes

LEMMA SameTable ==
  ASSUME TableInv, UNCHANGED <<file, table>>,
         pc' \in {"hash", "nchain", "buckets", "chain"} =>
           pc \in {"hash", "nchain", "buckets", "chain"},
         pc' \in {"sectionSymbols", "dynamicSymbols"} => pc' = pc
  PROVE  TableInv'
BY DEF TableInv, IsBacked, bytes

LEMMA SameTags ==
  ASSUME TagsInv, UNCHANGED tags, pc' # "tags"
  PROVE  TagsInv'
BY DEF TagsInv

LEMMA SameData ==
  ASSUME DataInv, UNCHANGED <<file, data>>,
         pc' \notin {"nchain", "buckets", "chain"} \/ pc' = pc
  PROVE  DataInv'
<1>1. IsBacked(data)' <=> IsBacked(data)
  BY DEF IsBacked, bytes
<1>2. HasBuckets' <=> HasBuckets
  BY DEF HasBuckets, ChainOff, BucketsOff, WordOf, Word, bytes
<1> QED
  BY <1>1, <1>2 DEF DataInv

\* A step that only goes on to a part that expects nothing.
LEMMA JumpIInv ==
  ASSUME IInv, NEW label \in {"failed", "sections", "symbols", "done", "dynamic", "tables"},
         Jump(label), pc = "header" => label = "failed", pc # "failed"
  PROVE  IInv'
<1> USE DEF Jump, Go, known, tables, reading
<1>1. BytesInv'
  BY SameBytes DEF IInv
<1>2. HeaderInv'
  BY DEF IInv, HeaderInv
<1>3. CountersInv' /\ TablesInv'
  BY DEF IInv, CountersInv, TablesInv
<1>4. TableInv' /\ TagsInv' /\ DataInv'
  BY SameTable, SameTags, SameData DEF IInv
<1> QED
  BY <1>1, <1>2, <1>3, <1>4 DEF IInv
-----------------------------------------------------------------------------
(***************************************************************************)
(* Every step keeps it so.  The headers first.                             *)
(***************************************************************************)

LEMMA ValidateHeaderIInv ==
  ASSUME IInv, ValidateHeader
  PROVE  IInv'
<1> USE DEF ValidateHeader, Go, tables, reading
<1>1. BytesInv'
  BY SameBytes DEF IInv
<1>2. HeaderInv'
  <2>1. Read(0, Ehdr) \in Words(Ehdr)
    BY EhdrFacts, ReadIsWords DEF IInv, BytesInv
  <2> QED
    BY <2>1 DEF HeaderInv
<1>3. CountersInv' /\ TablesInv'
  BY DEF IInv, CountersInv, TablesInv
<1>4. TableInv' /\ TagsInv' /\ DataInv'
  BY SameTable, SameTags, SameData DEF IInv
<1> QED
  BY <1>1, <1>2, <1>3, <1>4 DEF IInv

LEMMA ReadSegmentIInv ==
  ASSUME IInv, ReadSegment
  PROVE  IInv'
<1> USE DEF ReadSegment, known, reading
<1>1. BytesInv'
  BY SameBytes DEF IInv
<1>2. HeaderInv'
  BY DEF IInv, HeaderInv
<1>3. CountersInv'
  BY DEF IInv, CountersInv
<1>4. TablesInv'
  <2> DEFINE at == SegmentAt(next)
             stride == StrideOf(header.phentsize, Phdr)
  <2>1. {header.phoff, header.phentsize} \subseteq Nat /\ next \in Nat
    BY EhdrFacts, WordsAreNumbers DEF IInv, HeaderInv, CountersInv, Words
  <2>2. stride \in Nat
    BY <2>1, PhdrFacts, StrideFacts
  <2> HIDE DEF stride
  <2>3. EntryAt(header.phoff, next, stride) \in AnyWord
    BY <2>1, <2>2, EntryFacts
  <2>4. at \in Nat /\ Fits(at, Phdr)
    BY <2>3, WordsAreNumbers DEF SegmentAt, stride, HasSegment
  <2> HIDE DEF at
  <2>5. Read(at, Phdr) \in Words(Phdr)
    BY <2>4, PhdrFacts, ReadIsWords DEF IInv, BytesInv
  <2> QED
    BY <2>5 DEF IInv, TablesInv, at
<1>5. TableInv' /\ TagsInv' /\ DataInv'
  BY SameTable, SameTags, SameData DEF IInv
<1> QED
  BY <1>1, <1>2, <1>3, <1>4, <1>5 DEF IInv

LEMMA CountIsNumber ==
  ASSUME IInv, pc = "sections"
  PROVE  SectionCount \in Nat /\ SectionNameIndex \in Nat
<1>1. {header.shoff, header.shnum, header.shstrndx} \subseteq Nat
  BY EhdrFacts, WordsAreNumbers DEF IInv, HeaderInv, Words
<1>2. ASSUME Escapes PROVE {SectionHeader.size, SectionHeader.link} \subseteq Nat
  <2>1. SectionHeader \in Words(Shdr)
    BY <1>1, <1>2, ShdrFacts, ReadIsWords DEF Escapes, SectionHeader, IInv, BytesInv
  <2> QED
    BY <2>1, ShdrFacts, WordsAreNumbers DEF Words
<1> QED
  BY <1>1, <1>2 DEF SectionCount, SectionNameIndex

LEMMA BeginSectionsIInv ==
  ASSUME IInv, BeginSections
  PROVE  IInv'
<1> USE DEF BeginSections, Go, tables, reading
<1>1. BytesInv'
  BY SameBytes DEF IInv
<1>2. pc' \in {"symbols", "failed", "sectionHeaders"}
  OBVIOUS
<1>3. HeaderInv'
  BY <1>2 DEF IInv, HeaderInv
<1>4. CountersInv' /\ TablesInv'
  BY CountIsNumber DEF IInv, CountersInv, TablesInv
<1>5. TableInv' /\ TagsInv' /\ DataInv'
  BY <1>2, SameTable, SameTags, SameData DEF IInv
<1> QED
  BY <1>1, <1>3, <1>4, <1>5 DEF IInv

LEMMA ReadSectionIInv ==
  ASSUME IInv, ReadSection
  PROVE  IInv'
<1> USE DEF ReadSection, known, reading
<1>1. BytesInv'
  BY SameBytes DEF IInv
<1>2. HeaderInv'
  BY DEF IInv, HeaderInv
<1> DEFINE at == SectionAt(next)
           new == UnnamedSection(at)
<1>3. new \in SectionHeaders
  <2> DEFINE stride == StrideOf(header.shentsize, Shdr)
  <2>1. {header.shoff, header.shentsize} \subseteq Nat /\ next \in Nat
    BY EhdrFacts, WordsAreNumbers DEF IInv, HeaderInv, CountersInv, Words
  <2>2. stride \in Nat
    BY <2>1, ShdrFacts, StrideFacts
  <2> HIDE DEF stride
  <2>3. EntryAt(header.shoff, next, stride) \in AnyWord
    BY <2>1, <2>2, EntryFacts
  <2>4. at \in Nat /\ Fits(at, Shdr)
    BY <2>3, WordsAreNumbers DEF SectionAt, stride, HasSectionHeader
  <2> HIDE DEF at
  <2>5. Read(at, Shdr) \in Words(Shdr)
    BY <2>4, ShdrFacts, ReadIsWords DEF IInv, BytesInv
  <2> DEFINE r == Read(at, Shdr)
             names == DOMAIN Shdr.fields
  <2>6. r \in [names -> AnyWord] /\ "name" \notin names
    BY <2>5, ShdrFacts DEF Words
  <2>7. new = [x \in names \cup {"name"} |-> IF x = "name" THEN <<>> ELSE r[x]]
    <3>1. DOMAIN r = names
      BY <2>6
    <3> QED
      BY <3>1 DEF UnnamedSection
  <2> HIDE DEF r, new, names
  <2>8. <<>> \in Seq(Byte) /\ \A x \in names : r[x] \in AnyWord
    BY <2>6
  <2>9. new["name"] = <<>> /\ \A x \in names : new[x] = r[x]
    BY <2>6, <2>7
  <2>10. new \in [names \cup {"name"} -> AnyWord \cup Seq(Byte)]
    BY <2>7, <2>8
  <2> QED
    BY <2>8, <2>9, <2>10 DEF SectionHeaders, names
<1>4. CountersInv' /\ TablesInv'
  <2>1. sections' = Append(sections, new)
    OBVIOUS
  <2> HIDE DEF new
  <2> QED
    BY <1>3, <2>1 DEF IInv, CountersInv, TablesInv
<1>5. TableInv' /\ TagsInv' /\ DataInv'
  BY SameTable, SameTags, SameData DEF IInv
<1> QED
  BY <1>1, <1>2, <1>4, <1>5 DEF IInv

LEMMA ResolveSectionNamesIInv ==
  ASSUME IInv, ResolveSectionNames
  PROVE  IInv'
<1> USE DEF ResolveSectionNames, Go, known, reading
<1>1. BytesInv'
  BY SameBytes DEF IInv
<1>2. HeaderInv'
  BY DEF IInv, HeaderInv
<1>3. sections' \in Seq(SectionHeaders) /\ Len(sections') = Len(sections)
  <2>1. sections \in Seq(SectionHeaders) /\ sectionNameIndex \in Nat
    BY DEF IInv, TablesInv, CountersInv
  <2>2. CASE sectionNameIndex >= Len(sections)
    BY <2>1, <2>2
  <2>3. CASE sectionNameIndex < Len(sections)
    <3> DEFINE strtab == sections[sectionNameIndex + 1]
               name(i) == StringOf((strtab.fileOffset + sections[i].nameOffset) % WordLimit)
               named(i) == [sections[i] EXCEPT !.name = name(i)]
    <3>1. sections' = [i \in DOMAIN sections |-> named(i)]
      BY <2>1, <2>3
    <3>2. strtab.fileOffset \in Nat
      <4>1. strtab \in SectionHeaders
        BY <2>1, <2>3
      <4> QED
        BY <4>1, ShdrFacts, WordsAreNumbers DEF SectionHeaders
    <3> HIDE DEF strtab
    <3>3. ASSUME NEW i \in DOMAIN sections PROVE named(i) \in SectionHeaders
      <4>1. sections[i] \in SectionHeaders
        BY <2>1
      <4>2. sections[i].nameOffset \in Nat
        BY <4>1, ShdrFacts, WordsAreNumbers DEF SectionHeaders
      <4> DEFINE at == (strtab.fileOffset + sections[i].nameOffset) % WordLimit
      <4>3. at \in Nat
        BY <3>2, <4>2, ModFacts, WordLimitAssumption
      <4> HIDE DEF at
      <4>4. StringOf(at) \in Seq(Byte)
        BY <4>3, StringIsBytes DEF StringOf, IInv, BytesInv
      <4>5. name(i) \in Seq(Byte)
        BY <4>4 DEF at
      <4> HIDE DEF name
      <4> QED
        BY <4>1, <4>5, ShdrFacts DEF SectionHeaders
    <3> HIDE DEF named
    <3>4. Len(sections) \in Nat /\ DOMAIN sections = 1 .. Len(sections)
      BY <2>1
    <3>5. \A i \in DOMAIN sections : named(i) \in SectionHeaders
      BY <3>3
    <3>6. sections' \in [1 .. Len(sections) -> SectionHeaders]
      BY <3>1, <3>4, <3>5
    <3> QED
      BY <3>4, <3>6
  <2> QED
    BY <2>1, <2>2, <2>3
<1>4. CountersInv' /\ TablesInv'
  BY <1>3 DEF IInv, CountersInv, TablesInv
<1>5. TableInv' /\ TagsInv' /\ DataInv'
  BY SameTable, SameTags, SameData DEF IInv
<1> QED
  BY <1>1, <1>2, <1>4, <1>5 DEF IInv
-----------------------------------------------------------------------------
(***************************************************************************)
(* The symbol tables.                                                      *)
(***************************************************************************)

LEMMA ReadSymbolIInv ==
  ASSUME IInv, ReadSymbol
  PROVE  IInv'
<1> USE DEF ReadSymbol, known, reading
<1>1. BytesInv'
  BY SameBytes DEF IInv
<1>2. HeaderInv' /\ CountersInv'
  BY DEF IInv, HeaderInv, CountersInv
<1>3. TablesInv'
  <2> DEFINE new == SymbolAt(table.range.from + TableEntryAt(next))
  <2>1. new \in Symbols
    BY SymbolFits, SymbolIsTyped
  <2>2. symbols' = Append(symbols, new)
    OBVIOUS
  <2> HIDE DEF new
  <2> QED
    BY <2>1, <2>2 DEF IInv, TablesInv
<1>4. TableInv' /\ TagsInv' /\ DataInv'
  BY SameTable, SameTags, SameData DEF IInv
<1> QED
  BY <1>1, <1>2, <1>3, <1>4 DEF IInv

LEMMA NextTable ==
  ASSUME IInv, SymbolSections(current) # {}, NEW k, k = Image!FirstOf(SymbolSections(current))
  PROVE  k \in Nat /\ current < k /\ k <= Len(sections) /\ sections[k] \in SectionHeaders
<1>1. current \in Nat /\ Len(sections) \in Nat /\ sections \in Seq(SectionHeaders)
  BY DEF IInv, CountersInv, TablesInv
<1>2. SymbolSections(current) \in SUBSET Nat
  BY <1>1 DEF SymbolSections
<1>3. k \in SymbolSections(current)
  BY <1>2, FirstFacts
<1> QED
  BY <1>1, <1>3 DEF SymbolSections

LEMMA SectionTableFacts ==
  ASSUME IInv, NEW section \in SectionHeaders, section.link < Len(sections),
         NEW t, t = SectionTable(section)
  PROVE  /\ t \in Tables /\ IsBacked(t.range) /\ IsBacked(t.strings)
         /\ t.stride >= Sym.size /\ t.count * t.stride < WordLimit
<1> DEFINE stride == StrideOf(section.entrySize, Sym)
           strings == sections[section.link + 1]
<1>1. {section.entrySize, section.fileOffset, section.size, section.link} \subseteq AnyWord
  BY ShdrFacts DEF SectionHeaders
<1>2. stride \in Nat \ {0} /\ stride >= Sym.size
  <2>1. section.entrySize \in Nat
    BY <1>1, WordsAreNumbers
  <2> QED
    BY <2>1, SymFacts, StrideFacts
<1> HIDE DEF stride
<1> DEFINE count == section.size \div stride
<1>3. count \in Nat /\ count * stride <= section.size
  <2>1. section.size \in Nat
    BY <1>1, WordsAreNumbers
  <2> QED
    BY <1>2, <2>1, DivFacts
<1>4. strings.fileOffset \in AnyWord
  <2>1. section.link \in Nat /\ sections \in Seq(SectionHeaders)
    BY <1>1, WordsAreNumbers DEF IInv, TablesInv
  <2>2. strings \in SectionHeaders
    BY <2>1
  <2> QED
    BY <2>2, ShdrFacts DEF SectionHeaders
<1>5. IsBacked(WholeFile) /\ WholeFile \in Extent
  BY DEF IsBacked, Extent, WholeFile, IInv, BytesInv
<1> HIDE DEF count, strings
<1>6. count * stride < WordLimit
  <2> DEFINE all == count * stride
  <2>1. all \in Nat /\ all <= section.size
    BY <1>2, <1>3
  <2> HIDE DEF all
  <2>2. all < WordLimit
    BY <1>1, <2>1, WordLimitAssumption DEF AnyWord
  <2> QED
    BY <2>2 DEF all
<1>7. /\ t.range = WholeFile /\ t.offset = section.fileOffset /\ t.stride = stride
      /\ t.count = count /\ t.strings = WholeFile /\ t.stringsOffset = strings.fileOffset
      /\ t.origin \in Origins
      /\ t = [range |-> t.range, offset |-> t.offset, stride |-> t.stride, count |-> t.count,
              strings |-> t.strings, stringsOffset |-> t.stringsOffset, origin |-> t.origin]
  BY DEF SectionTable, stride, count, strings, Origins
<1>8. t \in Tables
  <2>1. /\ t.range \in Extent /\ t.offset \in AnyWord /\ t.stride \in Nat \ {0} /\ t.count \in Nat
        /\ t.strings \in Extent /\ t.stringsOffset \in AnyWord /\ t.origin \in Origins
    BY <1>1, <1>2, <1>3, <1>4, <1>5, <1>7
  <2> QED
    BY <1>7, <2>1 DEF Tables
<1> QED
  BY <1>2, <1>5, <1>6, <1>7, <1>8

LEMMA BeginSectionTableIInv ==
  ASSUME IInv, BeginSectionTable
  PROVE  IInv'
<1> USE DEF Go, known, tables
<1> DEFINE k == Image!FirstOf(SymbolSections(current))
<1>1. /\ pc = "symbols" /\ SymbolSections(current) # {} /\ current' = k
      /\ UNCHANGED <<known, tables, tags, data>>
      /\ \/ /\ sections[k].link < Len(sections)
            /\ table' = SectionTable(sections[k]) /\ Go("sectionSymbols")
         \/ UNCHANGED <<pc, next, table>>
  BY DEF BeginSectionTable
<1>2. k \in Nat /\ current < k /\ k <= Len(sections) /\ sections[k] \in SectionHeaders
  BY <1>1, NextTable
<1> HIDE DEF k
<1>3. BytesInv' /\ bytes' = bytes
  BY <1>1, SameBytes DEF IInv
<1>4. HeaderInv' /\ CountersInv' /\ TablesInv'
  BY <1>1, <1>2 DEF IInv, HeaderInv, CountersInv, TablesInv
<1>5. TagsInv' /\ DataInv'
  BY <1>1, SameTags, SameData DEF IInv
<1>6. TableInv'
  <2>1. CASE UNCHANGED <<pc, next, table>>
    BY <1>1, <2>1, SameTable DEF IInv
  <2>2. CASE /\ sections[k].link < Len(sections)
             /\ table' = SectionTable(sections[k]) /\ Go("sectionSymbols")
    <3> DEFINE t == SectionTable(sections[k])
    <3>1. /\ t \in Tables /\ IsBacked(t.range) /\ IsBacked(t.strings)
          /\ t.stride >= Sym.size /\ t.count * t.stride < WordLimit
      BY <1>2, <2>2, SectionTableFacts
    <3>2. table' = t /\ pc' = "sectionSymbols"
      BY <2>2
    <3> HIDE DEF t
    <3> QED
      BY <1>3, <3>1, <3>2 DEF TableInv, IsBacked
  <2> QED
    BY <1>1, <2>1, <2>2
<1> QED
  BY <1>3, <1>4, <1>5, <1>6 DEF IInv

LEMMA LocateDynamicIInv ==
  ASSUME IInv, LocateDynamic
  PROVE  IInv'
<1>1. CASE Jump("done") /\ pc = "dynamic"
  BY <1>1, JumpIInv
<1>2. CASE /\ Jump("tags") /\ pc = "dynamic" /\ SegmentsOf(kPtDynamic) # {}
           /\ InBounds(bytes, Dynamic.fileOffset, Dynamic.fileSize)
  <2> USE DEF Jump, Go, known, tables, reading
  <2>1. BytesInv' /\ bytes' = bytes
    BY <1>2, SameBytes DEF IInv
  <2>2. HeaderInv' /\ CountersInv' /\ TablesInv'
    BY <1>2 DEF IInv, HeaderInv, CountersInv, TablesInv
  <2>3. TableInv' /\ DataInv'
    BY <1>2, SameTable, SameData DEF IInv
  <2>4. SegmentsOf(kPtDynamic)' = SegmentsOf(kPtDynamic) /\ Dynamic' = Dynamic
    BY <1>2 DEF SegmentsOf, Dynamic
  <2>5. TagsInv'
    BY <1>2, <2>1, <2>4 DEF IInv, TagsInv, InBounds
  <2> QED
    BY <2>1, <2>2, <2>3, <2>5 DEF IInv
<1> QED
  BY <1>1, <1>2 DEF LocateDynamic

LEMMA ReadTagIInv ==
  ASSUME IInv, ReadTag
  PROVE  IInv'
<1> USE DEF ReadTag, known, tables
<1>1. BytesInv' /\ bytes' = bytes
  BY SameBytes DEF IInv
<1>2. HeaderInv' /\ CountersInv' /\ TablesInv'
  BY DEF IInv, HeaderInv, CountersInv, TablesInv
<1>3. TableInv' /\ DataInv'
  BY SameTable, SameData DEF IInv
<1>4. SegmentsOf(kPtDynamic)' = SegmentsOf(kPtDynamic) /\ Dynamic' = Dynamic
  BY DEF SegmentsOf, Dynamic
<1>5. tags' \in [Tags -> Nat] /\ \A tag \in Tags \ {"symEntSize"} : tags'[tag] \in AnyWord
  <2> DEFINE dyn == TagAt(next)
             tag == TagNames[dyn.tag]
  <2>1. dyn.val \in AnyWord /\ dyn.val \in Nat
    BY TagIsWords, DynFacts, WordsAreNumbers DEF Words
  <2>2. tags' = tags \/ tags' = [tags EXCEPT ![tag] = dyn.val]
    BY DEF WithTag
  <2>3. tags \in [Tags -> Nat] /\ \A t \in Tags \ {"symEntSize"} : tags[t] \in AnyWord
    BY DEF IInv, TagsInv
  <2> HIDE DEF dyn, tag
  <2> QED
    BY <2>1, <2>2, <2>3
<1>6. TagsInv'
  BY <1>1, <1>4, <1>5 DEF IInv, TagsInv, InBounds
<1> QED
  BY <1>1, <1>2, <1>3, <1>6 DEF IInv

LEMMA CutFacts ==
  ASSUME BytesInv, NEW range, IsBacked(range), NEW size \in Nat
  PROVE  IsBacked(CutTo(range, size))
<1>1. Len(bytes) \in Nat /\ range.from \in Nat /\ range.size \in Nat
  BY DEF BytesInv, IsBacked, Extent
<1> DEFINE least == Image!Lesser(range.size, size)
<1>2. least \in Nat /\ least <= range.size
  BY <1>1 DEF Image!Lesser
<1> HIDE DEF least
<1>3. CutTo(range, size) = range \/ CutTo(range, size) = [range EXCEPT !.size = least]
  BY DEF CutTo, least
<1> QED
  BY <1>1, <1>2, <1>3 DEF IsBacked, Extent

LEMMA LocateTablesIInv ==
  ASSUME IInv, LocateTables
  PROVE  IInv'
<1> USE DEF LocateTables, Go, known, tables
<1>1. BytesInv' /\ bytes' = bytes
  BY SameBytes DEF IInv
<1>2. HeaderInv' /\ CountersInv' /\ TablesInv'
  BY DEF IInv, HeaderInv, CountersInv, TablesInv
<1>3. TagsInv' /\ DataInv'
  BY SameTags, SameData DEF IInv
<1>4. TableInv'
  <2> DEFINE range == Image!DataAt(tags.symtab)
             loaded == Image!DataAt(tags.strtab)
             strings == CutTo(loaded, tags.strSize)
             stride == StrideOf(tags.symEntSize, Sym)
  <2>1. tags.symtab \in AnyWord /\ tags.strtab \in AnyWord /\ tags.strSize \in Nat
        /\ tags.symEntSize \in Nat
    BY DEF IInv, TagsInv, Tags
  <2>2. Image!IsFile(image)
    BY ImageIsFile DEF IInv
  <2>3. IsBacked(range) /\ range.size < WordLimit
    BY <2>1, <2>2, LoadedIsBacked
  <2>4. IsBacked(loaded)
    BY <2>1, <2>2, LoadedIsBacked
  <2> HIDE DEF range, loaded
  <2>5. IsBacked(strings)
    BY <2>1, <2>4, CutFacts DEF IInv
  <2>6. stride \in Nat \ {0} /\ stride >= Sym.size
    BY <2>1, SymFacts, StrideFacts
  <2>7. table' = [range |-> range, offset |-> 0, stride |-> stride, count |-> 0,
                  strings |-> strings, stringsOffset |-> 0, origin |-> "dynsym"]
    BY DEF range, loaded
  <2>8. 0 \in AnyWord /\ pc' = "hash"
    BY WordLimitAssumption DEF AnyWord
  <2> HIDE DEF strings, stride
  <2>9. table' \in Tables
    BY <2>3, <2>5, <2>6, <2>7, <2>8 DEF Tables, IsBacked, Origins
  <2>10. IsBacked(table.range)' /\ IsBacked(table.strings)'
    BY <1>1, <2>3, <2>5, <2>7 DEF IsBacked
  <2> QED
    BY <2>3, <2>6, <2>7, <2>8, <2>9, <2>10 DEF TableInv
<1> QED
  BY <1>1, <1>2, <1>3, <1>4 DEF IInv

\* Whatever number of symbols the tags and the hash tables speak of, no more are
\* read than what is loaded holds.
LEMMA CountedIInv ==
  ASSUME IInv, pc \in {"nchain", "buckets", "chain"}, NEW count \in Nat, Counted(count),
         UNCHANGED <<known, tables, current, tags, data>>
  PROVE  IInv'
<1> USE DEF Go, known, tables
<1> DEFINE most == table.range.size \div table.stride
           S == {IF count = 0 THEN most ELSE count, most, kMaxSymbols}
           least == Min(S)
<1>1. table' = [table EXCEPT !.count = least] /\ pc' = "dynamicSymbols" /\ next' = 0
  BY DEF Counted
<1>2. /\ table.range.size \in Nat /\ table.stride \in Nat \ {0}
      /\ table.stride >= Sym.size /\ table.range.size < WordLimit
      /\ table \in Tables
  BY DEF IInv, TableInv, Tables, Extent
<1>3. most \in Nat /\ most * table.stride <= table.range.size
  BY <1>2, DivFacts
<1> HIDE DEF most
<1>4. least \in Nat /\ least <= most
  <2>1. S \in SUBSET Nat /\ S # {} /\ most \in S
    BY <1>3, LimitsAssumption
  <2> HIDE DEF S
  <2> QED
    BY <2>1, MinFacts
<1> HIDE DEF S, least
<1>5. least * table.stride < WordLimit
  <2> DEFINE some == least * table.stride
             all == most * table.stride
  <2>1. some \in Nat /\ all \in Nat /\ some <= all
    BY <1>2, <1>3, <1>4, ProductsGrow
  <2>2. all <= table.range.size
    BY <1>3
  <2> HIDE DEF some, all
  <2>3. some < WordLimit
    BY <1>2, <2>1, <2>2, WordLimitAssumption
  <2> QED
    BY <2>3 DEF some
<1>6. BytesInv' /\ bytes' = bytes
  BY SameBytes DEF IInv
<1>7. HeaderInv' /\ CountersInv' /\ TablesInv'
  BY <1>1 DEF IInv, HeaderInv, CountersInv, TablesInv
<1>8. TagsInv' /\ DataInv'
  BY <1>1, SameTags, SameData DEF IInv
<1>9. TableInv'
  <2>1. /\ table' \in Tables /\ table'.count = least /\ table'.stride = table.stride
        /\ table'.range = table.range /\ table'.strings = table.strings
    BY <1>1, <1>2, <1>4 DEF Tables
  <2>2. IsBacked(table.range) /\ IsBacked(table.strings)
    BY DEF IInv, TableInv
  <2>3. IsBacked(table.range)' /\ IsBacked(table.strings)'
    BY <1>6, <2>1, <2>2 DEF IsBacked
  <2> QED
    BY <1>1, <1>2, <1>5, <2>1, <2>3 DEF TableInv
<1> QED
  BY <1>6, <1>7, <1>8, <1>9 DEF IInv

LEMMA EstimateIsNumber ==
  ASSUME IInv
  PROVE  EstimatedCount \in Nat
<1>1. tags.strtab \in Nat /\ tags.symtab \in Nat /\ table.stride \in Nat \ {0}
  BY DEF IInv, TagsInv, Tags, TableInv, Tables
<1>2. ASSUME tags.strtab > tags.symtab
      PROVE  (tags.strtab - tags.symtab) \div table.stride \in Nat
  <2>1. tags.strtab - tags.symtab \in Nat
    BY <1>1, <1>2
  <2> QED
    BY <1>1, <2>1, DivFacts
<1> QED
  BY <1>2 DEF EstimatedCount

\* A hash table that is loaded has at least its first numbers.
LEMMA LoadHashFacts ==
  ASSUME IInv, NEW tag \in {"hash", "gnuHash"}, NEW n \in {2, 4}, LoadHash(tags[tag], n)
  PROVE  IsBacked(data') /\ (data' # Image!NoData => n * Widths["u32"] <= data'.size)
<1>1. tags[tag] \in AnyWord
  BY DEF IInv, TagsInv, Tags
<1>2. Image!IsFile(image)
  BY ImageIsFile DEF IInv
<1> DEFINE loaded == Image!DataAt(tags[tag])
<1>3. IsBacked(loaded)
  BY <1>1, <1>2, LoadedIsBacked
<1>4. IsBacked(Image!NoData)
  BY DEF IsBacked, Extent, Image!NoData, IInv, BytesInv
<1>5. data' = Image!NoData \/ (data' = loaded /\ ~(loaded.size < n * Widths["u32"]))
  BY DEF LoadHash
<1> HIDE DEF loaded
<1>6. n * Widths["u32"] \in Nat
  BY U32Facts
<1>7. ASSUME ~(loaded.size < n * Widths["u32"]) PROVE n * Widths["u32"] <= loaded.size
  BY <1>3, <1>6, <1>7 DEF IsBacked, Extent
<1> QED
  BY <1>3, <1>4, <1>5, <1>7

LEMMA LoadHashIInv ==
  ASSUME IInv, LoadDtHash \/ LoadGnuHash
  PROVE  IInv'
<1> USE DEF Go, known, tables
<1>1. UNCHANGED <<known, tables, current, table, tags>> /\ next' = 0
  BY DEF LoadDtHash, LoadGnuHash
<1>2. /\ pc \in {"hash", "nchain"} /\ pc' \in {"nchain", "buckets"}
      /\ pc' = "nchain" => LoadHash(tags["hash"], 2)
      /\ pc' = "buckets" => LoadHash(tags["gnuHash"], 4)
  BY DEF LoadDtHash, LoadGnuHash
<1>3. BytesInv' /\ bytes' = bytes
  BY <1>1, SameBytes DEF IInv
<1>4. HeaderInv' /\ CountersInv' /\ TablesInv'
  BY <1>1, <1>2 DEF IInv, HeaderInv, CountersInv, TablesInv
<1>5. TableInv' /\ TagsInv'
  BY <1>1, <1>2, SameTable, SameTags DEF IInv
<1>6. DataInv'
  <2>1. ASSUME pc' = "nchain"
        PROVE  IsBacked(data') /\ (data' # Image!NoData => 2 * Widths["u32"] <= data'.size)
    BY <1>2, <2>1, LoadHashFacts
  <2>2. ASSUME pc' = "buckets"
        PROVE  IsBacked(data') /\ (data' # Image!NoData => 4 * Widths["u32"] <= data'.size)
    BY <1>2, <2>2, LoadHashFacts
  <2>3. IsBacked(data)' <=> IsBacked(data')
    BY <1>3 DEF IsBacked
  <2> QED
    BY <1>2, <2>1, <2>2, <2>3 DEF DataInv
<1> QED
  BY <1>3, <1>4, <1>5, <1>6 DEF IInv

\* Nothing loaded is nothing to read a number from.
LEMMA LoadedHash ==
  ASSUME HasBuckets
  PROVE  data # Image!NoData
BY DEF HasBuckets

LEMMA ChainStepIInv ==
  ASSUME IInv, BeginChain \/ SkipHash
  PROVE  IInv'
<1> USE DEF known, tables, reading
<1>1. UNCHANGED <<known, tables, reading>> /\ pc \in {"buckets", "chain"} /\ pc' = "chain"
  BY DEF BeginChain, SkipHash
<1>2. HasBuckets /\ 4 * Widths["u32"] <= data.size
  BY LoadedHash DEF BeginChain, SkipHash, IInv, DataInv
<1>3. BytesInv' /\ bytes' = bytes
  BY <1>1, SameBytes DEF IInv
<1>4. next' \in Nat
  <2>1. SymOffset \in Nat /\ LastSym \in Nat
    BY <1>2, BucketFacts, WordsAreNumbers DEF IInv, DataInv
  <2>2. next \in Nat
    BY DEF IInv, CountersInv
  <2>3. CASE BeginChain
    BY <2>1, <2>3 DEF BeginChain
  <2>4. CASE SkipHash
    BY <2>2, <2>4 DEF SkipHash
  <2> QED
    BY <2>3, <2>4
<1>5. HeaderInv' /\ CountersInv' /\ TablesInv'
  BY <1>1, <1>4 DEF IInv, HeaderInv, CountersInv, TablesInv
<1>6. TableInv' /\ TagsInv'
  BY <1>1, SameTable, SameTags DEF IInv
<1>7. DataInv'
  <2>1. IsBacked(data)' <=> IsBacked(data)
    BY <1>1, <1>3 DEF IsBacked
  <2>2. HasBuckets' <=> HasBuckets
    BY <1>1, <1>3 DEF HasBuckets, ChainOff, BucketsOff, WordOf, Word
  <2> QED
    BY <1>1, <1>2, <2>1, <2>2 DEF IInv, DataInv
<1> QED
  BY <1>3, <1>5, <1>6, <1>7 DEF IInv

LEMMA CountingIInv ==
  ASSUME IInv, CountChains \/ NoBuckets \/ NothingHashed \/ EndOfChain \/ CutChain
  PROVE  IInv'
<1> DEFINE Counting(count) == /\ pc \in {"nchain", "buckets", "chain"} /\ Counted(count)
                              /\ UNCHANGED <<known, tables, current, tags, data>>
<1>1. ASSUME NEW count \in Nat, Counting(count) PROVE IInv'
  BY <1>1, CountedIInv
<1>2. CASE CountChains
  <2>1. 2 * Widths["u32"] <= data.size
    BY <1>2 DEF CountChains, HasChains, IInv, DataInv
  <2>2. WordOf(1) \in AnyWord
    BY <2>1, StartFacts DEF IInv, DataInv
  <2>3. Counting(WordOf(1))
    BY <1>2 DEF CountChains
  <2> HIDE DEF Counting
  <2> QED
    BY <1>1, <2>2, <2>3, WordsAreNumbers
<1>3. CASE NoBuckets \/ CutChain
  <2>1. Counting(EstimatedCount)
    BY <1>3 DEF NoBuckets, CutChain
  <2> HIDE DEF Counting
  <2> QED
    BY <1>1, <2>1, EstimateIsNumber
<1>4. CASE NothingHashed \/ EndOfChain
  <2>1. 4 * Widths["u32"] <= data.size
    BY <1>4, LoadedHash DEF NothingHashed, EndOfChain, IInv, DataInv
  <2>2. SymOffset \in Nat /\ next \in Nat
    BY <2>1, BucketFacts, WordsAreNumbers DEF IInv, DataInv, CountersInv
  <2>3. Counting(SymOffset) \/ Counting(SymOffset + next + 1)
    BY <1>4 DEF NothingHashed, EndOfChain
  <2>4. SymOffset + next + 1 \in Nat
    BY <2>2
  <2> HIDE DEF Counting
  <2> QED
    BY <1>1, <2>2, <2>3, <2>4
<1> QED
  BY <1>2, <1>3, <1>4
-----------------------------------------------------------------------------
(***************************************************************************)
(* The results.                                                            *)
(***************************************************************************)

LEMMA NextIInv == IInv /\ [Next]_vars => IInv'
<1> SUFFICES ASSUME IInv, [Next]_vars PROVE IInv'
  OBVIOUS
<1>1. CASE ValidateHeader
  BY <1>1, ValidateHeaderIInv
<1>2. CASE RejectHeader
  BY <1>2, JumpIInv DEF RejectHeader
<1>3. CASE ReadSegment
  BY <1>3, ReadSegmentIInv
<1>4. CASE EndOfSegments
  BY <1>4, JumpIInv DEF EndOfSegments
<1>5. CASE BeginSections
  BY <1>5, BeginSectionsIInv
<1>6. CASE ReadSection
  BY <1>6, ReadSectionIInv
<1>7. CASE ResolveSectionNames
  BY <1>7, ResolveSectionNamesIInv
<1>8. CASE BeginSectionTable
  BY <1>8, BeginSectionTableIInv
<1>9. CASE EndOfSectionTables
  <2>1. \/ Jump("dynamic") /\ pc = "symbols"
        \/ Jump("done") /\ pc = "symbols"
    BY <1>9 DEF EndOfSectionTables
  <2> QED
    BY <2>1, JumpIInv
<1>10. CASE LocateDynamic
  BY <1>10, LocateDynamicIInv
<1>11. CASE ReadTag
  BY <1>11, ReadTagIInv
<1>12. CASE EndOfTags
  BY <1>12, JumpIInv DEF EndOfTags
<1>13. CASE LocateTables
  BY <1>13, LocateTablesIInv
<1>14. CASE NoDynamicTable
  BY <1>14, JumpIInv DEF NoDynamicTable
<1>15. CASE LoadDtHash \/ LoadGnuHash
  BY <1>15, LoadHashIInv
<1>16. CASE CountChains \/ NoBuckets \/ NothingHashed \/ EndOfChain \/ CutChain
  BY <1>16, CountingIInv
<1>17. CASE BeginChain \/ SkipHash
  BY <1>17, ChainStepIInv
<1>18. CASE ReadSymbol
  BY <1>18, ReadSymbolIInv
<1>19. CASE EndOfTable
  <2>1. pc \in {"sectionSymbols", "dynamicSymbols"} /\ (Jump("symbols") \/ Jump("done"))
    BY <1>19 DEF EndOfTable
  <2> QED
    BY <2>1, JumpIInv
<1>20. CASE UNCHANGED vars
  <2> USE DEF vars, known, tables, reading
  <2>1. BytesInv' /\ HeaderInv' /\ CountersInv' /\ TablesInv'
    BY <1>20 DEF IInv, BytesInv, bytes, HeaderInv, CountersInv, TablesInv
  <2>2. TableInv' /\ DataInv'
    BY <1>20, SameTable, SameData DEF IInv
  <2>3. SegmentsOf(kPtDynamic)' = SegmentsOf(kPtDynamic) /\ Dynamic' = Dynamic
    BY <1>20 DEF SegmentsOf, Dynamic
  <2>4. TagsInv'
    BY <1>20, <2>3 DEF IInv, TagsInv, InBounds, bytes
  <2> QED
    BY <2>1, <2>2, <2>4 DEF IInv
<1> QED
  BY <1>1, <1>2, <1>3, <1>4, <1>5, <1>6, <1>7, <1>8, <1>9, <1>10, <1>11, <1>12, <1>13, <1>14,
     <1>15, <1>16, <1>17, <1>18, <1>19, <1>20 DEF Next

\* What the parser has read, and where the table that it reads is, is right after
\* every step: each of the parts is read at places worked out from what the parts
\* before it left.
THEOREM Invariance == Spec => []IInv
<1>1. Init => IInv
  BY InitIInv
<1>2. IInv /\ [Next]_vars => IInv'
  BY NextIInv
<1> QED
  BY <1>1, <1>2, PTL DEF Spec

\* The reads of the tags, of the hash tables and of the symbols never overrun, so
\* that none of them makes parseBytes give up what it has read.
THEOREM ReadsAlwaysStayInBounds == Spec => []ReadsStayInBounds
<1>1. IInv => ReadsStayInBounds
  <2> SUFFICES ASSUME IInv PROVE ReadsStayInBounds
    OBVIOUS
  <2>1. pc = "tags" /\ next < Dynamic.fileSize \div Dyn.size =>
          Fits(EntryAt(Dynamic.fileOffset, next, Dyn.size), Dyn)
    BY TagFits
  <2>2. pc = "nchain" /\ data # Image!NoData => HoldsWord(Widths["u32"])
    <3> SUFFICES ASSUME pc = "nchain", data # Image!NoData PROVE HoldsWord(Widths["u32"])
      OBVIOUS
    <3>1. HoldsWord(1 * Widths["u32"])
      BY StartFacts DEF IInv, DataInv
    <3>2. 1 * Widths["u32"] = Widths["u32"]
      BY U32Facts
    <3> QED
      BY <3>1, <3>2
  <2>3. pc = "buckets" /\ data # Image!NoData =>
          /\ HoldsWord(2 * Widths["u32"])
          /\ HasBuckets =>
               \A b \in 0 .. WordOf(0) - 1 : HoldsWord(BucketsOff + b * Widths["u32"])
    BY BucketFacts DEF IInv, DataInv
  <2>4. pc \in {"sectionSymbols", "dynamicSymbols"} /\ HasSymbol =>
          Fits(table.range.from + TableEntryAt(next), Sym)
    BY SymbolFits
  <2> QED
    BY <2>1, <2>2, <2>3, <2>4 DEF ReadsStayInBounds
<1> QED
  BY <1>1, Invariance, PTL

\* The image is at all times one that the code map and the unwind table can be
\* built from: its offsets, addresses and sizes are words and its bytes are bytes.
THEOREM ParsedImagesAreFiles == Spec => []Image!IsFile(image)
<1>1. IInv => Image!IsFile(image)
  BY ImageIsFile DEF IInv
<1> QED
  BY <1>1, Invariance, PTL

\* No byte of a symbol table is taken for part of two of its symbols: an entry
\* size that is too small is not believed, and no table goes around the address
\* space.
EntriesAreApart ==
  pc \in {"sectionSymbols", "dynamicSymbols"} =>
    \A j, k \in 0 .. table.count - 1 : j < k =>
      \/ TableEntryAt(j) + Sym.size <= TableEntryAt(k)
      \/ TableEntryAt(k) + Sym.size <= TableEntryAt(j)

\* The entries of every symbol table that is read are apart.
THEOREM SymbolsStayApart == Spec => []EntriesAreApart
<1>1. IInv => EntriesAreApart
  <2> SUFFICES ASSUME IInv, pc \in {"sectionSymbols", "dynamicSymbols"},
                      NEW j \in 0 .. table.count - 1, NEW k \in 0 .. table.count - 1, j < k
               PROVE  \/ TableEntryAt(j) + Sym.size <= TableEntryAt(k)
                      \/ TableEntryAt(k) + Sym.size <= TableEntryAt(j)
    BY DEF EntriesAreApart
  <2> DEFINE count == table.count
             stride == table.stride
             offset == table.offset
  <2>1. /\ count \in Nat /\ stride \in Nat \ {0} /\ stride >= Sym.size /\ offset \in Nat
        /\ count * stride < WordLimit
        /\ Sym.size \in Nat
    BY SymFacts, WordsAreNumbers DEF IInv, TableInv, Tables, IsStruct
  <2>2. j \in Nat /\ k \in Nat /\ k < count
    BY <2>1
  <2> HIDE DEF count, stride, offset
  <2>3. PICK d \in Nat : k * stride = j * stride + d /\ stride <= d
    BY <2>1, <2>2, TimesFacts
  <2>4. k * stride + stride <= count * stride
    BY <2>1, <2>2, Multiples
  <2> DEFINE kth == k * stride
             jth == j * stride
             all == count * stride
             at == offset + jth
             p == at % WordLimit
             q == (at + d) % WordLimit
  <2>5. kth \in Nat /\ jth \in Nat /\ all \in Nat /\ kth = jth + d /\ kth + stride <= all
        /\ all < WordLimit /\ WordLimit \in Nat \ {0}
    BY <2>1, <2>2, <2>3, <2>4, WordLimitAssumption
  <2>6. TableEntryAt(j) = p /\ TableEntryAt(k) = q
    <3>1. /\ TableEntryAt(j) = (offset + jth) % WordLimit
          /\ TableEntryAt(k) = (offset + kth) % WordLimit
      BY DEF TableEntryAt, EntryAt, offset, stride
    <3> HIDE DEF kth, jth
    <3>2. offset + kth = offset + jth + d
      BY <2>1, <2>5
    <3> QED
      BY <3>1, <3>2
  <2> HIDE DEF kth, jth, all
  <2>7. at \in Nat /\ d \in 0 .. WordLimit - 1 /\ d + stride < WordLimit
    BY <2>1, <2>3, <2>5
  <2> HIDE DEF at
  <2>8. (q = p + d \/ q = p + d - WordLimit) /\ p \in Nat
    <3> DEFINE W == WordLimit
    <3>1. W \in Nat \ {0} /\ at \in Nat /\ d \in 0 .. W - 1
      BY <2>5, <2>7
    <3> HIDE DEF W
    <3>2. (at + d) % W = (at % W) + d \/ (at + d) % W = (at % W) + d - W
      BY <3>1, LaterFacts
    <3>3. at % W \in 0 .. W - 1
      BY <3>1, ModFacts
    <3> QED
      BY <3>1, <3>2, <3>3 DEF W
  <2> HIDE DEF p, q
  <2>9. p + Sym.size <= q \/ q + Sym.size <= p
    BY <2>1, <2>3, <2>5, <2>7, <2>8
  <2> QED
    BY <2>6, <2>9
<1> QED
  BY <1>1, Invariance, PTL
-----------------------------------------------------------------------------
(***************************************************************************)
(* The parser goes forwards.                                               *)
(***************************************************************************)

\* The order of the parts.  One symbol section comes after the other, each in its
\* turn of "symbols".
Rank ==
  [header |-> 0, segments |-> 1, sections |-> 2, sectionHeaders |-> 3, sectionSymbols |-> 4,
   symbols |-> 5, dynamic |-> 6, tags |-> 7, tables |-> 8, hash |-> 9, nchain |-> 10,
   buckets |-> 11, chain |-> 12, dynamicSymbols |-> 13, done |-> 14, failed |-> 15]

\* How many entries the part that is read has at most.
Limit ==
  CASE pc = "segments" -> header.phnum
    [] pc = "sectionHeaders" -> sectionCount
    [] pc = "tags" -> Dynamic.fileSize
    [] pc = "chain" -> data.size
    [] OTHER -> table.count

\* Every step goes to a later symbol section, of which there are only so many, or
\* to a later part, or to the next entry of its part, which stays below a bound
\* that the step does not move.
GoesForwards ==
  [][\/ current < current' /\ current' <= Len(sections)
     \/ current' = current /\ Rank[pc] < Rank[pc']
     \/ UNCHANGED <<pc, current>> /\ next' = next + 1 /\ next < Limit /\ Limit' = Limit]_vars

\* The step of a loop.
LEMMA ChainHasLimit ==
  ASSUME IInv, pc = "chain", HasHash
  PROVE  next < data.size
<1>1. 4 * Widths["u32"] <= data.size /\ IsBacked(data)
  BY DEF IInv, DataInv
<1>2. ChainOff \in Nat /\ next \in Nat /\ data.size \in Nat
  BY <1>1, BucketFacts DEF IInv, CountersInv, IsBacked, Extent
<1> DEFINE width == Widths["u32"]
           before == next * width
<1>3. width \in Nat \ {0}
  BY U32Facts
<1>4. ChainOff + before + width <= data.size
  BY DEF HasHash, HashAt
<1> HIDE DEF width
<1>5. before \in Nat /\ next <= before
  <2>1. width = 1 + (width - 1) /\ width - 1 \in Nat
    BY <1>3
  <2>2. next * (width - 1) \in Nat
    BY <1>2, <2>1
  <2>3. before = next + next * (width - 1)
    BY <1>2, <1>3
  <2> QED
    BY <1>2, <2>2, <2>3
<1> HIDE DEF before
<1> QED
  BY <1>2, <1>3, <1>4, <1>5

LEMMA TagHasLimit ==
  ASSUME IInv, pc = "tags", HasTag
  PROVE  next < Dynamic.fileSize
<1> DEFINE size == Dynamic.fileSize
<1>1. size \in Nat
  BY DynamicFacts, WordsAreNumbers DEF IInv, TablesInv, TagsInv
<1>2. next < size \div Dyn.size /\ next \in Nat /\ Dyn.size \in Nat \ {0}
  BY DynFacts DEF HasTag, IInv, CountersInv, IsStruct
<1> HIDE DEF size
<1>3. size \div Dyn.size \in Nat /\ size \div Dyn.size <= size
  BY <1>1, <1>2, DivFacts
<1>4. next < size
  BY <1>1, <1>2, <1>3
<1> QED
  BY <1>4 DEF size

\* Nothing that a file says sends the parser back: the loops of parseBytes end
\* because each only counts up to a number that stays what it is.
THEOREM ParserGoesForwards == Spec => GoesForwards
<1> DEFINE Forwards == \/ current < current' /\ current' <= Len(sections)
                       \/ current' = current /\ Rank[pc] < Rank[pc']
                       \/ /\ UNCHANGED <<pc, current>> /\ next' = next + 1
                          /\ next < Limit /\ Limit' = Limit
<1>1. ASSUME IInv, Next PROVE Forwards
  <2> USE <1>1
  <2>1. CASE ValidateHeader \/ RejectHeader \/ EndOfSegments \/ BeginSections \/ ResolveSectionNames
    BY <2>1 DEF ValidateHeader, RejectHeader, EndOfSegments, BeginSections, ResolveSectionNames,
                Jump, Go, reading, Rank
  <2>2. CASE EndOfSectionTables \/ LocateDynamic \/ EndOfTags \/ LocateTables \/ NoDynamicTable
    BY <2>2 DEF EndOfSectionTables, LocateDynamic, EndOfTags, LocateTables, NoDynamicTable,
                Jump, Go, reading, Rank
  <2>3. CASE LoadDtHash \/ LoadGnuHash \/ CountChains \/ NoBuckets \/ NothingHashed
    BY <2>3 DEF LoadDtHash, LoadGnuHash, CountChains, NoBuckets, NothingHashed, Counted, Go, Rank
  <2>4. CASE BeginChain \/ EndOfChain \/ CutChain \/ EndOfTable
    BY <2>4 DEF BeginChain, EndOfChain, CutChain, EndOfTable, Counted, Jump, Go, reading, Rank
  <2>5. CASE BeginSectionTable
    <3>1. /\ SymbolSections(current) # {}
          /\ current' = Image!FirstOf(SymbolSections(current))
      BY <2>5 DEF BeginSectionTable
    <3> QED
      BY <3>1, NextTable
  <2>6. CASE ReadSegment
    BY <2>6 DEF ReadSegment, HasSegment, Limit, known, reading
  <2>7. CASE ReadSection
    BY <2>7 DEF ReadSection, HasSectionHeader, Limit, known, reading
  <2>8. CASE ReadTag
    <3>1. pc = "tags" /\ HasTag /\ next' = next + 1
          /\ UNCHANGED <<known, tables, current, table, data, pc>>
      BY <2>8 DEF ReadTag
    <3>2. Dynamic' = Dynamic
      BY <3>1 DEF Dynamic, SegmentsOf, tables
    <3>3. Limit = Dynamic.fileSize /\ Limit' = Limit
      BY <3>1, <3>2 DEF Limit
    <3> QED
      BY <3>1, <3>3, TagHasLimit
  <2>9. CASE SkipHash
    <3>1. pc = "chain" /\ HasHash /\ next' = next + 1
          /\ UNCHANGED <<known, tables, reading, pc>>
      BY <2>9 DEF SkipHash
    <3>2. Limit = data.size /\ Limit' = Limit
      BY <3>1 DEF Limit, reading
    <3> QED
      BY <3>1, <3>2, ChainHasLimit DEF reading
  <2>10. CASE ReadSymbol
    <3>1. pc \in {"sectionSymbols", "dynamicSymbols"} /\ HasSymbol /\ next' = next + 1
          /\ UNCHANGED <<known, reading, segments, sections, pc>>
      BY <2>10 DEF ReadSymbol
    <3>2. Limit = table.count /\ Limit' = Limit
      BY <3>1 DEF Limit, reading
    <3> QED
      BY <3>1, <3>2 DEF HasSymbol, reading
  <2> QED
    BY <2>1, <2>2, <2>3, <2>4, <2>5, <2>6, <2>7, <2>8, <2>9, <2>10 DEF Next
<1>2. IInv /\ [Next]_vars => [Forwards]_vars
  BY <1>1
<1> QED
  BY <1>2, Invariance, PTL DEF Spec, GoesForwards
-----------------------------------------------------------------------------
(***************************************************************************)
(* What the parser collects is bounded.                                    *)
(***************************************************************************)

\* An image has no more sections than the parser is ready to read and, if its
\* symbols come from PT_DYNAMIC, no more of them.
ImageIsBounded ==
  /\ Len(sections) <= kMaxSections
  /\ SymbolSections(0) = {} => Len(symbols) <= kMaxSymbols

Early == {"header", "segments", "sections", "sectionHeaders"}
Searching == {"dynamic", "tags", "tables", "hash", "nchain", "buckets", "chain"}
Parts ==
  Early \cup Searching \cup {"symbols", "sectionSymbols", "dynamicSymbols", "done", "failed"}

\* How far each part has come with what it collects.
BoundsInv ==
  /\ pc \in Parts
  /\ Len(sections) <= kMaxSections
  /\ pc \in {"header", "segments", "sections"} => sections = <<>>
  /\ pc = "sectionHeaders" => Len(sections) = next /\ sectionCount <= kMaxSections
  /\ pc \in Early \cup Searching => symbols = <<>>
  /\ pc = "sectionSymbols" => SymbolSections(0) # {}
  /\ pc = "dynamicSymbols" => /\ table.count <= kMaxSymbols
                              /\ Len(symbols) = next /\ next <= table.count
  /\ pc \in {"symbols", "done", "failed"} =>
       symbols = <<>> \/ SymbolSections(0) # {} \/ Len(symbols) <= kMaxSymbols
  /\ pc = "symbols" => symbols = <<>> \/ SymbolSections(0) # {}

LEMMA BoundsHold == IInv /\ BoundsInv /\ [Next]_vars => BoundsInv'
<1> SUFFICES ASSUME IInv, BoundsInv, [Next]_vars PROVE BoundsInv'
  OBVIOUS
<1> USE DEF Go, Jump, known, tables, reading, Early, Searching, Parts
<1> DEFINE Same == UNCHANGED <<sections, symbols>>
<1>1. /\ Len(sections) \in Nat /\ Len(symbols) \in Nat /\ next \in Nat
      /\ sections \in Seq(SectionHeaders) /\ symbols \in Seq(Symbols)
      /\ sectionCount \in Nat /\ kMaxSections \in Nat /\ kMaxSymbols \in Nat
  BY LimitsAssumption DEF IInv, TablesInv, CountersInv
<1>2. ASSUME UNCHANGED sections PROVE SymbolSections(0)' = SymbolSections(0)
  BY <1>2 DEF SymbolSections
<1>3. CASE ValidateHeader \/ RejectHeader \/ ReadSegment \/ EndOfSegments
  BY <1>1, <1>3 DEF ValidateHeader, RejectHeader, ReadSegment, EndOfSegments, BoundsInv
<1>4. CASE BeginSections
  <2>1. /\ pc = "sections" /\ next' = 0 /\ UNCHANGED <<sections, symbols, table>>
        /\ pc' \in {"symbols", "failed", "sectionHeaders"}
        /\ pc' = "sectionHeaders" => ~(sectionCount' > kMaxSections)
    BY <1>4 DEF BeginSections
  <2>2. sectionCount' \in Nat
    BY <1>4, NextIInv DEF IInv, CountersInv
  <2> QED
    BY <1>1, <2>1, <2>2 DEF BoundsInv
<1>5. CASE ReadSection
  <2> DEFINE new == UnnamedSection(SectionAt(next))
  <2>1. sections' = Append(sections, new)
    BY <1>5 DEF ReadSection
  <2> HIDE DEF new
  <2>2. Len(sections') = Len(sections) + 1
    BY <1>1, <2>1
  <2>3. /\ pc = "sectionHeaders" /\ pc' = pc /\ next < sectionCount /\ next' = next + 1
        /\ UNCHANGED <<symbols, sectionCount>>
    BY <1>5 DEF ReadSection, HasSectionHeader
  <2> QED
    BY <1>1, <2>2, <2>3 DEF BoundsInv
<1>6. CASE ResolveSectionNames
  <2>1. Len(sections') = Len(sections)
    BY <1>1, <1>6 DEF ResolveSectionNames
  <2>2. pc = "sectionHeaders" /\ pc' = "symbols" /\ UNCHANGED symbols
    BY <1>6 DEF ResolveSectionNames
  <2> QED
    BY <1>1, <2>1, <2>2 DEF BoundsInv
<1>7. CASE BeginSectionTable
  <2>1. /\ pc = "symbols" /\ pc' \in {"symbols", "sectionSymbols"}
        /\ SymbolSections(current) # {} /\ UNCHANGED <<sections, symbols>>
    BY <1>7 DEF BeginSectionTable
  <2>2. SymbolSections(current) \subseteq SymbolSections(0)
    BY DEF SymbolSections, IInv, CountersInv
  <2> QED
    BY <1>1, <1>2, <2>1, <2>2 DEF BoundsInv
<1>8. CASE EndOfSectionTables
  BY <1>1, <1>2, <1>8 DEF EndOfSectionTables, BoundsInv
<1>9. CASE LocateDynamic \/ ReadTag \/ EndOfTags \/ LocateTables \/ NoDynamicTable
  BY <1>1, <1>2, <1>9
     DEF LocateDynamic, ReadTag, EndOfTags, LocateTables, NoDynamicTable, BoundsInv
<1>10. CASE LoadDtHash \/ LoadGnuHash \/ BeginChain \/ SkipHash
  BY <1>1, <1>2, <1>10 DEF LoadDtHash, LoadGnuHash, BeginChain, SkipHash, BoundsInv
<1>11. CASE CountChains \/ NoBuckets \/ NothingHashed \/ EndOfChain \/ CutChain
  <2>1. /\ pc \in Searching /\ UNCHANGED <<sections, symbols>>
        /\ pc' = "dynamicSymbols" /\ next' = 0 /\ \E count \in Nat : Counted(count)
    <3>1. EstimatedCount \in Nat
      BY EstimateIsNumber
    <3>2. ASSUME pc \in {"nchain", "buckets", "chain"}, data # Image!NoData
          PROVE  WordOf(1) \in Nat
      <4>1. 2 * Widths["u32"] <= data.size
        BY <3>2, U32Facts DEF IInv, DataInv, IsBacked, Extent
      <4>2. WordOf(1) \in AnyWord
        BY <4>1, StartFacts DEF IInv, DataInv
      <4> QED
        BY <4>2, WordsAreNumbers
    <3>3. CASE CountChains
      BY <3>2, <3>3 DEF CountChains, HasChains, Counted
    <3>4. CASE NoBuckets \/ CutChain
      BY <3>1, <3>4 DEF NoBuckets, CutChain, Counted
    <3>5. CASE NothingHashed
      BY <3>2, <3>5 DEF NothingHashed, HasBuckets, SymOffset, Counted
    <3>6. CASE EndOfChain
      <4>1. SymOffset \in Nat
        BY <3>2, <3>6 DEF EndOfChain, SymOffset, HasBuckets, IInv, DataInv
      <4>2. SymOffset + next + 1 \in Nat
        BY <1>1, <4>1
      <4> QED
        BY <3>6, <4>2 DEF EndOfChain, Counted
    <3> QED
      BY <1>11, <3>3, <3>4, <3>5, <3>6
  <2>2. table'.count \in Nat /\ table'.count <= kMaxSymbols
    <3>1. PICK count \in Nat : Counted(count)
      BY <2>1
    <3> DEFINE most == table.range.size \div table.stride
               S == {IF count = 0 THEN most ELSE count, most, kMaxSymbols}
    <3>2. table \in Tables
      BY DEF IInv, TableInv
    <3>3. most \in Nat
      <4>1. table.range.size \in Nat /\ table.stride \in Nat \ {0}
        BY <3>2 DEF Tables, Extent
      <4> QED
        BY <4>1, DivFacts
    <3>4. table'.count = Min(S)
      BY <3>1, <3>2 DEF Counted, Tables
    <3> HIDE DEF most
    <3>5. S \in SUBSET Nat /\ S # {} /\ kMaxSymbols \in S
      BY <1>1, <3>3
    <3> HIDE DEF S
    <3> DEFINE least == Min(S)
    <3>6. least \in S /\ least <= kMaxSymbols
      BY <3>5, MinFacts
    <3> HIDE DEF least
    <3>7. least \in Nat
      BY <3>5, <3>6
    <3> QED
      BY <3>4, <3>6, <3>7 DEF least
  <2> QED
    BY <1>1, <2>1, <2>2 DEF BoundsInv
<1>12. CASE ReadSymbol
  <2> DEFINE new == SymbolAt(table.range.from + TableEntryAt(next))
  <2>1. symbols' = Append(symbols, new)
    BY <1>12 DEF ReadSymbol
  <2> HIDE DEF new
  <2>2. Len(symbols') = Len(symbols) + 1
    BY <1>1, <2>1
  <2>3. /\ pc \in {"sectionSymbols", "dynamicSymbols"} /\ pc' = pc /\ next < table.count
        /\ next' = next + 1 /\ UNCHANGED <<sections, table>>
    BY <1>12 DEF ReadSymbol, HasSymbol
  <2>4. table.count \in Nat
    BY DEF IInv, TableInv, Tables
  <2> QED
    BY <1>1, <1>2, <2>2, <2>3, <2>4 DEF BoundsInv
<1>13. CASE EndOfTable
  <2>1. table.count \in Nat
    BY DEF IInv, TableInv, Tables
  <2> QED
    BY <1>1, <1>2, <1>13, <2>1 DEF EndOfTable, BoundsInv
<1>14. CASE UNCHANGED vars
  BY <1>2, <1>14 DEF vars, BoundsInv
<1> QED
  BY <1>3, <1>4, <1>5, <1>6, <1>7, <1>8, <1>9, <1>10, <1>11, <1>12, <1>13, <1>14 DEF Next

\* Whatever counts the headers, the tags and the hash tables of a file give, the
\* parser collects no more than kMaxSections and kMaxSymbols allow.
THEOREM ImagesStayBounded == Spec => []ImageIsBounded
<1>1. Init => BoundsInv
  BY LimitsAssumption DEF Init, BoundsInv, Early, Searching, Parts
<1>2. IInv /\ BoundsInv /\ [Next]_vars => BoundsInv'
  BY BoundsHold
<1>3. IInv /\ BoundsInv => ImageIsBounded
  <2> SUFFICES ASSUME IInv, BoundsInv PROVE ImageIsBounded
    OBVIOUS
  <2>1. /\ SymbolSections(0) = {} => pc # "sectionSymbols" /\ Len(symbols) \in Nat
        /\ table.count \in Nat /\ kMaxSymbols \in Nat /\ Len(<<>>) = 0
    BY LimitsAssumption DEF IInv, TablesInv, TableInv, Tables, BoundsInv
  <2>2. ASSUME SymbolSections(0) = {} PROVE Len(symbols) <= kMaxSymbols
    <3>1. CASE pc = "dynamicSymbols"
      BY <2>1, <2>2, <3>1 DEF BoundsInv, IInv, CountersInv
    <3>2. CASE pc # "dynamicSymbols"
      <4>1. symbols = <<>> \/ Len(symbols) <= kMaxSymbols
        BY <2>1, <2>2, <3>2 DEF BoundsInv, Parts, Early, Searching
      <4> QED
        BY <2>1, <4>1
    <3> QED
      BY <3>1, <3>2
  <2> QED
    BY <2>2 DEF BoundsInv, ImageIsBounded
<1> QED
  BY <1>1, <1>2, <1>3, Invariance, PTL DEF Spec
==============================================================================
