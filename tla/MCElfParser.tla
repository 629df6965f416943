----------------------------- MODULE MCElfParser -----------------------------
(***************************************************************************)
(* Files with two symbol tables, written the way linkers order their parts,*)
(* stripped of their section headers or not, and cut at every byte.        *)
(***************************************************************************)
EXTENDS ElfParser

MCWidths == [w \in Sizes |-> 1]

kVirtual == 16     \* the address of the first byte of a file

\* What is written for a file.
\*   order: of its loaded parts            hashes: the hash tables it has
\*   chains: of DT_GNU_HASH                padding: of a symbol table's entries
\*   stripped: it has no section headers   escaped: their number is in the first
Layout(order, hashes, chains, padding, stripped, escaped) ==
  [order |-> order, hashes |-> hashes, chains |-> chains, padding |-> padding,
   stripped |-> stripped, escaped |-> escaped]

Symbol(name, info, value, origin) ==
  [name |-> name, info |-> info, sectionIndex |-> IF info = 0 THEN 0 ELSE 1, value |-> value,
   size |-> info, origin |-> origin]

DynSyms == <<Symbol(<<>>, 0, 0, "dynsym"), Symbol(<<97>>, 18, 40, "dynsym"),
             Symbol(<<98, 99>>, 34, 44, "dynsym")>>
SymTab == <<Symbol(<<>>, 0, 0, "symtab"), Symbol(<<99>>, 2, 48, "symtab")>>

Strings == <<0, 97, 0, 98, 99, 0>>

NameOffset(name) ==
  CASE name = <<>> -> 0 [] name = <<97>> -> 1 [] name = <<98, 99>> -> 3 [] name = <<99>> -> 4

Tag(name) == CHOOSE t \in DOMAIN TagNames : TagNames[t] = name

Zeros(n) == [i \in 1 .. n |-> 0]

SymBytes(l, syms) ==
  FlattenSeq([i \in DOMAIN syms |->
    <<NameOffset(syms[i].name), syms[i].info, 0, syms[i].sectionIndex, syms[i].value,
      syms[i].size>> \o Zeros(l.padding)])

\* The symbols 1 and 2 in one bucket or in two, none, or without an end.
GnuBytes(chains) ==
  <<2, IF chains = "none" THEN 3 ELSE 1, 1, 0, 7>> \o
  (CASE chains = "one" -> <<1, 0, 4, 5>> [] chains = "two" -> <<1, 2, 5, 7>>
     [] chains = "none" -> <<0, 0>> [] chains = "endless" -> <<1, 0, 4, 4>>)

Loaded(l, part) == part \in {"dynamic", "dynsym", "dynstr"} \cup l.hashes
Sections == <<"symtab", "strtab", "headers">>
PartsOf(l) ==
  SelectSeq(l.order, LAMBDA part : Loaded(l, part) \/ (part = "headers" /\ ~l.stripped)) \o
  SelectSeq(IF l.stripped THEN <<>> ELSE Sections, LAMBDA part : part \notin Range(l.order))

\* The bytes of a part, when at says where each part is.
Bytes(l, part, at, top) ==
  LET address == [p \in DOMAIN at |-> at[p] + kVirtual]
      width == Sym.size + l.padding
  IN CASE part = "dynsym" -> SymBytes(l, DynSyms)
       [] part = "symtab" -> SymBytes(l, SymTab)
       [] part \in {"dynstr", "strtab"} -> Strings
       [] part = "hash" -> <<1, 3, 1, 0, 2, 0>>
       [] part = "gnu" -> GnuBytes(l.chains)
       [] part = "dynamic" ->
            <<1, 9, Tag("symtab"), address["dynsym"], Tag("strtab"), address["dynstr"]>> \o
            (IF l.padding = 0 THEN <<Tag("strSize"), 6, Tag("symEntSize"), 0>> ELSE <<Tag("symEntSize"), width>>) \o
            (IF "hash" \in l.hashes THEN <<Tag("hash"), address["hash"]>> ELSE <<>>) \o
            (IF "gnu" \in l.hashes THEN <<Tag("gnuHash"), address["gnu"]>> ELSE <<>>) \o
            <<kDtNull, 0, Tag("symtab"), 1>>
       [] part = "headers" ->
            (IF l.escaped THEN <<0, 0, 0, 0, 0, 5, 4, 0, 0, 0>> ELSE Zeros(10)) \o
            <<1, kShtDynsym, 2, address["dynsym"], at["dynsym"], 3 * width, 2, 1, 8, width>> \o
            <<3, 3, 2, address["dynstr"], at["dynstr"], 6, 0, 0, 1, 0>> \o
            <<4, kShtSymtab, 0, 0, at["symtab"], 2 * width, 4, 1, 8, IF l.padding = 0 THEN 0 ELSE width>> \o
            <<9, 3, 0, 0, at["strtab"], 6, 0, 0, 1, 0>>

Nowhere == [p \in {"dynsym", "dynstr", "hash", "gnu", "dynamic", "symtab", "strtab", "headers"} |-> 0]

SizeOfPart(l, part) == Len(Bytes(l, part, Nowhere, 0))

SizeOfParts(l, parts) == FoldRight(LAMBDA part, n : n + SizeOfPart(l, part), parts, 0)

HeadersSize == Ehdr.size + 2 * Phdr.size

Places(l) ==
  LET parts == PartsOf(l)
  IN [p \in DOMAIN Nowhere |->
        IF p \in Range(parts)
        THEN HeadersSize + SizeOfParts(l, SubSeq(parts, 1, SelectInSeq(parts, LAMBDA q : q = p) - 1))
        ELSE 0]

\* The loaded parts come first, except for section headers among them.
LoadedEnd(l) ==
  HeadersSize + SizeOfParts(l, SelectSeq(PartsOf(l), LAMBDA p : Loaded(l, p) \/ p \in Range(l.order)))

Whole(l) ==
  LET at == Places(l)
      parts == PartsOf(l)
      ehdr == kElfMag \o <<kElfClass64, kElfData2Lsb>> \o Zeros(10) \o
              <<3, kEmAArch64, 1, 60, Ehdr.size, at["headers"], 0, 29, 0, 2, 10>> \o
              (IF l.stripped THEN <<0, 0>> ELSE IF l.escaped THEN <<0, kShnXIndex>> ELSE <<5, 4>>)
      load == <<kPtLoad, 5, 0, kVirtual, 0, LoadedEnd(l), LoadedEnd(l), 1>>
      dynamic == <<kPtDynamic, 6, at["dynamic"], at["dynamic"] + kVirtual, 0,
                   SizeOfPart(l, "dynamic"), 0, 1>>
  IN ehdr \o load \o dynamic \o FlattenSeq([i \in DOMAIN parts |-> Bytes(l, parts[i], at, 0)])

Written(l) == IF l.stripped THEN DynSyms ELSE DynSyms \o SymTab

CutsOf(l) ==
  LET whole == Whole(l)
      at == Places(l)
      needed == {at[p] + SizeOfPart(l, p) : p \in {"dynamic", "dynsym", "dynstr"}}
      headersGone == IF l.stripped THEN Len(whole) ELSE at["headers"] + 2 * Shdr.size - 1
      \* A file cut before its section headers still has its loaded symbols.
      owed(n) == IF n = Len(whole) THEN Len(Written(l))
                 ELSE IF n \in Max(needed) .. headersGone THEN Len(DynSyms) ELSE 0
  IN {[bytes |-> SubSeq(whole, 1, n), written |-> Written(l), owed |-> owed(n),
       damaged |-> FALSE] : n \in 0 .. Len(whole)}
-----------------------------------------------------------------------------
\* The orders of the two common linkers, and orders in which a cut loses the
\* hash tables, the symbols or the names while the dynamic table is whole.
BfdOrder == <<"hash", "gnu", "dynsym", "dynstr", "dynamic">>
LldOrder == <<"dynsym", "gnu", "hash", "dynstr", "dynamic">>
HashesLast == <<"dynamic", "dynsym", "dynstr", "hash", "gnu">>
SymbolsLast == <<"headers", "dynamic", "gnu", "hash", "dynsym", "dynstr">>

Both == {"hash", "gnu"}

MCLayouts ==
  {Layout(o, h, "one", 0, s, FALSE) :
     o \in {BfdOrder, HashesLast, SymbolsLast}, h \in {{}, {"hash"}, {"gnu"}}, s \in BOOLEAN}
  \cup {Layout(SymbolsLast, {"hash"}, "one", 1, s, FALSE) : s \in BOOLEAN}
  \cup {Layout(o, {"gnu"}, c, 0, TRUE, FALSE) : o \in {HashesLast, SymbolsLast}, c \in {"two", "none"}}
  \cup {Layout(HashesLast, {"gnu"}, "endless", 0, TRUE, FALSE)}
  \cup {Layout(LldOrder, Both, "two", 0, s, ~s) : s \in BOOLEAN}

\* The same files with one of their bytes damaged.
DamagedLayouts ==
  {Layout(HashesLast, {"gnu"}, "one", 0, TRUE, FALSE), Layout(BfdOrder, {}, "one", 0, FALSE, TRUE)}

DamagesOf(l) ==
  LET whole == Whole(l)
  IN {[bytes |-> [whole EXCEPT ![p] = v], written |-> <<>>, owed |-> 0, damaged |-> TRUE] :
        p \in DOMAIN whole, v \in {0, 7, 255}}

MCFiles == UNION {CutsOf(l) : l \in MCLayouts} \cup UNION {DamagesOf(l) : l \in DamagedLayouts}
==============================================================================
