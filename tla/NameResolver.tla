----------------------------- MODULE NameResolver -----------------------------
(***************************************************************************)
(* NameResolver: its constructor reads the symbols of an image in table    *)
(* order and keeps, for each address, the name with the best binding; the  *)
(* queries answer from what it kept (symbol/name_resolver,                 *)
(* elf/elf_symbol).                                                        *)
(*                                                                         *)
(* Text is not modelled: a name is a model value, and a name shown to the  *)
(* user says where it came from and from what.                             *)
(***************************************************************************)
EXTENDS Naturals, Sequences

CONSTANTS
  Value,           \* the addresses symbols have
  Name,            \* the names they have
  NoName,          \* the empty name
  SymbolTables     \* the symbol tables of the images to analyse

VARIABLES
  symbols,         \* ElfImage::symbols(), table by table
  named,           \* how many of them the constructor has read
  nameByAddress, rankByAddress

resolverVars == <<named, nameByAddress, rankByAddress>>

Binding == {"local", "global", "weak", "other"}

ElfSymbol ==
  [value : Value, size : Nat, name : Name \cup {NoName},
   type : {"func", "ifunc", "other"}, binding : Binding,
   section : {"undefined", "index", "reserved"}]

ASSUME SymbolsAssumption == NoName \notin Name /\ SymbolTables \subseteq Seq(ElfSymbol)

IsFunction(sym) == sym.type \in {"func", "ifunc"}
IsDefined(sym) == sym.section = "index"
HasName(sym) == sym.name # NoName

BindingRank(binding) ==
  CASE binding = "global" -> 3 [] binding = "weak" -> 2 [] binding = "local" -> 1
    [] OTHER -> 0
-----------------------------------------------------------------------------
Put(map, key, value) ==
  [k \in DOMAIN map \cup {key} |-> IF k = key THEN value ELSE map[k]]

Empty == [a \in {} |-> 0]

ResolverInit == named = 0 /\ nameByAddress = Empty /\ rankByAddress = Empty

IsNameable(sym) == IsFunction(sym) /\ IsDefined(sym) /\ HasName(sym)

\* Mutant of IsBetter: the last of equals wins.
IsAsGood(sym) ==
  \/ sym.value \notin DOMAIN rankByAddress
  \/ BindingRank(sym.binding) >= rankByAddress[sym.value]

\* A later symbol replaces a name only with a better binding.
IsBetter(sym) ==
  \/ sym.value \notin DOMAIN rankByAddress
  \/ BindingRank(sym.binding) > rankByAddress[sym.value]

\* One turn of the constructor's loop.
ReadName ==
  /\ named < Len(symbols)
  /\ named' = named + 1
  /\ LET sym == symbols[named + 1] IN
       IF IsNameable(sym) /\ IsBetter(sym)
       THEN /\ nameByAddress' = Put(nameByAddress, sym.value, sym.name)
            /\ rankByAddress' = Put(rankByAddress, sym.value, BindingRank(sym.binding))
       ELSE UNCHANGED <<nameByAddress, rankByAddress>>
  /\ UNCHANGED symbols

Init == symbols \in SymbolTables /\ ResolverInit

vars == <<symbols, resolverVars>>

Spec == Init /\ [][ReadName]_vars
-----------------------------------------------------------------------------
HasSymbol(addr) == addr \in DOMAIN nameByAddress

\* nameFor: the symbol's name, demangled when that is asked for, or sub_ADDR.
NameFor(addr, demangle) ==
  IF ~HasSymbol(addr) THEN [kind |-> "synthetic", of |-> addr]
  ELSE [kind |-> IF demangle THEN "demangled" ELSE "raw", of |-> nameByAddress[addr]]
-----------------------------------------------------------------------------
\* The variables of the resolver have their types, and the two maps, kept apart
\* in the code, are always about the same addresses.
TypeOK ==
  /\ symbols \in Seq(ElfSymbol) /\ named \in 0 .. Len(symbols)
  /\ nameByAddress \in [DOMAIN nameByAddress -> Name]
  /\ rankByAddress \in [DOMAIN nameByAddress -> 0 .. 3]
  /\ DOMAIN nameByAddress \subseteq Value

Readings == {i \in 1 .. named : IsNameable(symbols[i])}

Rank(i) == BindingRank(symbols[i].binding)

\* Symbol i wins its address: no symbol read there has a better binding, and
\* none as good comes before it in the table.
Wins(i) ==
  \A j \in Readings : symbols[j].value = symbols[i].value =>
                        Rank(j) < Rank(i) \/ (Rank(j) = Rank(i) /\ i <= j)

\* Whatever the order of the table, the name of an address is that of its best
\* bound symbol, the first of equals; an address has a name exactly when some
\* defined function symbol gives it one.
NamesAreBest ==
  /\ \A i \in Readings : symbols[i].value \in DOMAIN nameByAddress
  /\ \A a \in DOMAIN nameByAddress :
       \E i \in Readings : symbols[i].value = a /\ Wins(i) /\ nameByAddress[a] = symbols[i].name
==============================================================================
