-------------------------- MODULE NameResolverProofs --------------------------
(***************************************************************************)
(* The resolver keeps the best name of every address, for every symbol     *)
(* table.                                                                  *)
(***************************************************************************)
EXTENDS NameResolver, Integers, TLAPS

\* What is kept for a is what symbol i says, and i wins its address.
KeptFrom(a, i) ==
  /\ symbols[i].value = a
  /\ nameByAddress[a] = symbols[i].name
  /\ rankByAddress[a] = Rank(i)
  /\ Wins(i)

\* The kept rank is what makes the invariant inductive: IsBetter compares with
\* it, and it must be the rank of the symbol the name comes from.
IInv ==
  /\ TypeOK
  /\ \A i \in Readings : symbols[i].value \in DOMAIN nameByAddress
  /\ \A a \in DOMAIN nameByAddress : \E i \in Readings : KeptFrom(a, i)
-----------------------------------------------------------------------------
\* A rank is a number from 0 to 3.
LEMMA RankType == \A b : BindingRank(b) \in 0 .. 3
BY DEF BindingRank

\* The invariant holds before the constructor's loop.
LEMMA InitIInv == Init => IInv
<1> SUFFICES ASSUME Init PROVE IInv
  OBVIOUS
<1> USE DEF Init, ResolverInit, Empty
<1>1. symbols \in Seq(ElfSymbol) /\ named = 0 /\ Len(symbols) \in Nat
  BY SymbolsAssumption
<1>2. DOMAIN nameByAddress = {} /\ DOMAIN rankByAddress = {}
  OBVIOUS
<1>3. Readings = {}
  BY <1>1 DEF Readings
<1>4. TypeOK
  BY <1>1, <1>2 DEF TypeOK
<1> QED
  BY <1>2, <1>3, <1>4 DEF IInv

\* A turn that keeps the name of its symbol.
LEMMA KeepIInv ==
  ASSUME IInv, ReadName, NEW n, n = named + 1,
         IsNameable(symbols[n]), IsBetter(symbols[n])
  PROVE  IInv'
<1> DEFINE sym == symbols[n]
<1>1. /\ named \in Nat /\ n \in 1 .. Len(symbols) /\ Len(symbols) \in Nat
      /\ named' = n /\ symbols' = symbols /\ sym \in ElfSymbol
      /\ \A i \in 1 .. n : symbols[i] \in ElfSymbol
  BY DEF IInv, TypeOK, ReadName
<1>2. /\ nameByAddress' = Put(nameByAddress, sym.value, sym.name)
      /\ rankByAddress' = Put(rankByAddress, sym.value, BindingRank(sym.binding))
  BY DEF ReadName
<1>3. Readings' = Readings \cup {n} /\ n \notin Readings
  BY <1>1 DEF Readings
<1>4. \A i : Rank(i)' = Rank(i)
  BY <1>1 DEF Rank
<1>5. \A i : Rank(i) \in Int
  <2> SUFFICES ASSUME NEW i PROVE Rank(i) \in 0 .. 3
    OBVIOUS
  <2> QED
    BY RankType DEF Rank
<1>6. sym.name \in Name /\ sym.value \in Value
  BY <1>1 DEF IsNameable, HasName, ElfSymbol
<1>7. DOMAIN nameByAddress = DOMAIN rankByAddress
  BY DEF IInv, TypeOK
<1> HIDE DEF sym
<1>8. /\ DOMAIN nameByAddress' = DOMAIN nameByAddress \cup {sym.value}
      /\ nameByAddress'[sym.value] = sym.name
      /\ rankByAddress'[sym.value] = BindingRank(sym.binding)
      /\ \A a \in DOMAIN nameByAddress : a # sym.value =>
           nameByAddress'[a] = nameByAddress[a] /\ rankByAddress'[a] = rankByAddress[a]
  BY <1>2, <1>7 DEF Put
<1>9. TypeOK'
  <2>1. nameByAddress' \in [DOMAIN nameByAddress' -> Name]
    BY <1>2, <1>6, <1>8 DEF IInv, TypeOK, Put
  <2>2. rankByAddress' \in [DOMAIN nameByAddress' -> 0 .. 3]
    BY <1>2, <1>7, <1>8, RankType DEF IInv, TypeOK, Put
  <2> QED
    BY <1>1, <1>6, <1>8, <2>1, <2>2 DEF IInv, TypeOK
<1>10. \A i \in Readings' : symbols'[i].value \in DOMAIN nameByAddress'
  BY <1>1, <1>3, <1>8 DEF IInv, sym
<1>11. ASSUME NEW a \in DOMAIN nameByAddress' PROVE \E i \in Readings' : KeptFrom(a, i)'
  <2>1. CASE a = sym.value
    <3>1. Rank(n) = BindingRank(sym.binding)
      BY DEF Rank, sym
    <3>2. ASSUME NEW j \in Readings, symbols[j].value = a PROVE Rank(j) < Rank(n)
      <4>1. a \in DOMAIN nameByAddress
        BY <3>2 DEF IInv
      <4>2. PICK i \in Readings : KeptFrom(a, i)
        BY <4>1 DEF IInv
      <4>3. Rank(i) < Rank(n)
        BY <1>5, <1>7, <2>1, <3>1, <4>1, <4>2 DEF IsBetter, KeptFrom, sym
      <4>4. Rank(j) <= Rank(i)
        BY <1>5, <3>2, <4>2 DEF KeptFrom, Wins
      <4> QED
        BY <1>5, <4>3, <4>4
    <3>3. symbols'[n] = sym /\ n <= n /\ n \in Readings'
      BY <1>1, <1>3 DEF sym
    <3>4. Wins(n)'
      BY <1>1, <1>3, <1>4, <2>1, <3>2, <3>3 DEF Wins
    <3>5. KeptFrom(a, n)'
      BY <1>4, <1>8, <2>1, <3>1, <3>3, <3>4 DEF KeptFrom
    <3> QED
      BY <3>3, <3>5
  <2>2. CASE a # sym.value
    <3>1. a \in DOMAIN nameByAddress
      BY <1>8, <2>2
    <3>2. PICK i \in Readings : KeptFrom(a, i)
      BY <3>1 DEF IInv
    <3>3. Wins(i)'
      BY <1>1, <1>3, <1>4, <2>2, <3>2 DEF Wins, KeptFrom, sym
    <3> QED
      BY <1>1, <1>3, <1>4, <1>8, <2>2, <3>1, <3>2, <3>3 DEF KeptFrom
  <2> QED
    BY <2>1, <2>2
<1> QED
  BY <1>9, <1>10, <1>11 DEF IInv

\* A turn that passes over its symbol: it is none, or not better than the one
\* whose name is kept.
LEMMA PassIInv ==
  ASSUME IInv, ReadName, NEW n, n = named + 1,
         ~(IsNameable(symbols[n]) /\ IsBetter(symbols[n]))
  PROVE  IInv'
<1>1. /\ named \in Nat /\ n \in 1 .. Len(symbols) /\ Len(symbols) \in Nat
      /\ named' = n /\ symbols' = symbols
      /\ UNCHANGED <<nameByAddress, rankByAddress>>
  BY DEF IInv, TypeOK, ReadName
<1>2. TypeOK'
  BY <1>1 DEF IInv, TypeOK
<1>3. Readings' = Readings \cup {i \in {n} : IsNameable(symbols[i])}
  BY <1>1 DEF Readings
<1>4. \A i : Rank(i)' = Rank(i) /\ Rank(i) \in Int
  BY <1>1, RankType DEF Rank
<1>5. IsNameable(symbols[n]) =>
        /\ symbols[n].value \in DOMAIN nameByAddress
        /\ Rank(n) <= rankByAddress[symbols[n].value]
  <2>1. ASSUME IsNameable(symbols[n]), symbols[n].value \in DOMAIN nameByAddress
        PROVE  rankByAddress[symbols[n].value] \in Int
    BY <2>1 DEF IInv, TypeOK
  <2> QED
    BY <1>4, <2>1 DEF IsBetter, Rank, IInv, TypeOK
<1>6. \A i \in Readings' : symbols'[i].value \in DOMAIN nameByAddress'
  BY <1>1, <1>3, <1>5 DEF IInv
<1>7. ASSUME NEW a \in DOMAIN nameByAddress' PROVE \E i \in Readings' : KeptFrom(a, i)'
  <2>1. PICK i \in Readings : KeptFrom(a, i)
    BY <1>1 DEF IInv
  <2>2. ASSUME NEW j \in Readings', symbols[j].value = symbols[i].value
        PROVE  Rank(j) < Rank(i) \/ (Rank(j) = Rank(i) /\ i <= j)
    <3>1. CASE j \in Readings
      BY <2>1, <2>2, <3>1 DEF KeptFrom, Wins
    <3>2. CASE j = n /\ IsNameable(symbols[n])
      <4>1. Rank(n) <= Rank(i)
        BY <1>5, <2>1, <2>2, <3>2 DEF KeptFrom
      <4>2. i \in Int /\ i <= n
        BY <1>1 DEF Readings
      <4> QED
        BY <1>4, <3>2, <4>1, <4>2
    <3> QED
      BY <1>3, <3>1, <3>2
  <2>3. Wins(i)'
    BY <1>1, <1>4, <2>2 DEF Wins
  <2> QED
    BY <1>1, <1>3, <1>4, <2>1, <2>3 DEF KeptFrom
<1> QED
  BY <1>2, <1>6, <1>7 DEF IInv

\* Every step keeps the invariant.
LEMMA NextIInv == IInv /\ [ReadName]_vars => IInv'
<1> SUFFICES ASSUME IInv, [ReadName]_vars PROVE IInv'
  OBVIOUS
<1>1. CASE ReadName
  BY <1>1, KeepIInv, PassIInv
<1>2. CASE UNCHANGED vars
  BY <1>2 DEF vars, resolverVars, IInv, TypeOK, Readings, KeptFrom, Wins, Rank
<1> QED
  BY <1>1, <1>2

\* The inductive invariant holds of every run of the constructor.
THEOREM Invariance == Spec => []IInv
BY InitIInv, NextIInv, PTL DEF Spec

\* The two maps of the resolver stay about the same addresses, and typed.
THEOREM TypeCorrect == Spec => []TypeOK
<1>1. IInv => TypeOK
  BY DEF IInv
<1> QED
  BY <1>1, Invariance, PTL

\* Whatever the table, and after any part of it, an address is named by the
\* first of its best bound function symbols, and by none if it has none.
THEOREM NamesStayBest == Spec => []NamesAreBest
<1>1. IInv => NamesAreBest
  BY DEF IInv, NamesAreBest, KeptFrom
<1> QED
  BY <1>1, Invariance, PTL
==============================================================================
