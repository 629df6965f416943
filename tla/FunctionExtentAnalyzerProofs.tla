--------------------- MODULE FunctionExtentAnalyzerProofs ---------------------
(***************************************************************************)
(* What FunctionExtentAnalyzer guarantees for every image, every entries,  *)
(* sizes and options, proved with TLAPS on top of the invariant of the     *)
(* graph builder it drives.  The types and the graphs are right for every  *)
(* image; what is said of the functions has the condition that no region   *)
(* reaches the top of the address space, without which the search of the   *)
(* gaps may come round to address 0 and never end.                         *)
(***************************************************************************)
EXTENDS FunctionExtentAnalyzer, CfgBuilderProofs

-----------------------------------------------------------------------------
(***************************************************************************)
(* The inductive invariant.                                                *)
(***************************************************************************)
Collecting == pc \in {"candidates", "extent"}
Carried == pc \in {"carve", "gapCfg"}
Searching == pc = "gaps" \/ Carried
Filtering == pc \in {"filter", "done"}

\* The candidate whose graph is being built, and all those not dealt with.
Current == IF pc = "extent" THEN {request.entry} ELSE {}
Left == pending \cup Current

\* From s to e there is code of one region.
Within(s, e) ==
  \E i \in DOMAIN regions : regions[i].start <= s /\ s < e /\ e <= regions[i].end

IsFunction(fn) == fn \in FunctionBounds /\ Within(fn.start, fn.end)

Apart(f, g) == f.end <= g.start \/ g.end <= f.start

\* No strong entry is strictly between s and e.
NoStrongInside(s, e) == \A a \in StrongSorted : ~(s < a /\ a < e)

\* What each pass finds untouched.
PhaseInv ==
  /\ pc = "idle" => emitted = {} /\ coverEnd = 0 /\ suppressed = 0
  /\ ~Collecting => pending = {}
  /\ pc = "idle" \/ Collecting => gapFunctions = {} /\ gapCount = 0
  /\ ~Searching => todo = {}
  /\ ~Filtering => unfiltered = {} /\ result = <<>>

\* The candidate whose graph is being built.
ExtentInv ==
  pc = "extent" =>
    /\ request.entry \in EntryBoundaries \ pending
    /\ request.upperBound
         = Lesser(NextStrongAfter(request.entry), RegionEndFor(request.entry))
    /\ coverEnd <= request.entry /\ ~IsSized(request.entry)
    /\ \A d \in pending : request.entry < d

\* The functions of the first pass lie before the candidates that are left.
EmittedInv ==
  /\ \A fn \in emitted : IsFunction(fn) /\ fn.end <= coverEnd
  /\ \A f, g \in emitted : f = g \/ Apart(f, g)
  /\ \A fn \in emitted, c \in Left : fn.start < c
  /\ coverEnd = 0 \/ \E fn \in emitted : fn.end = coverEnd

SizesInv ==
  \A fn \in emitted :
    IF IsSized(fn.start) THEN fn.end = SizedEnd(fn.start)
                         ELSE NoStrongInside(fn.start, fn.end)

CoveredInv ==
  pc # "idle" =>
    \A a \in EntryBoundaries : a \in Left \/ \E fn \in emitted : Holds(fn, a)

CountInv ==
  /\ IsFiniteSet(pending) /\ IsFiniteSet(emitted) /\ IsFiniteSet(gapFunctions)
  /\ Collecting =>
       Cardinality(EntryBoundaries)
         = Cardinality(Left) + Cardinality(emitted) + suppressed
  /\ Searching \/ Filtering =>
       /\ Cardinality(EntryBoundaries) = referencedCount + suppressed
       /\ referencedCount = Cardinality(emitted)
  /\ gapCount = Cardinality(gapFunctions)

\* The functions of the region that are not passed lie after pos, the others
\* before it.
RegionInv ==
  Searching =>
    IF ri \in DOMAIN regions
    THEN /\ todo \subseteq InRegion(ri)
         /\ regions[ri].start <= pos /\ pos <= regions[ri].end
         /\ \A fn \in InRegion(ri) : IF fn \in todo THEN pos <= fn.start ELSE fn.end <= pos
    ELSE todo = {}

FrontierInv ==
  pc = "gaps" /\ ri \in DOMAIN regions => \A fn \in gapFunctions : fn.end <= pos

\* The gap is a hole between the functions, and what is carved out of it lies
\* before the cursor.
CarveInv ==
  Carried =>
    /\ cursor \in AlignedAddress /\ EndAddress(cursor) < AddressLimit
    /\ \E i \in DOMAIN regions : regions[i].start <= cursor /\ gapEnd <= regions[i].end
    /\ \A fn \in emitted : fn.end <= cursor \/ gapEnd <= fn.start
    /\ \A fn \in gapFunctions : fn.end <= cursor /\ fn.end <= gapEnd
    /\ ri \in DOMAIN regions => gapEnd <= pos

GapCfgInv ==
  pc = "gapCfg" =>
    ~IsPaddingWord(cursor) /\ Decodes(cursor) /\ EndAddress(cursor) <= gapEnd

GapFunctionsInv ==
  /\ \A fn \in gapFunctions :
       IsFunction(fn) /\ ~IsPaddingWord(fn.start) /\ Decodes(fn.start)
  /\ \A f \in gapFunctions, g \in emitted : Apart(f, g)
  /\ \A f, g \in gapFunctions : f = g \/ Apart(f, g)

FilterInv ==
  Filtering =>
    /\ Functions \cup unfiltered = emitted \cup gapFunctions
    /\ IsFiniteSet(unfiltered)
    /\ Len(result) + Cardinality(unfiltered) = referencedCount + gapCount
    /\ \A i, j \in DOMAIN result : i < j => result[i].end <= result[j].start
    /\ \A i \in DOMAIN result, fn \in unfiltered : result[i].end <= fn.start
    /\ pc = "done" => unfiltered = {}

CandidatesInv == ExtentInv /\ EmittedInv /\ SizesInv /\ CoveredInv
SearchInv == RegionInv /\ FrontierInv /\ CarveInv /\ GapCfgInv /\ GapFunctionsInv

AInv == IInv /\ AnalyzerTypeOK /\ PhaseInv /\ CandidatesInv /\ CountInv /\ SearchInv
          /\ FilterInv
-----------------------------------------------------------------------------
(***************************************************************************)
(* Facts about addresses, regions and entries.                             *)
(***************************************************************************)

\* alignUp gives the next multiple of the size of a word where its sum does not
\* come round.
LEMMA AlignUpFacts ==
  ASSUME NEW a \in Nat, a <= AddressLimit - 4
  PROVE  /\ AlignUp(a) \in Nat /\ AlignUp(a) % 4 = 0
         /\ a <= AlignUp(a) /\ AlignUp(a) <= a + 3
<1>1. AddressLimit \in Nat /\ a + 3 \in Nat /\ a + 3 < AddressLimit
  BY AddressLimitAssumption
<1>2. (a + 3) % AddressLimit = a + 3
  BY <1>1
<1>3. AlignUp(a) = ((a + 3) \div 4) * 4
  BY <1>2 DEF AlignUp, AlignDown, kAArch64InstructionSize
<1> QED
  BY <1>3

\* Rounded up, an address of code still has a word above it.
LEMMA AlignUpInCode ==
  ASSUME NEW a \in Nat, a <= AddressLimit - 8
  PROVE  AlignUp(a) \in AlignedAddress /\ EndAddress(AlignUp(a)) < AddressLimit
<1> DEFINE up == AlignUp(a)
<1>1. AddressLimit \in Nat /\ AddressLimit % 4 = 0
  BY AddressLimitAssumption DEF kAArch64InstructionSize
<1>2. up \in Nat /\ up % 4 = 0 /\ up <= a + 3
  BY <1>1, AlignUpFacts
<1> HIDE DEF up
<1>3. up <= AddressLimit - 8
  BY <1>1, <1>2
<1>4. up \in AlignedAddress
  BY <1>1, <1>2, <1>3 DEF AlignedAddress, Address, kAArch64InstructionSize
<1>5. EndAddress(up) < AddressLimit
  BY <1>1, <1>2, <1>3 DEF EndAddress, kAArch64InstructionSize
<1> QED
  BY <1>4, <1>5 DEF up

\* What the assumptions on the image say of one region.
LEMMA RegionFacts ==
  ASSUME IsImage(regions, words), NEW i \in DOMAIN regions
  PROVE  /\ regions[i].start \in Nat /\ regions[i].end \in Nat
         /\ regions[i].start < regions[i].end /\ regions[i].end < AddressLimit
         /\ \A j \in DOMAIN regions :
              i < j => regions[i].end <= regions[j].start
         /\ i \in Nat
<1>1. regions[i] \in Region /\ i \in Nat
  BY DEF IsImage
<1>2. \A j \in DOMAIN regions : i < j => regions[i].end <= regions[j].start
  BY DEF IsImage, DisjointRegions
<1> QED
  BY <1>1, <1>2, AddressLimitAssumption DEF Region, Address

\* Where no region reaches the top, two words fit above each.
LEMMA RoomAbove ==
  ASSUME BelowTop(regions), NEW i \in DOMAIN regions
  PROVE  regions[i].end <= AddressLimit - 8
BY AddressLimitAssumption DEF BelowTop, kAArch64InstructionSize

\* The word after an address, where the sum does not come round.
LEMMA WordAfterIs ==
  ASSUME NEW a \in Nat, a + 4 < AddressLimit
  PROVE  WordAfter(a) = EndAddress(a)
<1>1. AddressLimit \in Nat /\ a + 4 \in Nat
  BY AddressLimitAssumption
<1>2. (a + 4) % AddressLimit = a + 4
  BY <1>1
<1> QED
  BY <1>2 DEF WordAfter, EndAddress, kAArch64InstructionSize

\* An address is in one region at most.
LEMMA OneRegion ==
  ASSUME IsImage(regions, words), NEW a \in Int,
         NEW i \in DOMAIN regions, regions[i].start <= a, a < regions[i].end,
         NEW j \in DOMAIN regions, regions[j].start <= a, a < regions[j].end
  PROVE  i = j
<1>1. ~(i < j)
  BY RegionFacts
<1>2. ~(j < i)
  BY RegionFacts
<1> QED
  BY <1>1, <1>2, RegionFacts

\* regionEndFor answers the end of the region that holds the address.
LEMMA RegionEndIs ==
  ASSUME IsImage(regions, words), NEW a \in Int,
         NEW i \in DOMAIN regions, regions[i].start <= a, a < regions[i].end
  PROVE  Contains(a) /\ RegionEndFor(a) = regions[i].end
<1>1. Contains(a)
  BY ContainsIff
<1> DEFINE k == CHOOSE n \in RegionsAt(a) : TRUE
<1>2. k \in RegionsAt(a)
  BY <1>1 DEF Contains
<1>3. RegionEndFor(a) = regions[k].end
  BY <1>1 DEF RegionEndFor, RegionContaining
<1> HIDE DEF k
<1>4. k \in DOMAIN regions /\ regions[k].start <= a /\ a < regions[k].end
  BY <1>2 DEF RegionsAt
<1>5. k = i
  BY <1>4, OneRegion
<1> QED
  BY <1>1, <1>3, <1>5

LEMMA RegionOf ==
  ASSUME IsImage(regions, words), NEW a \in Int, Contains(a)
  PROVE  \E i \in DOMAIN regions :
           regions[i].start <= a /\ a < regions[i].end /\ RegionEndFor(a) = regions[i].end
<1>1. PICK i \in DOMAIN regions : regions[i].start <= a /\ a < regions[i].end
  BY ContainsIff
<1> QED
  BY <1>1, RegionEndIs

\* What lies in one region ends no later than that region.
LEMMA WithinIff ==
  ASSUME IsImage(regions, words), NEW s \in Int, NEW e \in Int
  PROVE  Within(s, e) <=> Contains(s) /\ s < e /\ e <= RegionEndFor(s)
<1>1. ASSUME Within(s, e) PROVE Contains(s) /\ s < e /\ e <= RegionEndFor(s)
  <2>1. PICK i \in DOMAIN regions :
               regions[i].start <= s /\ s < e /\ e <= regions[i].end
    BY <1>1 DEF Within
  <2>2. s < regions[i].end
    BY <2>1, RegionFacts
  <2> QED
    BY <2>1, <2>2, RegionEndIs
<1>2. ASSUME Contains(s), s < e, e <= RegionEndFor(s) PROVE Within(s, e)
  BY <1>2, RegionOf DEF Within
<1> QED
  BY <1>1, <1>2

\* A function with code in a region lies in it.
LEMMA FunctionInRegion ==
  ASSUME IsImage(regions, words), NEW fn, IsFunction(fn), NEW i \in DOMAIN regions
  PROVE  \/ fn.end <= regions[i].start
         \/ regions[i].end <= fn.start
         \/ regions[i].start <= fn.start /\ fn.end <= regions[i].end
<1>1. fn.start \in Nat /\ fn.end \in Nat
  BY AddressLimitAssumption DEF IsFunction, FunctionBounds, Address
<1>2. PICK j \in DOMAIN regions :
             regions[j].start <= fn.start /\ fn.start < fn.end /\ fn.end <= regions[j].end
  BY DEF IsFunction, Within
<1>3. CASE i = j
  BY <1>2, <1>3
<1>4. CASE i < j
  BY <1>1, <1>2, <1>4, RegionFacts
<1>5. CASE j < i
  BY <1>1, <1>2, <1>5, RegionFacts
<1>6. i \in Nat /\ j \in Nat
  BY RegionFacts
<1> QED
  BY <1>3, <1>4, <1>5, <1>6

\* A usable entry is an aligned address of code, and there are finitely many.
LEMMA EntryFacts ==
  ASSUME IsInput(input)
  PROVE  /\ EntryBoundaries \subseteq AlignedAddress
         /\ \A a \in EntryBoundaries : Contains(a)
         /\ StrongSorted \subseteq EntryBoundaries
         /\ IsFiniteSet(EntryBoundaries)
<1>1. EntryBoundaries \subseteq AlignedAddress /\ \A a \in EntryBoundaries : Contains(a)
  BY DEF EntryBoundaries, StrongSorted, SoftUsable, IsUsable, IsInput, AlignedAddress
<1>2. IsFiniteSet(Address)
  BY FS_Interval, AddressLimitAssumption DEF Address
<1>3. EntryBoundaries \in SUBSET Address
  BY <1>1 DEF AlignedAddress
<1> QED
  BY <1>1, <1>2, <1>3, FS_Subset DEF EntryBoundaries

\* nextStrongAfter answers an address that no strong entry comes before.
LEMMA NextStrongFacts ==
  ASSUME IsInput(input), NEW c \in Address
  PROVE  /\ NextStrongAfter(c) \in Address
         /\ \A a \in StrongSorted : c < a => NextStrongAfter(c) <= a
         /\ NextStrongAfter(c) = kInvalidAddress
              \/ (NextStrongAfter(c) \in StrongSorted /\ c < NextStrongAfter(c))
<1> DEFINE later == {a \in StrongSorted : a > c}
<1>1. StrongSorted \subseteq Address /\ Address \subseteq Nat
  BY DEF StrongSorted, IsInput, Address
<1>4. kInvalidAddress \in Address
  BY AddressLimitAssumption DEF Address, kInvalidAddress, kAArch64InstructionSize
<1>2. CASE later = {}
  <2>1. NextStrongAfter(c) = kInvalidAddress
    BY <1>2 DEF NextStrongAfter
  <2>2. \A a \in StrongSorted : ~(c < a)
    BY <1>1, <1>2
  <2> QED
    BY <1>4, <2>1, <2>2
<1>3. CASE later # {}
  <2> DEFINE least == CHOOSE a \in later : \A b \in later : a <= b
  <2>1. later \in SUBSET Nat
    BY <1>1
  <2>2. \E a \in later : \A b \in later : a <= b
    BY <1>3, <2>1, HasLeast
  <2>3. least \in later /\ \A b \in later : least <= b
    BY <2>2
  <2>4. NextStrongAfter(c) = least
    BY <1>3 DEF NextStrongAfter
  <2> QED
    BY <1>1, <2>3, <2>4
<1> QED
  BY <1>2, <1>3
-----------------------------------------------------------------------------
(***************************************************************************)
(* What stays when the image and the input stay.                           *)
(***************************************************************************)

\* The image decides what is code, where it ends and what its words are.
LEMMA ImageFrame ==
  ASSUME UNCHANGED image
  PROVE  /\ \A a : Contains(a)' <=> Contains(a)
         /\ \A a : RegionEndFor(a)' = RegionEndFor(a)
         /\ \A a : IsPaddingWord(a)' <=> IsPaddingWord(a)
         /\ \A a : Decodes(a)' <=> Decodes(a)
         /\ \A a : IsUsable(a)' <=> IsUsable(a)
         /\ \A fn : IsFunction(fn)' <=> IsFunction(fn)
<1> USE DEF image
<1>1. \A a : Contains(a)' <=> Contains(a)
  BY DEF Contains, RegionsAt
<1>2. \A a : RegionContaining(a)' = RegionContaining(a)
  BY DEF RegionContaining, RegionsAt
<1>3. \A a : RegionEndFor(a)' = RegionEndFor(a)
  BY <1>1, <1>2 DEF RegionEndFor
<1>4. \A a : ReadsWord(a)' <=> ReadsWord(a)
  BY <1>1, <1>2 DEF ReadsWord, Available
<1>5. \A a : IsPaddingWord(a)' <=> IsPaddingWord(a)
  BY <1>4 DEF IsPaddingWord
<1>6. \A a : Decodes(a)' <=> Decodes(a)
  BY <1>4 DEF Decodes
<1>7. \A a : IsUsable(a)' <=> IsUsable(a)
  BY <1>1 DEF IsUsable
<1>8. \A fn : IsFunction(fn)' <=> IsFunction(fn)
  BY DEF IsFunction, Within
<1> QED
  BY <1>1, <1>3, <1>5, <1>6, <1>7, <1>8

\* The input decides what the entries and their sizes are.
LEMMA InputFrame ==
  ASSUME UNCHANGED <<image, input>>
  PROVE  /\ StrongSorted' = StrongSorted /\ EntryBoundaries' = EntryBoundaries
         /\ \A c : IsSized(c)' <=> IsSized(c)
         /\ \A c : SizedEnd(c)' = SizedEnd(c)
         /\ \A c : NextStrongAfter(c)' = NextStrongAfter(c)
         /\ \A s, e : NoStrongInside(s, e)' <=> NoStrongInside(s, e)
<1>1. StrongSorted' = StrongSorted
  BY ImageFrame DEF StrongSorted
<1>2. SoftUsable' = SoftUsable
  BY ImageFrame DEF SoftUsable
<1>3. \A c : IsSized(c)' <=> IsSized(c)
  BY <1>1 DEF IsSized
<1>4. \A c : SizedEnd(c)' = SizedEnd(c)
  BY ImageFrame DEF SizedEnd
<1>5. \A c : NextStrongAfter(c)' = NextStrongAfter(c)
  BY <1>1 DEF NextStrongAfter, kInvalidAddress
<1>6. \A s, e : NoStrongInside(s, e)' <=> NoStrongInside(s, e)
  BY <1>1 DEF NoStrongInside
<1> QED
  BY <1>1, <1>2, <1>3, <1>4, <1>5, <1>6 DEF EntryBoundaries

\* A step of the analyser that neither asks the cache nor moves the builder.
LEMMA IInvFrame ==
  ASSUME IInv, UNCHANGED <<image, cacheVars, builderVars>>
  PROVE  IInv'
<1>1. CacheTypeOK' /\ CacheInv'
  BY CacheFrame DEF IInv, TypeOK
<1> QED
  BY <1>1, IdleIInv

\* The functions of the first pass keep what is said of them as long as none is
\* added and no candidate is taken.
LEMMA CandidatesFrame ==
  ASSUME CandidatesInv, UNCHANGED <<image, input, pending, coverEnd, emitted>>,
         pc # "idle", Left' = Left, pc' = "extent" => pc = "extent" /\ UNCHANGED request
  PROVE  CandidatesInv'
<1>1. EmittedInv'
  BY ImageFrame DEF CandidatesInv, EmittedInv, Apart
<1>2. SizesInv'
  BY InputFrame DEF CandidatesInv, SizesInv
<1>3. CoveredInv'
  BY InputFrame DEF CandidatesInv, CoveredInv, Holds
<1>4. ExtentInv'
  BY InputFrame, ImageFrame DEF CandidatesInv, ExtentInv
<1> QED
  BY <1>1, <1>2, <1>3, <1>4 DEF CandidatesInv

\* So do those found in gaps.
LEMMA GapFunctionsFrame ==
  ASSUME GapFunctionsInv, UNCHANGED <<image, emitted, gapFunctions>>
  PROVE  GapFunctionsInv'
BY ImageFrame DEF GapFunctionsInv, Apart

\* A step that changes nothing of the analyser, as those of the graph builder.
LEMMA StutterAInv ==
  ASSUME AInv, IInv', UNCHANGED <<image, request, analyzerVars>>
  PROVE  AInv'
<1>1. UNCHANGED <<image, request, pc, input, options, pending, coverEnd, suppressed,
                  emitted, referencedCount, ri, todo, pos, cursor, gapEnd, gapFunctions,
                  gapCount, unfiltered, result>>
  BY DEF analyzerVars, constVars, candidateVars, gapVars, filterVars
<1>2. EntryBoundaries' = EntryBoundaries /\ Left' = Left
  BY <1>1, InputFrame DEF Left, Current
<1>3. AnalyzerTypeOK'
  BY <1>1, <1>2 DEF AInv, AnalyzerTypeOK, IInv, IsInput
<1>4. PhaseInv'
  BY <1>1 DEF AInv, PhaseInv, Collecting, Searching, Carried, Filtering
<1>5. CandidatesInv'
  <2>1. ExtentInv' /\ EmittedInv'
    BY <1>1, <1>2, InputFrame, ImageFrame
       DEF AInv, CandidatesInv, ExtentInv, EmittedInv, Apart
  <2>2. SizesInv' /\ CoveredInv'
    BY <1>1, <1>2, InputFrame DEF AInv, CandidatesInv, SizesInv, CoveredInv, Holds
  <2> QED
    BY <2>1, <2>2 DEF CandidatesInv
<1>6. CountInv'
  BY <1>1, <1>2 DEF AInv, CountInv, Collecting, Searching, Carried, Filtering
<1>7. SearchInv'
  <2>1. RegionInv' /\ FrontierInv'
    BY <1>1 DEF AInv, SearchInv, RegionInv, FrontierInv, InRegion, Searching, Carried, image
  <2>2. CarveInv' /\ GapCfgInv'
    BY <1>1, ImageFrame DEF AInv, SearchInv, CarveInv, GapCfgInv, Carried, image
  <2>3. GapFunctionsInv'
    BY <1>1, GapFunctionsFrame DEF AInv, SearchInv
  <2> QED
    BY <2>1, <2>2, <2>3 DEF SearchInv
<1>8. FilterInv'
  BY <1>1 DEF AInv, FilterInv, Filtering, Functions
<1> QED
  BY <1>3, <1>4, <1>5, <1>6, <1>7, <1>8 DEF AInv
-----------------------------------------------------------------------------
(***************************************************************************)
(* The call and the first pass.                                            *)
(***************************************************************************)

\* The invariant holds before the call.
LEMMA InitAInv == AnalyzeInit => AInv
<1> SUFFICES ASSUME AnalyzeInit PROVE AInv
  OBVIOUS
<1> USE DEF AnalyzeInit, AnalyzerInit
<1>1. IInv
  BY InitIInv DEF Init
<1>2. EntryBoundaries = {}
  BY DEF EntryBoundaries, StrongSorted, SoftUsable, EmptyInput
<1>3. 0 \in Address
  BY AddressLimitAssumption DEF Address, kAArch64InstructionSize
<1>4. AnalyzerTypeOK
  <2>1. IsInput(input)
    BY DEF IsInput, EmptyInput
  <2>2. options \in Options
    BY DEF Options, DefaultOptions
  <2>3. result \in Seq(FunctionBounds)
    OBVIOUS
  <2> QED
    BY <1>1, <1>3, <2>1, <2>2, <2>3 DEF AnalyzerTypeOK, IInv
<1>5. PhaseInv
  BY DEF PhaseInv
<1>6. CandidatesInv
  BY DEF CandidatesInv, ExtentInv, EmittedInv, SizesInv, CoveredInv
<1>7. CountInv
  BY FS_EmptySet DEF CountInv, Collecting, Searching, Carried, Filtering
<1>8. SearchInv
  BY DEF SearchInv, RegionInv, FrontierInv, CarveInv, GapCfgInv, GapFunctionsInv, Searching,
         Carried
<1>9. FilterInv
  BY DEF FilterInv, Filtering
<1> QED
  BY <1>1, <1>4, <1>5, <1>6, <1>7, <1>8, <1>9 DEF AInv

\* The passes that have not begun are as before.
LEMMA LaterPasses ==
  ASSUME PhaseInv, pc = "idle" \/ Collecting, Collecting', GapFunctionsInv,
         UNCHANGED <<todo, gapFunctions, gapCount, unfiltered, result>>
  PROVE  /\ gapFunctions' = {} /\ gapCount' = 0 /\ todo' = {}
         /\ unfiltered' = {} /\ result' = <<>>
         /\ SearchInv' /\ FilterInv'
<1>1. /\ gapFunctions' = {} /\ gapCount' = 0 /\ todo' = {}
      /\ unfiltered' = {} /\ result' = <<>>
  BY DEF PhaseInv, Collecting, Searching, Carried, Filtering
<1>2. SearchInv' /\ FilterInv'
  BY <1>1 DEF SearchInv, RegionInv, FrontierInv, CarveInv, GapCfgInv, GapFunctionsInv,
              FilterInv, Collecting, Searching, Carried, Filtering
<1> QED
  BY <1>1, <1>2

\* The call makes every usable entry a candidate.
LEMMA AnalyzeAInv ==
  ASSUME AInv, NEW in, NEW opts \in Options, IsInput(in), Analyze(in, opts)
  PROVE  AInv'
<1>1. /\ pc = "idle" /\ pc' = "candidates" /\ input' = in /\ options' = opts
      /\ pending' = {a \in in.strongEntries \cup in.softEntries : IsUsable(a)}
      /\ UNCHANGED <<image, cacheVars, builderVars, coverEnd, suppressed, emitted,
                     referencedCount, ri, todo, pos, cursor, gapEnd, gapFunctions, gapCount,
                     unfiltered, result>>
  BY DEF Analyze, gapVars, filterVars
<1>2. IInv'
  BY <1>1, IInvFrame DEF AInv
<1>3. emitted' = {} /\ coverEnd' = 0 /\ suppressed' = 0
  BY <1>1 DEF AInv, PhaseInv
<1>4. IsInput(in) /\ opts \in Options
  OBVIOUS
<1>5. EntryBoundaries' = pending' /\ Left' = pending'
  BY <1>1, ImageFrame DEF EntryBoundaries, StrongSorted, SoftUsable, Left, Current
<1>6. IsInput(input)'
  BY <1>1, <1>4 DEF IsInput
<1>7. gapFunctions' = {} /\ todo' = {} /\ unfiltered' = {} /\ result' = <<>> /\ gapCount' = 0
      /\ SearchInv' /\ FilterInv'
  BY <1>1, LaterPasses DEF AInv, SearchInv, Collecting
<1>8. AnalyzerTypeOK'
  BY <1>1, <1>2, <1>3, <1>4, <1>5, <1>6, <1>7 DEF AInv, AnalyzerTypeOK, IInv
<1>9. PhaseInv'
  BY <1>1, <1>3, <1>7 DEF PhaseInv, Collecting, Searching, Carried, Filtering
<1>10. CandidatesInv'
  BY <1>1, <1>3, <1>5 DEF CandidatesInv, ExtentInv, EmittedInv, SizesInv, CoveredInv
<1>11. CountInv'
  <2>1. IsFiniteSet(EntryBoundaries')
    <3>1. IsFiniteSet(Address)
      BY FS_Interval, AddressLimitAssumption DEF Address
    <3>2. EntryBoundaries' \in SUBSET Address
      BY <1>1, <1>4, <1>5 DEF IsInput
    <3> QED
      BY <3>1, <3>2, FS_Subset
  <2>2. Cardinality(pending') \in Nat
    BY <1>5, <2>1, FS_CardinalityType
  <2> QED
    BY <1>1, <1>3, <1>5, <1>7, <2>1, <2>2, FS_EmptySet
       DEF CountInv, Collecting, Searching, Carried, Filtering
<1> QED
  BY <1>2, <1>7, <1>8, <1>9, <1>10, <1>11 DEF AInv

\* A candidate inside the functions already found is inside one of them.
LEMMA DemoteAInv ==
  ASSUME AInv, NEW c \in pending, DemoteInterior(c)
  PROVE  AInv'
<1>1. /\ pc = "candidates" /\ c < coverEnd
      /\ pending' = pending \ {c} /\ suppressed' = suppressed + 1
      /\ UNCHANGED <<image, cacheVars, builderVars, pc, input, options, coverEnd, emitted,
                     referencedCount, ri, todo, pos, cursor, gapEnd, gapFunctions, gapCount,
                     unfiltered, result>>
  BY DEF DemoteInterior, IsNextCandidate, gapVars, filterVars, constVars
<1>2. IInv'
  BY <1>1, IInvFrame DEF AInv
<1>3. EntryBoundaries' = EntryBoundaries
  BY <1>1, InputFrame
<1>4. Left = pending /\ Left' = pending \ {c}
  BY <1>1 DEF Left, Current
<1>5. IsInput(input) /\ pending \subseteq EntryBoundaries
  BY DEF AInv, AnalyzerTypeOK
<1>6. AnalyzerTypeOK'
  BY <1>1, <1>2, <1>3 DEF AInv, AnalyzerTypeOK, IInv, IsInput
<1>7. PhaseInv'
  BY <1>1 DEF AInv, PhaseInv, Collecting, Searching, Carried, Filtering
<1>8. SearchInv' /\ FilterInv'
  BY <1>1, LaterPasses DEF AInv, SearchInv, Collecting
<1>9. CandidatesInv'
  <2>1. EmittedInv'
    BY <1>1, <1>4, ImageFrame DEF AInv, CandidatesInv, EmittedInv, Apart
  <2>2. SizesInv'
    BY <1>1, InputFrame DEF AInv, CandidatesInv, SizesInv
  <2>3. \E fn \in emitted : Holds(fn, c)
    <3>1. c \in Nat
      BY <1>5, EntryFacts DEF AlignedAddress, Address
    <3>2. PICK fn \in emitted : fn.end = coverEnd
      BY <1>1, <3>1 DEF AInv, CandidatesInv, EmittedInv
    <3>3. fn.start < c
      BY <1>4 DEF AInv, CandidatesInv, EmittedInv
    <3>4. fn.start \in Nat /\ coverEnd \in Nat
      BY DEF AInv, AnalyzerTypeOK, FunctionBounds, Address
    <3>5. Holds(fn, c)
      BY <1>1, <3>1, <3>2, <3>3, <3>4 DEF Holds
    <3> QED
      BY <3>5
  <2>4. CoveredInv'
    BY <1>1, <1>3, <1>4, <2>3 DEF AInv, CandidatesInv, CoveredInv, Holds
  <2>5. ExtentInv'
    BY <1>1 DEF ExtentInv
  <2> QED
    BY <2>1, <2>2, <2>4, <2>5 DEF CandidatesInv
<1>10. CountInv'
  <2>1. IsFiniteSet(pending)
    BY DEF AInv, CountInv
  <2>2. IsFiniteSet(pending \ {c}) /\ Cardinality(pending \ {c}) = Cardinality(pending) - 1
    BY <2>1, FS_RemoveElement
  <2>3. Cardinality(pending) \in Nat /\ Cardinality(emitted) \in Nat /\ suppressed \in Nat
    BY FS_CardinalityType DEF AInv, CountInv, AnalyzerTypeOK
  <2> QED
    BY <1>1, <1>3, <1>4, <2>2, <2>3
       DEF AInv, CountInv, Collecting, Searching, Carried, Filtering
<1> QED
  BY <1>2, <1>6, <1>7, <1>8, <1>9, <1>10 DEF AInv

\* The least candidate left becomes a function that begins where the others
\* end.
LEMMA EmitAInv ==
  ASSUME AInv, IInv', Collecting, pc' = "candidates",
         NEW c \in Left, \A d \in Left : c <= d, coverEnd <= c,
         NEW end \in Address, Within(c, end), EmitReferenced(c, end),
         IF IsSized(c) THEN end = SizedEnd(c) ELSE NoStrongInside(c, end),
         pending' = Left \ {c},
         UNCHANGED <<image, constVars, suppressed, referencedCount, gapVars, filterVars>>
  PROVE  AInv'
<1> DEFINE new == Bounds(c, end)
<1>1. UNCHANGED <<image, input, options, suppressed, referencedCount, ri, todo, pos, cursor,
                  gapEnd, gapFunctions, gapCount, unfiltered, result>>
  BY DEF constVars, gapVars, filterVars
<1>2. EntryBoundaries' = EntryBoundaries /\ Left' = Left \ {c}
  BY <1>1, InputFrame DEF Left, Current
<1>3. IsInput(input) /\ Left \subseteq EntryBoundaries
  BY DEF AInv, AnalyzerTypeOK, CandidatesInv, ExtentInv, Left, Current
<1>4. Left \subseteq Address /\ Address \subseteq Nat /\ coverEnd \in Nat
  BY <1>3, EntryFacts DEF AlignedAddress, Address, AInv, AnalyzerTypeOK
<1>5. c < end
  BY DEF Within
<1>6. emitted' = emitted \cup {new} /\ coverEnd' = end
  BY <1>4, <1>5 DEF EmitReferenced, Greater
<1>7. new \in FunctionBounds /\ new.start = c /\ new.end = end
  BY <1>4 DEF Bounds, FunctionBounds
<1>8. IsFunction(new)
  BY <1>7 DEF IsFunction
<1> HIDE DEF new
<1>9. \A fn \in emitted :
        /\ fn.start \in Nat /\ fn.end \in Nat /\ fn.end <= c /\ fn.start < c /\ IsFunction(fn)
  <2> SUFFICES ASSUME NEW fn \in emitted
               PROVE  /\ fn.start \in Nat /\ fn.end \in Nat
                      /\ fn.end <= c /\ fn.start < c /\ IsFunction(fn)
    OBVIOUS
  <2>1. IsFunction(fn) /\ fn.end <= coverEnd /\ fn.start < c
    BY DEF AInv, CandidatesInv, EmittedInv
  <2>2. fn.start \in Nat /\ fn.end \in Nat
    BY <1>4, <2>1 DEF IsFunction, FunctionBounds
  <2>3. c \in Nat
    BY <1>4
  <2> QED
    BY <1>4, <2>1, <2>2, <2>3
<1>10. new \notin emitted
  BY <1>4, <1>7, <1>9
<1>11. AnalyzerTypeOK'
  BY <1>1, <1>2, <1>3, <1>6, <1>7 DEF AInv, AnalyzerTypeOK, IInv, IsInput
<1>12. PhaseInv'
  BY <1>1 DEF AInv, PhaseInv, Collecting, Searching, Carried, Filtering
<1>13. SearchInv' /\ FilterInv'
  BY <1>1, LaterPasses DEF AInv, SearchInv, Collecting
<1>14. EmittedInv'
  <2>1. \A fn \in emitted' : IsFunction(fn)' /\ fn.end <= coverEnd'
    BY <1>1, <1>4, <1>5, <1>6, <1>7, <1>8, <1>9, ImageFrame
  <2>2. \A f, g \in emitted' : f = g \/ Apart(f, g)
    BY <1>6, <1>7, <1>9 DEF AInv, CandidatesInv, EmittedInv, Apart
  <2>3. \A fn \in emitted', d \in Left' : fn.start < d
    <3>1. \A d \in Left' : c < d
      BY <1>2, <1>4
    <3> QED
      BY <1>2, <1>4, <1>6, <1>7, <3>1 DEF AInv, CandidatesInv, EmittedInv
  <2> QED
    BY <1>6, <1>7, <2>1, <2>2, <2>3 DEF EmittedInv, Apart
<1>15. SizesInv'
  BY <1>1, <1>6, <1>7, InputFrame DEF AInv, CandidatesInv, SizesInv
<1>16. CoveredInv'
  <2>1. Holds(new, c)
    BY <1>4, <1>5, <1>7 DEF Holds
  <2> QED
    BY <1>2, <1>6, <2>1 DEF AInv, CandidatesInv, CoveredInv, Holds, Collecting
<1>17. ExtentInv'
  BY DEF ExtentInv
<1>18. CountInv'
  <2>1. IsFiniteSet(Left)
    BY <1>3, EntryFacts, FS_Subset
  <2>2. IsFiniteSet(Left \ {c}) /\ Cardinality(Left \ {c}) = Cardinality(Left) - 1
    BY <2>1, FS_RemoveElement
  <2>3. /\ IsFiniteSet(emitted \cup {new})
        /\ Cardinality(emitted \cup {new}) = Cardinality(emitted) + 1
    BY <1>10, FS_AddElement DEF AInv, CountInv
  <2>4. Cardinality(Left) \in Nat /\ Cardinality(emitted) \in Nat /\ suppressed \in Nat
    BY <2>1, FS_CardinalityType DEF AInv, CountInv, AnalyzerTypeOK
  <2> QED
    BY <1>1, <1>2, <1>6, <2>2, <2>3, <2>4
       DEF AInv, CountInv, Collecting, Searching, Carried, Filtering
<1> QED
  BY <1>11, <1>12, <1>13, <1>14, <1>15, <1>16, <1>17, <1>18 DEF AInv, CandidatesInv

\* A candidate with a size takes it, cut at the end of its region.
LEMMA EmitAuthoritativeAInv ==
  ASSUME AInv, NEW c \in pending, EmitAuthoritative(c)
  PROVE  AInv'
<1>1. /\ pc = "candidates" /\ pc' = "candidates" /\ c >= coverEnd /\ IsSized(c)
      /\ pending' = pending \ {c} /\ \A d \in pending : c <= d
      /\ EmitReferenced(c, SizedEnd(c))
      /\ UNCHANGED <<image, cacheVars, builderVars, constVars, suppressed, referencedCount,
                     gapVars, filterVars>>
  BY DEF EmitAuthoritative, IsNextCandidate
<1>2. IInv'
  BY <1>1, IInvFrame DEF AInv
<1>3. Left = pending
  BY <1>1 DEF Left, Current
<1>4. IsImage(regions, words) /\ IsInput(input) /\ pending \subseteq EntryBoundaries
  BY DEF AInv, AnalyzerTypeOK, TypeOK
<1>5. c \in Nat /\ Contains(c)
  BY <1>4, EntryFacts DEF AlignedAddress, Address
<1>6. PICK i \in DOMAIN regions :
             regions[i].start <= c /\ c < regions[i].end /\ RegionEndFor(c) = regions[i].end
  BY <1>4, <1>5, RegionOf
<1>7. regions[i].end \in Nat /\ regions[i].end < AddressLimit
  BY <1>4, RegionFacts
<1>8. input.authoritativeSizes[c] \in Nat /\ input.authoritativeSizes[c] > 0
  BY <1>1, <1>4 DEF IsSized, IsInput
<1>9. SizedEnd(c) \in Nat /\ c < SizedEnd(c) /\ SizedEnd(c) <= regions[i].end
  BY <1>5, <1>6, <1>7, <1>8 DEF SizedEnd
<1>10. Within(c, SizedEnd(c))
  BY <1>6, <1>9 DEF Within
<1>11. SizedEnd(c) \in Address
  BY <1>7, <1>9, AddressLimitAssumption DEF Address
<1>12. coverEnd <= c
  BY <1>1, <1>5 DEF AInv, AnalyzerTypeOK, Address
<1> QED
  BY <1>1, <1>2, <1>3, <1>10, <1>11, <1>12, EmitAInv DEF Collecting

\* A request for the extent of an entry, up to an address, is one the builder
\* takes.
LEMMA RequestType ==
  ASSUME AnalyzerTypeOK, NEW c \in Address, NEW upper \in Address
  PROVE  RequestFor(c, upper) \in CfgBuildRequest
<1>1. EntryBoundaries \subseteq Address
  BY EntryFacts DEF AnalyzerTypeOK, AlignedAddress
<1>2. options \in Options
  BY DEF AnalyzerTypeOK
<1> QED
  BY <1>1, <1>2 DEF RequestFor, CfgBuildRequest, Options

\* Any other has its graph built.
LEMMA StartExtentAInv ==
  ASSUME AInv, NEW c \in pending, StartExtent(c)
  PROVE  AInv'
<1> DEFINE upper == Lesser(NextStrongAfter(c), RegionEndFor(c))
           req == RequestFor(c, upper)
<1>1. /\ pc = "candidates" /\ pc' = "extent" /\ c >= coverEnd /\ ~IsSized(c)
      /\ pending' = pending \ {c} /\ \A d \in pending : c <= d
      /\ Build(req)
      /\ UNCHANGED <<input, options, coverEnd, suppressed, emitted, referencedCount, ri,
                     todo, pos, cursor, gapEnd, gapFunctions, gapCount, unfiltered, result>>
  BY DEF StartExtent, IsNextCandidate, gapVars, filterVars, constVars
<1>2. UNCHANGED image /\ request' = req
  BY <1>1 DEF Build, BeginBuild
<1>3. IsImage(regions, words) /\ IsInput(input) /\ pending \subseteq EntryBoundaries
  BY DEF AInv, AnalyzerTypeOK, TypeOK
<1>4. c \in Address /\ Contains(c) /\ c \in EntryBoundaries /\ pending \subseteq Nat
  BY <1>3, EntryFacts DEF AlignedAddress, Address
<1>5. upper \in Address
  <2>1. c \in Nat
    BY <1>4 DEF Address
  <2>2. PICK i \in DOMAIN regions : RegionEndFor(c) = regions[i].end
    BY <1>3, <1>4, <2>1, RegionOf
  <2>3. RegionEndFor(c) \in Address
    BY <1>3, <2>2, RegionFacts, AddressLimitAssumption DEF Address
  <2> QED
    BY <1>3, <1>4, <2>3, NextStrongFacts DEF Lesser
<1>6. req \in CfgBuildRequest
  BY <1>4, <1>5, RequestType DEF AInv
<1>7. IInv'
  BY <1>1, <1>6, BuildIInv DEF AInv
<1>8. req.entry = c /\ req.upperBound = upper
  BY DEF RequestFor
<1> HIDE DEF req, upper
<1>9. Left = pending /\ Left' = pending
  BY <1>1, <1>2, <1>8 DEF Left, Current
<1>10. EntryBoundaries' = EntryBoundaries
  BY <1>1, <1>2, InputFrame
<1>11. AnalyzerTypeOK'
  BY <1>1, <1>3, <1>7, <1>10 DEF AInv, AnalyzerTypeOK, IInv, IsInput
<1>12. PhaseInv'
  BY <1>1 DEF AInv, PhaseInv, Collecting, Searching, Carried, Filtering
<1>13. SearchInv' /\ FilterInv'
  BY <1>1, LaterPasses DEF AInv, SearchInv, Collecting
<1>14. EmittedInv'
  BY <1>1, <1>2, <1>9, ImageFrame DEF AInv, CandidatesInv, EmittedInv, Apart
<1>15. SizesInv' /\ CoveredInv'
  BY <1>1, <1>2, <1>9, <1>10, InputFrame DEF AInv, CandidatesInv, SizesInv, CoveredInv, Holds
<1>16. ExtentInv'
  <2> DEFINE entry == request.entry
  <2>a. entry' = c
    BY <1>2, <1>8
  <2>b. StrongSorted' = StrongSorted
    BY <1>1, <1>2, InputFrame
  <2>c. NextStrongAfter(entry)' = NextStrongAfter(c)
    BY <2>a, <2>b DEF NextStrongAfter, kInvalidAddress
  <2>d. RegionEndFor(entry)' = RegionEndFor(c)
    BY <1>2, <2>a DEF RegionEndFor, RegionContaining, Contains, RegionsAt, image
  <2>e. ~IsSized(entry)'
    BY <1>1, <2>a, <2>b DEF IsSized
  <2>1. (request.upperBound = Lesser(NextStrongAfter(entry), RegionEndFor(entry)))'
    BY <1>2, <1>8, <2>c, <2>d DEF upper, Lesser
  <2>2. coverEnd <= c
    BY <1>1, <1>4 DEF AInv, AnalyzerTypeOK, Address
  <2>3. \A d \in pending' : c < d
    BY <1>1, <1>4
  <2>4. entry' \in EntryBoundaries' \ pending'
    BY <1>1, <1>4, <1>10, <2>a
  <2> QED
    BY <1>1, <2>a, <2>e, <2>1, <2>2, <2>3, <2>4 DEF ExtentInv
<1>17. CountInv'
  <2>1. IsFiniteSet(pending')
    BY <1>1, FS_Subset DEF AInv, CountInv
  <2> QED
    BY <1>1, <1>9, <1>10, <2>1 DEF AInv, CountInv, Collecting, Searching, Carried, Filtering
<1> QED
  BY <1>7, <1>11, <1>12, <1>13, <1>14, <1>15, <1>16, <1>17 DEF AInv, CandidatesInv

\* The extent of a graph goes no further than its upper bound.
LEMMA ExtentBound ==
  ASSUME IInv, status # "idle", coveredEnd > request.entry
  PROVE  coveredEnd <= request.upperBound
<1>1. PICK a \in visited : EndAddress(a) = coveredEnd
  BY DEF IInv, EndInv, TypeOK, BuilderTypeOK, CfgBuildRequest, Address
<1>2. IsCoverable(a) /\ a \in Nat
  BY DEF IInv, WalkInv, VisitedInv, TypeOK, BuilderTypeOK, AlignedAddress, Address
<1> QED
  BY <1>1, <1>2
     DEF IsCoverable, CrossesUpperBound, EndAddress, kAArch64InstructionSize, IInv, TypeOK,
         BuilderTypeOK, CfgBuildRequest, Address

\* The graph gives the candidate an end: one word further if it is empty.
LEMMA EmitExtentAInv ==
  ASSUME AInv, BelowTop(regions), EmitExtent
  PROVE  AInv'
<1> DEFINE c == request.entry
           end == Lesser(CfgExtentEnd(c), RegionEndFor(c))
<1>1. /\ pc = "extent" /\ pc' = "candidates" /\ status = "built"
      /\ EmitReferenced(c, end)
      /\ UNCHANGED <<image, cacheVars, builderVars, constVars, pending, suppressed,
                     referencedCount, gapVars, filterVars>>
  BY DEF EmitExtent
<1>2. IInv'
  BY <1>1, IInvFrame DEF AInv
<1>3. /\ IsImage(regions, words) /\ IsInput(input) /\ coverEnd \in Nat
      /\ coveredEnd \in Nat /\ IInv
  BY DEF AInv, AnalyzerTypeOK, TypeOK, BuilderTypeOK, Address
<1>4. /\ c \in EntryBoundaries \ pending
      /\ request.upperBound = Lesser(NextStrongAfter(c), RegionEndFor(c))
      /\ coverEnd <= c /\ ~IsSized(c)
      /\ \A d \in pending : c < d
  BY <1>1 DEF AInv, CandidatesInv, ExtentInv
<1>5. c \in Nat /\ c \in AlignedAddress /\ Contains(c) /\ c \in Address
  BY <1>3, <1>4, EntryFacts DEF AlignedAddress, Address
<1> HIDE DEF c
<1>6. Left = pending \cup {c} /\ pending' = Left \ {c}
  BY <1>1, <1>4 DEF Left, Current, c
<1>7. PICK i \in DOMAIN regions :
             regions[i].start <= c /\ c < regions[i].end /\ RegionEndFor(c) = regions[i].end
  BY <1>3, <1>5, RegionOf
<1>8. regions[i].end \in Nat /\ regions[i].end <= AddressLimit - 8
  BY <1>3, RegionFacts, RoomAbove
<1>9. NextStrongAfter(c) \in Nat /\ \A a \in StrongSorted : c < a => NextStrongAfter(c) <= a
  BY <1>3, <1>5, NextStrongFacts DEF Address
<1>10. StrongSorted \subseteq AlignedAddress
  BY <1>3, EntryFacts
<1>11. end \in Nat /\ c < end /\ end <= regions[i].end /\ NoStrongInside(c, end)
  <2>1. CASE coveredEnd <= c
    <3>1. CfgExtentEnd(c) = Lesser(regions[i].end, c + 4)
      <4>1. c + 4 < AddressLimit
        BY <1>5, <1>7, <1>8, AddressLimitAssumption
      <4>2. WordAfter(c) = c + 4
        BY <1>5, <4>1, WordAfterIs DEF EndAddress, kAArch64InstructionSize
      <4> QED
        BY <1>7, <2>1, <4>2 DEF CfgExtentEnd
    <3>2. end \in Nat /\ c < end /\ end <= regions[i].end /\ end <= c + 4
      BY <1>5, <1>7, <1>8, <3>1 DEF Lesser
    <3>3. \A a \in AlignedAddress : ~(c < a /\ a < c + 4)
      BY <1>5 DEF AlignedAddress, Address, kAArch64InstructionSize
    <3>4. AlignedAddress \subseteq Nat
      BY DEF AlignedAddress, Address
    <3>5. NoStrongInside(c, end)
      <4> SUFFICES ASSUME NEW a \in StrongSorted, c < a, a < end PROVE FALSE
        BY DEF NoStrongInside
      <4>1. a \in AlignedAddress /\ a \in Nat
        BY <1>10, <3>4
      <4> HIDE DEF end
      <4> QED
        BY <1>5, <3>2, <3>3, <4>1
    <3> QED
      BY <3>2, <3>5
  <2>2. CASE coveredEnd > c
    <3>1. CfgExtentEnd(c) = coveredEnd
      BY <1>3, <1>5, <2>2 DEF CfgExtentEnd
    <3>2. coveredEnd <= request.upperBound
      BY <1>1, <1>3, <2>2, ExtentBound DEF c
    <3>3. coveredEnd <= NextStrongAfter(c) /\ coveredEnd <= regions[i].end
      BY <1>3, <1>4, <1>7, <1>8, <1>9, <3>2 DEF Lesser
    <3>4. end = coveredEnd
      BY <1>3, <1>7, <1>8, <3>1, <3>3 DEF Lesser
    <3>5. NoStrongInside(c, end)
      <4> SUFFICES ASSUME NEW a \in StrongSorted, c < a, a < end PROVE FALSE
        BY DEF NoStrongInside
      <4>1. a \in Nat
        BY <1>10 DEF AlignedAddress, Address
      <4> HIDE DEF end
      <4> QED
        BY <1>3, <1>9, <3>3, <3>4, <4>1
    <3> QED
      BY <1>3, <2>2, <3>3, <3>4, <3>5
  <2> QED
    BY <1>3, <1>5, <2>1, <2>2
<1> HIDE DEF end
<1>12. Within(c, end)
  BY <1>7, <1>11 DEF Within
<1>13. end \in Address
  BY <1>8, <1>11, AddressLimitAssumption DEF Address
<1>14. \A d \in Left : c <= d
  <2>1. \A d \in pending : d \in Nat
    BY <1>3, EntryFacts DEF AInv, AnalyzerTypeOK, AlignedAddress, Address
  <2> QED
    BY <1>4, <1>5, <1>6, <2>1
<1>15. UNCHANGED <<image, constVars, suppressed, referencedCount, gapVars, filterVars>>
  BY <1>1
<1> QED
  BY <1>1, <1>2, <1>4, <1>6, <1>11, <1>12, <1>13, <1>14, <1>15, EmitAInv DEF Collecting
-----------------------------------------------------------------------------
(***************************************************************************)
(* The second pass.                                                        *)
(***************************************************************************)

\* Entering a region, none of its functions is passed.
LEMMA EnterRegionFacts ==
  ASSUME IsImage(regions, words), UNCHANGED <<image, emitted>>,
         \A fn \in emitted : IsFunction(fn),
         NEW i \in Nat, EnterRegion(i)
  PROVE  /\ RegionInv' /\ ri' = i /\ todo' \subseteq emitted /\ pos' \in Address
         /\ i \in DOMAIN regions => pos' = regions[i].start
<1>1. ri' = i /\ UNCHANGED <<regions, emitted>>
  BY DEF EnterRegion, image
<1>2. CASE i \notin DOMAIN regions
  <2>1. todo' = {} /\ pos' = 0
    BY <1>2 DEF EnterRegion
  <2>2. 0 \in Address
    BY AddressLimitAssumption DEF Address, kAArch64InstructionSize
  <2> QED
    BY <1>1, <1>2, <2>1, <2>2 DEF RegionInv
<1>3. CASE i \in DOMAIN regions
  <2>1. todo' = InRegion(i) /\ pos' = regions[i].start
    BY <1>3 DEF EnterRegion
  <2>2. /\ regions[i].start \in Nat /\ regions[i].end \in Nat
        /\ regions[i].start < regions[i].end /\ regions[i].end < AddressLimit
    BY <1>3, RegionFacts
  <2>3. pos' \in Address
    BY <2>1, <2>2, AddressLimitAssumption DEF Address
  <2>4. InRegion(i)' = InRegion(i) /\ InRegion(i) \subseteq emitted
    BY <1>1 DEF InRegion
  <2>5. \A fn \in InRegion(i) : regions[i].start <= fn.start
    <3> SUFFICES ASSUME NEW fn \in InRegion(i) PROVE regions[i].start <= fn.start
      OBVIOUS
    <3>1. IsFunction(fn) /\ fn.start \in Nat /\ fn.end \in Nat
      BY <2>4 DEF IsFunction, FunctionBounds, Address
    <3>2. fn.end > regions[i].start /\ fn.start < regions[i].end
      BY DEF InRegion
    <3> QED
      BY <1>3, <2>2, <3>1, <3>2, FunctionInRegion
  <2>6. InRegion(ri)' = InRegion(i)
    BY <1>1 DEF InRegion
  <2> QED
    BY <1>1, <1>3, <2>1, <2>2, <2>3, <2>4, <2>5, <2>6 DEF RegionInv
<1> QED
  BY <1>2, <1>3

\* The end of the first pass: every entry is emitted or demoted.
LEMMA CandidatesDoneAInv ==
  ASSUME AInv, CandidatesDone
  PROVE  AInv'
<1>1. /\ pc = "candidates" /\ pending = {} /\ referencedCount' = Cardinality(emitted)
      /\ UNCHANGED <<image, cacheVars, builderVars, input, options, pending, coverEnd,
                     suppressed, emitted, cursor, gapEnd, gapFunctions, gapCount, result>>
  BY DEF CandidatesDone, constVars
<1>2. IInv'
  BY <1>1, IInvFrame DEF AInv
<1>3. EntryBoundaries' = EntryBoundaries
  BY <1>1, InputFrame
<1>4. Left = {} /\ (pc' # "extent" => Left' = {})
  BY <1>1 DEF Left, Current
<1>5. /\ \A fn \in emitted : IsFunction(fn)
      /\ emitted \subseteq FunctionBounds /\ IsImage(regions, words)
  BY DEF AInv, AnalyzerTypeOK, TypeOK, CandidatesInv, EmittedInv
<1>6. gapFunctions = {} /\ gapCount = 0 /\ todo = {} /\ unfiltered = {} /\ result = <<>>
  BY <1>1 DEF AInv, PhaseInv, Collecting, Searching, Carried, Filtering
<1>7. IsFiniteSet(emitted) /\ Cardinality(emitted) \in Nat /\ suppressed \in Nat
  BY FS_CardinalityType DEF AInv, CountInv, AnalyzerTypeOK
<1>8. Cardinality(EntryBoundaries) = Cardinality(emitted) + suppressed
  BY <1>1, <1>4, <1>7, FS_EmptySet DEF AInv, CountInv, Collecting
<1>9. CASE options.discoverGapFunctions
  <2>1. pc' = "gaps" /\ EnterRegion(1) /\ UNCHANGED unfiltered
    BY <1>9 DEF CandidatesDone
  <2>2. /\ RegionInv' /\ ri' = 1 /\ todo' \subseteq emitted /\ pos' \in Address
    BY <1>1, <1>5, <2>1, EnterRegionFacts
  <2>3. AnalyzerTypeOK'
    BY <1>1, <1>2, <1>3, <1>7, <2>1, <2>2 DEF AInv, AnalyzerTypeOK, IInv, IsInput
  <2>4. PhaseInv'
    BY <1>1, <1>6, <2>1 DEF PhaseInv, Collecting, Searching, Carried, Filtering
  <2>5. CandidatesInv'
    BY <1>1, <1>4, <2>1, CandidatesFrame DEF AInv
  <2>6. CountInv'
    BY <1>1, <1>3, <1>6, <1>7, <1>8, <2>1
       DEF AInv, CountInv, Collecting, Searching, Carried, Filtering
  <2>7. SearchInv'
    BY <1>1, <1>6, <2>1, <2>2
       DEF SearchInv, FrontierInv, CarveInv, GapCfgInv, GapFunctionsInv, Carried
  <2>8. FilterInv'
    BY <2>1 DEF FilterInv, Filtering
  <2> QED
    BY <1>2, <2>3, <2>4, <2>5, <2>6, <2>7, <2>8 DEF AInv
<1>10. CASE ~options.discoverGapFunctions
  <2>1. pc' = "filter" /\ unfiltered' = emitted /\ UNCHANGED <<ri, todo, pos>>
    BY <1>10 DEF CandidatesDone
  <2>3. AnalyzerTypeOK'
    BY <1>1, <1>2, <1>3, <1>5, <1>7, <2>1 DEF AInv, AnalyzerTypeOK, IInv, IsInput
  <2>4. PhaseInv'
    BY <1>1, <1>6, <2>1 DEF PhaseInv, Collecting, Searching, Carried, Filtering
  <2>5. CandidatesInv'
    BY <1>1, <1>4, <2>1, CandidatesFrame DEF AInv
  <2>6. CountInv'
    BY <1>1, <1>3, <1>6, <1>7, <1>8, <2>1
       DEF AInv, CountInv, Collecting, Searching, Carried, Filtering
  <2>7. SearchInv'
    BY <1>1, <1>6, <2>1
       DEF SearchInv, RegionInv, FrontierInv, CarveInv, GapCfgInv, GapFunctionsInv, Carried,
           Searching
  <2>8. FilterInv'
    <3>1. result' = <<>> /\ DOMAIN result' = {} /\ Len(result') = 0
      BY <1>1, <1>6
    <3>2. Functions' = {}
      BY <3>1 DEF Functions
    <3> QED
      BY <1>1, <1>6, <1>7, <2>1, <3>1, <3>2 DEF FilterInv
  <2> QED
    BY <1>2, <2>3, <2>4, <2>5, <2>6, <2>7, <2>8 DEF AInv
<1> QED
  BY <1>9, <1>10

\* A step of the search, as far as the rest of the invariant goes.
LEMMA SearchFrame ==
  ASSUME AInv, IInv', Searching, Searching',
         UNCHANGED <<image, constVars, candidateVars, filterVars>>,
         ri' \in Nat, todo' \subseteq emitted,
         pos' \in Address, cursor' \in Address, gapEnd' \in Address,
         gapFunctions' \subseteq FunctionBounds, IsFiniteSet(gapFunctions'),
         gapCount' = Cardinality(gapFunctions'), SearchInv'
  PROVE  AInv'
<1>1. UNCHANGED <<image, input, options, pending, coverEnd, suppressed, emitted,
                  referencedCount, unfiltered, result>>
  BY DEF constVars, candidateVars, filterVars
<1>2. /\ pc # "idle" /\ ~Collecting /\ ~Collecting' /\ ~Filtering /\ ~Filtering'
      /\ pc' # "idle" /\ pc # "extent" /\ pc' # "extent"
      /\ pc' \in {"gaps", "carve", "gapCfg"}
  BY DEF Searching, Carried, Collecting, Filtering
<1>3. EntryBoundaries' = EntryBoundaries
  BY <1>1, InputFrame
<1>4. Left' = Left
  BY <1>1, <1>2 DEF Left, Current
<1>5. gapCount' \in Nat
  BY FS_CardinalityType
<1>6. AnalyzerTypeOK'
  BY <1>1, <1>2, <1>3, <1>5 DEF AInv, AnalyzerTypeOK, IInv, IsInput
<1>7. PhaseInv'
  BY <1>1, <1>2 DEF AInv, PhaseInv
<1>8. CandidatesInv'
  BY <1>1, <1>2, <1>4, CandidatesFrame DEF AInv
<1>9. CountInv'
  BY <1>1, <1>2, <1>3 DEF AInv, CountInv
<1>10. FilterInv'
  BY <1>2 DEF FilterInv
<1> QED
  BY <1>6, <1>7, <1>8, <1>9, <1>10 DEF AInv

\* The types of what a search keeps.
LEMMA SearchTypes ==
  ASSUME AInv
  PROVE  /\ IInv /\ IsImage(regions, words) /\ IsInput(input)
         /\ pos \in Nat /\ cursor \in Nat /\ gapEnd \in Nat /\ pos \in Address
         /\ cursor \in Address /\ gapEnd \in Address /\ ri \in Nat /\ todo \subseteq emitted
         /\ \A fn \in emitted \cup gapFunctions :
              /\ IsFunction(fn) /\ fn \in FunctionBounds
              /\ fn.start \in Nat /\ fn.end \in Nat /\ fn.start < fn.end
         /\ IsFiniteSet(gapFunctions) /\ gapFunctions \subseteq FunctionBounds
         /\ gapCount = Cardinality(gapFunctions)
<1>1. \A fn \in emitted \cup gapFunctions : IsFunction(fn)
  BY DEF AInv, CandidatesInv, EmittedInv, SearchInv, GapFunctionsInv
<1>2. \A fn : IsFunction(fn) =>
         fn \in FunctionBounds /\ fn.start \in Nat /\ fn.end \in Nat /\ fn.start < fn.end
  BY DEF IsFunction, FunctionBounds, Address, Within
<1> QED
  BY <1>1, <1>2 DEF AInv, AnalyzerTypeOK, TypeOK, CountInv, Address

\* A function that is passed lies in the region, and nothing before it is left.
LEMMA PassFunctionFacts ==
  ASSUME AInv, BelowTop(regions), NEW fn \in todo, PassFunction(fn)
  PROVE  /\ ri \in DOMAIN regions
         /\ regions[ri].start \in Nat /\ regions[ri].end \in Nat
         /\ regions[ri].start < regions[ri].end /\ regions[ri].end <= AddressLimit - 8
         /\ fn \in emitted /\ fn.start \in Nat /\ fn.end \in Nat /\ fn.start < fn.end
         /\ regions[ri].start <= fn.start /\ fn.end <= regions[ri].end
         /\ pos \in Nat /\ pos <= fn.start /\ pos' = fn.end
         /\ IF fn.start > pos THEN Carve(pos, fn.start) /\ pc' = "carve"
                              ELSE UNCHANGED <<cursor, gapEnd, pc>>
<1> DEFINE rs == regions[ri].start
           re == regions[ri].end
           covStart == Greater(fn.start, rs)
           covEnd == Lesser(fn.end, re)
<1>1. /\ pc = "gaps" /\ pos' = Greater(pos, covEnd)
      /\ IF covStart > pos THEN Carve(pos, covStart) /\ pc' = "carve"
                           ELSE UNCHANGED <<cursor, gapEnd, pc>>
  BY DEF PassFunction
<1>2. ri \in DOMAIN regions
  BY <1>1 DEF AInv, SearchInv, RegionInv, Searching
<1>3. rs \in Nat /\ re \in Nat /\ rs < re /\ re <= AddressLimit - 8
  BY <1>2, SearchTypes, RegionFacts, RoomAbove
<1>4. fn \in InRegion(ri) /\ pos <= fn.start
  BY <1>1, <1>2 DEF AInv, SearchInv, RegionInv, Searching
<1>5. fn \in emitted /\ fn.end > rs /\ fn.start < re
  BY <1>4 DEF InRegion
<1>6. fn.start \in Nat /\ fn.end \in Nat /\ fn.start < fn.end /\ IsFunction(fn)
  BY <1>5, SearchTypes
<1>7. rs <= fn.start /\ fn.end <= re
  BY <1>2, <1>3, <1>5, <1>6, FunctionInRegion, SearchTypes
<1>8. covStart = fn.start /\ covEnd = fn.end
  BY <1>3, <1>6, <1>7 DEF Greater, Lesser
<1>9. pos \in Nat
  BY SearchTypes
<1>10. pos' = fn.end
  BY <1>1, <1>4, <1>6, <1>8, <1>9 DEF Greater
<1> HIDE DEF covStart
<1> QED
  BY <1>1, <1>2, <1>3, <1>4, <1>5, <1>6, <1>7, <1>8, <1>9, <1>10

\* The gap in front of the next function, if there is one, holds no other.
LEMMA PassFunctionAInv ==
  ASSUME AInv, BelowTop(regions), NEW fn \in todo, PassFunction(fn)
  PROVE  AInv'
<1> DEFINE rs == regions[ri].start
           re == regions[ri].end
<1>1. /\ pc = "gaps" /\ todo' = todo \ {fn}
      /\ \A other \in todo : fn.start <= other.start
      /\ UNCHANGED <<image, cacheVars, builderVars, constVars, candidateVars, ri,
                     gapFunctions, gapCount, filterVars>>
      /\ IF fn.start > pos THEN Carve(pos, fn.start) /\ pc' = "carve"
                           ELSE UNCHANGED <<cursor, gapEnd, pc>>
  BY PassFunctionFacts DEF PassFunction
<1>2. IInv'
  BY <1>1, IInvFrame DEF AInv
<1>3. ri \in DOMAIN regions /\ fn \in emitted
  BY PassFunctionFacts
<1>4. rs \in Nat /\ re \in Nat /\ rs < re /\ re <= AddressLimit - 8
  BY PassFunctionFacts
<1>5. /\ todo \subseteq InRegion(ri) /\ rs <= pos /\ pos <= re
      /\ \A g \in InRegion(ri) : IF g \in todo THEN pos <= g.start ELSE g.end <= pos
  BY <1>1, <1>3 DEF AInv, SearchInv, RegionInv, Searching
<1>6. \A g \in emitted : /\ g.start \in Nat /\ g.end \in Nat /\ g.start < g.end
                         /\ IsFunction(g)
  BY SearchTypes
<1>7. \A g \in InRegion(ri) : g \in emitted /\ g.end > rs /\ g.start < re
  BY DEF InRegion
<1>8. fn.start \in Nat /\ fn.end \in Nat /\ fn.start < fn.end /\ rs <= fn.start /\ fn.end <= re
  BY PassFunctionFacts
<1>9. pos \in Nat /\ pos <= fn.start
  BY PassFunctionFacts
<1>10. pos' = fn.end
  BY PassFunctionFacts
<1>11. UNCHANGED <<regions, words, emitted, ri, gapFunctions, gapCount>>
  BY <1>1 DEF image, candidateVars
<1> HIDE DEF rs, re
<1>12. RegionInv'
  <2>1. InRegion(ri)' = InRegion(ri)
    BY <1>11 DEF InRegion
  <2>2. \A g \in InRegion(ri) : IF g \in todo' THEN pos' <= g.start ELSE g.end <= pos'
    <3> SUFFICES ASSUME NEW g \in InRegion(ri)
                 PROVE  IF g \in todo' THEN pos' <= g.start ELSE g.end <= pos'
      OBVIOUS
    <3>1. g \in emitted /\ g.start \in Nat /\ g.end \in Nat /\ g.start < g.end
      BY <1>6, <1>7
    <3>2. CASE g = fn
      BY <1>1, <1>8, <1>10, <3>2
    <3>3. CASE g # fn /\ g \in todo
      <4>1. Apart(fn, g) /\ fn.start <= g.start
        BY <1>1, <1>3, <3>1, <3>3 DEF AInv, CandidatesInv, EmittedInv
      <4> QED
        BY <1>1, <1>8, <1>10, <3>1, <3>3, <4>1 DEF Apart
    <3>4. CASE g \notin todo
      <4>1. g.end <= pos
        BY <1>5, <3>4
      <4> QED
        BY <1>1, <1>8, <1>9, <1>10, <3>1, <3>4, <4>1
    <3> QED
      BY <3>2, <3>3, <3>4
  <2>3. rs <= fn.end /\ fn.end <= re
    BY <1>4, <1>8
  <2> QED
    BY <1>1, <1>3, <1>5, <1>10, <1>11, <2>1, <2>2, <2>3 DEF RegionInv, rs, re
<1>13. fn.end \in Address
  BY <1>4, <1>8, AddressLimitAssumption DEF Address
<1>14. GapFunctionsInv'
  BY <1>1, <1>11, GapFunctionsFrame DEF AInv, SearchInv
<1>15. \A g \in gapFunctions : g.end <= pos /\ g.end \in Nat
  BY <1>1, <1>3, SearchTypes DEF AInv, SearchInv, FrontierInv
<1>16. CASE fn.start > pos
  <2>1. pc' = "carve" /\ cursor' = AlignUp(pos) /\ gapEnd' = fn.start
    BY <1>1, <1>16 DEF Carve
  <2>2. /\ AlignUp(pos) \in AlignedAddress /\ EndAddress(AlignUp(pos)) < AddressLimit
        /\ pos <= AlignUp(pos) /\ AlignUp(pos) \in Nat
    <3>1. pos <= AddressLimit - 8 /\ pos <= AddressLimit - 4
      BY <1>4, <1>5, <1>9, AddressLimitAssumption
    <3> QED
      BY <1>9, <3>1, AlignUpInCode, AlignUpFacts
  <2>3. \A g \in emitted : g.end <= AlignUp(pos) \/ fn.start <= g.start
    <3> SUFFICES ASSUME NEW g \in emitted
                 PROVE  g.end <= AlignUp(pos) \/ fn.start <= g.start
      OBVIOUS
    <3>1. g.start \in Nat /\ g.end \in Nat
      BY <1>6
    <3>2. CASE g \in InRegion(ri)
      BY <1>1, <1>5, <1>9, <2>2, <3>1, <3>2
    <3>3. CASE g \notin InRegion(ri)
      <4>1. g.end <= rs \/ re <= g.start
        BY <1>4, <3>1, <3>3 DEF InRegion, rs, re
      <4> QED
        BY <1>4, <1>5, <1>8, <1>9, <2>2, <3>1, <4>1
    <3> QED
      BY <3>2, <3>3
  <2>4. \A g \in gapFunctions : g.end <= AlignUp(pos) /\ g.end <= fn.start
    BY <1>8, <1>9, <1>15, <2>2
  <2>5. rs <= AlignUp(pos) /\ fn.start <= re
    BY <1>4, <1>5, <1>8, <1>9, <2>2
  <2>6. CarveInv'
    <3>1. fn.start <= pos'
      BY <1>8, <1>10
    <3>2. \E i \in DOMAIN regions : regions[i].start <= AlignUp(pos) /\ fn.start <= regions[i].end
      BY <1>3, <2>5 DEF rs, re
    <3>3. EndAddress(cursor)' = EndAddress(AlignUp(pos))
      BY <2>1 DEF EndAddress
    <3> QED
      BY <1>11, <2>1, <2>2, <2>3, <2>4, <3>1, <3>2, <3>3 DEF CarveInv
  <2>7. FrontierInv' /\ GapCfgInv'
    BY <2>1 DEF FrontierInv, GapCfgInv
  <2>8. cursor' \in Address /\ gapEnd' \in Address
    <3>1. fn.start \in Address
      BY <1>8, <1>13, AddressLimitAssumption DEF Address
    <3>2. AlignUp(pos) \in Address
      BY <2>2 DEF AlignedAddress
    <3> QED
      BY <2>1, <3>1, <3>2
  <2> QED
    BY <1>1, <1>2, <1>10, <1>11, <1>12, <1>13, <1>14, <2>1, <2>6, <2>7, <2>8, SearchTypes,
       SearchFrame DEF SearchInv, Searching, Carried
<1>17. CASE ~(fn.start > pos)
  <2>1. UNCHANGED <<cursor, gapEnd, pc>>
    BY <1>1, <1>17
  <2>2. \A g \in gapFunctions : g.end <= fn.end
    BY <1>8, <1>9, <1>15
  <2>3. FrontierInv' /\ CarveInv' /\ GapCfgInv'
    BY <1>1, <1>10, <1>11, <2>1, <2>2 DEF FrontierInv, CarveInv, GapCfgInv, Carried
  <2> QED
    BY <1>1, <1>2, <1>10, <1>11, <1>12, <1>13, <1>14, <2>1, <2>3, SearchTypes,
       SearchFrame DEF SearchInv, Searching, Carried
<1> QED
  BY <1>16, <1>17

\* The gap that ends a region, if there is one, holds no function either.
LEMMA LeaveRegionAInv ==
  ASSUME AInv, BelowTop(regions), LeaveRegion
  PROVE  AInv'
<1> DEFINE re == regions[ri].end
<1>1. /\ pc = "gaps" /\ ri \in DOMAIN regions /\ todo = {} /\ EnterRegion(ri + 1)
      /\ UNCHANGED <<image, cacheVars, builderVars, constVars, candidateVars, gapFunctions,
                     gapCount, filterVars>>
      /\ IF pos < re THEN Carve(pos, re) /\ pc' = "carve" ELSE UNCHANGED <<cursor, gapEnd, pc>>
  BY DEF LeaveRegion
<1>2. IInv'
  BY <1>1, IInvFrame DEF AInv
<1>3. UNCHANGED <<regions, words, emitted, gapFunctions, gapCount>>
  BY <1>1 DEF image, candidateVars
<1>4. regions[ri].start \in Nat /\ re \in Nat /\ re <= AddressLimit - 8 /\ ri + 1 \in Nat
  BY <1>1, SearchTypes, RegionFacts, RoomAbove
<1>5. /\ regions[ri].start <= pos /\ pos <= re /\ pos \in Nat
      /\ \A g \in InRegion(ri) : g.end <= pos
  BY <1>1, SearchTypes DEF AInv, SearchInv, RegionInv, Searching
<1>6. /\ RegionInv' /\ ri' = ri + 1 /\ todo' \subseteq emitted /\ pos' \in Address
      /\ ri + 1 \in DOMAIN regions => pos' = regions[ri + 1].start
  BY <1>1, <1>3, <1>4, EnterRegionFacts, SearchTypes
<1>7. ri' \in DOMAIN regions' => pos' \in Nat /\ re <= pos'
  <2> SUFFICES ASSUME ri + 1 \in DOMAIN regions PROVE pos' \in Nat /\ re <= pos'
    BY <1>3, <1>6
  <2>1. ri \in Nat /\ ri < ri + 1
    BY SearchTypes
  <2>2. re <= regions[ri + 1].start
    BY <1>1, <2>1, SearchTypes, RegionFacts
  <2> QED
    BY <1>6, <2>2 DEF Address
<1>8. \A g \in gapFunctions : g.end <= pos /\ g.end \in Nat
  BY <1>1, SearchTypes DEF AInv, SearchInv, FrontierInv
<1>9. GapFunctionsInv'
  BY <1>1, <1>3, GapFunctionsFrame DEF AInv, SearchInv
<1>10. CASE pos < re
  <2>1. pc' = "carve" /\ cursor' = AlignUp(pos) /\ gapEnd' = re
    BY <1>1, <1>10 DEF Carve
  <2> HIDE DEF re
  <2>2. /\ AlignUp(pos) \in AlignedAddress /\ EndAddress(AlignUp(pos)) < AddressLimit
        /\ pos <= AlignUp(pos) /\ AlignUp(pos) \in Nat
    <3>1. pos \in Nat /\ pos <= AddressLimit - 8 /\ pos <= AddressLimit - 4
      <4>1. AddressLimit \in Nat
        BY AddressLimitAssumption
      <4> QED
        BY <1>4, <1>5, <4>1
    <3> QED
      BY <3>1, AlignUpInCode, AlignUpFacts
  <2>3. \A g \in emitted : g.end <= AlignUp(pos) \/ re <= g.start
    <3> SUFFICES ASSUME NEW g \in emitted
                 PROVE  g.end <= AlignUp(pos) \/ re <= g.start
      OBVIOUS
    <3>1. g.start \in Nat /\ g.end \in Nat
      BY SearchTypes
    <3>2. CASE g \in InRegion(ri)
      BY <1>5, <2>2, <3>1, <3>2
    <3>3. CASE g \notin InRegion(ri)
      <4>1. g.end <= regions[ri].start \/ re <= g.start
        BY <1>4, <3>1, <3>3 DEF InRegion, re
      <4> QED
        BY <1>4, <1>5, <2>2, <3>1, <4>1
    <3> QED
      BY <3>2, <3>3
  <2>4. \A g \in gapFunctions : g.end <= AlignUp(pos) /\ g.end <= re
    BY <1>4, <1>5, <1>8, <2>2
  <2>5. regions[ri].start <= AlignUp(pos)
    BY <1>4, <1>5, <2>2
  <2>6. CarveInv'
    <3>1. \E i \in DOMAIN regions : regions[i].start <= AlignUp(pos) /\ re <= regions[i].end
      BY <1>1, <1>4, <2>5 DEF re
    <3>2. EndAddress(cursor)' = EndAddress(AlignUp(pos))
      BY <2>1 DEF EndAddress
    <3> QED
      BY <1>3, <1>7, <2>1, <2>2, <2>3, <2>4, <3>1, <3>2 DEF CarveInv
  <2>7. FrontierInv' /\ GapCfgInv'
    BY <2>1 DEF FrontierInv, GapCfgInv
  <2>8. cursor' \in Address /\ gapEnd' \in Address
    BY <1>4, <2>1, <2>2, AddressLimitAssumption DEF AlignedAddress, Address
  <2> QED
    BY <1>1, <1>2, <1>3, <1>4, <1>6, <1>9, <2>1, <2>6, <2>7, <2>8, SearchTypes,
       SearchFrame DEF SearchInv, Searching, Carried
<1>11. CASE ~(pos < re)
  <2>1. UNCHANGED <<cursor, gapEnd, pc>>
    BY <1>1, <1>11
  <2> HIDE DEF re
  <2>2. ri' \in DOMAIN regions' => \A g \in gapFunctions : g.end <= pos'
    BY <1>4, <1>5, <1>7, <1>8, <1>11
  <2>3. FrontierInv' /\ CarveInv' /\ GapCfgInv'
    BY <1>1, <1>3, <2>1, <2>2 DEF FrontierInv, CarveInv, GapCfgInv, Carried
  <2> QED
    BY <1>1, <1>2, <1>3, <1>4, <1>6, <1>9, <2>1, <2>3, SearchTypes, SearchFrame
       DEF SearchInv, Searching, Carried
<1> QED
  BY <1>10, <1>11

\* The search is over: what it found is put with the rest.
LEMMA GapsDoneAInv ==
  ASSUME AInv, GapsDone
  PROVE  AInv'
<1>1. /\ pc = "gaps" /\ ri \notin DOMAIN regions /\ pc' = "filter"
      /\ unfiltered' = emitted \cup gapFunctions
      /\ UNCHANGED <<image, cacheVars, builderVars, input, options, pending, coverEnd,
                     suppressed, emitted, referencedCount, ri, todo, pos, cursor, gapEnd,
                     gapFunctions, gapCount, result>>
  BY DEF GapsDone, constVars, candidateVars, gapVars
<1>2. IInv'
  BY <1>1, IInvFrame DEF AInv
<1>3. EntryBoundaries' = EntryBoundaries
  BY <1>1, InputFrame
<1>4. Left' = Left
  BY <1>1 DEF Left, Current
<1>5. todo = {} /\ result = <<>> /\ pending = {}
  BY <1>1 DEF AInv, SearchInv, RegionInv, Searching, PhaseInv, Collecting, Carried, Filtering
<1>6. AnalyzerTypeOK'
  <2>1. unfiltered' \subseteq FunctionBounds
    BY <1>1 DEF AInv, AnalyzerTypeOK
  <2> QED
    BY <1>1, <1>2, <1>3, <2>1 DEF AInv, AnalyzerTypeOK, IInv, IsInput
<1>7. PhaseInv'
  BY <1>1, <1>5 DEF PhaseInv, Collecting, Searching, Carried, Filtering
<1>8. CandidatesInv'
  BY <1>1, <1>4, CandidatesFrame DEF AInv
<1>9. CountInv'
  BY <1>1, <1>3 DEF AInv, CountInv, Collecting, Searching, Carried, Filtering
<1>10. SearchInv'
  <2>1. GapFunctionsInv'
    BY <1>1, GapFunctionsFrame DEF AInv, SearchInv
  <2> QED
    BY <1>1, <2>1
       DEF SearchInv, RegionInv, FrontierInv, CarveInv, GapCfgInv, Searching, Carried
<1>11. FilterInv'
  <2>1. Functions' = {} /\ DOMAIN result' = {} /\ Len(result') = 0
    BY <1>1, <1>5 DEF Functions
  <2>2. /\ IsFiniteSet(emitted) /\ IsFiniteSet(gapFunctions)
        /\ referencedCount = Cardinality(emitted) /\ gapCount = Cardinality(gapFunctions)
    BY <1>1 DEF AInv, CountInv, Searching
  <2>3. emitted \cap gapFunctions = {}
    <3> SUFFICES ASSUME NEW fn \in emitted, fn \in gapFunctions PROVE FALSE
      OBVIOUS
    <3>1. Apart(fn, fn)
      BY DEF AInv, SearchInv, GapFunctionsInv
    <3>2. fn.start \in Nat /\ fn.end \in Nat /\ fn.start < fn.end
      BY SearchTypes
    <3> QED
      BY <3>1, <3>2 DEF Apart
  <2>4. Cardinality(emitted) \in Nat /\ Cardinality(gapFunctions) \in Nat
    BY <2>2, FS_CardinalityType
  <2>5. /\ IsFiniteSet(emitted \cup gapFunctions)
        /\ Cardinality(emitted \cup gapFunctions)
             = Cardinality(emitted) + Cardinality(gapFunctions)
    BY <2>2, <2>3, <2>4, FS_Union, FS_EmptySet
  <2> QED
    BY <1>1, <2>1, <2>2, <2>4, <2>5 DEF FilterInv
<1> QED
  BY <1>2, <1>6, <1>7, <1>8, <1>9, <1>10, <1>11 DEF AInv

\* The hole that is carved, and the word at the cursor.
LEMMA CarveFacts ==
  ASSUME AInv, Carried
  PROVE  /\ cursor \in AlignedAddress /\ EndAddress(cursor) < AddressLimit
         /\ WordAfter(cursor) = EndAddress(cursor)
         /\ BelowTop(regions) => gapEnd <= AddressLimit - 8
         /\ AddressLimit \in Nat /\ AddressLimit % 4 = 0
         /\ \A fn \in emitted : fn.end <= cursor \/ gapEnd <= fn.start
         /\ \A fn \in gapFunctions : fn.end <= cursor /\ fn.end <= gapEnd
<1>1. PICK i \in DOMAIN regions : gapEnd <= regions[i].end
  BY DEF AInv, SearchInv, CarveInv
<1>2. regions[i].end \in Nat /\ (BelowTop(regions) => regions[i].end <= AddressLimit - 8)
  BY SearchTypes, RegionFacts, RoomAbove
<1>3. AddressLimit \in Nat /\ AddressLimit % 4 = 0
  BY AddressLimitAssumption DEF kAArch64InstructionSize
<1>4. BelowTop(regions) => gapEnd <= AddressLimit - 8
  BY <1>1, <1>2, <1>3, SearchTypes
<1>5. EndAddress(cursor) < AddressLimit
  BY DEF AInv, SearchInv, CarveInv
<1>6. WordAfter(cursor) = EndAddress(cursor)
  BY <1>5, SearchTypes, WordAfterIs DEF EndAddress, kAArch64InstructionSize
<1> QED
  BY <1>3, <1>4, <1>5, <1>6 DEF AInv, SearchInv, CarveInv

\* The cursor moves up, and what is found of the gap stays behind it.
LEMMA CursorMoves ==
  ASSUME AInv, IInv', Carried, pc' = "carve",
         UNCHANGED <<carveFrame, gapFunctions, gapCount>>,
         cursor' \in AlignedAddress, EndAddress(cursor') < AddressLimit, cursor <= cursor'
  PROVE  AInv'
<1>1. UNCHANGED <<image, regions, words, constVars, candidateVars, ri, todo, pos, gapEnd,
                  filterVars, emitted, gapFunctions, gapCount>>
  BY DEF carveFrame, candidateVars, image
<1>2. cursor' \in Nat /\ cursor \in Nat /\ cursor' \in Address
  BY SearchTypes DEF AlignedAddress, Address
<1>3. RegionInv'
  BY <1>1 DEF AInv, SearchInv, RegionInv, InRegion, Searching, Carried
<1>4. CarveInv'
  <2>1. \A fn \in emitted : fn.end <= cursor' \/ gapEnd <= fn.start
    BY <1>2, CarveFacts, SearchTypes
  <2>2. \A fn \in gapFunctions : fn.end <= cursor' /\ fn.end <= gapEnd
    BY <1>2, CarveFacts, SearchTypes
  <2>3. PICK i \in DOMAIN regions : regions[i].start <= cursor /\ gapEnd <= regions[i].end
    BY DEF AInv, SearchInv, CarveInv
  <2>4. regions[i].start <= cursor'
    BY <1>2, <2>3, SearchTypes, RegionFacts
  <2>5. (EndAddress(cursor) < AddressLimit)'
    BY DEF EndAddress
  <2> QED
    BY <1>1, <2>1, <2>2, <2>3, <2>4, <2>5 DEF AInv, SearchInv, CarveInv
<1>5. FrontierInv' /\ GapCfgInv'
  BY DEF FrontierInv, GapCfgInv
<1>6. GapFunctionsInv'
  BY <1>1, GapFunctionsFrame DEF AInv, SearchInv
<1> QED
  BY <1>1, <1>2, <1>3, <1>4, <1>5, <1>6, SearchTypes, SearchFrame
     DEF SearchInv, Searching, Carried

\* One word further, while the word lies in the gap.
LEMMA NextWord ==
  ASSUME AInv, BelowTop(regions), Carried, EndAddress(cursor) <= gapEnd
  PROVE  /\ EndAddress(cursor) \in AlignedAddress /\ cursor <= EndAddress(cursor)
         /\ EndAddress(EndAddress(cursor)) < AddressLimit
<1>1. cursor \in Nat /\ cursor % 4 = 0
  BY CarveFacts DEF AlignedAddress, Address, kAArch64InstructionSize
<1>2. gapEnd \in Nat
  BY SearchTypes
<1> QED
  BY <1>1, <1>2, CarveFacts DEF EndAddress, AlignedAddress, Address, kAArch64InstructionSize

\* The steps that leave a word behind.
LEMMA SkipWordAInv ==
  ASSUME AInv, BelowTop(regions), SkipPadding \/ SkipData \/ RejectGapFunction
  PROVE  AInv'
<1>1. /\ Carried /\ EndAddress(cursor) <= gapEnd
      /\ cursor' = EndAddress(cursor) /\ pc' = "carve"
      /\ UNCHANGED <<carveFrame, builderVars, gapFunctions, gapCount, image>>
  BY CarveFacts DEF SkipPadding, SkipData, RejectGapFunction, Carving, Carried, carveFrame, AInv,
         SearchInv, GapCfgInv
<1>2. IInv'
  <2>1. CASE SkipPadding \/ RejectGapFunction
    BY <1>1, <2>1, IInvFrame DEF SkipPadding, RejectGapFunction, AInv
  <2>2. CASE SkipData
    <3>1. CacheAt(cursor) /\ cursor \in AlignedAddress
      BY <1>1, <2>2, CarveFacts DEF SkipData
    <3>2. CacheTypeOK' /\ CacheInv'
      BY <1>1, <3>1, CacheStep DEF AInv, IInv, TypeOK
    <3> QED
      BY <1>1, <3>2, IdleIInv DEF AInv
  <2> QED
    BY <2>1, <2>2
<1> QED
  BY <1>1, <1>2, NextWord, CursorMoves

\* The gap ends: all that was found of it lies before pos.
LEMMA CarveDoneAInv ==
  ASSUME AInv, CarveDone
  PROVE  AInv'
<1>1. /\ pc = "carve" /\ pc' = "gaps"
      /\ UNCHANGED <<carveFrame, cacheVars, builderVars, cursor, gapFunctions, gapCount>>
  BY DEF CarveDone
<1>2. UNCHANGED <<image, regions, words, constVars, candidateVars, ri, todo, pos, gapEnd,
                  filterVars, emitted, cacheVars, builderVars, cursor, gapFunctions, gapCount>>
  BY <1>1 DEF carveFrame, candidateVars, image
<1>3. IInv'
  BY <1>2, IInvFrame DEF AInv
<1>4. RegionInv'
  BY <1>1, <1>2 DEF AInv, SearchInv, RegionInv, InRegion, Searching, Carried
<1>5. FrontierInv'
  <2>1. ri \in DOMAIN regions => gapEnd <= pos
    BY <1>1 DEF AInv, SearchInv, CarveInv, Carried
  <2>2. ri \in DOMAIN regions => \A fn \in gapFunctions : fn.end <= pos
    BY <1>1, <2>1, CarveFacts, SearchTypes DEF Carried
  <2> QED
    BY <1>2, <2>2 DEF FrontierInv
<1>6. CarveInv' /\ GapCfgInv'
  BY <1>1 DEF CarveInv, GapCfgInv, Carried
<1>7. GapFunctionsInv'
  BY <1>2, GapFunctionsFrame DEF AInv, SearchInv
<1> QED
  BY <1>1, <1>2, <1>3, <1>4, <1>5, <1>6, <1>7, SearchTypes, SearchFrame
     DEF SearchInv, Searching, Carried

\* A word that decodes and is not padding has its graph built.
LEMMA StartGapCfgAInv ==
  ASSUME AInv, StartGapCfg
  PROVE  AInv'
<1> DEFINE upper == Lesser(NextStrongAfter(cursor), gapEnd)
           req == RequestFor(cursor, upper)
<1>1. /\ pc = "carve" /\ EndAddress(cursor) <= gapEnd /\ ~IsPaddingWord(cursor)
      /\ Hit(cursor) /\ CacheAt(cursor) /\ BeginBuild(req) /\ pc' = "gapCfg"
      /\ UNCHANGED <<carveFrame, cursor, gapFunctions, gapCount>>
  BY CarveFacts DEF StartGapCfg, Carving, Carried
<1>2. UNCHANGED <<image, regions, words, constVars, candidateVars, ri, todo, pos, gapEnd,
                  filterVars, emitted, cursor, gapFunctions, gapCount>>
  BY <1>1 DEF carveFrame, candidateVars, image
<1>3. cursor \in AlignedAddress /\ cursor \in Address /\ gapEnd \in Address
  BY <1>1, CarveFacts, SearchTypes DEF Carried
<1>4. upper \in Address
  BY <1>3, NextStrongFacts, SearchTypes DEF Lesser
<1>5. req \in CfgBuildRequest
  BY <1>3, <1>4, RequestType DEF AInv
<1>6. CacheTypeOK' /\ CacheInv'
  BY <1>1, <1>2, <1>3, CacheStep DEF AInv, IInv, TypeOK
<1>7. IInv'
  BY <1>1, <1>5, <1>6, BeginBuildIInv DEF AInv
<1>8. Decodes(cursor)
  BY <1>1, LookupIsDecode DEF AInv, IInv
<1>9. RegionInv'
  BY <1>1, <1>2 DEF AInv, SearchInv, RegionInv, InRegion, Searching, Carried
<1>10. FrontierInv'
  BY <1>1 DEF FrontierInv
<1>11. CarveInv'
  BY <1>1, <1>2 DEF AInv, SearchInv, CarveInv, Carried, EndAddress
<1>12. GapCfgInv'
  <2>1. IsPaddingWord(cursor)' <=> IsPaddingWord(cursor)
    BY <1>2 DEF IsPaddingWord, ReadsWord, Available, RegionContaining, Contains, RegionsAt
  <2>2. Decodes(cursor)' <=> Decodes(cursor)
    BY <1>2 DEF Decodes, ReadsWord, Available, RegionContaining, Contains, RegionsAt
  <2> QED
    BY <1>1, <1>2, <1>8, <2>1, <2>2 DEF GapCfgInv, EndAddress
<1>13. GapFunctionsInv'
  BY <1>2, GapFunctionsFrame DEF AInv, SearchInv
<1> QED
  BY <1>1, <1>2, <1>3, <1>7, <1>9, <1>10, <1>11, <1>12, <1>13, SearchTypes, SearchFrame
     DEF SearchInv, Searching, Carried

\* A plausible graph becomes a function of the gap, and the cursor passes it.
LEMMA AcceptGapFunctionAInv ==
  ASSUME AInv, BelowTop(regions), AcceptGapFunction
  PROVE  AInv'
<1> DEFINE end == GapFunctionEnd
           new == Bounds(cursor, end)
<1>1. /\ pc = "gapCfg" /\ pc' = "carve" /\ end > cursor
      /\ gapFunctions' = gapFunctions \cup {new} /\ gapCount' = gapCount + 1
      /\ cursor' = AlignUp(end)
      /\ UNCHANGED <<carveFrame, cacheVars, builderVars>>
  BY DEF AcceptGapFunction, IsGapFunction
<1>2. UNCHANGED <<image, regions, words, constVars, candidateVars, ri, todo, pos, gapEnd,
                  filterVars, emitted, cacheVars, builderVars>>
  BY <1>1 DEF carveFrame, candidateVars, image
<1>3. IInv'
  BY <1>2, IInvFrame DEF AInv
<1>4. /\ cursor \in Nat /\ gapEnd \in Nat /\ coveredEnd \in Nat
      /\ gapEnd <= AddressLimit - 8 /\ AddressLimit \in Nat
  BY <1>1, CarveFacts, SearchTypes
     DEF Carried, AInv, IInv, TypeOK, BuilderTypeOK, Address
<1>5. end \in Nat /\ cursor < end /\ end <= gapEnd
  BY <1>1, <1>4 DEF GapFunctionEnd, Lesser
<1> HIDE DEF end
<1>6. /\ cursor' \in AlignedAddress /\ EndAddress(cursor') < AddressLimit
      /\ cursor' \in Nat /\ end <= cursor' /\ cursor <= cursor'
  <2>1. AlignUp(end) \in AlignedAddress /\ EndAddress(AlignUp(end)) < AddressLimit
    BY <1>4, <1>5, AlignUpInCode
  <2>2. AlignUp(end) \in Nat /\ end <= AlignUp(end)
    BY <1>4, <1>5, AlignUpFacts
  <2> QED
    BY <1>1, <1>4, <1>5, <2>1, <2>2
<1>7. new \in FunctionBounds /\ new.start = cursor /\ new.end = end
  BY <1>4, <1>5 DEF Bounds, FunctionBounds, Address
<1> HIDE DEF new
<1>8. PICK i \in DOMAIN regions : regions[i].start <= cursor /\ gapEnd <= regions[i].end
  BY <1>1 DEF AInv, SearchInv, CarveInv, Carried
<1>9. regions[i].start \in Nat /\ regions[i].end \in Nat
  BY SearchTypes, RegionFacts
<1>10. IsFunction(new)
  <2>1. end <= regions[i].end
    BY <1>4, <1>5, <1>8, <1>9
  <2> QED
    BY <1>5, <1>7, <1>8, <2>1 DEF IsFunction, Within
<1>11. \A fn \in emitted : Apart(new, fn) /\ Apart(fn, new)
  <2> SUFFICES ASSUME NEW fn \in emitted PROVE Apart(new, fn) /\ Apart(fn, new)
    OBVIOUS
  <2>1. fn.end <= cursor \/ gapEnd <= fn.start
    BY <1>1, CarveFacts DEF Carried
  <2>2. fn.start \in Nat /\ fn.end \in Nat
    BY SearchTypes
  <2> QED
    BY <1>4, <1>5, <1>7, <2>1, <2>2 DEF Apart
<1>12. \A fn \in gapFunctions : fn.end <= cursor /\ fn.end <= gapEnd
  BY <1>1, CarveFacts DEF Carried
<1>13. \A fn \in gapFunctions : Apart(new, fn) /\ Apart(fn, new)
  BY <1>7, <1>12 DEF Apart
<1>14. new \notin gapFunctions
  BY <1>4, <1>5, <1>7, <1>12
<1>15. RegionInv'
  BY <1>1, <1>2 DEF AInv, SearchInv, RegionInv, InRegion, Searching, Carried
<1>16. FrontierInv' /\ GapCfgInv'
  BY <1>1 DEF FrontierInv, GapCfgInv
<1>17. CarveInv'
  <2>1. \A fn \in emitted : fn.end <= cursor' \/ gapEnd <= fn.start
    <3> SUFFICES ASSUME NEW fn \in emitted PROVE fn.end <= cursor' \/ gapEnd <= fn.start
      OBVIOUS
    <3>1. fn.end <= cursor \/ gapEnd <= fn.start
      BY <1>1, CarveFacts DEF Carried
    <3>2. fn.start \in Nat /\ fn.end \in Nat
      BY SearchTypes
    <3> QED
      BY <1>4, <1>6, <3>1, <3>2
  <2>2. \A fn \in gapFunctions' : fn.end <= cursor' /\ fn.end <= gapEnd
    <3> SUFFICES ASSUME NEW fn \in gapFunctions' PROVE fn.end <= cursor' /\ fn.end <= gapEnd
      OBVIOUS
    <3>1. CASE fn \in gapFunctions
      <4>1. fn.end \in Nat
        BY <3>1, SearchTypes
      <4> QED
        BY <1>4, <1>6, <1>12, <3>1, <4>1
    <3>2. CASE fn = new
      BY <1>5, <1>6, <1>7, <3>2
    <3> QED
      BY <1>1, <3>1, <3>2
  <2>3. regions[i].start <= cursor'
    BY <1>4, <1>6, <1>8, <1>9
  <2>4. (EndAddress(cursor) < AddressLimit)'
    BY <1>6 DEF EndAddress
  <2>5. ri \in DOMAIN regions => gapEnd <= pos
    BY <1>1 DEF AInv, SearchInv, CarveInv, Carried
  <2> QED
    BY <1>2, <1>6, <1>8, <2>1, <2>2, <2>3, <2>4, <2>5 DEF CarveInv
<1>18. GapFunctionsInv'
  <2>1. ~IsPaddingWord(new.start) /\ Decodes(new.start)
    BY <1>1, <1>7 DEF AInv, SearchInv, GapCfgInv
  <2>2. \A fn \in gapFunctions' : IsFunction(fn) /\ ~IsPaddingWord(fn.start) /\ Decodes(fn.start)
    BY <1>1, <1>10, <2>1 DEF AInv, SearchInv, GapFunctionsInv
  <2>3. \A f \in gapFunctions', g \in emitted' : Apart(f, g)
    BY <1>1, <1>2, <1>11 DEF AInv, SearchInv, GapFunctionsInv
  <2>4. \A f, g \in gapFunctions' : f = g \/ Apart(f, g)
    BY <1>1, <1>13 DEF AInv, SearchInv, GapFunctionsInv
  <2>5. \A fn \in gapFunctions' :
          IsFunction(fn)' /\ ~IsPaddingWord(fn.start)' /\ Decodes(fn.start)'
    BY <1>2, <2>2, ImageFrame
  <2> QED
    BY <2>3, <2>4, <2>5 DEF GapFunctionsInv, Apart
<1>19. /\ IsFiniteSet(gapFunctions') /\ gapCount' = Cardinality(gapFunctions')
       /\ gapFunctions' \subseteq FunctionBounds
  BY <1>1, <1>7, <1>14, SearchTypes, FS_AddElement
<1>20. cursor' \in Address /\ UNCHANGED <<ri, todo, pos, gapEnd>>
  BY <1>2, <1>6 DEF AlignedAddress
<1> QED
  BY <1>1, <1>2, <1>3, <1>15, <1>16, <1>17, <1>18, <1>19, <1>20, SearchTypes, SearchFrame
     DEF SearchInv, Searching, Carried
-----------------------------------------------------------------------------
(***************************************************************************)
(* The third pass, and the whole.                                          *)
(***************************************************************************)

\* The next function in order begins where the last one kept ends.
LEMMA FilterAInv ==
  ASSUME AInv, NEW fn \in unfiltered, Filter(fn)
  PROVE  AInv'
<1>1. /\ pc = "filter" /\ unfiltered' = unfiltered \ {fn}
      /\ \A other \in unfiltered : SortsBefore(fn, other)
      /\ result' = IF Fits(fn) THEN Append(result, fn) ELSE result
      /\ UNCHANGED <<image, cacheVars, builderVars, pc, input, options, pending, coverEnd,
                     suppressed, emitted, referencedCount, ri, todo, pos, cursor, gapEnd,
                     gapFunctions, gapCount>>
  BY DEF Filter, constVars, candidateVars, gapVars
<1>2. IInv'
  BY <1>1, IInvFrame DEF AInv
<1>3. EntryBoundaries' = EntryBoundaries
  BY <1>1, InputFrame
<1>4. Left' = Left
  BY <1>1 DEF Left, Current
<1>5. /\ Functions \cup unfiltered = emitted \cup gapFunctions
      /\ IsFiniteSet(unfiltered)
      /\ Len(result) + Cardinality(unfiltered) = referencedCount + gapCount
      /\ \A i, j \in DOMAIN result : i < j => result[i].end <= result[j].start
      /\ \A i \in DOMAIN result, g \in unfiltered : result[i].end <= g.start
  BY <1>1 DEF AInv, FilterInv, Filtering
<1>6. \A g \in unfiltered : /\ g \in emitted \cup gapFunctions /\ g \in FunctionBounds
                            /\ g.start \in Nat /\ g.end \in Nat /\ g.start < g.end
  BY <1>5, SearchTypes
<1>7. result \in Seq(FunctionBounds)
  BY DEF AInv, AnalyzerTypeOK
<1>8. Len(result) \in Nat /\ DOMAIN result = 1 .. Len(result)
  BY <1>7
<1>9. Fits(fn)
  <2>1. result # <<>> => Len(result) \in DOMAIN result
    BY <1>7, <1>8
  <2>2. result # <<>> => result[Len(result)].end <= fn.start
    BY <1>5, <2>1
  <2>3. result # <<>> => result[Len(result)].end \in Nat
    <3>1. \A i \in DOMAIN result : result[i] \in FunctionBounds
      BY <1>7
    <3>2. \A g \in FunctionBounds : g.end \in Nat
      BY DEF FunctionBounds, Address
    <3> QED
      BY <2>1, <3>1, <3>2
  <2> QED
    BY <1>6, <2>2, <2>3 DEF Fits
<1>10. result' = Append(result, fn)
  BY <1>1, <1>9
<1>11. /\ result' \in Seq(FunctionBounds) /\ Len(result') = Len(result) + 1
       /\ DOMAIN result' = 1 .. Len(result) + 1
       /\ \A i \in DOMAIN result : result'[i] = result[i]
       /\ result'[Len(result) + 1] = fn
  BY <1>6, <1>7, <1>8, <1>10
<1>12. AnalyzerTypeOK'
  <2>1. unfiltered' \subseteq FunctionBounds
    BY <1>1, <1>6
  <2> QED
    BY <1>1, <1>2, <1>3, <1>11, <2>1 DEF AInv, AnalyzerTypeOK, IInv, IsInput
<1>13. PhaseInv'
  BY <1>1 DEF AInv, PhaseInv, Collecting, Searching, Carried, Filtering
<1>14. CandidatesInv'
  BY <1>1, <1>4, CandidatesFrame DEF AInv
<1>15. CountInv'
  BY <1>1, <1>3 DEF AInv, CountInv, Collecting, Searching, Carried, Filtering
<1>16. SearchInv'
  <2>1. GapFunctionsInv'
    BY <1>1, GapFunctionsFrame DEF AInv, SearchInv
  <2> QED
    BY <1>1, <2>1
       DEF SearchInv, RegionInv, FrontierInv, CarveInv, GapCfgInv, Searching, Carried
<1>17. FilterInv'
  <2>1. Functions' = Functions \cup {fn}
    BY <1>8, <1>11 DEF Functions
  <2>2. Functions' \cup unfiltered' = emitted' \cup gapFunctions'
    BY <1>1, <1>5, <2>1
  <2>3. /\ IsFiniteSet(unfiltered') /\ Cardinality(unfiltered') = Cardinality(unfiltered) - 1
        /\ Cardinality(unfiltered) \in Nat
    BY <1>1, <1>5, FS_RemoveElement, FS_CardinalityType
  <2>4. Len(result') + Cardinality(unfiltered') = referencedCount' + gapCount'
    BY <1>1, <1>5, <1>8, <1>11, <2>3
  <2>5. \A i, j \in DOMAIN result' : i < j => result'[i].end <= result'[j].start
    BY <1>5, <1>8, <1>11
  <2>6. \A g \in unfiltered' : fn.end <= g.start
    <3> SUFFICES ASSUME NEW g \in unfiltered, g # fn PROVE fn.end <= g.start
      BY <1>1
    <3>1. Apart(fn, g)
      <4>1. \A f \in gapFunctions, h \in emitted : Apart(f, h) /\ Apart(h, f)
        BY DEF AInv, SearchInv, GapFunctionsInv, Apart
      <4> QED
        BY <1>6, <4>1 DEF AInv, CandidatesInv, EmittedInv, SearchInv, GapFunctionsInv
    <3>2. fn.start <= g.start
      BY <1>1, <1>6 DEF SortsBefore
    <3> QED
      BY <1>6, <3>1, <3>2 DEF Apart
  <2>7. \A i \in DOMAIN result', g \in unfiltered' : result'[i].end <= g.start
    BY <1>1, <1>5, <1>8, <1>11, <2>6
  <2> QED
    BY <1>1, <2>2, <2>3, <2>4, <2>5, <2>7 DEF FilterInv
<1> QED
  BY <1>2, <1>12, <1>13, <1>14, <1>15, <1>16, <1>17 DEF AInv

\* The call returns.
LEMMA FilterDoneAInv ==
  ASSUME AInv, FilterDone
  PROVE  AInv'
<1>1. /\ pc = "filter" /\ unfiltered = {} /\ pc' = "done"
      /\ UNCHANGED <<image, cacheVars, builderVars, input, options, pending, coverEnd,
                     suppressed, emitted, referencedCount, ri, todo, pos, cursor, gapEnd,
                     gapFunctions, gapCount, unfiltered, result>>
  BY DEF FilterDone, constVars, candidateVars, gapVars, filterVars
<1>2. IInv'
  BY <1>1, IInvFrame DEF AInv
<1>3. EntryBoundaries' = EntryBoundaries /\ Left' = Left
  BY <1>1, InputFrame DEF Left, Current
<1>4. AnalyzerTypeOK'
  BY <1>1, <1>2, <1>3 DEF AInv, AnalyzerTypeOK, IInv, IsInput
<1>5. PhaseInv'
  BY <1>1 DEF AInv, PhaseInv, Collecting, Searching, Carried, Filtering
<1>6. CandidatesInv'
  BY <1>1, <1>3, CandidatesFrame DEF AInv
<1>7. CountInv'
  BY <1>1, <1>3 DEF AInv, CountInv, Collecting, Searching, Carried, Filtering
<1>8. SearchInv'
  <2>1. GapFunctionsInv'
    BY <1>1, GapFunctionsFrame DEF AInv, SearchInv
  <2> QED
    BY <1>1, <2>1
       DEF SearchInv, RegionInv, FrontierInv, CarveInv, GapCfgInv, Searching, Carried
<1>9. FilterInv'
  BY <1>1 DEF AInv, FilterInv, Filtering, Functions
<1> QED
  BY <1>2, <1>4, <1>5, <1>6, <1>7, <1>8, <1>9 DEF AInv

\* The steps of the graph builder.
LEMMA GraphStepAInv ==
  ASSUME AInv, GraphStep
  PROVE  AInv'
<1>1. BuilderStep /\ UNCHANGED analyzerVars
  BY DEF GraphStep
<1>2. UNCHANGED <<image, request>>
  BY <1>1 DEF BuilderStep, SkipHardStop, SkipUndecodable, Cover, Return, Drop
<1>3. IInv'
  BY <1>1, SkipIInv, CoverIInv, ReturnIInv DEF BuilderStep, AInv
<1> QED
  BY <1>1, <1>2, <1>3, StutterAInv

\* Every step preserves the invariant.
LEMMA NextAInv == AInv /\ BelowTop(regions) /\ [AnalyzeNext]_analyzeVars => AInv'
<1> SUFFICES ASSUME AInv, BelowTop(regions), [AnalyzeNext]_analyzeVars PROVE AInv'
  OBVIOUS
<1>1. CASE \E in \in Inputs, opts \in OptionSets : Analyze(in, opts)
  BY <1>1, AnalyzeAInv, InputsAssumption
<1>2. CASE GraphStep
  BY <1>2, GraphStepAInv
<1>3. CASE CandidateStep
  BY <1>3, DemoteAInv, EmitAuthoritativeAInv, StartExtentAInv, EmitExtentAInv,
     CandidatesDoneAInv DEF CandidateStep
<1>4. CASE GapStep
  BY <1>4, PassFunctionAInv, LeaveRegionAInv, GapsDoneAInv, CarveDoneAInv, SkipWordAInv,
     StartGapCfgAInv, AcceptGapFunctionAInv DEF GapStep
<1>5. CASE FilterStep
  BY <1>5, FilterAInv, FilterDoneAInv DEF FilterStep
<1>6. CASE UNCHANGED analyzeVars
  <2>1. UNCHANGED <<image, cacheVars, builderVars, request, analyzerVars>>
    BY <1>6 DEF analyzeVars, builderVars
  <2>2. IInv'
    BY <2>1, IInvFrame DEF AInv
  <2> QED
    BY <2>1, <2>2, StutterAInv
<1> QED
  BY <1>1, <1>2, <1>3, <1>4, <1>5, <1>6 DEF AnalyzeNext, AnalyzeStep
-----------------------------------------------------------------------------
(***************************************************************************)
(* What holds of every image, those with code at the top included: the     *)
(* sums that come round are still addresses, and the graphs are asked for  *)
(* as the builder requires.                                                *)
(***************************************************************************)
TypeInv ==
  /\ IInv /\ AnalyzerTypeOK /\ IsFiniteSet(emitted)
  /\ Carried => cursor \in AlignedAddress
  /\ todo # {} => ri \in DOMAIN regions

\* A sum that comes round is an address, and an aligned one stays aligned.
LEMMA WrappedFacts ==
  ASSUME NEW a \in Nat
  PROVE  /\ AlignUp(a) \in AlignedAddress /\ WordAfter(a) \in Address
         /\ a \in AlignedAddress => WordAfter(a) \in AlignedAddress
<1>1. AddressLimit \in Nat /\ AddressLimit > 8 /\ AddressLimit % 4 = 0
  BY AddressLimitAssumption DEF kAArch64InstructionSize
<1>2. AlignUp(a) \in AlignedAddress
  <2> DEFINE x == (a + 3) % AddressLimit
  <2>1. x \in Nat /\ x < AddressLimit
    BY <1>1
  <2>2. AlignUp(a) = (x \div 4) * 4
    BY DEF AlignUp, AlignDown, kAArch64InstructionSize
  <2> HIDE DEF x
  <2>3. (x \div 4) * 4 \in Nat /\ (x \div 4) * 4 <= x /\ ((x \div 4) * 4) % 4 = 0
    BY <2>1
  <2> QED
    BY <1>1, <2>1, <2>2, <2>3 DEF AlignedAddress, Address, kAArch64InstructionSize
<1>3. WordAfter(a) \in Address
  BY <1>1 DEF WordAfter, Address, kAArch64InstructionSize
<1>4. ASSUME a \in AlignedAddress PROVE WordAfter(a) \in AlignedAddress
  <2>1. a % 4 = 0 /\ a + 4 <= AddressLimit
    BY <1>1, <1>4 DEF AlignedAddress, Address, kAArch64InstructionSize
  <2>2. CASE a + 4 < AddressLimit
    <3>1. WordAfter(a) = a + 4
      BY <2>2, WordAfterIs DEF EndAddress, kAArch64InstructionSize
    <3>2. (a + 4) % 4 = 0
      BY <2>1
    <3> QED
      BY <1>1, <2>2, <3>1, <3>2 DEF AlignedAddress, Address, kAArch64InstructionSize
  <2>3. CASE a + 4 = AddressLimit
    <3>1. WordAfter(a) = 0
      BY <1>1, <2>3 DEF WordAfter, kAArch64InstructionSize
    <3> QED
      BY <1>1, <3>1 DEF AlignedAddress, Address, kAArch64InstructionSize
  <2> QED
    BY <1>1, <2>1, <2>2, <2>3
<1> QED
  BY <1>2, <1>3, <1>4

\* The end of a region is an address.
LEMMA RegionEndType ==
  ASSUME IsImage(regions, words), NEW a \in Address
  PROVE  RegionEndFor(a) \in Address
<1>1. a \in Nat
  BY DEF Address
<1>2. CASE Contains(a)
  <2>1. PICK i \in DOMAIN regions : RegionEndFor(a) = regions[i].end
    BY <1>1, <1>2, RegionOf
  <2> QED
    BY <2>1, RegionFacts, AddressLimitAssumption DEF Address
<1>3. CASE ~Contains(a)
  BY <1>3 DEF RegionEndFor
<1> QED
  BY <1>2, <1>3

LEMMA LesserType ==
  ASSUME NEW a \in Address, NEW b \in Address
  PROVE  Lesser(a, b) \in Address /\ Greater(a, b) \in Address
BY DEF Lesser, Greater, Address

\* A step that leaves image and input keeps the types of what it changes.
LEMMA TypeFrame ==
  ASSUME TypeInv, IInv', UNCHANGED <<image, input, options>>,
         pc' \in {"candidates", "extent", "gaps", "carve", "gapCfg", "filter", "done"},
         pending' \subseteq pending,
         coverEnd' \in Address, suppressed' \in Nat, referencedCount' \in Nat,
         emitted' \subseteq FunctionBounds, IsFiniteSet(emitted'),
         gapFunctions' \subseteq FunctionBounds, gapCount' \in Nat,
         ri' \in Nat, todo' \subseteq emitted',
         pos' \in Address, cursor' \in Address, gapEnd' \in Address,
         unfiltered' \subseteq FunctionBounds, result' \in Seq(FunctionBounds),
         pc' \in {"carve", "gapCfg"} => cursor' \in AlignedAddress,
         todo' # {} => ri' \in DOMAIN regions
  PROVE  TypeInv'
<1>1. EntryBoundaries' = EntryBoundaries
  BY InputFrame
<1>2. IsInput(input)'
  BY DEF TypeInv, AnalyzerTypeOK, IsInput
<1>3. AnalyzerTypeOK'
  BY <1>1, <1>2 DEF TypeInv, AnalyzerTypeOK, IInv
<1> QED
  BY <1>3 DEF TypeInv, Carried, image

\* What TypeInv says of the variables.
LEMMA TypeFacts ==
  ASSUME TypeInv
  PROVE  /\ IInv /\ IsImage(regions, words) /\ IsInput(input)
         /\ pending \subseteq EntryBoundaries /\ EntryBoundaries \subseteq AlignedAddress
         /\ \A c \in pending : c \in Address /\ Contains(c)
         /\ coverEnd \in Address /\ suppressed \in Nat /\ referencedCount \in Nat
         /\ emitted \subseteq FunctionBounds /\ IsFiniteSet(emitted)
         /\ gapFunctions \subseteq FunctionBounds /\ gapCount \in Nat
         /\ ri \in Nat /\ todo \subseteq emitted
         /\ todo # {} => ri \in DOMAIN regions
         /\ pos \in Address /\ cursor \in Address /\ gapEnd \in Address
         /\ unfiltered \subseteq FunctionBounds /\ result \in Seq(FunctionBounds)
         /\ coveredEnd \in Address /\ request.entry \in Address /\ Address \subseteq Nat
<1>1. IsImage(regions, words) /\ IsInput(input) /\ coveredEnd \in Address
      /\ request.entry \in Address
  BY DEF TypeInv, AnalyzerTypeOK, TypeOK, BuilderTypeOK, CfgBuildRequest
<1>2. EntryBoundaries \subseteq AlignedAddress /\ \A c \in EntryBoundaries : Contains(c)
  BY <1>1, EntryFacts
<1> QED
  BY <1>1, <1>2 DEF TypeInv, AnalyzerTypeOK, AlignedAddress, Address

\* Whatever end it is given, what is emitted has its type.
LEMMA EmitTypes ==
  ASSUME TypeInv, NEW c \in Address, NEW end \in Address, EmitReferenced(c, end)
  PROVE  /\ coverEnd' \in Address
         /\ emitted' \subseteq FunctionBounds /\ IsFiniteSet(emitted')
         /\ todo \subseteq emitted'
<1>1. Bounds(c, end) \in FunctionBounds
  BY DEF Bounds, FunctionBounds
<1>2. IsFiniteSet(emitted \cup {Bounds(c, end)})
  BY TypeFacts, FS_AddElement
<1> QED
  BY <1>1, <1>2, TypeFacts, LesserType DEF EmitReferenced

\* The gap loop enters a region, or finds none.
LEMMA EnterTypes ==
  ASSUME TypeInv, NEW i \in Nat, EnterRegion(i)
  PROVE  /\ ri' \in Nat /\ todo' \subseteq emitted /\ pos' \in Address
         /\ todo' # {} => ri' \in DOMAIN regions
<1>1. CASE i \in DOMAIN regions
  <2>1. IsImage(regions, words)
    BY TypeFacts
  <2>2. regions[i].start \in Address
    BY <1>1, <2>1, RegionFacts, AddressLimitAssumption DEF Address
  <2> QED
    BY <1>1, <2>2 DEF EnterRegion, InRegion
<1>2. CASE i \notin DOMAIN regions
  BY <1>2, AddressLimitAssumption DEF EnterRegion, Address, kAArch64InstructionSize
<1> QED
  BY <1>1, <1>2

\* The first pass.
LEMMA CandidateTypes ==
  ASSUME TypeInv, CandidateStep
  PROVE  TypeInv'
<1>1. ASSUME NEW c \in pending, DemoteInterior(c) PROVE TypeInv'
  <2>1. IInv'
    BY <1>1, IInvFrame, TypeFacts DEF DemoteInterior
  <2> QED
    BY <1>1, <2>1, TypeFacts, TypeFrame
       DEF DemoteInterior, IsNextCandidate, constVars, gapVars, filterVars
<1>2. ASSUME NEW c \in pending, EmitAuthoritative(c) PROVE TypeInv'
  <2>1. IInv'
    BY <1>2, IInvFrame, TypeFacts DEF EmitAuthoritative
  <2>2. SizedEnd(c) \in Address
    <3>1. RegionEndFor(c) \in Address /\ c \in Address
      BY TypeFacts, RegionEndType
    <3>2. input.authoritativeSizes[c] \in Nat
      BY <1>2, TypeFacts DEF EmitAuthoritative, IsSized, IsInput
    <3> QED
      BY <3>1, <3>2, AddressLimitAssumption DEF SizedEnd, Address
  <2>3. /\ coverEnd' \in Address /\ emitted' \subseteq FunctionBounds
        /\ IsFiniteSet(emitted') /\ todo \subseteq emitted'
    BY <1>2, <2>2, EmitTypes, TypeFacts DEF EmitAuthoritative
  <2> QED
    BY <1>2, <2>1, <2>3, TypeFacts, TypeFrame
       DEF EmitAuthoritative, IsNextCandidate, constVars, gapVars, filterVars
<1>3. ASSUME NEW c \in pending, StartExtent(c) PROVE TypeInv'
  <2> DEFINE upper == Lesser(NextStrongAfter(c), RegionEndFor(c))
  <2>1. c \in Address /\ upper \in Address
    BY TypeFacts, NextStrongFacts, RegionEndType, LesserType
  <2>2. RequestFor(c, upper) \in CfgBuildRequest
    BY <2>1, RequestType DEF TypeInv
  <2>3. Build(RequestFor(c, upper)) /\ UNCHANGED image
    BY <1>3 DEF StartExtent, Build, BeginBuild
  <2>4. IInv'
    BY <2>2, <2>3, BuildIInv, TypeFacts
  <2> QED
    BY <1>3, <2>3, <2>4, TypeFacts, TypeFrame DEF StartExtent, constVars, gapVars, filterVars
<1>4. ASSUME EmitExtent PROVE TypeInv'
  <2> DEFINE c == request.entry
             end == Lesser(CfgExtentEnd(c), RegionEndFor(c))
  <2>1. IInv'
    BY <1>4, IInvFrame, TypeFacts DEF EmitExtent
  <2>2. c \in Address /\ c \in Nat /\ RegionEndFor(c) \in Address
    BY TypeFacts, RegionEndType
  <2>3. CfgExtentEnd(c) \in Address
    BY <2>2, TypeFacts, WrappedFacts, LesserType DEF CfgExtentEnd
  <2>4. end \in Address
    BY <2>2, <2>3, LesserType
  <2>5. EmitReferenced(c, end)
    BY <1>4 DEF EmitExtent
  <2> HIDE DEF c, end
  <2>6. /\ coverEnd' \in Address /\ emitted' \subseteq FunctionBounds
        /\ IsFiniteSet(emitted') /\ todo \subseteq emitted'
    BY <2>2, <2>4, <2>5, EmitTypes
  <2> QED
    BY <1>4, <2>1, <2>6, TypeFacts, TypeFrame DEF EmitExtent, constVars, gapVars, filterVars
<1>5. ASSUME CandidatesDone PROVE TypeInv'
  <2>1. IInv'
    BY <1>5, IInvFrame, TypeFacts DEF CandidatesDone
  <2>2. referencedCount' \in Nat
    BY <1>5, TypeFacts, FS_CardinalityType DEF CandidatesDone
  <2>3. /\ ri' \in Nat /\ todo' \subseteq emitted /\ pos' \in Address
        /\ todo' # {} => ri' \in DOMAIN regions
    BY <1>5, TypeFacts, EnterTypes DEF CandidatesDone
  <2>4. pc' \in {"gaps", "filter"} /\ unfiltered' \subseteq FunctionBounds
    BY <1>5, TypeFacts DEF CandidatesDone
  <2> QED
    BY <1>5, <2>1, <2>2, <2>3, <2>4, TypeFacts, TypeFrame DEF CandidatesDone, constVars
<1> QED
  BY <1>1, <1>2, <1>3, <1>4, <1>5 DEF CandidateStep

\* The second pass: what a gap is carved from and to.
LEMMA CarveTypes ==
  ASSUME TypeInv, NEW from \in Address, NEW to \in Address, Carve(from, to)
  PROVE  cursor' \in AlignedAddress /\ cursor' \in Address /\ gapEnd' \in Address
BY WrappedFacts, TypeFacts DEF Carve, AlignedAddress

LEMMA PassFunctionTypes ==
  ASSUME TypeInv, NEW fn \in todo, PassFunction(fn)
  PROVE  TypeInv'
<1> DEFINE covStart == Greater(fn.start, regions[ri].start)
           covEnd == Lesser(fn.end, regions[ri].end)
<1>1. IInv'
  BY IInvFrame, TypeFacts DEF PassFunction
<1>2. ri \in DOMAIN regions
  BY TypeFacts
<1>3. regions[ri].start \in Address /\ regions[ri].end \in Address
  BY <1>2, TypeFacts, RegionFacts, AddressLimitAssumption DEF Address
<1>4. fn.start \in Address /\ fn.end \in Address
  BY TypeFacts DEF FunctionBounds
<1>5. covStart \in Address /\ covEnd \in Address
  BY <1>3, <1>4, LesserType
<1>6. /\ pc = "gaps" /\ todo' = todo \ {fn} /\ pos' = Greater(pos, covEnd)
      /\ \/ Carve(pos, covStart) /\ pc' = "carve"
         \/ UNCHANGED <<cursor, gapEnd, pc>>
      /\ UNCHANGED <<image, input, options, pending, coverEnd, suppressed, emitted,
                     referencedCount, ri, gapFunctions, gapCount, unfiltered, result>>
  BY DEF PassFunction, constVars, candidateVars, filterVars
<1> HIDE DEF covStart, covEnd
<1>7. pos' \in Address
  BY <1>5, <1>6, TypeFacts, LesserType
<1>8. /\ cursor' \in Address /\ gapEnd' \in Address /\ pc' \in {"gaps", "carve"}
      /\ pc' = "carve" => cursor' \in AlignedAddress
  BY <1>5, <1>6, TypeFacts, CarveTypes
<1> QED
  BY <1>1, <1>2, <1>6, <1>7, <1>8, TypeFacts, TypeFrame

LEMMA LeaveRegionTypes ==
  ASSUME TypeInv, LeaveRegion
  PROVE  TypeInv'
<1>1. IInv'
  BY IInvFrame, TypeFacts DEF LeaveRegion
<1>2. ri \in DOMAIN regions /\ ri + 1 \in Nat
  BY TypeFacts DEF LeaveRegion
<1>3. regions[ri].end \in Address
  BY <1>2, TypeFacts, RegionFacts, AddressLimitAssumption DEF Address
<1>4. /\ pc = "gaps" /\ EnterRegion(ri + 1)
      /\ \/ Carve(pos, regions[ri].end) /\ pc' = "carve"
         \/ UNCHANGED <<cursor, gapEnd, pc>>
      /\ UNCHANGED <<image, input, options, pending, coverEnd, suppressed, emitted,
                     referencedCount, gapFunctions, gapCount, unfiltered, result>>
  BY DEF LeaveRegion, constVars, candidateVars, filterVars
<1>5. /\ ri' \in Nat /\ todo' \subseteq emitted /\ pos' \in Address
      /\ todo' # {} => ri' \in DOMAIN regions
  BY <1>2, <1>4, EnterTypes
<1>6. /\ cursor' \in Address /\ gapEnd' \in Address /\ pc' \in {"gaps", "carve"}
      /\ pc' = "carve" => cursor' \in AlignedAddress
  BY <1>3, <1>4, TypeFacts, CarveTypes
<1> QED
  BY <1>1, <1>4, <1>5, <1>6, TypeFacts, TypeFrame

\* A step inside a gap moves the cursor to an aligned address, wherever it is.
LEMMA CarvingTypes ==
  ASSUME TypeInv, IInv', UNCHANGED carveFrame, Carried,
         pc' \in {"gaps", "carve", "gapCfg"}, cursor' \in AlignedAddress,
         gapFunctions' \subseteq FunctionBounds, gapCount' \in Nat
  PROVE  TypeInv'
<1>1. UNCHANGED <<image, input, options, pending, coverEnd, suppressed, emitted,
                  referencedCount, ri, todo, pos, gapEnd, unfiltered, result>>
  BY DEF carveFrame, constVars, candidateVars, filterVars
<1>2. cursor' \in Address
  BY DEF AlignedAddress
<1> QED
  BY <1>1, <1>2, TypeFacts, TypeFrame

\* Where the cursor is, and where the next word is.
LEMMA CursorTypes ==
  ASSUME TypeInv, Carried
  PROVE  cursor \in AlignedAddress /\ WordAfter(cursor) \in AlignedAddress
<1>1. cursor \in AlignedAddress /\ cursor \in Nat
  BY TypeFacts DEF TypeInv
<1> QED
  BY <1>1, WrappedFacts

LEMMA SkipTypes ==
  ASSUME TypeInv, SkipPadding \/ SkipData \/ RejectGapFunction \/ CarveDone
  PROVE  TypeInv'
<1>1. /\ Carried /\ pc' \in {"gaps", "carve"} /\ cursor' \in {cursor, WordAfter(cursor)}
      /\ UNCHANGED <<carveFrame, builderVars, gapFunctions, gapCount, image>>
  BY DEF SkipPadding, SkipData, RejectGapFunction, CarveDone, Carving, Carried, carveFrame
<1>2. cursor \in AlignedAddress /\ cursor' \in AlignedAddress
  BY <1>1, CursorTypes
<1>3. IInv'
  <2>1. CASE SkipPadding \/ RejectGapFunction \/ CarveDone
    BY <1>1, <2>1, IInvFrame, TypeFacts DEF SkipPadding, RejectGapFunction, CarveDone
  <2>2. CASE SkipData
    <3>1. CacheTypeOK' /\ CacheInv'
      BY <1>1, <1>2, <2>2, CacheStep DEF SkipData, TypeInv, IInv, TypeOK
    <3> QED
      BY <1>1, <3>1, IdleIInv, TypeFacts
  <2> QED
    BY <2>1, <2>2
<1> QED
  BY <1>1, <1>2, <1>3, CarvingTypes, TypeFacts

LEMMA StartGapCfgTypes ==
  ASSUME TypeInv, StartGapCfg
  PROVE  TypeInv'
<1> DEFINE req == RequestFor(cursor, Lesser(NextStrongAfter(cursor), gapEnd))
<1>1. /\ Carried /\ CacheAt(cursor) /\ BeginBuild(req) /\ pc' = "gapCfg"
      /\ UNCHANGED <<carveFrame, cursor, gapFunctions, gapCount, image>>
  BY DEF StartGapCfg, Carving, Carried, carveFrame
<1>2. cursor \in AlignedAddress
  BY <1>1, CursorTypes
<1>3. req \in CfgBuildRequest
  BY TypeFacts, NextStrongFacts, LesserType, RequestType DEF TypeInv
<1>4. CacheTypeOK' /\ CacheInv'
  BY <1>1, <1>2, CacheStep DEF TypeInv, IInv, TypeOK
<1>5. IInv'
  BY <1>1, <1>3, <1>4, BeginBuildIInv, TypeFacts
<1> QED
  BY <1>1, <1>2, <1>5, CarvingTypes, TypeFacts

LEMMA AcceptGapFunctionTypes ==
  ASSUME TypeInv, AcceptGapFunction
  PROVE  TypeInv'
<1>1. /\ Carried /\ pc' = "carve" /\ cursor' = AlignUp(GapFunctionEnd)
      /\ gapFunctions' = gapFunctions \cup {Bounds(cursor, GapFunctionEnd)}
      /\ gapCount' = gapCount + 1
      /\ UNCHANGED <<carveFrame, cacheVars, builderVars, image>>
  BY DEF AcceptGapFunction, Carried, carveFrame
<1>2. GapFunctionEnd \in Address
  BY TypeFacts, LesserType DEF GapFunctionEnd
<1>3. Bounds(cursor, GapFunctionEnd) \in FunctionBounds
  BY <1>2, TypeFacts DEF Bounds, FunctionBounds
<1>4. AlignUp(GapFunctionEnd) \in AlignedAddress
  BY <1>2, TypeFacts, WrappedFacts
<1>5. IInv'
  BY <1>1, IInvFrame, TypeFacts
<1>6. gapFunctions' \subseteq FunctionBounds /\ gapCount' \in Nat
  BY <1>1, <1>3, TypeFacts
<1> QED
  BY <1>1, <1>4, <1>5, <1>6, CarvingTypes

\* The last pass, and the end of the search before it.
LEMMA FilterTypes ==
  ASSUME TypeInv, GapsDone \/ FilterStep
  PROVE  TypeInv'
<1>1. IInv'
  BY IInvFrame, TypeFacts DEF GapsDone, FilterStep, Filter, FilterDone
<1>2. ASSUME GapsDone PROVE TypeInv'
  BY <1>1, <1>2, TypeFacts, TypeFrame DEF GapsDone, constVars, candidateVars, gapVars
<1>3. ASSUME NEW fn \in unfiltered, Filter(fn) PROVE TypeInv'
  <2>1. result' \in Seq(FunctionBounds) /\ unfiltered' \subseteq FunctionBounds
    BY <1>3, TypeFacts DEF Filter
  <2> QED
    BY <1>1, <1>3, <2>1, TypeFacts, TypeFrame DEF Filter, constVars, candidateVars, gapVars
<1>4. ASSUME FilterDone PROVE TypeInv'
  BY <1>1, <1>4, TypeFacts, TypeFrame
     DEF FilterDone, constVars, candidateVars, gapVars, filterVars
<1> QED
  BY <1>2, <1>3, <1>4 DEF FilterStep

\* A step that changes nothing of the analyser.
LEMMA StutterTypes ==
  ASSUME TypeInv, IInv', UNCHANGED <<image, analyzerVars>>
  PROVE  TypeInv'
<1>1. UNCHANGED <<image, pc, input, options, pending, coverEnd, suppressed, emitted,
                  referencedCount, ri, todo, pos, cursor, gapEnd, gapFunctions, gapCount,
                  unfiltered, result>>
  BY DEF analyzerVars, constVars, candidateVars, gapVars, filterVars
<1>2. EntryBoundaries' = EntryBoundaries
  BY <1>1, InputFrame
<1>3. AnalyzerTypeOK'
  BY <1>1, <1>2 DEF TypeInv, AnalyzerTypeOK, IInv, IsInput
<1> QED
  BY <1>1, <1>3 DEF TypeInv, Carried, image

\* The call.
LEMMA AnalyzeTypes ==
  ASSUME TypeInv, NEW in, NEW opts \in Options, IsInput(in), Analyze(in, opts)
  PROVE  TypeInv'
<1>1. /\ pc' = "candidates" /\ input' = in /\ options' = opts
      /\ pending' = {a \in in.strongEntries \cup in.softEntries : IsUsable(a)}
      /\ UNCHANGED <<image, cacheVars, builderVars, coverEnd, suppressed, emitted,
                     referencedCount, ri, todo, pos, cursor, gapEnd, gapFunctions, gapCount,
                     unfiltered, result>>
  BY DEF Analyze, gapVars, filterVars
<1>2. IInv'
  BY <1>1, IInvFrame, TypeFacts
<1>3. EntryBoundaries' = pending'
  BY <1>1, ImageFrame DEF EntryBoundaries, StrongSorted, SoftUsable
<1>4. IsInput(input)'
  BY <1>1 DEF IsInput
<1>5. AnalyzerTypeOK'
  BY <1>1, <1>2, <1>3, <1>4 DEF TypeInv, AnalyzerTypeOK, IInv
<1> QED
  BY <1>1, <1>2, <1>5 DEF TypeInv, Carried, image

\* A step of the analyser once it is called.
LEMMA StepTypes ==
  ASSUME TypeInv, AnalyzeStep
  PROVE  TypeInv'
<1>1. CASE GraphStep
  <2>1. BuilderStep /\ UNCHANGED analyzerVars /\ IInv
    BY <1>1, TypeFacts DEF GraphStep
  <2>2. UNCHANGED image
    BY <2>1 DEF BuilderStep, SkipHardStop, SkipUndecodable, Cover, Return, Drop
  <2>3. IInv'
    BY <2>1, SkipIInv, CoverIInv, ReturnIInv DEF BuilderStep
  <2> QED
    BY <2>1, <2>2, <2>3, StutterTypes
<1>2. CASE CandidateStep
  BY <1>2, CandidateTypes
<1>3. CASE GapStep
  BY <1>3, PassFunctionTypes, LeaveRegionTypes, SkipTypes, StartGapCfgTypes,
     AcceptGapFunctionTypes, FilterTypes DEF GapStep
<1>4. CASE FilterStep
  BY <1>4, FilterTypes
<1> QED
  BY <1>1, <1>2, <1>3, <1>4 DEF AnalyzeStep

LEMMA InitTypes == AnalyzeInit => TypeInv
<1> SUFFICES ASSUME AnalyzeInit PROVE TypeInv
  OBVIOUS
<1>1. IInv /\ AnalyzerTypeOK /\ IsFiniteSet(emitted)
  BY InitAInv DEF AInv, CountInv
<1> QED
  BY <1>1 DEF TypeInv, Carried, AnalyzeInit, AnalyzerInit

LEMMA NextTypes == TypeInv /\ [AnalyzeNext]_analyzeVars => TypeInv'
<1> SUFFICES ASSUME TypeInv, [AnalyzeNext]_analyzeVars PROVE TypeInv'
  OBVIOUS
<1>1. CASE \E in \in Inputs, opts \in OptionSets : Analyze(in, opts)
  BY <1>1, AnalyzeTypes, InputsAssumption
<1>2. CASE AnalyzeStep
  BY <1>2, StepTypes
<1>3. CASE UNCHANGED analyzeVars
  <2>1. UNCHANGED <<image, cacheVars, builderVars, analyzerVars>>
    BY <1>3 DEF analyzeVars
  <2>2. IInv'
    BY <2>1, IInvFrame, TypeFacts
  <2> QED
    BY <2>1, <2>2, StutterTypes
<1> QED
  BY <1>1, <1>2, <1>3 DEF AnalyzeNext

\* Every variable keeps its type, for every image, those with code at the top of
\* the address space, on which the analysis need not end, included.
THEOREM AnalyzerTypeCorrect == AnalyzeSpec => []AnalyzerTypeOK
<1>1. TypeInv => AnalyzerTypeOK
  BY DEF TypeInv
<1> QED
  BY <1>1, InitTypes, NextTypes, PTL DEF AnalyzeSpec
-----------------------------------------------------------------------------
(***************************************************************************)
(* The theorems.                                                           *)
(***************************************************************************)

\* No step changes the image.
LEMMA ImageStays ==
  ASSUME [AnalyzeNext]_analyzeVars
  PROVE  UNCHANGED image
<1>1. CASE \E in \in Inputs, opts \in OptionSets : Analyze(in, opts)
  BY <1>1 DEF Analyze
<1>2. CASE GraphStep
  BY <1>2 DEF GraphStep, BuilderStep, SkipHardStop, SkipUndecodable, Cover, Return, Drop
<1>3. CASE CandidateStep
  BY <1>3 DEF CandidateStep, DemoteInterior, EmitAuthoritative, StartExtent, EmitExtent,
     CandidatesDone, Build, BeginBuild
<1>4. CASE GapStep
  BY <1>4 DEF GapStep, PassFunction, LeaveRegion, GapsDone, CarveDone, SkipPadding,
     SkipData, StartGapCfg, AcceptGapFunction, RejectGapFunction, carveFrame
<1>5. CASE FilterStep
  BY <1>5 DEF FilterStep, Filter, FilterDone
<1>6. CASE UNCHANGED analyzeVars
  BY <1>6 DEF analyzeVars
<1> QED
  BY <1>1, <1>2, <1>3, <1>4, <1>5, <1>6 DEF AnalyzeNext, AnalyzeStep

\* So a region that is below the top stays there.
LEMMA StaysBelowTop == AnalyzeSpec /\ BelowTop(regions) => []BelowTop(regions)
<1>1. BelowTop(regions) /\ [AnalyzeNext]_analyzeVars => BelowTop(regions)'
  BY ImageStays DEF image
<1> QED
  BY <1>1, PTL DEF AnalyzeSpec

\* The invariant, for whatever entries, sizes and options analyze is given, and
\* for every image that has no region at the top of the address space.
THEOREM AnalyzerInvariance == AnalyzeSpec /\ BelowTop(regions) => []AInv
<1>1. AnalyzeInit => AInv
  BY InitAInv
<1>2. AInv /\ BelowTop(regions) /\ [AnalyzeNext]_analyzeVars => AInv'
  BY NextAInv
<1> QED
  BY <1>1, <1>2, StaysBelowTop, PTL DEF AnalyzeSpec

\* At the end every usable entry is in a function of the first pass, and all that
\* the passes found is in the result.
LEMMA WhenDone ==
  ASSUME AInv, Done
  PROVE  /\ Functions = emitted \cup gapFunctions
         /\ \A fn \in Functions : IsFunction(fn)
         /\ \A i, j \in DOMAIN result : i < j => result[i].end <= result[j].start
         /\ Len(result) = referencedCount + gapCount
         /\ \A a \in EntryBoundaries : \E fn \in emitted : Holds(fn, a)
         /\ StrongSorted \subseteq EntryBoundaries /\ EntryBoundaries \subseteq Nat
<1>1. pc = "done" /\ unfiltered = {} /\ pending = {} /\ Left = {}
  BY DEF Done, AInv, FilterInv, Filtering, PhaseInv, Collecting, Left, Current
<1>2. /\ Functions \cup unfiltered = emitted \cup gapFunctions
      /\ Len(result) + Cardinality(unfiltered) = referencedCount + gapCount
      /\ \A i, j \in DOMAIN result : i < j => result[i].end <= result[j].start
  BY <1>1 DEF AInv, FilterInv, Filtering
<1>3. Functions = emitted \cup gapFunctions
  BY <1>1, <1>2
<1>4. \A fn \in Functions : IsFunction(fn)
  BY <1>3, SearchTypes
<1>5. Len(result) = referencedCount + gapCount
  <2>1. Cardinality(unfiltered) = 0
    BY <1>1, FS_EmptySet
  <2>2. Len(result) \in Nat /\ referencedCount \in Nat /\ gapCount \in Nat
    BY DEF AInv, AnalyzerTypeOK
  <2> QED
    BY <1>2, <2>1, <2>2
<1>6. \A a \in EntryBoundaries : \E fn \in emitted : Holds(fn, a)
  BY <1>1 DEF AInv, CandidatesInv, CoveredInv
<1>7. StrongSorted \subseteq EntryBoundaries /\ EntryBoundaries \subseteq Nat
  BY EntryFacts, SearchTypes DEF AlignedAddress, Address
<1> QED
  BY <1>2, <1>3, <1>4, <1>5, <1>6, <1>7

\* What the filter has let through is disjoint.
LEMMA DisjointWhenDone == AInv => FunctionsAreDisjoint
<1> SUFFICES ASSUME AInv, Done PROVE FunctionsAreDisjoint
  BY DEF FunctionsAreDisjoint
<1>1. \A fn \in Functions :
        fn.start < fn.end /\ Contains(fn.start) /\ fn.end <= RegionEndFor(fn.start)
  <2> SUFFICES ASSUME NEW fn \in Functions
               PROVE  /\ fn.start < fn.end
                      /\ Contains(fn.start) /\ fn.end <= RegionEndFor(fn.start)
    OBVIOUS
  <2>1. Within(fn.start, fn.end) /\ fn.start \in Int /\ fn.end \in Int
    BY WhenDone DEF IsFunction, FunctionBounds, Address
  <2> QED
    BY <2>1, WithinIff, SearchTypes
<1> QED
  BY <1>1, WhenDone DEF FunctionsAreDisjoint

\* The functions come out in order, none empty, none overlapping the next and
\* none past the end of its region.
THEOREM FunctionsStayDisjoint == AnalyzeSpec /\ BelowTop(regions) => []FunctionsAreDisjoint
BY DisjointWhenDone, AnalyzerInvariance, PTL

\* The filter of the third pass never drops anything.
THEOREM NothingIsEverDropped == AnalyzeSpec /\ BelowTop(regions) => []NothingIsDropped
<1>1. AInv => NothingIsDropped
  BY WhenDone DEF NothingIsDropped
<1> QED
  BY <1>1, AnalyzerInvariance, PTL

\* Every usable entry is in a function, and is counted once.
THEOREM EntriesStayCovered == AnalyzeSpec /\ BelowTop(regions) => []EntriesAreCovered
<1>1. AInv => EntriesAreCovered
  <2> SUFFICES ASSUME AInv PROVE EntriesAreCovered
    OBVIOUS
  <2>1. pc \notin {"idle", "candidates", "extent"} => Searching \/ Filtering
    BY DEF AInv, AnalyzerTypeOK, Searching, Carried, Filtering
  <2>2. pc \notin {"idle", "candidates", "extent"} =>
          Cardinality(EntryBoundaries) = referencedCount + suppressed
    BY <2>1 DEF AInv, CountInv
  <2>3. Done => \A a \in EntryBoundaries : \E fn \in Functions : Holds(fn, a)
    BY WhenDone
  <2> QED
    BY <2>2, <2>3 DEF EntriesAreCovered
<1> QED
  BY <1>1, AnalyzerInvariance, PTL

\* A strong entry starts a function unless the size given to an earlier one
\* runs over it.
THEOREM StrongEntriesStay == AnalyzeSpec /\ BelowTop(regions) => []StrongEntriesAreKept
<1>1. AInv => StrongEntriesAreKept
  <2> SUFFICES ASSUME AInv, Done, NEW a \in StrongSorted
               PROVE  \/ \E fn \in Functions :
                           fn.start = a /\ (IsSized(a) => fn.end = SizedEnd(a))
                      \/ \E fn \in Functions :
                           fn.start < a /\ a < fn.end /\ IsSized(fn.start)
    BY DEF StrongEntriesAreKept
  <2>1. PICK fn \in emitted : Holds(fn, a)
    BY WhenDone
  <2>2. fn \in Functions /\ fn.start \in Nat /\ fn.end \in Nat /\ a \in Nat
    BY WhenDone, SearchTypes
  <2>3. IF IsSized(fn.start) THEN fn.end = SizedEnd(fn.start)
                             ELSE NoStrongInside(fn.start, fn.end)
    BY DEF AInv, CandidatesInv, SizesInv
  <2>4. CASE fn.start = a
    BY <2>2, <2>3, <2>4
  <2>5. CASE fn.start # a
    <3>1. fn.start < a /\ a < fn.end
      BY <2>1, <2>2, <2>5 DEF Holds
    <3> QED
      BY <2>2, <2>3, <3>1 DEF NoStrongInside
  <2> QED
    BY <2>4, <2>5
<1> QED
  BY <1>1, AnalyzerInvariance, PTL

\* A function found in a gap takes no code of another and no entry.
THEOREM GapFunctionsStayNew == AnalyzeSpec /\ BelowTop(regions) => []GapFunctionsAreNew
<1>1. AInv => GapFunctionsAreNew
  <2> SUFFICES ASSUME AInv, NEW fn \in gapFunctions
               PROVE  /\ ~IsPaddingWord(fn.start) /\ Decodes(fn.start)
                      /\ \A a \in EntryBoundaries : ~Holds(fn, a)
                      /\ \A other \in emitted : fn.end <= other.start \/ other.end <= fn.start
    BY DEF GapFunctionsAreNew
  <2>1. ~IsPaddingWord(fn.start) /\ Decodes(fn.start) /\ \A other \in emitted : Apart(fn, other)
    BY DEF AInv, SearchInv, GapFunctionsInv
  <2>2. pc # "idle" /\ ~Collecting
    BY DEF AInv, PhaseInv
  <2>3. Left = {}
    BY <2>2 DEF AInv, PhaseInv, Collecting, Left, Current
  <2>4. ASSUME NEW a \in EntryBoundaries, Holds(fn, a) PROVE FALSE
    <3>1. PICK g \in emitted : Holds(g, a)
      BY <2>2, <2>3 DEF AInv, CandidatesInv, CoveredInv
    <3>2. Apart(fn, g)
      BY <2>1
    <3>3. /\ fn.start \in Nat /\ fn.end \in Nat /\ g.start \in Nat /\ g.end \in Nat
          /\ a \in Nat
      BY EntryFacts, SearchTypes DEF AlignedAddress, Address
    <3> QED
      BY <2>4, <3>1, <3>2, <3>3 DEF Apart, Holds
  <2> QED
    BY <2>1, <2>4 DEF Apart
<1> QED
  BY <1>1, AnalyzerInvariance, PTL
-----------------------------------------------------------------------------
(***************************************************************************)
(* What the search leaves behind.  The invariant above says where the      *)
(* functions are; this one says what is not in any: every word the loops   *)
(* have gone past is in a function or was looked at and is dull, and a     *)
(* graph the search rejects is dull because the walk of CfgBuilder covers  *)
(* all that its entry leads on to.                                         *)
(***************************************************************************)

\* The search looks at every word, and takes two instructions for a function.
Thorough ==
  /\ options.discoverGapFunctions
  /\ options.minGapFunctionInstructions = 2 /\ options.maxInstructions >= 2

\* What GapsAreExhausted lets the search leave: no code to speak of.
IsDull(a) ==
  \/ IsPaddingWord(a) \/ ~Decodes(a)
  \/ /\ words[a].insn.flow # "return"
     /\ \A b \in AlignedAddress : ~LeadsOnTo(a, b)

Settled(a) == (\E fn \in emitted \cup gapFunctions : Holds(fn, a)) \/ IsDull(a)

\* The code the loops over regions and functions have gone past.
IsPassed(a) ==
  \E i \in DOMAIN regions :
    /\ regions[i].start <= a /\ a < regions[i].end
    /\ i < ri \/ (i = ri /\ a < pos)

\* A function of the first pass starts at an entry, so it is aligned.
StartsInv == \A fn \in emitted : fn.start \in EntryBoundaries

RequestInv ==
  pc = "gapCfg" =>
    /\ status # "idle"
    /\ request = RequestFor(cursor, Lesser(NextStrongAfter(cursor), gapEnd))

\* A gap ends with its region or where a function of the first pass starts.
GapInv ==
  Carried =>
    \/ \E i \in DOMAIN regions : regions[i].start <= cursor /\ gapEnd = regions[i].end
    \/ \E fn \in emitted : gapEnd = fn.start

\* All that was passed is settled, but for the rest of the gap being carved.
PassedInv ==
  Thorough =>
    /\ Searching =>
         /\ ri >= 1
         /\ \A a \in AlignedAddress :
              IsPassed(a) => Settled(a) \/ (Carried /\ cursor <= a /\ a < gapEnd)
    /\ Filtering => \A a \in AlignedAddress : Settled(a)

SettlingInv == OutcomeInv /\ StartsInv /\ RequestInv /\ GapInv /\ PassedInv

\* Where control can go is decided by the image, the entries, the options and
\* the functions of the first pass.
LEMMA DullFrame ==
  ASSUME UNCHANGED <<image, input, options, emitted>>
  PROVE  \A a : IsDull(a)' <=> IsDull(a)
<1>1. \A a : RegionEndFor(a)' = RegionEndFor(a)
  BY ImageFrame
<1>2. \A a : IsPaddingWord(a)' <=> IsPaddingWord(a)
  BY ImageFrame
<1>3. \A a : Decodes(a)' <=> Decodes(a)
  BY ImageFrame
<1>4. \A a : NextStrongAfter(a)' = NextStrongAfter(a)
  BY InputFrame
<1>5. \A a : GapEndAfter(a)' = GapEndAfter(a)
  BY <1>1 DEF GapEndAfter
<1>6. \A a : IsHardStopWord(a)' <=> IsHardStopWord(a)
  <2>1. \A a : Available(a)' = Available(a)
    BY ImageFrame DEF Available, RegionContaining, RegionsAt, image
  <2> QED
    BY <2>1 DEF IsHardStopWord, ReadsWord, image
<1>7. \A a, b : LeadsOnTo(a, b)' <=> LeadsOnTo(a, b)
  BY <1>3, <1>4, <1>5, <1>6 DEF LeadsOnTo, image
<1> QED
  BY <1>2, <1>3, <1>7 DEF IsDull, image

\* What is settled stays so.
LEMMA SettledFrame ==
  ASSUME UNCHANGED <<image, input, options, emitted>>, gapFunctions \subseteq gapFunctions'
  PROVE  \A a : Settled(a) => Settled(a)'
BY DullFrame DEF Settled, Holds

\* The gap after an address ends no later than its region, and no later than
\* any function that starts after the address.
LEMMA GapEndFacts ==
  ASSUME AInv, NEW a \in Nat, Contains(a)
  PROVE  /\ GapEndAfter(a) \in Nat
         /\ GapEndAfter(a) <= RegionEndFor(a)
         /\ \A fn \in emitted : a < fn.start => GapEndAfter(a) <= fn.start
<1> DEFINE ends == {fn.start : fn \in {f \in emitted : f.start > a}} \cup {RegionEndFor(a)}
           least == CHOOSE e \in ends : \A other \in ends : e <= other
<1>1. RegionEndFor(a) \in Nat
  BY SearchTypes, RegionOf, RegionFacts
<1>2. \A fn \in emitted : fn.start \in Nat
  BY SearchTypes
<1>3. ends \in SUBSET Nat /\ ends # {}
  BY <1>1, <1>2
<1>4. \E e \in ends : \A other \in ends : e <= other
  BY <1>3, HasLeast
<1>5. least \in ends /\ \A other \in ends : least <= other
  BY <1>4
<1>6. GapEndAfter(a) = least
  BY DEF GapEndAfter
<1> HIDE DEF least
<1>7. RegionEndFor(a) \in ends
  OBVIOUS
<1>8. \A fn \in emitted : a < fn.start => fn.start \in ends
  BY <1>2
<1> QED
  BY <1>3, <1>5, <1>6, <1>7, <1>8

\* The request of a search covers its entry, and bounds its walk by the gap
\* and the next strong entry.
LEMMA GapRequestFacts ==
  ASSUME AInv, SettlingInv, pc = "gapCfg"
  PROVE  /\ cursor \in AlignedAddress /\ cursor \in Nat
         /\ request.entry = cursor /\ request.boundaries = EntryBoundaries
         /\ request.maxInstructions = options.maxInstructions
         /\ request.linearPastIndirectBranch = options.linearPastIndirectBranch
         /\ request.upperBound = Lesser(NextStrongAfter(cursor), gapEnd)
         /\ EndAddress(cursor) <= NextStrongAfter(cursor) /\ EndAddress(cursor) <= gapEnd
         /\ NextStrongAfter(cursor) \in Nat
         /\ EntryIsSchedulable(request) /\ IsCoverable(cursor)
<1>1. /\ cursor \in AlignedAddress /\ cursor \in Nat /\ cursor \in Address
      /\ cursor % 4 = 0 /\ gapEnd \in Nat /\ EndAddress(cursor) < AddressLimit
      /\ AddressLimit \in Nat
  BY SearchTypes, CarveFacts DEF Carried, AlignedAddress, kAArch64InstructionSize
<1>2. ~IsPaddingWord(cursor) /\ Decodes(cursor) /\ EndAddress(cursor) <= gapEnd
  BY DEF AInv, SearchInv, GapCfgInv
<1>3. request = RequestFor(cursor, Lesser(NextStrongAfter(cursor), gapEnd))
  BY DEF SettlingInv, RequestInv
<1>4. /\ request.entry = cursor /\ request.boundaries = EntryBoundaries
      /\ request.maxInstructions = options.maxInstructions
      /\ request.linearPastIndirectBranch = options.linearPastIndirectBranch
      /\ request.upperBound = Lesser(NextStrongAfter(cursor), gapEnd)
  BY <1>3 DEF RequestFor
<1>5. NextStrongAfter(cursor) \in Nat /\ EndAddress(cursor) <= NextStrongAfter(cursor)
  <2>1. /\ NextStrongAfter(cursor) \in Address
        /\ NextStrongAfter(cursor) = kInvalidAddress
             \/ (NextStrongAfter(cursor) \in StrongSorted /\ cursor < NextStrongAfter(cursor))
    BY <1>1, SearchTypes, NextStrongFacts
  <2>2. CASE NextStrongAfter(cursor) = kInvalidAddress
    BY <1>1, <2>1, <2>2 DEF kInvalidAddress, EndAddress, kAArch64InstructionSize, Address
  <2>3. CASE NextStrongAfter(cursor) \in StrongSorted /\ cursor < NextStrongAfter(cursor)
    <3>1. NextStrongAfter(cursor) \in Nat /\ NextStrongAfter(cursor) % 4 = 0
      BY <2>3, SearchTypes, EntryFacts DEF AlignedAddress, Address, kAArch64InstructionSize
    <3> QED
      BY <1>1, <2>3, <3>1 DEF EndAddress, kAArch64InstructionSize
  <2> QED
    BY <2>1, <2>2, <2>3
<1>6. cursor < request.upperBound /\ ~(EndAddress(cursor) > request.upperBound)
  BY <1>1, <1>2, <1>4, <1>5 DEF Lesser, EndAddress, kAArch64InstructionSize
<1>7. Contains(cursor)
  BY <1>1, <1>2, SearchTypes, ReadableWord DEF Decodes
<1>8. EntryIsSchedulable(request)
  BY <1>1, <1>4, <1>6, <1>7 DEF EntryIsSchedulable, kAArch64InstructionSize
<1>9. IsCoverable(cursor)
  BY <1>2, <1>6 DEF IsCoverable, CrossesUpperBound, IsHardStopWord, IsPaddingWord
<1> QED
  BY <1>1, <1>2, <1>4, <1>5, <1>8, <1>9

\* A walk of the search that covered anything has an extent.
LEMMA CoveredGapEnd ==
  ASSUME AInv, SettlingInv, pc = "gapCfg", visited # {}
  PROVE  GapFunctionEnd > cursor
<1>1. PICK a \in visited : TRUE
  OBVIOUS
<1>2. a \in Nat /\ coveredEnd \in Nat /\ gapEnd \in Nat /\ cursor \in Nat
  BY SearchTypes DEF AInv, IInv, TypeOK, BuilderTypeOK, AlignedAddress, Address
<1>3. request.entry <= a /\ EndAddress(a) <= coveredEnd
  BY DEF AInv, IInv, WalkInv, VisitedInv, EnqueuedInv, EndInv, SettlingInv, RequestInv
<1>4. request.entry = cursor /\ EndAddress(cursor) <= gapEnd
  BY GapRequestFacts
<1> QED
  BY <1>2, <1>3, <1>4 DEF GapFunctionEnd, Lesser, EndAddress, kAArch64InstructionSize

\* Whatever the cursor leads on to is scheduled and covered by a walk that is not
\* cut short.
LEMMA LedOnToIsCovered ==
  ASSUME AInv, SettlingInv, pc = "gapCfg", Flow!Closed(visited), cursor \in visited,
         NEW b \in AlignedAddress, LeadsOnTo(cursor, b)
  PROVE  b \in visited
<1> DEFINE strong == NextStrongAfter(cursor)
           after == GapEndAfter(cursor)
<1>1. /\ cursor \in AlignedAddress /\ cursor \in Nat
      /\ request.entry = cursor /\ request.boundaries = EntryBoundaries
      /\ request.linearPastIndirectBranch = options.linearPastIndirectBranch
      /\ request.upperBound = Lesser(strong, gapEnd)
      /\ EndAddress(cursor) <= gapEnd /\ strong \in Nat /\ gapEnd \in Nat
      /\ IsCoverable(cursor)
  BY GapRequestFacts, SearchTypes
<1>2. b \in Nat /\ b % 4 = 0 /\ EndAddress(b) = b + 4 /\ EndAddress(cursor) = cursor + 4
  BY DEF AlignedAddress, Address, EndAddress, kAArch64InstructionSize
<1>3. /\ cursor < b /\ EndAddress(b) <= Lesser(strong, after)
      /\ ~IsHardStopWord(b) /\ Decodes(b)
  BY DEF LeadsOnTo
<1>4. LeadsTo(cursor, b)
  BY <1>1 DEF LeadsOnTo, LeadsTo, FollowsFallThrough
<1>5. Contains(cursor) /\ Contains(b)
  BY <1>1, <1>3, SearchTypes, ReadableWord DEF IsCoverable, Decodes
<1>6. after \in Nat /\ after <= gapEnd
  <2>1. /\ after \in Nat /\ after <= RegionEndFor(cursor)
        /\ \A fn \in emitted : cursor < fn.start => after <= fn.start
    BY <1>1, <1>5, GapEndFacts
  <2>2. CASE \E i \in DOMAIN regions : regions[i].start <= cursor /\ gapEnd = regions[i].end
    <3>1. RegionEndFor(cursor) = gapEnd
      BY <1>1, <1>2, <2>2, SearchTypes, RegionEndIs
    <3> QED
      BY <2>1, <3>1
  <2>3. CASE \E fn \in emitted : gapEnd = fn.start
    BY <1>1, <1>2, <2>1, <2>3
  <2> QED
    BY <2>1, <2>2, <2>3 DEF SettlingInv, GapInv, Carried
<1> HIDE DEF strong, after
<1>7. b + 4 <= strong /\ b + 4 <= after
  BY <1>1, <1>2, <1>3, <1>6 DEF Lesser
<1>8. b < request.upperBound /\ ~(EndAddress(b) > request.upperBound)
  BY <1>1, <1>2, <1>6, <1>7 DEF Lesser
<1>9. b \notin EntryBoundaries
  <2> SUFFICES ASSUME b \in EntryBoundaries PROVE FALSE
    OBVIOUS
  <2>1. Left = {}
    BY DEF AInv, PhaseInv, Collecting, Left, Current
  <2>2. PICK fn \in emitted : Holds(fn, b)
    BY <2>1 DEF AInv, CandidatesInv, CoveredInv
  <2>3. fn.end <= cursor \/ gapEnd <= fn.start
    BY CarveFacts DEF Carried
  <2>4. fn.start \in Nat /\ fn.end \in Nat
    BY SearchTypes
  <2> QED
    BY <1>1, <1>2, <1>3, <1>6, <1>7, <2>2, <2>3, <2>4 DEF Holds
<1>10. IsSchedulable(b)
  BY <1>1, <1>2, <1>3, <1>5, <1>8, <1>9 DEF IsSchedulable, kAArch64InstructionSize
<1>11. IsCoverable(b)
  BY <1>3, <1>8 DEF IsCoverable, CrossesUpperBound
<1>12. <<cursor, b>> \in FlowEdges
  BY <1>1, <1>4, <1>10, <1>11 DEF FlowEdges
<1> QED
  BY <1>12 DEF Flow!Closed

\* A set with two elements has at least two.
LEMMA TwoElements ==
  ASSUME NEW S, IsFiniteSet(S), NEW x \in S, NEW y \in S, x # y
  PROVE  Cardinality(S) >= 2
<1>1. IsFiniteSet({x}) /\ Cardinality({x}) = 1
  BY FS_Singleton
<1>2. Cardinality({x} \cup {y}) = 2
  BY <1>1, FS_AddElement
<1>3. Cardinality({x} \cup {y}) <= Cardinality(S)
  BY FS_Subset
<1> QED
  BY <1>2, <1>3, FS_CardinalityType

\* What the search rejects is no code to speak of.
LEMMA RejectedIsDull ==
  ASSUME AInv, SettlingInv, pc = "gapCfg", status = "built", Thorough, ~IsGapFunction
  PROVE  IsDull(cursor)
<1>1. /\ options.minGapFunctionInstructions = 2 /\ options.maxInstructions >= 2
      /\ options.maxInstructions \in Nat
  BY DEF Thorough, AInv, AnalyzerTypeOK, Options
<1>2. IsFiniteSet(visited) /\ Cardinality(visited) \in Nat
  BY DEF AInv, IInv, SizeInv
<1>3. visited = {} \/ (~reachesReturn /\ ~(Cardinality(visited) >= 2))
  BY <1>1, CoveredGapEnd DEF IsGapFunction, IsPlausible
<1>4. worklist = <<>>
  <2> SUFFICES ASSUME worklist # <<>> PROVE FALSE
    OBVIOUS
  <2>1. Cardinality(visited) >= 2
    BY <1>1, <1>2, GapRequestFacts DEF SettlingInv, OutcomeInv, StopInv, AtCap
  <2>2. visited # {}
    BY <2>1, FS_EmptySet
  <2> QED
    BY <1>3, <2>1, <2>2
<1>5. Flow!Closed(visited)
  BY <1>4, CoveredIsClosed DEF AInv
<1>6. cursor \in visited
  <2>1. cursor \in FlowRoots
    BY GapRequestFacts DEF FlowRoots
  <2> QED
    BY <1>5, <2>1 DEF Flow!Closed
<1>7. words[cursor].insn.flow # "return"
  BY <1>3, <1>6 DEF SettlingInv, OutcomeInv, ReturnInv
<1>8. ASSUME NEW b \in AlignedAddress, LeadsOnTo(cursor, b)
      PROVE  FALSE
  <2>1. b \in visited
    BY <1>5, <1>6, <1>8, LedOnToIsCovered
  <2>2. cursor # b
    BY <1>8 DEF LeadsOnTo, AlignedAddress, Address
  <2> QED
    BY <1>2, <1>3, <1>6, <2>1, <2>2, TwoElements
<1> QED
  BY <1>7, <1>8 DEF IsDull
-----------------------------------------------------------------------------
\* Rounding up does not pass an aligned address.
LEMMA AlignUpLeast ==
  ASSUME NEW p \in Nat, NEW a \in AlignedAddress, p <= a
  PROVE  AlignUp(p) <= a
<1>1. a \in Nat /\ a % 4 = 0 /\ a <= AddressLimit - 4
  BY AddressLimitAssumption DEF AlignedAddress, Address, kAArch64InstructionSize
<1>2. AlignUp(p) \in Nat /\ AlignUp(p) % 4 = 0 /\ AlignUp(p) <= p + 3
  BY <1>1, AlignUpFacts, AddressLimitAssumption
<1> QED
  BY <1>1, <1>2

\* Before the search there is nothing to say of the gaps.
LEMMA CollectingSettlingInv ==
  ASSUME OutcomeInv', StartsInv', pc' \in {"idle", "candidates", "extent"}
  PROVE  SettlingInv'
BY DEF SettlingInv, RequestInv, GapInv, PassedInv, Searching, Carried, Filtering

\* The invariant holds before the call.
LEMMA InitSettlingInv == AnalyzeInit => SettlingInv
<1> SUFFICES ASSUME AnalyzeInit PROVE SettlingInv
  OBVIOUS
<1> USE DEF AnalyzeInit, AnalyzerInit, BuilderInit
<1>1. OutcomeInv
  BY DEF OutcomeInv, ReturnInv, StopInv
<1>2. StartsInv
  BY DEF StartsInv
<1> QED
  BY <1>1, <1>2 DEF SettlingInv, RequestInv, GapInv, PassedInv, Searching, Carried, Filtering

\* The call of analyze.
LEMMA AnalyzeSettlingInv ==
  ASSUME AInv, SettlingInv, NEW in, NEW opts, Analyze(in, opts)
  PROVE  SettlingInv'
<1>1. /\ pc = "idle" /\ pc' = "candidates"
      /\ UNCHANGED <<image, builderVars, emitted>>
  BY DEF Analyze
<1>2. OutcomeInv'
  BY <1>1, IdleOutcome DEF SettlingInv
<1>3. StartsInv'
  BY <1>1 DEF AInv, PhaseInv, StartsInv
<1> QED
  BY <1>1, <1>2, <1>3, CollectingSettlingInv

\* A function that is emitted starts at its candidate.
LEMMA EmitStarts ==
  ASSUME AInv, SettlingInv, NEW c \in EntryBoundaries, NEW end, EmitReferenced(c, end),
         UNCHANGED <<image, input>>
  PROVE  StartsInv'
<1>1. EntryBoundaries' = EntryBoundaries
  BY InputFrame
<1>2. \A fn \in emitted' : fn \in emitted \/ fn.start = c
  BY DEF EmitReferenced, Bounds
<1> QED
  BY <1>1, <1>2 DEF SettlingInv, StartsInv

\* The steps of the first pass that look at the next candidate.
LEMMA CandidateSettlingInv ==
  ASSUME AInv, SettlingInv, NEW c \in pending,
         DemoteInterior(c) \/ EmitAuthoritative(c) \/ StartExtent(c)
  PROVE  SettlingInv'
<1>1. c \in EntryBoundaries
  BY DEF AInv, AnalyzerTypeOK
<1>2. CASE DemoteInterior(c)
  <2>1. pc' = "candidates" /\ UNCHANGED <<image, input, builderVars, emitted>>
    BY <1>2 DEF DemoteInterior, IsNextCandidate, constVars
  <2>2. OutcomeInv' /\ StartsInv'
    BY <2>1, IdleOutcome, InputFrame DEF SettlingInv, StartsInv
  <2> QED
    BY <2>1, <2>2, CollectingSettlingInv
<1>3. CASE EmitAuthoritative(c)
  <2>1. /\ pc' = "candidates" /\ UNCHANGED <<image, input, builderVars>>
        /\ EmitReferenced(c, SizedEnd(c))
    BY <1>3 DEF EmitAuthoritative, IsNextCandidate, constVars
  <2>2. OutcomeInv' /\ StartsInv'
    BY <1>1, <2>1, IdleOutcome, EmitStarts DEF SettlingInv
  <2> QED
    BY <2>1, <2>2, CollectingSettlingInv
<1>4. CASE StartExtent(c)
  <2>1. pc' = "extent" /\ UNCHANGED <<image, input, emitted>>
    BY <1>4 DEF StartExtent, Build, BeginBuild, constVars
  <2>2. OutcomeInv'
    BY <1>4, BeginBuildOutcome DEF StartExtent, Build
  <2>3. StartsInv'
    BY <2>1, InputFrame DEF SettlingInv, StartsInv
  <2> QED
    BY <2>1, <2>2, <2>3, CollectingSettlingInv
<1> QED
  BY <1>2, <1>3, <1>4

\* The step that gives the candidate the extent of its graph.
LEMMA EmitExtentSettlingInv ==
  ASSUME AInv, SettlingInv, EmitExtent
  PROVE  SettlingInv'
<1>1. /\ pc = "extent" /\ pc' = "candidates" /\ UNCHANGED <<image, input, builderVars>>
      /\ \E end : EmitReferenced(request.entry, end)
  BY DEF EmitExtent, constVars
<1>2. request.entry \in EntryBoundaries
  BY <1>1 DEF AInv, CandidatesInv, ExtentInv
<1>3. OutcomeInv' /\ StartsInv'
  BY <1>1, <1>2, IdleOutcome, EmitStarts DEF SettlingInv
<1> QED
  BY <1>1, <1>3, CollectingSettlingInv

\* The search begins with nothing passed.
LEMMA CandidatesDoneSettlingInv ==
  ASSUME AInv, SettlingInv, CandidatesDone
  PROVE  SettlingInv'
<1>1. UNCHANGED <<image, input, options, builderVars, emitted>>
  BY DEF CandidatesDone, constVars
<1>2. OutcomeInv' /\ StartsInv'
  BY <1>1, IdleOutcome, InputFrame DEF SettlingInv, StartsInv
<1>3. CASE options.discoverGapFunctions
  <2>1. pc' = "gaps" /\ EnterRegion(1)
    BY <1>3 DEF CandidatesDone
  <2>2. \A a \in AlignedAddress : ~IsPassed(a)'
    <3> SUFFICES ASSUME NEW a \in AlignedAddress, NEW i \in DOMAIN regions,
                        regions[i].start <= a, i < 1 \/ (i = 1 /\ a < regions[1].start)
                 PROVE  FALSE
      BY <1>1, <2>1 DEF IsPassed, EnterRegion, image
    <3>1. i \in Nat /\ i >= 1
      BY SearchTypes DEF IsImage
    <3>2. a \in Nat /\ regions[i].start \in Nat
      BY SearchTypes, RegionFacts DEF AlignedAddress, Address
    <3> QED
      BY <3>1, <3>2
  <2>3. ri' >= 1
    BY <2>1 DEF EnterRegion
  <2> QED
    BY <1>2, <2>1, <2>2, <2>3
       DEF SettlingInv, RequestInv, GapInv, PassedInv, Searching, Carried, Filtering
<1>4. CASE ~options.discoverGapFunctions
  <2>1. pc' = "filter" /\ ~Thorough'
    BY <1>1, <1>4 DEF CandidatesDone, Thorough
  <2> QED
    BY <1>2, <2>1 DEF SettlingInv, RequestInv, GapInv, PassedInv, Searching, Carried, Filtering
<1> QED
  BY <1>3, <1>4
-----------------------------------------------------------------------------
\* The loops over regions and functions pass code that is settled, or leave it
\* to the carving of the gap.
LEMMA PassedOn ==
  ASSUME SettlingInv, pc = "gaps", pc' \in {"gaps", "carve"}, ri' >= 1,
         UNCHANGED <<image, input, options, emitted, gapFunctions>>,
         \A a \in AlignedAddress :
           IsPassed(a)' => \/ IsPassed(a) \/ Settled(a)
                           \/ pc' = "carve" /\ cursor' <= a /\ a < gapEnd'
  PROVE  PassedInv'
<1>1. \A a : Settled(a) => Settled(a)'
  BY SettledFrame
<1>2. Thorough' => Thorough
  BY DEF Thorough
<1>3. Thorough => \A a \in AlignedAddress : IsPassed(a) => Settled(a)
  BY DEF SettlingInv, PassedInv, Searching, Carried
<1> QED
  BY <1>1, <1>2, <1>3 DEF PassedInv, Searching, Carried, Filtering

\* The gap before a function, and the function, are passed.
LEMMA PassFunctionSettlingInv ==
  ASSUME AInv, SettlingInv, BelowTop(regions), NEW fn \in todo, PassFunction(fn)
  PROVE  SettlingInv'
<1>1. /\ pc = "gaps"
      /\ UNCHANGED <<ri, gapFunctions, image, input, options, builderVars, emitted>>
  BY DEF PassFunction, constVars, candidateVars
<1>2. OutcomeInv' /\ StartsInv'
  BY <1>1, IdleOutcome, InputFrame DEF SettlingInv, StartsInv
<1>3. /\ ri \in DOMAIN regions /\ fn \in emitted
      /\ pos \in Nat /\ fn.start \in Nat /\ fn.end \in Nat
      /\ pos <= fn.start /\ fn.start < fn.end /\ pos' = fn.end
      /\ IF fn.start > pos THEN Carve(pos, fn.start) /\ pc' = "carve"
                           ELSE UNCHANGED <<cursor, gapEnd, pc>>
  BY PassFunctionFacts
<1>4. GapInv'
  BY <1>1, <1>3 DEF GapInv, Carried, Carve
<1>5. ASSUME NEW a \in AlignedAddress, IsPassed(a)'
      PROVE  \/ IsPassed(a) \/ Settled(a)
             \/ pc' = "carve" /\ cursor' <= a /\ a < gapEnd'
  <2>1. a \in Nat
    BY DEF AlignedAddress, Address
  <2>2. PICK i \in DOMAIN regions :
               /\ regions[i].start <= a /\ a < regions[i].end
               /\ i < ri \/ (i = ri /\ a < fn.end)
    BY <1>1, <1>3, <1>5 DEF IsPassed, image
  <2>3. CASE i < ri \/ a < pos
    BY <2>2, <2>3 DEF IsPassed
  <2>4. CASE i = ri /\ fn.start <= a /\ a < fn.end
    BY <1>3, <2>4 DEF Settled, Holds
  <2>5. CASE i = ri /\ pos <= a /\ a < fn.start
    <3>1. pc' = "carve" /\ cursor' = AlignUp(pos) /\ gapEnd' = fn.start
      BY <1>3, <2>1, <2>5 DEF Carve
    <3> QED
      BY <1>3, <2>5, <3>1, AlignUpLeast
  <2> QED
    BY <1>3, <2>1, <2>2, <2>3, <2>4, <2>5
<1>6. pc' \in {"gaps", "carve"}
  BY <1>1, <1>3
<1>7. RequestInv'
  BY <1>6 DEF RequestInv
<1>8. ri' >= 1
  BY <1>1, <1>3, SearchTypes DEF IsImage
<1>9. PassedInv'
  BY <1>1, <1>5, <1>6, <1>8, PassedOn
<1> QED
  BY <1>2, <1>4, <1>7, <1>9 DEF SettlingInv

\* The gap that ends a region, and the region, are passed.
LEMMA LeaveRegionSettlingInv ==
  ASSUME AInv, SettlingInv, BelowTop(regions), LeaveRegion
  PROVE  SettlingInv'
<1>1. /\ pc = "gaps" /\ ri \in DOMAIN regions /\ EnterRegion(ri + 1)
      /\ IF pos < regions[ri].end THEN Carve(pos, regions[ri].end) /\ pc' = "carve"
                                  ELSE UNCHANGED <<cursor, gapEnd, pc>>
      /\ UNCHANGED <<gapFunctions, image, input, options, builderVars, emitted>>
  BY DEF LeaveRegion, constVars, candidateVars
<1>2. OutcomeInv' /\ StartsInv'
  BY <1>1, IdleOutcome, InputFrame DEF SettlingInv, StartsInv
<1>3. /\ pos \in Nat /\ ri \in Nat /\ ri >= 1
      /\ regions[ri].start \in Nat /\ regions[ri].end \in Nat
      /\ regions[ri].start <= pos
  <2>1. ri >= 1
    BY <1>1, SearchTypes DEF IsImage
  <2>2. regions[ri].start <= pos
    BY <1>1 DEF AInv, SearchInv, RegionInv, Searching
  <2> QED
    BY <1>1, <2>1, <2>2, SearchTypes, RegionFacts
<1>4. GapInv'
  <2>1. CASE pos < regions[ri].end
    <3>1. cursor' = AlignUp(pos) /\ gapEnd' = regions[ri].end
      BY <1>1, <2>1 DEF Carve
    <3>2. regions[ri].start <= AlignUp(pos)
      <4>1. regions[ri].end <= AddressLimit - 8 /\ AddressLimit \in Nat
        BY <1>1, RoomAbove, AddressLimitAssumption
      <4>2. pos <= AddressLimit - 4
        BY <1>3, <2>1, <4>1
      <4> QED
        BY <1>3, <4>2, AlignUpFacts
    <3> QED
      BY <1>1, <3>1, <3>2 DEF GapInv, image
  <2>2. CASE ~(pos < regions[ri].end)
    BY <1>1, <2>2 DEF GapInv, Carried
  <2> QED
    BY <2>1, <2>2
<1>5. ASSUME NEW a \in AlignedAddress, IsPassed(a)'
      PROVE  \/ IsPassed(a) \/ Settled(a)
             \/ pc' = "carve" /\ cursor' <= a /\ a < gapEnd'
  <2>1. a \in Nat
    BY DEF AlignedAddress, Address
  <2>2. PICK i \in DOMAIN regions :
               /\ regions[i].start <= a /\ a < regions[i].end
               /\ i < ri + 1 \/ (i = ri + 1 /\ a < pos')
    BY <1>1, <1>5 DEF IsPassed, EnterRegion, image
  <2>3. i \in Nat /\ regions[i].start \in Nat
    BY SearchTypes, RegionFacts
  <2>4. i <= ri
    <3>1. i = ri + 1 => pos' = regions[i].start
      BY <1>1 DEF EnterRegion
    <3> QED
      BY <1>3, <2>1, <2>2, <2>3, <3>1
  <2>5. CASE i < ri \/ a < pos
    BY <1>3, <2>2, <2>3, <2>4, <2>5 DEF IsPassed
  <2>6. CASE i = ri /\ pos <= a
    <3>1. pos < regions[ri].end
      BY <1>3, <2>1, <2>2, <2>6
    <3>2. pc' = "carve" /\ cursor' = AlignUp(pos) /\ gapEnd' = regions[ri].end
      BY <1>1, <3>1 DEF Carve
    <3> QED
      BY <1>3, <2>2, <2>6, <3>2, AlignUpLeast
  <2> QED
    BY <1>3, <2>1, <2>3, <2>4, <2>5, <2>6
<1>6. pc' \in {"gaps", "carve"}
  BY <1>1
<1>7. RequestInv'
  BY <1>6 DEF RequestInv
<1>8. ri' >= 1
  BY <1>1, <1>3 DEF EnterRegion
<1>9. PassedInv'
  BY <1>1, <1>5, <1>6, <1>8, PassedOn
<1> QED
  BY <1>2, <1>4, <1>7, <1>9 DEF SettlingInv

\* When there is no region left, everything is settled: what lies in no region
\* is no code.
LEMMA GapsDoneSettlingInv ==
  ASSUME AInv, SettlingInv, GapsDone
  PROVE  SettlingInv'
<1>1. /\ pc = "gaps" /\ ri \notin DOMAIN regions /\ pc' = "filter"
      /\ UNCHANGED <<gapFunctions, image, input, options, builderVars, emitted>>
  BY DEF GapsDone, constVars, candidateVars, gapVars
<1>2. OutcomeInv' /\ StartsInv'
  BY <1>1, IdleOutcome, InputFrame DEF SettlingInv, StartsInv
<1>3. ASSUME Thorough, NEW a \in AlignedAddress
      PROVE  Settled(a)
  <2>1. a \in Nat
    BY DEF AlignedAddress, Address
  <2>2. CASE Contains(a)
    <3>1. PICK i \in DOMAIN regions : regions[i].start <= a /\ a < regions[i].end
      BY <2>1, <2>2, SearchTypes, ContainsIff
    <3>2. ri >= 1 /\ ri \in Nat
      BY <1>1, <1>3, SearchTypes DEF SettlingInv, PassedInv, Searching
    <3>3. i < ri
      <4>1. DOMAIN regions = 1 .. Len(regions) /\ Len(regions) \in Nat
        BY SearchTypes DEF IsImage
      <4> QED
        BY <1>1, <3>2, <4>1
    <3>4. IsPassed(a)
      BY <3>1, <3>3 DEF IsPassed
    <3> QED
      BY <1>1, <1>3, <3>4 DEF SettlingInv, PassedInv, Searching, Carried
  <2>3. CASE ~Contains(a)
    BY <2>3 DEF Settled, IsDull, Decodes, ReadsWord, Available, kAArch64InstructionSize
  <2> QED
    BY <2>2, <2>3
<1>4. \A a : Settled(a) => Settled(a)'
  BY <1>1, SettledFrame
<1>5. PassedInv'
  <2>1. Thorough' => Thorough
    BY <1>1 DEF Thorough
  <2> QED
    BY <1>1, <1>3, <1>4, <2>1 DEF PassedInv, Searching, Carried, Filtering
<1> QED
  BY <1>1, <1>2, <1>5 DEF SettlingInv, RequestInv, GapInv, Carried
-----------------------------------------------------------------------------
\* A step of the carving settles the words it takes the cursor past.
LEMMA CarvedOn ==
  ASSUME SettlingInv, Carried, pc' \in {"gaps", "carve", "gapCfg"},
         UNCHANGED carveFrame, gapFunctions \subseteq gapFunctions',
         \A a \in AlignedAddress :
           Thorough /\ cursor <= a /\ a < gapEnd =>
             Settled(a)' \/ (pc' # "gaps" /\ cursor' <= a)
  PROVE  PassedInv'
<1>1. UNCHANGED <<image, input, options, emitted, ri, pos, gapEnd>>
  BY DEF carveFrame, constVars, candidateVars
<1>2. \A a : Settled(a) => Settled(a)'
  BY <1>1, SettledFrame
<1>3. Thorough' <=> Thorough
  BY <1>1 DEF Thorough
<1>4. \A a : IsPassed(a)' <=> IsPassed(a)
  BY <1>1 DEF IsPassed, image
<1>5. Thorough =>
        /\ ri >= 1
        /\ \A a \in AlignedAddress :
             IsPassed(a) => Settled(a) \/ (cursor <= a /\ a < gapEnd)
  BY DEF SettlingInv, PassedInv, Searching
<1> QED
  BY <1>1, <1>2, <1>3, <1>4, <1>5 DEF PassedInv, Searching, Carried, Filtering

\* The gap stays the gap while the cursor goes up in it.
LEMMA GapStays ==
  ASSUME AInv, SettlingInv, Carried, UNCHANGED carveFrame, cursor' \in Int, cursor <= cursor'
  PROVE  GapInv' /\ StartsInv'
<1>1. UNCHANGED <<image, input, regions, emitted, gapEnd>>
  BY DEF carveFrame, constVars, candidateVars, image
<1>2. StartsInv'
  BY <1>1, InputFrame DEF SettlingInv, StartsInv
<1>3. CASE \E i \in DOMAIN regions : regions[i].start <= cursor /\ gapEnd = regions[i].end
  <2>1. PICK i \in DOMAIN regions : regions[i].start <= cursor /\ gapEnd = regions[i].end
    BY <1>3
  <2>2. regions[i].start <= cursor'
    BY <2>1, SearchTypes, RegionFacts
  <2> QED
    BY <1>1, <1>2, <2>1, <2>2 DEF GapInv
<1>4. CASE \E fn \in emitted : gapEnd = fn.start
  BY <1>1, <1>2, <1>4 DEF GapInv
<1> QED
  BY <1>3, <1>4 DEF SettlingInv, GapInv

\* A word left behind is no code to speak of.
LEMMA SkipWordSettlingInv ==
  ASSUME AInv, SettlingInv, SkipPadding \/ SkipData \/ RejectGapFunction
  PROVE  SettlingInv'
<1>1. /\ Carried /\ EndAddress(cursor) <= gapEnd
      /\ cursor' = EndAddress(cursor) /\ pc' = "carve"
      /\ UNCHANGED <<carveFrame, builderVars, gapFunctions, image>>
  BY CarveFacts DEF SkipPadding, SkipData, RejectGapFunction, Carving, Carried, carveFrame, AInv,
         SearchInv, GapCfgInv
<1>2. OutcomeInv'
  BY <1>1, IdleOutcome DEF SettlingInv
<1>3. cursor \in Nat /\ cursor % 4 = 0 /\ cursor' = cursor + 4
  BY <1>1, CarveFacts DEF AlignedAddress, Address, EndAddress, kAArch64InstructionSize
<1>4. GapInv' /\ StartsInv'
  <2>1. cursor' \in Int /\ cursor <= cursor'
    BY <1>3
  <2> QED
    BY <1>1, <2>1, GapStays
<1>5. Thorough => IsDull(cursor)
  <2>1. CASE SkipPadding
    BY <2>1 DEF SkipPadding, IsDull
  <2>2. CASE SkipData
    <3>1. ~Decodes(cursor)
      BY <2>2, LookupIsDecode DEF SkipData, AInv, IInv
    <3> QED
      BY <3>1 DEF IsDull
  <2>3. CASE RejectGapFunction
    BY <2>3, RejectedIsDull DEF RejectGapFunction
  <2> QED
    BY <2>1, <2>2, <2>3
<1>6. ASSUME NEW a \in AlignedAddress, Thorough, cursor <= a, a < gapEnd
      PROVE  Settled(a)' \/ (pc' # "gaps" /\ cursor' <= a)
  <2>1. a \in Nat /\ a % 4 = 0
    BY DEF AlignedAddress, Address, kAArch64InstructionSize
  <2>2. CASE a = cursor
    <3>1. Settled(a)
      BY <1>5, <1>6, <2>2 DEF Settled
    <3>2. UNCHANGED <<image, input, options, emitted>>
      BY <1>1 DEF carveFrame, constVars, candidateVars
    <3> QED
      BY <1>1, <3>1, <3>2, SettledFrame
  <2>3. CASE a # cursor
    BY <1>1, <1>3, <1>6, <2>1, <2>3
  <2> QED
    BY <2>2, <2>3
<1>7. PassedInv'
  BY <1>1, <1>6, CarvedOn
<1> QED
  BY <1>1, <1>2, <1>4, <1>7 DEF SettlingInv, RequestInv

\* At the end of a gap at most the piece of a word is left.
LEMMA CarveDoneSettlingInv ==
  ASSUME AInv, SettlingInv, CarveDone
  PROVE  SettlingInv'
<1>1. /\ pc = "carve" /\ EndAddress(cursor) > gapEnd /\ pc' = "gaps"
      /\ UNCHANGED <<carveFrame, builderVars, cursor, gapFunctions, image>>
  BY CarveFacts DEF CarveDone, carveFrame, Carried
<1>2. OutcomeInv'
  BY <1>1, IdleOutcome DEF SettlingInv
<1>3. cursor \in Nat /\ cursor % 4 = 0 /\ EndAddress(cursor) = cursor + 4 /\ gapEnd \in Nat
  BY <1>1, CarveFacts, SearchTypes
     DEF Carried, AlignedAddress, Address, EndAddress, kAArch64InstructionSize
<1>4. GapInv' /\ StartsInv'
  BY <1>1, <1>3, GapStays DEF Carried
<1>5. ASSUME NEW a \in AlignedAddress, cursor <= a, a < gapEnd
      PROVE  Settled(a)
  <2>1. a \in Nat /\ a % 4 = 0
    BY DEF AlignedAddress, Address, kAArch64InstructionSize
  <2>2. a + 4 > gapEnd
    BY <1>1, <1>3, <1>5, <2>1
  <2>3. CASE \E i \in DOMAIN regions : regions[i].start <= cursor /\ gapEnd = regions[i].end
    <3>1. PICK i \in DOMAIN regions : regions[i].start <= cursor /\ gapEnd = regions[i].end
      BY <2>3
    <3>2. regions[i].start <= a
      BY <1>3, <1>5, <2>1, <3>1, SearchTypes, RegionFacts
    <3>3. Contains(a) /\ RegionEndFor(a) = gapEnd
      BY <1>5, <2>1, <3>1, <3>2, SearchTypes, RegionEndIs
    <3>4. ~ReadsWord(a)
      BY <1>3, <2>1, <2>2, <3>3
         DEF ReadsWord, Available, RegionEndFor, kAArch64InstructionSize
    <3> QED
      BY <3>4 DEF Settled, IsDull, Decodes
  <2>4. CASE \E fn \in emitted : gapEnd = fn.start
    <3>1. gapEnd % 4 = 0
      BY <2>4, SearchTypes, EntryFacts
         DEF SettlingInv, StartsInv, AlignedAddress, kAArch64InstructionSize
    <3> QED
      BY <1>3, <1>5, <2>1, <2>2, <3>1
  <2> QED
    BY <1>1, <2>3, <2>4 DEF SettlingInv, GapInv, Carried
<1>6. \A a : Settled(a) => Settled(a)'
  <2>1. UNCHANGED <<image, input, options, emitted>>
    BY <1>1 DEF carveFrame, constVars, candidateVars
  <2> QED
    BY <1>1, <2>1, SettledFrame
<1>7. PassedInv'
  BY <1>1, <1>5, <1>6, CarvedOn DEF Carried
<1> QED
  BY <1>1, <1>2, <1>4, <1>7 DEF SettlingInv, RequestInv

\* A graph is asked for with the bounds of the gap.
LEMMA StartGapCfgSettlingInv ==
  ASSUME AInv, SettlingInv, StartGapCfg
  PROVE  SettlingInv'
<1>1. /\ pc = "carve" /\ pc' = "gapCfg" /\ UNCHANGED <<carveFrame, cursor, gapFunctions>>
      /\ BeginBuild(RequestFor(cursor, Lesser(NextStrongAfter(cursor), gapEnd)))
  BY DEF StartGapCfg, Carving
<1>2. UNCHANGED <<image, input, options, gapEnd>>
  BY <1>1 DEF carveFrame, constVars
<1>3. OutcomeInv'
  BY <1>1, BeginBuildOutcome
<1>4. cursor \in Nat
  BY SearchTypes
<1>5. GapInv' /\ StartsInv'
  BY <1>1, <1>4, GapStays DEF Carried
<1>6. RequestInv'
  <2>1. EntryBoundaries' = EntryBoundaries /\ NextStrongAfter(cursor)' = NextStrongAfter(cursor)
    <3>1. EntryBoundaries' = EntryBoundaries /\ StrongSorted' = StrongSorted
      BY <1>2, InputFrame
    <3> QED
      BY <1>1, <3>1 DEF NextStrongAfter, kInvalidAddress
  <2>2. status' = "building"
        /\ request' = RequestFor(cursor, Lesser(NextStrongAfter(cursor), gapEnd))
    BY <1>1 DEF BeginBuild
  <2> QED
    BY <1>1, <1>2, <2>1, <2>2 DEF RequestInv, RequestFor, Lesser
<1>7. PassedInv'
  BY <1>1, CarvedOn DEF Carried
<1> QED
  BY <1>3, <1>5, <1>6, <1>7 DEF SettlingInv

\* A function found in the gap holds the words up to its end.
LEMMA AcceptGapFunctionSettlingInv ==
  ASSUME AInv, SettlingInv, BelowTop(regions), AcceptGapFunction
  PROVE  SettlingInv'
<1> DEFINE end == GapFunctionEnd
<1>1. /\ pc = "gapCfg" /\ pc' = "carve" /\ end > cursor
      /\ gapFunctions' = gapFunctions \cup {Bounds(cursor, end)}
      /\ cursor' = AlignUp(end)
      /\ UNCHANGED <<carveFrame, builderVars, image>>
  BY DEF AcceptGapFunction, IsGapFunction, carveFrame
<1>2. OutcomeInv'
  BY <1>1, IdleOutcome DEF SettlingInv
<1>3. cursor \in Nat /\ end \in Nat
  BY SearchTypes
     DEF GapFunctionEnd, Lesser, AInv, IInv, TypeOK, BuilderTypeOK, Address
<1> HIDE DEF end
<1>4. cursor' \in Int /\ cursor <= cursor'
  <2>1. end <= gapEnd
    BY <1>3, SearchTypes DEF GapFunctionEnd, Lesser, AInv, IInv, TypeOK, BuilderTypeOK,
                             Address, end
  <2>2. end <= AddressLimit - 4
    BY <1>1, <1>3, <2>1, CarveFacts, SearchTypes DEF Carried
  <2> QED
    BY <1>1, <1>3, <2>2, AlignUpFacts
<1>5. GapInv' /\ StartsInv'
  BY <1>1, <1>4, GapStays DEF Carried
<1>6. ASSUME NEW a \in AlignedAddress, cursor <= a
      PROVE  Settled(a)' \/ cursor' <= a
  <2>1. a \in Nat
    BY DEF AlignedAddress, Address
  <2>2. CASE a < end
    <3>1. Holds(Bounds(cursor, end), a)
      BY <1>6, <2>2 DEF Holds, Bounds
    <3> QED
      BY <1>1, <3>1 DEF Settled, Holds
  <2>3. CASE end <= a
    BY <1>1, <1>3, <2>3, AlignUpLeast
  <2> QED
    BY <1>3, <2>1, <2>2, <2>3
<1>7. PassedInv'
  BY <1>1, <1>6, CarvedOn DEF Carried
<1> QED
  BY <1>1, <1>2, <1>5, <1>7 DEF SettlingInv, RequestInv
-----------------------------------------------------------------------------
\* The steps of the graph builder, and those of the filter, leave what is settled.
LEMMA QuietSettlingInv ==
  ASSUME AInv, SettlingInv, OutcomeInv',
         UNCHANGED <<image, request, input, options, emitted, gapFunctions, ri, pos, cursor,
                     gapEnd>>,
         \/ pc' = pc /\ (status # "idle" => status' # "idle")
         \/ pc = "filter" /\ pc' = "done"
  PROVE  SettlingInv'
<1>1. StartsInv'
  BY InputFrame DEF SettlingInv, StartsInv
<1>2. \A a : Settled(a) => Settled(a)'
  BY SettledFrame
<1>3. RequestInv'
  <2>1. EntryBoundaries' = EntryBoundaries /\ NextStrongAfter(cursor)' = NextStrongAfter(cursor)
    <3>1. EntryBoundaries' = EntryBoundaries /\ StrongSorted' = StrongSorted
      BY InputFrame
    <3> QED
      BY <3>1 DEF NextStrongAfter, kInvalidAddress
  <2> QED
    BY <2>1 DEF SettlingInv, RequestInv, RequestFor, Lesser
<1>4. GapInv'
  BY DEF SettlingInv, GapInv, Carried, image
<1>5. PassedInv'
  <2>1. (Thorough' <=> Thorough) /\ \A a : IsPassed(a)' <=> IsPassed(a)
    BY DEF Thorough, IsPassed, image
  <2> QED
    BY <1>2, <2>1 DEF SettlingInv, PassedInv, Searching, Carried, Filtering
<1> QED
  BY <1>1, <1>3, <1>4, <1>5 DEF SettlingInv

\* Every step preserves the invariant.
LEMMA NextSettlingInv ==
  ASSUME AInv, SettlingInv, BelowTop(regions), [AnalyzeNext]_analyzeVars
  PROVE  SettlingInv'
<1>1. CASE \E in \in Inputs, opts \in OptionSets : Analyze(in, opts)
  BY <1>1, AnalyzeSettlingInv
<1>2. CASE GraphStep
  <2>1. BuilderStep /\ UNCHANGED analyzerVars
    BY <1>2 DEF GraphStep
  <2>2. UNCHANGED <<image, request>> /\ (status # "idle" => status' # "idle")
    BY <2>1 DEF BuilderStep, SkipHardStop, SkipUndecodable, Cover, Return, Drop
  <2>3. OutcomeInv'
    BY <2>1, StepOutcome DEF AInv, SettlingInv
  <2> QED
    BY <2>1, <2>2, <2>3, QuietSettlingInv
       DEF analyzerVars, constVars, candidateVars, gapVars, filterVars
<1>3. CASE CandidateStep
  BY <1>3, CandidateSettlingInv, EmitExtentSettlingInv, CandidatesDoneSettlingInv DEF CandidateStep
<1>4. CASE GapStep
  BY <1>4, PassFunctionSettlingInv, LeaveRegionSettlingInv, GapsDoneSettlingInv,
     CarveDoneSettlingInv, SkipWordSettlingInv, StartGapCfgSettlingInv,
     AcceptGapFunctionSettlingInv DEF GapStep
<1>5. CASE FilterStep
  <2>1. /\ UNCHANGED <<image, builderVars, constVars, candidateVars, gapVars>>
        /\ pc' = pc \/ (pc = "filter" /\ pc' = "done")
    BY <1>5 DEF FilterStep, Filter, FilterDone
  <2>2. OutcomeInv'
    BY <2>1, IdleOutcome DEF SettlingInv
  <2> QED
    BY <2>1, <2>2, QuietSettlingInv DEF constVars, candidateVars, gapVars, builderVars
<1>6. CASE UNCHANGED analyzeVars
  <2>1. UNCHANGED <<image, builderVars, analyzerVars>>
    BY <1>6 DEF analyzeVars
  <2>2. OutcomeInv'
    BY <2>1, IdleOutcome DEF SettlingInv
  <2> QED
    BY <2>1, <2>2, QuietSettlingInv
       DEF analyzerVars, constVars, candidateVars, gapVars, builderVars
<1> QED
  BY <1>1, <1>2, <1>3, <1>4, <1>5, <1>6 DEF AnalyzeNext, AnalyzeStep

\* What the search has settled stays outside every function only if it is dull.
LEMMA ExhaustedWhenDone == AInv /\ SettlingInv => GapsAreExhausted
<1> SUFFICES ASSUME AInv, SettlingInv, Done, Thorough, NEW a \in AlignedAddress
             PROVE  \/ \E fn \in Functions : Holds(fn, a)
                    \/ IsDull(a)
  BY DEF GapsAreExhausted, Thorough, IsDull
<1>1. Settled(a)
  BY DEF SettlingInv, PassedInv, Filtering, Done
<1> QED
  BY <1>1, WhenDone DEF Settled

\* With the default threshold the search leaves outside every function only
\* padding, data, and single instructions that neither return nor lead to
\* another one of their gap.
THEOREM GapsStayExhausted == AnalyzeSpec /\ BelowTop(regions) => []GapsAreExhausted
<1>1. AnalyzeInit => SettlingInv
  BY InitSettlingInv
<1>2. AInv /\ SettlingInv /\ BelowTop(regions) /\ [AnalyzeNext]_analyzeVars => SettlingInv'
  BY NextSettlingInv
<1> QED
  BY <1>1, <1>2, ExhaustedWhenDone, AnalyzerInvariance, StaysBelowTop, PTL DEF AnalyzeSpec
-----------------------------------------------------------------------------
(***************************************************************************)
(* The graphs the analyser asks for.                                       *)
(***************************************************************************)

\* A step of the analyser calls build, lets it run, or leaves it alone.
LEMMA AnalyzeStepAnswers ==
  ASSUME TypeInv, AnalyzeStep
  PROVE  Flow!ReachabilityNext \/ UNCHANGED Answer
<1>1. CASE GraphStep
  BY <1>1, StepAnswers DEF GraphStep, TypeInv
<1>2. CASE ~GraphStep
  <2>1. (\E req : BeginBuild(req)) \/ UNCHANGED <<image, builderVars>>
    <3>1. CASE CandidateStep
      BY <3>1 DEF CandidateStep, DemoteInterior, EmitAuthoritative, StartExtent, EmitExtent,
         CandidatesDone, Build
    <3>2. CASE GapStep
      BY <3>2 DEF GapStep, PassFunction, LeaveRegion, GapsDone, CarveDone, SkipPadding,
         SkipData, StartGapCfg, AcceptGapFunction, RejectGapFunction, Carving, carveFrame
    <3>3. CASE FilterStep
      BY <3>3 DEF FilterStep, Filter, FilterDone
    <3> QED
      BY <1>2, <3>1, <3>2, <3>3 DEF AnalyzeStep
  <2> QED
    BY <2>1, StepAnswers DEF TypeInv
<1> QED
  BY <1>1, <1>2

\* Every graph of the analysis, those of the extents and those of the gaps, all
\* built on one cache, has exactly the code that its request reaches, or as
\* much of it as the cap allows.
THEOREM GraphsOfTheAnalysisAnswer == AnalyzeSpec => CoversReachableCode
<1>1. AnalyzeInit => Flow!ReachabilityInit
  BY DEF AnalyzeInit, BuilderInit, Flow!ReachabilityInit, Reached, Complete
<1>2. TypeInv /\ [AnalyzeNext]_analyzeVars => [Flow!ReachabilityNext]_Answer
  <2> SUFFICES ASSUME TypeInv, [AnalyzeNext]_analyzeVars
               PROVE  Flow!ReachabilityNext \/ UNCHANGED Answer
    OBVIOUS
  <2>1. CASE AnalyzeStep
    BY <2>1, AnalyzeStepAnswers
  <2>2. CASE ~AnalyzeStep
    <3>1. UNCHANGED <<image, builderVars>>
      BY <2>2 DEF AnalyzeNext, Analyze, analyzeVars
    <3> QED
      BY <3>1, StepAnswers DEF TypeInv
  <2> QED
    BY <2>1, <2>2
<1> QED
  BY <1>1, <1>2, InitTypes, NextTypes, PTL
     DEF AnalyzeSpec, CoversReachableCode, Flow!ReachabilitySpec, Flow!question, Answer
==============================================================================
