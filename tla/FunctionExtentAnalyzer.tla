------------------------ MODULE FunctionExtentAnalyzer ------------------------
(***************************************************************************)
(* FunctionExtentAnalyzer::analyze: from the entries the other analyses    *)
(* found, the bounds of every function.  Three passes over one cache and   *)
(* one graph builder, whose steps are those of CfgBuilder:                 *)
(*                                                                         *)
(*   candidates  in address order, an entry gets the size that symbols or  *)
(*               unwind tables give it, or the extent of its graph; an     *)
(*               entry inside an earlier function is demoted;              *)
(*   gaps        the code between those functions is searched for more,    *)
(*               which are kept when their graph looks plausible;          *)
(*   filter      all of them in order, dropping what still overlaps.       *)
(*                                                                         *)
(* The vectors the code sorts before it reads them are sets here, taken in *)
(* order: what std::sort leaves open (the order of equal keys) is left     *)
(* open too.                                                               *)
(***************************************************************************)
EXTENDS CfgBuilder

CONSTANTS
  Inputs,       \* the Inputs analyze may be given
  OptionSets    \* and the Options

VARIABLES
  pc,              \* "idle", then "candidates", "extent", "gaps", "carve",
                   \* "gapCfg", "filter" and at last "done"
  input, options,
  pending,         \* the candidates not yet looked at
  coverEnd, suppressed,
  emitted,         \* the bounds found in the first pass
  referencedCount,
  ri,              \* the index of the region whose gaps are searched
  todo,            \* the emitted bounds in that region not yet passed
  pos,             \* the end of what is passed
  cursor, gapEnd,  \* the gap being carved
  gapFunctions, gapCount,
  unfiltered, result

constVars == <<input, options>>
candidateVars == <<pending, coverEnd, suppressed, emitted, referencedCount>>
gapVars == <<ri, todo, pos, cursor, gapEnd, gapFunctions, gapCount>>
filterVars == <<unfiltered, result>>
analyzerVars == <<pc, constVars, candidateVars, gapVars, filterVars>>

Options ==
  [maxInstructions : Nat, discoverGapFunctions : BOOLEAN,
   linearPastIndirectBranch : BOOLEAN, minGapFunctionInstructions : Nat]

IsInput(in) ==
  /\ in.strongEntries \subseteq Address
  /\ in.softEntries \subseteq Address
  /\ DOMAIN in.authoritativeSizes \subseteq Address
  /\ \A a \in DOMAIN in.authoritativeSizes : in.authoritativeSizes[a] \in Nat

ASSUME InputsAssumption ==
  /\ \A in \in Inputs : IsInput(in)
  /\ OptionSets \subseteq Options

\* What input and options hold before the call; the default cap of 8'000'000
\* instructions plays no part until then.
EmptyInput ==
  [strongEntries |-> {}, softEntries |-> {}, authoritativeSizes |-> [a \in {} |-> 0]]

DefaultOptions ==
  [maxInstructions |-> 0, discoverGapFunctions |-> TRUE,
   linearPastIndirectBranch |-> TRUE, minGapFunctionInstructions |-> 2]

Lesser(a, b) == IF a <= b THEN a ELSE b
Greater(a, b) == IF a >= b THEN a ELSE b

Bounds(s, e) == [start |-> s, end |-> e]
FunctionBounds == [start : Address, end : Address]

\* The word after addr, which need not lie in any region: an Address of 64 bits
\* comes round to 0.
WordAfter(addr) == (addr + kAArch64InstructionSize) % AddressLimit

\* Mutant of AlignUp: the mask is not added first.
AlignDown(addr) == (addr \div kAArch64InstructionSize) * kAArch64InstructionSize

\* alignUp, whose sum may come round as well.
AlignUp(addr) == AlignDown((addr + kAArch64InstructionSize - 1) % AddressLimit)
-----------------------------------------------------------------------------
StrongSorted == {a \in input.strongEntries : IsUsable(a)}
SoftUsable == {a \in input.softEntries : IsUsable(a)}
EntryBoundaries == StrongSorted \cup SoftUsable

\* Mutant of NextStrongAfter: nothing bounds an extent but its region.
NoStrongAfter(addr) == kInvalidAddress

NextStrongAfter(addr) ==
  LET later == {a \in StrongSorted : a > addr}
  IN IF later = {} THEN kInvalidAddress
     ELSE CHOOSE a \in later : \A b \in later : a <= b

RequestFor(entry, upper) ==
  [entry |-> entry, upperBound |-> upper, boundaries |-> EntryBoundaries,
   maxInstructions |-> options.maxInstructions,
   linearPastIndirectBranch |-> options.linearPastIndirectBranch,
   wantsCallTargets |-> FALSE, buildBasicBlocks |-> FALSE]

AnalyzerInit ==
  /\ pc = "idle"
  /\ input = EmptyInput /\ options = DefaultOptions
  /\ pending = {}
  /\ coverEnd = 0 /\ suppressed = 0
  /\ emitted = {} /\ referencedCount = 0
  /\ ri = 0 /\ todo = {} /\ pos = 0 /\ cursor = 0 /\ gapEnd = 0
  /\ gapFunctions = {} /\ gapCount = 0
  /\ unfiltered = {} /\ result = <<>>

\* Mutant of Analyze: every entry is a candidate.
AnalyzeEvery(in, opts) ==
  /\ pc = "idle"
  /\ pc' = "candidates"
  /\ input' = in /\ options' = opts
  /\ pending' = in.strongEntries \cup in.softEntries
  /\ UNCHANGED <<image, cacheVars, builderVars, coverEnd, suppressed, emitted,
                 referencedCount, gapVars, filterVars>>

\* The call of analyze: a candidate is a usable entry.  An address that is both
\* strong and soft is one candidate, the strong one.
Analyze(in, opts) ==
  /\ pc = "idle"
  /\ pc' = "candidates"
  /\ input' = in /\ options' = opts
  /\ pending' = {a \in in.strongEntries \cup in.softEntries : IsUsable(a)}
  /\ UNCHANGED <<image, cacheVars, builderVars, coverEnd, suppressed, emitted,
                 referencedCount, gapVars, filterVars>>
-----------------------------------------------------------------------------
\* The next candidate in address order.
IsNextCandidate(c) ==
  /\ pc = "candidates"
  /\ c \in pending
  /\ \A d \in pending : c <= d

IsSized(c) ==
  /\ c \in StrongSorted
  /\ c \in DOMAIN input.authoritativeSizes
  /\ input.authoritativeSizes[c] > 0

\* Mutant of SizedEnd: the size is taken at its word.
UncutEnd(c) == c + input.authoritativeSizes[c]

\* The end of a size that does not leave the region of c.
SizedEnd(c) ==
  LET room == RegionEndFor(c) - c
      size == input.authoritativeSizes[c]
  IN IF size >= room THEN RegionEndFor(c) ELSE c + size

\* Mutant of CfgExtentEnd: an empty graph gives an empty function.
GraphEnd(c) == coveredEnd

\* cfgExtentEnd, once the graph is built: a graph without extent still gives
\* its entry one instruction.
CfgExtentEnd(c) ==
  IF coveredEnd <= c THEN Lesser(RegionEndFor(c), WordAfter(c)) ELSE coveredEnd

\* Mutant of EmitReferenced: what is emitted covers nothing.
EmitUncovered(c, end) ==
  /\ emitted' = IF end <= c THEN emitted ELSE emitted \cup {Bounds(c, end)}
  /\ UNCHANGED coverEnd

EmitReferenced(c, end) ==
  /\ emitted' = IF end <= c THEN emitted ELSE emitted \cup {Bounds(c, end)}
  /\ coverEnd' = IF end <= c THEN coverEnd ELSE Greater(coverEnd, end)

\* Mutant of DemoteInterior: an entry where a function ends counts as inside it.
DemoteTouching(c) ==
  /\ IsNextCandidate(c)
  /\ c <= coverEnd /\ emitted # {}
  /\ pending' = pending \ {c}
  /\ suppressed' = suppressed + 1
  /\ UNCHANGED <<image, cacheVars, builderVars, pc, constVars, coverEnd, emitted,
                 referencedCount, gapVars, filterVars>>

DemoteInterior(c) ==
  /\ IsNextCandidate(c)
  /\ c < coverEnd
  /\ pending' = pending \ {c}
  /\ suppressed' = suppressed + 1
  /\ UNCHANGED <<image, cacheVars, builderVars, pc, constVars, coverEnd, emitted,
                 referencedCount, gapVars, filterVars>>

EmitAuthoritative(c) ==
  /\ IsNextCandidate(c)
  /\ c >= coverEnd
  /\ IsSized(c)
  /\ pending' = pending \ {c}
  /\ EmitReferenced(c, SizedEnd(c))
  /\ UNCHANGED <<image, cacheVars, builderVars, pc, constVars, suppressed,
                 referencedCount, gapVars, filterVars>>

StartExtent(c) ==
  /\ IsNextCandidate(c)
  /\ c >= coverEnd
  /\ ~IsSized(c)
  /\ pending' = pending \ {c}
  /\ Build(RequestFor(c, Lesser(NextStrongAfter(c), RegionEndFor(c))))
  /\ pc' = "extent"
  /\ UNCHANGED <<constVars, coverEnd, suppressed, emitted, referencedCount, gapVars,
                 filterVars>>

EmitExtent ==
  /\ pc = "extent" /\ status = "built"
  /\ LET c == request.entry
     IN EmitReferenced(c, Lesser(CfgExtentEnd(c), RegionEndFor(c)))
  /\ pc' = "candidates"
  /\ UNCHANGED <<image, cacheVars, builderVars, constVars, pending, suppressed,
                 referencedCount, gapVars, filterVars>>
-----------------------------------------------------------------------------
\* The emitted functions with code in region i: the others are passed over.
InRegion(i) ==
  {fn \in emitted : fn.end > regions[i].start /\ fn.start < regions[i].end}

\* The gap loop enters region i, or there is none left.
EnterRegion(i) ==
  /\ ri' = i
  /\ todo' = IF i \in DOMAIN regions THEN InRegion(i) ELSE {}
  /\ pos' = IF i \in DOMAIN regions THEN regions[i].start ELSE 0

CandidatesDone ==
  /\ pc = "candidates" /\ pending = {}
  /\ referencedCount' = Cardinality(emitted)
  /\ IF options.discoverGapFunctions
     THEN pc' = "gaps" /\ EnterRegion(1) /\ UNCHANGED unfiltered
     ELSE pc' = "filter" /\ unfiltered' = emitted /\ UNCHANGED <<ri, todo, pos>>
  /\ UNCHANGED <<image, cacheVars, builderVars, constVars, pending, coverEnd,
                 suppressed, emitted, cursor, gapEnd, gapFunctions, gapCount, result>>

\* carveGap(from, to), up to its loop.
Carve(from, to) == cursor' = AlignUp(from) /\ gapEnd' = to

\* The gap before the next function of the region, if there is one.
PassFunction(fn) ==
  /\ pc = "gaps"
  /\ fn \in todo /\ \A other \in todo : fn.start <= other.start
  /\ todo' = todo \ {fn}
  /\ LET covStart == Greater(fn.start, regions[ri].start)
         covEnd == Lesser(fn.end, regions[ri].end)
     IN /\ IF covStart > pos THEN Carve(pos, covStart) /\ pc' = "carve"
                             ELSE UNCHANGED <<cursor, gapEnd, pc>>
        /\ pos' = Greater(pos, covEnd)
  /\ UNCHANGED <<image, cacheVars, builderVars, constVars, candidateVars, ri,
                 gapFunctions, gapCount, filterVars>>

\* The gap that ends the region, if there is one.
LeaveRegion ==
  /\ pc = "gaps"
  /\ ri \in DOMAIN regions /\ todo = {}
  /\ IF pos < regions[ri].end THEN Carve(pos, regions[ri].end) /\ pc' = "carve"
                              ELSE UNCHANGED <<cursor, gapEnd, pc>>
  /\ EnterRegion(ri + 1)
  /\ UNCHANGED <<image, cacheVars, builderVars, constVars, candidateVars, gapFunctions,
                 gapCount, filterVars>>

GapsDone ==
  /\ pc = "gaps"
  /\ ri \notin DOMAIN regions
  /\ pc' = "filter"
  /\ unfiltered' = emitted \cup gapFunctions
  /\ UNCHANGED <<image, cacheVars, builderVars, constVars, candidateVars, gapVars,
                 result>>
-----------------------------------------------------------------------------
carveFrame == <<image, constVars, candidateVars, ri, todo, pos, gapEnd, filterVars>>

Carving == pc = "carve" /\ WordAfter(cursor) <= gapEnd

CarveDone ==
  /\ pc = "carve" /\ WordAfter(cursor) > gapEnd
  /\ pc' = "gaps"
  /\ UNCHANGED <<carveFrame, cacheVars, builderVars, cursor, gapFunctions, gapCount>>

SkipPadding ==
  /\ Carving
  /\ IsPaddingWord(cursor)
  /\ cursor' = WordAfter(cursor)
  /\ UNCHANGED <<carveFrame, cacheVars, builderVars, pc, gapFunctions, gapCount>>

SkipData ==
  /\ Carving
  /\ ~IsPaddingWord(cursor)
  /\ ~Hit(cursor)
  /\ CacheAt(cursor)
  /\ cursor' = WordAfter(cursor)
  /\ UNCHANGED <<carveFrame, builderVars, pc, gapFunctions, gapCount>>

StartGapCfg ==
  /\ Carving
  /\ ~IsPaddingWord(cursor)
  /\ Hit(cursor)
  /\ CacheAt(cursor)
  /\ BeginBuild(RequestFor(cursor, Lesser(NextStrongAfter(cursor), gapEnd)))
  /\ pc' = "gapCfg"
  /\ UNCHANGED <<carveFrame, cursor, gapFunctions, gapCount>>

GapFunctionEnd == Lesser(coveredEnd, gapEnd)

\* Mutant of IsPlausible: as many instructions as the threshold are too few.
IsAboveThreshold ==
  reachesReturn \/ Cardinality(visited) > options.minGapFunctionInstructions

IsPlausible ==
  reachesReturn \/ Cardinality(visited) >= options.minGapFunctionInstructions

IsGapFunction == GapFunctionEnd > cursor /\ visited # {} /\ IsPlausible

AcceptGapFunction ==
  /\ pc = "gapCfg" /\ status = "built"
  /\ IsGapFunction
  /\ gapFunctions' = gapFunctions \cup {Bounds(cursor, GapFunctionEnd)}
  /\ gapCount' = gapCount + 1
  /\ cursor' = AlignUp(GapFunctionEnd)
  /\ pc' = "carve"
  /\ UNCHANGED <<carveFrame, cacheVars, builderVars>>

\* Mutant of RejectGapFunction: the cursor stays.
RejectAndRetry ==
  /\ pc = "gapCfg" /\ status = "built"
  /\ ~IsGapFunction
  /\ pc' = "carve"
  /\ UNCHANGED <<carveFrame, cacheVars, builderVars, cursor, gapFunctions, gapCount>>

RejectGapFunction ==
  /\ pc = "gapCfg" /\ status = "built"
  /\ ~IsGapFunction
  /\ cursor' = WordAfter(cursor)
  /\ pc' = "carve"
  /\ UNCHANGED <<carveFrame, cacheVars, builderVars, gapFunctions, gapCount>>
-----------------------------------------------------------------------------
SortsBefore(f, g) == f.start < g.start \/ (f.start = g.start /\ f.end <= g.end)

Fits(fn) ==
  /\ fn.end > fn.start
  /\ result # <<>> => fn.start >= result[Len(result)].end

Filter(fn) ==
  /\ pc = "filter"
  /\ fn \in unfiltered /\ \A other \in unfiltered : SortsBefore(fn, other)
  /\ unfiltered' = unfiltered \ {fn}
  /\ result' = IF Fits(fn) THEN Append(result, fn) ELSE result
  /\ UNCHANGED <<image, cacheVars, builderVars, pc, constVars, candidateVars, gapVars>>

FilterDone ==
  /\ pc = "filter" /\ unfiltered = {}
  /\ pc' = "done"
  /\ UNCHANGED <<image, cacheVars, builderVars, constVars, candidateVars, gapVars,
                 filterVars>>
-----------------------------------------------------------------------------
GraphStep == BuilderStep /\ UNCHANGED analyzerVars

CandidateStep ==
  \/ \E c \in pending : DemoteInterior(c) \/ EmitAuthoritative(c) \/ StartExtent(c)
  \/ EmitExtent
  \/ CandidatesDone

GapStep ==
  \/ \E fn \in todo : PassFunction(fn)
  \/ LeaveRegion \/ GapsDone
  \/ CarveDone \/ SkipPadding \/ SkipData
  \/ StartGapCfg \/ AcceptGapFunction \/ RejectGapFunction

FilterStep == (\E fn \in unfiltered : Filter(fn)) \/ FilterDone

AnalyzeInit == ImageInit /\ CacheInit /\ BuilderInit /\ AnalyzerInit

AnalyzeStep == GraphStep \/ CandidateStep \/ GapStep \/ FilterStep

AnalyzeNext ==
  (\E in \in Inputs, opts \in OptionSets : Analyze(in, opts)) \/ AnalyzeStep

analyzeVars == <<image, cacheVars, builderVars, analyzerVars>>

AnalyzeSpec == AnalyzeInit /\ [][AnalyzeNext]_analyzeVars

\* analyze is one sequential call: once it is made, it runs.
FairAnalyzeSpec == AnalyzeSpec /\ WF_analyzeVars(AnalyzeStep)
-----------------------------------------------------------------------------
\* Every variable of the analyser, of the builder and of the cache has its type.
AnalyzerTypeOK ==
  /\ TypeOK
  /\ pc \in {"idle", "candidates", "extent", "gaps", "carve", "gapCfg", "filter", "done"}
  /\ IsInput(input) /\ options \in Options
  /\ pending \subseteq EntryBoundaries
  /\ coverEnd \in Address /\ suppressed \in Nat /\ referencedCount \in Nat
  /\ emitted \subseteq FunctionBounds /\ gapFunctions \subseteq FunctionBounds
  /\ ri \in Nat /\ todo \subseteq emitted
  /\ pos \in Address /\ cursor \in Address /\ gapEnd \in Address
  /\ gapCount \in Nat
  /\ unfiltered \subseteq FunctionBounds /\ result \in Seq(FunctionBounds)

Done == pc = "done"
Functions == {result[i] : i \in DOMAIN result}
Holds(fn, a) == fn.start <= a /\ a < fn.end

\* The functions come out in address order, none empty, none overlapping the
\* next, none reaching past the region it starts in.
FunctionsAreDisjoint ==
  Done =>
    /\ \A i, j \in DOMAIN result : i < j => result[i].end <= result[j].start
    /\ \A fn \in Functions :
         /\ fn.start < fn.end
         /\ Contains(fn.start) /\ fn.end <= RegionEndFor(fn.start)

\* The filter at the end has nothing to drop: what the first two passes found
\* never overlaps, so the counts they log add up to the length of the result.
NothingIsDropped ==
  Done => Len(result) = referencedCount + gapCount

\* Every usable entry was emitted or demoted, and none is lost: even an entry
\* whose graph is empty ends up inside some function.
EntriesAreCovered ==
  /\ pc \notin {"idle", "candidates", "extent"} =>
       Cardinality(EntryBoundaries) = referencedCount + suppressed
  /\ Done => \A a \in EntryBoundaries : \E fn \in Functions : Holds(fn, a)

\* A strong entry starts a function, with the size it was given if it was given
\* one.  It is demoted only inside a function whose own given size overruns
\* it: an extent that comes from a graph never runs into a strong entry, even
\* when the graph jumps over it.
StrongEntriesAreKept ==
  Done =>
    \A a \in StrongSorted :
      \/ \E fn \in Functions : fn.start = a /\ (IsSized(a) => fn.end = SizedEnd(a))
      \/ \E fn \in Functions : fn.start < a /\ a < fn.end /\ IsSized(fn.start)

\* A function found in a gap takes no code of another: it starts at an
\* instruction that is not padding and holds no entry anyone reported.
GapFunctionsAreNew ==
  \A fn \in gapFunctions :
    /\ ~IsPaddingWord(fn.start) /\ Decodes(fn.start)
    /\ \A a \in EntryBoundaries : ~Holds(fn, a)
    /\ \A other \in emitted : fn.end <= other.start \/ other.end <= fn.start

\* Where control can go from a without leaving its gap.
GapEndAfter(a) ==
  LET ends == {fn.start : fn \in {f \in emitted : f.start > a}} \cup {RegionEndFor(a)}
  IN CHOOSE e \in ends : \A other \in ends : e <= other

LeadsOnTo(a, b) ==
  LET insn == words[a].insn
      upper == Lesser(NextStrongAfter(a), GapEndAfter(a))
  IN /\ \/ FollowsTarget(insn) /\ b = insn.target
        \/ HasFallThrough(insn) /\ b = EndAddress(a)
        \/ insn.flow = "indirectBranch" /\ options.linearPastIndirectBranch
             /\ b = EndAddress(a)
     /\ a < b /\ EndAddress(b) <= upper
     /\ ~IsHardStopWord(b) /\ Decodes(b)

\* With the default threshold, code that stays outside every function is not
\* code to speak of: padding, data, or one instruction that does not return
\* and leads to no other.
GapsAreExhausted ==
  Done /\ options.discoverGapFunctions /\ options.minGapFunctionInstructions = 2
       /\ options.maxInstructions >= 2 =>
    \A a \in AlignedAddress :
      \/ \E fn \in Functions : Holds(fn, a)
      \/ IsPaddingWord(a) \/ ~Decodes(a)
      \/ /\ words[a].insn.flow # "return"
         /\ \A b \in AlignedAddress : ~LeadsOnTo(a, b)

\* The analysis returns: every turn of the nested loops uses something up.
AnalyzeReturns == pc = "candidates" ~> Done
==============================================================================
