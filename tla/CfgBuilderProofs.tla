--------------------------- MODULE CfgBuilderProofs ---------------------------
(***************************************************************************)
(* What CfgBuilder guarantees for every image, every request and every     *)
(* number of calls, proved with TLAPS: the walk, then the blocks that      *)
(* buildBlocks makes of the covered set, then the instructions of that set *)
(* as the processor runs them.                                             *)
(***************************************************************************)
EXTENDS AArch64Code, FiniteSetTheorems, NaturalsInduction, WellFoundedInduction, TLAPS

-----------------------------------------------------------------------------
(***************************************************************************)
(* Numbers.                                                                *)
(***************************************************************************)

\* A set of naturals has a least element: the searches that look for the next
\* address of some kind find it.
LEMMA HasLeast ==
  ASSUME NEW S \in SUBSET Nat, S # {}
  PROVE  \E m \in S : \A x \in S : m <= x
<1> DEFINE R == OpToRel(<, Nat)
<1>1. IsWellFoundedOn(R, Nat)
  BY NatLessThanWellFounded
<1>2. \A x, y \in Nat : x < y => <<x, y>> \in R
  <2> SUFFICES ASSUME NEW x \in Nat, NEW y \in Nat, x < y
               PROVE  <<x, y>> \in R
    OBVIOUS
  <2>1. <<x, y>>[1] = x /\ <<x, y>>[2] = y /\ <<x, y>> \in Nat \X Nat
    OBVIOUS
  <2> QED
    BY <2>1, Zenon DEF OpToRel
<1> HIDE DEF R
<1>3. PICK m \in S : \A x \in S : <<x, m>> \notin R
  BY <1>1, WFMin, Zenon
<1>4. \A x \in S : ~(x < m)
  BY <1>2, <1>3
<1>5. \A x \in S : m <= x
  BY <1>4
<1> QED
  BY <1>5

-----------------------------------------------------------------------------
(***************************************************************************)
(* Facts about an image.                                                   *)
(***************************************************************************)

\* An address some region holds lies in one the lookup finds.
LEMMA ContainsIff ==
  ASSUME IsImage(regions, words), NEW a \in Int
  PROVE  Contains(a) <=>
           \E i \in DOMAIN regions : regions[i].start <= a /\ a < regions[i].end
<1> USE DEF IsImage, DisjointRegions, Region, Address, RegionsAt, Contains
<1>1. ASSUME NEW i \in DOMAIN regions, regions[i].start <= a, a < regions[i].end
      PROVE  i \in RegionsAt(a)
  <2>1. ASSUME NEW j \in DOMAIN regions, regions[j].start <= a
        PROVE  j <= i
    <3>1. ~(i < j)
      BY <1>1, <2>1
    <3> QED
      BY <3>1
  <2> QED
    BY <1>1, <2>1
<1> QED
  BY <1>1

\* A word that can be read is in one region to its last byte, and the address
\* after it is still an address.
LEMMA ReadableWord ==
  ASSUME IsImage(regions, words), NEW a \in AlignedAddress, ReadsWord(a)
  PROVE  /\ Contains(a)
         /\ Contains(EndAddress(a) - 1)
         /\ EndAddress(a) \in AlignedAddress
<1> USE DEF AlignedAddress, Address, kAArch64InstructionSize
<1>1. Contains(a) /\ RegionContaining(a).end - a >= 4
  BY DEF ReadsWord, Available
<1> DEFINE i == CHOOSE k \in RegionsAt(a) : TRUE
<1>2. i \in RegionsAt(a) /\ regions[i].end - a >= 4
  BY <1>1 DEF Contains, RegionContaining
<1>3. i \in DOMAIN regions /\ regions[i].start <= a
  BY <1>2 DEF RegionsAt
<1> HIDE DEF i
<1>4. regions[i] \in Region
  BY <1>3 DEF IsImage
<1>5. a + 3 < regions[i].end /\ regions[i].start <= a + 3
  BY <1>2, <1>3, <1>4 DEF Region
<1>6. Contains(EndAddress(a) - 1)
  BY <1>3, <1>5, ContainsIff DEF EndAddress
<1>7. EndAddress(a) \in AlignedAddress
  <2>1. a \in Nat /\ a % 4 = 0 /\ regions[i].end \in 0 .. AddressLimit - 1
    BY <1>4, AddressLimitAssumption DEF Region
  <2>2. a + 4 \in 0 .. AddressLimit - 1
    BY <1>2, <2>1, AddressLimitAssumption
  <2>3. (a + 4) % 4 = 0
    BY <2>1
  <2> QED
    BY <2>2, <2>3 DEF EndAddress
<1> QED
  BY <1>1, <1>6, <1>7

\* A word of the image decodes to an Instruction.
LEMMA InsnType ==
  ASSUME IsImage(regions, words), NEW a \in AlignedAddress
  PROVE  words[a].insn \in Instruction
BY DEF IsImage, Word

\* The initial image is well formed.
LEMMA ImageInitOK == ImageInit => IsImage(regions, words)
BY ImagesAssumption DEF ImageInit
-----------------------------------------------------------------------------
(***************************************************************************)
(* A worklist, as the addresses on it.                                     *)
(***************************************************************************)
Items(ws) == {ws[i] : i \in DOMAIN ws}
Distinct(ws) == \A i, j \in DOMAIN ws : ws[i] = ws[j] => i = j

\* Popping takes the top, and only the top, off the stack.
LEMMA PoppedEffect ==
  ASSUME NEW ws \in Seq(AlignedAddress), ws # <<>>, Distinct(ws)
  PROVE  LET top == ws[Len(ws)]
             rest == SubSeq(ws, 1, Len(ws) - 1)
         IN /\ top \in AlignedAddress /\ top \in Items(ws)
            /\ rest \in Seq(AlignedAddress)
            /\ Distinct(rest)
            /\ Items(rest) = Items(ws) \ {top}
<1> DEFINE rest == SubSeq(ws, 1, Len(ws) - 1)
<1>1. Len(ws) \in Nat /\ Len(ws) > 0 /\ DOMAIN ws = 1 .. Len(ws)
  OBVIOUS
<1>2. /\ rest \in Seq(AlignedAddress)
      /\ DOMAIN rest = 1 .. Len(ws) - 1
      /\ \A k \in 1 .. Len(ws) - 1 : rest[k] = ws[k]
  BY <1>1
<1>3. \A k \in 1 .. Len(ws) - 1 : ws[k] # ws[Len(ws)]
  BY <1>1 DEF Distinct
<1> HIDE DEF rest
<1>4. Items(rest) = Items(ws) \ {ws[Len(ws)]}
  BY <1>1, <1>2, <1>3 DEF Items
<1>5. Distinct(rest)
  BY <1>1, <1>2 DEF Distinct
<1>6. ws[Len(ws)] \in AlignedAddress /\ ws[Len(ws)] \in Items(ws)
  BY <1>1 DEF Items
<1>7. rest \in Seq(AlignedAddress)
  BY <1>2
<1> QED
  BY <1>4, <1>5, <1>6, <1>7 DEF rest

-----------------------------------------------------------------------------
(***************************************************************************)
(* The worklist.                                                           *)
(***************************************************************************)

\* Whatever is scheduled is an aligned address below the bound.
LEMMA SchedulableType ==
  ASSUME request \in CfgBuildRequest, NEW t \in Int, IsSchedulable(t)
  PROVE  t \in AlignedAddress
BY AddressLimitAssumption
   DEF CfgBuildRequest, IsSchedulable, AlignedAddress, Address, kAArch64InstructionSize

\* A worklist without duplicates, with the set of all that was ever on it.
IsQueue(q) ==
  /\ q \in [worklist : Seq(AlignedAddress), enqueued : SUBSET AlignedAddress]
  /\ Distinct(q.worklist)
  /\ Items(q.worklist) \subseteq q.enqueued

\* What schedule(t) adds to the latter.
Added(t) == IF IsSchedulable(t) THEN {t} ELSE {}

\* schedule(t) keeps the worklist free of duplicates, and puts on it what it
\* adds to the set.
LEMMA ScheduleEffect ==
  ASSUME request \in CfgBuildRequest, NEW q, IsQueue(q), NEW t \in Int
  PROVE  /\ IsQueue(Schedule(q, t))
         /\ Schedule(q, t).enqueued = q.enqueued \cup Added(t)
         /\ Items(Schedule(q, t).worklist)
              = Items(q.worklist) \cup (Added(t) \ q.enqueued)
<1> DEFINE ws == q.worklist
<1>1. CASE IsSchedulable(t) /\ t \notin q.enqueued
  <2>1. t \in AlignedAddress /\ ws \in Seq(AlignedAddress) /\ Added(t) = {t}
    BY <1>1, SchedulableType DEF IsQueue, Added
  <2>2. /\ DOMAIN Append(ws, t) = 1 .. Len(ws) + 1
        /\ DOMAIN ws = 1 .. Len(ws) /\ Len(ws) \in Nat
        /\ \A i \in DOMAIN ws : Append(ws, t)[i] = ws[i]
        /\ Append(ws, t)[Len(ws) + 1] = t
        /\ Append(ws, t) \in Seq(AlignedAddress)
    BY <2>1
  <2>3. Items(Append(ws, t)) = Items(ws) \cup {t}
    BY <2>2 DEF Items
  <2>4. \A k \in DOMAIN ws : ws[k] # t
    BY <1>1 DEF Items, IsQueue
  <2>5. Distinct(Append(ws, t))
    BY <2>2, <2>4 DEF Distinct, IsQueue
  <2>6. Schedule(q, t)
          = [worklist |-> Append(ws, t), enqueued |-> q.enqueued \cup {t}]
    BY <1>1 DEF Schedule
  <2>7. IsQueue([worklist |-> Append(ws, t), enqueued |-> q.enqueued \cup {t}])
    BY <2>1, <2>2, <2>3, <2>5 DEF IsQueue
  <2>8. /\ Schedule(q, t).worklist = Append(ws, t)
        /\ Schedule(q, t).enqueued = q.enqueued \cup {t}
    BY <2>6
  <2>9. Items(ws) \cup {t} = Items(ws) \cup (Added(t) \ q.enqueued)
    BY <1>1, <2>1
  <2> QED
    BY <2>1, <2>3, <2>6, <2>7, <2>8, <2>9
<1>2. CASE ~(IsSchedulable(t) /\ t \notin q.enqueued)
  BY <1>2 DEF Schedule, Added
<1> QED
  BY <1>1, <1>2

-----------------------------------------------------------------------------
(***************************************************************************)
(* The inductive invariant.  WorklistIsFresh and ExtentIsTight are part of *)
(* it; the others say why the covered set is the set of the reachable      *)
(* instructions when the worklist runs empty: everything enqueued is       *)
(* covered, waiting or not coverable, whatever covered code leads to is    *)
(* enqueued, and nothing is enqueued that could be left out.               *)
(***************************************************************************)
QueueInv == Distinct(worklist) /\ Items(worklist) \subseteq enqueued \ visited

EnqueuedInv ==
  \A x \in enqueued : request.entry <= x /\ x < request.upperBound /\ Contains(x)

VisitedInv == visited \subseteq enqueued /\ \A x \in visited : IsCoverable(x)

NothingForgotten ==
  \A x \in enqueued : x \in visited \/ x \in Items(worklist) \/ ~IsCoverable(x)

FollowedInv ==
  \A a \in visited, b \in AlignedAddress :
    LeadsTo(a, b) /\ IsSchedulable(b) => b \in enqueued

RootInv ==
  status # "idle" /\ EntryIsSchedulable(request) => request.entry \in enqueued

MinimalInv ==
  \A S \in SUBSET AlignedAddress :
    Flow!Closed(S) => {x \in enqueued : IsCoverable(x)} \subseteq S

SizeInv ==
  IsFiniteSet(visited) /\ Cardinality(visited) \in Nat
    /\ Cardinality(visited) <= request.maxInstructions

EndInv ==
  status # "idle" =>
    /\ \A a \in visited : EndAddress(a) <= coveredEnd
    /\ coveredEnd = request.entry \/ \E a \in visited : EndAddress(a) = coveredEnd

ValidEntries == {a \in DOMAIN cache : cache[a].valid}

CacheInv ==
  /\ \A a \in DOMAIN cache : cache[a] = Decode(a)
  /\ IsFiniteSet(ValidEntries)
  /\ decoded = Cardinality(ValidEntries)

WalkInv == QueueInv /\ EnqueuedInv /\ VisitedInv /\ NothingForgotten /\ FollowedInv
             /\ RootInv /\ MinimalInv

IInv == TypeOK /\ WalkInv /\ SizeInv /\ EndInv /\ CacheInv
-----------------------------------------------------------------------------
\* The image and the request decide what may be scheduled and covered.
LEMMA Frame ==
  ASSUME UNCHANGED <<image, request>>
  PROVE  /\ \A t : IsSchedulable(t)' <=> IsSchedulable(t)
         /\ \A t : IsCoverable(t)' <=> IsCoverable(t)
         /\ \A t : Contains(t)' <=> Contains(t)
         /\ \A a, b : LeadsTo(a, b)' <=> LeadsTo(a, b)
         /\ FlowEdges' = FlowEdges /\ FlowRoots' = FlowRoots
         /\ \A S : Flow!Closed(S)' <=> Flow!Closed(S)
         /\ EntryIsSchedulable(request)' <=> EntryIsSchedulable(request)
<1> USE DEF image
<1>1. \A t : Contains(t)' <=> Contains(t)
  BY DEF Contains, RegionsAt
<1>2. \A t : IsSchedulable(t)' <=> IsSchedulable(t)
  BY <1>1 DEF IsSchedulable
<1>3. \A t : RegionContaining(t)' = RegionContaining(t)
  BY DEF RegionContaining, RegionsAt
<1>4. \A t : ReadsWord(t)' <=> ReadsWord(t)
  BY <1>1, <1>3 DEF ReadsWord, Available
<1>5. \A t : IsCoverable(t)' <=> IsCoverable(t)
  BY <1>4 DEF IsCoverable, IsHardStopWord, Decodes, CrossesUpperBound
<1>6. \A a, b : LeadsTo(a, b)' <=> LeadsTo(a, b)
  BY DEF LeadsTo, FollowsTarget, FollowsFallThrough
<1>7. FlowEdges' = FlowEdges
  BY <1>2, <1>5, <1>6 DEF FlowEdges
<1>8. EntryIsSchedulable(request)' <=> EntryIsSchedulable(request)
  BY <1>1 DEF EntryIsSchedulable
<1>9. FlowRoots' = FlowRoots
  BY <1>5, <1>8 DEF FlowRoots
<1>10. \A S : Flow!Closed(S)' <=> Flow!Closed(S)
  BY <1>7, <1>9 DEF Flow!Closed
<1> QED
  BY <1>1, <1>2, <1>5, <1>6, <1>7, <1>8, <1>9, <1>10

\* A coherent cache answers like the disassembler, and stays coherent.
LEMMA LookupIsDecode ==
  ASSUME CacheInv, NEW a
  PROVE  /\ Hit(a) <=> Decodes(a)
         /\ Hit(a) => InsnAt(a) = words[a].insn
BY DEF CacheInv, Hit, InsnAt, Lookup, Decode

\* As long as the image stays, a table that stays is coherent.
LEMMA CacheFrame ==
  ASSUME CacheTypeOK, CacheInv, UNCHANGED <<image, cacheVars>>
  PROVE  CacheTypeOK' /\ CacheInv'
<1>1. \A x : Decode(x)' = Decode(x)
  BY DEF Decode, Decodes, ReadsWord, Available, Contains, RegionContaining, RegionsAt,
         image
<1> QED
  BY <1>1 DEF CacheTypeOK, CacheInv, ValidEntries, cacheVars

\* Asking the cache for an address keeps it coherent.
LEMMA CacheStep ==
  ASSUME IsImage(regions, words), CacheTypeOK, CacheInv, UNCHANGED image,
         NEW a \in AlignedAddress, CacheAt(a)
  PROVE  CacheTypeOK' /\ CacheInv'
<1>1. \A x : Decodes(x)' <=> Decodes(x)
  BY DEF Decodes, ReadsWord, Available, Contains, RegionContaining, RegionsAt, image
<1>2. \A x : Decode(x)' = Decode(x)
  BY <1>1 DEF Decode, image
<1>3. CASE a \in DOMAIN cache
  BY <1>2, <1>3 DEF CacheAt, cacheVars, CacheInv, CacheTypeOK, ValidEntries
<1>4. CASE a \notin DOMAIN cache
  <2>1. /\ DOMAIN cache' = DOMAIN cache \cup {a}
        /\ cache'[a] = Decode(a)
        /\ \A x \in DOMAIN cache : cache'[x] = cache[x]
        /\ decoded' = IF Decodes(a) THEN decoded + 1 ELSE decoded
    BY <1>4 DEF CacheAt
  <2>2. Decode(a) \in Entry /\ (Decode(a).valid <=> Decodes(a))
    <3>1. NoInstruction \in Instruction
      BY AddressLimitAssumption
         DEF NoInstruction, Instruction, FlowType, Address, kAArch64InstructionSize
    <3> QED
      BY <3>1, InsnType DEF Decode, Entry
  <2>3. CacheTypeOK'
    BY <2>1, <2>2 DEF CacheTypeOK
  <2>4. \A x \in DOMAIN cache' : cache'[x] = Decode(x)'
    BY <1>2, <2>1 DEF CacheInv
  <2>5. CASE Decodes(a)
    <3>1. ValidEntries' = ValidEntries \cup {a} /\ a \notin ValidEntries
      BY <1>4, <2>1, <2>2, <2>5 DEF ValidEntries
    <3>2. /\ IsFiniteSet(ValidEntries \cup {a})
          /\ Cardinality(ValidEntries \cup {a}) = Cardinality(ValidEntries) + 1
      BY <3>1, FS_AddElement DEF CacheInv
    <3> QED
      BY <2>1, <2>3, <2>4, <2>5, <3>1, <3>2 DEF CacheInv
  <2>6. CASE ~Decodes(a)
    <3>1. ValidEntries' = ValidEntries
      BY <1>4, <2>1, <2>2, <2>6 DEF ValidEntries
    <3> QED
      BY <2>1, <2>3, <2>4, <2>6, <3>1 DEF CacheInv
  <2> QED
    BY <2>5, <2>6
<1> QED
  BY <1>3, <1>4
-----------------------------------------------------------------------------
(***************************************************************************)
(* The turns of the loop.                                                  *)
(***************************************************************************)

\* What is on top of the worklist of a turn.
LEMMA TopFacts ==
  ASSUME IInv, Turning
  PROVE  /\ Top \in AlignedAddress
         /\ Top \in Items(worklist) /\ Top \in enqueued /\ Top \notin visited
         /\ Popped.worklist \in Seq(AlignedAddress)
         /\ Distinct(Popped.worklist)
         /\ Items(Popped.worklist) = Items(worklist) \ {Top}
<1>1. worklist \in Seq(AlignedAddress) /\ worklist # <<>> /\ Distinct(worklist)
  BY DEF IInv, TypeOK, BuilderTypeOK, WalkInv, QueueInv, Turning
<1>2. Items(worklist) \subseteq enqueued \ visited
  BY DEF IInv, WalkInv, QueueInv
<1>3. Popped.worklist = SubSeq(worklist, 1, Len(worklist) - 1)
  BY DEF Popped
<1> QED
  BY <1>1, <1>2, <1>3, PoppedEffect DEF Top

\* A turn that drops its address drops one that is not coverable.
LEMMA SkipFacts ==
  ASSUME IInv, SkipHardStop \/ SkipUndecodable
  PROVE  Turning /\ Drop /\ ~IsCoverable(Top) /\ CacheTypeOK' /\ CacheInv'
<1>1. Turning /\ Drop /\ UNCHANGED image
  BY DEF SkipHardStop, SkipUndecodable, Drop
<1>2. Top \in AlignedAddress
  BY <1>1, TopFacts
<1>3. IsImage(regions, words) /\ CacheTypeOK /\ CacheInv
  BY DEF IInv, TypeOK
<1>4. CASE SkipHardStop
  <2>1. ~IsCoverable(Top)
    BY <1>4 DEF SkipHardStop, IsCoverable
  <2>2. CacheTypeOK' /\ CacheInv'
    BY <1>1, <1>3, <1>4, CacheFrame DEF SkipHardStop
  <2> QED
    BY <1>1, <2>1, <2>2
<1>5. CASE SkipUndecodable
  <2>1. ~IsCoverable(Top)
    BY <1>3, <1>5, LookupIsDecode DEF SkipUndecodable, IsCoverable
  <2>2. CacheTypeOK' /\ CacheInv'
    BY <1>1, <1>2, <1>3, <1>5, CacheStep DEF SkipUndecodable
  <2> QED
    BY <1>1, <2>1, <2>2
<1> QED
  BY <1>4, <1>5

\* A turn that covers its address moves it from the worklist to the covered
\* set, and enqueues all that it leads to.
LEMMA CoverFacts ==
  ASSUME IInv, Cover
  PROVE  /\ Turning /\ UNCHANGED <<image, request>> /\ IsCoverable(Top)
         /\ CacheTypeOK' /\ CacheInv'
         /\ EndAddress(Top) \in AlignedAddress /\ words[Top].insn \in Instruction
         /\ visited' = visited \cup {Top}
         /\ worklist' \in Seq(AlignedAddress) /\ enqueued' \subseteq AlignedAddress
         /\ enqueued' = enqueued \cup {b \in AlignedAddress :
                                         LeadsTo(Top, b) /\ IsSchedulable(b)}
         /\ Distinct(worklist')
         /\ Items(worklist') = (Items(worklist) \ {Top}) \cup (enqueued' \ enqueued)
<1> DEFINE insn == words[Top].insn
<1>1. Turning /\ Top \in AlignedAddress
  BY TopFacts DEF Cover
<1>2. IsImage(regions, words) /\ CacheTypeOK /\ CacheInv /\ request \in CfgBuildRequest
  BY DEF IInv, TypeOK, BuilderTypeOK
<1>3. InsnAt(Top) = insn /\ Decodes(Top)
  BY <1>2, LookupIsDecode DEF Cover
<1>4. IsCoverable(Top)
  BY <1>3 DEF Cover, IsCoverable
<1>5. CacheTypeOK' /\ CacheInv'
  BY <1>1, <1>2, CacheStep DEF Cover
<1>6. insn \in Instruction
  BY <1>1, <1>2, InsnType
<1>7. EndAddress(Top) \in AlignedAddress
  BY <1>1, <1>2, <1>3, ReadableWord DEF Decodes
<1>8. insn.target \in Int /\ EndAddress(Top) \in Int
  BY <1>6, <1>7, AddressLimitAssumption DEF Instruction, AlignedAddress, Address
<1> DEFINE q1 == IF FollowsTarget(insn) THEN Schedule(Popped, insn.target) ELSE Popped
           q2 == IF FollowsFallThrough(insn) THEN Schedule(q1, EndAddress(Top)) ELSE q1
           t1 == IF FollowsTarget(insn) THEN Added(insn.target) ELSE {}
           t2 == IF FollowsFallThrough(insn) THEN Added(EndAddress(Top)) ELSE {}
<1> HIDE DEF insn
<1>10. /\ IsQueue(Popped)
       /\ Popped.enqueued = enqueued
       /\ Items(Popped.worklist) = Items(worklist) \ {Top}
  <2>1. Items(worklist) \subseteq enqueued /\ enqueued \subseteq AlignedAddress
    BY DEF IInv, WalkInv, QueueInv, TypeOK, BuilderTypeOK
  <2>2. Popped = [worklist |-> Popped.worklist, enqueued |-> enqueued]
    BY DEF Popped
  <2> QED
    BY <1>1, <2>1, <2>2, TopFacts DEF IsQueue
<1>11. /\ IsQueue(q1) /\ q1.enqueued = enqueued \cup t1
       /\ Items(q1.worklist) = (Items(worklist) \ {Top}) \cup (t1 \ enqueued)
  BY <1>2, <1>8, <1>10, ScheduleEffect
<1> HIDE DEF q1
<1>12. /\ IsQueue(q2) /\ q2.enqueued = q1.enqueued \cup t2
       /\ Items(q2.worklist) = Items(q1.worklist) \cup (t2 \ q1.enqueued)
  BY <1>2, <1>8, <1>11, ScheduleEffect
<1> HIDE DEF q2, t1, t2
<1>13. worklist' = q2.worklist /\ enqueued' = q2.enqueued
  BY <1>3 DEF Cover, AfterCovering, q2, q1
<1>14. /\ worklist' \in Seq(AlignedAddress) /\ Distinct(worklist')
       /\ enqueued' \subseteq AlignedAddress
  BY <1>12, <1>13 DEF IsQueue
<1>15. t1 \cup t2 = {b \in AlignedAddress : LeadsTo(Top, b) /\ IsSchedulable(b)}
  <2>1. t1 \subseteq AlignedAddress /\ t2 \subseteq AlignedAddress
    BY <1>11, <1>12 DEF IsQueue
  <2>2. \A b : b \in t1 \cup t2 <=> LeadsTo(Top, b) /\ IsSchedulable(b)
    BY DEF t1, t2, Added, LeadsTo, insn
  <2> QED
    BY <2>1, <2>2
<1>16. enqueued' = enqueued \cup (t1 \cup t2)
  BY <1>11, <1>12, <1>13
<1>17. Items(worklist') = (Items(worklist) \ {Top}) \cup (enqueued' \ enqueued)
  BY <1>11, <1>12, <1>13, <1>16
<1>18. UNCHANGED <<image, request>> /\ visited' = visited \cup {Top}
  BY DEF Cover
<1>20. enqueued' = enqueued \cup {b \in AlignedAddress :
                                   LeadsTo(Top, b) /\ IsSchedulable(b)}
  BY <1>15, <1>16
<1> QED
  BY <1>1, <1>4, <1>5, <1>6, <1>7, <1>14, <1>17, <1>18, <1>20 DEF insn
-----------------------------------------------------------------------------
(***************************************************************************)
(* The invariant is inductive.                                             *)
(***************************************************************************)

\* The invariant holds before the first call.
LEMMA InitIInv == Init => IInv
<1> SUFFICES ASSUME Init PROVE IInv
  OBVIOUS
<1> USE DEF Init, BuilderInit, CacheInit
<1>1. EmptyRequest \in CfgBuildRequest
  BY AddressLimitAssumption
     DEF EmptyRequest, CfgBuildRequest, Address, kAArch64InstructionSize
<1>2. 0 \in Address
  BY AddressLimitAssumption DEF Address, kAArch64InstructionSize
<1>3. TypeOK
  <2>1. CacheTypeOK
    BY DEF CacheTypeOK
  <2>2. <<>> \in Seq(AlignedAddress)
    OBVIOUS
  <2>3. BuilderTypeOK
    BY <1>1, <1>2, <2>2 DEF BuilderTypeOK
  <2> QED
    BY <2>1, <2>3, ImageInitOK DEF TypeOK
<1>4. WalkInv
  BY DEF WalkInv, QueueInv, EnqueuedInv, VisitedInv, NothingForgotten, FollowedInv, RootInv,
         MinimalInv, Items, Distinct
<1>5. SizeInv
  BY FS_EmptySet DEF SizeInv, EmptyRequest
<1>6. EndInv
  BY DEF EndInv
<1>7. CacheInv
  <2>1. ValidEntries = {}
    BY DEF ValidEntries
  <2> QED
    BY <2>1, FS_EmptySet DEF CacheInv
<1> QED
  BY <1>3, <1>4, <1>5, <1>6, <1>7 DEF IInv

\* A call starts a walk afresh.
LEMMA BeginBuildIInv ==
  ASSUME IInv, NEW req \in CfgBuildRequest, BeginBuild(req), CacheTypeOK', CacheInv'
  PROVE  IInv'
<1> USE DEF BeginBuild
<1>1. IsImage(regions, words)'
  BY DEF IInv, TypeOK, image
<1>3. EntryIsSchedulable(req)' <=> EntryIsSchedulable(req)
  BY DEF EntryIsSchedulable, Contains, RegionsAt, image
<1>4. EntryIsSchedulable(req) => req.entry \in AlignedAddress
  BY DEF EntryIsSchedulable, AlignedAddress, CfgBuildRequest
<1>5. TypeOK'
  <2>1. worklist' \in Seq(AlignedAddress) /\ enqueued' \subseteq AlignedAddress
    BY <1>4
  <2>2. req.entry \in Address
    BY DEF CfgBuildRequest
  <2> QED
    BY <1>1, <2>1, <2>2 DEF TypeOK, BuilderTypeOK
<1>6. enqueued' = IF EntryIsSchedulable(req) THEN {req.entry} ELSE {}
  OBVIOUS
<1>7. Items(worklist') = enqueued' /\ Distinct(worklist')
  BY DEF Items, Distinct
<1>8. WalkInv'
  <2>1. QueueInv'
    BY <1>7 DEF QueueInv
  <2>2. EnqueuedInv'
    <3>1. Contains(req.entry)' <=> Contains(req.entry)
      BY DEF Contains, RegionsAt, image
    <3> QED
      BY <1>6, <3>1 DEF EnqueuedInv, EntryIsSchedulable, CfgBuildRequest, Address
  <2>3. VisitedInv' /\ FollowedInv'
    BY DEF VisitedInv, FollowedInv
  <2>4. NothingForgotten'
    BY <1>7 DEF NothingForgotten
  <2>5. RootInv'
    BY <1>3, <1>6 DEF RootInv
  <2>6. MinimalInv'
    <3> SUFFICES ASSUME NEW S \in SUBSET AlignedAddress, Flow!Closed(S)',
                        NEW x \in enqueued', IsCoverable(x)'
                 PROVE  x \in S
      BY DEF MinimalInv
    <3>1. x = request'.entry /\ EntryIsSchedulable(request)' /\ x \in AlignedAddress
      BY <1>3, <1>4, <1>6
    <3>2. x \in FlowRoots'
      BY <3>1 DEF FlowRoots
    <3> QED
      BY <3>2 DEF Flow!Closed
  <2> QED
    BY <2>1, <2>2, <2>3, <2>4, <2>5, <2>6 DEF WalkInv
<1>9. SizeInv'
  BY FS_EmptySet DEF SizeInv, CfgBuildRequest
<1>10. EndInv'
  BY DEF EndInv
<1> QED
  BY <1>5, <1>8, <1>9, <1>10 DEF IInv

\* A call that asks the cache nothing.
LEMMA BuildIInv ==
  ASSUME IInv, NEW req \in CfgBuildRequest, Build(req)
  PROVE  IInv'
<1>1. CacheTypeOK' /\ CacheInv'
  BY CacheFrame DEF Build, BeginBuild, IInv, TypeOK
<1> QED
  BY <1>1, BeginBuildIInv DEF Build

\* A step that leaves the builder alone, whatever it asks the cache.
LEMMA IdleIInv ==
  ASSUME IInv, UNCHANGED <<image, builderVars>>, CacheTypeOK', CacheInv'
  PROVE  IInv'
<1>1. UNCHANGED <<image, status, request, visited, enqueued, worklist, coveredEnd,
                  truncated, reachesReturn, callTargets, blocks>>
  BY DEF builderVars, walkVars
<1>2. TypeOK'
  BY <1>1 DEF IInv, TypeOK, BuilderTypeOK, image
<1>3. WalkInv'
  BY <1>1, Frame DEF IInv, WalkInv, QueueInv, EnqueuedInv, VisitedInv, NothingForgotten,
                     FollowedInv, RootInv, MinimalInv
<1>4. SizeInv' /\ EndInv'
  BY <1>1 DEF IInv, SizeInv, EndInv
<1> QED
  BY <1>2, <1>3, <1>4 DEF IInv

\* A turn that skips only takes the top off the worklist.
LEMMA SkipIInv ==
  ASSUME IInv, SkipHardStop \/ SkipUndecodable
  PROVE  IInv'
<1>1. /\ Turning /\ ~IsCoverable(Top) /\ CacheTypeOK' /\ CacheInv'
      /\ worklist' = Popped.worklist
      /\ UNCHANGED <<image, status, request, visited, enqueued, coveredEnd, truncated,
                     reachesReturn, callTargets, blocks>>
  BY SkipFacts DEF Drop
<1>2. /\ worklist' \in Seq(AlignedAddress) /\ Distinct(worklist')
      /\ Items(worklist') = Items(worklist) \ {Top}
  BY <1>1, TopFacts
<1>3. TypeOK'
  BY <1>1, <1>2 DEF IInv, TypeOK, BuilderTypeOK, image
<1>4. WalkInv'
  <2> USE DEF IInv, WalkInv
  <2>1. QueueInv'
    BY <1>1, <1>2 DEF QueueInv
  <2>2. EnqueuedInv' /\ VisitedInv' /\ FollowedInv' /\ RootInv'
    BY <1>1, Frame DEF EnqueuedInv, VisitedInv, FollowedInv, RootInv
  <2>3. NothingForgotten'
    BY <1>1, <1>2, Frame DEF NothingForgotten
  <2>4. MinimalInv'
    BY <1>1, Frame DEF MinimalInv
  <2> QED
    BY <2>1, <2>2, <2>3, <2>4
<1>5. SizeInv' /\ EndInv'
  BY <1>1 DEF IInv, SizeInv, EndInv
<1> QED
  BY <1>1, <1>3, <1>4, <1>5 DEF IInv

\* A turn that covers an address.
LEMMA CoverIInv ==
  ASSUME IInv, Cover
  PROVE  IInv'
<1> DEFINE next == {b \in AlignedAddress : LeadsTo(Top, b) /\ IsSchedulable(b)}
<1>1. /\ Turning /\ UNCHANGED <<image, request>> /\ IsCoverable(Top)
      /\ CacheTypeOK' /\ CacheInv'
      /\ EndAddress(Top) \in AlignedAddress /\ words[Top].insn \in Instruction
      /\ visited' = visited \cup {Top}
      /\ worklist' \in Seq(AlignedAddress) /\ enqueued' \subseteq AlignedAddress
      /\ enqueued' = enqueued \cup next
      /\ Distinct(worklist')
      /\ Items(worklist') = (Items(worklist) \ {Top}) \cup (enqueued' \ enqueued)
  BY CoverFacts
<1>2. /\ Top \in AlignedAddress
      /\ Top \in Items(worklist) /\ Top \in enqueued /\ Top \notin visited
  BY <1>1, TopFacts
<1>3. /\ status' = status /\ status = "building"
      /\ coveredEnd' = IF EndAddress(Top) > coveredEnd THEN EndAddress(Top)
                                                       ELSE coveredEnd
      /\ truncated' = truncated
      /\ reachesReturn' \in BOOLEAN
      /\ callTargets' \in {callTargets, callTargets \cup {InsnAt(Top).target}}
  BY <1>1 DEF Cover, Turning
<1>4. InsnAt(Top).target \in Address
  <2>1. Hit(Top) /\ CacheInv
    BY DEF Cover, IInv
  <2> QED
    BY <1>1, <2>1, LookupIsDecode DEF Instruction
<1> HIDE DEF next
<1>5. TypeOK'
  <2>1. IsImage(regions, words)'
    BY <1>1 DEF IInv, TypeOK, image
  <2>2. coveredEnd' \in Address
    BY <1>1, <1>3 DEF IInv, TypeOK, BuilderTypeOK, AlignedAddress
  <2>3. visited' \subseteq AlignedAddress /\ callTargets' \subseteq Address
    BY <1>1, <1>2, <1>3, <1>4 DEF IInv, TypeOK, BuilderTypeOK
  <2> QED
    BY <1>1, <1>3, <2>1, <2>2, <2>3 DEF IInv, TypeOK, BuilderTypeOK
<1>6. WalkInv'
  <2> USE DEF IInv, WalkInv
  <2>1. QueueInv'
    BY <1>1, <1>2 DEF QueueInv, VisitedInv
  <2>2. EnqueuedInv'
    <3>1. \A x \in next : request.entry <= x /\ x < request.upperBound /\ Contains(x)
      BY DEF next, IsSchedulable
    <3> QED
      BY <1>1, <3>1, Frame DEF EnqueuedInv
  <2>3. VisitedInv'
    BY <1>1, <1>2, Frame DEF VisitedInv
  <2>4. NothingForgotten'
    BY <1>1, <1>2, Frame DEF NothingForgotten
  <2>5. FollowedInv'
    <3> SUFFICES ASSUME NEW a \in visited', NEW b \in AlignedAddress,
                        LeadsTo(a, b), IsSchedulable(b)
                 PROVE  b \in enqueued'
      BY <1>1, Frame DEF FollowedInv
    <3>1. CASE a \in visited
      BY <1>1, <3>1 DEF FollowedInv
    <3>2. CASE a = Top
      BY <1>1, <3>2 DEF next
    <3> QED
      BY <1>1, <3>1, <3>2
  <2>6. RootInv'
    BY <1>1, <1>3, Frame DEF RootInv
  <2>7. MinimalInv'
    <3> SUFFICES ASSUME NEW S \in SUBSET AlignedAddress, Flow!Closed(S),
                        NEW x \in enqueued', IsCoverable(x)
                 PROVE  x \in S
      BY <1>1, Frame DEF MinimalInv
    <3>1. {y \in enqueued : IsCoverable(y)} \subseteq S
      BY DEF MinimalInv
    <3>2. Top \in S
      BY <1>1, <1>2, <3>1
    <3>3. CASE x \in next
      <4>1. x \in AlignedAddress /\ <<Top, x>> \in FlowEdges
        BY <1>2, <3>3 DEF next, FlowEdges
      <4> QED
        BY <3>2, <4>1 DEF Flow!Closed
    <3> QED
      BY <1>1, <3>1, <3>3
  <2> QED
    BY <2>1, <2>2, <2>3, <2>4, <2>5, <2>6, <2>7
<1>7. SizeInv'
  <2>1. IsFiniteSet(visited') /\ Cardinality(visited') = Cardinality(visited) + 1
    BY <1>1, <1>2, FS_AddElement DEF IInv, SizeInv
  <2>2. request.maxInstructions \in Nat
    BY DEF IInv, TypeOK, BuilderTypeOK, CfgBuildRequest
  <2> QED
    BY <1>1, <2>1, <2>2 DEF IInv, SizeInv, Turning, AtCap
<1>8. EndInv'
  <2>1. \A a \in visited : EndAddress(a) \in Int
    BY AddressLimitAssumption
       DEF IInv, TypeOK, BuilderTypeOK, AlignedAddress, Address, EndAddress,
           kAArch64InstructionSize
  <2>2. EndAddress(Top) \in Int /\ coveredEnd \in Int
    BY <1>1, AddressLimitAssumption
       DEF IInv, TypeOK, BuilderTypeOK, AlignedAddress, Address
  <2>3. \A a \in visited' : EndAddress(a) <= coveredEnd'
    BY <1>1, <1>3, <2>1, <2>2 DEF IInv, EndInv
  <2>4. coveredEnd' = request.entry \/ \E a \in visited' : EndAddress(a) = coveredEnd'
    BY <1>1, <1>3 DEF IInv, EndInv
  <2> QED
    BY <1>1, <2>3, <2>4 DEF EndInv
<1> QED
  BY <1>1, <1>5, <1>6, <1>7, <1>8 DEF IInv

\* The end of a walk changes nothing the invariant speaks of.
LEMMA ReturnIInv ==
  ASSUME IInv, Return
  PROVE  IInv'
<1>1. /\ UNCHANGED <<image, cacheVars, request, visited, enqueued, worklist, coveredEnd,
                     reachesReturn, callTargets>>
      /\ status = "building" /\ status' = "built" /\ truncated' \in BOOLEAN
  BY DEF Return
<1>2. TypeOK' /\ CacheInv'
  <2>1. CacheTypeOK' /\ CacheInv'
    BY <1>1, CacheFrame DEF IInv, TypeOK
  <2> QED
    BY <1>1, <2>1 DEF IInv, TypeOK, BuilderTypeOK, image
<1>3. WalkInv'
  BY <1>1, Frame DEF IInv, WalkInv, QueueInv, EnqueuedInv, VisitedInv, NothingForgotten,
                     FollowedInv, RootInv, MinimalInv
<1>4. SizeInv' /\ EndInv'
  BY <1>1 DEF IInv, SizeInv, EndInv
<1> QED
  BY <1>2, <1>3, <1>4 DEF IInv

\* Every step keeps the invariant.
LEMMA NextIInv == IInv /\ [Next]_vars => IInv'
<1> SUFFICES ASSUME IInv, [Next]_vars PROVE IInv'
  OBVIOUS
<1>1. CASE \E req \in Requests : Build(req)
  BY <1>1, BuildIInv, RequestsAssumption
<1>2. CASE SkipHardStop \/ SkipUndecodable
  BY <1>2, SkipIInv
<1>3. CASE Cover
  BY <1>3, CoverIInv
<1>4. CASE Return
  BY <1>4, ReturnIInv
<1>5. CASE UNCHANGED vars
  BY <1>5, CacheFrame, IdleIInv DEF vars, IInv, TypeOK
<1> QED
  BY <1>1, <1>2, <1>3, <1>4, <1>5 DEF Next, BuilderStep
-----------------------------------------------------------------------------
(***************************************************************************)
(* What the answer of build tells its caller beyond the covered set.       *)
(***************************************************************************)

\* A walk that covered a return says so, and one that is over has nothing left
\* to do or has reached its cap.
ReturnInv == \A a \in visited : words[a].insn.flow = "return" => reachesReturn
StopInv == status = "built" => worklist = <<>> \/ AtCap
OutcomeInv == ReturnInv /\ StopInv

\* A call starts with nothing covered.
LEMMA BeginBuildOutcome ==
  ASSUME NEW req, BeginBuild(req)
  PROVE  OutcomeInv'
BY DEF BeginBuild, OutcomeInv, ReturnInv, StopInv

\* A step that leaves the builder alone.
LEMMA IdleOutcome ==
  ASSUME OutcomeInv, UNCHANGED <<image, builderVars>>
  PROVE  OutcomeInv'
BY DEF OutcomeInv, ReturnInv, StopInv, AtCap, image, builderVars, walkVars

\* Every turn of the loop keeps track of the returns it covers, and the loop
\* ends for one of its two reasons.
LEMMA StepOutcome ==
  ASSUME IInv, OutcomeInv, BuilderStep
  PROVE  OutcomeInv'
<1>1. CASE SkipHardStop \/ SkipUndecodable
  <2>1. status = "building" /\ UNCHANGED <<image, status, visited, reachesReturn>>
    BY <1>1 DEF SkipHardStop, SkipUndecodable, Drop, Turning
  <2> QED
    BY <2>1 DEF OutcomeInv, ReturnInv, StopInv, image
<1>2. CASE Cover
  <2>1. /\ status = "building" /\ UNCHANGED <<status, words>>
        /\ visited' = visited \cup {Top}
        /\ reachesReturn' = (reachesReturn \/ InsnAt(Top).flow = "return")
    BY <1>2 DEF Cover, Turning, image
  <2>2. InsnAt(Top) = words[Top].insn
    BY <1>2, LookupIsDecode DEF Cover, IInv
  <2> QED
    BY <2>1, <2>2 DEF OutcomeInv, ReturnInv, StopInv
<1>3. CASE Return
  BY <1>3 DEF Return, OutcomeInv, ReturnInv, StopInv, AtCap, image
<1> QED
  BY <1>1, <1>2, <1>3 DEF BuilderStep
-----------------------------------------------------------------------------
(***************************************************************************)
(* The theorems.                                                           *)
(***************************************************************************)

\* The inductive invariant holds of every behaviour of the builder.
THEOREM Invariance == Spec => []IInv
<1>1. Init => IInv
  BY InitIInv
<1>2. IInv /\ [Next]_vars => IInv'
  BY NextIInv
<1> QED
  BY <1>1, <1>2, PTL DEF Spec

\* Every variable of the builder, the cache and the image keeps its type: no
\* walk computes something that is not an address of the address space.
THEOREM TypeCorrect == Spec => []TypeOK
BY Invariance, PTL DEF IInv

\* No address is on the worklist twice or comes back once visited, so that the
\* test of visited in the loop of build never fires.
THEOREM WorklistStaysFresh == Spec => []WorklistIsFresh
<1>1. IInv => WorklistIsFresh
  BY DEF IInv, WalkInv, QueueInv, Distinct, Items, WorklistIsFresh
<1> QED
  BY <1>1, Invariance, PTL

\* The extent of a graph ends right after its last instruction, inside the
\* bounds of the request and inside code.
THEOREM ExtentStaysTight == Spec => []ExtentIsTight
<1>1. IInv => ExtentIsTight
  <2> SUFFICES ASSUME IInv, status # "idle" PROVE ExtentIsTight
    BY DEF ExtentIsTight
  <2>1. /\ \A a \in visited : EndAddress(a) <= coveredEnd
        /\ coveredEnd = request.entry \/ \E a \in visited : EndAddress(a) = coveredEnd
    BY DEF IInv, EndInv
  <2>2. ASSUME NEW a \in visited
        PROVE  /\ request.entry <= a /\ EndAddress(a) <= request.upperBound
               /\ Contains(a) /\ Contains(EndAddress(a) - 1)
    <3>1. a \in enqueued /\ a \in AlignedAddress /\ IsCoverable(a)
      BY <2>2 DEF IInv, WalkInv, VisitedInv, TypeOK, BuilderTypeOK
    <3>2. request.entry <= a
      BY <3>1 DEF IInv, WalkInv, EnqueuedInv
    <3>3. Contains(a) /\ Contains(EndAddress(a) - 1) /\ EndAddress(a) \in AlignedAddress
      BY <3>1, ReadableWord DEF IsCoverable, Decodes, IInv, TypeOK
    <3>4. EndAddress(a) <= request.upperBound
      BY <3>1, <3>3, AddressLimitAssumption
         DEF IsCoverable, CrossesUpperBound, AlignedAddress, Address, IInv, TypeOK,
             BuilderTypeOK, CfgBuildRequest
    <3> QED
      BY <3>2, <3>3, <3>4
  <2> QED
    BY <2>1, <2>2 DEF ExtentIsTight
<1> QED
  BY <1>1, Invariance, PTL

\* The memo table agrees with the disassembler after any number of graphs, and
\* the counter counts its valid entries.
THEOREM CacheStaysCoherent == Spec => []CacheIsCoherent
<1>1. IInv => CacheIsCoherent
  BY DEF IInv, CacheInv, ValidEntries, CacheIsCoherent
<1> QED
  BY <1>1, Invariance, PTL

\* Asking the last region that starts at or before an address is enough.
THEOREM RegionLookupStaysExact == Spec => []RegionLookupIsExact
<1>1. IInv => RegionLookupIsExact
  <2>1. Address \subseteq Int
    BY DEF Address
  <2> QED
    BY <2>1, ContainsIff DEF IInv, TypeOK, RegionLookupIsExact
<1> QED
  BY <1>1, Invariance, PTL
-----------------------------------------------------------------------------
(***************************************************************************)
(* The builder implements Reachability.                                    *)
(***************************************************************************)

\* Reachability counts as FiniteSets does.
LEMMA SameCardinality == \A S : Flow!Cardinality(S) = Cardinality(S)
BY DEF Flow!Cardinality, Cardinality

\* Nothing is covered that a closed set can do without.
LEMMA CoveredIsReachable == IInv => Flow!AllReachable(visited)
<1> SUFFICES ASSUME IInv, NEW S \in SUBSET AlignedAddress, Flow!Closed(S)
             PROVE  visited \subseteq S
  BY DEF Flow!AllReachable
<1>1. {x \in enqueued : IsCoverable(x)} \subseteq S
  BY DEF IInv, WalkInv, MinimalInv
<1> QED
  BY <1>1 DEF IInv, WalkInv, VisitedInv

\* When the worklist runs empty no edge leaves the covered set.
LEMMA CoveredIsClosed ==
  ASSUME IInv, status # "idle", worklist = <<>>
  PROVE  Flow!Closed(visited)
<1>1. \A x \in enqueued : IsCoverable(x) => x \in visited
  <2>1. Items(worklist) = {}
    BY DEF Items
  <2> QED
    BY <2>1 DEF IInv, WalkInv, NothingForgotten
<1>2. FlowRoots \subseteq visited
  BY <1>1 DEF FlowRoots, IInv, WalkInv, RootInv
<1>3. ASSUME NEW a \in visited, NEW b \in AlignedAddress \ visited, <<a, b>> \in FlowEdges
      PROVE  FALSE
  <2>1. LeadsTo(a, b) /\ IsSchedulable(b) /\ IsCoverable(b)
    BY <1>3 DEF FlowEdges
  <2>2. b \in enqueued
    BY <2>1 DEF IInv, WalkInv, FollowedInv
  <2> QED
    BY <1>1, <2>1, <2>2
<1> QED
  BY <1>2, <1>3 DEF Flow!Closed

\* What the builder shows of itself as Reachability sees it.
Answer ==
  <<status, <<FlowEdges, FlowRoots, request.maxInstructions>>, Reached, Complete>>

\* Whoever calls build, its calls, its turns and its return ask a question and
\* answer it.
LEMMA StepAnswers ==
  ASSUME IInv,
         (\E req : BeginBuild(req)) \/ BuilderStep \/ UNCHANGED <<image, builderVars>>
  PROVE  Flow!ReachabilityNext \/ UNCHANGED Answer
<1>1. CASE \E req : BeginBuild(req)
  <2>1. Flow!Ask
    BY <1>1 DEF BeginBuild, Flow!Ask, Reached, Complete
  <2> QED
    BY <2>1 DEF Flow!ReachabilityNext
<1>2. CASE SkipHardStop \/ SkipUndecodable \/ Cover
  <2>1. status = "building" /\ status' = status /\ UNCHANGED <<image, request>>
    BY <1>2 DEF SkipHardStop, SkipUndecodable, Cover, Drop, Turning
  <2>2. FlowEdges' = FlowEdges /\ FlowRoots' = FlowRoots
    BY <2>1, Frame
  <2>3. Reached' = Reached
    BY <2>1 DEF Reached
  <2>4. Complete' = Complete
    BY <2>1 DEF Complete
  <2> QED
    BY <2>1, <2>2, <2>3, <2>4 DEF Answer
<1>3. CASE Return
  <2>1. /\ status = "building" /\ status' = "built" /\ visited' = visited
        /\ UNCHANGED <<image, request>> /\ truncated' = (worklist # <<>>)
        /\ worklist = <<>> \/ AtCap
    BY <1>3 DEF Return
  <2>2. FlowEdges' = FlowEdges /\ FlowRoots' = FlowRoots
    BY <2>1, Frame
  <2>3. Flow!AllReachable(visited)
    BY CoveredIsReachable
  <2>4. CASE worklist = <<>>
    <3>1. Flow!Closed(visited)
      BY <2>1, <2>4, CoveredIsClosed
    <3>2. Cardinality(visited) <= request.maxInstructions
      BY DEF IInv, SizeInv
    <3>3. Complete'
      BY <2>1, <2>4 DEF Complete
    <3>4. Reached' = visited
      BY <2>1 DEF Reached
    <3>5. Flow!AnswerAll
      BY <2>3, <3>1, <3>2, <3>3, <3>4, SameCardinality DEF Flow!AnswerAll
    <3> QED
      BY <2>1, <2>2, <3>5 DEF Flow!ReachabilityNext, Flow!Answer, Flow!question
  <2>5. CASE worklist # <<>>
    <3>1. Cardinality(visited) = request.maxInstructions
      BY <2>1, <2>5 DEF IInv, SizeInv, AtCap, TypeOK, BuilderTypeOK, CfgBuildRequest
    <3>2. ~Complete'
      BY <2>1, <2>5 DEF Complete
    <3>3. Reached' = visited
      BY <2>1 DEF Reached
    <3>4. Flow!AnswerPart
      BY <2>3, <3>1, <3>2, <3>3, SameCardinality DEF Flow!AnswerPart
    <3> QED
      BY <2>1, <2>2, <3>4 DEF Flow!ReachabilityNext, Flow!Answer, Flow!question
  <2> QED
    BY <2>4, <2>5
<1>4. CASE UNCHANGED <<image, builderVars>>
  <2>1. UNCHANGED <<image, status, request, visited, truncated>>
    BY <1>4 DEF builderVars, walkVars
  <2>2. FlowEdges' = FlowEdges /\ FlowRoots' = FlowRoots
    BY <2>1, Frame
  <2> QED
    BY <2>1, <2>2 DEF Answer, Reached, Complete
<1> QED
  BY <1>1, <1>2, <1>3, <1>4 DEF BuilderStep

\* build, with its calls, its turns and its return, is an implementation of the
\* question and answer of Reachability: every graph that is not truncated
\* covers exactly the reachable code, every truncated one as much of it as its
\* cap allows.
THEOREM BuilderImplementsReachability == Spec => CoversReachableCode
<1>1. Init => Flow!ReachabilityInit
  BY DEF Init, BuilderInit, Flow!ReachabilityInit, Reached, Complete
<1>2. IInv /\ [Next]_vars => [Flow!ReachabilityNext]_Answer
  BY StepAnswers DEF Next, Build, vars
<1> QED
  BY <1>1, <1>2, Invariance, PTL
     DEF Spec, CoversReachableCode, Flow!ReachabilitySpec, Flow!question, Answer
-----------------------------------------------------------------------------
(***************************************************************************)
(* A set of aligned addresses cut into runs: S holds where the runs start, *)
(* at least wherever the address before is not in C.                       *)
(***************************************************************************)
IsCut(C, S) ==
  /\ C \subseteq AlignedAddress /\ S \subseteq C
  /\ \A x \in C : x - kAArch64InstructionSize \in C \/ x \in S

\* Aligned addresses are numbers a word apart.
LEMMA AlignedFacts ==
  /\ AlignedAddress \subseteq Nat
  /\ \A x \in AlignedAddress : x < AddressLimit
  /\ \A x, y \in AlignedAddress : x < y => x <= y - kAArch64InstructionSize
BY AddressLimitAssumption DEF AlignedAddress, Address, kAArch64InstructionSize

\* From a start on, there is an address where the run ends: the least that the
\* address after does not continue.
LEMMA LastExists ==
  ASSUME NEW C, NEW S, IsCut(C, S), NEW s \in S
  PROVE  \E a \in C : IsLastOf(a, s, C, S)
<1> DEFINE Ends == {a \in C : a >= s /\ (EndAddress(a) \in C => EndAddress(a) \in S)}
<1>1. C \subseteq AlignedAddress /\ C \subseteq Nat /\ S \subseteq C /\ s \in Nat /\ s \in C
  BY AlignedFacts DEF IsCut
<1>2. Ends # {}
  <2> DEFINE Above == {AddressLimit - a : a \in {x \in C : x >= s}}
  <2>1. Above \in SUBSET Nat /\ Above # {}
    <3>1. \A a \in C : AddressLimit - a \in Nat
      BY <1>1, AlignedFacts, AddressLimitAssumption
    <3> QED
      BY <1>1, <3>1
  <2>2. PICK d \in Above : \A x \in Above : d <= x
    BY <2>1, HasLeast
  <2>3. PICK a \in C : a >= s /\ d = AddressLimit - a
    BY <2>2
  <2>4. EndAddress(a) \notin C
    <3> SUFFICES ASSUME EndAddress(a) \in C PROVE FALSE
      OBVIOUS
    <3>1. a \in Nat /\ EndAddress(a) = a + 4
      BY <1>1 DEF EndAddress, kAArch64InstructionSize
    <3>2. AddressLimit - (a + 4) \in Above
      BY <1>1, <2>3, <3>1
    <3> QED
      <4>1. AddressLimit \in Nat
        BY AddressLimitAssumption
      <4>2. d <= AddressLimit - (a + 4)
        BY <2>2, <3>2
      <4> QED
        BY <2>3, <3>1, <4>1, <4>2
  <2> QED
    BY <2>3, <2>4
<1>3. PICK a \in Ends : \A x \in Ends : a <= x
  BY <1>1, <1>2, HasLeast
<1>4. a \in C /\ a \in Nat /\ a >= s /\ (EndAddress(a) \in C => EndAddress(a) \in S)
  BY <1>1, <1>3
<1>5. ASSUME NEW x \in C, s < x, x <= a, x \in S \/ x - 4 \notin C PROVE FALSE
  <2> DEFINE Bad == {y \in C : s < y /\ (y \in S \/ y - 4 \notin C)}
  <2>1. Bad \in SUBSET Nat /\ x \in Bad
    BY <1>1, <1>5
  <2>2. PICK y \in Bad : \A z \in Bad : y <= z
    BY <2>1, HasLeast
  <2>3. y \in S /\ y \in C /\ y \in Nat /\ s < y /\ y <= a
    BY <1>1, <1>4, <1>5, <2>1, <2>2 DEF IsCut, kAArch64InstructionSize
  <2>4. s <= y - 4
    BY <1>1, <2>3, AlignedFacts DEF kAArch64InstructionSize
  <2>5. y - 4 \notin Ends
    BY <1>3, <1>4, <2>3
  <2>6. EndAddress(y - 4) = y
    BY <2>3 DEF EndAddress, kAArch64InstructionSize
  <2>7. y - 4 \notin C
    BY <1>1, <2>3, <2>4, <2>5, <2>6
  \* Then C has a gap before y, and a run ends at the first.
  <2> DEFINE Holes == {z \in Nat : s < z /\ z <= y - 4 /\ z % 4 = 0 /\ z \notin C}
  <2>8. y - 4 \in Holes
    <3>1. y % 4 = 0 /\ s % 4 = 0 /\ s # y - 4
      BY <1>1, <2>3, <2>7 DEF AlignedAddress, kAArch64InstructionSize
    <3> QED
      BY <1>1, <2>3, <2>4, <2>7, <3>1
  <2>9. PICK z \in Holes : \A w \in Holes : z <= w
    <3>1. Holes \in SUBSET Nat
      OBVIOUS
    <3> QED
      BY <2>8, <3>1, HasLeast
  <2>10. z - 4 \in C /\ s <= z - 4
    <3>1. s % 4 = 0 /\ z \in Nat /\ z % 4 = 0 /\ s < z /\ z <= y - 4
      BY <1>1, <2>9 DEF AlignedAddress, kAArch64InstructionSize
    <3>2. s <= z - 4 /\ z - 4 \in Nat /\ (z - 4) % 4 = 0
      BY <1>1, <3>1
    <3>3. z - 4 \notin Holes
      BY <2>9, <3>1
    <3> QED
      BY <1>1, <2>3, <3>1, <3>2, <3>3
  <2>11. EndAddress(z - 4) = z /\ z \notin C
    BY <2>9 DEF EndAddress, kAArch64InstructionSize
  <2>12. z - 4 \in Ends
    BY <2>10, <2>11
  <2> QED
    BY <1>3, <1>4, <2>3, <2>9, <2>12
<1> QED
  BY <1>4, <1>5 DEF IsLastOf

\* A run has no hole: after one, the next address of C would be a start.
LEMMA RunIsWhole ==
  ASSUME NEW C, NEW S, IsCut(C, S), NEW s \in S, NEW a \in C, IsLastOf(a, s, C, S),
         NEW y \in AlignedAddress, s <= y, y <= a
  PROVE  y \in C
<1> SUFFICES ASSUME y \notin C PROVE FALSE
  OBVIOUS
<1> DEFINE Later == {z \in C : y < z /\ z <= a}
<1>1. C \subseteq AlignedAddress /\ C \subseteq Nat /\ s \in C /\ s \in Nat /\ y \in Nat /\ a \in Nat
  BY AlignedFacts DEF IsCut
<1>2. Later \in SUBSET Nat /\ a \in Later
  <2>1. y < a
    <3>1. y # a
      OBVIOUS
    <3> QED
      BY <1>1, <3>1
  <2>2. a \in Later
    <3>1. a <= a
      BY <1>1
    <3> QED
      BY <2>1, <3>1
  <2>3. Later \in SUBSET Nat
    BY <1>1
  <2> QED
    BY <2>2, <2>3
<1>3. PICK z \in Later : \A w \in Later : z <= w
  BY <1>2, HasLeast
<1>4. z \in C /\ z \in Nat /\ y < z /\ z <= a
  BY <1>1, <1>3
<1>5. z - 4 \notin C
  <2> SUFFICES ASSUME z - 4 \in C PROVE FALSE
    OBVIOUS
  <2>1. y <= z - 4
    BY <1>1, <1>4, AlignedFacts DEF kAArch64InstructionSize
  <2>2. y # z - 4
    OBVIOUS
  <2> QED
    BY <1>1, <1>3, <1>4, <2>1, <2>2
<1>6. z \in S
  BY <1>4, <1>5 DEF IsCut, kAArch64InstructionSize
<1>7. s < z
  BY <1>1, <1>4
<1> QED
  BY <1>4, <1>6, <1>7 DEF IsLastOf

\* Each address of C is in the run of the last start up to it.
LEMMA RunHolds ==
  ASSUME NEW C, NEW S, IsCut(C, S), NEW x \in C
  PROVE  \E s \in S : /\ s <= x
                      /\ \A a \in C : IsLastOf(a, s, C, S) => x <= a
<1>1. C \subseteq AlignedAddress /\ C \subseteq Nat /\ S \subseteq C /\ S \subseteq Nat /\ x \in Nat
  BY AlignedFacts DEF IsCut
<1>2. PICK m \in C : \A y \in C : m <= y
  BY <1>1, HasLeast
<1>3. m \in S
  <2>1. m - 4 \notin C
    BY <1>1, <1>2
  <2> QED
    BY <1>2, <2>1 DEF IsCut, kAArch64InstructionSize
<1> DEFINE Below == {x - s : s \in {t \in S : t <= x}}
<1>4. Below \in SUBSET Nat /\ Below # {}
  <2>1. m <= x
    BY <1>2
  <2>2. \A t \in S : t <= x => x - t \in Nat
    BY <1>1
  <2> QED
    BY <1>3, <2>1, <2>2
<1>5. PICK d \in Below : \A e \in Below : d <= e
  BY <1>4, HasLeast
<1>6. PICK s \in S : s <= x /\ d = x - s
  BY <1>5
<1>7. \A t \in S : t <= x => t <= s
  <2> SUFFICES ASSUME NEW t \in S, t <= x PROVE t <= s
    OBVIOUS
  <2>1. x - t \in Below
    OBVIOUS
  <2>2. d <= x - t
    BY <1>5, <2>1
  <2> QED
    BY <1>1, <1>6, <2>2
<1>8. ASSUME NEW a \in C, IsLastOf(a, s, C, S) PROVE x <= a
  <2> SUFFICES ASSUME a < x PROVE FALSE
    BY <1>1
  <2> DEFINE Later == {z \in C : a < z /\ z <= x}
  <2>1. Later \in SUBSET Nat /\ x \in Later
    <3>1. x <= x
      BY <1>1
    <3>2. x \in Later
      BY <3>1
    <3> QED
      BY <1>1, <3>2
  <2>2. PICK z \in Later : \A w \in Later : z <= w
    BY <2>1, HasLeast
  <2>3. z \in C /\ z \in Nat /\ a < z /\ z <= x /\ a \in Nat
    BY <1>1, <2>2
  <2>4. s <= a /\ s \in Nat
    BY <1>1, <1>8 DEF IsLastOf
  <2>5. z \notin S
    BY <1>1, <1>7, <2>3, <2>4
  <2>6. z - 4 \in C
    BY <2>3, <2>5 DEF IsCut, kAArch64InstructionSize
  <2>7. a <= z - 4
    BY <1>1, <2>3, AlignedFacts DEF kAArch64InstructionSize
  <2>8. z - 4 = a
    BY <1>1, <2>2, <2>3, <2>6, <2>7
  <2>9. EndAddress(a) = z
    BY <2>3, <2>8 DEF EndAddress, kAArch64InstructionSize
  <2> QED
    BY <1>8, <2>3, <2>5, <2>9 DEF IsLastOf
<1> QED
  BY <1>6, <1>8
-----------------------------------------------------------------------------
(***************************************************************************)
(* The blocks of a graph, in terms of the words of the image.              *)
(***************************************************************************)
LeadersOf(covered, entry, ws) ==
  {entry} \cup UNION {({EndAddress(a)} \cap covered) \cup TargetIn(ws[a].insn, covered) :
                        a \in {b \in covered : IsBlockTerminator(ws[b].insn)}}

StartsOf(covered, entry, ws) ==
  {a \in covered : \/ a \in LeadersOf(covered, entry, ws)
                   \/ a - kAArch64InstructionSize \notin covered}

LastOf(s, covered, entry, ws) ==
  CHOOSE a \in covered : IsLastOf(a, s, covered, StartsOf(covered, entry, ws))

BlockAt(s, covered, entry, ws) ==
  LET last == LastOf(s, covered, entry, ws)
  IN [start |-> s, end |-> EndAddress(last), terminatorFlow |-> ws[last].insn.flow,
      successors |-> Successors(ws[last].insn, last, covered)]

BlocksOf(covered, entry, ws) ==
  {BlockAt(s, covered, entry, ws) : s \in StartsOf(covered, entry, ws)}

Starts == StartsOf(visited, request.entry, words)
Last(s) == LastOf(s, visited, request.entry, words)
Block(s) == BlockAt(s, visited, request.entry, words)

\* The blocks are those of the covered set, and whatever was put on the worklist
\* but the entry is what a covered instruction leads to.
BlocksInv == HasBlocks => blocks = {Block(s) : s \in Starts}
OriginInv == \A x \in enqueued : x = request.entry \/ \E a \in visited : LeadsTo(a, x)

BInv == IInv /\ BlocksInv /\ OriginInv

\* The covered set is cut where its blocks start.
LEMMA StartsCut == IInv => IsCut(visited, Starts)
BY DEF IInv, TypeOK, BuilderTypeOK, IsCut, Starts, StartsOf

\* buildBlocks asks the cache, which answers with the words of the image.
LEMMA BuildsTheBlocks ==
  ASSUME IInv
  PROVE  BuildBlocks(visited, request.entry) = {Block(s) : s \in Starts}
<1> DEFINE entry == request.entry
<1>1. \A a \in visited : InsnAt(a) = words[a].insn
  <2> SUFFICES ASSUME NEW a \in visited PROVE InsnAt(a) = words[a].insn
    OBVIOUS
  <2>1. Decodes(a)
    BY DEF IInv, WalkInv, VisitedInv, IsCoverable
  <2> QED
    BY <2>1, LookupIsDecode DEF IInv
<1>2. Leaders(visited, entry) = LeadersOf(visited, entry, words)
  BY <1>1 DEF Leaders, LeadersOf
<1>3. BlockStarts(visited, entry) = Starts
  BY <1>2 DEF BlockStarts, Starts, StartsOf
<1> DEFINE last(s) == CHOOSE a \in visited : IsLastOf(a, s, visited, Starts)
           built(s) == [start |-> s, end |-> EndAddress(last(s)),
                        terminatorFlow |-> InsnAt(last(s)).flow,
                        successors |-> Successors(InsnAt(last(s)), last(s), visited)]
<1>4. BuildBlocks(visited, entry) = {built(s) : s \in Starts}
  BY <1>3 DEF BuildBlocks
<1>5. \A s \in Starts : built(s) = Block(s)
  <2> SUFFICES ASSUME NEW s \in Starts PROVE built(s) = Block(s)
    OBVIOUS
  <2>1. last(s) = Last(s)
    BY DEF Last, LastOf, Starts
  <2>2. Last(s) \in visited
    <3>1. \E a \in visited : IsLastOf(a, s, visited, Starts)
      BY StartsCut, LastExists
    <3> QED
      BY <2>1, <3>1
  <2>3. InsnAt(Last(s)) = words[Last(s)].insn
    BY <1>1, <2>2
  <2> HIDE DEF last
  <2> QED
    BY <2>1, <2>3 DEF Block, BlockAt, Last
<1> HIDE DEF built
<1> QED
  BY <1>4, <1>5

\* What the last instruction of a block is.
LEMMA LastFacts ==
  ASSUME IInv, NEW s \in Starts
  PROVE  /\ Last(s) \in visited /\ IsLastOf(Last(s), s, visited, Starts)
         /\ Block(s).start = s /\ Block(s).end = EndAddress(Last(s))
         /\ Block(s).terminatorFlow = words[Last(s)].insn.flow
         /\ Block(s).successors = Successors(words[Last(s)].insn, Last(s), visited)
         /\ s \in visited /\ visited \subseteq AlignedAddress /\ s \in Nat
         /\ Last(s) \in Nat /\ s <= Last(s)
         /\ InBlock(Block(s)) = {a \in visited : s <= a /\ a <= Last(s)}
<1>1. IsCut(visited, Starts)
  BY StartsCut
<1>2. \E a \in visited : IsLastOf(a, s, visited, Starts)
  BY <1>1, LastExists
<1>3. Last(s) \in visited /\ IsLastOf(Last(s), s, visited, Starts)
  BY <1>2 DEF Last, LastOf, Starts
<1>4. /\ Block(s).start = s /\ Block(s).end = EndAddress(Last(s))
      /\ Block(s).terminatorFlow = words[Last(s)].insn.flow
      /\ Block(s).successors = Successors(words[Last(s)].insn, Last(s), visited)
  BY DEF Block, BlockAt, Last
<1>5. visited \subseteq AlignedAddress /\ s \in visited /\ visited \subseteq Nat
  BY <1>1, AlignedFacts DEF IsCut
<1>6. s <= Last(s)
  BY <1>3, <1>5 DEF IsLastOf
<1>7. InBlock(Block(s)) = {a \in visited : s <= a /\ a <= Last(s)}
  <2>1. \A a \in visited : a < EndAddress(Last(s)) <=> a <= Last(s)
    <3> SUFFICES ASSUME NEW a \in visited PROVE a < EndAddress(Last(s)) <=> a <= Last(s)
      OBVIOUS
    <3>1. a \in AlignedAddress /\ Last(s) \in AlignedAddress /\ a \in Nat /\ Last(s) \in Nat
      BY <1>3, <1>5
    <3>2. Last(s) < a => Last(s) + 4 <= a
      BY <3>1, AlignedFacts DEF kAArch64InstructionSize
    <3> QED
      BY <3>1, <3>2 DEF EndAddress, kAArch64InstructionSize
  <2> QED
    BY <1>4, <2>1 DEF InBlock
<1> QED
  BY <1>3, <1>4, <1>5, <1>6, <1>7
-----------------------------------------------------------------------------
(***************************************************************************)
(* The invariant.                                                          *)
(***************************************************************************)

\* Nothing is enqueued before the first call.
LEMMA InitBInv == Init => BInv
<1> SUFFICES ASSUME Init PROVE BInv
  OBVIOUS
<1>1. IInv
  BY InitIInv
<1>2. BlocksInv /\ OriginInv
  BY DEF Init, BuilderInit, BlocksInv, HasBlocks, OriginInv
<1> QED
  BY <1>1, <1>2 DEF BInv

\* Every step keeps the invariant.
LEMMA NextBInv == BInv /\ [Next]_vars => BInv'
<1> SUFFICES ASSUME BInv, [Next]_vars PROVE BInv'
  OBVIOUS
<1>1. IInv /\ IInv' /\ BlocksInv /\ OriginInv
  BY NextIInv DEF BInv
<1>2. CASE \E req \in Requests : Build(req)
  <2>1. PICK req \in Requests : BeginBuild(req)
    BY <1>2 DEF Build
  <2>2. BlocksInv'
    BY <2>1 DEF BeginBuild, BlocksInv, HasBlocks
  <2>3. OriginInv'
    BY <2>1 DEF BeginBuild, OriginInv
  <2> QED
    BY <1>1, <2>2, <2>3 DEF BInv
<1>3. CASE SkipHardStop \/ SkipUndecodable
  <2>1. /\ status' = "building"
        /\ UNCHANGED <<image, request, visited, enqueued>>
    BY <1>3 DEF SkipHardStop, SkipUndecodable, Drop, Turning
  <2>2. BlocksInv'
    BY <2>1 DEF BlocksInv, HasBlocks
  <2>3. OriginInv'
    BY <1>1, <2>1, Frame DEF OriginInv
  <2> QED
    BY <1>1, <2>2, <2>3 DEF BInv
<1>4. CASE Cover
  <2>1. /\ status' = "building" /\ UNCHANGED <<image, request>>
        /\ visited' = visited \cup {Top}
        /\ enqueued' = enqueued \cup {b \in AlignedAddress :
                                        LeadsTo(Top, b) /\ IsSchedulable(b)}
    BY <1>1, <1>4, CoverFacts DEF Cover, Turning
  <2>2. BlocksInv'
    BY <2>1 DEF BlocksInv, HasBlocks
  <2>3. \A x \in enqueued' : x = request.entry \/ \E a \in visited' : LeadsTo(a, x)
    BY <1>1, <2>1 DEF OriginInv
  <2>4. OriginInv'
    BY <2>1, <2>3, Frame DEF OriginInv
  <2> QED
    BY <1>1, <2>2, <2>4 DEF BInv
<1>5. CASE Return
  <2>1. /\ UNCHANGED <<image, words, request, visited, enqueued>>
        /\ blocks' = IF request.buildBasicBlocks THEN BuildBlocks(visited, request.entry)
                                                 ELSE {}
    BY <1>5 DEF Return, image
  <2>2. BlocksInv'
    <3>1. {Block(s) : s \in Starts} = BlocksOf(visited, request.entry, words)
      BY DEF Block, Starts, BlocksOf
    <3>2. {Block(s) : s \in Starts}' = BlocksOf(visited, request.entry, words)'
      BY DEF Block, Starts, BlocksOf
    <3>3. request.buildBasicBlocks => blocks' = BlocksOf(visited, request.entry, words)
      BY <1>1, <2>1, <3>1, BuildsTheBlocks
    <3>4. BlocksOf(visited, request.entry, words)' = BlocksOf(visited, request.entry, words)
      BY <2>1
    <3> QED
      BY <2>1, <3>2, <3>3, <3>4 DEF BlocksInv, HasBlocks
  <2>3. OriginInv'
    BY <1>1, <2>1, Frame DEF OriginInv
  <2> QED
    BY <1>1, <2>2, <2>3 DEF BInv
<1>6. CASE UNCHANGED vars
  <2>1. UNCHANGED <<image, words, status, request, visited, enqueued, blocks>>
    BY <1>6 DEF vars, builderVars, walkVars, image
  <2>2. BlocksInv'
    <3>1. {Block(s) : s \in Starts} = BlocksOf(visited, request.entry, words)
      BY DEF Block, Starts, BlocksOf
    <3>2. {Block(s) : s \in Starts}' = BlocksOf(visited, request.entry, words)'
      BY DEF Block, Starts, BlocksOf
    <3>4. BlocksOf(visited, request.entry, words)' = BlocksOf(visited, request.entry, words)
      BY <2>1
    <3> QED
      BY <1>1, <2>1, <3>1, <3>2, <3>4 DEF BlocksInv, HasBlocks
  <2>3. OriginInv'
    BY <1>1, <2>1, Frame DEF OriginInv
  <2> QED
    BY <1>1, <2>2, <2>3 DEF BInv
<1> QED
  BY <1>2, <1>3, <1>4, <1>5, <1>6 DEF Next, BuilderStep
-----------------------------------------------------------------------------
(***************************************************************************)
(* The theorems.                                                           *)
(***************************************************************************)

\* The invariant of the blocks holds of every behaviour of the builder.
THEOREM BlockInvariance == Spec => []BInv
<1>1. Init => BInv
  BY InitBInv
<1>2. BInv /\ [Next]_vars => BInv'
  BY NextBInv
<1> QED
  BY <1>1, <1>2, PTL DEF Spec

\* Each covered instruction is in exactly one block, and no block has a hole.
THEOREM BlocksStayPartitioned == Spec => []BlocksPartitionTheCode
<1>1. BInv => BlocksPartitionTheCode
  <2> SUFFICES ASSUME BInv, HasBlocks PROVE BlocksPartitionTheCode
    BY DEF BlocksPartitionTheCode
  <2>1. IInv /\ blocks = {Block(s) : s \in Starts} /\ IsCut(visited, Starts)
    BY StartsCut DEF BInv, BlocksInv
  <2>2. ASSUME NEW a \in visited PROVE \E b \in blocks : a \in InBlock(b)
    <3>1. PICK s \in Starts :
                 s <= a /\ \A l \in visited : IsLastOf(l, s, visited, Starts) => a <= l
      BY <2>1, RunHolds
    <3>2. a <= Last(s)
      BY <2>1, <3>1, LastFacts
    <3>3. a \in InBlock(Block(s))
      BY <2>1, <3>1, <3>2, LastFacts
    <3> QED
      BY <2>1, <3>3
  <2>3. ASSUME NEW s \in Starts, NEW t \in Starts, s < t,
               NEW a \in InBlock(Block(s)), a \in InBlock(Block(t))
        PROVE  FALSE
    <3>1. /\ a \in Nat /\ t <= a /\ a <= Last(s) /\ t \in visited /\ t \in Nat
          /\ Last(s) \in Nat
      BY <2>1, <2>3, LastFacts, AlignedFacts
    <3>2. t <= Last(s)
      BY <3>1
    <3>3. IsLastOf(Last(s), s, visited, Starts)
      BY <2>1, LastFacts
    <3> QED
      BY <2>3, <3>1, <3>2, <3>3 DEF IsLastOf
  <2>4. ASSUME NEW s \in Starts, NEW t \in Starts, Block(s) # Block(t)
        PROVE  InBlock(Block(s)) \cap InBlock(Block(t)) = {}
    <3>1. s \in Nat /\ t \in Nat /\ s # t
      BY <2>1, <2>4, LastFacts
    <3>2. s < t \/ t < s
      BY <3>1
    <3> QED
      BY <2>3, <3>2
  <2>5. ASSUME NEW s \in Starts, NEW a \in AlignedAddress,
               Block(s).start <= a, a < Block(s).end
        PROVE  a \in visited
    <3>1. /\ Last(s) \in visited /\ IsLastOf(Last(s), s, visited, Starts) /\ Last(s) \in Nat
          /\ s <= a /\ a < EndAddress(Last(s)) /\ visited \subseteq AlignedAddress
      BY <2>1, <2>5, LastFacts
    <3>2. a <= Last(s)
      <4>1. a \in Nat /\ Last(s) \in AlignedAddress
        BY <3>1, AlignedFacts
      <4>2. Last(s) < a => Last(s) + 4 <= a
        BY <3>1, <4>1, AlignedFacts DEF kAArch64InstructionSize
      <4> QED
        BY <3>1, <4>1, <4>2 DEF EndAddress, kAArch64InstructionSize
    <3> QED
      BY <2>1, <3>1, <3>2, RunIsWhole
  <2>6. \A b, c \in blocks : b # c => InBlock(b) \cap InBlock(c) = {}
    BY <2>1, <2>4
  <2>7. \A b \in blocks : \A a \in AlignedAddress :
          b.start <= a /\ a < b.end => a \in visited
    BY <2>1, <2>5
  <2> QED
    BY <2>2, <2>6, <2>7 DEF BlocksPartitionTheCode
<1> QED
  BY <1>1, BlockInvariance, PTL

\* A branch or a return is followed by no instruction but a start, and what a
\* branch goes to is a start.
LEMMA TerminatorFacts ==
  ASSUME NEW a \in visited, IsBlockTerminator(words[a].insn)
  PROVE  /\ EndAddress(a) \in visited => EndAddress(a) \in Starts
         /\ \A t \in TargetIn(words[a].insn, visited) : t \in Starts
<1>1. ({EndAddress(a)} \cap visited) \cup TargetIn(words[a].insn, visited)
        \subseteq LeadersOf(visited, request.entry, words)
  BY DEF LeadersOf
<1>2. TargetIn(words[a].insn, visited) \subseteq visited
  BY DEF TargetIn
<1> QED
  BY <1>1, <1>2 DEF Starts, StartsOf

\* An instruction followed by none of its block ends the block.
LEMMA EndsItsBlock ==
  ASSUME IInv, NEW a \in visited, EndAddress(a) \in visited => EndAddress(a) \in Starts,
         NEW s \in Starts, s <= a, a <= Last(s)
  PROVE  a = Last(s)
<1>1. /\ Last(s) \in visited /\ IsLastOf(Last(s), s, visited, Starts) /\ Last(s) \in Nat
      /\ visited \subseteq AlignedAddress /\ s \in Nat
  BY LastFacts
<1>2. a \in AlignedAddress /\ Last(s) \in AlignedAddress /\ a \in Nat
  BY <1>1, AlignedFacts
<1> SUFFICES ASSUME a < Last(s) PROVE FALSE
  BY <1>1, <1>2
<1>3. a + 4 <= Last(s)
  BY <1>1, <1>2, AlignedFacts DEF kAArch64InstructionSize
<1>4. EndAddress(a) = a + 4
  BY DEF EndAddress, kAArch64InstructionSize
<1>5. EndAddress(a) \in AlignedAddress
  <2>1. AddressLimit \in Nat
    BY AddressLimitAssumption
  <2>2. a % 4 = 0 /\ Last(s) \in Nat /\ Last(s) < AddressLimit
    BY <1>2, <2>1 DEF AlignedAddress, Address, kAArch64InstructionSize
  <2>3. a + 4 \in 0..AddressLimit - 1
    BY <1>2, <1>3, <2>1, <2>2
  <2>4. (a + 4) % 4 = 0
    BY <1>2, <2>2
  <2> QED
    BY <1>4, <2>3, <2>4 DEF AlignedAddress, Address, kAArch64InstructionSize
<1>6. EndAddress(a) \in visited
  <2>1. s <= EndAddress(a) /\ EndAddress(a) <= Last(s)
    BY <1>1, <1>2, <1>3, <1>4
  <2> QED
    BY <1>1, <1>5, <2>1, RunIsWhole, StartsCut
<1>7. EndAddress(a) \in Starts /\ s < EndAddress(a) /\ EndAddress(a) <= Last(s)
  BY <1>1, <1>2, <1>3, <1>4, <1>6
<1> QED
  BY <1>1, <1>6, <1>7 DEF IsLastOf

\* Control leaves a block after its last instruction only, and goes to the first
\* of another.
THEOREM BlocksStayBasic == Spec => []BlocksAreBasic
<1>1. BInv => BlocksAreBasic
  <2> SUFFICES ASSUME BInv, HasBlocks PROVE BlocksAreBasic
    BY DEF BlocksAreBasic
  <2>1. IInv /\ blocks = {Block(s) : s \in Starts}
    BY DEF BInv, BlocksInv
  <2>2. ASSUME NEW s \in Starts, NEW a \in InBlock(Block(s)),
               IsBlockTerminator(words[a].insn)
        PROVE  EndAddress(a) = Block(s).end
    <3>1. a \in visited /\ s <= a /\ a <= Last(s)
      BY <2>1, LastFacts
    <3>2. a = Last(s)
      BY <2>1, <2>2, <3>1, TerminatorFacts, EndsItsBlock
    <3> QED
      BY <2>1, <3>2, LastFacts
  <2>3. ASSUME NEW s \in Starts, NEW e \in Block(s).successors
        PROVE  e.target \in Starts
    <3> DEFINE insn == words[Last(s)].insn
    <3>1. Last(s) \in visited /\ IsLastOf(Last(s), s, visited, Starts)
      BY <2>1, LastFacts
    <3>2. \/ e.target \in TargetIn(insn, visited)
          \/ e.target = EndAddress(Last(s)) /\ EndAddress(Last(s)) \in visited
      BY <2>1, LastFacts DEF Successors
    <3>3. CASE e.target \in TargetIn(insn, visited)
      <4>1. IsBlockTerminator(insn)
        BY <3>3 DEF TargetIn, IsBranch, IsBlockTerminator
      <4> QED
        BY <3>1, <3>3, <4>1, TerminatorFacts
    <3>4. CASE e.target = EndAddress(Last(s)) /\ EndAddress(Last(s)) \in visited
      BY <3>1, <3>4 DEF IsLastOf
    <3> QED
      BY <3>2, <3>3, <3>4
  <2>4. ASSUME NEW s \in Starts, NEW e \in Block(s).successors
        PROVE  \E c \in blocks : c.start = e.target
    <3>1. e.target \in Starts
      BY <2>3
    <3>2. Block(e.target).start = e.target
      BY <2>1, <3>1, LastFacts
    <3> QED
      BY <2>1, <3>1, <3>2
  <2> QED
    BY <2>1, <2>2, <2>4 DEF BlocksAreBasic
<1> QED
  BY <1>1, BlockInvariance, PTL

\* The edges account for the walk: a block that no edge enters is that of the
\* entry or follows an indirect branch that the walk went past.
THEOREM BlocksStayReached == Spec => []EveryBlockIsReached
<1>1. BInv => EveryBlockIsReached
  <2>1. ASSUME BInv, HasBlocks, NEW s \in Starts, s # request.entry
        PROVE  \/ \E c \in blocks : \E e \in c.successors : e.target = s
               \/ /\ request.linearPastIndirectBranch
                  /\ \E c \in blocks : c.end = s /\ c.terminatorFlow = "indirectBranch"
    <3>1. IInv /\ blocks = {Block(x) : x \in Starts} /\ OriginInv
      BY <2>1 DEF BInv, BlocksInv
    <3>2. s \in visited /\ s \in enqueued
      BY <3>1, LastFacts DEF IInv, WalkInv, VisitedInv
    <3>3. PICK a \in visited : LeadsTo(a, s)
      BY <2>1, <3>1, <3>2 DEF OriginInv
    <3> DEFINE insn == words[a].insn
    <3>4. PICK t \in Starts : t <= a /\ a <= Last(t)
      <4>1. IsCut(visited, Starts)
        BY <3>1, StartsCut
      <4>2. PICK t \in Starts :
                   t <= a /\ \A l \in visited : IsLastOf(l, t, visited, Starts) => a <= l
        BY <4>1, RunHolds
      <4> QED
        BY <3>1, <4>2, LastFacts
    <3>5. Block(t) \in blocks
      BY <3>1
    <3>6. CASE FollowsTarget(insn) /\ s = insn.target
      <4>1. s \in TargetIn(insn, visited) /\ IsBlockTerminator(insn)
        BY <3>2, <3>6 DEF FollowsTarget, TargetIn, IsBranch, IsBlockTerminator
      <4>2. a = Last(t)
        BY <3>1, <3>4, <4>1, TerminatorFacts, EndsItsBlock
      <4>3. [target |-> s, kind |-> "branchTaken"] \in Block(t).successors
        BY <3>1, <4>1, <4>2, LastFacts DEF Successors
      <4> QED
        BY <3>5, <4>3
    <3>7. CASE FollowsFallThrough(insn) /\ s = EndAddress(a)
      <4>1. a = Last(t)
        BY <3>1, <3>4, <3>7, EndsItsBlock
      <4>2. /\ Block(t).end = s /\ Block(t).terminatorFlow = insn.flow
            /\ Block(t).successors = Successors(insn, a, visited)
        BY <3>1, <3>7, <4>1, LastFacts
      <4>3. CASE HasFallThrough(insn)
        <5>1. [target |-> s, kind |-> FallThroughKind(insn)] \in Block(t).successors
          BY <3>2, <3>7, <4>2, <4>3 DEF Successors
        <5> QED
          BY <3>5, <5>1
      <4>4. CASE insn.flow = "indirectBranch" /\ request.linearPastIndirectBranch
        BY <3>5, <4>2, <4>4
      <4> QED
        BY <3>7, <4>3, <4>4 DEF FollowsFallThrough
    <3> QED
      BY <3>3, <3>6, <3>7 DEF LeadsTo
  <2>2. ASSUME BInv, HasBlocks PROVE blocks = {Block(x) : x \in Starts}
    BY <2>2 DEF BInv, BlocksInv
  <2>3. \A x \in Starts : Block(x).start = x
    BY DEF Block, BlockAt
  <2> QED
    BY <2>1, <2>2, <2>3 DEF EveryBlockIsReached
<1> QED
  BY <1>1, BlockInvariance, PTL
-----------------------------------------------------------------------------
(***************************************************************************)
(* The instructions of a graph that is not truncated.                      *)
(***************************************************************************)

\* A walk that is over and not truncated has nothing left to visit.
EmptiedInv == status = "built" /\ ~truncated => worklist = <<>>

\* What the classification makes of an instruction without a target.
LEMMA TargetlessFacts ==
  ASSUME NEW m \in Targetless, NEW ops
  PROVE  /\ Classify(m, ops).hasTarget = FALSE
         /\ Classify(m, ops).flow =
              (IF m \in Continues THEN "sequential"
               ELSE IF m \in RegisterJumps THEN "indirectBranch"
               ELSE IF m \in RegisterCalls THEN "indirectCall" ELSE "return")
<1> USE DEF Targetless, Continues, RegisterJumps, RegisterCalls, Leaves
<1>1. FlowOf(m) = (IF m \in Continues THEN "sequential"
                   ELSE IF m \in RegisterJumps THEN "indirectBranch"
                   ELSE IF m \in RegisterCalls THEN "indirectCall" ELSE "return")
  BY DEF FlowOf, Groups, IsReturn, IsIndirectCall, IsIndirectBranch, IsConditionalBranch
<1>2. HasTarget(m, ops) = FALSE
  BY <1>1 DEF HasTarget
<1> QED
  BY <1>1, <1>2 DEF Classify

\* The operand that is the target is the last one, whatever immediates come
\* before it.
LEMMA OperandFacts ==
  ASSUME NEW m \in Targeted, NEW t
  PROVE  /\ Immediates(Operands(m, t)) # {}
         /\ Operands(m, t)[TargetOperand(Operands(m, t))].value = t
<1> DEFINE ops == Operands(m, t)
<1>0. PICK n \in {1, 2, 3} : DOMAIN ops = 1..n /\ ops[n] = Immediate(t)
  <2> DEFINE IsTarget(n) == DOMAIN ops = 1..n /\ ops[n] = Immediate(t)
  <2>1. CASE m \in {"b", "b.eq", "bl"}
    <3>1. ops = <<Immediate(t)>>
      BY <2>1 DEF Operands, RegisterJumps, RegisterCalls, Leaves
    <3>2. IsTarget(1)
      BY <3>1
    <3> QED
      BY <3>2
  <2>2. CASE m \in {"cbz", "cbnz"}
    <3>1. ops = <<Register, Immediate(t)>>
      BY <2>2 DEF Operands, RegisterJumps, RegisterCalls, Leaves
    <3>2. IsTarget(2)
      BY <3>1
    <3> QED
      BY <3>2
  <2>3. CASE m \in {"tbz", "tbnz"}
    <3>1. ops = <<Register, Immediate(3), Immediate(t)>>
      BY <2>3 DEF Operands, RegisterJumps, RegisterCalls, Leaves
    <3>2. IsTarget(3)
      BY <3>1
    <3> QED
      BY <3>2
  <2> QED
    BY <2>1, <2>2, <2>3 DEF Targeted, Tests, Jumps, Calls
<1> HIDE DEF ops
<1>1. Immediates(ops) \subseteq 1..n /\ n \in Immediates(ops)
  BY <1>0 DEF Immediates, Immediate
<1>2. \A k \in Immediates(ops) : (\A j \in Immediates(ops) : j <= k) <=> k = n
  BY <1>1
<1>3. TargetOperand(ops) = n
  BY <1>1, <1>2 DEF TargetOperand
<1>4. Immediates(ops) # {} /\ ops[TargetOperand(ops)].value = t
  BY <1>0, <1>1, <1>3 DEF Immediate
<1> QED
  BY <1>4 DEF ops

\* What the classification makes of an instruction with a target.
LEMMA TargetedFacts ==
  ASSUME NEW m \in Targeted, NEW t
  PROVE  /\ Classify(m, Operands(m, t)).hasTarget = TRUE
         /\ Classify(m, Operands(m, t)).target = t
         /\ Classify(m, Operands(m, t)).flow =
              (IF m \in Tests THEN "conditionalBranch"
               ELSE IF m \in Jumps THEN "unconditionalBranch" ELSE "directCall")
<1> USE DEF Targeted, Tests, Jumps, Calls
<1>1. /\ FlowOf(m) = (IF m \in Tests THEN "conditionalBranch"
                      ELSE IF m \in Jumps THEN "unconditionalBranch" ELSE "directCall")
      /\ "branch_relative" \in Groups(m)
  BY DEF FlowOf, Groups, IsReturn, IsIndirectCall, IsIndirectBranch, IsConditionalBranch
<1>2. HasTarget(m, Operands(m, t)) = TRUE
  BY <1>1, OperandFacts DEF HasTarget
<1> QED
  BY <1>1, <1>2, OperandFacts DEF Classify

\* The flow that the classification gives to an instruction decides what the
\* processor does, and its target where it goes.
LEMMA DecodingFacts ==
  ASSUME NEW d \in Decodings
  PROVE  /\ d.insn.flow = "sequential" <=> d.mnemonic \in Continues
         /\ d.insn.flow = "conditionalBranch" <=> d.mnemonic \in Tests
         /\ d.insn.flow = "unconditionalBranch" <=> d.mnemonic \in Jumps
         /\ d.insn.flow = "directCall" <=> d.mnemonic \in Calls
         /\ d.insn.flow = "indirectBranch" <=> d.mnemonic \in RegisterJumps
         /\ d.insn.flow = "indirectCall" <=> d.mnemonic \in RegisterCalls
         /\ d.mnemonic \in Tests \cup Jumps =>
              d.insn.hasTarget /\ d.insn.target = d.target /\ d.target \in Address
<1>1. CASE \E m \in Targetless :
             d = [mnemonic |-> m, target |-> 0, insn |-> Classify(m, Operands(m, 0))]
  <2>1. PICK m \in Targetless : d.mnemonic = m /\ d.insn = Classify(m, Operands(m, 0))
    BY <1>1
  <2> DEFINE insn == Classify(m, Operands(m, 0))
  <2>2. insn.flow = (IF m \in Continues THEN "sequential"
                     ELSE IF m \in RegisterJumps THEN "indirectBranch"
                     ELSE IF m \in RegisterCalls THEN "indirectCall" ELSE "return")
    BY TargetlessFacts
  <2> HIDE DEF insn
  <2>3. d.mnemonic = m /\ d.insn.flow = insn.flow
    BY <2>1 DEF insn
  <2> QED
    BY <2>2, <2>3
       DEF Targetless, Continues, RegisterJumps, RegisterCalls, Leaves, Tests, Jumps, Calls
<1>2. CASE \E m \in Targeted, t \in {b \in Address : b % 2 = 0} :
             d = [mnemonic |-> m, target |-> t, insn |-> Classify(m, Operands(m, t))]
  <2>1. PICK m \in Targeted, t \in Address :
               d.mnemonic = m /\ d.target = t /\ d.insn = Classify(m, Operands(m, t))
    BY <1>2
  <2> DEFINE insn == Classify(m, Operands(m, t))
  <2>2. /\ insn.hasTarget = TRUE /\ insn.target = t
        /\ insn.flow = (IF m \in Tests THEN "conditionalBranch"
                        ELSE IF m \in Jumps THEN "unconditionalBranch" ELSE "directCall")
    BY TargetedFacts
  <2> HIDE DEF insn
  <2>3. d.mnemonic = m /\ d.target = t /\ d.insn = insn
    BY <2>1 DEF insn
  <2>4. d.insn.hasTarget /\ d.insn.target = d.target /\ d.target \in Address
    BY <2>2, <2>3
  <2>5. d.insn.flow = insn.flow
    BY <2>3
  <2> QED
    BY <2>2, <2>3, <2>4, <2>5
       DEF Targeted, Continues, RegisterJumps, RegisterCalls, Tests, Jumps, Calls
<1> QED
  BY <1>1, <1>2 DEF Decodings

\* Control goes, as the builder sees it, to where the processor goes.
LEMMA ProcessorIsFollowed ==
  ASSUME NEW a \in AlignedAddress, NEW d \in MayBe(a), NEW b \in ProcessorNext(d, a)
  PROVE  LeadsTo(a, b) /\ b \in Int
<1>1. d \in Decodings /\ d.insn = words[a].insn
  BY DEF MayBe
<1>2. CASE d.mnemonic \in Tests \cup Jumps /\ b = d.target
  BY <1>1, <1>2, DecodingFacts, AddressLimitAssumption
     DEF LeadsTo, FollowsTarget, IsBranch, Address
<1>3. CASE /\ d.mnemonic \in Continues \cup Tests \cup Calls \cup RegisterCalls
           /\ b = EndAddress(a)
  <2>1. b \in Int
    BY <1>3, AlignedFacts DEF EndAddress, kAArch64InstructionSize
  <2> QED
    BY <1>1, <1>3, <2>1, DecodingFacts DEF LeadsTo, FollowsFallThrough, HasFallThrough
<1> QED
  BY <1>2, <1>3 DEF ProcessorNext

\* And nowhere else, but past a jump through a register.
LEMMA OnlyProcessorIsFollowed ==
  ASSUME NEW a, NEW b, LeadsTo(a, b)
  PROVE  \/ \A d \in MayBe(a) : b \in ProcessorNext(d, a)
         \/ request.linearPastIndirectBranch /\ b = EndAddress(a)
            /\ \A d \in MayBe(a) : d.mnemonic \in RegisterJumps
<1>1. \A d \in MayBe(a) : d \in Decodings /\ d.insn = words[a].insn
  BY DEF MayBe
<1>2. CASE FollowsTarget(words[a].insn) /\ b = words[a].insn.target
  BY <1>1, <1>2, DecodingFacts DEF FollowsTarget, IsBranch, ProcessorNext
<1>3. CASE HasFallThrough(words[a].insn) /\ b = EndAddress(a)
  BY <1>1, <1>3, DecodingFacts DEF HasFallThrough, ProcessorNext
<1>4. CASE /\ words[a].insn.flow = "indirectBranch" /\ request.linearPastIndirectBranch
           /\ b = EndAddress(a)
  BY <1>1, <1>4, DecodingFacts
<1> QED
  BY <1>2, <1>3, <1>4 DEF LeadsTo, FollowsFallThrough

\* A graph that is not truncated has all that the processor can run of the
\* function inside the bounds of the request, and nothing else but what follows
\* a jump through a register: whatever the image holds, the classification and
\* the walk lose no successor between them and invent none.
THEOREM GraphsStayTrue == Spec => []GraphsFollowTheProcessor
<1>1. Init => EmptiedInv
  BY DEF Init, BuilderInit, EmptiedInv
<1>2. EmptiedInv /\ [Next]_vars => EmptiedInv'
  <2> SUFFICES ASSUME EmptiedInv, [Next]_vars PROVE EmptiedInv'
    OBVIOUS
  <2>1. CASE \E req \in Requests : Build(req)
    BY <2>1 DEF Build, BeginBuild, EmptiedInv
  <2>2. CASE SkipHardStop \/ SkipUndecodable \/ Cover
    <3>1. status' # "built"
      BY <2>2 DEF SkipHardStop, SkipUndecodable, Cover, Drop, Turning
    <3> QED
      BY <3>1 DEF EmptiedInv
  <2>3. CASE Return
    BY <2>3 DEF Return, EmptiedInv
  <2>4. CASE UNCHANGED vars
    BY <2>4 DEF vars, builderVars, walkVars, EmptiedInv
  <2> QED
    BY <2>1, <2>2, <2>3, <2>4 DEF Next, BuilderStep
<1>3. BInv /\ EmptiedInv => GraphsFollowTheProcessor
  <2> SUFFICES ASSUME BInv, EmptiedInv, status = "built", ~truncated
               PROVE  GraphsFollowTheProcessor
    BY DEF GraphsFollowTheProcessor
  <2>1. /\ worklist = <<>> /\ request \in CfgBuildRequest
        /\ visited \subseteq AlignedAddress /\ visited \subseteq enqueued
    BY DEF BInv, EmptiedInv, IInv, TypeOK, BuilderTypeOK, WalkInv, VisitedInv
  <2>2. ASSUME NEW a \in visited, NEW d \in MayBe(a), NEW b \in ProcessorNext(d, a),
               IsSchedulable(b), IsCoverable(b)
        PROVE  b \in visited
    <3>1. LeadsTo(a, b) /\ b \in AlignedAddress
      BY <2>1, <2>2, ProcessorIsFollowed, SchedulableType
    <3>2. b \in enqueued
      BY <2>2, <3>1 DEF BInv, IInv, WalkInv, FollowedInv
    <3>3. Items(worklist) = {}
      BY <2>1 DEF Items
    <3> QED
      BY <2>2, <3>2, <3>3 DEF BInv, IInv, WalkInv, NothingForgotten
  <2>3. ASSUME NEW b \in visited \ {request.entry}
        PROVE  \E a \in visited :
                 \/ \A d \in MayBe(a) : b \in ProcessorNext(d, a)
                 \/ request.linearPastIndirectBranch /\ b = EndAddress(a)
                    /\ \A d \in MayBe(a) : d.mnemonic \in RegisterJumps
    <3>1. PICK a \in visited : LeadsTo(a, b)
      BY <2>1, <2>3 DEF BInv, OriginInv
    <3> QED
      BY <3>1, OnlyProcessorIsFollowed
  <2> QED
    BY <2>2, <2>3 DEF GraphsFollowTheProcessor
<1>4. Spec => []EmptiedInv
  BY <1>1, <1>2, PTL DEF Spec
<1> QED
  BY <1>3, <1>4, BlockInvariance, PTL
================================================================================
