---------------------- MODULE RecursiveDisassemblerProofs ----------------------
(***************************************************************************)
(* What RecursiveDisassembler guarantees for every image, every set of     *)
(* seeds and every cap, proved with TLAPS.                                 *)
(***************************************************************************)
EXTENDS RecursiveDisassembler, FiniteSetTheorems, TLAPS

-----------------------------------------------------------------------------
(***************************************************************************)
(* The worklist.                                                           *)
(***************************************************************************)

\* The address after a word that can be read is still an address.
LEMMA ReadableWord ==
  ASSUME IsImage(regions, words), NEW a \in AlignedAddress, ReadsWord(a)
  PROVE  EndAddress(a) \in AlignedAddress
<1> USE DEF AlignedAddress, Address, kAArch64InstructionSize
<1> DEFINE i == CHOOSE k \in RegionsAt(a) : TRUE
<1>1. i \in RegionsAt(a) /\ regions[i].end - a >= 4
  BY DEF ReadsWord, Available, Contains, RegionContaining
<1>2. i \in DOMAIN regions /\ regions[i].start <= a
  BY <1>1 DEF RegionsAt
<1> HIDE DEF i
<1>3. regions[i] \in Region
  BY <1>2 DEF IsImage
<1> QED
  BY <1>1, <1>2, <1>3, AddressLimitAssumption DEF EndAddress, Region

\* A worklist, as the addresses on it.
Items(ws) == {ws[i] : i \in DOMAIN ws}
Distinct(ws) == \A i, j \in DOMAIN ws : ws[i] = ws[j] => i = j

\* Popping takes the top, and only the top, off the stack.
LEMMA PoppedEffect ==
  ASSUME NEW ws \in Seq(AlignedAddress), ws # <<>>, Distinct(ws)
  PROVE  LET top == ws[Len(ws)]
             rest == SubSeq(ws, 1, Len(ws) - 1)
         IN /\ top \in AlignedAddress /\ top \in Items(ws)
            /\ rest \in Seq(AlignedAddress)
            /\ Distinct(rest)
            /\ Items(rest) = Items(ws) \ {top}
<1> DEFINE rest == SubSeq(ws, 1, Len(ws) - 1)
<1>1. Len(ws) \in Nat /\ Len(ws) > 0 /\ DOMAIN ws = 1 .. Len(ws)
  OBVIOUS
<1>2. /\ rest \in Seq(AlignedAddress)
      /\ DOMAIN rest = 1 .. Len(ws) - 1
      /\ \A k \in 1 .. Len(ws) - 1 : rest[k] = ws[k]
  BY <1>1
<1>3. \A k \in 1 .. Len(ws) - 1 : ws[k] # ws[Len(ws)]
  BY <1>1 DEF Distinct
<1> HIDE DEF rest
<1>4. Items(rest) = Items(ws) \ {ws[Len(ws)]}
  BY <1>1, <1>2, <1>3 DEF Items
<1>5. Distinct(rest)
  BY <1>1, <1>2 DEF Distinct
<1>6. ws[Len(ws)] \in AlignedAddress /\ ws[Len(ws)] \in Items(ws)
  BY <1>1 DEF Items
<1>7. rest \in Seq(AlignedAddress)
  BY <1>2
<1> QED
  BY <1>4, <1>5, <1>6, <1>7 DEF rest

\* A worklist without duplicates, with the set of all that was ever on it.
IsQueue(q) ==
  /\ q \in [worklist : Seq(AlignedAddress), scheduled : SUBSET AlignedAddress]
  /\ Distinct(q.worklist)
  /\ Items(q.worklist) \subseteq q.scheduled

\* What schedule(t) adds to the latter.
Added(t) == IF IsUsable(t) THEN {t} ELSE {}

\* A usable address is aligned, and an address.
LEMMA UsableType ==
  ASSUME IsImage(regions, words), NEW t \in Int, IsUsable(t)
  PROVE  t \in AlignedAddress
<1>1. PICK i \in DOMAIN regions : regions[i].start <= t /\ t < regions[i].end
  BY DEF IsUsable, Contains, RegionsAt
<1>2. regions[i] \in Region
  BY DEF IsImage
<1> QED
  BY <1>1, <1>2, AddressLimitAssumption
     DEF IsUsable, Region, AlignedAddress, Address, kAArch64InstructionSize

\* schedule(t) keeps the worklist free of duplicates, and puts on it what it
\* adds to the set.
LEMMA ScheduleEffect ==
  ASSUME IsImage(regions, words), NEW q, IsQueue(q), NEW t \in Int
  PROVE  /\ IsQueue(Schedule(q, t))
         /\ Schedule(q, t).scheduled = q.scheduled \cup Added(t)
         /\ Items(Schedule(q, t).worklist)
              = Items(q.worklist) \cup (Added(t) \ q.scheduled)
<1> DEFINE ws == q.worklist
<1>1. CASE IsUsable(t) /\ t \notin q.scheduled
  <2>1. t \in AlignedAddress /\ ws \in Seq(AlignedAddress) /\ Added(t) = {t}
    BY <1>1, UsableType DEF IsQueue, Added
  <2>2. /\ DOMAIN Append(ws, t) = 1 .. Len(ws) + 1
        /\ DOMAIN ws = 1 .. Len(ws) /\ Len(ws) \in Nat
        /\ \A i \in DOMAIN ws : Append(ws, t)[i] = ws[i]
        /\ Append(ws, t)[Len(ws) + 1] = t
        /\ Append(ws, t) \in Seq(AlignedAddress)
    BY <2>1
  <2>3. Items(Append(ws, t)) = Items(ws) \cup {t}
    BY <2>2 DEF Items
  <2>4. \A k \in DOMAIN ws : ws[k] # t
    BY <1>1 DEF Items, IsQueue
  <2>5. Distinct(Append(ws, t))
    BY <2>2, <2>4 DEF Distinct, IsQueue
  <2>6. Schedule(q, t)
          = [worklist |-> Append(ws, t), scheduled |-> q.scheduled \cup {t}]
    BY <1>1 DEF Schedule
  <2>7. IsQueue([worklist |-> Append(ws, t), scheduled |-> q.scheduled \cup {t}])
    BY <2>1, <2>2, <2>3, <2>5 DEF IsQueue
  <2>8. /\ Schedule(q, t).worklist = Append(ws, t)
        /\ Schedule(q, t).scheduled = q.scheduled \cup {t}
    BY <2>6
  <2>9. Items(ws) \cup {t} = Items(ws) \cup (Added(t) \ q.scheduled)
    BY <1>1, <2>1
  <2> QED
    BY <2>1, <2>3, <2>6, <2>7, <2>8, <2>9
<1>2. CASE ~(IsUsable(t) /\ t \notin q.scheduled)
  BY <1>2 DEF Schedule, Added
<1> QED
  BY <1>1, <1>2
-----------------------------------------------------------------------------
(***************************************************************************)
(* The inductive invariant: everything scheduled is disassembled, waiting  *)
(* or data; whatever disassembled code leads to, and every seed taken, is  *)
(* scheduled; nothing is scheduled that could be left out.                 *)
(***************************************************************************)
QueueInv == Distinct(worklist) /\ Items(worklist) \subseteq scheduled \ disassembled

DisassembledInv ==
  disassembled \subseteq scheduled /\ \A a \in disassembled : Decodes(a)

NothingForgotten ==
  \A x \in scheduled : x \in disassembled \/ x \in Items(worklist) \/ ~Decodes(x)

FollowedInv ==
  \A a \in disassembled, b \in AlignedAddress :
    LeadsTo(a, b) /\ IsUsable(b) => b \in scheduled

SeededInv == \A s \in seeds \ unseeded : IsUsable(s) => s \in scheduled

MinimalInv ==
  \A S \in SUBSET AlignedAddress :
    Flow!Closed(S) => {x \in scheduled : Decodes(x)} \subseteq S

SizeInv ==
  IsFiniteSet(disassembled) /\ Cardinality(disassembled) \in Nat
    /\ Cardinality(disassembled) <= maxInstructions

StartsInv ==
  functionStarts = {s \in seeds \ unseeded : Contains(s)}
                     \cup UNION {CalledFrom(a) : a \in disassembled}

PhaseInv ==
  /\ phase = "idle" => /\ seeds = {} /\ unseeded = {} /\ worklist = <<>>
                       /\ scheduled = {} /\ disassembled = {} /\ functionStarts = {}
  /\ phase \in {"traversing", "discovered"} => unseeded = {}

WalkInv == QueueInv /\ DisassembledInv /\ NothingForgotten /\ FollowedInv
             /\ SeededInv /\ MinimalInv

IInv == TypeOK /\ WalkInv /\ SizeInv /\ StartsInv /\ PhaseInv
-----------------------------------------------------------------------------
\* The image decides what is usable and where code leads.
LEMMA ImageFrame ==
  ASSUME UNCHANGED image
  PROVE  /\ \A t : Contains(t)' <=> Contains(t)
         /\ \A t : IsUsable(t)' <=> IsUsable(t)
         /\ \A t : Decodes(t)' <=> Decodes(t)
         /\ \A a, b : LeadsTo(a, b)' <=> LeadsTo(a, b)
         /\ \A a : CalledFrom(a)' = CalledFrom(a)
         /\ FlowEdges' = FlowEdges
<1> USE DEF image
<1>1. \A t : Contains(t)' <=> Contains(t)
  BY DEF Contains, RegionsAt
<1>2. \A t : IsUsable(t)' <=> IsUsable(t)
  BY <1>1 DEF IsUsable
<1>3. \A t : RegionContaining(t)' = RegionContaining(t)
  BY DEF RegionContaining, RegionsAt
<1>4. \A t : Decodes(t)' <=> Decodes(t)
  BY <1>1, <1>3 DEF Decodes, ReadsWord, Available
<1>5. \A a, b : LeadsTo(a, b)' <=> LeadsTo(a, b)
  BY DEF LeadsTo
<1>6. FlowEdges' = FlowEdges
  BY <1>2, <1>4, <1>5 DEF FlowEdges
<1>7. \A a : CalledFrom(a)' = CalledFrom(a)
  BY <1>1 DEF CalledFrom, StartAt
<1> QED
  BY <1>1, <1>2, <1>4, <1>5, <1>6, <1>7

\* The seeds besides decide where it starts.
LEMMA Frame ==
  ASSUME UNCHANGED <<image, seeds>>
  PROVE  /\ FlowRoots' = FlowRoots
         /\ \A S : Flow!Closed(S)' <=> Flow!Closed(S)
<1>1. FlowRoots' = FlowRoots
  BY ImageFrame DEF FlowRoots
<1>2. FlowEdges' = FlowEdges
  BY ImageFrame
<1> QED
  BY <1>1, <1>2 DEF Flow!Closed

\* The invariant holds before the call.
LEMMA InitIInv == Init => IInv
<1> SUFFICES ASSUME Init PROVE IInv
  OBVIOUS
<1> USE DEF Init, DiscoverInit
<1>1. <<>> \in Seq(AlignedAddress)
  OBVIOUS
<1>2. TypeOK
  BY <1>1, ImagesAssumption DEF TypeOK, ImageInit
<1>3. WalkInv
  BY DEF WalkInv, QueueInv, DisassembledInv, NothingForgotten, FollowedInv, SeededInv,
         MinimalInv, Items, Distinct
<1>4. SizeInv
  BY FS_EmptySet DEF SizeInv
<1>5. StartsInv /\ PhaseInv
  BY DEF StartsInv, PhaseInv
<1> QED
  BY <1>2, <1>3, <1>4, <1>5 DEF IInv

\* The call: nothing is scheduled yet.
LEMMA DiscoverIInv ==
  ASSUME IInv, NEW from \in SUBSET Address, NEW cap \in Nat, Discover(from, cap)
  PROVE  IInv'
<1>1. /\ phase = "idle" /\ phase' = "seeding" /\ seeds' = from /\ unseeded' = from
      /\ maxInstructions' = cap
      /\ UNCHANGED <<image, scheduled, worklist, disassembled, functionStarts>>
      /\ scheduled = {} /\ worklist = <<>> /\ disassembled = {} /\ functionStarts = {}
  BY DEF Discover, IInv, PhaseInv
<1>2. TypeOK'
  BY <1>1 DEF IInv, TypeOK, image
<1>3. WalkInv'
  BY <1>1 DEF WalkInv, QueueInv, DisassembledInv, NothingForgotten, FollowedInv,
              SeededInv, MinimalInv, Items, Distinct
<1>4. SizeInv'
  BY <1>1, FS_EmptySet DEF SizeInv
<1>5. StartsInv' /\ PhaseInv'
  BY <1>1 DEF StartsInv, PhaseInv
<1> QED
  BY <1>2, <1>3, <1>4, <1>5 DEF IInv

\* A seed is scheduled when it is usable, and starts a function when it is code.
LEMMA TakeSeedIInv ==
  ASSUME IInv, NEW seed \in unseeded, TakeSeed(seed)
  PROVE  IInv'
<1> DEFINE q == [worklist |-> worklist, scheduled |-> scheduled]
<1>1. /\ phase = "seeding" /\ unseeded' = unseeded \ {seed}
      /\ functionStarts' = functionStarts \cup StartAt(TRUE, seed)
      /\ worklist' = Schedule(q, seed).worklist
      /\ scheduled' = Schedule(q, seed).scheduled
      /\ UNCHANGED <<image, phase, seeds, maxInstructions, disassembled>>
  BY DEF TakeSeed
<1>2. IsImage(regions, words) /\ seed \in Int /\ seed \in seeds
  BY AddressLimitAssumption DEF IInv, TypeOK, Address
<1>3. IsQueue(q)
  BY DEF IInv, TypeOK, WalkInv, QueueInv, IsQueue
<1>4. /\ IsQueue(Schedule(q, seed))
      /\ scheduled' = scheduled \cup Added(seed)
      /\ Items(worklist') = Items(worklist) \cup (Added(seed) \ scheduled)
  BY <1>1, <1>2, <1>3, ScheduleEffect
<1>5. /\ worklist' \in Seq(AlignedAddress) /\ scheduled' \subseteq AlignedAddress
      /\ Distinct(worklist')
  BY <1>1, <1>4 DEF IsQueue
<1> HIDE DEF q
<1>6. TypeOK'
  BY <1>1, <1>2, <1>5 DEF IInv, TypeOK, image, StartAt
<1>7. WalkInv'
  <2> USE DEF IInv, WalkInv
  <2>1. QueueInv'
    BY <1>1, <1>4, <1>5 DEF QueueInv, DisassembledInv
  <2>2. DisassembledInv' /\ FollowedInv'
    BY <1>1, <1>4, ImageFrame DEF DisassembledInv, FollowedInv
  <2>3. NothingForgotten'
    BY <1>1, <1>4, ImageFrame DEF NothingForgotten
  <2>4. SeededInv'
    BY <1>1, <1>4, ImageFrame DEF SeededInv, Added
  <2>5. MinimalInv'
    <3> SUFFICES ASSUME NEW S \in SUBSET AlignedAddress, Flow!Closed(S),
                        NEW x \in scheduled', Decodes(x)
                 PROVE  x \in S
      BY <1>1, Frame, ImageFrame DEF MinimalInv
    <3>1. CASE x \in scheduled
      BY <3>1 DEF MinimalInv
    <3>2. CASE x \notin scheduled
      <4>1. x = seed /\ IsUsable(x) /\ x \in AlignedAddress
        BY <1>4, <1>5, <3>2 DEF Added
      <4>2. x \in FlowRoots
        BY <1>2, <4>1 DEF FlowRoots
      <4> QED
        BY <4>2 DEF Flow!Closed
    <3> QED
      BY <3>1, <3>2
  <2> QED
    BY <2>1, <2>2, <2>3, <2>4, <2>5
<1>8. SizeInv'
  BY <1>1 DEF IInv, SizeInv
<1>9. StartsInv'
  <2>1. {s \in seeds \ (unseeded \ {seed}) : Contains(s)}
          = {s \in seeds \ unseeded : Contains(s)} \cup StartAt(TRUE, seed)
    BY <1>2 DEF StartAt
  <2>2. \A a : CalledFrom(a)' = CalledFrom(a)
    BY <1>1, ImageFrame
  <2>3. \A a : Contains(a)' <=> Contains(a)
    BY <1>1, ImageFrame
  <2> QED
    BY <1>1, <2>1, <2>2, <2>3 DEF IInv, StartsInv
<1>10. PhaseInv'
  BY <1>1 DEF PhaseInv
<1> QED
  BY <1>6, <1>7, <1>8, <1>9, <1>10 DEF IInv

\* What is on top of the worklist of a turn.
LEMMA TopFacts ==
  ASSUME IInv, Turning
  PROVE  /\ Top \in AlignedAddress
         /\ Top \in Items(worklist) /\ Top \in scheduled /\ Top \notin disassembled
         /\ Popped.worklist \in Seq(AlignedAddress)
         /\ Distinct(Popped.worklist)
         /\ Items(Popped.worklist) = Items(worklist) \ {Top}
<1>1. worklist \in Seq(AlignedAddress) /\ worklist # <<>> /\ Distinct(worklist)
  BY DEF IInv, TypeOK, WalkInv, QueueInv, Turning
<1>2. Items(worklist) \subseteq scheduled \ disassembled
  BY DEF IInv, WalkInv, QueueInv
<1>3. Popped.worklist = SubSeq(worklist, 1, Len(worklist) - 1)
  BY DEF Popped
<1> QED
  BY <1>1, <1>2, <1>3, PoppedEffect DEF Top

\* A turn that meets data only takes it off the worklist.
LEMMA SkipDataIInv ==
  ASSUME IInv, SkipData
  PROVE  IInv'
<1>1. /\ Turning /\ ~Decodes(Top) /\ worklist' = Popped.worklist
      /\ UNCHANGED <<image, phase, seeds, unseeded, maxInstructions, scheduled,
                     disassembled, functionStarts>>
  BY DEF SkipData
<1>2. /\ worklist' \in Seq(AlignedAddress) /\ Distinct(worklist')
      /\ Items(worklist') = Items(worklist) \ {Top}
  BY <1>1, TopFacts
<1>3. TypeOK'
  BY <1>1, <1>2 DEF IInv, TypeOK, image
<1>4. WalkInv'
  <2> USE DEF IInv, WalkInv
  <2>1. QueueInv'
    BY <1>1, <1>2 DEF QueueInv
  <2>2. DisassembledInv' /\ FollowedInv' /\ SeededInv'
    BY <1>1, ImageFrame DEF DisassembledInv, FollowedInv, SeededInv
  <2>3. NothingForgotten'
    BY <1>1, <1>2, ImageFrame DEF NothingForgotten
  <2>4. MinimalInv'
    BY <1>1, Frame, ImageFrame DEF MinimalInv
  <2> QED
    BY <2>1, <2>2, <2>3, <2>4
<1>5. SizeInv' /\ StartsInv'
  BY <1>1, ImageFrame DEF IInv, SizeInv, StartsInv
<1>6. PhaseInv'
  BY <1>1 DEF IInv, PhaseInv, Turning
<1> QED
  BY <1>3, <1>4, <1>5, <1>6 DEF IInv

\* A turn that disassembles schedules all that the instruction leads to.
LEMMA DisassembleFacts ==
  ASSUME IInv, Disassemble
  PROVE  /\ Turning /\ Decodes(Top) /\ words[Top].insn \in Instruction
         /\ UNCHANGED <<image, phase, seeds, unseeded, maxInstructions>>
         /\ disassembled' = disassembled \cup {Top}
         /\ functionStarts' = functionStarts \cup CalledFrom(Top)
         /\ worklist' \in Seq(AlignedAddress) /\ scheduled' \subseteq AlignedAddress
         /\ scheduled' = scheduled \cup {b \in AlignedAddress :
                                           LeadsTo(Top, b) /\ IsUsable(b)}
         /\ Distinct(worklist')
         /\ Items(worklist') = (Items(worklist) \ {Top}) \cup (scheduled' \ scheduled)
<1> DEFINE insn == words[Top].insn
<1>1. Turning /\ Top \in AlignedAddress /\ Decodes(Top)
  BY TopFacts DEF Disassemble
<1>2. IsImage(regions, words)
  BY DEF IInv, TypeOK
<1>3. insn \in Instruction
  BY <1>1, <1>2 DEF IsImage, Word
<1>4. EndAddress(Top) \in AlignedAddress
  BY <1>1, <1>2, ReadableWord DEF Decodes
<1>5. insn.target \in Int /\ EndAddress(Top) \in Int
  BY <1>3, <1>4, AddressLimitAssumption DEF Instruction, AlignedAddress, Address
<1> DEFINE q1 == IF FollowsTarget(insn) THEN Schedule(Popped, insn.target) ELSE Popped
           q2 == IF HasFallThrough(insn) THEN Schedule(q1, EndAddress(Top)) ELSE q1
           t1 == IF FollowsTarget(insn) THEN Added(insn.target) ELSE {}
           t2 == IF HasFallThrough(insn) THEN Added(EndAddress(Top)) ELSE {}
<1> HIDE DEF insn
<1>6. /\ IsQueue(Popped)
      /\ Popped.scheduled = scheduled
      /\ Items(Popped.worklist) = Items(worklist) \ {Top}
  <2>1. Items(worklist) \subseteq scheduled /\ scheduled \subseteq AlignedAddress
    BY DEF IInv, WalkInv, QueueInv, TypeOK
  <2>2. Popped = [worklist |-> Popped.worklist, scheduled |-> scheduled]
    BY DEF Popped
  <2> QED
    BY <1>1, <2>1, <2>2, TopFacts DEF IsQueue
<1>7. /\ IsQueue(q1) /\ q1.scheduled = scheduled \cup t1
      /\ Items(q1.worklist) = (Items(worklist) \ {Top}) \cup (t1 \ scheduled)
  BY <1>2, <1>5, <1>6, ScheduleEffect
<1> HIDE DEF q1
<1>8. /\ IsQueue(q2) /\ q2.scheduled = q1.scheduled \cup t2
      /\ Items(q2.worklist) = Items(q1.worklist) \cup (t2 \ q1.scheduled)
  BY <1>2, <1>5, <1>7, ScheduleEffect
<1> HIDE DEF q2, t1, t2
<1>9. worklist' = q2.worklist /\ scheduled' = q2.scheduled
  BY DEF Disassemble, AfterDecoding, q2, q1, insn
<1>10. /\ worklist' \in Seq(AlignedAddress) /\ Distinct(worklist')
       /\ scheduled' \subseteq AlignedAddress
  BY <1>8, <1>9 DEF IsQueue
<1>11. t1 \cup t2 = {b \in AlignedAddress : LeadsTo(Top, b) /\ IsUsable(b)}
  <2>1. t1 \subseteq AlignedAddress /\ t2 \subseteq AlignedAddress
    BY <1>7, <1>8 DEF IsQueue
  <2>2. \A b : b \in t1 \cup t2 <=> LeadsTo(Top, b) /\ IsUsable(b)
    BY DEF t1, t2, Added, LeadsTo, insn
  <2> QED
    BY <2>1, <2>2
<1>12. scheduled' = scheduled \cup (t1 \cup t2)
  BY <1>7, <1>8, <1>9
<1>13. Items(worklist') = (Items(worklist) \ {Top}) \cup (scheduled' \ scheduled)
  BY <1>7, <1>8, <1>9, <1>12
<1>14. /\ UNCHANGED <<image, phase, seeds, unseeded, maxInstructions>>
       /\ disassembled' = disassembled \cup {Top}
       /\ functionStarts' = functionStarts \cup CalledFrom(Top)
  BY DEF Disassemble, CalledFrom
<1>15. scheduled' = scheduled \cup {b \in AlignedAddress :
                                      LeadsTo(Top, b) /\ IsUsable(b)}
  BY <1>11, <1>12
<1> QED
  BY <1>1, <1>3, <1>10, <1>13, <1>14, <1>15 DEF insn

\* A turn that decodes its address.
LEMMA DisassembleIInv ==
  ASSUME IInv, Disassemble
  PROVE  IInv'
<1> DEFINE next == {b \in AlignedAddress : LeadsTo(Top, b) /\ IsUsable(b)}
<1>1. /\ Turning /\ Decodes(Top) /\ words[Top].insn \in Instruction
      /\ UNCHANGED <<image, phase, seeds, unseeded, maxInstructions>>
      /\ disassembled' = disassembled \cup {Top}
      /\ functionStarts' = functionStarts \cup CalledFrom(Top)
      /\ worklist' \in Seq(AlignedAddress) /\ scheduled' \subseteq AlignedAddress
      /\ scheduled' = scheduled \cup next
      /\ Distinct(worklist')
      /\ Items(worklist') = (Items(worklist) \ {Top}) \cup (scheduled' \ scheduled)
  BY DisassembleFacts
<1>2. /\ Top \in AlignedAddress
      /\ Top \in Items(worklist) /\ Top \in scheduled /\ Top \notin disassembled
  BY <1>1, TopFacts
<1> HIDE DEF next
<1>3. TypeOK'
  <2>1. CalledFrom(Top) \subseteq Address
    BY <1>1 DEF CalledFrom, StartAt, Instruction
  <2> QED
    BY <1>1, <1>2, <2>1 DEF IInv, TypeOK, image
<1>4. WalkInv'
  <2> USE DEF IInv, WalkInv
  <2>1. QueueInv'
    BY <1>1, <1>2 DEF QueueInv, DisassembledInv
  <2>2. DisassembledInv'
    BY <1>1, <1>2, ImageFrame DEF DisassembledInv
  <2>3. NothingForgotten'
    BY <1>1, <1>2, ImageFrame DEF NothingForgotten
  <2>4. FollowedInv'
    <3> SUFFICES ASSUME NEW a \in disassembled', NEW b \in AlignedAddress,
                        LeadsTo(a, b), IsUsable(b)
                 PROVE  b \in scheduled'
      BY <1>1, ImageFrame DEF FollowedInv
    <3>1. CASE a \in disassembled
      BY <1>1, <3>1 DEF FollowedInv
    <3>2. CASE a = Top
      BY <1>1, <3>2 DEF next
    <3> QED
      BY <1>1, <3>1, <3>2
  <2>5. SeededInv'
    BY <1>1, ImageFrame DEF SeededInv
  <2>6. MinimalInv'
    <3> SUFFICES ASSUME NEW S \in SUBSET AlignedAddress, Flow!Closed(S),
                        NEW x \in scheduled', Decodes(x)
                 PROVE  x \in S
      BY <1>1, Frame, ImageFrame DEF MinimalInv
    <3>1. {y \in scheduled : Decodes(y)} \subseteq S
      BY DEF MinimalInv
    <3>2. Top \in S
      BY <1>1, <1>2, <3>1
    <3>3. CASE x \in next
      <4>1. x \in AlignedAddress /\ <<Top, x>> \in FlowEdges
        BY <1>2, <3>3 DEF next, FlowEdges
      <4> QED
        BY <3>2, <4>1 DEF Flow!Closed
    <3> QED
      BY <1>1, <3>1, <3>3
  <2> QED
    BY <2>1, <2>2, <2>3, <2>4, <2>5, <2>6
<1>5. SizeInv'
  <2>1. IsFiniteSet(disassembled') /\ Cardinality(disassembled') = Cardinality(disassembled) + 1
    BY <1>1, <1>2, FS_AddElement DEF IInv, SizeInv
  <2> QED
    BY <1>1, <2>1 DEF IInv, SizeInv, Turning, AtInstructionCap, TypeOK
<1>6. StartsInv'
  <2>1. /\ \A a : CalledFrom(a)' = CalledFrom(a)
        /\ \A a : Contains(a)' <=> Contains(a)
    BY <1>1, ImageFrame
  <2>2. UNION {CalledFrom(a) : a \in disassembled'}
          = (UNION {CalledFrom(a) : a \in disassembled}) \cup CalledFrom(Top)
    BY <1>1
  <2> QED
    BY <1>1, <2>1, <2>2 DEF IInv, StartsInv
<1>7. PhaseInv'
  BY <1>1 DEF IInv, PhaseInv, Turning
<1> QED
  BY <1>3, <1>4, <1>5, <1>6, <1>7 DEF IInv

\* The loops end without changing what was found.
LEMMA EndIInv ==
  ASSUME IInv, SeedsTaken \/ Finish \/ UNCHANGED vars
  PROVE  IInv'
<1>1. /\ UNCHANGED <<image, seeds, unseeded, maxInstructions, scheduled, worklist,
                     disassembled, functionStarts>>
      /\ phase' \in {phase, "traversing", "discovered"}
      /\ phase' # phase => phase # "idle" /\ unseeded = {}
  BY DEF SeedsTaken, Finish, vars, discoverVars, IInv, PhaseInv
<1>2. TypeOK'
  BY <1>1 DEF IInv, TypeOK, image
<1>3. WalkInv'
  BY <1>1, Frame, ImageFrame
     DEF IInv, WalkInv, QueueInv, DisassembledInv, NothingForgotten, FollowedInv,
         SeededInv, MinimalInv
<1>4. SizeInv' /\ StartsInv'
  BY <1>1, ImageFrame DEF IInv, SizeInv, StartsInv
<1>5. PhaseInv'
  BY <1>1 DEF IInv, PhaseInv
<1> QED
  BY <1>2, <1>3, <1>4, <1>5 DEF IInv

\* Every step keeps the invariant.
LEMMA NextIInv == IInv /\ [Next]_vars => IInv'
<1> SUFFICES ASSUME IInv, [Next]_vars PROVE IInv'
  OBVIOUS
<1>1. CASE \E from \in SeedSets, cap \in Caps : Discover(from, cap)
  BY <1>1, DiscoverIInv, SeedsAssumption
<1>2. CASE \E seed \in unseeded : TakeSeed(seed)
  BY <1>2, TakeSeedIInv
<1>3. CASE SkipData
  BY <1>3, SkipDataIInv
<1>4. CASE Disassemble
  BY <1>4, DisassembleIInv
<1>5. CASE SeedsTaken \/ Finish \/ UNCHANGED vars
  BY <1>5, EndIInv
<1> QED
  BY <1>1, <1>2, <1>3, <1>4, <1>5 DEF Next, DiscoverStep
-----------------------------------------------------------------------------
(***************************************************************************)
(* The theorems.                                                           *)
(***************************************************************************)

\* The inductive invariant holds of every behaviour of the traversal.
THEOREM Invariance == Spec => []IInv
<1>1. Init => IInv
  BY InitIInv
<1>2. IInv /\ [Next]_vars => IInv'
  BY NextIInv
<1> QED
  BY <1>1, <1>2, PTL DEF Spec

\* Every variable of the traversal keeps its type.
THEOREM TypeCorrect == Spec => []TypeOK
BY Invariance, PTL DEF IInv

\* Past the seeds, what has been found follows from the seeds and the calls met.
LEMMA StartsFacts == IInv => StartsAreSeedsAndCallees
<1> SUFFICES ASSUME IInv, phase # "seeding" PROVE StartsAreSeedsAndCallees
  BY DEF StartsAreSeedsAndCallees
<1>1. unseeded = {}
  BY DEF IInv, PhaseInv, TypeOK
<1>2. {s \in seeds \ unseeded : Contains(s)} = {s \in seeds : Contains(s)}
  BY <1>1
<1> QED
  BY <1>2 DEF IInv, StartsInv, StartsAreSeedsAndCallees

\* The functions reported are the seeds in code and the targets of the calls
\* met, no more and no less, capped or not.
THEOREM StartsAreExact == Spec => []StartsAreSeedsAndCallees
BY StartsFacts, Invariance, PTL

\* Reachability counts as FiniteSets does.
LEMMA SameCardinality == \A S : Flow!Cardinality(S) = Cardinality(S)
BY DEF Flow!Cardinality, Cardinality

\* Nothing is disassembled that a closed set can do without.
LEMMA DisassembledIsReachable == IInv => Flow!AllReachable(disassembled)
<1> SUFFICES ASSUME IInv, NEW S \in SUBSET AlignedAddress, Flow!Closed(S)
             PROVE  disassembled \subseteq S
  BY DEF Flow!AllReachable
<1>1. {x \in scheduled : Decodes(x)} \subseteq S
  BY DEF IInv, WalkInv, MinimalInv
<1> QED
  BY <1>1 DEF IInv, WalkInv, DisassembledInv

\* When the worklist runs empty no edge leaves what is disassembled.
LEMMA DisassembledIsClosed ==
  ASSUME IInv, phase = "traversing", worklist = <<>>
  PROVE  Flow!Closed(disassembled)
<1>1. \A x \in scheduled : Decodes(x) => x \in disassembled
  <2>1. Items(worklist) = {}
    BY DEF Items
  <2> QED
    BY <2>1 DEF IInv, WalkInv, NothingForgotten
<1>2. FlowRoots \subseteq disassembled
  BY <1>1 DEF FlowRoots, IInv, WalkInv, SeededInv, PhaseInv
<1>3. ASSUME NEW a \in disassembled, NEW b \in AlignedAddress \ disassembled,
             <<a, b>> \in FlowEdges
      PROVE  FALSE
  <2>1. LeadsTo(a, b) /\ IsUsable(b) /\ Decodes(b)
    BY <1>3 DEF FlowEdges
  <2>2. b \in scheduled
    BY <2>1 DEF IInv, WalkInv, FollowedInv
  <2> QED
    BY <1>1, <2>1, <2>2
<1> QED
  BY <1>2, <1>3 DEF Flow!Closed

\* discover, with its two loops, is an implementation of the question and
\* answer of Reachability: it finds exactly the code that control flow reaches
\* from the seeds, or as much of it as the cap allows.
THEOREM TraversalImplementsReachability == Spec => FindsReachableCode
<1>1. Init => Flow!ReachabilityInit
  BY DEF Init, DiscoverInit, Flow!ReachabilityInit, Asked, Reached, Complete
<1> DEFINE mapped == <<Asked, <<FlowEdges, FlowRoots, maxInstructions>>, Reached, Complete>>
<1>2. IInv /\ [Next]_vars => [Flow!ReachabilityNext]_mapped
  <2> SUFFICES ASSUME IInv, [Next]_vars
               PROVE  Flow!ReachabilityNext \/ UNCHANGED mapped
    OBVIOUS
  <2>1. ASSUME NEW from \in SeedSets, NEW cap \in Caps, Discover(from, cap)
        PROVE  Flow!Ask
    BY <2>1 DEF Discover, Flow!Ask, Asked, Reached, Complete
  <2>2. CASE (\E seed \in unseeded : TakeSeed(seed)) \/ SeedsTaken \/ SkipData \/ Disassemble
    <3>1. /\ phase \in {"seeding", "traversing"} /\ phase' \in {"seeding", "traversing"}
          /\ UNCHANGED <<image, seeds, maxInstructions>>
      BY <2>2 DEF TakeSeed, SeedsTaken, SkipData, Disassemble, Turning
    <3>2. FlowEdges' = FlowEdges /\ FlowRoots' = FlowRoots
      BY <3>1, Frame, ImageFrame
    <3>3. Asked' = Asked /\ Reached' = Reached
      BY <3>1 DEF Asked, Reached
    <3>4. Complete' = Complete
      BY <3>1 DEF Complete
    <3> QED
      BY <3>1, <3>2, <3>3, <3>4
  <2>3. CASE Finish
    <3>1. /\ phase = "traversing" /\ phase' = "discovered"
          /\ worklist = <<>> \/ AtInstructionCap
          /\ UNCHANGED <<image, seeds, maxInstructions, worklist, disassembled>>
      BY <2>3 DEF Finish
    <3>2. FlowEdges' = FlowEdges /\ FlowRoots' = FlowRoots
      BY <3>1, Frame, ImageFrame
    <3>3. Flow!AllReachable(disassembled)
      BY DisassembledIsReachable
    <3>4. Reached' = disassembled /\ Asked = "building" /\ Asked' = "built"
      BY <3>1 DEF Reached, Asked
    <3>5. CASE worklist = <<>>
      <4>1. Flow!Closed(disassembled)
        BY <3>1, <3>5, DisassembledIsClosed
      <4>2. Cardinality(disassembled) <= maxInstructions
        BY DEF IInv, SizeInv
      <4>3. Complete'
        BY <3>1, <3>5 DEF Complete
      <4>4. Flow!AnswerAll
        BY <3>3, <3>4, <4>1, <4>2, <4>3, SameCardinality DEF Flow!AnswerAll
      <4> QED
        BY <3>1, <3>2, <3>4, <4>4 DEF Flow!ReachabilityNext, Flow!Answer, Flow!question
    <3>6. CASE worklist # <<>>
      <4>1. Cardinality(disassembled) = maxInstructions
        BY <3>1, <3>6 DEF IInv, SizeInv, AtInstructionCap, TypeOK
      <4>2. ~Complete'
        BY <3>1, <3>6 DEF Complete
      <4>3. Flow!AnswerPart
        BY <3>3, <3>4, <4>1, <4>2, SameCardinality DEF Flow!AnswerPart
      <4> QED
        BY <3>1, <3>2, <3>4, <4>3 DEF Flow!ReachabilityNext, Flow!Answer, Flow!question
    <3> QED
      BY <3>5, <3>6
  <2>4. CASE UNCHANGED vars
    <3>1. UNCHANGED <<image, phase, seeds, maxInstructions, worklist, disassembled>>
      BY <2>4 DEF vars, discoverVars
    <3>2. FlowEdges' = FlowEdges /\ FlowRoots' = FlowRoots
      BY <3>1, Frame, ImageFrame
    <3> QED
      BY <3>1, <3>2 DEF Asked, Reached, Complete
  <2> QED
    BY <2>1, <2>2, <2>3, <2>4 DEF Next, DiscoverStep, Flow!ReachabilityNext
<1> QED
  BY <1>1, <1>2, Invariance, PTL
     DEF Spec, FindsReachableCode, Flow!ReachabilitySpec, Flow!question
==============================================================================
