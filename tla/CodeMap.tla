------------------------------- MODULE CodeMap -------------------------------
(***************************************************************************)
(* The code under analysis: the executable regions of an image, what each  *)
(* 4-byte word of them is, and the queries every analysis makes of them    *)
(* (analysis/code_map, control_flow/code_patterns, common/types,           *)
(* disasm/instruction).                                                    *)
(*                                                                         *)
(* The image is an input: it is chosen in the initial state and no action  *)
(* changes it.  A word is not modelled bit by bit.  What the analyses can  *)
(* tell apart is whether it is one of the two patterns code_patterns.cc    *)
(* looks for, whether the disassembler decodes it, and the control flow it *)
(* decodes to.                                                             *)
(***************************************************************************)
EXTENDS Integers, Sequences

CONSTANTS
  AddressLimit,   \* one past the greatest Address (2^64 in the code)
  Images          \* the images to analyse: records [regions, words]

VARIABLES
  regions,        \* CodeMap::regions_, sorted by start
  words           \* the word stored at every aligned address

image == <<regions, words>>
-----------------------------------------------------------------------------
kAArch64InstructionSize == 4
kInvalidAddress == AddressLimit - 1

Address == 0 .. AddressLimit - 1
AlignedAddress == {a \in Address : a % kAArch64InstructionSize = 0}

FlowType == {"sequential", "conditionalBranch", "unconditionalBranch",
             "directCall", "indirectBranch", "indirectCall", "return"}

Instruction == [flow : FlowType, hasTarget : BOOLEAN, target : Address]

\* Instruction{} before decode() fills it in.
NoInstruction == [flow |-> "sequential", hasTarget |-> FALSE, target |-> 0]

Word == [pattern : {"zero", "nop", "other"}, decodes : BOOLEAN, insn : Instruction]

Region == {r \in [start : Address, end : Address] : r.start < r.end}

(***************************************************************************)
(* The constructor leaves the regions sorted by start, and addRegion never *)
(* stores an empty one.  Two regions of a well-formed image do not overlap *)
(* (the linker gives every section its own addresses).                     *)
(***************************************************************************)
SortedRegions(rs) == \A i, j \in DOMAIN rs : i < j => rs[i].start <= rs[j].start
DisjointRegions(rs) == \A i, j \in DOMAIN rs : i < j => rs[i].end <= rs[j].start

(***************************************************************************)
(* No region reaches the last two words of the address space.  Nothing in  *)
(* the code makes sure of it, and no image is required to satisfy it here: *)
(* it is the condition under which what is said of the extent analyser,    *)
(* whose sums wrap next to the top, is true.                               *)
(***************************************************************************)
BelowTop(rs) ==
  \A i \in DOMAIN rs : rs[i].end <= AddressLimit - 2 * kAArch64InstructionSize

ASSUME AddressLimitAssumption ==
  /\ AddressLimit \in Nat
  /\ AddressLimit > 2 * kAArch64InstructionSize
  /\ AddressLimit % kAArch64InstructionSize = 0

IsImage(rs, ws) ==
  /\ rs \in Seq(Region)
  /\ SortedRegions(rs)
  /\ DisjointRegions(rs)
  /\ ws \in [AlignedAddress -> Word]

ASSUME ImagesAssumption == \A im \in Images : IsImage(im.regions, im.words)

ImageInit == \E im \in Images : regions = im.regions /\ words = im.words
-----------------------------------------------------------------------------
\* Mutant of RegionsAt: lower_bound for upper_bound misses the first address.
RegionsBelow(addr) ==
  {i \in DOMAIN regions :
     /\ regions[i].start < addr
     /\ \A j \in DOMAIN regions : regions[j].start < addr => j <= i
     /\ addr < regions[i].end}

(***************************************************************************)
(* CodeMap::regionContaining: upper_bound finds the last region that       *)
(* starts at or before addr, and that region alone is asked whether it     *)
(* contains addr.                                                          *)
(***************************************************************************)
RegionsAt(addr) ==
  {i \in DOMAIN regions :
     /\ regions[i].start <= addr
     /\ \A j \in DOMAIN regions : regions[j].start <= addr => j <= i
     /\ addr < regions[i].end}

Contains(addr) == RegionsAt(addr) # {}

RegionContaining(addr) == regions[CHOOSE i \in RegionsAt(addr) : TRUE]

\* regionEndFor of the extent analyser.
RegionEndFor(addr) == IF Contains(addr) THEN RegionContaining(addr).end ELSE addr

\* CodeMap::at: the bytes from addr to the end of its region.
Available(addr) == IF Contains(addr) THEN RegionContaining(addr).end - addr ELSE 0

IsUsable(addr) == addr % kAArch64InstructionSize = 0 /\ Contains(addr)

\* readWord fails at the ragged tail of a region; an unreadable word counts
\* as padding and as a hard stop.
ReadsWord(addr) == Available(addr) >= kAArch64InstructionSize

IsPaddingWord(addr) == ReadsWord(addr) => words[addr].pattern \in {"zero", "nop"}

IsHardStopWord(addr) == ReadsWord(addr) => words[addr].pattern = "zero"

\* IDisassembler::decode of the bytes codeMap_.at returned.
Decodes(addr) == ReadsWord(addr) /\ words[addr].decodes
-----------------------------------------------------------------------------
\* Of a decoded instruction, which lies inside its region: the sum is at most the
\* end of the region and cannot wrap.
EndAddress(addr) == addr + kAArch64InstructionSize

IsBlockTerminator(insn) ==
  insn.flow \in {"conditionalBranch", "unconditionalBranch", "indirectBranch", "return"}

IsBranch(insn) == insn.flow \in {"conditionalBranch", "unconditionalBranch"}

IsCall(insn) == insn.flow \in {"directCall", "indirectCall"}

HasFallThrough(insn) ==
  insn.flow \in {"sequential", "conditionalBranch", "directCall", "indirectCall"}
==============================================================================
