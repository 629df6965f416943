--------------------------- MODULE InstructionCache ---------------------------
(***************************************************************************)
(* InstructionCache::at: one memo table shared by every control-flow graph *)
(* of an analysis.  A failed decode is remembered too, so an address is    *)
(* handed to the disassembler at most once.                                *)
(***************************************************************************)
EXTENDS CodeMap

VARIABLES
  cache,     \* cache_: a function on the addresses asked for so far
  decoded    \* decoded_: how many of them decoded

cacheVars == <<cache, decoded>>

Entry == [valid : BOOLEAN, instruction : Instruction]

\* What the disassembler says of the word at addr, as an Entry.
Decode(addr) ==
  IF Decodes(addr) THEN [valid |-> TRUE, instruction |-> words[addr].insn]
                   ELSE [valid |-> FALSE, instruction |-> NoInstruction]

\* The entry at(addr) answers from.  Callers only ask for aligned addresses.
Lookup(addr) == IF addr \in DOMAIN cache THEN cache[addr] ELSE Decode(addr)

Hit(addr) == Lookup(addr).valid
InsnAt(addr) == Lookup(addr).instruction

CacheInit == cache = [a \in {} |-> NoInstruction] /\ decoded = 0

\* Mutant of CacheAt: failed decodes are counted too.
CountingEveryLookup(addr) ==
  IF addr \in DOMAIN cache
  THEN UNCHANGED cacheVars
  ELSE /\ cache' = [a \in DOMAIN cache \cup {addr} |->
                      IF a = addr THEN Decode(addr) ELSE cache[a]]
       /\ decoded' = decoded + 1

\* The effect of at(addr) on the table.
CacheAt(addr) ==
  IF addr \in DOMAIN cache
  THEN UNCHANGED cacheVars
  ELSE /\ cache' = [a \in DOMAIN cache \cup {addr} |->
                      IF a = addr THEN Decode(addr) ELSE cache[a]]
       /\ decoded' = IF Decodes(addr) THEN decoded + 1 ELSE decoded
-----------------------------------------------------------------------------
CacheTypeOK ==
  /\ DOMAIN cache \subseteq AlignedAddress
  /\ \A a \in DOMAIN cache : cache[a] \in Entry
  /\ decoded \in Nat
==============================================================================
