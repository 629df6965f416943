------------------------------ MODULE SampleCode ------------------------------
(***************************************************************************)
(* Small images for the model checker: one word of each kind, and code     *)
(* laid out from a start address up.                                       *)
(***************************************************************************)
EXTENDS InstructionClassifier, TLC

\* A word that decodes to the instruction.
Decoded(mnemonic, operands) ==
  [pattern |-> "other", decodes |-> TRUE, insn |-> Classify(mnemonic, operands)]

Undecodable(p) == [pattern |-> p, decodes |-> FALSE, insn |-> NoInstruction]

Seq1 == Decoded("add", <<Register, Register, Immediate(4)>>)
Ret == Decoded("ret", <<>>)
IndirectBr == Decoded("br", <<Register>>)
IndirectCall == Decoded("blr", <<Register>>)
Nop == [Seq1 EXCEPT !.pattern = "nop"]
Zero == Undecodable("zero")
Data == Undecodable("other")
CallTo(t) == Decoded("bl", <<Immediate(t)>>)
Cond(t) == Decoded("tbz", <<Register, Immediate(3), Immediate(t)>>)
Br(t) == Decoded("b", <<Immediate(t)>>)

\* Addresses at which n words are stored one after the other from start.
Slots(start, n) == {start + kAArch64InstructionSize * i : i \in 0 .. n - 1}

\* All the images with the regions rs whose n words at start are taken from
\* alphabet; the rest of the address space is zero.
ImagesOver(rs, start, n, alphabet) ==
  LET blank == [a \in AlignedAddress \ Slots(start, n) |-> Zero]
  IN {[regions |-> rs, words |-> code @@ blank] : code \in [Slots(start, n) -> alphabet]}

One(s, e) == <<[start |-> s, end |-> e]>>
Two(s1, e1, s2, e2) == <<[start |-> s1, end |-> e1], [start |-> s2, end |-> e2]>>
==============================================================================
