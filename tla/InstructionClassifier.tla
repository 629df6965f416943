------------------------ MODULE InstructionClassifier -------------------------
(***************************************************************************)
(* CapstoneDisassembler::classify: what a decoded instruction does to the  *)
(* flow of control, from the groups Capstone puts it into, its mnemonic    *)
(* and its operands (disasm/capstone_disassembler,                         *)
(* disasm/aarch64/aarch64_mnemonics).                                      *)
(*                                                                         *)
(* Neither groups nor mnemonics would do alone: Capstone puts the calls    *)
(* through a register among the relative branches, and some returns into   *)
(* no group.  An authenticated form has the mnemonic of one of its keys    *)
(* here, the others are alike; b.eq stands for all conditions.             *)
(***************************************************************************)
EXTENDS CodeMap

Register == [isImmediate |-> FALSE, value |-> 0]
Immediate(value) == [isImmediate |-> TRUE, value |-> value]

\* The groups Capstone has for a mnemonic, those that no test asks for left out:
\* rows of its table insns, src/external/capstone/arch/AArch64/AArch64MappingInsn.inc
\* (b at line 1287, bl to b.eq from 1707, cbnz and cbz from 2127, the returns at 5550
\* and 20635, tbnz and tbz at 31590 and 31688).
Groups(mnemonic) ==
  CASE mnemonic \in {"ret", "retaa"} -> {"ret"}
    [] mnemonic \in {"bl", "blr", "blraa", "blraaz"} -> {"call", "jump", "branch_relative"}
    [] mnemonic \in {"b", "b.eq", "cbz", "cbnz", "tbz", "tbnz"} -> {"jump", "branch_relative"}
    [] mnemonic \in {"br", "braa", "braaz"} -> {"jump"}
    [] OTHER -> {}

IsConditionalBranch(mnemonic) == mnemonic \in {"b.eq", "cbz", "cbnz", "tbz", "tbnz"}
IsReturn(mnemonic) == mnemonic \in {"ret", "retaa", "eret", "eretaa", "drps"}
IsIndirectCall(mnemonic) == mnemonic \in {"blr", "blraa", "blraaz"}
IsIndirectBranch(mnemonic) == mnemonic \in {"br", "braa", "braaz"}

FlowOf(mnemonic) ==
  LET groups == Groups(mnemonic)
      isRelative == "branch_relative" \in groups
  IN IF "ret" \in groups \/ IsReturn(mnemonic) THEN "return"
     ELSE IF IsIndirectCall(mnemonic) THEN "indirectCall"
     ELSE IF IsIndirectBranch(mnemonic) THEN "indirectBranch"
     ELSE IF "call" \in groups THEN IF isRelative THEN "directCall" ELSE "indirectCall"
     ELSE IF "jump" \notin groups THEN "sequential"
     ELSE IF ~isRelative THEN "indirectBranch"
     ELSE IF IsConditionalBranch(mnemonic) THEN "conditionalBranch" ELSE "unconditionalBranch"

Immediates(operands) == {k \in DOMAIN operands : operands[k].isImmediate}

\* Mutant of TargetOperand: the operands are searched from the first on.
FirstImmediate(operands) ==
  CHOOSE k \in Immediates(operands) : \A j \in Immediates(operands) : k <= j

\* The last immediate: tbz and tbnz have the number of a bit before the target.
TargetOperand(operands) ==
  CHOOSE k \in Immediates(operands) : \A j \in Immediates(operands) : j <= k

HasTarget(mnemonic, operands) ==
  /\ FlowOf(mnemonic) \in {"conditionalBranch", "unconditionalBranch", "directCall"}
  /\ "branch_relative" \in Groups(mnemonic)
  /\ Immediates(operands) # {}

Classify(mnemonic, operands) ==
  LET hasTarget == HasTarget(mnemonic, operands)
  IN [flow |-> FlowOf(mnemonic), hasTarget |-> hasTarget,
      target |-> IF hasTarget THEN operands[TargetOperand(operands)].value ELSE 0]
===============================================================================
