----------------------------- MODULE AArch64Code ------------------------------
(***************************************************************************)
(* The graph builder on classified AArch64 instructions, against what the  *)
(* architecture says each of them does.  In the code the classification is *)
(* three steps away from the graph, with the flow type between them.       *)
(***************************************************************************)
EXTENDS CfgBuilder, InstructionClassifier

\* The instructions by what the processor does next: it goes on; it goes on or
\* to the target; to the target; to the target and, when the callee returns, on;
\* to where a register says; there and, when that returns, on; to its caller.
Continues == {"add", "svc"}
Tests == {"b.eq", "cbz", "cbnz", "tbz", "tbnz"}
Jumps == {"b"}
Calls == {"bl"}
RegisterJumps == {"br", "braa", "braaz"}
RegisterCalls == {"blr", "blraa", "blraaz"}
Leaves == {"ret", "retaa", "eret", "eretaa", "drps"}

\* The operands of the instruction, the last of which is its target if it has one.
Operands(mnemonic, target) ==
  CASE mnemonic \in {"b", "b.eq", "bl"} -> <<Immediate(target)>>
    [] mnemonic \in {"cbz", "cbnz"} -> <<Register, Immediate(target)>>
    [] mnemonic \in {"tbz", "tbnz"} -> <<Register, Immediate(3), Immediate(target)>>
    [] mnemonic = "add" -> <<Register, Register, Immediate(4)>>
    [] mnemonic = "svc" -> <<Immediate(0)>>
    [] mnemonic \in RegisterJumps \cup RegisterCalls -> <<Register>>
    [] mnemonic \in Leaves -> <<>>

\* The instructions without a target, and those with one, with what they decode to.
Targetless == Continues \cup RegisterJumps \cup RegisterCalls \cup Leaves
Targeted == Tests \cup Jumps \cup Calls

Decodings ==
  {[mnemonic |-> m, target |-> 0, insn |-> Classify(m, Operands(m, 0))] : m \in Targetless}
  \cup {[mnemonic |-> m, target |-> t, insn |-> Classify(m, Operands(m, t))] :
          m \in Targeted, t \in {b \in Address : b % 2 = 0}}

\* The instructions that may be at a.
MayBe(a) == {d \in Decodings : d.insn = words[a].insn}

\* Where the processor may be after d at a, in the same function.
ProcessorNext(d, a) ==
  (IF d.mnemonic \in Tests \cup Jumps THEN {d.target} ELSE {})
  \cup (IF d.mnemonic \in Continues \cup Tests \cup Calls \cup RegisterCalls
        THEN {EndAddress(a)} ELSE {})

\* A graph that is not truncated is what the processor can run of the function:
\* it has every instruction that may come after one it has, inside the bounds of
\* the request, and no other, but for what follows a jump through a register.
GraphsFollowTheProcessor ==
  status = "built" /\ ~truncated =>
    /\ \A a \in visited : \A d \in MayBe(a) : \A b \in ProcessorNext(d, a) :
         IsSchedulable(b) /\ IsCoverable(b) => b \in visited
    /\ \A b \in visited \ {request.entry} : \E a \in visited :
         \/ \A d \in MayBe(a) : b \in ProcessorNext(d, a)
         \/ request.linearPastIndirectBranch /\ b = EndAddress(a)
            /\ \A d \in MayBe(a) : d.mnemonic \in RegisterJumps
===============================================================================
