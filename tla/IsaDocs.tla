------------------------------ MODULE IsaDocs ------------------------------
(***************************************************************************)
(* The instructions.yaml documents generate_isa.py reads, and the values   *)
(* the IsaInfo lookups of the generated isa.h return.  Shared by the       *)
(* abstract ISA model builder (IsaSpec) and the model of the generator and *)
(* its header (Isa).                                                       *)
(***************************************************************************)
EXTENDS Naturals, Integers, Sequences, SequencesExt, FiniteSets

CONSTANTS
  ModeDeclChoices,   \* "addressing_modes" lists (of [code, operands]) a document may have
  FlagDeclChoices,   \* "status_flags" lists (of [code, bit]) a document may have
  InstrChoices,      \* instruction entries: [mnemonic, addressing_mode, opcode, cycles,
                     \*                       flags_affected]
  MaxInstrs,         \* bound on the length of "instructions"
  Probes             \* byte values a caller passes to GetInstruction

ASSUME Probes \subseteq 0..255

NoAnswer == [call |-> "none"]
Nullopt  == [has_value |-> FALSE]

Docs == [addressing_modes : ModeDeclChoices,
         status_flags     : FlagDeclChoices,
         instructions     : BoundedSeq(InstrChoices, MaxInstrs)]

Distinct(s) == \A i, j \in DOMAIN s : s[i] = s[j] => i = j
=============================================================================
