------------------------------ MODULE IrataBuild ------------------------------
(***************************************************************************)
(* One build of the two generators that depend on each other: isa.h is     *)
(* generated from instructions.yaml (Isa), and the microcode source that   *)
(* generate_microcode.py writes includes it, so the isa::Opcode enumerators *)
(* the microcode names are the ones generate_opcode_enum wrote for the     *)
(* same ISA document.  Microcode is instantiated with isa_opcodes, the     *)
(* header it is compiled against, replaced by those enumerators, and its   *)
(* compile waits for isa.h to compile.  Once the InstructionSet is built,  *)
(* a caller looks up a built instruction's opcode with                     *)
(* IsaInfo::GetInstruction(Opcode), which casts it to its byte and asks    *)
(* the opcode map.                                                         *)
(*                                                                         *)
(* The two generators share no state before the microcode compile, so     *)
(* their steps are ordered: isa.h is generated and compiled first.  Every  *)
(* order of the independent steps reaches the same states of interest.    *)
(***************************************************************************)
EXTENDS Naturals, Sequences, SequencesExt

CONSTANTS
  (* The ISA document family (Isa). *)
  ModeDeclChoices, FlagDeclChoices, InstrChoices, IsaMaxInstrs,
  (* The microcode document family and the CPU topology (Microcode). *)
  Mnemonics, Modes, NoSuffix, Controls, Topology, Flags, NameChoices,
  StepChoices, WhenChoices, MaxFetch, McMaxInstrs, MaxVariants, MaxStages, MaxSteps

ASSUME \A i \in InstrChoices : i.mnemonic \in Mnemonics /\ i.addressing_mode \in Modes

VARIABLES
  isa_doc, isa_phase, opcode_map, answer,          \* Isa
  mc_doc, mc_phase, gi, code, ip, instruction_set,  \* Microcode
  instruction, variant, outcome,
  looked_up   \* the isa::Opcode last passed to GetInstruction(Opcode), or <<>>

isa_vars == <<isa_doc, isa_phase, opcode_map, answer>>
mc_vars  == <<mc_doc, mc_phase, gi, code, ip, instruction_set, instruction, variant, outcome>>
vars     == <<isa_vars, mc_vars, looked_up>>

I == INSTANCE Isa WITH doc <- isa_doc, phase <- isa_phase,
                       MaxInstrs <- IsaMaxInstrs, Probes <- 0..255

(* The Opcode enumerators isa.h declares: their names, and their values.   *)
IsaEnumerators == ToSet(I!OpcodeEnumerators(isa_doc.instructions))

M == INSTANCE Microcode WITH doc <- mc_doc, phase <- mc_phase,
                             isa_opcodes <- {e.name : e \in IsaEnumerators},
                             MaxInstrs <- McMaxInstrs, IsaOpcodes <- {}

(* static_cast<uint8_t>(opcode): the byte of the enumerator named op.      *)
OpcodeByte(op) == (CHOOSE e \in IsaEnumerators : e.name = op).value % 256

-----------------------------------------------------------------------------
Init == I!Init /\ mc_doc \in M!Docs /\ M!Start /\ looked_up = <<>>

(* generate_isa.py main, then the compile of isa.h.                        *)
IsaBuildStep ==
  /\ I!Generate \/ I!Compile \/ I!CompileRejected
  /\ UNCHANGED <<mc_vars, looked_up>>

(***************************************************************************)
(* generate_microcode.py main, the compile of the source it writes (which  *)
(* includes isa.h, so it needs a header that compiled) and the run of      *)
(* BuildIrataInstructionSet.                                               *)
(***************************************************************************)
MicrocodeStep ==
  /\ isa_phase \in {"run", "rejected"}
  /\ UNCHANGED <<isa_vars, looked_up>>
  /\ \/ M!GeneratePreamble \/ M!GenerateInstruction \/ M!WriteOutput
     \/ isa_phase = "run" /\ (M!Compile \/ M!CompileUnknownOpcode)
     \/ M!ExecFetchStep \/ M!ExecInstructionBegin \/ M!ExecVariantBegin \/ M!ExecStep
     \/ M!ExecVariantEnd \/ M!ExecInstructionEnd \/ M!RequireControlsThrows \/ M!ExecReturn

(* IsaInfo::GetInstruction(Opcode): GetInstruction(static_cast<uint8_t>(opcode)) *)
GetInstructionByOpcode(op) ==
  /\ I!GetInstruction(OpcodeByte(op))
  /\ looked_up' = op
  /\ UNCHANGED mc_vars

(* A caller of the built InstructionSet looks up one of its opcodes.       *)
LookUp ==
  /\ mc_phase = "done"
  /\ \E i \in DOMAIN outcome.iset.instructions :
       GetInstructionByOpcode(outcome.iset.instructions[i].opcode)

Next == IsaBuildStep \/ MicrocodeStep \/ LookUp

Spec == Init /\ [][Next]_vars
-----------------------------------------------------------------------------
(***************************************************************************)
(* The microcode build implements MicrocodeBuild with the isa::Opcode      *)
(* enumerators of the ISA document it was compiled against.               *)
(***************************************************************************)
BuildRefinement == M!BuildRefinement

(***************************************************************************)
(* Spec 8, round trip across both generators: looking up the opcode of an  *)
(* instruction the microcode built, with GetInstruction(Opcode), returns  *)
(* the ISA instruction of the same mnemonic and addressing mode.  It       *)
(* rests on isa.h rejecting two enumerators with one value (the duplicate  *)
(* case label of ToString(Opcode)): the opcode map keeps the last entry    *)
(* for a byte.                                                             *)
(***************************************************************************)
MicrocodeOpcodeRoundTrip ==
  looked_up # <<>> =>
    /\ answer.result # I!Nullopt
    /\ <<answer.result.mnemonic, answer.result.addressing_mode>> = looked_up
=============================================================================
