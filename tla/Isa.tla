--------------------------------- MODULE Isa ---------------------------------
(***************************************************************************)
(* generate_isa.py and the isa.h it generates.                             *)
(*                                                                         *)
(* The generator validates nothing: it writes the enumerations, the        *)
(* ToString switches and the IsaInfo tables straight from the YAML.  The   *)
(* checks the spec assigns to the ISA model builder (unknown addressing    *)
(* mode, unknown status flag, duplicate opcode) happen only when isa.h is  *)
(* compiled: an unknown enumerator, a redefined enumerator, a value that   *)
(* does not fit uint8_t, or two equal case labels in one switch is a       *)
(* compile error.  At run time IsaInfo::GetInstruction builds its opcode   *)
(* map on first use, inserting every instruction in order (a later entry   *)
(* for the same byte overwrites an earlier one).                           *)
(*                                                                         *)
(* Descriptions, names, syntax templates and categories are left out: no  *)
(* property tells them apart.  The "{opcode:#04x}", "{bit}", "{operands}"  *)
(* and "{cycles}" literals are read back by the compiler as the same      *)
(* integers, including a sign or a value above 255, which the uint8_t     *)
(* range checks.                                                           *)
(***************************************************************************)
EXTENDS IsaDocs

VARIABLES
  doc,         \* the loaded instructions.yaml
  phase,       \* "generate", "compile", "run" or "rejected"
  opcode_map,  \* GetInstruction's function-local static map, or NotBuilt
  answer       \* the value the last IsaInfo call returned, or NoAnswer

vars == <<doc, phase, opcode_map, answer>>

NotBuilt == [built |-> FALSE]

-----------------------------------------------------------------------------
(* The enumerators generate_opcode_enum writes: name and value.            *)
OpcodeEnumerators(insts) ==
  [i \in DOMAIN insts |-> [name  |-> <<insts[i].mnemonic, insts[i].addressing_mode>>,
                           value |-> insts[i].opcode]]

Fits(u8)    == u8 \in 0..255

(***************************************************************************)
(* The uint8_t operand_bytes of AddressingModeInfo and cycles of           *)
(* InstructionInfo, filled from "{operands}" and "{cycles}" in brace       *)
(* initializers: a constant that does not fit is a narrowing error.        *)
(***************************************************************************)
InfoFieldsFit(d) ==
  /\ \A i \in DOMAIN d.addressing_modes : Fits(d.addressing_modes[i].operands)
  /\ \A i \in DOMAIN d.instructions : Fits(d.instructions[i].cycles)

(* The GetAddressingModes() and GetInstructions() entries, as uint8_t keeps them. *)
AddressingModeInfo(m) == [m EXCEPT !.operands = @ % 256]
InstructionInfo(inst) == [inst EXCEPT !.cycles = @ % 256]

(* Mutant: "enum class Opcode {" without ": uint8_t", as InstructionCategory *)
(* is emitted, so an opcode above 255 compiles.                            *)
CompilesWithUnsizedOpcodeEnum(d) ==
  LET flags == d.status_flags
      ops   == OpcodeEnumerators(d.instructions)
      modes == {d.addressing_modes[i].code : i \in DOMAIN d.addressing_modes}
      codes == {flags[i].code : i \in DOMAIN flags}
  IN  /\ Distinct([i \in DOMAIN d.addressing_modes |-> d.addressing_modes[i].code])
      /\ InfoFieldsFit(d)
      /\ Distinct([i \in DOMAIN flags |-> flags[i].code])
      /\ \A i \in DOMAIN flags : Fits(flags[i].bit)
      /\ Distinct([i \in DOMAIN flags |-> flags[i].bit])
      /\ Distinct([i \in DOMAIN ops |-> ops[i].name])
      /\ Distinct([i \in DOMAIN ops |-> ops[i].value])
      /\ \A i \in DOMAIN d.instructions :
           /\ d.instructions[i].addressing_mode \in modes
           /\ ToSet(d.instructions[i].flags_affected) \subseteq codes

(* Mutant: ToString(Opcode) not emitted, so equal opcodes still compile.   *)
CompilesWithoutOpcodeSwitch(d) ==
  LET flags == d.status_flags
      ops   == OpcodeEnumerators(d.instructions)
      modes == {d.addressing_modes[i].code : i \in DOMAIN d.addressing_modes}
      codes == {flags[i].code : i \in DOMAIN flags}
  IN  /\ Distinct([i \in DOMAIN d.addressing_modes |-> d.addressing_modes[i].code])
      /\ InfoFieldsFit(d)
      /\ Distinct([i \in DOMAIN flags |-> flags[i].code])
      /\ \A i \in DOMAIN flags : Fits(flags[i].bit)
      /\ Distinct([i \in DOMAIN flags |-> flags[i].bit])
      /\ Distinct([i \in DOMAIN ops |-> ops[i].name])
      /\ \A i \in DOMAIN ops : Fits(ops[i].value)
      /\ \A i \in DOMAIN d.instructions :
           /\ d.instructions[i].addressing_mode \in modes
           /\ ToSet(d.instructions[i].flags_affected) \subseteq codes

(***************************************************************************)
(* isa.h compiles.  AddressingMode and StatusFlag enumerators are unique;  *)
(* operand and cycle counts fit their uint8_t fields;                      *)
(* StatusFlag values fit uint8_t and are distinct case labels of           *)
(* ToString(StatusFlag); Opcode enumerators are unique, fit uint8_t and    *)
(* are distinct case labels of ToString(Opcode); every AddressingMode::X   *)
(* and StatusFlag::X an InstructionInfo names exists.                      *)
(***************************************************************************)
Compiles(d) ==
  LET flags == d.status_flags
      ops   == OpcodeEnumerators(d.instructions)
      modes == {d.addressing_modes[i].code : i \in DOMAIN d.addressing_modes}
      codes == {flags[i].code : i \in DOMAIN flags}
  IN  /\ Distinct([i \in DOMAIN d.addressing_modes |-> d.addressing_modes[i].code])
      /\ InfoFieldsFit(d)
      /\ Distinct([i \in DOMAIN flags |-> flags[i].code])
      /\ \A i \in DOMAIN flags : Fits(flags[i].bit)
      /\ Distinct([i \in DOMAIN flags |-> flags[i].bit])
      /\ Distinct([i \in DOMAIN ops |-> ops[i].name])
      /\ \A i \in DOMAIN ops : Fits(ops[i].value)
      /\ Distinct([i \in DOMAIN ops |-> ops[i].value])
      /\ \A i \in DOMAIN d.instructions :
           /\ d.instructions[i].addressing_mode \in modes
           /\ ToSet(d.instructions[i].flags_affected) \subseteq codes

(***************************************************************************)
(* The opcode_map initializer: map[static_cast<uint8_t>(inst.opcode)] =    *)
(* inst for every entry of GetInstructions(), in order, so the last entry  *)
(* with a given byte is the one kept.                                      *)
(***************************************************************************)
BuildOpcodeMap(insts) ==
  LET last(b) == CHOOSE i \in DOMAIN insts :
                   /\ insts[i].opcode % 256 = b
                   /\ \A j \in (i + 1)..Len(insts) : insts[j].opcode % 256 # b
  IN  [b \in {insts[i].opcode % 256 : i \in DOMAIN insts} |-> InstructionInfo(insts[last(b)])]

-----------------------------------------------------------------------------
Init ==
  /\ doc \in Docs
  /\ phase = "generate"
  /\ opcode_map = NotBuilt
  /\ answer = NoAnswer

(* main(): generate_header(data) is written to the output header.          *)
Generate ==
  /\ phase = "generate"
  /\ phase' = "compile"
  /\ UNCHANGED <<doc, opcode_map, answer>>

Compile ==
  /\ phase = "compile"
  /\ Compiles(doc)
  /\ phase' = "run"
  /\ UNCHANGED <<doc, opcode_map, answer>>

CompileRejected ==
  /\ phase = "compile"
  /\ ~ Compiles(doc)
  /\ phase' = "rejected"
  /\ UNCHANGED <<doc, opcode_map, answer>>

(* Mutant: a miss returns a default InstructionInfo{} instead of nullopt.  *)
GetInstructionDefaultOnMiss(b) ==
  LET map == IF opcode_map = NotBuilt THEN BuildOpcodeMap(doc.instructions)
                                      ELSE opcode_map.entries
      default == [mnemonic |-> "", addressing_mode |-> doc.addressing_modes[1].code,
                  opcode |-> 0, cycles |-> 0, flags_affected |-> <<>>]
  IN  /\ phase = "run"
      /\ opcode_map' = [built |-> TRUE, entries |-> map]
      /\ answer' = [call |-> "GetInstruction", arg |-> b,
                    result |-> IF b \in DOMAIN map THEN map[b] ELSE default]
      /\ UNCHANGED <<doc, phase>>

(* IsaInfo::GetInstruction(uint8_t): the static map is built on first use. *)
GetInstruction(b) ==
  LET map == IF opcode_map = NotBuilt THEN BuildOpcodeMap(doc.instructions)
                                      ELSE opcode_map.entries
  IN  /\ phase = "run"
      /\ opcode_map' = [built |-> TRUE, entries |-> map]
      /\ answer' = [call |-> "GetInstruction", arg |-> b,
                    result |-> IF b \in DOMAIN map THEN map[b] ELSE Nullopt]
      /\ UNCHANGED <<doc, phase>>

(***************************************************************************)
(* IsaInfo::GetAddressingMode: the first entry of GetAddressingModes()     *)
(* whose mode is m.  m is an AddressingMode enumerator, so one exists.     *)
(***************************************************************************)
GetAddressingMode(m) ==
  LET hits == {i \in DOMAIN doc.addressing_modes : doc.addressing_modes[i].code = m}
  IN  /\ phase = "run"
      /\ answer' = [call |-> "GetAddressingMode", arg |-> m,
                    result |-> AddressingModeInfo(doc.addressing_modes[CHOOSE i \in hits :
                                                                         \A j \in hits : i <= j])]
      /\ UNCHANGED <<doc, phase, opcode_map>>

Next ==
  \/ Generate \/ Compile \/ CompileRejected
  \/ \E b \in Probes : GetInstruction(b)
  \/ \E i \in DOMAIN doc.addressing_modes : GetAddressingMode(doc.addressing_modes[i].code)

Spec == Init /\ [][Next]_vars
-----------------------------------------------------------------------------
(* generate and compile are the abstract build; the static map is hidden.  *)
Abs == INSTANCE IsaSpec WITH
         status <- CASE phase \in {"generate", "compile"} -> "pending"
                     [] phase = "run"                     -> "accepted"
                     [] phase = "rejected"                -> "rejected"


TypeOK ==
  /\ doc \in Docs
  /\ phase \in {"generate", "compile", "run", "rejected"}
  /\ \/ opcode_map = NotBuilt
     \/ /\ opcode_map.built
        /\ DOMAIN opcode_map.entries \subseteq 0..255
        /\ \A b \in DOMAIN opcode_map.entries :
             opcode_map.entries[b] \in {InstructionInfo(i) : i \in InstrChoices}
  /\ \/ answer = NoAnswer
     \/ /\ answer.call = "GetInstruction" /\ answer.arg \in Probes
        /\ answer.result \in {InstructionInfo(i) : i \in InstrChoices} \cup {Nullopt}
     \/ /\ answer.call = "GetAddressingMode"
        /\ answer.result \in [code : STRING, operands : 0..255]

(***************************************************************************)
(* generate_isa.py, the compiler and IsaInfo together implement the ISA    *)
(* model builder of spec 3 and 4.1: a header that compiles comes from a    *)
(* document with unique mode codes, no negative operand count, no unknown  *)
(* addressing mode or status flag and no two instructions on one opcode    *)
(* byte; and the lazily built, last-wins opcode map and the linear mode    *)
(* scan answer as the declared tables do (cycles and operand counts        *)
(* included, which the uint8_t fields would wrap), whatever calls come     *)
(* first.                                                                  *)
(***************************************************************************)
IsaRefinement == Abs!Spec

(***************************************************************************)
(* Spec 3: a status flag's bit position is 0-7.  generate_status_flag_enum *)
(* writes "{code} = {bit}" into an enum backed by uint8_t, so any bit up   *)
(* to 255 compiles.                                                        *)
(***************************************************************************)
FlagBitsInStatusByte ==
  phase = "run" =>
    \A i \in DOMAIN doc.status_flags : doc.status_flags[i].bit \in 0..7

(***************************************************************************)
(* Spec 3: an instruction's affected status flags are an ordered set.      *)
(* generate_isa_info_class copies flags_affected into the std::vector      *)
(* initializer as written, so a flag listed twice is returned twice by     *)
(* GetInstruction.                                                         *)
(***************************************************************************)
FlagsAffectedIsSet ==
  answer.call = "GetInstruction" /\ answer.result # Nullopt =>
    Distinct(answer.result.flags_affected)
=============================================================================
