---------------------------- MODULE MicrocodeDocs ----------------------------
(***************************************************************************)
(* The microcode specification document that generate_microcode.py reads   *)
(* (the YAML mapping returned by parse_yaml), the conversions the          *)
(* generator applies to instruction names and guard keys, and the IR       *)
(* values the generated BuildIrataInstructionSet builds.  Shared by the    *)
(* abstract build specification (MicrocodeBuild) and the detailed model of *)
(* the generator and of the code it emits (Microcode).                     *)
(*                                                                         *)
(* Data is abstracted to what the properties tell apart: an instruction    *)
(* name is a record of its mnemonic, its "_<mode>" suffix (or NoSuffix)    *)
(* and whether it was written in upper case; a guard key is a flag code    *)
(* and its case; a step is the set of control-line names it lists.         *)
(***************************************************************************)
EXTENDS Naturals, Sequences, SequencesExt, FiniteSets

CONSTANTS
  Mnemonics,     \* instruction mnemonics, e.g. NOP, LDA
  Modes,         \* addressing-mode codes a name may carry as suffix
  NoSuffix,      \* model value: the name contains no "_"
  IsaOpcodes,    \* enumerators of isa::Opcode, as <<mnemonic, mode>> pairs
  Controls,      \* control-line names the document may mention
  Topology,      \* the control lines the hdl::Cpu defines
  Flags,         \* status-flag codes a "when" guard may name
  NameChoices,   \* keys of "instructions" a document may use
  StepChoices,   \* control lists a step may declare
  WhenChoices,   \* "when" mappings a variant may declare
  MaxFetch,      \* bound on the length of fetch_preamble
  MaxInstrs,     \* bound on the number of instructions
  MaxVariants,   \* bound on the length of a "variants" list
  MaxStages,     \* bound on the length of a "stages" list
  MaxSteps       \* bound on the length of a stage's "steps" list

(* A YAML scalar as parse_yaml loads it: a bool, a (quoted) str, an int.  *)
YBool(b) == [bool |-> b]
YStr(s)  == [str |-> s]
YInt(n)  == [int |-> n]

Names == [mnemonic : Mnemonics, suffix : Modes \cup {NoSuffix}, upper : BOOLEAN]
Keys  == [flag : Flags, upper : BOOLEAN]

ASSUME NoSuffix \notin Modes
ASSUME IsaOpcodes \subseteq Mnemonics \X Modes
ASSUME Topology \subseteq Controls
ASSUME NameChoices \subseteq Names
ASSUME StepChoices \subseteq SUBSET Controls
ASSUME \A w \in WhenChoices : \A i \in DOMAIN w :
         DOMAIN w[i] = {"key", "value"} /\ w[i].key \in Keys
ASSUME {MaxFetch, MaxInstrs, MaxVariants, MaxStages, MaxSteps} \subseteq Nat

-----------------------------------------------------------------------------
(***************************************************************************)
(* Documents.  A stage is its list of steps; a definition is either        *)
(* {variants: [...]} or {stages: [...]}; "instructions" is a mapping, so   *)
(* its keys are distinct, and its order is the YAML declaration order.     *)
(***************************************************************************)
StageDecls   == BoundedSeq(StepChoices, MaxSteps)
StagesDecls  == BoundedSeq(StageDecls, MaxStages)
VariantDecls == [when : WhenChoices, stages : StagesDecls]
DefDecls     == [form : {"stages"}, stages : StagesDecls]
                  \cup [form : {"variants"}, variants : BoundedSeq(VariantDecls, MaxVariants)]
InstrDecls   == {s \in BoundedSeq(NameChoices \X DefDecls, MaxInstrs) :
                   \A i, j \in DOMAIN s : s[i][1] = s[j][1] => i = j}
Docs         == [fetch : BoundedSeq(StepChoices, MaxFetch), instructions : InstrDecls]

-----------------------------------------------------------------------------
(* Mutant: the "_IMP" fallback for a name without "_" is dropped.          *)
OpcodeNameNoFallback(name) ==
  IF name.suffix # NoSuffix THEN <<name.mnemonic, name.suffix>>
                            ELSE <<name.mnemonic>>

(***************************************************************************)
(* emit_instruction: name.upper() drops the case; a name without "_"       *)
(* gets the "_IMP" suffix; the result names an isa::Opcode enumerator.     *)
(***************************************************************************)
OpcodeName(name) ==
  IF name.suffix # NoSuffix THEN <<name.mnemonic, name.suffix>>
                            ELSE <<name.mnemonic, "IMP">>

(* emit_variant: val = "true" if value else "false", Python truthiness.   *)
Truthy(v) == CASE "bool" \in DOMAIN v -> v.bool
               [] "str" \in DOMAIN v  -> v.str # ""
               [] "int" \in DOMAIN v  -> v.int # 0

(* emit_variant: each guard key is emitted as key.lower().                 *)
LowerKey(key) == key.flag

(***************************************************************************)
(* The std::map<std::string, bool> built from the emitted initializer      *)
(* list {{k1, v1}, {k2, v2}, ...}: one entry per lowered key; when two     *)
(* declared keys lower to the same string the first one is kept (range     *)
(* insertion of unique keys, as libstdc++ and libc++ implement it).        *)
(***************************************************************************)
StatusConditions(when) ==
  LET keys      == {LowerKey(when[i].key) : i \in DOMAIN when}
      first(f)  == CHOOSE i \in DOMAIN when :
                     /\ LowerKey(when[i].key) = f
                     /\ \A j \in 1..(i - 1) : LowerKey(when[j].key) # f
  IN  [f \in keys |-> Truthy(when[first(f)].value)]

(***************************************************************************)
(* Builder::RequireControls (not in this repository: modelled from the     *)
(* spec, section 4.3): a name the topology does not define is unresolved.  *)
(***************************************************************************)
Unresolved(controls) == controls \ Topology

(* Location contexts, by what the emitted strings contain.                 *)
FetchContext(k)       == <<"fetch_preamble", k>>
StepContext(v, s, t)  == <<"variant", v, s, t>>

(* IR values: ir::Step and the outcome of BuildIrataInstructionSet.        *)
StepIR(stage, controls) == [stage |-> stage, controls |-> controls]
Pending                 == [status |-> "pending"]
Built(iset)             == [status |-> "ok", iset |-> iset]
UnknownOpcodeError(ops) == [status |-> "UnknownOpcode", opcodes |-> ops]
UnknownControlError(c, ctx) ==
  [status |-> "UnknownControlLine", control |-> c, ctx |-> ctx]
=============================================================================
