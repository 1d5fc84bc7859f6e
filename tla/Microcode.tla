------------------------------ MODULE Microcode ------------------------------
(***************************************************************************)
(* generate_microcode.py and the C++ it generates.                         *)
(*                                                                         *)
(* main() emits the fetch preamble, then one block per instruction in      *)
(* declaration order, into the body of BuildIrataInstructionSet.  The      *)
(* emitted file is then compiled against the generated isa.h: an           *)
(* isa::Opcode enumerator that does not exist is a compile error.  At run  *)
(* time the emitted statements execute in emission order, building an     *)
(* InstructionSet; Builder::RequireControls throws on a control line the   *)
(* CPU does not define, and the exception discards the partial set.        *)
(*                                                                         *)
(* The emitted text is modelled by what its statements do: `code` is the   *)
(* sequence of emitted statements, `ip` the statement executing.           *)
(***************************************************************************)
EXTENDS MicrocodeDocs

VARIABLES
  doc,              \* the loaded YAML document
  isa_opcodes,      \* the isa::Opcode enumerators of the isa.h it includes
  phase,            \* "generate", "compile", "run", "done" or "failed"
  gi,               \* main(): 0 before the preamble, then the next instruction
  code,             \* statements emitted so far
  ip,               \* next statement of BuildIrataInstructionSet to execute
  instruction_set,  \* the InstructionSet local of the generated function
  instruction,      \* the `instruction` local of the current block
  variant,          \* the `variant` local of the current block
  outcome           \* what the build invocation yields

vars == <<doc, isa_opcodes, phase, gi, code, ip, instruction_set, instruction, variant, outcome>>

Abs == INSTANCE MicrocodeBuild

-----------------------------------------------------------------------------
(* Generator: the statements each emit_* function writes.                  *)

EmitStep(stage, controls, context) ==
  [op |-> "step", stage |-> stage, controls |-> controls, ctx |-> context]

(* The status_conditions initializer: {key.lower(), val} per guard entry.  *)
InitializerList(when) ==
  [i \in DOMAIN when |-> [key |-> LowerKey(when[i].key), value |-> Truthy(when[i].value)]]

(* Mutant: steps tagged with their step index instead of their stage.     *)
EmitVariantStepIndexAsStage(variant_index, v) ==
  <<[op |-> "variant_begin", conds |-> InitializerList(v.when)]>>
  \o FlattenSeq([j \in DOMAIN v.stages |->
        [k \in DOMAIN v.stages[j] |->
           EmitStep(k - 1, v.stages[j][k], StepContext(variant_index, j - 1, k - 1))]])
  \o <<[op |-> "variant_end"]>>

EmitVariant(variant_index, v) ==
  <<[op |-> "variant_begin", conds |-> InitializerList(v.when)]>>
  \o FlattenSeq([j \in DOMAIN v.stages |->
        [k \in DOMAIN v.stages[j] |->
           EmitStep(j - 1, v.stages[j][k], StepContext(variant_index, j - 1, k - 1))]])
  \o <<[op |-> "variant_end"]>>

EmitInstruction(name, definition) ==
  <<[op |-> "instruction_begin", opcode |-> OpcodeName(name)]>>
  \o (IF definition.form = "variants"
        THEN FlattenSeq([i \in DOMAIN definition.variants |->
                           EmitVariant(i - 1, definition.variants[i])])
        ELSE EmitVariant(0, [when |-> <<>>, stages |-> definition.stages]))
  \o <<[op |-> "instruction_end"]>>

EmitFetchPreamble(fetch_preamble) ==
  [k \in DOMAIN fetch_preamble |->
     [op |-> "fetch_step", controls |-> fetch_preamble[k], ctx |-> FetchContext(k - 1)]]

(* The std::map built from an emitted initializer list: first key wins.    *)
StatusMap(list) ==
  LET first(f) == CHOOSE i \in DOMAIN list :
                    /\ list[i].key = f
                    /\ \A j \in 1..(i - 1) : list[j].key # f
  IN  [f \in {list[i].key : i \in DOMAIN list} |-> list[first(f)].value]

NoInstruction == [opcode |-> <<>>, variants |-> <<>>]
NoVariant     == [conds |-> <<>>, steps |-> <<>>]
EmptySet      == [fetch_preamble |-> <<>>, instructions |-> <<>>]

-----------------------------------------------------------------------------
(* The state main() starts in, whatever the document and the header.       *)
Start ==
  /\ phase = "generate"
  /\ gi = 0
  /\ code = <<>>
  /\ ip = 1
  /\ instruction_set = EmptySet
  /\ instruction = NoInstruction
  /\ variant = NoVariant
  /\ outcome = Pending

Init == doc \in Docs /\ isa_opcodes = IsaOpcodes /\ Start

(* main(): lines.append(emit_fetch_preamble(fetch_preamble))               *)
GeneratePreamble ==
  /\ phase = "generate" /\ gi = 0
  /\ code' = EmitFetchPreamble(doc.fetch)
  /\ gi' = 1
  /\ UNCHANGED <<doc, isa_opcodes, phase, ip, instruction_set, instruction, variant, outcome>>

(* Mutant: instructions emitted in reverse declaration order.              *)
GenerateInstructionReversed ==
  /\ phase = "generate" /\ 1 <= gi /\ gi <= Len(doc.instructions)
  /\ code' = code \o EmitInstruction(doc.instructions[Len(doc.instructions) + 1 - gi][1],
                                     doc.instructions[Len(doc.instructions) + 1 - gi][2])
  /\ gi' = gi + 1
  /\ UNCHANGED <<doc, isa_opcodes, phase, ip, instruction_set, instruction, variant, outcome>>

(* main(): for name, definition in instructions.items(): emit_instruction  *)
GenerateInstruction ==
  /\ phase = "generate" /\ 1 <= gi /\ gi <= Len(doc.instructions)
  /\ code' = code \o EmitInstruction(doc.instructions[gi][1], doc.instructions[gi][2])
  /\ gi' = gi + 1
  /\ UNCHANGED <<doc, isa_opcodes, phase, ip, instruction_set, instruction, variant, outcome>>

(* main(): the return statement is appended and the file written.          *)
WriteOutput ==
  /\ phase = "generate" /\ gi = Len(doc.instructions) + 1
  /\ phase' = "compile"
  /\ UNCHANGED <<doc, isa_opcodes, gi, code, ip, instruction_set, instruction, variant, outcome>>

(* Opcodes named by `instruction.opcode = isa::Opcode::X` statements.      *)
ReferencedOpcodes == {code[n].opcode : n \in {m \in DOMAIN code : code[m].op = "instruction_begin"}}

(* The emitted file compiles: every referenced enumerator exists.          *)
Compile ==
  /\ phase = "compile"
  /\ ReferencedOpcodes \subseteq isa_opcodes
  /\ phase' = "run"
  /\ UNCHANGED <<doc, isa_opcodes, gi, code, ip, instruction_set, instruction, variant, outcome>>

(* The compiler reports every unknown isa::Opcode enumerator.              *)
CompileUnknownOpcode ==
  /\ phase = "compile"
  /\ ~ (ReferencedOpcodes \subseteq isa_opcodes)
  /\ phase' = "failed"
  /\ outcome' = UnknownOpcodeError(ReferencedOpcodes \ isa_opcodes)
  /\ UNCHANGED <<doc, isa_opcodes, gi, code, ip, instruction_set, instruction, variant>>

-----------------------------------------------------------------------------
(* BuildIrataInstructionSet, one emitted statement block per step.         *)

Stmt == code[ip]
Executing(op) == phase = "run" /\ ip <= Len(code) /\ Stmt.op = op

(* fetch_preamble step: step.stage = 0; RequireControls; push_back.        *)
ExecFetchStep ==
  /\ Executing("fetch_step")
  /\ Unresolved(Stmt.controls) = {}
  /\ instruction_set' = [instruction_set EXCEPT
                           !.fetch_preamble = Append(@, StepIR(0, Stmt.controls))]
  /\ ip' = ip + 1
  /\ UNCHANGED <<doc, isa_opcodes, phase, gi, code, instruction, variant, outcome>>

ExecInstructionBegin ==
  /\ Executing("instruction_begin")
  /\ instruction' = [opcode |-> Stmt.opcode, variants |-> <<>>]
  /\ ip' = ip + 1
  /\ UNCHANGED <<doc, isa_opcodes, phase, gi, code, instruction_set, variant, outcome>>

ExecVariantBegin ==
  /\ Executing("variant_begin")
  /\ variant' = [conds |-> StatusMap(Stmt.conds), steps |-> <<>>]
  /\ ip' = ip + 1
  /\ UNCHANGED <<doc, isa_opcodes, phase, gi, code, instruction_set, instruction, outcome>>

ExecStep ==
  /\ Executing("step")
  /\ Unresolved(Stmt.controls) = {}
  /\ variant' = [variant EXCEPT !.steps = Append(@, StepIR(Stmt.stage, Stmt.controls))]
  /\ ip' = ip + 1
  /\ UNCHANGED <<doc, isa_opcodes, phase, gi, code, instruction_set, instruction, outcome>>

ExecVariantEnd ==
  /\ Executing("variant_end")
  /\ instruction' = [instruction EXCEPT !.variants = Append(@, variant)]
  /\ ip' = ip + 1
  /\ UNCHANGED <<doc, isa_opcodes, phase, gi, code, instruction_set, variant, outcome>>

ExecInstructionEnd ==
  /\ Executing("instruction_end")
  /\ instruction_set' = [instruction_set EXCEPT
                           !.instructions = Append(@, instruction)]
  /\ ip' = ip + 1
  /\ UNCHANGED <<doc, isa_opcodes, phase, gi, code, instruction, variant, outcome>>

(* RequireControls throws UnknownControlLine naming a control and context. *)
RequireControlsThrows ==
  /\ phase = "run" /\ ip <= Len(code)
  /\ Stmt.op \in {"fetch_step", "step"}
  /\ \E c \in Unresolved(Stmt.controls) :
        outcome' = UnknownControlError(c, Stmt.ctx)
  /\ phase' = "failed"
  /\ UNCHANGED <<doc, isa_opcodes, gi, code, ip, instruction_set, instruction, variant>>

(* return instruction_set;                                                 *)
ExecReturn ==
  /\ phase = "run" /\ ip = Len(code) + 1
  /\ phase' = "done"
  /\ outcome' = Built(instruction_set)
  /\ UNCHANGED <<doc, isa_opcodes, gi, code, ip, instruction_set, instruction, variant>>

Next ==
  \/ GeneratePreamble \/ GenerateInstruction \/ WriteOutput
  \/ Compile \/ CompileUnknownOpcode
  \/ ExecFetchStep \/ ExecInstructionBegin \/ ExecVariantBegin \/ ExecStep
  \/ ExecVariantEnd \/ ExecInstructionEnd \/ RequireControlsThrows \/ ExecReturn

(***************************************************************************)
(* No fairness: the pipeline is a finite single pass, and no liveness      *)
(* property is claimed of it.                                              *)
(***************************************************************************)
Spec == Init /\ [][Next]_vars
-----------------------------------------------------------------------------
StepType        == [stage : Nat, controls : SUBSET Controls]
ConditionsType  == UNION {[F -> BOOLEAN] : F \in SUBSET Flags}
VariantType     == [conds : ConditionsType, steps : Seq(StepType)]
OpcodeType      == Mnemonics \X (Modes \cup {"IMP"})
InstructionType == [opcode : OpcodeType \cup {<<>>}, variants : Seq(VariantType)]
SetType         == [fetch_preamble : Seq(StepType),
                    instructions : Seq([opcode : OpcodeType, variants : Seq(VariantType)])]

(* The types of the build's own state, whatever its inputs.               *)
BuildStateOK ==
  /\ phase \in {"generate", "compile", "run", "done", "failed"}
  /\ gi \in 0..(MaxInstrs + 1)
  /\ ip \in 1..(Len(code) + 1)
  /\ instruction_set \in SetType
  /\ instruction \in InstructionType
  /\ variant \in VariantType
  /\ \/ outcome = Pending
     \/ outcome.status = "ok" /\ outcome = Built(outcome.iset) /\ outcome.iset \in SetType
     \/ outcome \in {UnknownOpcodeError(o) : o \in SUBSET OpcodeType}
     \/ outcome \in {UnknownControlError(c, x) :
                      c \in Controls,
                      x \in {FetchContext(k) : k \in 0..MaxFetch}
                           \cup {StepContext(v, j, k) :
                                   v \in 0..MaxVariants, j \in 0..MaxStages, k \in 0..MaxSteps}}

TypeOK ==
  /\ doc \in Docs
  /\ isa_opcodes \subseteq Mnemonics \X Modes
  /\ BuildStateOK

(***************************************************************************)
(* The generator, the compiler and the generated BuildIrataInstructionSet  *)
(* together implement MicrocodeBuild: a build that ends, ends with        *)
(* exactly the InstructionSet the document declares (stage and step order  *)
(* as declared, each step tagged with its stage, the fetch preamble at     *)
(* stage 0, a "stages" definition as one unconditional variant), or with   *)
(* the unknown opcodes, or with the first unresolved control line in       *)
(* execution order and its location; no partial set ever escapes.        *)
(***************************************************************************)
BuildRefinement == Abs!Spec

(***************************************************************************)
(* Spec 4.3 and 8: an UnknownControlLine error names the instruction,      *)
(* variant, stage and step, so that the offending declaration can be      *)
(* pinpointed.  Stated as: the location the error reports, together with  *)
(* the control it names, matches exactly one declared step.  The context  *)
(* emit_variant builds is "variant[i].stage[j].step[k]" without the       *)
(* instruction name.                                                       *)
(***************************************************************************)
ErrorPinpointsStep ==
  outcome.status = "UnknownControlLine" =>
    LET loc == Abs!Located(doc) IN
    Cardinality({k \in DOMAIN loc : /\ loc[k].ctx = outcome.ctx
                                    /\ outcome.control \in loc[k].controls}) = 1

(***************************************************************************)
(* Spec 2: the resolver builds one or more variants per instruction.       *)
(* emit_instruction emits none for "variants: []".                        *)
(***************************************************************************)
EveryInstructionHasVariant ==
  outcome.status = "ok" =>
    \A i \in DOMAIN outcome.iset.instructions :
      outcome.iset.instructions[i].variants # <<>>

(***************************************************************************)
(* Spec 7 (no silent skipping): every guard entry a variant declares is    *)
(* required by the built variant.  key.lower() maps "Z" and "z" to one     *)
(* std::map key and one of the two entries is dropped.                     *)
(***************************************************************************)
GuardKeepsDeclaredConditions ==
  outcome.status = "ok" =>
    \A i \in DOMAIN doc.instructions :
      LET vs == Abs!DeclaredVariants(doc.instructions[i][2]) IN
      \A v \in DOMAIN vs : \A e \in DOMAIN vs[v].when :
        outcome.iset.instructions[i].variants[v].conds[LowerKey(vs[v].when[e].key)]
          = Truthy(vs[v].when[e].value)

(***************************************************************************)
(* Spec 4.2 and 7: a "when" guard maps a flag code to a boolean, and a     *)
(* malformed entry is never accepted silently.  emit_variant writes        *)
(* "true" if value else "false", so a quoted "false" builds a variant that *)
(* requires the flag to be true.                                           *)
(***************************************************************************)
GuardValuesAreBooleans ==
  outcome.status = "ok" =>
    \A i \in DOMAIN doc.instructions :
      LET vs == Abs!DeclaredVariants(doc.instructions[i][2]) IN
      \A v \in DOMAIN vs : \A e \in DOMAIN vs[v].when : "bool" \in DOMAIN vs[v].when[e].value
=============================================================================
