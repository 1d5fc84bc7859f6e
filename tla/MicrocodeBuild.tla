--------------------------- MODULE MicrocodeBuild ---------------------------
(***************************************************************************)
(* What the microcode build promises (spec sections 4.2, 4.3, 7): given a  *)
(* document, the build either returns the InstructionSet the document      *)
(* declares, or fails; it never returns part of a model.  Failures come in *)
(* the order the pipeline meets them: a name that resolves to no opcode    *)
(* stops the build before any control line is checked (all such names are *)
(* reported together); otherwise the first step, in execution order, that  *)
(* names an unresolved control line is reported with its location.        *)
(*                                                                         *)
(* The result is defined directly from the document, with no generated    *)
(* code in between; Microcode is checked to implement this module.         *)
(***************************************************************************)
EXTENDS MicrocodeDocs

VARIABLES
  doc,          \* the microcode document
  isa_opcodes,  \* the isa::Opcode enumerators the build is compiled against
  outcome

vars == <<doc, isa_opcodes, outcome>>

(* A definition without "variants" is one unconditional variant.           *)
DeclaredVariants(def) ==
  IF def.form = "variants" THEN def.variants
                           ELSE <<[when |-> <<>>, stages |-> def.stages]>>

(***************************************************************************)
(* The steps of stages[j..], in declaration order, each tagged with its    *)
(* 0-based stage number.                                                   *)
(***************************************************************************)
RECURSIVE StagedSteps(_, _)
StagedSteps(stages, j) ==
  IF j > Len(stages) THEN <<>>
  ELSE [k \in DOMAIN stages[j] |-> StepIR(j - 1, stages[j][k])]
         \o StagedSteps(stages, j + 1)

VariantOf(v) == [conds |-> StatusConditions(v.when),
                 steps |-> StagedSteps(v.stages, 1)]

ReferenceIR(d) ==
  [fetch_preamble |-> [k \in DOMAIN d.fetch |-> StepIR(0, d.fetch[k])],
   instructions   |->
     [i \in DOMAIN d.instructions |->
        LET def == d.instructions[i][2] IN
        [opcode   |-> OpcodeName(d.instructions[i][1]),
         variants |-> [v \in DOMAIN DeclaredVariants(def) |->
                         VariantOf(DeclaredVariants(def)[v])]]]]

(***************************************************************************)
(* Every step of the document with its location, in execution order: the  *)
(* fetch preamble, then each instruction's variants, stages and steps.     *)
(***************************************************************************)
RECURSIVE Locate(_, _, _)
Locate(stages, v, j) ==
  IF j > Len(stages) THEN <<>>
  ELSE [k \in DOMAIN stages[j] |->
          [controls |-> stages[j][k], ctx |-> StepContext(v, j - 1, k - 1)]]
         \o Locate(stages, v, j + 1)

Located(d) ==
  [k \in DOMAIN d.fetch |-> [controls |-> d.fetch[k], ctx |-> FetchContext(k - 1)]]
    \o FlattenSeq([i \in DOMAIN d.instructions |->
         LET vs == DeclaredVariants(d.instructions[i][2]) IN
         FlattenSeq([v \in DOMAIN vs |-> Locate(vs[v].stages, v - 1, 1)])])

Outcomes(d) ==
  LET unknown == {OpcodeName(d.instructions[i][1]) : i \in DOMAIN d.instructions}
                   \ isa_opcodes
      loc     == Located(d)
      bad     == {k \in DOMAIN loc : Unresolved(loc[k].controls) # {}}
      first   == CHOOSE k \in bad : \A m \in bad : k <= m
  IN  IF unknown # {} THEN {UnknownOpcodeError(unknown)}
      ELSE IF bad # {} THEN {UnknownControlError(c, loc[first].ctx) :
                               c \in Unresolved(loc[first].controls)}
      ELSE {Built(ReferenceIR(d))}

(* Any document, built against any ISA of the declared mnemonics and modes. *)
Init ==
  /\ doc \in Docs
  /\ isa_opcodes \subseteq Mnemonics \X Modes
  /\ outcome = Pending

Build ==
  /\ outcome = Pending
  /\ outcome' \in Outcomes(doc)
  /\ UNCHANGED <<doc, isa_opcodes>>

(* Outcomes appear only as Build allows.                                  *)
Spec == Init /\ [][Build]_vars
=============================================================================
