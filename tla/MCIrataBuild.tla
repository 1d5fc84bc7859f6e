---------------------------- MODULE MCIrataBuild ----------------------------
(***************************************************************************)
(* Model-checking instance of IrataBuild.  The ISA documents declare IMP   *)
(* and IMM and the flag Z, and up to two of NOP_IMP = 0, LDA_IMM = 1 and   *)
(* LDA_IMM = 0: both instructions on distinct bytes, one of them missing, *)
(* a repeated enumerator, or two enumerators on one byte.  The microcode   *)
(* documents are those of the bindings family of MCMicrocode: up to two   *)
(* instructions named NOP, NOP_IMP, LDA_IMM or LDA (which falls back to    *)
(* LDA_IMP), with small bodies.                                            *)
(***************************************************************************)
EXTENDS IrataBuild

CONSTANT NoSuffixValue   \* model value standing for NoSuffix

Inst(m, a, o) == [mnemonic |-> m, addressing_mode |-> a, opcode |-> o, cycles |-> 2,
                  flags_affected |-> <<>>]

MCModeDecls  == {<<[code |-> "IMP", operands |-> 0], [code |-> "IMM", operands |-> 1]>>}
MCFlagDecls  == {<<[code |-> "Z", bit |-> 1]>>}
MCInstrs     == {Inst("NOP", "IMP", 0), Inst("LDA", "IMM", 1), Inst("LDA", "IMM", 0)}

MCMnemonics  == {"NOP", "LDA"}
MCModes      == {"IMP", "IMM"}
MCControls   == {"PC_INC", "BOGUS_LINE"}
MCTopology   == {"PC_INC"}
MCFlags      == {"Z"}

Name(m, s) == [mnemonic |-> m, suffix |-> s, upper |-> TRUE]

BindingsNames == {Name("NOP", NoSuffixValue), Name("NOP", "IMP"),
                  Name("LDA", "IMM"), Name("LDA", NoSuffixValue)}
BindingsSteps == {{"PC_INC"}, {"BOGUS_LINE"}}
Unguarded     == {<<>>}
=============================================================================
