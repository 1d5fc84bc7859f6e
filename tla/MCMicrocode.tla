----------------------------- MODULE MCMicrocode -----------------------------
(***************************************************************************)
(* Model-checking instances of Microcode.  Two families of documents:      *)
(*  - Bodies: one instruction (NOP, or LDA, whose fallback LDA_IMP names   *)
(*    no opcode) whose definition is rich (up to two variants of up to two *)
(*    stages of up to two steps), to exercise the order and numbering of   *)
(*    stages and steps and the failure location;                           *)
(*  - Bindings: up to two instructions with small bodies, named so that    *)
(*    two names resolve to one opcode and one name to no opcode (the guard *)
(*    runs use it; MCIrataBuild checks it against a generated ISA).        *)
(* The bodies run also varies each variant's guard (none, or Z: true), so *)
(* the built status conditions are compared with the declared ones.       *)
(* The ISA defines NOP_IMP and LDA_IMM; the CPU defines PC_INC only.       *)
(***************************************************************************)
EXTENDS Microcode

CONSTANT NoSuffixValue   \* model value standing for NoSuffix

MCMnemonics  == {"NOP", "LDA"}
MCModes      == {"IMP", "IMM"}
MCIsaOpcodes == {<<"NOP", "IMP">>, <<"LDA", "IMM">>}
MCControls   == {"PC_INC", "BOGUS_LINE"}
MCTopology   == {"PC_INC"}
MCFlags      == {"Z"}

Name(m, s) == [mnemonic |-> m, suffix |-> s, upper |-> TRUE]
Key(up)    == [flag |-> "Z", upper |-> up]

BodiesNames   == {Name("NOP", NoSuffixValue), Name("LDA", NoSuffixValue)}
BindingsNames == {Name("NOP", NoSuffixValue), Name("NOP", "IMP"),
                  Name("LDA", "IMM"), Name("LDA", NoSuffixValue)}

BodiesSteps   == {{"PC_INC"}, {"BOGUS_LINE"}}
BindingsSteps == {{}, {"PC_INC"}, {"BOGUS_LINE"}}

Unguarded      == {<<>>}
ZGuards        == {<<>>, <<[key |-> Key(TRUE), value |-> YBool(TRUE)]>>}
(* "when: {Z: true, z: false}": two YAML keys that lower to one.           *)
CaseGuards     == ZGuards \cup {<<[key |-> Key(TRUE), value |-> YBool(TRUE)],
                                  [key |-> Key(FALSE), value |-> YBool(FALSE)]>>}
(* "when: {Z: \"false\"}": a quoted string where a boolean belongs.        *)
QuotedGuards   == ZGuards \cup {<<[key |-> Key(TRUE), value |-> YStr("false")]>>}

=============================================================================
