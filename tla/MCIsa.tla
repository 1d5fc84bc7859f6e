-------------------------------- MODULE MCIsa --------------------------------
(***************************************************************************)
(* Model-checking instance of Isa: four addressing-mode lists (one with a  *)
(* repeated code, one with an operand count of -1, one of 256), three      *)
(* status-flag lists (bits in range, repeated, above 7, above 255), and up *)
(* to two instructions drawn from two mnemonics, three mode codes (ABS is  *)
(* declared by no list), opcodes 0, 1 and 256, cycle counts 2 and 256, and *)
(* flag lists naming a declared or an undeclared flag.                     *)
(***************************************************************************)
EXTENDS Isa

Flag(c, b) == [code |-> c, bit |-> b]
Mode(c, n) == [code |-> c, operands |-> n]

MCModeDecls  == {<<Mode("IMP", 0), Mode("IMM", 1)>>, <<Mode("IMP", 0), Mode("IMP", 0)>>,
                 <<Mode("IMP", 0), Mode("IMM", -1)>>, <<Mode("IMP", 0), Mode("IMM", 256)>>}
MCFlagDecls  == {<<Flag("Z", 1), Flag("C", 0)>>,
                 <<Flag("Z", 1), Flag("C", 1)>>,
                 <<Flag("Z", 1), Flag("C", 256)>>}
MCFlagDeclsWide == MCFlagDecls \cup {<<Flag("Z", 1), Flag("C", 8)>>}
MCInstrs     == [mnemonic : {"NOP", "LDA"}, addressing_mode : {"IMP", "IMM", "ABS"},
                 opcode : {0, 1, 256}, cycles : {2, 256},
                 flags_affected : {<<>>, <<"Z">>, <<"N">>}]
(* flags_affected: [Z, Z], a flag listed twice.                            *)
MCInstrsRepeatedFlag == [mnemonic : {"NOP"}, addressing_mode : {"IMP"}, opcode : {0}, cycles : {2},
                         flags_affected : {<<"Z">>, <<"Z", "Z">>}]
MCProbes     == {0, 1, 255}
=============================================================================
