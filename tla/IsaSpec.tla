------------------------------ MODULE IsaSpec ------------------------------
(***************************************************************************)
(* What the ISA model builder promises (spec sections 3, 4.1, 7 and 8),   *)
(* with no generated header in between.  A document is well formed when    *)
(* its addressing-mode codes are unique with operand byte counts of at     *)
(* least 0, every instruction names a declared addressing mode and         *)
(* declared status flags (else UnknownAddressingMode, UnknownStatusFlag)   *)
(* and no two instructions occupy one opcode byte (else DuplicateOpcode).  *)
(* The build rejects every document that is not well formed; it may       *)
(* reject others for reasons of its own.  A build that is accepted answers *)
(* GetInstruction(b) from the declared opcode table, and                   *)
(* GetAddressingMode(m) with the mode declared with code m.  Isa is        *)
(* checked to implement this module.                                       *)
(***************************************************************************)
EXTENDS IsaDocs

VARIABLES
  doc,      \* the instructions.yaml document
  status,   \* "pending", "accepted" or "rejected"
  answer    \* the value the last lookup returned, or NoAnswer

vars == <<doc, status, answer>>

(* Spec 3: the mode registry; spec 4.1: the checks made per instruction.  *)
WellFormed(d) ==
  LET insts == d.instructions
      modes == d.addressing_modes
      codes == {d.status_flags[i].code : i \in DOMAIN d.status_flags}
  IN  /\ \A i, j \in DOMAIN modes : modes[i].code = modes[j].code => i = j
      /\ \A i \in DOMAIN modes : modes[i].operands >= 0
      /\ \A i \in DOMAIN insts :
           /\ insts[i].addressing_mode \in {modes[j].code : j \in DOMAIN modes}
           /\ ToSet(insts[i].flags_affected) \subseteq codes
           /\ insts[i].opcode \in 0..255
           /\ \A j \in 1..(i - 1) : insts[j].opcode # insts[i].opcode

(* The opcode table: the instruction declared at each occupied byte.       *)
Table(d) ==
  [b \in {d.instructions[i].opcode : i \in DOMAIN d.instructions} |->
     d.instructions[CHOOSE i \in DOMAIN d.instructions : d.instructions[i].opcode = b]]

Init ==
  /\ doc \in Docs
  /\ status = "pending"
  /\ answer = NoAnswer

Build ==
  /\ status = "pending"
  /\ status' \in IF WellFormed(doc) THEN {"accepted", "rejected"} ELSE {"rejected"}
  /\ UNCHANGED <<doc, answer>>

LookUpOpcode(b) ==
  /\ status = "accepted"
  /\ answer' = [call |-> "GetInstruction", arg |-> b,
                result |-> IF b \in DOMAIN Table(doc) THEN Table(doc)[b] ELSE Nullopt]
  /\ UNCHANGED <<doc, status>>

LookUpMode(m) ==
  /\ status = "accepted"
  /\ answer' = [call |-> "GetAddressingMode", arg |-> m,
                result |-> CHOOSE md \in ToSet(doc.addressing_modes) : md.code = m]
  /\ UNCHANGED <<doc, status>>

Next ==
  \/ Build
  \/ \E b \in Probes : LookUpOpcode(b)
  \/ \E i \in DOMAIN doc.addressing_modes : LookUpMode(doc.addressing_modes[i].code)

Spec == Init /\ [][Next]_vars
=============================================================================
