---------------------------- MODULE MCDebugSchema ----------------------------
(***************************************************************************)
(* Debug JSON files for checking DebugSchema.  The top-level family varies *)
(* the schema and every top-level field over a well-formed value and the   *)
(* ill-formed values of interest (a hex string with a trailing newline, a  *)
(* boolean where an int is expected, a missing key, null org_map); the     *)
(* items family fixes a well-formed top level and varies up to two         *)
(* pc_to_source items and two records, each well-formed or wrong in one    *)
(* field.  The command lines choose each branch of main.                  *)
(***************************************************************************)
EXTENDS DebugSchema, Integers

Hex      == <<"0", "x", "f">>
HexNL    == <<"0", "x", "f", "NL">>
NoPrefix == <<"f">>
File1    == <<"z">>
File2    == <<"z", "z">>

GoodPc      == [file |-> Str(File1), line |-> Number(1), column |-> Number(1), text |-> Str(File1)]
GoodRecord  == [address |-> Str(Hex), rom_offset |-> Number(0), file |-> Str(File1),
                line |-> Number(1), column |-> Number(1), text |-> Str(File1)]
GoodSegment == [start |-> Str(Hex), end |-> Str(Hex)]
Schema1     == Obj([schema_version |-> Str(File1)])

-----------------------------------------------------------------------------
MCSchemasTop == {Schema1, Obj([schema_version |-> Number(1)]), Str(File1)}

(* A product of record sets, so that membership is checked field by field. *)
MCDataTop ==
  {Str(File1)} \cup
  [t      : {"obj"},
   fields : [version      : {Str(File1), Number(1), Absent},
             entry        : {Str(Hex), Str(HexNL), Str(NoPrefix), Number(1)},
             rom_size     : {Number(4), Bool(TRUE), Str(Hex)},
             source_root  : {Str(File1), Absent},
             source_files : {List(<<Str(File1)>>), List(<<Number(1)>>)},
             symbols      : {Dict(<<>>), Dict(<<<<Str(File1), Str(Hex)>>>>),
                             Dict(<<<<Str(File1), Number(1)>>>>)},
             pc_to_source : {Dict(<<>>), Dict(<<<<Str(Hex), Obj(GoodPc)>>>>)},
             records      : {List(<<>>), List(<<Obj(GoodRecord)>>)},
             org_map      : {Absent, Null, List(<<Obj(GoodSegment)>>),
                             List(<<Obj([GoodSegment EXCEPT !.end = Absent])>>)}]]

-----------------------------------------------------------------------------
PcEntryChoices ==
  {Obj(GoodPc), Obj([GoodPc EXCEPT !.file = Str(File2)]), Obj([GoodPc EXCEPT !.line = Bool(TRUE)]),
   Obj([GoodPc EXCEPT !.column = Number(0)]), Obj([GoodPc EXCEPT !.text = Absent]), Str(File1)}

RecordChoices ==
  {Obj(GoodRecord), Obj([GoodRecord EXCEPT !.address = Str(HexNL)]),
   Obj([GoodRecord EXCEPT !.rom_offset = Number(-1)]),
   Obj([GoodRecord EXCEPT !.rom_offset = Bool(FALSE)]),
   Obj([GoodRecord EXCEPT !.file = Number(1)]), Obj([GoodRecord EXCEPT !.address = Absent]),
   List(<<>>)}

(* A JSON object's keys are distinct.                                      *)
PcDicts ==
  {Dict(s) : s \in {s \in BoundedSeq({<<k, e>> : k \in {Str(Hex), Str(NoPrefix)},
                                                  e \in PcEntryChoices}, 2) :
                       \A i, j \in DOMAIN s : s[i][1] = s[j][1] => i = j}}

MCSchemasItems == {Schema1}

MCDataItems ==
  [t      : {"obj"},
   fields : [version      : {Str(File1)},        entry        : {Str(Hex)},
             rom_size     : {Number(4)},         source_root  : {Str(File1)},
             source_files : {List(<<Str(File1)>>)}, symbols   : {Dict(<<>>)},
             pc_to_source : PcDicts,
             records      : [t : {"list"}, items : BoundedSeq(RecordChoices, 2)],
             org_map      : {Null}]]
-----------------------------------------------------------------------------
(* --input given (it wins over --assembler), --input "" with both assembler *)
(* arguments (the assembler runs), and --source "" (the usage error).       *)
ArgsInput    == [input |-> "path",  assembler |-> "path", source |-> "path"]
ArgsAssemble == [input |-> "empty", assembler |-> "path", source |-> "path"]
ArgsNoSource == [input |-> "none",  assembler |-> "path", source |-> "empty"]
MCArgs      == {ArgsInput, ArgsAssemble, ArgsNoSource}
MCArgsInput == {ArgsInput}

MCSchemas == MCSchemasTop
MCData    == MCDataTop \cup MCDataItems
=============================================================================
