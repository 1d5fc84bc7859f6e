------------------------------ MODULE DebugSchema ------------------------------
(***************************************************************************)
(* validate_debug_json(data, schema) of validate_debug_schema.py, as the    *)
(* sequence of fail-fast steps it takes, after main() has chosen the      *)
(* document from its arguments: the schema, the document's                 *)
(* version and required keys, its scalar fields, then one loop step per    *)
(* item of symbols, pc_to_source, records and org_map.  A step either      *)
(* passes every require() it makes or exits through die() with the        *)
(* message of the first one that fails; the function returning is the     *)
(* document accepted.                                                      *)
(***************************************************************************)
EXTENDS DebugJson

(***************************************************************************)
(* main's --input, --assembler and --source: each absent (None), the empty *)
(* string, or a path.  Only a path is truthy.                              *)
(***************************************************************************)
CONSTANT ArgChoices

ArgValues == {"none", "empty", "path"}

ASSUME ArgChoices \subseteq [input : ArgValues, assembler : ArgValues, source : ArgValues]

VARIABLES
  args,     \* the parsed command line
  schema,   \* the loaded schema file
  data,     \* the loaded debug JSON file
  pc,       \* [at: the step about to run, i: the loop item, 0 before the loop]
  verdict   \* Running, Accepted, Rejected(message) or Crashed

vars == <<args, schema, data, pc, verdict>>

Running == [status |-> "running"]

(* An exception main does not catch (CalledProcessError): exit status 1.  *)
Crashed == [status |-> "crashed"]

(* The die() of main when it has no document to validate.                 *)
Usage == <<"arguments", "required">>

(* Python truthiness of an optional string argument.                       *)
Truthy(a) == a = "path"

At(x) == [at |-> x, i |-> 0]

Loops == {"symbols", "pc_to_source", "records", "org_map"}

After == [symbols |-> "pc_to_source", pc_to_source |-> "records",
          records |-> "org_map", org_map |-> "return"]

(* A step's outcome: go on at next when f is Ok, else die(f).              *)
Require(f, next) ==
  IF f = Ok THEN pc' = next /\ UNCHANGED verdict
            ELSE pc' = At("exit") /\ verdict' = Rejected(f)

-----------------------------------------------------------------------------
(* Lines 33-35: the schema is an object with a string schema_version.      *)
SchemaFailure ==
  CASE ~IsDict(schema)                          -> <<"schema", "object">>
    [] ~IsStr(Get(schema, "schema_version"))    -> <<"schema_version", "string">>
    [] OTHER                                    -> Ok

(* Lines 37-44: an object, of the schema's version, with every required key. *)
DocumentFailure ==
  CASE ~IsDict(data)                                          -> <<"debug JSON", "object">>
    [] ~PyEq(Get(data, "version"), Get(schema, "schema_version")) -> <<"version", "match">>
    [] MissingKeys(data, RequiredKeys) # <<>>   -> <<Head(MissingKeys(data, RequiredKeys)), "missing">>
    [] OTHER                                    -> Ok

(* Lines 46-53: entry, rom_size, source_root and the source_files list.    *)
ScalarFailure ==
  LET files == data.fields.source_files
  IN  CASE HexFailure(data.fields.entry, "entry") # Ok -> HexFailure(data.fields.entry, "entry")
        [] ~IsInt(data.fields.rom_size)              -> <<"rom_size", "integer">>
        [] ~IsStr(data.fields.source_root)           -> <<"source_root", "string">>
        [] ~IsList(files)                            -> <<"source_files", "list">>
        [] \E i \in DOMAIN files.items : ~IsStr(files.items[i])
                                                     -> <<"source_files entries", "string">>
        [] OTHER                                     -> Ok

(* The container a loop walks; org_map is read with data.get.              *)
Container(x) == Get(data, x)

(* Lines 56, 62, 78 and 95-96: the container's type, before its loop.     *)
ContainerFailure(x) ==
  CASE x \in {"symbols", "pc_to_source"} /\ ~IsDict(Container(x)) -> <<x, "object">>
    [] x = "records" /\ ~IsList(Container(x))                    -> <<x, "list">>
    [] x = "org_map" /\ Container(x) # Null /\ ~IsList(Container(x)) -> <<x, "list">>
    [] OTHER                                                     -> Ok

(* Mutant: the file is not looked up in source_files.                     *)
LineFailureNoCrossRef(e, pre) ==
  CASE ~IsStr(e.fields.file)                          -> <<pre \o ".file", "string">>
    [] ~(IsInt(e.fields.line) /\ Num(e.fields.line) >= 1) -> <<pre \o ".line", "positive">>
    [] ~(IsInt(e.fields.column) /\ Num(e.fields.column) >= 1)
                                                      -> <<pre \o ".column", "positive">>
    [] ~IsStr(e.fields.text)                          -> <<pre \o ".text", "string">>
    [] OTHER                                          -> Ok

(***************************************************************************)
(* Lines 68-75 and 86-92, shared by a pc_to_source value and a record:     *)
(* file is a listed string, line and column positive ints, text a string.  *)
(***************************************************************************)
LineFailure(e, pre) ==
  CASE ~IsStr(e.fields.file)                          -> <<pre \o ".file", "string">>
    [] ~PyIn(e.fields.file, data.fields.source_files)  -> <<pre \o ".file", "listed">>
    [] ~(IsInt(e.fields.line) /\ Num(e.fields.line) >= 1) -> <<pre \o ".line", "positive">>
    [] ~(IsInt(e.fields.column) /\ Num(e.fields.column) >= 1)
                                                      -> <<pre \o ".column", "positive">>
    [] ~IsStr(e.fields.text)                          -> <<pre \o ".text", "string">>
    [] OTHER                                          -> Ok

(* Lines 57-59: one symbols item.                                          *)
SymbolFailure(p) ==
  CASE ~IsStr(p[1]) -> <<"symbols keys", "string">>
    [] OTHER        -> HexFailure(p[2], "symbols[]")

(* Lines 63-75: one pc_to_source item.                                     *)
PcEntryFailure(p) ==
  CASE HexFailure(p[1], "pc_to_source key") # Ok -> HexFailure(p[1], "pc_to_source key")
    [] ~IsDict(p[2])                        -> <<"pc_to_source values", "object">>
    [] MissingKeys(p[2], PcFields) # <<>>   -> <<"pc_to_source." \o Head(MissingKeys(p[2], PcFields)),
                                                "missing">>
    [] OTHER                                -> LineFailure(p[2], "pc_to_source")

(* Lines 79-92: one record.                                                *)
RecordFailure(r) ==
  CASE ~IsDict(r)                            -> <<"records entries", "object">>
    [] MissingKeys(r, RecordFields) # <<>>   -> <<"record." \o Head(MissingKeys(r, RecordFields)),
                                                 "missing">>
    [] HexFailure(r.fields.address, "record.address") # Ok
                                             -> HexFailure(r.fields.address, "record.address")
    [] ~(IsInt(r.fields.rom_offset) /\ Num(r.fields.rom_offset) >= 0)
                                             -> <<"record.rom_offset", "non-negative">>
    [] OTHER                                 -> LineFailure(r, "record")

(* Lines 97-101: one org_map segment; each field is present, then hex.     *)
SegmentFailure(g) ==
  LET fail(f) == IF Has(g, f) THEN HexFailure(g.fields[f], "org_map." \o f)
                              ELSE <<"org_map." \o f, "missing">>
  IN  CASE ~IsDict(g)          -> <<"org_map entries", "object">>
        [] fail("start") # Ok  -> fail("start")
        [] OTHER               -> fail("end")

ItemFailure(x, e) ==
  CASE x = "symbols"      -> SymbolFailure(e)
    [] x = "pc_to_source" -> PcEntryFailure(e)
    [] x = "records"      -> RecordFailure(e)
    [] x = "org_map"      -> SegmentFailure(e)

(* The for loop moves to its next item, or past the loop.                  *)
Advance(x) ==
  IF pc.i < Len(Items(Container(x))) THEN [at |-> x, i |-> pc.i + 1] ELSE At(After[x])

-----------------------------------------------------------------------------
(***************************************************************************)
(* After parse_args, main loads the schema; the document json.load returns *)
(* from --input or from the assembler's output is one of DataChoices.     *)
(***************************************************************************)
Init ==
  /\ args \in ArgChoices
  /\ schema \in SchemaChoices
  /\ data \in DataChoices
  /\ pc = At("main")
  /\ verdict = Running

(* Lines 122-126: --input wins whenever it is truthy.                      *)
MainInput ==
  /\ pc = At("main") /\ Truthy(args.input)
  /\ pc' = At("schema")
  /\ UNCHANGED <<args, schema, data, verdict>>

(* Lines 128-133: no input, so assemble --source with --assembler.         *)
AssembleCalled == ~Truthy(args.input) /\ Truthy(args.assembler) /\ Truthy(args.source)

MainAssemble ==
  /\ pc = At("main") /\ AssembleCalled
  /\ pc' = At("schema")
  /\ UNCHANGED <<args, schema, data, verdict>>

(* run_assembler: subprocess.run(..., check=True) raises on a non-zero exit. *)
RunAssemblerFails ==
  /\ pc = At("main") /\ AssembleCalled
  /\ pc' = At("exit") /\ verdict' = Crashed
  /\ UNCHANGED <<args, schema, data>>

(* Line 135: neither a truthy --input nor both --assembler and --source.  *)
MainUsage ==
  /\ pc = At("main") /\ ~Truthy(args.input) /\ ~AssembleCalled
  /\ pc' = At("exit") /\ verdict' = Rejected(Usage)
  /\ UNCHANGED <<args, schema, data>>

CheckSchema   == pc = At("schema")   /\ Require(SchemaFailure, At("document"))   /\ UNCHANGED <<args, schema, data>>
CheckDocument == pc = At("document") /\ Require(DocumentFailure, At("scalars")) /\ UNCHANGED <<args, schema, data>>
CheckScalars  == pc = At("scalars")  /\ Require(ScalarFailure, At("symbols"))   /\ UNCHANGED <<args, schema, data>>

(* The type check before a loop; an empty loop goes straight past it.     *)
BeginLoop(x) ==
  /\ pc = At(x)
  /\ Require(ContainerFailure(x),
             IF Items(Container(x)) = <<>> THEN At(After[x]) ELSE [at |-> x, i |-> 1])
  /\ UNCHANGED <<args, schema, data>>

LoopItem(x) ==
  /\ pc.at = x /\ pc.i \in 1..Len(Items(Container(x)))
  /\ Require(ItemFailure(x, Items(Container(x))[pc.i]), Advance(x))
  /\ UNCHANGED <<args, schema, data>>

(* validate_debug_json returns: main returns 0.                            *)
Return ==
  /\ pc = At("return")
  /\ pc' = At("exit")
  /\ verdict' = Accepted
  /\ UNCHANGED <<args, schema, data>>

Next ==
  \/ MainInput \/ MainAssemble \/ RunAssemblerFails \/ MainUsage
  \/ CheckSchema \/ CheckDocument \/ CheckScalars \/ Return
  \/ \E x \in Loops : BeginLoop(x) \/ LoopItem(x)

(***************************************************************************)
(* No fairness: subprocess.run in run_assembler has no timeout, so a hung *)
(* assembler hangs the script, and no liveness property is claimed.       *)
(***************************************************************************)
Spec == Init /\ [][Next]_vars

-----------------------------------------------------------------------------
(***************************************************************************)
(* The verdict of a run in progress is the abstract Pending; so is that of *)
(* a run that never reached validate_debug_json (usage error, assembler    *)
(* failure), which says nothing of the document.                           *)
(***************************************************************************)
Abs == INSTANCE DebugSchemaSpec
         WITH result <- IF verdict \in {Running, Crashed, Rejected(Usage)} THEN Pending ELSE verdict

(***************************************************************************)
(* The fail-fast walk of validate_debug_json, one require() at a time and  *)
(* one loop item at a time, accepts exactly the documents that violate no *)
(* check, and every die() it makes names a check the document violates.  *)
(***************************************************************************)
ValidatorRefinement == Abs!Spec

-----------------------------------------------------------------------------
(* The pc_to_source values, records and org_map segments of a document.    *)
PcEntries(d) == {p[2] : p \in ToSet(Items(d.fields.pc_to_source))}
Records(d)   == ToSet(Items(d.fields.records))
Segments(d)  == ToSet(Items(Get(d, "org_map")))

(* The values validate_hex was called on.                                  *)
HexValues(d) ==
  {d.fields.entry} \cup {p[2] : p \in ToSet(Items(d.fields.symbols))}
  \cup {p[1] : p \in ToSet(Items(d.fields.pc_to_source))}
  \cup {r.fields.address : r \in Records(d)}
  \cup {g.fields[f] : g \in Segments(d), f \in {"start", "end"}}

(* The values checked with isinstance(value, int).                         *)
IntValues(d) ==
  {d.fields.rom_size} \cup {r.fields.rom_offset : r \in Records(d)}
  \cup {e.fields[f] : e \in PcEntries(d) \cup Records(d), f \in {"line", "column"}}

(***************************************************************************)
(* Spec 6, external interfaces: addresses are hexadecimal strings         *)
(* matching ^0x[0-9a-fA-F]+$, the whole string.  validate_hex uses         *)
(* HEX_RE.match, whose "$" also matches before a final newline, so an     *)
(* accepted document may carry "0x8000\n" as an address.                  *)
(***************************************************************************)
HexAsSpecified ==
  verdict = Accepted => \A v \in HexValues(data) : SpecHex(v.s)

(***************************************************************************)
(* The messages "rom_size must be an integer" and "... must be a positive *)
(* integer": an accepted document has JSON numbers there.  isinstance(v,  *)
(* int) also holds for true and false, so a boolean line, column,         *)
(* rom_offset or rom_size is accepted.                                     *)
(***************************************************************************)
IntegersAsSpecified ==
  verdict = Accepted => \A v \in IntValues(data) : v.t = "int"
=============================================================================
