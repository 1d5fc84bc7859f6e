---------------------------- MODULE DebugSchemaSpec ----------------------------
(***************************************************************************)
(* What validate_debug_json promises, independent of the order in which   *)
(* it checks: a document is accepted exactly when it violates none of the *)
(* validator's checks, and a rejection names one check the document       *)
(* really violates.  Violations(s, d) lists every check that fails, each  *)
(* taken where the checks it depends on (the value is a dict, the field   *)
(* is present, ...) hold.  DebugSchema is checked to implement this.      *)
(***************************************************************************)
EXTENDS DebugJson

VARIABLES schema, data, result

vars == <<schema, data, result>>

When(cond, m) == IF cond THEN {m} ELSE {}

HexViolations(v, label) == IF HexFailure(v, label) = Ok THEN {} ELSE {HexFailure(v, label)}

(* The checks of one pc_to_source value or record, prefixed by pre.        *)
LineViolations(e, pre, files) ==
     When(Has(e, "file") /\ ~IsStr(e.fields.file), <<pre \o ".file", "string">>)
  \cup When(Has(e, "file") /\ IsStr(e.fields.file) /\ ~PyIn(e.fields.file, files),
            <<pre \o ".file", "listed">>)
  \cup UNION {When(Has(e, f) /\ ~(IsInt(e.fields[f]) /\ Num(e.fields[f]) >= 1),
                   <<pre \o "." \o f, "positive">>) : f \in {"line", "column"}}
  \cup When(Has(e, "text") /\ ~IsStr(e.fields.text), <<pre \o ".text", "string">>)

PcEntryViolations(e, files) ==
  IF ~IsDict(e) THEN {<<"pc_to_source values", "object">>}
  ELSE {<<"pc_to_source." \o f, "missing">> : f \in ToSet(MissingKeys(e, PcFields))}
       \cup LineViolations(e, "pc_to_source", files)

RecordViolations(r, files) ==
  IF ~IsDict(r) THEN {<<"records entries", "object">>}
  ELSE {<<"record." \o f, "missing">> : f \in ToSet(MissingKeys(r, RecordFields))}
       \cup (IF Has(r, "address") THEN HexViolations(r.fields.address, "record.address")
                                  ELSE {})
       \cup When(Has(r, "rom_offset") /\ ~(IsInt(r.fields.rom_offset)
                                           /\ Num(r.fields.rom_offset) >= 0),
                 <<"record.rom_offset", "non-negative">>)
       \cup LineViolations(r, "record", files)

SegmentViolations(g) ==
  IF ~IsDict(g) THEN {<<"org_map entries", "object">>}
  ELSE UNION {IF Has(g, f) THEN HexViolations(g.fields[f], "org_map." \o f)
                           ELSE {<<"org_map." \o f, "missing">>} : f \in ToSet(SegmentFields)}

(* The checks of a dict-valued document d against schema s.               *)
FieldViolations(s, d) ==
  LET files == IF IsList(Get(d, "source_files")) THEN Get(d, "source_files") ELSE List(<<>>)
      at(k) == Get(d, k)
      each(k, V(_)) == UNION {V(Items(at(k))[i]) : i \in DOMAIN Items(at(k))}
  IN  When(IsDict(s) /\ ~PyEq(at("version"), Get(s, "schema_version")), <<"version", "match">>)
      \cup {<<k, "missing">> : k \in ToSet(MissingKeys(d, RequiredKeys))}
      \cup (IF Has(d, "entry") THEN HexViolations(at("entry"), "entry") ELSE {})
      \cup When(Has(d, "rom_size") /\ ~IsInt(at("rom_size")), <<"rom_size", "integer">>)
      \cup When(Has(d, "source_root") /\ ~IsStr(at("source_root")), <<"source_root", "string">>)
      \cup When(Has(d, "source_files") /\ ~IsList(at("source_files")), <<"source_files", "list">>)
      \cup When(\E i \in DOMAIN Items(at("source_files")) : ~IsStr(Items(at("source_files"))[i]),
                <<"source_files entries", "string">>)
      \cup When(Has(d, "symbols") /\ ~IsDict(at("symbols")), <<"symbols", "object">>)
      \cup each("symbols", LAMBDA p : When(~IsStr(p[1]), <<"symbols keys", "string">>)
                                      \cup HexViolations(p[2], "symbols[]"))
      \cup When(Has(d, "pc_to_source") /\ ~IsDict(at("pc_to_source")), <<"pc_to_source", "object">>)
      \cup each("pc_to_source", LAMBDA p : HexViolations(p[1], "pc_to_source key")
                                           \cup PcEntryViolations(p[2], files))
      \cup When(Has(d, "records") /\ ~IsList(at("records")), <<"records", "list">>)
      \cup each("records", LAMBDA r : RecordViolations(r, files))
      \cup When(at("org_map") # Null /\ ~IsList(at("org_map")), <<"org_map", "list">>)
      \cup each("org_map", SegmentViolations)

Violations(s, d) ==
     When(~IsDict(s), <<"schema", "object">>)
  \cup When(IsDict(s) /\ ~IsStr(Get(s, "schema_version")), <<"schema_version", "string">>)
  \cup (IF IsDict(d) THEN FieldViolations(s, d) ELSE {<<"debug JSON", "object">>})

Init ==
  /\ schema \in SchemaChoices
  /\ data \in DataChoices
  /\ result = Pending

Validate ==
  /\ result = Pending
  /\ result' \in IF Violations(schema, data) = {} THEN {Accepted}
                 ELSE {Rejected(m) : m \in Violations(schema, data)}
  /\ UNCHANGED <<schema, data>>

Spec == Init /\ [][Validate]_vars
=============================================================================
