------------------------------ MODULE DebugJson ------------------------------
(***************************************************************************)
(* The values validate_debug_schema.py inspects: JSON documents as         *)
(* json.load returns them, the Python type tests and comparisons the       *)
(* validator applies to them, the HEX_RE pattern, and the messages die()   *)
(* exits with.  Shared by the abstract validator (DebugSchemaSpec) and the *)
(* model of validate_debug_json (DebugSchema).                             *)
(*                                                                         *)
(* A string is a sequence of character classes: "0" and "f" stand for     *)
(* characters of [0-9a-fA-F], "x" for the letter x, "z" for any other      *)
(* printable character, "NL" for a newline.  A dict whose keys the         *)
(* validator names (the document, the schema, a record) is a record of     *)
(* those keys, Absent marking a key the dict does not contain; a dict it   *)
(* iterates (symbols, pc_to_source) is the sequence of its items in        *)
(* insertion order.  A message is <<field, what is wrong>>.                *)
(***************************************************************************)
EXTENDS Naturals, Sequences, SequencesExt

CONSTANTS
  SchemaChoices,   \* schema files json.load may return
  DataChoices      \* debug JSON files json.load may return

Str(s)       == [t |-> "str", s |-> s]
Number(n)    == [t |-> "int", n |-> n]
Bool(b)      == [t |-> "bool", b |-> b]
Null         == [t |-> "null"]
Absent       == [t |-> "absent"]
List(items)  == [t |-> "list", items |-> items]
Obj(fields)  == [t |-> "obj", fields |-> fields]
Dict(pairs)  == [t |-> "obj", pairs |-> pairs]

Ok           == <<>>
Pending      == [status |-> "pending"]
Accepted     == [status |-> "accepted"]
Rejected(m)  == [status |-> "rejected", msg |-> m]

-----------------------------------------------------------------------------
(* isinstance(v, T): bool is a subclass of int.                            *)
IsStr(v)  == v.t = "str"
IsInt(v)  == v.t \in {"int", "bool"}
IsList(v) == v.t = "list"
IsDict(v) == v.t = "obj"

(* The integer value of an int or a bool (True == 1, False == 0).          *)
Num(v) == IF v.t = "bool" THEN (IF v.b THEN 1 ELSE 0) ELSE v.n

(* Python ==: an int and a bool compare by value, all else structurally.   *)
PyEq(a, b) == IF IsInt(a) /\ IsInt(b) THEN Num(a) = Num(b) ELSE a = b

(* key in d, and d.get(key) (None when the key is missing).                *)
Has(d, k) == k \in DOMAIN d.fields /\ d.fields[k] # Absent
Get(d, k) == IF Has(d, k) THEN d.fields[k] ELSE Null

(* value in lst, for a list.                                               *)
PyIn(v, lst) == \E i \in DOMAIN lst.items : PyEq(v, lst.items[i])

(* The items a for loop visits: a dict's items, a list's elements.         *)
Items(v) == CASE v.t = "obj" /\ "pairs" \in DOMAIN v -> v.pairs
              [] v.t = "list"                       -> v.items
              [] OTHER                              -> <<>>

-----------------------------------------------------------------------------
HexDigits == {"0", "f"}

(***************************************************************************)
(* HEX_RE.match(s) for HEX_RE = ^0x[0-9a-fA-F]+$: "$" matches at the end   *)
(* of the string and also just before a newline that ends it.              *)
(***************************************************************************)
HexReMatch(s) ==
  LET body == IF Len(s) > 0 /\ Last(s) = "NL" THEN Front(s) ELSE s
  IN  /\ Len(body) >= 3
      /\ body[1] = "0" /\ body[2] = "x"
      /\ \A i \in 3..Len(body) : body[i] \in HexDigits

(* The encoding the spec names: the whole string is 0x and hex digits.     *)
SpecHex(s) ==
  /\ Len(s) >= 3
  /\ s[1] = "0" /\ s[2] = "x"
  /\ \A i \in 3..Len(s) : s[i] \in HexDigits

(* validate_hex(value, label): the first failing require, or Ok.           *)
HexFailure(v, label) ==
  CASE ~IsStr(v)       -> <<label, "string">>
    [] ~HexReMatch(v.s) -> <<label, "hex">>
    [] OTHER           -> Ok

RequiredKeys == <<"entry", "rom_size", "source_root", "source_files",
                  "symbols", "pc_to_source", "records">>
PcFields     == <<"file", "line", "column", "text">>
RecordFields == <<"address", "rom_offset", "file", "line", "column", "text">>
SegmentFields == <<"start", "end">>

(* The fields of a fixed list that d lacks, in the order they are checked. *)
MissingKeys(d, keys) == SelectSeq(keys, LAMBDA k : ~Has(d, k))
=============================================================================
