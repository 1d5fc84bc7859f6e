# TLA+ models of the IRATA2 ISA and microcode compilers

This directory holds TLA+ models of the build-time compiler in this repository:

- `src/isa/generate_isa.py` turns `instructions.yaml` into `isa.h`.
- `src/microcode/generate_microcode.py` turns the microcode YAML into a C++ function,
  `BuildIrataInstructionSet`. That function builds the microcode IR when it runs.

The models are checked with TLC. `PROJECT.json` lists the components, the runs, the
mutants, the map from definitions to source lines, the findings and the hazards.

## 1. Inventory

### Components and their state

| Component | Source | State | Operations |
|---|---|---|---|
| ISA model builder | `generate_isa.py` | The loaded document; the generated header (enums `AddressingMode`, `StatusFlag`, `InstructionCategory`, `Opcode`; `ToString` switches; `IsaInfo` tables); at run time, the function-local static `opcode_map` | `generate_header` and its `generate_*` helpers; compiling the header; `IsaInfo::GetInstruction`; `IsaInfo::GetAddressingMode` |
| Microcode variant resolver | `generate_microcode.py` | The loaded document; the list of emitted statements; inside the generated function, the locals `instruction_set`, `instruction` and `variant` | `main`'s loop; `emit_fetch_preamble`, `emit_instruction`, `emit_variant`, `emit_step`; compiling against `isa::Opcode`; running the emitted statements |
| Control reference validator | `Builder::RequireControls` (not in this repository) | none (read-only) | Resolve each control name, or throw UnknownControlLine with the location string |
| Hardware topology resolver | `CpuPathResolver` (not in this repository) | The control lines of `hdl::Cpu` (immutable) | Lookup |
| IR emitter | The text emission of both generators | none | Formatting |
| Debug-JSON validator | `src/scripts/validate_debug_schema.py` | The parsed arguments; the loaded schema and document; the check about to run | `main`'s choice of the document, `run_assembler`, `validate_debug_json`, `validate_hex`, `require`/`die` |

### How the components interact

The two generators run at build time. They interact only through generated code:

- Each microcode block emits `instruction.opcode = irata2::isa::Opcode::<NAME>`. Resolving
  a microcode name to an opcode therefore happens when the C++ compiler checks that
  enumerator against the generated `isa.h`.
- Control lines are resolved later, when `BuildIrataInstructionSet` runs. Each step calls
  `builder.RequireControls({...}, "<context>")`. That call consults the CPU topology and
  throws on the first unresolved name.

`IrataBuild` models this interaction. The microcode is compiled against the `Opcode`
enumerators of the ISA document from the same build, and a caller of the built
`InstructionSet` looks up its opcodes through `IsaInfo`.

Neither generator validates anything itself. `generate_isa.py` has no duplicate-opcode,
unknown-mode or unknown-flag check. Those errors appear only when the compiler rejects the
header:

- a redefined enumerator;
- two equal case labels in a `ToString` switch;
- a value that does not fit `uint8_t` (an opcode, a flag bit, or, through narrowing in
  a braced initializer, an operand or cycle count);
- an `AddressingMode::X` or `StatusFlag::X` that does not exist.

### What is hard here

Nothing runs concurrently. The pipeline is one synchronous pass. What makes it hard is
the ordering and the composition of three phases:

1. generate text;
2. compile that text against the other generator's output;
3. run the compiled statements.

The specific hazards:

- **Ordering.** Stage and step order must survive the flattening into `variant.steps`.
  The stage number is attached to each step, so an empty stage disappears.
- **Partial failure.** `RequireControls` throws after part of the set has been built.
- **Error precedence.** Compile errors come before run-time errors.
- **Naming conversions.** `upper()`, the `_IMP` fallback and `key.lower()` can map
  distinct keys to one name.
- **Numeric edges.** Values are written into `uint8_t` enums: opcodes above 255 or
  negative, and flag bits above 7.

Each hazard is listed at its source line in `PROJECT.json` "hazards".

### What makes each component correct

- **ISA.** A header that compiles answers `GetInstruction(b)` with exactly the
  instruction declared at `b`. This is the round trip of spec §8, and it requires opcodes
  to be unique and within a byte. Status-flag bits are 0-7 (spec §3).
- **Microcode.** The build returns exactly the declared IR, or exactly one of the errors
  the spec names, at the first failing location, and never a partial IR. Every
  instruction has at least one variant. An error location identifies the offending step.
  No declared guard entry is silently dropped.
- **Debug-JSON validator.** A document is accepted exactly when every check holds.
  Addresses are whole-string hex (spec §6), and integer fields
  are JSON numbers.

## 2. Plan

Modules, in order of importance (✓ = done):

1. ✓ `MicrocodeDocs`: the document domain, the name and key conversions, and the
   `RequireControls` abstraction, shared by the next two modules.
2. ✓ `MicrocodeBuild`: the abstract specification. In one step it produces either the
   declared IR or the first error. The IR is defined directly from the document with
   RECURSIVE operators.
3. ✓ `Microcode`: the detailed model of generation, compilation and execution. It is
   checked to implement `MicrocodeBuild` with the instance `Abs == INSTANCE
   MicrocodeBuild`. The variables `doc` and `outcome` are shared, so the refinement
   mapping is the identity on them, and the generator's internal state is hidden.
4. ✓ `Isa`: header generation, the compile-time acceptance of the header, and the
   `IsaInfo` lookups with the lazily built opcode map.
5. ✓ `IrataBuild`: the composition of `Isa` and `Microcode`. `Microcode` is
   instantiated with its input variable `isa_opcodes` (the header it is compiled
   against) replaced by the `Opcode` enumerators of the `Isa` document. One build runs
   both generators, and the round trip from a microcode name to an opcode byte to an
   instruction is checked.
6. ✓ `DebugJson`, `DebugSchemaSpec`, `DebugSchema`: the debug-JSON validator. The
   abstract `DebugSchemaSpec` accepts a document exactly when it violates none of the
   checks, and otherwise rejects it naming one check it violates. `DebugSchema` is the
   fail-fast walk the code takes. It is checked to implement `DebugSchemaSpec` through
   `INSTANCE ... WITH`, which maps the running verdict to the abstract `Pending`.
7. ✓ Guard values as YAML scalars, with the emitted `"true" if value else "false"`
   modelled as Python truthiness. Repeated `flags_affected` entries in `Isa`.
8. ✓ `IsaDocs`, `IsaSpec`: the abstract ISA model builder of spec §4.1, which `Isa`
   is checked to implement (`IsaRefinement`).
9. ✓ Operand and cycle counts in `Isa`: the `uint8_t` fields of `AddressingModeInfo`
   and `InstructionInfo`, which reject values that do not fit through narrowing in the
   braced initializers. `IsaSpec` gains spec §3's unique mode codes and operand counts
   of at least 0.

## 3. Modules and correspondence to the code

### `Microcode` (with `MicrocodeDocs`)

Data abstraction:

- An instruction name is `[mnemonic, suffix, upper]`. `OpcodeName` implements `upper()`
  plus the `"_" in name` fallback to `_IMP`.
- A guard key is `[flag, upper]`. `LowerKey` implements `key.lower()`.
- A guard value is a YAML scalar as loaded: `YBool`, `YStr` or `YInt`. `Truthy`
  implements `"true" if value else "false"`.
- A step is the set of control names it lists.

Each action below models one step of the code:

| Action | Code |
|---|---|
| `GeneratePreamble` | `main`: `emit_fetch_preamble` (lines 105–121) |
| `GenerateInstruction` | one iteration of `for name, definition in instructions.items()` (123–124), emitting `EmitInstruction` |
| `WriteOutput` | the return statement and the file write (126–133) |
| `Compile` / `CompileUnknownOpcode` | the compiler resolving every emitted `isa::Opcode::X` (64–65) |
| `ExecFetchStep` | the emitted fetch-preamble block (85–92), `step.stage = 0` |
| `ExecInstructionBegin`, `ExecVariantBegin`, `ExecStep`, `ExecVariantEnd`, `ExecInstructionEnd` | the emitted statements of `emit_instruction`, `emit_variant` and `emit_step` |
| `RequireControlsThrows` | `RequireControls` throwing; the exception discards the local `instruction_set` |
| `ExecReturn` | `return instruction_set;` |

Emitted text is modelled by what it does. The variable `code` holds the emitted
statements, and `ip` points at the statement executing. `StatusMap` is the
`std::map<std::string,bool>` built from the initializer list. When two entries have the
same key, the first one is kept: range insertion of unique keys behaves this way in both
libstdc++ and libc++.

### `Isa`

The phases are `Generate` (`generate_header` plus the write in `main`), then `Compile`
or `CompileRejected`. `Compiles(d)` gathers every rule the generated header imposes on
the compiler (lines 72–188 and 255–263). After that:

- `GetInstruction(b)` builds `opcode_map` on first use: the last entry for a byte wins
  (lines 272–278). It then returns the entry or `nullopt`.
- `GetAddressingMode(m)` returns the first entry whose mode code is `m`.

An addressing mode is `[code, operands]` and an instruction carries `cycles`.
`InfoFieldsFit` is the narrowing rule for both values. Each is written as an integer
literal into a braced initializer of a `uint8_t` field (lines 191–223 and 238–263), so
a constant outside 0..255, such as -1 or 256, is a compile error.
`AddressingModeInfo` and `InstructionInfo` store the values as `uint8_t` does
(`% 256`). They change nothing in a header that compiles, and they are where a missing
range check would show. Descriptions, syntax templates and categories are abstracted
away.

`IsaSpec` (sharing `IsaDocs` with `Isa`) is what the model builder promises. The
document is **well formed** when:

- mode codes are unique and every operand count is at least 0 (spec §3);
- every instruction names a declared mode and declared flags;
- every opcode is a byte;
- no two instructions share an opcode.

`Build` rejects every document that is not well formed. It may reject others, because
the compiler also rejects repeated enumerators, flag bits above 255, and operand or cycle
counts above 255, none of which the spec names. An accepted build answers
`GetInstruction(b)` from the declared table and `GetAddressingMode(m)` with the mode
declared with code `m`.

`Isa` is checked against it by `Abs == INSTANCE IsaSpec WITH status <- ...`. The
mapping sends `generate` and `compile` to `pending`, `run` to `accepted` and `rejected`
to `rejected`, and hides `opcode_map`. The refinement shows that the lazily built,
last-wins map is observationally the declared table, whichever calls come first.

### `IrataBuild` (composing `Isa` and `Microcode`)

`I == INSTANCE Isa` and `M == INSTANCE Microcode` rename the two `doc` and `phase`
variables apart. The other variables keep their names. The microcode's input
`isa_opcodes` becomes `{e.name : e \in IsaEnumerators}`, the enumerators
`generate_opcode_enum` writes for the ISA document of the same build.

The header is an input variable of `Microcode` and `MicrocodeBuild`, not the constant
`IsaOpcodes`. SANY accepts only a constant-level expression for a constant parameter,
and the enumerators depend on the ISA document, a variable. The standalone runs fix
`isa_opcodes = IsaOpcodes`. `MicrocodeBuild` allows any header of the declared
mnemonics and modes.

| Action | Code |
|---|---|
| `IsaBuildStep` | `generate_isa.py` `main`, then the compile of `isa.h` (`I!Generate`, `I!Compile`, `I!CompileRejected`) |
| `MicrocodeStep` | `generate_microcode.py` `main` and the run of the generated function. Its compile includes `isa.h`, so it needs a header that compiled. |
| `GetInstructionByOpcode(op)` | `IsaInfo::GetInstruction(Opcode)`: `GetInstruction(static_cast<uint8_t>(opcode))` (lines 287–290) |
| `LookUp` | a caller of the built `InstructionSet` looking up one of its opcodes |

The generators share no state before the microcode compile. The ISA steps are
therefore taken first, which is a reduction of the interleavings, not a restriction:
each interleaving of the independent steps reaches the same states of the two
components.

### `DebugSchema` (with `DebugJson` and `DebugSchemaSpec`)

Data abstraction (`DebugJson`):

- A JSON value is a record tagged with its Python type: `str`, `int`, `bool`, `null`,
  `list` or `obj`.
- A dict the validator reads by fixed keys is a record of those keys. `Absent` marks a
  missing key. A dict it iterates (`symbols`, `pc_to_source`) is the sequence of its
  items in insertion order.
- A string is a sequence of character classes: `"0"` and `"f"` are hex digits, `"x"` is
  the letter x, `"z"` is any other character, `"NL"` is a newline. `HexReMatch` is
  `HEX_RE.match`, whose `$` also matches before a final newline. `SpecHex` is the
  whole-string match the spec names.
- `IsInt` is `isinstance(v, int)`, so it holds for booleans too. `PyEq` is Python `==`,
  under which `True == 1`.

Each action models one step of the code:

| Action | Code |
|---|---|
| `MainInput` | lines 122–126: a truthy `--input` is validated, whatever else is given |
| `MainAssemble` | lines 128–133: no truthy `--input`, so `run_assembler` writes the document |
| `RunAssemblerFails` | lines 107–108: the assembler exits non-zero and `check=True` raises; the script exits 1 with a traceback (`Crashed`) |
| `MainUsage` | line 135: `die` with the usage message (`Rejected(Usage)`) |
| `CheckSchema` | lines 33–35 |
| `CheckDocument` | lines 37–44: object, version, required keys |
| `CheckScalars` | lines 46–53: entry, rom_size, source_root, source_files |
| `BeginLoop(x)` | the type check before each loop (56, 62, 78, 94–96). `org_map` read with `get` as `None` skips its loop. |
| `LoopItem(x)` | one iteration of the loop over `symbols`, `pc_to_source`, `records` or `org_map` |
| `Return` | `validate_debug_json` returning, so `main` returns 0 |

A failing `require` is `die(message)`. The verdict becomes `Rejected(<<field, what>>)`
and the walk stops. `args` records `--input`, `--assembler` and `--source` as absent,
`""` or a path. Only a path is truthy, so `--input ""` falls through to the assembler.
The schema and the document `json.load` returns are chosen in `Init`. The refinement
maps `Crashed` and the usage error to the abstract `Pending`, since neither says
anything about a document. Each `...Failure` operator is a `CASE` with one arm per `require`,
in the code's order.

## 4. Runs

| Run | Config | Expect | What it shows |
|---|---|---|---|
| `microcode_bodies` | `MCMicrocode_bodies.cfg` | pass | One instruction with up to 2 variants × 2 stages × 2 steps, plus a fetch preamble of at most 1 step. Each variant is unguarded or guarded by `Z: true`, and a step activates `PC_INC` or `BOGUS_LINE`. `BuildRefinement`: the build yields the declared IR (status conditions, stage and step order, stage numbers, unconditional default variant), or the unknown opcode, or the first failing location. `TypeOK` is the type invariant. |
| `irata_build` | `MCIrataBuild.cfg` | pass | Up to 2 ISA instructions (`NOP_IMP` = 0, `LDA_IMM` = 1 or 0) and up to 2 microcode instructions named `NOP`, `NOP_IMP`, `LDA_IMM` or `LDA`. The microcode build implements `MicrocodeBuild` against the enumerators of that ISA (`BuildRefinement`). `MicrocodeOpcodeRoundTrip`: `GetInstruction(Opcode)` on a built instruction's opcode returns the ISA instruction of the same mnemonic and mode. |
| `microcode_context` | `MCMicrocode_context.cfg` | violation | `ErrorPinpointsStep`: two instructions with a bad control at `variant[0].stage[0].step[0]` yield the same error. |
| `microcode_no_variants` | `MCMicrocode_no_variants.cfg` | violation | `EveryInstructionHasVariant`: `variants: []` builds an instruction with no variant. |
| `microcode_guard_case` | `MCMicrocode_guard_case.cfg` | violation | `GuardKeepsDeclaredConditions`: `{Z: true, z: false}` loses one entry. |
| `microcode_guard_value` | `MCMicrocode_guard_value.cfg` | violation | `GuardValuesAreBooleans`: `Z: "false"` (quoted) is accepted, and the variant requires Z to be true. |
| `isa` | `MCIsa.cfg` | pass | `IsaRefinement`: `Isa` implements `IsaSpec` (see below), so an operand count of -1 never compiles and lookups return the declared cycles. `TypeOK` is the type invariant. |
| `isa_flag_bits` | `MCIsa_flag_bits.cfg` | violation | `FlagBitsInStatusByte`: bit 8 compiles. |
| `isa_repeated_flag` | `MCIsa_repeated_flag.cfg` | violation | `FlagsAffectedIsSet`: `flags_affected: [Z, Z]` compiles, and `GetInstruction` returns Z twice. |
| `debug` | `MCDebugSchema.cfg` | pass | `ValidatorRefinement`: the fail-fast walk accepts exactly the documents that violate no check, and every `die` names a violated check. Three command lines add the usage error and a failing assembler, which claim no verdict. |
| `debug_hex_newline` | `MCDebugSchema_hex_newline.cfg` | violation | `HexAsSpecified`: an entry of `0x` and a hex digit followed by a newline is accepted. |
| `debug_bool_int` | `MCDebugSchema_bool_int.cfg` | violation | `IntegersAsSpecified`: `rom_size: true` is accepted as an integer. |

`IsaRefinement` covers every document built from these parts:

- four mode lists: in range, a repeated code, an operand count of -1, and one of 256;
- flag lists with distinct bits, a repeated bit, or bit 256;
- up to two instructions with opcodes 0, 1 or 256, 2 or 256 cycles, modes IMP, IMM
  or ABS (ABS is undeclared), and flags Z or N (N is undeclared).

For all of them, a header that compiles comes from a document that `IsaSpec` accepts.
It returns the declared instruction from `GetInstruction(b)`, or `nullopt` when nothing
is declared at `b`. This is spec §8's round trip, which `IsaSpec`'s `LookUpOpcode`
states.

**Mutants.** Each property of a passing run has a mutant of the modelled code that TLC
catches:

- a dropped `_IMP` fallback;
- steps tagged with the step index instead of the stage index;
- instructions emitted in reverse order;
- `GetInstruction` returning a default-constructed `InstructionInfo{}` instead of
  `nullopt` on a miss;
- `enum class Opcode` emitted without `: uint8_t`, as `InstructionCategory` is, so
  opcode 0x100 compiles and its byte collides with 0x00 (`IsaRefinement`);
- the `file in source_files` cross-reference dropped;
- the `ToString(Opcode)` switch not emitted, so colliding opcodes compile and the map
  keeps the last one. In `irata_build`, a microcode `NOP_IMP` then looks up as `LDA_IMM`.

**Bounds.** Every branch of the generator is reached:

- empty and non-empty preambles;
- empty stages and empty steps;
- both definition forms;
- zero, one and two variants;
- suffixed and unsuffixed names;
- names that resolve to no opcode;
- two names that resolve to one opcode;
- guards that are absent, present, or colliding;
- a bad control in the preamble and in a body.

Two steps per stage and two stages per variant are the least that can show an order or
numbering bug. Two instructions are the least that can show an ordering or binding bug.
The bindings family is checked in `irata_build` against ISA documents of up to two
instructions. Those documents include both instructions on distinct bytes, one missing,
a repeated enumerator, and two enumerators on one byte. The microcode there has a fetch
preamble of at most one step, control lists `PC_INC` or `BOGUS_LINE`, and no guards,
because `microcode_bodies` covers guards. This keeps the run near 300,000 states and one
minute. In `microcode_bodies`, the guards multiply the state space by four, to about
540,000 states. The CPU there resolves only `PC_INC`, so every step of a successful
build is `{PC_INC}`. Step order within a stage is then visible only through the location
of the first failing step. A second resolvable control would make the run about 15 times
larger. The `upper` field of a microcode name (the case `upper()` drops) is `TRUE`
in every run. The bodies family adds the name `LDA`, which falls back to an `LDA_IMP` that the
fixed ISA does not declare.

The `isa` run declares two modes per document: in range, a repeated code, an operand
count of -1, or one of 256. Cycle counts are 2 or 256. These are the values on either
side of both ends of `uint8_t`. With up to two instructions, it is about 425,000 states.

The `debug` run uses two families of documents:

- Every top-level field varies over a well-formed value and the ill-formed values of
  interest. These include a trailing newline, a non-hex string, a boolean or string
  where an int belongs, a missing key, and `org_map` absent, `null`, a good segment or a
  segment without `end`. Three schemas are used: a good one, one with a non-string
  version, and one that is not an object.
- Up to two `pc_to_source` items and two records, each well-formed or wrong in exactly
  one field. Two items per loop are the least that show a loop stopping early or
  reporting the wrong item.

Three command lines are used: `--input` with both assembler arguments (input wins),
`--input ""` with both (the assembler runs or fails), and a `--source ""` (usage error).
The violation runs fix the first one.

The document sets are written as products of record sets, so that TLC checks membership
field by field.

**Fairness and liveness.** No specification has a fairness condition, and no liveness
property is checked. Each generator is a finite, single-threaded pass with no wait or
retry, so its termination would hold by the model's shape alone. The debug-JSON
validator calls `subprocess.run` without a timeout (line 107), so a hung assembler
hangs it, and no fairness condition would be honest. `CHECK_DEADLOCK FALSE` is used
because a finished or failed build really stops.

## 5. Not modelled

- `load_json` and argparse's own errors in the debug-JSON validator. A document that
  fails to load is an uncaught exception like `Crashed`, and the model starts from the
  loaded schema and document. The assembler's output is one of the same documents.
- Argument parsing and file I/O of the two generators.
- The layout of the generated text.
- The internals of `Builder` and `CpuPathResolver`, which are not in this repository. They
  are modelled from spec §4.3 as "throw on an unresolved name".
- Underscores inside a mnemonic or a mode code. An opcode name is the pair
  `<<mnemonic, mode>>`, not the string `mnemonic_mode`. Two pairs can spell one name
  only when a mnemonic contains `_`, and then the redefined enumerator does not compile.
- The category enum, which is sorted and deduplicated by construction, and the
  descriptive fields.
