# A verification of PVCpu and PDASM

This directory keeps TLA+ models of the two programs of the repository, the
configurations that model-check them with TLC, and proofs that TLAPS checks.
Line numbers refer to the files under `src/`; `PROJECT.json` has the line range
of every definition.

## The system

| component | state it keeps | operations | talks to |
|---|---|---|---|
| instruction word, unpacker, validator (`PVCpu/inc/pvcpu-isa.h`, `PVCpu/src/validator.c`) | none; writes one slot through pointers | `pvcpu_unpack_inst`, `pvcpu_validate_inst` (the two `pack` functions have no caller) | called by the loader |
| loader, the `run` command (`PVCpu/src/main.c`) | file, offset, four slot arrays with capacity and count, extended-flag blocks | `read_file`, extraction loop, validation loop, release, exit codes 4, 5, 6, 0 | calls the two above and `pvcpu_run` |
| translator (`PVCpu/src/isa.c`, `helpers.c`) | code buffer (`data`, `size`, `capacity`), machine state | `jit_init`, handler table, `op_add`, `emit_u8..u64`, call or dump, release | called by the loader; its code runs on the host |
| emitted host code | the 40 guest registers, `rax`, `rbx` | the loads, the addition and the store of `op_add` | runs on `PVCpu_State` |
| `pvcpu` command line (`PVCpu/src/main.c`) | parsed arguments | `parse_args`, routing to exit codes 0, 1, 2, 7 | calls the loader |
| executable reader (`shared_src/reader.c`) | none | `validate_elf`, `validate_pe`, `r_get_arch`, `r_get_codeoff`, six `r_info_*` | called by PDASM |
| listing loop and decoders (`tools/PDASM/src/main.c`, `decoder_pvcpu.c`, `decoder_x86.c`) | offset, last offset, address, a text buffer | `decode`, `decode_pvcpu`, `decode_x86` | called by PDASM's main |
| PDASM command line (`tools/PDASM/src/main.c`) | parsed arguments, file buffer | `parse_args`, `info`, `disassemble`, exit codes 0, 1, 2, 4, 5 | calls reader and decode |
| name tables, structure layouts, build files, tests, documents | none | none | not modelled: data |

Both programs are single-threaded and keep nothing between runs: there is no
concurrency, no message and no crash recovery to model. What is hard in this
code is of another kind:

* loops whose progress depends on what the file says (a length of 0, a mask that
  does not move the offset), so termination is not obvious;
* parallel arrays that grow together while an index, a count and a capacity are
  supposed to agree;
* bounded buffers where what does not fit is dropped silently;
* hand-written release sequences on every exit, some of them reached in the
  middle of a loop;
* results that are ignored (`pvcpu_run`, `realloc`, `r_info_basic`) while the
  program goes on;
* two programs with their own reading of the same instruction word;
* unsigned offsets, and reads past the end of the file;
* locals that nobody wrote, or that survive from one instruction or row to the next.

Correctness of each part, in a sentence. *Loader*: what reaches the translator was
written, accepted, and is the file's; every exit releases what is reachable; it
ends. *Translator*: the buffer is never overrun, code that has room is complete,
every return releases both blocks. *Host code*: an addition changes its
destination and nothing else. *pvcpu*: the stages happen in order and the exit code
names the one that stopped. *Reader and PDASM*: the lines tile the first code
section of the file, decoded for the file's machine; nothing of a refused file is
listed; the listing agrees with what `pvcpu` would unpack; an x86
instruction is as long as its bytes say; a well-formed file is read without leaving
it, and a symbol has one name where its tables belong together; it ends.

## The modules

| module | models | main correspondences |
|---|---|---|
| `PVCpuIsa` | the instruction word, what the unpacker takes with it, `pvcpu_validate_inst` | a word is its five fields; a 64-bit value is the two words that hold it, so that a value read as instructions is the same data |
| `PVCpuLoader` | the `run` command | one action per loop step: `NextSlot` (main.c:134-141), `UnpackWord`/`UnpackExtMask`/`UnpackExtEnd` (the call at 142), `Reject`/`TrailingBytes`/`Advance` (143-158), `ValidateNext`/`AllValid` (162-175), `RunReturns`/`RunCrashes` (177-196). `Indet` is memory nobody has written |
| `PVCpuJit` | `pvcpu_run` for all arguments its prototype admits | `EmitPiece` is one `emit_*` call, with its space test and its silent drop; a piece of code is its length |
| `PVCpuHost` | the bytes `op_add` emits, as the x86-64 instructions they encode, run on a register file | `Load`, `Add`, `Store`; `AddHost` is `48 01 D8` |
| `PVCpu` | the whole program: command line, loader, and `PVCpuJit` in place of the loader's abstract `pvcpu_run` | EXTENDS `PVCpuLoader`, INSTANCEs `PVCpuJit` on the slots the loader hands over |
| `PVCpuPipeline` | the abstract specification: loading, extraction, validation, translation, once each and in that order | `PVCpu` is shown to implement it with `stage <- Stage`, `translated <- n - 1` |
| `PdasmDecode` | `decode` and `decode_pvcpu`; `decode_x86` as an instruction of some length | one action prints one line; `line` remembers the last one; `loader_at` is where `pvcpu` would be after the same words: `LoaderLength` is 0 for what is cut short, as there |
| `PdasmX86` | `decode_x86` byte by byte inside that listing: prefixes, opcode, ModRM, SIB, displacement, immediate, and the length of its text | EXTENDS `PdasmDecode`, whose one step becomes `EnterX86` ... `ShowX86`; `pos` is `*offset`; a byte's value is chosen when it is read, unless `Known`; `Listing` says that `PdasmDecode` is implemented |
| `PdasmReader` | the reader as functions of a file: validators, architecture, first code section, the tables each option prints, the names symbols get, and where the reader leaves the file | names as in `reader.c`; a file is its header fields and the rows of its symbol and relocation tables; a `...Stray` operator says when what a function follows is outside |
| `Pdasm` | PDASM's command line, `info`, `disassemble` | EXTENDS `PdasmDecode` and `PdasmReader`; `ReadFile`, `SkipNext`, `ShowNext`, `ReaderFault`, `InfoDone`, `NeedArch`, `DisassembleBinary`, `DisassembleFile`, `Decode` |
| `PdasmWhole` | the whole PDASM program: `Pdasm` with `PdasmX86` in the place of the abstract listing | `MainRuns` is a step of main, `DecodeRuns` one of `decode` with the decoder byte by byte; `Program` says that `Pdasm` is implemented |
| `PVCpuLoaderProofs`, `PVCpuJitProofs`, `PVCpuHostProofs`, `PVCpuProofs`, `PdasmDecodeProofs`, `PdasmX86Proofs`, `PdasmReaderProofs`, `PdasmProofs` | theorems | see below |
| `MC...` | the instances TLC checks | see below |

Three things the C standard leaves open are choices in the models. Reading or
freeing what `realloc` or the stack left behind may do anything (`"corrupt"`, after
which nothing is promised). A read past the end of a buffer yields any value or
ends the process (`"crashed"`). The `printf` of main.c:142 of PDASM, which lacks an
argument, may end the process.

Operators whose names say what goes wrong (`ValidatedAllButLast`, `FitsByOne`,
`InSectionInclusive`, ...) stand next to the definition they vary. They are used
by no specification: each is a plausible mistake in the code, kept to show that a
property would notice it.

## The runs

Each passing run also establishes that every action can happen.

| run | instance | question |
|---|---|---|
| `loader` | files of 0 to 4 words out of ten, 0 or 2 bytes after them, up to 8 slots | what reaches `pvcpu_run`: validated, defined, the whole file in order, displacements inside the memory; what exits release; does it end |
| `jit` | programs of up to 3 instructions, nine capacities that end before, in and after each piece | buffer bound, completeness, release, termination |
| `host` | up to 2 additions, three registers of two bits, every register file | zero register, frame |
| `main` | every command; files over six words | refinement of the pipeline, completeness with the 128 bytes of main, termination |
| `decode` | sections of 13 bytes and of none at two offsets in three files, one section whose end wraps; eleven values of a byte | tiling, reach, agreement with the loader, over-reads, length and text of an x86 instruction, its prefixes, that `decode_x86` implements a step of the listing, termination |
| `pdasm` | some 120 files, accepted and refused for every reason, times 121 command lines; 32 files with symbols and relocations, among them dynamic ones, well formed or wrong in one place | refinement of `Pdasm` by the program with the decoder in it, what is listed for whom, release, completeness of `--all`, reads outside the file, names of symbols, termination |

*Bounds.* The loader's slots start at two and double: four words make the array
grow once, and `MaxSlots` = 8 lets a spinning loop grow it again until memory is
refused; ten words take every branch of the unpacker and the validator, with
words that serve as value or mask. A handler is 24 bytes in fifteen pieces; the
capacities 24, 25, 48, 49, 50, 70, 73 are those where a whole handler, the `ret` or
a part fits. Two additions are enough to see a destination read again. Registers
of two bits wrap. In `decode`
`MaxPrefixes` = 2 prefixes may come before an opcode, so that REX and the operand
size prefix meet, and the longest instruction is 13 bytes; the file of 33 bytes has
less room behind its section than `NoOverread` asks for, that of 48 has enough, and
that of 8 none at all; the byte values are the two prefixes, the two-byte mark, and
opcodes with no operand, with each size of immediate, and with a ModRM byte of each
mod, with and without SIB. `Modulus` scales 2^64 down to 64. In `pdasm` it is 1024,
larger than any file there, so that sizes are those of the structures of `elf.h`
and `pecoff.h`; the x86 decoder reads the same sixteen bytes over and over there
(the longest instruction, one of two opcode bytes, one of one), with two bytes of
any of six values in the middle, after which a listing is in any phase of them.

*Assumptions.* The four `calloc(2, ...)` of the loader and its block per
instruction succeed (their failure is not looked at either, and ends as
`OutOfMemory` does). The offset of a listing never reaches 2^64: the process would
have read its address space first. File contents do not change while a program
runs.

*Fairness.* Liveness is checked under weak fairness of the whole step relation of
a program. Each program is one thread that never waits for anything, so some
step is always taken; no single action is assumed to be preferred, so the choice
between, say, a line and a fault stays free.

### Disagreements with the documents

Six runs exhibit a statement of the repository that the code does not keep; their
counterexamples are short and each finding quotes the line.

* `loader_plain_stream`: two well-formed instructions are refused (README.md:102-103).
  `idx` never moves, so the second one overwrites the first and validation reads
  a slot that was never filled.
* `loader_refused`: a last word that announces a value it does not have is never
  reported; the loop goes round until memory is out (main.c:143-144).
* `jit_too_small`: what does not fit is dropped and announced as completed
  (isa.c:94-95). main's 128 bytes hold five additions.
* `main_test_add`: the addition of PDASM's own test (tests/pvcpu.pasm:5) is opcode 1
  for PDASM (decoder_pvcpu.c:52) and the test's binary, opcode 0 for `pvcpu`
  (pvcpu-isa.h:24): it passes validation and is called through a null handler.
* `host_add`: an addition leaves its destination as it was: the operands of the
  emitted `add` are the other way round than its comment (isa.c:49-56).
* `x86_two_byte`: the second byte of a two-byte opcode goes into an inner variable
  (decoder_x86.c:335) and what follows is decided by the outer one, which nobody
  wrote: `syscall` may swallow the next four bytes. The run lists the assembled
  tests/x64.pasm.

Noticed while reading, without a run: SP is register 34 and refused by
validator.c:15, though ISA.md:74-75 lists it as accessible; an extended-flags mask is
not part of the unpacked length (pvcpu-isa.h:112-123), so its words are unpacked
again as instructions (ISA.md:41-42); the block of every instruction but the last
is lost (main.c:141); the frees run over pointers `realloc` left indeterminate
(main.c:149, 169, 183); `pvcpu help` is an unknown command (main.c:51, 191);
`pvcpu run:myprogram` (README.md:172) too; PDASM's list of architectures names
`pvcpu_c`, which `str_to_arch` does not know (PDASM main.c:14, 86-98); `--relocs` shows
the optional header of a PE file (reader.c:721-724); a 32-bit ELF section counts as
code only when executable is its one flag, a 64-bit one when it is among them
(reader.c:860, 870); a section that is not in the file to its end is listed without
the message of PDASM main.c:181; `info` without options prints nothing, though
`--all` is called its default (PDASM main.c:52); the comment of isa.c:91 wants to keep
the code from breaking, and lets null handlers through.

In the reader: a row of a COFF symbol table is stepped over by 24 bytes and has 18
(pecoff.h:535-542, reader.c:563); the index of a common symbol is looked up outside the
section table (reader.c:271); the last string table names the symbols whatever table
theirs links to, and a file whose only string table also holds the names of sections
shows none (reader.c:245-253).

In the x86 decoder: 40 to 4F are REX prefixes in 32-bit code too, though the comment
at decoder_x86.c:282 has them as `inc` and `dec`; a register named in the opcode prints
as invalid under REX.B (295); the target of an address relative to the instruction
pointer is computed from the start of the instruction; mod 0 reads four bytes for
every register but the fifth, where the encoding has them for the fifth alone; the
prefix loop has no limit (310); a mnemonic missing from the second table is a null
pointer for `%s`.

## The proofs

For every value of the constants that satisfies the named assumptions (any set of
words, any length of file, any number of slots, any program, any capacity, any
file and section):

* `PVCpuLoaderProofs`. `TypeInv` adds to `TypeOK` and `OffsetInFile` that a slot is
  free while a word is unpacked (`RoomForOne`), without which the bound on the
  count is not inductive: growth and counting are two different steps. `SlotInv`
  says that slot 0 holds a word, that slot 1 is still the zero word of `calloc`,
  and that the slots before `i` were accepted while validation runs; since the zero
  word is not valid, the loop stops at slot 1 at the latest, which gives
  `TranslatedIsValidated` and `ValidatorReadsDefined`. `FileInv` relates the first
  slot to the file, by the number of instructions counted so far (none, one, more):
  what is run is the one instruction of the file, with its value, and nothing is left
  over (`RunsWholeFile`). `DisplacementInMemory` rests on the same fact: the slots are
  still two when something is run, and what the validator compares with their number
  is below the 100 bytes. `Runnable` names the files that get through as the code is;
  it is a precondition below, not a promise. `ReleaseInv` follows the heap,
  `PointerInv` the pointers that are stored: `ReachableReleased` and
  `CorruptionNeedsGrowth`. `LLeft` bounds the steps that are left: each turn takes a
  slot, and at most two masks (`MasksInv`), so the command ends or is out of memory
  (`LoaderApproachesEnd`). That it is out of memory only at a last word that
  announces a value it does not have (`OnlyCutValueSpins`) needs that otherwise every
  turn moves the offset, so that slots never outnumber words (`SpinInv`); that a file
  it can run is run without breaking anything (`RunnableNeverBreaks`) that such a file
  grows no array and has no mask (`WholeInv`). Two runs of one file each have their
  general form here: a loop that stands at a cut last value never leaves it
  (`CutValueNeverReported`), and two well-formed instructions are never run
  (`PlainStreamNeverRuns`).
* `PVCpuJitProofs`. `BufferInv` (shape and bound) is inductive alone. `CountInv`
  relates the bytes asked for to the number of additions translated and to the
  place inside the handler (`PieceStart`), and says that the two sizes agree as long
  as what was asked for fits: `RoomMeansComplete`. `JLeft` bounds the steps that are
  left by twenty for each instruction (`JitApproachesEnd`). `OverflowNeverReported`: the
  test of isa.c:94 never succeeds, the general form of `jit_too_small`, and an error is
  printed for refused memory only (`OnlyMemoryIsReported`).
  `HandledNeverBreaks`: without an opcode that has no handler nothing breaks.
* `PVCpuHostProofs`. The invariant is stronger than what it is for: the registers
  are the ones on entry, and between its load and its store `rbx` holds the
  destination (`HInv`). `NullStaysZero` and `OnlyDestinationsChange` follow, and so
  does `NothingIsAdded`: what the run `host_add` shows is so for every program.
* `PVCpuProofs`. A step of the program is by construction a step of the loader or none
  (a lemma), so the loader's invariants hold in the program. With them
  `MInv` bounds what `pvcpu_run` is given, at most one instruction, and what it has
  emitted at each place (`JitInv`): `CompletedIsComplete`. `ImplementsPipeline` is
  a refinement under the mapping `stage <- Stage`: `StageTable` says which stage
  each pair of places is in, and every step moves to the next stage, stops with its
  exit code, or stays. `MainApproachesEnd` puts the measures together in lexicographic
  order, main before the loader before `pvcpu_run`, and `MainNeverBreaks` follows the
  slot main hands over (`HandledInv`): on a file that can be run, of an instruction with
  a handler, no place but the ordinary ones is reached. `UnhandledNeverCompletes` is the
  other side, the general form of `main_test_add`: without a handler for its first
  instruction a file is never translated.
* `PdasmDecodeProofs`. `PlaceInv` says that offset, last offset, address and last
  line move together: `LinesTile` (with a lemma that two additions modulo 2^64 are
  one), `ListedToTheEnd`, `NoOverread` and the properties of the text buffer follow.
  `AgreesWithLoader` says where `pvcpu` stands after each line: at the same offset, or
  still at the instruction that its section cuts short; it rests on a lemma about the
  lengths of the flags and on the loop ending no later than its section (`EndIsReal`). No line is
  empty, so what is left of the section goes down (`DLeft`, `DecodeApproachesEnd`).
* `PdasmX86Proofs`. `XInv` has the invariant of the abstract listing, how many bytes
  an instruction can have taken at each of its places (`Reach`), how much text it can
  have (`TextReach`, `LastText`) and what its prefixes are (`Parsing`). Each action
  keeps it and is a step of `PdasmDecode` or none, which gives `Listing`: everything
  proved of `DSpec` holds with the decoder in it. A step the loop does not see lowers
  `XLeft`, the places left until the line is printed (`X86ApproachesEnd`).
* `PdasmReaderProofs`. Lemmas about the functions of the reader: the first code
  section exists and is the first; a well-formed ELF file, then PE file, is read
  inside (`WellFormedReadInside`); the name of a symbol is the one in the table its
  symbol table links to, in every report (`NamesAgree`). Both ask of an ELF file that
  its last symbol table links to its last string table (`LastLinksToLast`), as the
  reader takes the last of each; other symbol tables, as that of the dynamic symbols,
  are free; `--all` is everything (`AllIsAll`); a refused file has no
  architecture and no code (`RefusedIsRefused`).
* `PdasmProofs`. `PInv` joins the invariant of the listing, what `decode` was called
  with (`CallInv`), where the last line is (`LineInv`), what has been shown at each
  option (`AllInv`) and why a process may have crashed or returned 0 (`CrashInv`,
  `ExitInv`). All eight safety properties of PDASM's run follow from it, and
  `PdasmApproachesEnd`. For the program with the decoder in it, `WInv` joins `PInv` with
  `XInv` and says that the decoder is as on entry until `decode` is called: a step of
  `PdasmWhole` is one of `Pdasm` or none (`ImplementsPdasm`), so that all of this holds of
  the program, and so does what is proved of the decoder (`DecoderInPdasm`).
  `WholeApproachesEnd` orders main, its listing and its decoder lexicographically.

The assumptions on the constants are named where they are declared; those that carry
an argument are `X86LengthsAssumption` (the abstract listing allows the lengths that
come about), `MainArgumentsAssumption` (main passes decode any `size_t`) and
`FilesAssumption` (what is in a file has the range of its field).

Of liveness (`EndsUnlessValueCut`, `ReturnsWithoutRunning`, `MainEnds`,
`DecodeEnds`, `PdasmEnds`) two parts are proved: that natural numbers go down with
every step (the `...ApproachesEnd` theorems, one for each specification with a
termination property), so that no behaviour goes on forever, and that the bad ends are
reached only where the property says (`OnlyCutValueSpins`,
`RunnableNeverBreaks`, `MainNeverBreaks`, `HandledNeverBreaks`). What is left to TLC is
that a program never stops anywhere else: that some step is always possible needs
ENABLED, which the prover does not have, and its liveness and deadlock checks show it.
Also left to TLC are the six disagreements, each a single behaviour; five have a general
form that is proved (`CutValueNeverReported`, `PlainStreamNeverRuns`,
`OverflowNeverReported`, `UnhandledNeverCompletes`, `NothingIsAdded`). Every safety property,
action property and refinement of a passing run is proved as well.

## Not modelled

The wording of what is printed, the colours and the help texts; `pvpcu_pack_inst` and
`pvpcu_c_pack_inst` (no caller, and they start from an uninitialised word); the Windows
calling convention of the emitted code, which differs in one register number; which
mnemonic or register an x86 line names, as no property tells them apart; the values
and flags a row of the reader's tables prints beside a name; what a table row holds
that was read outside its file; the symbols of PE files beyond the bytes that are read
for them; the structure layouts and number-to-name tables of `shared_inc`, which are
data (the sizes of the structures are in `PdasmReader`); build files.

The text widths of `PdasmX86` are the widest each piece can be (a mnemonic of the
second table has up to 12 characters), so `ShownWhole` is
about the worst case; the prefixes of an instruction are bounded by `MaxPrefixes`,
for any value of it in the theorems.

## Plan

What the first plan listed is done, `PVCpuJit` with the second calling convention
excepted. What could still be added:

1. The packers, once something calls them.
2. More opcodes in `PVCpuHost`, as handlers are written.
