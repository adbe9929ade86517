------------------------------- MODULE Pdasm -------------------------------
(***************************************************************************)
(* tools/PDASM/src/main.c: the command line, the info command over the     *)
(* reader's reports (PdasmReader) and the disassemble command, which hands *)
(* a section of the file to the listing loop (PdasmDecode).                *)
(***************************************************************************)
EXTENDS PdasmDecode, PdasmReader

CONSTANT
    Calls           \* calls of PDASM: command lines, each the command ("none" without
                    \* one), whether a file follows and the options after it, and
                    \* the files they are given, as PdasmReader sees them

ASSUME CallsAssumption ==
    \A call \in Calls :
        /\ DOMAIN call = {"lines", "files"}
        /\ \A c \in call.lines : (c.cmd = "none" => ~c.input) /\ (~c.input => c.opts = <<>>)

\* Main passes decode any size_t.
ASSUME MainArgumentsAssumption ==
    Sizes = 0..(Modulus - 1) /\ Offsets = Sizes /\ CodeSizes = Sizes /\ Addresses = Sizes

ASSUME FilesAssumption == \A call \in Calls : \A f \in call.files : FileShape(f, Sizes)

VARIABLES
    argv, file,     \* the command line, and the file it names
    pc,             \* where main is
    src,            \* "free" or "held": the buffer of read_file
    next, shown,    \* the info option looked at next, the reports printed
    exit_code       \* what main returned, -1 before that

mvars == <<argv, file, pc, src, next, shown, exit_code>>
pvars == <<mvars, dvars>>

PFinal == {"exit", "crashed"}

-----------------------------------------------------------------------------
(* parse_args. *)

InfoOptions == [all |-> "--all", sections |-> "--sections", symbols |-> "--symbols",
                relocs |-> "--relocs", program |-> "--program", basic |-> "--basic"]
Asked(opts) == {o \in DOMAIN InfoOptions : InfoOptions[o] \in ToSet(opts)}

\* The info options are looked at in this order, whatever their order was.
InfoOrder == <<"basic", "program", "sections", "symbols", "relocs", "all">>

ArchNames == [x86 |-> {"x86", "i386"}, x64 |-> {"x64", "x86_64", "amd64"},
              PVCpu |-> {"pvcpu"}, PVCpuC |-> {"pvcpuc", "pvcpu-c", "c-pvcpu"}]
str_to_arch(s) == IF \E a \in DOMAIN ArchNames : s \in ArchNames[a]
                  THEN CHOOSE a \in DOMAIN ArchNames : s \in ArchNames[a] ELSE "unknown"

\* The options of disassemble, read from the left; --arch takes the next one.
DasmOption(a, opt) ==
    CASE a.error          -> a
      [] a.next = "arch"  -> [a EXCEPT !.arch = opt, !.next = "option"]
      [] opt = "--binary" -> [a EXCEPT !.binary = TRUE]
      [] opt = "--arch"   -> [a EXCEPT !.next = "arch"]
      [] OTHER            -> [a EXCEPT !.error = TRUE]
DasmArgs(opts) ==
    FoldLeft(DasmOption, [binary |-> FALSE, arch |-> "unknown", next |-> "option",
                          error |-> FALSE], opts)
DasmArch(opts) == str_to_arch(DasmArgs(opts).arch)

IsDasm == argv.cmd \in {"disassemble", "dasm"}

\* An option that info does not have.
InvalidInfoOption ==
    argv.cmd = "info" /\ argv.input /\ ~(ToSet(argv.opts) \subseteq Range(InfoOptions))

ArgsError ==
    \/ argv.cmd \notin {"help", "info", "disassemble", "dasm"}
    \/ argv.cmd # "help" /\ ~argv.input
    \/ InvalidInfoOption
    \/ IsDasm /\ (DasmArgs(argv.opts).error \/ DasmArgs(argv.opts).next = "arch")

-----------------------------------------------------------------------------
PInit ==
    /\ \E call \in Calls : argv \in call.lines /\ file \in call.files
    /\ pc = "start" /\ src = "free" /\ next = 1 /\ shown = <<>> /\ exit_code = -1
    /\ arch = "unknown" /\ size = 0 /\ svaddr = 0 /\ soff = 0 /\ code_size = 0
    /\ Entry

ReturnForgotten(code) ==
    /\ pc' = "exit"
    /\ UNCHANGED <<argv, file, next, shown, exit_code, dvars>>
Return(code) ==
    /\ pc' = "exit" /\ exit_code' = code
    /\ UNCHANGED <<argv, file, next, shown, dvars>>

Usage        == pc = "start" /\ argv.cmd = "none" /\ Return(1) /\ UNCHANGED src
BadArguments == pc = "start" /\ argv.cmd # "none" /\ ArgsError /\ Return(2) /\ UNCHANGED src
Help         == pc = "start" /\ argv.cmd = "help" /\ Return(0) /\ UNCHANGED src

\* The message about an invalid option of info has no argument for its %s.
MessageFault ==
    /\ pc = "start" /\ InvalidInfoOption
    /\ pc' = "crashed"
    /\ UNCHANGED <<argv, file, src, next, shown, exit_code, dvars>>

\* fopen, malloc or fread fails: read_file has released what it took.
ReadFails ==
    /\ pc = "start" /\ argv.cmd # "none" /\ ~ArgsError /\ argv.cmd # "help"
    /\ Return(4) /\ UNCHANGED src

\* An empty file is read into a block of no bytes, which nobody releases.
ReadEmpty ==
    /\ pc = "start" /\ argv.cmd # "none" /\ ~ArgsError /\ argv.cmd # "help"
    /\ file.size = 0
    /\ src' = "held" /\ Return(4)

ReadFile ==
    /\ pc = "start" /\ argv.cmd # "none" /\ ~ArgsError /\ argv.cmd # "help"
    /\ file.size > 0
    /\ src' = "held"
    /\ pc' = IF IsDasm THEN "disassemble" ELSE "info"
    /\ UNCHANGED <<argv, file, next, shown, exit_code, dvars>>

-----------------------------------------------------------------------------
(* info *)

AtOption == pc = "info" /\ next <= Len(InfoOrder)

SkipNext ==
    /\ AtOption /\ InfoOrder[next] \notin Asked(argv.opts)
    /\ next' = next + 1
    /\ UNCHANGED <<argv, file, pc, src, shown, exit_code, dvars>>

ShowNext ==
    /\ AtOption /\ InfoOrder[next] \in Asked(argv.opts)
    /\ ~DividesByZero(InfoOrder[next], file)
    /\ shown' = shown \o Info(InfoOrder[next], file) /\ next' = next + 1
    /\ UNCHANGED <<argv, file, pc, src, exit_code, dvars>>

\* A read outside the file, or a division by an entry size of 0.
ReaderFault ==
    /\ \/ AtOption /\ InfoOrder[next] \in Asked(argv.opts)
          /\ (Strays(InfoOrder[next], file) \/ DividesByZero(InfoOrder[next], file))
       \/ pc = "disassemble" /\ ~DasmArgs(argv.opts).binary /\ Strays("dasm", file)
    /\ pc' = "crashed"
    /\ UNCHANGED <<argv, file, src, next, shown, exit_code, dvars>>

InfoDone == pc = "info" /\ next > Len(InfoOrder) /\ src' = "free" /\ Return(0)

-----------------------------------------------------------------------------
(* disassemble *)

NeedArchKept == src
NeedArchFree == "free"

NeedArch ==
    /\ pc = "disassemble"
    /\ DasmArgs(argv.opts).binary /\ DasmArch(argv.opts) = "unknown"
    /\ src' = NeedArchFree /\ Return(5)

\* The call of decode: its arguments, and its locals.
CallDecode(a, section) ==
    /\ pc' = "decode"
    /\ arch' = a /\ size' = file.size
    /\ svaddr' = section.addr /\ soff' = section.off /\ code_size' = section.size
    /\ off' = section.off /\ last_off' = section.off /\ vaddr' = section.addr
    /\ UNCHANGED <<dpc, out, line, overread, loader_at, differ, said>>

BinarySectionCut == [NoSection EXCEPT !.size = file.size - 4]
BinarySection    == [NoSection EXCEPT !.size = file.size]

DisassembleBinary ==
    /\ pc = "disassemble"
    /\ DasmArgs(argv.opts).binary /\ DasmArch(argv.opts) # "unknown"
    /\ CallDecode(DasmArch(argv.opts), BinarySection)
    /\ UNCHANGED <<argv, file, src, next, shown, exit_code>>

\* An architecture on the command line is dropped with a warning; the results of
\* r_info_basic are not looked at.
DisassembleFile ==
    /\ pc = "disassemble" /\ ~DasmArgs(argv.opts).binary
    /\ shown' = shown \o Info("basic", file)
    /\ CallDecode(r_get_arch(file), r_get_codeoff(file))
    /\ UNCHANGED <<argv, file, src, next, exit_code>>

Decode       == pc = "decode" /\ DStep /\ UNCHANGED mvars
DecodeReturns == pc = "decode" /\ dpc = "done" /\ src' = "free" /\ Return(0)

Ended == pc \in PFinal \/ (pc = "decode" /\ dpc \in {"crashed", "corrupt"})

\* The steps of main itself, and those of the decode it calls.
OwnStep == \/ Usage \/ BadArguments \/ Help \/ MessageFault
           \/ ReadFails \/ ReadEmpty \/ ReadFile
           \/ SkipNext \/ ShowNext \/ ReaderFault \/ InfoDone
           \/ NeedArch \/ DisassembleBinary \/ DisassembleFile \/ DecodeReturns
PStep == OwnStep \/ Decode
PNext == PStep \/ (Ended /\ UNCHANGED pvars)

PSpec     == PInit /\ [][PNext]_pvars
PFairSpec == PSpec /\ WF_pvars(PStep)       \* one thread, never blocked

-----------------------------------------------------------------------------
(* What PDASM guarantees. *)

\* The shape of the state: the exit codes, and no report but the reader's.
PTypeOK ==
    /\ \E call \in Calls : argv \in call.lines /\ file \in call.files
    /\ pc \in PFinal \cup {"start", "info", "disassemble", "decode"}
    /\ src \in {"free", "held"}
    /\ next \in 1..(Len(InfoOrder) + 1)
    /\ \A k \in DOMAIN shown : shown[k].outcome \in {"shown", "truncated", "none"}
    /\ exit_code \in {-1, 0, 1, 2, 4, 5} /\ (exit_code # -1 <=> pc = "exit")

\* Every return of main has released the file's content (main.c:246, 271, 277),
\* the one for an empty file excepted.
SourceReleased == pc = "exit" /\ file.size > 0 => src = "free"

\* main does not look at what r_info_basic returned (main.c:261), and still a
\* file it has refused comes to decode without an architecture and without a
\* section: r_get_arch and r_get_codeoff refuse it again.
RefusedNeverListed ==
    pc = "decode" /\ Refused \in ToSet(shown) =>
        arch = "unknown" /\ code_size = 0 /\ line = NoLine

\* Every line of a file's listing is in the first section with code, under its
\* addresses, and decoded for the machine the file names (main.c:262-267,
\* reader.c:822-883), whatever --arch said.
ListsFirstCode ==
    line # NoLine /\ ~DasmArgs(argv.opts).binary =>
        \E k \in DOMAIN file.sections :
            /\ IsCode(file, file.sections[k])
            /\ \A j \in 1..(k - 1) : ~IsCode(file, file.sections[j])
            /\ line.at \in file.sections[k].off..(file.sections[k].off + file.sections[k].size - 1)
            /\ line.addr = (file.sections[k].addr + (line.at - file.sections[k].off)) % Modulus
            /\ arch = file.machine

\* A finished listing of a binary reaches its last byte (main.c:274).
BinaryListedWhole ==
    /\ pc = "exit" /\ exit_code = 0 /\ IsDasm /\ DasmArgs(argv.opts).binary
    /\ said = "nothing"
    => line.at + line.len >= file.size

\* Of a file the reader accepts, --all (main.c:52) shows every report that any
\* other option shows.
AllShowsEverything ==
    pc = "exit" /\ exit_code = 0 /\ argv.cmd = "info" /\ Accepted(file)
        /\ "all" \in Asked(argv.opts) =>
        \A o \in DOMAIN InfoOptions : ToSet(Info(o, file)) \subseteq ToSet(shown)

\* The reader checks 16 bytes of an ELF file (reader.c:19) and the start of some
\* tables, no count and no index; a file its format allows it reads without
\* leaving it, whichever tables it has and in whatever order, as long as its last
\* symbol table is the one its last string table is for.
ReadsOnlyFile ==
    /\ WellFormed(file) /\ ~InvalidInfoOption
    /\ is_pe(file) \/ LastLinksToLast(file)
    => pc # "crashed"

\* The symbols of the file are named from its last string table (reader.c:247),
\* those of a relocation from the table that its symbol table links to
\* (reader.c:298): when the last of both belong together, a symbol has one name in
\* everything that is shown, however many tables of either kind there are.
OneName ==
    WellFormed(file) /\ ~is_pe(file) /\ LastLinksToLast(file) =>
        \A a, b \in UNION {shown[k].names : k \in DOMAIN shown} :
            a[1] = b[1] /\ a[2] = b[2] => a[3] = b[3]

\* PDASM ends on every file and command line.
PdasmEnds == <>Ended

=============================================================================
