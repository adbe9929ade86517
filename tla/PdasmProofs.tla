---------------------------- MODULE PdasmProofs ----------------------------
(***************************************************************************)
(* Proofs about Pdasm, for every set of calls: every command line and      *)
(* every file.                                                             *)
(***************************************************************************)
EXTENDS PdasmWhole, PdasmX86Proofs, PdasmReaderProofs

(* The listing, from the call of decode on. *)

\* What decode was called with.
Called ==
    /\ IsDasm /\ file.size > 0 /\ size = file.size
    /\ DasmArgs(argv.opts).binary =>
          shown = <<>> /\ soff = 0 /\ svaddr = 0 /\ code_size = file.size
    /\ ~DasmArgs(argv.opts).binary =>
          LET section == r_get_codeoff(file) IN
          /\ shown = Info("basic", file) /\ arch = r_get_arch(file)
          /\ soff = section.off /\ svaddr = section.addr /\ code_size = section.size

\* Where the line printed last is.
LineInv ==
    line # NoLine =>
        /\ arch \in X86Archs \cup {"PVCpu"} /\ line.at < End
        /\ line.addr = (svaddr + (line.at - soff)) % Modulus

\* Until decode is called, and when it never is, it is as on entry.
CallInv == \/ pc # "decode" /\ Entry
           \/ pc \in {"decode", "exit"} /\ Called

(* The command. *)

MainInv ==
    /\ \E call \in Calls : argv \in call.lines /\ file \in call.files
    /\ pc \in PFinal \cup {"start", "info", "disassemble", "decode"}
    /\ src \in {"free", "held"} /\ (pc = "start" => src = "free") /\ SourceReleased
    /\ next \in 1..7
    /\ shown \in Seq(Reports(file)) /\ (pc \in {"start", "disassemble"} => shown = <<>>)
    /\ exit_code \in {-1, 0, 1, 2, 4, 5} /\ (exit_code # -1 <=> pc = "exit")
    /\ pc = "info" => argv.cmd = "info"
    /\ pc = "disassemble" => IsDasm /\ file.size > 0

AllInv == "all" \in Asked(argv.opts) /\ next = 7 => ToSet(Info("all", file)) \subseteq ToSet(shown)

CrashInv ==
    pc = "crashed" =>
        \/ InvalidInfoOption
        \/ \E o \in Options \cup {"dasm"} : Strays(o, file) \/ DividesByZero(o, file)

ExitInv ==
    pc = "exit" /\ exit_code = 0 =>
        \/ argv.cmd = "help"
        \/ argv.cmd = "info" /\ next = 7
        \/ IsDasm /\ Called /\ dpc = "done"

PInv == DInv /\ LineInv /\ CallInv /\ MainInv /\ AllInv /\ CrashInv /\ ExitInv

-----------------------------------------------------------------------------
LEMMA FileIsFile ==
    ASSUME \E call \in Calls : argv \in call.lines /\ file \in call.files
    PROVE  FileShape(file, Sizes) /\ Sizes = 0..(Modulus - 1) /\ Sizes \in SUBSET Nat
<1>1. FileShape(file, Sizes)
  BY FilesAssumption
<1>2. Sizes = 0..(Modulus - 1) /\ Modulus \in Nat
  BY MainArgumentsAssumption, ModulusAssumption
<1> QED
  BY <1>1, <1>2

LEMMA InfoOrderIs ==
    /\ Len(InfoOrder) = 6 /\ InfoOrder[6] = "all"
    /\ \A n \in 1..6 : InfoOrder[n] \in Options
BY DEF InfoOrder, Options

LEMMA ConcatToSet ==
    ASSUME NEW S, NEW s \in Seq(S), NEW t \in Seq(S)
    PROVE  s \o t \in Seq(S) /\ ToSet(s) \subseteq ToSet(s \o t) /\ ToSet(t) \subseteq ToSet(s \o t)
<1>1. /\ s \o t \in Seq(S) /\ Len(s \o t) = Len(s) + Len(t) /\ Len(s) \in Nat /\ Len(t) \in Nat
      /\ DOMAIN s = 1..Len(s) /\ DOMAIN t = 1..Len(t) /\ DOMAIN (s \o t) = 1..(Len(s) + Len(t))
      /\ \A i \in 1..(Len(s) + Len(t)) :
            (s \o t)[i] = IF i <= Len(s) THEN s[i] ELSE t[i - Len(s)]
  OBVIOUS
<1>2. \A i \in DOMAIN s : i \in DOMAIN (s \o t) /\ (s \o t)[i] = s[i]
  BY <1>1
<1>3. \A i \in DOMAIN t : (i + Len(s)) \in DOMAIN (s \o t) /\ (s \o t)[i + Len(s)] = t[i]
  BY <1>1
<1>4. ToSet(s) \subseteq ToSet(s \o t)
  BY <1>2, Zenon DEF ToSet
<1>5. ToSet(t) \subseteq ToSet(s \o t)
  BY <1>3, Zenon DEF ToSet
<1> QED
  BY <1>1, <1>4, <1>5

-----------------------------------------------------------------------------
LEMMA InitPInv == PInit => PInv
<1> SUFFICES ASSUME PInit PROVE PInv
  OBVIOUS
<1>1. DInit
  <2>1. 0 \in Sizes /\ 0 \in Offsets /\ 0 \in CodeSizes /\ 0 \in Addresses
    BY MainArgumentsAssumption, ModulusAssumption
  <2> QED
    BY <2>1 DEF PInit, DInit, Architectures
<1>2. DInv
  BY <1>1, InitDInv
<1>3. LineInv /\ CallInv
  BY DEF PInit, Entry, LineInv, CallInv
<1>4. MainInv
  BY DEF PInit, MainInv, SourceReleased, PFinal
<1>5. AllInv /\ CrashInv /\ ExitInv
  BY DEF PInit, AllInv, CrashInv, ExitInv
<1> QED
  BY <1>2, <1>3, <1>4, <1>5 DEF PInv

\* The steps of main before decode, and those of a command that never calls it.
LEMMA MainStepKeepsPInv ==
    ASSUME PInv, Entry, UNCHANGED <<argv, file, dvars>>, pc' # "decode",
           MainInv', AllInv', CrashInv', ExitInv'
    PROVE  PInv'
<1>1. DInv'
  <2>1. [DNext]_dvars
    OBVIOUS
  <2> QED
    BY <2>1, NextDInv DEF PInv
<1>2. LineInv' /\ Entry'
  BY DEF PInv, LineInv, Entry, End, dvars, args
<1>3. CallInv'
  BY <1>2 DEF CallInv
<1> QED
  BY <1>1, <1>2, <1>3 DEF PInv

\* Returning before decode is called.
LEMMA ReturnKeepsPInv ==
    ASSUME PInv, NEW code \in {0, 1, 2, 4, 5}, Return(code), pc \in {"start", "info", "disassemble"},
           src' \in {"free", "held"}, file.size > 0 => src' = "free",
           code = 0 => argv.cmd = "help" \/ (argv.cmd = "info" /\ next = 7)
    PROVE  PInv'
<1>1. UNCHANGED <<argv, file, next, shown, dvars>> /\ pc' = "exit" /\ exit_code' = code
  BY DEF Return
<1>2. Entry
  BY DEF PInv, CallInv
<1>3. MainInv'
  BY <1>1 DEF PInv, MainInv, SourceReleased, PFinal
<1>4. AllInv' /\ CrashInv' /\ ExitInv'
  BY <1>1 DEF PInv, AllInv, CrashInv, ExitInv
<1> QED
  BY <1>1, <1>2, <1>3, <1>4, MainStepKeepsPInv

-----------------------------------------------------------------------------
LEMMA ShapeOfPInv ==
    ASSUME PInv
    PROVE  /\ pc \in {"start", "info", "disassemble"} => Entry
           /\ pc = "decode" => Called /\ pc # "exit" /\ exit_code = -1
           /\ FileShape(file, Sizes) /\ Sizes = 0..(Modulus - 1) /\ Sizes \in SUBSET Nat
<1>1. \E call \in Calls : argv \in call.lines /\ file \in call.files
  BY DEF PInv, MainInv
<1>2. pc = "decode" => exit_code = -1
  BY DEF PInv, MainInv
<1> QED
  BY <1>1, <1>2, FileIsFile DEF PInv, CallInv

LEMMA ReadFileKeepsPInv == PInv /\ ReadFile => PInv'
<1> SUFFICES ASSUME PInv, ReadFile PROVE PInv'
  OBVIOUS
<1>1. /\ UNCHANGED <<argv, file, next, shown, exit_code, dvars>> /\ src' = "held"
      /\ pc = "start" /\ file.size > 0 /\ pc' = IF IsDasm THEN "disassemble" ELSE "info"
      /\ ~IsDasm => argv.cmd = "info"
  BY DEF ReadFile, ArgsError, IsDasm
<1>2. Entry
  BY <1>1, ShapeOfPInv
<1>3. MainInv'
  BY <1>1 DEF PInv, MainInv, SourceReleased, PFinal, IsDasm
<1>4. AllInv' /\ CrashInv' /\ ExitInv'
  BY <1>1 DEF PInv, AllInv, CrashInv, ExitInv
<1> QED
  BY <1>1, <1>2, <1>3, <1>4, MainStepKeepsPInv

\* A crash has a reason.
LEMMA CrashKeepsPInv ==
    ASSUME PInv, pc \in {"start", "info", "disassemble"}, pc' = "crashed",
           UNCHANGED <<argv, file, src, next, shown, exit_code, dvars>>,
           InvalidInfoOption \/ \E o \in Options \cup {"dasm"} : Strays(o, file) \/ DividesByZero(o, file)
    PROVE  PInv'
<1>1. Entry
  BY ShapeOfPInv
<1>2. MainInv'
  BY DEF PInv, MainInv, SourceReleased, PFinal
<1>3. AllInv' /\ ExitInv'
  BY DEF PInv, AllInv, ExitInv
<1>4. CrashInv'
  BY DEF CrashInv, InvalidInfoOption
<1> QED
  BY <1>1, <1>2, <1>3, <1>4, MainStepKeepsPInv

LEMMA ReaderFaultKeepsPInv == PInv /\ ReaderFault => PInv'
<1> SUFFICES ASSUME PInv, ReaderFault PROVE PInv'
  OBVIOUS
<1>1. /\ pc' = "crashed" /\ pc \in {"info", "disassemble"}
      /\ UNCHANGED <<argv, file, src, next, shown, exit_code, dvars>>
  BY DEF ReaderFault, AtOption
<1>2. \E o \in Options \cup {"dasm"} : Strays(o, file) \/ DividesByZero(o, file)
  <2>1. CASE pc = "disassemble"
    BY <2>1 DEF ReaderFault, AtOption
  <2>2. CASE pc = "info"
    <3>1. InfoOrder[next] \in Options
      <4>1. next \in 1..6
        BY <2>2, InfoOrderIs DEF ReaderFault, AtOption, PInv, MainInv
      <4> QED
        BY <4>1, InfoOrderIs
    <3>2. Strays(InfoOrder[next], file) \/ DividesByZero(InfoOrder[next], file)
      BY <2>2, Zenon DEF ReaderFault
    <3> QED
      BY <3>1, <3>2
  <2> QED
    BY <1>1, <2>1, <2>2
<1> QED
  BY <1>1, <1>2, CrashKeepsPInv

-----------------------------------------------------------------------------
(* info *)

LEMMA AtOptionShape ==
    ASSUME PInv, AtOption
    PROVE  /\ pc = "info" /\ Entry /\ next \in 1..6 /\ next + 1 \in 1..7
           /\ InfoOrder[next] \in Options /\ (next + 1 = 7 => InfoOrder[next] = "all")
<1>1. pc = "info" /\ next \in 1..6
  BY InfoOrderIs DEF AtOption, PInv, MainInv
<1> QED
  BY <1>1, InfoOrderIs, ShapeOfPInv

LEMMA SkipNextKeepsPInv == PInv /\ SkipNext => PInv'
<1> SUFFICES ASSUME PInv, SkipNext PROVE PInv'
  OBVIOUS
<1>1. /\ AtOption /\ InfoOrder[next] \notin Asked(argv.opts) /\ next' = next + 1
      /\ UNCHANGED <<argv, file, pc, src, shown, exit_code, dvars>>
  BY DEF SkipNext
<1>2. MainInv'
  BY <1>1, AtOptionShape DEF PInv, MainInv, SourceReleased
<1>3. AllInv'
  BY <1>1, AtOptionShape DEF AllInv
<1>4. CrashInv' /\ ExitInv'
  BY <1>1, AtOptionShape DEF CrashInv, ExitInv
<1> QED
  BY <1>1, <1>2, <1>3, <1>4, AtOptionShape, MainStepKeepsPInv

LEMMA ShowNextKeepsPInv == PInv /\ ShowNext => PInv'
<1> SUFFICES ASSUME PInv, ShowNext PROVE PInv'
  OBVIOUS
<1> DEFINE o == InfoOrder[next]
<1>1. /\ AtOption /\ next' = next + 1 /\ shown' = shown \o Info(o, file)
      /\ UNCHANGED <<argv, file, pc, src, exit_code, dvars>>
  BY DEF ShowNext
<1>2. shown \in Seq(Reports(file)) /\ Info(o, file) \in Seq(Reports(file))
  BY <1>1, AtOptionShape, InfoIsSeq DEF PInv, MainInv
<1>3. /\ shown' \in Seq(Reports(file))
      /\ ToSet(Info(o, file)) \subseteq ToSet(shown')
  BY <1>1, <1>2, ConcatToSet
<1>4. next + 1 = 7 => o = "all"
  BY <1>1, AtOptionShape
<1> HIDE DEF o
<1>5. MainInv'
  BY <1>1, <1>3, AtOptionShape DEF PInv, MainInv, SourceReleased
<1>6. AllInv'
  BY <1>1, <1>3, <1>4 DEF AllInv
<1>7. CrashInv' /\ ExitInv'
  BY <1>1, AtOptionShape DEF CrashInv, ExitInv
<1> QED
  BY <1>1, <1>5, <1>6, <1>7, AtOptionShape, MainStepKeepsPInv

-----------------------------------------------------------------------------
(* disassemble *)

LEMMA ArchesAreArchitectures ==
    /\ \A f : r_get_arch(f) \in Architectures
    /\ \A opts : DasmArch(opts) \in Architectures
<1>1. ASSUME NEW f PROVE r_get_arch(f) \in Architectures
  BY DEF r_get_arch, r_get_arch_unchecked, Machines, Architectures, X86Archs
<1>2. ASSUME NEW s PROVE str_to_arch(s) \in Architectures
  <2>1. str_to_arch(s) \in DOMAIN ArchNames \cup {"unknown"}
    BY DEF str_to_arch
  <2>2. DOMAIN ArchNames = {"x86", "x64", "PVCpu", "PVCpuC"}
    BY DEF ArchNames
  <2> QED
    BY <2>1, <2>2 DEF Architectures, X86Archs
<1> QED
  BY <1>1, <1>2 DEF DasmArch

\* The section that is disassembled has the values of a size_t.
LEMMA CodeoffRange ==
    ASSUME NEW f, FileShape(f, Sizes)
    PROVE  LET s == r_get_codeoff(f) IN s.off \in Sizes /\ s.size \in Sizes /\ s.addr \in Sizes
<1>1. CASE CodeSections(f) = {}
  BY <1>1, MainArgumentsAssumption, ModulusAssumption DEF r_get_codeoff, NoSection
<1>2. CASE CodeSections(f) # {}
  <2>1. \E k \in DOMAIN f.sections : r_get_codeoff(f) = f.sections[k]
    BY <1>2, FirstCode DEF FileShape
  <2> QED
    BY <2>1 DEF FileShape
<1> QED
  BY <1>1, <1>2

\* decode is entered as PdasmDecode has it.
LEMMA CallDecodeIsDInit ==
    ASSUME PInv, pc = "disassemble", NEW a \in Architectures, NEW s,
           s.off \in Sizes, s.size \in Sizes, s.addr \in Sizes, CallDecode(a, s), UNCHANGED file
    PROVE  DInv' /\ LineInv' /\ pc' = "decode"
<1>1. /\ arch' = a /\ size' = file.size /\ svaddr' = s.addr /\ soff' = s.off /\ code_size' = s.size
      /\ off' = s.off /\ last_off' = s.off /\ vaddr' = s.addr /\ pc' = "decode"
      /\ UNCHANGED <<dpc, out, line, overread, loader_at, differ, said>>
  BY DEF CallDecode
<1>2. Entry /\ file.size \in Sizes
  BY ShapeOfPInv DEF FileShape
<1>3. DInit'
  BY <1>1, <1>2, MainArgumentsAssumption DEF DInit, Entry
<1>4. DInv'
  BY <1>3, InitDInv, PTL
<1> QED
  BY <1>1, <1>2, <1>4 DEF LineInv, Entry

LEMMA DisassembleBinaryKeepsPInv == PInv /\ DisassembleBinary => PInv'
<1> SUFFICES ASSUME PInv, DisassembleBinary PROVE PInv'
  OBVIOUS
<1>1. /\ pc = "disassemble" /\ DasmArgs(argv.opts).binary
      /\ CallDecode(DasmArch(argv.opts), BinarySection)
      /\ UNCHANGED <<argv, file, src, next, shown, exit_code>>
  BY DEF DisassembleBinary
<1>2. BinarySection.off = 0 /\ BinarySection.addr = 0 /\ BinarySection.size = file.size
  BY DEF BinarySection, NoSection
<1>3. 0 \in Sizes /\ file.size \in Sizes
  BY ShapeOfPInv, MainArgumentsAssumption, ModulusAssumption DEF FileShape
<1>4. DInv' /\ LineInv' /\ pc' = "decode"
  BY <1>1, <1>2, <1>3, ArchesAreArchitectures, CallDecodeIsDInit
<1>5. Called'
  BY <1>1, <1>2 DEF Called, CallDecode, PInv, MainInv, IsDasm
<1>6. MainInv'
  BY <1>1, <1>4 DEF PInv, MainInv, SourceReleased, PFinal
<1>7. AllInv' /\ CrashInv' /\ ExitInv'
  BY <1>1, <1>4 DEF PInv, AllInv, CrashInv, ExitInv
<1> QED
  BY <1>4, <1>5, <1>6, <1>7 DEF PInv, CallInv

LEMMA DisassembleFileKeepsPInv == PInv /\ DisassembleFile => PInv'
<1> SUFFICES ASSUME PInv, DisassembleFile PROVE PInv'
  OBVIOUS
<1>1. /\ pc = "disassemble" /\ ~DasmArgs(argv.opts).binary
      /\ shown' = shown \o Info("basic", file)
      /\ CallDecode(r_get_arch(file), r_get_codeoff(file))
      /\ UNCHANGED <<argv, file, src, next, exit_code>>
  BY DEF DisassembleFile
<1>2. DInv' /\ LineInv' /\ pc' = "decode"
  BY <1>1, CodeoffRange, ShapeOfPInv, ArchesAreArchitectures, CallDecodeIsDInit
<1>3. shown' = Info("basic", file) /\ shown' \in Seq(Reports(file))
      /\ ToSet(shown) \subseteq ToSet(shown')
  <2>1. shown = <<>> /\ Info("basic", file) \in Seq(Reports(file))
    BY <1>1, InfoIsSeq DEF PInv, MainInv, Options
  <2>2. <<>> \o Info("basic", file) = Info("basic", file)
    BY <2>1, ConcatEmptySeq
  <2> QED
    BY <1>1, <2>1, <2>2 DEF ToSet
<1>4. Called'
  BY <1>1, <1>3 DEF Called, CallDecode, PInv, MainInv, IsDasm
<1>5. MainInv'
  BY <1>1, <1>2, <1>3 DEF PInv, MainInv, SourceReleased, PFinal
<1>6. AllInv'
  BY <1>1, <1>3 DEF PInv, AllInv
<1>7. CrashInv' /\ ExitInv'
  BY <1>1, <1>2 DEF CrashInv, ExitInv
<1> QED
  BY <1>2, <1>4, <1>5, <1>6, <1>7 DEF PInv, CallInv

LEMMA DecodeKeepsPInv == PInv /\ Decode => PInv'
<1> SUFFICES ASSUME PInv, Decode PROVE PInv'
  OBVIOUS
<1>1. pc = "decode" /\ UNCHANGED mvars /\ [DNext]_dvars
  BY DEF Decode, DNext
<1>2. DInv'
  BY <1>1, NextDInv DEF PInv
<1>3. UNCHANGED args /\ (line' # line => arch \in X86Archs \cup {"PVCpu"})
  BY <1>1, WhoPrints DEF LineX86, LinePVCpu
<1>4. LineInv'
  <2>1. CASE line' = line
    BY <1>3, <2>1 DEF PInv, LineInv, End, args
  <2>2. CASE line' # line
    <3>1. Tiled
      BY <1>1, <2>2, NextTiled DEF PInv, dvars
    <3> QED
      BY <1>3, <2>2, <3>1 DEF Tiled, LineInv, End, args
  <2> QED
    BY <2>1, <2>2
<1>5. Called'
  BY <1>1, <1>3, ShapeOfPInv DEF Called, mvars, args, IsDasm
<1>6. MainInv' /\ AllInv' /\ CrashInv' /\ ExitInv'
  BY <1>1 DEF PInv, MainInv, AllInv, CrashInv, ExitInv, SourceReleased, IsDasm, mvars
<1> QED
  BY <1>1, <1>2, <1>4, <1>5, <1>6 DEF PInv, CallInv, mvars

LEMMA DecodeReturnsKeepsPInv == PInv /\ DecodeReturns => PInv'
<1> SUFFICES ASSUME PInv, DecodeReturns PROVE PInv'
  OBVIOUS
<1>1. /\ pc = "decode" /\ dpc = "done" /\ src' = "free" /\ pc' = "exit" /\ exit_code' = 0
      /\ UNCHANGED <<argv, file, next, shown, dvars>>
  BY DEF DecodeReturns, Return
<1>2. DInv'
  <2>1. [DNext]_dvars
    BY <1>1
  <2> QED
    BY <2>1, NextDInv DEF PInv
<1>3. LineInv' /\ Called' /\ dpc' = "done" /\ IsDasm'
  BY <1>1, ShapeOfPInv DEF PInv, LineInv, Called, End, IsDasm, dvars, args
<1>4. MainInv'
  BY <1>1 DEF PInv, MainInv, SourceReleased, PFinal
<1>5. AllInv' /\ CrashInv' /\ ExitInv'
  BY <1>1, <1>3 DEF PInv, AllInv, CrashInv, ExitInv
<1> QED
  BY <1>1, <1>2, <1>3, <1>4, <1>5 DEF PInv, CallInv

LEMMA NextPInv == PInv /\ [PNext]_pvars => PInv'
<1> SUFFICES ASSUME PInv, [PNext]_pvars PROVE PInv'
  OBVIOUS
<1> USE DEF PInv, MainInv
<1>1. CASE Usage
  BY <1>1, ReturnKeepsPInv DEF Usage
<1>2. CASE BadArguments
  BY <1>2, ReturnKeepsPInv DEF BadArguments
<1>3. CASE Help
  BY <1>3, ReturnKeepsPInv DEF Help
<1>4. CASE MessageFault
  BY <1>4, CrashKeepsPInv DEF MessageFault
<1>5. CASE ReadFails
  BY <1>5, ReturnKeepsPInv DEF ReadFails
<1>6. CASE ReadEmpty
  BY <1>6, ReturnKeepsPInv DEF ReadEmpty
<1>7. CASE ReadFile
  BY <1>7, ReadFileKeepsPInv
<1>8. CASE SkipNext
  BY <1>8, SkipNextKeepsPInv
<1>9. CASE ShowNext
  BY <1>9, ShowNextKeepsPInv
<1>10. CASE ReaderFault
  BY <1>10, ReaderFaultKeepsPInv
<1>11. CASE InfoDone
  <2>1. next = 7 /\ argv.cmd = "info"
    BY <1>11, InfoOrderIs DEF InfoDone
  <2> QED
    BY <1>11, <2>1, ReturnKeepsPInv DEF InfoDone
<1>12. CASE NeedArch
  BY <1>12, ReturnKeepsPInv DEF NeedArch, NeedArchFree
<1>13. CASE DisassembleBinary
  BY <1>13, DisassembleBinaryKeepsPInv
<1>14. CASE DisassembleFile
  BY <1>14, DisassembleFileKeepsPInv
<1>15. CASE Decode
  BY <1>15, DecodeKeepsPInv
<1>16. CASE DecodeReturns
  BY <1>16, DecodeReturnsKeepsPInv
<1>17. CASE UNCHANGED pvars
  <2>1. [DNext]_dvars /\ UNCHANGED dvars /\ UNCHANGED mvars
    BY <1>17 DEF pvars
  <2>2. DInv'
    BY <2>1, NextDInv
  <2>3. LineInv' /\ CallInv' /\ ExitInv'
    BY <2>1 DEF LineInv, CallInv, ExitInv, Called, Entry, IsDasm, End, dvars, args, mvars
  <2>4. MainInv' /\ AllInv' /\ CrashInv'
    BY <2>1 DEF AllInv, CrashInv, SourceReleased, IsDasm, InvalidInfoOption, mvars
  <2> QED
    BY <2>2, <2>3, <2>4
<1> QED
  BY <1>1, <1>2, <1>3, <1>4, <1>5, <1>6, <1>7, <1>8, <1>9, <1>10, <1>11, <1>12, <1>13, <1>14,
     <1>15, <1>16, <1>17 DEF PNext, PStep, OwnStep

-----------------------------------------------------------------------------
\* The state of main (main.c:219-283) keeps its shape: it returns one of its exit
\* codes, and nothing is printed but the reports of the file.
THEOREM PdasmTypeCorrect == PSpec => []PTypeOK
<1>1. PInv => PTypeOK
  <2> SUFFICES ASSUME PInv PROVE PTypeOK
    OBVIOUS
  <2>1. ASSUME NEW k \in DOMAIN shown PROVE shown[k].outcome \in {"shown", "truncated", "none"}
    <3>1. shown[k] \in Reports(file)
      BY DEF PInv, MainInv
    <3> QED
      BY <3>1, ReportOutcome DEF Outcomes
  <2>2. 7 = Len(InfoOrder) + 1
    BY InfoOrderIs
  <2> QED
    BY <2>1, <2>2 DEF PInv, MainInv, PTypeOK
<1> QED
  BY InitPInv, NextPInv, <1>1, PTL DEF PSpec

\* Every return of main has released the file's content (main.c:246, 271, 277),
\* that of an empty file excepted.
THEOREM EveryReturnReleases == PSpec => []SourceReleased
<1>1. PInv => SourceReleased
  BY DEF PInv, MainInv
<1> QED
  BY InitPInv, NextPInv, <1>1, PTL DEF PSpec

\* A file that r_info_basic refuses (main.c:261 does not look) is not listed.
THEOREM RefusedFilesAreNotListed == PSpec => []RefusedNeverListed
<1>1. PInv => RefusedNeverListed
  <2> SUFFICES ASSUME PInv, pc = "decode", Refused \in ToSet(shown)
               PROVE  arch = "unknown" /\ code_size = 0 /\ line = NoLine
    BY DEF RefusedNeverListed
  <2>1. Called
    BY ShapeOfPInv
  <2>2. ~DasmArgs(argv.opts).binary
    <3>1. shown # <<>>
      BY DEF ToSet
    <3> QED
      BY <2>1, <3>1 DEF Called
  <2>3. ~Accepted(file)
    BY <2>1, <2>2, RefusedIsRefused DEF Called
  <2>4. arch = "unknown" /\ code_size = 0
    <3>1. CodeSections(file) = {}
      BY <2>3 DEF CodeSections
    <3> QED
      BY <2>1, <2>2, <2>3, <3>1 DEF Called, r_get_arch, r_get_codeoff, NoSection
  <2> QED
    BY <2>4 DEF PInv, LineInv, X86Archs
<1> QED
  BY InitPInv, NextPInv, <1>1, PTL DEF PSpec

\* What is listed of a file is its first section with code, under its addresses,
\* for the machine it names (main.c:262-267, reader.c:822-883).
THEOREM FirstCodeIsListed == PSpec => []ListsFirstCode
<1>1. PInv => ListsFirstCode
  <2> SUFFICES ASSUME PInv, line # NoLine, ~DasmArgs(argv.opts).binary
               PROVE  \E k \in DOMAIN file.sections :
                         LET s == file.sections[k] IN
                         /\ IsCode(file, s) /\ \A j \in 1..(k - 1) : ~IsCode(file, file.sections[j])
                         /\ line.at \in s.off..(s.off + s.size - 1)
                         /\ line.addr = (s.addr + (line.at - s.off)) % Modulus
                         /\ arch = file.machine
    BY DEF ListsFirstCode
  <2> DEFINE s == r_get_codeoff(file)
  <2>1. Called
    BY DEF PInv, CallInv, Entry
  <2>2. /\ arch = r_get_arch(file) /\ soff = s.off /\ svaddr = s.addr /\ code_size = s.size
    BY <2>1 DEF Called
  <2>3. /\ arch # "unknown" /\ line.at < End
        /\ line.addr = (svaddr + (line.at - soff)) % Modulus
    BY DEF PInv, LineInv, X86Archs
  <2>4. Accepted(file) /\ arch = file.machine
    BY <2>2, <2>3 DEF r_get_arch, r_get_arch_unchecked
  <2>5. soff \in Nat /\ code_size \in Nat /\ Modulus \in Nat \ {0} /\ off \in Nat
    BY ArgumentRanges DEF PInv, DInv, DTypeOK
  <2>6. line.at \in Nat /\ line.at >= soff
    BY DEF PInv, DInv, DTypeOK, PlaceInv, Line
  <2>7. line.at < soff + code_size
    <3>1. End <= soff + code_size /\ End \in Int
      BY <2>5, SMT DEF End
    <3> QED
      BY <2>3, <2>5, <2>6, <3>1
  <2>8. CodeSections(file) # {}
    <3>1. code_size # 0
      BY <2>5, <2>6, <2>7
    <3> QED
      BY <2>2, <3>1 DEF r_get_codeoff, NoSection
  <2>9. PICK k \in DOMAIN file.sections :
           /\ s = file.sections[k] /\ IsCode(file, file.sections[k])
           /\ \A j \in 1..(k - 1) : ~IsCode(file, file.sections[j])
    BY <2>8, FirstCode, ShapeOfPInv DEF FileShape
  <2> HIDE DEF s
  <2>10. line.at \in s.off..(s.off + s.size - 1)
    BY <2>2, <2>5, <2>6, <2>7
  <2> QED
    BY <2>2, <2>3, <2>4, <2>9, <2>10
<1> QED
  BY InitPInv, NextPInv, <1>1, PTL DEF PSpec

\* A finished listing of a binary reaches its last byte (main.c:274).
THEOREM BinariesAreListedWhole == PSpec => []BinaryListedWhole
<1>1. PInv => BinaryListedWhole
  <2> SUFFICES ASSUME PInv, pc = "exit", exit_code = 0, IsDasm, DasmArgs(argv.opts).binary,
                      said = "nothing"
               PROVE  line.at + line.len >= file.size
    BY DEF BinaryListedWhole
  <2>1. Called /\ dpc = "done"
    BY DEF PInv, ExitInv, IsDasm
  <2>2. soff = 0 /\ code_size = file.size /\ file.size > 0
    BY <2>1 DEF Called
  <2>3. file.size \in Nat /\ file.size < Modulus
    BY ShapeOfPInv, ModulusAssumption DEF FileShape
  <2>4. ListedToTheEnd
    BY DInvListedToTheEnd DEF PInv
  <2>5. line.at + line.len >= soff + code_size
    BY <2>1, <2>2, <2>3, <2>4 DEF ListedToTheEnd
  <2> QED
    BY <2>2, <2>3, <2>5
<1> QED
  BY InitPInv, NextPInv, <1>1, PTL DEF PSpec

\* --all shows what every option shows (main.c:52, 244).
THEOREM AllIsEverything == PSpec => []AllShowsEverything
<1>1. PInv => AllShowsEverything
  <2> SUFFICES ASSUME PInv, pc = "exit", exit_code = 0, argv.cmd = "info", Accepted(file),
                      "all" \in Asked(argv.opts), NEW o \in DOMAIN InfoOptions
               PROVE  ToSet(Info(o, file)) \subseteq ToSet(shown)
    BY DEF AllShowsEverything
  <2>1. next = 7
    BY DEF PInv, ExitInv, IsDasm
  <2>2. o \in Options
    BY DEF InfoOptions, Options
  <2>3. ToSet(Info("all", file)) \subseteq ToSet(shown)
    BY <2>1 DEF PInv, AllInv
  <2> QED
    BY <2>2, <2>3, AllIsAll
<1> QED
  BY InitPInv, NextPInv, <1>1, PTL DEF PSpec

\* PDASM reads a well-formed file without leaving it (reader.c:19 checks 16 bytes).
THEOREM WellFormedIsReadInside == PSpec => []ReadsOnlyFile
<1>1. PInv => ReadsOnlyFile
  <2> SUFFICES ASSUME PInv, WellFormed(file), ~InvalidInfoOption,
                      is_pe(file) \/ LastLinksToLast(file), pc = "crashed"
               PROVE  FALSE
    BY DEF ReadsOnlyFile
  <2>1. PICK o \in Options \cup {"dasm"} : Strays(o, file) \/ DividesByZero(o, file)
    BY DEF PInv, CrashInv
  <2> QED
    BY <2>1, ShapeOfPInv, WellFormedReadInside
<1> QED
  BY InitPInv, NextPInv, <1>1, PTL DEF PSpec

\* A symbol has one name in everything that is shown (reader.c:247, 298).
THEOREM SymbolsHaveOneName == PSpec => []OneName
<1>1. PInv => OneName
  <2> SUFFICES ASSUME PInv, WellFormed(file), ~is_pe(file), LastLinksToLast(file),
                      NEW a \in UNION {shown[k].names : k \in DOMAIN shown},
                      NEW b \in UNION {shown[k].names : k \in DOMAIN shown},
                      a[1] = b[1], a[2] = b[2]
               PROVE  a[3] = b[3]
    BY DEF OneName
  <2>1. \A r \in Reports(file) : \A c \in r.names :
            c[3] = NameAt(file, file.sections[c[1]].link, file.sections[c[1]].rows[c[2] + 1].name)
    BY ShapeOfPInv, NamesAgree DEF WellFormed
  <2>2. \A k \in DOMAIN shown : shown[k] \in Reports(file)
    BY DEF PInv, MainInv
  <2> QED
    BY <2>1, <2>2
<1> QED
  BY InitPInv, NextPInv, <1>1, PTL DEF PSpec
-----------------------------------------------------------------------------
(* PDASM ends: it goes on to a later part, or nearer to the end of this one. *)

\* The parts of main that are left.
PartsLeft == CASE pc = "start"                   -> 3
               [] pc \in {"info", "disassemble"} -> 2
               [] pc = "decode"                  -> 1
               [] pc \in PFinal                  -> 0

\* The steps that are left in the part main is in, at most.
PartLeft == CASE pc = "info"   -> 7 - next
              [] pc = "decode" -> DLeft
              [] OTHER         -> 0

LEMMA PartsInNat == PInv => PartsLeft \in Nat /\ PartLeft \in Nat
<1> SUFFICES ASSUME PInv PROVE PartsLeft \in Nat /\ PartLeft \in Nat
  OBVIOUS
<1>1. pc \in PFinal \cup {"start", "info", "disassemble", "decode"} /\ next \in 1..7
  BY DEF PInv, MainInv
<1>2. DLeft \in Nat
  BY DLeftInNat DEF PInv, DInv
<1> QED
  BY <1>1, <1>2 DEF PartsLeft, PartLeft, PFinal

LEMMA StepLowersParts ==
    PInv /\ PStep => PartsLeft' < PartsLeft \/ (PartsLeft' = PartsLeft /\ PartLeft' < PartLeft)
<1> SUFFICES ASSUME PInv, PStep
             PROVE  PartsLeft' < PartsLeft \/ (PartsLeft' = PartsLeft /\ PartLeft' < PartLeft)
  OBVIOUS
<1>1. CASE Usage \/ BadArguments \/ Help \/ MessageFault \/ ReadFails \/ ReadEmpty \/ ReadFile
  <2>1. pc = "start" /\ pc' \in PFinal \cup {"info", "disassemble"}
    BY <1>1 DEF Usage, BadArguments, Help, MessageFault, ReadFails, ReadEmpty, ReadFile, Return, PFinal
  <2> QED
    BY <2>1 DEF PartsLeft, PFinal
<1>2. CASE SkipNext \/ ShowNext
  <2>1. pc = "info" /\ pc' = "info" /\ next \in 1..7 /\ next' = next + 1
    BY <1>2 DEF SkipNext, ShowNext, AtOption, PInv, MainInv
  <2> QED
    BY <2>1 DEF PartsLeft, PartLeft, PFinal
<1>3. CASE ReaderFault \/ InfoDone \/ NeedArch \/ DisassembleBinary \/ DisassembleFile
  <2>1. pc \in {"info", "disassemble"} /\ pc' \in PFinal \cup {"decode"}
    BY <1>3 DEF ReaderFault, AtOption, InfoDone, NeedArch, DisassembleBinary, DisassembleFile,
                Return, CallDecode, PFinal
  <2> QED
    BY <2>1 DEF PartsLeft, PFinal
<1>4. CASE Decode
  <2>1. pc = "decode" /\ pc' = "decode" /\ DLeft' < DLeft
    BY <1>4, NextLowersDLeft DEF Decode, mvars, PInv
  <2> QED
    BY <2>1 DEF PartsLeft, PartLeft, PFinal
<1>5. CASE DecodeReturns
  <2>1. pc = "decode" /\ pc' = "exit"
    BY <1>5 DEF DecodeReturns, Return
  <2> QED
    BY <2>1 DEF PartsLeft, PFinal
<1> QED
  BY <1>1, <1>2, <1>3, <1>4, <1>5 DEF PStep, OwnStep

\* main (main.c:233-283) comes to its end on every file and command line: with
\* every step the parts that are left, or what is left of this one, go down.
THEOREM PdasmApproachesEnd ==
    PSpec => /\ [](PartsLeft \in Nat /\ PartLeft \in Nat)
             /\ [][PartsLeft' < PartsLeft \/ (PartsLeft' = PartsLeft /\ PartLeft' < PartLeft)]_pvars
<1>1. PInv /\ [PNext]_pvars =>
          [PartsLeft' < PartsLeft \/ (PartsLeft' = PartsLeft /\ PartLeft' < PartLeft)]_pvars
  BY StepLowersParts DEF PNext
<1> QED
  BY InitPInv, NextPInv, PartsInNat, <1>1, PTL DEF PSpec
-----------------------------------------------------------------------------
(* The program, with decode_x86 byte by byte. *)

\* Before decode is called decode_x86 is as on entry.
WInv == PInv /\ XInv /\ (pc \notin {"decode", "exit"} => XEntry)

LEMMA InitWInv == WInit => WInv
<1> SUFFICES ASSUME WInit PROVE WInv
  OBVIOUS
<1>1. PInv /\ XEntry
  BY InitPInv DEF WInit
<1>2. XInv
  <2>1. DInv
    BY <1>1 DEF PInv
  <2>2. XShape
    BY <1>1 DEF XEntry, XShape, XPlaces, ZeroInst
  <2> QED
    BY <1>1, <2>1, <2>2 DEF XEntry, XInv, InLoop, Parsing, LastText, InstructionBounded, OwnPrefixes
<1> QED
  BY <1>1, <1>2 DEF WInv

\* A step of main leaves decode alone, or calls it.
LEMMA OwnStepCalls ==
    OwnStep => \/ UNCHANGED dvars /\ pc' # "decode" /\ pc # "exit" /\ (pc = "decode" => pc' = "exit")
               \/ pc = "disassemble" /\ pc' = "decode"
BY DEF OwnStep, Usage, BadArguments, Help, MessageFault, ReadFails, ReadEmpty, ReadFile, SkipNext,
       ShowNext, ReaderFault, InfoDone, NeedArch, DisassembleBinary, DisassembleFile, DecodeReturns,
       AtOption, Return, CallDecode

LEMMA MainRunsKeepsWInv == WInv /\ MainRuns => WInv'
<1> SUFFICES ASSUME WInv, MainRuns PROVE WInv'
  OBVIOUS
<1>1. PInv /\ XInv /\ OwnStep /\ UNCHANGED xvars /\ PInv'
  BY NextPInv DEF WInv, MainRuns, PNext, PStep
<1>2. CASE UNCHANGED dvars /\ pc' # "decode" /\ pc # "exit" /\ (pc = "decode" => pc' = "exit")
  <2>1. XInv'
    BY <1>1, <1>2, NextXInv DEF dxvars
  <2>2. pc' \notin {"decode", "exit"} => XEntry'
    BY <1>1, <1>2 DEF WInv, XEntry, xvars
  <2> QED
    BY <1>1, <2>1, <2>2 DEF WInv
<1>3. CASE pc = "disassemble" /\ pc' = "decode"
  <2>1. XEntry /\ UNCHANGED <<xpc, pos, inst, opcode, text, op_at>> /\ DInv'
    BY <1>1, <1>3 DEF WInv, PInv, xvars
  <2>2. xpc' = "idle" /\ pos' = 0 /\ inst' = ZeroInst /\ opcode' = 0 /\ text' = 0 /\ op_at' = 0
    BY <2>1 DEF XEntry
  <2>3. XShape'
    BY <2>2 DEF XShape, XPlaces, ZeroInst
  <2> QED
    BY <1>1, <1>3, <2>1, <2>2, <2>3
    DEF WInv, XInv, InLoop, Parsing, LastText, InstructionBounded, OwnPrefixes
<1> QED
  BY <1>1, <1>2, <1>3, OwnStepCalls

\* A step of decode is one of the listing loop, or none.
LEMMA DecodeRunsIsStep ==
    ASSUME WInv, DecodeRuns
    PROVE  XInv' /\ UNCHANGED mvars /\ (Decode \/ UNCHANGED dvars)
<1>1. XInv' /\ [DNext]_dvars
  BY NextXInv DEF WInv, DecodeRuns, XNext
<1> QED
  BY <1>1 DEF DecodeRuns, Decode, DNext

LEMMA WholeStepIsStep == WInv /\ [WNext]_wvars => WInv' /\ [PNext]_pvars
<1> SUFFICES ASSUME WInv, [WNext]_wvars PROVE WInv' /\ [PNext]_pvars
  OBVIOUS
<1>1. CASE MainRuns
  BY <1>1, MainRunsKeepsWInv DEF MainRuns, PNext, PStep
<1>2. CASE DecodeRuns
  <2>1. [PNext]_pvars
    BY <1>2, DecodeRunsIsStep DEF PNext, PStep, pvars
  <2>2. pc' = "decode"
    BY <1>2, DecodeRunsIsStep DEF DecodeRuns, mvars
  <2> QED
    BY <1>2, <2>1, <2>2, DecodeRunsIsStep, NextPInv DEF WInv
<1>3. CASE UNCHANGED wvars
  <2>1. UNCHANGED pvars /\ UNCHANGED dxvars /\ UNCHANGED <<pc, xpc, pos, inst, opcode, text, op_at>>
    BY <1>3 DEF wvars, pvars, mvars, dxvars, xvars
  <2>2. PInv' /\ XInv'
    BY <2>1, NextPInv, NextXInv DEF WInv
  <2> QED
    BY <2>1, <2>2 DEF WInv, XEntry
<1> QED
  BY <1>1, <1>2, <1>3 DEF WNext, WStep

\* PDASM with its x86 decoder read byte by byte does what Pdasm says, which takes
\* an instruction for one step of some length (main.c:179-283, decoder_x86.c): all
\* that is proved of Pdasm holds of it.
THEOREM ImplementsPdasm == WSpec => Program
<1>1. WInit => PInit
  BY DEF WInit
<1> QED
  BY InitWInv, WholeStepIsStep, <1>1, PTL DEF WSpec, Program, PSpec

\* What is proved of decode_x86 on its own holds of the one main calls, on whatever
\* section it is given (main.c:265, 274).
THEOREM DecoderInPdasm ==
    WSpec => [](XTypeOK /\ InstructionBounded /\ OwnPrefixes /\ ShownWhole)
<1>1. WInv => XTypeOK /\ InstructionBounded /\ OwnPrefixes /\ ShownWhole
  BY LastTextFits DEF WInv, XInv, XTypeOK, DInv
<1> QED
  BY InitWInv, WholeStepIsStep, <1>1, PTL DEF WSpec

\* What main, its listing loop and decode_x86 have left, in this order, goes down.
WholeLowers == \/ PartsLeft' < PartsLeft
               \/ PartsLeft' = PartsLeft /\ PartLeft' < PartLeft
               \/ PartsLeft' = PartsLeft /\ PartLeft' = PartLeft
                  /\ pc = "decode" /\ dpc = "loop" /\ XLeft' < XLeft

LEMMA NextLowersWhole == WInv /\ [WNext]_wvars => [WholeLowers]_wvars
<1> SUFFICES ASSUME WInv, WStep PROVE WholeLowers
  BY DEF WNext
<1>1. CASE MainRuns
  BY <1>1, StepLowersParts DEF MainRuns, PStep, WInv, WholeLowers
<1>2. CASE DecodeRuns
  <2>1. pc = "decode" /\ pc' = "decode" /\ XStep
    BY <1>2 DEF DecodeRuns, mvars
  <2>2. PartsLeft' = PartsLeft /\ PartLeft = DLeft /\ PartLeft' = DLeft'
    BY <2>1 DEF PartsLeft, PartLeft, PFinal
  <2>3. DLeft' < DLeft \/ (DLeft' = DLeft /\ dpc = "loop" /\ XLeft' < XLeft)
    BY <2>1, StepLowersXLeft DEF WInv
  <2> QED
    BY <2>1, <2>2, <2>3 DEF WholeLowers
<1> QED
  BY <1>1, <1>2 DEF WStep

\* The whole of PDASM comes to its end, or dies on the way, on every file whose
\* instructions have a bounded number of prefixes (main.c:218-283,
\* decoder_x86.c:303-478): with every step less is left.
THEOREM WholeApproachesEnd ==
    WSpec => /\ []( /\ PartsLeft \in Nat /\ PartLeft \in Nat
                    /\ pc = "decode" /\ dpc = "loop" => XLeft \in Nat )
             /\ [][WholeLowers]_wvars
<1>1. WInv => PartsLeft \in Nat /\ PartLeft \in Nat /\ (pc = "decode" /\ dpc = "loop" => XLeft \in Nat)
  BY PartsInNat, XLeftInNat DEF WInv
<1> QED
  BY InitWInv, WholeStepIsStep, NextLowersWhole, <1>1, PTL DEF WSpec
=============================================================================
