---------------------------- MODULE PdasmDecode ----------------------------
(***************************************************************************)
(* The listing loop of PDASM: decode (tools/PDASM/src/main.c) with         *)
(* decode_pvcpu (decoder_pvcpu.c), and decode_x86 (decoder_x86.c) as far   *)
(* as the loop sees it, an instruction of some length.  One action prints  *)
(* one line.                                                               *)
(*                                                                         *)
(* Each byte is decoded once, so its value is chosen when it is decoded; a *)
(* byte past the end of the file has any value, or the read kills the      *)
(* process.  size_t wraps at Modulus, except `off`: the process would have *)
(* read its whole address space before that.                               *)
(***************************************************************************)
EXTENDS PVCpuIsa, FiniteSets

CONSTANTS
    Modulus,                                \* 2^64, scaled down
    Sizes, Offsets, CodeSizes, Addresses,   \* the values of decode's arguments
    X86Lengths                              \* the lengths decode_x86 returns

ASSUME ModulusAssumption   == Modulus \in Nat \ {0}
ASSUME ArgumentsAssumption == Sizes \cup Offsets \cup CodeSizes \cup Addresses
                                  \subseteq 0..(Modulus - 1)
ASSUME LengthsAssumption == X86Lengths \subseteq Nat \ {0} /\ IsFiniteSet(X86Lengths)

X86Archs      == {"x86", "x64"}
Architectures == X86Archs \cup {"PVCpu", "PVCpuC", "unknown"}

VARIABLES
    arch, size, svaddr, soff, code_size,    \* the arguments
    dpc,                    \* where decode is
    off, last_off, vaddr,   \* as in the code
    out,                    \* the text buffer before a line: "indeterminate" or "empty"
    line,                   \* history: the line printed last
    overread,               \* history: something past the end of the file was read
    loader_at, differ,      \* history: where pvcpu would be in the section after the
                            \* same words, and whether one was read differently
    said                    \* the message instead of a listing

args  == <<arch, size, svaddr, soff, code_size>>
dvars == <<args, dpc, off, last_off, vaddr, out, line, overread, loader_at, differ, said>>

NoLine == [addr |-> 0, at |-> 0, len |-> 0, prefix |-> "none"]

DFinal == {"done", "crashed", "corrupt"}

\* The state of the loop when decode is entered.
Entry == /\ dpc = "start" /\ off = soff /\ last_off = soff /\ vaddr = svaddr
         /\ out = "indeterminate" /\ line = NoLine /\ overread = FALSE
         /\ loader_at = 0 /\ differ = FALSE /\ said = "nothing"

DInit ==
    /\ arch \in Architectures /\ size \in Sizes /\ svaddr \in Addresses
    /\ soff \in Offsets /\ code_size \in CodeSizes
    /\ Entry

Refuse(message) ==
    /\ dpc' = "done" /\ said' = message
    /\ UNCHANGED <<args, off, last_off, vaddr, out, line, overread, loader_at, differ>>

Truncated == dpc = "start" /\ soff > size /\ Refuse("truncated")

Unsupported ==
    /\ dpc = "start" /\ soff <= size /\ arch \notin X86Archs \cup {"PVCpu"}
    /\ Refuse("unsupported")

Supported ==
    /\ dpc = "start" /\ soff <= size /\ arch \in X86Archs \cup {"PVCpu"}
    /\ dpc' = "loop"
    /\ UNCHANGED <<args, off, last_off, vaddr, out, line, overread, loader_at, differ, said>>

End == (code_size + soff) % Modulus

InSectionInclusive == off <= End
InSectionWhole     == off + 4 <= End
InSection          == off < End

-----------------------------------------------------------------------------
\* decode_pvcpu: the word, and eight bytes for each of its extensions.
LengthOfFlags(flags) == 4 + 8 * Cardinality(flags \ {"valid"})
Length(flags) ==
    IF "valid" \notin flags THEN 4 ELSE 4 + 8 * Cardinality(flags \ {"valid"})

\* What pvcpu_unpack_inst would have returned for the same word with `left` bytes of
\* the section to come: 0 for a word, a value or a mask that is cut short.
LoaderNeeds(flags) ==
    IF "valid" \in flags /\ flags \cap {"imm", "disp64"} # {} THEN 12 ELSE 4
LoaderLength(flags, left) ==
    IF \/ LoaderNeeds(flags) > left
       \/ {"valid", "ext"} \subseteq flags /\ left - LoaderNeeds(flags) \in 1..7
    THEN 0 ELSE LoaderNeeds(flags)

\* The two programs read these words differently: pvcpu leaves the mask to be
\* unpacked again, and has one value where PDASM reads two.
ReadDifferently(flags) ==
    "valid" \in flags /\ ("ext" \in flags \/ {"imm", "disp64"} \subseteq flags)

\* The end of the loop body: print, move the address, clear the buffer.
OutKept == out
OutAfterLine == "empty"

VaddrByWord(len) == (vaddr + 4) % Modulus
NextVaddr(len)   == (vaddr + len) % Modulus

NextOffPVCpuOnly(len) == IF arch = "PVCpu" THEN off + len ELSE off
NextOff(len)          == off + len

PrintLine(len, prefix) ==
    /\ off' = NextOff(len)
    /\ line' = [addr |-> vaddr, at |-> off, len |-> len, prefix |-> prefix]
    /\ vaddr' = NextVaddr(off' - last_off) /\ last_off' = off'
    /\ out' = OutAfterLine
    /\ overread' = (overread \/ off + len > size)
    /\ UNCHANGED <<args, dpc, said>>

\* decode_x86 clears the buffer itself.
LineX86 ==
    /\ dpc = "loop" /\ InSection /\ arch \in X86Archs
    /\ \E len \in X86Lengths : PrintLine(len, "empty")
    /\ UNCHANGED <<loader_at, differ>>

\* A valid instruction is appended to what the buffer holds, an invalid one
\* overwrites it.
LinePVCpu ==
    /\ dpc = "loop" /\ InSection /\ arch = "PVCpu"
    /\ \E flags \in SUBSET Flag :
          /\ PrintLine(Length(flags), IF "valid" \in flags THEN out ELSE "empty")
          /\ loader_at' = loader_at + LoaderLength(flags, code_size - loader_at)
          /\ differ' = (differ \/ ReadDifferently(flags))

\* strlen of a buffer nobody has written may leave it, and the text then goes
\* outside.
OutsideBuffer ==
    /\ dpc = "loop" /\ InSection /\ arch = "PVCpu" /\ out = "indeterminate"
    /\ dpc' = "corrupt"
    /\ UNCHANGED <<args, off, last_off, vaddr, out, line, overread, loader_at, differ, said>>

Lengths == IF arch = "PVCpu" THEN {Length(flags) : flags \in SUBSET Flag} ELSE X86Lengths

\* The read past the end of the file kills the process.
ReadFault ==
    /\ dpc = "loop" /\ InSection /\ \E len \in Lengths : off + len > size
    /\ dpc' = "crashed"
    /\ UNCHANGED <<args, off, last_off, vaddr, out, line, overread, loader_at, differ, said>>

EndOfSection ==
    /\ dpc = "loop" /\ ~InSection
    /\ dpc' = "done"
    /\ UNCHANGED <<args, off, last_off, vaddr, out, line, overread, loader_at, differ, said>>

DStep == \/ Truncated \/ Unsupported \/ Supported
         \/ LineX86 \/ LinePVCpu \/ OutsideBuffer \/ ReadFault \/ EndOfSection
DNext == DStep \/ (dpc \in DFinal /\ UNCHANGED dvars)

DSpec     == DInit /\ [][DNext]_dvars
DFairSpec == DSpec /\ WF_dvars(DStep)       \* one thread, never blocked

-----------------------------------------------------------------------------
(* What the listing guarantees. *)

Line == [addr : 0..(Modulus - 1), at : Nat, len : Nat \ {0},
         prefix : {"indeterminate", "empty"}]

\* The shape of the state; no line is empty.
DTypeOK ==
    /\ arch \in Architectures /\ size \in Sizes /\ svaddr \in Addresses
    /\ soff \in Offsets /\ code_size \in CodeSizes
    /\ dpc \in DFinal \cup {"start", "loop"}
    /\ off \in Nat /\ last_off \in Nat /\ vaddr \in 0..(Modulus - 1)
    /\ out \in {"indeterminate", "empty"}
    /\ line \in Line \cup {NoLine}
    /\ overread \in BOOLEAN /\ loader_at \in Nat /\ differ \in BOOLEAN
    /\ said \in {"nothing", "truncated", "unsupported"}

\* The lines tile the section (main.c:194-199, 203-209): the first one starts at
\* its offset, every other one where the line before it ended, each before its
\* end; and the address a line shows is the section's plus the distance.
LinesTile ==
    [][ line' # line =>
          /\ line'.at = IF line = NoLine THEN soff ELSE line.at + line.len
          /\ line'.at < End
          /\ line'.addr = (svaddr + (line'.at - soff)) % Modulus ]_dvars

\* A listing that ends has reached the end of the section, whatever the lengths
\* of its instructions (main.c:194, 203); a section whose end wraps is not listed.
ListedToTheEnd ==
    dpc = "done" /\ said = "nothing" /\ code_size > 0 /\ soff + code_size < Modulus =>
        line.at + line.len >= soff + code_size

\* Only the first line of a PVCpu listing can start with what the stack held
\* (the buffer of main.c:188): every later one starts clean.
OnlyFirstLineIndeterminate ==
    line.prefix = "indeterminate" => line.at = soff /\ arch = "PVCpu"

\* As long as no word is read differently, PDASM (decoder_pvcpu.c:135-158) shows an
\* instruction at exactly the offsets of the section where pvcpu unpacks one: after
\* every line both stand at the same place, and when a line leaves the section it is
\* the cut instruction at which pvcpu stands still (pvcpu-isa.h:90, 104, 108).
AgreesWithLoader ==
    arch = "PVCpu" /\ ~differ =>
        loader_at = (IF off - soff <= code_size THEN off ELSE line.at) - soff

\* In a file that goes on behind the section for the rest of the longest
\* instruction, nothing past the end is read (the loops of main.c:194 and 203
\* test only where an instruction starts).
NoOverread ==
    (\A len \in Lengths : soff + code_size + len <= size + 1) => ~overread /\ dpc # "crashed"

\* decode ends.
DecodeEnds == <>(dpc \in DFinal)
=============================================================================
