----------------------------- MODULE MCPdasmX86 -----------------------------
(***************************************************************************)
(* Sections of up to 13 bytes, with exactly the room they need behind      *)
(* them, too little or none, and one whose end wraps. The bytes are        *)
(* prefixes, the two-byte mark, opcodes with every kind of operand, and as *)
(* ModRM and SIB bytes each mod with and without SIB; the last ones are    *)
(* the known bytes of a test program.                                      *)
(***************************************************************************)
EXTENDS PdasmX86

DecodeSizes     == {8, 33, 48}
DecodeOffsets   == {8, 41}
DecodeCodeSizes == {0, 13, 60}
DecodeAddresses == {60}
DecodeLengths   == 1..(MaxPrefixes + 11)

\* 04 05 0F 41 44 48 66 84 AF B8 C7
DecodeBytes == {4, 5, 15, 65, 68, 72, 102, 132, 175, 184, 199}
NothingKnown == <<>>

\* .text of tools/PDASM/tests/x64.o.
ProgramBytes == <<72, 141, 5, 0, 0, 0, 0, 72, 187, 13, 0, 0, 0, 0, 0, 0, 0, 232, 0,
                0, 0, 0, 233, 0, 0, 0, 0, 72, 137, 199, 72, 184, 60, 0, 0, 0, 0, 0,
                0, 0, 15, 5, 72, 137, 198, 72, 137, 218, 233, 0, 0, 0, 0, 72, 184,
                1, 0, 0, 0, 0, 0, 0, 0, 72, 191, 1, 0, 0, 0, 0, 0, 0, 0, 15, 5,
                195>>
ProgramKnown == [p \in 0..(Len(ProgramBytes) - 1) |-> ProgramBytes[p + 1]]
ProgramSize  == {Len(ProgramBytes)}
ProgramStart == {0}
=============================================================================
