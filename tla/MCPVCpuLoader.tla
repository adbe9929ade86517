--------------------------- MODULE MCPVCpuLoader ---------------------------
(***************************************************************************)
(* Files of up to four words over ten words that between them take every   *)
(* branch of the unpacker and of the validator.                            *)
(***************************************************************************)
EXTENDS PVCpuLoader

Word(op, mode, src, dest, flags) ==
    [opcode |-> op, mode |-> mode, src |-> src, dest |-> dest, flags |-> flags]

Add     == Word(OP_ADD, REG_REG, 3, 1, {"valid"})       \* add %g0, %g2
Sub     == Word(1, REG_REG, 3, 1, {"valid"})            \* no handler
AddSP   == Word(OP_ADD, REG_REG, 34, 1, {"valid"})      \* names SP
AddImm  == Word(OP_ADD, 2, 0, 1, {"valid", "imm"})
AddDisp == Word(OP_ADD, 4, 0, 1, {"valid", "disp64"})
AddExt  == Word(OP_ADD, REG_REG, 3, 1, {"valid", "ext"})
AddBoth == Word(OP_ADD, REG_REG, 3, 1, {"valid", "disp64", "ext"})
Load    == Word(256, 6, 0, 1, {"valid", "imm"})
Two     == Word(0, 0, 0, 0, {"imm"})                    \* not valid; the number 2

LoaderWords == {Add, Sub, AddSP, AddImm, AddDisp, AddExt, AddBoth, Load, ZeroWord, Two}
FewWords    == {Add, AddImm, AddDisp, AddExt, AddBoth, ZeroWord}
LoaderTails == {0, 2}
=============================================================================
