----------------------------- MODULE MCPVCpuJit -----------------------------
(***************************************************************************)
(* Programs of up to three instructions against buffers that end inside a  *)
(* piece, between two pieces, right before and right after the ret, up to  *)
(* one with room for three additions.  MainCapacity is main's own          *)
(* instsize, where five additions and the ret fit and six do not.          *)
(***************************************************************************)
EXTENDS PVCpuJit

RegAdd     == [opcode |-> OP_ADD, mode |-> REG_REG]
ImmAdd     == [opcode |-> OP_ADD, mode |-> 2]
OutOfRange == [opcode |-> 4097, mode |-> REG_REG]
NoHandler  == [opcode |-> 1, mode |-> REG_REG]
Past       == [opcode |-> 4096, mode |-> REG_REG]

JitInsts      == {RegAdd, ImmAdd, OutOfRange, NoHandler, Past}
HandledInsts  == {RegAdd, ImmAdd, OutOfRange}
JitCapacities == {0, 4, 24, 25, 48, 49, 50, 70, 73}
MainCapacity  == {128}
=============================================================================
