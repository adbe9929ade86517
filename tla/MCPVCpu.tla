------------------------------ MODULE MCPVCpu ------------------------------
(***************************************************************************)
(* The whole program on files of up to six words: six is where a loader    *)
(* that kept every instruction would overflow main's 128-byte buffer.      *)
(***************************************************************************)
EXTENDS PVCpu

Add    == [opcode |-> OP_ADD, mode |-> REG_REG, src |-> 3, dest |-> 1, flags |-> {"valid"}]
Sub    == [Add EXCEPT !.opcode = 1]
AddImm == [Add EXCEPT !.mode = 2, !.flags = {"valid", "imm"}]
AddExt == [Add EXCEPT !.flags = {"valid", "ext"}]

MainWords    == {Add, Sub, AddImm, AddExt}
TestWords    == {TestAdd}
MainTails    == {0, 1}
MainCommands == {NoCommand, "help", "run", "run:myprogram", "check"}
=============================================================================
