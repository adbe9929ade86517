---------------------------- MODULE MCPVCpuHost ----------------------------
(* NULL, G0 and SP, registers of two bits, so that an addition can wrap. *)
EXTENDS PVCpuHost

HostRegs == {0, 1, 34}
=============================================================================
