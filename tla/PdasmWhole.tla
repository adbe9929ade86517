----------------------------- MODULE PdasmWhole -----------------------------
(***************************************************************************)
(* The PDASM program: the command line and the reports of Pdasm, with the  *)
(* decode that is called at the end of disassemble (main.c:265, 274) byte  *)
(* by byte, as in PdasmX86, in the place of the abstract listing loop.     *)
(***************************************************************************)
EXTENDS Pdasm, PdasmX86

wvars == <<pvars, xvars>>

WInit == PInit /\ XEntry

MainRuns   == OwnStep /\ UNCHANGED xvars
DecodeRuns == pc = "decode" /\ XStep /\ UNCHANGED mvars

WStep == MainRuns \/ DecodeRuns
WNext == WStep \/ (Ended /\ UNCHANGED wvars)

WSpec     == WInit /\ [][WNext]_wvars
WFairSpec == WSpec /\ WF_wvars(WStep)       \* one thread, never blocked

-----------------------------------------------------------------------------
\* Seen from main, whose listing loop asks a decoder for one instruction at a
\* time (main.c:193-212), the decoder is a step: everything Pdasm says of a
\* command line and a file holds of the program.
Program == PSpec
=============================================================================
