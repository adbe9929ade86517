------------------------------ MODULE PVCpuIsa ------------------------------
(***************************************************************************)
(* The PVCpu instruction word, the flags that decide how many bytes follow *)
(* it, and the validator (PVCpu/inc/pvcpu-isa.h, PVCpu/src/validator.c).   *)
(*                                                                         *)
(* A 32-bit word is the record of its five bit fields, and its 4-bit flag  *)
(* field is a set: the packing of the fields into bits is a bijection and  *)
(* no property here is about it.  A 64-bit value that follows a word is    *)
(* the pair <<low, high>> of the two words it is read from, so the same    *)
(* four bytes can be seen as an instruction and as a half of a value,      *)
(* which is what happens to a word the loader does not skip.               *)
(***************************************************************************)
EXTENDS Integers, Sequences

Flag == {"valid", "imm", "disp64", "ext"}      \* bits 0, 1, 2 and 3

WordType == [opcode : 0..4095, mode : 0..15, src : 0..63, dest : 0..63,
             flags : SUBSET Flag]
ValueType == WordType \X WordType

\* What calloc leaves in an instruction slot and in a value slot.
ZeroWord  == [opcode |-> 0, mode |-> 0, src |-> 0, dest |-> 0, flags |-> {}]
ZeroValue == <<ZeroWord, ZeroWord>>

REG_REG == 1
OP_ADD  == 0

FlagBits(f) == (IF "valid"  \in f THEN 1 ELSE 0) + (IF "imm" \in f THEN 2 ELSE 0)
             + (IF "disp64" \in f THEN 4 ELSE 0) + (IF "ext" \in f THEN 8 ELSE 0)

\* The number a word stands for when it is the low half of a value: its fields are
\* at bits 20, 16, 10, 4 and 0.
WordValue(w) == w.opcode * 1048576 + w.mode * 65536 + w.src * 1024 + w.dest * 16
                + FlagBits(w.flags)

\* value > n, for an n that fits in 32 bits.
ExceedsLow(value, n) == WordValue(value[1]) > n
Exceeds(value, n) == value[2] # ZeroWord \/ WordValue(value[1]) > n

\* PVCPU_FLAGS_BP_VALID tested on a 64-bit extended-flags mask.
MaskValid(value) == "valid" \in value[1].flags

\* IMM and DISP64 share one 64-bit value: DISP64 is the else branch.
TakesValue(inst) == "valid" \in inst.flags /\ inst.flags \cap {"imm", "disp64"} # {}
TakesExt(inst)   == "valid" \in inst.flags /\ "ext" \in inst.flags

\* pvcpu_validate_inst, with the vaddr of 0 its only caller passes.
ValidateInst(inst, value, allocated_size) ==
    /\ "valid" \in inst.flags
    /\ inst.opcode <= 4095
    /\ inst.opcode <= 255
    /\ inst.src <= 33 /\ inst.dest <= 33
    /\ "ext" \notin inst.flags
    /\ ~ ( /\ inst.opcode > 255 /\ inst.opcode < 511
           /\ "imm" \in inst.flags
           /\ Exceeds(value, allocated_size) )
    /\ ~ ("disp64" \in inst.flags /\ Exceeds(value, allocated_size))
=============================================================================
