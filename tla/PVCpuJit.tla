------------------------------ MODULE PVCpuJit ------------------------------
(***************************************************************************)
(* pvcpu_run (PVCpu/src/isa.c) and the emitters it writes host code with   *)
(* (PVCpu/src/helpers.c): a fixed buffer, one handler call per             *)
(* instruction, each handler a run of emit calls that drop what does not   *)
(* fit.  What the emitted bytes are is PVCpuHost's subject; here a piece   *)
(* of code is its length, because that is all the buffer looks at.         *)
(*                                                                         *)
(* The module checks pvcpu_run for the arguments its prototype admits      *)
(* (pvcpu-isa.h:135).  main passes at most one instruction today, an       *)
(* instsize of 128 and a run_code of 0: PVCpu puts the two together.       *)
(***************************************************************************)
EXTENDS PVCpuIsa, FiniteSets

CONSTANTS
    Insts,          \* the instructions a program may hold
    MaxProg,        \* bound: the longest program
    Capacities      \* the values of instsize

ASSUME InstsAssumption == \A inst \in Insts : inst.opcode \in Nat /\ inst.mode \in Nat
ASSUME SizesAssumption == MaxProg \in Nat /\ Capacities \subseteq Nat

Programs == UNION {[1..n -> Insts] : n \in 0..MaxProg}

VARIABLES
    prog, capacity, run_code,   \* the arguments: insts and inst_num, instsize, run_code
    jpc,                        \* where pvcpu_run is
    n,                          \* the instruction being translated
    k,                          \* the next piece of op_add
    size,                       \* buf.size
    asked,                      \* history: the bytes the emit calls were given
    blocks,                     \* which of buf.data and cpu_state.memory are allocated
    said                        \* what was printed: "nothing", "error", "completed"

jvars == <<prog, capacity, run_code, jpc, n, k, size, asked, blocks, said>>

\* The emit calls of op_add in REG_REG mode: two loads, the addition, a store.
AddPiecesWide == <<1, 1, 1, 8,  1, 1, 1, 8,  1, 1, 1,  1, 1, 1, 8>>
AddPieces     == <<1, 1, 1, 4,  1, 1, 1, 4,  1, 1, 1,  1, 1, 1, 4>>
AddLength     == 24

\* emit_u8, emit_u16, emit_u32 and emit_u64, for a piece of len bytes.
FitsByOne(len) == size + len <= capacity + 1
Fits(len) == size + len <= capacity
Emit(len) == /\ size' = IF Fits(len) THEN size + len ELSE size
             /\ asked' = asked + len

JInit ==
    /\ prog \in Programs /\ capacity \in Capacities /\ run_code \in {0, 1}
    /\ jpc = "start" /\ n = 1 /\ k = 1 /\ size = 0 /\ asked = 0
    /\ blocks = {} /\ said = "nothing"

\* jit_init; data is null when malloc fails.
InitBuffer ==
    /\ jpc = "start"
    /\ \/ jpc' = "memory" /\ blocks' = {"data"} /\ UNCHANGED said
       \/ jpc' = "returned" /\ said' = "error" /\ UNCHANGED blocks
    /\ UNCHANGED <<prog, capacity, run_code, n, k, size, asked>>

\* What is still allocated after the memory of the machine was refused.
KeptWhenRefusedLeak == {"data"}
KeptWhenRefused     == {}

AllocateMemory ==
    /\ jpc = "memory"
    /\ \/ jpc' = "loop" /\ blocks' = blocks \cup {"memory"} /\ UNCHANGED said
       \/ jpc' = "returned" /\ said' = "error" /\ blocks' = KeptWhenRefused
    /\ UNCHANGED <<prog, capacity, run_code, n, k, size, asked>>

\* The i++ of the translation loop, after a handler and after a `continue`.
NextInstStuck == n
NextInstTwice == n + 2
NextInst == n + 1

SkipOutOfRange ==
    /\ jpc = "loop" /\ n <= Len(prog) /\ prog[n].opcode > 4096
    /\ n' = NextInst
    /\ UNCHANGED <<prog, capacity, run_code, jpc, k, size, asked, blocks, said>>

\* op_add; it does nothing in the other modes.
CallHandler ==
    /\ jpc = "loop" /\ n <= Len(prog) /\ prog[n].opcode = OP_ADD
    /\ jpc' = IF prog[n].mode = REG_REG THEN "emit" ELSE "check"
    /\ k' = 1
    /\ UNCHANGED <<prog, capacity, run_code, n, size, asked, blocks, said>>

\* The entries 1 to 4095 are null, and there is no entry 4096.
CallNoHandler ==
    /\ jpc = "loop" /\ n <= Len(prog) /\ prog[n].opcode # OP_ADD /\ prog[n].opcode <= 4096
    /\ jpc' = "crashed"
    /\ UNCHANGED <<prog, capacity, run_code, n, k, size, asked, blocks, said>>

EmitPiece ==
    /\ jpc = "emit"
    /\ Emit(AddPieces[k])
    /\ k' = k + 1
    /\ jpc' = IF k = Len(AddPieces) THEN "check" ELSE "emit"
    /\ UNCHANGED <<prog, capacity, run_code, n, blocks, said>>

\* The test after each handler.
CheckBuffer ==
    /\ jpc = "check"
    /\ IF size > capacity
       THEN jpc' = "returned" /\ said' = "error" /\ blocks' = {} /\ UNCHANGED n
       ELSE jpc' = "loop" /\ n' = NextInst /\ UNCHANGED <<said, blocks>>
    /\ UNCHANGED <<prog, capacity, run_code, k, size, asked>>

EmitRet ==
    /\ jpc = "loop" /\ n > Len(prog)
    /\ Emit(1)
    /\ jpc' = "finish"
    /\ UNCHANGED <<prog, capacity, run_code, n, k, blocks, said>>

\* Every emitted piece is there.
Complete == size = asked

\* Call the code or dump it, then release both blocks.  Running code that has
\* lost a piece, its ret for one, may do anything.
Finish ==
    /\ jpc = "finish"
    /\ IF run_code = 1
       THEN /\ jpc' = IF Complete THEN "returned" ELSE "corrupt"
            /\ UNCHANGED said
       ELSE jpc' = "returned" /\ said' = "completed"
    /\ blocks' = {}
    /\ UNCHANGED <<prog, capacity, run_code, n, k, size, asked>>

JStep == \/ InitBuffer \/ AllocateMemory
         \/ SkipOutOfRange \/ CallHandler \/ CallNoHandler
         \/ EmitPiece \/ CheckBuffer \/ EmitRet \/ Finish

JFinal == {"returned", "crashed", "corrupt"}
JNext  == JStep \/ (jpc \in JFinal /\ UNCHANGED jvars)

JSpec     == JInit /\ [][JNext]_jvars
JFairSpec == JSpec /\ WF_jvars(JStep)      \* one thread, never blocked

-----------------------------------------------------------------------------
(* What pvcpu_run guarantees. *)

\* The shape of the state; the pieces of one handler are emitted while its
\* instruction is the current one.
JTypeOK ==
    /\ prog \in Programs /\ capacity \in Capacities /\ run_code \in {0, 1}
    /\ jpc \in JFinal \cup {"start", "memory", "loop", "emit", "check", "finish"}
    /\ n \in 1..Len(prog) + 1
    /\ jpc \in {"emit", "check"} => n <= Len(prog)
    /\ k \in 1..Len(AddPieces) + 1
    /\ jpc = "emit" => k <= Len(AddPieces)
    /\ size \in Nat /\ asked \in Nat
    /\ blocks \subseteq {"data", "memory"}
    /\ said \in {"nothing", "error", "completed"}

\* No emit writes past buf.data + capacity (helpers.c:11, 17, 23, 29), so the
\* overflow test of isa.c:94 can never succeed.
BufferWithinCapacity == size <= capacity

Translated(p) == {m \in 1..Len(p) : p[m].opcode = OP_ADD /\ p[m].mode = REG_REG}

\* A buffer with 24 bytes for every register addition and one for the ret
\* holds the whole program when translation ends, and nothing but it.
RoomMeansComplete ==
    jpc = "finish" /\ AddLength * Cardinality(Translated(prog)) + 1 <= capacity =>
        /\ Complete
        /\ size = AddLength * Cardinality(Translated(prog)) + 1

\* Every return (isa.c:79, 85, 98, 120) has released the code buffer and the
\* memory of the machine.
ReturnReleasesBoth == jpc = "returned" => blocks = {}

\* pvcpu_run comes back when every opcode has a handler or is out of range and
\* the code is only dumped.
ReturnsWithoutRunning ==
    (run_code = 0 /\ \A m \in 1..Len(prog) : prog[m].opcode \notin 1..4096)
        => <>(jpc = "returned")

-----------------------------------------------------------------------------
(* What its messages and comments say, and the code does not do. *)

\* "Not enough memory to store instructions" (isa.c:95): a program that does
\* not fit is reported, and not announced as completed.
TooSmallIsReported == said = "completed" => Complete
=============================================================================
