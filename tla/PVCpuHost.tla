----------------------------- MODULE PVCpuHost -----------------------------
(***************************************************************************)
(* What the host does with the code op_add emits (PVCpu/src/isa.c:16-61):  *)
(* the emitted bytes, read as the x86-64 instructions they encode and run  *)
(* on a register file.  The code is whole here; PVCpuJit says when it is.  *)
(*                                                                         *)
(* pvcpu_run starts from a register file of zeroes, in which an addition   *)
(* cannot be told from no operation: the handler is therefore examined on  *)
(* every register file, which is what it will be given as soon as another  *)
(* handler can write a register.                                           *)
(***************************************************************************)
EXTENDS PVCpuIsa

CONSTANTS
    Regs,           \* the register numbers that occur; NULL is register 0
    Width,          \* bits of a register (64 in the code)
    MaxAdds         \* bound: the longest program

ASSUME RegsAssumption  == Regs \subseteq 0..39 /\ 0 \in Regs
ASSUME WidthAssumption == Width \in Nat \ {0} /\ MaxAdds \in Nat

Modulus == 2^Width
Values  == 0..Modulus - 1
Adds    == UNION {[1..m -> [src : Regs, dest : Regs]] : m \in 0..MaxAdds}

RAX == 0    \* the numbers op_add passes as host_reg
RBX == 3

VARIABLES
    prog,           \* the register additions that were translated
    entry,          \* the registers when the code is entered
    regs,           \* cpu_state.regs
    host,           \* rax and rbx
    ip              \* the host instruction to run

hvars == <<prog, entry, regs, host, ip>>

\* mov host, [rdi + 8 * reg] and mov [rdi + 8 * reg], host
load_pvcpu_reg(h, r)  == [op |-> "load",  host |-> h, reg |-> r]
store_pvcpu_reg(r, h) == [op |-> "store", host |-> h, reg |-> r]

AddIntoRBX == [op |-> "add", into |-> RBX, from |-> RAX]
\* 48 01 D8: the r/m field is the destination, so this is add rax, rbx.
AddHost    == [op |-> "add", into |-> RAX, from |-> RBX]

\* What op_add emits for one instruction.
OpAddStoresSource(inst) == <<load_pvcpu_reg(RAX, inst.src), load_pvcpu_reg(RBX, inst.dest),
                             AddHost, store_pvcpu_reg(inst.src, RBX)>>
op_add(inst) == <<load_pvcpu_reg(RAX, inst.src), load_pvcpu_reg(RBX, inst.dest),
                  AddHost, store_pvcpu_reg(inst.dest, RBX)>>

\* The four host instructions of every addition, one addition after the other.
Code == [p \in 1..(4 * Len(prog)) |-> op_add(prog[(p - 1) \div 4 + 1])[((p - 1) % 4) + 1]]

HInit ==
    /\ prog \in Adds
    /\ entry \in {r \in [Regs -> Values] : r[0] = 0}
    /\ regs = entry
    /\ host \in [{RAX, RBX} -> {0, Modulus - 1}]     \* whatever the caller left
    /\ ip = 1

Running == ip <= 4 * Len(prog)

Load ==
    /\ Running /\ Code[ip].op = "load"
    /\ host' = [host EXCEPT ![Code[ip].host] = regs[Code[ip].reg]]
    /\ ip' = ip + 1 /\ UNCHANGED <<prog, entry, regs>>

Add ==
    /\ Running /\ Code[ip].op = "add"
    /\ host' = [host EXCEPT ![Code[ip].into] = (@ + host[Code[ip].from]) % Modulus]
    /\ ip' = ip + 1 /\ UNCHANGED <<prog, entry, regs>>

Store ==
    /\ Running /\ Code[ip].op = "store"
    /\ regs' = [regs EXCEPT ![Code[ip].reg] = host[Code[ip].host]]
    /\ ip' = ip + 1 /\ UNCHANGED <<prog, entry, host>>

Ret == ~Running /\ UNCHANGED hvars

HNext == Load \/ Add \/ Store \/ Ret
HSpec == HInit /\ [][HNext]_hvars

-----------------------------------------------------------------------------
\* The register NULL (ISA.md:62-63) reads as zero at every point of the run.
\* Nothing in load_pvcpu_reg or store_pvcpu_reg treats it apart: it stays zero
\* because op_add stores back what it loaded.
NullStaysZero == regs[0] = 0

\* A register that no addition names as its destination keeps its value.
OnlyDestinationsChange ==
    \A r \in Regs : (\A m \in 1..Len(prog) : prog[m].dest # r) => regs[r] = entry[r]

-----------------------------------------------------------------------------
\* The registers after the first m additions: "add [dest], [src]" (isa.c:49),
\* writes to NULL ignored.
After[m \in 0..MaxAdds] ==
    IF m = 0 THEN entry
    ELSE LET before == After[m - 1]
             inst   == prog[m]
         IN  IF inst.dest = 0 THEN before
             ELSE [before EXCEPT ![inst.dest] = (@ + before[inst.src]) % Modulus]

\* The translated program leaves the registers the additions ask for.
AddsIntoDestination == ~Running => regs = After[Len(prog)]
=============================================================================
