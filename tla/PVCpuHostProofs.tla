-------------------------- MODULE PVCpuHostProofs --------------------------
(***************************************************************************)
(* Proofs about PVCpuHost, for every set of registers, every width and     *)
(* every program of register additions: the translated code puts back what *)
(* it loaded, and no register ever changes.                                *)
(***************************************************************************)
EXTENDS PVCpuHost, SequenceTheorems, TLAPS

\* The addition the host is in, and how far it is in it.
Current == prog[(ip - 1) \div 4 + 1]
Phase   == (ip - 1) % 4

HostTypeOK ==
    /\ Len(prog) \in Nat /\ \A m \in 1..Len(prog) : prog[m] \in [src : Regs, dest : Regs]
    /\ entry = [r \in Regs |-> entry[r]] /\ entry[0] = 0
    /\ DOMAIN host = {RAX, RBX}
    /\ ip \in Nat /\ ip >= 1

\* Once it is loaded, rbx holds the destination until it is stored there.
HInv ==
    /\ HostTypeOK
    /\ regs = entry
    /\ Running /\ Phase \in {2, 3} => host[RBX] = regs[Current.dest]

\* What the host is about to do, by how far it is.
LEMMA CodeAt ==
    ASSUME HostTypeOK, Running
    PROVE  /\ Current \in [src : Regs, dest : Regs] /\ Phase \in 0..3
           /\ Code[ip] = CASE Phase = 0 -> load_pvcpu_reg(RAX, Current.src)
                           [] Phase = 1 -> load_pvcpu_reg(RBX, Current.dest)
                           [] Phase = 2 -> AddHost
                           [] Phase = 3 -> store_pvcpu_reg(Current.dest, RBX)
<1>1. /\ ip \in 1..(4 * Len(prog)) /\ Phase \in 0..3
      /\ (ip - 1) \div 4 + 1 \in 1..Len(prog)
  <2>1. ip \in Nat /\ ip >= 1 /\ Len(prog) \in Nat /\ ip <= 4 * Len(prog)
    BY DEF HostTypeOK, Running
  <2>2. ip \in 1..(4 * Len(prog)) /\ (ip - 1) % 4 \in 0..3
    BY <2>1
  <2>3. (ip - 1) \div 4 \in Int /\ 4 * ((ip - 1) \div 4) <= ip - 1
        /\ ip - 1 < 4 * ((ip - 1) \div 4) + 4
    BY <2>1
  <2>4. (ip - 1) \div 4 + 1 \in 1..Len(prog)
    BY <2>1, <2>3
  <2> QED
    BY <2>2, <2>4 DEF Phase
<1>2. Current \in [src : Regs, dest : Regs]
  BY <1>1 DEF HostTypeOK, Current
<1>3. Code[ip] = op_add(Current)[Phase + 1]
  BY <1>1 DEF Code, Current, Phase
<1> HIDE DEF Phase, Current
<1> QED
  BY <1>1, <1>2, <1>3 DEF op_add

\* Counting on by one, in fours.
LEMMA NextInFours ==
    ASSUME NEW i \in Nat
    PROVE  \/ i % 4 = 3 /\ (i + 1) % 4 = 0
           \/ i % 4 \in 0..2 /\ (i + 1) % 4 = (i % 4) + 1 /\ (i + 1) \div 4 = i \div 4
OBVIOUS

\* To the next host instruction: of the same addition, or of the next one.
LEMMA NextPhase ==
    ASSUME HostTypeOK, ip' = ip + 1, prog' = prog
    PROVE  \/ Phase' = Phase + 1 /\ Current' = Current
           \/ Phase = 3 /\ Phase' = 0
<1>1. ip - 1 \in Nat /\ ip' - 1 = (ip - 1) + 1
  BY DEF HostTypeOK
<1> QED
  BY <1>1, NextInFours DEF Phase, Current

LEMMA InitHInv == HInit => HInv
<1> SUFFICES ASSUME HInit PROVE HInv
  OBVIOUS
<1>1. PICK m \in 0..MaxAdds : prog \in [1..m -> [src : Regs, dest : Regs]]
  BY DEF HInit, Adds
<1>2. Len(prog) = m /\ m \in Nat
  BY <1>1, WidthAssumption
<1>3. HostTypeOK
  BY <1>1, <1>2 DEF HInit, HostTypeOK
<1>4. Phase = 0
  BY DEF HInit, Phase
<1> QED
  BY <1>3, <1>4 DEF HInit, HInv

LEMMA NextHInv == HInv /\ [HNext]_hvars => HInv'
<1> SUFFICES ASSUME HInv, [HNext]_hvars PROVE HInv'
  OBVIOUS
<1>0. HostTypeOK /\ regs = entry
  BY DEF HInv
<1> DEFINE d == Current.dest
<1>1. CASE Load
  <2>1. /\ Running /\ Code[ip].op = "load" /\ ip' = ip + 1 /\ UNCHANGED <<prog, entry, regs>>
        /\ host' = [host EXCEPT ![Code[ip].host] = regs[Code[ip].reg]]
    BY <1>1 DEF Load
  <2>2. HostTypeOK'
    BY <1>0, <2>1 DEF HostTypeOK
  <2>3. Phase \in {0, 1}
    BY <1>0, <2>1, CodeAt DEF AddHost, store_pvcpu_reg
  <2>4. Phase = 1 => Code[ip].host = RBX /\ Code[ip].reg = d
    BY <1>0, <2>1, CodeAt DEF load_pvcpu_reg
  <2>5. Phase = 1 => host'[RBX] = regs[d]
    BY <1>0, <2>1, <2>4 DEF HostTypeOK
  <2>6. Phase' \in {2, 3} => host'[RBX] = regs'[Current'.dest]
    BY <1>0, <2>1, <2>3, <2>5, NextPhase
  <2> QED
    BY <1>0, <2>1, <2>2, <2>6 DEF HInv
<1>2. CASE Add
  <2>1. /\ Running /\ Code[ip].op = "add" /\ ip' = ip + 1 /\ UNCHANGED <<prog, entry, regs>>
        /\ host' = [host EXCEPT ![Code[ip].into] = (@ + host[Code[ip].from]) % Modulus]
    BY <1>2 DEF Add
  <2>2. HostTypeOK'
    BY <1>0, <2>1 DEF HostTypeOK
  <2>3. Phase = 2
    BY <1>0, <2>1, CodeAt DEF load_pvcpu_reg, store_pvcpu_reg
  <2>4. Code[ip].into = RAX
    BY <1>0, <2>1, <2>3, CodeAt DEF AddHost
  <2>5. host'[RBX] = host[RBX]
    BY <1>0, <2>1, <2>4 DEF HostTypeOK, RAX, RBX
  <2>6. Phase' \in {2, 3} => host'[RBX] = regs'[Current'.dest]
    BY <1>0, <2>1, <2>3, <2>5, NextPhase DEF HInv
  <2> QED
    BY <1>0, <2>1, <2>2, <2>6 DEF HInv
<1>3. CASE Store
  <2>1. /\ Running /\ Code[ip].op = "store" /\ ip' = ip + 1 /\ UNCHANGED <<prog, entry, host>>
        /\ regs' = [regs EXCEPT ![Code[ip].reg] = host[Code[ip].host]]
    BY <1>3 DEF Store
  <2>2. HostTypeOK'
    BY <1>0, <2>1 DEF HostTypeOK
  <2>3. Phase = 3
    BY <1>0, <2>1, CodeAt DEF load_pvcpu_reg, AddHost
  <2>4. Code[ip].reg = d /\ Code[ip].host = RBX /\ d \in Regs
    BY <1>0, <2>1, <2>3, CodeAt DEF store_pvcpu_reg
  <2>5. host[RBX] = regs[d]
    BY <2>1, <2>3 DEF HInv
  <2>6. DOMAIN regs = Regs /\ regs = [r \in Regs |-> regs[r]]
    BY <1>0 DEF HostTypeOK
  <2>7. regs' = regs
    BY <2>1, <2>4, <2>5, <2>6
  <2>8. Phase' \notin {2, 3}
    BY <1>0, <2>1, <2>3, NextPhase
  <2> QED
    BY <1>0, <2>1, <2>2, <2>7, <2>8 DEF HInv
<1>4. CASE UNCHANGED hvars
  BY <1>4 DEF hvars, HInv, HostTypeOK, Running, Phase, Current
<1> QED
  BY <1>1, <1>2, <1>3, <1>4 DEF HNext, Ret

-----------------------------------------------------------------------------
\* The register NULL is zero whatever is added into it (isa.c:48-61).
THEOREM NullIsAlwaysZero == HSpec => []NullStaysZero
<1>1. HInv => NullStaysZero
  BY DEF HInv, HostTypeOK, NullStaysZero
<1> QED
  BY InitHInv, NextHInv, <1>1, PTL DEF HSpec

\* A register that is no destination keeps its value.
THEOREM OthersKeepTheirValue == HSpec => []OnlyDestinationsChange
<1>1. HInv => OnlyDestinationsChange
  BY DEF HInv, OnlyDestinationsChange
<1> QED
  BY InitHInv, NextHInv, <1>1, PTL DEF HSpec

\* No translated addition changes a register, its destination included: 48 01 D8
\* leaves the sum in rax and rbx is stored (isa.c:54-58).
THEOREM NothingIsAdded == HSpec => [](regs = entry)
<1>1. HInv => regs = entry
  BY DEF HInv
<1> QED
  BY InitHInv, NextHInv, <1>1, PTL DEF HSpec
=============================================================================
