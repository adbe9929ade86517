--------------------------- MODULE PVCpuJitProofs ---------------------------
(***************************************************************************)
(* Proofs about PVCpuJit, for every set of instructions, every length of   *)
(* program and every size of the code buffer.                              *)
(***************************************************************************)
EXTENDS PVCpuJit, FiniteSetTheorems, SequenceTheorems, TLAPS

\* A program is a finite sequence of instructions.
LEMMA ProgramShape ==
    ASSUME NEW p \in Programs
    PROVE  /\ Len(p) \in Nat
           /\ \A m \in 1..Len(p) : p[m] \in Insts
<1>1. PICK m \in 0..MaxProg : p \in [1..m -> Insts]
  BY DEF Programs
<1>2. p \in Seq(Insts) /\ Len(p) = m
  BY <1>1, SizesAssumption
<1> QED
  BY <1>1, <1>2

\* The bytes op_add has asked for before its piece number j.
PieceStart == <<0, 1, 2, 3, 7, 8, 9, 10, 14, 15, 16, 17, 18, 19, 20, 24>>

LEMMA Pieces ==
    /\ Len(AddPieces) = 15
    /\ \A j \in 1..15 : /\ AddPieces[j] \in Nat
                        /\ PieceStart[j + 1] = PieceStart[j] + AddPieces[j]
    /\ PieceStart[1] = 0 /\ PieceStart[16] = AddLength
BY DEF AddPieces, PieceStart, AddLength

\* The piece about to be emitted is one of op_add's.
LEMMA PieceInRange ==
    ASSUME JTypeOK, jpc = "emit"
    PROVE  /\ k \in 1..15 /\ AddPieces[k] \in Nat
           /\ PieceStart[k + 1] = PieceStart[k] + AddPieces[k]
<1>1. k \in 1..Len(AddPieces) + 1 /\ k <= Len(AddPieces)
  BY DEF JTypeOK
<1>2. k \in 1..15
  BY <1>1, Pieces
<1> QED
  BY <1>2, Pieces

-----------------------------------------------------------------------------
(* The type, and the buffer bound that the overflow test of isa.c:94 is for. *)

BufferInv == JTypeOK /\ BufferWithinCapacity

LEMMA InitBufferInv == JInit => BufferInv
<1> SUFFICES ASSUME JInit PROVE BufferInv
  OBVIOUS
<1>1. Len(prog) \in Nat
  BY ProgramShape DEF JInit
<1> QED
  BY <1>1, Pieces, SizesAssumption DEF JInit, BufferInv, JTypeOK, BufferWithinCapacity, JFinal

LEMMA EmitKeepsBound ==
    ASSUME BufferInv, NEW len \in Nat, Emit(len), capacity' = capacity
    PROVE  size' \in Nat /\ asked' \in Nat /\ size' <= capacity'
BY SizesAssumption DEF Emit, Fits, BufferInv, JTypeOK, BufferWithinCapacity

LEMMA NextBufferInv == BufferInv /\ [JNext]_jvars => BufferInv'
<1> SUFFICES ASSUME BufferInv, [JNext]_jvars PROVE BufferInv'
  OBVIOUS
<1> USE DEF BufferInv
<1>0. Len(prog) \in Nat /\ \A m \in 1..Len(prog) : prog[m] \in Insts
  BY ProgramShape DEF JTypeOK
<1>1. CASE InitBuffer
  BY <1>1 DEF InitBuffer, JTypeOK, BufferWithinCapacity, JFinal
<1>2. CASE AllocateMemory
  BY <1>2 DEF AllocateMemory, KeptWhenRefused, JTypeOK, BufferWithinCapacity, JFinal
<1>3. CASE SkipOutOfRange
  BY <1>0, <1>3 DEF SkipOutOfRange, NextInst, JTypeOK, BufferWithinCapacity
<1>4. CASE CallHandler
  <2>1. jpc' \in {"emit", "check"} /\ n' <= Len(prog') /\ k' = 1
    BY <1>4 DEF CallHandler
  <2>2. k' \in 1..Len(AddPieces) + 1 /\ k' <= Len(AddPieces)
    BY <2>1, Pieces
  <2>3. UNCHANGED <<prog, capacity, run_code, n, size, asked, blocks, said>>
    BY <1>4 DEF CallHandler
  <2>4. JTypeOK'
    BY <2>1, <2>2, <2>3 DEF JTypeOK
  <2> QED
    BY <2>3, <2>4 DEF BufferWithinCapacity
<1>5. CASE CallNoHandler
  BY <1>5 DEF CallNoHandler, JTypeOK, BufferWithinCapacity, JFinal
<1>6. CASE EmitPiece
  <2>1. k \in 1..15 /\ AddPieces[k] \in Nat
    BY <1>6, PieceInRange DEF EmitPiece
  <2>2. size' \in Nat /\ asked' \in Nat /\ size' <= capacity'
    BY <1>6, <2>1, EmitKeepsBound DEF EmitPiece
  <2>3. k' \in 1..16 /\ jpc' \in {"emit", "check"} /\ (jpc' = "emit" => k' <= 15)
    BY <1>6, <2>1, Pieces DEF EmitPiece
  <2> QED
    BY <1>6, <2>2, <2>3, Pieces DEF EmitPiece, JTypeOK, BufferWithinCapacity
<1>7. CASE CheckBuffer
  <2>1. size \in Nat /\ capacity \in Nat /\ size <= capacity
    BY SizesAssumption DEF JTypeOK, BufferWithinCapacity
  <2>2. jpc' = "loop" /\ n' = n + 1 /\ said' = said /\ blocks' = blocks
    BY <1>7, <2>1 DEF CheckBuffer, NextInst
  <2>3. n \in 1..Len(prog) + 1 /\ n <= Len(prog)
    BY <1>7 DEF CheckBuffer, JTypeOK
  <2>4. n' \in 1..Len(prog) + 1
    BY <1>0, <2>2, <2>3
  <2> QED
    BY <1>7, <2>2, <2>4 DEF CheckBuffer, JTypeOK, BufferWithinCapacity
<1>8. CASE EmitRet
  <2>1. size' \in Nat /\ asked' \in Nat /\ size' <= capacity'
    BY <1>8, EmitKeepsBound DEF EmitRet
  <2> QED
    BY <1>8, <2>1 DEF EmitRet, JTypeOK, BufferWithinCapacity
<1>9. CASE Finish
  BY <1>9 DEF Finish, JTypeOK, BufferWithinCapacity, JFinal
<1>10. CASE UNCHANGED jvars
  BY <1>10 DEF jvars, JTypeOK, BufferWithinCapacity
<1> QED
  BY <1>1, <1>2, <1>3, <1>4, <1>5, <1>6, <1>7, <1>8, <1>9, <1>10 DEF JNext, JStep

\* The state of pvcpu_run (isa.c:71-121) keeps its shape: the instruction and the
\* piece it is at are inside the program and the handler.
THEOREM JitTypeCorrect == JSpec => []JTypeOK
<1>1. BufferInv => JTypeOK
  BY DEF BufferInv
<1> QED
  BY InitBufferInv, NextBufferInv, <1>1, PTL DEF JSpec

\* No program and no size makes an emitter write past the buffer.
THEOREM BufferNeverOverflows == JSpec => []BufferWithinCapacity
<1>1. BufferInv => BufferWithinCapacity
  BY DEF BufferInv
<1> QED
  BY InitBufferInv, NextBufferInv, <1>1, PTL DEF JSpec

-----------------------------------------------------------------------------
(* How much has been asked for, and when all of it is there. *)

\* The additions translated before the current instruction.
Before == {m \in Translated(prog) : m < n}

InHandler == CASE jpc = "emit"  -> PieceStart[k]
               [] jpc = "check" -> IF prog[n].mode = REG_REG THEN AddLength ELSE 0
               [] jpc = "finish" -> 1
               [] OTHER -> 0

CountInv ==
    /\ size = asked \/ asked > capacity
    /\ jpc \in {"start", "memory", "loop", "emit", "check", "finish"} =>
           asked = AddLength * Cardinality(Before) + InHandler
    /\ jpc \in {"start", "memory"} => n = 1
    /\ jpc = "emit" => n \in Translated(prog)
    /\ jpc = "check" => prog[n].opcode = OP_ADD
    /\ jpc = "finish" => n = Len(prog) + 1

LEMMA BeforeIsFinite ==
    ASSUME JTypeOK
    PROVE  IsFiniteSet(Before) /\ Cardinality(Before) \in Nat
<1>1. Len(prog) \in Nat
  BY ProgramShape DEF JTypeOK
<1>2. IsFiniteSet(1..Len(prog))
  BY <1>1, FS_Interval
<1>3. Before \subseteq 1..Len(prog)
  BY DEF Before, Translated
<1> QED
  BY <1>2, <1>3, FS_Subset, FS_CardinalityType

\* Going on to the next instruction counts this one if it was an addition.
LEMMA NextCounts ==
    ASSUME JTypeOK, n <= Len(prog), n' = n + 1, prog' = prog
    PROVE  Cardinality(Before') = Cardinality(Before)
                                  + (IF n \in Translated(prog) THEN 1 ELSE 0)
<1>1. n \in Nat /\ Len(prog) \in Nat /\ n \notin Before
  BY ProgramShape DEF JTypeOK, Before
<1>2. \A m \in Translated(prog) : m \in Nat
  BY <1>1 DEF Translated
<1>3. Before' = {m \in Translated(prog) : m < n + 1}
  BY DEF Before, Translated
<1>4. IsFiniteSet(Before) /\ Cardinality(Before) \in Nat
  BY BeforeIsFinite
<1>5. CASE n \in Translated(prog)
  <2>1. Before' = Before \cup {n}
    <3>1. \A m \in Translated(prog) : m < n + 1 <=> m < n \/ m = n
      BY <1>1, <1>2
    <3>2. \A m : m \in Before' <=> m \in Translated(prog) /\ (m < n \/ m = n)
      BY <1>3, <3>1
    <3>3. \A m : m \in Before \cup {n} <=> m \in Translated(prog) /\ (m < n \/ m = n)
      BY <1>5 DEF Before
    <3> QED
      BY <3>2, <3>3, Zenon
  <2>2. Cardinality(Before \cup {n}) = Cardinality(Before) + 1
    BY <1>1, <1>4, FS_AddElement
  <2> QED
    BY <1>5, <2>1, <2>2
<1>6. CASE n \notin Translated(prog)
  <2>1. Before' = Before
    BY <1>1, <1>2, <1>3, <1>6 DEF Before
  <2> QED
    BY <1>4, <1>6, <2>1
<1> QED
  BY <1>5, <1>6

LEMMA InitCountInv == JInit => CountInv
<1> SUFFICES ASSUME JInit PROVE CountInv
  OBVIOUS
<1>1. Before = {}
  BY ProgramShape DEF JInit, Before, Translated
<1>2. Cardinality(Before) = 0
  BY <1>1, FS_EmptySet
<1> QED
  BY <1>2 DEF JInit, CountInv, InHandler, AddLength

LEMMA EmitKeepsCount ==
    ASSUME BufferInv, CountInv, NEW len \in Nat, Emit(len), capacity' = capacity
    PROVE  asked' = asked + len /\ (size' = asked' \/ asked' > capacity')
BY SizesAssumption DEF Emit, Fits, BufferInv, JTypeOK, CountInv

LEMMA NextCountInv == BufferInv /\ CountInv /\ [JNext]_jvars => CountInv'
<1> SUFFICES ASSUME BufferInv, CountInv, [JNext]_jvars PROVE CountInv'
  OBVIOUS
<1>0. /\ JTypeOK /\ Len(prog) \in Nat /\ Cardinality(Before) \in Nat
      /\ n \in 1..Len(prog) + 1 /\ asked \in Nat
  BY ProgramShape, BeforeIsFinite DEF BufferInv, JTypeOK
<1>1. CASE InitBuffer
  BY <1>1 DEF InitBuffer, CountInv, InHandler, Before
<1>2. CASE AllocateMemory
  BY <1>2 DEF AllocateMemory, CountInv, InHandler, Before
<1>3. CASE SkipOutOfRange
  <2>1. n \notin Translated(prog)
    BY <1>3 DEF SkipOutOfRange, Translated, OP_ADD
  <2>2. Cardinality(Before') = Cardinality(Before)
    BY <1>0, <1>3, <2>1, NextCounts DEF SkipOutOfRange, NextInst
  <2> QED
    BY <1>3, <2>2 DEF SkipOutOfRange, CountInv, InHandler
<1>4. CASE CallHandler
  <2>1. Before' = Before
    BY <1>4 DEF CallHandler, Before
  <2>2. jpc' = "emit" => n' \in Translated(prog')
    BY <1>0, <1>4 DEF CallHandler, Translated
  <2>3. InHandler' = 0 /\ InHandler = 0
    BY <1>4, Pieces DEF CallHandler, InHandler
  <2>4. asked' = asked /\ size' = size /\ capacity' = capacity /\ n' = n /\ prog' = prog
        /\ jpc = "loop" /\ jpc' \in {"emit", "check"} /\ prog[n].opcode = OP_ADD
    BY <1>4 DEF CallHandler
  <2>5. asked' = AddLength * Cardinality(Before') + InHandler'
    BY <2>1, <2>3, <2>4 DEF CountInv
  <2>6. size' = asked' \/ asked' > capacity'
    BY <2>4 DEF CountInv
  <2> HIDE DEF CountInv
  <2> QED
    BY <2>2, <2>4, <2>5, <2>6 DEF CountInv
<1>5. CASE CallNoHandler
  BY <1>5 DEF CallNoHandler, CountInv
<1>6. CASE EmitPiece
  <2>1. k \in 1..15 /\ AddPieces[k] \in Nat /\ PieceStart[k + 1] = PieceStart[k] + AddPieces[k]
    BY <1>0, <1>6, PieceInRange DEF EmitPiece
  <2>2. asked' = asked + AddPieces[k] /\ (size' = asked' \/ asked' > capacity')
    BY <1>6, <2>1, EmitKeepsCount DEF EmitPiece
  <2>3. prog[n].mode = REG_REG /\ prog[n].opcode = OP_ADD
    BY <1>6 DEF EmitPiece, CountInv, Translated
  <2>4. Before' = Before /\ n' = n /\ prog' = prog /\ k' = k + 1 /\ jpc = "emit"
    BY <1>6 DEF EmitPiece, Before
  <2>5. InHandler' = PieceStart[k + 1] /\ InHandler = PieceStart[k]
    <3>1. CASE k = 15
      BY <1>6, <2>3, <2>4, <3>1, Pieces DEF EmitPiece, InHandler
    <3>2. CASE k # 15
      BY <1>6, <2>4, <3>2, Pieces DEF EmitPiece, InHandler
    <3> QED
      BY <3>1, <3>2
  <2>6. PieceStart[k] \in Nat
    BY <2>1 DEF PieceStart
  <2>7. asked' = AddLength * Cardinality(Before') + InHandler'
    BY <1>0, <2>1, <2>2, <2>4, <2>5, <2>6 DEF CountInv, AddLength
  <2> QED
    BY <1>6, <2>2, <2>3, <2>4, <2>7 DEF EmitPiece, CountInv
<1>7. CASE CheckBuffer
  <2>1. size <= capacity /\ n <= Len(prog)
    BY <1>7 DEF CheckBuffer, BufferInv, BufferWithinCapacity, JTypeOK
  <2>2. jpc' = "loop" /\ n' = n + 1 /\ UNCHANGED <<prog, capacity, size, asked>>
    BY <1>7, <2>1, SizesAssumption DEF CheckBuffer, NextInst, BufferInv, JTypeOK
  <2>3. n \in Translated(prog) <=> prog[n].mode = REG_REG
    BY <1>0, <1>7, <2>1 DEF CheckBuffer, CountInv, Translated
  <2>4. Cardinality(Before') = Cardinality(Before) + (IF n \in Translated(prog) THEN 1 ELSE 0)
    BY <1>0, <2>1, <2>2, NextCounts
  <2>5. asked' = AddLength * Cardinality(Before')
    BY <1>0, <1>7, <2>2, <2>3, <2>4 DEF CheckBuffer, CountInv, InHandler, AddLength
  <2>6. InHandler' = 0
    BY <2>2 DEF InHandler
  <2> QED
    BY <1>0, <2>2, <2>4, <2>5, <2>6 DEF CountInv, AddLength
<1>8. CASE EmitRet
  <2>1. asked' = asked + 1 /\ (size' = asked' \/ asked' > capacity')
    BY <1>8, EmitKeepsCount DEF EmitRet
  <2>2. Before' = Before /\ InHandler' = 1 /\ InHandler = 0 /\ n = Len(prog) + 1
    BY <1>0, <1>8 DEF EmitRet, Before, InHandler
  <2> QED
    BY <1>0, <1>8, <2>1, <2>2 DEF EmitRet, CountInv, AddLength
<1>9. CASE Finish
  BY <1>9 DEF Finish, CountInv
<1>10. CASE UNCHANGED jvars
  BY <1>10 DEF jvars, CountInv, InHandler, Before
<1> QED
  BY <1>1, <1>2, <1>3, <1>4, <1>5, <1>6, <1>7, <1>8, <1>9, <1>10 DEF JNext, JStep

LEMMA CountedIsRoom == BufferInv /\ CountInv => RoomMeansComplete
<1> SUFFICES ASSUME BufferInv, CountInv, jpc = "finish",
                    AddLength * Cardinality(Translated(prog)) + 1 <= capacity
             PROVE  Complete /\ size = AddLength * Cardinality(Translated(prog)) + 1
  BY DEF RoomMeansComplete
<1>1. n = Len(prog) + 1 /\ Len(prog) \in Nat
  BY ProgramShape DEF CountInv, BufferInv, JTypeOK
<1>2. Before = Translated(prog)
  BY <1>1 DEF Before, Translated
<1>3. asked = AddLength * Cardinality(Translated(prog)) + 1
  BY <1>2 DEF CountInv, InHandler
<1>4. asked \in Nat /\ capacity \in Nat
  BY SizesAssumption DEF BufferInv, JTypeOK
<1> QED
  BY <1>3, <1>4 DEF CountInv, Complete

\* With room for every addition and the ret, translation loses nothing.
THEOREM RoomIsEnough == JSpec => []RoomMeansComplete
BY InitBufferInv, NextBufferInv, InitCountInv, NextCountInv, CountedIsRoom, PTL DEF JSpec

\* Every return has released both blocks.
THEOREM ReturnsRelease == JSpec => []ReturnReleasesBoth
<1> DEFINE Inv == ReturnReleasesBoth /\ (jpc = "start" => blocks = {})
<1>1. JInit => Inv
  BY DEF JInit, ReturnReleasesBoth
<1>2. Inv /\ [JNext]_jvars => Inv'
  <2> SUFFICES ASSUME Inv, [JNext]_jvars PROVE Inv'
    OBVIOUS
  <2> USE DEF ReturnReleasesBoth
  <2>1. CASE InitBuffer \/ AllocateMemory
    BY <2>1 DEF InitBuffer, AllocateMemory, KeptWhenRefused
  <2>2. CASE SkipOutOfRange \/ CallHandler \/ CallNoHandler \/ EmitPiece \/ EmitRet
    <3>1. jpc' \notin {"start", "returned"}
      <4>1. CASE SkipOutOfRange
        BY <4>1 DEF SkipOutOfRange
      <4>2. CASE CallHandler
        BY <4>2 DEF CallHandler
      <4>5. CASE CallNoHandler
        BY <4>5 DEF CallNoHandler
      <4>3. CASE EmitPiece
        BY <4>3 DEF EmitPiece
      <4>4. CASE EmitRet
        BY <4>4 DEF EmitRet
      <4> QED
        BY <2>2, <4>1, <4>2, <4>3, <4>4, <4>5
    <3> QED
      BY <3>1
  <2>3. CASE CheckBuffer \/ Finish
    BY <2>3 DEF CheckBuffer, Finish
  <2>4. CASE UNCHANGED jvars
    BY <2>4 DEF jvars
  <2> QED
    BY <2>1, <2>2, <2>3, <2>4 DEF JNext, JStep
<1> QED
  BY <1>1, <1>2, PTL DEF JSpec
-----------------------------------------------------------------------------
(* pvcpu_run ends: an instruction is its handler's fifteen emit calls, the *)
(* call and the test after it.                                             *)

\* Twenty steps for each instruction that is not done are more than it takes.
ForInsts == 20 * (Len(prog) + 1 - n)

\* An upper bound on the steps that are left.
JLeft == CASE jpc = "start"   -> ForInsts + 4
           [] jpc = "memory"  -> ForInsts + 3
           [] jpc = "loop"    -> ForInsts + 2
           [] jpc = "emit"    -> ForInsts - k
           [] jpc = "check"   -> ForInsts - 17
           [] jpc = "finish"  -> 1
           [] jpc \in JFinal  -> 0

LEMMA ForInstsInNat ==
    ASSUME JTypeOK
    PROVE  ForInsts \in Nat /\ (n <= Len(prog) => ForInsts >= 20)
<1> DEFINE len == Len(prog)
<1>1. len \in Nat /\ n \in Nat /\ n <= len + 1
  BY ProgramShape DEF JTypeOK
<1> HIDE DEF len
<1>2. 20 * (len + 1 - n) \in Nat /\ (n <= len => 20 * (len + 1 - n) >= 20)
  BY <1>1
<1> QED
  BY <1>2 DEF ForInsts, len

LEMMA JLeftInNat == JTypeOK => JLeft \in Nat
<1> SUFFICES ASSUME JTypeOK PROVE JLeft \in Nat
  OBVIOUS
<1>1. ForInsts \in Nat /\ (jpc \in {"emit", "check"} => ForInsts >= 20)
  BY ForInstsInNat DEF JTypeOK
<1>2. jpc = "emit" => k \in 1..15
  BY PieceInRange
<1>3. jpc \in {"start", "memory", "loop", "emit", "check", "finish"} \cup JFinal
  BY DEF JTypeOK
<1> HIDE DEF ForInsts
<1> QED
  BY <1>1, <1>2, <1>3 DEF JLeft, JFinal

\* The next instruction takes its twenty steps off what is left.
LEMMA NextInstLowers ==
    ASSUME JTypeOK, n <= Len(prog), n' = n + 1, prog' = prog
    PROVE  ForInsts' = ForInsts - 20
<1>1. Len(prog) \in Nat /\ n \in Nat
  BY ProgramShape DEF JTypeOK
<1> QED
  BY <1>1 DEF ForInsts

LEMMA NextLowersJLeft == BufferInv /\ JStep => JLeft' < JLeft
<1> SUFFICES ASSUME BufferInv, JStep PROVE JLeft' < JLeft
  OBVIOUS
<1>0. JTypeOK
  BY DEF BufferInv
<1>1. ForInsts \in Nat /\ (n <= Len(prog) => ForInsts >= 20)
  BY <1>0, ForInstsInNat
<1>2. UNCHANGED <<prog, n>> => ForInsts' = ForInsts
  BY DEF ForInsts
<1>3. CASE InitBuffer
  <2>1. jpc = "start" /\ jpc' \in {"memory", "returned"} /\ ForInsts' = ForInsts
    BY <1>2, <1>3 DEF InitBuffer
  <2> HIDE DEF ForInsts
  <2> QED
    BY <1>1, <2>1 DEF JLeft, JFinal
<1>4. CASE AllocateMemory
  <2>1. jpc = "memory" /\ jpc' \in {"loop", "returned"} /\ ForInsts' = ForInsts
    BY <1>2, <1>4 DEF AllocateMemory
  <2> HIDE DEF ForInsts
  <2> QED
    BY <1>1, <2>1 DEF JLeft, JFinal
<1>5. CASE SkipOutOfRange
  <2>1. jpc = "loop" /\ jpc' = "loop" /\ ForInsts' = ForInsts - 20
    BY <1>0, <1>5, NextInstLowers DEF SkipOutOfRange, NextInst
  <2> HIDE DEF ForInsts
  <2> QED
    BY <1>1, <2>1 DEF JLeft, JFinal
<1>6. CASE CallHandler
  <2>1. jpc = "loop" /\ jpc' \in {"emit", "check"} /\ k' = 1 /\ ForInsts' = ForInsts
    BY <1>2, <1>6 DEF CallHandler
  <2> HIDE DEF ForInsts
  <2> QED
    BY <1>1, <2>1 DEF JLeft, JFinal
<1>7. CASE CallNoHandler
  <2>1. jpc = "loop" /\ jpc' = "crashed"
    BY <1>7 DEF CallNoHandler
  <2> HIDE DEF ForInsts
  <2> QED
    BY <1>1, <2>1 DEF JLeft, JFinal
<1>8. CASE EmitPiece
  <2>1. k \in 1..15 /\ k' = k + 1 /\ jpc = "emit" /\ jpc' \in {"emit", "check"}
        /\ ForInsts' = ForInsts
    BY <1>0, <1>2, <1>8, PieceInRange DEF EmitPiece
  <2>2. JLeft = ForInsts - k /\ JLeft' \in {ForInsts' - k', ForInsts' - 17}
    BY <2>1 DEF JLeft, JFinal
  <2> HIDE DEF ForInsts
  <2> QED
    BY <1>1, <2>1, <2>2
<1>9. CASE CheckBuffer
  <2>1. jpc = "check" /\ ~(size > capacity) /\ n <= Len(prog)
    BY <1>9, SizesAssumption DEF CheckBuffer, BufferInv, BufferWithinCapacity, JTypeOK
  <2>2. jpc' = "loop" /\ n' = n + 1 /\ prog' = prog
    BY <1>9, <2>1 DEF CheckBuffer, NextInst
  <2>3. ForInsts' = ForInsts - 20
    BY <1>0, <2>1, <2>2, NextInstLowers
  <2> HIDE DEF ForInsts
  <2> QED
    BY <1>1, <2>1, <2>2, <2>3 DEF JLeft, JFinal
<1>10. CASE EmitRet
  <2>1. jpc = "loop" /\ jpc' = "finish"
    BY <1>10 DEF EmitRet
  <2> HIDE DEF ForInsts
  <2> QED
    BY <1>1, <2>1 DEF JLeft, JFinal
<1>11. CASE Finish
  <2>1. jpc = "finish" /\ jpc' \in JFinal
    BY <1>11 DEF Finish, JFinal
  <2> QED
    BY <2>1 DEF JLeft, JFinal
<1> QED
  BY <1>3, <1>4, <1>5, <1>6, <1>7, <1>8, <1>9, <1>10, <1>11 DEF JStep

\* The translation loop (isa.c:88-99) and the handler it calls come to their end
\* for every program: a natural number goes down with every step.
THEOREM JitApproachesEnd == JSpec => [](JLeft \in Nat) /\ [][JLeft' < JLeft]_jvars
<1>1. BufferInv => JLeft \in Nat
  BY JLeftInNat DEF BufferInv
<1>2. BufferInv /\ [JNext]_jvars => [JLeft' < JLeft]_jvars
  BY NextLowersJLeft DEF JNext
<1> QED
  BY InitBufferInv, NextBufferInv, <1>1, <1>2, PTL DEF JSpec

\* Emitting drops what does not fit, so the test after each handler (isa.c:94)
\* never finds anything: what it would report is not reported there.
THEOREM OverflowNeverReported ==
    JSpec => [][jpc = "check" => jpc' = "loop" /\ said' = said]_jvars
<1>1. BufferInv /\ [JNext]_jvars => [jpc = "check" => jpc' = "loop" /\ said' = said]_jvars
  <2> SUFFICES ASSUME BufferInv, JNext, jpc = "check" PROVE jpc' = "loop" /\ said' = said
    OBVIOUS
  <2>1. CheckBuffer
    BY DEF JNext, JStep, JFinal, InitBuffer, AllocateMemory, SkipOutOfRange, CallHandler,
           CallNoHandler, EmitPiece, EmitRet, Finish
  <2>2. ~(size > capacity)
    BY SizesAssumption DEF BufferInv, BufferWithinCapacity, JTypeOK
  <2> QED
    BY <2>1, <2>2 DEF CheckBuffer
<1> QED
  BY InitBufferInv, NextBufferInv, <1>1, PTL DEF JSpec
\* The opcodes let through to an entry of the table that is null, or is not there.
NullEntry(op) == op # OP_ADD /\ op <= 4096

OnlyHandled == \A m \in 1..Len(prog) : ~NullEntry(prog[m].opcode)

\* Without such opcodes, and when the code is only dumped, pvcpu_run
\* breaks nothing (isa.c:88-120): what is left is to return.
THEOREM HandledNeverBreaks ==
    JSpec => [](run_code = 0 /\ OnlyHandled => jpc \notin {"crashed", "corrupt"})
<1> DEFINE Inv == run_code = 0 /\ OnlyHandled => jpc \notin {"crashed", "corrupt"}
<1>1. JInit => Inv
  BY DEF JInit
<1>2. BufferInv /\ Inv /\ [JNext]_jvars => Inv'
  <2> SUFFICES ASSUME BufferInv, Inv, [JNext]_jvars, run_code' = 0, OnlyHandled'
               PROVE  jpc' \notin {"crashed", "corrupt"}
    OBVIOUS
  <2>1. UNCHANGED <<prog, run_code>>
    BY DEF JNext, JStep, InitBuffer, AllocateMemory, SkipOutOfRange, CallHandler, CallNoHandler,
           EmitPiece, CheckBuffer, EmitRet, Finish, jvars
  <2>2. run_code = 0 /\ OnlyHandled
    BY <2>1 DEF OnlyHandled
  <2>0. jpc \notin {"crashed", "corrupt"}
    BY <2>2
  <2> HIDE DEF Inv
  <2>3. CASE CallNoHandler
    <3>1. n <= Len(prog) /\ NullEntry(prog[n].opcode)
      BY <2>3, SMT DEF CallNoHandler, NullEntry
    <3>2. n \in 1..Len(prog)
      BY <3>1, ProgramShape DEF BufferInv, JTypeOK
    <3> QED
      BY <2>2, <3>1, <3>2 DEF OnlyHandled
  <2>4. CASE Finish
    BY <2>2, <2>4 DEF Finish
  <2>5. CASE JNext /\ ~CallNoHandler /\ ~Finish
    <3>1. CASE jpc \in JFinal /\ UNCHANGED jvars
      BY <2>0, <3>1 DEF jvars
    <3>2. CASE InitBuffer \/ AllocateMemory \/ SkipOutOfRange \/ EmitRet
      BY <3>2 DEF InitBuffer, AllocateMemory, SkipOutOfRange, EmitRet
    <3>3. CASE CallHandler \/ EmitPiece \/ CheckBuffer
      BY <3>3 DEF CallHandler, EmitPiece, CheckBuffer
    <3> QED
      BY <2>5, <3>1, <3>2, <3>3 DEF JNext, JStep
  <2>6. CASE UNCHANGED jvars
    BY <2>0, <2>6 DEF jvars
  <2> QED
    BY <2>3, <2>4, <2>5, <2>6
<1> QED
  BY InitBufferInv, NextBufferInv, <1>1, <1>2, PTL DEF JSpec
\* pvcpu_run reports nothing but memory it was refused, before any code is emitted
\* (isa.c:78, 84): what does not fit the buffer is lost without the message of
\* isa.c:95, which is what the run jit_too_small shows of one program.
THEOREM OnlyMemoryIsReported ==
    JSpec => [](said = "error" => jpc = "returned" /\ n = 1 /\ asked = 0)
<1> DEFINE Inv == /\ jpc \in {"start", "memory"} => n = 1 /\ asked = 0
                  /\ said = "error" => jpc = "returned" /\ n = 1 /\ asked = 0
<1>1. JInit => Inv
  BY DEF JInit
<1>2. BufferInv /\ Inv /\ [JNext]_jvars => Inv'
  <2> SUFFICES ASSUME BufferInv, Inv, [JNext]_jvars PROVE Inv'
    OBVIOUS
  <2>1. CASE InitBuffer \/ AllocateMemory
    BY <2>1 DEF InitBuffer, AllocateMemory
  <2>2. CASE SkipOutOfRange \/ CallHandler \/ CallNoHandler
    BY <2>2 DEF SkipOutOfRange, CallHandler, CallNoHandler
  <2>3. CASE EmitPiece \/ EmitRet \/ Finish
    BY <2>3 DEF EmitPiece, EmitRet, Finish
  <2>4. CASE CheckBuffer
    <3>1. ~(size > capacity)
      BY SizesAssumption DEF BufferInv, BufferWithinCapacity, JTypeOK
    <3> QED
      BY <2>4, <3>1 DEF CheckBuffer
  <2>5. CASE UNCHANGED jvars
    BY <2>5 DEF jvars
  <2> QED
    BY <2>1, <2>2, <2>3, <2>4, <2>5 DEF JNext, JStep
<1> QED
  BY InitBufferInv, NextBufferInv, <1>1, <1>2, PTL DEF JSpec
=============================================================================
