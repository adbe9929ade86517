------------------------- MODULE PVCpuLoaderProofs -------------------------
(***************************************************************************)
(* Proofs about PVCpuLoader, for every set of words, every file length and *)
(* every limit on the slot array.                                          *)
(***************************************************************************)
EXTENDS PVCpuLoader, SequenceTheorems, TLAPS

\* A file is a finite sequence of words and a few bytes.
LEMMA FileShape ==
    ASSUME NEW f \in Files
    PROVE  /\ Len(f.words) \in Nat
           /\ \A m \in 1..Len(f.words) : f.words[m] \in WordType
           /\ f.tail \in 0..3
<1>1. PICK m \in 0..MaxWords : f.words \in [1..m -> Words]
  BY DEF Files
<1>2. f.words \in Seq(Words) /\ Len(f.words) = m
  BY <1>1, BoundsAssumption
<1>3. f.tail \in Tails
  BY DEF Files
<1>4. f.tail \in 0..3
  BY <1>3, TailsAssumption
<1>5. \A j \in 1..Len(f.words) : f.words[j] \in WordType
  BY <1>1, <1>2, WordsAssumption
<1> QED
  BY <1>2, <1>4, <1>5, LenProperties

\* What calloc leaves is a word and a value.
LEMMA ZeroesAreTyped == ZeroWord \in WordType /\ ZeroValue \in ValueType
<1>1. ZeroWord \in WordType
  BY DEF ZeroWord, WordType, Flag
<1> QED
  BY <1>1 DEF ZeroValue, ValueType

-----------------------------------------------------------------------------
(* Every action keeps the type and the offset. *)

\* While a slot is being filled there is one to count afterwards.
RoomForOne == pc \in {"unpack", "ext", "unpacked"} => inst_count < inst_cap

TypeInv == TypeOK /\ OffsetInFile /\ RoomForOne

\* With four bytes left, the word at the offset is a word of the file.
LEMMA WordInFile ==
    ASSUME TypeOK, OffsetInFile, BytesLeft >= 4
    PROVE  /\ WordsLeft \in Nat /\ WordsLeft >= 1
           /\ off + 1 \in 1..Len(file.words) /\ file.words[off + 1] \in WordType
<1>1. /\ Len(file.words) \in Nat /\ off \in Nat /\ off <= Len(file.words)
      /\ \A m \in 1..Len(file.words) : file.words[m] \in WordType
  BY FileShape DEF TypeOK, OffsetInFile
<1>2. WordsLeft \in Nat /\ WordsLeft = Len(file.words) - off
  BY <1>1 DEF WordsLeft
<1>3. BytesLeft = 4 * WordsLeft + file.tail /\ file.tail \in 0..3
  BY FileShape DEF BytesLeft, TypeOK
<1>4. WordsLeft >= 1
  BY <1>2, <1>3
<1>5. off + 1 \in 1..Len(file.words)
  BY <1>1, <1>2, <1>4
<1> QED
  BY <1>1, <1>2, <1>4, <1>5

LEMMA InitTypeInv == Init => TypeInv
<1> SUFFICES ASSUME Init PROVE TypeInv
  OBVIOUS
<1>1. Len(file.words) \in Nat
  BY FileShape DEF Init
<1>2. TypeOK
  BY BoundsAssumption, ZeroesAreTyped
  DEF Init, NoPointers, TypeOK, NULL, Final, Arrays, Block
<1> QED
  BY <1>1, <1>2 DEF TypeInv, OffsetInFile, RoomForOne, Init

\* What FreeAllAndExit leaves of the type invariant.
LEMMA FreeAllKeepsTypeInv ==
    ASSUME TypeInv, NEW code \in {0, 5, 6}, FreeAllAndExit(code)
    PROVE  TypeInv'
<1>1. heap' \subseteq heap /\ exit_code' \in {-1, 0, 4, 5, 6} /\ pc' \in {"exit", "corrupt"}
  BY DEF FreeAllAndExit, TypeInv, TypeOK
<1>2. UNCHANGED <<file, off, slots, read, next_block, i>>
  BY DEF FreeAllAndExit
<1> QED
  BY <1>1, <1>2 DEF TypeInv, TypeOK, OffsetInFile, RoomForOne, slots, Final

LEMMA NextTypeInv == TypeInv /\ [Next]_vars => TypeInv'
<1> SUFFICES ASSUME TypeInv, [Next]_vars PROVE TypeInv'
  OBVIOUS
<1> USE DEF TypeInv, RoomForOne, slots
<1>0. /\ Len(file.words) \in Nat
      /\ \A m \in 1..Len(file.words) : file.words[m] \in WordType
      /\ file.tail \in 0..3
  BY FileShape DEF TypeOK
<1>1. CASE ReadFile
  BY <1>1 DEF ReadFile, TypeOK, OffsetInFile, Arrays
<1>2. CASE ReadFileFails
  BY <1>2 DEF ReadFileFails, TypeOK, OffsetInFile, Final
<1>3. CASE NextSlot
  <2> DEFINE cap == IF NeedsRoom THEN 2 * inst_cap ELSE inst_cap
  <2>1. /\ cap \in 2..MaxSlots /\ cap >= inst_cap /\ inst_count + 1 <= cap
        /\ inst_cap' = cap /\ inst_count' = inst_count
    BY <1>3, BoundsAssumption DEF NextSlot, NeedsRoom, TypeOK
  <2>2. insts' \in [0..cap - 1 -> WordType \cup {Indet}]
    BY <1>3, <2>1 DEF NextSlot, Grown, TypeOK
  <2>3. inst_values' \in [0..cap - 1 -> ValueType \cup {Indet}]
    BY <1>3, <2>1 DEF NextSlot, Grown, TypeOK
  <2>4. inst_extflags' \in [0..cap - 1 -> Nat \cup {Indet}]
    BY <1>3, <2>1 DEF NextSlot, Grown, TypeOK, idx
  <2>5. inst_extflags_count' \in [0..cap - 1 -> 0..2 \cup {Indet}]
    BY <1>3, <2>1 DEF NextSlot, Grown, TypeOK
  <2>6. /\ next_block' \in Nat \ {0}
        /\ heap' \subseteq Arrays \cup {Block(p) : p \in 1..next_block' - 1}
    <3>1. heap' = heap \cup {Block(next_block)} /\ next_block' = next_block + 1
      BY <1>3 DEF NextSlot
    <3>2. next_block \in 1..next_block' - 1 /\ 1..next_block - 1 \subseteq 1..next_block' - 1
      BY <3>1 DEF TypeOK
    <3> QED
      BY <3>1, <3>2 DEF TypeOK
  <2>7. /\ file' = file /\ pc' = "unpack" /\ off' = off /\ read' = read /\ i' = i
        /\ exit_code' = exit_code
    BY <1>3 DEF NextSlot
  <2>8. inst_count' \in 0..inst_cap' /\ inst_count' < inst_cap'
    BY <2>1 DEF TypeOK
  <2> HIDE DEF cap
  <2> QED
    BY <2>1, <2>2, <2>3, <2>4, <2>5, <2>6, <2>7, <2>8 DEF TypeOK, OffsetInFile
<1>4. CASE OutOfMemory
  BY <1>4 DEF OutOfMemory, TypeOK, OffsetInFile, Final
<1>5. CASE EndOfFile
  BY <1>5 DEF EndOfFile, TypeOK, OffsetInFile
<1>6. CASE UnpackShort
  BY <1>0, <1>6 DEF UnpackShort, TypeOK, OffsetInFile
<1>7. CASE UnpackWord
  <2> DEFINE inst == file.words[off + 1]
  <2>1. WordsLeft >= 1 /\ off + 1 \in 1..Len(file.words)
    BY <1>7, WordInFile DEF UnpackWord
  <2>2. inst \in WordType
    BY <1>0, <2>1
  <2>3. insts' \in [0..inst_cap - 1 -> WordType \cup {Indet}]
    BY <1>7, <2>2 DEF UnpackWord, TypeOK
  <2>4. inst_values' \in [0..inst_cap - 1 -> ValueType \cup {Indet}]
    <3>1. CASE TakesValue(inst) /\ ~ValueCut(inst)
      <4>1. off + 2 \in 1..Len(file.words) /\ off + 3 \in 1..Len(file.words)
        <5>1. off \in Nat /\ Len(file.words) \in Nat
          BY <1>0 DEF TypeOK
        <5>2. ~(Len(file.words) - off < 3)
          BY <3>1 DEF ValueCut, WordsLeft
        <5> QED
          BY <5>1, <5>2
      <4>2. <<file.words[off + 2], file.words[off + 3]>> \in ValueType
        BY <1>0, <4>1 DEF ValueType
      <4> QED
        BY <1>7, <3>1, <4>2 DEF UnpackWord, TypeOK
    <3>2. CASE ~(TakesValue(inst) /\ ~ValueCut(inst))
      BY <1>7, <3>2 DEF UnpackWord, TypeOK
    <3> QED
      BY <3>1, <3>2
  <2>5. read' \in 0..3 /\ off + read' <= Len(file.words)
    BY <1>0, <1>7, <2>1 DEF UnpackWord, UnpackedLength, ValueCut, WordsLeft, TypeOK
  <2>6. /\ file' = file /\ pc' \in {"ext", "unpacked"} /\ off' = off
        /\ inst_cap' = inst_cap /\ inst_count' = inst_count
        /\ inst_extflags' = inst_extflags /\ inst_extflags_count' = inst_extflags_count
        /\ next_block' = next_block /\ heap' = heap /\ i' = i /\ exit_code' = exit_code
    BY <1>7 DEF UnpackWord
  <2>7. inst_count < inst_cap
    BY <1>7 DEF UnpackWord
  <2> QED
    BY <2>3, <2>4, <2>5, <2>6, <2>7 DEF TypeOK, OffsetInFile
<1>8. CASE UnpackExtMask
  <2>1. inst_extflags_count' \in [0..inst_cap - 1 -> 0..2 \cup {Indet}]
    BY <1>8 DEF UnpackExtMask, TypeOK, idx
  <2>2. pc' \in {"ext", "unpacked", "corrupt"}
    BY <1>8 DEF UnpackExtMask
  <2> QED
    BY <1>8, <2>1, <2>2 DEF UnpackExtMask, TypeOK, OffsetInFile, Final
<1>9. CASE UnpackExtEnd
  BY <1>0, <1>9 DEF UnpackExtEnd, TypeOK, OffsetInFile
<1>10. CASE Reject
  BY <1>10, FreeAllKeepsTypeInv DEF Reject
<1>11. CASE TrailingBytes
  BY <1>11 DEF TrailingBytes, TypeOK, OffsetInFile
<1>12. CASE Advance
  <2>1. inst_count' \in 0..inst_cap
    BY <1>12 DEF Advance, TypeOK
  <2> QED
    BY <1>0, <1>12, <2>1 DEF Advance, TypeOK, OffsetInFile
<1>13. CASE ValidateNext
  <2>1. CASE SlotIsValid(i)
    BY <1>13, <2>1 DEF ValidateNext, TypeOK, OffsetInFile, FreeAllAndExit
  <2>2. CASE ~SlotIsValid(i)
    BY <1>13, <2>2, FreeAllKeepsTypeInv DEF ValidateNext
  <2> QED
    BY <2>1, <2>2
<1>14. CASE AllValid
  BY <1>14 DEF AllValid, TypeOK, OffsetInFile
<1>15. CASE RunReturns
  BY <1>15, FreeAllKeepsTypeInv DEF RunReturns
<1>16. CASE RunCrashes
  BY <1>16 DEF RunCrashes, TypeOK, OffsetInFile, Final
<1>17. CASE UNCHANGED vars
  BY <1>17 DEF vars, TypeOK, OffsetInFile
<1> QED
  BY <1>1, <1>2, <1>3, <1>4, <1>5, <1>6, <1>7, <1>8, <1>9, <1>10, <1>11, <1>12, <1>13,
     <1>14, <1>15, <1>16, <1>17 DEF Next, Step, Loading, Terminating

\* The slots in use are allocated slots, in every state of every run.
THEOREM TypeCorrect == Spec => []TypeOK
<1>1. TypeInv => TypeOK
  BY DEF TypeInv
<1> QED
  BY InitTypeInv, NextTypeInv, <1>1, PTL DEF Spec

\* file_size - off never wraps.
THEOREM OffsetCorrect == Spec => []OffsetInFile
<1>1. TypeInv => OffsetInFile
  BY DEF TypeInv
<1> QED
  BY InitTypeInv, NextTypeInv, <1>1, PTL DEF Spec

-----------------------------------------------------------------------------
(* What the validator sees.  Slot 1 is never written, so it stays the zero *)
(* word, which is not valid: the validation loop cannot pass it, and never  *)
(* gets to the slots realloc left indeterminate.                            *)

SlotInv ==
    /\ insts[0] \in WordType /\ inst_values[0] \in ValueType
    /\ insts[1] = ZeroWord /\ inst_values[1] \in ValueType
    /\ pc \notin {"validate", "run", "exit", "corrupt", "crashed"} => i = 0
    /\ pc \in {"validate", "run"} => i <= inst_count
    /\ pc \in {"validate", "run"} => \A s \in 0..inst_cap - 1 : s < i => SlotIsValid(s)
    /\ pc = "run" => i = inst_count

LEMMA ZeroWordIsInvalid == \A value, size : ~ValidateInst(ZeroWord, value, size)
BY DEF ValidateInst, ZeroWord

LEMMA InitSlotInv == Init => SlotInv
BY ZeroesAreTyped DEF Init, SlotInv

LEMMA FreeAllKeepsSlotInv ==
    ASSUME SlotInv, NEW code, FreeAllAndExit(code)
    PROVE  SlotInv'
BY DEF FreeAllAndExit, SlotInv, slots

LEMMA NextSlotInv == TypeInv /\ SlotInv /\ [Next]_vars => SlotInv'
<1> SUFFICES ASSUME TypeInv, SlotInv, [Next]_vars PROVE SlotInv'
  OBVIOUS
<1>0. /\ Len(file.words) \in Nat
      /\ \A m \in 1..Len(file.words) : file.words[m] \in WordType
      /\ file.tail \in 0..3
  BY FileShape DEF TypeInv, TypeOK
<1>1. CASE ReadFile
  BY <1>1 DEF ReadFile, SlotInv, slots
<1>2. CASE ReadFileFails
  BY <1>2 DEF ReadFileFails, SlotInv, slots
<1>3. CASE NextSlot
  <2> DEFINE cap == IF NeedsRoom THEN 2 * inst_cap ELSE inst_cap
  <2>1. cap \in Nat /\ cap >= 2 /\ inst_cap \in Nat /\ inst_cap >= 2
    BY <1>3, BoundsAssumption DEF NeedsRoom, TypeInv, TypeOK
  <2>2. insts' = Grown(insts, cap) /\ inst_values' = Grown(inst_values, cap)
    BY <1>3 DEF NextSlot
  <2> HIDE DEF cap
  <2>3. /\ insts'[0] = insts[0] /\ insts'[1] = insts[1]
        /\ inst_values'[0] = inst_values[0] /\ inst_values'[1] = inst_values[1]
    BY <2>1, <2>2 DEF Grown
  <2>4. pc' = "unpack" /\ i' = i /\ i = 0
    BY <1>3 DEF NextSlot, SlotInv
  <2> QED
    BY <2>3, <2>4 DEF SlotInv
<1>4. CASE OutOfMemory
  BY <1>4 DEF OutOfMemory, SlotInv, slots
<1>5. CASE EndOfFile
  BY <1>5 DEF EndOfFile, SlotInv, slots, TypeInv, TypeOK
<1>6. CASE UnpackShort
  BY <1>6 DEF UnpackShort, SlotInv, slots
<1>7. CASE UnpackWord
  <2>1. /\ insts'[0] \in WordType \cup {Indet} /\ inst_values'[0] \in ValueType \cup {Indet}
        /\ insts'[1] = insts[1] /\ inst_values'[1] = inst_values[1]
    BY <1>7, NextTypeInv DEF UnpackWord, TypeInv, TypeOK, idx
  <2>2. off + 1 \in 1..Len(file.words)
    BY <1>7, WordInFile DEF UnpackWord, TypeInv
  <2>3. insts'[0] \in WordType
    BY <1>0, <1>7, <2>2 DEF UnpackWord, TypeInv, TypeOK, idx
  <2>4. inst_values'[0] \in ValueType
    <3> DEFINE inst == file.words[off + 1]
    <3>1. CASE TakesValue(inst) /\ ~ValueCut(inst)
      <4>1. off + 2 \in 1..Len(file.words) /\ off + 3 \in 1..Len(file.words)
        BY <1>0, <3>1 DEF ValueCut, WordsLeft, TypeInv, TypeOK
      <4>2. <<file.words[off + 2], file.words[off + 3]>> \in ValueType
        BY <1>0, <4>1 DEF ValueType
      <4> QED
        BY <1>7, <3>1, <4>2 DEF UnpackWord, TypeInv, TypeOK, idx
    <3>2. CASE ~(TakesValue(inst) /\ ~ValueCut(inst))
      BY <1>7, <3>2 DEF UnpackWord, SlotInv
    <3> QED
      BY <3>1, <3>2
  <2>5. pc' \in {"ext", "unpacked"} /\ i' = i /\ i = 0
    BY <1>7 DEF UnpackWord, SlotInv
  <2> QED
    BY <2>1, <2>3, <2>4, <2>5 DEF SlotInv
<1>8. CASE UnpackExtMask
  <2>1. pc' \in {"ext", "unpacked", "corrupt"} /\ pc = "ext"
    BY <1>8 DEF UnpackExtMask
  <2> QED
    BY <1>8, <2>1 DEF UnpackExtMask, SlotInv
<1>9. CASE UnpackExtEnd
  BY <1>9 DEF UnpackExtEnd, SlotInv, slots
<1>10. CASE Reject
  BY <1>10, FreeAllKeepsSlotInv DEF Reject
<1>11. CASE TrailingBytes
  BY <1>11 DEF TrailingBytes, SlotInv, slots, TypeInv, TypeOK
<1>12. CASE Advance
  BY <1>12 DEF Advance, SlotInv
<1>13. CASE ValidateNext
  <2>1. CASE SlotIsValid(i)
    <3>1. /\ i' = i + 1 /\ pc' = "validate" /\ UNCHANGED slots /\ i < inst_count
      BY <1>13, <2>1 DEF ValidateNext, Validated, TypeInv, TypeOK
    <3>2. \A s \in 0..inst_cap - 1 : s < i + 1 => SlotIsValid(s)
      BY <2>1, <1>13 DEF SlotInv, ValidateNext, TypeInv, TypeOK
    <3>3. i' <= inst_count'
      BY <3>1 DEF slots, TypeInv, TypeOK
    <3>4. \A s \in 0..inst_cap' - 1 : s < i' => SlotIsValid(s)'
      BY <3>1, <3>2 DEF slots, SlotIsValid
    <3> QED
      BY <3>1, <3>3, <3>4 DEF SlotInv, slots
  <2>2. CASE ~SlotIsValid(i)
    BY <1>13, <2>2, FreeAllKeepsSlotInv DEF ValidateNext
  <2> QED
    BY <2>1, <2>2
<1>14. CASE AllValid
  <2>1. /\ pc' = "run" /\ i' = i /\ UNCHANGED slots /\ i >= inst_count /\ i <= inst_count
    BY <1>14 DEF AllValid, Validated, SlotInv
  <2>2. i = inst_count
    BY <2>1 DEF TypeInv, TypeOK
  <2>3. \A s \in 0..inst_cap' - 1 : s < i' => SlotIsValid(s)'
    BY <2>1, <1>14 DEF SlotInv, AllValid, slots, SlotIsValid
  <2> QED
    BY <2>1, <2>2, <2>3 DEF SlotInv, slots, TypeInv, TypeOK
<1>15. CASE RunReturns
  BY <1>15, FreeAllKeepsSlotInv DEF RunReturns
<1>16. CASE RunCrashes
  BY <1>16 DEF RunCrashes, SlotInv, slots
<1>17. CASE UNCHANGED vars
  BY <1>17 DEF vars, SlotInv, slots, SlotIsValid
<1> QED
  BY <1>1, <1>2, <1>3, <1>4, <1>5, <1>6, <1>7, <1>8, <1>9, <1>10, <1>11, <1>12, <1>13,
     <1>14, <1>15, <1>16, <1>17 DEF Next, Step, Loading, Terminating

\* The loop stops at slot 1 at the latest.
LEMMA LoopStopsAtSlotOne ==
    ASSUME TypeInv, SlotInv, pc \in {"validate", "run"}
    PROVE  i <= 1
<1> SUFFICES ASSUME i >= 2 PROVE FALSE
  BY DEF TypeInv, TypeOK
<1>1. 1 \in 0..inst_cap - 1 /\ 1 < i
  BY DEF TypeInv, TypeOK
<1>2. SlotIsValid(1) /\ insts[1] = ZeroWord
  BY <1>1 DEF SlotInv
<1> QED
  BY <1>2, ZeroWordIsInvalid DEF SlotIsValid

\* Only validated slots reach pvcpu_run.
THEOREM OnlyValidatedRun == Spec => []TranslatedIsValidated
<1>1. TypeInv /\ SlotInv => TranslatedIsValidated
  <2> SUFFICES ASSUME TypeInv, SlotInv, pc = "run", NEW s \in 0..inst_count - 1
               PROVE  ValidateInst(insts[s], inst_values[s], inst_cap)
    BY DEF TranslatedIsValidated
  <2>1. s \in 0..inst_cap - 1 /\ s < i
    BY DEF TypeInv, TypeOK, SlotInv
  <2> QED
    BY <2>1 DEF SlotInv, SlotIsValid
<1> QED
  BY InitTypeInv, NextTypeInv, InitSlotInv, NextSlotInv, <1>1, PTL DEF Spec

\* The validator never looks at memory realloc left uninitialised.
THEOREM ValidatorReadsOnlyDefined == Spec => []ValidatorReadsDefined
<1>1. TypeInv /\ SlotInv => ValidatorReadsDefined
  <2> SUFFICES ASSUME TypeInv, SlotInv, pc = "validate", i < inst_count
               PROVE  insts[i] # Indet /\ inst_values[i] # Indet
    BY DEF ValidatorReadsDefined
  <2>1. i = 0 \/ i = 1
    BY LoopStopsAtSlotOne DEF TypeInv, TypeOK
  <2> QED
    BY <2>1, IndetAssumption, ZeroesAreTyped DEF SlotInv
<1> QED
  BY InitTypeInv, NextTypeInv, InitSlotInv, NextSlotInv, <1>1, PTL DEF Spec

-----------------------------------------------------------------------------
(* The loops against the closed form Runnable: how far the loader has got    *)
(* through the file, and what slot 0 holds, for no, one and more counted     *)
(* instructions.                                                             *)

FirstLength == IF TakesValue(file.words[1]) THEN 3 ELSE 1

SlotOfFirst ==
    /\ insts[0] = file.words[1]
    /\ inst_values[0] = IF TakesValue(file.words[1])
                        THEN <<file.words[2], file.words[3]>> ELSE ZeroValue

\* The file whose only word announces a value it does not have: main spins.
OnlyWordCut == /\ Len(file.words) = 1 /\ file.tail = 0 /\ off = 0
               /\ TakesValue(file.words[1])

\* The word being unpacked, between the header and the return.
Unpacking ==
    pc \in {"ext", "unpacked"} /\ BytesLeft >= 4 =>
        LET inst == file.words[off + 1] IN
        /\ insts[0] = inst
        /\ read # 0 => read = IF TakesValue(inst) THEN 3 ELSE 1
        /\ read # 0 /\ TakesValue(inst) =>
               inst_values[0] = <<file.words[off + 2], file.words[off + 3]>>
        /\ ~TakesValue(inst) /\ inst_count = 0 => inst_values[0] = ZeroValue
        /\ read = 0 => ValueCut(inst) \/ (TakesExt(inst) /\ BytesLeft > 4)
        /\ pc = "ext" => read # 0 /\ TakesExt(inst)

\* Slot 0 still holds the last counted instruction.
Settled == \/ pc \in {"start", "loop", "unpack", "validate", "run"}
           \/ pc = "unpacked" /\ BytesLeft < 4

NoneCounted ==
    inst_count = 0 =>
        /\ off = 0 /\ inst_cap = 2
        /\ Settled => inst_values[0] = ZeroValue

OneCounted ==
    inst_count = 1 =>
        /\ Len(file.words) >= 1 /\ inst_cap = 2
        /\ \/ OnlyWordCut
           \/ off = FirstLength /\ (Settled => SlotOfFirst)

MoreCounted == inst_count >= 2 => Len(file.words) >= 1 /\ Len(file.words) # FirstLength

FileInv ==
    /\ Unpacking /\ NoneCounted /\ OneCounted /\ MoreCounted
    /\ pc = "ext" => BytesLeft >= 4
    /\ pc \in {"validate", "run"} => BytesLeft < 4
    /\ exit_code \in {5, 6} => ~Runnable(file)

LEMMA InitFileInv == Init => FileInv
BY DEF Init, FileInv, Unpacking, NoneCounted, OneCounted, MoreCounted

\* Freeing everything and leaving: only the exit code has to be accounted for.
LEMMA FreeAllKeepsFileInv ==
    ASSUME FileInv, NEW code, FreeAllAndExit(code), code \in {5, 6} => ~Runnable(file)
    PROVE  FileInv'
<1>1. /\ UNCHANGED <<file, off, slots, read>> /\ pc' \in {"exit", "corrupt"}
      /\ exit_code' \in {code, exit_code}
  BY DEF FreeAllAndExit
<1>2. Unpacking' /\ NoneCounted' /\ OneCounted' /\ MoreCounted'
  BY <1>1 DEF FileInv, Unpacking, NoneCounted, OneCounted, MoreCounted, Settled, OnlyWordCut,
              FirstLength, slots
<1>3. exit_code' \in {5, 6} => ~Runnable(file)'
  BY <1>1 DEF FileInv, Runnable
<1> QED
  BY <1>1, <1>2, <1>3 DEF FileInv

\* A step that moves pc alone, between two states in which slot 0 is settled.
LEMMA SettledKeepsFileInv ==
    ASSUME FileInv, UNCHANGED <<file, off, slots, exit_code>>,
           pc' \notin {"ext", "unpacked"}, Settled' => Settled,
           pc' \in {"validate", "run"} => BytesLeft < 4
    PROVE  FileInv'
<1>1. BytesLeft' = BytesLeft
  BY DEF BytesLeft, WordsLeft
<1>2. NoneCounted' /\ OneCounted' /\ MoreCounted' /\ Unpacking'
  BY DEF FileInv, Unpacking, NoneCounted, OneCounted, MoreCounted, OnlyWordCut, FirstLength,
         SlotOfFirst, slots
<1>3. exit_code' \in {5, 6} => ~Runnable(file)'
  BY DEF FileInv, Runnable
<1> QED
  BY <1>1, <1>2, <1>3 DEF FileInv

LEMMA NextFileInv == TypeInv /\ SlotInv /\ FileInv /\ [Next]_vars => FileInv'
<1> SUFFICES ASSUME TypeInv, SlotInv, FileInv, [Next]_vars PROVE FileInv'
  OBVIOUS
<1>0. /\ Len(file.words) \in Nat /\ file.tail \in 0..3
      /\ off \in Nat /\ off <= Len(file.words)
      /\ read \in 0..3 /\ inst_cap \in Nat /\ inst_cap >= 2 /\ inst_count \in Nat
      /\ WordsLeft = Len(file.words) - off /\ WordsLeft \in Nat
      /\ BytesLeft = 4 * WordsLeft + file.tail /\ BytesLeft \in Nat
  BY FileShape DEF TypeInv, TypeOK, OffsetInFile, WordsLeft, BytesLeft
<1>r. exit_code' = exit_code /\ file' = file => (exit_code' \in {5, 6} => ~Runnable(file)')
  BY DEF FileInv, Runnable
<1>1. CASE ReadFile
  BY <1>1, SettledKeepsFileInv DEF ReadFile, Settled, slots
<1>2. CASE ReadFileFails
  BY <1>2, <1>0 DEF ReadFileFails, FileInv, Unpacking, NoneCounted, OneCounted, MoreCounted,
     Settled, OnlyWordCut, FirstLength, SlotOfFirst, slots, Runnable
<1>3. CASE NextSlot
  <2>1. /\ inst_count <= 1 => inst_cap' = inst_cap
        /\ inst_count' = inst_count /\ off' = off /\ file' = file /\ exit_code' = exit_code
        /\ pc' = "unpack" /\ pc = "loop"
    BY <1>0, <1>3 DEF NextSlot, NeedsRoom, NoneCounted, OneCounted, FileInv
  <2>2. insts'[0] = insts[0] /\ inst_values'[0] = inst_values[0]
    <3> DEFINE cap == IF NeedsRoom THEN 2 * inst_cap ELSE inst_cap
    <3>1. cap \in Nat /\ cap >= 2
      BY <1>0 DEF NeedsRoom
    <3>2. insts' = Grown(insts, cap) /\ inst_values' = Grown(inst_values, cap)
      BY <1>3 DEF NextSlot
    <3> HIDE DEF cap
    <3> QED
      BY <1>0, <3>1, <3>2 DEF Grown
  <2>3. NoneCounted' /\ OneCounted' /\ MoreCounted' /\ Unpacking'
    BY <1>0, <2>1, <2>2 DEF FileInv, Unpacking, NoneCounted, OneCounted, MoreCounted, Settled,
       OnlyWordCut, FirstLength, SlotOfFirst
  <2> QED
    BY <1>r, <2>1, <2>3 DEF FileInv
<1>4. CASE OutOfMemory
  BY <1>4, SettledKeepsFileInv DEF OutOfMemory, Settled
<1>5. CASE EndOfFile
  BY <1>5, SettledKeepsFileInv DEF EndOfFile, Settled
<1>6. CASE UnpackShort
  <2>1. /\ UNCHANGED <<file, off, slots, exit_code>> /\ pc = "unpack" /\ pc' = "unpacked"
        /\ BytesLeft < 4
    BY <1>6 DEF UnpackShort
  <2>2. BytesLeft' = BytesLeft
    BY <2>1 DEF BytesLeft, WordsLeft
  <2>3. NoneCounted' /\ OneCounted' /\ MoreCounted'
    BY <2>1, <2>2 DEF FileInv, NoneCounted, OneCounted, MoreCounted, Settled, OnlyWordCut,
       FirstLength, SlotOfFirst, slots
  <2>4. Unpacking'
    BY <1>0, <2>1, <2>2 DEF Unpacking
  <2> QED
    BY <1>r, <2>1, <2>3, <2>4 DEF FileInv
<1>7. CASE UnpackWord
  <2> DEFINE inst == file.words[off + 1]
  <2>1. /\ UNCHANGED <<file, off, inst_cap, inst_count, exit_code>>
        /\ pc = "unpack" /\ pc' \in {"ext", "unpacked"} /\ BytesLeft >= 4
        /\ pc' = "ext" => TakesExt(inst) /\ ~ValueCut(inst)
        /\ read' = IF ValueCut(inst) THEN 0 ELSE IF TakesValue(inst) THEN 3 ELSE 1
    BY <1>7 DEF UnpackWord, UnpackedLength
  <2>2. BytesLeft' = BytesLeft /\ WordsLeft' = WordsLeft
    BY <2>1 DEF BytesLeft, WordsLeft
  <2>3. /\ insts'[0] = inst
        /\ TakesValue(inst) /\ ~ValueCut(inst) =>
               inst_values'[0] = <<file.words[off + 2], file.words[off + 3]>>
        /\ ~TakesValue(inst) => inst_values'[0] = inst_values[0]
    BY <1>7 DEF UnpackWord, idx, TypeInv, TypeOK
  <2>4. ~Settled'
    BY <1>0, <2>1, <2>2 DEF Settled
  <2>5. NoneCounted' /\ OneCounted' /\ MoreCounted'
    BY <2>1, <2>4 DEF FileInv, NoneCounted, OneCounted, MoreCounted, OnlyWordCut, FirstLength
  <2>6. Unpacking'
    <3>1. ~TakesValue(inst) /\ inst_count = 0 => inst_values'[0] = ZeroValue
      BY <2>1, <2>3 DEF FileInv, NoneCounted, Settled
    <3>2. ValueCut(inst)' = ValueCut(inst)
      BY <2>1, <2>2 DEF ValueCut
    <3> QED
      BY <2>1, <2>2, <2>3, <3>1, <3>2 DEF Unpacking
  <2> QED
    BY <1>r, <2>1, <2>2, <2>5, <2>6 DEF FileInv
<1>8. CASE UnpackExtMask
  <2>1. /\ UNCHANGED <<file, off, inst_cap, inst_count, insts, inst_values, read, exit_code>>
        /\ pc = "ext" /\ pc' \in {"ext", "unpacked", "corrupt"}
    BY <1>8 DEF UnpackExtMask
  <2>2. BytesLeft' = BytesLeft /\ WordsLeft' = WordsLeft
    BY <2>1 DEF BytesLeft, WordsLeft
  <2>3. BytesLeft >= 4 /\ ~Settled'
    BY <1>0, <2>1, <2>2 DEF Settled, FileInv
  <2>4. NoneCounted' /\ OneCounted' /\ MoreCounted'
    BY <2>1, <2>3 DEF FileInv, NoneCounted, OneCounted, MoreCounted, OnlyWordCut, FirstLength
  <2>5. Unpacking'
    BY <2>1, <2>2, <2>3 DEF FileInv, Unpacking, ValueCut
  <2> QED
    BY <1>r, <2>1, <2>2, <2>3, <2>4, <2>5 DEF FileInv
<1>9. CASE UnpackExtEnd
  <2>1. /\ UNCHANGED <<file, off, slots, exit_code>> /\ pc = "ext" /\ pc' = "unpacked"
        /\ read' = IF BytesLeft = 4 * read THEN read ELSE 0
    BY <1>9 DEF UnpackExtEnd
  <2>2. BytesLeft' = BytesLeft /\ WordsLeft' = WordsLeft
    BY <2>1 DEF BytesLeft, WordsLeft
  <2>3. BytesLeft >= 4 /\ ~Settled'
    BY <1>0, <2>1, <2>2 DEF Settled, FileInv
  <2>4. NoneCounted' /\ OneCounted' /\ MoreCounted'
    BY <2>1, <2>3 DEF FileInv, NoneCounted, OneCounted, MoreCounted, OnlyWordCut, FirstLength,
       slots
  <2>5. read # 0 /\ off + read <= Len(file.words)
    BY <2>1, <2>3 DEF FileInv, Unpacking, TypeInv, OffsetInFile
  <2>6. read' = 0 => BytesLeft > 4
    BY <1>0, <2>1, <2>5
  <2>7. Unpacking'
    BY <2>1, <2>2, <2>3, <2>6 DEF FileInv, Unpacking, ValueCut, slots
  <2> QED
    BY <1>r, <2>1, <2>2, <2>3, <2>4, <2>7 DEF FileInv
<1>10. CASE Reject
  <2>1. pc = "unpacked" /\ read = 0 /\ BytesLeft > 4 /\ FreeAllAndExit(5)
    BY <1>10 DEF Reject, UnpackFailed
  <2>2. Len(file.words) >= 1 /\ Len(file.words) > off
    BY <1>0, <2>1
  <2>3. ~Runnable(file)
    <3>1. CASE inst_count = 0
      <4>1. off = 0
        BY <3>1 DEF FileInv, NoneCounted
      <4>2. ValueCut(file.words[1]) \/ TakesExt(file.words[1])
        BY <1>0, <2>1, <4>1 DEF FileInv, Unpacking
      <4>3. CASE ValueCut(file.words[1])
        BY <1>0, <2>2, <4>1, <4>3 DEF ValueCut, Runnable
      <4>4. CASE TakesExt(file.words[1])
        BY <2>2, <4>4 DEF TakesExt, Runnable, ValidateInst
      <4> QED
        BY <4>2, <4>3, <4>4
    <3>2. CASE inst_count = 1
      <4>0. ~OnlyWordCut
        <5> SUFFICES ASSUME OnlyWordCut PROVE FALSE
          OBVIOUS
        <5>1. WordsLeft = 1 /\ file.tail = 0
          BY DEF OnlyWordCut, WordsLeft
        <5>2. BytesLeft = 4
          BY <1>0, <5>1
        <5> QED
          BY <2>1, <5>2
      <4>1. off = FirstLength
        BY <3>2, <4>0 DEF FileInv, OneCounted
      <4> QED
        BY <1>0, <2>2, <4>1 DEF FirstLength, Runnable
    <3>3. CASE inst_count >= 2
      BY <2>2, <3>3 DEF FileInv, MoreCounted, FirstLength, Runnable
    <3> QED
      BY <1>0, <3>1, <3>2, <3>3
  <2> QED
    BY <2>1, <2>3, FreeAllKeepsFileInv
<1>11. CASE TrailingBytes
  BY <1>11, SettledKeepsFileInv DEF TrailingBytes, Trailing, Settled
<1>12. CASE Advance
  <2>1. /\ UNCHANGED <<file, inst_cap, insts, inst_values, read, exit_code>>
        /\ off' = off + read /\ inst_count' = inst_count + 1
        /\ pc = "unpacked" /\ pc' = "loop" /\ BytesLeft >= 4
        /\ read # 0 \/ BytesLeft = 4
    BY <1>0, <1>12 DEF Advance, Trailing, UnpackFailed
  <2>2. Len(file.words) >= 1 /\ Len(file.words) > off
    BY <1>0, <2>1
  <2>3. CASE inst_count = 0
    <3>1. off = 0 /\ inst_cap = 2
      BY <2>3 DEF FileInv, NoneCounted
    <3>2. FirstLength' = FirstLength /\ (SlotOfFirst' <=> SlotOfFirst)
      BY <2>1 DEF FirstLength, SlotOfFirst
    <3>3. ASSUME read # 0 PROVE OneCounted'
      <4>0. off + 1 = 1 /\ off + 2 = 2 /\ off + 3 = 3
        BY <3>1
      <4>1. /\ insts[0] = file.words[1] /\ read = FirstLength
            /\ TakesValue(file.words[1]) => inst_values[0] = <<file.words[2], file.words[3]>>
            /\ ~TakesValue(file.words[1]) => inst_values[0] = ZeroValue
        BY <2>1, <2>3, <3>3, <4>0, Zenon DEF FileInv, Unpacking, FirstLength
      <4>2. off' = FirstLength' /\ SlotOfFirst'
        BY <1>0, <2>1, <3>1, <3>2, <4>1 DEF SlotOfFirst
      <4> QED
        BY <2>1, <2>2, <2>3, <3>1, <4>2 DEF OneCounted
    <3>4. ASSUME read = 0 PROVE OneCounted'
      <4>1. BytesLeft = 4 /\ Len(file.words) = 1 /\ file.tail = 0
        <5>1. BytesLeft = 4
          BY <2>1, <3>4
        <5>2. WordsLeft = 1 /\ file.tail = 0
          BY <1>0, <5>1
        <5> QED
          BY <1>0, <3>1, <5>1, <5>2
      <4>2. TakesValue(file.words[1])
        BY <2>1, <3>1, <3>4, <4>1 DEF FileInv, Unpacking, ValueCut
      <4>3. OnlyWordCut'
        BY <2>1, <3>1, <3>4, <4>1, <4>2 DEF OnlyWordCut
      <4> QED
        BY <2>1, <2>2, <3>1, <4>3 DEF OneCounted
    <3>5. NoneCounted' /\ MoreCounted'
      BY <2>1, <2>3 DEF NoneCounted, MoreCounted
    <3> QED
      BY <1>r, <2>1, <3>3, <3>4, <3>5 DEF FileInv, Unpacking
  <2>4. CASE inst_count = 1
    <3>1. Len(file.words) # FirstLength
      <4>1. CASE OnlyWordCut
        BY <4>1 DEF OnlyWordCut, FirstLength
      <4>2. CASE off = FirstLength
        BY <1>0, <2>2, <4>2 DEF FirstLength
      <4> QED
        BY <2>4, <4>1, <4>2 DEF FileInv, OneCounted
    <3>2. NoneCounted' /\ OneCounted' /\ MoreCounted'
      BY <2>1, <2>2, <2>4, <3>1 DEF NoneCounted, OneCounted, MoreCounted, FirstLength
    <3> QED
      BY <1>r, <2>1, <3>2 DEF FileInv, Unpacking
  <2>5. CASE inst_count >= 2
    <3>1. NoneCounted' /\ OneCounted' /\ MoreCounted'
      BY <1>0, <2>1, <2>5 DEF FileInv, NoneCounted, OneCounted, MoreCounted, FirstLength
    <3> QED
      BY <1>r, <2>1, <3>1 DEF FileInv, Unpacking
  <2> QED
    BY <1>0, <2>3, <2>4, <2>5
<1>13. CASE ValidateNext
  <2>1. CASE SlotIsValid(i)
    BY <1>13, <2>1, SettledKeepsFileInv DEF ValidateNext, FileInv, Settled, FreeAllAndExit
  <2>2. CASE ~SlotIsValid(i)
    <3>1. pc = "validate" /\ i < inst_count /\ FreeAllAndExit(6)
      BY <1>0, <1>13, <2>2 DEF ValidateNext, Validated, TypeInv, TypeOK
    <3>2. off = Len(file.words)
      BY <1>0, <3>1 DEF FileInv
    <3>3. ~Runnable(file)
      <4>1. CASE inst_count = 1
        <5>1. i = 0 /\ inst_cap = 2
          BY <3>1, <4>1 DEF FileInv, OneCounted, TypeInv, TypeOK
        <5>2. off = FirstLength /\ SlotOfFirst
          BY <1>0, <3>1, <3>2, <4>1 DEF FileInv, OneCounted, OnlyWordCut, Settled
        <5> QED
          BY <2>2, <3>2, <4>1, <5>1, <5>2
          DEF Runnable, SlotIsValid, SlotOfFirst, FirstLength, FileInv, OneCounted
      <4>2. CASE inst_count >= 2
        BY <4>2 DEF FileInv, MoreCounted, FirstLength, Runnable
      <4> QED
        BY <1>0, <3>1, <4>1, <4>2 DEF TypeInv, TypeOK
    <3> QED
      BY <3>1, <3>3, FreeAllKeepsFileInv
  <2> QED
    BY <2>1, <2>2
<1>14. CASE AllValid
  BY <1>14, SettledKeepsFileInv DEF AllValid, FileInv, Settled
<1>15. CASE RunReturns
  BY <1>15, FreeAllKeepsFileInv DEF RunReturns
<1>16. CASE RunCrashes
  BY <1>16, SettledKeepsFileInv DEF RunCrashes, Settled
<1>17. CASE UNCHANGED vars
  BY <1>17 DEF vars, slots, FileInv, Unpacking, NoneCounted, OneCounted, MoreCounted, Settled,
     OnlyWordCut, FirstLength, SlotOfFirst, BytesLeft, WordsLeft, ValueCut, Runnable
<1> QED
  BY <1>1, <1>2, <1>3, <1>4, <1>5, <1>6, <1>7, <1>8, <1>9, <1>10, <1>11, <1>12, <1>13,
     <1>14, <1>15, <1>16, <1>17 DEF Next, Step, Loading, Terminating

\* What is run is the file's instruction and value, and only Runnable files get there.
RunsExactlyRunnable ==
    /\ pc = "run" => /\ Runnable(file)
                     /\ inst_count = IF file.words = <<>> THEN 0 ELSE 1
                     /\ inst_count = 1 => insts[0] = file.words[1]
                     /\ inst_count = 1 /\ TakesValue(insts[0]) =>
                            inst_values[0] = <<file.words[2], file.words[3]>>
    /\ exit_code \in {5, 6} => ~Runnable(file)

LEMMA RunnableRuns == TypeInv /\ SlotInv /\ FileInv => RunsExactlyRunnable
<1> SUFFICES ASSUME TypeInv, SlotInv, FileInv, pc = "run"
             PROVE  /\ Runnable(file)
                    /\ inst_count = IF file.words = <<>> THEN 0 ELSE 1
                    /\ inst_count = 1 => insts[0] = file.words[1]
                    /\ inst_count = 1 /\ TakesValue(insts[0]) =>
                           inst_values[0] = <<file.words[2], file.words[3]>>
  BY DEF RunsExactlyRunnable, FileInv
<1>1. /\ inst_count \in Nat /\ inst_count <= 1 /\ i = inst_count
      /\ off = Len(file.words) /\ Len(file.words) \in Nat
  <2>1. inst_count \in Nat /\ inst_count <= 1 /\ i = inst_count
    BY LoopStopsAtSlotOne DEF SlotInv, TypeInv, TypeOK
  <2>2. /\ Len(file.words) \in Nat /\ off \in Nat /\ off <= Len(file.words) /\ file.tail \in Nat
    BY FileShape DEF TypeInv, TypeOK, OffsetInFile
  <2>3. 4 * (Len(file.words) - off) + file.tail < 4
    BY DEF FileInv, BytesLeft, WordsLeft
  <2> QED
    BY <2>1, <2>2, <2>3
<1>2. file.words = <<>> <=> Len(file.words) = 0
  BY FileShape DEF TypeInv, TypeOK, Files
<1>3. CASE inst_count = 0
  BY <1>1, <1>2, <1>3 DEF FileInv, NoneCounted, Runnable
<1>4. CASE inst_count = 1
  <2>1. off = FirstLength /\ SlotOfFirst /\ inst_cap = 2
    BY <1>1, <1>4, FileShape
    DEF FileInv, OneCounted, OnlyWordCut, Settled, BytesLeft, WordsLeft, TypeInv, TypeOK
  <2>2. SlotIsValid(0)
    BY <1>1, <1>4, <2>1 DEF SlotInv
  <2>3. Runnable(file)
    BY <1>1, <2>1, <2>2 DEF Runnable, SlotIsValid, SlotOfFirst, FirstLength
  <2> QED
    BY <1>1, <1>2, <1>4, <2>1, <2>3 DEF SlotOfFirst, FirstLength
<1> QED
  BY <1>1, <1>3, <1>4

LEMMA WholeFileIsRun == TypeInv /\ SlotInv /\ FileInv => RunsWholeFile
<1> SUFFICES ASSUME TypeInv, SlotInv, FileInv, pc = "run"
             PROVE  \E start \in [0..inst_count -> 0..Len(file.words)] :
                       /\ start[0] = 0 /\ start[inst_count] = Len(file.words)
                       /\ \A s \in 0..inst_count - 1 :
                             LET inst == file.words[start[s] + 1] IN
                             /\ start[s + 1] = start[s] + (IF TakesValue(inst) THEN 3 ELSE 1)
                             /\ insts[s] = inst
                             /\ TakesValue(inst) => inst_values[s] =
                                    <<file.words[start[s] + 2], file.words[start[s] + 3]>>
  BY DEF RunsWholeFile
<1>1. /\ Runnable(file) /\ Len(file.words) \in Nat
      /\ inst_count = IF file.words = <<>> THEN 0 ELSE 1
      /\ inst_count = 1 => insts[0] = file.words[1]
      /\ inst_count = 1 /\ TakesValue(insts[0]) => inst_values[0] = <<file.words[2], file.words[3]>>
  BY RunnableRuns, FileShape DEF RunsExactlyRunnable, TypeInv, TypeOK
<1>2. file.words = <<>> <=> Len(file.words) = 0
  BY FileShape DEF TypeInv, TypeOK, Files
<1>3. CASE inst_count = 0
  <2>1. Len(file.words) = 0
    BY <1>1, <1>2, <1>3
  <2> WITNESS [m \in 0..inst_count |-> 0] \in [0..inst_count -> 0..Len(file.words)]
  <2> QED
    BY <1>3, <2>1
<1>4. CASE inst_count = 1
  <2> DEFINE length == IF TakesValue(file.words[1]) THEN 3 ELSE 1
             start  == [m \in 0..inst_count |-> IF m = 0 THEN 0 ELSE length]
  <2>1. Len(file.words) = length
    BY <1>1, <1>2, <1>4 DEF Runnable
  <2>2. /\ start \in [0..inst_count -> 0..Len(file.words)]
        /\ start[0] = 0 /\ start[1] = length
    BY <1>1, <1>4, <2>1
  <2>3. \A s \in 0..inst_count - 1 :
           LET inst == file.words[start[s] + 1] IN
           /\ start[s + 1] = start[s] + (IF TakesValue(inst) THEN 3 ELSE 1)
           /\ insts[s] = inst
           /\ TakesValue(inst) => inst_values[s] =
                  <<file.words[start[s] + 2], file.words[start[s] + 3]>>
    BY <1>1, <1>4, <2>2
  <2> HIDE DEF start, length
  <2> QED
    BY <1>4, <2>1, <2>2, <2>3
<1> QED
  BY <1>1, <1>3, <1>4

\* For every file: what pvcpu_run is given is the file cut into instructions, none
\* left out, none cut short, each with its own value.
THEOREM RunsTheWholeFile == Spec => []RunsWholeFile
BY InitTypeInv, NextTypeInv, InitSlotInv, NextSlotInv, InitFileInv, NextFileInv, WholeFileIsRun,
   PTL DEF Spec

LEMMA WordValueIsInt == ASSUME NEW w \in WordType PROVE WordValue(w) \in Int
<1>1. w.opcode \in Int /\ w.mode \in Int /\ w.src \in Int /\ w.dest \in Int
  <2> DEFINE Opcode == 0..4095
             Field  == 0..63
             Mode   == 0..15
  <2>1. Opcode \subseteq Int /\ Field \subseteq Int /\ Mode \subseteq Int
    OBVIOUS
  <2>2. w \in [opcode : Opcode, mode : Mode, src : Field, dest : Field, flags : SUBSET Flag]
    BY DEF WordType
  <2> HIDE DEF Opcode, Field, Mode
  <2> QED
    BY <2>1, <2>2
<1>2. FlagBits(w.flags) \in Int
  BY DEF FlagBits
<1> QED
  BY <1>1, <1>2 DEF WordValue

LEMMA DisplacementIsSmall == TypeInv /\ SlotInv /\ FileInv => DisplacementInMemory
<1> SUFFICES ASSUME TypeInv, SlotInv, FileInv, pc = "run",
                    NEW s \in 0..inst_count - 1, "disp64" \in insts[s].flags
             PROVE  inst_values[s][2] = ZeroWord /\ WordValue(inst_values[s][1]) < MEM_SIZE
  BY DEF DisplacementInMemory
<1>1. /\ Runnable(file) /\ inst_count = 1 /\ s = 0 /\ insts[0] = file.words[1]
      /\ file.words # <<>>
      /\ TakesValue(insts[0]) => inst_values[0] = <<file.words[2], file.words[3]>>
  BY RunnableRuns DEF RunsExactlyRunnable, TypeInv, TypeOK
<1>2. file.words # <<>> /\ Len(file.words) \in Nat
  BY <1>1, FileShape DEF TypeInv, TypeOK
<1>3. /\ TakesValue(insts[0]) /\ Len(file.words) = 3
      /\ ValidateInst(insts[0], inst_values[0], 2)
  <2>1. Len(file.words) # 0
    BY <1>2, FileShape DEF TypeInv, TypeOK, Files
  <2>2. /\ Len(file.words) = IF TakesValue(insts[0]) THEN 3 ELSE 1
        /\ ValidateInst(insts[0], IF TakesValue(insts[0]) /\ Len(file.words) = 3
                                  THEN <<file.words[2], file.words[3]>> ELSE ZeroValue, 2)
    BY <1>1, <2>1 DEF Runnable
  <2>3. TakesValue(insts[0])
    BY <1>1, <2>2 DEF TakesValue, ValidateInst
  <2> QED
    BY <1>1, <2>2, <2>3
<1>4. inst_values[0][2] = ZeroWord /\ ~(WordValue(inst_values[0][1]) > 2)
  BY <1>1, <1>3 DEF ValidateInst, Exceeds
<1>5. inst_values[0][1] \in WordType
  <2>1. file.words[2] \in WordType
    BY <1>3, FileShape, WordsAssumption DEF TypeInv, TypeOK
  <2> QED
    BY <1>1, <1>3, <2>1
<1>6. WordValue(inst_values[0][1]) \in Int
  BY <1>5, WordValueIsInt
<1> QED
  BY <1>1, <1>4, <1>6 DEF MEM_SIZE

\* For every file: a displacement that is run is an address in the memory of main.
THEOREM DisplacementsStayInMemory == Spec => []DisplacementInMemory
BY InitTypeInv, NextTypeInv, InitSlotInv, NextSlotInv, InitFileInv, NextFileInv,
   DisplacementIsSmall, PTL DEF Spec

-----------------------------------------------------------------------------
(* What is released on the way out. *)

ReleaseInv == (pc = "start" => heap = {}) /\ ReachableReleased

\* NULL and the content of a slot realloc left alone are not blocks of the heap.
LEMMA NoBlockOfNull == TypeOK => heap \cap {Block(NULL), Block(Indet)} = {}
<1> SUFFICES ASSUME TypeOK, NEW b \in heap, b = Block(NULL) \/ b = Block(Indet) PROVE FALSE
  OBVIOUS
<1>1. b \notin Arrays
  BY DEF Arrays, Block
<1>2. PICK p \in 1..next_block - 1 : b = Block(p)
  BY <1>1 DEF TypeOK
<1>3. p # NULL /\ p # Indet
  BY IndetAssumption DEF NULL, TypeOK
<1> QED
  BY <1>2, <1>3 DEF Block

LEMMA FreeAllReleases ==
    ASSUME TypeOK, NEW code, FreeAllAndExit(code)
    PROVE  ReleaseInv'
<1>1. /\ heap' = heap \ (Arrays \cup {Block(p) : p \in Pointers \ {NULL, Indet}})
      /\ pc' # "start" /\ inst_extflags' = inst_extflags /\ inst_cap' = inst_cap
  BY DEF FreeAllAndExit, slots
<1>2. ASSUME NEW s \in 0..inst_cap - 1 PROVE Block(inst_extflags[s]) \notin heap'
  <2>1. CASE inst_extflags[s] \in {NULL, Indet}
    BY <1>1, <2>1, NoBlockOfNull
  <2>2. CASE inst_extflags[s] \notin {NULL, Indet}
    BY <1>1, <2>2 DEF Pointers
  <2> QED
    BY <2>1, <2>2
<1> QED
  BY <1>1, <1>2 DEF ReleaseInv, ReachableReleased

LEMMA NextReleaseInv == TypeInv /\ ReleaseInv /\ [Next]_vars => ReleaseInv'
<1> SUFFICES ASSUME TypeInv, ReleaseInv, [Next]_vars PROVE ReleaseInv'
  OBVIOUS
<1>1. CASE ReadFileFails
  BY <1>1 DEF ReadFileFails, ReleaseInv, ReachableReleased
<1>2. CASE Reject \/ RunReturns \/ (ValidateNext /\ pc' # "validate")
  BY <1>2, FreeAllReleases DEF Reject, RunReturns, ValidateNext, TypeInv
<1>3. CASE ValidateNext /\ pc' = "validate"
  BY <1>3 DEF ReleaseInv, ReachableReleased
<1>4. CASE UNCHANGED vars
  BY <1>4 DEF vars, slots, ReleaseInv, ReachableReleased
<1>5. CASE \/ ReadFile \/ NextSlot \/ OutOfMemory \/ EndOfFile \/ UnpackShort \/ UnpackWord
           \/ UnpackExtMask \/ UnpackExtEnd \/ TrailingBytes \/ Advance \/ AllValid \/ RunCrashes
  <2>1. pc' \notin {"start", "exit"}
    BY <1>5 DEF ReadFile, NextSlot, OutOfMemory, EndOfFile, UnpackShort, UnpackWord,
       UnpackExtMask, UnpackExtEnd, TrailingBytes, Advance, AllValid, RunCrashes
  <2> QED
    BY <2>1 DEF ReleaseInv, ReachableReleased
<1> QED
  BY <1>1, <1>2, <1>3, <1>4, <1>5 DEF Next, Step, Loading, Terminating

\* Whatever main can still reach when it returns has been freed.
THEOREM ExitsRelease == Spec => []ReachableReleased
<1>1. Init => ReleaseInv
  BY DEF Init, ReleaseInv, ReachableReleased
<1>2. ReleaseInv => ReachableReleased
  BY DEF ReleaseInv
<1> QED
  BY InitTypeInv, NextTypeInv, NextReleaseInv, <1>1, <1>2, PTL DEF Spec

-----------------------------------------------------------------------------
(* When main stays inside what it owns. *)

\* Two slots have no indeterminate pointer, and masks are read for the word at
\* the offset only.
PointerInv ==
    /\ inst_cap = 2 => Indet \notin Pointers
    /\ pc = "ext" => \E m \in 1..Len(file.words) : TakesExt(file.words[m])
    /\ CorruptionNeedsGrowth

LEMMA NextPointerInv == TypeInv /\ PointerInv /\ [Next]_vars => PointerInv'
<1> SUFFICES ASSUME TypeInv, PointerInv, [Next]_vars PROVE PointerInv'
  OBVIOUS
<1>0. inst_cap \in Nat /\ inst_cap >= 2 /\ MaxSlots \in Nat
  BY BoundsAssumption DEF TypeInv, TypeOK
<1>1. CASE NextSlot
  <2> DEFINE cap == IF NeedsRoom THEN 2 * inst_cap ELSE inst_cap
  <2>1. inst_cap' = cap /\ pc' = "unpack"
    BY <1>1 DEF NextSlot
  <2>2. inst_extflags' = [Grown(inst_extflags, cap) EXCEPT ![idx] = next_block]
    BY <1>1 DEF NextSlot
  <2>3. ASSUME inst_cap' = 2 PROVE Indet \notin Pointers'
    <3>1. cap = 2 /\ inst_cap = 2
      BY <1>0, <2>1, <2>3
    <3>2. \A s \in 0..1 : Grown(inst_extflags, cap)[s] = inst_extflags[s]
      BY <3>1 DEF Grown
    <3>3. \A s \in 0..1 : inst_extflags[s] # Indet
      BY <3>1 DEF PointerInv, Pointers
    <3>4. next_block # Indet
      BY IndetAssumption DEF TypeInv, TypeOK
    <3>5. \A s \in 0..1 : inst_extflags'[s] # Indet
      BY <2>2, <3>1, <3>2, <3>3, <3>4 DEF Grown
    <3> QED
      BY <2>3, <3>5 DEF Pointers
  <2> QED
    BY <2>1, <2>3 DEF PointerInv, CorruptionNeedsGrowth
<1>2. CASE UnpackWord
  <2>1. /\ UNCHANGED <<file, inst_cap, inst_extflags>> /\ pc' \in {"ext", "unpacked"}
        /\ pc' = "ext" => TakesExt(file.words[off + 1])
        /\ off + 1 \in 1..Len(file.words)
    BY <1>2, WordInFile DEF UnpackWord, TypeInv
  <2> QED
    BY <2>1 DEF PointerInv, Pointers, CorruptionNeedsGrowth
<1>3. CASE UnpackExtMask
  BY <1>3 DEF UnpackExtMask, PointerInv, Pointers, CorruptionNeedsGrowth
<1>4. ASSUME NEW code, FreeAllAndExit(code) PROVE PointerInv'
  <2>1. /\ UNCHANGED <<file, inst_cap, inst_extflags>> /\ pc' \in {"exit", "corrupt"}
        /\ pc' = "corrupt" => Indet \in Pointers
    BY <1>4 DEF FreeAllAndExit, slots
  <2>2. Pointers' = Pointers
    BY <2>1 DEF Pointers
  <2>3. pc' = "corrupt" => inst_cap' > 2
    BY <1>0, <2>1 DEF PointerInv
  <2> QED
    BY <2>1, <2>2, <2>3 DEF PointerInv, CorruptionNeedsGrowth
<1>5. CASE Reject \/ RunReturns \/ (ValidateNext /\ ~SlotIsValid(i))
  BY <1>4, <1>5 DEF Reject, RunReturns, ValidateNext
<1>6. CASE UNCHANGED vars
  BY <1>6 DEF vars, slots, PointerInv, Pointers, CorruptionNeedsGrowth
<1>7. CASE \/ ReadFile \/ ReadFileFails \/ OutOfMemory \/ EndOfFile \/ UnpackShort
           \/ UnpackExtEnd \/ TrailingBytes \/ Advance \/ AllValid \/ RunCrashes
           \/ (ValidateNext /\ SlotIsValid(i))
  <2>1. UNCHANGED <<file, inst_cap, inst_extflags>> /\ pc' \notin {"ext", "corrupt"}
    BY <1>7 DEF ReadFile, ReadFileFails, OutOfMemory, EndOfFile, UnpackShort, UnpackExtEnd,
       TrailingBytes, Advance, AllValid, RunCrashes, ValidateNext, slots
  <2> QED
    BY <2>1 DEF PointerInv, Pointers, CorruptionNeedsGrowth
<1> QED
  BY <1>1, <1>2, <1>3, <1>5, <1>6, <1>7 DEF Next, Step, Loading, Terminating

\* Until the arrays grow, a file without extended flags leaves main's memory whole.
THEOREM SmallFilesStayWhole == Spec => []CorruptionNeedsGrowth
<1>1. Init => PointerInv
  BY IndetAssumption DEF Init, NoPointers, NULL, PointerInv, Pointers, CorruptionNeedsGrowth
<1>2. PointerInv => CorruptionNeedsGrowth
  BY DEF PointerInv
<1> QED
  BY InitTypeInv, NextTypeInv, NextPointerInv, <1>1, <1>2, PTL DEF Spec
-----------------------------------------------------------------------------
(* main ends or runs out of memory: the extraction loop takes a slot with    *)
(* each turn, and realloc grants only so many.                               *)

\* Slot 0 is given a count by calloc, and realloc keeps it.
MasksInv == inst_extflags_count[0] \in 0..2

LEMMA NextMasksInv == TypeInv /\ MasksInv /\ [Next]_vars => MasksInv'
<1> SUFFICES ASSUME TypeInv, MasksInv, [Next]_vars PROVE MasksInv'
  OBVIOUS
<1>1. CASE NextSlot
  <2> DEFINE cap == IF NeedsRoom THEN 2 * inst_cap ELSE inst_cap
  <2>1. cap \in Nat /\ cap >= 2 /\ inst_cap \in Nat /\ inst_cap >= 2
    BY DEF NeedsRoom, TypeInv, TypeOK
  <2>2. inst_extflags_count' = Grown(inst_extflags_count, cap)
    BY <1>1 DEF NextSlot
  <2> HIDE DEF cap
  <2>3. inst_extflags_count'[0] = inst_extflags_count[0]
    BY <2>1, <2>2 DEF Grown
  <2> QED
    BY <2>3 DEF MasksInv
<1>2. CASE UnpackExtMask
  <2>1. inst_cap \in Nat /\ inst_cap >= 2 /\ DOMAIN inst_extflags_count = 0..inst_cap - 1
    BY DEF TypeInv, TypeOK
  <2>2. 0 \in DOMAIN inst_extflags_count
    BY <2>1
  <2> QED
    BY <1>2, <2>2 DEF UnpackExtMask, MasksInv, idx
<1>3. CASE UNCHANGED slots
  BY <1>3 DEF slots, MasksInv
<1>4. CASE ~NextSlot /\ ~UnpackExtMask
  <2>1. UNCHANGED inst_extflags_count
    BY <1>4 DEF Next, Step, Loading, Terminating, ReadFile, ReadFileFails, OutOfMemory, EndOfFile,
       UnpackShort, UnpackWord, UnpackExtEnd, Reject, TrailingBytes, Advance, ValidateNext,
       AllValid, RunReturns, RunCrashes, FreeAllAndExit, slots, vars
  <2> QED
    BY <2>1 DEF MasksInv
<1> QED
  BY <1>1, <1>2, <1>4

\* Ten steps for each slot realloc can still grant, and one for each slot the
\* validator may look at.
ForSlots == 10 * (MaxSlots - inst_count) + MaxSlots

\* The slots still to be validated.
ToValidate == IF i < inst_count THEN inst_count - i ELSE 0

\* An upper bound on the steps that are left.
LLeft == CASE pc = "start"    -> ForSlots + 9
           [] pc = "loop"     -> ForSlots + 8
           [] pc = "unpack"   -> ForSlots + 7
           [] pc = "ext"      -> ForSlots + 6 - inst_extflags_count[0]
           [] pc = "unpacked" -> ForSlots + 3
           [] pc = "validate" -> ToValidate + 2
           [] pc = "run"      -> 1
           [] pc \in Final    -> 0

Places == {"start", "loop", "unpack", "ext", "unpacked", "validate", "run"} \cup Final

LEMMA LLeftFacts ==
    ASSUME TypeInv, MasksInv
    PROVE  /\ ForSlots \in Nat /\ ToValidate \in Nat /\ ToValidate <= ForSlots
           /\ LLeft \in Nat /\ pc \in Places
           /\ pc = "unpacked" => ForSlots >= 10
<1>1. /\ MaxSlots \in Nat /\ inst_count \in Nat /\ i \in Nat /\ inst_count <= MaxSlots
      /\ pc = "unpacked" => inst_count < MaxSlots
  BY BoundsAssumption DEF TypeInv, TypeOK, RoomForOne
<1>2. pc \in Places
  BY DEF Places, TypeInv, TypeOK
<1>3. ForSlots \in Nat /\ (pc = "unpacked" => ForSlots >= 10)
  BY <1>1 DEF ForSlots
<1>4. ToValidate \in Nat /\ ToValidate <= ForSlots
  BY <1>1 DEF ToValidate, ForSlots
<1>5. inst_extflags_count[0] \in 0..2
  BY DEF MasksInv
<1> HIDE DEF ForSlots, ToValidate
<1>6. LLeft \in Nat
  BY <1>2, <1>3, <1>4, <1>5 DEF LLeft, Places, Final
<1> QED
  BY <1>2, <1>3, <1>4, <1>6
LEMMA FreeAllEnds == ASSUME NEW code, FreeAllAndExit(code) PROVE pc' \in Final
BY DEF FreeAllAndExit, Final

LEMMA NextLowersLLeft == TypeInv /\ SlotInv /\ MasksInv /\ Step => LLeft' < LLeft
<1> SUFFICES ASSUME TypeInv, SlotInv, MasksInv, Step PROVE LLeft' < LLeft
  OBVIOUS
<1>0. /\ ForSlots \in Nat /\ ToValidate \in Nat /\ ToValidate <= ForSlots
      /\ LLeft \in Nat /\ pc \in Places
      /\ pc = "unpacked" => ForSlots >= 10
  BY LLeftFacts
<1>1. UNCHANGED inst_count => ForSlots' = ForSlots
  BY DEF ForSlots
<1>2. inst_extflags_count[0] \in 0..2 /\ (inst_extflags_count[0] \in 0..2)'
  <2>1. MasksInv'
    BY NextMasksInv DEF Next
  <2> QED
    BY <2>1 DEF MasksInv
<1>3. CASE ReadFile \/ NextSlot
  <2>1. /\ ForSlots' = ForSlots
        /\ (pc = "start" /\ pc' = "loop") \/ (pc = "loop" /\ pc' = "unpack")
    BY <1>1, <1>3 DEF ReadFile, NextSlot, slots
  <2> HIDE DEF ForSlots
  <2> QED
    BY <1>0, <2>1 DEF LLeft, Final
<1>4. CASE UnpackShort \/ UnpackWord \/ UnpackExtEnd
  <2>1. /\ ForSlots' = ForSlots /\ pc \in {"unpack", "ext"}
        /\ pc' = "unpacked" \/ (pc = "unpack" /\ pc' = "ext")
    BY <1>1, <1>4 DEF UnpackShort, UnpackWord, UnpackExtEnd, slots
  <2> HIDE DEF ForSlots
  <2> QED
    BY <1>0, <1>2, <2>1 DEF LLeft, Final
<1>5. CASE UnpackExtMask
  <2>1. ForSlots' = ForSlots /\ pc = "ext" /\ pc' \in {"ext", "unpacked", "corrupt"}
    BY <1>1, <1>5 DEF UnpackExtMask
  <2>2. pc' # "corrupt" => inst_extflags_count'[0] = inst_extflags_count[0] + 1
    <3>1. inst_cap \in Nat /\ inst_cap >= 2 /\ DOMAIN inst_extflags_count = 0..inst_cap - 1
      BY DEF TypeInv, TypeOK
    <3>2. 0 \in DOMAIN inst_extflags_count
      BY <3>1
    <3> QED
      BY <1>5, <3>2 DEF UnpackExtMask, idx
  <2> HIDE DEF ForSlots
  <2> QED
    BY <1>0, <1>2, <2>1, <2>2 DEF LLeft, Final
<1>6. CASE Advance
  <2>1. pc = "unpacked" /\ pc' = "loop" /\ inst_count' = inst_count + 1
    BY <1>6 DEF Advance
  <2>2. ForSlots' = ForSlots - 10
    BY <2>1, BoundsAssumption DEF ForSlots, TypeInv, TypeOK
  <2> HIDE DEF ForSlots
  <2> QED
    BY <1>0, <2>1, <2>2 DEF LLeft, Final
<1>7. CASE EndOfFile \/ TrailingBytes
  <2>1. pc \in {"loop", "unpacked"} /\ pc' = "validate" /\ i' = 0 /\ UNCHANGED inst_count
    BY <1>7 DEF EndOfFile, TrailingBytes, slots
  <2>2. ToValidate' \in Nat /\ ToValidate' <= MaxSlots /\ ForSlots >= MaxSlots /\ MaxSlots \in Nat
    BY <2>1, BoundsAssumption DEF ToValidate, ForSlots, TypeInv, TypeOK
  <2> HIDE DEF ForSlots, ToValidate
  <2> QED
    BY <1>0, <2>1, <2>2 DEF LLeft, Final
<1>8. CASE ValidateNext /\ SlotIsValid(i)
  <2>1. pc = "validate" /\ pc' = "validate" /\ i < inst_count /\ i' = i + 1 /\ UNCHANGED inst_count
    BY <1>8 DEF ValidateNext, Validated, slots, TypeInv, TypeOK
  <2>2. ToValidate' < ToValidate
    BY <2>1 DEF ToValidate, TypeInv, TypeOK
  <2>3. ToValidate' \in Nat
    BY <2>1 DEF ToValidate, TypeInv, TypeOK
  <2> HIDE DEF ToValidate
  <2> QED
    BY <1>0, <2>1, <2>2, <2>3 DEF LLeft, Final
<1>9. CASE AllValid
  <2>1. pc = "validate" /\ pc' = "run"
    BY <1>9 DEF AllValid
  <2> HIDE DEF ToValidate
  <2> QED
    BY <1>0, <2>1 DEF LLeft, Final
<1>10. CASE \/ ReadFileFails \/ OutOfMemory \/ Reject \/ RunReturns \/ RunCrashes
            \/ (ValidateNext /\ ~SlotIsValid(i))
  <2>1. pc \in {"start", "loop", "unpacked", "validate", "run"}
    BY <1>10 DEF ReadFileFails, OutOfMemory, Reject, RunReturns, RunCrashes, ValidateNext
  <2>2. pc' \in Final
    <3>1. CASE ReadFileFails \/ OutOfMemory \/ RunCrashes
      BY <3>1 DEF ReadFileFails, OutOfMemory, RunCrashes, Final
    <3>2. CASE Reject \/ RunReturns \/ (ValidateNext /\ ~SlotIsValid(i))
      BY <3>2, FreeAllEnds DEF Reject, RunReturns, ValidateNext
    <3> QED
      BY <1>10, <3>1, <3>2
  <2> HIDE DEF ForSlots, ToValidate
  <2> QED
    BY <1>0, <2>1, <2>2 DEF LLeft, Final
<1> QED
  BY <1>3, <1>4, <1>5, <1>6, <1>7, <1>8, <1>9, <1>10 DEF Step, Loading

\* The loops of main.c:133 and 162 and the one over masks (pvcpu-isa.h:112)
\* come to their end, if only because memory does: a natural number, at most
\* eleven for each slot realloc grants and nine more, goes down with every step.
THEOREM LoaderApproachesEnd == Spec => [](LLeft \in Nat) /\ [][LLeft' < LLeft]_vars
<1>1. TypeInv /\ MasksInv => LLeft \in Nat
  BY LLeftFacts
<1>2. TypeInv /\ SlotInv /\ MasksInv /\ [Next]_vars => [LLeft' < LLeft]_vars
  BY NextLowersLLeft DEF Next, Terminating
<1>3. Init => MasksInv
  BY DEF Init, MasksInv
<1> QED
  BY InitTypeInv, NextTypeInv, InitSlotInv, NextSlotInv, NextMasksInv, <1>1, <1>2, <1>3, PTL
  DEF Spec
-----------------------------------------------------------------------------
(* When memory runs out.  A turn of the extraction loop that does not move *)
(* the offset is one at a last word that announces a value, so that before *)
(* that the slots in use never outnumber the words.                        *)

SpinInv ==
    /\ pc = "ext" => read # 0 /\ ~AtCutValue
    /\ pc = "unpacked" /\ AtCutValue => read = 0
    /\ ~AtCutValue =>
          /\ inst_count <= off
          /\ pc = "unpacked" /\ ~UnpackFailed /\ BytesLeft >= 4 => read # 0
          /\ MaxSlots >= 2 * MaxWords => pc # "oom"

\* A word that is there moves the offset, or is rejected, or is cut.
LEMMA WordMoves ==
    ASSUME TypeInv, UnpackWord, ~AtCutValue
    PROVE  read' # 0 \/ BytesLeft > 4
<1>1. /\ Len(file.words) \in Nat /\ off \in Nat /\ off <= Len(file.words) /\ file.tail \in 0..3
      /\ BytesLeft >= 4
  BY FileShape DEF UnpackWord, TypeInv, TypeOK, OffsetInFile
<1>2. WordsLeft = Len(file.words) - off /\ BytesLeft = 4 * WordsLeft + file.tail
  BY DEF WordsLeft, BytesLeft
<1>3. SUFFICES ASSUME read' = 0, BytesLeft = 4 PROVE FALSE
  BY <1>1, <1>2
<1>4. WordsLeft = 1 /\ file.tail = 0 /\ off + 1 = Len(file.words)
  BY <1>1, <1>2, <1>3
<1>5. ValueCut(file.words[off + 1])
  BY <1>3 DEF UnpackWord, UnpackedLength
<1> QED
  BY <1>1, <1>4, <1>5 DEF ValueCut, AtCutValue

LEMMA FileIsShort == ASSUME NEW f \in Files PROVE Len(f.words) <= MaxWords
<1>1. PICK m \in 0..MaxWords : f.words \in [1..m -> Words]
  BY DEF Files
<1>2. Len(f.words) = m
  BY <1>1, BoundsAssumption
<1> QED
  BY <1>1, <1>2, BoundsAssumption

LEMMA NextSpinInv == TypeInv /\ SpinInv /\ [Next]_vars => SpinInv'
<1> SUFFICES ASSUME TypeInv, SpinInv, [Next]_vars PROVE SpinInv'
  OBVIOUS
<1>0. /\ Len(file.words) \in Nat /\ Len(file.words) <= MaxWords /\ MaxWords \in Nat
      /\ off \in Nat /\ off <= Len(file.words) /\ read \in 0..3
      /\ inst_count \in Nat /\ inst_cap \in Nat /\ MaxSlots \in Nat /\ file.tail \in 0..3
      /\ WordsLeft = Len(file.words) - off /\ BytesLeft = 4 * WordsLeft + file.tail
  <2>1. Len(file.words) \in Nat /\ Len(file.words) <= MaxWords /\ file.tail \in 0..3
    BY FileShape, FileIsShort DEF TypeInv, TypeOK
  <2> QED
    BY <2>1, BoundsAssumption DEF TypeInv, TypeOK, OffsetInFile, WordsLeft, BytesLeft
<1>1. file' = file
  BY DEF Next, Step, Loading, Terminating, ReadFile, ReadFileFails, NextSlot, OutOfMemory, EndOfFile,
     UnpackShort, UnpackWord, UnpackExtMask, UnpackExtEnd, Reject, TrailingBytes, Advance,
     ValidateNext, AllValid, RunReturns, RunCrashes, FreeAllAndExit, vars
<1>2. UNCHANGED off => AtCutValue' = AtCutValue
  BY <1>1 DEF AtCutValue
<1>3. UNCHANGED off => BytesLeft' = BytesLeft
  BY <1>1 DEF BytesLeft, WordsLeft
<1>4. CASE UnpackShort
  <2>1. pc' = "unpacked" /\ BytesLeft' < 4 /\ UNCHANGED <<off, inst_count>>
    BY <1>3, <1>4 DEF UnpackShort, slots
  <2>2. ~(BytesLeft' >= 4)
    BY <1>0, <1>3, <2>1
  <2>3. ~AtCutValue
    BY <1>0, <1>4 DEF UnpackShort, AtCutValue
  <2> QED
    BY <1>2, <2>1, <2>2, <2>3 DEF SpinInv
<1>5. CASE UnpackWord
  <2>1. /\ pc' \in {"ext", "unpacked"} /\ UNCHANGED <<off, inst_count>>
        /\ pc' = "ext" => read' # 0
    BY <1>5 DEF UnpackWord, UnpackedLength
  <2>3. AtCutValue => ValueCut(file.words[off + 1])
    BY <1>0 DEF AtCutValue, ValueCut
  <2>4. AtCutValue => pc' = "unpacked" /\ read' = 0
    BY <1>5, <2>3 DEF UnpackWord, UnpackedLength
  <2>2. ~AtCutValue => read' # 0 \/ (read' = 0 /\ BytesLeft' > 4)
    BY <1>3, <1>5, <2>1, WordMoves
  <2> QED
    BY <1>2, <2>1, <2>2, <2>4 DEF SpinInv, UnpackFailed
<1>6. CASE UnpackExtEnd
  <2>1. pc = "ext" /\ pc' = "unpacked" /\ UNCHANGED <<off, inst_count>>
        /\ read' = IF BytesLeft = 4 * read THEN read ELSE 0
    BY <1>6 DEF UnpackExtEnd, slots
  <2>2. read # 0 /\ off + read <= Len(file.words)
    BY <2>1 DEF SpinInv, TypeInv, OffsetInFile
  <2>3. BytesLeft >= 4 * read /\ (BytesLeft # 4 * read => BytesLeft > 4)
    BY <1>0, <2>2
  <2>4. read' # 0 \/ (read' = 0 /\ BytesLeft' > 4)
    BY <1>3, <2>1, <2>2, <2>3
  <2> QED
    BY <1>2, <2>1, <2>4 DEF SpinInv, UnpackFailed
<1>7. CASE UnpackExtMask
  <2>1. pc = "ext" /\ pc' \in {"ext", "unpacked", "corrupt"} /\ UNCHANGED <<off, inst_count, read>>
    BY <1>7 DEF UnpackExtMask
  <2> QED
    BY <1>2, <2>1 DEF SpinInv
<1>8. CASE Advance
  <2>1. pc = "unpacked" /\ pc' = "loop" /\ ~UnpackFailed /\ BytesLeft >= 4
        /\ off' = off + read /\ inst_count' = inst_count + 1
    BY <1>0, <1>8 DEF Advance, Trailing
  <2>2. ~AtCutValue => inst_count' <= off'
    BY <1>0, <2>1 DEF SpinInv
  <2>3. AtCutValue => off' = off
    BY <1>0, <2>1 DEF SpinInv
  <2>4. AtCutValue => AtCutValue'
    BY <1>2, <2>3
  <2> QED
    BY <2>1, <2>2, <2>4 DEF SpinInv
<1>9. CASE OutOfMemory
  <2>1. pc' = "oom" /\ UNCHANGED <<off, inst_count>> /\ inst_count + 1 > inst_cap
        /\ 2 * inst_cap > MaxSlots /\ inst_count <= inst_cap
    BY <1>9 DEF OutOfMemory, NeedsRoom, TypeInv, TypeOK, slots
  <2>2. ~AtCutValue => ~(MaxSlots >= 2 * MaxWords)
    BY <1>0, <2>1 DEF SpinInv
  <2> QED
    BY <1>2, <2>1, <2>2 DEF SpinInv
<1>10. CASE UNCHANGED vars
  BY <1>2, <1>3, <1>10 DEF vars, slots, SpinInv, UnpackFailed
<1>11. CASE \/ ReadFile \/ ReadFileFails \/ NextSlot \/ EndOfFile \/ Reject \/ TrailingBytes
            \/ ValidateNext \/ AllValid \/ RunReturns \/ RunCrashes
  <2>1. UNCHANGED <<off, inst_count>> /\ pc' \notin {"ext", "unpacked", "oom"}
    BY <1>11 DEF ReadFile, ReadFileFails, NextSlot, EndOfFile, Reject, TrailingBytes,
       ValidateNext, AllValid, RunReturns, RunCrashes, FreeAllAndExit, slots
  <2> QED
    BY <1>2, <2>1 DEF SpinInv
<1> QED
  BY <1>4, <1>5, <1>6, <1>7, <1>8, <1>9, <1>10, <1>11 DEF Next, Step, Loading, Terminating

\* main runs out of memory only at a last word that announces a value and is
\* followed by no byte (main.c:142-158), as long as realloc grants two slots for
\* every word of the longest file, twice what doubling may ask for.
THEOREM OnlyCutValueSpins ==
    Spec => [](MaxSlots >= 2 * MaxWords /\ pc = "oom" => AtCutValue)
<1>1. Init => SpinInv
  BY DEF Init, SpinInv
<1>2. SpinInv => (MaxSlots >= 2 * MaxWords /\ pc = "oom" => AtCutValue)
  BY DEF SpinInv
<1> QED
  BY InitTypeInv, NextTypeInv, NextSpinInv, <1>1, <1>2, PTL DEF Spec
-----------------------------------------------------------------------------
(* A file main can run, of an instruction that has a handler, breaks nothing. *)

Handled == file.words # <<>> => HasHandler(file.words[1])

LEMMA RunnableCounts ==
    ASSUME TypeInv, FileInv, Runnable(file)
    PROVE  inst_count \in {0, 1} /\ inst_cap = 2 /\ (BytesLeft >= 4 => off = 0 /\ Len(file.words) # 0)
<1>1. /\ Len(file.words) \in Nat /\ off \in Nat /\ off <= Len(file.words) /\ file.tail \in 0..3
      /\ inst_count \in Nat
  BY FileShape DEF TypeInv, TypeOK, OffsetInFile
<1>2. Len(file.words) = 0 \/ Len(file.words) = FirstLength
  BY DEF Runnable, FirstLength
<1>3. inst_count < 2
  BY <1>1, <1>2 DEF FileInv, MoreCounted
<1>4. BytesLeft >= 4 => off < Len(file.words)
  BY <1>1 DEF BytesLeft, WordsLeft
<1>5. CASE inst_count = 0
  BY <1>1, <1>4, <1>5 DEF FileInv, NoneCounted
<1>6. CASE inst_count = 1
  <2>1. inst_cap = 2 /\ (OnlyWordCut \/ off = FirstLength) /\ Len(file.words) >= 1
    BY <1>6 DEF FileInv, OneCounted
  <2>2. ~OnlyWordCut
    <3>1. OnlyWordCut => Len(file.words) = 1 /\ FirstLength > 2
      BY DEF OnlyWordCut, FirstLength
    <3> QED
      BY <1>2, <3>1
  <2>3. ~(BytesLeft >= 4)
    BY <1>1, <1>2, <1>4, <2>1, <2>2
  <2> QED
    BY <1>6, <2>1, <2>3
<1> QED
  BY <1>1, <1>3, <1>5, <1>6

WholeInv == Runnable(file) =>
               /\ pc \notin {"ext", "oom", "corrupt"}
               /\ Handled => pc # "crashed"

LEMMA NextWholeInv ==
    TypeInv /\ SlotInv /\ FileInv /\ PointerInv /\ WholeInv /\ [Next]_vars => WholeInv'
<1> SUFFICES ASSUME TypeInv, SlotInv, FileInv, PointerInv, WholeInv, [Next]_vars, Runnable(file)'
             PROVE  pc' \notin {"ext", "oom", "corrupt"} /\ (Handled' => pc' # "crashed")
  BY DEF WholeInv
<1>1. file' = file
  BY DEF Next, Step, Loading, Terminating, ReadFile, ReadFileFails, NextSlot, OutOfMemory, EndOfFile,
     UnpackShort, UnpackWord, UnpackExtMask, UnpackExtEnd, Reject, TrailingBytes, Advance,
     ValidateNext, AllValid, RunReturns, RunCrashes, FreeAllAndExit, vars
<1>2. Runnable(file) /\ Handled' = Handled
  BY <1>1 DEF Runnable, Handled
<1>3. /\ inst_count \in {0, 1} /\ inst_cap = 2
      /\ BytesLeft >= 4 => off = 0 /\ Len(file.words) # 0
  BY <1>2, RunnableCounts
<1>4. Indet \notin Pointers
  BY <1>3 DEF PointerInv
<1>5. CASE UnpackWord
  <2>1. off = 0 /\ Len(file.words) # 0
    BY <1>3, <1>5 DEF UnpackWord
  <2>2. ~TakesExt(file.words[1])
    <3> DEFINE inst  == file.words[1]
               value == IF TakesValue(inst) /\ Len(file.words) = 3
                        THEN <<file.words[2], file.words[3]>> ELSE ZeroValue
    <3>1. ValidateInst(inst, value, 2)
      BY <1>2, <2>1 DEF Runnable
    <3> HIDE DEF inst, value
    <3>2. "ext" \notin inst.flags
      BY <3>1 DEF ValidateInst
    <3> QED
      BY <3>2 DEF TakesExt, inst
  <2>3. pc' = "ext" => TakesExt(file.words[off + 1])
    BY <1>5 DEF UnpackWord
  <2>4. off + 1 = 1 /\ pc' \in {"ext", "unpacked"}
    BY <1>5, <2>1 DEF UnpackWord
  <2> QED
    BY <2>2, <2>3, <2>4
<1>6. CASE OutOfMemory
  BY <1>3, <1>6 DEF OutOfMemory, NeedsRoom
<1>7. CASE Reject \/ RunReturns \/ (ValidateNext /\ ~SlotIsValid(i))
  BY <1>4, <1>7 DEF Reject, RunReturns, ValidateNext, FreeAllAndExit
<1>8. CASE RunCrashes
  <2>1. pc = "run" /\ pc' = "crashed" /\ \E s \in 0..inst_count - 1 : ~HasHandler(insts[s])
    BY <1>8 DEF RunCrashes
  <2>2. inst_count = 1 /\ ~HasHandler(insts[0])
    BY <1>3, <2>1
  <2>3. insts[0] = file.words[1] /\ file.words # <<>>
    BY <2>1, <2>2, RunnableRuns DEF RunsExactlyRunnable
  <2> QED
    BY <1>2, <2>1, <2>2, <2>3 DEF Handled
<1>9. CASE UnpackExtMask \/ UnpackExtEnd
  BY <1>2, <1>9 DEF UnpackExtMask, UnpackExtEnd, WholeInv
<1>10. CASE UNCHANGED vars
  BY <1>2, <1>10 DEF vars, WholeInv
<1>11. CASE \/ ReadFile \/ ReadFileFails \/ NextSlot \/ EndOfFile \/ UnpackShort \/ TrailingBytes
            \/ Advance \/ (ValidateNext /\ SlotIsValid(i)) \/ AllValid
  BY <1>11 DEF ReadFile, ReadFileFails, NextSlot, EndOfFile, UnpackShort, TrailingBytes,
     Advance, ValidateNext, AllValid
<1> QED
  BY <1>5, <1>6, <1>7, <1>8, <1>9, <1>10, <1>11 DEF Next, Step, Loading, Terminating

\* On a file it can run, of an instruction with a handler, main neither crashes nor
\* spins nor loses its memory (main.c:121-196): what is left is to return.
THEOREM RunnableNeverBreaks ==
    Spec => [](Runnable(file) /\ Handled => pc \notin {"crashed", "oom", "corrupt"})
<1>1. Init => WholeInv
  BY DEF Init, WholeInv
<1>2. Init => PointerInv
  BY IndetAssumption DEF Init, NoPointers, NULL, PointerInv, Pointers, CorruptionNeedsGrowth
<1>3. WholeInv => (Runnable(file) /\ Handled => pc \notin {"crashed", "oom", "corrupt"})
  BY DEF WholeInv
<1> QED
  BY InitTypeInv, NextTypeInv, InitSlotInv, NextSlotInv, InitFileInv, NextFileInv,
     NextPointerInv, NextWholeInv, <1>1, <1>2, <1>3, PTL DEF Spec
-----------------------------------------------------------------------------
(* What the runs loader_refused and loader_plain_stream show of one file each, *)
(* for all of them.                                                            *)

\* The loop is at a last word whose value is missing.
SpinsAtCut ==
    /\ pc \in {"loop", "unpack", "unpacked", "oom"}
    /\ AtCutValue
    /\ pc = "unpacked" => read = 0

LEMMA NextSpinsAtCut == TypeInv /\ SpinsAtCut /\ [Next]_vars => SpinsAtCut'
<1> SUFFICES ASSUME TypeInv, SpinsAtCut, [Next]_vars PROVE SpinsAtCut'
  OBVIOUS
<1>1. off \in Nat /\ WordsLeft = 1 /\ BytesLeft = 4
  BY DEF TypeInv, TypeOK, AtCutValue, SpinsAtCut, WordsLeft, BytesLeft
<1>2. CASE NextSlot
  BY <1>2 DEF NextSlot, SpinsAtCut, AtCutValue
<1>3. CASE OutOfMemory
  BY <1>3 DEF OutOfMemory, SpinsAtCut, AtCutValue
<1>4. CASE UnpackWord
  <2>1. ValueCut(file.words[off + 1])
    BY <1>1 DEF SpinsAtCut, AtCutValue, ValueCut
  <2>2. pc' = "unpacked" /\ read' = 0 /\ UNCHANGED <<file, off>>
    BY <1>4, <2>1 DEF UnpackWord, UnpackedLength
  <2> QED
    BY <2>2 DEF SpinsAtCut, AtCutValue
<1>5. CASE Advance
  <2>1. pc' = "loop" /\ off' = off + 0 /\ UNCHANGED file
    BY <1>5 DEF Advance, SpinsAtCut, AtCutValue
  <2> QED
    BY <1>1, <2>1 DEF SpinsAtCut, AtCutValue
<1>6. CASE UNCHANGED vars
  BY <1>6 DEF SpinsAtCut, AtCutValue, vars
<1>7. ~( \/ ReadFile \/ ReadFileFails \/ EndOfFile \/ UnpackShort \/ UnpackExtMask \/ UnpackExtEnd
         \/ Reject \/ TrailingBytes \/ ValidateNext \/ AllValid \/ RunReturns \/ RunCrashes )
  BY <1>1 DEF SpinsAtCut, AtCutValue, ReadFile, ReadFileFails, EndOfFile, UnpackShort, UnpackExtMask,
     UnpackExtEnd, Reject, UnpackFailed, TrailingBytes, Trailing, ValidateNext, AllValid, RunReturns,
     RunCrashes
<1> QED
  BY <1>2, <1>3, <1>4, <1>5, <1>6, <1>7 DEF Next, Step, Loading, Terminating

\* A loop that stands at a last word whose value is missing stays there, whatever
\* came before it: it goes round until memory is out, and the message of main.c:144
\* never comes.
THEOREM CutValueNeverReported == Spec => [](SpinsAtCut => []SpinsAtCut)
BY InitTypeInv, NextTypeInv, NextSpinsAtCut, PTL DEF Spec

PlainStream == Len(file.words) >= 2 /\ \A m \in 1..Len(file.words) : PlainInst(file.words[m])

LEMMA PlainIsNotRunnable == TypeInv => (PlainStream => ~Runnable(file))
<1> SUFFICES ASSUME TypeInv, PlainStream PROVE ~Runnable(file)
  OBVIOUS
<1>1. Len(file.words) \in Nat
  BY FileShape DEF TypeInv, TypeOK
<1>2. PlainInst(file.words[1]) /\ Len(file.words) >= 2
  BY <1>1 DEF PlainStream
<1>3. ~TakesValue(file.words[1])
  BY <1>2 DEF PlainInst, TakesValue
<1> QED
  BY <1>1, <1>2, <1>3 DEF Runnable

LEMMA NextExitZero ==
    TypeInv /\ SlotInv /\ FileInv /\ (exit_code = 0 => Runnable(file)) /\ [Next]_vars
        => (exit_code = 0 => Runnable(file))'
<1> SUFFICES ASSUME TypeInv, SlotInv, FileInv, exit_code = 0 => Runnable(file), [Next]_vars
             PROVE  exit_code' = 0 => Runnable(file')
  BY DEF Runnable
<1>1. file' = file /\ (exit_code' = exit_code \/ exit_code' \in {4, 5, 6} \/ pc = "run")
  BY DEF Next, Step, Loading, Terminating, ReadFile, ReadFileFails, NextSlot, OutOfMemory, EndOfFile,
     UnpackShort, UnpackWord, UnpackExtMask, UnpackExtEnd, Reject, TrailingBytes, Advance,
     ValidateNext, AllValid, RunReturns, RunCrashes, FreeAllAndExit, vars
<1>2. pc = "run" => Runnable(file)
  BY RunnableRuns DEF RunsExactlyRunnable
<1> QED
  BY <1>1, <1>2

\* No stream of two or more well-formed instructions is ever translated, though
\* README.md:102-103 lets the validator refuse only a malformed one: the run command
\* does not get past validation with it, and does not return 0.
THEOREM PlainStreamNeverRuns == Spec => [](PlainStream => pc # "run" /\ exit_code # 0)
<1>1. Init => (exit_code = 0 => Runnable(file))
  BY DEF Init
<1>2. TypeInv /\ SlotInv /\ FileInv /\ (exit_code = 0 => Runnable(file))
        => (PlainStream => pc # "run" /\ exit_code # 0)
  BY RunnableRuns, PlainIsNotRunnable DEF RunsExactlyRunnable
<1> QED
  BY InitTypeInv, NextTypeInv, InitSlotInv, NextSlotInv, InitFileInv, NextFileInv, NextExitZero,
     <1>1, <1>2, PTL DEF Spec
=============================================================================
