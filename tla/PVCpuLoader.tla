---------------------------- MODULE PVCpuLoader ----------------------------
(***************************************************************************)
(* The `run` command of PVCpu/src/main.c: read a file, unpack it into      *)
(* instruction slots that grow as it goes, validate every slot, hand the   *)
(* slots to pvcpu_run and release everything.  One action per step of the  *)
(* loops; pvcpu_run itself is only "returns or crashes" here (see          *)
(* PVCpuJit, and PVCpu for the two together).                              *)
(*                                                                         *)
(* Offsets count 32-bit words: every increment of the code's byte offset   *)
(* is a multiple of 4, so a file is its words and 0 to 3 bytes after them. *)
(*                                                                         *)
(* Three ends are not exits: "crashed" (a null pointer is used), "oom"     *)
(* (realloc refuses and its null result is used) and "corrupt" (the C      *)
(* program has written outside a block or freed an indeterminate pointer,  *)
(* after which nothing is promised).                                       *)
(***************************************************************************)
EXTENDS PVCpuIsa, FiniteSets

CONSTANTS
    Words,          \* the 32-bit words a file is made of
    MaxWords,       \* bound: the longest file
    Tails,          \* the numbers of bytes that may follow the last word
    MaxSlots,       \* bound: the largest slot array realloc grants
    Indet           \* the content of memory nobody has written

ASSUME WordsAssumption    == Words \subseteq WordType
ASSUME BoundsAssumption   == MaxWords \in Nat /\ MaxSlots \in Nat /\ MaxSlots >= 2
ASSUME TailsAssumption    == Tails \subseteq 0..3
ASSUME IndetAssumption    == /\ Indet \notin WordType
                             /\ Indet \notin ValueType
                             /\ Indet \notin Nat

Files == [words : UNION {[1..n -> Words] : n \in 0..MaxWords}, tail : Tails]

VARIABLES
    file,                  \* the content of args.run_input
    pc,                    \* where main is
    off,                   \* words of the file already unpacked
    inst_cap, inst_count,  \* slots allocated, slots counted as used
    insts, inst_values, inst_extflags, inst_extflags_count,  \* the slot arrays
    read,                  \* `off` inside pvcpu_unpack_inst, then its result
    next_block,            \* the number the next extended-flags block gets
    heap,                  \* the blocks allocated and not freed
    i,                     \* the index of the validation loop
    exit_code              \* what main returned, -1 before that

slots == <<inst_cap, inst_count, insts, inst_values, inst_extflags, inst_extflags_count>>
vars  == <<file, pc, off, slots, read, next_block, heap, i, exit_code>>

NULL     == 0
MEM_SIZE == 100         \* the memory main asks pvcpu_run for
Arrays == {<<a, 0>> : a \in {"program", "insts", "inst_values", "inst_extflags",
                             "inst_extflags_count"}}
Block(p) == <<"ext", p>>

Final == {"exit", "crashed", "oom", "corrupt"}

\* The slot that is filled: idx is set before the loop and never moves.
idxMovesWithCount == inst_count
idx == 0

WordsLeft == Len(file.words) - off
BytesLeft == 4 * WordsLeft + file.tail

-----------------------------------------------------------------------------
\* The pointers to the extended flags before any is stored.
PointersOfMalloc == [s \in 0..1 |-> Indet]
NoPointers       == [s \in 0..1 |-> NULL]

Init ==
    /\ file \in Files
    /\ pc = "start" /\ off = 0
    /\ inst_cap = 2 /\ inst_count = 0
    /\ insts = [s \in 0..1 |-> ZeroWord] /\ inst_values = [s \in 0..1 |-> ZeroValue]
    /\ inst_extflags = NoPointers /\ inst_extflags_count = [s \in 0..1 |-> 0]
    /\ read = 0 /\ next_block = 1 /\ heap = {} /\ i = 0 /\ exit_code = -1

\* read_file returns the content, and main allocates its four arrays.
ReadFile ==
    /\ pc = "start"
    /\ pc' = "loop" /\ heap' = Arrays
    /\ UNCHANGED <<file, off, slots, read, next_block, i, exit_code>>

\* fopen, malloc or fread fails: read_file has released what it took.
ReadFileFails ==
    /\ pc = "start"
    /\ pc' = "exit" /\ exit_code' = 4
    /\ UNCHANGED <<file, off, slots, read, next_block, heap, i>>

\* The array after realloc: the new half holds whatever was there.
Grown(array, cap) == [s \in 0..cap - 1 |-> IF s < inst_cap THEN array[s] ELSE Indet]

NeedsRoomTooLate == inst_count > inst_cap
NeedsRoom == inst_count + 1 > inst_cap

\* The head of the loop body: make room, give the slot its extended flags.
NextSlot ==
    /\ pc = "loop" /\ BytesLeft > 0
    /\ LET cap == IF NeedsRoom THEN 2 * inst_cap ELSE inst_cap IN
       /\ cap <= MaxSlots
       /\ inst_cap' = cap
       /\ insts' = Grown(insts, cap) /\ inst_values' = Grown(inst_values, cap)
       /\ inst_extflags' = [Grown(inst_extflags, cap) EXCEPT ![idx] = next_block]
       /\ inst_extflags_count' = Grown(inst_extflags_count, cap)
    /\ heap' = heap \cup {Block(next_block)} /\ next_block' = next_block + 1
    /\ pc' = "unpack"
    /\ UNCHANGED <<file, off, inst_count, read, i, exit_code>>

\* realloc's result is not looked at: the next store goes through NULL.
OutOfMemory ==
    /\ pc = "loop" /\ BytesLeft > 0
    /\ NeedsRoom /\ 2 * inst_cap > MaxSlots
    /\ pc' = "oom"
    /\ UNCHANGED <<file, off, slots, read, next_block, heap, i, exit_code>>

EndOfFile ==
    /\ pc = "loop" /\ BytesLeft = 0
    /\ pc' = "validate" /\ i' = 0
    /\ UNCHANGED <<file, off, slots, read, next_block, heap, exit_code>>

-----------------------------------------------------------------------------
(* pvcpu_unpack_inst *)

\* A value that does not fit in what is left of the file.
ValueCut(inst) == TakesValue(inst) /\ WordsLeft < 3

\* What the function returns for a word without an extended-flags mask.
LengthCutAccepted(inst)   == IF TakesValue(inst) THEN 3 ELSE 1
LengthInvalidFailed(inst) == IF ValueCut(inst) \/ "valid" \notin inst.flags THEN 0
                             ELSE IF TakesValue(inst) THEN 3 ELSE 1
UnpackedLength(inst) == IF ValueCut(inst) THEN 0 ELSE IF TakesValue(inst) THEN 3 ELSE 1

UnpackShort ==
    /\ pc = "unpack" /\ BytesLeft < 4
    /\ read' = 0 /\ pc' = "unpacked"
    /\ UNCHANGED <<file, off, slots, next_block, heap, i, exit_code>>

\* The word goes into the slot before its length is known to be there.
UnpackWord ==
    /\ pc = "unpack" /\ BytesLeft >= 4
    /\ LET inst == file.words[off + 1] IN
       /\ insts' = [insts EXCEPT ![idx] = inst]
       /\ inst_values' = IF TakesValue(inst) /\ ~ValueCut(inst)
            THEN [inst_values EXCEPT ![idx] = <<file.words[off + 2], file.words[off + 3]>>]
            ELSE inst_values
       /\ read' = UnpackedLength(inst)
       /\ pc' = IF TakesExt(inst) /\ ~ValueCut(inst) THEN "ext" ELSE "unpacked"
    /\ UNCHANGED <<file, off, inst_cap, inst_count, inst_extflags,
                   inst_extflags_count, next_block, heap, i, exit_code>>

\* One turn of the extended-flags loop.  Nothing moves `read`, so a mask with
\* its VALID bit set is stored again, and the third store leaves the block.
UnpackExtMask ==
    /\ pc = "ext" /\ WordsLeft - read >= 2
    /\ IF inst_extflags_count[idx] \in {0, 1}
       THEN /\ inst_extflags_count' = [inst_extflags_count EXCEPT ![idx] = @ + 1]
            /\ pc' = IF MaskValid(<<file.words[off + read + 1], file.words[off + read + 2]>>)
                     THEN "ext" ELSE "unpacked"
       ELSE pc' = "corrupt" /\ UNCHANGED inst_extflags_count
    /\ UNCHANGED <<file, off, inst_cap, inst_count, insts, inst_values, inst_extflags,
                   read, next_block, heap, i, exit_code>>

\* off < len fails, or the mask is cut short.
UnpackExtEnd ==
    /\ pc = "ext" /\ WordsLeft - read < 2
    /\ read' = IF BytesLeft = 4 * read THEN read ELSE 0
    /\ pc' = "unpacked"
    /\ UNCHANGED <<file, off, slots, next_block, heap, i, exit_code>>

-----------------------------------------------------------------------------
PointersOfCounted == {inst_extflags[s] : s \in 0..inst_count - 1}
Pointers == {inst_extflags[s] : s \in 0..inst_cap - 1}

\* The six frees.  Freeing what realloc left in a new slot may do anything.
FreeAllAndExit(code) ==
    /\ heap' = heap \ (Arrays \cup {Block(p) : p \in Pointers \ {NULL, Indet}})
    /\ \/ pc' = "exit" /\ exit_code' = code
       \/ Indet \in Pointers /\ pc' = "corrupt" /\ UNCHANGED exit_code
    /\ UNCHANGED <<file, off, slots, read, next_block, i>>

UnpackFailed == read = 0 /\ BytesLeft > 4

Reject ==
    /\ pc = "unpacked" /\ UnpackFailed
    /\ FreeAllAndExit(5)

\* What is left is too short for a word: main leaves the loop.
TrailingOrLast == BytesLeft <= 4
Trailing       == BytesLeft < 4

TrailingBytes ==
    /\ pc = "unpacked" /\ ~UnpackFailed /\ Trailing
    /\ pc' = "validate" /\ i' = 0
    /\ UNCHANGED <<file, off, slots, read, next_block, heap, exit_code>>

\* read = 0 with exactly one word left ends up here too.
Advance ==
    /\ pc = "unpacked" /\ ~UnpackFailed /\ ~Trailing
    /\ off' = off + read /\ inst_count' = inst_count + 1
    /\ pc' = "loop"
    /\ UNCHANGED <<file, inst_cap, insts, inst_values, inst_extflags,
                   inst_extflags_count, read, next_block, heap, i, exit_code>>

\* The validator is given the number of slots as the size of the memory.
SlotIsValid(s) == ValidateInst(insts[s], inst_values[s], inst_cap)

\* The exit test of the validation loop, i < inst_count turned round.
ValidatedAllButLast == i + 1 >= inst_count
Validated == i >= inst_count

ValidateNext ==
    /\ pc = "validate" /\ ~Validated
    /\ \/ /\ SlotIsValid(i)
          /\ i' = i + 1
          /\ UNCHANGED <<file, pc, off, slots, read, next_block, heap, exit_code>>
       \/ /\ ~SlotIsValid(i)
          /\ FreeAllAndExit(6)

AllValid ==
    /\ pc = "validate" /\ Validated
    /\ pc' = "run"
    /\ UNCHANGED <<file, off, slots, read, next_block, heap, i, exit_code>>

-----------------------------------------------------------------------------
\* Only OP_ADD has a handler; the other entries of the table are null.
HasHandler(inst) == inst.opcode = OP_ADD

\* pvcpu_run gives no result back, so main goes on as if it had succeeded.
RunReturns ==
    /\ pc = "run"
    /\ FreeAllAndExit(0)

RunCrashes ==
    /\ pc = "run"
    /\ \E s \in 0..inst_count - 1 : ~HasHandler(insts[s])
    /\ pc' = "crashed"
    /\ UNCHANGED <<file, off, slots, read, next_block, heap, i, exit_code>>

Terminating == pc \in Final /\ UNCHANGED vars

Loading == \/ ReadFile \/ ReadFileFails
           \/ NextSlot \/ OutOfMemory \/ EndOfFile
           \/ UnpackShort \/ UnpackWord \/ UnpackExtMask \/ UnpackExtEnd
           \/ Reject \/ TrailingBytes \/ Advance
           \/ ValidateNext \/ AllValid

Step == Loading \/ RunReturns \/ RunCrashes
Next == Step \/ Terminating

Fairness == WF_vars(Step)       \* one thread that nothing ever blocks

Spec     == Init /\ [][Next]_vars
FairSpec == Spec /\ Fairness

-----------------------------------------------------------------------------
(* What the loader guarantees. *)

\* The shape of the state.  The slots in use are slots that were allocated:
\* growth (main.c:134) comes before the slot is counted.
TypeOK ==
    /\ file \in Files
    /\ pc \in Final \cup {"start", "loop", "unpack", "ext", "unpacked", "validate", "run"}
    /\ off \in Nat /\ read \in 0..3 /\ i \in Nat
    /\ inst_cap \in 2..MaxSlots /\ inst_count \in 0..inst_cap
    /\ insts \in [0..inst_cap - 1 -> WordType \cup {Indet}]
    /\ inst_values \in [0..inst_cap - 1 -> ValueType \cup {Indet}]
    /\ inst_extflags \in [0..inst_cap - 1 -> Nat \cup {Indet}]
    /\ inst_extflags_count \in [0..inst_cap - 1 -> 0..2 \cup {Indet}]
    /\ next_block \in Nat \ {0}
    /\ heap \subseteq Arrays \cup {Block(p) : p \in 1..next_block - 1}
    /\ exit_code \in {-1, 0, 4, 5, 6}

\* file_size - off (main.c:142, 143, 154) never wraps: neither main's offset
\* nor the one inside the unpacker passes the end of the file.
OffsetInFile ==
    /\ off <= Len(file.words)
    /\ pc \in {"ext", "unpacked"} => off + read <= Len(file.words)

\* pvcpu_run (main.c:177) is given only slots the validator has accepted, with
\* the value it accepted them with.
TranslatedIsValidated ==
    pc = "run" => \A s \in 0..inst_count - 1 :
                     ValidateInst(insts[s], inst_values[s], inst_cap)

\* The validation loop (main.c:162) reads no slot that realloc handed out and
\* nobody wrote.
ValidatorReadsDefined ==
    pc = "validate" /\ i < inst_count => insts[i] # Indet /\ inst_values[i] # Indet

\* What pvcpu_run (main.c:177) is given is the whole file: its words are cut into
\* the counted instructions, each with the value that follows its word, in the
\* order of the file and with no word left over or used twice.
RunsWholeFile ==
    pc = "run" =>
        \E start \in [0..inst_count -> 0..Len(file.words)] :
            /\ start[0] = 0 /\ start[inst_count] = Len(file.words)
            /\ \A s \in 0..inst_count - 1 :
                  LET inst == file.words[start[s] + 1] IN
                  /\ start[s + 1] = start[s] + (IF TakesValue(inst) THEN 3 ELSE 1)
                  /\ insts[s] = inst
                  /\ TakesValue(inst) =>
                         inst_values[s] = <<file.words[start[s] + 2], file.words[start[s] + 3]>>

\* A displacement that is run lies in the memory main asks for (main.c:177), though
\* the validator compares it with the number of slots (main.c:163, validator.c:27).
DisplacementInMemory ==
    pc = "run" => \A s \in 0..inst_count - 1 :
        "disp64" \in insts[s].flags =>
            inst_values[s][2] = ZeroWord /\ WordValue(inst_values[s][1]) < MEM_SIZE

\* The files the code gets through its loops, its standing idx included: no whole
\* word at all, or one instruction the validator accepts and nothing after its value.
\* This is not what the program should accept (see PlainStreamAccepted below); it is
\* the precondition of what is said about the files that do get through.
Runnable(f) ==
    \/ Len(f.words) = 0
    \/ LET inst  == f.words[1]
           value == IF TakesValue(inst) /\ Len(f.words) = 3
                    THEN <<f.words[2], f.words[3]>> ELSE ZeroValue
       IN  /\ Len(f.words) = IF TakesValue(inst) THEN 3 ELSE 1
           /\ ValidateInst(inst, value, 2)

\* Every way out of main (main.c:145-153, 165-173, 179-186) releases the five
\* arrays and the extended-flags block of every slot, counted or not.
ReachableReleased ==
    pc = "exit" => heap \cap (Arrays \cup {Block(inst_extflags[s]) : s \in 0..inst_cap - 1}) = {}

\* The frees of main.c:149, 169 and 183 and the mask stores of pvcpu-isa.h:118
\* stay inside what main owns as long as the arrays have not grown and no word
\* of the file has extended flags.
CorruptionNeedsGrowth ==
    pc = "corrupt" => \/ inst_cap > 2
                      \/ \E n \in 1..Len(file.words) : TakesExt(file.words[n])

\* The offset is at the last word of the file, which announces a value, and no byte
\* follows it.
AtCutValue == /\ file.tail = 0 /\ off + 1 = Len(file.words)
              /\ TakesValue(file.words[off + 1])

\* main ends on every file, unless the loop at main.c:133 gets to a last word that
\* announces a value and has nothing after it: there alone it spins, until memory is
\* out.
EndsUnlessValueCut == <>(pc \in Final \ {"oom"} \/ AtCutValue)

-----------------------------------------------------------------------------
(* What the documents and the messages of the program say, and the code does not do. *)

\* A valid register instruction of the ALU category, without a value or mask.
PlainInst(w) == /\ w.flags = {"valid"} /\ w.opcode <= 255
                /\ w.src < 34 /\ w.dest < 34

\* The validation pass rejects a stream only for an instruction that is not
\* well-formed (README.md:102-103).
PlainStreamAccepted ==
    exit_code = 6 => \E n \in 1..Len(file.words) : ~PlainInst(file.words[n])

\* "Error: Instruction unpacking failed!" (main.c:144): an instruction the
\* unpacker refuses ends in that error.
RefusedIsReported == (pc = "unpacked" /\ read = 0 /\ BytesLeft >= 4) ~> (pc \in {"exit", "corrupt"})
=============================================================================
