---------------------------- MODULE PVCpuProofs ----------------------------
(***************************************************************************)
(* Proofs about PVCpu, for every file and command line: the program        *)
(* implements the pipeline, and what it announces as completed is.         *)
(***************************************************************************)
EXTENDS PVCpu, PVCpuLoaderProofs

\* Every step of the program is a step of the loader, or none.
LEMMA MainStepsAreLoaderSteps == [MainNext]_allvars => [Next]_vars
<1> SUFFICES ASSUME [MainNext]_allvars PROVE [Next]_vars
  OBVIOUS
<1>1. CASE UNCHANGED vars
  BY <1>1
<1>2. CASE LoaderStep
  BY <1>2 DEF LoaderStep, Next, Step
<1>3. CASE RunEnds
  BY <1>3 DEF RunEnds, Next, Step
<1>4. CASE ~LoaderStep /\ ~RunEnds
  <2>1. UNCHANGED vars
    BY <1>4 DEF MainNext, MainStep, RouteCommand, RouteRun, CallRun, JitStep, ReturnFromRun, allvars
  <2> QED
    BY <1>1, <2>1
<1> QED
  BY <1>2, <1>3, <1>4

\* The program, with the steps of pvcpu_run, is the loader, which has it return or
\* crash in one (main.c:103-198): what is proved of the loader holds of the program.
LEMMA ImplementsLoader == MainSpec => Spec
<1>1. MainInit => Init
  BY DEF MainInit
<1> QED
  BY <1>1, MainStepsAreLoaderSteps, PTL DEF MainSpec, Spec

-----------------------------------------------------------------------------
(* The invariant: the loader's, and where pvcpu_run is with the slots it got. *)

ExitCodeInv == exit_code # -1 <=> pc = "exit"

LoaderInv == TypeInv /\ SlotInv /\ FileInv /\ ExitCodeInv

\* main hands over at most one instruction: 120 bytes are more than op_add emits
\* in its 15 pieces, and leave room for the ret.
JitInv ==
    /\ n \in Nat
    /\ jpc = "idle" => n = 1 /\ size = 0 /\ asked = 0 /\ said = "nothing"
    /\ jpc \in {"idle", "start", "memory", "loop", "emit", "check"} => said # "completed"
    /\ capacity = INST_SIZE /\ run_code = RUN_CODE
    /\ jpc # "idle" => Len(prog) \in 0..1
    /\ size = asked /\ size \in 0..121
    /\ jpc \in {"start", "memory"} => n = 1 /\ size = 0
    /\ jpc = "loop" => n \in 1..2 /\ size <= 120 /\ (n = 1 => size = 0)
    /\ jpc = "emit" => n = 1 /\ k \in 1..15 /\ size <= 8 * (k - 1)
    /\ jpc = "check" => n = 1 /\ size <= 120

RouteInv == /\ mpc \in {"args", "run", "done"}
            /\ mpc = "args" => pc = "start"

MInv == LoaderInv /\ JitInv /\ RouteInv

LEMMA NextLoaderInv == LoaderInv /\ [Next]_vars => LoaderInv'
<1> SUFFICES ASSUME LoaderInv, [Next]_vars PROVE LoaderInv'
  OBVIOUS
<1>1. ExitCodeInv'
  BY DEF LoaderInv, ExitCodeInv, Next, Step, Loading, Terminating, ReadFile, ReadFileFails, NextSlot,
         OutOfMemory, EndOfFile, UnpackShort, UnpackWord, UnpackExtMask, UnpackExtEnd, Reject,
         TrailingBytes, Advance, ValidateNext, AllValid, RunReturns, RunCrashes, FreeAllAndExit,
         Final, vars
<1> QED
  BY <1>1, NextTypeInv, NextSlotInv, NextFileInv DEF LoaderInv

LEMMA PiecesAreSmall ==
    Len(Jit!AddPieces) = 15 /\ \A m \in 1..15 : Jit!AddPieces[m] \in 1..8
BY DEF Jit!AddPieces

LEMMA NextJitInv == JitInv /\ Jit!JStep => JitInv'
<1> SUFFICES ASSUME JitInv, Jit!JStep PROVE JitInv'
  OBVIOUS
<1> USE DEF JitInv, INST_SIZE, RUN_CODE
<1>1. CASE Jit!InitBuffer
  BY <1>1 DEF Jit!InitBuffer
<1>2. CASE Jit!AllocateMemory
  BY <1>2 DEF Jit!AllocateMemory
<1>3. CASE Jit!SkipOutOfRange
  BY <1>3 DEF Jit!SkipOutOfRange, Jit!NextInst
<1>4. CASE Jit!CallHandler
  <2>1. /\ jpc = "loop" /\ n <= Len(prog) /\ jpc' \in {"emit", "check"} /\ k' = 1
        /\ UNCHANGED <<prog, capacity, run_code, n, size, asked, blocks, said>>
    BY <1>4 DEF Jit!CallHandler
  <2>2. n = 1 /\ size = 0
    <3>1. jpc = "loop" /\ n <= Len(prog)
      BY <2>1
    <3>2. Len(prog) \in {0, 1} /\ n \in {1, 2} /\ (n = 1 => size = 0)
      BY <3>1
    <3> HIDE DEF JitInv
    <3> DEFINE len == Len(prog)
    <3>3. len \in {0, 1} /\ n <= len
      BY <3>1, <3>2
    <3> HIDE DEF len
    <3>4. n = 1
      BY <3>2, <3>3
    <3> QED
      BY <3>2, <3>4
  <2>3. /\ jpc' \in {"emit", "check"} /\ k' = 1 /\ n' = 1 /\ size' = 0 /\ asked' = 0
        /\ capacity' = capacity /\ run_code' = run_code /\ prog' = prog /\ said' = said
    BY <2>1, <2>2
  <2>4. Len(prog) \in 0..1 /\ said # "completed" /\ capacity = 128 /\ run_code = 0
    BY <2>1
  <2> HIDE DEF JitInv
  <2> QED
    BY <2>3, <2>4 DEF JitInv
<1>5. CASE Jit!CallNoHandler
  BY <1>5 DEF Jit!CallNoHandler
<1>6. CASE Jit!EmitPiece
  <2> DEFINE len == Jit!AddPieces[k]
  <2>1. /\ jpc = "emit" /\ k' = k + 1 /\ Jit!Emit(len)
        /\ jpc' = IF k = Len(Jit!AddPieces) THEN "check" ELSE "emit"
        /\ UNCHANGED <<prog, capacity, run_code, n, blocks, said>>
    BY <1>6 DEF Jit!EmitPiece
  <2>2. n = 1 /\ k \in 1..15 /\ size \in Nat /\ size <= 8 * (k - 1) /\ size = asked
    BY <2>1
  <2>3. len \in 1..8 /\ Len(Jit!AddPieces) = 15
    BY <2>2, PiecesAreSmall
  <2> HIDE DEF len
  <2>4. size + len <= 8 * k /\ size + len <= capacity
    BY <2>2, <2>3
  <2>5. size' = size + len /\ asked' = size'
    BY <2>1, <2>2, <2>4 DEF Jit!Emit, Jit!Fits
  <2>6. size' \in 0..120 /\ size' <= 8 * (k' - 1)
    BY <2>1, <2>2, <2>3, <2>4, <2>5
  <2>7. jpc' = "emit" => k' \in 1..15
    BY <2>1, <2>2, <2>3
  <2> QED
    BY <2>1, <2>2, <2>3, <2>5, <2>6, <2>7
<1>7. CASE Jit!CheckBuffer
  BY <1>7 DEF Jit!CheckBuffer, Jit!NextInst
<1>8. CASE Jit!EmitRet
  BY <1>8 DEF Jit!EmitRet, Jit!Emit, Jit!Fits
<1>9. CASE Jit!Finish
  BY <1>9 DEF Jit!Finish
<1> QED
  BY <1>1, <1>2, <1>3, <1>4, <1>5, <1>6, <1>7, <1>8, <1>9 DEF Jit!JStep

LEMMA InitMInv == MainInit => MInv
<1> SUFFICES ASSUME MainInit PROVE MInv
  OBVIOUS
<1>1. LoaderInv
  BY InitTypeInv, InitSlotInv, InitFileInv DEF MainInit, LoaderInv, ExitCodeInv, Init
<1>2. JitInv
  BY DEF MainInit, JitInv, RUN_CODE
<1>3. RouteInv
  BY DEF MainInit, RouteInv, Init
<1> QED
  BY <1>1, <1>2, <1>3 DEF MInv

LEMMA NextMInv == MInv /\ [MainNext]_allvars => MInv'
<1> SUFFICES ASSUME MInv, [MainNext]_allvars PROVE MInv'
  OBVIOUS
<1>1. LoaderInv'
  BY MainStepsAreLoaderSteps, NextLoaderInv DEF MInv
<1>2. JitInv'
  <2>1. CASE UNCHANGED jvars
    BY <2>1 DEF MInv, JitInv, jvars
  <2>2. CASE JitStep
    BY <2>2, NextJitInv DEF JitStep, MInv
  <2>3. CASE CallRun
    <3>1. inst_count \in 0..1
      BY <2>3, RunnableRuns DEF CallRun, MInv, LoaderInv, RunsExactlyRunnable
    <3>2. prog' \in [1..inst_count -> {insts[m - 1] : m \in 1..inst_count}]
      BY <2>3 DEF CallRun
    <3>3. Len(prog') \in 0..1
      BY <3>1, <3>2
    <3> QED
      BY <2>3, <3>3 DEF CallRun, MInv, JitInv
  <2>4. CASE ~JitStep /\ ~CallRun
    <3>1. UNCHANGED jvars
      BY <2>4 DEF MainNext, MainStep, RouteCommand, RouteRun, LoaderStep, RunEnds, ReturnFromRun, allvars
    <3> QED
      BY <2>1, <3>1
  <2> QED
    BY <2>2, <2>3, <2>4
<1>3. RouteInv'
  <2>1. CASE mpc = "args"
    BY <2>1 DEF MInv, RouteInv, MainNext, MainStep, RouteCommand, RouteRun, LoaderStep, CallRun,
                JitStep, RunEnds, ReturnFromRun, Return, allvars, mainvars, vars
  <2>2. CASE mpc # "args"
    BY <2>2 DEF MInv, RouteInv, MainNext, MainStep, RouteCommand, RouteRun, LoaderStep, CallRun,
                JitStep, RunEnds, ReturnFromRun, Return, allvars, mainvars
  <2> QED
    BY <2>1, <2>2
<1> QED
  BY <1>1, <1>2, <1>3 DEF MInv

\* What main announces as completed has every byte that was emitted (main.c:177).
THEOREM CompletedCodeIsWhole == MainSpec => []CompletedIsComplete
<1>1. MInv => CompletedIsComplete
  BY DEF MInv, JitInv, CompletedIsComplete, Jit!Complete
<1> QED
  BY InitMInv, NextMInv, <1>1, PTL DEF MainSpec

-----------------------------------------------------------------------------
(* The pipeline. *)

\* The stage of the pipeline the loader is at.
StageTable ==
    mpc = "run" =>
        /\ pc = "start"                              => Stage = "load"
        /\ pc \in {"loop", "unpack", "ext", "unpacked"} => Stage = "extract"
        /\ pc = "validate"                           => Stage = "validate"
        /\ pc = "run"                                => Stage = "translate"
        /\ pc = "exit" /\ exit_code = 4              => Stage = "load"
        /\ pc = "exit" /\ exit_code = 5              => Stage = "extract"
        /\ pc = "exit" /\ exit_code = 6              => Stage = "validate"
        /\ pc = "exit" /\ exit_code = 0              => Stage = "translate"
        /\ pc \in {"crashed", "oom", "corrupt"}      => Stage = "broken"

LEMMA StageIs == MInv => StageTable
<1> SUFFICES ASSUME MInv, mpc = "run"
             PROVE  /\ pc = "start"                              => Stage = "load"
                    /\ pc \in {"loop", "unpack", "ext", "unpacked"} => Stage = "extract"
                    /\ pc = "validate"                           => Stage = "validate"
                    /\ pc = "run"                                => Stage = "translate"
                    /\ pc = "exit" /\ exit_code = 4              => Stage = "load"
                    /\ pc = "exit" /\ exit_code = 5              => Stage = "extract"
                    /\ pc = "exit" /\ exit_code = 6              => Stage = "validate"
                    /\ pc = "exit" /\ exit_code = 0              => Stage = "translate"
                    /\ pc \in {"crashed", "oom", "corrupt"}      => Stage = "broken"
  BY DEF StageTable
<1>1. pc # "exit" => exit_code = -1
  BY DEF MInv, LoaderInv, ExitCodeInv
<1> QED
  BY <1>1 DEF Stage

\* The step of the pipeline that a step of the program is.
LEMMA LoaderStepIsStage ==
    ASSUME MInv, LoaderStep, StageTable, StageTable'
    PROVE  [Abstract!PNext]_(Abstract!pvars)
<1>1. mpc = "run" /\ mpc' = "run" /\ n' = n /\ status' = status /\ Loading
  BY DEF LoaderStep, jvars, mainvars
<1> USE DEF Abstract!PNext, Abstract!Proceed, Abstract!Break, Abstract!Following, Abstract!Stages,
            Abstract!pvars
<1>2. CASE ReadFile
  BY <1>1, <1>2 DEF StageTable, ReadFile
<1>3. CASE ReadFileFails
  BY <1>1, <1>3 DEF StageTable, ReadFileFails
<1>4. CASE NextSlot \/ UnpackShort \/ UnpackWord \/ UnpackExtEnd \/ Advance
  BY <1>1, <1>4 DEF StageTable, NextSlot, UnpackShort, UnpackWord, UnpackExtEnd, Advance
<1>5. CASE OutOfMemory
  BY <1>1, <1>5 DEF StageTable, OutOfMemory
<1>6. CASE EndOfFile \/ TrailingBytes
  BY <1>1, <1>6 DEF StageTable, EndOfFile, TrailingBytes
<1>7. CASE UnpackExtMask
  <2>1. pc = "ext" /\ pc' \in {"ext", "unpacked", "corrupt"}
    BY <1>7 DEF UnpackExtMask
  <2> QED
    BY <1>1, <2>1 DEF StageTable
<1>8. CASE Reject
  BY <1>1, <1>8 DEF StageTable, Reject, FreeAllAndExit
<1>9. CASE ValidateNext
  <2>1. pc = "validate" /\ (pc' = pc \/ (pc' = "exit" /\ exit_code' = 6) \/ pc' = "corrupt")
    BY <1>9 DEF ValidateNext, FreeAllAndExit
  <2> QED
    BY <1>1, <2>1 DEF StageTable
<1>10. CASE AllValid
  BY <1>1, <1>10 DEF StageTable, AllValid
<1> QED
  BY <1>1, <1>2, <1>3, <1>4, <1>5, <1>6, <1>7, <1>8, <1>9, <1>10 DEF Loading

\* A step of pvcpu_run counts at most one instruction.
LEMMA JitCounts == Jit!JStep => n' = n \/ n' = n + 1
<1> SUFFICES ASSUME Jit!JStep PROVE n' = n \/ n' = n + 1
  OBVIOUS
<1>1. CASE Jit!InitBuffer \/ Jit!AllocateMemory
  BY <1>1 DEF Jit!InitBuffer, Jit!AllocateMemory
<1>2. CASE Jit!CallHandler
  BY <1>2 DEF Jit!CallHandler
<1>3. CASE Jit!CallNoHandler
  BY <1>3 DEF Jit!CallNoHandler
<1>4. CASE Jit!EmitPiece
  BY <1>4 DEF Jit!EmitPiece
<1>5. CASE Jit!EmitRet \/ Jit!Finish
  BY <1>5 DEF Jit!EmitRet, Jit!Finish
<1>6. CASE Jit!SkipOutOfRange \/ Jit!CheckBuffer
  BY <1>6 DEF Jit!SkipOutOfRange, Jit!CheckBuffer, Jit!NextInst
<1> QED
  BY <1>1, <1>2, <1>3, <1>4, <1>5, <1>6 DEF Jit!JStep

LEMMA MainStepIsStage ==
    ASSUME MInv, [MainNext]_allvars, StageTable, StageTable'
    PROVE  [Abstract!PNext]_(Abstract!pvars)
<1> USE DEF Abstract!PNext, Abstract!Proceed, Abstract!Break, Abstract!Stop, Abstract!Translate,
            Abstract!Following, Abstract!Stages, Abstract!ExitCodes, Abstract!pvars
<1>1. CASE RouteCommand
  <2>1. mpc = "args" /\ mpc' = "done" /\ status' \in {0, 1, 2, 7} /\ n' = n
    BY <1>1 DEF RouteCommand, Return, jvars
  <2>2. Stage = "args" /\ Stage' = "exit"
    BY <2>1 DEF Stage
  <2> QED
    BY <2>1, <2>2
<1>2. CASE RouteRun
  <2>1. mpc = "args" /\ mpc' = "run" /\ pc' = "start" /\ status' = status /\ n' = n
    BY <1>2 DEF RouteRun, MInv, RouteInv, vars, jvars
  <2>2. Stage = "args" /\ Stage' = "load"
    BY <2>1 DEF Stage, StageTable
  <2> QED
    BY <2>1, <2>2
<1>3. CASE LoaderStep
  BY <1>3, LoaderStepIsStage
<1>4. CASE CallRun
  BY <1>4 DEF CallRun, vars, mainvars, Stage
<1>5. CASE JitStep
  <2>1. mpc = "run" /\ pc = "run" /\ status' = status /\ Stage' = Stage
    BY <1>5 DEF JitStep, vars, mainvars, Stage
  <2>2. Stage = "translate"
    BY <2>1 DEF StageTable
  <2>3. n \in Nat /\ (n' = n \/ n' = n + 1)
    BY <1>5, JitCounts DEF JitStep, MInv, JitInv
  <2>4. n' - 1 = n - 1 \/ n' - 1 = (n - 1) + 1
    BY <2>3
  <2> QED
    BY <2>1, <2>2, <2>4
<1>6. CASE RunEnds
  <2>1. /\ mpc = "run" /\ mpc' = "run" /\ pc = "run" /\ status' = status /\ n' = n
        /\ (pc' = "exit" /\ exit_code' = 0) \/ pc' \in {"corrupt", "crashed"}
    BY <1>6 DEF RunEnds, RunReturns, RunCrashes, FreeAllAndExit, jvars, mainvars
  <2> QED
    BY <2>1 DEF StageTable
<1>7. CASE ReturnFromRun
  <2>1. /\ mpc = "run" /\ pc = "exit" /\ mpc' = "done" /\ status' = exit_code /\ n' = n
        /\ exit_code \in {0, 4, 5, 6}
    BY <1>7 DEF ReturnFromRun, Return, jvars, MInv, LoaderInv, ExitCodeInv, TypeInv, TypeOK
  <2>2. Stage' = "exit"
    BY <2>1 DEF Stage
  <2> QED
    BY <2>1, <2>2 DEF StageTable
<1>8. CASE UNCHANGED allvars
  BY <1>8 DEF allvars, vars, jvars, mainvars, Stage
<1> QED
  BY <1>1, <1>2, <1>3, <1>4, <1>5, <1>6, <1>7, <1>8 DEF MainNext, MainStep

\* The stages happen in order, once each, and the exit code names the one that
\* stopped the run (main.c:121, 153, 173, 196).
THEOREM ImplementsPipeline == MainSpec => Pipeline
<1>1. MainInit => Abstract!PInit
  BY DEF MainInit, Abstract!PInit, Stage
<1>2. MInv /\ MInv' /\ [MainNext]_allvars => [Abstract!PNext]_(Abstract!pvars)
  <2> SUFFICES ASSUME MInv, MInv', [MainNext]_allvars PROVE [Abstract!PNext]_(Abstract!pvars)
    OBVIOUS
  <2>1. StageTable /\ StageTable'
    BY StageIs, PTL
  <2> QED
    BY <2>1, MainStepIsStage
<1> QED
  BY <1>1, <1>2, InitMInv, NextMInv, PTL DEF MainSpec, Pipeline, Abstract!PSpec
-----------------------------------------------------------------------------
(* The program ends: main goes on, or the loader is nearer to its end, or    *)
(* pvcpu_run is while the loader waits for it.                               *)

\* What main has still to do: route the command, and return from run.
RouteLeft == CASE mpc = "args" -> 2
               [] mpc = "run"  -> 1
               [] OTHER        -> 0

\* The steps of pvcpu_run that are left for the one instruction main hands over.
RunLeft == CASE jpc = "idle"   -> 24
             [] jpc = "start"  -> 23
             [] jpc = "memory" -> 22
             [] jpc = "loop"   -> IF n = 1 THEN 21 ELSE 3
             [] jpc = "emit"   -> 20 - k
             [] jpc = "check"  -> 4
             [] jpc = "finish" -> 2
             [] OTHER          -> 0

MainLowers == \/ RouteLeft' < RouteLeft
              \/ RouteLeft' = RouteLeft /\ LLeft' < LLeft
              \/ RouteLeft' = RouteLeft /\ LLeft' = LLeft /\ RunLeft' < RunLeft

LEMMA JitLowersRunLeft == JitInv /\ Jit!JStep => RunLeft' < RunLeft
<1> SUFFICES ASSUME JitInv, Jit!JStep PROVE RunLeft' < RunLeft
  OBVIOUS
<1>1. CASE Jit!InitBuffer \/ Jit!AllocateMemory
  <2>1. \/ jpc = "start" /\ jpc' \in {"memory", "returned"}
        \/ jpc = "memory" /\ jpc' \in {"loop", "returned"} /\ n' = 1
    BY <1>1 DEF Jit!InitBuffer, Jit!AllocateMemory, JitInv
  <2> QED
    BY <2>1 DEF RunLeft
<1>2. CASE Jit!SkipOutOfRange \/ Jit!CallHandler \/ Jit!CallNoHandler
  <2>1. /\ jpc = "loop" /\ n \in 1..2 /\ n <= Len(prog) /\ Len(prog) \in 0..1
        /\ \/ jpc' = "loop" /\ n' = n + 1
           \/ jpc' \in {"emit", "check"} /\ k' = 1
           \/ jpc' = "crashed"
    BY <1>2 DEF Jit!SkipOutOfRange, Jit!CallHandler, Jit!CallNoHandler, Jit!NextInst, JitInv
  <2> DEFINE len == Len(prog)
  <2>2. n \in 1..2 /\ len \in 0..1 /\ n <= len
    BY <2>1
  <2> HIDE DEF len
  <2>3. n = 1
    BY <2>2
  <2> QED
    BY <2>1, <2>3 DEF RunLeft
<1>3. CASE Jit!EmitPiece
  <2>1. jpc = "emit" /\ k \in 1..15 /\ k' = k + 1 /\ jpc' \in {"emit", "check"}
    BY <1>3 DEF Jit!EmitPiece, JitInv
  <2> QED
    BY <2>1 DEF RunLeft
<1>4. CASE Jit!CheckBuffer
  <2>1. jpc = "check" /\ n = 1 /\ (jpc' = "returned" \/ (jpc' = "loop" /\ n' = n + 1))
    BY <1>4 DEF Jit!CheckBuffer, Jit!NextInst, JitInv
  <2> QED
    BY <2>1 DEF RunLeft
<1>5. CASE Jit!EmitRet \/ Jit!Finish
  <2>1. \/ jpc = "loop" /\ jpc' = "finish"
        \/ jpc = "finish" /\ jpc' \in {"returned", "corrupt"}
    BY <1>5 DEF Jit!EmitRet, Jit!Finish
  <2> QED
    BY <2>1 DEF RunLeft
<1> QED
  BY <1>1, <1>2, <1>3, <1>4, <1>5 DEF Jit!JStep

LEMMA RunLeftInNat == JitInv => RouteLeft \in Nat /\ RunLeft \in Nat
BY DEF JitInv, RouteLeft, RunLeft

LEMMA NextLowersMain == MInv /\ MasksInv /\ [MainNext]_allvars => [MainLowers]_allvars
<1> SUFFICES ASSUME MInv, MasksInv, MainStep PROVE MainLowers
  BY DEF MainNext, Over
<1>1. CASE RouteCommand \/ RouteRun \/ ReturnFromRun
  <2>1. \/ mpc = "args" /\ mpc' \in {"run", "done"}
        \/ mpc = "run" /\ mpc' = "done"
    BY <1>1 DEF RouteCommand, RouteRun, ReturnFromRun, Return
  <2> QED
    BY <2>1 DEF RouteLeft, MainLowers
<1>2. CASE LoaderStep \/ RunEnds
  <2>1. RouteLeft' = RouteLeft /\ Step
    BY <1>2 DEF LoaderStep, RunEnds, mainvars, RouteLeft, Step
  <2>2. LLeft' < LLeft
    BY <2>1, NextLowersLLeft DEF MInv, LoaderInv
  <2> QED
    BY <2>1, <2>2 DEF MainLowers
<1>3. CASE CallRun \/ JitStep
  <2>1. UNCHANGED vars /\ UNCHANGED mainvars
    BY <1>3 DEF CallRun, JitStep
  <2>2. RouteLeft' = RouteLeft /\ LLeft' = LLeft
    BY <2>1 DEF vars, slots, mainvars, RouteLeft, LLeft, ForSlots, ToValidate
  <2>3. RunLeft' < RunLeft
    <3>1. CASE CallRun
      BY <3>1 DEF CallRun, RunLeft
    <3>2. CASE JitStep
      BY <3>2, JitLowersRunLeft DEF JitStep, MInv
    <3> QED
      BY <1>3, <3>1, <3>2
  <2> QED
    BY <2>2, <2>3 DEF MainLowers
<1> QED
  BY <1>1, <1>2, <1>3 DEF MainStep

\* main comes to its end with pvcpu_run inside it, or stops where it breaks
\* (main.c:77-198, isa.c:71-121): natural numbers go down with every step.
THEOREM MainApproachesEnd ==
    MainSpec => /\ [](RouteLeft \in Nat /\ LLeft \in Nat /\ RunLeft \in Nat)
                /\ [][MainLowers]_allvars
<1>1. MainInit => MasksInv
  BY DEF MainInit, Init, MasksInv
<1>2. MInv /\ MasksInv /\ [MainNext]_allvars => MasksInv'
  BY MainStepsAreLoaderSteps, NextMasksInv DEF MInv, LoaderInv
<1>3. MInv /\ MasksInv => RouteLeft \in Nat /\ LLeft \in Nat /\ RunLeft \in Nat
  BY LLeftFacts, RunLeftInNat DEF MInv, LoaderInv
<1> QED
  BY InitMInv, NextMInv, NextLowersMain, <1>1, <1>2, <1>3, PTL DEF MainSpec

-----------------------------------------------------------------------------
(* A file main can run, of an instruction with a handler, breaks nothing on  *)
(* the way through pvcpu_run either.                                         *)

HandledInv == Runnable(file) /\ Handled =>
                  /\ jpc # "idle" => \A m \in 1..Len(prog) : HasHandler(prog[m])
                  /\ jpc \notin {"crashed", "corrupt"}

LEMMA NextHandledInv == MInv /\ HandledInv /\ [MainNext]_allvars => HandledInv'
<1> SUFFICES ASSUME MInv, HandledInv, [MainNext]_allvars, (Runnable(file) /\ Handled)'
             PROVE  /\ jpc' # "idle" => \A m \in 1..Len(prog') : HasHandler(prog'[m])
                    /\ jpc' \notin {"crashed", "corrupt"}
  BY DEF HandledInv, HasHandler
<1>1. [Next]_vars
  BY MainStepsAreLoaderSteps
<1>2. file' = file
  BY <1>1 DEF Next, Step, Loading, Terminating, ReadFile, ReadFileFails, NextSlot, OutOfMemory,
     EndOfFile, UnpackShort, UnpackWord, UnpackExtMask, UnpackExtEnd, Reject, TrailingBytes, Advance,
     ValidateNext, AllValid, RunReturns, RunCrashes, FreeAllAndExit, vars
<1>3. Runnable(file) /\ Handled
  BY <1>2 DEF Runnable, Handled
<1>4. /\ jpc # "idle" => \A m \in 1..Len(prog) : HasHandler(prog[m])
      /\ jpc \notin {"crashed", "corrupt"}
  BY <1>3 DEF HandledInv
<1>5. CASE CallRun
  <2>1. pc = "run" /\ jpc' = "start" /\ prog' = [m \in 1..inst_count |-> insts[m - 1]]
    BY <1>5 DEF CallRun
  <2>2. inst_count \in {0, 1} /\ (inst_count = 1 => insts[0] = file.words[1] /\ file.words # <<>>)
    BY <2>1, RunnableRuns DEF MInv, LoaderInv, RunsExactlyRunnable
  <2>3. Len(prog') = inst_count /\ (inst_count = 1 => prog'[1] = insts[0])
    BY <2>1, <2>2
  <2>4. ASSUME NEW m \in 1..Len(prog') PROVE HasHandler(prog'[m])
    <3>1. inst_count = 1 /\ m = 1
      BY <2>2, <2>3, <2>4
    <3> QED
      BY <1>3, <2>2, <2>3, <3>1 DEF Handled
  <2> QED
    BY <2>1, <2>4
<1>6. CASE JitStep
  <2>1. /\ prog' = prog /\ jpc # "idle" /\ Jit!JStep /\ run_code = 0
        /\ Len(prog) \in 0..1
    BY <1>6 DEF JitStep, MInv, JitInv, RUN_CODE, Jit!JStep, Jit!InitBuffer, Jit!AllocateMemory,
       Jit!SkipOutOfRange, Jit!CallHandler, Jit!CallNoHandler, Jit!EmitPiece, Jit!CheckBuffer,
       Jit!EmitRet, Jit!Finish
  <2>2. ~Jit!CallNoHandler
    <3> SUFFICES ASSUME Jit!CallNoHandler PROVE FALSE
      OBVIOUS
    <3>1. jpc = "loop" /\ n <= Len(prog) /\ prog[n].opcode # OP_ADD
      BY DEF Jit!CallNoHandler, Jit!OP_ADD, OP_ADD
    <3>2. n \in 1..2 /\ Len(prog) \in 0..1
      BY <2>1, <3>1 DEF MInv, JitInv
    <3>3. n \in 1..Len(prog)
      BY <3>1, <3>2
    <3> QED
      BY <1>4, <2>1, <3>1, <3>3 DEF HasHandler
  <2>3. jpc' \notin {"crashed", "corrupt"}
    <3>1. CASE Jit!InitBuffer \/ Jit!AllocateMemory \/ Jit!SkipOutOfRange \/ Jit!EmitRet
      BY <1>4, <3>1 DEF Jit!InitBuffer, Jit!AllocateMemory, Jit!SkipOutOfRange, Jit!EmitRet
    <3>2. CASE Jit!CallHandler \/ Jit!EmitPiece \/ Jit!CheckBuffer
      BY <3>2 DEF Jit!CallHandler, Jit!EmitPiece, Jit!CheckBuffer
    <3>3. CASE Jit!Finish
      BY <2>1, <3>3 DEF Jit!Finish
    <3> QED
      BY <2>1, <2>2, <3>1, <3>2, <3>3 DEF Jit!JStep
  <2> QED
    BY <1>4, <2>1, <2>3
<1>7. CASE ~CallRun /\ ~JitStep
  <2>1. UNCHANGED jvars
    BY <1>7 DEF MainNext, MainStep, RouteCommand, RouteRun, LoaderStep, RunEnds, ReturnFromRun, allvars
  <2> QED
    BY <1>4, <2>1 DEF jvars
<1> QED
  BY <1>5, <1>6, <1>7

\* On a file it can run, of an instruction with a handler, neither main nor the
\* pvcpu_run inside it breaks (main.c:121-196, isa.c:88-120).
THEOREM MainNeverBreaks ==
    MainSpec => []( Runnable(file) /\ Handled =>
                       /\ pc \notin {"crashed", "oom", "corrupt"}
                       /\ jpc \notin {"crashed", "corrupt"} )
<1>1. MainInit => HandledInv
  BY DEF MainInit, HandledInv
<1>2. HandledInv => (Runnable(file) /\ Handled => jpc \notin {"crashed", "corrupt"})
  BY DEF HandledInv
<1> QED
  BY InitMInv, NextMInv, NextHandledInv, ImplementsLoader, RunnableNeverBreaks, <1>1, <1>2, PTL
  DEF MainSpec
-----------------------------------------------------------------------------
(* What the run main_test_add shows of one file, for every opcode without a  *)
(* handler.                                                                  *)

Unhandled == file.words # <<>> /\ ~HasHandler(file.words[1])

OneUnhandled(p) == \E w \in WordType : p = <<w>> /\ ~HasHandler(w)

\* pvcpu_run is at the first instruction, on its way to the null handler.
UnhandledInv ==
    Unhandled =>
        /\ said # "completed"
        /\ jpc # "idle" => OneUnhandled(prog)
        /\ jpc \in {"idle", "start", "memory", "loop", "crashed", "returned"}
        /\ n = 1 /\ asked = 0

\* The test of isa.c:91 lets the opcode of every word through.
OutOfRange(op) == op > 4096

LEMMA OpcodeInRange == ASSUME NEW w \in WordType PROVE ~OutOfRange(w.opcode)
<1> DEFINE Opcodes == 0..4095
<1>1. \A op \in Opcodes : ~OutOfRange(op)
  BY DEF OutOfRange
<1>2. w.opcode \in Opcodes
  BY DEF WordType
<1> HIDE DEF Opcodes
<1> QED
  BY <1>1, <1>2, Zenon

LEMMA NextUnhandledInv == MInv /\ UnhandledInv /\ [MainNext]_allvars => UnhandledInv'
<1> SUFFICES ASSUME MInv, UnhandledInv, [MainNext]_allvars, Unhandled'
             PROVE  /\ said' # "completed"
                    /\ jpc' # "idle" => OneUnhandled(prog')
                    /\ jpc' \in {"idle", "start", "memory", "loop", "crashed", "returned"}
                    /\ n' = 1 /\ asked' = 0
  BY DEF UnhandledInv, OneUnhandled, HasHandler
<1>1. [Next]_vars
  BY MainStepsAreLoaderSteps
<1>2. file' = file
  BY <1>1 DEF Next, Step, Loading, Terminating, ReadFile, ReadFileFails, NextSlot, OutOfMemory,
     EndOfFile, UnpackShort, UnpackWord, UnpackExtMask, UnpackExtEnd, Reject, TrailingBytes, Advance,
     ValidateNext, AllValid, RunReturns, RunCrashes, FreeAllAndExit, vars
<1>3. Unhandled
  BY <1>2 DEF Unhandled
<1>4. /\ said # "completed"
      /\ jpc # "idle" => OneUnhandled(prog)
      /\ jpc \in {"idle", "start", "memory", "loop", "crashed", "returned"}
      /\ n = 1 /\ asked = 0
  BY <1>3 DEF UnhandledInv
<1>5. CASE CallRun
  <2>1. /\ pc = "run" /\ jpc = "idle" /\ jpc' = "start" /\ n' = n /\ asked' = asked /\ said' = said
        /\ prog' = [m \in 1..inst_count |-> insts[m - 1]]
    BY <1>5 DEF CallRun
  <2>2. inst_count = 1 /\ insts[0] = file.words[1]
    BY <1>3, <2>1, RunnableRuns DEF MInv, LoaderInv, RunsExactlyRunnable, Unhandled
  <2>3. prog' = <<file.words[1]>>
    BY <2>1, <2>2
  <2>4. file.words[1] \in WordType
    <3>1. PICK m \in 0..MaxWords : file.words \in [1..m -> Words]
      BY DEF MInv, LoaderInv, TypeInv, TypeOK, Files
    <3>2. file.words \in Seq(WordType)
      BY <3>1, BoundsAssumption, WordsAssumption
    <3>3. file.words # <<>>
      BY <1>3 DEF Unhandled
    <3>4. Len(file.words) \in Nat \ {0}
      BY <3>2, <3>3, EmptySeq
    <3> QED
      BY <3>2, <3>4
  <2>5. OneUnhandled(prog')
    BY <1>3, <2>3, <2>4 DEF Unhandled, OneUnhandled
  <2> QED
    BY <1>4, <2>1, <2>5
<1>6. CASE JitStep
  <2>1. Jit!JStep
    BY <1>6 DEF JitStep
  <2>2. CASE Jit!InitBuffer \/ Jit!AllocateMemory
    BY <1>4, <2>2 DEF Jit!InitBuffer, Jit!AllocateMemory
  <2>3. CASE Jit!CallNoHandler
    BY <1>4, <2>3 DEF Jit!CallNoHandler
  <2>4. ~Jit!SkipOutOfRange /\ ~Jit!CallHandler /\ ~Jit!EmitRet
    <3>1. CASE jpc = "loop"
      <4>1. PICK w \in WordType : prog = <<w>> /\ ~HasHandler(w)
        BY <1>4, <3>1 DEF OneUnhandled
      <4>2. w.opcode # 0
        BY <4>1 DEF HasHandler, OP_ADD
      <4>3. ~OutOfRange(w.opcode)
        BY OpcodeInRange
      <4>4. n = 1 /\ n <= Len(prog) /\ prog[n] = w
        BY <1>4, <4>1
      <4>5. ~(n > Len(prog))
        BY <1>4, <4>1
      <4> QED
        BY <4>2, <4>3, <4>4, <4>5
        DEF Jit!SkipOutOfRange, Jit!CallHandler, Jit!EmitRet, Jit!OP_ADD, OutOfRange
    <3>2. CASE jpc # "loop"
      BY <3>2 DEF Jit!SkipOutOfRange, Jit!CallHandler, Jit!EmitRet
    <3> QED
      BY <3>1, <3>2
  <2>5. ~Jit!EmitPiece /\ ~Jit!CheckBuffer /\ ~Jit!Finish
    BY <1>4 DEF Jit!EmitPiece, Jit!CheckBuffer, Jit!Finish
  <2> QED
    BY <2>1, <2>2, <2>3, <2>4, <2>5 DEF Jit!JStep
<1>7. CASE ~CallRun /\ ~JitStep
  <2>1. UNCHANGED jvars
    BY <1>7 DEF MainNext, MainStep, RouteCommand, RouteRun, LoaderStep, RunEnds, ReturnFromRun, allvars
  <2> QED
    BY <1>4, <2>1 DEF jvars
<1> QED
  BY <1>5, <1>6, <1>7

\* An instruction without a handler, which is any opcode but 0 (isa.c:68), is never
\* translated: the addition of PDASM's test program (pvcpu.pasm:5) among them. Once
\* pvcpu_run has its memory it is called through the null entry of the table.
THEOREM UnhandledNeverCompletes ==
    MainSpec => [](Unhandled => said # "completed" /\ n = 1 /\ asked = 0)
<1>1. MainInit => UnhandledInv
  BY DEF MainInit, UnhandledInv
<1>2. UnhandledInv => (Unhandled => said # "completed" /\ n = 1 /\ asked = 0)
  BY DEF UnhandledInv
<1> QED
  BY InitMInv, NextMInv, NextUnhandledInv, <1>1, <1>2, PTL DEF MainSpec
=============================================================================
