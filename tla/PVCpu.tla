------------------------------- MODULE PVCpu -------------------------------
(***************************************************************************)
(* The pvcpu program: the command line of PVCpu/src/main.c, the loader     *)
(* behind its `run` command, and the pvcpu_run the loader calls.  The      *)
(* loader's abstract "pvcpu_run returns or crashes" is replaced by the     *)
(* steps of PVCpuJit, on the slots the loader really hands over.           *)
(***************************************************************************)
EXTENDS PVCpuLoader

CONSTANT
    Commands        \* values of argv[1]; NoCommand stands for argc < 2

NoCommand == "(none)"
ASSUME CommandsAssumption == {"run", "help", "check", NoCommand} \subseteq Commands

VARIABLES
    command, has_input,     \* argv[1], and whether argv[2] is there
    mpc,                    \* "args", "run" (in the loader), "done"
    status,                 \* what main returned
    prog, capacity, run_code, jpc, n, k, size, asked, blocks, said   \* of PVCpuJit

jvars    == <<prog, capacity, run_code, jpc, n, k, size, asked, blocks, said>>
mainvars == <<command, has_input, mpc, status>>
allvars  == <<vars, jvars, mainvars>>

\* The last arguments of the call at main.c:177.
INST_SIZE == 128
RUN_CODE  == 0

Jit == INSTANCE PVCpuJit WITH Insts <- WordType, MaxProg <- MaxSlots,
                              Capacities <- {INST_SIZE}

MainInit ==
    /\ Init
    /\ command \in Commands /\ has_input \in BOOLEAN
    /\ command = NoCommand => ~has_input
    /\ mpc = "args" /\ status = -1
    /\ prog = <<>> /\ capacity = INST_SIZE /\ run_code = RUN_CODE
    /\ jpc = "idle" /\ n = 1 /\ k = 1 /\ size = 0 /\ asked = 0
    /\ blocks = {} /\ said = "nothing"

\* parse_args: no command, a command without its input, an unknown command.
ArgsError == \/ command = NoCommand
             \/ command \in {"run", "check"} /\ ~has_input
             \/ command \notin {"run", "check", "help", NoCommand}

Return(code) == mpc' = "done" /\ status' = code

\* Everything main does that is not `run` with an input.
RouteCommand ==
    /\ mpc = "args"
    /\ \/ command = NoCommand /\ Return(1)
       \/ command # NoCommand /\ ArgsError /\ Return(2)
       \/ ~ArgsError /\ command = "check" /\ Return(0)
       \/ ~ArgsError /\ command = "help" /\ Return(7)
    /\ UNCHANGED <<vars, jvars, command, has_input>>

RouteRun ==
    /\ mpc = "args" /\ ~ArgsError /\ command = "run"
    /\ mpc' = "run"
    /\ UNCHANGED <<vars, jvars, command, has_input, status>>

LoaderStep ==
    /\ mpc = "run"
    /\ Loading
    /\ UNCHANGED <<jvars, mainvars>>

\* main calls pvcpu_run on the counted slots.
CallRun ==
    /\ mpc = "run" /\ pc = "run" /\ jpc = "idle"
    /\ prog' = [m \in 1..inst_count |-> insts[m - 1]]
    /\ jpc' = "start"
    /\ UNCHANGED <<vars, mainvars, capacity, run_code, n, k, size, asked, blocks, said>>

JitStep ==
    /\ mpc = "run" /\ pc = "run"
    /\ Jit!JStep
    /\ UNCHANGED <<vars, mainvars>>

RunEnds ==
    /\ mpc = "run"
    /\ \/ jpc = "returned" /\ RunReturns
       \/ jpc = "crashed" /\ RunCrashes
    /\ UNCHANGED <<jvars, mainvars>>

ReturnFromRunAlwaysZero ==
    /\ mpc = "run" /\ pc = "exit"
    /\ Return(0)
    /\ UNCHANGED <<vars, jvars, command, has_input>>
ReturnFromRun ==
    /\ mpc = "run" /\ pc = "exit"
    /\ Return(exit_code)
    /\ UNCHANGED <<vars, jvars, command, has_input>>

Over == mpc = "done" \/ (mpc = "run" /\ pc \in Final \ {"exit"})

MainStep == \/ RouteCommand \/ RouteRun \/ LoaderStep
            \/ CallRun \/ JitStep \/ RunEnds \/ ReturnFromRun
MainNext == MainStep \/ (Over /\ UNCHANGED allvars)
MainSpec == MainInit /\ [][MainNext]_allvars
MainFairSpec == MainSpec /\ WF_allvars(MainStep)

-----------------------------------------------------------------------------
\* The program implements the pipeline.  A failed loader is still at its stage
\* until main returns its code.
Stage == IF mpc = "done" THEN "exit"
         ELSE IF mpc = "args" THEN "args"
         ELSE CASE pc = "start" \/ exit_code = 4                  -> "load"
                [] pc \in {"loop", "unpack", "ext", "unpacked"}   -> "extract"
                [] exit_code = 5                                  -> "extract"
                [] pc = "validate" \/ exit_code = 6               -> "validate"
                [] pc = "run" \/ exit_code = 0                    -> "translate"
                [] OTHER                                          -> "broken"

Abstract == INSTANCE PVCpuPipeline WITH stage <- Stage, translated <- n - 1

\* The stages happen in order, once each, and the exit code names the one that
\* stopped the run (main.c:121, 153, 173, 196).
Pipeline == Abstract!PSpec

\* The code main announces as completed is never a truncated one: what the
\* validator lets through always fits the 128 bytes main asks for (main.c:177).
CompletedIsComplete == said = "completed" => Jit!Complete

\* main ends when the file is one it can run and its opcode has a handler: the
\* loops of the loader and of pvcpu_run all end, and nothing crashes on the way.
MainEnds ==
    (Runnable(file) /\ (file.words # <<>> => HasHandler(file.words[1])))
        => <>(mpc = "done")

-----------------------------------------------------------------------------
(* What a test of the repository says, and the code does not do. *)

\* tests/pvcpu.bin of PDASM, one word: `add %g0, %g1` in pvcpu.pasm:5.
TestAdd == [opcode |-> 1, mode |-> REG_REG, src |-> 1, dest |-> 2, flags |-> {"valid"}]

\* The program of tests/pvcpu.bin, an addition of two registers, is one pvcpu can
\* run: the handler table (isa.c:68) has the addition.
AddIsTranslated == file.words = <<TestAdd>> => pc # "crashed"

=============================================================================
