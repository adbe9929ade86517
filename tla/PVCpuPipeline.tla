--------------------------- MODULE PVCpuPipeline ---------------------------
(***************************************************************************)
(* What pvcpu promises from the outside: the stages of the pipeline        *)
(* (README.md:98-120 of the repository: loading, extraction, validation,   *)
(* translation) are passed in that order, each one once; the exit code     *)
(* names the stage that stopped the run; nothing is translated before      *)
(* validation is over, nor after the program has ended.                    *)
(***************************************************************************)
EXTENDS Integers

VARIABLES
    stage,          \* "args", then the stages, then "exit", or "broken"
    translated,     \* instructions translated so far
    status          \* the exit code, -1 before it

pvars == <<stage, translated, status>>

Stages == {"args", "load", "extract", "validate", "translate"}

\* The exit codes each stage can end with; from the command line come the
\* codes of a run that never starts.
ExitCodes == [args |-> {0, 1, 2, 7}, load |-> {4}, extract |-> {5}, validate |-> {6},
              translate |-> {0}]

Following == [args |-> "load", load |-> "extract", extract |-> "validate",
              validate |-> "translate"]

PInit == stage = "args" /\ translated = 0 /\ status = -1

Proceed ==
    /\ stage \in DOMAIN Following
    /\ stage' = Following[stage]
    /\ UNCHANGED <<translated, status>>

Translate ==
    /\ stage = "translate"
    /\ translated' = translated + 1
    /\ UNCHANGED <<stage, status>>

Stop ==
    /\ stage \in Stages
    /\ stage' = "exit" /\ status' \in ExitCodes[stage]
    /\ UNCHANGED translated

\* The process dies or loses its memory; the README does not speak of it.
Break ==
    /\ stage \in Stages
    /\ stage' = "broken"
    /\ UNCHANGED <<translated, status>>

PNext == Proceed \/ Translate \/ Stop \/ Break
PSpec == PInit /\ [][PNext]_pvars
=============================================================================
