SPECIFICATION JSpec
CONSTANTS
    Insts <- HandledInsts
    MaxProg = 6
    Capacities <- MainCapacity
INVARIANT TooSmallIsReported
