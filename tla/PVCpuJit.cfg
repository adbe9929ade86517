SPECIFICATION JFairSpec
CONSTANTS
    Insts <- JitInsts
    MaxProg = 3
    Capacities <- JitCapacities
INVARIANT JTypeOK
INVARIANT BufferWithinCapacity
INVARIANT RoomMeansComplete
INVARIANT ReturnReleasesBoth
PROPERTY ReturnsWithoutRunning
