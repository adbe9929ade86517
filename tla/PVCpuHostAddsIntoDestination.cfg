SPECIFICATION HSpec
CONSTANTS
    Regs <- HostRegs
    Width = 2
    MaxAdds = 2
INVARIANT AddsIntoDestination
