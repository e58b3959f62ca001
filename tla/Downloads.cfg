SPECIFICATION Spec
CONSTANTS
    Items = {i1}
    NumPackages = 1
    MaxFinalizations = 1
    MaxAttempts = 1
    Names = {n1}
    Workers = {w1}
    Clients = {c1, c2}
    MaxFaults = 0
    NoLease = NoLease
    NoWorker = NoWorker
    NoSession = NoSession
    NoScan = NoScan
SYMMETRY Sym
PROPERTIES
    LeaseProtectsStream
