SPECIFICATION Spec
CONSTANTS
    Items = {i1}
    NumPackages = 2
    MaxFinalizations = 2
    MaxAttempts = 1
    Names = {n1}
    Workers = {w1}
    Clients = {}
    MaxFaults = 1
    NoLease = NoLease
    NoWorker = NoWorker
    NoSession = NoSession
    NoScan = NoScan
SYMMETRY Sym
INVARIANTS
    
    OfferedArchiveIsPublished
PROPERTIES
    ImplementsContract
