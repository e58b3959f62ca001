SPECIFICATION FairSpec
CONSTANTS
    Items = {i1}
    NumPackages = 1
    MaxFinalizations = 2
    MaxAttempts = 2
    Names = {n1}
    Workers = {w1}
    Clients = {}
    MaxFaults = 0
    NoLease = NoLease
    NoWorker = NoWorker
    NoSession = NoSession
    NoScan = NoScan
PROPERTIES
    
    BuildSettles
