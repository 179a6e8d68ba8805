SPECIFICATION Spec
CONSTANTS
    w = w
    r1 = r1
    r2 = r2
    Worker = {w}
    Rebuild = {r1, r2}
    MaxRebuilds = 2
    MaxExec = 3
    MaxFaults = 2
    Unusual <- MCUnusual
SYMMETRY RebuildSymmetry
INVARIANTS
    TypeOK
    RecordsAgree
    NoFailureUnseen
    HealthIsLatest
CHECK_DEADLOCK FALSE
