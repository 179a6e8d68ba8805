SPECIFICATION Spec
CONSTANTS
    m1 = m1
    m2 = m2
    a = a
    b = b
    ka = ka
    kb = kb
    Match = {m1, m2}
    Content = {a, b}
    Serves <- MCServes
    Key = {ka, kb}
    KeyOf <- MCKeyOf
    Worker = worker
    Cli = {cli}
    Retries = 1
    NoContent = NoContent
    NoMatch = NoMatch
    NoRecord = NoRecord
INVARIANTS
    TypeOK
    RawBehindManifest
    VersionsDense
    VersionsNeverAhead
    ReturnedIsRegistered
PROPERTIES
    LedgerSpec
    IngestEnds
