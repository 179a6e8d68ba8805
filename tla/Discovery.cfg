SPECIFICATION Spec
CONSTANTS
    m1 = m1
    m2 = m2
    Listing <- MCListing
    Discoverer = {d1}
    Bulk = bulk
    Season = {m1, m2}
    BulkScopes <- OneSeason
    Batch = 1
    MaxFailures = 1
INVARIANTS
    TypeOK
PROPERTIES
    BulkLeavesNoneBehind
    DispatchedUnlessStuck
    IngestedIsDescribed
