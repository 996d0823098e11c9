SPECIFICATION Served
CONSTANTS
    Threads = {c1, c2}
    Tenants = {"acme"}
    Routes = {"scorecard", "trustCenter", "room", "scan"}
    Lives = {0}
    Headers = {"", "acme", "No slug"}
    MaxClock = 1
    MaxKeys = 2
    MaxCalls = 3
    MaxTime = 1
    Focuses = {"reviews"}
    VendorIds = {v1, v2}
    Items = {i1, i2}
    Reviewers = {r1}
    Words = {"PENDING", "REVOKE"}
    ReviewCalls = 4
    ReviewTime = 0
    Profiles <- MCProfiles
    Lifetimes = {0, 1}
    Periods <- MCPeriods
    EvidenceDates = {0, 1, 2}
    Blocks <- MCBlocks
    Controls <- MCControls
    Dates = {1}
    Collectors = {"iam", "logs"}
    MaxVersions = 3
    Roles = {"SUPER_ADMIN", "engineer"}
    MaxTokens = 2
SYMMETRY Alike
INVARIANT SignOffIsFinal
CHECK_DEADLOCK FALSE
