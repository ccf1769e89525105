CONSTANTS
    Jobs = {1, 2}
    Accounts = {a1}
    Runners = {r1, r2}
    Kinds = {"RETRY"}
    MaxAttempts <- MCMaxAttempts
    Lease = 1
    MaxAdmin = 1
    MaxFaults = 1
CHECK_DEADLOCK FALSE
SPECIFICATION FairJobsSpec
INVARIANTS
    JobsTypeOK
    ProfileNotShared
    AcceptedMeansLatestClaim
    LeaseIsTheRunners
PROPERTY
    JobsComeToAnEnd
