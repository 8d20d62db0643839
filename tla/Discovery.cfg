SPECIFICATION FairSpec
CONSTANTS
    MaxRequests = 2
    MaxProposals = 2
    MaxCommit = 2
    MaxTime = 1
    Poll = 1
    MaxRetries = 1
    Forces = {FALSE}
    DryRuns = {FALSE, TRUE}
    SavedNextScans = {0, 1}
INVARIANTS
    TypeOK
    NeverReposted
    IntentSurvives
    SubmittedExists
    DoubtIsSettledFirst
    SavedWithItsCommit
PROPERTIES
    FilingReconciled
    DeadlineEndsScan
    DryRunFilesNothing
    FilesOneAtATime
