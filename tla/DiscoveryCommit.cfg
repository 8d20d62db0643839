SPECIFICATION Spec
CONSTANTS
    MaxRequests = 1
    MaxProposals = 1
    MaxCommit = 2
    MaxTime = 2
    Poll = 1
    MaxRetries = 0
    Forces = {FALSE}
    DryRuns = {FALSE}
    SavedNextScans = {0, 2}
INVARIANT StatesInvestigatedCommit
