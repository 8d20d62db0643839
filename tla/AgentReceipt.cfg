SPECIFICATION Spec
CONSTANTS
    MaxProposals = 2
    MaxLength = 7
    Input <- MCInput
INVARIANTS
    TypeOK
    ReceiptIsOutermost
    FinishedIsUnderstood
    AcceptedIsReadable
CHECK_DEADLOCK FALSE
