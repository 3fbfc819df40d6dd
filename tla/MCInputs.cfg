SPECIFICATION Spec
CONSTANTS
    UnknownFlags <- Unknown
    CommandLines <- Lines
    Wants <- Requests
    Truths <- Repositories
    KeyOrder <- Keys
    Queries <- Received
    Texts <- SignedTexts
    Addresses4 <- Plain
    Addresses6 <- Notations
INVARIANTS CommandLinesUnderstood ExamplesFound QueriesGenuine AddressesJudged
CHECK_DEADLOCK FALSE
