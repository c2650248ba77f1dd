SPECIFICATION FairSpec
CONSTANTS
    MaxAttempts = 2
    Payloads = {p1}
    Refusals = FALSE
    Scenarios <- TimeoutsOrOneRequest
INVARIANTS TypeOK SentIsTruthful DeadIsEarned
PROPERTIES LetterIsSettled DismissClosesTheLetter
CHECK_DEADLOCK FALSE
