SPECIFICATION FairSpec
CONSTANTS
    Threads = {t1, t2}
    Names = {"ann", "7"}
    Numbers = {"7"}
    Amounts = {"-5"}
    Garbage = Garbage
    NoMessage = NoMessage
    MaxMessages = 3
INVARIANTS
    ParserTypeOK
PROPERTIES
    AloneIsRight
    MixedKeepsFirst
    SplitsReturn
CHECK_DEADLOCK FALSE
