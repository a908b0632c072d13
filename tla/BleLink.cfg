SPECIFICATION FairSpec
CONSTANTS
    p1 = p1
    p2 = p2
    Phones = {p1, p2}
    PAYLOAD = 2
    MAX_MESSAGE = 8
    NONE = NONE
    HELLO_BYTES = 3
    ANSWER_BYTES = 5
    ERROR_BYTES = 1
    MaxLinks = 1
    MaxConnects = 2
    MaxHellos = 2
CHECK_DEADLOCK FALSE
INVARIANT
    TypeOK
PROPERTIES
    MessagesAreWhole
    EveryWriteReturns
    AnswersArrive
