SPECIFICATION Spec
CONSTANTS
    Characters <- MCCharacters
    Filters <- MCFilters
    Topics <- MCTopics
    MAX_MESSAGE_HANDLERS = 2
    MAX_PACKET_ID = 2
    UpMax = 1
    DownMax = 2
INVARIANTS
    TypeOK
    OneOutstanding
    SubscriptionsAgree
    HandedToMatching
PROPERTIES
    AnswerIsOwn
