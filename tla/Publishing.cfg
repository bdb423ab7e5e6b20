SPECIFICATION Spec
CONSTANTS
    facebook = facebook
    linkedin = linkedin
    a = a
    b = b
    Callers = {a, b}
    Channels = {facebook, linkedin}
    Posts = {1, 2}
    Keys = {facebook, linkedin, 1, 2}
    WeeklyCap = 1
    MaxRequests = 3
    MaxRestarts = 1
INVARIANTS
    TypeOK
    AtMostOneCall
    EveryCallIsOnRecord
    PublishedWentOut
PROPERTIES
    OnlyAStaleCountOvershoots
CHECK_DEADLOCK FALSE
