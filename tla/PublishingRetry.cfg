SPECIFICATION Spec
CONSTANTS
    facebook = facebook
    linkedin = linkedin
    a = a
    b = b
    Callers = {a, b}
    Channels = {facebook}
    Posts = {1, 2}
    Keys = {facebook, 1, 2}
    WeeklyCap = 1
    MaxRequests = 3
    MaxRestarts = 1
PROPERTIES
    FailedPostIsRetried
CHECK_DEADLOCK FALSE
