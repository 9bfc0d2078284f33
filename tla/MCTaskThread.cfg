\* Three callers, five posts.
SPECIFICATION Spec
CONSTANTS
    Callers = {a, b, c}
    MaxPosts = 5
INVARIANTS
    NothingLost
PROPERTIES
    IsMailbox
    DestructorReturns
CHECK_DEADLOCK FALSE
