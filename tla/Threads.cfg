SPECIFICATION FairSpec
CONSTANTS
    Requests = {r1, r2, r3}
    Chats = {c1}
    NoChat = nochat
    NoQuery = noquery
INVARIANTS
    ThreadsAreWhole
    ClarifiedIsFollowedUp
    ToldTheTruth
PROPERTIES
    RequestsEnd
CHECK_DEADLOCK FALSE
