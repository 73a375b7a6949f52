SPECIFICATION FairPageSpec
CONSTANTS
    Chats = {c1, c2, c3}
    NoChat = nochat
    MaxClicks = 2
    MaxFailures = 1
INVARIANTS
    NeverStuck
PROPERTIES
    Settles
CHECK_DEADLOCK FALSE
