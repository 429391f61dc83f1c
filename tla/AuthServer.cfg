CONSTANTS
    c1 = c1
    c2 = c2
    Connections <- MCConnections
    Requests <- MCRequests
    Usernames <- MCUsernames
    MaxRequests <- MCMaxRequests
SPECIFICATION FairSpec
INVARIANTS TypeOK EachItsAnswer
PROPERTIES EveryoneIsAnswered
CHECK_DEADLOCK FALSE
