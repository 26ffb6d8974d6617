\* RetryCount is the code's own; every set of replies is a server.
CONSTANT RetryCount = 2
SPECIFICATION FairSpec
INVARIANTS TypeOK LateOnce RefusedOnce
PROPERTIES ImplementsRequest CallEnds
\* The call ends.
CHECK_DEADLOCK FALSE
