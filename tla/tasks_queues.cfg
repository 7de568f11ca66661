\* Queues of two, handlers of up to two sends.  The tasks may all wait for good, and
\* the process ends.
CONSTANTS
    Capacity = 2
    MaxSends = 2
SPECIFICATION FairSpec
INVARIANT TypeOK
PROPERTIES
    LockIsForGood
    HandlersEnd
    InterfaceGoesOn
CHECK_DEADLOCK FALSE
