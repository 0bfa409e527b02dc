CONSTANTS
    QueueLimit = 3
    BatchSize = 2
    ClientLimit = 2
    MaxEvents = 7
    MaxFaults = 3
SPECIFICATION FairJournalSpec
INVARIANTS
    NothingIsLost
PROPERTIES
    EventsAreSaved
CHECK_DEADLOCK FALSE
