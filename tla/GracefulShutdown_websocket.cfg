SPECIFICATION FairSpec
CONSTANTS
    c1 = c1
    c2 = c2
    cron = cron
    interval = interval
    w1 = w1
    Conn <- MCConn
    Chatty <- MCChatty
    Job <- MCJob
    Stoppable <- MCStoppable
    Worker <- MCWorker
    MaxFaults = 2
PROPERTY
    ShutdownAlwaysEnds
CHECK_DEADLOCK FALSE
