SPECIFICATION FairSpec
CONSTANTS
    Tasks = {t1, t2, t3}
    Receiver = t1
    Sleepers = {t1}
    MaxItems = 1
INVARIANTS NoStrandedWaiter NotificationsArrive ReceiverWakes
PROPERTIES WaitsEnd
CHECK_DEADLOCK FALSE
