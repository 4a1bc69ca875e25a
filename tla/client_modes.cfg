SPECIFICATION FairSpec
CONSTANTS
    RunModes = {"Threaded", "Manual"}
    MaxConnects = 2
    MaxRequests = 2
    MaxPushes = 1
INVARIANT RunningHasThread
INVARIANT AnswerFindsCallback
INVARIANT TerminateCause
PROPERTY QuietAfterClose
PROPERTY RequestReturns
PROPERTY PolledDisconnectFires
CHECK_DEADLOCK FALSE
