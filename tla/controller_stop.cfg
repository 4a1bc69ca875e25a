SPECIFICATION FairSpec
CONSTANTS
    Port = {p1, p2}
    NoPort = NoPort
    Session = {s1, s2, s3}
    MaxStarts = 3
INVARIANT InStep
INVARIANT EndsStopped
PROPERTY StoppedIsQuiet
PROPERTY EndsInWindow
PROPERTY StopReturns
CHECK_DEADLOCK FALSE
