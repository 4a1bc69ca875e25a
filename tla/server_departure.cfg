SPECIFICATION FairSpec
CONSTANTS
    s1 = s1
    s2 = s2
    p1 = p1
    p2 = p2
    Gui = gui
    Session = {s1, s2}
    Port = {p1}
    PortOf <- OnePort
    Name = {"ann"}
    MaxRequests <- TalkOne
    MaxKicks = 0
    MaxNotices = 0
INVARIANT ListIsCurrent
PROPERTY DepartureHeard
PROPERTY ImplementsMembership
PROPERTY RequestAnswered
CHECK_DEADLOCK FALSE
