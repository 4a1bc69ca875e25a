SPECIFICATION Spec
CONSTANTS
    s1 = s1
    s2 = s2
    p1 = p1
    p2 = p2
    Gui = gui
    Session = {s1, s2}
    Port = {p1, p2}
    PortOf <- TwoPorts
    Name = {"ann"}
    MaxRequests <- TalkTwice
    MaxKicks = 1
    MaxNotices = 1
CONSTRAINT NoticeAlone
CONSTRAINT OthersStay
CONSTRAINT OneEnds
INVARIANT TypeOK
INVARIANT SingleCloser
INVARIANT ClosedIsForgotten
INVARIANT LeftIsFinal
INVARIANT UidsDistinct
INVARIANT LastWordOnly
PROPERTY StepsAreMembership
CHECK_DEADLOCK FALSE
