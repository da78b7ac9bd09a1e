CONSTANTS
    p1 = p1
    p2 = p2
    q1 = q1
    q2 = q2
    q3 = q3
    none = none
    NoRoute <- none
    SlotRanges <- MC_SlotRanges
    RouteKeys <- MC_RouteKeys
    SlotIds = {}
SPECIFICATION Spec
PROPERTY RouteReachesIntendedNodes
