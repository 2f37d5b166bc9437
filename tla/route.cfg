SPECIFICATION Spec
CONSTANTS
    Lag = 300
    MaxCommands = 2
    MaxFailures = 1
    Homes = {22, 24, 26}
INVARIANTS
    RouteIsShortest
    ResortFindsNode
    LandmarkNamed
    NeverStops
    OnTheRoute
    KeepsToOrbit
PROPERTIES
    
    ReachesOrbit
