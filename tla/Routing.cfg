CONSTANTS
    P = 5
    Devices <- MCDevices
    Names = {"1", "2", "3", "4", "5", "6"}
    Circuits <- MCCircuits
    InitialMaps <- MCMaps
    Radii = {1, 2}
SPECIFICATION FairSpec
INVARIANTS TypeOK PlacementFits MapsAreInverse ExceptionsAreExplained RoutedIsCircuit RoutedOpsOnEdges
PROPERTY RoutingEnds
CHECK_DEADLOCK FALSE
