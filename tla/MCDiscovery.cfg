SPECIFICATION Spec
CONSTANTS
    Networks <- RegNetworks
    Names <- RegNames
    None = None
    ContainerName <- RegContainerName
    Alternates <- RegAlternates
    PartOf <- RegPartOf
    TestnetOf <- RegTestnetOf
    TestnetNames <- RegTestnetNames
    Appended <- RegAppended
    Host <- MCHost
    Clients <- MCClients
INVARIANTS
    DeleteStopsWhatItDeletes
    NodesAreFoundAgain
    RunningClientIsFound
    ComponentsFollowTheRunningClient
