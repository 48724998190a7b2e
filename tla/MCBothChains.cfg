SPECIFICATION Spec
CONSTANTS
    p1 = p1
    p2 = p2
    b1 = b1
    None = None
    Networks <- MCNetworks
    Names <- MCNames
    ContainerName <- MCContainerName
    Alternates <- MCAlternates
    PartOf <- MCPartOf
    TestnetOf <- MCTestnetOf
    TestnetNames <- MCTestnetNames
    Appended <- MCAppended
    Procs = {p1}
    Commands <- MCBothChains
    Bases = {b1}
    MaxCommands = 2
    Startable <- RegStartable
    PlainFirst <- RegPlainFirst
    OwnKey <- RegOwnKey
    AlwaysUp <- RegAlwaysUp
    OwnDataOnly <- RegOwnDataOnly
    Reads <- MCReads
    Ports <- RegPorts
    Seeded <- RegSeeded
    ImageOf <- RegImageOf
    Published = {}
    Minting <- MCMinting
    Watchtower = "watchtower"
    Faults = {}
    ComposeV2 = TRUE
PROPERTIES
    StartReplacesNoNode
CHECK_DEADLOCK FALSE
