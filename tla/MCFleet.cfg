SPECIFICATION Spec
CONSTANTS
    p1 = p1
    b1 = b1
    None = None
    Networks <- RegNetworks
    Names <- RegNames
    ContainerName <- RegContainerName
    Alternates <- RegAlternates
    PartOf <- RegPartOf
    TestnetOf <- RegTestnetOf
    TestnetNames <- RegTestnetNames
    Appended <- RegAppended
    Procs = {p1}
    Commands <- MCCommands
    Bases = {b1}
    MaxCommands = 3
    Startable <- RegStartable
    PlainFirst <- RegPlainFirst
    OwnKey <- RegOwnKey
    AlwaysUp <- RegAlwaysUp
    OwnDataOnly <- RegOwnDataOnly
    Reads <- RegReads
    Ports <- RegPorts
    Seeded <- RegSeeded
    ImageOf <- RegImageOf
    Published <- MCPublished
    Minting <- RegMinting
    Watchtower = "watchtower"
    Faults = {"read"}
    ComposeV2 = TRUE
INVARIANTS
    NodesComeBack
    SecretsSettle
PROPERTIES
    StartsComeUp
    StartReplacesNoNode
CONSTRAINT
    MCBounded
ACTION_CONSTRAINT
    MCPublishing
CHECK_DEADLOCK FALSE
