SPECIFICATION FairSpec
CONSTANTS
    native = native
    flatpak = flatpak
    office = office
    Instances <- MCInstances
    Wrapped <- MCWrapped
    Names <- MCNames
    MaxTokens = 2
    MaxChanges = 3
    NoInstance = NoInstance
    NoToken = NoToken
    NoLaunch = NoLaunch
    NewConnection = NewConnection
INVARIANTS
    TypeOK
    SessionsAgree
PROPERTIES
    TokenIsTheCallers
    LaunchIsCurrent
    LaunchesOnlyListed
    ActionableAfterTeardown
    SilentClientIsReleased
