SPECIFICATION Spec
CONSTANTS
    service = service
    settings = settings
    native = native
    flatpak = flatpak
    snap = snap
    Processes = {service, settings}
    Service = service
    Settings = settings
    Instances <- MCInstances
    Backend <- MCBackend
    Rank <- MCRank
    Seen <- MCSeenByAll
    MaxChanges = 2
    None = None
PROPERTY
    SavedSelectionIsKept
