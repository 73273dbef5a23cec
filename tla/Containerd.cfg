SPECIFICATION Spec
CONSTANTS
    Nothing = Nothing
    Cri = {"runtime", "images", "grpc"}
    Required <- MCRequired
    Files <- MCFiles
    Others = {"snapshotter"}
    MaxEdits = 1
    MaxFaults = 1
    MaxRestarts = 1
INVARIANTS
    StaleIsNoticed
    NoNeedlessRestart
PROPERTIES
    InstallsAccepted
    LoadedAtEnd
    Converges
