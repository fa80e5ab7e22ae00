CONSTANTS
    Owner = {o1}
    DeviceId = {d1}
    Enrollment = {e1}
    Credential = {c1, c2}
    Setting = {s1, s2}
    Local = Local
    MaxDevices = 2
    MaxVersion = 2
    MaxFaults = 3
    None = None
SPECIFICATION FairSpec
PROPERTIES
    PairingCompletes
    SettingsReachBoard
CHECK_DEADLOCK FALSE
