CONSTANTS
    Owner = {o1}
    DeviceId = {d1, d2}
    Enrollment = {e1, e2}
    Credential = {c1, c2}
    Setting = {s1, s2}
    Local = Local
    MaxDevices = 2
    MaxVersion = 2
    MaxFaults = 2
    None = None
SPECIFICATION Spec
SYMMETRY Symmetric
INVARIANTS
    PairingTypeOK
    CredentialsAgree
    AcknowledgementsAgree
PROPERTIES
    RevokedIsFinal
CHECK_DEADLOCK FALSE
