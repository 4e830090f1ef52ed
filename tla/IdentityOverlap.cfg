SPECIFICATION Spec
CONSTANTS
    Operators = {p1, p2}
    Logins = {l1}
    Devices = {d1}
    MaxCredentials = 3
    RateLimit = 1
    Drivers = {"memory", "postgres"}
    None = None
SYMMETRY OperatorSymmetry
INVARIANTS DeregistrationIsFinal HandedOutWorks OldCredentialIsDead ShutDeviceStaysOut
