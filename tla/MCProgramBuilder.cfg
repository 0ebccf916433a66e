SPECIFICATION BuilderSpec
CONSTANTS
    Users = {ann, bob}
    MaxVersions = 3
    MaxItems = 1
SYMMETRY Alike
PROPERTIES
    KeepsTheLine
    OnlyRepeatsDeadlock
CHECK_DEADLOCK FALSE
