SPECIFICATION Spec
CONSTANTS
    Base = 4
    XorByte <- MCXor
    Keys <- MCKeys
    Strings <- MCStrings
    Bodies <- MCBodies
    C_LOGIN = 6
    C_PONG = 9
    Unknown = 3
    Lengths = {0, 1, 2, 5, 7, 15, 16, 18}
    BodyBytes = {0, 1, 2}
    MaxBody = 6
INVARIANTS LoginArrives ReadsWhatStands IInv
PROPERTIES PacketsStayWhole
CHECK_DEADLOCK FALSE
