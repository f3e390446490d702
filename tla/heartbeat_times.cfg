SPECIFICATION Spec
CONSTANTS
    Sessions = {s1, s2}
    Timeout = 6
    Interval = 3
    Modulus = 64
    Boot = 8
    MaxClock = 22
    MaxLate = 1
    MaxAnswer = 1
INVARIANTS SilentIsClosed
PROPERTIES DeadWasPinged AnsweringDiesOnlyOvertaken
CHECK_DEADLOCK FALSE
