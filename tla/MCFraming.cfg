\* Every piece of one or two frames, and damage to single and neighbouring bytes.
SPECIFICATION Spec
CONSTANTS
    IdSpace = 256
    Answers <- const_Answers
    RequestIds = {0, 255}
    Damages <- const_Damages
INVARIANTS
    StaysInside
    OnlyWholeFramesParse
    ParsedAsWritten
    DamageIsHarmless
CHECK_DEADLOCK FALSE
