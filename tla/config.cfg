SPECIFICATION FairSpec
CONSTANTS
    Contents = {c1, c2, bad}
    Refused = {bad}
    Values = {v1, short}
    Short = {short}
    First = c1
    Torn = Torn
    FromFile = FromFile
    MaxRetries = 2
    MaxHistory = 3
    MaxChanges = 4
INVARIANTS CopiesAgree RefusedIsPassing
PROPERTY FileApplied
CHECK_DEADLOCK FALSE
