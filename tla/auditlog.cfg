CONSTANTS
    e1 = e1
    e2 = e2
    e3 = e3
    e4 = e4
    Events <- MCEvents
    CrashForms = {"nothing", "junk", "badutf8", "no_newline", "whole"}
    ErrorForms = {"nothing", "junk", "badutf8", "no_newline", "whole"}
    FreshKeys = {TRUE, FALSE}
    MaxBoots = 3
SPECIFICATION Spec
INVARIANTS
    LogTypeOK
    AckedStaysInChain
    LogVerifies
    NumberedByPosition
PROPERTIES
    AppendOnly
CHECK_DEADLOCK FALSE
