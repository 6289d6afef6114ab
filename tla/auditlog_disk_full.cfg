CONSTANTS
    e1 = e1
    e2 = e2
    e3 = e3
    e4 = e4
    Events <- MCEvents
    CrashForms = {}
    ErrorForms = {"junk"}
    FreshKeys = {FALSE}
    MaxBoots = 3
SPECIFICATION Spec
INVARIANT AckedStaysVerifiable
CHECK_DEADLOCK FALSE
