SPECIFICATION FairSpec
CONSTANTS
    c1 = c1
    Call = {c1, c2}
    Retries <- MCRetries
    Threshold = 2
    Timeout = 2
    Obj <- MCObj
    None = None
INVARIANT TypeOK
PROPERTIES EveryCallEnds AdmitsAgain ThresholdOpens
