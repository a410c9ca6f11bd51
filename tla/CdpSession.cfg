CONSTANTS
    c1 = c1
    c2 = c2
    s1 = s1
    UA = UA
    Grant = Grant
    Enable = Enable
    Call = Call
    NoOne = NoOne
    Callers <- McCallers
    Scripts <- McScripts
    Ops <- McSticky
    MaxOps = 2
    MaxSock = 2
SPECIFICATION FairSpec
INVARIANTS NoOrphanedWait AnswerIsOwn ArmedMeansReapplied
PROPERTIES KeepsPromise CallsReturn
