CONSTANTS
    r1 = r1
    r2 = r2
    r3 = r3
    b1 = b1
    b2 = b2
    c1 = c1
    c2 = c2
    Rule <- MCRule
    Batch <- MCBatch
    RulesOf <- MCRulesOf
    MayFail <- MCMayFail
    Remover <- MCRemover
    Scripts <- MCScripts
SPECIFICATION FairSpec
CHECK_DEADLOCK FALSE
PROPERTIES
    WaitEnds
