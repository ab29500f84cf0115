CONSTANTS
    a1 = a1
    a2 = a2
    w1 = w1
    w2 = w2
    Auths <- MC_One
    Workers <- MC_Workers
    Models = 2
    MaxChanges = 2
    Calls = 1
SPECIFICATION FairSpec
PROPERTIES ActiveRuleIsPlanned
