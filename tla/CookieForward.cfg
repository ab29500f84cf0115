CONSTANTS
    c1 = c1
    c2 = c2
    NoCall = NoCall
    Calls <- MC_Calls
    Free = NoCall
    Tries = 2
    MaxTokens = 1
    MaxHands = 1
SPECIFICATION FairSpec
INVARIANTS TypeOK SwitchAgrees
PROPERTIES TokenNeverTurnsBack OperatorsEntryStays EveryCallEnds
