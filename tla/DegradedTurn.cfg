CONSTANTS
    r1 = r1
    r2 = r2
    Requests <- MC_Requests
    SlotLimit = 1
    Attempts = 2
SPECIFICATION PromptSpec
INVARIANTS TypeOK SlotsAccounted
PROPERTIES ErrorWaitsForSeries ImplementsGate QuiesceFinishes HeldClientsAnswered
