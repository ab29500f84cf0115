CONSTANTS
    Events <- MC_Events
    LineType <- MC_LineType
    BodyType <- MC_BodyType
    Declares <- MC_Declares
    Pieces <- MC_Pieces
    Framings = {"framed", "data", "split", "unframed", "stripped", "packed", "bare"}
    Length = 3
    Headed = 3
    Exchanges <- MC_Exchanges
    MaxResidual = 8
    MaxBuffer = 20
SPECIFICATION Spec
INVARIANTS TypeOK ReadsWhatArrived StoredAsPromised SessionFollowsResponse InjectionCoversClient
CHECK_DEADLOCK FALSE
