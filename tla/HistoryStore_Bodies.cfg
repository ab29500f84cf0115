CONSTANTS
    r1 = r1
    r2 = r2
    p1 = p1
    t1 = t1
    Records <- MC_Records
    Family <- MC_Family
    Tracked <- MC_Tracked
    QueueCap = 1
    BatchSize = 2
    Limit <- MC_Limit
SPECIFICATION Spec
INVARIANTS BodyOutlivesNothing
