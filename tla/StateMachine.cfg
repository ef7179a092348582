CONSTANT Caller = {c1, c2}
SPECIFICATION FairSpec
INVARIANT TypeOK
PROPERTIES WalksTheDiagram BusyEnds
