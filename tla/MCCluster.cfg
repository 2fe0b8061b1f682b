\* A primary, a master and an index server that may join again and again, a
\* client, and hash values of five bits.
CONSTANTS
    m0 = m0  m1 = m1  x = x  c = c
    W = 5
    FirstPosition <- MCFirstPosition
    Master = {m0, m1}
    Primary = m0
    IndexServer = {x}
    Client = {c}
    MaxPositions <- MCMaxPositions
SPECIFICATION Spec
INVARIANTS TypeOK 
PROPERTIES  StopEnds
