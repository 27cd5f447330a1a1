SPECIFICATION FairSpec
CONSTANTS
    c1 = c1
    c2 = c2
    r1 = r1
    piglet = piglet
    p1 = p1
    p2 = p2
    NoConn = NoConn
    NoPeer = NoPeer
    Peers <- MCPeers
    Conns <- MCConns
    Sources <- MCSources
    SourceOf <- MCSourceOf
    Reproduce <- MCReproduce
    Capacity = 1
INVARIANTS TypeOK GoneIsForgotten PeersAreCurrent SequentialIsListed
PROPERTIES GoneInTheEnd
CHECK_DEADLOCK FALSE
