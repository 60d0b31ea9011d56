SPECIFICATION TransportSpec
CONSTANTS
    SnapBuf = 65536
    Hdr = 14
    Ent = 28
    Trailer = 8
    UdpMax = 65507
    PacketBuf = 8192
    MaxField = 2400
    Max = 2
    RcvBuf = 7
    Rate = 2
    MaxErrs = 2
INVARIANTS WireInv NoneLate KeepsUp
