SPECIFICATION FairSpec
CONSTANTS
    busy = busy
    plain = plain
    Conns = {busy, plain}
    MayOpen <- OneBusy
    Talkers = {busy}
    QueueCap = 1
PROPERTIES
    Accepted
    ChannelsServed
    PacketsDelivered
    DisconnectEnds
    ServesInGateway
CHECK_DEADLOCK FALSE
