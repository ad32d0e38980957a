CONSTANTS
    Client = Client
    Data = Data
    Host = Host
    MaxPackets = 2
    Returners = {Client}
    None = None
SPECIFICATION Spec
INVARIANT NoSocketLeftOpen
PROPERTY PipeSpec
PROPERTY PanicNeedsCloser
CHECK_DEADLOCK FALSE
