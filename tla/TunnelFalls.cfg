CONSTANTS
    Client = Client
    Data = Data
    Host = Host
    MaxPackets = 1
    Returners = {Data}
    None = None
SPECIFICATION FairSpec
PROPERTY BothEndsFall
PROPERTY PipeSpec
CHECK_DEADLOCK FALSE
