SPECIFICATION Spec
CONSTANTS
    None = None
    Nodes <- MCNodes
    Gateways <- MCGateways
    Contracts <- MCContracts
    Configurations <- MCConfigurations
    Messages <- MCMessages
    Physicals <- MCPhysicals
    Bitrate = 500
    DataBitrate = 2000
    Payloads <- MCPayloads
    Occurrences = {16, 32}
    Budget = 1000
    Workloads <- MCWorkloads
INVARIANTS
    HistoryIsOne
    FramesAreSound
    CodecsRoundTrip
CHECK_DEADLOCK FALSE
