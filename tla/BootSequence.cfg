SPECIFICATION FairBootSpec
CONSTANTS
  LinkSlices = 2
  DhcpSlices = 2
  NoSlice = NoSlice
  MaxReboots = 1
  WDT_TIMEOUT = 20
  AGENT_PING = 1
  AGENT_WAIT_DELAY = 5
  DTR_POLL = 2
  NET_SLICE = 2
  STATIC_IP = 2
  ConfigTime = 17
  ChannelsTime = 2
  TransportTime = 1
  InitTime = 8
  FiniTime = 13
  PassTime = 5
  DiagTime = 2
INVARIANTS TypeOK CallbackScoped LeaseNotMissed NoReset 
PROPERTY BridgeRuns
