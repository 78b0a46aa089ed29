SPECIFICATION FairSpec
CONSTANTS
  Protocols <- TypedProtocols
  Hosts <- TypedHosts
  Ports <- TypedPorts
  Schemes <- KnownSchemes
  Brokers <- RunningBrokers
CHECK_DEADLOCK FALSE
INVARIANTS TypeOK NeverHeadless OneMenu
PROPERTY GuiStaysResponsive
