SPECIFICATION FairSpec
CONSTANTS
  Machines = {"service", "wireguard", "tailscale", "relays"}
PROPERTIES
  
  ProcessesEnd
  WaitersReturn
  RelaysEnd
CHECK_DEADLOCK FALSE
