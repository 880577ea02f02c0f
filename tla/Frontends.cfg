SPECIFICATION AllSpec
CONSTANTS
  a = a
  b = b
  gateway = gateway
  h1 = h1
  h2 = h2
  None = None
  Profiles = {a, b}
  Tailscale = {a, b}
  Initial <- OneProfile
  Capacity = 2
  Fields <- OneForm
  MaxLogs = 2
  MaxLoads = 2
  Slots = {1, 2}
  MaxVersion = 2
  MaxOpenings = 2
  MaxFaults = 1
  MaxLogins = 1
  Machines = {"lists", "pickers", "views", "fields", "saves", "systemd", "launchd", "panel"}
INVARIANTS
  TerminalIsCurrent
  WindowIsCurrent
  PanelIsTrue
PROPERTIES
  
  
  InstallerIsWhole
CHECK_DEADLOCK FALSE
