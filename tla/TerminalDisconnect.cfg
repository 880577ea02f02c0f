SPECIFICATION Spec
CONSTANTS
  a = a
  b = b
  None = None
  Profiles = {a, b}
  Tailscale = {a, b}
  Initial <- OneProfile
  Capacity = 1
  Fields <- OneField
  MaxLogs = 1
  MaxLoads = 1
INVARIANT DisconnectWorks
