SPECIFICATION Spec
CONSTANTS
  s1 = s1
  s2 = s2
  s3 = s3
  p1 = p1
  a1 = a1
  a2 = a2
  NoStart = NoStart
  Profiles = {p1}
  Starts = {s1, s2}
  Addresses = {a1, a2}
  Capacity = 4
  MayFault = FALSE
  ProfileOf <- OneProfile
  Initial <- OneWireGuard
  Choices <- Config
INVARIANT
  ServedAsConfigured
CHECK_DEADLOCK FALSE
