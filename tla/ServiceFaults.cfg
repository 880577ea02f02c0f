SPECIFICATION Spec
CONSTANTS
  s1 = s1
  s2 = s2
  s3 = s3
  p1 = p1
  a1 = a1
  a2 = a2
  NoStart = NoStart
  Profiles = {p1}
  Starts = {s1, s2}
  Addresses = {a1}
  Capacity = 1
  MayFault = TRUE
  ProfileOf <- OneProfile
  Initial <- NoneYet
  Choices <- Config
INVARIANT
  ShutdownIsFinal
PROPERTY
  TailscaleContract
CHECK_DEADLOCK FALSE
