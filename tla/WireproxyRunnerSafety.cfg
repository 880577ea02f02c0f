SPECIFICATION Spec
CONSTANTS
  s1 = s1
  s2 = s2
  p1 = p1
  p2 = p2
  a1 = a1
  NoStart = NoStart
  Profiles = {p1, p2}
  Starts = {s1, s2}
  Addresses = {a1}
  Capacity = 1
  ProfileOf <- Reconnect
  AddressOf <- SameAddress
INVARIANTS
  TypeOK
  EntriesAreLive
  NoLeak
  CommittedIsWhole
  WaitedIsReleased
SYMMETRY Interchangeable
PROPERTY
  ImplementsBackend
