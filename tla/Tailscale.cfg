SPECIFICATION AllSpec
CONSTANTS
  NoStart = NoStart
  NoSession = NoSession
  p1 = p1
  Profiles = {p1}
  Starts = {s1, s2}
  ProfileOf <- Reconnect
  Capacity = 1
  Forwards = 1
  Owners = {p1, p2}
  Promises = {s1, s2, s3}
  Room = 2
  URLs = {url}
  Delay = 2
  MaxTime = 2
  MaxShown = 2
  Conns = {c1, c2}
  Sources = {a1, a2}
  Sessions = {x1, x2, x3}
  Peers = {n1}
  Machines = {"stopped", "updated", "contract", "login", "tcp", "udp", "choice"}
INVARIANTS
  NoLeak
  CommittedIsWhole
  TableIsLive
  NoticesAreTrue
  RelaysAreWhole
SYMMETRY Interchangeable
PROPERTIES
  ImplementsBackend
  UpdatesStick
  ExitNodeIsChosen
CHECK_DEADLOCK FALSE
