SPECIFICATION Spec
CONSTANTS
  Exits = {direct, n1}
  Direct = direct
  MaxEdits = 1
  Slots = {1, 2, 3}
  MaxHangups = 2
  Absent = Absent
  Malformed = Malformed
  Frontends = {gui, tui}
  Servers = {d1, d2}
  Items = {i, j}
  Broken = Broken
  None = None
  MaxFaults = 1
  MaxStarts = 3
  gui = gui
  d1 = d1
  i = i
  h = h
  p1 = p1
  p2 = p2
  s1 = s1
  s2 = s2
  NoStart = NoStart
  Words <- SomeWords
  Texts <- SomeTexts
  Forwards <- SomeForwards
  PortValues <- SomePorts
  Machines = {"account", "careless", "reload", "signals", "writers", "marks", "daemons", "imports", "common", "node", "connections"}
INVARIANTS
  AccountIsStored
  ReloadIsShown
  
  
  
PROPERTIES
  
  ReloadStarts
  StoreIsWhole
  ImportsAreWhole
CONSTRAINT FewEvents
CHECK_DEADLOCK FALSE
