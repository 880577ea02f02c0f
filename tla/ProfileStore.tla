---------------------------- MODULE ProfileStore ----------------------------
(***************************************************************************)
(* The store file and its lock between several processes: windows and      *)
(* terminals, which edit, and daemons, of which one may run.  Every        *)
(* process loads the whole store and replaces the whole store.  A store is *)
(* the set of what the profiles say; Imports and ProfileRules have what is *)
(* in it.                                                                  *)
(***************************************************************************)
EXTENDS Naturals, FiniteSets

CONSTANTS
  Editors, Daemons,  \* processes
  Items,             \* what may be added and deleted
  Broken,            \* a file that does not parse
  None,
  MaxFaults, MaxHandEdits, MaxStarts, MaxReloads  \* bounds

Procs == Editors \cup Daemons

(* What an instance has to assume of the constants. *)
ProfileStoreAssumption ==
  /\ Editors \cap Daemons = {} /\ None \notin Procs
  /\ \A s \in SUBSET Items : Broken # s
  /\ MaxFaults \in Nat /\ MaxHandEdits \in Nat /\ MaxStarts \in Nat /\ MaxReloads \in Nat

VARIABLES
  store,   \* the file
  temp,    \* the temporary file of each process
  owner,   \* of the lock
  pc,      \* where each process is
  mem,     \* Service.profiles
  next,    \* what it is saving
  read,    \* what a reload has read, None without one
  unread,  \* processes whose Load has failed
  fresh,   \* processes that have seen all that is in the file
  clean,   \* have only fresh processes replaced it?
  kept,    \* what those who saved were told is saved
  faults, edits, starts, reloads

vars == <<store, temp, owner, pc, mem, next, unread, fresh, clean, kept, read,
          faults, edits, starts, reloads>>
memory == <<mem, unread, fresh, read>>
ghosts == <<clean, kept>>
bounds == <<faults, edits, starts, reloads>>

Running == {"idle", "created", "written"}

TypeOK ==
  /\ store \in (SUBSET Items) \cup {Broken}
  /\ temp \in [Procs -> {"none", "part", "whole", "left"}]
  /\ owner \in Procs \cup {None} /\ (owner # None => pc[owner] \notin {"off", "refused"})
  /\ pc \in [Procs -> Running \cup {"off", "probed", "load", "stopping", "refused"}]
  /\ mem \in [Procs -> SUBSET Items] /\ next \in [Procs -> SUBSET Items]
  /\ unread \subseteq Procs /\ fresh \subseteq Procs
  /\ read \in [Procs -> (SUBSET Items) \cup {None}]
  /\ clean \in BOOLEAN /\ kept \subseteq Items
  /\ {faults, edits, starts, reloads} \subseteq Nat

Init ==
  /\ store = {} /\ kept = {} /\ clean = TRUE
  /\ temp = [p \in Procs |-> "none"] /\ owner = None
  /\ pc = [p \in Procs |-> "off"]
  /\ mem = [p \in Procs |-> {}] /\ next = [p \in Procs |-> {}]
  /\ unread = {} /\ fresh = {}
  /\ read = [p \in Procs |-> None]
  /\ faults = 0 /\ edits = 0 /\ starts = 0 /\ reloads = 0

-----------------------------------------------------------------------------
(* The lock: whoever opens the file and gets it without waiting.           *)

TryLock(p) == owner = None /\ owner' = p
Release(p) == owner' = IF owner = p THEN None ELSE owner

Starts(p) ==
  /\ pc[p] = "off" /\ starts < MaxStarts
  /\ starts' = starts + 1

(* A window or terminal that is started asks whether a daemon runs. *)
Probe(p) ==
  /\ p \in Editors /\ Starts(p)
  /\ \/ TryLock(p) /\ pc' = [pc EXCEPT ![p] = "probed"]
     \/ owner # None /\ UNCHANGED owner /\ pc' = [pc EXCEPT ![p] = "load"]
  /\ UNCHANGED <<store, temp, memory, next, ghosts, faults, edits, reloads>>

ProbeEnds(p) ==
  /\ pc[p] = "probed"
  /\ Release(p)
  /\ pc' = [pc EXCEPT ![p] = "load"]
  /\ UNCHANGED <<store, temp, memory, next, ghosts, bounds>>

StartDaemon(p) ==
  /\ p \in Daemons /\ Starts(p)
  /\ \/ TryLock(p) /\ pc' = [pc EXCEPT ![p] = "load"]
     \/ owner # None /\ UNCHANGED owner /\ pc' = [pc EXCEPT ![p] = "refused"]
  /\ UNCHANGED <<store, temp, memory, next, ghosts, faults, edits, reloads>>

(* A supervisor starts it again later. *)
Refused(p) ==
  /\ pc[p] = "refused"
  /\ pc' = [pc EXCEPT ![p] = "off"]
  /\ UNCHANGED <<store, temp, owner, memory, next, ghosts, bounds>>

-----------------------------------------------------------------------------
(* Service and Repository. *)

(* A failed Load is reported and the process goes on with no profiles. *)
LoadAtStart(p) ==
  /\ pc[p] = "load"
  /\ pc' = [pc EXCEPT ![p] = "idle"]
  /\ mem' = [mem EXCEPT ![p] = IF store = Broken THEN {} ELSE store]
  /\ unread' = IF store = Broken THEN unread \cup {p} ELSE unread \ {p}
  /\ fresh' = fresh \cup {p}
  /\ UNCHANGED <<store, temp, owner, next, read, ghosts, bounds>>

(* SIGHUP: the file is read before the service is locked; a Load that      *)
(* fails leaves the profiles as they are.                                  *)
BeginReload(p) ==
  /\ p \in Daemons /\ pc[p] \in Running /\ read[p] = None
  /\ store # Broken /\ reloads < MaxReloads
  /\ reloads' = reloads + 1
  /\ read' = [read EXCEPT ![p] = store]
  /\ unread' = unread \ {p} /\ fresh' = fresh \cup {p}
  /\ UNCHANGED <<store, temp, owner, pc, mem, next, ghosts, faults, edits, starts>>

EndReload(p) ==
  /\ pc[p] = "idle" /\ read[p] # None
  /\ mem' = [mem EXCEPT ![p] = read[p]] /\ read' = [read EXCEPT ![p] = None]
  /\ UNCHANGED <<store, temp, owner, pc, next, unread, fresh, ghosts, bounds>>

(* Mutant: the profiles are changed before they are saved. *)
BeginSaveEarly(p, items) ==
  /\ pc[p] = "idle"
  /\ pc' = [pc EXCEPT ![p] = "created"] /\ temp' = [temp EXCEPT ![p] = "part"]
  /\ next' = [next EXCEPT ![p] = items] /\ mem' = [mem EXCEPT ![p] = items]
  /\ UNCHANGED <<unread, fresh, read>>

BeginSave(p, items) ==
  /\ pc[p] = "idle"
  /\ pc' = [pc EXCEPT ![p] = "created"] /\ temp' = [temp EXCEPT ![p] = "part"]
  /\ next' = [next EXCEPT ![p] = items]
  /\ UNCHANGED memory

(* Add, Import, Delete and Save of an editor, under the service's mutex. *)
Add(p) ==
  /\ p \in Editors
  /\ \E i \in Items \ mem[p] : BeginSave(p, mem[p] \cup {i})
  /\ UNCHANGED <<store, owner, ghosts, bounds>>

Delete(p) ==
  /\ p \in Editors
  /\ \E i \in mem[p] : BeginSave(p, mem[p] \ {i})
  /\ UNCHANGED <<store, owner, ghosts, bounds>>

(* What an authenticated node makes a daemon save: other words for a       *)
(* profile it has.                                                         *)
MarkAuthenticated(p) ==
  /\ p \in Daemons
  /\ \E i \in mem[p], j \in Items \ mem[p] : BeginSave(p, (mem[p] \ {i}) \cup {j})
  /\ UNCHANGED <<store, owner, ghosts, bounds>>

WriteTemp(p) ==
  /\ pc[p] = "created"
  /\ pc' = [pc EXCEPT ![p] = "written"] /\ temp' = [temp EXCEPT ![p] = "whole"]
  /\ UNCHANGED <<store, owner, memory, next, ghosts, bounds>>

(* Mutant: the temporary file is in place before it is closed. *)
InPlaceEarly(p) == pc[p] \in {"created", "written"}

InPlace(p) == pc[p] = "written"

(* os.Rename, after which s.profiles is what was saved. *)
Rename(p) ==
  /\ InPlace(p)
  /\ store' = IF temp[p] = "whole" THEN next[p] ELSE Broken
  /\ temp' = [temp EXCEPT ![p] = "none"]
  /\ pc' = [pc EXCEPT ![p] = "idle"] /\ mem' = [mem EXCEPT ![p] = next[p]]
  /\ clean' = (clean /\ p \in fresh)
  /\ kept' = (kept \cup (next[p] \ mem[p])) \ (mem[p] \ next[p])
  /\ fresh' = {p} /\ unread' = unread \ {p}
  /\ UNCHANGED <<owner, next, read, bounds>>

TempAfterFailure(p) == [temp EXCEPT ![p] = "none"]

SaveFails(p) ==
  /\ pc[p] \in {"created", "written"} /\ faults < MaxFaults
  /\ faults' = faults + 1
  /\ pc' = [pc EXCEPT ![p] = "idle"] /\ temp' = TempAfterFailure(p)
  /\ UNCHANGED <<store, owner, memory, next, ghosts, edits, starts, reloads>>

-----------------------------------------------------------------------------

BeginStop(p) ==
  /\ pc[p] = "idle" /\ read[p] = None
  /\ pc' = [pc EXCEPT ![p] = "stopping"]
  /\ UNCHANGED <<store, temp, owner, memory, next, ghosts, bounds>>

Gone(p) ==
  /\ pc' = [pc EXCEPT ![p] = "off"]
  /\ mem' = [mem EXCEPT ![p] = {}] /\ unread' = unread \ {p} /\ fresh' = fresh \ {p}
  /\ read' = [read EXCEPT ![p] = None]
  /\ Release(p)

Exit(p) ==
  /\ pc[p] = "stopping"
  /\ Gone(p)
  /\ UNCHANGED <<store, temp, next, ghosts, bounds>>

(* The lock goes with the process; a temporary file stays. *)
Crash(p) ==
  /\ pc[p] # "off" /\ faults < MaxFaults
  /\ faults' = faults + 1
  /\ Gone(p)
  /\ temp' = [temp EXCEPT ![p] = IF @ = "none" THEN @ ELSE "left"]
  /\ UNCHANGED <<store, next, ghosts, edits, starts, reloads>>

(* Somebody edits the file, and may get it wrong. *)
EditByHand ==
  /\ edits < MaxHandEdits
  /\ edits' = edits + 1
  /\ \E s \in (SUBSET Items) \cup {Broken} : s # store /\ store' = s
  /\ fresh' = {} /\ clean' = FALSE
  /\ UNCHANGED <<temp, owner, pc, mem, next, unread, read, kept, faults, starts, reloads>>

Next ==
  \/ EditByHand
  \/ \E p \in Procs :
       \/ Probe(p) \/ ProbeEnds(p) \/ StartDaemon(p) \/ Refused(p)
       \/ LoadAtStart(p) \/ BeginReload(p) \/ EndReload(p) \/ Add(p) \/ Delete(p) \/ MarkAuthenticated(p)
       \/ WriteTemp(p) \/ Rename(p) \/ SaveFails(p)
       \/ BeginStop(p) \/ Exit(p) \/ Crash(p)

Spec == Init /\ [][Next]_vars

-----------------------------------------------------------------------------

(* Whoever replaces the store, fails and crashes at whatever point, what a *)
(* process can load is a whole bundle, unless somebody has broken it.      *)
StoreIsWhole == [][store' = Broken => store = Broken \/ edits' > edits]_vars

(* At most one daemon manages the store, down to the end of its shutdown.  *)
OneDaemon ==
  \A p, q \in Daemons :
    pc[p] \notin {"off", "refused"} /\ pc[q] \notin {"off", "refused"} => p = q

(* As long as nobody edits beside somebody else (docs/daemon.md), the      *)
(* store has exactly what was reported as saved: nothing is lost by a      *)
(* failed save or a crash, and nothing that failed is saved later.         *)
OneWriterLosesNothing == clean => store = kept

(* A process that has loaded or written what is in the file has it in its  *)
(* memory: what it saves next goes on from there.                          *)
FreshIsStored == \A p \in fresh \ unread : read[p] = None => mem[p] = store

(* Only a crash leaves a temporary file behind.                            *)
NoLitter ==
  \A p \in Procs : temp[p] \in {"part", "whole"} => pc[p] \in {"created", "written"}

(* One daemon and no litter in any case; nothing lost and nothing stale as  *)
(* long as no SIGHUP comes, since a reload reads the file before it locks   *)
(* the service.                                                             *)
StoreIsKept ==
  /\ OneDaemon /\ NoLitter
  /\ MaxReloads = 0 => OneWriterLosesNothing /\ FreshIsStored

(* A process writes the whole store back that it has loaded as a whole.    *)
LoadedBeforeWritten ==
  [][\A p \in Procs : pc[p] = "written" /\ pc'[p] = "idle" /\ store' # store => p \notin unread]_vars

-----------------------------------------------------------------------------
(* What every reachable state has that the properties follow from.         *)

(* How far a save is says what is in the temporary file. *)
SaveIsAt(p) ==
  /\ pc[p] = "created" <=> temp[p] = "part"
  /\ pc[p] = "written" <=> temp[p] = "whole"

(* A daemon that has not been refused has the lock. *)
DaemonOwns(p) ==
  p \in Daemons => pc[p] # "probed" /\ (pc[p] \notin {"off", "refused"} => owner = p)

(* Only an editor breaks the file, and who could not read it had no clean   *)
(* file.                                                                    *)
CleanIsRead == clean => store # Broken /\ unread = {}

Unreloaded == reloads = 0 => \A p \in Procs : read[p] = None

StoreInv ==
  /\ TypeOK
  /\ \A p \in Procs : SaveIsAt(p) /\ DaemonOwns(p)
  /\ CleanIsRead /\ Unreloaded
  /\ reloads = 0 => FreshIsStored /\ OneWriterLosesNothing
=============================================================================
