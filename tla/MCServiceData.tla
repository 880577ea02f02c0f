---------------------------- MODULE MCServiceData ----------------------------
(***************************************************************************)
(* What the service keeps and the files it is kept in: machines that share *)
(* no state.  Each behaviour is one of a single machine, `moving', and the *)
(* others stay where they start.                                           *)
(***************************************************************************)
EXTENDS Naturals, Sequences, TLC

CONSTANTS
  Machines,  \* that may move
  Exits, Direct, MaxEdits,             \* of the account
  Slots, MaxHangups, Absent, Malformed,\* of the reloads, with MaxEdits
  Frontends, Servers, Items, Broken, None, MaxFaults, MaxStarts,  \* of the store
  gui, d1, i,                          \* a frontend, a server and an item among them
  h,                                   \* the host of the imports
  p1, p2, s1, s2, NoStart,             \* profiles and starts
  Words, Texts, Forwards, PortValues   \* of the rules

VARIABLES
  moving,
  \* Account
  account, storedAccount, accountStatus, start, startConf, entry, live, login,
  accountEvents, logout, form, torn, told,
  \* DaemonReload
  file, loaded, status, call, conf, bound, events, daemon, hangup, owed, edits, signals,
  \* ProfileStore
  store, temp, owner, pc, mem, next, read, unread, fresh, clean, kept,
  faults, handEdits, starts, reloads,
  \* Imports
  profiles, backup,
  \* ProfileRules
  saved, served,
  \* ServiceLifecycle
  configs, statuses, pending, canceled, goroutine, result, given, backing, bus,
  phase, stopped, table, verdict, chan, shutdown

accountVars == <<account, storedAccount, accountStatus, start, startConf, entry, live, login,
                 accountEvents, logout, form, torn, told>>
reloadVars == <<file, loaded, status, call, conf, bound, events, daemon, hangup, owed,
                edits, signals>>
storeVars == <<store, temp, owner, pc, mem, next, read, unread, fresh, clean, kept,
               faults, handEdits, starts, reloads>>
importVars == <<profiles, backup>>
ruleVars == <<saved, served>>
connections == <<configs, statuses, pending, canceled, goroutine, result, given, backing, bus,
                 phase, stopped, table, verdict, chan, shutdown>>

-----------------------------------------------------------------------------
(* One Tailscale profile, whose events are handled in time; or whose forms  *)
(* are stale, events late and callers several.                              *)

Account == INSTANCE AccountProofs WITH
  mem <- account, store <- storedAccount, status <- accountStatus, conf <- startConf,
  events <- accountEvents, LateEvents <- FALSE, Forms <- FALSE, OneCaller <- TRUE
Careless == INSTANCE AccountProofs WITH
  mem <- account, store <- storedAccount, status <- accountStatus, conf <- startConf,
  events <- accountEvents, Exits <- {Direct}, LateEvents <- TRUE, Forms <- TRUE, OneCaller <- FALSE

(* Two connections leave at most four events. *)
FewEvents == Len(accountEvents) <= 4

-----------------------------------------------------------------------------
(* Files in which p1 is alone, beside p2, and on the address of p2; or in   *)
(* which it comes, goes, moves, and stops connecting by itself.             *)

Entry(bind) == [bind |-> bind, auto |-> TRUE]
Shared == {
  p1 :> Entry("a") @@ p2 :> Absent,
  p1 :> Entry("b") @@ p2 :> Entry("a"),
  p1 :> Entry("a") @@ p2 :> Entry("a"),
  Malformed}
Single == {
  p1 :> Entry("a") @@ p2 :> Absent,
  p1 :> Entry("b") @@ p2 :> Absent,
  p1 :> [bind |-> "a", auto |-> FALSE] @@ p2 :> Absent,
  p1 :> Absent @@ p2 :> Absent,
  Malformed}

Pair == {p1, p2}
Contents == Shared \cup Single

Reload == INSTANCE DaemonReload WITH
  mem <- loaded, Profiles <- Pair, Files <- Contents

(* One signal over two profiles; or one more, during the reload that the    *)
(* first has caused.                                                        *)
Reloads == file' \in Shared /\ signals' <= 1
Signals == file' \in Single

-----------------------------------------------------------------------------
(* Two frontends; or a frontend and a daemon that both save; or a frontend, *)
(* two daemons and somebody with an editor.                                 *)

Writers == INSTANCE ProfileStoreProofs WITH
  edits <- handEdits, Editors <- Frontends, Daemons <- {},
  MaxHandEdits <- 0, MaxReloads <- 0
Marks == INSTANCE ProfileStoreProofs WITH
  edits <- handEdits, Editors <- {gui}, Daemons <- {d1},
  MaxHandEdits <- 0, MaxReloads <- 0
Daemons == INSTANCE ProfileStoreProofs WITH
  edits <- handEdits, Editors <- {gui}, Daemons <- Servers, Items <- {i},
  MaxHandEdits <- 1, MaxReloads <- 1

-----------------------------------------------------------------------------
(* Three ports, so that all can be taken, and files of every shape.         *)

MaxPort == 3
Item(port, content) == [host |-> h, port |-> port, content |-> content]
Doc(shape, items) == [shape |-> shape, items |-> items]
Documents == {
  Doc("bundle", <<Item(0, TRUE), Item(3, FALSE), Item(MaxPort, TRUE)>>),
  Doc("list", <<Item(MaxPort + 1, TRUE), Item(MaxPort + 1, TRUE)>>),
  Doc("list", <<Item(1, FALSE)>>),
  Doc("record", <<Item(1, TRUE)>>),
  Doc("wireguard", <<Item(1, TRUE)>>),
  Doc("blank", <<>>), Doc("json", <<>>), Doc("broken", <<>>), Doc("other", <<>>)}

Imports == INSTANCE Imports WITH DefaultPort <- 2, Hosts <- {h}, MaxProfiles <- 4

-----------------------------------------------------------------------------
(* What all profiles have and the configuration of WireGuard; or what only  *)
(* Tailscale profiles use.                                                  *)

Word(w) == [word |-> w, blank |-> FALSE]
Padded(w) == [word |-> w, blank |-> TRUE]
Nothing == Word("")

SomeTexts ==
  [name |-> {Padded("n"), Word("m"), Padded("")},
   config |-> {Nothing, Padded("wg1"), Word("wg2"), Word("bad")},
   host |-> {Nothing, Padded(""), Padded("h")},
   hostname |-> {Nothing, Padded("x")}, key |-> {Nothing, Padded("k")},
   control |-> {Nothing, Padded("c")}, exit |-> {Padded(""), Padded("e")}]

Forward(port, protocol, word) ==
  [port |-> port, protocol |-> protocol, target |-> Padded(word)]
SomeForwards == {
  <<>>,
  <<Forward(22, "", "host:port")>>,
  <<Forward(22, "UDP ", "host:port"), Forward(22, "TCP", "host:port")>>,
  <<Forward(0, "tcp", "host:port")>>,
  <<Forward(22, "icmp", "host:port")>>,
  <<Forward(22, "tcp", "host")>>}

SomePorts == {0, 1081, 70000}
SomeWords == {"", "127.0.0.1", "n", "m", "wg1", "wg2", "bad", "h", "x", "k", "c", "e",
              "host", "host:port"}

Rules == INSTANCE ProfileRules

CommonFields == \A f \in Rules!TailscaleFields : saved'[f] = saved[f]
NodeFields ==
  /\ \A f \in {"name", "host", "port", "autostart"} : saved'[f] = saved[f]
  /\ saved'.config \in {Word("wg1"), Word("bad")}

-----------------------------------------------------------------------------
(* Two WireGuard profiles that may be given one address.                    *)

WireGuardAt(bind) == [kind |-> "wireguard", bind |-> bind]

Connections == INSTANCE ServiceLifecycleProofs WITH
  profiles <- configs, status <- statuses, call <- goroutine, conf <- given,
  Profiles <- Pair, Starts <- {s1, s2}, ProfileOf <- s1 :> p1 @@ s2 :> p2,
  Addresses <- {"a", "b"},
  Initial <- p1 :> WireGuardAt("a") @@ p2 :> WireGuardAt("b"),
  Choices <- {WireGuardAt("a")}, Capacity <- 1, MayFault <- FALSE

-----------------------------------------------------------------------------

ASSUME MachineAssumption ==
  /\ Account!AccountAssumption /\ Careless!AccountAssumption
  /\ Reload!DaemonAssumption
  /\ Writers!ProfileStoreAssumption /\ Marks!ProfileStoreAssumption
  /\ Daemons!ProfileStoreAssumption
  /\ Imports!ImportsAssumption
  /\ Rules!RulesAssumption
  /\ Connections!ServiceAssumption /\ Connections!OneStart

Init ==
  /\ moving \in Machines
  /\ IF moving = "careless" THEN Careless!Init ELSE Account!Init
  /\ moving \in {"account", "careless"} \/ ~account.key
  /\ Reload!Init /\ file \in IF moving = "signals" THEN Single ELSE Shared
  /\ moving \in {"reload", "signals"} \/ file = Malformed
  /\ IF moving = "daemons" THEN Daemons!Init
     ELSE IF moving = "marks" THEN Marks!Init ELSE Writers!Init
  /\ Imports!Init
  /\ Rules!Init
  /\ Connections!Init

Moves(machine, others) == moving = machine /\ UNCHANGED <<moving, others>>

AccountOnly == <<reloadVars, storeVars, importVars, ruleVars, connections>>
ReloadOnly == <<accountVars, storeVars, importVars, ruleVars, connections>>
StoreOnly == <<accountVars, reloadVars, importVars, ruleVars, connections>>
ImportsOnly == <<accountVars, reloadVars, storeVars, ruleVars, connections>>
RulesOnly == <<accountVars, reloadVars, storeVars, importVars, connections>>
ConnectionsOnly == <<accountVars, reloadVars, storeVars, importVars, ruleVars>>

Next ==
  \/ Moves("account", AccountOnly) /\ Account!Next
  \/ Moves("careless", AccountOnly) /\ Careless!Next
  \/ Moves("reload", ReloadOnly) /\ Reload!Next /\ Reloads
  \/ Moves("signals", ReloadOnly) /\ Reload!Next /\ Signals
  \/ Moves("writers", StoreOnly) /\ Writers!Next
  \/ Moves("marks", StoreOnly) /\ Marks!Next
  \/ Moves("daemons", StoreOnly) /\ Daemons!Next
  \/ Moves("imports", ImportsOnly) /\ Imports!Next
  \/ Moves("common", RulesOnly) /\ Rules!Next /\ CommonFields
  \/ Moves("node", RulesOnly) /\ Rules!Next /\ NodeFields
  \/ Moves("connections", ConnectionsOnly) /\ Connections!Next

Spec ==
  Init /\ [][Next]_<<accountVars, reloadVars, storeVars, importVars, ruleVars, connections, moving>>

-----------------------------------------------------------------------------
(* The four copies of an account agree: memory is what is stored, the node  *)
(* leaves by the saved exit node, the auth key goes when the node has come  *)
(* up, and what is stored as authenticated has a login, whichever write     *)
(* fails and wherever the process dies (Save, Logout,                       *)
(* markTailscaleAuthenticatedLocked).                                       *)
AccountIsStored ==
  /\ moving = "account" => Account!TypeOK /\ Account!AccountIsStored
  /\ moving = "careless" => Careless!TypeOK /\ Careless!AccountIsStored

(* A profile stays authenticated until the user logs it out                 *)
(* (README:249-251).                                                        *)
AuthenticatedUntilLogout ==
  [][moving = "account" => Account!StaysAuthenticated]_<<accountVars, moving>>

(* After any reloads over live and starting connections no profile has two  *)
(* of them, what is shown as running runs once all has settled, and no      *)
(* SIGHUP is lost (daemon.Run, Load, AutoConnect).                          *)
ReloadIsShown ==
  Reload!TypeOK /\ Reload!ShownIsTrue /\ Reload!OneConnection /\ Reload!HangupIsKept

(* A reload starts every profile that is to connect by itself and does not  *)
(* (AutoConnect).                                                           *)
ReloadStarts == [][Reload!AutoStarts]_reloadVars

(* Two frontends, failed saves and crashes lose nothing that was reported   *)
(* as saved, and one daemon at most has the lock, down to the end of its    *)
(* shutdown (Repository.Save, lock.TryLock).                                *)
StoreIsKept ==
  /\ moving = "writers" => Writers!TypeOK /\ Writers!StoreIsKept
  /\ moving = "marks" => Marks!TypeOK /\ Marks!StoreIsKept
  /\ moving = "daemons" => Daemons!TypeOK /\ Daemons!StoreIsKept

(* Only an editor can break the file: what a process replaces it by, or     *)
(* leaves when it dies, is whole (Repository.Save).                         *)
StoreIsWhole == Daemons!StoreIsWhole

(* Whatever is added and imported gets ports of its own while there are     *)
(* any, every profile of a file comes in, and a backup comes back on its    *)
(* addresses (prepareImported, nextAvailableImportPort).                    *)
ImportsAreWhole ==
  /\ [](moving = "imports" => Imports!TypeOK /\ Imports!ImportIsWhole)
  /\ [][moving = "imports" =>
          Imports!AddedIsFree /\ Imports!ImportedIsFree /\ Imports!BackupRestores
        ]_<<importVars, moving>>

(* A live connection runs on what its profile says, which stays valid and   *)
(* comes back from the store as it was; what Save takes for no change is    *)
(* none (RuntimeConfigChanged, ExitNodeConfigChanged, FieldsChanged).       *)
ServedIsSaved ==
  moving \in {"common", "node"} =>
    /\ Rules!TypeOK /\ Rules!ServedAsSaved /\ Rules!OnlyValidIsServed
    /\ Rules!UnchangedIsEqual /\ Rules!StoreRoundTrip

(* Two profiles are never connected on one address, although the check and  *)
(* the start are far apart (runningBindConflictLocked, DuplicateBind).      *)
OneListener == moving = "connections" => Connections!TypeOK /\ Connections!OneListener
=============================================================================
