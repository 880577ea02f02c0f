------------------------------ MODULE Imports ------------------------------
(***************************************************************************)
(* Which SOCKS5 port a profile gets: Service.Add and Service.Import, the   *)
(* decoding of the file to import, and Export, which writes one.  A store  *)
(* keeps many profiles and a port may be shared only by the user's choice. *)
(***************************************************************************)
EXTENDS Naturals, Sequences, SequencesExt, FiniteSetsExt

CONSTANTS
  MaxPort,      \* 65535
  DefaultPort,  \* 1080
  Hosts,
  MaxProfiles,  \* bounds the store
  Documents     \* files that others have written

Ports == 1..MaxPort

(* A profile that is decoded may have any port and nothing in it. *)
Raw == [host : Hosts, port : 0..(MaxPort + 1), content : BOOLEAN]
Shapes == {"blank", "bundle", "record", "list", "json", "broken", "wireguard", "other"}

(* What an instance has to assume of the constants. *)
ImportsAssumption ==
  /\ MaxPort \in Nat /\ DefaultPort \in Ports
  /\ MaxProfiles \in Nat
  /\ \A d \in Documents : d.shape \in Shapes /\ d.items \in Seq(Raw)

VARIABLES
  profiles,  \* Service.profiles
  backup     \* what Export wrote last

vars == <<profiles, backup>>

UsedPorts(ps) == {ps[i].port : i \in DOMAIN ps} \ {0}

(* Hosts and ports are valid, and so is what is imported. *)
TypeOK ==
  /\ profiles \in Seq([host : Hosts, port : Ports, content : {TRUE}])
  /\ backup.shape = "bundle" /\ backup.items \in Seq(Raw)

Init ==
  /\ profiles = <<>>
  /\ backup = [shape |-> "bundle", items |-> <<>>]

-----------------------------------------------------------------------------

NextAvailablePort(used) ==
  LET free == (DefaultPort..MaxPort) \ used
  IN IF free = {} THEN DefaultPort ELSE Min(free)

(* 0 when every port is used. *)
NextAvailableImportPort(used, first) ==
  LET start == IF first \in Ports THEN first ELSE DefaultPort
      above == (start..MaxPort) \ used
      free == Ports \ used
  IN IF free = {} THEN 0 ELSE IF above # {} THEN Min(above) ELSE Min(free)

(* Mutant: the ports of the imported profiles themselves are not noted. *)
PrepareForgets(acc, item) ==
  LET found == NextAvailableImportPort(acc.used, acc.next)
      port == IF item.port \in Ports \ acc.used THEN item.port
              ELSE IF found = 0 THEN DefaultPort ELSE found
  IN [acc EXCEPT !.done = Append(@, [item EXCEPT !.port = port, !.content = TRUE])]

(* One round of the loop of prepareImported; Normalize has made 0 the       *)
(* default port before, and an empty name becomes "Imported profile".       *)
Prepare(acc, item) ==
  LET asked == IF item.port = 0 THEN DefaultPort ELSE item.port
      found == NextAvailableImportPort(acc.used, acc.next)
      keeps == asked \in Ports \ acc.used
      port == IF keeps THEN asked ELSE IF found = 0 THEN DefaultPort ELSE found
  IN [done |-> Append(acc.done, [item EXCEPT !.port = port, !.content = TRUE]),
      used |-> acc.used \cup {port},
      next |-> IF keeps \/ found = 0 THEN acc.next ELSE found + 1]

PrepareImported(items, existing) ==
  FoldLeft(Prepare,
           [done |-> <<>>, used |-> UsedPorts(existing), next |-> DefaultPort],
           items).done

-----------------------------------------------------------------------------

HasContent(item) == item.content

(* DecodeImport: the profiles, or none and an error.  An object is a bundle *)
(* if it lists profiles and a single profile otherwise; what is not JSON is *)
(* a WireGuard configuration.                                               *)
Decode(doc) ==
  CASE doc.shape \in {"bundle", "list"} -> SelectSeq(doc.items, HasContent)
    [] doc.shape = "record" -> SelectSeq(SubSeq(doc.items, 1, 1), HasContent)
    [] doc.shape = "wireguard" ->
         <<[doc.items[1] EXCEPT !.port = DefaultPort, !.content = TRUE]>>
    [] doc.shape \in {"blank", "json", "broken", "other"} -> <<>>

Import(doc) ==
  LET decoded == Decode(doc)
  IN /\ decoded # <<>>
     /\ Len(profiles) + Len(decoded) <= MaxProfiles
     /\ profiles' = profiles \o PrepareImported(decoded, profiles)
     /\ UNCHANGED backup

(* An error, and nothing has changed. *)
ImportFails(doc) == Decode(doc) = <<>> /\ UNCHANGED vars

Add ==
  /\ Len(profiles) < MaxProfiles
  /\ \E h \in Hosts :   \* DefaultSocksHost
       profiles' = Append(profiles,
         [host |-> h, port |-> NextAvailablePort(UsedPorts(profiles)), content |-> TRUE])
  /\ UNCHANGED backup

(* Save: any address, also one that another profile has. *)
Save ==
  /\ \E i \in DOMAIN profiles, h \in Hosts, p \in Ports :
       profiles' = [profiles EXCEPT ![i].host = h, ![i].port = p]
  /\ UNCHANGED backup

Delete ==
  /\ \E i \in DOMAIN profiles : profiles' = RemoveAt(profiles, i)
  /\ UNCHANGED backup

Export ==
  /\ profiles # <<>>
  /\ backup' = [backup EXCEPT !.items = profiles]
  /\ UNCHANGED profiles

Next ==
  \/ \E doc \in Documents \cup {backup} : Import(doc) \/ ImportFails(doc)
  \/ Add \/ Save \/ Delete \/ Export

Spec == Init /\ [][Next]_vars

-----------------------------------------------------------------------------

Shares(ps, i) == \E j \in DOMAIN ps \ {i} : ps[j].port = ps[i].port
New == (DOMAIN profiles') \ (DOMAIN profiles)

(* A profile that is added has its port to itself, unless every port from  *)
(* the default one up is in use.                                           *)
AddedIsFree ==
  Add => \/ DefaultPort..MaxPort \subseteq UsedPorts(profiles)
         \/ \A i \in New : ~Shares(profiles', i)

(* Imported profiles have their ports to themselves, among each other too, *)
(* while there are ports.                                                  *)
ImportedIsFree ==
  (\E doc \in Documents \cup {backup} : Import(doc)) =>
    \/ UsedPorts(profiles') = Ports
    \/ \A i \in New : ~Shares(profiles', i)

(* A backup that is imported into an empty store brings every profile back *)
(* on its own address, unless profiles shared a port.                      *)
BackupRestores ==
  (profiles = <<>> /\ Import(backup)) =>
    \/ profiles' = backup.items
    \/ \E i \in DOMAIN backup.items : Shares(backup.items, i)

(* Every profile that a file holds is imported, whatever else is in it.    *)
ImportIsWhole ==
  \A doc \in Documents \cup {backup} :
    doc.shape \in {"bundle", "list"} =>
      Len(PrepareImported(Decode(doc), profiles)) =
        Cardinality({i \in DOMAIN doc.items : doc.items[i].content})
=============================================================================
