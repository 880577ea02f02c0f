----------------------------- MODULE ExitNodes -----------------------------
(***************************************************************************)
(* Exit nodes of a Tailscale profile: which peers are offered, and how the *)
(* one that was chosen becomes a preference of the node, while peers come, *)
(* go and stop to be exit nodes between the two.                           *)
(***************************************************************************)
EXTENDS FiniteSets

CONSTANTS Peers   \* each is its Tailscale IP

(* How a peer is named: by its stable node ID, or by its IP if it is not known *)
(* to have one; None names no peer.                                            *)
Ids == {[id |-> p] : p \in Peers}
IPs == {[ip |-> p] : p \in Peers}
None == [none |-> TRUE]

Attributes == {"known id", "option", "online", "location"}

VARIABLES
  status,   \* the attributes of every peer there is (LocalClient.Status)
  offered,  \* the list a user looks at
  chosen,   \* TailscaleConfig: automatic, or one exit node, or none
  prefs,    \* of the node
  failed    \* has configureExitNode not succeeded yet, or failed last?

vars == <<status, offered, chosen, prefs, failed>>

NoPrefs == [auto |-> FALSE, id |-> None, ip |-> None]

TypeOK ==
  /\ \E known \in SUBSET Peers : status \in [known -> SUBSET Attributes]
  /\ offered \subseteq Ids \cup IPs
  /\ chosen \in [auto : BOOLEAN, node : Ids \cup IPs \cup {None}]
  /\ prefs \in [auto : BOOLEAN, id : Ids \cup {None}, ip : IPs \cup {None}]
  /\ failed \in BOOLEAN

-----------------------------------------------------------------------------

(* exitNodesFromStatus: options that are online and no Mullvad location,    *)
(* named by their ID if they have one.                                      *)
Name(st, p) == IF "known id" \in st[p] THEN [id |-> p] ELSE [ip |-> p]

Offered(st) ==
  {Name(st, p) : p \in {q \in DOMAIN st : {"option", "online"} \subseteq st[q]
                                          /\ "location" \notin st[q]}}

(* exitNodeStableID: an ID of a peer that is an exit node, online or not. *)
StableID(node, st) ==
  \E p \in DOMAIN st : node = [id |-> p] /\ {"known id", "option"} \subseteq st[p]

(* Prefs.SetExitNodeIP: the IP of a peer that is an exit node. *)
ValidIP(node, st) ==
  \E p \in DOMAIN st : node = [ip |-> p] /\ "option" \in st[p]

(* Mutant: an exit node that is not found is passed over. *)
WantedAnyway(cfg, st) ==
  IF cfg.auto THEN {[NoPrefs EXCEPT !.auto = TRUE]}
  ELSE IF cfg.node = None THEN {NoPrefs}
  ELSE IF StableID(cfg.node, st) THEN {[NoPrefs EXCEPT !.id = cfg.node]}
  ELSE IF ValidIP(cfg.node, st) THEN {[NoPrefs EXCEPT !.ip = cfg.node]}
  ELSE {NoPrefs}

(* The preferences configureExitNode sends, none if it fails before. *)
Wanted(cfg, st) ==
  IF cfg.auto THEN {[NoPrefs EXCEPT !.auto = TRUE]}
  ELSE IF cfg.node = None THEN {NoPrefs}
  ELSE IF StableID(cfg.node, st) THEN {[NoPrefs EXCEPT !.id = cfg.node]}
  ELSE IF ValidIP(cfg.node, st) THEN {[NoPrefs EXCEPT !.ip = cfg.node]}
  ELSE {}

Init ==
  /\ status = [p \in {} |-> {}]
  /\ offered = {}
  /\ chosen = [auto |-> FALSE, node |-> None]
  /\ prefs = NoPrefs
  /\ failed = TRUE

-----------------------------------------------------------------------------

(* A peer joins, leaves or changes. *)
PeerChanges ==
  /\ \/ \E p \in Peers \ DOMAIN status :
          status' = [q \in DOMAIN status \cup {p} |-> IF q = p THEN {} ELSE status[q]]
     \/ \E p \in DOMAIN status : status' = [q \in DOMAIN status \ {p} |-> status[q]]
     \/ \E p \in DOMAIN status, a \in Attributes :
          status' = [status EXCEPT ![p] = IF a \in @ THEN @ \ {a} ELSE @ \cup {a}]
  /\ UNCHANGED <<offered, chosen, prefs, failed>>

ListExitNodes ==
  /\ offered' = Offered(status)
  /\ UNCHANGED <<status, chosen, prefs, failed>>

(* From the list, which may be old by now; an automatic choice clears the   *)
(* node (TailscaleConfig.Normalize).                                        *)
Choose ==
  /\ chosen' \in [auto : {FALSE}, node : offered \cup {None}]
                 \cup [auto : {TRUE}, node : {None}]
  /\ UNCHANGED <<status, offered, prefs, failed>>

(* EditPrefs replaces all of the exit-node preferences, or fails. *)
Configure ==
  /\ \/ \E wanted \in Wanted(chosen, status) : prefs' = wanted /\ failed' = FALSE
     \/ failed' = TRUE /\ UNCHANGED prefs
  /\ UNCHANGED <<status, offered, chosen>>

Next == PeerChanges \/ ListExitNodes \/ Choose \/ Configure

Spec == Init /\ [][Next]_vars

-----------------------------------------------------------------------------

(* Whatever is offered can be configured as long as the status it was read  *)
(* from holds: the two name a peer in the same way.                         *)
OfferedIsAccepted ==
  \A node \in Offered(status) : Wanted([auto |-> FALSE, node |-> node], status) # {}

(* A profile with an exit node never comes out of a successful              *)
(* configuration with its traffic leaving directly, and never with the exit *)
(* node of an earlier choice.                                               *)
ConfiguredAsChosen ==
  [][prefs' # prefs \/ (failed /\ ~failed') =>
       /\ prefs'.auto = chosen.auto
       /\ {prefs'.id, prefs'.ip} = {chosen.node, None}]_vars

=============================================================================
