---------------------------- MODULE ProfileRules ----------------------------
(***************************************************************************)
(* The rules of internal/profile with every field: what a profile is       *)
(* normalised to, when it is valid, which changes need a restart, which    *)
(* can be made to a live connection and which none of them notice; what    *)
(* the adapters read of it, and the JSON it is stored as.                  *)
(*                                                                         *)
(* A text is empty, blank, or a word that may have a blank beside it.      *)
(***************************************************************************)
EXTENDS Naturals, Sequences

CONSTANTS
  Words,     \* what a text may say
  Texts,     \* values a form or a file may have for the text fields
  Forwards,  \* lists of port forwards it may have
  PortValues \* SOCKS5 ports it may have, 0 and one that is out of range too

MaxPort == 65535
Trim(t) == IF t.word = "" THEN [word |-> "", blank |-> FALSE] ELSE [t EXCEPT !.blank = FALSE]
Nothing == [word |-> "", blank |-> FALSE]
Word(w) == [word |-> w, blank |-> FALSE]

TextFields == {"name", "config", "host", "hostname", "key", "control", "exit"}
Switches == {"autostart", "authenticated", "auto", "lan", "ephemeral"}
TailscaleTexts == {"hostname", "key", "control", "exit"}
TailscaleSwitches == {"authenticated", "auto", "lan", "ephemeral"}
TailscaleFields == TailscaleTexts \cup TailscaleSwitches \cup {"forwards"}
Fields == TextFields \cup Switches \cup {"kind", "port", "forwards"}
Kinds == {"", "wireguard", "WireGuard ", "tailscale", " Tailscale", "other"}

Protocols == {"", "TCP", "tcp", "UDP ", "udp", "icmp"}

Text == [word : Words, blank : BOOLEAN]
PortForward == [port : Nat, protocol : Protocols, target : Text]

(* profile.Profile *)
IsProfile(p) ==
  /\ DOMAIN p = Fields
  /\ \A f \in TextFields : p[f] \in Text
  /\ \A f \in Switches : p[f] \in BOOLEAN
  /\ p.kind \in Kinds /\ p.port \in Nat /\ p.forwards \in Seq(PortForward)

(* What an instance has to assume of the constants. *)
RulesAssumption ==
  /\ {"", "127.0.0.1", "n", "wg1"} \subseteq Words
  /\ \A f \in TextFields : Texts[f] \subseteq Text
  /\ Forwards \subseteq Seq(PortForward)
  /\ PortValues \subseteq Nat

VARIABLES
  saved,  \* the profile, as the service holds it
  served  \* what the live connection was given, or Off

vars == <<saved, served>>
Off == [kind |-> "off"]

-----------------------------------------------------------------------------
(* Normalize *)

NormalizedKind(k) ==
  CASE k \in {"", "wireguard", "WireGuard "} -> "wireguard"
    [] k \in {"tailscale", " Tailscale"} -> "tailscale"
    [] OTHER -> k

NormalizedHost(t) == IF Trim(t) = Nothing THEN Word("127.0.0.1") ELSE Trim(t)

NormalizeForward(f) ==
  [f EXCEPT !.target = Trim(@),
            !.protocol = CASE @ \in {"", "TCP"} -> "tcp" [] @ = "UDP " -> "udp" [] OTHER -> @]

(* TailscaleConfig.Normalize and Profile.Normalize. *)
Normalize(p) ==
  LET trimmed == [f \in TextFields |-> Trim(p[f])]
  IN [f \in DOMAIN p |->
       CASE f = "kind" -> NormalizedKind(p.kind)
         [] f = "key" -> IF p.authenticated THEN Nothing ELSE trimmed.key
         [] f = "host" -> NormalizedHost(p.host)
         [] f \in TextFields \ {"key", "host"} -> trimmed[f]
         [] f = "port" -> IF p.port = 0 THEN 1080 ELSE p.port
         [] f = "forwards" -> [i \in DOMAIN p.forwards |-> NormalizeForward(p.forwards[i])]
         [] f \in Switches -> p[f]]

IsTailscale(p) == NormalizedKind(p.kind) = "tailscale"

(* TailscaleConfig.IsZero *)
IsZero(p) ==
  /\ \A f \in TailscaleTexts : p[f] = Nothing
  /\ \A f \in TailscaleSwitches : ~p[f]
  /\ p.forwards = <<>>

-----------------------------------------------------------------------------
(* Validate *)

ValidForwards(fs) ==
  /\ \A i \in DOMAIN fs :
       /\ fs[i].port \in 1..MaxPort
       /\ fs[i].protocol \in {"tcp", "udp"}
       /\ fs[i].target.word = "host:port"
  /\ \A i, j \in DOMAIN fs : fs[i].port = fs[j].port => i = j

(* ValidateWireGuardConfig, which looks for sections and keys. *)
ValidWireGuardConfig(t) == t.word \in {"wg1", "wg2"}

Valid(p) ==
  /\ Trim(p.name) # Nothing /\ Trim(p.host) # Nothing
  /\ p.port \in 1..MaxPort
  /\ CASE NormalizedKind(p.kind) = "wireguard" -> ValidWireGuardConfig(p.config)
       [] NormalizedKind(p.kind) = "tailscale" ->
            ~(p.auto /\ Trim(p.exit) # Nothing) /\ ValidForwards(p.forwards)
       [] OTHER -> FALSE

-----------------------------------------------------------------------------
(* What has changed. *)

(* Mutant: port forwards, which were added later, are not compared. *)
TailscaleRestartConfigChangedBefore(a, b) ==
  \E f \in {"hostname", "key", "control", "ephemeral"} : a[f] # b[f]

(* Both are normalised. *)
TailscaleRestartConfigChanged(a, b) ==
  \E f \in {"hostname", "key", "control", "ephemeral", "forwards"} : a[f] # b[f]

RuntimeConfigChanged(a, b) ==
  \/ \E f \in {"kind", "config", "host", "port"} : a[f] # b[f]
  \/ TailscaleRestartConfigChanged(a, b)

ExitNodeConfigChanged(a, b) ==
  /\ IsTailscale(a) /\ IsTailscale(b)
  /\ \E f \in {"exit", "auto", "lan"} : a[f] # b[f]

FieldsChanged(a, b) == \E f \in DOMAIN a : a[f] # b[f]

-----------------------------------------------------------------------------
(* The JSON of a profile: no tailscale_config if it says nothing. *)

Stored(p) ==
  [f \in {g \in DOMAIN p : g \in TailscaleFields => (IsTailscale(p) \/ ~IsZero(p))} |-> p[f]]

ToDomain(stored) ==
  [f \in Fields |->
     IF f \in DOMAIN stored THEN stored[f]
     ELSE CASE f \in TailscaleTexts -> Nothing [] f = "forwards" -> <<>> [] OTHER -> FALSE]

-----------------------------------------------------------------------------

(* What the adapters read: wireproxyConfig; newTSNetNode, configureExitNode *)
(* and startPortForwards.                                                   *)
Configuration(p) ==
  IF IsTailscale(p)
  THEN [f \in {"kind", "host", "port", "key", "hostname", "control", "ephemeral", "forwards",
               "exit", "auto", "lan"} |-> p[f]]
  ELSE [f \in {"kind", "host", "port", "config"} |-> p[f]]

(* The values a form or a file may put into a field. *)
Values(f) ==
  CASE f \in TextFields -> Texts[f] [] f \in Switches -> BOOLEAN
    [] f = "kind" -> Kinds [] f = "port" -> PortValues [] f = "forwards" -> Forwards

Edits(p) == UNION {{[p EXCEPT ![f] = v] : v \in Values(f)} : f \in DOMAIN p}

Init ==
  /\ saved = Normalize(ToDomain(
       [kind |-> "", name |-> Word("n"), config |-> Word("wg1"), host |-> Nothing,
        port |-> 0, autostart |-> FALSE]))
  /\ served = Off

Accepts(updated) ==
  /\ Valid(updated)
  /\ served # Off => ~RuntimeConfigChanged(saved, updated)

(* Service.Save *)
Save ==
  \E u \in Edits(saved) :
    LET updated == Normalize(u)
    IN /\ Accepts(updated)
       /\ FieldsChanged(saved, updated)
       /\ saved' = updated
       /\ served' = IF served # Off /\ ExitNodeConfigChanged(saved, updated)
                    THEN [served EXCEPT !.exit = updated.exit, !.auto = updated.auto, !.lan = updated.lan]
                    ELSE served

Connect ==
  /\ served = Off /\ Valid(saved)
  /\ served' = Configuration(saved)
  /\ UNCHANGED saved

Disconnect ==
  /\ served # Off
  /\ served' = Off
  /\ UNCHANGED saved

(* The process ends; the file is edited by hand; the next one loads it. *)
Restart ==
  /\ served' = Off
  /\ \E u \in Edits(ToDomain(Stored(saved))) : saved' = Normalize(u)

Next == Save \/ Connect \/ Disconnect \/ Restart

Spec == Init /\ [][Next]_vars

-----------------------------------------------------------------------------

(* Normalising again changes nothing, so that Load, Save, the codec and    *)
(* the comparisons, which all do it, agree.                                *)
TypeOK ==
  /\ IsProfile(saved) /\ Normalize(saved) = saved
  /\ served # Off => DOMAIN served \subseteq DOMAIN saved

(* A live connection runs on what its profile says: what Save lets through *)
(* either does not matter to the adapter or is applied to the node.        *)
ServedAsSaved == served # Off => served = Configuration(saved)

(* A profile stays valid while it is connected. *)
OnlyValidIsServed == served # Off => Valid(saved)

(* What Save takes for no change is none: nothing the user has entered is  *)
(* dropped in silence.                                                     *)
UnchangedIsEqual ==
  \A u \in Edits(saved) :
    Valid(Normalize(u)) /\ ~FieldsChanged(saved, Normalize(u)) => Normalize(u) = saved

(* The store gives back what it was given, the settings of the backend     *)
(* that is not selected included.                                          *)
StoreRoundTrip == Normalize(ToDomain(Stored(saved))) = saved

=============================================================================
