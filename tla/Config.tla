-------------------------------- MODULE Config --------------------------------
(***************************************************************************)
(* The configuration file config.toml and the commands of the CLI that     *)
(* save it: `inode config set', `inode config migrate' and `inode          *)
(* discover-cert'.  They load the file whole, change their copy and save   *)
(* it whole, in place: create (which truncates), chmod 600, write.  No     *)
(* lock keeps two commands apart, and a command may be killed, or fail, at *)
(* any step.  The daemon only loads: what it finds is what Loadable says   *)
(* of the file at that moment.                                             *)
(***************************************************************************)
CONSTANTS
  Commands,   \* processes of the CLI, each running one command after another
  Urls,       \* gateways that may be configured
  NoUrl,      \* an empty gateway.url
  Pins,       \* certificate pins
  NoPin,      \* an empty servercert
  Rests,      \* the other settings: username, password, keepalive, dns, ...
  Default,    \* what migrate leaves in them
  Absent,     \* the content of a file that is not there,
  Empty,      \* of one that has been truncated,
  Mixed       \* of one with the beginning of a text, or a text and another's end

Configs == [url : Urls \cup {NoUrl}, pin : Pins \cup {NoPin}, rest : Rests]

ASSUME ConfigAssumption ==
  /\ NoUrl \notin Urls
  /\ NoPin \notin Pins
  /\ Default \in Rests
  /\ {Absent, Empty, Mixed} \cap Configs = {}
  /\ Absent # Empty /\ Absent # Mixed /\ Empty # Mixed

VARIABLES
  mode,      \* of the file, or the one the umask gives to a new file
  text,      \* what is in it
  pc,        \* where each command is
  verb,      \* what it does: the key it sets, or which command it is
  new,       \* its copy of the configuration
  stale,     \* has the file been changed by another since it loaded its copy?
  torn,      \* has a command ended between create and write?
  overlap    \* did another save begin, or not end, while one was under way?

file     == <<mode, text>>
commands == <<pc, verb, new, stale>>
vars     == <<file, commands, torn, overlap>>

Keys  == {"url", "pin", "rest"}
Verbs == Keys \cup {"discover", "force", "migrate"}

(* The file may have been made by hand, with any permissions.              *)
Init ==
  /\ \/ text = Absent /\ mode = "open"
     \/ text \in Configs /\ mode \in {"open", "private"}
  /\ pc = [c \in Commands |-> "idle"]
  /\ verb = [c \in Commands |-> "migrate"]
  /\ new = [c \in Commands |-> [url |-> NoUrl, pin |-> NoPin, rest |-> Default]]
  /\ stale = [c \in Commands |-> FALSE]
  /\ torn = FALSE /\ overlap = FALSE

(* Config::load takes a private file with a whole text and a gateway in    *)
(* it.  (An empty text has no sections; a text with another's end repeats  *)
(* or garbles a setting, unless that end is the last line feed alone.)     *)
(* The permissions are checked before the text is read; they are never     *)
(* widened, so the two may be one step.  A text cut within its last        *)
(* number, restart_delay, would load too: that cut is left out.            *)
Loadable == mode = "private" /\ text \in Configs /\ text.url # NoUrl

(* Between File::create and the end of write_all.                          *)
Saving(c) == pc[c] \in {"created", "secured"}

-----------------------------------------------------------------------------
(* Each command up to its save.                                            *)

Begins(c, v, cfg, to) ==
  /\ pc[c] = "idle"
  /\ pc' = [pc EXCEPT ![c] = to]
  /\ verb' = [verb EXCEPT ![c] = v]
  /\ new' = [new EXCEPT ![c] = cfg]
  /\ stale' = [stale EXCEPT ![c] = FALSE]
  /\ UNCHANGED <<file, torn, overlap>>

(* Slip: a file that cannot be loaded counts as the default configuration. *)
SetsOnDefault(c) ==
  \E cfg \in Configs :
    \/ Begins(c, "url", [url |-> cfg.url, pin |-> NoPin, rest |-> Default], "ready")
    \/ Begins(c, "pin", [url |-> NoUrl, pin |-> cfg.pin, rest |-> Default], "ready")

(* `config set': any value is taken, an empty gateway too.  A key or value *)
(* that with_key_set refuses changes nothing, nor does a failed load.      *)
with_key_set(c) ==
  /\ Loadable
  /\ \E cfg \in Configs :
       \/ Begins(c, "url", [text EXCEPT !.url = cfg.url], "ready")
       \/ Begins(c, "pin", [text EXCEPT !.pin = cfg.pin], "ready")
       \/ Begins(c, "rest", [text EXCEPT !.rest = cfg.rest], "ready")

(* Slip: the error of a failed load is passed over.                        *)
AsksAnyway(c) ==
  \E v \in {"discover", "force"} : Begins(c, v, text, "asking")

(* `discover-cert' keeps its copy while openconnect asks the gateway.      *)
DiscoverLoads(c) ==
  /\ Loadable
  /\ \E v \in {"discover", "force"} : Begins(c, v, text, "asking")

(* Slip: the pin that is configured is not looked at.                      *)
TakesAnyPin(c) ==
  /\ pc[c] = "asking"
  /\ \E p \in Pins : new' = [new EXCEPT ![c].pin = p]
  /\ pc' = [pc EXCEPT ![c] = "ready"]
  /\ UNCHANGED <<file, verb, stale, torn, overlap>>

(* The pin in openconnect's output replaces none or the same one, or any   *)
(* with --force.                                                           *)
TakesPin(c) ==
  /\ pc[c] = "asking"
  /\ \E p \in Pins :
       /\ new[c].pin \in {NoPin, p} \/ verb[c] = "force"
       /\ new' = [new EXCEPT ![c].pin = p]
  /\ pc' = [pc EXCEPT ![c] = "ready"]
  /\ UNCHANGED <<file, verb, stale, torn, overlap>>

(* `config migrate' loads no configuration, only the old .auth file, which *)
(* must name a gateway (and a username).                                   *)
migrate_legacy_auth(c) ==
  \E url \in Urls, pin \in Pins \cup {NoPin} :
    Begins(c, "migrate", [url |-> url, pin |-> pin, rest |-> Default], "ready")

(* Refused, unable to create the file, or killed before it tries.          *)
GivesUp(c) ==
  /\ pc[c] \in {"asking", "ready"}
  /\ pc' = [pc EXCEPT ![c] = "idle"]
  /\ UNCHANGED <<file, verb, new, stale, torn, overlap>>

-----------------------------------------------------------------------------
(* save_private.                                                           *)

(* The copies that others have loaded, and will compare with and save,     *)
(* are no longer what the file says.                                       *)
OutdatesOthers(c) == stale' = [d \in Commands |-> stale[d] \/ d # c]

(* Slip: the file is opened without truncating it.                         *)
CreatesOver(c) ==
  /\ pc[c] = "ready"
  /\ pc' = [pc EXCEPT ![c] = "created"]
  /\ text' = IF text = Absent THEN Empty ELSE text
  /\ overlap' = (\E d \in Commands \ {c} : Saving(d))
  /\ OutdatesOthers(c)
  /\ UNCHANGED <<mode, verb, new, torn>>

(* Slip: the permissions of the file are left as they are.                 *)
CreatesUnsecured(c) ==
  /\ pc[c] = "ready"
  /\ pc' = [pc EXCEPT ![c] = "secured"]
  /\ text' = Empty
  /\ overlap' = (\E d \in Commands \ {c} : Saving(d))
  /\ OutdatesOthers(c)
  /\ UNCHANGED <<mode, verb, new, torn>>

(* File::create truncates a file that is there and keeps its permissions.  *)
Creates(c) ==
  /\ pc[c] = "ready"
  /\ pc' = [pc EXCEPT ![c] = "created"]
  /\ text' = Empty
  /\ overlap' = (\E d \in Commands \ {c} : Saving(d))
  /\ OutdatesOthers(c)
  /\ UNCHANGED <<mode, verb, new, torn>>

Secures(c) ==
  /\ pc[c] = "created"
  /\ pc' = [pc EXCEPT ![c] = "secured"]
  /\ mode' = "private"
  /\ UNCHANGED <<text, verb, new, stale, torn, overlap>>

(* Each descriptor writes from the beginning: over the text of another     *)
(* command, which may be the longer one.                                   *)
Writes(c) ==
  /\ pc[c] = "secured"
  /\ pc' = [pc EXCEPT ![c] = "idle"]
  /\ \/ text' = new[c] /\ torn' = FALSE
     \/ text # Empty /\ text' = Mixed /\ UNCHANGED torn
  /\ OutdatesOthers(c)
  /\ UNCHANGED <<mode, verb, new, overlap>>

(* chmod or write fails, or the process is killed: after some of the text, *)
(* perhaps.                                                                *)
Dies(c) ==
  /\ Saving(c)
  /\ pc' = [pc EXCEPT ![c] = "idle"]
  /\ text' = text \/ (pc[c] = "secured" /\ text' = Mixed)
  /\ torn' = TRUE
  /\ OutdatesOthers(c)
  /\ UNCHANGED <<mode, verb, new, overlap>>

(* The user follows enforce_mode's advice, "run: chmod 600".               *)
UserSecures ==
  /\ text # Absent /\ mode = "open"
  /\ mode' = "private"
  /\ UNCHANGED <<text, commands, torn, overlap>>

-----------------------------------------------------------------------------
Command(c) ==
  \/ with_key_set(c) \/ DiscoverLoads(c) \/ TakesPin(c) \/ migrate_legacy_auth(c)
  \/ GivesUp(c) \/ Creates(c) \/ Secures(c) \/ Writes(c) \/ Dies(c)

Next == (\E c \in Commands : Command(c)) \/ UserSecures

Spec == Init /\ [][Next]_vars

-----------------------------------------------------------------------------
TypeOK ==
  /\ mode \in {"open", "private"}
  /\ text \in Configs \cup {Absent, Empty, Mixed}
  /\ pc \in [Commands -> {"idle", "asking", "ready", "created", "secured"}]
  /\ verb \in [Commands -> Verbs]
  /\ new \in [Commands -> Configs]
  /\ stale \in [Commands -> BOOLEAN]
  /\ torn \in BOOLEAN /\ overlap \in BOOLEAN

(* What a command puts into the file, the password among it, it puts into  *)
(* a file of mode 0600, whatever the file was before and whoever else is   *)
(* saving ("mode 0600", config.rs:3).                                      *)
SecretPrivate ==
  [][text' # text => text' = Empty \/ mode' = "private"]_vars

(* A text the daemon and every later command refuse to parse is always the *)
(* doing of a save that is under way, was cut short, or met another: a     *)
(* command that runs alone and to its end leaves what it meant.            *)
UnreadableHasCause ==
  text \in {Empty, Mixed} => torn \/ overlap \/ \E c \in Commands : Saving(c)

(* No update is lost but to a command that changed the file meanwhile: a   *)
(* command about to save what it loaded and changed differs from the file  *)
(* in what it was asked to change only.                                    *)
FreshKeepsRest ==
  \A c \in Commands :
    pc[c] = "ready" /\ verb[c] # "migrate" /\ ~stale[c]
      => /\ text \in Configs
         /\ \/ verb[c] = "url" \/ new[c].url = text.url
         /\ \/ verb[c] \in {"pin", "discover", "force"} \/ new[c].pin = text.pin
         /\ \/ verb[c] = "rest" \/ new[c].rest = text.rest

(* "A change of the pin must be confirmed" (docs/architecture.md:386):     *)
(* discover-cert without --force is about to replace no other pin, unless  *)
(* another command has changed the file since it loaded its copy.  That is *)
(* all the code gives.  It compares with the copy, loaded before it lets   *)
(* openconnect ask the gateway: a pin that is saved while it asks is in    *)
(* the file when it compares, and is replaced unconfirmed all the same.    *)
PinConfirmed ==
  \A c \in Commands :
    pc[c] = "ready" /\ verb[c] = "discover" /\ ~stale[c]
      => text \in Configs /\ text.pin \in {NoPin, new[c].pin}

(* with_key_set takes any value, and load refuses a file with an empty     *)
(* gateway, so that no `config set' can mend it: but only `config set      *)
(* gateway.url' ever writes one, however long the command has kept its     *)
(* copy and whoever else has saved meanwhile.                              *)
GatewayKept ==
  [][text' # text /\ text' \in Configs /\ text'.url = NoUrl
       => \E c \in Commands : pc[c] = "secured" /\ verb[c] = "url"]_vars
=============================================================================
