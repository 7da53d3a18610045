----------------------------- MODULE ConfigProofs -----------------------------
(***************************************************************************)
(* What save_private and the commands that use it promise, for any number  *)
(* of commands and any settings.                                           *)
(***************************************************************************)
EXTENDS Config, TLAPS

LEMMA TypeInit == Init => TypeOK
<1> SUFFICES ASSUME Init
             PROVE  TypeOK
  OBVIOUS
<1>1. [url |-> NoUrl, pin |-> NoPin, rest |-> Default] \in Configs
  BY ConfigAssumption DEF Configs
<1> QED
  BY <1>1 DEF Init, TypeOK, Verbs

(* Each setting of a configuration may be replaced.                        *)
LEMMA Replaced ==
  ASSUME NEW cfg \in Configs, NEW u \in Urls \cup {NoUrl}, NEW p \in Pins \cup {NoPin},
         NEW r \in Rests
  PROVE  /\ [cfg EXCEPT !.url = u] \in Configs
         /\ [cfg EXCEPT !.pin = p] \in Configs
         /\ [cfg EXCEPT !.rest = r] \in Configs
BY DEF Configs

(* What with_key_set and migrate_legacy_auth hand to the save.             *)
LEMMA Beginning ==
  ASSUME NEW c \in Commands,
         with_key_set(c) \/ DiscoverLoads(c) \/ migrate_legacy_auth(c)
  PROVE  \E v \in Verbs, cfg \in Configs, to \in {"asking", "ready"} :
           /\ Begins(c, v, cfg, to)
           /\ to = "asking" => v \in {"discover", "force"} /\ cfg = text
           /\ to = "ready" => v \in Keys \cup {"migrate"}
           /\ v # "url" => cfg.url # NoUrl
           /\ v \in Keys => /\ text \in Configs
                            /\ v # "url" => cfg.url = text.url
                            /\ v # "pin" => cfg.pin = text.pin
                            /\ v # "rest" => cfg.rest = text.rest
<1>1. CASE with_key_set(c)
  <2>0. text \in Configs /\ text.url # NoUrl
    BY <1>1 DEF with_key_set, Loadable
  <2>1. PICK cfg \in Configs :
           \/ Begins(c, "url", [text EXCEPT !.url = cfg.url], "ready")
           \/ Begins(c, "pin", [text EXCEPT !.pin = cfg.pin], "ready")
           \/ Begins(c, "rest", [text EXCEPT !.rest = cfg.rest], "ready")
    BY <1>1 DEF with_key_set
  <2>2. cfg.url \in Urls \cup {NoUrl} /\ cfg.pin \in Pins \cup {NoPin} /\ cfg.rest \in Rests
    BY DEF Configs
  <2>3. /\ [text EXCEPT !.url = cfg.url] \in Configs
        /\ [text EXCEPT !.pin = cfg.pin] \in Configs
        /\ [text EXCEPT !.rest = cfg.rest] \in Configs
    BY <2>0, <2>2, Replaced
  <2>4. CASE Begins(c, "url", [text EXCEPT !.url = cfg.url], "ready")
    <3>1. /\ [text EXCEPT !.url = cfg.url].pin = text.pin
          /\ [text EXCEPT !.url = cfg.url].rest = text.rest
      BY <2>0 DEF Configs
    <3> QED
      BY <2>0, <2>3, <2>4, <3>1 DEF Verbs, Keys
  <2>5. CASE Begins(c, "pin", [text EXCEPT !.pin = cfg.pin], "ready")
    <3>1. /\ [text EXCEPT !.pin = cfg.pin].url = text.url
          /\ [text EXCEPT !.pin = cfg.pin].rest = text.rest
      BY <2>0 DEF Configs
    <3> QED
      BY <2>0, <2>3, <2>5, <3>1 DEF Verbs, Keys
  <2>6. CASE Begins(c, "rest", [text EXCEPT !.rest = cfg.rest], "ready")
    <3>1. /\ [text EXCEPT !.rest = cfg.rest].url = text.url
          /\ [text EXCEPT !.rest = cfg.rest].pin = text.pin
      BY <2>0 DEF Configs
    <3> QED
      BY <2>0, <2>3, <2>6, <3>1 DEF Verbs, Keys
  <2> QED
    BY <2>1, <2>4, <2>5, <2>6
<1>2. CASE DiscoverLoads(c)
  <2>1. text \in Configs /\ text.url # NoUrl
    BY <1>2 DEF DiscoverLoads, Loadable
  <2>2. PICK v \in {"discover", "force"} : Begins(c, v, text, "asking")
    BY <1>2 DEF DiscoverLoads
  <2> QED
    BY <2>1, <2>2 DEF Verbs, Keys
<1>3. CASE migrate_legacy_auth(c)
  <2>1. PICK url \in Urls, pin \in Pins \cup {NoPin} :
           Begins(c, "migrate", [url |-> url, pin |-> pin, rest |-> Default], "ready")
    BY <1>3 DEF migrate_legacy_auth
  <2>2. [url |-> url, pin |-> pin, rest |-> Default] \in Configs /\ url # NoUrl
    BY ConfigAssumption DEF Configs
  <2> QED
    BY <2>1, <2>2 DEF Verbs, Keys
<1> QED
  BY <1>1, <1>2, <1>3

(* The pin that discover-cert takes.                                       *)
LEMMA Taking ==
  ASSUME TypeOK, NEW c \in Commands, TakesPin(c)
  PROVE  \E p \in Pins :
           /\ new[c].pin \in {NoPin, p} \/ verb[c] = "force"
           /\ new' = [new EXCEPT ![c].pin = p]
           /\ new'[c] \in Configs
           /\ new'[c].pin = p
           /\ new'[c].url = new[c].url /\ new'[c].rest = new[c].rest
           /\ \A d \in Commands \ {c} : new'[d] = new[d]
<1>1. PICK p \in Pins : /\ new[c].pin \in {NoPin, p} \/ verb[c] = "force"
                        /\ new' = [new EXCEPT ![c].pin = p]
  BY DEF TakesPin
<1>2. new \in [Commands -> Configs] /\ new[c] \in Configs
  BY DEF TypeOK
<1>3. new'[c] = [new[c] EXCEPT !.pin = p]
  BY <1>1, <1>2
<1>4. new'[c] \in Configs
  BY <1>2, <1>3, Replaced DEF Configs
<1>5. /\ new'[c].pin = p
      /\ new'[c].url = new[c].url /\ new'[c].rest = new[c].rest
  BY <1>2, <1>3 DEF Configs
<1>6. \A d \in Commands \ {c} : new'[d] = new[d]
  BY <1>1, <1>2
<1> QED
  BY <1>1, <1>4, <1>5, <1>6

LEMMA TypeStep == TypeOK /\ [Next]_vars => TypeOK'
<1> SUFFICES ASSUME TypeOK, [Next]_vars
             PROVE  TypeOK'
  OBVIOUS
<1>1. ASSUME NEW c \in Commands, with_key_set(c) \/ DiscoverLoads(c) \/ migrate_legacy_auth(c)
      PROVE  TypeOK'
  <2>1. PICK v \in Verbs, cfg \in Configs, to \in {"asking", "ready"} : Begins(c, v, cfg, to)
    BY <1>1, Beginning
  <2> QED
    BY <2>1 DEF Begins, TypeOK, file
<1>2. ASSUME NEW c \in Commands, TakesPin(c)
      PROVE  TypeOK'
  <2>1. new' \in [Commands -> Configs]
    BY <1>2, Taking DEF TypeOK
  <2> QED
    BY <1>2, <2>1 DEF TakesPin, TypeOK, file
<1>3. ASSUME NEW c \in Commands, GivesUp(c) \/ Creates(c) \/ Secures(c) \/ Writes(c) \/ Dies(c)
      PROVE  TypeOK'
  <2>1. CASE GivesUp(c)
    BY <2>1 DEF GivesUp, TypeOK, file
  <2>2. CASE Creates(c)
    BY <2>2 DEF Creates, OutdatesOthers, TypeOK
  <2>3. CASE Secures(c)
    BY <2>3 DEF Secures, TypeOK
  <2>4. CASE Writes(c)
    BY <2>4 DEF Writes, OutdatesOthers, TypeOK
  <2>5. CASE Dies(c)
    BY <2>5 DEF Dies, OutdatesOthers, TypeOK
  <2> QED
    BY <1>3, <2>1, <2>2, <2>3, <2>4, <2>5
<1>4. CASE UserSecures
  BY <1>4 DEF UserSecures, TypeOK, commands
<1>5. CASE UNCHANGED vars
  BY <1>5 DEF vars, file, commands, TypeOK
<1> QED
  BY <1>1, <1>2, <1>3, <1>4, <1>5 DEF Next, Command

(* The file and the copies hold configurations, or what a cut save leaves.  *)
THEOREM TypeCorrect == Spec => []TypeOK
<1>1. Init => TypeOK
  BY TypeInit
<1>2. TypeOK /\ [Next]_vars => TypeOK'
  BY TypeStep
<1> QED
  BY <1>1, <1>2, PTL DEF Spec

-----------------------------------------------------------------------------
(* A command that has come past chmod writes into a private file, since    *)
(* nothing ever widens the permissions.                                    *)
PrivateInv == \A c \in Commands : pc[c] = "secured" => mode = "private"

LEMMA PrivateStep == TypeOK /\ PrivateInv /\ [Next]_vars => PrivateInv'
<1> SUFFICES ASSUME TypeOK, PrivateInv, [Next]_vars
             PROVE  PrivateInv'
  OBVIOUS
<1> USE DEF TypeOK, PrivateInv
<1>1. ASSUME NEW c \in Commands, with_key_set(c) \/ DiscoverLoads(c) \/ migrate_legacy_auth(c)
      PROVE  PrivateInv'
  <2>1. PICK v \in Verbs, cfg \in Configs, to \in {"asking", "ready"} : Begins(c, v, cfg, to)
    BY <1>1, Beginning
  <2> QED
    BY <2>1 DEF Begins, file
<1>2. ASSUME NEW c \in Commands, TakesPin(c) \/ GivesUp(c) \/ Creates(c) \/ Secures(c)
      PROVE  PrivateInv'
  BY <1>2 DEF TakesPin, GivesUp, Creates, Secures, file
<1>3. ASSUME NEW c \in Commands, Writes(c) \/ Dies(c)
      PROVE  PrivateInv'
  BY <1>3 DEF Writes, Dies
<1>4. CASE UserSecures
  BY <1>4 DEF UserSecures, commands
<1>5. CASE UNCHANGED vars
  BY <1>5 DEF vars, file, commands
<1> QED
  BY <1>1, <1>2, <1>3, <1>4, <1>5 DEF Next, Command

LEMMA PrivateText == PrivateInv /\ [Next]_vars => text' = text \/ text' = Empty \/ mode' = "private"
<1> SUFFICES ASSUME PrivateInv, [Next]_vars
             PROVE  text' = text \/ text' = Empty \/ mode' = "private"
  OBVIOUS
<1>1. ASSUME NEW c \in Commands, with_key_set(c) \/ DiscoverLoads(c) \/ migrate_legacy_auth(c)
      PROVE  text' = text
  <2>1. PICK v \in Verbs, cfg \in Configs, to \in {"asking", "ready"} : Begins(c, v, cfg, to)
    BY <1>1, Beginning
  <2> QED
    BY <2>1 DEF Begins, file
<1>2. ASSUME NEW c \in Commands, TakesPin(c) \/ GivesUp(c) \/ Creates(c) \/ Secures(c)
      PROVE  text' = text \/ text' = Empty
  BY <1>2 DEF TakesPin, GivesUp, Creates, Secures, file
<1>3. ASSUME NEW c \in Commands, Writes(c) \/ Dies(c)
      PROVE  text' = text \/ mode' = "private"
  BY <1>3 DEF Writes, Dies, PrivateInv
<1>4. CASE UserSecures \/ UNCHANGED vars
  BY <1>4 DEF UserSecures, vars, file
<1> QED
  BY <1>1, <1>2, <1>3, <1>4 DEF Next, Command

(* No command puts a text into a file that others can read, whatever the   *)
(* file was before it.                                                     *)
THEOREM SecretAlwaysPrivate == Spec => SecretPrivate
<1>1. Init => TypeOK /\ PrivateInv
  BY TypeInit DEF Init, PrivateInv
<1>2. TypeOK /\ PrivateInv /\ [Next]_vars => (TypeOK /\ PrivateInv)'
  BY TypeStep, PrivateStep
<1>3. TypeOK /\ PrivateInv /\ [Next]_vars => [text' # text => text' = Empty \/ mode' = "private"]_vars
  BY PrivateText
<1> QED
  BY <1>1, <1>2, <1>3, PTL DEF Spec, SecretPrivate

-----------------------------------------------------------------------------
(* Saves that never met: at most one is under way, and it finds the file   *)
(* as it truncated it.                                                     *)
AloneInv ==
  ~overlap => \A c \in Commands :
    Saving(c) => text = Empty /\ \A d \in Commands \ {c} : ~Saving(d)

CauseInv == AloneInv /\ UnreadableHasCause

LEMMA CauseStep == TypeOK /\ CauseInv /\ [Next]_vars => CauseInv'
<1> SUFFICES ASSUME TypeOK, CauseInv, [Next]_vars
             PROVE  CauseInv'
  OBVIOUS
<1> USE DEF TypeOK, CauseInv, AloneInv, UnreadableHasCause, Saving
<1>1. ASSUME NEW c \in Commands, with_key_set(c) \/ DiscoverLoads(c) \/ migrate_legacy_auth(c)
      PROVE  CauseInv'
  <2>1. PICK v \in Verbs, cfg \in Configs, to \in {"asking", "ready"} : Begins(c, v, cfg, to)
    BY <1>1, Beginning
  <2>2. \A d \in Commands : Saving(d)' = Saving(d)
    BY <2>1 DEF Begins
  <2>3. UNCHANGED <<text, torn, overlap>>
    BY <2>1 DEF Begins, file
  <2> QED
    BY <2>2, <2>3
<1>2. ASSUME NEW c \in Commands, TakesPin(c) \/ GivesUp(c) \/ Secures(c)
      PROVE  CauseInv'
  <2>1. \A d \in Commands : Saving(d)' = Saving(d)
    BY <1>2 DEF TakesPin, GivesUp, Secures
  <2>2. UNCHANGED <<text, torn, overlap>>
    BY <1>2 DEF TakesPin, GivesUp, Secures, file
  <2> QED
    BY <2>1, <2>2
<1>3. ASSUME NEW c \in Commands, Creates(c)
      PROVE  CauseInv'
  BY <1>3 DEF Creates
<1>4. ASSUME NEW c \in Commands, Writes(c)
      PROVE  CauseInv'
  <2>1. pc' = [pc EXCEPT ![c] = "idle"] /\ pc[c] = "secured" /\ overlap' = overlap
    BY <1>4 DEF Writes
  <2>2. CASE text' = new[c] /\ torn' = FALSE
    <3>1. text' \in Configs
      BY <2>2
    <3>2. text' \notin {Empty, Mixed}
      BY <3>1, ConfigAssumption
    <3> QED
      BY <2>1, <3>2
  <2>3. CASE text # Empty /\ text' = Mixed
    BY <2>1, <2>3
  <2> QED
    BY <1>4, <2>2, <2>3 DEF Writes
<1>5. ASSUME NEW c \in Commands, Dies(c)
      PROVE  CauseInv'
  BY <1>5 DEF Dies
<1>6. CASE UserSecures
  BY <1>6 DEF UserSecures, commands
<1>7. CASE UNCHANGED vars
  BY <1>7 DEF vars, file, commands
<1> QED
  BY <1>1, <1>2, <1>3, <1>4, <1>5, <1>6, <1>7 DEF Next, Command

(* Only a save that is under way, cut short or met by another leaves a     *)
(* file that cannot be loaded.                                             *)
THEOREM UnreadableAlwaysCaused == Spec => []UnreadableHasCause
<1>1. Init => TypeOK /\ CauseInv
  BY TypeInit, ConfigAssumption DEF Init, CauseInv, AloneInv, UnreadableHasCause, Saving
<1>2. TypeOK /\ CauseInv /\ [Next]_vars => (TypeOK /\ CauseInv)'
  BY TypeStep, CauseStep
<1>3. CauseInv => UnreadableHasCause
  BY DEF CauseInv
<1> QED
  BY <1>1, <1>2, <1>3, PTL DEF Spec

-----------------------------------------------------------------------------
(* While openconnect asks the gateway, the copy of a fresh discover-cert   *)
(* is the file.                                                            *)
AskingInv ==
  \A c \in Commands :
    pc[c] = "asking" => /\ verb[c] \in {"discover", "force"}
                        /\ ~stale[c] => new[c] = text

FreshInv == AskingInv /\ FreshKeepsRest /\ PinConfirmed

LEMMA FreshStep == TypeOK /\ FreshInv /\ [Next]_vars => FreshInv'
<1> SUFFICES ASSUME TypeOK, FreshInv, [Next]_vars
             PROVE  FreshInv'
  OBVIOUS
<1> USE DEF TypeOK, FreshInv, AskingInv, FreshKeepsRest, PinConfirmed
<1>1. ASSUME NEW c \in Commands, with_key_set(c) \/ DiscoverLoads(c) \/ migrate_legacy_auth(c)
      PROVE  FreshInv'
  <2>1. PICK v \in Verbs, cfg \in Configs, to \in {"asking", "ready"} :
           /\ Begins(c, v, cfg, to)
           /\ to = "asking" => v \in {"discover", "force"} /\ cfg = text
           /\ to = "ready" => v \in Keys \cup {"migrate"}
           /\ v \in Keys => /\ text \in Configs
                            /\ v # "url" => cfg.url = text.url
                            /\ v # "pin" => cfg.pin = text.pin
                            /\ v # "rest" => cfg.rest = text.rest
    BY <1>1, Beginning
  <2>2. /\ UNCHANGED text
        /\ pc'[c] = to /\ verb'[c] = v /\ new'[c] = cfg
        /\ \A d \in Commands \ {c} : /\ pc'[d] = pc[d] /\ verb'[d] = verb[d]
                                     /\ new'[d] = new[d] /\ stale'[d] = stale[d]
    BY <2>1 DEF Begins, file
  <2>3. AskingInv'
    BY <2>1, <2>2
  <2>4. FreshKeepsRest'
    BY <2>1, <2>2 DEF Keys
  <2>5. PinConfirmed'
    BY <2>1, <2>2 DEF Keys
  <2> QED
    BY <2>3, <2>4, <2>5
<1>2. ASSUME NEW c \in Commands, TakesPin(c)
      PROVE  FreshInv'
  <2>1. PICK p \in Pins :
           /\ new[c].pin \in {NoPin, p} \/ verb[c] = "force"
           /\ new'[c] \in Configs
           /\ new'[c].pin = p
           /\ new'[c].url = new[c].url /\ new'[c].rest = new[c].rest
           /\ \A d \in Commands \ {c} : new'[d] = new[d]
    BY <1>2, Taking
  <2>2. /\ pc[c] = "asking" /\ pc'[c] = "ready"
        /\ \A d \in Commands \ {c} : pc'[d] = pc[d]
        /\ UNCHANGED <<text, verb, stale>>
    BY <1>2 DEF TakesPin, file
  <2>3. verb[c] \in {"discover", "force"} /\ (~stale[c] => text = new[c])
    BY <2>2
  <2>4. ~stale[c] => text \in Configs
    BY <2>3
  <2>5. AskingInv'
    BY <2>1, <2>2
  <2>6. FreshKeepsRest'
    BY <2>1, <2>2, <2>3, <2>4
  <2>7. PinConfirmed'
    BY <2>1, <2>2, <2>3, <2>4
  <2> QED
    BY <2>5, <2>6, <2>7
<1>3. ASSUME NEW c \in Commands, GivesUp(c) \/ Secures(c)
      PROVE  FreshInv'
  BY <1>3 DEF GivesUp, Secures, file
<1>4. ASSUME NEW c \in Commands, Creates(c) \/ Writes(c) \/ Dies(c)
      PROVE  FreshInv'
  <2>1. /\ pc'[c] \notin {"asking", "ready"}
        /\ \A d \in Commands \ {c} : stale'[d] /\ pc'[d] = pc[d]
        /\ verb' = verb
    BY <1>4 DEF Creates, Writes, Dies, OutdatesOthers
  <2> QED
    BY <2>1
<1>5. CASE UserSecures
  BY <1>5 DEF UserSecures, commands
<1>6. CASE UNCHANGED vars
  BY <1>6 DEF vars, file, commands
<1> QED
  BY <1>1, <1>2, <1>3, <1>4, <1>5, <1>6 DEF Next, Command

LEMMA FreshAlways == Spec => []FreshInv
<1>1. Init => TypeOK /\ FreshInv
  BY TypeInit DEF Init, FreshInv, AskingInv, FreshKeepsRest, PinConfirmed
<1>2. TypeOK /\ FreshInv /\ [Next]_vars => (TypeOK /\ FreshInv)'
  BY TypeStep, FreshStep
<1> QED
  BY <1>1, <1>2, PTL DEF Spec

(* A command loses no setting but one that was changed after it loaded.    *)
THEOREM FreshAlwaysKeepsRest == Spec => []FreshKeepsRest
<1>1. FreshInv => FreshKeepsRest
  BY DEF FreshInv
<1> QED
  BY <1>1, FreshAlways, PTL

(* A pin that was there when discover-cert loaded its copy, and that no    *)
(* other command has touched since, is replaced with --force only.  (One   *)
(* saved while openconnect asks the gateway is not protected.)             *)
THEOREM PinAlwaysConfirmed == Spec => []PinConfirmed
<1>1. FreshInv => PinConfirmed
  BY DEF FreshInv
<1> QED
  BY <1>1, FreshAlways, PTL

-----------------------------------------------------------------------------
(* Every copy but that of a `config set gateway.url' names a gateway, from *)
(* when it is taken until it is written.                                   *)
CopyInv ==
  \A c \in Commands : pc[c] # "idle" /\ verb[c] # "url" => new[c].url # NoUrl

LEMMA CopyStep == TypeOK /\ CopyInv /\ [Next]_vars => CopyInv'
<1> SUFFICES ASSUME TypeOK, CopyInv, [Next]_vars
             PROVE  CopyInv'
  OBVIOUS
<1> USE DEF CopyInv
<1>1. ASSUME NEW c \in Commands, with_key_set(c) \/ DiscoverLoads(c) \/ migrate_legacy_auth(c)
      PROVE  CopyInv'
  <2>1. PICK v \in Verbs, cfg \in Configs, to \in {"asking", "ready"} :
           Begins(c, v, cfg, to) /\ (v # "url" => cfg.url # NoUrl)
    BY <1>1, Beginning
  <2>2. /\ verb'[c] = v /\ new'[c] = cfg
        /\ \A d \in Commands \ {c} : /\ pc'[d] = pc[d] /\ verb'[d] = verb[d]
                                     /\ new'[d] = new[d]
    BY <2>1 DEF Begins, TypeOK
  <2> QED
    BY <2>1, <2>2
<1>2. ASSUME NEW c \in Commands, TakesPin(c)
      PROVE  CopyInv'
  <2>1. /\ pc[c] = "asking" /\ UNCHANGED verb
        /\ \A d \in Commands \ {c} : pc'[d] = pc[d]
    BY <1>2 DEF TakesPin, TypeOK
  <2>2. new'[c].url = new[c].url /\ \A d \in Commands \ {c} : new'[d] = new[d]
    BY <1>2, Taking
  <2> QED
    BY <2>1, <2>2
<1>3. ASSUME NEW c \in Commands, GivesUp(c) \/ Creates(c) \/ Secures(c) \/ Writes(c) \/ Dies(c)
      PROVE  CopyInv'
  <2>1. UNCHANGED <<verb, new>> /\ \A d \in Commands : pc[d] = "idle" => pc'[d] = "idle"
    BY <1>3 DEF GivesUp, Creates, Secures, Writes, Dies, Saving, TypeOK
  <2> QED
    BY <2>1
<1>4. CASE UserSecures \/ UNCHANGED vars
  BY <1>4 DEF UserSecures, vars, commands
<1> QED
  BY <1>1, <1>2, <1>3, <1>4 DEF Next, Command

(* Only a save's last step puts a configuration into the file: its copy.   *)
LEMMA WrittenText ==
  ASSUME TypeOK, [Next]_vars, text' # text, text' \in Configs
  PROVE  \E c \in Commands : pc[c] = "secured" /\ text' = new[c]
<1>1. text' \notin {Empty, Mixed}
  BY ConfigAssumption
<1>2. ASSUME NEW c \in Commands, with_key_set(c) \/ DiscoverLoads(c) \/ migrate_legacy_auth(c)
      PROVE  FALSE
  <2>1. PICK v \in Verbs, cfg \in Configs, to \in {"asking", "ready"} : Begins(c, v, cfg, to)
    BY <1>2, Beginning
  <2> QED
    BY <2>1 DEF Begins, file
<1>3. ASSUME NEW c \in Commands, TakesPin(c) \/ GivesUp(c) \/ Creates(c) \/ Secures(c) \/ Dies(c)
      PROVE  FALSE
  BY <1>1, <1>3 DEF TakesPin, GivesUp, Creates, Secures, Dies, file
<1>4. ASSUME NEW c \in Commands, Writes(c)
      PROVE  pc[c] = "secured" /\ text' = new[c]
  BY <1>1, <1>4 DEF Writes
<1>5. CASE UserSecures \/ UNCHANGED vars
  BY <1>5 DEF UserSecures, vars, file
<1> QED
  BY <1>2, <1>3, <1>4, <1>5 DEF Next, Command

(* No save but that of a `config set gateway.url' leaves a file that load  *)
(* refuses for its gateway.                                                *)
THEOREM GatewayAlwaysKept == Spec => GatewayKept
<1> DEFINE Kept == text' # text /\ text' \in Configs /\ text'.url = NoUrl
                     => \E c \in Commands : pc[c] = "secured" /\ verb[c] = "url"
<1>1. Init => TypeOK /\ CopyInv
  BY TypeInit DEF Init, CopyInv
<1>2. TypeOK /\ CopyInv /\ [Next]_vars => (TypeOK /\ CopyInv)'
  BY TypeStep, CopyStep
<1>3. TypeOK /\ CopyInv /\ [Next]_vars => [Kept]_vars
  BY WrittenText DEF CopyInv
<1> QED
  BY <1>1, <1>2, <1>3, PTL DEF Spec, GatewayKept
=============================================================================
