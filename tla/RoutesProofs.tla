---------------------------- MODULE RoutesProofs -----------------------------
(***************************************************************************)
(* For any number of paths, gateways, split routes and preserved networks: *)
(* nothing is led into the tunnel before what must stay outside is routed  *)
(* around it, and a disconnect undoes the path it works with, which, as    *)
(* long as the network does not change, is everything but what sessions    *)
(* that it does not know of have named.                                    *)
(***************************************************************************)
EXTENDS Routes, TLAPS

(* What can ever be routed by a path, whatever the session.                *)
Routable(p) ==
  Gateways \cup {<<p, "host">>} \cup (IF os = "linux" THEN {<<p, "net">>} ELSE {}) \cup Preserved

(* What a disconnect works through.                                        *)
Undoes(p) == IF os = "linux" THEN LinuxUndoes(p) ELSE MacUndoes(p)

(* Commands are of the destinations.                                       *)
Commands == Destinations \X (Paths \cup {NoPath, Tun})

LEMMA ShieldRoutable ==
  ASSUME TypeOK, NEW p \in Paths \cup {NoPath}, NEW d \in Shield(p)
  PROVE  p \in Paths \ NoVia /\ d \in Routable(p) /\ d \in Destinations
<1>1. p \in Paths \ NoVia
  BY DEF Shield
<1>2. <<p, "host">> \in Host /\ <<p, "net">> \in Net
  BY <1>1 DEF Host, Net
<1> QED
  BY <1>1, <1>2, RoutesAssumption
  DEF TypeOK, Shield, LinuxShield, MacShield, Named, Routable, Destinations

LEMMA AroundCommands ==
  ASSUME TypeOK, NEW p \in Paths \cup {NoPath}
  PROVE  Around(p) \subseteq Commands /\ Into \subseteq Commands
BY ShieldRoutable DEF Around, Into, Commands, Destinations

LEMMA UndoesCommands ==
  ASSUME NEW p \in Paths \cup {NoPath}, TypeOK
  PROVE  /\ Undoes(p) \subseteq Commands
         /\ Into \subseteq Undoes(p)
         /\ p \in Paths \ NoVia => (Routable(p) \ Kept(p)) \X {p} \subseteq Undoes(p)
<1>1. CASE os = "linux"
  <2>1. Undoes(p) = Around(p) \cup Into
    BY <1>1 DEF Undoes, LinuxUndoes
  <2>2. ASSUME p \in Paths \ NoVia
        PROVE  Routable(p) \ Kept(p) \subseteq Shield(p)
    BY <1>1, <2>2, RoutesAssumption DEF Shield, LinuxShield, Routable, Kept
  <2> QED
    BY <2>1, <2>2, AroundCommands DEF Around
<1>2. CASE os = "macos"
  <2>1. Undoes(p) = MacUndoes(p)
    BY <1>2 DEF Undoes
  <2>2. MacUndoes(p) \subseteq Commands
    <3>1. p # NoPath => <<p, "host">> \in Host
      BY DEF Host
    <3>2. {gw} \cup (IF p = NoPath THEN {} ELSE {<<p, "host">>}) \subseteq Destinations
      BY <3>1 DEF TypeOK, Destinations
    <3> QED
      BY <3>2, AroundCommands DEF MacUndoes, Commands
  <2>3. ASSUME p \in Paths \ NoVia
        PROVE  Routable(p) \ Kept(p) \subseteq {gw, <<p, "host">>}
    BY <1>2 DEF Routable, Kept
  <2> QED
    BY <2>1, <2>2, <2>3, RoutesAssumption DEF MacUndoes
<1> QED
  BY <1>1, <1>2, RoutesAssumption DEF TypeOK

(* The state is well-formed.                                               *)
THEOREM TypeCorrect == Spec => []TypeOK
<1> USE RoutesAssumption
<1>1. Init => TypeOK
  BY DEF Init, TypeOK
<1>2. TypeOK /\ [Next]_vars => TypeOK'
  <2> SUFFICES ASSUME TypeOK, [Next]_vars
               PROVE  TypeOK'
    OBVIOUS
  <2> USE DEF TypeOK, NetworkStays, SettingsStay, settings
  <2>1. CASE Connect
    <3>1. todo' \subseteq Commands
      BY <2>1, AroundCommands DEF Connect, discover
    <3> QED
      BY <2>1, <3>1 DEF Connect, discover, save_state, Commands
  <2>2. CASE PreInit
    <3>1. table' \in [Destinations -> Paths \cup {Tun, None}]
      BY <2>2 DEF PreInit
    <3>2. gw' \in Gateways /\ asked' \subseteq Preserved /\ env' \subseteq Preserved
      BY <2>2 DEF PreInit, Listed
    <3>3. edits' \in 0..MaxEdits
      BY <2>2 DEF PreInit
    <3> QED
      BY <2>2, <3>1, <3>2, <3>3 DEF PreInit
  <2>3. CASE Disconnect
    <3>1. Loaded \in Paths \cup {NoPath}
      BY DEF Loaded, discover
    <3>2. todo' \subseteq Commands
      BY <2>3, <3>1, UndoesCommands DEF Disconnect, Undoes
    <3> QED
      BY <2>3, <3>1, <3>2 DEF Disconnect, Commands
  <2>4. CASE DisconnectReturns
    <3>1. left' \subseteq Gateways \cup Preserved
      BY <2>4 DEF DisconnectReturns, Kept
    <3> QED
      BY <2>4, <3>1 DEF DisconnectReturns, Flushed
  <2>5. ASSUME NEW c \in todo, Replaces(c) \/ Adds(c)
        PROVE  TypeOK'
    <3>1. c[2] \in Paths \cup {Tun}
      BY <2>5 DEF Replaces, Adds, Lays
    <3> QED
      BY <2>5, <3>1 DEF Replaces, Adds, Lays
  <2>6. ASSUME NEW c \in todo, LinuxDeletes(c) \/ MacDeletes(c)
        PROVE  TypeOK'
    BY <2>6 DEF LinuxDeletes, MacDeletes, Deletes
  <2>7. CASE Crash \/ DisconnectRefused
    <3>1. left' \subseteq Gateways \cup Preserved
      BY <2>7 DEF Crash, DisconnectRefused, Named
    <3> QED
      BY <2>7, <3>1 DEF Crash, DisconnectRefused, Flushed
  <2>8. CASE NetworkMoves
    <3>1. table' \in [Destinations -> Paths \cup {Tun, None}]
      BY <2>8 DEF NetworkMoves, Flushed
    <3>2. links' \subseteq Paths /\ default' \in links' \cup {NoPath} /\ moves' \in 0..MaxMoves
      BY <2>8 DEF NetworkMoves
    <3> QED
      BY <2>8, <3>1, <3>2 DEF NetworkMoves
  <2>9. CASE UNCHANGED vars
    BY <2>9 DEF vars
  <2>10. CASE ConnectReturns \/ ConnectRefused
    BY <2>10 DEF ConnectReturns, ConnectRefused
  <2> QED
    BY <2>1, <2>2, <2>3, <2>4, <2>5, <2>6, <2>7, <2>8, <2>9, <2>10 DEF Next
<1> QED
  BY <1>1, <1>2, PTL DEF Spec

-----------------------------------------------------------------------------
(* Only split routes lead into the tunnel, only while there is one; only   *)
(* what may be routed around it is, and by a path that can.                *)
TableInv ==
  /\ call = "connect" => todo \subseteq Around(phys) \cup Into
  /\ \A d \in Destinations :
       /\ table[d] = Tun => d \in Split /\ tunnel \in {"up", "refused"}
       /\ table[d] \in Paths => table[d] \notin NoVia /\ d \in Routable(table[d])

(* One command of connect.                                                 *)
Laid(c) ==
  /\ c \in Commands /\ c[2] \in links \cup {Tun}
  /\ \A e \in Destinations : e # c[1] => table'[e] = table[e]
  /\ table'[c[1]] \in {c[2], table[c[1]]}
  /\ os = "linux" \/ table[c[1]] = None => table'[c[1]] = c[2]
  /\ call = "connect" /\ Turn(c) /\ todo' = todo \ {c}
  /\ UNCHANGED <<os, links, default, moves, record, tunnel, call, phys, settings, left>>

LEMMA LaysOne ==
  ASSUME TypeOK, NEW c \in todo, Replaces(c) \/ Adds(c)
  PROVE  Laid(c)
<1>1. c \in Commands /\ c[1] \in Destinations
  BY DEF TypeOK, Commands
<1> QED
  BY <1>1 DEF TypeOK, NetworkStays, SettingsStay, Lays, Replaces, Adds, Laid

(* One command of disconnect.                                              *)
Deleted(c) ==
  /\ c \in Commands
  /\ \A e \in Destinations : e # c[1] => table'[e] = table[e]
  /\ table'[c[1]] \in {None, table[c[1]]} /\ table'[c[1]] # c[2]
  /\ call = "disconnect" /\ todo' = todo \ {c}
  /\ UNCHANGED <<os, links, default, moves, record, tunnel, call, phys, settings, left>>

LEMMA DeletesOne ==
  ASSUME TypeOK, NEW c \in todo, LinuxDeletes(c) \/ MacDeletes(c)
  PROVE  Deleted(c)
<1>1. c \in Commands /\ c[1] \in Destinations /\ c[2] # None
  BY RoutesAssumption DEF TypeOK, Commands
<1> QED
  BY <1>1 DEF TypeOK, NetworkStays, SettingsStay, Deletes, LinuxDeletes, MacDeletes, Deleted

(* A path's shield does not change within a session.                       *)
LEMMA ShieldStays ==
  ASSUME UNCHANGED <<os, settings>>
  PROVE  \A p : /\ Shield(p)' = Shield(p) /\ Around(p)' = Around(p)
                /\ Routable(p)' = Routable(p)
BY DEF Around, Shield, LinuxShield, MacShield, Named, Routable, settings

LEMMA TableStep == TypeOK /\ TableInv /\ [Next]_vars => TableInv'
<1> SUFFICES ASSUME TypeOK, TableInv, [Next]_vars
             PROVE  TableInv'
  OBVIOUS
<1> USE RoutesAssumption DEF TypeOK, TableInv, NetworkStays, SettingsStay, Into
<1>1. CASE Connect \/ ConnectRefused
  BY <1>1, ShieldStays DEF Connect, ConnectRefused
<1>2. CASE PreInit
  <2>1. \A p : Routable(p)' = Routable(p)
    BY <1>2 DEF PreInit, Routable
  <2>2. call = "none" /\ call' = "none"
    BY <1>2 DEF PreInit
  <2> QED
    BY <1>2, <2>1, <2>2 DEF PreInit
<1>3. CASE ConnectReturns \/ Disconnect
  BY <1>3, ShieldStays DEF ConnectReturns, Disconnect
<1>4. CASE DisconnectReturns \/ DisconnectRefused \/ Crash
  BY <1>4, ShieldStays DEF DisconnectReturns, DisconnectRefused, Crash, Flushed
<1>5. ASSUME NEW c \in todo, Laid(c)
      PROVE  TableInv'
  <2>1. \A p : Around(p)' = Around(p) /\ Routable(p)' = Routable(p)
    BY <1>5, ShieldStays DEF Laid
  <2>2. IF c[2] = Tun THEN c[1] \in Split
        ELSE c[2] = phys /\ phys \in Paths \ NoVia /\ c[1] \in Routable(phys)
    <3>1. c \in Around(phys) \cup Into
      BY <1>5 DEF Laid
    <3>2. CASE c \in Into
      BY <3>2
    <3>3. CASE c \in Around(phys)
      BY <3>3, ShieldRoutable DEF Around
    <3> QED
      BY <3>1, <3>2, <3>3
  <2>3. tunnel = "up" /\ c[1] \in Destinations
    BY <1>5 DEF Laid, Commands
  <2>4. todo' \subseteq Around(phys)' \cup Into
    BY <1>5, <2>1 DEF Laid
  <2>5. ASSUME NEW d \in Destinations
        PROVE  /\ table'[d] = Tun => d \in Split /\ tunnel' \in {"up", "refused"}
               /\ (table[d] \in Paths => table[d] \notin NoVia /\ d \in Routable(table[d]))'
    <3>1. CASE table'[d] = table[d]
      BY <1>5, <2>1, <3>1 DEF Laid
    <3>2. CASE d = c[1] /\ table'[d] = c[2]
      BY <1>5, <2>1, <2>2, <2>3, <3>2 DEF Laid
    <3> QED
      BY <1>5, <2>5, <3>1, <3>2 DEF Laid
  <2> QED
    BY <2>4, <2>5
<1>6. ASSUME NEW c \in todo, Deleted(c)
      PROVE  TableInv'
  <2>1. c[1] \in Destinations
    BY <1>6 DEF Deleted, Commands
  <2> QED
    BY <1>6, <2>1, ShieldStays DEF Deleted
<1>7. CASE NetworkMoves
  BY <1>7, ShieldStays DEF NetworkMoves, Flushed
<1>8. CASE UNCHANGED vars
  BY <1>8, ShieldStays DEF vars
<1> QED
  BY <1>1, <1>2, <1>3, <1>4, <1>5, <1>6, <1>7, <1>8, LaysOne, DeletesOne DEF Next

-----------------------------------------------------------------------------
(* While the network does not change every call works with the one path.   *)
SamePath ==
  moves = 0 =>
    /\ record \in {default, NoPath}
    /\ call # "none" \/ tunnel = "over" => phys = default
    /\ \A d \in Destinations : table[d] \in {default, Tun, None}

LEMMA SamePathStep == TypeOK /\ TableInv /\ SamePath /\ [Next]_vars => SamePath'
<1> SUFFICES ASSUME TypeOK, TableInv, SamePath, [Next]_vars
             PROVE  SamePath'
  OBVIOUS
<1> USE DEF TypeOK, SamePath, NetworkStays, SettingsStay
<1>1. CASE PreInit \/ Connect \/ ConnectRefused
  BY <1>1 DEF PreInit, Connect, ConnectRefused, discover, save_state
<1>2. CASE ConnectReturns \/ Disconnect
  BY <1>2 DEF ConnectReturns, Disconnect, Loaded, discover
<1>3. CASE DisconnectReturns \/ DisconnectRefused \/ Crash
  BY <1>3 DEF DisconnectReturns, DisconnectRefused, Crash, Flushed
<1>4. ASSUME NEW c \in todo, Laid(c)
      PROVE  SamePath'
  <2>1. c[1] \in Destinations /\ c[2] \in {phys, Tun}
    BY <1>4 DEF Laid, Commands, TableInv, Around, Into
  <2> QED
    BY <1>4, <2>1 DEF Laid
<1>5. ASSUME NEW c \in todo, Deleted(c)
      PROVE  SamePath'
  <2>1. c[1] \in Destinations
    BY <1>5 DEF Deleted, Commands
  <2> QED
    BY <1>5, <2>1 DEF Deleted
<1>6. CASE NetworkMoves
  <2>1. moves' # 0
    BY <1>6, RoutesAssumption DEF NetworkMoves
  <2> QED
    BY <2>1
<1>7. CASE UNCHANGED vars
  BY <1>7 DEF vars
<1> QED
  BY <1>1, <1>2, <1>3, <1>4, <1>5, <1>6, <1>7, LaysOne, DeletesOne DEF Next

-----------------------------------------------------------------------------
(* What a connect has come to is routed around the tunnel, unless the      *)
(* interface has gone down since (or, on macOS, the network has changed).  *)
ShieldInv ==
  (os = "linux" \/ moves = 0) /\ call = "connect" /\ phys \in links
  => \A d \in Shield(phys) \ Split : <<d, phys>> \notin todo => table[d] = phys

(* No split route is laid before its turn.                                 *)
LEMMA SplitLast ==
  ASSUME call = "connect", NEW c, c[2] = Tun, Turn(c)
  PROVE  \A e \in todo : e[2] = Tun
<1>1. Rank(c) = 5
  BY DEF Rank
<1>2. \A e \in todo : e[2] # Tun => Rank(e) \in 1..4
  BY DEF Rank
<1> QED
  BY <1>1, <1>2 DEF Turn

LEMMA ShieldStep ==
  TypeOK /\ TableInv /\ SamePath /\ ShieldInv /\ [Next]_vars => ShieldInv'
<1> SUFFICES ASSUME TypeOK, TableInv, SamePath, ShieldInv, [Next]_vars
             PROVE  ShieldInv'
  OBVIOUS
<1> USE DEF TypeOK, ShieldInv, NetworkStays, SettingsStay
<1>1. CASE Connect
  BY <1>1, ShieldStays DEF Connect, Around
<1>2. CASE PreInit \/ ConnectRefused \/ ConnectReturns
  BY <1>2 DEF PreInit, ConnectRefused, ConnectReturns
<1>3. CASE Disconnect \/ DisconnectReturns \/ DisconnectRefused \/ Crash
  BY <1>3 DEF Disconnect, DisconnectReturns, DisconnectRefused, Crash
<1>4. ASSUME NEW c \in todo, Laid(c)
      PROVE  ShieldInv'
  <2> SUFFICES ASSUME os = "linux" \/ moves = 0, call = "connect", phys \in links,
                      NEW e \in Shield(phys) \ Split, <<e, phys>> \notin todo'
               PROVE  table'[e] = phys
    BY <1>4, ShieldStays DEF Laid
  <2>1. e \in Destinations /\ phys # Tun
    BY ShieldRoutable, RoutesAssumption
  <2>2. c \in Around(phys) \cup Into
    BY <1>4 DEF Laid, TableInv
  <2>3. CASE e # c[1]
    <3>1. <<e, phys>> \notin todo
      BY <1>4, <2>3 DEF Laid
    <3> QED
      BY <1>4, <2>1, <2>3, <3>1 DEF Laid
  <2>4. CASE e = c[1]
    <3>1. c[2] = phys
      BY <2>2, <2>4 DEF Around, Into
    <3>2. CASE os = "linux" \/ table[e] = None
      BY <1>4, <2>4, <3>1, <3>2 DEF Laid
    <3>3. CASE os # "linux" /\ table[e] # None
      <4>1. table[e] = phys
        BY <2>1, <3>3 DEF SamePath, TableInv
      <4> QED
        BY <1>4, <2>4, <3>1, <4>1 DEF Laid
    <3> QED
      BY <3>2, <3>3
  <2> QED
    BY <2>3, <2>4
<1>5. ASSUME NEW c \in todo, Deleted(c)
      PROVE  ShieldInv'
  BY <1>5 DEF Deleted
<1>6. CASE NetworkMoves
  <2> SUFFICES ASSUME os = "linux", call = "connect", phys \in links',
                      NEW d \in Shield(phys) \ Split, <<d, phys>> \notin todo
               PROVE  table'[d] = phys
    <3>1. moves' # 0
      BY <1>6, RoutesAssumption DEF NetworkMoves
    <3> QED
      BY <1>6, <3>1, ShieldStays DEF NetworkMoves
  <2>1. phys \in links /\ phys \in Paths
    BY <1>6 DEF NetworkMoves
  <2>2. table[d] = phys /\ d \in Destinations
    BY <2>1, ShieldRoutable
  <2> QED
    BY <1>6, <2>2 DEF NetworkMoves, Flushed
<1>7. CASE UNCHANGED vars
  BY <1>7, ShieldStays DEF vars
<1> QED
  BY <1>1, <1>2, <1>3, <1>4, <1>5, <1>6, <1>7, LaysOne, DeletesOne DEF Next

(* What must stay outside the tunnel is routed around it first.            *)
THEOREM ShieldAlwaysFirst == Spec => ShieldFirst
<1>1. Init => TableInv /\ SamePath /\ ShieldInv
  BY RoutesAssumption DEF Init, TableInv, SamePath, ShieldInv
<1>2. TypeOK /\ TableInv /\ ShieldInv /\ [Next]_vars
      => [\A s \in Split :
            /\ os = "linux" \/ moves = 0
            /\ table[s] # Tun /\ table'[s] = Tun /\ phys \in links
            => \A d \in Shield(phys) \ Split : table[d] = phys]_vars
  <2> SUFFICES ASSUME TypeOK, TableInv, ShieldInv, Next, os = "linux" \/ moves = 0,
                      NEW s \in Split, table[s] # Tun, table'[s] = Tun, phys \in links
               PROVE  \A d \in Shield(phys) \ Split : table[d] = phys
    OBVIOUS
  <2> USE DEF TypeOK, NetworkStays, SettingsStay
  <2>1. s \in Destinations
    BY DEF Destinations
  <2>2. ASSUME NEW c \in todo, Laid(c)
        PROVE  call = "connect" /\ \A e \in todo : e[2] = Tun
    <3>1. c[2] = Tun
      BY <2>1, <2>2 DEF Laid
    <3> QED
      BY <2>2, <3>1, SplitLast DEF Laid
  <2>3. \E c \in todo : Laid(c)
    BY <2>1, RoutesAssumption, LaysOne, DeletesOne
    DEF Next, PreInit, Connect, ConnectRefused, ConnectReturns, Disconnect, DisconnectReturns,
        DisconnectRefused, Deleted, Crash, NetworkMoves, Flushed, vars
  <2>4. phys # Tun
    BY RoutesAssumption
  <2> QED
    BY <2>2, <2>3, <2>4 DEF ShieldInv
<1> QED
  BY <1>1, <1>2, TableStep, SamePathStep, ShieldStep, TypeCorrect, PTL DEF Spec, ShieldFirst

-----------------------------------------------------------------------------
(* A disconnect has still to come to whatever it must delete.              *)
UndoInv ==
  call = "disconnect" =>
    \A d \in Destinations :
      /\ table[d] = Tun => <<d, Tun>> \in todo
      /\ table[d] = phys => d \in Kept(phys) \/ <<d, phys>> \in todo

LEMMA KeptStays ==
  ASSUME UNCHANGED <<os, settings>>
  PROVE  \A p : Kept(p)' = Kept(p)
BY DEF Kept, LinuxShield, Named, settings

LEMMA UndoStep ==
  TypeOK /\ TableInv /\ UndoInv /\ UndonePath /\ [Next]_vars => UndoInv' /\ UndonePath'
<1> SUFFICES ASSUME TypeOK, TableInv, UndoInv, UndonePath, [Next]_vars
             PROVE  UndoInv' /\ UndonePath'
  OBVIOUS
<1> USE RoutesAssumption DEF TypeOK, UndoInv, UndonePath, NetworkStays, SettingsStay
<1>1. CASE PreInit \/ Connect \/ ConnectRefused \/ ConnectReturns
  BY <1>1 DEF PreInit, Connect, ConnectRefused, ConnectReturns
<1>2. CASE DisconnectRefused \/ Crash
  BY <1>2 DEF DisconnectRefused, Crash
<1>3. CASE Disconnect
  <2>1. Loaded \in Paths \cup {NoPath}
    BY DEF Loaded, discover
  <2>2. phys' = Loaded /\ todo' = Undoes(Loaded) /\ table' = table /\ tunnel' = "up"
    BY <1>3 DEF Disconnect, Undoes
  <2>3. \A d \in Destinations : table[d] = Tun => <<d, Tun>> \in todo'
    BY <2>1, <2>2, UndoesCommands DEF TableInv, Into
  <2>4. \A d \in Destinations : table[d] = Loaded => d \in Kept(Loaded) \/ <<d, Loaded>> \in todo'
    <3>1. \A d \in Destinations :
            table[d] = Loaded => Loaded \in Paths \ NoVia /\ d \in Routable(Loaded)
      BY <2>1 DEF TableInv
    <3> QED
      BY <2>1, <2>2, <3>1, UndoesCommands
  <2> QED
    BY <1>3, <2>2, <2>3, <2>4, KeptStays DEF Disconnect
<1>4. CASE DisconnectReturns
  BY <1>4, KeptStays DEF DisconnectReturns, Flushed
<1>5. ASSUME NEW c \in todo, Laid(c)
      PROVE  UndoInv' /\ UndonePath'
  BY <1>5 DEF Laid
<1>6. ASSUME NEW c \in todo, Deleted(c)
      PROVE  UndoInv' /\ UndonePath'
  <2>1. ASSUME NEW d \in Destinations, NEW w \in {Tun, phys},
               table'[d] = w, table[d] = w => <<d, w>> \in todo
        PROVE  <<d, w>> \in todo'
    <3>1. w # None
      BY <2>1
    <3>2. table[d] = w
      BY <1>6, <2>1, <3>1 DEF Deleted
    <3>3. <<d, w>> # c
      BY <1>6, <2>1 DEF Deleted
    <3> QED
      BY <1>6, <2>1, <3>2, <3>3 DEF Deleted
  <2>2. \A d \in Destinations : table'[d] = phys => table[d] = phys
    BY <1>6 DEF Deleted
  <2>3. tunnel' = "up" /\ phys' = phys /\ call = "disconnect" /\ Kept(phys)' = Kept(phys)
    BY <1>6, KeptStays DEF Deleted
  <2> QED
    BY <2>1, <2>2, <2>3
<1>7. CASE NetworkMoves
  BY <1>7, KeptStays DEF NetworkMoves, Flushed
<1>8. CASE UNCHANGED vars
  BY <1>8, KeptStays DEF vars
<1> QED
  BY <1>1, <1>2, <1>3, <1>4, <1>5, <1>6, <1>7, <1>8, LaysOne, DeletesOne DEF Next

(* What a disconnect leaves behind is not by the path it worked with, or   *)
(* it does not come to it.                                                 *)
THEOREM PathAlwaysUndone == Spec => []UndonePath
<1>1. Init => TableInv /\ UndoInv /\ UndonePath
  BY RoutesAssumption DEF Init, TableInv, UndoInv, UndonePath
<1>2. TypeOK /\ TableInv /\ UndoInv /\ UndonePath /\ [Next]_vars
      => TableInv' /\ UndoInv' /\ UndonePath'
  BY TableStep, UndoStep
<1> QED
  BY <1>1, <1>2, TypeCorrect, PTL DEF Spec

-----------------------------------------------------------------------------
(* Another session's gateway or network is routed only if that session     *)
(* ended without undoing it, or if it is also the interface's own.         *)
Near == {<<default, "host">>} \cup (IF os = "linux" THEN {<<default, "net">>} ELSE {})

LeftInv ==
  moves = 0 =>
    \A d \in Gateways \cup Preserved :
      table[d] \in Paths =>
        d \in left \cup Near \/ (tunnel \in {"up", "refused"} /\ d \in Named)

LEMMA LeftStep ==
  TypeOK /\ TableInv /\ SamePath /\ UndoInv /\ LeftInv /\ [Next]_vars => LeftInv'
<1> SUFFICES ASSUME TypeOK, TableInv, SamePath, UndoInv, LeftInv, [Next]_vars, moves' = 0,
                    NEW d \in Gateways \cup Preserved, table'[d] \in Paths
             PROVE  \/ d \in left' \cup Near'
                    \/ tunnel' \in {"up", "refused"} /\ d \in Named'
  BY DEF LeftInv
<1> USE RoutesAssumption DEF TypeOK, LeftInv, NetworkStays, SettingsStay
<1>1. d \in Destinations
  BY DEF Destinations
<1>2. /\ UNCHANGED settings => Named' = Named
      /\ os' = os /\ default' = default => Near' = Near
  BY DEF Named, settings, Near
<1>3. CASE PreInit
  BY <1>1, <1>2, <1>3 DEF PreInit
<1>4. CASE Connect \/ ConnectRefused \/ ConnectReturns \/ Disconnect
  BY <1>2, <1>4 DEF Connect, ConnectRefused, ConnectReturns, Disconnect
<1>5. CASE DisconnectReturns
  <2>1. table[d] = default /\ phys = default
    BY <1>1, <1>5 DEF DisconnectReturns, Flushed, SamePath
  <2>2. d \in Kept(phys)
    BY <1>1, <1>5, <2>1 DEF DisconnectReturns, UndoInv
  <2>3. d \in left \cup Named \cup Near
    BY <1>1, <1>5 DEF DisconnectReturns, Flushed
  <2>4. Kept(phys) \cap Near = {}
    BY <2>1 DEF Kept, LinuxShield, Near
  <2> QED
    BY <1>5, <2>2, <2>3, <2>4 DEF DisconnectReturns
<1>6. CASE DisconnectRefused \/ Crash
  BY <1>1, <1>2, <1>6 DEF DisconnectRefused, Crash, Flushed
<1>7. ASSUME NEW c \in todo, Laid(c)
      PROVE  \/ d \in left' \cup Near'
             \/ tunnel' \in {"up", "refused"} /\ d \in Named'
  <2>1. CASE table'[d] = table[d]
    BY <1>2, <1>7, <2>1 DEF Laid
  <2>2. CASE d = c[1] /\ table'[d] = c[2]
    <3>1. c \in Around(phys)
      BY <1>7, <2>2 DEF Laid, TableInv, Into
    <3>2. d \in Shield(phys) /\ phys = default
      BY <1>7, <2>2, <3>1 DEF Laid, Around, SamePath
    <3>3. d \in Named \cup Near
      BY <3>2 DEF Shield, LinuxShield, MacShield, Near
    <3> QED
      BY <1>2, <1>7, <3>3 DEF Laid
  <2> QED
    BY <1>1, <1>7, <2>1, <2>2 DEF Laid
<1>8. ASSUME NEW c \in todo, Deleted(c)
      PROVE  \/ d \in left' \cup Near'
             \/ tunnel' \in {"up", "refused"} /\ d \in Named'
  <2>1. table'[d] = table[d]
    BY <1>1, <1>8 DEF Deleted
  <2> QED
    BY <1>2, <1>8, <2>1 DEF Deleted
<1>9. CASE NetworkMoves
  BY <1>9 DEF NetworkMoves
<1>10. CASE UNCHANGED vars
  BY <1>2, <1>10 DEF vars
<1> QED
  BY <1>3, <1>4, <1>5, <1>6, <1>7, <1>8, <1>9, <1>10, LaysOne, DeletesOne DEF Next

(* Without a change of the network a disconnect undoes everything but what *)
(* sessions that it does not know of have named.                           *)
THEOREM CleanWithoutMoves == Spec => []CleanIfNoMove
<1>1. Init => TableInv /\ SamePath /\ UndoInv /\ LeftInv
  BY RoutesAssumption DEF Init, TableInv, SamePath, UndoInv, LeftInv, Destinations
<1>2. TypeOK /\ SamePath /\ LeftInv /\ UndonePath => CleanIfNoMove
  BY RoutesAssumption DEF TypeOK, SamePath, LeftInv, UndonePath, Kept, LinuxShield, Near, CleanIfNoMove
<1>3. TypeOK /\ TableInv /\ SamePath /\ UndoInv /\ UndonePath /\ LeftInv /\ [Next]_vars
      => TableInv' /\ SamePath' /\ UndoInv' /\ LeftInv'
  BY TableStep, SamePathStep, UndoStep, LeftStep
<1> QED
  BY <1>1, <1>2, <1>3, TypeCorrect, PathAlwaysUndone, PTL DEF Spec
=============================================================================
