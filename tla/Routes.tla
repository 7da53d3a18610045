------------------------------- MODULE Routes --------------------------------
(***************************************************************************)
(* inode-routectl: the calls libopenconnect makes of it while a tunnel     *)
(* lives, each a list of commands that stops at the first that fails       *)
(* (connect) or goes on regardless (disconnect), and the record of the     *)
(* physical path that a connect leaves for the disconnect.  The executors  *)
(* for Linux (`ip') and macOS (`route') differ in what they lay, in how an *)
(* existing route is treated, and in what they delete.                     *)
(*                                                                         *)
(* The table holds what only routectl lays (on Linux, the routes of metric *)
(* 0).  Deleting a route that is there does not fail.                      *)
(***************************************************************************)
EXTENDS Naturals

CONSTANTS
  Systems,     \* the builds looked at
  Paths,       \* physical paths: a default route, its interface and address
  NoVia,       \* those whose default route names no gateway
  Gateways,    \* the VPN gateways' host routes
  Split,       \* split routes
  Preserved,   \* the networks that preserve_cidrs may name
  NoPath,      \* a record with neither gateway nor interface; no default route
  Tun,         \* routed into the tunnel
  None,        \* not routed
  SaveMayFail, \* whether the record may be lost
  MaxMoves,    \* how often the network changes
  MaxEdits     \* how often preserve_cidrs does

VARIABLES
  os,       \* the build
  links,    \* the paths whose interface is up
  default,  \* the default route
  moves,    \* changes of the network so far
  table,    \* how each destination is routed
  record,   \* what routectl-<tun>.json says
  tunnel,   \* "new", "ready" for a connect, "up", "refused" if up with no plan
            \* made of its last environment; "over" after a disconnect, "left"
            \* after one with no plan, "dead" after a crash
  call,     \* the call in progress
  phys,     \* the path it works with, or a disconnect has worked with
  todo,     \* its commands to come: a destination, and the way laid or deleted
  gw,       \* the session's VPN gateway
  asked,    \* network.preserve_cidrs of the session
  env,      \* the daemon's INODE_PRESERVE_CIDRS, which every call is given
  edits,    \* changes of preserve_cidrs so far
  left      \* (history) what sessions named that no disconnect has undone since

settings == <<gw, asked, env, edits>>
vars == <<os, links, default, moves, table, record, tunnel, call, phys, todo, settings, left>>

(* The interface's own address and its network, both by the path.          *)
Host == {<<p, "host">> : p \in Paths}
Net  == {<<p, "net">> : p \in Paths}
Destinations == Gateways \cup Host \cup Net \cup Preserved \cup Split

(* One destination may be several of these things.                         *)
ASSUME RoutesAssumption ==
  /\ Systems \subseteq {"linux", "macos"}
  /\ NoVia \subseteq Paths /\ NoPath \notin Paths
  /\ Tun \notin Paths \cup {NoPath} /\ None \notin Paths \cup {NoPath, Tun}
  /\ SaveMayFail \in BOOLEAN /\ MaxMoves \in Nat /\ MaxEdits \in Nat

(* What a session names of the networks that others may not name.          *)
Named == {gw} \cup env

(* What is routed around the tunnel.                                       *)
LinuxShield(p) == Named \cup {<<p, "host">>, <<p, "net">>}
MacShield(p)   == Named \cup {<<p, "host">>}

Shield(p) ==
  IF p \in NoVia \cup {NoPath} THEN {}
  ELSE IF os = "linux" THEN LinuxShield(p) ELSE MacShield(p)

(* The commands for it, and those for the split routes.                    *)
Around(p) == Shield(p) \X {p}
Into      == Split \X {Tun}

(* The default route, or what the environment overrides it with.           *)
discover == default

Init ==
  /\ os \in Systems
  /\ links \in SUBSET Paths /\ default \in links \cup {NoPath}
  /\ moves = 0
  /\ table = [d \in Destinations |-> None]
  /\ record = NoPath
  /\ tunnel = "new" /\ call = "none" /\ phys = NoPath /\ todo = {}
  /\ gw \in Gateways /\ asked \in SUBSET Preserved /\ env = {} /\ edits = 0
  /\ left = {}

NetworkStays == UNCHANGED <<os, links, default, moves>>
SettingsStay == NetworkStays /\ UNCHANGED settings

-----------------------------------------------------------------------------
(* Slip: the split routes are laid first.                                  *)
SplitFirst(c) ==
  IF c[2] = Tun THEN 0
  ELSE IF c[1] = gw THEN 1 ELSE IF c[1] \in Host THEN 2 ELSE IF c[1] \in Net THEN 3 ELSE 4

(* The order of the commands: splits are laid last, and Linux deletes them *)
(* first.                                                                  *)
Rank(c) ==
  IF c[2] = Tun THEN (IF call = "disconnect" /\ os = "linux" THEN 0 ELSE 5)
  ELSE IF c[1] = gw THEN 1 ELSE IF c[1] \in Host THEN 2 ELSE IF c[1] \in Net THEN 3 ELSE 4

Turn(c) == c \in todo /\ \A e \in todo : Rank(c) <= Rank(e)

-----------------------------------------------------------------------------
(* The engine puts its list into the environment, if it is not empty: an   *)
(* earlier list outlives one that has become empty.                        *)
Listed(list, old) == IF list = {} THEN old ELSE list

(* A session begins, the last having ended or come to nothing, with a      *)
(* gateway of its own: gateway.url may have been edited, or its name stand *)
(* for another address.  So may the list have been, and the daemon started *)
(* anew.  The first call is pre-init, by which macOS drops a gateway route *)
(* that a dead engine has left, if a plan can be made.                     *)
PreInit ==
  /\ tunnel \in {"new", "ready", "over", "left", "dead"} /\ tunnel' = "ready"
  /\ gw' \in Gateways
  /\ \/ UNCHANGED <<asked, edits>>
     \/ edits < MaxEdits /\ edits' = edits + 1 /\ asked' \in SUBSET Preserved
  /\ \E old \in {{}} \cup (IF tunnel = "dead" THEN {} ELSE {env}) : env' = Listed(asked', old)
  /\ \/ UNCHANGED table
     \/ os = "macos" /\ table' = [table EXCEPT ![gw'] = None]
  /\ phys' = NoPath
  /\ NetworkStays /\ UNCHANGED <<record, call, todo, left>>

(* save_state ignores a failure, which leaves the old file or an empty one. *)
save_state(p) ==
  \/ record' = p
  \/ SaveMayFail /\ record' \in {record, NoPath}

(* connect, reconnect and attempt-reconnect.                               *)
Connect ==
  /\ call = "none" /\ call' = "connect"
  /\ tunnel \in {"ready", "up", "refused"} /\ tunnel' = "up"
  /\ phys' = discover /\ save_state(discover)
  /\ todo' = Around(discover) \cup Into
  /\ SettingsStay /\ UNCHANGED <<table, left>>

(* RoutePlan::from_env refuses the netmask or a split route of the server: *)
(* nothing is laid or saved.  The library goes on.                         *)
ConnectRefused ==
  /\ call = "none"
  /\ tunnel \in {"ready", "up", "refused"} /\ tunnel' = "refused"
  /\ SettingsStay /\ UNCHANGED <<table, record, call, phys, todo, left>>

Lays(c) ==
  /\ call = "connect" /\ Turn(c)
  /\ c[2] \in links \cup {Tun}
  /\ todo' = todo \ {c}
  /\ SettingsStay /\ UNCHANGED <<record, tunnel, call, phys, left>>

(* Linux: `ip route replace'.                                              *)
Replaces(c) ==
  /\ os = "linux" /\ Lays(c)
  /\ table' = [table EXCEPT ![c[1]] = c[2]]

(* macOS: `route add', which leaves a route that is there alone; whether   *)
(* that counts as a failure depends on the version of route(8).            *)
Adds(c) ==
  /\ os = "macos" /\ Lays(c)
  /\ table' = [table EXCEPT ![c[1]] = IF @ = None THEN c[2] ELSE @]

(* The last command was run, or one failed: setting up the tunnel, or any  *)
(* of the routes.  The library goes on in both cases.                      *)
ConnectReturns ==
  /\ call = "connect" /\ call' = "none" /\ phys' = NoPath /\ todo' = {}
  /\ SettingsStay /\ UNCHANGED <<table, record, tunnel, left>>

-----------------------------------------------------------------------------
(* Slip: what the file says is taken even if it says nothing.              *)
Trusts == record

(* The path to undo: the recorded one, or else what can be discovered.     *)
Loaded == IF record # NoPath THEN record ELSE discover

(* Slip: the preserved networks stay routed.                               *)
UndoesLess(p) == ((Shield(p) \ env) \X {p}) \cup Into

LinuxUndoes(p) == Around(p) \cup Into

(* macOS leaves the preserved networks routed.                             *)
MacUndoes(p) == (({gw} \cup IF p = NoPath THEN {} ELSE {<<p, "host">>}) \X {p}) \cup Into

Disconnect ==
  /\ call = "none" /\ call' = "disconnect"
  /\ tunnel = "up"
  /\ phys' = Loaded
  /\ todo' = IF os = "linux" THEN LinuxUndoes(Loaded) ELSE MacUndoes(Loaded)
  /\ SettingsStay /\ UNCHANGED <<table, record, tunnel, left>>

Deletes(c) ==
  /\ call = "disconnect" /\ Turn(c)
  /\ todo' = todo \ {c}
  /\ SettingsStay /\ UNCHANGED <<record, tunnel, call, phys, left>>

(* Linux: a route by another path does not match, and is left.             *)
LinuxDeletes(c) ==
  /\ os = "linux" /\ Deletes(c)
  /\ table' = [table EXCEPT ![c[1]] = IF @ = c[2] THEN None ELSE @]

(* macOS: the destination is all that is looked at.                        *)
MacDeletes(c) ==
  /\ os = "macos" /\ Deletes(c)
  /\ table' = [table EXCEPT ![c[1]] = None]

(* The kernel drops the routes by an interface that is down or gone.       *)
Flushed(kept) == [d \in Destinations |-> IF table[d] \in kept THEN table[d] ELSE None]

(* What a disconnect does not come to: another session's gateway, a        *)
(* preserved network that the list does not name, and on macOS any.        *)
Kept(p) ==
  (Gateways \cup Preserved) \ (IF os = "linux" THEN LinuxShield(p) ELSE {gw, <<p, "host">>})

(* The tunnel's interface is set down, and the record is removed.          *)
DisconnectReturns ==
  /\ call = "disconnect" /\ todo = {} /\ call' = "none"
  /\ tunnel' = "over"
  /\ table' = Flushed(Paths)
  /\ record' = NoPath
  /\ left' = (left \cup Named) \cap Kept(phys)
  /\ SettingsStay /\ UNCHANGED <<phys, todo>>

(* No plan can be made of the environment of the last connect: the call    *)
(* ends before it does anything, and only the tunnel's interface goes.     *)
DisconnectRefused ==
  /\ call = "none"
  /\ tunnel = "refused" /\ tunnel' = "left"
  /\ table' = Flushed(Paths)
  /\ left' = left \cup Named
  /\ SettingsStay /\ UNCHANGED <<record, call, phys, todo>>

-----------------------------------------------------------------------------
(* Slip: the command outlives the daemon.                                  *)
Outlives ==
  /\ tunnel \in {"up", "refused"} /\ tunnel' = "dead"
  /\ table' = Flushed(Paths)
  /\ left' = left \cup Named
  /\ SettingsStay /\ UNCHANGED <<record, call, phys, todo>>

(* The daemon dies, and its tunnel with it; no disconnect is called.       *)
Crash ==
  /\ tunnel \in {"up", "refused"} /\ tunnel' = "dead"
  /\ call' = "none" /\ phys' = NoPath /\ todo' = {}
  /\ table' = Flushed(Paths)
  /\ left' = left \cup Named
  /\ SettingsStay /\ UNCHANGED record

(* Bound: an interface does not come up within a call.                     *)
NetworkMoves ==
  /\ moves < MaxMoves /\ moves' = moves + 1
  /\ links' \in SUBSET (IF call = "none" THEN Paths ELSE links)
  /\ default' \in links' \cup {NoPath}
  /\ table' = Flushed(links' \cup {Tun})
  /\ UNCHANGED <<os, record, tunnel, call, phys, todo, settings, left>>

-----------------------------------------------------------------------------
Next ==
  \/ PreInit \/ Connect \/ ConnectRefused \/ ConnectReturns
  \/ Disconnect \/ DisconnectReturns \/ DisconnectRefused
  \/ \E c \in todo : Replaces(c) \/ Adds(c) \/ LinuxDeletes(c) \/ MacDeletes(c)
  \/ Crash \/ NetworkMoves

Spec == Init /\ [][Next]_vars

-----------------------------------------------------------------------------
TypeOK ==
  /\ os \in Systems
  /\ links \subseteq Paths /\ default \in links \cup {NoPath}
  /\ moves \in 0..MaxMoves
  /\ table \in [Destinations -> Paths \cup {Tun, None}]
  /\ record \in Paths \cup {NoPath} /\ phys \in Paths \cup {NoPath}
  /\ tunnel \in {"new", "ready", "up", "refused", "over", "left", "dead"}
  /\ call \in {"none", "connect", "disconnect"}
  /\ todo \subseteq Destinations \X (Paths \cup {NoPath, Tun})
  /\ IF call = "none" THEN todo = {} ELSE tunnel = "up"
  /\ gw \in Gateways
  /\ asked \subseteq Preserved /\ env \subseteq Preserved
  /\ edits \in 0..MaxEdits
  /\ left \subseteq Gateways \cup Preserved

(* No traffic is led into the tunnel before the gateway, the management    *)
(* network and the preserved networks are routed around it: however many   *)
(* routes of a connect fail, and whatever earlier ones or a crash left,    *)
(* those by a path that is still up are there when a split route is laid.  *)
(* On Linux that holds over any changes of the network; on macOS, where an *)
(* older route stands in the way of a new one, until the first.  A network *)
(* that is itself a split route is left out: linux.rs:155 replaces what    *)
(* was just laid for it (linux.rs:136 has the protection always the more   *)
(* specific).                                                              *)
ShieldFirst ==
  [][\A s \in Split :
       /\ os = "linux" \/ moves = 0
       /\ table[s] # Tun /\ table'[s] = Tun /\ phys \in links
       => \A d \in Shield(phys) \ Split : table[d] = phys]_vars

(* A disconnect leaves no route into the tunnel, and none by the path it   *)
(* worked with, save those it does not come to: what else it leaves behind *)
(* goes by a path that the record had stopped naming.                      *)
UndonePath ==
  tunnel = "over" =>
    \A d \in Destinations : table[d] # Tun /\ (table[d] = phys => d \in Kept(phys))

(* As long as the network does not change, what remains after a disconnect *)
(* is a gateway or a preserved network of an earlier session: one that     *)
(* crashed or was refused a plan (on macOS, any, for the networks), and    *)
(* which no disconnect since has named.  The rest is undone, also if it    *)
(* was laid by such a session or by calls that failed half-way, and even   *)
(* if no record could be saved.                                            *)
CleanIfNoMove ==
  moves = 0 /\ tunnel = "over" => \A d \in Destinations \ left : table[d] = None

(* docs/architecture.md:145: disconnect exactly revokes the entries of     *)
(* this session.                                                           *)
ExactUndo == tunnel = "over" => \A d \in Destinations : table[d] = None
=============================================================================
