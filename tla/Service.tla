------------------------------- MODULE Service -------------------------------
(***************************************************************************)
(* `inode enable' and `inode disable': the commands, run one by one under  *)
(* sudo, that install the daemon for a user.  Units start the daemon       *)
(* through one link, /var/lib/inode-vpn/current, which the commands for    *)
(* all users share; what it points to must be a root of Nix's garbage      *)
(* collector.  Any of the commands may fail, which ends the sequence, and  *)
(* several users may be at it at once.                                     *)
(***************************************************************************)
CONSTANTS
  Commands,   \* processes of the CLI, each running one command after another
  Uids,       \* users the service is managed for
  Packages,   \* installations of the program, under /nix/store
  NoPackage,
  Os          \* "linux", with systemd, or "macos", with launchd

VARIABLES
  current,    \* what /var/lib/inode-vpn/current points to
  root,       \* and /nix/var/nix/gcroots/inode-vpn-<uid>
  store,      \* the packages that are there
  unit,       \* the jobs that have a unit file, or a plist
  enabled,    \* the units systemd starts at boot
  pc,         \* where each command is
  uid,        \* whose service it manages
  package,    \* the one it runs from
  torn,       \* has an enable ended between its two links?
  overlap,    \* did another set the first link, between one's two?
  met         \* the jobs for which two commands were under way at once

disk     == <<current, root, store, unit, enabled>>
commands == <<pc, uid, package>>
history  == <<torn, overlap, met>>
vars     == <<disk, commands, history>>

(* A unit for each user, or the one LAUNCHD_PLIST.                         *)
Job(u) == IF Os = "linux" THEN u ELSE "cc.inode.vpn-daemon"
Jobs   == {Job(u) : u \in Uids}

UnderWay(c) == pc[c] # "idle"

Init ==
  /\ current = NoPackage
  /\ root = [u \in Uids |-> NoPackage]
  /\ store \in SUBSET Packages
  /\ unit = {} /\ enabled = {}
  /\ pc = [c \in Commands |-> "idle"]
  /\ uid \in [Commands -> Uids]
  /\ package = [c \in Commands |-> NoPackage]
  /\ torn = FALSE /\ overlap = FALSE /\ met = {}

-----------------------------------------------------------------------------
Begins(c, u, to) ==
  /\ pc[c] = "idle"
  /\ pc' = [pc EXCEPT ![c] = to]
  /\ uid' = [uid EXCEPT ![c] = u]
  /\ met' = IF \E d \in Commands : UnderWay(d) /\ Job(uid[d]) = Job(u)
              THEN met \cup {Job(u)} ELSE met

(* In install_stable_link: one of the links is set and the other is not,   *)
(* or is gone for now.                                                     *)
BetweenLinks(c) == pc[c] \in {"unlinked", "linked", "unrooted"}

(* enable, install_stable_link.  The command runs from the package, which  *)
(* is therefore there (INODE_SERVICE_EXEC, with which it need not be, is   *)
(* left out).  A failure before the first link changes nothing.            *)
Enables(c, u, p, to) ==
  /\ p \in store
  /\ Begins(c, u, to)
  /\ package' = [package EXCEPT ![c] = p]
  /\ overlap' = (\E d \in Commands : BetweenLinks(d))
  /\ UNCHANGED <<root, store, unit, enabled, torn>>

(* The first link.  On Linux `ln -sfn' renames a new link over the old.    *)
LinksCurrent(c, u, p) ==
  /\ Os = "linux"
  /\ Enables(c, u, p, "linked")
  /\ current' = p

(* On macOS it removes the old link first, and fails if there is another   *)
(* by the time it makes its own.                                           *)
UnlinksCurrent(c, u, p) ==
  /\ Os = "macos"
  /\ Enables(c, u, p, "unlinked")
  /\ current' = NoPackage

RelinksCurrent(c) ==
  /\ pc[c] = "unlinked" /\ pc' = [pc EXCEPT ![c] = "linked"]
  /\ current = NoPackage /\ current' = package[c]
  /\ UNCHANGED <<root, store, unit, enabled, uid, package, history>>

UnlinksRoot(c) ==
  /\ Os = "macos"
  /\ pc[c] = "linked" /\ pc' = [pc EXCEPT ![c] = "unrooted"]
  /\ root' = [root EXCEPT ![uid[c]] = NoPackage]
  /\ UNCHANGED <<current, store, unit, enabled, uid, package, history>>

(* The second link: from now on the package is kept.                       *)
RootsPackage(c) ==
  /\ pc[c] = IF Os = "linux" THEN "linked" ELSE "unrooted"
  /\ pc' = [pc EXCEPT ![c] = "rooted"]
  /\ root' = [root EXCEPT ![uid[c]] = package[c]]
  /\ torn' = FALSE
  /\ UNCHANGED <<current, store, unit, enabled, uid, package, overlap, met>>

(* The file is made whole elsewhere and installed.  launchd starts what it *)
(* finds; with that the command is done but for starting the daemon now.   *)
InstallsUnit(c) ==
  /\ pc[c] = "rooted"
  /\ pc' = [pc EXCEPT ![c] = IF Os = "linux" THEN "installed" ELSE "idle"]
  /\ unit' = unit \cup {Job(uid[c])}
  /\ UNCHANGED <<current, root, store, enabled, uid, package, history>>

(* systemctl enable, of a unit that is there.                              *)
EnablesUnit(c) ==
  /\ pc[c] = "installed"
  /\ Job(uid[c]) \in unit
  /\ pc' = [pc EXCEPT ![c] = "idle"]
  /\ enabled' = enabled \cup {Job(uid[c])}
  /\ UNCHANGED <<current, root, store, unit, uid, package, history>>

(* disable: systemctl disable, which fails if there is no unit.  On macOS  *)
(* the plist is removed at once, whoever it was installed for.             *)
DisablesUnit(c, u) ==
  /\ Os = "linux" => Job(u) \in unit
  /\ Begins(c, u, "disabled")
  /\ enabled' = enabled \ {Job(u)}
  /\ UNCHANGED <<current, root, store, unit, package, torn, overlap>>

(* The links stay.                                                         *)
RemovesUnit(c) ==
  /\ pc[c] = "disabled"
  /\ pc' = [pc EXCEPT ![c] = "idle"]
  /\ unit' = unit \ {Job(uid[c])}
  /\ UNCHANGED <<current, root, store, enabled, uid, package, history>>

(* A step that fails ends the command, and so does a signal.               *)
GivesUp(c) ==
  /\ UnderWay(c)
  /\ pc' = [pc EXCEPT ![c] = "idle"]
  /\ torn' = (torn \/ BetweenLinks(c))
  /\ UNCHANGED <<disk, uid, package, overlap, met>>

(* Nix builds packages and collects others: none that a link in gcroots    *)
(* points to or that a process runs from.  (A daemon that is running keeps *)
(* its package too, but not over a reboot.)                                *)
StoreChanges ==
  /\ store' \in SUBSET Packages
  /\ \A p \in store :
       (\E u \in Uids : root[u] = p) \/ (\E c \in Commands : UnderWay(c) /\ package[c] = p)
         => p \in store'
  /\ UNCHANGED <<current, root, unit, enabled, commands, history>>

-----------------------------------------------------------------------------
Command(c) ==
  \/ \E u \in Uids, p \in Packages : LinksCurrent(c, u, p) \/ UnlinksCurrent(c, u, p)
  \/ RelinksCurrent(c) \/ UnlinksRoot(c)
  \/ RootsPackage(c) \/ InstallsUnit(c) \/ EnablesUnit(c)
  \/ \E u \in Uids : DisablesUnit(c, u)
  \/ RemovesUnit(c) \/ GivesUp(c)

Next == (\E c \in Commands : Command(c)) \/ StoreChanges

Spec == Init /\ [][Next]_vars

-----------------------------------------------------------------------------
(* "never references a GC-able /nix/store path" (service.rs:137): what     *)
(* the units start is there, unless an enable was cut short between its    *)
(* links or met another one there: not even while one is under way is it   *)
(* missing (on macOS, but for the moment in which it replaces the link),   *)
(* and neither a disable nor another user's enable takes it away.          *)
UnitStarts ==
  unit # {} => \/ current \in store
               \/ torn \/ overlap \/ \E c \in Commands : pc[c] = "unlinked"

(* A unit that starts at boot has its file, whichever step of a command    *)
(* failed, unless two commands for it were under way at once.              *)
EnabledHasUnit == enabled \subseteq unit \cup met
=============================================================================
