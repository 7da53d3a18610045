---------------------------- MODULE ServiceProofs ----------------------------
(***************************************************************************)
(* What a partly run enable or disable leaves behind, for any number of    *)
(* users, packages and commands, on Linux and on macOS.                    *)
(***************************************************************************)
EXTENDS Service, TLAPS

ServiceTypeOK ==
  /\ current \in Packages \cup {NoPackage}
  /\ root \in [Uids -> Packages \cup {NoPackage}]
  /\ store \in SUBSET Packages
  /\ unit \in SUBSET Jobs /\ enabled \in SUBSET Jobs /\ met \in SUBSET Jobs
  /\ pc \in [Commands -> {"idle", "unlinked", "linked", "unrooted", "rooted", "installed", "disabled"}]
  /\ uid \in [Commands -> Uids]
  /\ package \in [Commands -> Packages \cup {NoPackage}]
  /\ torn \in BOOLEAN /\ overlap \in BOOLEAN

LEMMA TypeStep == ServiceTypeOK /\ [Next]_vars => ServiceTypeOK'
<1> SUFFICES ASSUME ServiceTypeOK, [Next]_vars
             PROVE  ServiceTypeOK'
  OBVIOUS
<1> USE DEF ServiceTypeOK, Jobs
<1>1. ASSUME NEW c \in Commands, NEW u \in Uids, NEW p \in Packages,
             LinksCurrent(c, u, p) \/ UnlinksCurrent(c, u, p)
      PROVE  ServiceTypeOK'
  BY <1>1 DEF LinksCurrent, UnlinksCurrent, Enables, Begins
<1>2. ASSUME NEW c \in Commands, RootsPackage(c)
      PROVE  ServiceTypeOK'
  BY <1>2 DEF RootsPackage
<1>3. ASSUME NEW c \in Commands, InstallsUnit(c)
      PROVE  ServiceTypeOK'
  BY <1>3 DEF InstallsUnit, history
<1>4. ASSUME NEW c \in Commands, EnablesUnit(c)
      PROVE  ServiceTypeOK'
  BY <1>4 DEF EnablesUnit, history
<1>5. ASSUME NEW c \in Commands, NEW u \in Uids, DisablesUnit(c, u)
      PROVE  ServiceTypeOK'
  BY <1>5 DEF DisablesUnit, Begins
<1>6. ASSUME NEW c \in Commands, RemovesUnit(c)
      PROVE  ServiceTypeOK'
  BY <1>6 DEF RemovesUnit, history
<1>7. ASSUME NEW c \in Commands, GivesUp(c)
      PROVE  ServiceTypeOK'
  BY <1>7 DEF GivesUp, disk
<1>8. CASE StoreChanges
  BY <1>8 DEF StoreChanges, commands, history
<1>9. CASE UNCHANGED vars
  BY <1>9 DEF vars, disk, commands, history
<1>10. ASSUME NEW c \in Commands, RelinksCurrent(c) \/ UnlinksRoot(c)
      PROVE  ServiceTypeOK'
  BY <1>10 DEF RelinksCurrent, UnlinksRoot, history
<1> QED
  BY <1>1, <1>2, <1>3, <1>4, <1>5, <1>6, <1>7, <1>8, <1>9, <1>10 DEF Next, Command

LEMMA TypeAlways == Spec => []ServiceTypeOK
<1>1. Init => ServiceTypeOK
  BY DEF Init, ServiceTypeOK
<1>2. ServiceTypeOK /\ [Next]_vars => ServiceTypeOK'
  BY TypeStep
<1> QED
  BY <1>1, <1>2, PTL DEF Spec

-----------------------------------------------------------------------------
(* An enable.                                                              *)
Enabling(c) == BetweenLinks(c) \/ pc[c] \in {"rooted", "installed"}

(* The collector spares what commands run from and what gcroots names.     *)
Pinned ==
  /\ \A u \in Uids : root[u] \in store \cup {NoPackage}
  /\ \A c \in Commands : Enabling(c) => package[c] \in store

(* Enables that never met between their links: at most one is there, and   *)
(* the first link, once set, is its own.                                   *)
Sole ==
  ~overlap => \A c \in Commands :
    BetweenLinks(c) => /\ pc[c] = "unlinked" \/ package[c] = current
                       /\ \A d \in Commands \ {c} : ~BetweenLinks(d)

(* The second link follows the first, or is about to.                      *)
Rooted ==
  ~torn /\ ~overlap => \/ current = NoPackage
                       \/ \E u \in Uids : root[u] = current
                       \/ \E c \in Commands : BetweenLinks(c)

(* The links come before the unit.                                         *)
LinkedFirst ==
  unit # {} \/ (\E c \in Commands : Enabling(c))
  => \/ current # NoPackage
     \/ torn \/ overlap \/ \E c \in Commands : pc[c] = "unlinked"

LinkInv == Pinned /\ Sole /\ Rooted /\ LinkedFirst

LEMMA LinkStep ==
  ASSUME NoPackage \notin Packages
  PROVE  ServiceTypeOK /\ LinkInv /\ [Next]_vars => LinkInv'
<1> SUFFICES ASSUME ServiceTypeOK, LinkInv, [Next]_vars
             PROVE  LinkInv'
  OBVIOUS
<1> USE DEF ServiceTypeOK, LinkInv, Pinned, Sole, Rooted, LinkedFirst, Enabling, BetweenLinks
<1>1. ASSUME NEW c \in Commands, NEW u \in Uids, NEW p \in Packages,
             LinksCurrent(c, u, p) \/ UnlinksCurrent(c, u, p)
      PROVE  LinkInv'
  <2>1. /\ p \in store /\ package' = [package EXCEPT ![c] = p]
        /\ overlap' = (\E d \in Commands : BetweenLinks(d))
        /\ UNCHANGED <<root, store, unit, torn>>
    BY <1>1 DEF LinksCurrent, UnlinksCurrent, Enables
  <2>2. CASE LinksCurrent(c, u, p)
    <3>1. pc' = [pc EXCEPT ![c] = "linked"] /\ current' = p
      BY <2>2 DEF LinksCurrent, Enables, Begins
    <3> QED
      BY <2>1, <3>1
  <2>3. CASE UnlinksCurrent(c, u, p)
    <3>1. pc' = [pc EXCEPT ![c] = "unlinked"]
      BY <2>3 DEF UnlinksCurrent, Enables, Begins
    <3> QED
      BY <2>1, <3>1
  <2> QED
    BY <1>1, <2>2, <2>3
<1>2. ASSUME NEW c \in Commands, RootsPackage(c)
      PROVE  LinkInv'
  <2>1. /\ pc[c] \in {"linked", "unrooted"} /\ pc' = [pc EXCEPT ![c] = "rooted"]
        /\ root' = [root EXCEPT ![uid[c]] = package[c]]
        /\ UNCHANGED <<current, store, unit, package, overlap>>
    BY <1>2 DEF RootsPackage
  <2>2. package[c] \in store
    BY <2>1
  <2>3. Pinned'
    BY <2>1, <2>2
  <2>4. Sole' /\ LinkedFirst'
    BY <2>1
  <2>5. Rooted'
    <3>1. ~overlap => root'[uid[c]] = current
      BY <2>1
    <3> QED
      BY <2>1, <3>1
  <2> QED
    BY <2>3, <2>4, <2>5
<1>3. ASSUME NEW c \in Commands, InstallsUnit(c) \/ EnablesUnit(c)
      PROVE  LinkInv'
  BY <1>3 DEF InstallsUnit, EnablesUnit, history
<1>4. ASSUME NEW c \in Commands, NEW u \in Uids, DisablesUnit(c, u)
      PROVE  LinkInv'
  BY <1>4 DEF DisablesUnit, Begins
<1>5. ASSUME NEW c \in Commands, RemovesUnit(c)
      PROVE  LinkInv'
  BY <1>5 DEF RemovesUnit, history
<1>6. ASSUME NEW c \in Commands, GivesUp(c)
      PROVE  LinkInv'
  BY <1>6 DEF GivesUp, disk
<1>7. CASE StoreChanges
  BY <1>7 DEF StoreChanges, UnderWay, commands, history
<1>8. CASE UNCHANGED vars
  BY <1>8 DEF vars, disk, commands, history
<1>9. ASSUME NEW c \in Commands, RelinksCurrent(c) \/ UnlinksRoot(c)
      PROVE  LinkInv'
  BY <1>9 DEF RelinksCurrent, UnlinksRoot, history
<1> QED
  BY <1>1, <1>2, <1>3, <1>4, <1>5, <1>6, <1>7, <1>8, <1>9 DEF Next, Command

(* The package the units start is never collected, unless an enable was    *)
(* cut short between its two links or met another one there.               *)
THEOREM UnitAlwaysStarts ==
  ASSUME NoPackage \notin Packages
  PROVE  Spec => []UnitStarts
<1>1. Init => LinkInv
  BY DEF Init, LinkInv, Pinned, Sole, Rooted, LinkedFirst, Enabling, BetweenLinks
<1>2. ServiceTypeOK /\ LinkInv /\ [Next]_vars => LinkInv'
  BY LinkStep
<1>3. ServiceTypeOK /\ LinkInv => UnitStarts
  BY DEF ServiceTypeOK, LinkInv, Pinned, Sole, Rooted, LinkedFirst, Enabling, BetweenLinks, UnitStarts
<1> QED
  BY <1>1, <1>2, <1>3, TypeAlways, PTL DEF Spec

-----------------------------------------------------------------------------
(* Commands that are under way for one job are known to have met; a        *)
(* disable that met nobody finds its job disabled when it removes the unit. *)
UnitInv ==
  /\ \A c, d \in Commands :
       c # d /\ UnderWay(c) /\ UnderWay(d) /\ Job(uid[c]) = Job(uid[d]) => Job(uid[c]) \in met
  /\ \A c \in Commands : pc[c] = "disabled" => Job(uid[c]) \notin enabled \/ Job(uid[c]) \in met
  /\ EnabledHasUnit

LEMMA UnitStep == ServiceTypeOK /\ UnitInv /\ [Next]_vars => UnitInv'
<1> SUFFICES ASSUME ServiceTypeOK, UnitInv, [Next]_vars
             PROVE  UnitInv'
  OBVIOUS
<1> USE DEF ServiceTypeOK, UnitInv, EnabledHasUnit, UnderWay
<1>1. ASSUME NEW c \in Commands, NEW u \in Uids, NEW p \in Packages,
             LinksCurrent(c, u, p) \/ UnlinksCurrent(c, u, p)
      PROVE  UnitInv'
  <2>1. PICK to \in {"linked", "unlinked"} : Begins(c, u, to)
    BY <1>1 DEF LinksCurrent, UnlinksCurrent, Enables
  <2>2. UNCHANGED <<unit, enabled>>
    BY <1>1 DEF LinksCurrent, UnlinksCurrent, Enables
  <2> QED
    BY <2>1, <2>2 DEF Begins
<1>2. ASSUME NEW c \in Commands, RootsPackage(c) \/ InstallsUnit(c) \/ RemovesUnit(c)
      PROVE  UnitInv'
  BY <1>2 DEF RootsPackage, InstallsUnit, RemovesUnit, history
<1>3. ASSUME NEW c \in Commands, EnablesUnit(c)
      PROVE  UnitInv'
  BY <1>3 DEF EnablesUnit, history
<1>4. ASSUME NEW c \in Commands, NEW u \in Uids, DisablesUnit(c, u)
      PROVE  UnitInv'
  BY <1>4 DEF DisablesUnit, Begins
<1>5. ASSUME NEW c \in Commands, GivesUp(c)
      PROVE  UnitInv'
  BY <1>5 DEF GivesUp, disk
<1>6. CASE StoreChanges
  BY <1>6 DEF StoreChanges, commands, history
<1>7. CASE UNCHANGED vars
  BY <1>7 DEF vars, disk, commands, history
<1>8. ASSUME NEW c \in Commands, RelinksCurrent(c) \/ UnlinksRoot(c)
      PROVE  UnitInv'
  BY <1>8 DEF RelinksCurrent, UnlinksRoot, history
<1> QED
  BY <1>1, <1>2, <1>3, <1>4, <1>5, <1>6, <1>7, <1>8 DEF Next, Command

(* Whichever step fails, a job that is enabled has its unit file, unless   *)
(* two commands for it were under way at once.                             *)
THEOREM EnabledAlwaysHasUnit == Spec => []EnabledHasUnit
<1>1. Init => UnitInv
  BY DEF Init, UnitInv, EnabledHasUnit, UnderWay
<1>2. ServiceTypeOK /\ UnitInv /\ [Next]_vars => UnitInv'
  BY TypeStep, UnitStep
<1>3. UnitInv => EnabledHasUnit
  BY DEF UnitInv
<1> QED
  BY <1>1, <1>2, <1>3, TypeAlways, PTL DEF Spec
=============================================================================
