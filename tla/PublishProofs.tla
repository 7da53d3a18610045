--------------------------- MODULE PublishProofs ---------------------------
(***************************************************************************)
(* What set_state promises to state.json and to subscribers, for any       *)
(* number of threads that call it, of subscribers, and of calls.           *)
(***************************************************************************)
EXTENDS Publish, TLAPS, SequenceTheorems, FiniteSetTheorems

LEMMA NothingSent == <<>> \in Seq(0..MaxCalls) /\ Len(<<>>) = 0
OBVIOUS

LEMMA TypeInit == Init => TypeOK
<1> SUFFICES ASSUME Init
             PROVE  TypeOK
  OBVIOUS
<1>1. 0 \in 0..MaxCalls
  BY PublishAssumption
<1>2. /\ sent \in [Watchers -> Seq(0..MaxCalls)]
      /\ read \in [Watchers -> Nat]
      /\ \A w \in Watchers : read[w] <= Len(sent[w])
  BY NothingSent DEF Init
<1>3. /\ pc \in [Setters -> {"idle", "persist", "snapshot", "emit"}]
      /\ snap \in [Setters -> 0..MaxCalls]
      /\ wpc \in [Watchers -> {"out", "listed", "answered", "holding", "in", "gone"}]
      /\ wsnap \in [Watchers -> 0..MaxCalls]
  BY <1>1 DEF Init
<1>4. /\ calls \in 0..MaxCalls /\ rev \in 0..calls
      /\ file \in 0..MaxCalls \cup {Torn}
      /\ listed \subseteq Watchers
  BY <1>1 DEF Init
<1>5. silent \in BOOLEAN /\ lost \in BOOLEAN
  BY Zenon DEF Init
<1> QED
  BY <1>2, <1>3, <1>4, <1>5 DEF TypeOK

LEMMA TypeStep == TypeOK /\ [Next]_vars => TypeOK'
<1> SUFFICES ASSUME TypeOK, [Next]_vars
             PROVE  TypeOK'
  OBVIOUS
<1> USE PublishAssumption DEF TypeOK
<1>0. calls \in Nat /\ rev \in Nat /\ rev \in 0..MaxCalls
  OBVIOUS
<1>1. ASSUME NEW t \in Setters, Setter(t)
      PROVE  TypeOK'
  <2>1. CASE set_state(t)
    <3>1. calls' \in 0..MaxCalls /\ rev' \in 0..calls' /\ rev' \in 0..MaxCalls
      BY <1>0, <2>1 DEF set_state
    <3>2. pc' \in [Setters -> {"idle", "persist", "snapshot", "emit"}]
      BY <2>1 DEF set_state, At
    <3>3. snap' \in [Setters -> 0..MaxCalls]
      BY <2>1, <3>1 DEF set_state
    <3> QED
      BY <2>1, <3>1, <3>2, <3>3 DEF set_state, WatchersWait
  <2>2. CASE persist_state(t)
    BY <1>0, <2>2 DEF persist_state, At, WatchersWait
  <2>3. CASE snapshot_json(t)
    BY <1>0, <2>3 DEF snapshot_json, At, WatchersWait
  <2>4. CASE emit(t)
    <3>0. \A w \in Watchers : sent'[w] = sent[w] \/ sent'[w] = Append(sent[w], snap[t])
      BY <2>4 DEF emit
    <3>1. \A w \in Watchers : /\ sent'[w] \in Seq(0..MaxCalls)
                              /\ Len(sent'[w]) >= Len(sent[w])
      <4> SUFFICES ASSUME NEW w \in Watchers
                   PROVE  sent'[w] \in Seq(0..MaxCalls) /\ Len(sent'[w]) >= Len(sent[w])
        OBVIOUS
      <4>1. sent[w] \in Seq(0..MaxCalls) /\ snap[t] \in 0..MaxCalls
        OBVIOUS
      <4>2. CASE sent'[w] = sent[w]
        BY <4>1, <4>2
      <4>3. CASE sent'[w] = Append(sent[w], snap[t])
        BY <4>1, <4>3, AppendProperties
      <4> QED
        BY <3>0, <4>2, <4>3
    <3>2. sent' \in [Watchers -> Seq(0..MaxCalls)]
      BY <2>4, <3>1 DEF emit
    <3>3. \A w \in Watchers : read'[w] <= Len(sent'[w])
      BY <2>4, <3>1 DEF emit
    <3> QED
      BY <2>4, <3>2, <3>3 DEF emit, At
  <2> QED
    BY <1>1, <2>1, <2>2, <2>3, <2>4 DEF Setter
<1>2. ASSUME NEW w \in Watchers, Watcher(w)
      PROVE  TypeOK'
  <2>1. CASE Subscribes(w) \/ Answered(w) \/ HangsUp(w)
    BY <2>1 DEF Subscribes, Answered, HangsUp, Moves, SettersWait
  <2>2. CASE TakesSnapshot(w)
    BY <1>0, <2>2 DEF TakesSnapshot, Moves, SettersWait
  <2>3. CASE SendsSnapshot(w)
    BY <2>3 DEF SendsSnapshot, Moves, SettersWait
  <2>4. CASE Shows(w)
    BY <2>4 DEF Shows, SettersWait
  <2> QED
    BY <1>2, <2>1, <2>2, <2>3, <2>4 DEF Watcher
<1>3. CASE engine_start
  <2>1. calls' \in 0..MaxCalls /\ rev' \in 0..calls'
    BY <1>0, <1>3 DEF engine_start
  <2> QED
    BY <1>3, <2>1 DEF engine_start, WatchersWait
<1>4. CASE Respawns
  <2>1. 0 \in 0..MaxCalls
    OBVIOUS
  <2>2. /\ sent' \in [Watchers -> Seq(0..MaxCalls)]
        /\ read' \in [Watchers -> Nat]
        /\ \A w \in Watchers : read'[w] <= Len(sent'[w])
    BY <1>4, NothingSent DEF Respawns
  <2>3. /\ pc' \in [Setters -> {"idle", "persist", "snapshot", "emit"}]
        /\ snap' \in [Setters -> 0..MaxCalls]
        /\ wpc' \in [Watchers -> {"out", "listed", "answered", "holding", "in", "gone"}]
        /\ wsnap' \in [Watchers -> 0..MaxCalls]
    BY <1>4, <2>1 DEF Respawns
  <2>4. /\ calls' \in 0..MaxCalls /\ rev' \in 0..calls'
        /\ file' \in 0..MaxCalls \cup {Torn}
        /\ listed' \subseteq Watchers
    BY <1>4, <2>1 DEF Respawns
  <2>5. silent' \in BOOLEAN /\ lost' \in BOOLEAN
    BY <1>4, Zenon DEF Respawns
  <2> QED
    BY <2>2, <2>3, <2>4, <2>5
<1>5. CASE UNCHANGED vars
  BY <1>5 DEF vars
<1> QED
  BY <1>1, <1>2, <1>3, <1>4, <1>5 DEF Next

(* No subscriber reads past what it was sent; revisions stay in range.     *)
THEOREM TypeCorrect == Spec => []TypeOK
<1>1. Init => TypeOK
  BY TypeInit
<1>2. TypeOK /\ [Next]_vars => TypeOK'
  BY TypeStep
<1> QED
  BY <1>1, <1>2, PTL DEF Spec

-----------------------------------------------------------------------------
(* A file that is behind could not be written, or is about to be.          *)
FileInv ==
  rev > 0 /\ ~silent /\ file # rev /\ ~lost => \E t \in Setters : pc[t] = "persist"

LEMMA FileStep == TypeOK /\ FileInv /\ [Next]_vars => FileInv'
<1> SUFFICES ASSUME TypeOK, FileInv, [Next]_vars
             PROVE  FileInv'
  OBVIOUS
<1> USE DEF TypeOK, FileInv
<1>1. ASSUME NEW t \in Setters, Setter(t)
      PROVE  FileInv'
  <2>1. CASE set_state(t)
    BY <2>1 DEF set_state, At
  <2>2. CASE persist_state(t)
    BY <2>2 DEF persist_state
  <2>3. CASE snapshot_json(t) \/ emit(t)
    BY <2>3 DEF snapshot_json, emit, At
  <2> QED
    BY <1>1, <2>1, <2>2, <2>3 DEF Setter
<1>2. ASSUME NEW w \in Watchers, Watcher(w)
      PROVE  FileInv'
  BY <1>2 DEF Watcher, Subscribes, Answered, TakesSnapshot, SendsSnapshot, Shows, HangsUp,
              SettersWait
<1>3. CASE engine_start
  BY <1>3 DEF engine_start
<1>4. CASE Respawns
  BY <1>4 DEF Respawns
<1>5. CASE UNCHANGED vars
  BY <1>5 DEF vars
<1> QED
  BY <1>1, <1>2, <1>3, <1>4, <1>5 DEF Next

(* Between two changes state.json says what the daemon says, or the last   *)
(* attempt to write it failed.                                             *)
THEOREM FileAlwaysSettles == Spec => []FileSettles
<1>1. Init => FileInv
  BY DEF Init, FileInv
<1>2. TypeOK /\ FileInv /\ [Next]_vars => FileInv'
  BY FileStep
<1>3. TypeOK /\ FileInv => FileSettles
  BY DEF TypeOK, FileInv, FileSettles
<1> QED
  BY <1>1, <1>2, <1>3, TypeCorrect, PTL DEF Spec

-----------------------------------------------------------------------------
(* Somebody is still going to emit the newest state.                       *)
Pending == \E t \in Setters : \/ pc[t] \in {"persist", "snapshot"}
                              \/ pc[t] = "emit" /\ snap[t] = rev

(* A connection is listed before it takes its snapshot, so that whatever   *)
(* changes after the snapshot is emitted to it.                            *)
ListedInv ==
  \A w \in Watchers : wpc[w] \in {"listed", "answered", "holding", "in"} => w \in listed

SentInv ==
  ~silent => \A w \in Watchers :
    \/ wpc[w] = "holding" /\ wsnap[w] # rev
    \/ wpc[w] = "in"
    => rev \in Sent(w) \/ Pending

(* Sending adds to what has been sent.                                     *)
LEMMA SentGrows ==
  ASSUME TypeOK, NEW w \in Watchers, NEW r \in 0..MaxCalls,
         sent'[w] = Append(sent[w], r)
  PROVE  Sent(w)' = Sent(w) \cup {r}
<1>1. sent[w] \in Seq(0..MaxCalls)
  BY DEF TypeOK
<1>2. /\ Len(sent'[w]) = Len(sent[w]) + 1
      /\ \A i \in 1..Len(sent[w]) : sent'[w][i] = sent[w][i]
      /\ sent'[w][Len(sent[w]) + 1] = r
  BY <1>1, AppendProperties
<1>3. Len(sent[w]) \in Nat
  BY <1>1
<1> QED
  BY <1>2, <1>3 DEF Sent

LEMMA ListedStep == TypeOK /\ ListedInv /\ [Next]_vars => ListedInv'
<1> SUFFICES ASSUME TypeOK, ListedInv, [Next]_vars
             PROVE  ListedInv'
  OBVIOUS
<1> USE DEF TypeOK, ListedInv
<1>1. ASSUME NEW t \in Setters, Setter(t)
      PROVE  ListedInv'
  BY <1>1 DEF Setter, set_state, persist_state, snapshot_json, emit, WatchersWait
<1>2. ASSUME NEW w \in Watchers, Watcher(w)
      PROVE  ListedInv'
  BY <1>2 DEF Watcher, Subscribes, Answered, TakesSnapshot, SendsSnapshot, Shows, HangsUp, Moves
<1>3. CASE engine_start
  BY <1>3 DEF engine_start, WatchersWait
<1>4. CASE Respawns
  BY <1>4 DEF Respawns
<1>5. CASE UNCHANGED vars
  BY <1>5 DEF vars
<1> QED
  BY <1>1, <1>2, <1>3, <1>4, <1>5 DEF Next

LEMMA SentStep == TypeOK /\ ListedInv /\ SentInv /\ [Next]_vars => SentInv'
<1> SUFFICES ASSUME TypeOK, ListedInv, SentInv, [Next]_vars
             PROVE  SentInv'
  OBVIOUS
<1> USE DEF TypeOK
<1>1. ASSUME NEW t \in Setters, Setter(t)
      PROVE  SentInv'
  <2>1. CASE set_state(t) \/ persist_state(t) \/ snapshot_json(t)
    <3>1. Pending'
      BY <2>1 DEF Pending, set_state, persist_state, snapshot_json, At
    <3> QED
      BY <3>1 DEF SentInv
  <2>2. CASE emit(t)
    <3> SUFFICES ASSUME NEW w \in Watchers,
                        (wpc[w] = "holding" /\ wsnap[w] # rev) \/ wpc[w] = "in",
                        ~silent
                 PROVE  rev \in Sent(w)' \/ Pending'
      BY <2>2 DEF emit, SentInv
    <3>1. w \in listed'
      BY <2>2 DEF emit, ListedInv
    <3>2. sent'[w] = Append(sent[w], snap[t])
      BY <2>2, <3>1 DEF emit
    <3>3. Sent(w)' = Sent(w) \cup {snap[t]}
      BY <3>2, SentGrows
    <3>4. rev \in Sent(w) \/ Pending
      BY DEF SentInv
    <3>5. CASE Pending /\ snap[t] # rev
      BY <2>2, <3>5 DEF Pending, emit, At
    <3> QED
      BY <3>3, <3>4, <3>5
  <2> QED
    BY <1>1, <2>1, <2>2 DEF Setter
<1>2. ASSUME NEW w \in Watchers, Watcher(w)
      PROVE  SentInv'
  <2>1. Pending' <=> Pending
    BY <1>2 DEF Watcher, Subscribes, Answered, TakesSnapshot, SendsSnapshot, Shows, HangsUp,
                SettersWait, Pending
  <2>0. silent' = silent
    BY <1>2 DEF Watcher, Subscribes, Answered, TakesSnapshot, SendsSnapshot, Shows, HangsUp,
                SettersWait
  <2>2. CASE Subscribes(w) \/ Answered(w) \/ TakesSnapshot(w) \/ Shows(w) \/ HangsUp(w)
    <3>1. rev' = rev /\ \A v \in Watchers : Sent(v)' = Sent(v)
      BY <2>2 DEF Subscribes, Answered, TakesSnapshot, Shows, HangsUp, SettersWait, Sent
    <3>2. CASE Subscribes(w) \/ Answered(w) \/ Shows(w) \/ HangsUp(w)
      <4>1. wsnap' = wsnap /\ \A v \in Watchers : wpc'[v] \in {"holding", "in"} => wpc'[v] = wpc[v]
        BY <3>2 DEF Subscribes, Answered, Shows, HangsUp, Moves
      <4> QED
        BY <2>0, <2>1, <3>1, <4>1 DEF SentInv
    <3>3. CASE TakesSnapshot(w)
      <4>1. wsnap'[w] = rev /\ wpc'[w] = "holding"
        BY <3>3 DEF TakesSnapshot, Moves
      <4>2. \A v \in Watchers : v # w => wpc'[v] = wpc[v] /\ wsnap'[v] = wsnap[v]
        BY <3>3 DEF TakesSnapshot, Moves
      <4> QED
        BY <2>0, <2>1, <3>1, <4>1, <4>2 DEF SentInv
    <3> QED
      BY <2>2, <3>2, <3>3
  <2>3. CASE SendsSnapshot(w)
    <3>1. Sent(w)' = Sent(w) \cup {wsnap[w]}
      BY <2>3, SentGrows DEF SendsSnapshot
    <3>2. \A v \in Watchers : v # w => Sent(v)' = Sent(v)
      BY <2>3 DEF SendsSnapshot, Sent
    <3> QED
      BY <2>0, <2>1, <2>3, <3>1, <3>2 DEF SendsSnapshot, Moves, SettersWait, SentInv
  <2> QED
    BY <1>2, <2>2, <2>3 DEF Watcher
<1>3. CASE engine_start
  BY <1>3 DEF engine_start, SentInv
<1>4. CASE Respawns
  BY <1>4 DEF Respawns, SentInv
<1>5. CASE UNCHANGED vars
  BY <1>5 DEF vars, SentInv, Pending, Sent
<1> QED
  BY <1>1, <1>2, <1>3, <1>4, <1>5 DEF Next

(* No change is lost on a subscriber, whenever it subscribed.              *)
THEOREM NewestAlwaysSent == Spec => []NewestIsSent
<1>1. Init => ListedInv /\ SentInv
  BY DEF Init, ListedInv, SentInv
<1>2. TypeOK /\ ListedInv /\ SentInv /\ [Next]_vars => ListedInv' /\ SentInv'
  BY ListedStep, SentStep
<1>3. SentInv => NewestIsSent
  BY DEF SentInv, Pending, NewestIsSent
<1> QED
  BY <1>1, <1>2, <1>3, TypeCorrect, PTL DEF Spec

-----------------------------------------------------------------------------
(* Nobody holds, or has been sent, a state that the daemon has yet to      *)
(* reach.                                                                  *)
PastInv ==
  /\ \A t \in Setters : snap[t] <= rev
  /\ \A w \in Watchers : wsnap[w] <= rev
  /\ \A w \in Watchers : \A i \in 1..Len(sent[w]) : sent[w][i] <= rev

(* The threads about to send an event that has been overtaken, and whether *)
(* a connection is about to be sent a snapshot that has been.              *)
Late == {t \in Setters : pc[t] = "emit" /\ snap[t] # rev}
Owed(w) == IF wpc[w] = "holding" /\ wsnap[w] # rev THEN 1 ELSE 0

(* What has followed the newest state, and what may still follow it.       *)
TailInv ==
  \A w \in Watchers :
    rev \in Sent(w) =>
      \E i \in 1..Len(sent[w]) :
        /\ sent[w][i] = rev
        /\ (Len(sent[w]) - i) + Cardinality(Late) + Owed(w) <= Cardinality(Setters)

(* What a step sends to one subscriber, if anything.                       *)
LEMMA Sending ==
  ASSUME TypeOK, NEW w \in Watchers, NEW r \in 0..MaxCalls,
         sent'[w] = Append(sent[w], r)
  PROVE  /\ Len(sent[w]) \in Nat /\ Len(sent'[w]) = Len(sent[w]) + 1
         /\ \A i \in 1..Len(sent[w]) : sent'[w][i] = sent[w][i]
         /\ sent'[w][Len(sent'[w])] = r
<1>1. sent[w] \in Seq(0..MaxCalls)
  BY DEF TypeOK
<1>2. /\ Len(sent'[w]) = Len(sent[w]) + 1
      /\ \A i \in 1..Len(sent[w]) : sent'[w][i] = sent[w][i]
      /\ sent'[w][Len(sent[w]) + 1] = r
  BY <1>1, AppendProperties
<1> QED
  BY <1>1, <1>2

LEMMA SentRevisions ==
  ASSUME TypeOK, NEW w \in Watchers, NEW i \in 1..Len(sent[w])
  PROVE  sent[w][i] \in Nat
<1>1. sent[w] \in Seq(0..MaxCalls)
  BY DEF TypeOK
<1>2. sent[w][i] \in 0..MaxCalls
  BY <1>1, ElementOfSeq
<1> QED
  BY <1>2, PublishAssumption

LEMMA PastStep == TypeOK /\ PastInv /\ [Next]_vars => PastInv'
<1> SUFFICES ASSUME TypeOK, PastInv, [Next]_vars
             PROVE  PastInv'
  OBVIOUS
<1> USE DEF PastInv
<1>0. /\ rev \in Nat /\ rev \in 0..MaxCalls
      /\ snap \in [Setters -> 0..MaxCalls] /\ wsnap \in [Watchers -> 0..MaxCalls]
  BY PublishAssumption DEF TypeOK
<1>1. ASSUME NEW t \in Setters, Setter(t)
      PROVE  PastInv'
  <2>1. CASE set_state(t)
    <3>1. /\ rev' \in Nat /\ rev <= rev' /\ sent' = sent /\ wsnap' = wsnap
          /\ snap'[t] = rev' /\ \A u \in Setters \ {t} : snap'[u] = snap[u]
      BY <1>0, <2>1 DEF set_state, WatchersWait
    <3>2. \A w \in Watchers : \A i \in 1..Len(sent[w]) : sent[w][i] \in Nat
      BY SentRevisions
    <3>3. /\ \A u \in Setters : snap[u] \in Nat /\ snap[u] <= rev
          /\ \A w \in Watchers : wsnap[w] \in Nat /\ wsnap[w] <= rev
      BY <1>0
    <3>4. /\ \A u \in Setters : snap'[u] <= rev'
          /\ \A w \in Watchers : wsnap'[w] <= rev'
      BY <1>0, <3>1, <3>3
    <3>5. \A w \in Watchers : \A i \in 1..Len(sent'[w]) : sent'[w][i] <= rev'
      BY <1>0, <3>1, <3>2
    <3> QED
      BY <3>4, <3>5
  <2>2. CASE persist_state(t) \/ snapshot_json(t)
    <3>1. \A u \in Setters : snap'[u] <= rev
      BY <1>0, <2>2 DEF persist_state, snapshot_json
    <3>2. UNCHANGED <<rev, wsnap, sent>>
      BY <2>2 DEF persist_state, snapshot_json, WatchersWait
    <3> QED
      BY <3>1, <3>2
  <2>3. CASE emit(t)
    <3>1. ASSUME NEW w \in Watchers, NEW i \in 1..Len(sent'[w])
          PROVE  sent'[w][i] <= rev
      <4>1. CASE sent'[w] = sent[w]
        BY <4>1
      <4>2. CASE sent'[w] = Append(sent[w], snap[t])
        BY <4>2, Sending
      <4> QED
        BY <2>3, <4>1, <4>2 DEF emit
    <3> QED
      BY <2>3, <3>1 DEF emit
  <2> QED
    BY <1>1, <2>1, <2>2, <2>3 DEF Setter
<1>2. ASSUME NEW w \in Watchers, Watcher(w)
      PROVE  PastInv'
  <2>1. CASE Subscribes(w) \/ Answered(w) \/ Shows(w) \/ HangsUp(w)
    BY <2>1 DEF Subscribes, Answered, Shows, HangsUp, SettersWait
  <2>2. CASE TakesSnapshot(w)
    BY <1>0, <2>2 DEF TakesSnapshot, SettersWait
  <2>3. CASE SendsSnapshot(w)
    <3>1. /\ sent'[w] = Append(sent[w], wsnap[w])
          /\ \A v \in Watchers \ {w} : sent'[v] = sent[v]
          /\ UNCHANGED <<snap, wsnap, rev>>
      BY <2>3 DEF SendsSnapshot, SettersWait, TypeOK
    <3>2. \A i \in 1..Len(sent'[w]) : sent'[w][i] <= rev
      BY <3>1, Sending
    <3> QED
      BY <3>1, <3>2
  <2> QED
    BY <1>2, <2>1, <2>2, <2>3 DEF Watcher
<1>3. CASE engine_start
  <2>1. /\ rev' = rev + 1
        /\ UNCHANGED <<snap, wsnap, sent>>
    BY <1>3 DEF engine_start, WatchersWait
  <2>2. \A w \in Watchers : \A i \in 1..Len(sent[w]) : sent[w][i] \in Nat
    BY SentRevisions
  <2>3. /\ \A u \in Setters : snap[u] \in Nat
        /\ \A w \in Watchers : wsnap[w] \in Nat
    BY <1>0
  <2> QED
    BY <1>0, <2>1, <2>2, <2>3
<1>4. CASE Respawns
  BY <1>4 DEF Respawns
<1>5. CASE UNCHANGED vars
  BY <1>5 DEF vars
<1> QED
  BY <1>1, <1>2, <1>3, <1>4, <1>5 DEF Next

(* The late threads are among those that call set_state.                   *)
LEMMA LateBounded ==
  /\ Late \subseteq Setters /\ IsFiniteSet(Late)
  /\ Cardinality(Late) \in Nat /\ Cardinality(Setters) \in Nat
  /\ Cardinality(Late) <= Cardinality(Setters)
<1>1. Late \subseteq Setters
  BY DEF Late
<1> QED
  BY <1>1, PublishAssumption, FS_Subset, FS_CardinalityType

(* A thread that has sent its event is not late any more.                  *)
LEMMA LateWithout ==
  ASSUME NEW t \in Setters, Late' = Late \ {t}
  PROVE  /\ Cardinality(Late') \in Nat
         /\ Cardinality(Late') + 1 <= Cardinality(Setters)
         /\ Cardinality(Late') <= Cardinality(Late)
         /\ t \in Late => Cardinality(Late') + 1 <= Cardinality(Late)
<1> DEFINE others == Setters \ {t}
<1>1. /\ IsFiniteSet(others) /\ Cardinality(others) = Cardinality(Setters) - 1
  BY PublishAssumption, FS_RemoveElement
<1>2. Late' \in SUBSET others
  BY LateBounded
<1>3. Cardinality(Late') <= Cardinality(others)
  BY <1>1, <1>2, FS_Subset
<1>4. Cardinality(Late') = IF t \in Late THEN Cardinality(Late) - 1 ELSE Cardinality(Late)
  BY LateBounded, FS_RemoveElement
<1>5. Cardinality(Late') \in Nat
  BY <1>1, <1>2, FS_Subset, FS_CardinalityType
<1> QED
  BY <1>1, <1>3, <1>4, <1>5, LateBounded

(* Steps that send nothing and overtake no event keep the bound.           *)
LEMMA QuietTail ==
  ASSUME TailInv, sent' = sent, rev' = rev, Late' = Late,
         \A w \in Watchers : Owed(w)' = Owed(w) \/ Owed(w)' = 0
  PROVE  TailInv'
<1> SUFFICES ASSUME NEW w \in Watchers, rev \in Sent(w)
             PROVE  \E i \in 1..Len(sent[w]) :
                      /\ sent[w][i] = rev
                      /\ (Len(sent[w]) - i) + Cardinality(Late) + Owed(w)' <= Cardinality(Setters)
  BY DEF TailInv, Sent
<1>1. PICK i \in 1..Len(sent[w]) :
        /\ sent[w][i] = rev
        /\ (Len(sent[w]) - i) + Cardinality(Late) + Owed(w) <= Cardinality(Setters)
  BY DEF TailInv
<1>2. Owed(w) \in {0, 1}
  BY DEF Owed
<1>3. Owed(w)' <= Owed(w)
  BY <1>2
<1>4. (Len(sent[w]) - i) + Cardinality(Late) + Owed(w)' <= Cardinality(Setters)
  BY <1>1, <1>2, LateBounded
<1> QED
  BY <1>1, <1>4

(* One more state follows the newest one, and one thread less is late.     *)
LEMMA OneMore ==
  ASSUME NEW len \in Nat, NEW i \in Nat, NEW late \in Nat, NEW less \in Nat,
         NEW owed \in Nat, NEW bound \in Nat,
         (len - i) + late + owed <= bound, less + 1 <= late
  PROVE  ((len + 1) - i) + less + owed <= bound
OBVIOUS

LEMMA SetterTail ==
  ASSUME TypeOK, PastInv, TailInv, NEW t \in Setters, Setter(t)
  PROVE  TailInv'
<1> USE DEF TypeOK
<1>1. CASE set_state(t)
  <2>1. /\ rev' = rev \/ rev' = rev + 1
        /\ sent' = sent /\ wpc' = wpc /\ wsnap' = wsnap
        /\ pc[t] = "idle" /\ pc'[t] = "persist"
        /\ \A u \in Setters \ {t} : pc'[u] = pc[u] /\ snap'[u] = snap[u]
    BY <1>1 DEF set_state, At, WatchersWait
  <2>2. CASE rev' = rev
    BY <2>1, <2>2, QuietTail DEF Late, Owed
  <2>3. CASE rev' = rev + 1
    <3>1. \A w \in Watchers : rev' \notin Sent(w)'
      BY <2>1, <2>3 DEF PastInv, Sent
    <3> QED
      BY <3>1 DEF TailInv
  <2> QED
    BY <2>1, <2>2, <2>3
<1>2. CASE persist_state(t) \/ snapshot_json(t)
  <2>1. UNCHANGED <<rev, sent, wpc, wsnap>> /\ Late' = Late
    BY <1>2 DEF persist_state, snapshot_json, At, WatchersWait, Late
  <2> QED
    BY <2>1, QuietTail DEF Owed
<1>3. CASE emit(t)
  <2>1. UNCHANGED <<rev, snap, wpc, wsnap>> /\ Late' = Late \ {t}
    BY <1>3 DEF emit, At, Late
  <2>2. t \in Late <=> snap[t] # rev
    BY <1>3 DEF emit, At, Late
  <2> SUFFICES ASSUME NEW w \in Watchers, rev \in Sent(w)'
               PROVE  \E i \in 1..Len(sent'[w]) :
                        /\ sent'[w][i] = rev
                        /\ (Len(sent'[w]) - i) + Cardinality(Late') + Owed(w)
                             <= Cardinality(Setters)
    BY <2>1 DEF TailInv, Owed
  <2>3. Owed(w) \in {0, 1}
    BY DEF Owed
  <2>4. Len(sent[w]) \in Nat
    OBVIOUS
  <2>5. /\ Cardinality(Late) \in Nat /\ Cardinality(Setters) \in Nat
        /\ Cardinality(Late') \in Nat
        /\ Cardinality(Late') + 1 <= Cardinality(Setters)
        /\ Cardinality(Late') <= Cardinality(Late)
        /\ snap[t] # rev => Cardinality(Late') + 1 <= Cardinality(Late)
    BY <2>1, <2>2, LateWithout, LateBounded
  <2>6. CASE sent'[w] = sent[w]
    <3>1. PICK i \in 1..Len(sent[w]) :
            /\ sent[w][i] = rev
            /\ (Len(sent[w]) - i) + Cardinality(Late) + Owed(w) <= Cardinality(Setters)
      BY <2>6 DEF TailInv, Sent
    <3> HIDE DEF TypeOK
    <3>2. (Len(sent[w]) - i) + Cardinality(Late') + Owed(w) <= Cardinality(Setters)
      BY <2>3, <2>4, <2>5, <3>1
    <3> QED
      BY <2>6, <3>1, <3>2
  <2>7. CASE sent'[w] = Append(sent[w], snap[t]) /\ snap[t] = rev
    <3> DEFINE n == Len(sent'[w])
    <3>1. n \in 1..n /\ sent'[w][n] = rev
      BY <2>4, <2>7, Sending
    <3>2. (n - n) + Cardinality(Late') + Owed(w) <= Cardinality(Setters)
      BY <2>3, <2>5, <3>1
    <3> QED
      BY <3>1, <3>2
  <2>8. CASE sent'[w] = Append(sent[w], snap[t]) /\ snap[t] # rev
    <3>1. Sent(w)' = Sent(w) \cup {snap[t]}
      BY <2>8, SentGrows
    <3>2. PICK i \in 1..Len(sent[w]) :
            /\ sent[w][i] = rev
            /\ (Len(sent[w]) - i) + Cardinality(Late) + Owed(w) <= Cardinality(Setters)
      BY <2>8, <3>1 DEF TailInv
    <3>3. /\ Len(sent'[w]) = Len(sent[w]) + 1
          /\ i \in 1..Len(sent'[w]) /\ sent'[w][i] = rev
      BY <2>4, <2>8, <3>2, Sending
    <3> HIDE DEF TypeOK
    <3>4. Cardinality(Late') + 1 <= Cardinality(Late)
      BY <2>5, <2>8
    <3>5. (Len(sent'[w]) - i) + Cardinality(Late') + Owed(w) <= Cardinality(Setters)
      <4>1. i \in Nat /\ Owed(w) \in Nat
        BY <2>3, <2>4, <3>2
      <4> QED
        BY <2>4, <2>5, <3>2, <3>3, <3>4, <4>1, OneMore
    <3> QED
      BY <3>3, <3>5
  <2> QED
    BY <1>3, <2>6, <2>7, <2>8 DEF emit
<1> QED
  BY <1>1, <1>2, <1>3 DEF Setter

LEMMA WatcherTail ==
  ASSUME TypeOK, TailInv, NEW v \in Watchers, Watcher(v)
  PROVE  TailInv'
<1> USE DEF TypeOK
<1>1. rev' = rev /\ Late' = Late
  BY DEF Watcher, Subscribes, Answered, TakesSnapshot, SendsSnapshot, Shows, HangsUp,
         SettersWait, Late
<1>2. CASE Subscribes(v) \/ Answered(v) \/ Shows(v) \/ HangsUp(v)
  BY <1>1, <1>2, QuietTail DEF Subscribes, Answered, Shows, HangsUp, Moves, Owed
<1>3. CASE TakesSnapshot(v)
  BY <1>1, <1>3, QuietTail DEF TakesSnapshot, Moves, Owed
<1>4. CASE SendsSnapshot(v)
  <2>1. /\ wpc[v] = "holding" /\ wpc'[v] = "in" /\ wsnap' = wsnap
        /\ sent'[v] = Append(sent[v], wsnap[v])
        /\ \A w \in Watchers \ {v} : sent'[w] = sent[w] /\ wpc'[w] = wpc[w]
    BY <1>4 DEF SendsSnapshot, Moves
  <2> SUFFICES ASSUME NEW w \in Watchers, rev \in Sent(w)'
               PROVE  \E i \in 1..Len(sent'[w]) :
                        /\ sent'[w][i] = rev
                        /\ (Len(sent'[w]) - i) + Cardinality(Late) + Owed(w)'
                             <= Cardinality(Setters)
    BY <1>1 DEF TailInv
  <2>2. CASE w # v
    <3> HIDE DEF TypeOK
    <3>1. sent'[w] = sent[w] /\ wpc'[w] = wpc[w] /\ wsnap'[w] = wsnap[w]
      BY <2>1, <2>2
    <3>2. Owed(w)' = Owed(w)
      BY <1>1, <3>1 DEF Owed
    <3>3. rev \in Sent(w)
      BY <3>1 DEF Sent
    <3> QED
      BY <3>1, <3>2, <3>3 DEF TailInv
  <2>3. CASE w = v /\ wsnap[v] = rev
    <3> DEFINE n == Len(sent'[v])
    <3>1. n \in 1..n /\ sent'[v][n] = rev
      BY <2>1, <2>3, Sending
    <3>2. (n - n) + Cardinality(Late) + Owed(v)' <= Cardinality(Setters)
      BY <2>1, <3>1, LateBounded DEF Owed
    <3> QED
      BY <2>3, <3>1, <3>2
  <2>4. CASE w = v /\ wsnap[v] # rev
    <3>1. Sent(v)' = Sent(v) \cup {wsnap[v]}
      BY <2>1, SentGrows
    <3>2. PICK i \in 1..Len(sent[v]) :
            /\ sent[v][i] = rev
            /\ (Len(sent[v]) - i) + Cardinality(Late) + Owed(v) <= Cardinality(Setters)
      BY <2>4, <3>1 DEF TailInv
    <3>3. /\ Len(sent'[v]) = Len(sent[v]) + 1 /\ Len(sent[v]) \in Nat
          /\ i \in 1..Len(sent'[v]) /\ sent'[v][i] = rev
      BY <2>1, <3>2, Sending
    <3>4. Owed(v) = 1 /\ Owed(v)' = 0
      BY <2>1, <2>4 DEF Owed
    <3> HIDE DEF TypeOK
    <3>5. (Len(sent'[v]) - i) + Cardinality(Late) + Owed(v)' <= Cardinality(Setters)
      BY <3>2, <3>3, <3>4, LateBounded
    <3> QED
      BY <2>4, <3>3, <3>5
  <2> QED
    BY <2>2, <2>3, <2>4
<1> QED
  BY <1>2, <1>3, <1>4 DEF Watcher

LEMMA TailStep == TypeOK /\ PastInv /\ TailInv /\ [Next]_vars => TailInv'
<1> SUFFICES ASSUME TypeOK, PastInv, TailInv, [Next]_vars
             PROVE  TailInv'
  OBVIOUS
<1>1. CASE Respawns
  BY <1>1 DEF Respawns, TailInv, Sent
<1>2. CASE UNCHANGED vars
  BY <1>2, QuietTail DEF vars, Late, Owed
<1>3. CASE engine_start
  <2>1. \A w \in Watchers : rev' \notin Sent(w)'
    BY <1>3, SentRevisions DEF engine_start, WatchersWait, PastInv, Sent, TypeOK
  <2> QED
    BY <2>1 DEF TailInv
<1> QED
  BY <1>1, <1>2, <1>3, SetterTail, WatcherTail DEF Next

(* What has been overtaken is bounded: an old state may be the last that a *)
(* subscriber is sent, but not more of them follow the newest one than     *)
(* there are threads that call set_state.                                  *)
THEOREM OvertakenAlwaysBounded == Spec => []OvertakenBounded
<1>1. Init => PastInv /\ TailInv /\ ListedInv /\ SentInv
  BY DEF Init, PastInv, TailInv, ListedInv, SentInv, Sent
<1>2. TypeOK /\ PastInv /\ TailInv /\ ListedInv /\ SentInv /\ [Next]_vars
        => PastInv' /\ TailInv' /\ ListedInv' /\ SentInv'
  BY PastStep, TailStep, ListedStep, SentStep
<1>3. TypeOK /\ SentInv /\ TailInv => OvertakenBounded
  <2> SUFFICES ASSUME TypeOK, SentInv, TailInv, NEW w \in Watchers, wpc[w] = "in",
                      ~silent, \A t \in Setters : pc[t] = "idle"
               PROVE  \E i \in 1..Len(sent[w]) :
                        sent[w][i] = rev /\ Len(sent[w]) - i <= Cardinality(Setters)
    BY DEF OvertakenBounded
  <2>1. rev \in Sent(w)
    BY DEF SentInv, Pending
  <2>2. PICK i \in 1..Len(sent[w]) :
          /\ sent[w][i] = rev
          /\ (Len(sent[w]) - i) + Cardinality(Late) + Owed(w) <= Cardinality(Setters)
    BY <2>1 DEF TailInv
  <2>3. Len(sent[w]) \in Nat /\ Owed(w) \in Nat
    BY DEF TypeOK, Owed
  <2>4. Len(sent[w]) - i <= Cardinality(Setters)
    BY <2>2, <2>3, LateBounded
  <2> QED
    BY <2>2, <2>4
<1> QED
  BY <1>1, <1>2, <1>3, TypeCorrect, PTL DEF Spec
=============================================================================
