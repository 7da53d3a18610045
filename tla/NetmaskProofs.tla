---------------------------- MODULE NetmaskProofs ----------------------------
(***************************************************************************)
(* Which words netmask_to_prefix accepts, and as what: of all 2^32, not    *)
(* only of those that run netmask tries.                                   *)
(***************************************************************************)
EXTENDS Netmask, WellFoundedInduction, TLAPS

Words == SUBSET (0..31)

(* The word has exactly n leading ones.                                    *)
Leads(bits, n) == 0..(n - 1) \subseteq bits /\ n \notin bits

LEMMA LeadsUnique ==
  ASSUME NEW bits, NEW m \in 0..32, NEW n \in 0..32, Leads(bits, m), Leads(bits, n)
  PROVE  m = n
<1>1. ASSUME NEW i \in 0..32, NEW j \in 0..32, i < j, Leads(bits, j)
      PROVE  i \in bits
  BY <1>1 DEF Leads
<1> QED
  BY <1>1 DEF Leads

(* The count is that of the ones before the first zero.                    *)
LEMMA LeadingOnesOf ==
  ASSUME NEW bits, NEW n \in 0..32, Leads(bits, n)
  PROVE  LeadingOnes(bits) = n
BY LeadsUnique DEF LeadingOnes, Leads

(* With n ones in front, the check of the rest fills in the last n bits,   *)
(* not the last 32 - n.  So it passes when the two meet, whatever lies     *)
(* behind the first zero, and fails when they do not.                      *)
LEMMA CheckFills ==
  ASSUME NEW bits \in Words, NEW n \in 0..32, Leads(bits, n)
  PROVE  bits \cup LowBits(n) = 0..31 <=> n >= 16
<1>1. LowBits(n) = IF n = 32 THEN {} ELSE (32 - n)..31
  <2>1. CASE n = 32
    BY <2>1 DEF LowBits
  <2>2. CASE n < 32
    <3>1. n % 32 = n
      BY <2>2
    <3> QED
      BY <2>2, <3>1 DEF LowBits
  <2> QED
    BY <2>1, <2>2
<1>2. /\ \A b \in LowBits(n) : b \in 0..31
      /\ \A b \in bits : b \in 0..31
  <2>1. \A b \in bits : b \in 0..31
    BY DEF Words
  <2>2. CASE n = 32
    BY <1>1, <2>1, <2>2
  <2>3. CASE n < 32
    <3>1. LowBits(n) = (32 - n)..31
      BY <1>1, <2>3
    <3>2. ASSUME NEW b \in (32 - n)..31
          PROVE  b \in 0..31
      OBVIOUS
    <3>3. \A b \in LowBits(n) : b \in 0..31
      BY <3>1, <3>2
    <3> QED
      BY <2>1, <3>3
  <2> QED
    BY <2>1, <2>2, <2>3
<1>3. CASE n >= 16
  <2>1. \A b \in 0..31 : b \in bits \/ b \in LowBits(n)
    BY <1>1, <1>3 DEF Leads
  <2> QED
    BY <1>2, <1>3, <2>1
<1>4. CASE n < 16
  <2>1. n \in 0..31 /\ n \notin bits /\ n \notin LowBits(n)
    BY <1>1, <1>4 DEF Leads
  <2> QED
    BY <1>4, <2>1
<1> QED
  BY <1>3, <1>4

(* Every word has its count.                                               *)
LEMMA LeadsSome ==
  ASSUME NEW bits \in Words
  PROVE  \E n \in 0..32 : Leads(bits, n)
<1>1. \A b \in bits : b \in 0..31
  BY DEF Words
<1>2. CASE 0..31 \subseteq bits
  BY <1>1, <1>2 DEF Leads
<1>3. CASE ~(0..31 \subseteq bits)
  <2> DEFINE Zeros == (0..31) \ bits
             Less  == OpToRel(<, Nat)
  <2>1. Zeros \subseteq Nat /\ Zeros # {}
    BY <1>3
  <2>2. \A m, n \in Nat : m < n => <<m, n>> \in Less
    BY DEF OpToRel
  <2>3. PICK n \in Zeros : \A m \in Zeros : ~ (<<m, n>> \in Less)
    <3> HIDE DEF Zeros, Less
    <3>1. IsWellFoundedOn(Less, Nat)
      BY NatLessThanWellFounded DEF Less
    <3> QED
      BY <2>1, <3>1, WFMin
  <2>4. \A m \in 0..(n - 1) : m \in bits
    <3> SUFFICES ASSUME NEW m \in 0..(n - 1), m \notin bits
                 PROVE  FALSE
      OBVIOUS
    <3>1. m \in Zeros /\ m < n /\ n \in Nat /\ m \in Nat
      OBVIOUS
    <3> HIDE DEF Zeros, Less
    <3> QED
      BY <2>2, <2>3, <3>1
  <2> QED
    BY <2>4 DEF Leads
<1> QED
  BY <1>2, <1>3

-----------------------------------------------------------------------------
(* A netmask becomes the number of its leading ones if these are sixteen   *)
(* or more, and whatever follows its first zero; the empty mask becomes 0; *)
(* every other one is refused as non-contiguous.                           *)
THEOREM AcceptedFromSixteen ==
  ASSUME NEW octets, NEW n \in 0..32, Leads(Word(octets), n)
  PROVE  netmask_to_prefix(octets) =
           IF Word(octets) = {} THEN 0 ELSE IF n >= 16 THEN n ELSE Refused
<1>1. Word(octets) \in Words
  BY DEF Word, Words
<1>2. LeadingOnes(Word(octets)) = n
  BY LeadingOnesOf
<1>3. Word(octets) \cup LowBits(n) = 0..31 <=> n >= 16
  BY <1>1, CheckFills
<1> QED
  BY <1>2, <1>3 DEF netmask_to_prefix, Accepted

(* Of the masks of prefixes, those of 0 and of 16 to 32 are converted to   *)
(* their prefix and those of 1 to 15 refused, although each is contiguous. *)
THEOREM ShortPrefixesRefused ==
  ASSUME NEW octets, NEW p \in 0..32, Word(octets) = prefix_to_netmask(p)
  PROVE  netmask_to_prefix(octets) = IF p \in 1..15 THEN Refused ELSE p
<1>1. Leads(Word(octets), p)
  BY DEF Leads, prefix_to_netmask
<1>2. Word(octets) = {} <=> p = 0
  <2>1. p # 0 => 0 \in 0..(p - 1)
    OBVIOUS
  <2>2. p = 0 => 0..(p - 1) = {}
    OBVIOUS
  <2> QED
    BY <2>1, <2>2 DEF prefix_to_netmask
<1> QED
  BY <1>1, <1>2, AcceptedFromSixteen

(* Whatever the netmask, it has a number of leading ones, and that number  *)
(* alone decides what the route plan gets: bits behind a gap are ignored.  *)
THEOREM LeadingOnesDecide ==
  Spec => [](prefix # -1 =>
               \E n \in 0..32 :
                 /\ Leads(Word(netmask), n)
                 /\ prefix = IF Word(netmask) = {} THEN 0
                             ELSE IF n >= 16 THEN n ELSE Refused)
<1> DEFINE Decided(bits, p) ==
             \E n \in 0..32 :
               /\ Leads(bits, n)
               /\ p = IF bits = {} THEN 0 ELSE IF n >= 16 THEN n ELSE Refused
           Inv == prefix # -1 => Decided(Word(netmask), prefix)
<1>1. Init => Inv
  BY DEF Init
<1>2. ASSUME Inv, [Next]_vars
      PROVE  Inv'
  <2>1. CASE UNCHANGED vars
    BY <1>2, <2>1 DEF vars, Word, Leads
  <2>2. CASE Next
    <3>1. prefix' = netmask_to_prefix(netmask) /\ netmask' = netmask
      BY <2>2 DEF Next, Converts
    <3>2. PICK n \in 0..32 : Leads(Word(netmask), n)
      BY LeadsSome DEF Word, Words
    <3>3. Decided(Word(netmask), netmask_to_prefix(netmask))
      BY <3>2, AcceptedFromSixteen
    <3>4. Word(netmask)' = Word(netmask)
      BY <3>1 DEF Word
    <3> QED
      BY <3>1, <3>3, <3>4 DEF Leads
  <2> QED
    BY <1>2, <2>1, <2>2
<1>3. Inv /\ [Next]_vars => Inv'
  BY <1>2
<1> QED
  BY <1>1, <1>3, PTL DEF Spec
=============================================================================
