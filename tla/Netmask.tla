------------------------------- MODULE Netmask -------------------------------
(***************************************************************************)
(* inode-routectl's conversions between dotted netmasks and prefix         *)
(* lengths.  A 32-bit word is the set of its bits that are 1, numbered     *)
(* from the most significant, 0, to 31.                                    *)
(***************************************************************************)
EXTENDS Integers

CONSTANTS
  Octets,   \* the octets tried
  Refused   \* Error::Route

VARIABLES
  netmask,  \* the four octets of INTERNAL_IP4_NETMASK
  prefix    \* what netmask_to_prefix makes of them; -1 before

vars == <<netmask, prefix>>

(* bits |= octet << (24 - 8 * i)                                           *)
Word(octets) ==
  {b \in 0..31 : (octets[(b \div 8) + 1] \div 2^(7 - (b % 8))) % 2 = 1}

(* The leading ones: (!bits).leading_zeros().                              *)
LeadingOnes(bits) ==
  CHOOSE n \in 0..32 : 0..(n - 1) \subseteq bits /\ n \notin bits

(* (1u32 << n) - 1 as the release build computes it: by 32 shifts by 0.    *)
LowBits(n) == (32 - (n % 32))..31

(* What becomes of the word.                                               *)
Accepted(bits) ==
  LET n == LeadingOnes(bits)
  IN  IF bits = {} THEN 0
      ELSE IF bits \cup LowBits(n) = 0..31 THEN n
      ELSE Refused

netmask_to_prefix(octets) == Accepted(Word(octets))

(* The executor on macOS converts back: u32::MAX << (32 - p).              *)
prefix_to_netmask(p) == 0..(p - 1)

-----------------------------------------------------------------------------
Init == netmask \in [1..4 -> Octets] /\ prefix = -1

Converts == prefix = -1 /\ prefix' = netmask_to_prefix(netmask) /\ UNCHANGED netmask

Next == Converts

Spec == Init /\ [][Next]_vars

-----------------------------------------------------------------------------
(* A netmask is converted to the prefix whose mask it is, and refused, as  *)
(* "non-contiguous", only if it is the mask of none.                       *)
InverseOfPrefix ==
  prefix # -1 =>
    \A p \in 0..32 : Word(netmask) = prefix_to_netmask(p) <=> prefix = p
=============================================================================
