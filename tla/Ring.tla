-------------------------------- MODULE Ring --------------------------------
(***************************************************************************)
(* The arithmetic of the fabric's rings: free-running 32-bit positions     *)
(* that wrap, and the slots they stand for.                                *)
(***************************************************************************)
EXTENDS Integers

CONSTANTS
  Size,      \* slots of the ring: HS_SPSC_SIZE, HS_SUBMIT_SIZE, HS_QUEUE_SIZE
  Laps,      \* how often the ring fits into the range of a position
  Msg,       \* message contents
  None       \* an unwritten slot, a thread that holds no message

ASSUME SizeAssumption == Size \in Nat /\ Size >= 1
ASSUME LapsAssumption == Laps \in Nat /\ Laps >= 2
ASSUME NoneAssumption == None \notin Msg

\* The range of a position: 2^32 in the code, a multiple of Size because both
\* are powers of two.
PosMod == Laps * Size
Pos == 0 .. PosMod - 1
Slot == 0 .. Size - 1

\* hs_ring_index: pos & (size - 1), with size a power of two.
Index(p) == p % Size

\* u32 addition and subtraction.
Plus(p, k) == (p + k) % PosMod
Dist(a, b) == (a + PosMod - b) % PosMod
=============================================================================
