------------------------------ MODULE TvmSlots ------------------------------
(***************************************************************************)
(* The host-owned memory behind DuckDB's spill files (tvm_register,        *)
(* tvm_resolve, TvmManagerHost and TvmBytesHost in lib.rs).  The library   *)
(* tvm_core keeps regions and the blocks in them, and tells one            *)
(* incarnation of a region from the next; the host adds a generation to    *)
(* every slot (region, offset), which is all that tells the blocks apart   *)
(* that were allocated there one after the other.                          *)
(*                                                                         *)
(* Bytes are left out: what matters is which block a call reaches.         *)
(***************************************************************************)
EXTENDS Integers

CONSTANTS
  Regions, Offsets,
  Width,            \* generations of a slot: 2^16
  None,             \* no block in a slot
  MaxAllocs         \* bound: allocations in one slot, incarnations of a region

VARIABLES
  up,               \* the regions that exist
  incarnation,      \* tvm_core's generation of each region
  used,             \* the slots that tvm_core has given out
  gen, block,       \* tvm_slots: the generation, and the block if it is not freed
  count,            \* history: allocations in each slot
  handles,          \* history: every handle the core was given
  owned             \* history: those that are neither freed nor destroyed

vars == <<up, incarnation, used, gen, block, count, handles, owned>>

TvmAssumption == Width \in Nat \ {0} /\ MaxAllocs \in Nat /\ None \notin Nat
ASSUME TvmAssumption

Slots == Regions \X Offsets

(* Block: the incarnation of the region it was allocated in.  A handle     *)
(* names a slot and a generation; nth says which block it was given for.   *)
Handle == [slot : Slots, gen : 0..(Width - 1), nth : Nat]

(* u16::wrapping_add(1)                                                    *)
NextGen(g) == IF g + 1 = Width THEN 0 ELSE g + 1

Init ==
  /\ up = {} /\ incarnation = [r \in Regions |-> 0] /\ used = {}
  /\ gen = [s \in Slots |-> 0] /\ block = [s \in Slots |-> None]
  /\ count = [s \in Slots |-> 0] /\ handles = {} /\ owned = {}

-----------------------------------------------------------------------------
(* Faulty variant: the generation is not compared.                         *)
ResolvesAny(h) == block[h.slot] # None

(* tvm_resolve: the slot's generation is the handle's, and it has a block. *)
Resolves(h) == gen[h.slot] = h.gen /\ block[h.slot] # None

(* tvm_core accepts the block: its region is there, in that incarnation.   *)
Accepts(s) == s[1] \in up /\ block[s] = incarnation[s[1]]

(* A read or a write with this handle reaches the block in its slot.       *)
Serves(h) == Resolves(h) /\ Accepts(h.slot)

(* A handle older than this has seen its slot's generation turn over.      *)
Recent(h) == count[h.slot] - h.nth < Width

CreateRegion(r) ==
  /\ r \notin up /\ incarnation[r] < MaxAllocs
  /\ up' = up \cup {r}
  /\ incarnation' = [incarnation EXCEPT ![r] = @ + 1]
  /\ UNCHANGED <<used, gen, block, count, handles, owned>>

(* destroy-region leaves the host's slots as they are.                     *)
DestroyRegion(r) ==
  /\ r \in up
  /\ up' = up \ {r}
  /\ used' = {s \in used : s[1] # r}
  /\ owned' = {h \in owned : h.slot[1] # r}
  /\ UNCHANGED <<incarnation, gen, block, count, handles>>

(* tvm_register: the slot's generation is bumped on each reallocation.     *)
Register(s) == gen' = [gen EXCEPT ![s] = NextGen(@)]

Issued(s) == NextGen(gen[s])

(* alloc: the allocator chooses an offset that is free.                    *)
Alloc(s) ==
  LET h == [slot |-> s, gen |-> Issued(s), nth |-> count[s] + 1] IN
  /\ s[1] \in up /\ s \notin used /\ count[s] < MaxAllocs
  /\ used' = used \cup {s}
  /\ Register(s)
  /\ block' = [block EXCEPT ![s] = incarnation[s[1]]]
  /\ count' = [count EXCEPT ![s] = @ + 1]
  /\ handles' = handles \cup {h} /\ owned' = owned \cup {h}
  /\ UNCHANGED <<up, incarnation>>

(* dealloc of any handle the core ever had (an old one again, too, unless  *)
(* its slot has turned over): the slot is marked freed, then tvm_core      *)
(* gives the block back, or refuses one of a region that is gone.          *)
Dealloc(h) ==
  /\ Recent(h) /\ Resolves(h)
  /\ block' = [block EXCEPT ![h.slot] = None]
  /\ used' = IF Accepts(h.slot) THEN used \ {h.slot} ELSE used
  /\ owned' = owned \ {h}
  /\ UNCHANGED <<up, incarnation, gen, count, handles>>

Next ==
  \/ \E r \in Regions : CreateRegion(r) \/ DestroyRegion(r)
  \/ \E s \in Slots : Alloc(s)
  \/ \E h \in handles : Dealloc(h)

Spec == Init /\ [][Next]_vars

-----------------------------------------------------------------------------
TypeOK ==
  /\ up \subseteq Regions /\ incarnation \in [Regions -> Nat]
  /\ used \subseteq Slots
  /\ gen \in [Slots -> 0..(Width - 1)] /\ block \in [Slots -> Nat \cup {None}]
  /\ count \in [Slots -> Nat]
  /\ handles \subseteq Handle /\ owned \subseteq handles

(* A handle reaches no block but its own: not after it was freed, not when *)
(* the slot was given out again, not in a new region of the same number,   *)
(* as long as the slot was reallocated less than Width times since.        *)
OwnBlock ==
  \A h \in handles : Serves(h) /\ Recent(h) => h.nth = count[h.slot] /\ h \in owned

(* A handle that was neither freed nor lost its region is always served.   *)
OwnedServed == \A h \in owned : Serves(h)

(* What tvm_core keeps allocated is what handles stand for, no more.       *)
Footprint == used = {h.slot : h \in owned}

=============================================================================
