----------------------------- MODULE QueueConfig -----------------------------
(***************************************************************************)
(* Configuration and validation of a Queue (crates/virtio-queue/src/      *)
(* queue.rs): new, the setters the transport calls on driver register     *)
(* writes, reset, is_valid, and the guest addresses one consumption round *)
(* then touches.  Guest memory is one region [MemBase, MemBase+MemSize), *)
(* and address_in_range is membership in it.  A 64-bit address is two     *)
(* halves of HalfBits bits (32 in the code), so                           *)
(* checked_add overflows at 2^(2*HalfBits).  The ring layout sizes are     *)
(* the real ones (virtio 1.1, 2.6).                                        *)
(***************************************************************************)
EXTENDS EventIdx, Integers, FiniteSets, Bitwise

CONSTANTS
  MaxSize,      \* max_size given to Queue::new
  HalfBits,     \* bits of one half of a guest address
  MemBase,      \* guest memory starts here (0 on x86, above 0 on e.g. aarch64)
  MemSize,      \* and is MemSize bytes long
  SizeInputs,   \* values the driver writes to the size register
  LowInputs,    \* values of a low address half
  HighInputs    \* values of a high address half

None == -1                             \* Option<u32>::None (halves are >= 0)
NoAddr == -2                           \* checked_add returned None

AddrLimit == 2 ^ (2 * HalfBits)
HalfLimit == 2 ^ HalfBits

(* new() and reset() take max_size as given (queue.rs:205, 273), with no *)
(* power-of-two test: the VMM that builds the queue must pass one.        *)
ASSUME MaxSize \in {2 ^ k : k \in 0 .. IdxWidth - 1}
ASSUME MemBase \in Nat /\ MemSize \in 1 .. AddrLimit - MemBase

(* Ring layout (crate::defs and the virtio standard). *)
DescSize == 16
AvailHeader == 4
AvailElem == 2
AvailMeta == 6                         \* header + used_event
UsedHeader == 4
UsedElem == 8
UsedMeta == 6                          \* header + avail_event
DEFAULT_ADDR == 0                      \* DEFAULT_{DESC_TABLE,AVAIL_RING,USED_RING}_ADDR

VARIABLES
  size, ready, desc_table, avail_ring, used_ring,
  next_avail, next_used, event_idx_enabled,
  stray                                \* accesses of the last round outside memory

cfg  == <<size, ready, desc_table, avail_ring, used_ring, event_idx_enabled>>
ctrs == <<next_avail, next_used>>
vars == <<cfg, ctrs, stray>>

(* GuestAddress::checked_add. *)
CheckedAdd(a, n) == IF a + n < AddrLimit THEN a + n ELSE NoAddr

(* GuestMemory::address_in_range for the single region. *)
AddressInRange(a) == a \in MemBase .. MemBase + MemSize - 1

-----------------------------------------------------------------------------
(* Queue::new(max_size). *)
Init ==
  /\ size = MaxSize /\ ready = FALSE
  /\ desc_table = DEFAULT_ADDR /\ avail_ring = DEFAULT_ADDR /\ used_ring = DEFAULT_ADDR
  /\ next_avail = 0 /\ next_used = 0
  /\ event_idx_enabled = FALSE
  /\ stray = {}

(* Faulty variant of set_size: size 0 let through. *)
SetSizeNoZeroCheck(s) ==
  /\ size' = IF s > MaxSize \/ s \notin {0} \cup {2 ^ k : k \in 0 .. IdxWidth}
               THEN size ELSE s
  /\ UNCHANGED <<ready, desc_table, avail_ring, used_ring, event_idx_enabled, ctrs, stray>>

(* Faulty variant of set_size: the power-of-two test left out. *)
SetSizeAnyLength(s) ==
  /\ size' = IF s > MaxSize \/ s = 0 THEN size ELSE s
  /\ UNCHANGED <<ready, desc_table, avail_ring, used_ring, event_idx_enabled, ctrs, stray>>

(* set_size: refuse 0, more than max_size, or not a power of two. *)
SetSize(s) ==
  /\ size' = IF s > MaxSize \/ s = 0 \/ s \notin {2 ^ k : k \in 0 .. IdxWidth}
               THEN size ELSE s
  /\ UNCHANGED <<ready, desc_table, avail_ring, used_ring, event_idx_enabled, ctrs, stray>>

SetReady(b) ==
  /\ ready' = b
  /\ UNCHANGED <<size, desc_table, avail_ring, used_ring, event_idx_enabled, ctrs, stray>>

SetEventIdx(b) ==
  /\ event_idx_enabled' = b
  /\ UNCHANGED <<size, ready, desc_table, avail_ring, used_ring, ctrs, stray>>

(* The three address setters: each half replaced when given, kept when    *)
(* None; the result is refused when (addr & mask) != 0.                    *)
Combine(cur, low, high) ==
  LET lo == IF low = None THEN cur % HalfLimit ELSE low
      hi == IF high = None THEN cur \div HalfLimit ELSE high
  IN hi * HalfLimit + lo

SetAligned(cur, low, high, align) ==
  LET a == Combine(cur, low, high) IN IF a % align # 0 THEN cur ELSE a

SetDescTableAddress(low, high) ==
  /\ desc_table' = SetAligned(desc_table, low, high, 16)
  /\ UNCHANGED <<size, ready, avail_ring, used_ring, event_idx_enabled, ctrs, stray>>

SetAvailRingAddress(low, high) ==
  /\ avail_ring' = SetAligned(avail_ring, low, high, 2)
  /\ UNCHANGED <<size, ready, desc_table, used_ring, event_idx_enabled, ctrs, stray>>

SetUsedRingAddress(low, high) ==
  /\ used_ring' = SetAligned(used_ring, low, high, 4)
  /\ UNCHANGED <<size, ready, desc_table, avail_ring, event_idx_enabled, ctrs, stray>>

(* set_next_avail / set_next_used (state restore). *)
SetNextAvail(v) ==
  /\ next_avail' = v
  /\ UNCHANGED <<cfg, next_used, stray>>

SetNextUsed(v) ==
  /\ next_used' = v
  /\ UNCHANGED <<cfg, next_avail, stray>>

(* reset: everything but max_size back to the values of new. *)
Reset ==
  /\ size' = MaxSize /\ ready' = FALSE
  /\ desc_table' = DEFAULT_ADDR /\ avail_ring' = DEFAULT_ADDR /\ used_ring' = DEFAULT_ADDR
  /\ next_avail' = 0 /\ next_used' = 0
  /\ event_idx_enabled' = FALSE
  /\ UNCHANGED stray

-----------------------------------------------------------------------------
(* is_valid: ready, and start + length of each ring, if it does not        *)
(* overflow, is an address in range.                                       *)
RegionOk(start, len) ==
  LET e == CheckedAdd(start, len) IN e # NoAddr /\ AddressInRange(e)

IsValid ==
  /\ ready
  /\ RegionOk(desc_table, DescSize * size)
  /\ RegionOk(avail_ring, AvailMeta + AvailElem * size)
  /\ RegionOk(used_ring, UsedMeta + UsedElem * size)

(* The guest ranges a Queue method accesses, as [addr, len] with addr =   *)
(* NoAddr where checked_add fails (Error::AddressOverflow).                 *)
Access(a, len) == [addr |-> a, len |-> len]

AvailIdxAccess == Access(CheckedAdd(avail_ring, 2), 2)
AvailSlotAccess(i) == Access(avail_ring + AvailHeader + AvailElem * (i % size), 2)
UsedEventAccess == Access(CheckedAdd(avail_ring, AvailHeader + size * AvailElem), 2)
UsedFlagsAccess == Access(used_ring, 2)
UsedElemAccess ==
  Access(CheckedAdd(used_ring, UsedHeader + (next_used % size) * UsedElem), UsedElem)
UsedIdxAccess == Access(CheckedAdd(used_ring, 2), 2)
AvailEventAccess == Access(CheckedAdd(used_ring, UsedHeader + UsedElem * size), 2)
DescAccess(h) == Access(desc_table + DescSize * h, DescSize)

InMemory(a) == a.addr # NoAddr /\ MemBase <= a.addr /\ a.addr + a.len <= MemBase + MemSize

(* One round of the documented loop on a queue that passed is_valid:      *)
(* disable_notification, pop one chain (head h, when the driver offered    *)
(* one), read its descriptor, add_used, needs_notification,                *)
(* enable_notification.  A queue that fails is_valid is not used.          *)
Round ==
  \E pop \in BOOLEAN, h \in 0 .. size - 1 :
    LET notif == IF event_idx_enabled THEN {UsedEventAccess, AvailEventAccess}
                                      ELSE {UsedFlagsAccess}
        chain == IF pop THEN {AvailSlotAccess(next_avail), DescAccess(h),
                              UsedElemAccess, UsedIdxAccess}
                        ELSE {}
    IN /\ IsValid
       /\ stray' = {a \in {AvailIdxAccess} \cup notif \cup chain : ~InMemory(a)}
       /\ next_avail' = IF pop THEN Wrap(next_avail + 1) ELSE next_avail
       /\ next_used' = IF pop THEN Wrap(next_used + 1) ELSE next_used
       /\ UNCHANGED cfg

Options(S) == S \cup {None}

Next ==
  \/ \E s \in SizeInputs : SetSize(s)
  \/ \E b \in BOOLEAN : SetReady(b) \/ SetEventIdx(b)
  \/ \E lo \in Options(LowInputs), hi \in Options(HighInputs) :
       \/ SetDescTableAddress(lo, hi)
       \/ SetAvailRingAddress(lo, hi)
       \/ SetUsedRingAddress(lo, hi)
  \/ \E v \in 0 .. M - 1 : SetNextAvail(v) \/ SetNextUsed(v)
  \/ Reset
  \/ Round

Spec == Init /\ [][Next]_vars

-----------------------------------------------------------------------------
TypeOK ==
  /\ size \in 1 .. MaxSize /\ ready \in BOOLEAN
  /\ {desc_table, avail_ring, used_ring} \subseteq 0 .. AddrLimit - 1
  /\ {next_avail, next_used} \subseteq 0 .. M - 1
  /\ event_idx_enabled \in BOOLEAN
  /\ \A a \in stray : a.addr \in {NoAddr} \cup (0 .. 2 * AddrLimit) /\ a.len \in Nat

(* The 16-bit ring fields the Queue reads and writes atomically (mem.load *)
(* and mem.store at queue.rs:135, 146, 193, 360, 372, 406).                 *)
AtomicAccesses == {AvailIdxAccess, UsedEventAccess, UsedFlagsAccess, UsedIdxAccess,
                   AvailEventAccess}

(* Whatever sequence of register writes, resets and state restores the    *)
(* driver makes, the ring arithmetic of the device stays sound: the slot   *)
(* next_used % size that add_used writes (queue.rs:392) is the driver's    *)
(* idx & (size - 1), consecutive indices take consecutive slots across the *)
(* wrap of the Wrapping<u16> counters, and every atomic 16-bit access is   *)
(* 2-byte aligned.  About set_size's power-of-two test and the address    *)
(* setters' alignment masks.                                               *)
RingArithmeticSound ==
  /\ size \in 1 .. MaxSize
  /\ \A i \in 0 .. M - 1 :
       /\ i % size = (i & (size - 1))
       /\ Wrap(i + 1) % size = ((i % size) + 1) % size
  /\ \A a \in AtomicAccesses : a.addr = NoAddr \/ a.addr % 2 = 0

(* spec.md 4.1 and 8.1: a round on a queue that passed is_valid touches   *)
(* only guest memory and never meets an address overflow, used_event and  *)
(* avail_event included, at every value of next_avail and next_used;      *)
(* about is_valid testing only address_in_range(start + len) of each ring. *)
ValidatedRoundInMemory == stray = {}

(* spec.md 8.1: a ready queue whose three rings fit in guest memory is     *)
(* valid.                                                                  *)
Fits(start, len) == MemBase <= start /\ start + len <= MemBase + MemSize
RingsThatFitAreValid ==
  ( /\ ready
    /\ Fits(desc_table, DescSize * size)
    /\ Fits(avail_ring, AvailMeta + AvailElem * size)
    /\ Fits(used_ring, UsedMeta + UsedElem * size) ) => IsValid
=============================================================================
