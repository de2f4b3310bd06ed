# TLA+ models of vm-virtio's split virtqueue

This directory holds TLA+ models of `src/crates/virtio-queue/src/queue.rs`, the
device side of a virtio split virtqueue, together with the TLC configurations
that check them. `PROJECT.json` maps each definition to the source lines it
models, and lists the runs, the mutants, the findings and the hazards.

## The system

A `Queue` (queue.rs:84-115) is the device's view of three rings in guest
memory that it shares with the guest driver:

- the **descriptor table**, which the driver fills with buffers;
- the **available ring**: `flags`, `idx`, `ring[size]` and `used_event`. The
  driver publishes chain heads here.
- the **used ring**: `flags`, `idx`, `ring[size]` of `{id, len}` and
  `avail_event`. The device returns heads here.

The queue keeps these fields:

- `next_avail`, `next_used` and `num_added`, which are `Wrapping<u16>`;
- the configuration: size, ready, the three addresses and `event_idx_enabled`.

Two threads act on the shared memory:

- the **device thread** runs the loop from the doc example (queue.rs:49-69):
  `disable_notification`, then pop chains through `iter`/`pop_descriptor_chain`;
  per chain it calls `add_used` and then `needs_notification`; it ends with
  `enable_notification`, looping again if that returns true;
- the **guest driver** adds buffers, publishes `avail.idx`, kicks when the
  device asks for it, and reclaims used buffers when interrupted.

Notification suppression uses one of two schemes:

- `used.flags = NO_NOTIFY`, with plain interrupts;
- when EVENT_IDX is negotiated, `avail_event` and `used_event` with the
  wrapping test of queue.rs:478-484.

The transport's register writes call these setters (queue.rs:271-349):
`set_size`, the address setters with split 32-bit halves, `set_ready`,
`set_event_idx` and `reset`. Before the queue is used, `is_valid`
(queue.rs:220-269) checks the rings against guest memory.

### Inventory of components

| Component | Source | Module | Status |
|---|---|---|---|
| Consumption and notification protocol | queue.rs:118-533 | `SplitQueue`, refining `Virtqueue` | modelled |
| Event-index arithmetic | queue.rs:455-487 | `EventIdx`, `EventIdxSweep` | modelled |
| Configuration and validation | queue.rs:205-349, 493-503 | `QueueConfig` | modelled |
| Available-ring cursor `AvailIter` (not under src/) | queue.rs:522-529 | `SplitQueue`, `AvailRing` | modelled from spec.md 4.1, both readings |
| Descriptor chain walker `DescriptorChain` (not under src/) | descriptor/mod.rs:63-79 | `TableWalk` | modelled from spec.md 4.2 over the codec's enum read, without indirect tables |
| Descriptor codec | virtio-queue/src/descriptor/mod.rs, packed_descriptor.rs (descriptor.rs repeats mod.rs's enum) | `Descriptor`, `DescriptorLayout`, `TableWalk` | modelled |
| Packed event suppression struct `PackedDescEvent` | descriptor.rs:91-115 | none | not modelled: nothing uses it |

## Modules

- **EventIdx** is pure arithmetic:
  - `Wrap` is `Wrapping<u16>` reduced modulo `M = 2^IdxWidth`;
  - `Dist` is wrapping subtraction;
  - `NeedsEvent` is the test of queue.rs:483;
  - `PlacedAt` is the virtio rule: an element was placed at used index
    `used_event` during the batch;
  - `InSpecWindow` is spec.md's wording of the same rule.
- **SplitQueue** is the device loop against a driver. Its variables:
  - the `Queue` fields;
  - guest memory: avail idx and ring, `used_event`, `used.flags`, used idx and
    ring, `avail_event`;
  - the kick and interrupt lines;
  - the driver's state.

  Each device action is one step of the loop, with the whole of the method it
  models:
  - `DisableNotification`;
  - `PopDescriptorChain`, which is `iter` plus `AvailIter::next`;
  - `AddUsed`: the element write, both increments and the Release store;
  - `GoToPreviousPosition`;
  - `NeedsNotification`, which resets `num_added` only under EVENT_IDX, as the
    code does;
  - `EnableNotificationArm` / `EnableNotificationCheck`: the store, then the
    fence and re-read of `avail.idx`, as two steps, because the driver can run
    between them;
  - `DeviceWake`: the thread blocks until kicked.

  The driver follows the virtio standard and Linux's `virtqueue_kick_prepare` /
  `enable_cb` / re-check. It is the environment, so no source line maps to it.
  `ImplementsVirtqueue` maps the ring windows onto **Virtqueue**, an abstract
  FIFO of buffer heads (free, staged, avail, in hand, used).
- **EventIdxSweep** enumerates every `used_event`, start index and batch of
  `add_used` calls, then calls `needs_notification`. It records the code's
  answer next to the virtio rule and the spec's wording.
- **QueueConfig** covers `new`, every setter, `reset` and `is_valid`, with the
  real ring layout sizes. `Round` is one loop round on a validated queue. It
  records every guest access the round makes that leaves guest memory or
  overflows. Guest memory is one region `[MemBase, MemBase + MemSize)`, and
  `address_in_range` is membership in it.

- **Descriptor** is the codec, as operators over a descriptor record
  `[variant, addr, len, flags, link]`:
  - the enum's accessors, `next()` and the flag tests, computed with
    `Bitwise`'s `&` as the code does;
  - the setters;
  - the 16-byte little-endian layouts of both formats;
  - `EnumRead`, which reads the `#[repr(C)]` enum the way `ByteValued` allows:
    a 4-byte tag, then the payload at offset 8, 24 bytes in all.

  The `next()` that `unimplemented!()` reaches on a packed descriptor is the
  value `Panic`.
- **DescriptorLayout** is a descriptor table in guest memory: its bytes and
  the driver's `DriverWrite` of a split descriptor in the 16-byte layout.
  A descriptor's `addr` is kept as its 8 little-endian bytes (`Le64`), so
  that addresses at and above 2^32 can be written.
- **TableWalk** composes the table (`INSTANCE DescriptorLayout`) with the
  walker of spec.md 4.2. Each `Yield` loads the entry at `next_index` as the
  crate loads it, by `read_obj::<Descriptor>` of the ByteValued enum
  (`Loaded`, i.e. `EnumRead`), and then uses `has_next` and `next` on it. A
  tag that is neither 0 nor 1 is undefined behaviour, and the step may take
  either match arm. The driver may rewrite entries at any point in the walk.
- **AvailRing** is the documented loop against a driver that may decrement
  `avail.idx`, as `test_invalid_avail_idx` does. Notification suppression is
  left out, because EVENT_IDX is off there. `AvailIter` is not in src/, and
  spec.md 4.1 allows two readings of it, selected by `Reading`:
  - `"wrap"`: the iterator ends only at `next_avail = avail.idx`;
  - `"bounded"`: it also yields nothing while `avail.idx` is more than `size`
    ahead.

## Runs

| Run | What it shows |
|---|---|
| `split_safety` (MC_SplitQueue, SplitQueueSafety.cfg) | Device and driver interleave on a 2-entry ring, with EVENT_IDX on or off. Heads are conserved (`HeadsConserved`). The device never sleeps on published work without a kick on its way (`NoLostWakeup`). A waiting driver always has an interrupt or a pending `needs_notification` (`NoLostInterrupt`). The rings implement the abstract FIFO (`ImplementsVirtqueue`). About 500k states. |
| `split_liveness` (SplitQueueLiveness.cfg) | Every buffer the driver hands out eventually comes back (`EveryBufferReturned`). |
| `event_idx_sweep` | `needs_notification` answers exactly the virtio rule for all 16x16 (event, start) pairs and every batch of 0..15 at 4 bits, with re-arms between batches. |
| `event_idx_spec` (violation) | spec.md 4.1/8.6 say "true iff `used_event` in (old, next_used]". At 16 bits, TLC finds `used_event = 5` with `next_used` going 4 -> 5: the code says false, the spec says true. |
| `config` | Every sequence of register writes, resets and state restores keeps the ring arithmetic sound (`RingArithmeticSound`). `add_used`'s slot `next_used % size` is the driver's `idx & (size - 1)`, and consecutive indices take consecutive slots across the 16-bit wrap, which needs `size` to divide 2^16. Every atomic 16-bit ring access (queue.rs:135, 146, 193, 360, 372, 406) is 2-byte aligned. The setters run while the queue is ready, as the code allows (queue.rs:295-349). |
| `table_walk` (violation) | The walker panics (`NoPanic`, spec.md 7). The driver writes address 1 into entry 0 and address 2^48 into entry 1, with no NEXT flag in either. Read as the enum, entry 0 is a packed descriptor whose flags come from bytes 6-7 of entry 1's address. `has_next()` is therefore true, and `next()` reaches `unimplemented!()`. |
| `event_idx_wrap` (violation, EventIdxWrap.cfg) | At 3 bits, eight `add_used` calls between two `needs_notification` calls wrap `num_added` to 0, and the answer is false although `used_event` was passed (`NotifiesWhenEventPlaced`). |
| `avail_decrement` (AvailRingWrap.cfg) | Under the "wrap" reading, the loop gets back to sleep after any publishes and decrements (`LoopTerminates`). |
| `avail_decrement_stale` (violation) | Under the "wrap" reading, after a decrement below `next_avail` the loop yields chains from stale slots (`NoChainWhileBehind`, spec.md 8.9). |
| `avail_decrement_bounded` (violation) | Under the "bounded" reading, `enable_notification`'s `avail.idx != next_avail` keeps the loop going forever after a decrement (`LoopTerminates`, spec.md 8.9). |
| `config_exact_fit` (violation) | A ring that ends exactly at the end of guest memory is rejected by `is_valid`, which tests the address one past the end. spec.md 8.1 says such a queue is valid. |
| `config_memory_base` (violation, QueueConfigBase.cfg) | With guest memory at [32, 160), a round on a queue that passed `is_valid` accesses `used.flags` at address 0, outside memory (`ValidatedRoundInMemory`, spec.md 4.1/8.1). The avail ring was moved to 64; the used ring was left at its default 0, and its end 38 is in memory. `is_valid` tests only `start + len` of each ring. |

### Findings

The first two are divergences between spec.md and the code, and neither makes
the code unsafe.

- The code's event-index window is `[old, new)`, which matches the virtio
  standard, Linux, and the crate's own `test_needs_notification`. spec.md's
  window is off by one.
- `is_valid` is conservative by one byte.

This one is a code bug:

- `is_valid` tests only the end of each ring, `address_in_range(start +
  len)` (queue.rs:236-258). That is enough only when guest memory is one
  region that starts at 0. When memory is based higher, as on aarch64, or has
  holes, a ring that starts outside memory passes. The round's accesses then
  fail, and a used ring just below a region has its element written before
  the `used.idx` store fails (queue.rs:403). spec.md 8.1 asks for the whole
  ring in memory (`config_memory_base`).

The rest:

- The enum `Descriptor` is declared `ByteValued` (descriptor/mod.rs:35 and
  descriptor.rs:32), but an enum with fields cannot be read from arbitrary
  bytes. Its tag is the low bytes of the driver's address, so the driver
  chooses the variant, or undefined behaviour. With tag 1, the descriptor is
  packed. Its flags come from the next entry's address, and a walk of a split
  table panics in `next()` (descriptor/mod.rs:67). A guest can crash the
  device thread. This is a code bug.
- `num_added` wraps after 2^16 `add_used` calls without a
  `needs_notification` (queue.rs:404). The batching loop of queue.rs:416-434
  allows this, and the comment at queue.rs:466-472 claims to support it. The
  notification due for that batch is then lost. Linux, which the comment
  cites, kicks before its counter can wrap. This is a code bug at an extreme
  bound: the loop documented at queue.rs:53-69 checks after every
  `add_used`, and does not meet it.
- spec.md 8.9 cannot be met by queue.rs under either reading of spec.md 4.1:
  - under the "wrap" reading, which `test_invalid_avail_idx` needs in order to
    terminate, the loop walks stale slots;
  - under the "bounded" reading, the loop never ends because of
    `enable_notification`'s re-check.

### Mutants

Every property of a passing run is broken by a plausible bug in a mapped
definition (`PROJECT.json` "mutants"):

- `Wrap` without the modulo;
- `add_used` publishing the old index;
- `enable_notification` without its re-check;
- the event test off by one;
- `go_to_previous_position` not rewinding;
- `needs_notification` ignoring `num_added`;
- `set_size` accepting 0, or accepting a size that is not a power of two
  (which breaks the slot arithmetic at the index wrap);
- the pop not advancing `next_avail`.

## Bounds and why they are enough

- **SplitQueue**: QSize = 2 and IdxWidth = 2, so indices wrap every 4 steps.
  That covers both ring wrap and index wrap, and the code's `% size`
  requires size to divide 2^16, which holds for every power of two <= 2^15.
  MaxDefers = 1 allows one `go_to_previous_position` per behaviour
  (`defers` is never reset).
- **EventIdxSweep**: IdxWidth = 4 with batches up to M - 1 covers every
  relative position of `used_event`, `old` and `new`, since the test depends
  only on differences modulo M. A batch of M is the wrap of `num_added`, which
  `event_idx_wrap` checks at 3 bits. The 16-bit run replays the spec's own example
  at real width.
- **QueueConfig**: 4-bit address halves, so checked_add overflows at 256,
  memory is 128 bytes based at 0 (at 32 in `config_memory_base`, so that a
  ring can start below memory and end in it), and MaxSize = 4. The size inputs include 3, which
  is not a power of two, and IdxWidth = 3: a size of 3 does not divide 8, so
  set_size without its power-of-two test breaks the slot arithmetic at the
  wrap. The chosen address inputs reach
  in-range rings, rings overflowing the memory end, and rings overflowing the
  address space.
  MaxSize is assumed a power of two: `new()` and `reset()` take it
  unchecked (queue.rs:205, 273), so it is the VMM's contract, and the
  checked paths are the guest-reachable setters.

- **TableWalk**: 2 entries, so the 24-byte read of entry 0 runs into entry
  1. Address low halves are 0, 1 and 4096, which give tag 0, tag 1 and an
  invalid tag. High halves are 0 and 2^16, which sets bit 0 of the bytes a
  packed view takes as flags. Flags are 0 and 1, and `next` is either
  entry.
- **AvailRing**: QSize = 2, IdxWidth = 3, and 5 driver writes. That allows a
  decrement after consumption, a decrement from 0 that wraps, and publishes
  after a decrement. The deadlock check is off because a device asleep, after
  the driver's last write, is the loop's intended end.

## Fairness

The device thread runs whenever it is not blocked, which gives weak fairness
on its steps. `AddUsed` gets strong fairness. A chain deferred by
`go_to_previous_position` is served again at a later wake: the loop's
`add_used` is only disabled in states where the model has just deferred, so
this stands for "the device does not defer the same chain forever". The
driver publishes what it staged, kicks when asked, and handles interrupts,
which gives weak fairness on each path. Adding new buffers is not fair. The
walker and the AvailRing device thread are weakly fair, because the device loop
drains each chain and runs while it is not blocked.

## Not modelled

- Weak memory ordering: the model is sequentially consistent. The code's
  Release store and SeqCst fence are what make this abstraction sound; the
  ordering hazard is covered by `AddUsedPublishOld`.
- A driver that writes out-of-range heads. `add_used`'s error return at
  queue.rs:384 is not exercised: it returns before any state change, and
  the documented loop `unwrap()`s it, which is the caller's choice (spec.md
  7).
- Indirect descriptor tables: spec.md does not describe them, and the walker
  is not in src/.
- `PackedDescEvent` (descriptor.rs:91-115) and the packed ring. Packed
  traversal is `unimplemented!()` in the source. `PackedDescEvent` only
  stores two Le16 fields, its re-export is commented out, and nothing reads
  it. descriptor.rs has no `repr(C)` on it, so under `ByteValued` its field
  order is unspecified; this matters only once something uses it.

- `reset` racing the device loop. Every Queue method takes `&mut self`, and
  shared use goes through the `lock()` guard (queue.rs:283), so a reset runs
  between two methods, never inside one. QueueConfig has `Reset` at any point
  between rounds.
- `set_event_idx` flipped while the queue runs. EVENT_IDX is a feature that
  is negotiated before the driver sets DRIVER_OK, so a conforming transport
  sets it before the queue is used. SplitQueue chooses it in Init. (With it
  off, `num_added` is not reset, and a later flip would start from a stale
  count.)

## Plan for later sittings

1. Done: the decrementing driver (AvailRing). Still to do: a far-ahead
   `avail.idx`.
2. Dropped, see Not modelled: `reset` racing the loop and `set_event_idx`
   flipped mid-run.
3. Done: the walker, the codec and their composition (
   Descriptor, DescriptorLayout, TableWalk).
4. Done as findings: the wrap of `num_added` (`event_idx_wrap`) and the
   panic from guest bytes (`table_walk`).
5. Done: setters while ready, checked in `config`, with rounds that check
   `is_valid` again. A device model that validates only once is outside
   the crate.
