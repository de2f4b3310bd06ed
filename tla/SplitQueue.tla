----------------------------- MODULE SplitQueue -----------------------------
(***************************************************************************)
(* The device side of a virtio split virtqueue (struct Queue in            *)
(* crates/virtio-queue/src/queue.rs), driven the way its documented        *)
(* consumption loop drives it, running concurrently with a guest driver    *)
(* that shares the descriptor/available/used rings with it.                *)
(*                                                                         *)
(* Device: the Queue fields next_avail, next_used, num_added and           *)
(* event_idx_enabled, plus the device model's loop position dpc and the    *)
(* chain it holds.  Shared memory: avail.idx, avail.ring, used_event,      *)
(* used.flags, used.idx, used.ring, avail_event.  Driver: a submit path    *)
(* (add, publish, kick decision) and a completion path (interrupt,         *)
(* reclaim, re-enable callbacks), modelled after the virtio standard.      *)
(*                                                                         *)
(* Every library call is one atomic step, except that a fence separates    *)
(* the store and the load of enable_notification and of                   *)
(* add_used/needs_notification: those are two steps, so the driver can    *)
(* run between them.  Memory is sequentially consistent: the SeqCst        *)
(* fences and the Release/Acquire pairs of the code are what justify it.   *)
(* 16-bit Wrapping<u16> counters are kept modulo 2^IdxWidth.               *)
(***************************************************************************)
EXTENDS EventIdx, Naturals, FiniteSets, Sequences

CONSTANTS
  QSize,      \* size the driver configured (queue.size), a power of two
  MaxDefers   \* bound on go_to_previous_position calls in a behaviour

ASSUME QSize \in {2 ^ k : k \in 0 .. IdxWidth - 1}
ASSUME MaxDefers \in Nat

Heads == 0 .. QSize - 1
NoHead == QSize                        \* "no chain in hand"
VRING_USED_F_NO_NOTIFY == 1

VARIABLES
  \* Queue (device)
  next_avail, next_used, num_added, event_idx_enabled,
  \* device model loop
  dpc, chain, defers,
  \* shared guest memory
  avail_idx, avail_ring, used_event,
  used_flags, used_idx, used_ring, avail_event,
  \* notifications in flight
  kicked, irq,
  \* driver
  spc, shadow_avail, kick_old, cpc, last_used, free

queue  == <<next_avail, next_used, num_added, event_idx_enabled>>
device == <<dpc, chain, defers>>
mem    == <<avail_idx, avail_ring, used_event, used_flags, used_idx, used_ring, avail_event>>
driver == <<spc, shadow_avail, kick_old, cpc, last_used, free>>
vars   == <<queue, device, mem, kicked, irq, driver>>

(* The ring slot of an index: index % size. *)
Slot(i) == i % QSize

-----------------------------------------------------------------------------
(***************************************************************************)
(* Queue operations (crates/virtio-queue/src/queue.rs).                    *)
(***************************************************************************)

(* set_notification(mem, false): with EVENT_IDX it does nothing, without  *)
(* it stores VRING_USED_F_NO_NOTIFY in used.flags.                         *)
DisableNotification ==
  /\ dpc = "disable"
  /\ used_flags' = IF event_idx_enabled THEN used_flags ELSE VRING_USED_F_NO_NOTIFY
  /\ dpc' = "pop"
  /\ UNCHANGED <<queue, chain, defers, avail_idx, avail_ring, used_event,
                 used_idx, used_ring, avail_event, kicked, irq, driver>>

(* iter(mem) loads avail.idx (Acquire); the iterator yields the head at    *)
(* ring slot next_avail % size and advances next_avail, or ends when       *)
(* next_avail equals the loaded index.                                     *)
PopDescriptorChain ==
  /\ dpc = "pop"
  /\ IF avail_idx = next_avail
       THEN /\ dpc' = "enable_arm"
            /\ UNCHANGED <<next_avail, chain>>
       ELSE /\ chain' = avail_ring[Slot(next_avail)]
            /\ next_avail' = Wrap(next_avail + 1)
            /\ dpc' = "add_used"
  /\ UNCHANGED <<next_used, num_added, event_idx_enabled, defers, mem,
                 kicked, irq, driver>>

(* Faulty variant of add_used: used.idx stored before next_used is       *)
(* incremented, so it publishes the old value.                             *)
AddUsedPublishOld ==
  /\ dpc = "add_used"
  /\ chain < QSize
  /\ used_ring' = [used_ring EXCEPT ![Slot(next_used)] = chain]
  /\ next_used' = Wrap(next_used + 1)
  /\ num_added' = Wrap(num_added + 1)
  /\ used_idx' = next_used
  /\ chain' = NoHead
  /\ dpc' = "needs_notif"
  /\ UNCHANGED <<next_avail, event_idx_enabled, defers, avail_idx, avail_ring,
                 used_event, used_flags, avail_event, kicked, irq, driver>>

(* add_used(mem, head, len): reject head >= size, write the element at     *)
(* slot next_used % size, bump next_used and num_added, store the new      *)
(* next_used into used.idx (Release).                                      *)
AddUsed ==
  /\ dpc = "add_used"
  /\ chain < QSize
  /\ used_ring' = [used_ring EXCEPT ![Slot(next_used)] = chain]
  /\ next_used' = Wrap(next_used + 1)
  /\ num_added' = Wrap(num_added + 1)
  /\ used_idx' = Wrap(next_used + 1)
  /\ chain' = NoHead
  /\ dpc' = "needs_notif"
  /\ UNCHANGED <<next_avail, event_idx_enabled, defers, avail_idx, avail_ring,
                 used_event, used_flags, avail_event, kicked, irq, driver>>

(* Faulty variant: the chain is dropped without rewinding next_avail. *)
GoToPreviousPositionNoRewind ==
  /\ dpc = "add_used"
  /\ defers < MaxDefers
  /\ chain' = NoHead
  /\ defers' = defers + 1
  /\ dpc' = "enable_arm"
  /\ UNCHANGED <<next_avail, next_used, num_added, event_idx_enabled, mem,
                 kicked, irq, driver>>

(* go_to_previous_position: the device model gives the chain back and     *)
(* leaves the inner loop; next_avail steps back by one.                    *)
GoToPreviousPosition ==
  /\ dpc = "add_used"
  /\ defers < MaxDefers
  /\ next_avail' = Wrap(next_avail - 1)
  /\ chain' = NoHead
  /\ defers' = defers + 1
  /\ dpc' = "enable_arm"
  /\ UNCHANGED <<next_used, num_added, event_idx_enabled, mem, kicked, irq, driver>>

(* Faulty variant: old taken as next_used, num_added ignored. *)
NeedsNotificationIgnoreAdded ==
  /\ dpc = "needs_notif"
  /\ LET notify == ~event_idx_enabled \/ NeedsEvent(used_event, next_used, next_used)
     IN /\ irq' = (irq \/ notify)
        /\ num_added' = IF event_idx_enabled THEN 0 ELSE num_added
  /\ dpc' = "pop"
  /\ UNCHANGED <<next_avail, next_used, event_idx_enabled, chain, defers, mem,
                 kicked, driver>>

(* needs_notification(mem): after the fence, without EVENT_IDX always      *)
(* true; with it load used_event, compute old = next_used - num_added,     *)
(* reset num_added and test whether used_event lies in [old, next_used).  *)
NeedsNotification ==
  /\ dpc = "needs_notif"
  /\ LET old == Wrap(next_used - num_added)
         notify == ~event_idx_enabled \/ NeedsEvent(used_event, next_used, old)
     IN /\ irq' = (irq \/ notify)
        /\ num_added' = IF event_idx_enabled THEN 0 ELSE num_added
  /\ dpc' = "pop"
  /\ UNCHANGED <<next_avail, next_used, event_idx_enabled, chain, defers, mem,
                 kicked, driver>>

(* enable_notification, first half: set_notification(mem, true) stores    *)
(* next_avail into avail_event with EVENT_IDX, or clears used.flags.      *)
EnableNotificationArm ==
  /\ dpc = "enable_arm"
  /\ IF event_idx_enabled
       THEN /\ avail_event' = next_avail
            /\ UNCHANGED used_flags
       ELSE /\ used_flags' = 0
            /\ UNCHANGED avail_event
  /\ dpc' = "enable_check"
  /\ UNCHANGED <<queue, chain, defers, avail_idx, avail_ring, used_event,
                 used_idx, used_ring, kicked, irq, driver>>

(* Faulty variant: enable_notification without the re-check of avail.idx. *)
EnableNotificationCheckNoRecheck ==
  /\ dpc = "enable_check"
  /\ dpc' = "idle"
  /\ UNCHANGED <<queue, chain, defers, mem, kicked, irq, driver>>

(* enable_notification, second half: after the SeqCst fence load avail.idx *)
(* and return avail_idx != next_avail; the loop runs again on true and     *)
(* waits for the next kick on false.                                       *)
EnableNotificationCheck ==
  /\ dpc = "enable_check"
  /\ dpc' = IF avail_idx # next_avail THEN "disable" ELSE "idle"
  /\ UNCHANGED <<queue, chain, defers, mem, kicked, irq, driver>>

(* The device model sleeps until the driver kicks the queue, then enters  *)
(* its consumption loop.                                                   *)
DeviceWake ==
  /\ dpc = "idle"
  /\ kicked
  /\ kicked' = FALSE
  /\ dpc' = "disable"
  /\ UNCHANGED <<queue, chain, defers, mem, irq, driver>>

-----------------------------------------------------------------------------
(***************************************************************************)
(* The guest driver, after the virtio standard (it is not code of this    *)
(* repository).                                                            *)
(***************************************************************************)

(* vring_need_event as the driver evaluates it for its kick decision. *)
DriverNeedEvent(event, new, old) == Dist(event, new - 1) < Dist(old, new)

(* Put a free head into the next slot of the available ring (unpublished). *)
DriverAdd(h) ==
  /\ spc = "idle"
  /\ h \in free
  /\ avail_ring' = [avail_ring EXCEPT ![Slot(shadow_avail)] = h]
  /\ shadow_avail' = Wrap(shadow_avail + 1)
  /\ free' = free \ {h}
  /\ UNCHANGED <<queue, device, avail_idx, used_event, used_flags, used_idx,
                 used_ring, avail_event, kicked, irq, spc, kick_old, cpc, last_used>>

(* Publish the added heads: store avail.idx (release), then decide.        *)
DriverPublish ==
  /\ spc = "idle"
  /\ shadow_avail # avail_idx
  /\ avail_idx' = shadow_avail
  /\ kick_old' = avail_idx
  /\ spc' = "kick_check"
  /\ UNCHANGED <<queue, device, avail_ring, used_event, used_flags, used_idx,
                 used_ring, avail_event, kicked, irq, shadow_avail, cpc, last_used, free>>

(* After a full barrier, read avail_event (EVENT_IDX) or used.flags and    *)
(* kick the device when it asked for it.                                   *)
DriverKickCheck ==
  /\ spc = "kick_check"
  /\ LET needs == IF event_idx_enabled
                    THEN DriverNeedEvent(avail_event, avail_idx, kick_old)
                    ELSE used_flags # VRING_USED_F_NO_NOTIFY
     IN kicked' = (kicked \/ needs)
  /\ spc' = "idle"
  /\ UNCHANGED <<queue, device, mem, irq, shadow_avail, kick_old, cpc, last_used, free>>

(* The interrupt handler runs when the device has signalled. *)
DriverInterrupt ==
  /\ cpc = "wait"
  /\ irq
  /\ irq' = FALSE
  /\ cpc' = "reclaim"
  /\ UNCHANGED <<queue, device, mem, kicked, spc, shadow_avail, kick_old, last_used, free>>

(* Take the next used element and free its head. *)
DriverReclaim ==
  /\ cpc = "reclaim"
  /\ used_idx # last_used
  /\ free' = free \cup {used_ring[Slot(last_used)]}
  /\ last_used' = Wrap(last_used + 1)
  /\ UNCHANGED <<queue, device, mem, kicked, irq, spc, shadow_avail, kick_old, cpc>>

(* Nothing more used: re-enable callbacks by storing last_used into        *)
(* used_event (EVENT_IDX), then re-check after a barrier.                  *)
DriverEnableCallbacks ==
  /\ cpc = "reclaim"
  /\ used_idx = last_used
  /\ used_event' = IF event_idx_enabled THEN last_used ELSE used_event
  /\ cpc' = "recheck"
  /\ UNCHANGED <<queue, device, avail_idx, avail_ring, used_flags, used_idx,
                 used_ring, avail_event, kicked, irq, spc, shadow_avail, kick_old,
                 last_used, free>>

DriverRecheck ==
  /\ cpc = "recheck"
  /\ cpc' = IF used_idx # last_used THEN "reclaim" ELSE "wait"
  /\ UNCHANGED <<queue, device, mem, kicked, irq, spc, shadow_avail, kick_old,
                 last_used, free>>

-----------------------------------------------------------------------------
Init ==
  /\ next_avail = 0 /\ next_used = 0 /\ num_added = 0
  /\ event_idx_enabled \in BOOLEAN
  /\ dpc = "idle" /\ chain = NoHead /\ defers = 0
  /\ avail_idx = 0 /\ avail_ring = [s \in Heads |-> 0] /\ used_event = 0
  /\ used_flags = 0 /\ used_idx = 0 /\ used_ring = [s \in Heads |-> 0]
  /\ avail_event = 0
  /\ kicked = FALSE /\ irq = FALSE
  /\ spc = "idle" /\ shadow_avail = 0 /\ kick_old = 0
  /\ cpc = "wait" /\ last_used = 0 /\ free = Heads

DeviceNext ==
  \/ DeviceWake \/ DisableNotification \/ PopDescriptorChain \/ AddUsed
  \/ GoToPreviousPosition \/ NeedsNotification
  \/ EnableNotificationArm \/ EnableNotificationCheck

DriverNext ==
  \/ \E h \in Heads : DriverAdd(h)
  \/ DriverPublish \/ DriverKickCheck
  \/ DriverInterrupt \/ DriverReclaim \/ DriverEnableCallbacks \/ DriverRecheck

Next == DeviceNext \/ DriverNext

(* The device thread runs whenever it has a step to take, and a chain it  *)
(* deferred is eventually processed (strong fairness on AddUsed); the      *)
(* driver publishes what it adds and its interrupt handler runs.  Adding   *)
(* new buffers is never forced.                                            *)
Fairness ==
  /\ WF_vars(DeviceWake \/ DisableNotification \/ PopDescriptorChain
             \/ NeedsNotification \/ EnableNotificationArm
             \/ EnableNotificationCheck)
  /\ SF_vars(AddUsed)
  /\ WF_vars(DriverPublish \/ DriverKickCheck)
  /\ WF_vars(DriverInterrupt \/ DriverReclaim \/ DriverEnableCallbacks
             \/ DriverRecheck)

Spec == Init /\ [][Next]_vars /\ Fairness

-----------------------------------------------------------------------------
(***************************************************************************)
(* Where each head is: the rings seen as windows of slots.                 *)
(***************************************************************************)
Window(ring, from, to) == [i \in 1 .. Dist(from, to) |-> ring[Slot(from + i - 1)]]

Staged    == Window(avail_ring, avail_idx, shadow_avail)
Available == Window(avail_ring, next_avail, avail_idx)
Used      == Window(used_ring, last_used, used_idx)
InHand    == IF chain = NoHead THEN <<>> ELSE <<chain>>

TypeOK ==
  /\ next_avail \in 0 .. M - 1 /\ next_used \in 0 .. M - 1
  /\ num_added \in 0 .. M - 1 /\ event_idx_enabled \in BOOLEAN
  /\ dpc \in {"idle", "disable", "pop", "add_used", "needs_notif",
              "enable_arm", "enable_check"}
  /\ chain \in Heads \cup {NoHead} /\ defers \in 0 .. MaxDefers
  /\ avail_idx \in 0 .. M - 1 /\ avail_ring \in [Heads -> Heads]
  /\ used_event \in 0 .. M - 1 /\ used_flags \in {0, VRING_USED_F_NO_NOTIFY}
  /\ used_idx \in 0 .. M - 1 /\ used_ring \in [Heads -> Heads]
  /\ avail_event \in 0 .. M - 1
  /\ kicked \in BOOLEAN /\ irq \in BOOLEAN
  /\ spc \in {"idle", "kick_check"} /\ shadow_avail \in 0 .. M - 1
  /\ kick_old \in 0 .. M - 1
  /\ cpc \in {"wait", "reclaim", "recheck"} /\ last_used \in 0 .. M - 1
  /\ free \subseteq Heads

(* Every descriptor head is in exactly one place: free in the driver,     *)
(* staged or published in the available ring, in the device's hand, or    *)
(* returned in the used ring.  A wrong slot, a lost or a doubled index    *)
(* step in add_used, the iterator or go_to_previous_position makes a head *)
(* vanish or appear twice.                                                 *)
HeadsConserved ==
  LET places == Staged \o Available \o InHand \o Used
  IN /\ Len(places) + Cardinality(free) = QSize
     /\ {places[i] : i \in DOMAIN places} \cup free = Heads

(* No lost wake-up: whenever the device sleeps while the driver has        *)
(* published chains it has not consumed, a kick is pending or the driver   *)
(* has yet to make its kick decision.  This is what the fence and the      *)
(* re-check in enable_notification are for.                                *)
NoLostWakeup ==
  (dpc = "idle" /\ avail_idx # next_avail) => (kicked \/ spc = "kick_check")

(* No lost interrupt: whenever the driver waits for an interrupt while     *)
(* used elements are there for it, an interrupt is pending or the device   *)
(* has yet to evaluate needs_notification for its last add_used.           *)
NoLostInterrupt ==
  (cpc = "wait" /\ used_idx # last_used) => (irq \/ dpc = "needs_notif")

(* Every buffer the driver hands out comes back to it. *)
EveryBufferReturned == \A h \in Heads : (h \notin free) ~> (h \in free)

(* The ring protocol implements the abstract virtqueue: with the windows  *)
(* of the rings as its lists, every step of device and driver is a step   *)
(* of Virtqueue or leaves it unchanged, so heads reach the device in the  *)
(* order the driver published them and return in the order completed.     *)
VQ == INSTANCE Virtqueue WITH
        free <- free, staged <- Staged, avail <- Available,
        inhand <- InHand, used <- Used

ImplementsVirtqueue == VQ!Spec

=============================================================================
