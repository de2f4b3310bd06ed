------------------------------ MODULE AvailRing ------------------------------
(***************************************************************************)
(* The documented consumption loop (queue.rs:53-69) against a driver that  *)
(* may break the rule "a driver MUST NOT decrement avail.idx", as in       *)
(* test_invalid_avail_idx (queue.rs:928-1001).  The device reads avail.idx *)
(* through iter (queue.rs:522-529) and consumes with AvailIter::next, then *)
(* add_used, and ends a pass with enable_notification's re-check           *)
(* (queue.rs:436-449).  Notification suppression is left out: EVENT_IDX is *)
(* off as in the test, and the used.flags writes do not bear on when the   *)
(* loop ends.                                                              *)
(*                                                                         *)
(* AvailIter is not under src/; spec.md 4.1 gives it two readings, and     *)
(* Reading selects one:                                                    *)
(*   "wrap":    next() is None only when next_avail = avail.idx;           *)
(*   "bounded": next() is also None when avail.idx is not within size      *)
(*              entries ahead ("as if no new entries exist").              *)
(***************************************************************************)
EXTENDS EventIdx, Naturals

CONSTANTS
  QSize,            \* queue size
  MaxWrites,        \* bound on the driver's avail.idx writes
  Reading           \* "wrap" or "bounded"

ASSUME QSize \in {2 ^ k : k \in 0 .. IdxWidth - 1}
ASSUME MaxWrites \in Nat /\ Reading \in {"wrap", "bounded"}

VARIABLES
  next_avail, next_used,        \* Queue
  avail_idx, used_idx,          \* guest memory
  dpc,                          \* device loop position
  kicked,                       \* driver kick pending
  writes,                       \* avail.idx writes made
  behind                        \* avail.idx was decremented below next_avail
                                \* and has not moved past it since
vars == <<next_avail, next_used, avail_idx, used_idx, dpc, kicked, writes, behind>>

Init ==
  /\ next_avail = 0 /\ next_used = 0 /\ avail_idx = 0 /\ used_idx = 0
  /\ dpc = "idle" /\ kicked = FALSE /\ writes = 0 /\ behind = FALSE

(* AvailIter::next over the index iter read. *)
HasEntry(last) ==
  /\ last # next_avail
  /\ Reading = "bounded" => Dist(next_avail, last) <= QSize

(* disable_notification, then the first iter of the pass. *)
DisableNotification ==
  /\ dpc = "disable"
  /\ dpc' = "pop"
  /\ UNCHANGED <<next_avail, next_used, avail_idx, used_idx, kicked, writes, behind>>

(* Faulty variant of the pop: the chain is yielded without advancing     *)
(* next_avail.                                                             *)
PopNoAdvance ==
  /\ dpc = "pop"
  /\ dpc' = IF HasEntry(avail_idx) THEN "add_used" ELSE "enable"
  /\ UNCHANGED <<next_avail, next_used, avail_idx, used_idx, kicked, writes, behind>>

(* while let Some(chain) = q.iter(mem).unwrap().next(): iter loads        *)
(* avail.idx (Acquire) and next yields the chain at next_avail or None.    *)
PopDescriptorChain ==
  /\ dpc = "pop"
  /\ IF HasEntry(avail_idx)
       THEN next_avail' = Wrap(next_avail + 1) /\ dpc' = "add_used"
       ELSE UNCHANGED next_avail /\ dpc' = "enable"
  /\ UNCHANGED <<next_used, avail_idx, used_idx, kicked, writes, behind>>

(* add_used: write the element, next_used += 1, store used.idx (Release). *)
AddUsed ==
  /\ dpc = "add_used"
  /\ next_used' = Wrap(next_used + 1)
  /\ used_idx' = Wrap(next_used + 1)
  /\ dpc' = "pop"
  /\ UNCHANGED <<next_avail, avail_idx, kicked, writes, behind>>

(* enable_notification: true (loop again) iff avail.idx != next_avail. *)
EnableNotification ==
  /\ dpc = "enable"
  /\ dpc' = IF avail_idx # next_avail THEN "disable" ELSE "idle"
  /\ UNCHANGED <<next_avail, next_used, avail_idx, used_idx, kicked, writes, behind>>

(* The device thread sleeps until kicked. *)
DeviceWake ==
  /\ dpc = "idle" /\ kicked
  /\ dpc' = "disable" /\ kicked' = FALSE
  /\ UNCHANGED <<next_avail, next_used, avail_idx, used_idx, writes, behind>>

(* The driver publishes one more buffer and kicks, when it has one free. *)
DriverPublish ==
  /\ writes < MaxWrites
  /\ Dist(used_idx, avail_idx) < QSize
  /\ avail_idx' = Wrap(avail_idx + 1)
  /\ kicked' = TRUE /\ writes' = writes + 1
  /\ behind' = (behind /\ avail_idx' # Wrap(next_avail + 1))
  /\ UNCHANGED <<next_avail, next_used, used_idx, dpc>>

(* The driver decrements avail.idx (forbidden by the virtio spec) and     *)
(* kicks.                                                                  *)
DriverDecrement ==
  /\ writes < MaxWrites
  /\ avail_idx' = Wrap(avail_idx - 1)
  /\ kicked' = TRUE /\ writes' = writes + 1
  /\ behind' = (behind \/ Dist(avail_idx', next_avail) \in 1 .. QSize)
  /\ UNCHANGED <<next_avail, next_used, used_idx, dpc>>

Device == DisableNotification \/ PopDescriptorChain \/ AddUsed
            \/ EnableNotification \/ DeviceWake
Next == Device \/ DriverPublish \/ DriverDecrement

(* The device thread runs whenever it is not blocked. *)
Spec == Init /\ [][Next]_vars /\ WF_vars(Device)

-----------------------------------------------------------------------------
TypeOK ==
  /\ {next_avail, next_used, avail_idx, used_idx} \subseteq 0 .. M - 1
  /\ dpc \in {"idle", "disable", "pop", "add_used", "enable"}
  /\ kicked \in BOOLEAN /\ writes \in 0 .. MaxWrites /\ behind \in BOOLEAN

(* spec.md 8.9: once the driver has decremented avail.idx below            *)
(* next_avail, the loop yields no chain until avail.idx exceeds next_avail *)
(* again; about AvailIter::next over the index iter reads.                 *)
NoChainWhileBehind == [][dpc = "pop" /\ dpc' = "add_used" => ~behind]_vars

(* spec.md 8.9: the consumption loop terminates (the device gets back to  *)
(* sleep) after any driver writes, the decrement included; about          *)
(* enable_notification's re-check against next_avail.                     *)
LoopTerminates == <>[](dpc = "idle")
=============================================================================
