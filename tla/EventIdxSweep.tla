---------------------------- MODULE EventIdxSweep ----------------------------
(***************************************************************************)
(* The used-ring side of the event-index mechanism in isolation:           *)
(* add_used advances next_used and num_added, needs_notification decides  *)
(* from used_event, next_used and num_added and resets num_added, and the  *)
(* driver may store any used_event at any time.  Each decision is recorded *)
(* next to the virtio standard's rule and spec.md's wording, evaluated on  *)
(* the true number of add_used calls since the previous decision.          *)
(***************************************************************************)
EXTENDS EventIdx

CONSTANTS
  EventValues,  \* values the driver may store in used_event
  StartValues,  \* values next_used may start from (set_next_used)
  MaxBatch      \* most add_used calls between two needs_notification calls

VARIABLES used_event, next_used, num_added, batch, last

vars == <<used_event, next_used, num_added, batch, last>>

Init ==
  /\ used_event \in EventValues
  /\ next_used \in StartValues
  /\ num_added = 0
  /\ batch = 0
  /\ last = [notify |-> FALSE, placed |-> FALSE, window |-> FALSE]

(* add_used: next_used += 1, num_added += 1 (both Wrapping<u16>). *)
AddUsed ==
  /\ batch < MaxBatch
  /\ next_used' = Wrap(next_used + 1)
  /\ num_added' = Wrap(num_added + 1)
  /\ batch' = batch + 1
  /\ UNCHANGED <<used_event, last>>

(* needs_notification with EVENT_IDX: old = next_used - num_added,        *)
(* num_added = 0, answer NeedsEvent(used_event, next_used, old).           *)
NeedsNotification ==
  /\ LET old == Wrap(next_used - num_added)
         from == Wrap(next_used - batch)
     IN last' = [notify |-> NeedsEvent(used_event, next_used, old),
                 placed |-> PlacedAt(used_event, from, batch),
                 window |-> InSpecWindow(used_event, from, batch)]
  /\ num_added' = 0
  /\ batch' = 0
  /\ UNCHANGED <<used_event, next_used>>

(* The driver re-arms: it stores a new used_event. *)
SetUsedEvent(e) ==
  /\ used_event' = e
  /\ UNCHANGED <<next_used, num_added, batch, last>>

Next ==
  \/ AddUsed
  \/ NeedsNotification
  \/ \E e \in EventValues : SetUsedEvent(e)

Spec == Init /\ [][Next]_vars

TypeOK ==
  /\ used_event \in 0 .. M - 1 /\ next_used \in 0 .. M - 1
  /\ num_added \in 0 .. M - 1 /\ batch \in 0 .. MaxBatch
  /\ last \in [notify : BOOLEAN, placed : BOOLEAN, window : BOOLEAN]

(* needs_notification answers true exactly when one of the add_used calls  *)
(* since the previous call placed an element at used index used_event      *)
(* (virtio 1.1, 2.6.7.2), across the wrap of the 16-bit indices and after  *)
(* any sequence of re-arms by the driver.                                  *)
NotifiesWhenEventPlaced == last.notify = last.placed

(* spec.md 4.1 and 8.6: needs_notification answers true exactly when       *)
(* used_event lies in (old, next_used]; with used_event = 5 and one        *)
(* add_used per call, true at next_used = 5.                               *)
NotifiesAsSpecified == last.notify = last.window
=============================================================================
