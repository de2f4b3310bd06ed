------------------------------- MODULE EventIdx -------------------------------
(***************************************************************************)
(* Wrapping<u16> index arithmetic of crates/virtio-queue/src/queue.rs and  *)
(* the event-index test of needs_notification, with the index width as a  *)
(* parameter (16 in the code).                                             *)
(***************************************************************************)
EXTENDS Naturals

CONSTANT IdxWidth   \* bits of a ring index

ASSUME IdxWidth \in Nat \ {0}

M == 2 ^ IdxWidth

(* Faulty variant: counters that never wrap. *)
WrapNone(x) == x

(* A Wrapping<u16> value after + or -. *)
Wrap(x) == x % M

(* to - from in Wrapping<u16>: how far from is behind to. *)
Dist(from, to) == (to - from) % M

(* Faulty variant: the "- 1" of the event-index test left out. *)
NeedsEventOffByOne(event, new, old) == Dist(event, new) < Dist(old, new)

(* used_idx - used_event - 1 < used_idx - old, in Wrapping<u16>. *)
NeedsEvent(event, new, old) == Dist(event, new - 1) < Dist(old, new)

(* The virtio standard's rule: notify when some element of the batch was   *)
(* placed at used index used_event, i.e. the used index moved through      *)
(* used_event while it advanced n times from old.                          *)
PlacedAt(event, old, n) == \E k \in 0 .. n - 1 : Wrap(old + k) = event

(* The rule as spec.md states it: used_event lies in the circular          *)
(* half-open interval (old, next_used].                                    *)
InSpecWindow(event, old, n) == \E k \in 1 .. n : Wrap(old + k) = event
=============================================================================
