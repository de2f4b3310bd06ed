------------------------------ MODULE Virtqueue ------------------------------
(***************************************************************************)
(* What a split virtqueue promises, without rings or indices: descriptor  *)
(* heads travel from the driver's free pool to a staged list, are          *)
(* published to the device in order, taken one at a time from the front,  *)
(* possibly given back to the front, completed into the used list, and     *)
(* reclaimed by the driver from its front.                                 *)
(***************************************************************************)
EXTENDS Sequences

CONSTANT Heads

VARIABLES free, staged, avail, inhand, used

vars == <<free, staged, avail, inhand, used>>

Init ==
  /\ free = Heads
  /\ staged = <<>> /\ avail = <<>> /\ inhand = <<>> /\ used = <<>>

Add(h) ==
  /\ h \in free
  /\ free' = free \ {h}
  /\ staged' = Append(staged, h)
  /\ UNCHANGED <<avail, inhand, used>>

Publish ==
  /\ staged # <<>>
  /\ avail' = avail \o staged
  /\ staged' = <<>>
  /\ UNCHANGED <<free, inhand, used>>

Take ==
  /\ avail # <<>> /\ inhand = <<>>
  /\ inhand' = <<Head(avail)>>
  /\ avail' = Tail(avail)
  /\ UNCHANGED <<free, staged, used>>

GiveBack ==
  /\ inhand # <<>>
  /\ avail' = inhand \o avail
  /\ inhand' = <<>>
  /\ UNCHANGED <<free, staged, used>>

Complete ==
  /\ inhand # <<>>
  /\ used' = used \o inhand
  /\ inhand' = <<>>
  /\ UNCHANGED <<free, staged, avail>>

Reclaim ==
  /\ used # <<>>
  /\ free' = free \cup {Head(used)}
  /\ used' = Tail(used)
  /\ UNCHANGED <<staged, avail, inhand>>

Next ==
  \/ \E h \in Heads : Add(h)
  \/ Publish \/ Take \/ GiveBack \/ Complete \/ Reclaim

Spec == Init /\ [][Next]_vars
=============================================================================
