------------------------------ MODULE TableWalk ------------------------------
(***************************************************************************)
(* The descriptor chain walker (spec.md 4.2) composed with the descriptor  *)
(* table in guest memory (DescriptorLayout): the driver stores split       *)
(* descriptors into the table at any time, and each walker step loads the  *)
(* entry at next_index as the crate's Descriptor enum                       *)
(* (read_obj::<Descriptor>, ByteValued at descriptor/mod.rs:35), then uses *)
(* has_next and next on what it loaded.  The walker is not under src/ and  *)
(* follows the spec; the load and the accessors are the codec's.  A load   *)
(* whose tag is neither variant is undefined behaviour: the build may take *)
(* either match arm, so the step chooses the variant.                      *)
(***************************************************************************)
EXTENDS Descriptor, Naturals

CONSTANTS
  Entries,          \* descriptor table entries, and the walker's link bound
  AddrLow, AddrHigh, \* the low and high 32-bit halves of written addresses
  FlagInputs        \* flag words the driver may write

Index == 0 .. Entries - 1

VARIABLES
  bytes, written,   \* the table's memory and the descriptors stored in it
  next_index,       \* index of the descriptor the next step loads
  ttl,              \* links still allowed
  wpc               \* "walk", "done" (next() returned None) or "panic"
vars == <<bytes, written, next_index, ttl, wpc>>

Mem == INSTANCE DescriptorLayout

(* DescriptorChain::new(head_index) over a zeroed table. *)
Init ==
  /\ Mem!Init
  /\ next_index \in Index
  /\ ttl = Entries
  /\ wpc = "walk"

(* The descriptors a load of entry i can produce: the enum read, or for an *)
(* invalid tag either variant's view of the payload.                       *)
Loaded(i) ==
  LET d == EnumRead(bytes, 16 * i)
  IN IF d = Undefined THEN {Decode(v, bytes, 16 * i + EnumPayload) : v \in Variants}
                      ELSE {d}

(* next(): load the current descriptor; when has_next() holds, follow      *)
(* next() and spend one link, else end the chain.  next() on a packed      *)
(* descriptor is unimplemented!(), which panics the device thread.          *)
Yield ==
  /\ wpc = "walk" /\ ttl > 0 /\ next_index < Entries
  /\ \E d \in Loaded(next_index) :
       CASE ~HasNext(d)        -> ttl' = 0 /\ UNCHANGED <<next_index, wpc>>
         [] DescNext(d) = Panic -> wpc' = "panic" /\ UNCHANGED <<next_index, ttl>>
         [] OTHER              -> next_index' = DescNext(d) /\ ttl' = ttl - 1
                                  /\ UNCHANGED wpc
  /\ UNCHANGED <<bytes, written>>

(* next() returns None: no link left or an index outside the table. *)
End ==
  /\ wpc = "walk" /\ (ttl = 0 \/ next_index >= Entries)
  /\ wpc' = "done"
  /\ UNCHANGED <<bytes, written, next_index, ttl>>

(* The driver stores a split descriptor in entry e, concurrently with the *)
(* walk: guest memory is shared and the driver is not trusted.            *)
DriverWrite ==
  /\ \E e \in Index, lo \in AddrLow, hi \in AddrHigh, f \in FlagInputs, n \in Index :
       Mem!DriverWrite(e, SplitDescriptor(Le64(lo, hi), 0, f, n))
  /\ UNCHANGED <<next_index, ttl, wpc>>

Next == Yield \/ End \/ DriverWrite

Spec == Init /\ [][Next]_vars

-----------------------------------------------------------------------------
(* spec.md 7: no operation panics on malformed but in-range driver input;  *)
(* about the walker's next() on a descriptor loaded as the ByteValued enum, *)
(* whose tag the driver controls through the low word of an address.      *)
NoPanic == wpc # "panic"
=============================================================================
