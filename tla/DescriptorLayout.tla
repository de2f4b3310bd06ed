--------------------------- MODULE DescriptorLayout ---------------------------
(***************************************************************************)
(* A descriptor table in guest memory, written by the driver in the       *)
(* 16-byte split layout (spec.md 4.3, 5).  The device reads it as the      *)
(* crate's Descriptor type, which is ByteValued (descriptor/mod.rs:35):     *)
(* read_obj::<Descriptor> copies EnumSize bytes at desc_table + 16 * index *)
(* into an enum value (EnumRead); TableWalk composes this memory with the  *)
(* chain walker that does so.                                              *)
(***************************************************************************)
EXTENDS Descriptor, Naturals

CONSTANTS
  Entries           \* descriptor table entries the driver writes

(* The memory backing the table, with room for a 24-byte read of the last *)
(* entry; guest memory starts zeroed.                                       *)
MemBytes == 0 .. 16 * Entries + EnumSize - 1

VARIABLES bytes, written

Store(b, off, enc) == [i \in DOMAIN b |-> IF i - off \in DOMAIN enc THEN enc[i - off] ELSE b[i]]

Init ==
  /\ bytes = [i \in MemBytes |-> 0]
  /\ written = [e \in 0 .. Entries - 1 |-> SplitDescriptor(Le64(0, 0), 0, 0, 0)]

(* The driver stores a split descriptor in entry e. *)
DriverWrite(e, d) ==
  /\ bytes' = Store(bytes, 16 * e, Encode(d))
  /\ written' = [written EXCEPT ![e] = d]
=============================================================================
