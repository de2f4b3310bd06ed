----------------------------- MODULE Descriptor -----------------------------
(***************************************************************************)
(* The descriptor codec (virtio-queue/src/descriptor/mod.rs,               *)
(* packed_descriptor.rs): a descriptor is a tagged union of the split and  *)
(* the packed format, with field accessors, flag tests and setters, and    *)
(* its little-endian wire layout.  A descriptor value is a record          *)
(*   [variant, addr, len, flags, link]                                     *)
(* where link is the split format's next field and the packed format's id, *)
(* and addr, a u64 beyond TLC's integers, is kept as its 8 little-endian   *)
(* bytes (Le64).                                                           *)
(***************************************************************************)
EXTENDS Integers, Bitwise

(* virtio_ring bindings. *)
VRING_DESC_F_NEXT == 1
VRING_DESC_F_WRITE == 2
VRING_DESC_F_INDIRECT == 4

Variants == {"split", "packed"}
Panic == -2                            \* unimplemented!() was reached

(* split::Descriptor::new (the split module is not under src/). *)
SplitDescriptor(addr, len, flags, next) ==
  [variant |-> "split", addr |-> addr, len |-> len, flags |-> flags, link |-> next]

(* packed::Descriptor::new(addr, len, id, flags). *)
PackedNew(addr, len, id, flags) ==
  [variant |-> "packed", addr |-> addr, len |-> len, flags |-> flags, link |-> id]

(* The accessors dispatch on the variant; both formats carry addr, len    *)
(* and flags.                                                              *)
Addr(d) == d.addr
DescLen(d) == d.len
Flags(d) == d.flags

(* next() (DescNext): the split next field; on a packed descriptor unimplemented!(). *)
DescNext(d) == IF d.variant = "split" THEN d.link ELSE Panic

(* The flag tests: flags() & BIT != 0. *)
HasNext(d) == (Flags(d) & VRING_DESC_F_NEXT) # 0
IsWriteOnly(d) == (Flags(d) & VRING_DESC_F_WRITE) # 0
RefersToIndirectTable(d) == (Flags(d) & VRING_DESC_F_INDIRECT) # 0

(* The setters: set_flags, set_addr, set_len dispatch on the variant;     *)
(* set_id is the packed format's.                                          *)
SetFlags(d, f) == [d EXCEPT !.flags = f]
SetAddr(d, a) == [d EXCEPT !.addr = a]
SetLen(d, l) == [d EXCEPT !.len = l]
PackedSetId(d, id) == [d EXCEPT !.link = id]
PackedId(d) == d.link

-----------------------------------------------------------------------------
(* Wire layout.  Every field is stored little-endian (Le16/Le32/Le64).    *)
(* len, flags and link are integers; a 4-byte value at or above 2^31,     *)
(* beyond TLC's integers, is the single value Wide, which no written field *)
(* has.                                                                    *)
Wide == -1
LeBytes(v, n) == [i \in 0 .. n - 1 |-> (v \div 256 ^ i) % 256]

(* The Le64 address whose low and high 32-bit halves are lo and hi. *)
Le64(lo, hi) == [i \in 0 .. 7 |-> IF i < 4 THEN LeBytes(lo, 4)[i] ELSE LeBytes(hi, 4)[i - 4]]

RECURSIVE LeSum(_, _, _)
LeSum(b, off, n) == IF n = 0 THEN 0 ELSE b[off] + 256 * LeSum(b, off + 1, n - 1)
LeValue(b, off, n) == IF n = 4 /\ b[off + 3] >= 128 THEN Wide ELSE LeSum(b, off, n)

(* Field order, offsets and widths of a 16-byte descriptor entry: the      *)
(* split format (spec.md 4.3) and the packed struct (addr, len, id, flags). *)
SplitFields == <<"addr", "len", "flags", "link">>
PackedFields == <<"addr", "len", "link", "flags">>
FieldOffset == <<0, 8, 12, 14>>
FieldWidth == <<8, 4, 2, 2>>
FieldsOf(v) == IF v = "split" THEN SplitFields ELSE PackedFields

(* The 16 bytes of d. *)
Encode(d) ==
  [i \in 0 .. 15 |->
     LET k == CHOOSE k \in 1 .. 4 : FieldOffset[k] <= i /\ i < FieldOffset[k] + FieldWidth[k]
         name == FieldsOf(d.variant)[k]
         enc == IF name = "addr" THEN d.addr ELSE LeBytes(d[name], FieldWidth[k])
     IN enc[i - FieldOffset[k]]]

(* The descriptor of format v stored at b[off .. off+15]. *)
Decode(v, b, off) ==
  LET At(name) == off + FieldOffset[CHOOSE k \in 1 .. 4 : FieldsOf(v)[k] = name]
      F(name) == LeValue(b, At(name), IF name = "len" THEN 4 ELSE 2)
  IN [variant |-> v, addr |-> [i \in 0 .. 7 |-> b[At("addr") + i]], len |-> F("len"),
      flags |-> F("flags"), link |-> F("link")]

(* The enum Descriptor is #[repr(C)] with fields: a C-int tag (0 for        *)
(* SplitDescriptor, 1 for PackedDescriptor) followed by the union of the   *)
(* two 16-byte payloads at its 8-byte alignment, 24 bytes in all.  Being   *)
(* ByteValued, it is read from any bytes; a tag other than 0 or 1 is an    *)
(* invalid discriminant, which is undefined behaviour.                      *)
EnumSize == 24
EnumPayload == 8
Undefined == [variant |-> "undefined", addr |-> [i \in 0 .. 7 |-> Wide], len |-> Wide, flags |-> Wide, link |-> Wide]
EnumRead(b, off) ==
  LET tag == LeValue(b, off, 4)
  IN CASE tag = 0 -> Decode("split", b, off + EnumPayload)
       [] tag = 1 -> Decode("packed", b, off + EnumPayload)
       [] OTHER   -> Undefined
=============================================================================
