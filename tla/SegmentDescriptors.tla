------------------------- MODULE SegmentDescriptors -------------------------
(***************************************************************************)
(* Segment descriptors, src/src/gdt.c: their encoding, and the table that  *)
(* init_gdt builds.  A limit is a number of whole pages and the bytes      *)
(* above them, a base its four bytes, since TLC's integers have 32 bits.   *)
(***************************************************************************)
EXTENDS Ports, Sequences

LastPage == 1048575        \* 0xFFFFF, of a memory of 4 GiB

SegmentLimit == [pages : 0 .. LastPage, rest : 0 .. 4095]

SegmentBase == [0 .. 3 -> Byte]

SegmentDescriptor == [0 .. 7 -> Byte]

\* The limit field of a large segment: the last page that is whole.
PagesField(limit) == IF limit.rest # 4095 THEN limit.pages - 1 ELSE limit.pages

\* set_segment_descriptor: below 64 KiB the limit is in bytes, else in pages.
set_segment_descriptor(base, limit, type) ==
  LET small == limit.pages < 16
      field == IF small THEN 4096 * limit.pages + limit.rest ELSE PagesField(limit)
  IN [b \in 0 .. 7 |->
        CASE b = 0 -> field % 256
          [] b = 1 -> (field \div 256) % 256
          [] b = 2 -> base[0]
          [] b = 3 -> base[1]
          [] b = 4 -> base[2]
          [] b = 5 -> type
          [] b = 6 -> (IF small THEN 64 ELSE 192) + ((field \div 65536) % 16)
          [] b = 7 -> base[3]]

\* get_segment_base returns a uint16_t: the two low bytes.
get_segment_base(d) == 256 * d[3] + d[2]

\* get_segment_limit returns the field, in bytes or in pages.
get_segment_limit(d) == 65536 * (d[6] % 16) + 256 * d[1] + d[0]

-----------------------------------------------------------------------------
(* What the processor makes of a descriptor                                *)

EffectiveLimit(d) ==
  LET field == get_segment_limit(d) IN
  IF d[6] >= 128 THEN [pages |-> field, rest |-> 4095]
  ELSE [pages |-> field \div 4096, rest |-> field % 4096]

EffectiveBase(d) == [i \in 0 .. 3 |-> IF i = 3 THEN d[7] ELSE d[i + 2]]

Present(d)  == d[5] >= 128

\* Bits 4, 3 and 1 of the type: code, and data that can be written.
IsCode(d)   == (d[5] \div 8) % 4 = 3
IsData(d)   == (d[5] \div 8) % 4 = 2 /\ (d[5] \div 2) % 2 = 1

-----------------------------------------------------------------------------
(* init_gdt                                                                *)

ZeroBase  == [i \in 0 .. 3 |-> 0]
ZeroLimit == [pages |-> 0, rest |-> 0]
MaxLimit  == [pages |-> LastPage, rest |-> 4095]     \* 0xFFFFFFFF

\* Present, and all of memory.
Flat(d) == Present(d) /\ EffectiveBase(d) = ZeroBase /\ EffectiveLimit(d) = MaxLimit

\* Mutant: no unused entry after the null segment.
GlobalDescriptorTableNoGap == <<
  set_segment_descriptor(ZeroBase, ZeroLimit, 0),
  set_segment_descriptor(ZeroBase, MaxLimit, 154),
  set_segment_descriptor(ZeroBase, MaxLimit, 146) >>

\* The fields of struct GlobalDescriptorTable, in order.
GlobalDescriptorTable == <<
  set_segment_descriptor(ZeroBase, ZeroLimit, 0),       \* nullSegment
  set_segment_descriptor(ZeroBase, ZeroLimit, 0),       \* unused
  set_segment_descriptor(ZeroBase, MaxLimit, 154),      \* codeSegment, 0x9A
  set_segment_descriptor(ZeroBase, MaxLimit, 146) >>    \* dataSegment, 0x92

\* The offsets of the two segments in the table.
get_code_segment == 8 * 2
get_data_segment == 8 * 3

\* The descriptor a selector names in a table: its index is above bit 3.
Selected(table, selector) == table[selector \div 8 + 1]

Selects(table, selector) == selector \div 8 + 1 \in 1 .. Len(table)
=============================================================================
