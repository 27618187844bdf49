--------------------------------- MODULE VGA ---------------------------------
(***************************************************************************)
(* The VGA driver, src/src/drivers/vga.c: the register writes of mode 13h, *)
(* and what a pixel needs.  Width and Height are 320 and 200 in the code.  *)
(***************************************************************************)
EXTENDS VGACard, Sequences

CONSTANTS Width, Height

ASSUME ScreenAssumption == Width \in Nat \ {0} /\ Height \in Nat \ {0}

\* vga_init
vga == [
  miscPort                     |-> Port8Bit(962),    \* 0x3C2
  crtcIndexPort                |-> Port8Bit(980),    \* 0x3D4
  crtcDataPort                 |-> Port8Bit(981),    \* 0x3D5
  sequencerIndexPort           |-> Port8Bit(964),    \* 0x3C4
  sequencerDataPort            |-> Port8Bit(965),    \* 0x3C5
  graphicsControllerIndexPort  |-> Port8Bit(974),    \* 0x3CE
  graphicsControllerDataPort   |-> Port8Bit(975),    \* 0x3CF
  attributeControllerIndexPort |-> Port8Bit(960),    \* 0x3C0
  attributeControllerReadPort  |-> Port8Bit(961),    \* 0x3C1
  attributeControllerWritePort |-> Port8Bit(960),    \* 0x3C0
  attributeControllerResetPort |-> Port8Bit(986) ]   \* 0x3DA

-----------------------------------------------------------------------------
(* g_320x200x256                                                           *)

MISC == 99

SEQ == [i \in 0 .. 4 |-> <<3, 1, 15, 0, 14>>[i + 1]]

CRTC == [i \in 0 .. 24 |->
  << 95, 79, 80, 130, 84, 128, 191, 31,  0, 65, 0, 0, 0, 0, 0, 0,
     156, 14, 143, 40, 64, 150, 185, 163,  255 >>[i + 1]]

GC == [i \in 0 .. 8 |-> <<0, 0, 0, 0, 0, 64, 5, 15, 255>>[i + 1]]

AC == [i \in 0 .. 20 |-> IF i < 16 THEN i ELSE <<65, 0, 15, 0, 0>>[i - 15]]

\* The array after vga_write_registers has changed it.
CRTCValues == [CRTC EXCEPT ![3] = SetBit7(@), ![17] = ClearBit7(@)]

-----------------------------------------------------------------------------
(* vga_write_registers, one operator per register or loop iteration        *)

WriteIndexed(card, index, data, i, v) == Write(Write(card, index, i), data, v)

WriteMisc(card) == Write(card, vga.miscPort, MISC)

WriteSequencer(card, i) ==
  WriteIndexed(card, vga.sequencerIndexPort, vga.sequencerDataPort, i, SEQ[i])

\* Mutant: the lock is left as the firmware had it.
UnlockForgotten(card) == card

\* Read, change and write registers 0x03 and 0x11.
Unlock(card) ==
  LET c1 == Write(card, vga.crtcIndexPort, 3)
      c2 == Write(c1, vga.crtcDataPort, SetBit7(Read(c1, vga.crtcDataPort)))
      c3 == Write(c2, vga.crtcIndexPort, 17)
  IN Write(c3, vga.crtcDataPort, ClearBit7(Read(c3, vga.crtcDataPort)))

WriteCRTC(card, i) ==
  WriteIndexed(card, vga.crtcIndexPort, vga.crtcDataPort, i, CRTCValues[i])

WriteGraphicsController(card, i) ==
  WriteIndexed(card, vga.graphicsControllerIndexPort, vga.graphicsControllerDataPort, i, GC[i])

WriteAttributeController(card, i) ==
  WriteIndexed(ReadStatus(card, vga.attributeControllerResetPort),
               vga.attributeControllerIndexPort, vga.attributeControllerWritePort, i, AC[i])

EnableVideo(card) ==
  Write(ReadStatus(card, vga.attributeControllerResetPort),
        vga.attributeControllerIndexPort, 32)

SupportsMode(width, height, colordepth) ==
  width = Width /\ height = Height /\ colordepth = 8

-----------------------------------------------------------------------------
(* Pixels                                                                  *)

GraphicsMemory == 655360      \* 0xA0000

\* vga_get_frame_buffer_segment, first the index write, then the data read.
SelectMemoryMap(card) == Write(card, vga.graphicsControllerIndexPort, 6)

FrameBufferSegment(card) ==
  LET segmentNumber == (Read(card, vga.graphicsControllerDataPort) \div 4) % 4 IN
  CASE segmentNumber = 0 -> 0
    [] segmentNumber = 1 -> GraphicsMemory
    [] segmentNumber = 2 -> 720896     \* 0xB0000
    [] segmentNumber = 3 -> 753664     \* 0xB8000

\* Mutant: the right edge is not clipped.
ClippedAtLeftOnly(x, y) == x < 0 \/ y < 0 \/ y >= Height

\* The early return of vga_put_pixel_index.
Clipped(x, y) == x < 0 \/ x >= Width \/ y < 0 \/ y >= Height

PixelOffset(x, y) == Width * y + x

\* vga_get_color_index
ColorIndex(rgb) ==
  CASE rgb = <<0, 0, 0>>       -> 0
    [] rgb = <<0, 0, 168>>     -> 1
    [] rgb = <<0, 168, 0>>     -> 2
    [] rgb = <<168, 0, 0>>     -> 4
    [] rgb = <<255, 255, 255>> -> 63
    [] OTHER -> 0
=============================================================================
