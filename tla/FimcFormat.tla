------------------------------ MODULE FimcFormat ------------------------------
(***************************************************************************)
(* Pixel formats and sizes of the FIMC frames (s3c_fimc_cfg.c,             *)
(* s3c_fimc3x_regs.c): what VIDIOC_S_FMT makes of a V4L2 pixel format, how *)
(* many pages a frame takes, where the planes of an input frame lie, and   *)
(* the bursts in which a line is written.  A frame is a record with the    *)
(* fields of s3c_fimc_in_frame or s3c_fimc_out_frame; enumerators keep     *)
(* their names without the prefix.                                         *)
(***************************************************************************)
EXTENDS Integers

PageSize == 4096

Rgb     == {"RGB565", "RGB666", "RGB888"}
Formats == Rgb \cup {"YCBCR420", "YCBCR422"}

Packed422   == {"YUYV", "YVYU", "UYVY", "VYUY"}
Jpegs       == {"JPEG", "MJPEG"}
Planar420_2 == {"NV12", "NV21", "NV12X", "NV21X"}
Planar422_2 == {"NV16", "NV61", "NV16X", "NV61X"}

\* The pixel formats the driver knows; S_FMT accepts any other one as well and
\* then changes the size alone.
PixelFormats == {"RGB565", "RGB24", "YUV420", "YUV422P"}
                  \cup Packed422 \cup Jpegs \cup Planar420_2 \cup Planar422_2

FormatOf(p) ==
    CASE p = "RGB565"                              -> "RGB565"
      [] p = "RGB24"                               -> "RGB888"
      [] p \in Planar420_2 \cup {"YUV420"}         -> "YCBCR420"
      [] p \in PixelFormats \ (Planar420_2 \cup {"YUV420", "RGB565", "RGB24"})
                                                   -> "YCBCR422"

PlanesOf(p) ==
    CASE p \in {"RGB565", "RGB24"} \cup Packed422 \cup Jpegs -> 1
      [] p \in Planar420_2 \cup Planar422_2                  -> 2
      [] p \in {"YUV420", "YUV422P"}                         -> 3

\* The orders of the components.
Orders == {"YCBYCR", "YCRYCB", "CBYCRY", "CRYCBY",
           "LSB_CBCR", "LSB_CRCB", "MSB_CBCR", "MSB_CRCB"}

Order2p == [NV12  |-> "LSB_CBCR", NV21  |-> "LSB_CRCB",
            NV12X |-> "MSB_CBCR", NV21X |-> "MSB_CRCB"]

\* The orders of the two-plane 4:2:2 formats go into order_1p too.
Order1p == [YUYV |-> "YCBYCR", YVYU |-> "YCRYCB",
            UYVY |-> "CBYCRY", VYUY |-> "CRYCBY",
            NV16  |-> "LSB_CBCR", NV61  |-> "LSB_CRCB",
            NV16X |-> "MSB_CBCR", NV61X |-> "MSB_CRCB"]
OutOrder1p == [p \in DOMAIN Order1p \cup Jpegs |->
                  IF p \in Jpegs THEN "YCBYCR" ELSE Order1p[p]]

\* A table entry, or what was there before.
Keep(table, p, old) == IF p \in DOMAIN table THEN table[p] ELSE old

SetFormat(f, known, p, orders, width, height) ==
    [f EXCEPT !.width    = width,
              !.height   = height,
              !.format   = IF p \in known THEN FormatOf(p) ELSE @,
              !.planes   = IF p \in known THEN PlanesOf(p) ELSE @,
              !.order_1p = Keep(orders, p, @),
              !.order_2p = Keep(Order2p, p, @)]

\* The input path knows no JPEG.
set_input_format(f, p, width, height) ==
    SetFormat(f, PixelFormats \ Jpegs, p, Order1p, width, height)

Interlaced == {"INTERLACED", "INTERLACED_TB", "INTERLACED_BT"}

set_output_format(f, p, width, height, field) ==
    [SetFormat(f, PixelFormats, p, OutOrder1p, width, height)
       EXCEPT !.scan = IF field \in Interlaced THEN "INTERLACE" ELSE "PROGRESSIVE"]

-----------------------------------------------------------------------------
(* Sizes *)

\* Bytes of one chroma plane.
CbcrSize(format, size) == IF format = "YCBCR420" THEN size \div 4 ELSE size \div 2

get_buffer_size(width, height, format) ==
    LET size  == width * height
        bytes == CASE format = "RGB565"             -> size * 2
                   [] format \in {"RGB666", "RGB888"} -> size * 4
                   [] format \in Formats \ Rgb      ->
                          size + 2 * CbcrSize(format, size)
    IN  ((bytes + PageSize - 1) \div PageSize) * PageSize

BadCbcrOffset(f) == (f.width * f.height) \div 2   \* Cb in the middle of the luma

\* Where the Cb plane starts behind the luma.
CbcrOffset(f) == f.width * f.height

\* V4L2_CID_INPUT_ADDR: the planes one behind the other from addr on.
alloc_input_memory(f, addr) ==
    LET size == f.width * f.height
        g    == [f EXCEPT !.buf_size = get_buffer_size(f.width, f.height, f.format),
                          !.phys_y   = addr]
    IN  IF f.format \in Rgb THEN g
        ELSE [g EXCEPT !.phys_cb = addr + CbcrOffset(f),
                       !.phys_cr = addr + CbcrOffset(f) + CbcrSize(f.format, size)]

\* V4L2_CID_INPUT_ADDR_Y, _CB and _CR: one plane each.
alloc_plane_memory(f, plane, addr) ==
    [f EXCEPT !.buf_size = get_buffer_size(f.width, f.height, f.format),
              !.phys_y  = IF plane = "y"  THEN addr ELSE @,
              !.phys_cb = IF plane = "cb" THEN addr ELSE @,
              !.phys_cr = IF plane = "cr" THEN addr ELSE @]

\* s3c_fimc_set_input_address: a one-plane frame loses its chroma addresses, and
\* its end is that of two bytes a pixel whatever the format.
InputAddress(f) ==
    IF f.planes = 1 THEN [f EXCEPT !.phys_cb = 0, !.phys_cr = 0] ELSE f

InputEnds(f) ==
    LET size == f.width * f.height
        cbcr == CbcrSize(f.format, size)
    IN  IF f.planes = 1
        THEN [y |-> f.phys_y + size * 2, cb |-> 0, cr |-> 0]
        ELSE [y |-> f.phys_y + size, cb |-> f.phys_cb + cbcr, cr |-> f.phys_cr + cbcr]

-----------------------------------------------------------------------------
(* Bursts: <<main, remained>> in words of four bytes *)

BadGetBurst422i(width) ==   \* whole bursts of 16 also for a remainder of 8
    LET tmp    == (width \div 2) % 16
        wanted == CASE tmp \in {0, 8} -> 16 [] tmp \in 1..7 \cup 9..15 -> 4
    IN  <<wanted \div 2, wanted \div 2>>

get_burst_422i(width) ==
    LET tmp    == (width \div 2) % 16
        wanted == CASE tmp = 0 -> 16 [] tmp = 8 -> 8 [] tmp \in 1..7 \cup 9..15 -> 4
    IN  <<wanted \div 2, wanted \div 2>>

get_burst(width) ==
    LET words == width \div 4
    IN  CASE words % 16 = 0       -> <<16, 16>>
          [] words % 16 \in {4, 8} -> <<16, words % 16>>
          [] words % 16 = 12      -> <<8, 4>>
          [] words % 4 # 0        -> <<4, words % 4>>
=============================================================================
