-------------------------- MODULE FimcControlProofs --------------------------
(***************************************************************************)
(* Proofs about FimcControl, for every set of clients, whatever calls they *)
(* make and whatever sizes and formats they ask for, and every line        *)
(* length.                                                                 *)
(*                                                                         *)
(* What each call does is said once, in one of four relations between the  *)
(* state before it and after it: Configured (the call sets something up    *)
(* and touches no running path), Cleared (open and reset, which empty both *)
(* paths), Halted (a stop, alone or before a restart) and Started (a       *)
(* start, alone or after the wait of a restart).  CallStep says that every *)
(* call is one of them and keeps the types; each invariant is then proved  *)
(* over the four, and not over the twenty-four actions.                    *)
(***************************************************************************)
EXTENDS FimcControl, FimcArithmetic

-----------------------------------------------------------------------------
(* Records *)

LEMMA CtrlFields ==
    ASSUME NEW ct \in Controllers
    PROVE  /\ ct.in_use \in BOOLEAN /\ ct.in_type \in {"CAMERA", "DMA"}
           /\ ct.out_type \in {"DMA", "LCDFIFO"} /\ ct.in_cam \in Cameras \cup {"none"}
           /\ ct.rot90 \in BOOLEAN /\ ct.in_frame \in InFrames
           /\ ct.out_frame \in OutFrames /\ ct.sc \in Scalers
BY DEF Controllers

LEMMA InFields ==
    ASSUME NEW f \in InFrames
    PROVE  /\ f.width \in Nat /\ f.height \in Nat /\ f.format \in Formats
           /\ f.planes \in 0..3 /\ f.order_1p \in Orders /\ f.order_2p \in Orders
           /\ f.buf_size \in Nat /\ f.phys_y \in Nat /\ f.phys_cb \in Nat
           /\ f.phys_cr \in Nat
BY DEF InFrames

LEMMA OutFields ==
    ASSUME NEW f \in OutFrames
    PROVE  /\ f.width \in Nat /\ f.height \in Nat /\ f.format \in Formats
           /\ f.planes \in 0..3 /\ f.order_1p \in Orders /\ f.order_2p \in Orders
           /\ f.scan \in {"PROGRESSIVE", "INTERLACE"} /\ f.flip \in {"ORIGINAL", "XY"}
           /\ f.effect \in {"ORIGINAL", "NEGATIVE"}
BY DEF OutFrames

LEMMA ScalerFields ==
    ASSUME NEW sc \in Scalers
    PROVE  /\ sc.bypass \in BOOLEAN /\ sc.hfactor \in 0..5 /\ sc.vfactor \in 0..5
           /\ sc.pre_hratio \in Ratios /\ sc.pre_vratio \in Ratios
           /\ sc.pre_dst_width \in Nat /\ sc.pre_dst_height \in Nat
           /\ sc.scaleup_h \in BOOLEAN /\ sc.scaleup_v \in BOOLEAN
           /\ sc.main_hratio \in Nat /\ sc.main_vratio \in Nat
           /\ sc.real_width \in Int /\ sc.real_height \in Int
           /\ sc.line_length \in {LineLength} /\ sc.zoom_depth \in Nat
BY DEF Scalers

LEMMA CameraFields ==
    ASSUME NEW cam \in CameraStates
    PROVE  /\ cam.order422 \in Orders /\ cam.width \in Nat /\ cam.height \in Nat
           /\ cam.vsync \in BOOLEAN /\ cam.offset \in Int /\ cam.initialized \in BOOLEAN
BY DEF CameraStates

\* The sizes of a pixel format, set by a client.
LEMMA InFormatStep ==
    ASSUME NEW f \in InFrames,
           NEW fmt \in (PixelFormats \ Jpegs) \X Nat \X Nat
    PROVE  LET g == set_input_format(f, fmt[1], fmt[2], fmt[3])
           IN  g \in InFrames /\ Shaped(g)
<1> DEFINE p == fmt[1]
           g == set_input_format(f, p, fmt[2], fmt[3])
           o1 == Keep(Order1p, p, f.order_1p)
           o2 == Keep(Order2p, p, f.order_2p)
           fo == FormatOf(p)
           pl == PlanesOf(p)
<1>1. p \in PixelFormats \ Jpegs /\ fmt[2] \in Nat /\ fmt[3] \in Nat
  OBVIOUS
<1>2. o1 \in Orders /\ o2 \in Orders
  BY KeptOrder, InFields
<1>3. Shaped([format |-> fo, planes |-> pl]) /\ fo \in Formats /\ pl \in 0..3
  BY <1>1, FormatShape DEF Shaped, Formats, Rgb
<1>4. g = [f EXCEPT !.width = fmt[2], !.height = fmt[3], !.format = fo, !.planes = pl,
                    !.order_1p = o1, !.order_2p = o2]
  BY <1>1 DEF set_input_format, SetFormat
<1> HIDE DEF p, g, o1, o2, fo, pl
<1>5. g \in InFrames /\ g.format = fo /\ g.planes = pl
  BY <1>1, <1>2, <1>3, <1>4 DEF InFrames
<1> QED
  BY <1>3, <1>5 DEF Shaped, g, p

LEMMA OutFormatStep ==
    ASSUME NEW f \in OutFrames, Shaped(f), NEW fmt \in STRING \X Nat \X Nat, NEW field
    PROVE  LET g == set_output_format(f, fmt[1], fmt[2], fmt[3], field)
           IN  g \in OutFrames /\ Shaped(g) /\ g.width = fmt[2]
<1> DEFINE p == fmt[1]
           g == set_output_format(f, p, fmt[2], fmt[3], field)
           o1 == Keep(OutOrder1p, p, f.order_1p)
           o2 == Keep(Order2p, p, f.order_2p)
           fo == IF p \in PixelFormats THEN FormatOf(p) ELSE f.format
           pl == IF p \in PixelFormats THEN PlanesOf(p) ELSE f.planes
           scan == IF field \in Interlaced THEN "INTERLACE" ELSE "PROGRESSIVE"
<1>1. fmt[2] \in Nat /\ fmt[3] \in Nat
  OBVIOUS
<1>2. o1 \in Orders /\ o2 \in Orders /\ scan \in {"PROGRESSIVE", "INTERLACE"}
  BY KeptOrder, OutFields
<1>3. Shaped([format |-> fo, planes |-> pl]) /\ fo \in Formats /\ pl \in 0..3
  <2>1. CASE p \in PixelFormats
    BY <2>1, FormatShape DEF Shaped, Formats, Rgb
  <2>2. CASE p \notin PixelFormats
    BY <2>2 DEF Shaped, Formats, Rgb
  <2> QED
    BY <2>1, <2>2
<1>4. g = [f EXCEPT !.width = fmt[2], !.height = fmt[3], !.format = fo, !.planes = pl,
                    !.order_1p = o1, !.order_2p = o2, !.scan = scan]
  BY DEF set_output_format, SetFormat, OutFrames
<1> HIDE DEF p, g, o1, o2, fo, pl, scan
<1>5. g \in OutFrames /\ g.format = fo /\ g.planes = pl /\ g.width = fmt[2]
  BY <1>1, <1>2, <1>3, <1>4 DEF OutFrames
<1> QED
  BY <1>3, <1>5 DEF Shaped, g, p

\* Frames that are placed in memory.
LEMMA InputAddressStep ==
    ASSUME NEW f \in InFrames
    PROVE  LET g == InputAddress(f)
           IN  /\ g \in InFrames /\ g.width = f.width /\ g.height = f.height
               /\ g.format = f.format /\ g.planes = f.planes
               /\ g.buf_size = f.buf_size /\ g.phys_y = f.phys_y
               /\ IF f.planes = 1 THEN g.phys_cb = 0 /\ g.phys_cr = 0
                  ELSE g.phys_cb = f.phys_cb /\ g.phys_cr = f.phys_cr
BY DEF InputAddress, InFrames

LEMMA PlacedStep ==
    ASSUME NEW f \in InFrames, NEW addr \in Nat
    PROVE  LET g == alloc_input_memory(f, addr)
           IN  /\ g \in InFrames /\ g.width = f.width /\ g.height = f.height
               /\ g.format = f.format /\ g.planes = f.planes /\ g.phys_y = addr
               /\ g.buf_size = get_buffer_size(f.width, f.height, f.format)
               /\ f.format \notin Rgb =>
                    /\ g.phys_cb = addr + f.width * f.height
                    /\ g.phys_cr = addr + f.width * f.height
                                     + CbcrSize(f.format, f.width * f.height)
<1> DEFINE size == f.width * f.height
           buf == get_buffer_size(f.width, f.height, f.format)
           cb == addr + size
           cr == addr + size + CbcrSize(f.format, size)
           h == [f EXCEPT !.buf_size = buf, !.phys_y = addr]
           g == alloc_input_memory(f, addr)
<1>1. size \in Nat /\ CbcrSize(f.format, size) \in Nat /\ buf \in Nat
  BY InFields, SizeNat, BufferHolds
<1>2. g = IF f.format \in Rgb THEN h ELSE [h EXCEPT !.phys_cb = cb, !.phys_cr = cr]
  BY DEF alloc_input_memory, CbcrOffset
<1> HIDE DEF size, buf
<1>3. cb \in Nat /\ cr \in Nat
  BY <1>1
<1> HIDE DEF cb, cr
<1>4. /\ h \in InFrames /\ h.width = f.width /\ h.height = f.height
      /\ h.format = f.format /\ h.planes = f.planes /\ h.phys_y = addr /\ h.buf_size = buf
  BY <1>1 DEF InFrames
<1> HIDE DEF h, g
<1>5. CASE f.format \in Rgb
  BY <1>2, <1>4, <1>5 DEF g, buf
<1>6. CASE f.format \notin Rgb
  <2>1. /\ g \in InFrames /\ g.width = f.width /\ g.height = f.height
        /\ g.format = f.format /\ g.planes = f.planes /\ g.phys_y = addr
        /\ g.buf_size = buf /\ g.phys_cb = cb /\ g.phys_cr = cr
    BY <1>2, <1>3, <1>4, <1>6 DEF InFrames
  <2> QED
    BY <2>1 DEF g, buf, cb, cr, size
<1> QED
  BY <1>5, <1>6

LEMMA PlaneStep ==
    ASSUME NEW f \in InFrames, NEW plane, NEW addr \in Nat
    PROVE  LET g == alloc_plane_memory(f, plane, addr)
           IN  g \in InFrames /\ g.format = f.format /\ g.planes = f.planes
<1> DEFINE buf == get_buffer_size(f.width, f.height, f.format)
<1>1. buf \in Nat
  BY InFields, BufferHolds
<1> HIDE DEF buf
<1>2. alloc_plane_memory(f, plane, addr) =
        [f EXCEPT !.buf_size = buf,
              !.phys_y  = IF plane = "y"  THEN addr ELSE f.phys_y,
              !.phys_cb = IF plane = "cb" THEN addr ELSE f.phys_cb,
              !.phys_cr = IF plane = "cr" THEN addr ELSE f.phys_cr]
  BY DEF alloc_plane_memory, buf
<1> QED
  BY <1>1, <1>2 DEF InFrames

LEMMA EndsStep ==
    ASSUME NEW f \in InFrames
    PROVE  InputEnds(f) \in Addresses
<1> DEFINE size == f.width * f.height
           cbcr == CbcrSize(f.format, size)
<1>1. size \in Nat /\ cbcr \in Nat
  BY InFields, SizeNat
<1>2. f.phys_y \in Nat /\ f.phys_cb \in Nat /\ f.phys_cr \in Nat
  BY InFields
<1>3. InputEnds(f) = IF f.planes = 1
        THEN [y |-> f.phys_y + size * 2, cb |-> 0, cr |-> 0]
        ELSE [y |-> f.phys_y + size, cb |-> f.phys_cb + cbcr, cr |-> f.phys_cr + cbcr]
  BY DEF InputEnds
<1> HIDE DEF size, cbcr
<1> QED
  BY <1>1, <1>2, <1>3 DEF Addresses

-----------------------------------------------------------------------------
(* The scaler of a start *)

\* One dimension of what the scaler is given.
Factored(src, tar, ratio, factor, main) ==
    src < 64 * tar =>
        /\ ratio = Pow2[factor]
        /\ main < 512
        /\ ratio > 1 => main >= 256

LEMMA DimensionStep ==
    ASSUME NEW src \in Nat \ {0}, NEW tar \in Nat \ {0},
           NEW ratio \in Ratios, NEW shift \in 0..5
    PROVE  LET h == get_scaler_factor(src, tar, ratio, shift)
               main == (src * 256) \div (tar * Pow2[h[2]])
           IN  /\ h[1] \in Ratios /\ h[2] \in 0..5
               /\ Div(src, h[1]) \in Nat /\ main \in Nat
               /\ Factored(src, tar, h[1], h[2], main)
<1> DEFINE h == get_scaler_factor(src, tar, ratio, shift)
<1>a. Ratio = Ratios /\ src \in Nat
  BY DEF Ratio, Ratios
<1>1. h \in Ratios \X (0..5)
  BY <1>a, FactorType
<1>2. src < 64 * tar => \E i \in 0..5 : /\ h = <<Pow2[i], i>>
                                        /\ src < 2 * tar * Pow2[i]
                                        /\ i > 0 => tar * Pow2[i] <= src
  BY FactorRange
<1> HIDE DEF h
<1>3. h[1] \in Ratios /\ h[2] \in 0..5
  BY <1>1
<1> DEFINE d == tar * Pow2[h[2]]
<1>4. d \in Nat \ {0}
  BY <1>3, Powers
<1>5. Div(src, h[1]) \in Nat
  BY <1>3 DEF Div, Ratios
<1>6. ASSUME src < 64 * tar
      PROVE  h[1] = Pow2[h[2]] /\ src < 2 * d /\ (h[1] > 1 => d <= src)
  <2>1. PICK i \in 0..5 : /\ h = <<Pow2[i], i>>
                          /\ src < 2 * tar * Pow2[i]
                          /\ i > 0 => tar * Pow2[i] <= src
    BY <1>2, <1>6
  <2>2. h[1] = Pow2[i] /\ h[2] = i
    BY <2>1
  <2>3. h[1] > 1 => i > 0
    BY <2>2, Powers
  <2> QED
    BY <2>1, <2>2, <2>3, Powers
<1> HIDE DEF d
<1>7. /\ (src * 256) \div d \in Nat
      /\ src < 2 * d => (src * 256) \div d < 512
      /\ d <= src => (src * 256) \div d >= 256
  BY <1>a, <1>4, MainRatio
<1> QED
  BY <1>3, <1>5, <1>6, <1>7 DEF Factored, h, d

LEMMA SourceInt ==
    ASSUME NEW ct \in Controllers, NEW cam \in CameraStates
    PROVE  SourceSize(ct, cam) \in Int \X Int
<1>1. /\ ct.in_frame.width \in Nat /\ ct.in_frame.height \in Nat
      /\ cam.width \in Nat /\ cam.height \in Nat /\ cam.offset \in Int
  BY CtrlFields, InFields, CameraFields
<1> QED
  BY <1>1 DEF SourceSize

\* The scaler of a start: it fits the sizes, or one of them is none.
LEMMA RescaledStep ==
    ASSUME NEW ct \in Controllers, NEW cam \in CameraStates
    PROVE  LET sc == Rescaled(ct, cam)
               s  == SourceSize(ct, cam)
               t  == ct.out_frame
           IN  /\ sc \in Scalers
               /\ sc.bypass = ct.sc.bypass /\ sc.zoom_depth = ct.sc.zoom_depth
               /\ t.width > 0 /\ t.height > 0 =>
                      sc.real_width = s[1] /\ sc.real_height = s[2]
               /\ CanRescale(ct, cam) =>
                    /\ s[1] > 0 /\ s[2] > 0 /\ t.width > 0 /\ t.height > 0
                    /\ Factored(s[1], t.width, sc.pre_hratio, sc.hfactor, sc.main_hratio)
                    /\ Factored(s[2], t.height, sc.pre_vratio, sc.vfactor, sc.main_vratio)
               /\ t.width > 0 /\ t.height > 0 /\ ~CanRescale(ct, cam) => s[1] <= 0 \/ s[2] <= 0
<1> DEFINE old == ct.sc
           s  == SourceSize(ct, cam)
           sx == s[1]
           sy == s[2]
           tx == ct.out_frame.width
           ty == ct.out_frame.height
           h == get_scaler_factor(sx, tx, old.pre_hratio, old.hfactor)
           v == get_scaler_factor(sy, ty, old.pre_vratio, old.vfactor)
           mh == (sx * 256) \div (tx * Pow2[h[2]])
           mv == (sy * 256) \div (ty * Pow2[v[2]])
           dh == Div(sx, h[1])
           dv == Div(sy, v[1])
           uh == tx >= sx
           uv == ty >= sy
           real == IF tx > 0 /\ ty > 0
                   THEN [old EXCEPT !.real_width = sx, !.real_height = sy] ELSE old
           sc == Rescaled(ct, cam)
<1>1. old \in Scalers /\ tx \in Nat /\ ty \in Nat
  BY CtrlFields, OutFields
<1>2. sx \in Int /\ sy \in Int
  BY SourceInt
<1>3. /\ old.pre_hratio \in Ratios /\ old.hfactor \in 0..5
      /\ old.pre_vratio \in Ratios /\ old.vfactor \in 0..5
  BY <1>1, ScalerFields
<1>4. CanRescale(ct, cam) <=> tx > 0 /\ ty > 0 /\ sx > 0 /\ sy > 0
  BY DEF CanRescale, ScalerAccepts
<1>5. sc = IF tx > 0 /\ ty > 0 /\ sx > 0 /\ sy > 0
           THEN [real EXCEPT
                   !.pre_hratio = h[1], !.hfactor = h[2],
                   !.pre_vratio = v[1], !.vfactor = v[2],
                   !.pre_dst_width = dh, !.pre_dst_height = dv,
                   !.main_hratio = mh, !.main_vratio = mv,
                   !.scaleup_h = uh, !.scaleup_v = uv]
           ELSE real
  BY DEF Rescaled, set_scaler_info, ScalerAccepts
<1> HIDE DEF old, sx, sy, tx, ty, sc
<1>6. /\ real \in Scalers
      /\ real.bypass = old.bypass /\ real.zoom_depth = old.zoom_depth
      /\ tx > 0 /\ ty > 0 => real.real_width = sx /\ real.real_height = sy
  BY <1>1, <1>2 DEF Scalers
<1>7. ASSUME tx > 0, ty > 0, sx > 0, sy > 0
      PROVE  /\ h[1] \in Ratios /\ h[2] \in 0..5 /\ dh \in Nat /\ mh \in Nat
             /\ v[1] \in Ratios /\ v[2] \in 0..5 /\ dv \in Nat /\ mv \in Nat
             /\ Factored(sx, tx, h[1], h[2], mh)
             /\ Factored(sy, ty, v[1], v[2], mv)
  BY <1>1, <1>2, <1>3, <1>7, DimensionStep
<1>8. uh \in BOOLEAN /\ uv \in BOOLEAN
  OBVIOUS
<1> HIDE DEF real, h, v, mh, mv, dh, dv, uh, uv
<1>9. CASE ~(tx > 0 /\ ty > 0 /\ sx > 0 /\ sy > 0)
  <2>1. sc = real
    BY <1>5, <1>9
  <2> QED
    BY <1>1, <1>2, <1>4, <1>6, <1>9, <2>1 DEF sc, old, sx, sy, tx, ty
<1>10. CASE tx > 0 /\ ty > 0 /\ sx > 0 /\ sy > 0
  <2>1. /\ h[1] \in Ratios /\ h[2] \in 0..5 /\ dh \in Nat /\ mh \in Nat
        /\ v[1] \in Ratios /\ v[2] \in 0..5 /\ dv \in Nat /\ mv \in Nat
        /\ Factored(sx, tx, h[1], h[2], mh)
        /\ Factored(sy, ty, v[1], v[2], mv)
    BY <1>7, <1>10
  <2>2. /\ sc \in Scalers
        /\ sc.bypass = real.bypass /\ sc.zoom_depth = real.zoom_depth
        /\ sc.real_width = real.real_width /\ sc.real_height = real.real_height
        /\ sc.pre_hratio = h[1] /\ sc.hfactor = h[2] /\ sc.main_hratio = mh
        /\ sc.pre_vratio = v[1] /\ sc.vfactor = v[2] /\ sc.main_vratio = mv
    BY <1>5, <1>6, <1>8, <1>10, <2>1 DEF Scalers
  <2>3. sc.bypass = old.bypass /\ sc.zoom_depth = old.zoom_depth
        /\ sc.real_width = sx /\ sc.real_height = sy
    BY <1>6, <1>10, <2>2
  <2>4. /\ Factored(sx, tx, sc.pre_hratio, sc.hfactor, sc.main_hratio)
        /\ Factored(sy, ty, sc.pre_vratio, sc.vfactor, sc.main_vratio)
    BY <2>1, <2>2
  <2> QED
    BY <1>2, <1>4, <1>10, <2>2, <2>3, <2>4 DEF sc, old, sx, sy, tx, ty
<1> QED
  BY <1>9, <1>10

-----------------------------------------------------------------------------
(* The registers of a start *)

SameFlags(q, p) ==
    q.envid = p.envid /\ q.start = p.start /\ q.lcd = p.lcd /\ q.cpt = p.cpt
SamePlaces(q, p) == q.addr = p.addr /\ q.ends = p.ends
SameScale(q, p) == q.pre = p.pre /\ q.main = p.main
SameTarget(q, p) ==
    /\ q.target = p.target /\ q.rot90 = p.rot90
    /\ q.yburst = p.yburst /\ q.cburst = p.cburst

LEMMA PathFields ==
    ASSUME NEW p \in Paths
    PROVE  /\ p.envid \in BOOLEAN /\ p.start \in BOOLEAN /\ p.lcd \in BOOLEAN
           /\ p.cpt \in BOOLEAN /\ p.rot90 \in BOOLEAN
           /\ p.addr \in Addresses /\ p.ends \in Addresses
           /\ p.target \in Targets /\ p.yburst \in Bursts
BY DEF Paths

PlanesAt(f) == [y |-> f.phys_y, cb |-> f.phys_cb, cr |-> f.phys_cr]

LEMMA PlaceStep ==
    ASSUME NEW f \in InFrames, NEW p \in Paths
    PROVE  LET q == set_input_address(f, p)
           IN  /\ q \in Paths /\ SameFlags(q, p) /\ SameScale(q, p) /\ SameTarget(q, p)
               /\ q.addr = PlanesAt(InputAddress(f)) /\ q.ends = InputEnds(InputAddress(f))
<1> DEFINE g == InputAddress(f)
           a == PlanesAt(g)
           e == InputEnds(g)
<1>1. g \in InFrames
  BY InputAddressStep
<1> HIDE DEF g
<1>2. a \in Addresses /\ e \in Addresses
  BY <1>1, InFields, EndsStep DEF PlanesAt, Addresses
<1>3. set_input_address(f, p) = [p EXCEPT !.addr = a, !.ends = e]
  BY DEF set_input_address, PlanesAt, g
<1> HIDE DEF a, e
<1>4. LET q == set_input_address(f, p)
      IN  /\ q \in Paths /\ SameFlags(q, p) /\ SameScale(q, p) /\ SameTarget(q, p)
          /\ q.addr = a /\ q.ends = e
  BY <1>2, <1>3 DEF Paths, SameFlags, SameScale, SameTarget
<1> QED
  BY <1>4 DEF a, e, g

LEMMA InputStep ==
    ASSUME NEW f \in InFrames, NEW c \in Ctrls, NEW p \in Paths
    PROVE  LET q == set_input_dma(c, f, p)
           IN  /\ q \in Paths /\ SameScale(q, p) /\ SameTarget(q, p) /\ SamePlaces(q, p)
               /\ ~q.envid /\ q.start = p.start /\ q.lcd = p.lcd /\ q.cpt = p.cpt
<1> DEFINE i == <<f.format, IF f.planes = 1 THEN 1 ELSE 2,
                  IF c = PR /\ f.format = "YCBCR422" /\ f.planes = 1
                  THEN f.order_1p ELSE "none">>
<1>1. i \in InputFormats
  BY InFields DEF InputFormats
<1>2. set_input_dma(c, f, p) = [p EXCEPT !.input = "DMA", !.envid = FALSE, !.infmt = i]
  BY DEF set_input_dma
<1> HIDE DEF i
<1> QED
  BY <1>1, <1>2 DEF Paths, SameScale, SameTarget, SamePlaces

Prescaled(sc) ==
    [shfactor |-> 10 - (sc.hfactor + sc.vfactor), hratio |-> sc.pre_hratio,
     vratio |-> sc.pre_vratio, width |-> sc.pre_dst_width, height |-> sc.pre_dst_height]

LEMMA ScalerStep ==
    ASSUME NEW ct \in Controllers, NEW sc \in Scalers, NEW p \in Paths
    PROVE  LET q == set_scaler(ct, sc, set_prescaler(sc, p))
           IN  /\ q \in Paths /\ SameTarget(q, p) /\ SamePlaces(q, p)
               /\ q.envid = p.envid /\ ~q.start /\ q.cpt = p.cpt
               /\ q.pre = Prescaled(sc)
               /\ q.main.hratio = sc.main_hratio /\ q.main.vratio = sc.main_vratio
<1> DEFINE m == [bypass |-> sc.bypass, up_h |-> sc.scaleup_h, up_v |-> sc.scaleup_v,
                 interlace |-> /\ ct.out_type = "LCDFIFO"
                               /\ ct.out_frame.scan = "INTERLACE",
                 hratio |-> sc.main_hratio, vratio |-> sc.main_vratio]
           r == set_prescaler(sc, p)
<1>1. Prescaled(sc) \in Prescalers
  BY ScalerFields DEF Prescaled, Prescalers
<1>2. m \in MainScalers
  BY ScalerFields DEF MainScalers
<1>3. m.hratio = sc.main_hratio /\ m.vratio = sc.main_vratio
  OBVIOUS
<1>4. r = [p EXCEPT !.pre = Prescaled(sc)]
  BY DEF set_prescaler, Prescaled
<1>5. set_scaler(ct, sc, r) = [r EXCEPT !.main = m, !.start = FALSE, !.lcd = FALSE]
  BY DEF set_scaler
<1> HIDE DEF m, r
<1>6. /\ r \in Paths /\ SameFlags(r, p) /\ SamePlaces(r, p) /\ SameTarget(r, p)
      /\ r.pre = Prescaled(sc)
  BY <1>1, <1>4 DEF Paths, SameFlags, SamePlaces, SameTarget
<1>7. LET q == set_scaler(ct, sc, r)
      IN  /\ q \in Paths /\ SameTarget(q, r) /\ SamePlaces(q, r)
          /\ q.envid = r.envid /\ ~q.start /\ q.cpt = r.cpt /\ q.pre = r.pre /\ q.main = m
  BY <1>2, <1>5, <1>6 DEF Paths, SamePlaces, SameTarget
<1> QED
  BY <1>3, <1>6, <1>7 DEF SameFlags, SamePlaces, SameTarget, r

TargetOf(f) == [format |-> f.format, planes |-> f.planes, width |-> f.width,
                height |-> f.height]

LEMMA TargetStep ==
    ASSUME NEW c \in Ctrls, NEW ct \in Controllers, NEW p \in Paths
    PROVE  LET q == set_target_format(c, ct, p)
           IN  /\ q \in Paths /\ SameFlags(q, p) /\ SamePlaces(q, p) /\ SameScale(q, p)
               /\ q.target = TargetOf(ct.out_frame) /\ q.rot90 = (ct.rot90 /\ c = PR)
<1> DEFINE f == ct.out_frame
           t == TargetOf(f)
           r == [p EXCEPT !.target = t, !.flip = f.flip, !.rot90 = FALSE]
<1>1. f \in OutFrames /\ ct.rot90 \in BOOLEAN
  BY CtrlFields
<1> HIDE DEF f
<1>2. f.flip \in {"ORIGINAL", "XY"}
      /\ t \in Targets
  BY <1>1, OutFields DEF TargetOf, Targets
<1>3. set_target_format(c, ct, p) = IF ct.rot90 /\ c = PR
                                    THEN [r EXCEPT !.yburst = <<4, 4>>, !.rot90 = TRUE]
                                    ELSE r
  BY DEF set_target_format, set_rot90, TargetOf, f
<1> HIDE DEF t
<1>4. /\ r \in Paths /\ SameFlags(r, p) /\ SamePlaces(r, p) /\ SameScale(r, p)
      /\ r.target = t /\ r.rot90 = FALSE
  BY <1>2 DEF Paths, SameFlags, SamePlaces, SameScale
<1> HIDE DEF r
<1>a. <<4, 4>> \in Bursts
  BY DEF Bursts
<1>5. LET q == [r EXCEPT !.yburst = <<4, 4>>, !.rot90 = TRUE]
      IN  /\ q \in Paths /\ SameFlags(q, r) /\ SamePlaces(q, r) /\ SameScale(q, r)
          /\ q.target = t /\ q.rot90 = TRUE
  BY <1>4, <1>a DEF Paths, SameFlags, SamePlaces, SameScale
<1>6. CASE ct.rot90 /\ c = PR
  BY <1>3, <1>4, <1>5, <1>6 DEF SameFlags, SamePlaces, SameScale, t, f
<1>7. CASE ~(ct.rot90 /\ c = PR)
  BY <1>1, <1>3, <1>4, <1>7 DEF t, f
<1> QED
  BY <1>6, <1>7

\* The bursts of a frame the path writes.
BurstsOf(c, f) ==
    IF c = PR THEN get_burst(IF f.format = "RGB888" THEN f.width * 4 ELSE f.width * 2)
    ELSE IF f.format = "YCBCR422" /\ f.planes = 1 THEN get_burst_422i(f.width)
         ELSE get_burst(f.width)

ChromaOf(f) ==
    IF f.format = "YCBCR422" /\ f.planes = 1
    THEN <<get_burst_422i(f.width)[1] \div 2, get_burst_422i(f.width)[2] \div 2>>
    ELSE get_burst(f.width \div 2)

WritesOf(c, f, p) ==
    p.yburst = BurstsOf(c, f) /\ (c # PR => p.cburst = ChromaOf(f))

LEMMA OutputStep ==
    ASSUME NEW c \in Ctrls, NEW ct \in Controllers, NEW p \in Paths
    PROVE  LET q == set_output_dma(c, ct, p)
           IN  /\ q \in Paths /\ SameFlags(q, p) /\ SamePlaces(q, p) /\ SameScale(q, p)
               /\ q.target = p.target /\ q.rot90 = p.rot90
               /\ ~(c = PR /\ ct.rot90) => WritesOf(c, ct.out_frame, q)
<1> DEFINE f == ct.out_frame
           w == f.width
           q == set_output_dma(c, ct, p)
<1>1. ct.rot90 \in BOOLEAN /\ f \in OutFrames
  BY CtrlFields
<1>2. w \in Nat /\ f.order_1p \in Orders
  BY <1>1, OutFields
<1>3. \A n \in Nat : get_burst(n) \in Bursts
  BY BurstTiles DEF Bursts
<1>4. get_burst_422i(w) \in Bursts /\ <<4, 4>> \in Bursts
  BY <1>2, PackedTiles DEF Bursts
<1>5. BurstsOf(c, f) \in Bursts
  BY <1>2, <1>3, <1>4 DEF BurstsOf
<1>6. CASE c = PR
  <2> DEFINE y == IF ct.rot90 THEN <<4, 4>> ELSE BurstsOf(c, f)
  <2>1. q = [p EXCEPT !.order = f.order_1p, !.yburst = y]
    BY <1>1, <1>6 DEF set_output_dma, set_output_dma_pr, BurstsOf
  <2>2. y \in Bursts
    BY <1>4, <1>5
  <2> HIDE DEF y, q, f
  <2>3. /\ q \in Paths /\ SameFlags(q, p) /\ SamePlaces(q, p) /\ SameScale(q, p)
        /\ q.target = p.target /\ q.rot90 = p.rot90 /\ q.yburst = y
    BY <1>2, <2>1, <2>2 DEF Paths, SameFlags, SamePlaces, SameScale
  <2> QED
    BY <1>6, <2>3 DEF y, q, f, WritesOf
<1>7. CASE c # PR
  <2> DEFINE packed == f.format = "YCBCR422" /\ f.planes = 1
             y == BurstsOf(c, f)
             cb == ChromaOf(f)
  <2>1. q = [p EXCEPT !.order = f.order_1p, !.yburst = y, !.cburst = cb]
    BY <1>7 DEF set_output_dma, set_output_dma_co, BurstsOf, ChromaOf
  <2>2. cb \in Bursts
    <3>1. w \div 2 \in Nat
      BY <1>2
    <3>2. get_burst(w \div 2) \in Bursts
      BY <1>3, <3>1
    <3>3. \A b \in Bursts : <<b[1] \div 2, b[2] \div 2>> \in Bursts
      BY DEF Bursts
    <3> HIDE DEF y, w
    <3> QED
      BY <1>4, <3>2, <3>3 DEF ChromaOf, w
  <2> HIDE DEF y, q, f, cb
  <2>3. /\ q \in Paths /\ SameFlags(q, p) /\ SamePlaces(q, p) /\ SameScale(q, p)
        /\ q.target = p.target /\ q.rot90 = p.rot90 /\ q.yburst = y /\ q.cburst = cb
    BY <1>2, <1>5, <2>1, <2>2 DEF Paths, SameFlags, SamePlaces, SameScale, y
  <2> QED
    BY <1>7, <2>3 DEF y, q, f, cb, WritesOf
<1> QED
  BY <1>6, <1>7

\* The one-bit updates.
LEMMA EnvidBit ==
    ASSUME NEW p \in Paths, NEW b \in BOOLEAN, NEW q, q = [p EXCEPT !.envid = b]
    PROVE  /\ q \in Paths /\ SamePlaces(q, p) /\ SameScale(q, p) /\ SameTarget(q, p)
           /\ q.envid = b /\ q.start = p.start /\ q.lcd = p.lcd /\ q.cpt = p.cpt
BY DEF Paths, SamePlaces, SameScale, SameTarget

LEMMA StartBit ==
    ASSUME NEW p \in Paths, NEW b \in BOOLEAN, NEW q, q = [p EXCEPT !.start = b]
    PROVE  /\ q \in Paths /\ SamePlaces(q, p) /\ SameScale(q, p) /\ SameTarget(q, p)
           /\ q.start = b /\ q.envid = p.envid /\ q.lcd = p.lcd /\ q.cpt = p.cpt
BY DEF Paths, SamePlaces, SameScale, SameTarget

LEMMA LcdBit ==
    ASSUME NEW p \in Paths, NEW b \in BOOLEAN, NEW q, q = [p EXCEPT !.lcd = b]
    PROVE  /\ q \in Paths /\ SamePlaces(q, p) /\ SameScale(q, p) /\ SameTarget(q, p)
           /\ q.lcd = b /\ q.envid = p.envid /\ q.start = p.start /\ q.cpt = p.cpt
BY DEF Paths, SamePlaces, SameScale, SameTarget

LEMMA CptBit ==
    ASSUME NEW p \in Paths, NEW b \in BOOLEAN, NEW q, q = [p EXCEPT !.cpt = b]
    PROVE  /\ q \in Paths /\ SamePlaces(q, p) /\ SameScale(q, p) /\ SameTarget(q, p)
           /\ q.cpt = b /\ q.envid = p.envid /\ q.start = p.start /\ q.lcd = p.lcd
BY DEF Paths, SamePlaces, SameScale, SameTarget

LEMMA InputPathStep ==
    ASSUME NEW ct \in Controllers, NEW p \in Paths
    PROVE  LET q == set_input_path(ct, p)
           IN  /\ q \in Paths /\ SameFlags(q, p) /\ SamePlaces(q, p)
               /\ SameScale(q, p) /\ SameTarget(q, p)
BY DEF set_input_path, Paths, SameFlags, SamePlaces, SameScale, SameTarget

LEMMA StartedPathStep ==
    ASSUME NEW c \in Ctrls, NEW ct \in Controllers, NEW cam \in CameraStates,
           NEW p \in Paths
    PROVE  LET q  == StartedPath(c, ct, cam, p)
               sc == Rescaled(ct, cam)
               f  == ct.in_frame
           IN  /\ q \in Paths
               /\ q.envid = (ct.in_type = "DMA" \/ p.envid)
               /\ q.cpt = (p.cpt \/ ~ct.sc.bypass)
               /\ q.lcd = (ct.out_type = "LCDFIFO")
               /\ q.rot90 = (ct.rot90 /\ c = PR)
               /\ q.target = TargetOf(ct.out_frame)
               /\ IF ct.in_type = "DMA"
                  THEN q.addr = PlanesAt(InputAddress(f)) /\ q.ends = InputEnds(InputAddress(f))
                  ELSE SamePlaces(q, p)
               /\ ct.out_type = "DMA" /\ ~q.rot90 => WritesOf(c, ct.out_frame, q)
               /\ CanRescale(ct, cam) =>
                      /\ q.pre = Prescaled(sc) /\ q.main.hratio = sc.main_hratio
                      /\ q.main.vratio = sc.main_vratio
<1> DEFINE sc == Rescaled(ct, cam)
           f  == ct.in_frame
           p0 == set_input_path(ct, p)
           pa == set_input_address(f, p0)
           pb == set_input_dma(c, f, pa)
           p1 == IF ct.in_type = "DMA" THEN pb ELSE p0
           ps == set_scaler(ct, sc, set_prescaler(sc, p1))
           p2 == IF CanRescale(ct, cam) THEN ps ELSE p1
           pt == set_target_format(c, ct, p2)
           p3 == set_output_path(ct, pt)
           pd == set_output_dma(c, ct, p3)
           p4 == IF ct.out_type = "DMA" THEN pd ELSE p3
           pr == start_scaler(p4)
           pe == IF sc.bypass THEN p4 ELSE pr
           p5 == enable_capture(sc, pe)
           q  == IF ct.in_type = "DMA" THEN start_input_dma(p5) ELSE p5
<1>1. StartedPath(c, ct, cam, p) = q
  BY DEF StartedPath
<1>2. /\ f \in InFrames /\ sc \in Scalers /\ sc.bypass = ct.sc.bypass
      /\ sc.bypass \in BOOLEAN /\ ct.rot90 \in BOOLEAN
      /\ ct.in_type \in {"CAMERA", "DMA"} /\ ct.out_type \in {"DMA", "LCDFIFO"}
  BY CtrlFields, RescaledStep, ScalerFields
<1>3. /\ p0 \in Paths /\ SameFlags(p0, p) /\ SamePlaces(p0, p)
      /\ SameScale(p0, p) /\ SameTarget(p0, p)
  BY InputPathStep
<1> HIDE DEF sc, f, p0
<1>4. /\ pa \in Paths /\ SameFlags(pa, p0) /\ SameScale(pa, p0) /\ SameTarget(pa, p0)
      /\ pa.addr = PlanesAt(InputAddress(f)) /\ pa.ends = InputEnds(InputAddress(f))
  BY <1>2, <1>3, PlaceStep
<1> HIDE DEF pa
<1>5. /\ pb \in Paths /\ SameScale(pb, pa) /\ SameTarget(pb, pa) /\ SamePlaces(pb, pa)
      /\ ~pb.envid /\ pb.start = pa.start /\ pb.lcd = pa.lcd /\ pb.cpt = pa.cpt
  BY <1>2, <1>4, InputStep
<1> HIDE DEF pb
<1>6. /\ p1 \in Paths /\ p1.cpt = p.cpt
      /\ IF ct.in_type = "DMA"
         THEN p1.addr = PlanesAt(InputAddress(f)) /\ p1.ends = InputEnds(InputAddress(f))
         ELSE SamePlaces(p1, p) /\ p1.envid = p.envid
  BY <1>3, <1>4, <1>5 DEF SameFlags, SamePlaces
<1> HIDE DEF p1
<1>7. /\ ps \in Paths /\ SameTarget(ps, p1) /\ SamePlaces(ps, p1)
      /\ ps.envid = p1.envid /\ ~ps.start /\ ps.cpt = p1.cpt
      /\ ps.pre = Prescaled(sc)
      /\ ps.main.hratio = sc.main_hratio /\ ps.main.vratio = sc.main_vratio
  BY <1>2, <1>6, ScalerStep
<1> HIDE DEF ps
<1>8. /\ p2 \in Paths /\ SamePlaces(p2, p1) /\ p2.envid = p1.envid /\ p2.cpt = p1.cpt
      /\ CanRescale(ct, cam) =>
             /\ p2.pre = Prescaled(sc)
             /\ p2.main.hratio = sc.main_hratio /\ p2.main.vratio = sc.main_vratio
  BY <1>6, <1>7 DEF SamePlaces
<1> HIDE DEF p2
<1>9. /\ pt \in Paths /\ SameFlags(pt, p2) /\ SamePlaces(pt, p2) /\ SameScale(pt, p2)
      /\ pt.target = TargetOf(ct.out_frame) /\ pt.rot90 = (ct.rot90 /\ c = PR)
  BY <1>8, TargetStep
<1> HIDE DEF pt
<1>10. /\ p3 \in Paths /\ SamePlaces(p3, pt) /\ SameScale(p3, pt) /\ SameTarget(p3, pt)
       /\ p3.lcd = (ct.out_type = "LCDFIFO") /\ p3.envid = pt.envid /\ p3.cpt = pt.cpt
  <2> DEFINE b == ct.out_type = "LCDFIFO"
  <2>1. p3 = [pt EXCEPT !.lcd = b] /\ b \in BOOLEAN
    BY DEF set_output_path
  <2> HIDE DEF b, p3
  <2>2. /\ p3 \in Paths /\ SamePlaces(p3, pt) /\ SameScale(p3, pt) /\ SameTarget(p3, pt)
        /\ p3.lcd = b /\ p3.envid = pt.envid /\ p3.cpt = pt.cpt
    BY <1>9, <2>1, LcdBit
  <2> QED
    BY <2>2 DEF b
<1> HIDE DEF p3
<1>11. /\ pd \in Paths /\ SameFlags(pd, p3) /\ SamePlaces(pd, p3) /\ SameScale(pd, p3)
       /\ pd.target = p3.target /\ pd.rot90 = p3.rot90
       /\ ~(c = PR /\ ct.rot90) => WritesOf(c, ct.out_frame, pd)
  BY <1>10, OutputStep
<1> HIDE DEF pd
<1>12. /\ p4 \in Paths /\ SameFlags(p4, p3) /\ SamePlaces(p4, p3) /\ SameScale(p4, p3)
       /\ p4.target = p3.target /\ p4.rot90 = p3.rot90
       /\ ct.out_type = "DMA" /\ ~(c = PR /\ ct.rot90) => WritesOf(c, ct.out_frame, p4)
  BY <1>10, <1>11 DEF SameFlags, SamePlaces, SameScale
<1> HIDE DEF p4
<1>13. /\ pr \in Paths /\ SamePlaces(pr, p4) /\ SameScale(pr, p4) /\ SameTarget(pr, p4)
       /\ pr.envid = p4.envid /\ pr.lcd = p4.lcd /\ pr.cpt = p4.cpt
  BY <1>12, StartBit DEF start_scaler
<1> HIDE DEF pr
<1>14. /\ pe \in Paths /\ SamePlaces(pe, p4) /\ SameScale(pe, p4) /\ SameTarget(pe, p4)
       /\ pe.envid = p4.envid /\ pe.lcd = p4.lcd /\ pe.cpt = p4.cpt
  BY <1>12, <1>13 DEF SamePlaces, SameScale, SameTarget
<1> HIDE DEF pe
<1>15. /\ p5 \in Paths /\ SamePlaces(p5, pe) /\ SameScale(p5, pe) /\ SameTarget(p5, pe)
       /\ p5.envid = pe.envid /\ p5.lcd = pe.lcd /\ p5.cpt = (pe.cpt \/ ~sc.bypass)
  <2> DEFINE b == pe.cpt \/ ~sc.bypass
  <2>1. p5 = [pe EXCEPT !.cpt = b] /\ b \in BOOLEAN
    BY DEF enable_capture
  <2> HIDE DEF b, p5
  <2>2. /\ p5 \in Paths /\ SamePlaces(p5, pe) /\ SameScale(p5, pe) /\ SameTarget(p5, pe)
        /\ p5.envid = pe.envid /\ p5.lcd = pe.lcd /\ p5.cpt = b
    BY <1>14, <2>1, CptBit
  <2> QED
    BY <2>2 DEF b
<1> HIDE DEF p5
<1>16. /\ q \in Paths /\ SamePlaces(q, p5) /\ SameScale(q, p5) /\ SameTarget(q, p5)
       /\ q.envid = (ct.in_type = "DMA" \/ p5.envid) /\ q.lcd = p5.lcd /\ q.cpt = p5.cpt
  <2>1. p5.envid \in BOOLEAN
    BY <1>15, PathFields
  <2>2. CASE ct.in_type = "DMA"
    <3>1. q = [p5 EXCEPT !.envid = TRUE]
      BY <2>2 DEF start_input_dma
    <3> HIDE DEF q
    <3>2. /\ q \in Paths /\ SamePlaces(q, p5) /\ SameScale(q, p5) /\ SameTarget(q, p5)
          /\ q.envid = TRUE /\ q.start = p5.start /\ q.lcd = p5.lcd /\ q.cpt = p5.cpt
      BY <1>15, <3>1, EnvidBit
    <3> QED
      BY <2>2, <3>2
  <2>3. CASE ct.in_type # "DMA"
    BY <1>15, <2>1, <2>3 DEF SamePlaces, SameScale, SameTarget
  <2> QED
    BY <2>2, <2>3
<1> HIDE DEF q
<1>17. SamePlaces(q, p1)
  BY <1>8, <1>9, <1>10, <1>12, <1>14, <1>15, <1>16 DEF SamePlaces
<1>18. SameScale(q, p2)
  BY <1>9, <1>10, <1>12, <1>14, <1>15, <1>16 DEF SameScale
<1>19. q.cpt = (p.cpt \/ ~sc.bypass) /\ q.lcd = (ct.out_type = "LCDFIFO")
  BY <1>6, <1>8, <1>9, <1>10, <1>12, <1>14, <1>15, <1>16 DEF SameFlags
<1>20. q.envid = (ct.in_type = "DMA" \/ p.envid)
  <2>1. q.envid = (ct.in_type = "DMA" \/ p1.envid)
    BY <1>8, <1>9, <1>10, <1>12, <1>14, <1>15, <1>16 DEF SameFlags
  <2>2. p.envid \in BOOLEAN /\ p1.envid \in BOOLEAN
    BY <1>6, PathFields
  <2> QED
    BY <1>6, <2>1, <2>2
<1>21. /\ q.target = TargetOf(ct.out_frame) /\ q.rot90 = (ct.rot90 /\ c = PR)
       /\ q.yburst = p4.yburst /\ q.cburst = p4.cburst
  BY <1>9, <1>10, <1>12, <1>14, <1>15, <1>16 DEF SameTarget
<1>22. ct.out_type = "DMA" /\ ~q.rot90 => WritesOf(c, ct.out_frame, q)
  BY <1>2, <1>12, <1>21 DEF WritesOf
<1>23. CanRescale(ct, cam) =>
           /\ q.pre = Prescaled(sc) /\ q.main.hratio = sc.main_hratio
           /\ q.main.vratio = sc.main_vratio
  BY <1>8, <1>18 DEF SameScale
<1>24. IF ct.in_type = "DMA"
       THEN q.addr = PlanesAt(InputAddress(f)) /\ q.ends = InputEnds(InputAddress(f))
       ELSE SamePlaces(q, p)
  BY <1>6, <1>17 DEF SamePlaces
<1> QED
  BY <1>1, <1>2, <1>16, <1>19, <1>20, <1>21, <1>22, <1>23, <1>24 DEF sc, f

-----------------------------------------------------------------------------
(* The sensor and the block *)

LEMMA EnvFields ==
    ASSUME NEW e \in Envs
    PROVE  /\ e.driver \in Drivers /\ e.answers \in BOOLEAN /\ e.max_offset \in Nat
           /\ e.calls \in [Ctrls -> SUBSET Calls]
           /\ e.in_formats \subseteq (PixelFormats \ Jpegs) \X Nat \X Nat
           /\ e.out_formats \subseteq STRING \X Nat \X Nat
           /\ e.answers => attach(e.driver, e.answers) = "bound"
BY EnvAssumption DEF attach

LEMMA RegisteredType ==
    ASSUME NEW driver \in Drivers
    PROVE  /\ Registered(driver) \in CameraStates
           /\ Registered(driver).offset = 0 /\ ~Registered(driver).initialized
BY DEF Drivers, Registered, NewCamera, CameraStates, Orders, ov965x_data, s5k4ba_data,
   s5k3ba_data, s5k6aa_data, ov3640_data

\* A command sends the size that is registered, or leaves the size alone.
Sized(s, driver) ==
    s.width = Registered(driver).width /\ s.height = Registered(driver).height
SameSize(s, r) == s.width = r.width /\ s.height = r.height

LEMMA SendStep ==
    ASSUME NEW s \in Sensors, NEW w \in Nat, NEW h \in Nat
    PROVE  LET r == Send(s, <<w, h>>)
           IN  r \in Sensors /\ r.width = w /\ r.height = h
BY DEF Send, Sensors

LEMMA CommandStep ==
    ASSUME NEW s \in Sensors, NEW driver \in Drivers, NEW cmd, NEW arg,
           \/ cmd = "INIT"
           \/ cmd = "RESOLUTION" /\ arg \in {"DEFAULT", "MAX"}
           \/ cmd = "WB" /\ arg \in WhiteBalances
    PROVE  LET r == SensorCommand(driver, s, cmd, arg)
           IN  /\ r \in Sensors
               /\ cmd = "INIT" => Sized(r, driver)
               /\ SameSize(r, s) \/ Sized(r, driver)
               /\ cmd = "WB" => SameSize(r, s)
<1> DEFINE r == SensorCommand(driver, s, cmd, arg)
           w == Registered(driver).width
           h == Registered(driver).height
           t == Send(s, <<w, h>>)
<1>1. w \in Nat /\ h \in Nat
  BY RegisteredType, CameraFields
<1>2. \/ cmd = "INIT" /\ r = [t EXCEPT !.wb = "none"]
      \/ cmd = "RESOLUTION" /\ r \in {t, s}
      \/ cmd = "WB" /\ r \in {s, [s EXCEPT !.wb = arg]} /\ arg \in WhiteBalances
  <2>1. driver \in {"ov965x", "s5k4ba", "s5k3ba", "s5k6aa", "ov3640"}
    BY DEF Drivers
  <2> USE DEF SensorCommand, Command, Registered, NewCamera, NoSizes
  <2>2. CASE driver = "ov965x"
    BY <2>2 DEF ov965x_command, ov965x_data, ov965x_init_reg
  <2>3. CASE driver = "s5k4ba"
    BY <2>3 DEF s5k4ba_command, s5k4ba_data, s5k4ba_init_reg, s5k4ba_sizes,
       s5k4ba_svga_reg, s5k4ba_qsvga_reg, s5k4ba_wb
  <2>4. CASE driver = "s5k3ba"
    BY <2>4 DEF s5k3ba_command, s5k3ba_data, s5k3ba_init_reg, s5k3ba_wb
  <2>5. CASE driver = "s5k6aa"
    BY <2>5 DEF s5k6aa_command, s5k6aa_data, s5k6aa_init_reg
  <2>6. CASE driver = "ov3640"
    BY <2>6 DEF ov3640_command, ov3640_data, ov3640_setting_15fps_VGA_640_480
  <2> QED
    BY <2>1, <2>2, <2>3, <2>4, <2>5, <2>6
<1> HIDE DEF r, w, h, t
<1>3. t \in Sensors /\ t.width = w /\ t.height = h
  BY <1>1, SendStep DEF t
<1>4. /\ [t EXCEPT !.wb = "none"] \in Sensors
      /\ [t EXCEPT !.wb = "none"].width = w /\ [t EXCEPT !.wb = "none"].height = h
  BY <1>3 DEF Sensors
<1>5. ASSUME arg \in WhiteBalances
      PROVE  [s EXCEPT !.wb = arg] \in Sensors /\ SameSize([s EXCEPT !.wb = arg], s)
  BY <1>5 DEF Sensors, SameSize
<1> QED
  BY <1>2, <1>3, <1>4, <1>5 DEF SameSize, Sized, r, w, h

LEMMA I2cStep ==
    ASSUME env \in Envs, NEW s \in Sensors, NEW cam, NEW cmd, NEW arg,
           \/ cmd = "INIT"
           \/ cmd = "RESOLUTION" /\ arg \in {"DEFAULT", "MAX"}
           \/ cmd = "WB" /\ arg \in WhiteBalances
    PROVE  LET r == I2c(cam, s, cmd, arg)
           IN  /\ r \in Sensors
               /\ cmd = "INIT" /\ cam = "cam" /\ env.answers => Sized(r, env.driver)
               /\ SameSize(r, s) \/ Sized(r, env.driver)
               /\ cmd = "WB" => SameSize(r, s)
BY EnvFields, CommandStep DEF I2c, SameSize

\* The fields of the block.
LEMMA BlockFields ==
    ASSUME NEW b \in Blocks
    PROVE  /\ b.source \in Sources /\ b.window \in Int /\ b.vsync \in BOOLEAN
           /\ b.pattern \in Nat /\ b.imgcpten \in BOOLEAN
BY DEF Blocks

LEMMA SourceStep ==
    ASSUME NEW ct \in Controllers, NEW cam \in CameraStates, NEW b \in Blocks
    PROVE  LET r == StartedBlock(ct, cam, b)
           IN  /\ r \in Blocks /\ r.imgcpten /\ r.pattern = b.pattern
               /\ ct.in_type = "CAMERA" =>
                     /\ r.window = cam.offset /\ r.source.width = cam.width
                     /\ r.source.height = cam.height
               /\ ct.in_type # "CAMERA" => r.window = b.window /\ r.source = b.source
<1> DEFINE src == [order422 |-> cam.order422, width |-> cam.width, height |-> cam.height]
           off == cam.offset
           vs == cam.vsync
           r == StartedBlock(ct, cam, b)
<1>1. src \in Sources /\ src.width = cam.width /\ src.height = cam.height
  BY CameraFields DEF Sources
<1>2. off \in Int /\ vs \in BOOLEAN
  BY CameraFields
<1>3. CASE ct.in_type = "CAMERA"
  <2>1. r = [b EXCEPT !.source = src, !.window = off, !.vsync = vs, !.imgcpten = TRUE]
    BY <1>3 DEF StartedBlock, set_polarity, set_camera_source, Blocks
  <2> HIDE DEF src, off, vs, r
  <2>2. /\ r \in Blocks /\ r.imgcpten /\ r.pattern = b.pattern
        /\ r.window = off /\ r.source = src
    BY <1>1, <1>2, <2>1 DEF Blocks
  <2> QED
    BY <1>1, <1>3, <2>2 DEF off, r
<1>4. CASE ct.in_type # "CAMERA"
  <2>1. r = [b EXCEPT !.imgcpten = TRUE]
    BY <1>4 DEF StartedBlock
  <2> HIDE DEF r
  <2>2. /\ r \in Blocks /\ r.imgcpten /\ r.pattern = b.pattern
        /\ r.window = b.window /\ r.source = b.source
    BY <2>1 DEF Blocks
  <2> QED
    BY <1>4, <2>2 DEF r
<1> QED
  BY <1>3, <1>4

-----------------------------------------------------------------------------
(* The state, and the calls that configure a controller *)

Frames(ct) == Shaped(ct.in_frame) /\ Shaped(ct.out_frame)
Base == TypeOK /\ \A c \in Ctrls : Frames(ctrl[c])

\* What a configuration call leaves of the controller it is made on, c, which
\* becomes q.
SameZoom(q, p) ==
    /\ q.sc.zoom_depth = p.sc.zoom_depth
    /\ q.sc.real_width = p.sc.real_width /\ q.sc.real_height = p.sc.real_height

Allowed(c, q) ==
    /\ ctrl[c].in_use
    /\ q.in_use = ctrl[c].in_use \/ (~q.in_use /\ OffOr(c, "die"))
    /\ q.in_type = ctrl[c].in_type \/ ("input" \in env.calls[c] /\ OffOr(c, "switch"))
    /\ q.out_type = ctrl[c].out_type \/ OffOr(c, "switch")
    /\ q.in_cam = ctrl[c].in_cam \/ env.calls[c] \cap {"active", "pattern"} # {}
    /\ q.in_cam # "none"
    /\ q.sc.bypass = ctrl[c].sc.bypass \/ "bypass" \in env.calls[c]
    /\ SameZoom(q, ctrl[c])
    /\ \/ q.out_frame.width = ctrl[c].out_frame.width
       \/ \E f \in env.out_formats : q.out_frame.width = f[2]

Laid(f, p) == p.addr = PlanesAt(f) /\ p.ends = InputEnds(f)

PlacedFrame(f) ==
    f.format \notin Rgb /\ f.planes # 1 =>
        /\ f.phys_cb = f.phys_y + f.width * f.height
        /\ f.phys_cr = f.phys_cb + CbcrSize(f.format, f.width * f.height)

PlacedRight(c) ==
    hist[c].placed =>
        /\ PlacedFrame(ctrl[c].in_frame)
        /\ ctrl[c].in_frame.planes > 0 => ctrl[c].in_frame.buf_size =
               get_buffer_size(ctrl[c].in_frame.width, ctrl[c].in_frame.height,
                               ctrl[c].in_frame.format)
        /\ path[c].addr.y # 0 => Laid(ctrl[c].in_frame, path[c])

Configured(c) ==
    /\ Allowed(c, ctrl'[c])
    /\ c \notin waiting
    /\ \A d \in Ctrls \ {c} : ctrl'[d] = ctrl[d] /\ hist'[d] = hist[d]
    /\ hist'[c].on = hist[c].on
    /\ UNCHANGED <<env, camera, local, waiting>>
    /\ SameSize(sensor', sensor)
    /\ block'.source = block.source /\ block'.window = block.window
    /\ block'.imgcpten = block.imgcpten
    /\ block'.pattern # 0 =>
           \/ ctrl'[c].in_cam = "tp"
           \/ block'.pattern = block.pattern /\ ctrl'[c].in_cam = ctrl[c].in_cam
    /\ \A d \in Ctrls :
           /\ SameFlags(path'[d], path[d]) /\ SameScale(path'[d], path[d])
           /\ path'[d].target = path[d].target
           /\ path'[d].rot90 \/ SameTarget(path'[d], path[d])
    /\ \A d \in Ctrls \ {c} : SamePlaces(path'[d], path[d])
    /\ PlacedRight(c) => PlacedRight(c)'

LEMMA TypedState ==
    ASSUME Base
    PROVE  /\ env \in Envs /\ ctrl \in [Ctrls -> Controllers]
           /\ camera \in [Cameras -> CameraStates]
           /\ sensor \in Sensors /\ block \in Blocks /\ path \in [Ctrls -> Paths]
           /\ waiting \subseteq Ctrls
           /\ hist \in [Ctrls -> [on : BOOLEAN, placed : BOOLEAN]]
           /\ \A c \in Ctrls : Frames(ctrl[c])
           /\ \A c \in Ctrls : ctrl[c].in_use => Cam(c) \in CameraStates
                                                 /\ ctrl[c].in_cam \in Cameras
           /\ \A c \in waiting : c \in Ctrls /\ ctrl[c].in_use
<1>1. \A c \in Ctrls : ctrl[c].in_use => Cam(c) \in CameraStates
                                         /\ ctrl[c].in_cam \in Cameras
  BY CtrlFields DEF Base, TypeOK, Cam
<1> QED
  BY <1>1 DEF Base, TypeOK

LEMMA CtrlUpdate ==
    ASSUME ctrl \in [Ctrls -> Controllers], NEW c \in Ctrls, NEW q \in Controllers,
           ctrl' = [ctrl EXCEPT ![c] = q]
    PROVE  /\ ctrl' \in [Ctrls -> Controllers] /\ ctrl'[c] = q
           /\ \A d \in Ctrls \ {c} : ctrl'[d] = ctrl[d]
OBVIOUS

\* The state after a call has its types.
LEMMA BaseKept ==
    ASSUME Base, NEW c \in Ctrls, NEW q \in Controllers, Frames(q),
           q.in_use => q.in_cam # "none", c \in waiting' => q.in_use,
           ctrl' = [ctrl EXCEPT ![c] = q],
           waiting' \subseteq waiting \cup {c}, env' = env,
           camera' \in [Cameras -> CameraStates],
           \A id \in Cameras : camera'[id].offset \in (-env.max_offset)..env.max_offset,
           sensor' \in Sensors, block' \in Blocks, path' \in [Ctrls -> Paths],
           local' \subseteq 0..2, hist' \in [Ctrls -> [on : BOOLEAN, placed : BOOLEAN]]
    PROVE  Base'
<1>1. /\ ctrl' \in [Ctrls -> Controllers] /\ ctrl'[c] = q
      /\ \A d \in Ctrls \ {c} : ctrl'[d] = ctrl[d]
  BY CtrlUpdate DEF Base, TypeOK
<1> QED
  BY <1>1 DEF Base, TypeOK, Frames

\* ... after one that changes the controller, the block and the sensor alone.
LEMMA CtrlConfigured ==
    ASSUME Base, NEW c \in Ctrls, c \notin waiting, NEW q \in Controllers, Frames(q),
           Allowed(c, q), q.in_frame = ctrl[c].in_frame,
           ctrl' = [ctrl EXCEPT ![c] = q],
           UNCHANGED <<env, camera, path, local, waiting, hist>>,
           sensor' \in Sensors, SameSize(sensor', sensor), block' \in Blocks,
           block'.source = block.source, block'.window = block.window,
           block'.imgcpten = block.imgcpten,
           block'.pattern # 0 =>
               \/ q.in_cam = "tp"
               \/ block'.pattern = block.pattern /\ q.in_cam = ctrl[c].in_cam
    PROVE  Base' /\ Configured(c)
<1>1. /\ ctrl' \in [Ctrls -> Controllers] /\ ctrl'[c] = q
      /\ \A d \in Ctrls \ {c} : ctrl'[d] = ctrl[d]
  BY CtrlUpdate DEF Base, TypeOK
<1>2. Base'
  BY BaseKept DEF Base, TypeOK, Allowed
<1>3. PlacedRight(c) => PlacedRight(c)'
  BY <1>1 DEF PlacedRight
<1> QED
  BY <1>1, <1>2, <1>3 DEF Configured, SameFlags, SameScale, SameTarget, SamePlaces

\* A frame put into a controller.
LEMMA FrameChange ==
    ASSUME NEW ct \in Controllers, Frames(ct), NEW f \in OutFrames, Shaped(f)
    PROVE  LET q == [ct EXCEPT !.out_frame = f]
           IN  /\ q \in Controllers /\ Frames(q) /\ q.out_frame = f
               /\ q.in_use = ct.in_use /\ q.in_type = ct.in_type
               /\ q.out_type = ct.out_type /\ q.in_cam = ct.in_cam
               /\ q.in_frame = ct.in_frame /\ q.sc = ct.sc
BY DEF Controllers, Frames

LEMMA InFrameChange ==
    ASSUME NEW ct \in Controllers, Frames(ct), NEW f \in InFrames, Shaped(f)
    PROVE  LET q == [ct EXCEPT !.in_frame = f]
           IN  /\ q \in Controllers /\ Frames(q) /\ q.in_frame = f
               /\ q.in_use = ct.in_use /\ q.in_type = ct.in_type
               /\ q.out_type = ct.out_type /\ q.in_cam = ct.in_cam
               /\ q.out_frame = ct.out_frame /\ q.sc = ct.sc
BY DEF Controllers, Frames

LEMMA OutFormatConfigured ==
    ASSUME Base, NEW c \in Ctrls, NEW fmt \in env.out_formats, NEW field,
           SetOutFormat(c, fmt, field) \/ SetFbuf(c, fmt, field)
    PROVE  Base' /\ Configured(c)
<1> DEFINE f == set_output_format(ctrl[c].out_frame, fmt[1], fmt[2], fmt[3], field)
           q == [ctrl[c] EXCEPT !.out_frame = f]
<1>1. /\ ctrl[c].in_use /\ c \notin waiting
      /\ ctrl' = [ctrl EXCEPT ![c] = q]
      /\ UNCHANGED <<env, camera, sensor, block, path, local, waiting, hist>>
  BY DEF SetOutFormat, SetFbuf, Call
<1>2. ctrl[c] \in Controllers /\ Frames(ctrl[c])
  BY TypedState
<1>3. f \in OutFrames /\ Shaped(f) /\ f.width = fmt[2]
  <2>1. fmt \in STRING \X Nat \X Nat
    BY TypedState, EnvFields
  <2>2. ctrl[c].out_frame \in OutFrames /\ Shaped(ctrl[c].out_frame)
    BY <1>2, CtrlFields DEF Frames
  <2> QED
    BY <2>1, <2>2, OutFormatStep
<1> HIDE DEF f
<1>4. /\ q \in Controllers /\ Frames(q) /\ q.out_frame = f
      /\ q.in_use = ctrl[c].in_use /\ q.in_type = ctrl[c].in_type
      /\ q.out_type = ctrl[c].out_type /\ q.in_cam = ctrl[c].in_cam
      /\ q.in_frame = ctrl[c].in_frame /\ q.sc = ctrl[c].sc
  BY <1>2, <1>3, FrameChange
<1> HIDE DEF q
<1>5. Allowed(c, q)
  BY <1>1, <1>3, <1>4, TypedState DEF Allowed, SameZoom, Cameras
<1> QED
  BY <1>1, <1>4, <1>5, TypedState, CtrlConfigured DEF SameSize

\* The calls that change a field of the controller and neither frame.
LEMMA FieldConfigured ==
    ASSUME Base, NEW c \in Ctrls,
           \/ Release(c)
           \/ \E t \in {"CAMERA", "DMA"} : SetInput(c, t)
           \/ \E t \in {"DMA", "LCDFIFO"} : SetOutput(c, t)
    PROVE  Base' /\ Configured(c)
<1>1. /\ ctrl[c].in_use /\ c \notin waiting
      /\ UNCHANGED <<env, camera, sensor, block, path, local, waiting, hist>>
  BY DEF Release, SetInput, SetOutput, Call
<1>2. /\ ctrl[c] \in Controllers /\ Frames(ctrl[c]) /\ ctrl[c].in_cam # "none"
      /\ sensor \in Sensors /\ block \in Blocks
  BY <1>1, TypedState DEF Cameras
<1>3. PICK q \in Controllers : ctrl' = [ctrl EXCEPT ![c] = q] /\ Frames(q) /\ Allowed(c, q)
                               /\ q.in_frame = ctrl[c].in_frame /\ q.in_cam = ctrl[c].in_cam
  <2>1. CASE Release(c)
    <3> DEFINE q == [ctrl[c] EXCEPT !.in_use = FALSE]
    <3>1. ctrl' = [ctrl EXCEPT ![c] = q] /\ OffOr(c, "die")
      BY <2>1 DEF Release
    <3>2. /\ q \in Controllers /\ ~q.in_use /\ q.in_type = ctrl[c].in_type
          /\ q.out_type = ctrl[c].out_type /\ q.in_cam = ctrl[c].in_cam
          /\ q.in_frame = ctrl[c].in_frame /\ q.out_frame = ctrl[c].out_frame
          /\ q.sc = ctrl[c].sc
      BY <1>2 DEF Controllers
    <3> HIDE DEF q
    <3> QED
      BY <1>1, <1>2, <3>1, <3>2 DEF Frames, Allowed, SameZoom
  <2>2. ASSUME NEW t \in {"CAMERA", "DMA"}, SetInput(c, t)
        PROVE  \E q \in Controllers : ctrl' = [ctrl EXCEPT ![c] = q] /\ Frames(q)
                 /\ Allowed(c, q) /\ q.in_frame = ctrl[c].in_frame
                 /\ q.in_cam = ctrl[c].in_cam
    <3> DEFINE q == [ctrl[c] EXCEPT !.in_type = t]
    <3>1. /\ ctrl' = [ctrl EXCEPT ![c] = q] /\ OffOr(c, "switch")
          /\ "input" \in env.calls[c]
      BY <2>2 DEF SetInput, Call
    <3>2. /\ q \in Controllers /\ q.in_use = ctrl[c].in_use
          /\ q.out_type = ctrl[c].out_type /\ q.in_cam = ctrl[c].in_cam
          /\ q.in_frame = ctrl[c].in_frame /\ q.out_frame = ctrl[c].out_frame
          /\ q.sc = ctrl[c].sc
      BY <1>2 DEF Controllers
    <3> HIDE DEF q
    <3> QED
      BY <1>1, <1>2, <3>1, <3>2 DEF Frames, Allowed, SameZoom
  <2>3. ASSUME NEW t \in {"DMA", "LCDFIFO"}, SetOutput(c, t)
        PROVE  \E q \in Controllers : ctrl' = [ctrl EXCEPT ![c] = q] /\ Frames(q)
                 /\ Allowed(c, q) /\ q.in_frame = ctrl[c].in_frame
                 /\ q.in_cam = ctrl[c].in_cam
    <3> DEFINE q == [ctrl[c] EXCEPT !.out_type = t]
    <3>1. ctrl' = [ctrl EXCEPT ![c] = q] /\ OffOr(c, "switch")
      BY <2>3 DEF SetOutput
    <3>2. /\ q \in Controllers /\ q.in_use = ctrl[c].in_use
          /\ q.in_type = ctrl[c].in_type /\ q.in_cam = ctrl[c].in_cam
          /\ q.in_frame = ctrl[c].in_frame /\ q.out_frame = ctrl[c].out_frame
          /\ q.sc = ctrl[c].sc
      BY <1>2 DEF Controllers
    <3> HIDE DEF q
    <3> QED
      BY <1>1, <1>2, <3>1, <3>2 DEF Frames, Allowed, SameZoom
  <2> QED
    BY <2>1, <2>2, <2>3
<1> QED
  BY <1>1, <1>2, <1>3, CtrlConfigured DEF SameSize

LEMMA BypassConfigured ==
    ASSUME Base, NEW c \in Ctrls, Bypass(c)
    PROVE  Base' /\ Configured(c)
<1> DEFINE sc == [ctrl[c].sc EXCEPT !.bypass = TRUE]
           q == [ctrl[c] EXCEPT !.sc = sc]
<1>1. /\ ctrl[c].in_use /\ c \notin waiting /\ "bypass" \in env.calls[c]
      /\ UNCHANGED <<env, camera, sensor, block, path, local, waiting, hist>>
  BY DEF Bypass, Call
<1>2. /\ ctrl[c] \in Controllers /\ Frames(ctrl[c]) /\ ctrl[c].in_cam # "none"
      /\ sensor \in Sensors /\ block \in Blocks /\ ctrl[c].sc \in Scalers
  BY <1>1, TypedState, CtrlFields DEF Cameras
<1>3. ctrl' = [ctrl EXCEPT ![c] = q]
  BY TypedState DEF Bypass, Controllers
<1>4. /\ sc \in Scalers /\ sc.zoom_depth = ctrl[c].sc.zoom_depth
      /\ sc.real_width = ctrl[c].sc.real_width /\ sc.real_height = ctrl[c].sc.real_height
  BY <1>2 DEF Scalers
<1> HIDE DEF sc
<1>5. /\ q \in Controllers /\ q.in_use = ctrl[c].in_use /\ q.in_type = ctrl[c].in_type
      /\ q.out_type = ctrl[c].out_type /\ q.in_cam = ctrl[c].in_cam
      /\ q.in_frame = ctrl[c].in_frame /\ q.out_frame = ctrl[c].out_frame /\ q.sc = sc
  BY <1>2, <1>4 DEF Controllers
<1> HIDE DEF q
<1>6. Allowed(c, q) /\ Frames(q)
  BY <1>1, <1>2, <1>4, <1>5 DEF Allowed, SameZoom, Frames
<1> QED
  BY <1>1, <1>2, <1>3, <1>5, <1>6, CtrlConfigured DEF SameSize

LEMMA EffectConfigured ==
    ASSUME Base, NEW c \in Ctrls, NEW type \in {"ORIGINAL", "NEGATIVE"}, Effect(c, type)
    PROVE  Base' /\ Configured(c)
<1> DEFINE f == [ctrl[c].out_frame EXCEPT !.effect = type]
           q == [ctrl[c] EXCEPT !.out_frame = f]
<1>1. /\ ctrl[c].in_use /\ c \notin waiting /\ block' = change_effect(c, type, block)
      /\ UNCHANGED <<env, camera, sensor, path, local, waiting, hist>>
  BY DEF Effect, Call
<1>2. /\ ctrl[c] \in Controllers /\ Frames(ctrl[c]) /\ ctrl[c].in_cam # "none"
      /\ sensor \in Sensors /\ block \in Blocks /\ ctrl[c].out_frame \in OutFrames
  BY <1>1, TypedState, CtrlFields DEF Cameras
<1>3. ctrl' = [ctrl EXCEPT ![c] = q]
  BY TypedState DEF Effect, Controllers
<1>4. f \in OutFrames /\ Shaped(f) /\ f.width = ctrl[c].out_frame.width
  BY <1>2 DEF OutFrames, Shaped, Frames
<1> HIDE DEF f
<1>5. /\ q \in Controllers /\ Frames(q) /\ q.out_frame = f
      /\ q.in_use = ctrl[c].in_use /\ q.in_type = ctrl[c].in_type
      /\ q.out_type = ctrl[c].out_type /\ q.in_cam = ctrl[c].in_cam
      /\ q.in_frame = ctrl[c].in_frame /\ q.sc = ctrl[c].sc
  BY <1>2, <1>4, FrameChange
<1> HIDE DEF q
<1>6. Allowed(c, q)
  BY <1>1, <1>2, <1>4, <1>5 DEF Allowed, SameZoom
<1>7. /\ block' \in Blocks /\ block'.source = block.source /\ block'.window = block.window
      /\ block'.imgcpten = block.imgcpten /\ block'.pattern = block.pattern
  BY <1>1, <1>2 DEF change_effect, Blocks
<1> QED
  BY <1>1, <1>2, <1>3, <1>5, <1>6, <1>7, CtrlConfigured DEF SameSize

\* The calls that choose the picture.
LEMMA PictureConfigured ==
    ASSUME Base, NEW c \in Ctrls,
           \/ \E cam \in Cameras : ActiveCamera(c, cam)
           \/ TestPattern(c, 1)
    PROVE  Base' /\ Configured(c)
<1>1. /\ ctrl[c].in_use /\ c \notin waiting
      /\ env.calls[c] \cap {"active", "pattern"} # {}
      /\ UNCHANGED <<env, camera, path, local, waiting, hist>>
  BY DEF ActiveCamera, TestPattern, Call
<1>2. /\ ctrl[c] \in Controllers /\ Frames(ctrl[c]) /\ ctrl[c].in_cam # "none"
      /\ sensor \in Sensors /\ block \in Blocks
  BY <1>1, TypedState DEF Cameras
<1>3. PICK cam \in Cameras :
        /\ ctrl' = [ctrl EXCEPT ![c].in_cam = cam]
        /\ \/ block' = block /\ cam = "tp"
           \/ block' = [block EXCEPT !.pattern = 0]
           \/ block' = [block EXCEPT !.pattern = 1] /\ cam = "tp"
        /\ sensor' = sensor \/ sensor' = I2c(cam, sensor, "WB", "AUTO")
  BY DEF ActiveCamera, TestPattern, select_camera, Cameras
<1> DEFINE q == [ctrl[c] EXCEPT !.in_cam = cam]
<1>4. ctrl' = [ctrl EXCEPT ![c] = q]
  BY <1>3
<1>5. /\ q \in Controllers /\ q.in_use = ctrl[c].in_use /\ q.in_type = ctrl[c].in_type
      /\ q.out_type = ctrl[c].out_type /\ q.in_cam = cam
      /\ q.in_frame = ctrl[c].in_frame /\ q.out_frame = ctrl[c].out_frame
      /\ q.sc = ctrl[c].sc
  BY <1>2 DEF Controllers
<1> HIDE DEF q
<1>6. Allowed(c, q) /\ Frames(q)
  BY <1>1, <1>2, <1>5 DEF Allowed, SameZoom, Frames, Cameras
<1>7. sensor' \in Sensors /\ SameSize(sensor', sensor)
  BY <1>2, <1>3, TypedState, I2cStep DEF SameSize, WhiteBalances
<1>8. /\ block' \in Blocks /\ block'.source = block.source /\ block'.window = block.window
      /\ block'.imgcpten = block.imgcpten /\ (block'.pattern # 0 => cam = "tp")
  BY <1>2, <1>3 DEF Blocks
<1> QED
  BY <1>1, <1>2, <1>4, <1>5, <1>6, <1>7, <1>8, CtrlConfigured

LEMMA WhiteBalanceConfigured ==
    ASSUME Base, NEW c \in Ctrls, NEW type \in {"AUTO", "SUNNY"}, WhiteBalance(c, type)
    PROVE  Base' /\ Configured(c)
<1>1. /\ ctrl[c].in_use /\ c \notin waiting
      /\ sensor' = I2c(ctrl[c].in_cam, sensor, "WB", type)
      /\ UNCHANGED <<env, ctrl, camera, block, path, local, waiting, hist>>
  BY DEF WhiteBalance, Call
<1>2. /\ ctrl[c] \in Controllers /\ Frames(ctrl[c]) /\ ctrl[c].in_cam # "none"
      /\ sensor \in Sensors /\ block \in Blocks /\ ctrl \in [Ctrls -> Controllers]
  BY <1>1, TypedState DEF Cameras
<1>3. sensor' \in Sensors /\ SameSize(sensor', sensor)
  BY <1>1, <1>2, TypedState, I2cStep DEF WhiteBalances
<1>4. ctrl' = [ctrl EXCEPT ![c] = ctrl[c]]
  BY <1>1, <1>2
<1>5. Allowed(c, ctrl[c])
  BY <1>1, <1>2 DEF Allowed, SameZoom
<1> QED
  BY <1>1, <1>2, <1>3, <1>4, <1>5, CtrlConfigured

\* The calls about the input frame.
LEMMA HistUpdate ==
    ASSUME hist \in [Ctrls -> [on : BOOLEAN, placed : BOOLEAN]], NEW c \in Ctrls,
           NEW b \in BOOLEAN, hist' = [hist EXCEPT ![c].placed = b]
    PROVE  /\ hist' \in [Ctrls -> [on : BOOLEAN, placed : BOOLEAN]]
           /\ hist'[c].on = hist[c].on /\ hist'[c].placed = b
           /\ \A d \in Ctrls \ {c} : hist'[d] = hist[d]
OBVIOUS

LEMMA FrameConfigured ==
    ASSUME Base, NEW c \in Ctrls, c \notin waiting, ctrl[c].in_use,
           NEW f \in InFrames, Shaped(f), NEW p \in Paths, NEW b \in BOOLEAN,
           ctrl' = [ctrl EXCEPT ![c].in_frame = f],
           path' = [path EXCEPT ![c] = p],
           hist' = [hist EXCEPT ![c].placed = b],
           SameFlags(p, path[c]), SameScale(p, path[c]), SameTarget(p, path[c]),
           b => /\ PlacedFrame(f) /\ Laid(f, p)
                /\ f.buf_size = get_buffer_size(f.width, f.height, f.format),
           UNCHANGED <<env, camera, sensor, block, local, waiting>>
    PROVE  Base' /\ Configured(c)
<1> DEFINE q == [ctrl[c] EXCEPT !.in_frame = f]
<1>1. /\ ctrl[c] \in Controllers /\ Frames(ctrl[c]) /\ ctrl[c].in_cam # "none"
      /\ ctrl \in [Ctrls -> Controllers] /\ path \in [Ctrls -> Paths]
      /\ hist \in [Ctrls -> [on : BOOLEAN, placed : BOOLEAN]]
  BY TypedState DEF Cameras
<1>2. ctrl' = [ctrl EXCEPT ![c] = q]
  OBVIOUS
<1>3. /\ q \in Controllers /\ Frames(q) /\ q.in_frame = f
      /\ q.in_use = ctrl[c].in_use /\ q.in_type = ctrl[c].in_type
      /\ q.out_type = ctrl[c].out_type /\ q.in_cam = ctrl[c].in_cam
      /\ q.out_frame = ctrl[c].out_frame /\ q.sc = ctrl[c].sc
  BY <1>1, InFrameChange
<1> HIDE DEF q
<1>4. Allowed(c, q)
  BY <1>1, <1>3 DEF Allowed, SameZoom
<1>5. /\ ctrl' \in [Ctrls -> Controllers] /\ ctrl'[c] = q
      /\ \A d \in Ctrls \ {c} : ctrl'[d] = ctrl[d]
  BY <1>1, <1>2, <1>3, CtrlUpdate
<1>6. /\ hist' \in [Ctrls -> [on : BOOLEAN, placed : BOOLEAN]]
      /\ hist'[c].on = hist[c].on /\ hist'[c].placed = b
      /\ \A d \in Ctrls \ {c} : hist'[d] = hist[d]
  BY <1>1, HistUpdate
<1>7. path' \in [Ctrls -> Paths] /\ path'[c] = p /\ \A d \in Ctrls \ {c} : path'[d] = path[d]
  BY <1>1
<1>8. Base'
  BY <1>1, <1>2, <1>3, <1>6, <1>7, BaseKept DEF Base, TypeOK
<1>9. PlacedRight(c)'
  BY <1>3, <1>5, <1>6, <1>7 DEF PlacedRight
<1>10. \A d \in Ctrls :
           /\ SameFlags(path'[d], path[d]) /\ SameScale(path'[d], path[d])
           /\ SameTarget(path'[d], path[d])
  BY <1>7 DEF SameFlags, SameScale, SameTarget
<1>11. \A d \in Ctrls \ {c} : SamePlaces(path'[d], path[d])
  BY <1>7 DEF SamePlaces
<1> QED
  BY <1>4, <1>5, <1>6, <1>8, <1>9, <1>10, <1>11 DEF Configured, SameTarget, SameSize

LEMMA InFormatConfigured ==
    ASSUME Base, NEW c \in Ctrls, NEW fmt \in env.in_formats, SetInFormat(c, fmt)
    PROVE  Base' /\ Configured(c)
<1> DEFINE f == set_input_format(ctrl[c].in_frame, fmt[1], fmt[2], fmt[3])
<1>1. /\ ctrl[c].in_use /\ c \notin waiting
      /\ ctrl' = [ctrl EXCEPT ![c].in_frame = f]
      /\ hist' = [hist EXCEPT ![c].placed = FALSE]
      /\ UNCHANGED <<env, camera, sensor, block, path, local, waiting>>
  BY DEF SetInFormat, Call
<1>2. ctrl[c] \in Controllers /\ path \in [Ctrls -> Paths]
  BY TypedState
<1>3. f \in InFrames /\ Shaped(f)
  <2>1. fmt \in (PixelFormats \ Jpegs) \X Nat \X Nat
    BY TypedState, EnvFields
  <2> QED
    BY <1>2, <2>1, CtrlFields, InFormatStep
<1> HIDE DEF f
<1>4. path' = [path EXCEPT ![c] = path[c]] /\ path[c] \in Paths
  BY <1>1, <1>2
<1> QED
  BY <1>1, <1>3, <1>4, FrameConfigured DEF SameFlags, SameScale, SameTarget

\* One plane has no ends but its own, whatever lay behind it.
LEMMA LaidStep ==
    ASSUME NEW f \in InFrames, NEW p
    PROVE  LET g == InputAddress(f)
           IN  InputEnds(InputAddress(g)) = InputEnds(g) /\ PlanesAt(InputAddress(g)) = PlanesAt(g)
<1> DEFINE g == InputAddress(f)
<1>1. /\ g \in InFrames /\ g.planes = f.planes
      /\ IF f.planes = 1 THEN g.phys_cb = 0 /\ g.phys_cr = 0 ELSE g = f
  BY InputAddressStep DEF InputAddress
<1> HIDE DEF g
<1>2. InputAddress(g) = g
  BY <1>1 DEF InputAddress, InFrames
<1> QED
  BY <1>2 DEF g

LEMMA AddressConfigured ==
    ASSUME Base, NEW c \in Ctrls,
           \/ InputAddr(c, FrameAddr)
           \/ \E plane \in {"y", "cb", "cr"} : InputPlane(c, plane, FrameAddr)
    PROVE  Base' /\ Configured(c)
<1> DEFINE old == ctrl[c].in_frame
<1>1. /\ old \in InFrames /\ Shaped(old) /\ FrameAddr \in Nat
      /\ path \in [Ctrls -> Paths]
  BY TypedState, CtrlFields DEF Frames, FrameAddr
<1>2. PICK h \in InFrames, b \in BOOLEAN :
        /\ Place(c, h) /\ hist' = [hist EXCEPT ![c].placed = b]
        /\ h.format = old.format /\ h.planes = old.planes
        /\ b => h = alloc_input_memory(old, FrameAddr)
  <2> HIDE DEF old
  <2>1. CASE InputAddr(c, FrameAddr)
    <3>1. alloc_input_memory(old, FrameAddr) \in InFrames
          /\ alloc_input_memory(old, FrameAddr).format = old.format
          /\ alloc_input_memory(old, FrameAddr).planes = old.planes
      BY <1>1, PlacedStep
    <3> QED
      BY <2>1, <3>1 DEF InputAddr, old
  <2>2. ASSUME NEW plane \in {"y", "cb", "cr"}, InputPlane(c, plane, FrameAddr)
        PROVE  \E h \in InFrames, b \in BOOLEAN :
                 /\ Place(c, h) /\ hist' = [hist EXCEPT ![c].placed = b]
                 /\ h.format = old.format /\ h.planes = old.planes
                 /\ b => h = alloc_input_memory(old, FrameAddr)
    <3>1. alloc_plane_memory(old, plane, FrameAddr) \in InFrames
          /\ alloc_plane_memory(old, plane, FrameAddr).format = old.format
          /\ alloc_plane_memory(old, plane, FrameAddr).planes = old.planes
      BY <1>1, PlaneStep
    <3> QED
      BY <2>2, <3>1 DEF InputPlane, old
  <2> QED
    BY <2>1, <2>2
<1> DEFINE g == InputAddress(h)
           p == set_input_address(h, path[c])
<1>3. /\ ctrl' = [ctrl EXCEPT ![c].in_frame = g]
      /\ path' = [path EXCEPT ![c] = p]
      /\ UNCHANGED <<env, camera, sensor, block, local, waiting>>
  BY <1>2 DEF Place
<1>4. /\ g \in InFrames /\ g.width = h.width /\ g.height = h.height
      /\ g.format = h.format /\ g.planes = h.planes
      /\ g.buf_size = h.buf_size /\ g.phys_y = h.phys_y
      /\ IF h.planes = 1 THEN g.phys_cb = 0 /\ g.phys_cr = 0
         ELSE g.phys_cb = h.phys_cb /\ g.phys_cr = h.phys_cr
  BY InputAddressStep
<1>5. /\ p \in Paths /\ SameFlags(p, path[c]) /\ SameScale(p, path[c])
      /\ SameTarget(p, path[c]) /\ Laid(g, p)
  BY <1>1, PlaceStep DEF Laid
<1> HIDE DEF g, p
<1>6. Shaped(g)
  BY <1>1, <1>2, <1>4 DEF Shaped
<1>7. ASSUME b
      PROVE  /\ PlacedFrame(g)
             /\ g.buf_size = get_buffer_size(g.width, g.height, g.format)
  <2>1. h = alloc_input_memory(old, FrameAddr)
    BY <1>2, <1>7
  <2> HIDE DEF old
  <2>2. /\ h.width = old.width /\ h.height = old.height /\ h.format = old.format
        /\ h.phys_y = FrameAddr
        /\ h.buf_size = get_buffer_size(old.width, old.height, old.format)
        /\ old.format \notin Rgb =>
             /\ h.phys_cb = FrameAddr + old.width * old.height
             /\ h.phys_cr = FrameAddr + old.width * old.height
                              + CbcrSize(old.format, old.width * old.height)
    BY <1>1, <2>1, PlacedStep
  <2> QED
    BY <1>4, <2>2 DEF PlacedFrame
<1>8. ctrl[c].in_use /\ c \notin waiting
  BY DEF InputAddr, InputPlane, Call
<1> QED
  BY <1>2, <1>3, <1>4, <1>5, <1>6, <1>7, <1>8, FrameConfigured

\* The rotator.
LEMMA Rot90Step ==
    ASSUME NEW c \in Ctrls, NEW p \in Paths
    PROVE  LET q == set_rot90(c, p)
           IN  /\ q \in Paths /\ SameFlags(q, p) /\ SamePlaces(q, p) /\ SameScale(q, p)
               /\ q.target = p.target /\ (q.rot90 \/ SameTarget(q, p))
<1>1. <<4, 4>> \in Bursts
  BY DEF Bursts
<1>2. CASE c = PR
  <2>1. set_rot90(c, p) = [p EXCEPT !.yburst = <<4, 4>>, !.rot90 = TRUE]
    BY <1>2 DEF set_rot90
  <2> QED
    BY <1>1, <2>1 DEF Paths, SameFlags, SamePlaces, SameScale
<1>3. CASE c # PR
  BY <1>3 DEF set_rot90, SameFlags, SamePlaces, SameScale, SameTarget
<1> QED
  BY <1>2, <1>3

LEMMA FlipStep ==
    ASSUME NEW p \in Paths, NEW flip \in {"ORIGINAL", "XY"}
    PROVE  LET q == [p EXCEPT !.flip = flip]
           IN  /\ q \in Paths /\ SameFlags(q, p) /\ SamePlaces(q, p) /\ SameScale(q, p)
               /\ SameTarget(q, p)
BY DEF Paths, SameFlags, SamePlaces, SameScale, SameTarget

LEMMA RotateConfigured ==
    ASSUME Base, NEW c \in Ctrls, NEW flip \in {"ORIGINAL", "XY"}, NEW rot90 \in BOOLEAN,
           Rotate(c, flip, rot90)
    PROVE  Base' /\ Configured(c)
<1> DEFINE f == [ctrl[c].out_frame EXCEPT !.flip = flip]
           q == [ctrl[c] EXCEPT !.out_frame = f, !.rot90 = rot90]
<1>1. /\ ctrl[c].in_use /\ c \notin waiting
      /\ path' = change_rotate(c, ctrl'[c], path)
      /\ UNCHANGED <<env, camera, sensor, block, local, waiting, hist>>
  BY DEF Rotate, Call
<1>2. /\ ctrl[c] \in Controllers /\ Frames(ctrl[c]) /\ ctrl[c].in_cam # "none"
      /\ ctrl \in [Ctrls -> Controllers] /\ path \in [Ctrls -> Paths]
      /\ ctrl[c].out_frame \in OutFrames
  BY <1>1, TypedState, CtrlFields DEF Cameras
<1>3. ctrl' = [ctrl EXCEPT ![c] = q]
  BY <1>2 DEF Rotate, Controllers
<1>4. f \in OutFrames /\ Shaped(f) /\ f.width = ctrl[c].out_frame.width /\ f.flip = flip
  BY <1>2 DEF OutFrames, Shaped, Frames
<1> HIDE DEF f
<1>5. /\ q \in Controllers /\ q.out_frame = f
      /\ q.in_use = ctrl[c].in_use /\ q.in_type = ctrl[c].in_type
      /\ q.out_type = ctrl[c].out_type /\ q.in_cam = ctrl[c].in_cam
      /\ q.in_frame = ctrl[c].in_frame /\ q.sc = ctrl[c].sc /\ q.rot90 = rot90
  BY <1>2, <1>4 DEF Controllers
<1> HIDE DEF q
<1>6. Allowed(c, q) /\ Frames(q)
  BY <1>1, <1>2, <1>4, <1>5 DEF Allowed, SameZoom, Frames
<1>7. /\ ctrl' \in [Ctrls -> Controllers] /\ ctrl'[c] = q
      /\ \A d \in Ctrls \ {c} : ctrl'[d] = ctrl[d]
  BY <1>2, <1>3, <1>5, CtrlUpdate
<1> DEFINE ps == IF rot90 THEN [path EXCEPT ![c] = set_rot90(c, @)] ELSE path
<1>8. path' = IF q.out_type = "DMA" THEN [ps EXCEPT ![PR].flip = flip] ELSE ps
  BY <1>1, <1>4, <1>5, <1>7 DEF change_rotate
<1>9. /\ ps \in [Ctrls -> Paths]
      /\ \A d \in Ctrls :
           /\ SameFlags(ps[d], path[d]) /\ SameScale(ps[d], path[d])
           /\ SamePlaces(ps[d], path[d])
           /\ ps[d].target = path[d].target
           /\ ps[d].rot90 \/ SameTarget(ps[d], path[d])
  <2>1. CASE rot90
    <3>1. set_rot90(c, path[c]) \in Paths
      BY <1>2, Rot90Step
    <3>2. ps = [path EXCEPT ![c] = set_rot90(c, path[c])]
      BY <1>2, <2>1
    <3> QED
      BY <1>2, <3>1, <3>2, Rot90Step
         DEF SameFlags, SameScale, SamePlaces, SameTarget
  <2>2. CASE ~rot90
    BY <1>2, <2>2 DEF SameFlags, SameScale, SamePlaces, SameTarget
  <2> QED
    BY <2>1, <2>2
<1> HIDE DEF ps
<1>10. /\ path' \in [Ctrls -> Paths]
       /\ \A d \in Ctrls :
            /\ SameFlags(path'[d], ps[d]) /\ SameScale(path'[d], ps[d])
            /\ SamePlaces(path'[d], ps[d]) /\ SameTarget(path'[d], ps[d])
  <2>1. CASE q.out_type = "DMA"
    <3> DEFINE r == [ps[PR] EXCEPT !.flip = flip]
    <3>1. PR \in Ctrls /\ path' = [ps EXCEPT ![PR] = r]
      BY <1>8, <2>1 DEF PR, Ctrls
    <3>2. /\ r \in Paths /\ SameFlags(r, ps[PR]) /\ SamePlaces(r, ps[PR])
          /\ SameScale(r, ps[PR]) /\ SameTarget(r, ps[PR])
      BY <1>9, <3>1, FlipStep
    <3> HIDE DEF r
    <3> QED
      BY <1>9, <3>1, <3>2 DEF SameFlags, SameScale, SamePlaces, SameTarget
  <2>2. CASE q.out_type # "DMA"
    BY <1>8, <1>9, <2>2 DEF SameFlags, SameScale, SamePlaces, SameTarget
  <2> QED
    BY <2>1, <2>2
<1>11. Base'
  BY <1>1, <1>2, <1>3, <1>5, <1>6, <1>10, BaseKept DEF Base, TypeOK
<1>12. \A d \in Ctrls :
           /\ SameFlags(path'[d], path[d]) /\ SameScale(path'[d], path[d])
           /\ SamePlaces(path'[d], path[d])
           /\ path'[d].target = path[d].target
           /\ path'[d].rot90 \/ SameTarget(path'[d], path[d])
  BY <1>9, <1>10 DEF SameFlags, SameScale, SamePlaces, SameTarget
<1>13. PlacedRight(c) => PlacedRight(c)'
  BY <1>1, <1>5, <1>7, <1>12 DEF PlacedRight, SamePlaces, Laid
<1> QED
  BY <1>1, <1>5, <1>6, <1>7, <1>11, <1>12, <1>13 DEF Configured, SameSize

-----------------------------------------------------------------------------
(* The calls that reset the paths *)

Cleared(c) ==
    /\ c \notin waiting
    /\ path' = ResetPaths
    /\ ~block'.imgcpten
    /\ block'.source = block.source /\ block'.window = block.window
    /\ \/ block'.pattern = 0
       \/ block'.pattern = block.pattern /\ ctrl'[c].in_cam = ctrl[c].in_cam
    /\ UNCHANGED <<env, camera, sensor, local, waiting>>
    /\ \A d \in Ctrls \ {c} : ctrl'[d] = ctrl[d] /\ hist'[d] = hist[d]
    /\ hist'[c].placed = hist[c].placed
    /\ ctrl'[c].in_use
    /\ \/ ~ctrl[c].in_use /\ ~hist'[c].on
       \/ ctrl[c].in_use /\ hist'[c].on = hist[c].on
    /\ ctrl'[c].in_type = ctrl[c].in_type /\ ctrl'[c].out_type = ctrl[c].out_type
    /\ ctrl'[c].in_cam = ctrl[c].in_cam \/ ctrl'[c].in_cam = "cam"
    /\ ctrl'[c].in_frame = ctrl[c].in_frame
    /\ ctrl'[c].out_frame.width = ctrl[c].out_frame.width
    /\ SameZoom(ctrl'[c], ctrl[c])
    /\ ctrl'[c].sc.bypass = ctrl[c].sc.bypass \/ ~ctrl'[c].sc.bypass

LEMMA EmptyPaths ==
    /\ ResetPaths \in [Ctrls -> Paths]
    /\ \A c \in Ctrls :
           /\ ~ResetPaths[c].start /\ ~ResetPaths[c].cpt /\ ~ResetPaths[c].envid
           /\ ResetPaths[c].addr.y = 0
<1>1. /\ <<"RGB565", 0, "none">> \in InputFormats
      /\ [y |-> 0, cb |-> 0, cr |-> 0] \in Addresses
      /\ [format |-> "YCBCR420", planes |-> 0, width |-> 0, height |-> 0] \in Targets
      /\ <<0, 0>> \in Bursts
      /\ [shfactor |-> 0, hratio |-> 0, vratio |-> 0, width |-> 0, height |-> 0] \in Prescalers
      /\ [bypass |-> FALSE, up_h |-> FALSE, up_v |-> FALSE,
          interlace |-> FALSE, hratio |-> 0, vratio |-> 0] \in MainScalers
  BY DEF InputFormats, Addresses, Targets, Bursts, Prescalers, MainScalers, Formats, Rgb,
     Ratios
<1>2. Path0 \in Paths
  BY <1>1 DEF Path0, Paths, Orders
<1>3. ~Path0.start /\ ~Path0.cpt /\ ~Path0.envid /\ Path0.addr.y = 0
  BY DEF Path0
<1> QED
  BY <1>2, <1>3 DEF ResetPaths

LEMMA ResetBlockStep ==
    ASSUME NEW b \in Blocks
    PROVE  /\ ResetBlock(b) \in Blocks /\ ResetBlock(b).source = b.source
           /\ ResetBlock(b).window = b.window /\ ResetBlock(b).pattern = b.pattern
           /\ ~ResetBlock(b).imgcpten
           /\ select_camera(b) \in Blocks /\ select_camera(b).source = b.source
           /\ select_camera(b).window = b.window /\ select_camera(b).pattern = 0
           /\ select_camera(b).imgcpten = b.imgcpten
BY DEF ResetBlock, select_camera, Blocks

LEMMA OpenCleared ==
    ASSUME Base, NEW c \in Ctrls, Open(c)
    PROVE  Base' /\ Cleared(c)
<1> DEFINE q == [ctrl[c] EXCEPT !.in_use = TRUE, !.in_cam = "cam"]
<1>1. /\ ctrl[c] \in Controllers /\ Frames(ctrl[c]) /\ block \in Blocks
      /\ ctrl \in [Ctrls -> Controllers] /\ (c \in waiting => ctrl[c].in_use)
      /\ hist \in [Ctrls -> [on : BOOLEAN, placed : BOOLEAN]]
  BY TypedState
<1>2. /\ ~ctrl[c].in_use /\ path' = ResetPaths
      /\ block' = select_camera(ResetBlock(block))
      /\ hist' = [hist EXCEPT ![c].on = FALSE]
      /\ UNCHANGED <<env, camera, sensor, local, waiting>>
  BY DEF Open
<1>3. ctrl' = [ctrl EXCEPT ![c] = q]
  BY <1>1 DEF Open, Controllers
<1>4. /\ q \in Controllers /\ q.in_use /\ q.in_type = ctrl[c].in_type
      /\ q.out_type = ctrl[c].out_type /\ q.in_cam = "cam"
      /\ q.in_frame = ctrl[c].in_frame /\ q.out_frame = ctrl[c].out_frame
      /\ q.sc = ctrl[c].sc
  BY <1>1 DEF Controllers, Cameras
<1> HIDE DEF q
<1>5. /\ ctrl'[c] = q /\ \A d \in Ctrls \ {c} : ctrl'[d] = ctrl[d]
  BY <1>1, <1>3, <1>4, CtrlUpdate
<1>6. /\ hist' \in [Ctrls -> [on : BOOLEAN, placed : BOOLEAN]]
      /\ ~hist'[c].on /\ hist'[c].placed = hist[c].placed
      /\ \A d \in Ctrls \ {c} : hist'[d] = hist[d]
  BY <1>1, <1>2
<1>7. /\ block' \in Blocks /\ block'.source = block.source /\ block'.window = block.window
      /\ block'.pattern = 0 /\ ~block'.imgcpten
  BY <1>1, <1>2, ResetBlockStep
<1>8. Base'
  BY <1>1, <1>2, <1>3, <1>4, <1>6, <1>7, EmptyPaths, BaseKept DEF Base, TypeOK, Frames
<1> QED
  BY <1>1, <1>2, <1>4, <1>5, <1>6, <1>7, <1>8 DEF Cleared, SameZoom

LEMMA ResetCleared ==
    ASSUME Base, NEW c \in Ctrls, Reset(c)
    PROVE  Base' /\ Cleared(c)
<1> DEFINE f == [ctrl[c].out_frame EXCEPT !.flip = "ORIGINAL", !.effect = "ORIGINAL"]
           sc == [ctrl[c].sc EXCEPT !.bypass = FALSE]
           q == [ctrl[c] EXCEPT !.rot90 = FALSE, !.sc = sc, !.out_frame = f]
<1>1. /\ ctrl[c] \in Controllers /\ Frames(ctrl[c]) /\ block \in Blocks
      /\ ctrl \in [Ctrls -> Controllers]
      /\ hist \in [Ctrls -> [on : BOOLEAN, placed : BOOLEAN]]
      /\ ctrl[c].out_frame \in OutFrames /\ ctrl[c].sc \in Scalers
  BY TypedState, CtrlFields
<1>2. /\ ctrl[c].in_use /\ c \notin waiting /\ path' = ResetPaths
      /\ block' = ResetBlock(block)
      /\ UNCHANGED <<env, camera, sensor, local, waiting, hist>>
  BY DEF Reset, Call
<1>3. ctrl' = [ctrl EXCEPT ![c] = q]
  BY DEF Reset
<1>4. /\ f \in OutFrames /\ Shaped(f) /\ f.width = ctrl[c].out_frame.width
      /\ sc \in Scalers /\ ~sc.bypass /\ sc.zoom_depth = ctrl[c].sc.zoom_depth
      /\ sc.real_width = ctrl[c].sc.real_width /\ sc.real_height = ctrl[c].sc.real_height
  <2>1. f \in OutFrames /\ Shaped(f) /\ f.width = ctrl[c].out_frame.width
    BY <1>1 DEF OutFrames, Frames, Shaped
  <2>2. /\ sc \in Scalers /\ ~sc.bypass /\ sc.zoom_depth = ctrl[c].sc.zoom_depth
        /\ sc.real_width = ctrl[c].sc.real_width /\ sc.real_height = ctrl[c].sc.real_height
    BY <1>1 DEF Scalers
  <2> QED
    BY <2>1, <2>2
<1> HIDE DEF f, sc
<1>5. /\ q \in Controllers /\ q.in_use = ctrl[c].in_use /\ q.in_type = ctrl[c].in_type
      /\ q.out_type = ctrl[c].out_type /\ q.in_cam = ctrl[c].in_cam
      /\ q.in_frame = ctrl[c].in_frame /\ q.out_frame = f /\ q.sc = sc
  BY <1>1, <1>4 DEF Controllers
<1> HIDE DEF q
<1>6. ctrl'[c] = q /\ \A d \in Ctrls \ {c} : ctrl'[d] = ctrl[d]
  BY <1>1, <1>3, <1>5, CtrlUpdate
<1>7. /\ block' \in Blocks /\ block'.source = block.source /\ block'.window = block.window
      /\ block'.pattern = block.pattern /\ ~block'.imgcpten
  BY <1>1, <1>2, ResetBlockStep
<1>8. Frames(q) /\ q.in_cam # "none"
  BY <1>1, <1>2, <1>4, <1>5, TypedState DEF Frames, Cameras
<1>9. Base'
  BY <1>1, <1>2, <1>3, <1>5, <1>7, <1>8, EmptyPaths, BaseKept DEF Base, TypeOK
<1> QED
  BY <1>1, <1>2, <1>4, <1>5, <1>6, <1>7, <1>9 DEF Cleared, SameZoom

-----------------------------------------------------------------------------
(* The calls that stop a path *)

SamePictures ==
    \A id \in Cameras : /\ camera'[id].width = camera[id].width
                        /\ camera'[id].height = camera[id].height
                        /\ camera'[id].initialized = camera[id].initialized

Stopped(c) ==
    /\ ctrl[c].in_use /\ c \notin waiting
    /\ env' = env
    /\ waiting' \in {waiting, waiting \cup {c}}
    /\ camera' = camera \/ waiting' # {}
    /\ SamePictures
    /\ SameSize(sensor', sensor) \/ Sized(sensor', env.driver)
    /\ \A d \in Ctrls \ {c} : ctrl'[d] = ctrl[d] /\ hist'[d] = hist[d] /\ path'[d] = path[d]
    /\ hist'[c].placed = hist[c].placed /\ ~hist'[c].on
    /\ ctrl'[c].in_use /\ ctrl'[c].in_cam = ctrl[c].in_cam
    /\ ctrl'[c].in_type = ctrl[c].in_type /\ ctrl'[c].out_type = ctrl[c].out_type
    /\ ctrl'[c].in_frame = ctrl[c].in_frame /\ ctrl'[c].out_frame = ctrl[c].out_frame
    /\ ctrl'[c].sc.bypass = ctrl[c].sc.bypass
    /\ ~path'[c].start /\ ~path'[c].cpt /\ SamePlaces(path'[c], path[c])
    /\ path'[c].envid = (path[c].envid /\ ctrl[c].in_type # "DMA")
    /\ block'.source = block.source /\ block'.window = block.window
    /\ block'.pattern = block.pattern
    /\ block'.imgcpten = (block.imgcpten /\ \E d \in Ctrls \ {c} : path[d].cpt)
    /\ local' = StoppedLocal(c, ctrl[c], local)

LEMMA StoppedPathStep ==
    ASSUME NEW ct \in Controllers, NEW p \in Paths
    PROVE  LET q == StoppedPath(ct, p)
           IN  /\ q \in Paths /\ ~q.start /\ ~q.cpt /\ SamePlaces(q, p)
               /\ q.envid = (p.envid /\ ct.in_type # "DMA")
<1> DEFINE r == IF ct.in_type = "DMA" THEN stop_input_dma(p) ELSE p
           q == StoppedPath(ct, p)
<1>1. q = [r EXCEPT !.start = FALSE, !.cpt = FALSE]
  BY DEF StoppedPath
<1>2. /\ r \in Paths /\ SamePlaces(r, p) /\ r.envid = (p.envid /\ ct.in_type # "DMA")
  <2>1. CASE ct.in_type = "DMA"
    <3>1. r = [p EXCEPT !.envid = FALSE]
      BY <2>1 DEF stop_input_dma
    <3> HIDE DEF r
    <3>2. r \in Paths /\ SamePlaces(r, p) /\ r.envid = FALSE
      BY <3>1, EnvidBit
    <3> QED
      BY <2>1, <3>2
  <2>2. CASE ct.in_type # "DMA"
    BY <2>2, PathFields DEF SamePlaces
  <2> QED
    BY <2>1, <2>2
<1> HIDE DEF r, q
<1>3. q \in Paths /\ q.start = FALSE /\ q.cpt = FALSE /\ SamePlaces(q, r) /\ q.envid = r.envid
  BY <1>1, <1>2 DEF Paths, SamePlaces
<1> QED
  BY <1>2, <1>3 DEF SamePlaces, q

\* s3c_fimc_stop_dma, when the call leaves the controller q.
LEMMA StopDmaStep ==
    ASSUME Base, NEW c \in Ctrls, ctrl[c].in_use, c \notin waiting, StopDma(c), env' = env,
           NEW q \in Controllers, ctrl' = [ctrl EXCEPT ![c] = q],
           q.in_use, q.in_cam = ctrl[c].in_cam,
           q.in_type = ctrl[c].in_type, q.out_type = ctrl[c].out_type,
           q.in_frame = ctrl[c].in_frame, q.out_frame = ctrl[c].out_frame,
           q.sc.bypass = ctrl[c].sc.bypass,
           waiting' \in {waiting, waiting \cup {c}},
           camera' \in [Cameras -> CameraStates], SamePictures,
           \A id \in Cameras : camera'[id].offset \in (-env.max_offset)..env.max_offset,
           camera' = camera \/ waiting' # {},
           sensor' \in Sensors, SameSize(sensor', sensor) \/ Sized(sensor', env.driver)
    PROVE  Base' /\ Stopped(c)
<1>1. /\ ctrl[c] \in Controllers /\ Frames(ctrl[c]) /\ block \in Blocks
      /\ ctrl \in [Ctrls -> Controllers] /\ path \in [Ctrls -> Paths]
      /\ hist \in [Ctrls -> [on : BOOLEAN, placed : BOOLEAN]]
      /\ ctrl[c].in_cam # "none"
  BY TypedState DEF Cameras
<1>2. ctrl'[c] = q /\ \A d \in Ctrls \ {c} : ctrl'[d] = ctrl[d]
  BY <1>1, CtrlUpdate
<1> DEFINE p == StoppedPath(ctrl[c], path[c])
<1>3. /\ p \in Paths /\ ~p.start /\ ~p.cpt /\ SamePlaces(p, path[c])
      /\ p.envid = (path[c].envid /\ ctrl[c].in_type # "DMA")
  BY <1>1, StoppedPathStep
<1>4. path' = [path EXCEPT ![c] = p]
  BY DEF StopDma
<1> HIDE DEF p
<1>5. path' \in [Ctrls -> Paths] /\ path'[c] = p /\ \A d \in Ctrls \ {c} : path'[d] = path[d]
  BY <1>1, <1>3, <1>4
<1>6. /\ hist' \in [Ctrls -> [on : BOOLEAN, placed : BOOLEAN]]
      /\ ~hist'[c].on /\ hist'[c].placed = hist[c].placed
      /\ \A d \in Ctrls \ {c} : hist'[d] = hist[d]
  BY <1>1 DEF StopDma
<1>7. /\ block' \in Blocks /\ block'.source = block.source /\ block'.window = block.window
      /\ block'.pattern = block.pattern
      /\ block'.imgcpten = (block.imgcpten /\ \E d \in Ctrls \ {c} : path[d].cpt)
  <2> DEFINE b == block.imgcpten /\ \E d \in Ctrls \ {c} : path[d].cpt
  <2>1. block' = [block EXCEPT !.imgcpten = b] /\ b \in BOOLEAN
    BY DEF StopDma, disable_capture
  <2> HIDE DEF b
  <2>2. /\ block' \in Blocks /\ block'.source = block.source /\ block'.window = block.window
        /\ block'.pattern = block.pattern /\ block'.imgcpten = b
    BY <1>1, <2>1 DEF Blocks
  <2> QED
    BY <2>2 DEF b
<1>8. local' = StoppedLocal(c, ctrl[c], local) /\ local' \subseteq 0..2
  BY DEF StopDma, StoppedLocal, Base, TypeOK
<1>9. Base'
  BY <1>1, <1>5, <1>6, <1>7, <1>8, BaseKept DEF Frames
<1> QED
  BY <1>2, <1>3, <1>5, <1>6, <1>7, <1>8, <1>9 DEF Stopped

LEMMA StopStopped ==
    ASSUME Base, NEW c \in Ctrls, Stop(c)
    PROVE  Base' /\ Stopped(c)
<1>1. /\ ctrl[c].in_use /\ c \notin waiting /\ StopDma(c)
      /\ UNCHANGED <<env, ctrl, camera, sensor, waiting>>
  BY DEF Stop, Call
<1>2. ctrl[c] \in Controllers /\ ctrl' = [ctrl EXCEPT ![c] = ctrl[c]]
  BY <1>1, TypedState
<1> QED
  BY <1>1, <1>2, StopDmaStep DEF Base, TypeOK, SamePictures, SameSize

LEMMA ParmStopped ==
    ASSUME Base, NEW c \in Ctrls, NEW res \in {"DEFAULT", "MAX"}, SetParm(c, res)
    PROVE  Base' /\ Stopped(c)
<1>1. /\ ctrl[c].in_use /\ c \notin waiting /\ StopDma(c)
      /\ waiting' = waiting \cup {c}
      /\ sensor' = I2c(ctrl[c].in_cam, sensor, "RESOLUTION", res)
      /\ UNCHANGED <<env, ctrl, camera>>
  BY DEF SetParm, Restart, Call
<1>2. ctrl[c] \in Controllers /\ ctrl' = [ctrl EXCEPT ![c] = ctrl[c]]
  BY <1>1, TypedState
<1>3. /\ sensor' \in Sensors
      /\ SameSize(sensor', sensor) \/ Sized(sensor', env.driver)
  BY <1>1, TypedState, I2cStep
<1> QED
  BY <1>1, <1>2, <1>3, StopDmaStep DEF Base, TypeOK, SamePictures

\* A zoom step moves the depth of the controller and the offset of its camera.
Zoomed(c, step) ==
    /\ step = 1 => MayZoomIn(ctrl[c].sc, Cam(c).offset)
    /\ ctrl'[c].sc.zoom_depth = ctrl[c].sc.zoom_depth + step
    /\ \A d \in Ctrls \ {c} : ctrl'[d] = ctrl[d]
    /\ ctrl[c].in_cam \in Cameras
    /\ camera'[ctrl[c].in_cam].offset = camera[ctrl[c].in_cam].offset + step * ZOOM_PIXELS
    /\ \A id \in Cameras \ {ctrl[c].in_cam} : camera'[id] = camera[id]

LEMMA ZoomStopped ==
    ASSUME Base, NEW c \in Ctrls, ZoomIn(c) \/ ZoomOut(c)
    PROVE  Base' /\ Stopped(c) /\ \E step \in {1, -1} : Zoomed(c, step)
<1>1. PICK step \in {1, -1} : /\ Zoom(c, step) /\ Call(c, "zoom")
                              /\ step = -1 => ctrl[c].sc.zoom_depth > 0
                              /\ step = 1 => MayZoomIn(ctrl[c].sc, Cam(c).offset)
  BY DEF ZoomIn, ZoomOut, MayZoomOut
<1> DEFINE id == ctrl[c].in_cam
           depth == ctrl[c].sc.zoom_depth + step
           offset == camera[id].offset + step * ZOOM_PIXELS
           sc == [ctrl[c].sc EXCEPT !.zoom_depth = depth]
           q == [ctrl[c] EXCEPT !.sc = sc]
           cam == [camera[id] EXCEPT !.offset = offset]
<1>2. /\ ctrl[c].in_use /\ c \notin waiting /\ StopDma(c) /\ waiting' = waiting \cup {c}
      /\ UNCHANGED <<env, sensor>> /\ offset \in (-env.max_offset)..env.max_offset
  BY <1>1 DEF Zoom, Restart, Call, Cam
<1>3. /\ ctrl[c] \in Controllers /\ ctrl[c].sc \in Scalers /\ id \in Cameras
      /\ camera[id] \in CameraStates /\ camera \in [Cameras -> CameraStates]
      /\ ctrl \in [Ctrls -> Controllers] /\ env.max_offset \in Nat
      /\ sensor \in Sensors
  BY <1>2, TypedState, CtrlFields, EnvFields DEF Cam
<1>4. depth \in Nat /\ offset \in Int
  BY <1>1, <1>2, <1>3, ScalerFields
<1>5. /\ ctrl' = [ctrl EXCEPT ![c] = q]
      /\ camera' = [camera EXCEPT ![id] = cam]
  BY <1>1, <1>3 DEF Zoom, ZoomDepth, Cam, Controllers, CameraStates
<1> HIDE DEF depth, offset, id
<1>6. sc \in Scalers /\ sc.bypass = ctrl[c].sc.bypass /\ sc.zoom_depth = depth
  BY <1>3, <1>4 DEF Scalers
<1>7. /\ cam \in CameraStates /\ cam.offset = offset /\ cam.width = camera[id].width
      /\ cam.height = camera[id].height /\ cam.initialized = camera[id].initialized
  BY <1>3, <1>4 DEF CameraStates
<1> HIDE DEF sc, cam
<1>8. /\ q \in Controllers /\ q.in_use = ctrl[c].in_use /\ q.in_type = ctrl[c].in_type
      /\ q.out_type = ctrl[c].out_type /\ q.in_cam = ctrl[c].in_cam
      /\ q.in_frame = ctrl[c].in_frame /\ q.out_frame = ctrl[c].out_frame /\ q.sc = sc
  BY <1>3, <1>6 DEF Controllers
<1> HIDE DEF q
<1>9. /\ camera' \in [Cameras -> CameraStates] /\ camera'[id] = cam
      /\ \A x \in Cameras \ {id} : camera'[x] = camera[x]
  BY <1>3, <1>5, <1>7
<1>10. /\ SamePictures
       /\ \A x \in Cameras : camera'[x].offset \in (-env.max_offset)..env.max_offset
  BY <1>2, <1>7, <1>9 DEF SamePictures, Base, TypeOK
<1>11. Base' /\ Stopped(c)
  BY <1>2, <1>3, <1>5, <1>6, <1>8, <1>9, <1>10, StopDmaStep DEF SameSize
<1>12. ctrl'[c] = q /\ \A d \in Ctrls \ {c} : ctrl'[d] = ctrl[d]
  BY <1>3, <1>5, <1>8, CtrlUpdate
<1>13. Zoomed(c, step)
  BY <1>1, <1>3, <1>6, <1>7, <1>8, <1>9, <1>12 DEF Zoomed, depth, offset, id
<1> QED
  BY <1>1, <1>11, <1>13

-----------------------------------------------------------------------------
(* The calls that start a path *)

\* ScalerInRange and BurstsTile of one path.
ScalerRight(sc, p) ==
    /\ p.start
    /\ InRange(sc.real_width, p.target.width)
    /\ InRange(sc.real_height, p.target.height)
    => /\ p.pre.shfactor \in 0..10
       /\ p.pre.hratio * p.pre.vratio * Pow2[p.pre.shfactor] = 1024
       /\ p.main.hratio < 512 /\ p.main.vratio < 512
       /\ p.pre.hratio > 1 => p.main.hratio >= 256
       /\ p.pre.vratio > 1 => p.main.vratio >= 256

BurstsOk(c, p) ==
    /\ p.start /\ ~p.lcd /\ ~p.rot90
    /\ IF c = PR THEN p.target.format \in {"RGB565", "RGB888"} \/ p.target.planes = 1
                 ELSE p.target.format \notin Rgb
    /\ p.target.width > 0
    /\ \A line \in WrittenLines(c, p) : line[1] % 4 = 0
    => \A line \in WrittenLines(c, p) : WholeBursts(line[1] \div 4, line[2])

Started(c) ==
    /\ ctrl[c].in_use
    /\ env' = env /\ waiting' = waiting \ {c}
    /\ \A d \in Ctrls \ {c} : ctrl'[d] = ctrl[d] /\ hist'[d] = hist[d] /\ path'[d] = path[d]
    /\ hist'[c].on /\ hist'[c].placed = hist[c].placed
    /\ ctrl'[c].in_use /\ ctrl'[c].in_cam = ctrl[c].in_cam
    /\ ctrl'[c].in_type = ctrl[c].in_type /\ ctrl'[c].out_type = ctrl[c].out_type
    /\ ctrl'[c].out_frame = ctrl[c].out_frame
    /\ ctrl'[c].in_frame = IF ctrl[c].in_type = "DMA" THEN InputAddress(ctrl[c].in_frame)
                           ELSE ctrl[c].in_frame
    /\ ctrl'[c].sc.bypass = ctrl[c].sc.bypass
    /\ ctrl'[c].sc.zoom_depth = ctrl[c].sc.zoom_depth
    /\ path'[c].envid = (ctrl[c].in_type = "DMA" \/ path[c].envid)
    /\ path'[c].cpt = (path[c].cpt \/ ~ctrl[c].sc.bypass)
    /\ IF ctrl[c].in_type = "DMA" THEN Laid(ctrl'[c].in_frame, path'[c])
       ELSE SamePlaces(path'[c], path[c])
    /\ ScalerRight(ctrl'[c].sc, path'[c])
    /\ BurstsOk(c, path'[c])
    /\ \A id \in Cameras : /\ camera'[id].width = camera[id].width
                           /\ camera'[id].height = camera[id].height
                           /\ camera'[id].offset = camera[id].offset
    /\ \/ camera' = camera /\ sensor' = sensor
       \/ env.answers => Sized(sensor', env.driver)
    /\ block'.imgcpten /\ block'.pattern = block.pattern
    /\ ctrl[c].in_type = "CAMERA" =>
           /\ block'.window = Cam(c).offset /\ block'.source.width = Cam(c).width
           /\ block'.source.height = Cam(c).height
    /\ local' \in {StartedLocal(c, ctrl[c], local),
                   StartedLocal(c, ctrl[c], StoppedLocal(c, ctrl[c], local))}

LEMMA ScalerSteps ==
    ASSUME NEW ct \in Controllers, NEW cam \in CameraStates, NEW p,
           p.target = TargetOf(ct.out_frame),
           CanRescale(ct, cam) =>
               /\ p.pre = Prescaled(Rescaled(ct, cam))
               /\ p.main.hratio = Rescaled(ct, cam).main_hratio
               /\ p.main.vratio = Rescaled(ct, cam).main_vratio
    PROVE  ScalerRight(Rescaled(ct, cam), p)
<1> DEFINE sc == Rescaled(ct, cam)
           s  == SourceSize(ct, cam)
           t  == ct.out_frame
<1>1. /\ sc \in Scalers
      /\ t.width > 0 /\ t.height > 0 => sc.real_width = s[1] /\ sc.real_height = s[2]
      /\ CanRescale(ct, cam) =>
           /\ s[1] > 0 /\ s[2] > 0 /\ t.width > 0 /\ t.height > 0
           /\ Factored(s[1], t.width, sc.pre_hratio, sc.hfactor, sc.main_hratio)
           /\ Factored(s[2], t.height, sc.pre_vratio, sc.vfactor, sc.main_vratio)
      /\ t.width > 0 /\ t.height > 0 /\ ~CanRescale(ct, cam) => s[1] <= 0 \/ s[2] <= 0
  BY RescaledStep
<1>2. s[1] \in Int /\ s[2] \in Int /\ t.width \in Nat /\ t.height \in Nat
  BY SourceInt, CtrlFields, OutFields
<1>3. p.target.width = t.width /\ p.target.height = t.height
  BY DEF TargetOf
<1> HIDE DEF sc, s, t
<1> SUFFICES ASSUME InRange(sc.real_width, t.width), InRange(sc.real_height, t.height)
             PROVE  /\ p.pre.shfactor \in 0..10
                    /\ p.pre.hratio * p.pre.vratio * Pow2[p.pre.shfactor] = 1024
                    /\ p.main.hratio < 512 /\ p.main.vratio < 512
                    /\ p.pre.hratio > 1 => p.main.hratio >= 256
                    /\ p.pre.vratio > 1 => p.main.vratio >= 256
  BY <1>3 DEF ScalerRight, sc
<1>4. /\ t.width > 0 /\ t.height > 0 /\ sc.real_width = s[1] /\ sc.real_height = s[2]
      /\ 0 < s[1] /\ s[1] < 64 * t.width /\ 0 < s[2] /\ s[2] < 64 * t.height
  BY <1>1 DEF InRange
<1>5. CanRescale(ct, cam)
  BY <1>1, <1>2, <1>4
<1>6. /\ sc.pre_hratio = Pow2[sc.hfactor] /\ sc.main_hratio < 512
      /\ sc.pre_hratio > 1 => sc.main_hratio >= 256
      /\ sc.pre_vratio = Pow2[sc.vfactor] /\ sc.main_vratio < 512
      /\ sc.pre_vratio > 1 => sc.main_vratio >= 256
  BY <1>1, <1>4, <1>5 DEF Factored
<1>7. /\ p.pre.shfactor = 10 - (sc.hfactor + sc.vfactor)
      /\ p.pre.hratio = sc.pre_hratio /\ p.pre.vratio = sc.pre_vratio
      /\ p.main.hratio = sc.main_hratio /\ p.main.vratio = sc.main_vratio
  BY <1>5 DEF Prescaled, sc
<1>8. sc.hfactor \in 0..5 /\ sc.vfactor \in 0..5
  BY <1>1, ScalerFields
<1>9. \A i, j \in 0..5 : Pow2[i] * Pow2[j] * Pow2[10 - (i + j)] = 1024
  <2>1. TAKE i \in 0..5
  <2>2. CASE i = 0
    BY <2>2, Powers
  <2>3. CASE i = 1
    BY <2>3, Powers
  <2>4. CASE i = 2
    BY <2>4, Powers
  <2>5. CASE i = 3
    BY <2>5, Powers
  <2>6. CASE i = 4
    BY <2>6, Powers
  <2>7. CASE i = 5
    BY <2>7, Powers
  <2> QED
    BY <2>2, <2>3, <2>4, <2>5, <2>6, <2>7
<1> QED
  BY <1>6, <1>7, <1>8, <1>9

LEMMA BurstSteps ==
    ASSUME NEW c \in Ctrls, NEW ct \in Controllers, Frames(ct), NEW p,
           p.target = TargetOf(ct.out_frame), p.lcd = (ct.out_type = "LCDFIFO"),
           ct.out_type = "DMA" /\ ~p.rot90 => WritesOf(c, ct.out_frame, p)
    PROVE  BurstsOk(c, p)
<1> DEFINE f == ct.out_frame
           w == f.width
<1>1. /\ w \in Nat /\ Shaped(f) /\ ct.out_type \in {"DMA", "LCDFIFO"}
      /\ f.planes \in 0..3
  BY CtrlFields, OutFields DEF Frames
<1>2. /\ p.target.format = f.format /\ p.target.planes = f.planes /\ p.target.width = w
  BY DEF TargetOf
<1> SUFFICES ASSUME ~p.lcd, ~p.rot90, w > 0,
                    IF c = PR THEN f.format \in {"RGB565", "RGB888"} \/ f.planes = 1
                              ELSE f.format \notin Rgb,
                    \A line \in WrittenLines(c, p) : line[1] % 4 = 0
             PROVE  \A line \in WrittenLines(c, p) : WholeBursts(line[1] \div 4, line[2])
  BY <1>2 DEF BurstsOk
<1>3. WritesOf(c, f, p)
  BY <1>1
<1> HIDE DEF f
<1>4. CASE c = PR
  <2> DEFINE bytes == IF f.format = "RGB888" THEN w * 4 ELSE w * 2
  <2>1. WrittenLines(c, p) = {<<bytes, p.yburst>>} /\ p.yburst = get_burst(bytes)
    BY <1>2, <1>3, <1>4 DEF WrittenLines, WritesOf, BurstsOf
  <2>2. bytes \in Nat /\ bytes > 0
    BY <1>1
  <2> HIDE DEF bytes
  <2>3. bytes % 4 = 0
    BY <2>1
  <2>4. WholeBursts(bytes \div 4, get_burst(bytes))
    BY <2>2, <2>3, BurstTiles DEF WholeBursts
  <2> QED
    BY <2>1, <2>4
<1>5. CASE c # PR
  <2>1. WrittenLines(c, p) = {<<w, p.yburst>>, <<w \div 2, p.cburst>>}
    BY <1>2, <1>5 DEF WrittenLines
  <2> HIDE DEF w
  <2>2. w % 4 = 0 /\ (w \div 2) % 4 = 0
    BY <2>1
  <2>3. w \div 2 \in Nat /\ w \div 2 > 0 /\ w % 8 = 0
    BY <1>1, <2>2
  <2>4. CASE f.format = "YCBCR422" /\ f.planes = 1
    <3> DEFINE y == get_burst_422i(w)
    <3>1. p.yburst = y /\ p.cburst = <<y[1] \div 2, y[2] \div 2>>
      BY <1>3, <1>5, <2>4 DEF WritesOf, BurstsOf, ChromaOf, w
    <3>2. WholeBursts(w \div 4, y) /\ WholeBursts((w \div 2) \div 4, p.cburst)
      <4> HIDE DEF y
      <4>1. /\ y = get_burst_422i(w) /\ p.cburst[1] = y[1] \div 2
            /\ p.cburst[2] = y[2] \div 2 /\ (w \div 2) \div 4 = w \div 8
        BY <1>1, <3>1 DEF y
      <4> QED
        BY <1>1, <2>3, <4>1, PackedTiles DEF WholeBursts
    <3> HIDE DEF y
    <3> QED
      BY <2>1, <3>1, <3>2
  <2>5. CASE ~(f.format = "YCBCR422" /\ f.planes = 1)
    <3>1. p.yburst = get_burst(w) /\ p.cburst = get_burst(w \div 2)
      BY <1>3, <1>5, <2>5 DEF WritesOf, BurstsOf, ChromaOf, w
    <3>2. WholeBursts(w \div 4, get_burst(w))
      BY <1>1, <2>2, BurstTiles DEF WholeBursts
    <3>3. WholeBursts((w \div 2) \div 4, get_burst(w \div 2))
      BY <2>2, <2>3, BurstTiles DEF WholeBursts
    <3> QED
      BY <2>1, <3>1, <3>2, <3>3
  <2> QED
    BY <2>4, <2>5
<1> QED
  BY <1>4, <1>5

\* s3c_fimc_start_dma on the path p and the windows l.
LEMMA StartDmaStep ==
    ASSUME Base, NEW c \in Ctrls, ctrl[c].in_use, NEW p \in Paths, NEW l,
           StartDma(c, p, l), env' = env, waiting' = waiting \ {c},
           SamePlaces(p, path[c]), p.envid = path[c].envid, p.cpt = path[c].cpt,
           l \in {local, StoppedLocal(c, ctrl[c], local)},
           camera' \in [Cameras -> CameraStates],
           \A id \in Cameras : /\ camera'[id].width = camera[id].width
                               /\ camera'[id].height = camera[id].height
                               /\ camera'[id].offset = camera[id].offset,
           sensor' \in Sensors,
           \/ camera' = camera /\ sensor' = sensor
           \/ env.answers => Sized(sensor', env.driver)
    PROVE  Base' /\ Started(c)
<1> DEFINE ct == ctrl[c]
           cam == Cam(c)
           sc == Rescaled(ct, cam)
           f == IF ct.in_type = "DMA" THEN InputAddress(ct.in_frame) ELSE ct.in_frame
           q == StartedCtrl(ct, cam)
           s == StartedPath(c, ct, cam, p)
<1>1. /\ ct \in Controllers /\ Frames(ct) /\ block \in Blocks
      /\ ctrl \in [Ctrls -> Controllers] /\ path \in [Ctrls -> Paths]
      /\ hist \in [Ctrls -> [on : BOOLEAN, placed : BOOLEAN]]
      /\ cam \in CameraStates /\ ct.in_cam # "none"
  BY TypedState DEF Cameras
<1>2. /\ ctrl' = [ctrl EXCEPT ![c] = q] /\ path' = [path EXCEPT ![c] = s]
      /\ block' = StartedBlock(ct, cam, block)
      /\ local' = StartedLocal(c, ct, l)
      /\ hist' = [hist EXCEPT ![c].on = TRUE]
  BY DEF StartDma
<1>3. q = [ct EXCEPT !.in_frame = f, !.sc = sc]
  BY DEF StartedCtrl
<1>4. /\ sc \in Scalers /\ sc.bypass = ct.sc.bypass /\ sc.zoom_depth = ct.sc.zoom_depth
  BY <1>1, RescaledStep
<1>5. f \in InFrames /\ Shaped(f)
  BY <1>1, CtrlFields, InputAddressStep DEF Frames, Shaped
<1>6. /\ s \in Paths
      /\ s.envid = (ct.in_type = "DMA" \/ p.envid)
      /\ s.cpt = (p.cpt \/ ~ct.sc.bypass)
      /\ s.lcd = (ct.out_type = "LCDFIFO")
      /\ s.target = TargetOf(ct.out_frame)
      /\ IF ct.in_type = "DMA" THEN Laid(f, s) ELSE SamePlaces(s, p)
      /\ ct.out_type = "DMA" /\ ~s.rot90 => WritesOf(c, ct.out_frame, s)
      /\ CanRescale(ct, cam) =>
             /\ s.pre = Prescaled(sc) /\ s.main.hratio = sc.main_hratio
             /\ s.main.vratio = sc.main_vratio
  BY <1>1, StartedPathStep DEF Laid
<1>7. ScalerRight(sc, s)
  BY <1>1, <1>6, ScalerSteps
<1>8. BurstsOk(c, s)
  BY <1>1, <1>6, BurstSteps
<1>9. /\ block' \in Blocks /\ block'.imgcpten /\ block'.pattern = block.pattern
      /\ ct.in_type = "CAMERA" =>
           /\ block'.window = cam.offset /\ block'.source.width = cam.width
           /\ block'.source.height = cam.height
  BY <1>1, <1>2, SourceStep
<1> HIDE DEF sc, f, q, s
<1>10. /\ q \in Controllers /\ Frames(q) /\ q.in_use = ct.in_use /\ q.in_type = ct.in_type
       /\ q.out_type = ct.out_type /\ q.in_cam = ct.in_cam
       /\ q.in_frame = f /\ q.out_frame = ct.out_frame /\ q.sc = sc
  BY <1>1, <1>3, <1>4, <1>5 DEF Controllers, Frames
<1>11. ctrl'[c] = q /\ \A d \in Ctrls \ {c} : ctrl'[d] = ctrl[d]
  BY <1>1, <1>2, <1>10, CtrlUpdate
<1>12. path' \in [Ctrls -> Paths] /\ path'[c] = s /\ \A d \in Ctrls \ {c} : path'[d] = path[d]
  BY <1>1, <1>2, <1>6
<1>13. /\ hist' \in [Ctrls -> [on : BOOLEAN, placed : BOOLEAN]]
       /\ hist'[c].on /\ hist'[c].placed = hist[c].placed
       /\ \A d \in Ctrls \ {c} : hist'[d] = hist[d]
  BY <1>1, <1>2
<1>14. local' \subseteq 0..2
  <2>1. local \subseteq 0..2
    BY DEF Base, TypeOK
  <2> QED
    BY <1>2, <2>1 DEF StartedLocal, StoppedLocal, Window
<1>15. \A id \in Cameras : camera'[id].offset \in (-env.max_offset)..env.max_offset
  BY DEF Base, TypeOK
<1>16. Base'
  BY <1>1, <1>2, <1>9, <1>10, <1>12, <1>13, <1>14, <1>15, BaseKept
<1>17. local' \in {StartedLocal(c, ct, local), StartedLocal(c, ct, StoppedLocal(c, ct, local))}
  BY <1>2
<1>18. IF ct.in_type = "DMA" THEN Laid(f, s) ELSE SamePlaces(s, path[c])
  BY <1>6 DEF SamePlaces
<1>19. ctrl'[c].in_frame = IF ct.in_type = "DMA" THEN InputAddress(ct.in_frame)
                           ELSE ct.in_frame
  BY <1>10, <1>11 DEF f
<1> QED
  BY <1>4, <1>6, <1>7, <1>8, <1>9, <1>10, <1>11, <1>12, <1>13, <1>16, <1>17, <1>18, <1>19
     DEF Started

LEMMA StartStarted ==
    ASSUME Base, NEW c \in Ctrls, Start(c)
    PROVE  Base' /\ Started(c)
<1>1. /\ ctrl[c].in_use /\ c \notin waiting /\ env' = env /\ waiting' = waiting
  BY DEF Start, Call
<1>2. /\ path[c] \in Paths /\ camera \in [Cameras -> CameraStates] /\ sensor \in Sensors
      /\ waiting' = waiting \ {c}
  BY <1>1, TypedState
<1>3. CASE NeedsInit(c)
  <2> DEFINE p == [path[c] EXCEPT !.start = FALSE]
             s == I2c("cam", sensor, "INIT", 0)
             r == [camera["cam"] EXCEPT !.initialized = TRUE]
  <2>1. /\ sensor' = I2c("cam", s, "RESOLUTION", "DEFAULT")
        /\ camera' = [camera EXCEPT !["cam"] = r]
        /\ StartDma(c, p, StoppedLocal(c, ctrl[c], local))
    BY <1>2, <1>3 DEF Start
  <2>2. p \in Paths /\ SamePlaces(p, path[c]) /\ p.envid = path[c].envid /\ p.cpt = path[c].cpt
    BY <1>2 DEF Paths, SamePlaces
  <2>3. s \in Sensors /\ (env.answers => Sized(s, env.driver))
    BY <1>2, TypedState, I2cStep
  <2> HIDE DEF s, p
  <2>4. sensor' \in Sensors /\ (env.answers => Sized(sensor', env.driver))
    BY <2>1, <2>3, TypedState, I2cStep DEF SameSize, Sized
  <2>5. /\ r \in CameraStates /\ r.width = camera["cam"].width
        /\ r.height = camera["cam"].height /\ r.offset = camera["cam"].offset
    BY <1>2 DEF CameraStates, Cameras
  <2> HIDE DEF r
  <2>6. /\ camera' \in [Cameras -> CameraStates]
        /\ \A id \in Cameras : /\ camera'[id].width = camera[id].width
                               /\ camera'[id].height = camera[id].height
                               /\ camera'[id].offset = camera[id].offset
    BY <1>2, <2>1, <2>5
  <2> QED
    BY <1>1, <1>2, <2>1, <2>2, <2>4, <2>6, StartDmaStep
<1>4. CASE ~NeedsInit(c)
  BY <1>1, <1>2, <1>4, StartDmaStep DEF Start, SamePlaces
<1> QED
  BY <1>3, <1>4

LEMMA RestartStarted ==
    ASSUME Base, NEW c \in Ctrls, RestartDone(c)
    PROVE  Base' /\ Started(c)
<1>1. /\ c \in waiting /\ StartDma(c, path[c], local) /\ waiting' = waiting \ {c}
      /\ UNCHANGED <<env, camera, sensor>>
  BY DEF RestartDone
<1>2. /\ ctrl[c].in_use /\ path[c] \in Paths /\ camera \in [Cameras -> CameraStates]
      /\ sensor \in Sensors
  BY <1>1, TypedState
<1> QED
  BY <1>1, <1>2, StartDmaStep DEF SamePlaces

-----------------------------------------------------------------------------
(* Every step *)

Halted(c) ==
    /\ Stopped(c)
    /\ UNCHANGED <<ctrl, camera>> \/ \E step \in {1, -1} : Zoomed(c, step)

LEMMA CallStep ==
    ASSUME Base, NEW c \in Ctrls, CtrlNext(c)
    PROVE  Base' /\ (Configured(c) \/ Cleared(c) \/ Halted(c) \/ Started(c))
<1>1. CASE Open(c)
  BY <1>1, OpenCleared
<1>2. CASE Release(c)
  BY <1>2, FieldConfigured
<1>3. CASE \E f \in env.out_formats, field \in env.fields :
              SetOutFormat(c, f, field) \/ SetFbuf(c, f, field)
  BY <1>3, OutFormatConfigured
<1>4. CASE \E f \in env.in_formats : SetInFormat(c, f)
  BY <1>4, InFormatConfigured
<1>5. CASE \E t \in {"CAMERA", "DMA"} : SetInput(c, t)
  BY <1>5, FieldConfigured
<1>6. CASE \E t \in {"DMA", "LCDFIFO"} : SetOutput(c, t)
  BY <1>6, FieldConfigured
<1>7. CASE InputAddr(c, FrameAddr)
  BY <1>7, AddressConfigured
<1>8. CASE \E plane \in {"y", "cb", "cr"} : InputPlane(c, plane, FrameAddr)
  BY <1>8, AddressConfigured
<1>9. CASE Start(c)
  BY <1>9, StartStarted
<1>10. CASE Stop(c)
  BY <1>10, StopStopped DEF Stop, Halted
<1>11. CASE RestartDone(c)
  BY <1>11, RestartStarted
<1>12. CASE ZoomIn(c) \/ ZoomOut(c)
  BY <1>12, ZoomStopped DEF Halted
<1>13. CASE \E res \in {"DEFAULT", "MAX"} : SetParm(c, res)
  BY <1>13, ParmStopped DEF SetParm, Halted
<1>14. CASE \E type \in {"AUTO", "SUNNY"} : WhiteBalance(c, type)
  BY <1>14, WhiteBalanceConfigured
<1>15. CASE (\E cam \in Cameras : ActiveCamera(c, cam)) \/ TestPattern(c, 1)
  BY <1>15, PictureConfigured
<1>16. CASE \E type \in {"ORIGINAL", "NEGATIVE"} : Effect(c, type)
  BY <1>16, EffectConfigured
<1>17. CASE \E flip \in {"ORIGINAL", "XY"}, rot90 \in BOOLEAN : Rotate(c, flip, rot90)
  BY <1>17, RotateConfigured
<1>18. CASE Bypass(c)
  BY <1>18, BypassConfigured
<1>19. CASE Reset(c)
  BY <1>19, ResetCleared
<1> QED
  BY <1>1, <1>2, <1>3, <1>4, <1>5, <1>6, <1>7, <1>8, <1>9, <1>10, <1>11, <1>12, <1>13,
     <1>14, <1>15, <1>16, <1>17, <1>18, <1>19 DEF CtrlNext

\* A step is a call on one of the controllers.
LEMMA NextStep ==
    ASSUME Base, [Next]_vars
    PROVE  \/ UNCHANGED vars
           \/ \E c \in Ctrls : Configured(c) \/ Cleared(c) \/ Halted(c) \/ Started(c)
BY CallStep DEF Next

LEMMA InitFacts ==
    ASSUME Init
    PROVE  /\ Base /\ local = {} /\ waiting = {}
           /\ \A c \in Ctrls :
                /\ ~hist[c].on /\ ~hist[c].placed
                /\ ~path[c].start /\ ~path[c].cpt /\ ~path[c].envid
                /\ ctrl[c].sc.zoom_depth = 0 /\ ~ctrl[c].sc.bypass
                /\ ctrl[c].in_type = "CAMERA" /\ ctrl[c].in_cam = "none"
                /\ ctrl[c].out_frame.width = 0
           /\ ~block.imgcpten /\ block.pattern = 0
           /\ camera["cam"] = Registered(env.driver) /\ ~camera["cam"].initialized
           /\ camera["cam"].offset = 0 /\ camera["tp"].offset = 0
<1>1. env \in Envs /\ env.driver \in Drivers /\ env.max_offset \in Nat
  BY EnvFields DEF Init
<1>2. InFrame0 \in InFrames /\ Shaped(InFrame0)
  BY DEF InFrame0, InFrames, Shaped, Formats, Rgb, Orders
<1>3. OutFrame0 \in OutFrames /\ Shaped(OutFrame0) /\ OutFrame0.width = 0
  BY DEF OutFrame0, OutFrames, Shaped, Formats, Rgb, Orders
<1>4. Scaler0 \in Scalers /\ ~Scaler0.bypass /\ Scaler0.zoom_depth = 0
  BY SizeAssumption DEF Scaler0, Scalers, Ratios
<1>5. /\ Ctrl0 \in Controllers /\ Frames(Ctrl0) /\ ~Ctrl0.in_use /\ Ctrl0.sc = Scaler0
      /\ Ctrl0.in_type = "CAMERA" /\ Ctrl0.in_cam = "none" /\ Ctrl0.out_frame = OutFrame0
  BY <1>2, <1>3, <1>4 DEF Ctrl0, Controllers, Frames
<1>6. /\ Registered(env.driver) \in CameraStates
      /\ Registered(env.driver).offset = 0 /\ ~Registered(env.driver).initialized
  BY <1>1, RegisteredType
<1>7. test_pattern \in CameraStates /\ test_pattern.offset = 0
  BY DEF test_pattern, NewCamera, CameraStates, Orders
<1>8. /\ camera \in [Cameras -> CameraStates]
      /\ camera["cam"] = Registered(env.driver) /\ camera["tp"] = test_pattern
  BY <1>6, <1>7 DEF Init, Cameras
<1>9. \A id \in Cameras : camera[id].offset \in (-env.max_offset)..env.max_offset
  BY <1>1, <1>6, <1>7, <1>8 DEF Cameras
<1>10. Unset \in Sensors
  BY DEF Unset, Sensors
<1>11. [order422 |-> "YCBYCR", width |-> 0, height |-> 0] \in Sources
  BY DEF Sources, Orders
<1>12. Block0 \in Blocks /\ ~Block0.imgcpten /\ Block0.pattern = 0
  BY <1>11 DEF Block0, Blocks
<1>13. path = ResetPaths
  BY DEF Init, ResetPaths
<1>14. /\ ctrl = [c \in Ctrls |-> Ctrl0] /\ sensor = Unset /\ block = Block0
       /\ local = {} /\ waiting = {}
       /\ hist = [c \in Ctrls |-> [on |-> FALSE, placed |-> FALSE]]
  BY DEF Init
<1>15. Base
  BY <1>1, <1>5, <1>8, <1>9, <1>10, <1>12, <1>13, <1>14, EmptyPaths DEF Base, TypeOK
<1> QED
  BY <1>3, <1>4, <1>5, <1>6, <1>7, <1>8, <1>12, <1>13, <1>14, <1>15, EmptyPaths

\* Every call leaves a state of the right types, in which the frames of a controller
\* have a format of S_FMT with its number of planes, or no planes before the first.
THEOREM Typed == Spec => []Base
<1>1. Init => Base
  BY InitFacts
<1>2. Base /\ [Next]_vars => Base'
  <2> SUFFICES ASSUME Base, [Next]_vars
               PROVE  Base'
    OBVIOUS
  <2>1. ASSUME NEW c \in Ctrls, CtrlNext(c) PROVE Base'
    BY <2>1, CallStep
  <2>2. CASE UNCHANGED vars
    BY <2>2 DEF vars, Base, TypeOK, Frames
  <2> QED
    BY <2>1, <2>2 DEF Next
<1> QED
  BY <1>1, <1>2, PTL DEF Spec

\* The fields of every record keep their types, and the depth of the zoom, which is
\* unsigned in struct s3c_fimc_scaler, is never counted below 0.
THEOREM TypeCorrect == Spec => []TypeOK
<1>1. Base => TypeOK
  BY DEF Base
<1> QED
  BY <1>1, Typed, PTL

-----------------------------------------------------------------------------
(* The invariants *)

\* The depths and the offsets move together in every call.
LEMMA ZoomStep ==
    ASSUME Base, ZoomConserved, [Next]_vars
    PROVE  ZoomConserved'
<1>1. /\ \A c \in Ctrls : ctrl[c].sc.zoom_depth \in Int
      /\ \A id \in Cameras : camera[id].offset \in Int
  BY TypedState, CtrlFields, ScalerFields, CameraFields
<1>2. ASSUME \A c \in Ctrls : ctrl'[c].sc.zoom_depth = ctrl[c].sc.zoom_depth,
             \A id \in Cameras : camera'[id].offset = camera[id].offset
      PROVE  ZoomConserved'
  BY <1>2 DEF ZoomConserved, Ctrls, Cameras
<1>3. ASSUME NEW c \in Ctrls, NEW step \in {1, -1}, Zoomed(c, step)
      PROVE  ZoomConserved'
  <2>1. c \in {0, 1} /\ ctrl[c].in_cam \in {"cam", "tp"} /\ ZOOM_PIXELS = 32
    BY <1>3 DEF Ctrls, Zoomed, Cameras, ZOOM_PIXELS
  <2> DEFINE z0 == ctrl[0].sc.zoom_depth
             z1 == ctrl[1].sc.zoom_depth
             o0 == camera["cam"].offset
             o1 == camera["tp"].offset
             y0 == ctrl'[0].sc.zoom_depth
             y1 == ctrl'[1].sc.zoom_depth
             p0 == camera'["cam"].offset
             p1 == camera'["tp"].offset
  <2>2. \/ y0 = z0 + step /\ y1 = z1
        \/ y0 = z0 /\ y1 = z1 + step
    BY <1>3, <2>1 DEF Zoomed, Ctrls
  <2>3. \/ p0 = o0 + step * 32 /\ p1 = o1
        \/ p0 = o0 /\ p1 = o1 + step * 32
    BY <1>3, <2>1 DEF Zoomed, Cameras
  <2>4. 32 * (z0 + z1) = o0 + o1
    BY <2>1 DEF ZoomConserved
  <2>5. z0 \in Int /\ z1 \in Int /\ o0 \in Int /\ o1 \in Int
    BY <1>1 DEF Ctrls, Cameras
  <2> HIDE DEF z0, z1, o0, o1, y0, y1, p0, p1
  <2>6. 32 * (y0 + y1) = p0 + p1
    BY <2>2, <2>3, <2>4, <2>5
  <2> QED
    BY <2>1, <2>6 DEF ZoomConserved, y0, y1, p0, p1
<1>4. ASSUME NEW c \in Ctrls, Configured(c) \/ Cleared(c) \/ Started(c)
      PROVE  ZoomConserved'
  BY <1>2, <1>4 DEF Configured, Cleared, Started, Allowed, SameZoom
<1>5. ASSUME NEW c \in Ctrls, Halted(c)
      PROVE  ZoomConserved'
  BY <1>2, <1>3, <1>5 DEF Halted
<1>6. CASE UNCHANGED vars
  BY <1>2, <1>6 DEF vars
<1> QED
  BY <1>4, <1>5, <1>6, NextStep

\* Whichever controllers zoomed in and out, with whichever camera in between, the
\* depths s3c_fimc_v4l2_s_ctrl counts and the offsets it moves add up to the same.
THEOREM ZoomIsConserved == Spec => []ZoomConserved
<1>1. Init => ZoomConserved
  BY InitFacts DEF ZoomConserved, Ctrls, ZOOM_PIXELS
<1> QED
  BY <1>1, ZoomStep, Typed, PTL DEF Spec

-----------------------------------------------------------------------------
\* The common bit is set while a path captures; with no bypassed scaler only then.
CaptureInv ==
    /\ \A c \in Ctrls : path[c].cpt => block.imgcpten
    /\ Well({"bypass"}) =>
           /\ \A c \in Ctrls : ~ctrl[c].sc.bypass
           /\ block.imgcpten => \E c \in Ctrls : path[c].cpt

LEMMA CaptureStep ==
    ASSUME Base, CaptureInv, [Next]_vars
    PROVE  CaptureInv'
<1>1. ASSUME NEW c \in Ctrls, Configured(c)
      PROVE  CaptureInv'
  BY <1>1 DEF Configured, Allowed, CaptureInv, SameFlags, Well
<1>2. ASSUME NEW c \in Ctrls, Cleared(c)
      PROVE  CaptureInv'
  BY <1>2, EmptyPaths DEF Cleared, CaptureInv, Well
<1>3. ASSUME NEW c \in Ctrls, Halted(c)
      PROVE  CaptureInv'
  BY <1>3 DEF Halted, Stopped, CaptureInv, Well
<1>4. ASSUME NEW c \in Ctrls, Started(c)
      PROVE  CaptureInv'
  BY <1>4 DEF Started, CaptureInv, Well
<1>5. CASE UNCHANGED vars
  BY <1>5 DEF vars, CaptureInv, Well
<1> QED
  BY <1>1, <1>2, <1>3, <1>4, <1>5, NextStep

\* The stop of one path never takes the capture of the other away, and the last
\* one leaves none behind, whatever order starts, stops and resets come in.
THEOREM CaptureIsShared == Spec => []CaptureFollowsPaths
<1>1. Init => CaptureInv
  BY InitFacts DEF CaptureInv
<1>2. CaptureInv => CaptureFollowsPaths
  BY DEF CaptureInv, CaptureFollowsPaths
<1> QED
  BY <1>1, <1>2, CaptureStep, Typed, PTL DEF Spec

-----------------------------------------------------------------------------
\* Of a client that changes no input or output under a running path and never
\* dies with one: what runs was started and not stopped since, and from an input
\* and to an output that are still the ones it was started with.
Quiet(c) ==
    env.calls[c] \cap {"switch", "die"} = {} =>
        /\ hist[c].on => ctrl[c].in_use
        /\ path[c].envid => hist[c].on /\ ctrl[c].in_type = "DMA"
        /\ path[c].start => hist[c].on
        /\ path[c].cpt => hist[c].on
        /\ c = PR /\ 1 \in local => hist[c].on /\ ctrl[c].out_type = "LCDFIFO"
QuietInv == \A c \in Ctrls : Quiet(c)

LEMMA QuietStep ==
    ASSUME Base, QuietInv, [Next]_vars
    PROVE  QuietInv'
<1>1. ASSUME NEW c \in Ctrls, Configured(c)
      PROVE  QuietInv'
  <2>1. Quiet(c)'
    <3>1. Quiet(c)
      BY DEF QuietInv
    <3>2. /\ ctrl[c].in_use /\ env' = env /\ local' = local /\ hist'[c].on = hist[c].on
          /\ SameFlags(path'[c], path[c])
          /\ hist[c].on /\ env.calls[c] \cap {"switch", "die"} = {} =>
               /\ ctrl'[c].in_use = ctrl[c].in_use /\ ctrl'[c].in_type = ctrl[c].in_type
               /\ ctrl'[c].out_type = ctrl[c].out_type
      BY <1>1 DEF Configured, Allowed, OffOr
    <3> QED
      BY <3>1, <3>2 DEF Quiet, SameFlags
  <2>2. ASSUME NEW d \in Ctrls \ {c} PROVE Quiet(d)'
    BY <1>1 DEF Configured, QuietInv, Quiet, SameFlags
  <2> QED
    BY <2>1, <2>2 DEF QuietInv
<1>2. ASSUME NEW c \in Ctrls, Cleared(c)
      PROVE  QuietInv'
  BY <1>2, EmptyPaths DEF Cleared, QuietInv, Quiet
<1>3. ASSUME NEW c \in Ctrls, Halted(c)
      PROVE  QuietInv'
  <2>1. 1 \in local' => 1 \in local /\ ~(c = PR /\ ctrl[c].out_type = "LCDFIFO")
    BY <1>3 DEF Halted, Stopped, StoppedLocal, PR
  <2>2. Quiet(c)'
    <3>1. Quiet(c)
      BY DEF QuietInv
    <3>2. /\ env' = env /\ ~hist'[c].on /\ ~path'[c].start /\ ~path'[c].cpt
          /\ path'[c].envid = (path[c].envid /\ ctrl[c].in_type # "DMA")
      BY <1>3 DEF Halted, Stopped
    <3> QED
      BY <2>1, <3>1, <3>2 DEF Quiet
  <2>3. ASSUME NEW d \in Ctrls \ {c} PROVE Quiet(d)'
    BY <1>3, <2>1 DEF Halted, Stopped, QuietInv, Quiet
  <2> QED
    BY <2>2, <2>3 DEF QuietInv
<1>4. ASSUME NEW c \in Ctrls, Started(c)
      PROVE  QuietInv'
  <2>1. 1 \in local' => \/ 1 \in local
                        \/ c = PR /\ ctrl[c].out_type = "LCDFIFO"
    BY <1>4 DEF Started, StartedLocal, StoppedLocal, Window, PR
  <2>2. Quiet(c)'
    <3>1. Quiet(c)
      BY DEF QuietInv
    <3>2. /\ env' = env /\ hist'[c].on /\ ctrl'[c].in_use
          /\ ctrl'[c].in_type = ctrl[c].in_type /\ ctrl'[c].out_type = ctrl[c].out_type
          /\ path'[c].envid = (ctrl[c].in_type = "DMA" \/ path[c].envid)
      BY <1>4 DEF Started
    <3> QED
      BY <2>1, <3>1, <3>2 DEF Quiet
  <2>3. ASSUME NEW d \in Ctrls \ {c} PROVE Quiet(d)'
    BY <1>4, <2>1 DEF Started, QuietInv, Quiet
  <2> QED
    BY <2>2, <2>3 DEF QuietInv
<1>5. CASE UNCHANGED vars
  BY <1>5 DEF vars, QuietInv, Quiet
<1> QED
  BY <1>1, <1>2, <1>3, <1>4, <1>5, NextStep

\* After VIDIOC_STREAMOFF or overlay(0) nothing of the path runs: no input DMA, no
\* scaler, no capture, and the window of the LCD is off the FIFO again.
THEOREM StopIsQuiet == Spec => []QuietAfterStop
<1>1. Init => QuietInv
  BY InitFacts DEF QuietInv, Quiet
<1>2. QuietInv => QuietAfterStop
  BY DEF QuietInv, Quiet, QuietAfterStop, Window, PR
<1> QED
  BY <1>1, <1>2, QuietStep, Typed, PTL DEF Spec

-----------------------------------------------------------------------------
\* The camera keeps the size its driver registers, which is the one a sensor that
\* answered was told; and clients that choose no picture have the camera's.
SourceInv ==
    /\ SourceAgrees
    /\ Sized(camera["cam"], env.driver)
    /\ Well({"active", "pattern", "input"}) =>
           \A c \in Ctrls : ctrl[c].in_type = "CAMERA" /\ ctrl[c].in_cam # "tp"

LEMMA SourceKept ==
    ASSUME Base, SourceInv, [Next]_vars
    PROVE  SourceInv'
<1> DEFINE Own == Well({"active", "pattern", "input"}) =>
                    \A c \in Ctrls : ctrl[c].in_type = "CAMERA" /\ ctrl[c].in_cam # "tp"
           Told == camera["cam"].initialized /\ env.answers => Sized(sensor, env.driver)
           Pattern == block.pattern # 0 => \E c \in Ctrls : ctrl[c].in_cam = "tp"
<1>1. /\ SourceInv <=> /\ CropFollowsCamera /\ Sized(camera["cam"], env.driver)
                       /\ Own /\ Told /\ Pattern
      /\ SourceInv' <=> /\ CropFollowsCamera' /\ Sized(camera'["cam"], env'.driver)
                        /\ Own' /\ Told' /\ Pattern'
  BY DEF SourceInv, SourceAgrees, Sized
<1>2. ASSUME NEW c \in Ctrls, Configured(c)
      PROVE  SourceInv'
  <2>1. Own' /\ Told' /\ Pattern'
    BY <1>1, <1>2 DEF Configured, Allowed, Well, Sized, SameSize
  <2>2. CropFollowsCamera' /\ Sized(camera'["cam"], env'.driver)
    BY <1>1, <1>2 DEF Configured, CropFollowsCamera, Well, Sized, SameFlags
  <2> QED
    BY <1>1, <2>1, <2>2
<1>3. ASSUME NEW c \in Ctrls, Cleared(c)
      PROVE  SourceInv'
  <2>1. Own' /\ Told' /\ Pattern'
    BY <1>1, <1>3 DEF Cleared, Well, Sized
  <2>2. CropFollowsCamera' /\ Sized(camera'["cam"], env'.driver)
    BY <1>1, <1>3, EmptyPaths DEF Cleared, CropFollowsCamera, Well, Sized
  <2> QED
    BY <1>1, <2>1, <2>2
<1>4. ASSUME NEW c \in Ctrls, Halted(c)
      PROVE  SourceInv'
  <2>1. Own' /\ Told' /\ Pattern'
    BY <1>1, <1>4 DEF Halted, Stopped, SamePictures, SameSize, Well, Sized, Cameras
  <2>2. Sized(camera'["cam"], env'.driver)
    BY <1>1, <1>4 DEF Halted, Stopped, SamePictures, Sized, Cameras
  <2>3. CropFollowsCamera'
    <3>1. CASE waiting' = {}
      <4>1. waiting = {} /\ camera' = camera
        BY <1>4, <3>1 DEF Halted, Stopped
      <4> QED
        BY <1>1, <1>4, <4>1 DEF Halted, Stopped, CropFollowsCamera, Well
    <3>2. CASE waiting' # {}
      BY <3>2 DEF CropFollowsCamera
    <3> QED
      BY <3>1, <3>2
  <2> QED
    BY <1>1, <2>1, <2>2, <2>3
<1>5. ASSUME NEW c \in Ctrls, Started(c)
      PROVE  SourceInv'
  <2>1. Own' /\ Told' /\ Pattern'
    BY <1>1, <1>5 DEF Started, Well, Sized
  <2>2. Sized(camera'["cam"], env'.driver)
    BY <1>1, <1>5 DEF Started, Sized, Cameras
  <2>3. CropFollowsCamera'
    <3> SUFFICES ASSUME Well({"active", "pattern", "input"})
                 PROVE  /\ block'.window = camera'["cam"].offset
                        /\ block'.source.width = camera'["cam"].width
                        /\ block'.source.height = camera'["cam"].height
      BY <1>5 DEF CropFollowsCamera, Started, Well
    <3>1. ctrl[c].in_type = "CAMERA" /\ ctrl[c].in_cam # "tp"
      BY <1>1
    <3>2. ctrl[c].in_cam = "cam"
      BY <1>5, <3>1, TypedState DEF Started, Cameras
    <3>3. "cam" \in Cameras /\ Cam(c) = camera["cam"]
      BY <3>2 DEF Cam, Cameras
    <3> QED
      BY <1>5, <3>1, <3>3 DEF Started
  <2> QED
    BY <1>1, <2>1, <2>2, <2>3
<1>6. CASE UNCHANGED vars
  BY <1>6 DEF vars, SourceInv, SourceAgrees, CropFollowsCamera, Well, Sized
<1> QED
  BY <1>2, <1>3, <1>4, <1>5, <1>6, NextStep

\* The interface, the sensor and the driver's own records describe one picture.
THEOREM OnePicture == Spec => []SourceAgrees
<1>1. ASSUME Init
      PROVE  SourceInv
  <2>1. camera["cam"] = Registered(env.driver)
    BY <1>1, InitFacts
  <2> QED
    BY <1>1, <2>1, InitFacts DEF SourceInv, SourceAgrees, CropFollowsCamera, Sized
<1>2. SourceInv => SourceAgrees
  BY DEF SourceInv
<1> QED
  BY <1>1, <1>2, SourceKept, Typed, PTL DEF Spec

-----------------------------------------------------------------------------
ScalersRight == \A c \in Ctrls : ScalerRight(ctrl[c].sc, path[c])

LEMMA ScalersStep ==
    ASSUME Base, ScalersRight, [Next]_vars
    PROVE  ScalersRight'
<1>1. ASSUME NEW c \in Ctrls, Configured(c)
      PROVE  ScalersRight'
  BY <1>1 DEF Configured, Allowed, SameZoom, SameFlags, SameScale, ScalersRight, ScalerRight
<1>2. ASSUME NEW c \in Ctrls, Cleared(c)
      PROVE  ScalersRight'
  BY <1>2, EmptyPaths DEF Cleared, ScalersRight, ScalerRight
<1>3. ASSUME NEW c \in Ctrls, Halted(c)
      PROVE  ScalersRight'
  <2>1. ScalerRight(ctrl'[c].sc, path'[c])
    BY <1>3 DEF Halted, Stopped, ScalerRight
  <2>2. \A d \in Ctrls \ {c} : ScalerRight(ctrl'[d].sc, path'[d])
    BY <1>3 DEF Halted, Stopped, ScalersRight
  <2> QED
    BY <2>1, <2>2 DEF ScalersRight
<1>4. ASSUME NEW c \in Ctrls, Started(c)
      PROVE  ScalersRight'
  <2>1. ScalerRight(ctrl'[c].sc, path'[c])
    BY <1>4 DEF Started
  <2>2. \A d \in Ctrls \ {c} : ScalerRight(ctrl'[d].sc, path'[d])
    BY <1>4 DEF Started, ScalersRight
  <2> QED
    BY <2>1, <2>2 DEF ScalersRight
<1>5. CASE UNCHANGED vars
  BY <1>5 DEF vars, ScalersRight
<1> QED
  BY <1>1, <1>2, <1>3, <1>4, <1>5, NextStep

\* For every size of source and target below the factor s3c_fimc_get_scaler_factor
\* refuses, the pre-scaler, its shift and the main scaler of a running path make
\* the one of the other.
THEOREM ScalerIsInRange == Spec => []ScalerInRange
<1>1. Init => ScalersRight
  BY InitFacts DEF ScalersRight, ScalerRight
<1>2. ScalersRight => ScalerInRange
  BY DEF ScalersRight, ScalerRight, ScalerInRange
<1> QED
  BY <1>1, <1>2, ScalersStep, Typed, PTL DEF Spec

-----------------------------------------------------------------------------
\* A frame placed as a whole lies where the input DMA reads.
PlacedInv == \A c \in Ctrls : PlacedRight(c)

LEMMA PlacedKept ==
    ASSUME Base, PlacedInv, [Next]_vars
    PROVE  PlacedInv'
<1>1. ASSUME NEW c \in Ctrls, Configured(c)
      PROVE  PlacedInv'
  <2>1. PlacedRight(c)'
    BY <1>1 DEF Configured, PlacedInv
  <2>2. \A d \in Ctrls \ {c} : PlacedRight(d)'
    BY <1>1 DEF Configured, PlacedInv, PlacedRight, SamePlaces, Laid
  <2> QED
    BY <2>1, <2>2 DEF PlacedInv
<1>2. ASSUME NEW c \in Ctrls, Cleared(c)
      PROVE  PlacedInv'
  BY <1>2, EmptyPaths DEF Cleared, PlacedInv, PlacedRight
<1>3. ASSUME NEW c \in Ctrls, Halted(c)
      PROVE  PlacedInv'
  BY <1>3 DEF Halted, Stopped, PlacedInv, PlacedRight, SamePlaces, Laid
<1>4. ASSUME NEW c \in Ctrls, Started(c)
      PROVE  PlacedInv'
  <2>1. PlacedRight(c)'
    <3> DEFINE f == ctrl[c].in_frame
               g == InputAddress(f)
    <3>1. CASE ctrl[c].in_type = "DMA"
      <4>1. /\ ctrl'[c].in_frame = g /\ Laid(g, path'[c]) /\ hist'[c].placed = hist[c].placed
        BY <1>4, <3>1 DEF Started
      <4>2. f \in InFrames
        BY TypedState, CtrlFields
      <4>3. /\ g.width = f.width /\ g.height = f.height /\ g.format = f.format
            /\ g.planes = f.planes /\ g.buf_size = f.buf_size /\ g.phys_y = f.phys_y
            /\ IF f.planes = 1 THEN g.phys_cb = 0 /\ g.phys_cr = 0
               ELSE g.phys_cb = f.phys_cb /\ g.phys_cr = f.phys_cr
        BY <4>2, InputAddressStep
      <4> HIDE DEF g
      <4> QED
        BY <4>1, <4>3 DEF PlacedInv, PlacedRight, PlacedFrame
    <3>2. CASE ctrl[c].in_type # "DMA"
      BY <1>4, <3>2 DEF Started, PlacedInv, PlacedRight, SamePlaces, Laid
    <3> QED
      BY <3>1, <3>2
  <2>2. \A d \in Ctrls \ {c} : PlacedRight(d)'
    BY <1>4 DEF Started, PlacedInv, PlacedRight
  <2> QED
    BY <2>1, <2>2 DEF PlacedInv
<1>5. CASE UNCHANGED vars
  BY <1>5 DEF vars, PlacedInv, PlacedRight
<1> QED
  BY <1>1, <1>2, <1>3, <1>4, <1>5, NextStep

\* For every size and every format a client may set, the planes of a placed frame
\* follow one another and end within the size of the driver.
THEOREM InputPlanesAreRight == Spec => []InputPlanesFit
<1>1. Init => PlacedInv
  BY InitFacts DEF PlacedInv, PlacedRight
<1>2. ASSUME Base, PlacedInv
      PROVE  InputPlanesFit
  <2> SUFFICES ASSUME NEW c \in Ctrls, hist[c].placed, ctrl[c].in_frame.planes > 0,
                      path[c].addr.y # 0
               PROVE  LET a == path[c].addr
                          e == path[c].ends
                          f == ctrl[c].in_frame
                      IN  IF f.planes = 1 THEN e.y <= a.y + f.buf_size
                          ELSE e.y = a.cb /\ e.cb = a.cr /\ e.cr <= a.y + f.buf_size
    BY DEF InputPlanesFit
  <2> DEFINE f == ctrl[c].in_frame
             size == f.width * f.height
             cbcr == CbcrSize(f.format, size)
  <2>1. f \in InFrames /\ Shaped(f)
    BY <1>2, TypedState, CtrlFields DEF Frames
  <2>2. PlacedFrame(f) /\ Laid(f, path[c])
        /\ f.buf_size = get_buffer_size(f.width, f.height, f.format)
    BY <1>2 DEF PlacedInv, PlacedRight
  <2> HIDE DEF f
  <2>3. /\ f.phys_y \in Nat /\ f.phys_cb \in Nat /\ f.phys_cr \in Nat /\ f.buf_size \in Nat
        /\ size \in Nat /\ cbcr \in Nat /\ f.format \in Formats
    BY <2>1, InFields, SizeNat
  <2>4. /\ f.format \in {"RGB565", "RGB888", "YCBCR422"} => size * 2 <= f.buf_size
        /\ f.format \notin Rgb => size + 2 * cbcr <= f.buf_size
    <3>1. f.width \in Nat /\ f.height \in Nat /\ f.format \in Formats
      BY <2>1, InFields
    <3>2. /\ f.format \in {"RGB565", "RGB888", "YCBCR422"} =>
                f.width * f.height * 2 <= get_buffer_size(f.width, f.height, f.format)
          /\ f.format \in Formats \ Rgb =>
                f.width * f.height + 2 * CbcrSize(f.format, f.width * f.height)
                    <= get_buffer_size(f.width, f.height, f.format)
      BY <3>1, BufferHolds
    <3> QED
      BY <2>2, <3>1, <3>2
  <2>5. /\ path[c].addr = PlanesAt(f)
        /\ path[c].ends = IF f.planes = 1
             THEN [y |-> f.phys_y + size * 2, cb |-> 0, cr |-> 0]
             ELSE [y |-> f.phys_y + size, cb |-> f.phys_cb + cbcr, cr |-> f.phys_cr + cbcr]
    BY <2>2 DEF Laid, InputEnds
  <2>6. f.planes # 1 => f.phys_cb = f.phys_y + size /\ f.phys_cr = f.phys_cb + cbcr
    BY <2>1, <2>2 DEF PlacedFrame, Shaped, f
  <2>7. /\ f.planes = 1 => f.format \in {"RGB565", "RGB888", "YCBCR422"}
        /\ f.planes # 1 => f.format \notin Rgb
    BY <2>1 DEF Shaped, f
  <2> HIDE DEF size, cbcr
  <2>8. CASE f.planes = 1
    BY <2>3, <2>4, <2>5, <2>7, <2>8 DEF PlanesAt, f
  <2>9. CASE f.planes # 1
    BY <2>3, <2>4, <2>5, <2>6, <2>7, <2>9 DEF PlanesAt, f
  <2> QED
    BY <2>8, <2>9
<1> QED
  BY <1>1, <1>2, PlacedKept, Typed, PTL DEF Spec

-----------------------------------------------------------------------------
BurstsInv == \A c \in Ctrls : BurstsOk(c, path[c])

LEMMA BurstsStep ==
    ASSUME Base, BurstsInv, [Next]_vars
    PROVE  BurstsInv'
<1>1. ASSUME NEW c \in Ctrls, Configured(c)
      PROVE  BurstsInv'
  BY <1>1 DEF Configured, SameFlags, SameTarget, BurstsInv, BurstsOk, WrittenLines
<1>2. ASSUME NEW c \in Ctrls, Cleared(c)
      PROVE  BurstsInv'
  BY <1>2, EmptyPaths DEF Cleared, BurstsInv, BurstsOk
<1>3. ASSUME NEW c \in Ctrls, Halted(c)
      PROVE  BurstsInv'
  BY <1>3 DEF Halted, Stopped, BurstsInv, BurstsOk
<1>4. ASSUME NEW c \in Ctrls, Started(c)
      PROVE  BurstsInv'
  BY <1>4 DEF Started, BurstsInv
<1>5. CASE UNCHANGED vars
  BY <1>5 DEF vars, BurstsInv
<1> QED
  BY <1>1, <1>2, <1>3, <1>4, <1>5, NextStep

\* Whatever sizes clients ask for, the bursts set for a line and for each of its
\* chromas make them up, if they are whole words.
THEOREM BurstsMakeLines == Spec => []BurstsTile
<1>1. Init => BurstsInv
  BY InitFacts DEF BurstsInv, BurstsOk
<1>2. BurstsInv => BurstsTile
  BY DEF BurstsInv, BurstsOk, BurstsTile
<1>3. Base /\ BurstsInv /\ [Next]_vars => BurstsInv'
  BY BurstsStep
<1> QED
  BY <1>1, <1>2, <1>3, Typed, PTL DEF Spec

-----------------------------------------------------------------------------
\* The sizes the sensor drivers register and the test pattern has; no call changes
\* them.
Pictured(cam) ==
    \/ cam.width = 640 /\ cam.height = 480
    \/ cam.width = 800 /\ cam.height = 600
PicturesInv == \A id \in Cameras : Pictured(camera[id])

LEMMA PicturesKept ==
    ASSUME Base, PicturesInv, [Next]_vars
    PROVE  PicturesInv'
<1>1. ASSUME NEW c \in Ctrls, Configured(c) \/ Cleared(c)
      PROVE  PicturesInv'
  BY <1>1 DEF Configured, Cleared, PicturesInv, Pictured
<1>2. ASSUME NEW c \in Ctrls, Halted(c) \/ Started(c)
      PROVE  PicturesInv'
  BY <1>2 DEF Halted, Stopped, Started, SamePictures, PicturesInv, Pictured
<1>3. CASE UNCHANGED vars
  BY <1>3 DEF vars, PicturesInv, Pictured
<1> QED
  BY <1>1, <1>2, <1>3, NextStep

\* The test takes the offset off once more than the interface does, and what that
\* leaves of the width leaves enough of a height of three quarters of it.
LEMMA ZoomInStep ==
    ASSUME Base, PicturesInv, NEW c \in Ctrls, Zoomed(c, 1), SamePictures, Fresh(c)
    PROVE  LET s == SourceSize([ctrl[c] EXCEPT !.in_type = "CAMERA"],
                               camera'[ctrl[c].in_cam])
           IN  s[1] > 0 /\ s[2] > 0
<1> DEFINE id == ctrl[c].in_cam
           w == camera[id].width
           h == camera[id].height
           o == camera[id].offset
           sc == ctrl[c].sc
<1>1. /\ id \in Cameras /\ camera'[id].offset = o + 32
      /\ MayZoomIn(sc, o) /\ sc.pre_hratio # 0 /\ sc.real_width = w - 2 * o
  BY DEF Zoomed, Fresh, Cam, ZOOM_PIXELS
<1>2. o \in Int /\ ((w = 640 /\ h = 480) \/ (w = 800 /\ h = 600))
  BY <1>1, TypedState, CameraFields DEF PicturesInv, Pictured
<1> HIDE DEF id, sc
<1>3. w - 2 * o - (2 * o + 64) >= 0
  <2> DEFINE left == sc.real_width - (2 * o + 2 * ZOOM_PIXELS)
  <2>1. left = w - 2 * o - (2 * o + 64) /\ left \in Int
    BY <1>1, <1>2 DEF ZOOM_PIXELS
  <2>2. ~Above(left, sc.pre_hratio, sc.line_length)
    BY <1>1 DEF MayZoomIn
  <2> HIDE DEF left
  <2>3. ~(left < 0)
    BY <1>1, <2>2 DEF Above
  <2> QED
    BY <2>1, <2>3
<1>4. camera'[id].width = w /\ camera'[id].height = h
  BY <1>1 DEF SamePictures, id
<1> QED
  BY <1>1, <1>2, <1>3, <1>4 DEF SourceSize, id

\* s3c_fimc_check_zoom tests the width alone; a step it lets pass leaves a height too,
\* for every sensor driver and whatever was zoomed before.
THEOREM ZoomLeavesPicture == Spec => ZoomKeepsPicture
<1>1. Init => PicturesInv
  <2> SUFFICES ASSUME Init PROVE PicturesInv
    OBVIOUS
  <2>1. env.driver \in Drivers
    BY EnvFields DEF Init
  <2>2. Pictured(Registered(env.driver)) /\ Pictured(test_pattern)
    BY <2>1 DEF Drivers, Registered, Pictured, NewCamera, test_pattern, ov965x_data,
       s5k4ba_data, s5k3ba_data, s5k6aa_data, ov3640_data
  <2> QED
    BY <2>2 DEF Init, PicturesInv, Cameras
<1>2. Base /\ PicturesInv /\ [Next]_vars =>
        \A c \in Ctrls :
          ctrl'[c].sc.zoom_depth > ctrl[c].sc.zoom_depth /\ Fresh(c) =>
              LET s == SourceSize([ctrl[c] EXCEPT !.in_type = "CAMERA"],
                                  camera'[ctrl[c].in_cam])
              IN  s[1] > 0 /\ s[2] > 0
  <2> SUFFICES ASSUME Base, PicturesInv, [Next]_vars, NEW c \in Ctrls,
                      ctrl'[c].sc.zoom_depth > ctrl[c].sc.zoom_depth, Fresh(c)
               PROVE  Zoomed(c, 1) /\ SamePictures
    BY ZoomInStep
  <2>1. ctrl[c].sc.zoom_depth \in Nat
    BY TypedState, CtrlFields, ScalerFields
  <2>2. ctrl'[c].sc.zoom_depth # ctrl[c].sc.zoom_depth
    BY <2>1
  <2>3. CASE UNCHANGED vars
    BY <2>2, <2>3 DEF vars
  <2>4. ASSUME NEW d \in Ctrls, Configured(d) \/ Cleared(d) \/ Started(d)
        PROVE  FALSE
    BY <2>2, <2>4 DEF Configured, Cleared, Started, Allowed, SameZoom
  <2>5. ASSUME NEW d \in Ctrls, Halted(d)
        PROVE  Zoomed(c, 1) /\ SamePictures
    <3>1. PICK step \in {1, -1} : Zoomed(d, step)
      BY <2>2, <2>5 DEF Halted
    <3>2. d = c
      BY <2>2, <3>1 DEF Zoomed
    <3>3. step = 1
      BY <2>1, <3>1, <3>2 DEF Zoomed
    <3> QED
      BY <2>5, <3>1, <3>2, <3>3 DEF Halted, Stopped
  <2> QED
    BY <2>3, <2>4, <2>5, NextStep
<1> QED
  BY <1>1, <1>2, PicturesKept, Typed, PTL DEF Spec, ZoomKeepsPicture
=============================================================================
