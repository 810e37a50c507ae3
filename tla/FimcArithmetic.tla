---------------------------- MODULE FimcArithmetic ----------------------------
(***************************************************************************)
(* What the operators of FimcFormat and FimcScaler return, for every size: *)
(* the facts the theorems of FimcControlProofs cite.                       *)
(***************************************************************************)
EXTENDS FimcFormat, FimcScaler, TLAPS

-----------------------------------------------------------------------------
(* Formats *)

\* What S_FMT sets; the planes are 0 before the first.
Shaped(f) ==
    /\ f.format \in {"RGB565", "RGB888", "YCBCR420", "YCBCR422"}
    /\ f.planes \in 0..3
    /\ f.format \in Rgb => f.planes \in {0, 1}
    /\ f.planes = 1 => f.format # "YCBCR420"

LEMMA FormatShape ==
    ASSUME NEW p \in PixelFormats
    PROVE  /\ FormatOf(p) \in {"RGB565", "RGB888", "YCBCR420", "YCBCR422"}
           /\ PlanesOf(p) \in 1..3
           /\ FormatOf(p) \in Rgb => PlanesOf(p) = 1
           /\ PlanesOf(p) = 1 => FormatOf(p) # "YCBCR420"
<1> USE DEF FormatOf, PlanesOf, PixelFormats, Rgb, Packed422, Jpegs, Planar420_2,
        Planar422_2
<1>1. CASE p \in {"RGB565", "RGB24"}
  BY <1>1
<1>2. CASE p \in Packed422 \cup Jpegs
  BY <1>2
<1>3. CASE p \in Planar420_2 \cup Planar422_2
  BY <1>3
<1>4. CASE p \in {"YUV420", "YUV422P"}
  BY <1>4
<1> QED
  BY <1>1, <1>2, <1>3, <1>4

LEMMA KeptOrder ==
    ASSUME NEW p, NEW old \in Orders
    PROVE  /\ Keep(Order1p, p, old) \in Orders
           /\ Keep(OutOrder1p, p, old) \in Orders
           /\ Keep(Order2p, p, old) \in Orders
<1>1. \A q \in DOMAIN Order1p : Order1p[q] \in Orders
  BY DEF Order1p, Orders
<1>2. \A q \in DOMAIN Order2p : Order2p[q] \in Orders
  BY DEF Order2p, Orders
<1>3. \A q \in DOMAIN OutOrder1p : OutOrder1p[q] \in Orders
  BY <1>1 DEF OutOrder1p, Orders
<1> QED
  BY <1>1, <1>2, <1>3 DEF Keep

LEMMA SizeNat ==
    ASSUME NEW w \in Nat, NEW h \in Nat, NEW format
    PROVE  w * h \in Nat /\ CbcrSize(format, w * h) \in Nat
<1>1. w * h \in Nat
  OBVIOUS
<1> DEFINE size == w * h
<1> HIDE DEF size
<1>2. ASSUME size \in Nat PROVE CbcrSize(format, size) \in Nat
  BY <1>2 DEF CbcrSize
<1> QED
  BY <1>1, <1>2 DEF size

\* The pages counted for a frame hold its planes, one of two bytes a pixel or the
\* luma and two of chroma.
LEMMA BufferHolds ==
    ASSUME NEW w \in Nat, NEW h \in Nat, NEW format \in Formats
    PROVE  /\ get_buffer_size(w, h, format) \in Nat
           /\ format \in {"RGB565", "RGB888", "YCBCR422"} =>
                  w * h * 2 <= get_buffer_size(w, h, format)
           /\ format \in Formats \ Rgb =>
                  w * h + 2 * CbcrSize(format, w * h) <= get_buffer_size(w, h, format)
<1> DEFINE size == w * h
           bytes == CASE format = "RGB565"               -> size * 2
                      [] format \in {"RGB666", "RGB888"} -> size * 4
                      [] format \in Formats \ Rgb        ->
                             size + 2 * CbcrSize(format, size)
<1>1. size \in Nat
  OBVIOUS
<1>2. get_buffer_size(w, h, format) = ((bytes + PageSize - 1) \div PageSize) * PageSize
  BY DEF get_buffer_size
<1> HIDE DEF size
<1>3. /\ bytes \in Nat
      /\ format \in {"RGB565", "RGB888", "YCBCR422"} => size * 2 <= bytes + 1
      /\ format = "RGB565" => bytes = size * 2
      /\ format = "RGB888" => bytes = size * 4
      /\ format \in Formats \ Rgb => bytes = size + 2 * CbcrSize(format, size)
  BY <1>1 DEF Formats, Rgb, CbcrSize
<1>4. format = "YCBCR422" => bytes = size + 2 * (size \div 2)
  BY <1>3 DEF Formats, Rgb, CbcrSize
<1> HIDE DEF bytes
<1> DEFINE pages == (bytes + PageSize - 1) \div PageSize
<1>5. pages \in Nat /\ bytes <= pages * PageSize
  BY <1>3 DEF PageSize
<1>6. pages * PageSize = 2 * (pages * 2048)
  BY <1>5 DEF PageSize
<1> HIDE DEF pages
<1>7. format = "YCBCR422" => size * 2 <= pages * PageSize
  <2>1. CASE size % 2 = 0
    BY <1>1, <1>4, <1>5, <2>1 DEF PageSize
  <2>2. CASE size % 2 = 1
    BY <1>1, <1>4, <1>5, <1>6, <2>2 DEF PageSize
  <2> QED
    BY <1>1, <2>1, <2>2
<1>8. format \in {"RGB565", "RGB888"} => size * 2 <= pages * PageSize
  BY <1>1, <1>3, <1>5 DEF PageSize
<1> QED
  BY <1>1, <1>2, <1>3, <1>5, <1>7, <1>8 DEF size, pages, PageSize

\* Main bursts and one last burst make up a line of width \div 4 words.
LEMMA BurstTiles ==
    ASSUME NEW width \in Nat
    PROVE  LET words == width \div 4
               burst == get_burst(width)
           IN  /\ burst \in (1..16) \X (0..16)
               /\ words > 0 => burst[2] <= words
               /\ (words - burst[2]) % burst[1] = 0
<1> DEFINE words == width \div 4
           burst == get_burst(width)
<1>1. words \in Nat
  OBVIOUS
<1>2. burst = CASE words % 16 = 0       -> <<16, 16>>
                [] words % 16 \in {4, 8} -> <<16, words % 16>>
                [] words % 16 = 12      -> <<8, 4>>
                [] words % 4 # 0        -> <<4, words % 4>>
  BY DEF get_burst
<1> HIDE DEF words, burst
<1> SUFFICES /\ burst \in (1..16) \X (0..16)
             /\ words > 0 => burst[2] <= words
             /\ (words - burst[2]) % burst[1] = 0
  BY DEF words, burst
<1>3. CASE words % 16 = 0
  BY <1>1, <1>2, <1>3
<1>4. CASE words % 16 \in {4, 8}
  <2>1. burst = <<16, words % 16>>
    BY <1>1, <1>2, <1>4
  <2> QED
    BY <1>1, <1>4, <2>1
<1>5. CASE words % 16 = 12
  <2>1. burst = <<8, 4>>
    BY <1>1, <1>2, <1>5
  <2> QED
    BY <1>1, <1>5, <2>1
<1>6. CASE words % 4 # 0
  <2>1. burst = <<4, words % 4>>
    BY <1>1, <1>2, <1>6
  <2> QED
    BY <1>1, <1>6, <2>1
<1> QED
  BY <1>1, <1>3, <1>4, <1>5, <1>6

\* Of a packed line luma takes half of each burst and Cb and Cr a quarter: they make
\* up the words of each if the line has a multiple of eight pixels.
LEMMA PackedTiles ==
    ASSUME NEW width \in Nat
    PROVE  LET y == get_burst_422i(width)
           IN  /\ y \in (1..8) \X (1..8)
               /\ width > 0 /\ width % 8 = 0 =>
                      /\ y[2] <= width \div 4
                      /\ ((width \div 4) - y[2]) % y[1] = 0
                      /\ y[2] \div 2 <= width \div 8
                      /\ ((width \div 8) - (y[2] \div 2)) % (y[1] \div 2) = 0
<1> DEFINE tmp == (width \div 2) % 16
           y == get_burst_422i(width)
<1>1. tmp \in 0..15
  OBVIOUS
<1>2. y = LET wanted == CASE tmp = 0 -> 16 [] tmp = 8 -> 8
                          [] tmp \in 1..7 \cup 9..15 -> 4
          IN  <<wanted \div 2, wanted \div 2>>
  BY DEF get_burst_422i
<1> HIDE DEF tmp, y
<1>3. y \in {<<2, 2>>, <<4, 4>>, <<8, 8>>}
  BY <1>1, <1>2
<1>4. ASSUME width > 0, width % 8 = 0
      PROVE  /\ y[2] <= width \div 4
             /\ ((width \div 4) - y[2]) % y[1] = 0
             /\ y[2] \div 2 <= width \div 8
             /\ ((width \div 8) - (y[2] \div 2)) % (y[1] \div 2) = 0
  <2> DEFINE eighths == width \div 8
  <2>1. /\ eighths \in Nat \ {0} /\ width \div 4 = 2 * eighths
        /\ tmp = (4 * eighths) % 16
    BY <1>4 DEF tmp
  <2> HIDE DEF eighths
  <2>2. CASE tmp = 0
    <3>1. y = <<8, 8>> /\ eighths % 4 = 0
      BY <1>2, <2>1, <2>2
    <3> QED
      BY <2>1, <3>1 DEF eighths
  <2>3. CASE tmp = 8
    <3>1. y = <<4, 4>> /\ eighths % 4 = 2
      BY <1>2, <2>1, <2>3
    <3> QED
      BY <2>1, <3>1 DEF eighths
  <2>4. CASE tmp \in 1..7 \cup 9..15
    <3>1. y = <<2, 2>>
      BY <1>2, <2>4
    <3> QED
      BY <2>1, <3>1 DEF eighths
  <2> QED
    BY <1>1, <2>2, <2>3, <2>4
<1> QED
  BY <1>3, <1>4 DEF y

-----------------------------------------------------------------------------
(* The scaler *)

Ratio == {0, 1, 2, 4, 8, 16, 32}

LEMMA Powers ==
    /\ Pow2[0] = 1 /\ Pow2[1] = 2 /\ Pow2[2] = 4 /\ Pow2[3] = 8 /\ Pow2[4] = 16
    /\ Pow2[5] = 32 /\ Pow2[6] = 64 /\ Pow2[7] = 128 /\ Pow2[8] = 256
    /\ Pow2[9] = 512 /\ Pow2[10] = 1024
BY DEF Pow2

\* The pre-scaler leaves the main one a source of less than twice the target,
\* and of no less than the target if it divides at all.
LEMMA FactorRange ==
    ASSUME NEW src \in Nat, NEW tar \in Nat \ {0}, NEW ratio, NEW shift,
           src < tar * 64
    PROVE  \E i \in 0..5 :
               /\ get_scaler_factor(src, tar, ratio, shift) = <<Pow2[i], i>>
               /\ src < 2 * tar * Pow2[i]
               /\ i > 0 => tar * Pow2[i] <= src
<1> DEFINE g == get_scaler_factor(src, tar, ratio, shift)
<1> USE Powers DEF get_scaler_factor
<1>1. CASE src >= tar * 32
  <2>1. g = <<32, 5>>
    BY <1>1
  <2> QED
    BY <1>1, <2>1
<1>2. CASE src >= tar * 16 /\ src < tar * 32
  <2>1. g = <<16, 4>>
    BY <1>2
  <2> QED
    BY <1>2, <2>1
<1>3. CASE src >= tar * 8 /\ src < tar * 16
  <2>1. g = <<8, 3>>
    BY <1>3
  <2> QED
    BY <1>3, <2>1
<1>4. CASE src >= tar * 4 /\ src < tar * 8
  <2>1. g = <<4, 2>>
    BY <1>4
  <2> QED
    BY <1>4, <2>1
<1>5. CASE src >= tar * 2 /\ src < tar * 4
  <2>1. g = <<2, 1>>
    BY <1>5
  <2> QED
    BY <1>5, <2>1
<1>6. CASE src < tar * 2
  <2>1. g = <<1, 0>>
    BY <1>6
  <2> QED
    BY <1>6, <2>1
<1> QED
  BY <1>1, <1>2, <1>3, <1>4, <1>5, <1>6

LEMMA FactorType ==
    ASSUME NEW src \in Nat, NEW tar \in Nat \ {0},
           NEW ratio \in Ratio, NEW shift \in 0..5
    PROVE  /\ get_scaler_factor(src, tar, ratio, shift) \in Ratio \X (0..5)
           /\ src >= tar * 64 =>
                  get_scaler_factor(src, tar, ratio, shift) = <<ratio, shift>>
<1>1. CASE src >= tar * 64
  BY <1>1 DEF get_scaler_factor
<1>2. CASE src < tar * 64
  <2>1. PICK i \in 0..5 : get_scaler_factor(src, tar, ratio, shift) = <<Pow2[i], i>>
    BY <1>2, FactorRange
  <2>2. Pow2[i] \in Ratio
    BY Powers DEF Ratio
  <2> QED
    BY <1>2, <2>1, <2>2
<1> QED
  BY <1>1, <1>2

\* The ratio of the main scaler, in 256ths, for what the pre-scaler leaves.
LEMMA MainRatio ==
    ASSUME NEW src \in Nat, NEW d \in Nat \ {0}
    PROVE  /\ (src * 256) \div d \in Nat
           /\ src < 2 * d => (src * 256) \div d < 512
           /\ d <= src => (src * 256) \div d >= 256
<1>1. (src * 256) \div d \in Nat
  OBVIOUS
<1>2. ASSUME src < 2 * d PROVE (src * 256) \div d < 512
  <2>1. src * 256 < d * 512
    BY <1>2
  <2> QED
    BY <2>1
<1>3. ASSUME d <= src PROVE (src * 256) \div d >= 256
  <2>1. d * 256 <= src * 256
    BY <1>3
  <2> QED
    BY <2>1
<1> QED
  BY <1>1, <1>2, <1>3
=============================================================================
