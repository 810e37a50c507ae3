--------------------------- MODULE FimcMemoryProofs ---------------------------
(***************************************************************************)
(* Proofs about FimcMemory, for any pool, any frame sizes and any set of   *)
(* controllers: the pool's pointer is exact and the frames of a controller *)
(* lie apart in the reserved memory, provided every client asks for the    *)
(* number of frames the platform data gives (FixedFrames).  Without that   *)
(* hypothesis they are false: run memory_nr shows how a new count, set     *)
(* while frames are held, makes the driver free other frames than it took. *)
(***************************************************************************)
EXTENDS FimcMemory, TLAPS

\* VIDIOC_REQBUFS and V4L2_CID_NR_FRAMES leave the number of frames at what
\* pdata->nr_frames made it, as the camera library's MAX_BUFFERS does.
FixedFrames ==
    /\ \A n \in Counts : Granted(n) = NrFrames
    /\ \A nr \in NrControls : (IF nr = 3 THEN 2 ELSE nr) = NrFrames

\* A frame table as an allocation leaves it ...
Filled(f) ==
    /\ f.addr[0] >= DmaStart
    /\ \A i \in Slots : f.addr[i] = f.addr[0] + (i % f.nr_frames) * f.buf_size
    /\ f.addr[0] + f.nr_frames * f.buf_size <= DmaEnd

\* ... and as a free does: the slots past nr_frames may hold stale addresses.
Empty(f) == \A i \in Slots : i < f.nr_frames => f.addr[i] = NULL

GoodFrame(f) ==
    /\ f \in OutFrame
    /\ f.nr_frames = NrFrames
    /\ Allocated(f) => Filled(f)
    /\ ~Allocated(f) => Empty(f)

FramesInv == \A c \in Ctrls : GoodFrame(out_frame[c])

PoolInv == PoolExact /\ dma_current <= DmaEnd

IInv == TypeOK /\ FramesInv /\ PoolInv

-----------------------------------------------------------------------------
(* Arithmetic *)

\* n frames of s pages fit in a room of at least n * s pages.
LEMMA FramesFit ==
    ASSUME NEW room \in Nat, NEW s \in Nat \ {0}, NEW n \in 1..MAX_FRAMES
    PROVE  /\ room \div s \in Nat
           /\ room \div s >= n => n * s <= room
<1> DEFINE k == room \div s
<1>1. /\ k \in Int
      /\ s * k <= room
      /\ room < s * k + s
  OBVIOUS
<1> HIDE DEF k
<1>2. k \in Nat
  <2> SUFFICES ASSUME k < 0 PROVE FALSE
    BY <1>1
  <2>1. k + 1 <= 0
    BY <1>1
  <2>2. s * (k + 1) <= 0
    BY <1>1, <2>1
  <2>3. s * (k + 1) = s * k + s
    BY <1>1
  <2> QED BY <1>1, <2>2, <2>3
<1>3. ASSUME k >= n PROVE n * s <= room
  <2>1. s * n <= s * k
    BY <1>1, <1>3 DEF MAX_FRAMES
  <2> QED BY <1>1, <2>1 DEF MAX_FRAMES
<1> QED BY <1>2, <1>3 DEF k

\* The product of a number of frames and a size, written out.
LEMMA Times ==
    ASSUME NEW n \in 1..MAX_FRAMES, NEW s \in Nat
    PROVE  /\ n * s \in Nat
           /\ s <= n * s
           /\ n = 1 => n * s = s
           /\ n = 2 => n * s = s + s
           /\ n = 3 => n * s = s + s + s
           /\ n = 4 => n * s = s + s + s + s
  BY DEF MAX_FRAMES

\* The slots and the frame each names.
LEMMA SlotFrame ==
    ASSUME NEW n \in 1..MAX_FRAMES, NEW i \in Slots
    PROVE  /\ i % n \in 0..(n - 1)
           /\ i < n => i % n = i
           /\ i \in {0, 1, 2, 3}
  BY DEF MAX_FRAMES, Slots

-----------------------------------------------------------------------------
(* The allocator *)

\* Credit is a frame for each slot of an allocated table that is in use, and
\* nothing for the others.
LEMMA FreeCredit ==
    ASSUME NEW f \in OutFrame, NEW current \in Int, Allocated(f) => Filled(f),
           ~Allocated(f) => Empty(f)
    PROVE  FreeOutput(f, current)[2] = current - Held(f)
<1> DEFINE n == f.nr_frames  s == f.buf_size
<1> USE DEF OutFrame, Slots
<1>1. n \in 1..MAX_FRAMES /\ s \in Nat /\ f.addr \in [Slots -> Nat]
  OBVIOUS
<1>2. CASE Allocated(f)
  <2>1. \A i \in Slots : f.addr[i] # NULL
    <3> SUFFICES ASSUME NEW i \in Slots PROVE f.addr[i] # NULL
      OBVIOUS
    <3>1. i % n \in 0..3
      BY <1>1, SlotFrame DEF MAX_FRAMES
    <3>2. (i % n) * s \in Nat
      BY <1>1, <3>1
    <3>3. f.addr[i] = f.addr[0] + (i % n) * s
      BY <1>2 DEF Filled
    <3>4. f.addr[0] >= DmaStart /\ f.addr[0] \in Nat
      BY <1>1, <1>2 DEF Filled, MAX_FRAMES
    <3> HIDE DEF n, s
    <3> QED BY <3>2, <3>3, <3>4, PoolAssumption DEF NULL
  <2>2. \A i \in Slots : Credit(f, i) = IF i < n THEN s ELSE 0
    BY <2>1 DEF Credit
  <2>3. FreeOutput(f, current)[2] =
            current - (Credit(f, 0) + Credit(f, 1) + Credit(f, 2) + Credit(f, 3))
    BY DEF FreeOutput
  <2>4. Held(f) = n * s
    BY <1>2 DEF Held
  <2> HIDE DEF n, s
  <2> QED BY <1>1, <2>2, <2>3, <2>4, Times DEF MAX_FRAMES
<1>3. CASE ~Allocated(f)
  <2>1. \A i \in Slots : Credit(f, i) = 0
    BY <1>3 DEF Credit, Empty
  <2> QED BY <1>3, <2>1 DEF FreeOutput, Held, MAX_FRAMES
<1> QED BY <1>2, <1>3

\* A free leaves an empty table.
LEMMA FreeFrame ==
    ASSUME NEW f \in OutFrame, NEW current
    PROVE  LET g == FreeOutput(f, current)[1]
           IN  /\ g \in OutFrame
               /\ g.nr_frames = f.nr_frames
               /\ ~Allocated(g) /\ Empty(g)
<1> DEFINE g == FreeOutput(f, current)[1]
           addr == [i \in Slots |-> IF i < f.nr_frames THEN NULL ELSE f.addr[i]]
<1>1. g = [f EXCEPT !.addr = addr, !.buf_size = 0]
  BY DEF FreeOutput
<1>2. addr \in [Slots -> Nat]
  BY DEF OutFrame, NULL
<1>3. \A i \in Slots : i < f.nr_frames => addr[i] = NULL
  OBVIOUS
<1>4. 0 \in Slots /\ 0 < f.nr_frames
  BY DEF OutFrame, Slots, MAX_FRAMES
<1> HIDE DEF addr, g
<1>5. g \in OutFrame /\ g.nr_frames = f.nr_frames /\ g.addr = addr
  BY <1>1, <1>2 DEF OutFrame
<1>6. ~Allocated(g) /\ Empty(g)
  BY <1>3, <1>4, <1>5 DEF Allocated, Empty
<1> QED BY <1>5, <1>6 DEF g

\* What a call may do to a controller's table and the pool: what the table
\* holds more is what the pool has less.
Moves(f, current, g, new) ==
    /\ GoodFrame(g)
    /\ new \in Int
    /\ new <= DmaEnd
    /\ new = current - Held(f) + Held(g)

LEMMA HeldType == ASSUME NEW f \in OutFrame PROVE Held(f) \in Nat
  BY DEF OutFrame, Held, MAX_FRAMES

LEMMA FreeMoves ==
    ASSUME NEW f, GoodFrame(f), NEW current \in Int, current <= DmaEnd
    PROVE  Moves(f, current, FreeOutput(f, current)[1], FreeOutput(f, current)[2])
<1> DEFINE g == FreeOutput(f, current)[1]
<1>1. f \in OutFrame /\ f.nr_frames = NrFrames
  BY DEF GoodFrame
<1>2. FreeOutput(f, current)[2] = current - Held(f)
  BY <1>1, FreeCredit DEF GoodFrame
<1>3. /\ g \in OutFrame
      /\ g.nr_frames = f.nr_frames
      /\ ~Allocated(g) /\ Empty(g)
  BY <1>1, FreeFrame
<1>4. GoodFrame(g)
  BY <1>1, <1>3 DEF GoodFrame
<1>5. Held(g) = 0 /\ Held(f) \in Nat
  BY <1>1, <1>3, HeldType DEF Held
<1> QED BY <1>2, <1>4, <1>5, PoolAssumption DEF Moves, DmaEnd

\* An allocation into an empty table that succeeds.
LEMMA AllocFits ==
    ASSUME NEW f, GoodFrame(f), ~Allocated(f),
           NEW current \in Nat, DmaStart <= current,
           current + f.nr_frames * f.size <= DmaEnd
    PROVE  LET g == [f EXCEPT !.buf_size = f.size,
                              !.addr = [i \in Slots |->
                                            current + (i % f.nr_frames) * f.size]]
           IN  Moves(f, current, g, current + f.nr_frames * f.size)
<1> DEFINE n == f.nr_frames  s == f.size
           addr == [i \in Slots |-> current + (i % n) * s]
           g == [f EXCEPT !.buf_size = s, !.addr = addr]
<1>1. n \in 1..MAX_FRAMES /\ s \in Nat /\ n = NrFrames /\ f \in OutFrame
  BY DEF GoodFrame, OutFrame
<1>2. \A i \in Slots : (i % n) * s \in Nat
  BY <1>1, SlotFrame DEF MAX_FRAMES
<1>3. addr \in [Slots -> Nat]
  BY <1>2
<1>4. 0 \in Slots /\ 0 % n = 0
  BY <1>1, SlotFrame DEF Slots, MAX_FRAMES
<1>5. addr[0] = current
  <2>1. addr[0] = current + (0 % n) * s
    BY <1>4
  <2> QED BY <1>1, <1>4, <2>1
<1> HIDE DEF addr
<1>6. /\ g \in OutFrame
      /\ g.nr_frames = n /\ g.buf_size = s /\ g.addr = addr
  BY <1>1, <1>3 DEF OutFrame
<1>7. n * s \in Nat
  BY <1>1, Times
<1>8. Filled(g)
  <2>1. \A i \in Slots : g.addr[i] = g.addr[0] + (i % n) * s
    BY <1>5, <1>6 DEF addr
  <2> QED BY <1>5, <1>6, <2>1 DEF Filled
<1>9. Allocated(g)
  BY <1>5, <1>6, PoolAssumption DEF Allocated, NULL
<1>10. GoodFrame(g)
  BY <1>1, <1>6, <1>8, <1>9 DEF GoodFrame
<1>11. Held(g) = n * s /\ Held(f) = 0
  BY <1>6, <1>9 DEF Held
<1>12. current + n * s \in Int /\ current + n * s = current - Held(f) + Held(g)
  BY <1>7, <1>11
<1> HIDE DEF g
<1>13. Moves(f, current, g, current + n * s)
  BY <1>10, <1>12 DEF Moves
<1> QED BY <1>13 DEF g, addr

\* One that finds room for k frames only gives back those k.
LEMMA AllocFails ==
    ASSUME NEW f, GoodFrame(f), ~Allocated(f),
           NEW current \in Nat, DmaStart <= current, current <= DmaEnd,
           NEW k \in Nat, k < f.nr_frames, f.size # 0
    PROVE  LET g == [f EXCEPT !.buf_size = f.size,
                              !.addr = [i \in Slots |-> IF i < k THEN current + i * f.size
                                                        ELSE IF i = k THEN NULL
                                                        ELSE f.addr[i]]]
               pair == FreeOutput(g, current + k * f.size)
           IN  Moves(f, current, pair[1], pair[2])
<1> DEFINE n == f.nr_frames  s == f.size
           part == [i \in Slots |-> IF i < k THEN current + i * s
                                    ELSE IF i = k THEN NULL ELSE f.addr[i]]
           g == [f EXCEPT !.buf_size = s, !.addr = part]
           pair == FreeOutput(g, current + k * s)
<1>1. n \in 1..MAX_FRAMES /\ s \in Nat \ {0} /\ n = NrFrames /\ f \in OutFrame
      /\ Empty(f) /\ f.addr \in [Slots -> Nat]
  BY DEF GoodFrame, OutFrame
<1>2. \A i \in Slots : i * s \in Nat
  BY <1>1 DEF Slots, MAX_FRAMES
<1>3. part \in [Slots -> Nat]
  BY <1>1, <1>2 DEF NULL
<1>4. \A i \in Slots : i < n => part[i] = IF i < k THEN current + i * s ELSE NULL
  BY <1>1 DEF Empty, NULL
<1> HIDE DEF part
<1>5. g \in OutFrame /\ g.nr_frames = n /\ g.buf_size = s /\ g.addr = part
  BY <1>1, <1>3 DEF OutFrame
<1>6. \A i \in Slots : Credit(g, i) = IF i < k THEN s ELSE 0
  <2> SUFFICES ASSUME NEW i \in Slots
               PROVE  Credit(g, i) = IF i < k THEN s ELSE 0
    OBVIOUS
  <2>1. i \in Int /\ n \in Int
    BY <1>1 DEF Slots
  <2>2. CASE i < k
    <3>1. part[i] # NULL
      <4>1. i < n /\ part[i] = current + i * s
        BY <1>4, <2>1, <2>2
      <4>2. i * s \in Nat
        BY <1>2
      <4> HIDE DEF s, n
      <4> QED BY <4>1, <4>2, PoolAssumption DEF NULL
    <3>2. i < n
      BY <2>1, <2>2
    <3> QED BY <1>5, <2>2, <3>1, <3>2 DEF Credit
  <2>3. CASE ~(i < k)
    <3>1. i < n => part[i] = NULL
      BY <1>4, <2>3
    <3> QED BY <1>5, <2>3, <3>1 DEF Credit
  <2> QED BY <2>2, <2>3
<1> HIDE DEF g
<1>7. pair[2] = current
  <2> DEFINE top == current + k * s
             credits == Credit(g, 0) + Credit(g, 1) + Credit(g, 2) + Credit(g, 3)
  <2>1. pair[2] = top - credits
    <3>1. \A cur : FreeOutput(g, cur)[2] = cur - credits
      BY DEF FreeOutput
    <3>2. pair = FreeOutput(g, top)
      OBVIOUS
    <3> HIDE DEF top, pair, credits
    <3> QED BY <3>1, <3>2
  <2>2. /\ Credit(g, 0) = IF 0 < k THEN s ELSE 0
        /\ Credit(g, 1) = IF 1 < k THEN s ELSE 0
        /\ Credit(g, 2) = IF 2 < k THEN s ELSE 0
        /\ Credit(g, 3) = IF 3 < k THEN s ELSE 0
    BY <1>6 DEF Slots, MAX_FRAMES
  <2>3. k \in 0..3
    BY <1>1 DEF MAX_FRAMES
  <2>4. k * s = (IF 0 < k THEN s ELSE 0) + (IF 1 < k THEN s ELSE 0)
                  + (IF 2 < k THEN s ELSE 0) + (IF 3 < k THEN s ELSE 0)
    <3>1. s \in Nat
      BY <1>1
    <3> HIDE DEF s
    <3> QED BY <2>3, <3>1
  <2>5. credits = k * s
    BY <2>2, <2>4
  <2>6. k * s \in Nat
    BY <1>1
  <2>7. \A a \in Nat : current + a - a = current
    OBVIOUS
  <2> HIDE DEF s, pair, credits
  <2> QED BY <2>1, <2>5, <2>6, <2>7
<1>8. GoodFrame(pair[1]) /\ ~Allocated(pair[1])
  BY <1>1, <1>5, FreeFrame DEF GoodFrame
<1>9. Held(pair[1]) = 0 /\ Held(f) = 0
  BY <1>8 DEF Held
<1> HIDE DEF pair
<1>10. Moves(f, current, pair[1], pair[2])
  BY <1>7, <1>8, <1>9 DEF Moves
<1> QED BY <1>10 DEF pair, g, part

\* Whether it fits or not.
LEMMA AllocMoves ==
    ASSUME NEW f, GoodFrame(f), ~Allocated(f),
           NEW current \in Nat, DmaStart <= current, current <= DmaEnd
    PROVE  Moves(f, current, AllocOutput(f, current)[1], AllocOutput(f, current)[2])
<1> DEFINE n == f.nr_frames  s == f.size
           room == DmaEnd - current
           k == IF s = 0 THEN n ELSE room \div s
<1>1. n \in 1..MAX_FRAMES /\ s \in Nat
  BY DEF GoodFrame, OutFrame
<1>2. room \in Nat
  BY PoolAssumption DEF DmaEnd
<1>3. k \in Nat /\ (k >= n => current + n * s <= DmaEnd)
  <2>1. CASE s = 0
    <3>1. n * s = 0
      BY <1>1, <2>1
    <3> QED BY <1>1, <2>1, <3>1 DEF MAX_FRAMES
  <2>2. CASE s # 0
    <3>1. /\ room \div s \in Nat
          /\ room \div s >= n => n * s <= room
      BY <1>1, <1>2, <2>2, FramesFit
    <3>2. n * s \in Nat /\ DmaEnd \in Int
      BY <1>1, Times, PoolAssumption DEF DmaEnd
    <3>3. k = room \div s
      BY <2>2
    <3> HIDE DEF k, n, s
    <3>4. ASSUME n * s <= room PROVE current + n * s <= DmaEnd
      BY <3>2, <3>4
    <3> QED BY <3>1, <3>3, <3>4
  <2> QED BY <2>1, <2>2
<1>4. CASE k >= n
  <2>1. AllocOutput(f, current) =
            <<[f EXCEPT !.buf_size = s,
                        !.addr = [i \in Slots |-> current + (i % n) * s]],
              current + n * s>>
    BY <1>4 DEF AllocOutput
  <2>2. current + n * s <= DmaEnd
    BY <1>3, <1>4
  <2> DEFINE g == [f EXCEPT !.buf_size = s,
                            !.addr = [i \in Slots |-> current + (i % n) * s]]
  <2>3. Moves(f, current, g, current + n * s)
    BY <2>2, AllocFits
  <2> HIDE DEF g
  <2>4. /\ AllocOutput(f, current)[1] = g
        /\ AllocOutput(f, current)[2] = current + n * s
    BY <2>1 DEF g
  <2> QED BY <2>3, <2>4
<1>5. CASE ~(k >= n)
  <2>1. s # 0 /\ k < n
    BY <1>1, <1>3, <1>5
  <2>2. AllocOutput(f, current) =
            FreeOutput([f EXCEPT !.buf_size = s,
                                 !.addr = [i \in Slots |->
                                               IF i < k THEN current + i * s
                                               ELSE IF i = k THEN NULL
                                               ELSE f.addr[i]]],
                       current + k * s)
    BY <1>5 DEF AllocOutput
  <2> HIDE DEF k
  <2> QED BY <1>3, <2>1, <2>2, AllocFails
<1> QED BY <1>4, <1>5

LEMMA KeepMoves ==
    ASSUME NEW f, NEW g, GoodFrame(g), Held(f) = Held(g),
           NEW current \in Int, current <= DmaEnd
    PROVE  Moves(f, current, g, current)
<1>1. Held(g) \in Nat
  BY HeldType DEF GoodFrame
<1> QED BY <1>1 DEF Moves

LEMMA AllocIfNoneMoves ==
    ASSUME NEW f, GoodFrame(f),
           NEW current \in Nat, DmaStart <= current, current <= DmaEnd
    PROVE  LET pair == AllocIfNone(f, current)
           IN  Moves(f, current, pair[1], pair[2])
<1>1. CASE f.out_type = "DMA" /\ f.addr[0] = NULL
  <2>1. AllocIfNone(f, current) = AllocOutput(f, current) /\ ~Allocated(f)
    BY <1>1 DEF AllocIfNone, Allocated
  <2> QED BY <2>1, AllocMoves
<1>2. CASE ~(f.out_type = "DMA" /\ f.addr[0] = NULL)
  <2>1. AllocIfNone(f, current) = <<f, current>>
    BY <1>2 DEF AllocIfNone
  <2> QED BY <2>1, KeepMoves
<1> QED BY <1>1, <1>2

\* The fields an allocation reads but what a table holds does not depend on.
LEMMA Relabel ==
    ASSUME NEW f, GoodFrame(f)
    PROVE  /\ \A s \in Nat : /\ GoodFrame([f EXCEPT !.size = s])
                             /\ Held([f EXCEPT !.size = s]) = Held(f)
           /\ \A t \in {"DMA", "LCDFIFO"} :
                  /\ GoodFrame([f EXCEPT !.out_type = t])
                  /\ Held([f EXCEPT !.out_type = t]) = Held(f)
           /\ [f EXCEPT !.nr_frames = NrFrames] = f
  BY DEF GoodFrame, OutFrame, Held, Allocated, Filled, Empty

-----------------------------------------------------------------------------
(* The invariant *)

\* What the step of one controller shows of it.
LEMMA UpdateInv ==
    ASSUME IInv, NEW c \in Ctrls, NEW pair, Update(c, pair),
           Moves(out_frame[c], dma_current, pair[1], pair[2])
    PROVE  FramesInv' /\ PoolInv' /\ dma_current' \in Nat
           /\ out_frame' \in [Ctrls -> OutFrame]
<1>1. /\ GoodFrame(pair[1])
      /\ pair[2] \in Int
      /\ pair[2] <= DmaEnd
      /\ pair[2] = dma_current - Held(out_frame[c]) + Held(pair[1])
  BY DEF Moves
<1>2. /\ out_frame' = [out_frame EXCEPT ![c] = pair[1]]
      /\ dma_current' = pair[2]
  BY DEF Update
<1>3. /\ out_frame \in [Ctrls -> OutFrame]
      /\ dma_current \in Nat
      /\ FramesInv /\ PoolExact
  BY DEF IInv, TypeOK, PoolInv
<1>4. out_frame' \in [Ctrls -> OutFrame]
  BY <1>1, <1>2, <1>3 DEF GoodFrame
<1>5. \A d \in Ctrls : out_frame'[d] = IF d = c THEN pair[1] ELSE out_frame[d]
  BY <1>2, <1>3
<1>6. FramesInv'
  <2>1. \A d \in Ctrls : GoodFrame(out_frame'[d])
    BY <1>1, <1>3, <1>5 DEF FramesInv
  <2> QED BY <2>1 DEF FramesInv
<1>7. \A d : HeldBy(d) \in Nat /\ HeldBy(d)' \in Nat
  BY <1>3, <1>4, HeldType DEF HeldBy
<1>8. \A d : d # c => HeldBy(d)' = HeldBy(d)
  BY <1>5 DEF HeldBy
<1>9. HeldBy(c) = Held(out_frame[c]) /\ HeldBy(c)' = Held(pair[1])
  BY <1>5 DEF HeldBy
<1>10. dma_current' = dma_current - HeldBy(c) + HeldBy(c)'
  BY <1>1, <1>2, <1>9
<1>11. c \in {0, 1, 2}
  BY CtrlAssumption DEF MAX_CTRLS
<1>12. dma_current' = DmaStart + HeldBy(0)' + HeldBy(1)' + HeldBy(2)'
  <2>1. dma_current = DmaStart + HeldBy(0) + HeldBy(1) + HeldBy(2)
    BY <1>3 DEF PoolExact
  <2>2. CASE c = 0
    BY <1>3, <1>7, <1>8, <1>10, <2>1, <2>2, PoolAssumption
  <2>3. CASE c = 1
    BY <1>3, <1>7, <1>8, <1>10, <2>1, <2>3, PoolAssumption
  <2>4. CASE c = 2
    BY <1>3, <1>7, <1>8, <1>10, <2>1, <2>4, PoolAssumption
  <2> QED BY <1>11, <2>2, <2>3, <2>4
<1>13. dma_current' \in Nat
  BY <1>7, <1>12, PoolAssumption
<1> QED BY <1>1, <1>2, <1>4, <1>6, <1>12, <1>13 DEF PoolInv, PoolExact, DmaEnd

\* The pool's pointer never passes its ends.
LEMMA PoolBounds ==
    ASSUME IInv
    PROVE  DmaStart <= dma_current /\ dma_current <= DmaEnd
           /\ dma_current \in Nat
           /\ \A c \in Ctrls : /\ GoodFrame(out_frame[c])
                               /\ dma_current - Held(out_frame[c]) \in Nat
                               /\ DmaStart <= dma_current - Held(out_frame[c])
<1>1. /\ out_frame \in [Ctrls -> OutFrame]
      /\ dma_current \in Nat
      /\ FramesInv /\ PoolExact /\ dma_current <= DmaEnd
  BY DEF IInv, TypeOK, PoolInv
<1>2. \A d : HeldBy(d) \in Nat
  BY <1>1, HeldType DEF HeldBy
<1>3. DmaStart \in Nat
      /\ dma_current = DmaStart + HeldBy(0) + HeldBy(1) + HeldBy(2)
  BY <1>1, PoolAssumption DEF PoolExact
<1>4. \A c \in Ctrls : Held(out_frame[c]) = HeldBy(c) /\ c \in {0, 1, 2}
  BY CtrlAssumption DEF HeldBy, MAX_CTRLS
<1>5. DmaStart <= dma_current
  BY <1>2, <1>3
<1>6. \A c \in Ctrls : /\ dma_current - HeldBy(c) \in Nat
                       /\ DmaStart <= dma_current - HeldBy(c)
  <2>1. HeldBy(0) \in Nat /\ HeldBy(1) \in Nat /\ HeldBy(2) \in Nat
    BY <1>2
  <2>2. /\ DmaStart <= dma_current - HeldBy(0)
        /\ DmaStart <= dma_current - HeldBy(1)
        /\ DmaStart <= dma_current - HeldBy(2)
    BY <1>3, <2>1
  <2>3. /\ dma_current - HeldBy(0) \in Nat
        /\ dma_current - HeldBy(1) \in Nat
        /\ dma_current - HeldBy(2) \in Nat
    BY <1>3, <2>1
  <2> QED BY <1>4, <2>2, <2>3
<1> QED BY <1>1, <1>4, <1>5, <1>6 DEF FramesInv

LEMMA InitInv == Init => IInv
<1> SUFFICES ASSUME Init PROVE IInv
  OBVIOUS
<1> DEFINE f0 == [nr_frames |-> NrFrames, size |-> 0, buf_size |-> 0,
                  out_type |-> "DMA", addr |-> NoAddr]
<1>1. NoAddr \in [Slots -> Nat] /\ NoAddr[0] = NULL
      /\ \A i \in Slots : NoAddr[i] = NULL
  BY DEF NoAddr, NULL, Slots, MAX_FRAMES
<1>2. f0 \in OutFrame
  BY <1>1, CountAssumption DEF OutFrame, MAX_FRAMES
<1>3. ~Allocated(f0) /\ Empty(f0) /\ f0.nr_frames = NrFrames
  BY <1>1 DEF Allocated, Empty
<1>4. GoodFrame(f0) /\ Held(f0) = 0
  BY <1>2, <1>3 DEF GoodFrame, Held
<1>5. dma_current = DmaStart /\ out_frame = [c \in Ctrls |-> f0]
  BY DEF Init
<1> HIDE DEF f0
<1>6. TypeOK
  BY <1>1, <1>2, <1>5, PoolAssumption DEF Init, TypeOK
<1>7. FramesInv
  BY <1>4, <1>5 DEF FramesInv
<1>8. \A d : HeldBy(d) = 0
  BY <1>4, <1>5 DEF HeldBy
<1> QED BY <1>5, <1>6, <1>7, <1>8, PoolAssumption DEF IInv, PoolInv, PoolExact, DmaEnd

\* The calls that leave the tables and the pool alone.
LEMMA FramesKept ==
    ASSUME IInv, out_frame' = out_frame, dma_current' = dma_current
    PROVE  FramesInv' /\ PoolInv' /\ dma_current' \in Nat
           /\ out_frame' \in [Ctrls -> OutFrame]
<1>1. \A d : HeldBy(d)' = HeldBy(d)
  BY DEF HeldBy
<1> QED BY <1>1 DEF IInv, TypeOK, FramesInv, PoolInv, PoolExact

\* Those that free or allocate.
LEMMA SetFormatFrames ==
    ASSUME IInv, NEW c \in Ctrls, NEW s \in Sizes, SetFormat(c, s)
    PROVE  FramesInv' /\ PoolInv' /\ dma_current' \in Nat
           /\ out_frame' \in [Ctrls -> OutFrame]
<1> DEFINE f == [out_frame[c] EXCEPT !.size = s]
           pair == AllocIfNone(f, dma_current)
<1>1. GoodFrame(out_frame[c]) /\ s \in Nat
  BY PoolBounds, PoolAssumption
<1>2. GoodFrame(f) /\ Held(f) = Held(out_frame[c])
  BY <1>1, Relabel
<1> HIDE DEF f
<1>3. Moves(f, dma_current, pair[1], pair[2])
  BY <1>2, PoolBounds, AllocIfNoneMoves
<1>4. Update(c, pair)
  BY DEF SetFormat, f
<1> HIDE DEF pair
<1>5. Moves(out_frame[c], dma_current, pair[1], pair[2])
  BY <1>2, <1>3 DEF Moves
<1> QED BY <1>4, <1>5, UpdateInv

LEMMA ReqBufsFrames ==
    ASSUME IInv, NEW c \in Ctrls, NEW n, Granted(n) = NrFrames, ReqBufs(c, n)
    PROVE  FramesInv' /\ PoolInv' /\ dma_current' \in Nat
           /\ out_frame' \in [Ctrls -> OutFrame]
<1> DEFINE f == out_frame[c]
           freed == IF f.addr[0] # NULL THEN FreeOutput(f, dma_current)
                    ELSE <<f, dma_current>>
           pair == AllocIfNone(freed[1], freed[2])
<1>1. GoodFrame(f) /\ Held(f) \in Nat
  BY PoolBounds, HeldType DEF GoodFrame
<1>2. [f EXCEPT !.nr_frames = Granted(n)] = f
  BY <1>1, Relabel
<1>3. Update(c, pair)
  BY <1>2 DEF ReqBufs
<1>4. /\ Moves(f, dma_current, freed[1], freed[2])
      /\ Held(freed[1]) = 0
  <2>1. CASE Allocated(f)
    <3>1. freed = FreeOutput(f, dma_current)
      BY <2>1 DEF Allocated
    <3>2. Moves(f, dma_current, freed[1], freed[2])
      BY <1>1, <3>1, FreeMoves, PoolBounds
    <3>3. ~Allocated(freed[1])
      BY <1>1, <3>1, FreeFrame DEF GoodFrame
    <3> QED BY <3>2, <3>3 DEF Held
  <2>2. CASE ~Allocated(f)
    <3>1. freed = <<f, dma_current>>
      BY <2>2 DEF Allocated
    <3>2. Moves(f, dma_current, f, dma_current) /\ Held(f) = 0
      BY <1>1, <2>2, KeepMoves, PoolBounds DEF Held
    <3> QED BY <3>1, <3>2
  <2> QED BY <2>1, <2>2
<1> HIDE DEF freed
<1>5. /\ GoodFrame(freed[1])
      /\ freed[2] = dma_current - Held(f)
      /\ freed[2] \in Nat /\ DmaStart <= freed[2] /\ freed[2] <= DmaEnd
  BY <1>1, <1>4, PoolBounds DEF Moves
<1>6. Moves(freed[1], freed[2], pair[1], pair[2])
  BY <1>5, AllocIfNoneMoves
<1> HIDE DEF pair
<1>7. Moves(f, dma_current, pair[1], pair[2])
  <2>1. Held(pair[1]) \in Nat
    BY <1>6, HeldType DEF Moves, GoodFrame
  <2> QED BY <1>4, <1>5, <1>6, <2>1 DEF Moves
<1> QED BY <1>3, <1>7, UpdateInv

LEMMA SetNrFramesKept ==
    ASSUME FixedFrames, IInv, NEW c \in Ctrls, NEW nr \in NrControls,
           SetNrFrames(c, nr)
    PROVE  out_frame' = out_frame
<1> DEFINE f == out_frame[c]
<1>1. [f EXCEPT !.nr_frames = NrFrames] = f
  BY PoolBounds, Relabel
<1>2. out_frame' = [out_frame EXCEPT ![c] = [f EXCEPT !.nr_frames = NrFrames]]
  BY DEF SetNrFrames, FixedFrames
<1> QED BY <1>1, <1>2 DEF IInv, TypeOK

LEMMA SetOutputFrames ==
    ASSUME IInv, NEW c \in Ctrls, NEW t \in {"DMA", "LCDFIFO"}, SetOutput(c, t)
    PROVE  FramesInv' /\ PoolInv' /\ dma_current' \in Nat
           /\ out_frame' \in [Ctrls -> OutFrame]
<1> DEFINE f == [out_frame[c] EXCEPT !.out_type = t]
           pair == <<f, dma_current>>
<1>1. GoodFrame(f) /\ Held(f) = Held(out_frame[c])
  BY PoolBounds, Relabel
<1>2. out_frame' = [out_frame EXCEPT ![c] = f] /\ dma_current' = dma_current
  BY DEF SetOutput
<1> HIDE DEF f
<1>3. Update(c, pair)
  BY <1>2 DEF Update
<1>4. Moves(out_frame[c], dma_current, pair[1], pair[2])
  BY <1>1, PoolBounds, KeepMoves
<1> QED BY <1>3, <1>4, UpdateInv

LEMMA ForgetFrames ==
    ASSUME IInv, NEW c \in Ctrls, FreeAndForget(c)
    PROVE  FramesInv' /\ PoolInv' /\ dma_current' \in Nat
           /\ out_frame' \in [Ctrls -> OutFrame]
           /\ regs' \in [Ctrls -> [Slots -> Nat]]
<1> DEFINE pair == FreeOutput(out_frame[c], dma_current)
<1>1. Moves(out_frame[c], dma_current, pair[1], pair[2])
  BY PoolBounds, FreeMoves
<1>2. Update(c, pair) /\ regs' = [regs EXCEPT ![c] = pair[1].addr]
  BY DEF FreeAndForget
<1> HIDE DEF pair
<1>3. pair[1].addr \in [Slots -> Nat]
  BY <1>1 DEF Moves, GoodFrame, OutFrame
<1> QED BY <1>1, <1>2, <1>3, UpdateInv DEF IInv, TypeOK

\* Every call but those that set the number of frames.
OtherCall(c) ==
    \/ Open(c) \/ Release(c)
    \/ \E s \in Sizes : SetFormat(c, s)
    \/ \E t \in {"DMA", "LCDFIFO"} : SetOutput(c, t)
    \/ Start(c)
    \/ StreamOff(c) \/ StreamOffDone(c)
    \/ OverlayOff(c) \/ OverlayOffDone(c)
    \/ Restart(c) \/ RestartDone(c)
    \/ FrameEnd(c)

\* The two halves of the invariant after a step.
FramesNow ==
    /\ FramesInv /\ PoolInv
    /\ dma_current \in Nat
    /\ out_frame \in [Ctrls -> OutFrame]
RestNow ==
    /\ open \in [Ctrls -> BOOLEAN]
    /\ dma \in [Ctrls -> {"off", "on", "draining"}]
    /\ regs \in [Ctrls -> [Slots -> Nat]]
    /\ target \in [Ctrls -> Nat]
    /\ waiting \in [Ctrls -> {"none", "streamoff", "overlay", "restart"}]

LEMMA OtherCallInv ==
    ASSUME IInv, NEW c \in Ctrls, OtherCall(c) PROVE IInv'
<1>0. RestNow /\ NoAddr \in [Slots -> Nat] /\ out_frame \in [Ctrls -> OutFrame]
  BY DEF IInv, TypeOK, RestNow, NoAddr, NULL
<1> SUFFICES FramesNow' /\ RestNow'
  BY DEF IInv, TypeOK, FramesNow, RestNow
<1> USE DEF RestNow, FramesNow
<1>1. CASE Open(c)
  <2>1. RestNow'
    BY <1>0, <1>1 DEF Open
  <2> QED BY <1>1, <2>1, FramesKept DEF Open
<1>2. CASE Release(c)
  BY <1>0, <1>2, FramesKept DEF Release
<1>3. ASSUME NEW s \in Sizes, SetFormat(c, s) PROVE FramesNow' /\ RestNow'
  BY <1>0, <1>3, SetFormatFrames DEF SetFormat
<1>4. ASSUME NEW t \in {"DMA", "LCDFIFO"}, SetOutput(c, t)
      PROVE  FramesNow' /\ RestNow'
  BY <1>0, <1>4, SetOutputFrames DEF SetOutput
<1>5. ASSUME StartEngine(c), UNCHANGED <<dma_current, out_frame, open>>,
             \/ waiting' = waiting
             \/ waiting' = [waiting EXCEPT ![c] = "none"]
      PROVE  FramesNow' /\ RestNow'
  BY <1>0, <1>5, FramesKept DEF StartEngine, OutFrame
<1>6. ASSUME NEW call \in {"streamoff", "overlay", "restart"}, Stop(c, call)
      PROVE  FramesNow' /\ RestNow'
  BY <1>0, <1>6, FramesKept DEF Stop
<1>7. CASE StreamOffDone(c)
  BY <1>0, <1>7, ForgetFrames DEF StreamOffDone, Waited
<1>8. CASE OverlayOffDone(c)
  <2>1. CASE FreeAndForget(c)
    BY <1>0, <1>8, <2>1, ForgetFrames DEF OverlayOffDone, Waited
  <2>2. CASE UNCHANGED <<dma_current, out_frame, regs>>
    BY <1>0, <1>8, <2>2, FramesKept DEF OverlayOffDone, Waited
  <2> QED BY <1>8, <2>1, <2>2 DEF OverlayOffDone
<1>9. CASE FrameEnd(c)
  BY <1>0, <1>9, FramesKept DEF FrameEnd
<1>10. CASE Start(c)
  BY <1>5, <1>10 DEF Start
<1>11. CASE RestartDone(c)
  BY <1>5, <1>11 DEF RestartDone, Waited
<1>12. CASE StreamOff(c) \/ OverlayOff(c) \/ Restart(c)
  BY <1>6, <1>12 DEF StreamOff, OverlayOff, Restart
<1> HIDE DEF RestNow, FramesNow
<1> QED BY <1>1, <1>2, <1>3, <1>4, <1>7, <1>8, <1>9, <1>10, <1>11, <1>12
        DEF OtherCall

LEMMA ReqBufsInv ==
    ASSUME IInv, NEW c \in Ctrls, NEW n, Granted(n) = NrFrames, ReqBufs(c, n)
    PROVE  IInv'
  BY ReqBufsFrames DEF ReqBufs, IInv, TypeOK

LEMMA StillInv == ASSUME IInv, UNCHANGED vars PROVE IInv'
<1>1. FramesInv' /\ PoolInv'
  BY FramesKept DEF vars
<1> QED BY <1>1 DEF vars, IInv, TypeOK

LEMMA StepInv ==
    ASSUME FixedFrames
    PROVE  IInv /\ [Next]_vars => IInv'
<1> SUFFICES ASSUME IInv, [Next]_vars PROVE IInv'
  OBVIOUS
<1>1. ASSUME NEW c \in Ctrls, NEW nr \in NrControls, SetNrFrames(c, nr)
      PROVE  UNCHANGED vars
  BY <1>1, SetNrFramesKept DEF SetNrFrames, vars
<1>2. ASSUME NEW c \in Ctrls, NEW n \in Counts, ReqBufs(c, n) PROVE IInv'
  BY <1>2, ReqBufsInv DEF FixedFrames
<1>3. ASSUME NEW c \in Ctrls, CtrlNext(c) PROVE IInv'
  BY <1>1, <1>2, <1>3, OtherCallInv, StillInv DEF CtrlNext, OtherCall
<1> QED BY <1>3, StillInv DEF Next

\* The properties of the runs follow from it.
LEMMA Apart == IInv => AllFramesApart
<1> SUFFICES ASSUME IInv, NEW c \in Ctrls, Allocated(out_frame[c])
             PROVE  LET f == out_frame[c]
                    IN  /\ \A i \in Slots : Within(f.addr[i], f.buf_size, DmaStart, DmaEnd)
                        /\ \A i, j \in Slots : i < j /\ j < f.nr_frames =>
                               f.addr[i] + f.buf_size <= f.addr[j]
  BY DEF AllFramesApart
<1> DEFINE f == out_frame[c]  n == f.nr_frames  s == f.buf_size  a == f.addr[0]
<1>1. /\ n \in 1..MAX_FRAMES /\ s \in Nat /\ a \in Nat
      /\ a >= DmaStart /\ a + n * s <= DmaEnd
      /\ \A i \in Slots : f.addr[i] = a + (i % n) * s
  BY PoolBounds DEF GoodFrame, Filled, OutFrame, Slots, MAX_FRAMES
<1>2. DmaStart \in Nat /\ DmaEnd \in Nat
  BY PoolAssumption DEF DmaEnd
<1> HIDE DEF f, n, s, a
<1>3. ASSUME NEW i \in Slots PROVE Within(f.addr[i], s, DmaStart, DmaEnd)
  <2>1. i % n \in 0..(n - 1)
    BY <1>1, SlotFrame
  <2>2. (i % n) * s \in Nat /\ (i % n) * s + s <= n * s
    BY <1>1, <2>1 DEF MAX_FRAMES
  <2>3. n * s \in Nat
    BY <1>1, Times
  <2> QED BY <1>1, <1>2, <2>2, <2>3 DEF Within
<1>4. ASSUME NEW i \in Slots, NEW j \in Slots, i < j, j < n
      PROVE  f.addr[i] + s <= f.addr[j]
  <2>1. i % n = i /\ j % n = j /\ i \in 0..3 /\ j \in 0..3
    <3>1. i < n
      BY <1>1, <1>4 DEF Slots, MAX_FRAMES
    <3> QED BY <1>1, <1>4, <3>1, SlotFrame
  <2>2. i * s + s <= j * s /\ i * s \in Nat /\ j * s \in Nat
    BY <1>1, <1>4, <2>1
  <2> QED BY <1>1, <2>1, <2>2
<1> QED BY <1>3, <1>4 DEF f, n, s

-----------------------------------------------------------------------------
(* The theorems *)

\* The invariant holds in every reachable state.
THEOREM Inductive ==
    ASSUME FixedFrames PROVE Spec => []IInv
<1>1. Init => IInv
  BY InitInv
<1>2. IInv /\ [Next]_vars => IInv'
  BY StepInv
<1> QED BY <1>1, <1>2, PTL DEF Spec

\* Types: the pool's pointer is never below zero although every free subtracts.
THEOREM TypeCorrect ==
    ASSUME FixedFrames PROVE Spec => []TypeOK
<1>1. IInv => TypeOK
  BY DEF IInv
<1> QED BY <1>1, Inductive, PTL

\* The driver gives back exactly the pages it took: s3c_fimc.dma_current is the
\* start of the reserved memory and what the controllers hold, and stays inside it.
THEOREM PoolIsExact ==
    ASSUME FixedFrames PROVE Spec => [](PoolExact /\ dma_current <= DmaEnd)
<1>1. IInv => PoolExact /\ dma_current <= DmaEnd
  BY DEF IInv, PoolInv
<1> QED BY <1>1, Inductive, PTL

\* The frames of a controller lie in the reserved memory and do not overlap.
THEOREM FramesAreApart ==
    ASSUME FixedFrames PROVE Spec => []AllFramesApart
<1> QED BY Apart, Inductive, PTL
===============================================================================
