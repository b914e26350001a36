------------------------- MODULE DataLayout_proofs -------------------------
(***************************************************************************)
(* Theorems about DataLayout for any layers, shapes and paddings.  Buffers *)
(* keep their sizes; a place in the accelerator's layout is a number in a  *)
(* mixed base, so the rearrangements are proved by taking it apart into    *)
(* its digits.  Three invariants carry the bytes along an inference: the   *)
(* weights (WeightsInv), the image on its way in (FrameInv), the outputs   *)
(* on their way out (TransferInv).                                         *)
(***************************************************************************)
EXTENDS DataLayout, WellFoundedInduction, TLAPS

LEMMA InitTypes == Init => TypeOK
<1> SUFFICES ASSUME Init PROVE TypeOK
  OBVIOUS
<1>1. /\ layer \in Layers /\ pc = "build" /\ call = 0 /\ out = 1 /\ ok = TRUE
      /\ DOMAIN buff = Array(BuffSize(layer)) /\ DOMAIN ia = Array(Extent(layer.in, InPad(layer)))
  BY Zenon DEF Init
<1>2. call \in 0 .. MaxCalls /\ out \in DOMAIN layer.outs
  BY <1>1, LayoutAssumption DEF IsLayer
<1> QED
  BY <1>1, <1>2, Zenon DEF TypeOK

LEMMA NextTypes == TypeOK /\ [Next]_vars => TypeOK'
<1> SUFFICES ASSUME TypeOK, [Next]_vars PROVE TypeOK'
  OBVIOUS
<1>1. 1 \in DOMAIN layer.outs
  BY LayoutAssumption DEF TypeOK, IsLayer
<1>2. CASE BuildWeights
  BY <1>2, Zenon DEF TypeOK, BuildWeights
<1>3. CASE Fill
  <2>1. layer' = layer /\ out' = 1 /\ pc' = "pad" /\ ia' = ia /\ ok' = ok /\ DOMAIN buff' = DOMAIN buff
    BY <1>3, Zenon DEF Fill
  <2>2. call' \in 0 .. MaxCalls
    BY <1>3, LayoutAssumption DEF Fill, TypeOK
  <2> QED
    BY <1>1, <2>1, <2>2, Zenon DEF TypeOK
<1>4. CASE PadInput
  <2>1. layer' = layer /\ out' = out /\ call' = call /\ pc' = "rearrange" /\ ia' = ia /\ ok' = ok /\ DOMAIN buff' = DOMAIN buff
    BY <1>4, Zenon DEF PadInput
  <2> QED
    BY <2>1, Zenon DEF TypeOK
<1>5. CASE Rearrange
  <2>1. layer' = layer /\ out' = out /\ call' = call /\ pc' = "ioctl" /\ buff' = buff /\ ok' = ok /\ DOMAIN ia' = DOMAIN ia
    BY <1>5, Zenon DEF Rearrange
  <2> QED
    BY <2>1, Zenon DEF TypeOK
<1>6. CASE Ioctl \/ IoctlFails
  <2>1. layer' = layer /\ out' = out /\ call' = call /\ pc' \in {"unrearrange", "idle"} /\ buff' = buff /\ ia' = ia /\ ok' \in BOOLEAN
    BY <1>6, Zenon DEF Ioctl, IoctlFails
  <2> QED
    BY <2>1, Zenon DEF TypeOK
<1>7. CASE Unrearrange
  <2>1. layer' = layer /\ out' = out /\ call' = call /\ pc' = "copy" /\ ia' = ia /\ ok' = ok /\ DOMAIN buff' = DOMAIN buff
    BY <1>7, Zenon DEF Unrearrange
  <2> QED
    BY <2>1, Zenon DEF TypeOK
<1>8. CASE CopyOutput
  <2>1. /\ layer' = layer /\ call' = call /\ pc' \in {"unrearrange", "idle"} /\ buff' = buff /\ ia' = ia /\ ok' = ok
        /\ out' \in DOMAIN layer.outs
    BY <1>8, Zenon DEF CopyOutput, TypeOK
  <2> QED
    BY <2>1, Zenon DEF TypeOK
<1>9. CASE UNCHANGED vars
  BY <1>9, Zenon DEF vars, TypeOK
<1> QED
  BY <1>2, <1>3, <1>4, <1>5, <1>6, <1>7, <1>8, <1>9, Zenon DEF Next

\* For any layers the shared buffer and the device buffer of the input keep the size
\* BuildDeviceModel gave them, and the library works on an output node that exists.
THEOREM LayoutTypes == Spec => []TypeOK
BY InitTypes, NextTypes, PTL DEF Spec

-----------------------------------------------------------------------------
(* The device's layout: a place in it is a number in a mixed base, tile,   *)
(* row, column and lane.                                                   *)

LEMMA DigitFits ==
    ASSUME NEW W \in Nat, NEW A \in Nat, NEW a \in 0 .. A - 1, NEW b \in 0 .. W - 1
    PROVE  a * W + b \in 0 .. A * W - 1
<1>1. a * W \in Nat /\ A * W \in Nat /\ (a + 1) * W \in Nat
  OBVIOUS
<1>2. PICK k \in Nat : A = (a + 1) + k
  <2>1. A - (a + 1) \in Nat /\ A = (a + 1) + (A - (a + 1))
    OBVIOUS
  <2> QED
    BY <2>1
<1>3. A * W = (a + 1) * W + k * W /\ k * W \in Nat
  BY <1>2
<1>4. (a + 1) * W = a * W + W
  OBVIOUS
<1> QED
  BY <1>1, <1>3, <1>4

LEMMA SmallerDigit ==
    ASSUME NEW W \in Nat, NEW a \in Nat, NEW c \in Nat, a < c,
           NEW b \in 0 .. W - 1, NEW d \in 0 .. W - 1
    PROVE  a * W + b < c * W + d
<1>1. a \in 0 .. c - 1
  OBVIOUS
<1>2. a * W + b \in 0 .. c * W - 1
  BY <1>1, DigitFits
<1>3. c * W \in Nat
  OBVIOUS
<1> QED
  BY <1>2, <1>3

LEMMA DigitsDiffer ==
    ASSUME NEW W \in Nat, NEW a \in Nat, NEW c \in Nat,
           NEW b \in 0 .. W - 1, NEW d \in 0 .. W - 1, a * W + b = c * W + d
    PROVE  a = c /\ b = d
<1>1. a * W + b \in Nat /\ c * W + d \in Nat
  OBVIOUS
<1>2. ~(a < c)
  BY <1>1, SmallerDigit
<1>3. ~(c < a)
  BY <1>1, SmallerDigit
<1>4. a = c
  BY <1>2, <1>3
<1>5. a * W \in Nat /\ a * W = c * W
  BY <1>4
<1> QED
  BY <1>4, <1>5

\* No two bytes of a tensor, framed or not and the lanes of the last tile included,
\* share a place, and every place is inside the Extent that BuildDeviceModel allocates:
\* a rearrangement that puts each byte in its Place loses none and overruns nothing.
THEOREM EveryByteHasItsPlace ==
    ASSUME NEW s, IsShape(s), NEW p \in Nat
    PROVE  \A c, d \in Array(UpRound(s.c, Tile) * Tile),
              y, z \in Array(s.h + 2 * p), x, u \in Array(s.w + 2 * p) :
              /\ Place(c, y, x, s.h + 2 * p, s.w + 2 * p) \in Array(Extent(s, p))
              /\ Place(c, y, x, s.h + 2 * p, s.w + 2 * p) = Place(d, z, u, s.h + 2 * p, s.w + 2 * p)
                    => c = d /\ y = z /\ x = u
<1> DEFINE T == UpRound(s.c, Tile)
           h == s.h + 2 * p
           w == s.w + 2 * p
<1>1. T \in Nat /\ h \in Nat /\ w \in Nat
  BY DEF IsShape, UpRound, Tile
<1>2. ASSUME NEW c \in Array(T * Tile)
      PROVE  c \div Tile \in 0 .. T - 1 /\ c % Tile \in 0 .. Tile - 1 /\ c = (c \div Tile) * Tile + (c % Tile)
  BY <1>1 DEF Array, Tile
<1>3. Extent(s, p) = ((T * h) * w) * Tile
  <2>1. T * Tile * h * w = ((T * h) * w) * Tile
    BY <1>1 DEF Tile
  <2> QED
    BY <2>1 DEF Extent
<1> HIDE DEF T, h, w
<1> SUFFICES ASSUME NEW c \in Array(T * Tile), NEW d \in Array(T * Tile),
                    NEW y \in Array(h), NEW z \in Array(h), NEW x \in Array(w), NEW u \in Array(w)
             PROVE  /\ Place(c, y, x, h, w) \in Array(Extent(s, p))
                    /\ Place(c, y, x, h, w) = Place(d, z, u, h, w) => c = d /\ y = z /\ x = u
  BY DEF T, h, w
<1> DEFINE Line(e, r) == (e \div Tile) * h + r
           Pixel(e, r, k) == Line(e, r) * w + k
<1>4. ASSUME NEW e \in Array(T * Tile), NEW r \in Array(h), NEW k \in Array(w)
      PROVE  /\ Line(e, r) \in 0 .. T * h - 1 /\ Pixel(e, r, k) \in 0 .. (T * h) * w - 1
             /\ Place(e, r, k, h, w) = Pixel(e, r, k) * Tile + (e % Tile)
             /\ Place(e, r, k, h, w) \in 0 .. ((T * h) * w) * Tile - 1
  <2>1. T * h \in Nat /\ (T * h) * w \in Nat /\ Tile \in Nat
    BY <1>1 DEF Tile
  <2>2. e \div Tile \in 0 .. T - 1 /\ e % Tile \in 0 .. Tile - 1 /\ r \in 0 .. h - 1 /\ k \in 0 .. w - 1
    BY <1>2 DEF Array
  <2>3. Line(e, r) \in 0 .. T * h - 1
    BY <1>1, <2>2, DigitFits
  <2> HIDE DEF Line
  <2>4. Pixel(e, r, k) \in 0 .. (T * h) * w - 1
    BY <1>1, <2>1, <2>2, <2>3, DigitFits
  <2>5. Place(e, r, k, h, w) = Pixel(e, r, k) * Tile + (e % Tile)
    BY DEF Place, Line
  <2> HIDE DEF Pixel
  <2>6. Pixel(e, r, k) * Tile + (e % Tile) \in 0 .. ((T * h) * w) * Tile - 1
    BY <2>1, <2>2, <2>4, DigitFits
  <2> QED
    BY <2>3, <2>4, <2>5, <2>6
<1>5. ASSUME Place(c, y, x, h, w) = Place(d, z, u, h, w)
      PROVE  c = d /\ y = z /\ x = u
  <2>1. /\ c % Tile \in 0 .. Tile - 1 /\ d % Tile \in 0 .. Tile - 1 /\ Tile \in Nat
        /\ c \div Tile \in Nat /\ d \div Tile \in Nat
    BY <1>1, <1>2 DEF Tile
  <2>2. x \in 0 .. w - 1 /\ u \in 0 .. w - 1 /\ y \in 0 .. h - 1 /\ z \in 0 .. h - 1
    BY DEF Array
  <2>3. /\ Line(c, y) \in Nat /\ Line(d, z) \in Nat /\ Pixel(c, y, x) \in Nat /\ Pixel(d, z, u) \in Nat
        /\ Pixel(c, y, x) * Tile + (c % Tile) = Pixel(d, z, u) * Tile + (d % Tile)
    <3> HIDE DEF Line, Pixel
    <3>1. T * h \in Nat /\ (T * h) * w \in Nat
      BY <1>1
    <3> QED
      BY <1>4, <1>5, <3>1
  <2> HIDE DEF Line, Pixel
  <2>4. Pixel(c, y, x) = Pixel(d, z, u) /\ c % Tile = d % Tile
    BY <2>1, <2>3, DigitsDiffer
  <2>5. Line(c, y) = Line(d, z) /\ x = u
    <3>1. Line(c, y) * w + x = Line(d, z) * w + u
      BY <2>4 DEF Pixel
    <3> QED
      BY <1>1, <2>2, <2>3, <3>1, DigitsDiffer
  <2>6. c \div Tile = d \div Tile /\ y = z
    <3>1. (c \div Tile) * h + y = (d \div Tile) * h + z
      BY <2>5 DEF Line
    <3>2. \A a, b \in Nat : a * h + y = b * h + z => a = b /\ y = z
      BY <1>1, <2>2, DigitsDiffer
    <3> QED
      BY <2>1, <3>1, <3>2
  <2>7. c = d
    BY <1>2, <2>4, <2>6
  <2> QED
    BY <2>5, <2>6, <2>7
<1>6. Place(c, y, x, h, w) \in Array(Extent(s, p))
  BY <1>3, <1>4 DEF Array
<1> QED
  BY <1>5, <1>6

-----------------------------------------------------------------------------
(* Division, and the weights: block, input lane, kernel position and       *)
(* output lane are the digits of a byte's number.                          *)

\* What the mixed base means for quotients and remainders.
LEMMA Division ==
    ASSUME NEW W \in Nat \ {0}, NEW a \in Nat, NEW b \in 0 .. W - 1
    PROVE  (a * W + b) \div W = a /\ (a * W + b) % W = b
<1>1. a * W + b \in Nat
  OBVIOUS
<1> DEFINE q == (a * W + b) \div W
           r == (a * W + b) % W
<1>2. q \in Nat /\ r \in 0 .. W - 1 /\ q * W + r = a * W + b
  BY <1>1
<1> HIDE DEF q, r
<1>3. a = q /\ b = r
  BY <1>2, DigitsDiffer
<1> QED
  BY <1>3 DEF q, r

\* Block B, input lane r, kernel position k, output lane c of the reordered weights.
WeightByte(K, B, r, k, c) == ((B * Tile + r) * K + k) * Tile + c

LEMMA WeightDigits ==
    ASSUME NEW K \in Nat \ {0}, NEW B \in Nat,
           NEW r \in 0 .. Tile - 1, NEW k \in 0 .. K - 1, NEW c \in 0 .. Tile - 1
    PROVE  LET i == WeightByte(K, B, r, k, c)
           IN  /\ i \in Nat /\ i \div (Tile * K * Tile) = B /\ i % Tile = c
               /\ (i % (Tile * K * Tile)) \div (K * Tile) = r
               /\ (i \div Tile) % K = k
               /\ \A N \in Nat : B < N => i \in Array(N * (Tile * K * Tile))
<1> DEFINE i == WeightByte(K, B, r, k, c)
<1> USE DEF WeightByte
<1>1. Tile \in Nat \ {0}
  BY DEF Tile
<1> DEFINE low == k * Tile + c
           mid == r * (K * Tile) + low
           KT == K * Tile
           TKT == Tile * K * Tile
           up == (B * Tile + r) * K + k
<1>2. KT \in Nat \ {0} /\ TKT \in Nat \ {0} /\ TKT = Tile * KT
  BY DEF Tile
<1>3. low \in 0 .. KT - 1
  BY <1>1, DigitFits
<1>4. mid \in 0 .. Tile * KT - 1
  BY <1>1, <1>2, <1>3, DigitFits
<1>5. i = B * TKT + mid
  BY DEF Tile
<1>6. up \in Nat /\ i = up * Tile + c /\ B * Tile + r \in Nat
  BY DEF Tile
<1> HIDE DEF low, mid, KT, TKT
<1>7. i \div TKT = B /\ i % TKT = mid
  <2>1. mid \in 0 .. TKT - 1
    BY <1>2, <1>4
  <2>2. (B * TKT + mid) \div TKT = B /\ (B * TKT + mid) % TKT = mid
    BY <1>2, <2>1, Division
  <2> QED
    BY <1>5, <2>2
<1>8. mid \div KT = r
  BY <1>1, <1>2, <1>3, Division DEF mid, KT
<1>9. up % K = k
  BY <1>6, Division
<1> HIDE DEF up
<1>10. i % Tile = c /\ i \div Tile = up
  BY <1>1, <1>6, Division
<1>11. ASSUME NEW N \in Nat, B < N PROVE i \in Array(N * TKT)
  <2>1. i \in 0 .. N * TKT - 1
    BY <1>2, <1>4, <1>5, <1>11, DigitFits
  <2> QED
    BY <2>1 DEF Array
<1>12. i \in Nat
  BY <1>6, <1>1
<1> QED
  BY <1>7, <1>8, <1>9, <1>10, <1>11, <1>12 DEF KT, TKT, up

LEMMA TileDigits ==
    ASSUME NEW n \in Nat \ {0}, NEW c \in 0 .. UpRound(n, Tile) * Tile - 1
    PROVE  /\ UpRound(n, Tile) \in Nat \ {0} /\ c \in Nat
           /\ c \div Tile \in 0 .. UpRound(n, Tile) - 1 /\ c % Tile \in 0 .. Tile - 1
           /\ c = (c \div Tile) * Tile + (c % Tile)
           /\ n < Tile => c \div Tile = 0
BY DEF UpRound, Tile

LEMMA ConvWeightPlaced ==
    ASSUME NEW l, IsLayer(l), ~l.dw,
           NEW oc \in 0 .. UpRound(l.outC, Tile) * Tile - 1, NEW ic \in 0 .. InBlocks(l) * Tile - 1,
           NEW k \in 0 .. KernelSize(l) - 1
    PROVE  /\ WeightPlace(l, oc, ic, k) \in Array(UpRound(l.outC, Tile) * InBlocks(l) * BlockSize(l))
           /\ ConvWeight(l, WeightPlace(l, oc, ic, k)) =
                 IF oc < l.outC /\ ic < l.in.c
                 THEN Filter((oc * l.in.c + ic) * KernelSize(l) + k) ELSE Zero
<1> DEFINE K == KernelSize(l)
           IB == InBlocks(l)
           OB == UpRound(l.outC, Tile)
           i == WeightPlace(l, oc, ic, k)
           B == (oc \div Tile) * IB + ic \div Tile
<1>1. l.in.c \in Nat \ {0} /\ l.outC \in Nat \ {0} /\ l.kernel \in Nat \ {0}
  BY DEF IsLayer, IsShape
<1>2. K \in Nat \ {0}
  BY <1>1 DEF KernelSize
<1>3. IB = UpRound(l.in.c, Tile)
  BY DEF InBlocks
<1>4. /\ OB \in Nat \ {0} /\ oc \div Tile \in 0 .. OB - 1 /\ oc % Tile \in 0 .. Tile - 1
      /\ oc = (oc \div Tile) * Tile + (oc % Tile) /\ oc \in Nat
  BY <1>1, TileDigits
<1>5. /\ IB \in Nat \ {0} /\ ic \div Tile \in 0 .. IB - 1 /\ ic % Tile \in 0 .. Tile - 1
      /\ ic = (ic \div Tile) * Tile + (ic % Tile) /\ ic \in Nat
  BY <1>1, <1>3, TileDigits
<1>6. i = WeightByte(K, B, ic % Tile, k, oc % Tile)
  BY DEF WeightPlace, WeightByte
<1>7. BlockSize(l) = Tile * K * Tile
  BY DEF BlockSize
<1>8. k \in 0 .. K - 1
  OBVIOUS
<1> HIDE DEF K, IB, OB, i
<1>9. B \in 0 .. OB * IB - 1 /\ B \div IB = oc \div Tile /\ B % IB = ic \div Tile
  <2>1. \A a \in 0 .. OB - 1, b \in 0 .. IB - 1 :
           a * IB + b \in 0 .. OB * IB - 1 /\ (a * IB + b) \div IB = a /\ (a * IB + b) % IB = b
    <3>1. OB \in Nat /\ IB \in Nat \ {0}
      BY <1>4, <1>5
    <3> TAKE a \in 0 .. OB - 1, b \in 0 .. IB - 1
    <3>2. a \in Nat
      BY <3>1
    <3> QED
      BY <3>1, <3>2, DigitFits, Division
  <2> QED
    BY <1>4, <1>5, <2>1
<1> HIDE DEF B
<1>10. OB * IB \in Nat /\ B \in Nat /\ B < OB * IB
  BY <1>4, <1>5, <1>9
<1>11. /\ i \in Nat /\ i \div (Tile * K * Tile) = B /\ i % Tile = oc % Tile
       /\ (i % (Tile * K * Tile)) \div (K * Tile) = ic % Tile
       /\ (i \div Tile) % K = k
       /\ i \in Array(OB * IB * (Tile * K * Tile))
  BY <1>2, <1>4, <1>5, <1>6, <1>8, <1>10, WeightDigits
<1>12. ASSUME oc < l.outC, ic < l.in.c
       PROVE  FilterByte(l, (oc * l.in.c + ic) * K + k) = Filter((oc * l.in.c + ic) * K + k)
  <2>1. oc * l.in.c + ic \in 0 .. l.outC * l.in.c - 1
    BY <1>1, <1>4, <1>5, <1>12, DigitFits
  <2>2. l.outC * l.in.c \in Nat
    BY <1>1
  <2>3. (oc * l.in.c + ic) * K + k \in 0 .. l.outC * l.in.c * K - 1
    BY <1>2, <1>8, <2>1, <2>2, DigitFits
  <2>4. FilterByte(l, (oc * l.in.c + ic) * K + k) =
           IF (oc * l.in.c + ic) * K + k < l.outC * l.in.c * K
           THEN Filter((oc * l.in.c + ic) * K + k) ELSE Beyond
    BY Zenon DEF FilterByte, K
  <2>5. l.outC * l.in.c * K \in Nat
    BY <1>2, <2>2
  <2> HIDE DEF K
  <2> QED
    BY <2>3, <2>4, <2>5
<1>13. ConvWeight(l, i) = IF oc >= l.outC \/ ic >= l.in.c THEN Zero
                         ELSE FilterByte(l, (oc * l.in.c + ic) * K + k)
  BY <1>4, <1>5, <1>7, <1>9, <1>11, Zenon DEF ConvWeight, K, IB
<1>14. ConvWeight(l, i) = IF oc < l.outC /\ ic < l.in.c THEN Filter((oc * l.in.c + ic) * K + k) ELSE Zero
  BY <1>1, <1>4, <1>5, <1>12, <1>13
<1> QED
  BY <1>7, <1>11, <1>14 DEF i, K, OB, IB

LEMMA DwWeightPlaced ==
    ASSUME NEW l, IsLayer(l), l.dw,
           NEW c \in 0 .. UpRound(l.outC, Tile) * Tile - 1, NEW lane \in 0 .. Tile - 1,
           NEW k \in 0 .. KernelSize(l) - 1
    PROVE  LET i == (((c \div Tile) * Tile + lane) * KernelSize(l) + k) * Tile + (c % Tile)
           IN  /\ i \in Array(UpRound(l.outC, Tile) * InBlocks(l) * BlockSize(l))
               /\ DwWeight(l, i) =
                     IF lane # c % Tile THEN Zero
                     ELSE IF c < l.outC THEN Filter(c * KernelSize(l) + k)
                     ELSE IF l.outC < Tile THEN Zero ELSE Beyond
<1> DEFINE i == (((c \div Tile) * Tile + lane) * KernelSize(l) + k) * Tile + (c % Tile)
<1> DEFINE K == KernelSize(l)
           OB == UpRound(l.outC, Tile)
           B == c \div Tile
           r == c % Tile
<1>1. l.in.c \in Nat \ {0} /\ l.outC \in Nat \ {0} /\ l.kernel \in Nat \ {0}
  BY DEF IsLayer, IsShape
<1>2. K \in Nat \ {0}
  BY <1>1 DEF KernelSize
<1>3. InBlocks(l) = 1 /\ BlockSize(l) = Tile * K * Tile
  BY DEF InBlocks, BlockSize
<1>4. /\ OB \in Nat \ {0} /\ B \in 0 .. OB - 1 /\ r \in 0 .. Tile - 1
      /\ c = B * Tile + r /\ c \in Nat /\ (l.outC < Tile => B = 0)
  BY <1>1, TileDigits
<1>5. k \in 0 .. K - 1 /\ i = WeightByte(K, B, lane, k, r)
  BY DEF WeightByte
<1> HIDE DEF K, OB, B, r, i
<1>6. B \in Nat /\ OB \in Nat /\ B < OB /\ r \in Nat
  BY <1>4 DEF Tile
<1>7. /\ i \div (Tile * K * Tile) = B /\ i % Tile = r
      /\ (i % (Tile * K * Tile)) \div (K * Tile) = lane
      /\ (i \div Tile) % K = k
      /\ i \in Array(OB * (Tile * K * Tile))
  BY <1>2, <1>4, <1>5, <1>6, WeightDigits
<1>8. DwWeight(l, i) = IF lane = r /\ r < l.outC THEN FilterByte(l, B * Tile * K + r * K + k) ELSE Zero
  BY <1>3, <1>7, Zenon DEF DwWeight, K
<1>9. B * Tile * K + r * K + k = c * K + k /\ l.outC * 1 * K = l.outC * K
  <2>1. c = B * Tile + r /\ B \in Nat /\ r \in Nat /\ Tile \in Nat /\ K \in Nat /\ k \in Nat
    BY <1>2, <1>4, <1>5, <1>6 DEF Tile
  <2>2. (B * Tile + r) * K = B * Tile * K + r * K
    BY <2>1
  <2>3. B * Tile * K \in Int /\ r * K \in Int
    BY <2>1
  <2> QED
    BY <1>1, <2>1, <2>2, <2>3
<1>10. c * K + k < l.outC * K <=> c < l.outC
  <2>1. ASSUME c < l.outC PROVE c * K + k < l.outC * K + 0
    BY <1>1, <1>2, <1>4, <1>5, <2>1, SmallerDigit
  <2>2. ASSUME l.outC < c PROVE l.outC * K + 0 < c * K + k
    BY <1>1, <1>2, <1>4, <1>5, <2>2, SmallerDigit
  <2>3. l.outC * K \in Nat /\ c * K \in Nat /\ k \in Nat
    BY <1>1, <1>2, <1>4, <1>5
  <2> QED
    BY <1>1, <1>4, <2>1, <2>2, <2>3
<1>11. FilterByte(l, B * Tile * K + r * K + k) = IF c < l.outC THEN Filter(c * K + k) ELSE Beyond
  <2>1. FilterByte(l, B * Tile * K + r * K + k) =
           IF B * Tile * K + r * K + k < l.outC * 1 * K
           THEN Filter(B * Tile * K + r * K + k) ELSE Beyond
    BY Zenon DEF FilterByte, K
  <2> QED
    BY <1>9, <1>10, <2>1
<1>12. r < l.outC <=> c < l.outC \/ ~(l.outC < Tile)
  BY <1>1, <1>4, <1>6 DEF Tile
<1>13. OB * InBlocks(l) * BlockSize(l) = OB * (Tile * K * Tile)
  BY <1>2, <1>3, <1>4 DEF Tile
<1> QED
  BY <1>7, <1>8, <1>11, <1>12, <1>13 DEF r, K, OB, i

\* Once reordered, the weights stay.
WeightsInv ==
    pc # "build" =>
        ka = [i \in Array(UpRound(layer.outC, Tile) * InBlocks(layer) * BlockSize(layer)) |->
                IF layer.dw THEN DwWeight(layer, i) ELSE ConvWeight(layer, i)]

LEMMA WeightsStay == Spec => []WeightsInv
<1>1. Init => WeightsInv
  BY Zenon DEF Init, WeightsInv
<1>2. WeightsInv /\ [Next]_vars => WeightsInv'
  <2> SUFFICES ASSUME WeightsInv, [Next]_vars PROVE WeightsInv'
    OBVIOUS
  <2>1. CASE BuildWeights
    <3>1. layer' = layer
      BY <2>1, Zenon DEF BuildWeights
    <3>2. ka' = [i \in Array(UpRound(layer.outC, Tile) * InBlocks(layer) * BlockSize(layer)) |->
                   IF layer.dw THEN DwWeight(layer, i) ELSE ConvWeight(layer, i)]
      BY <2>1, Zenon DEF BuildWeights
    <3> QED
      BY <3>1, <3>2, Zenon DEF WeightsInv
  <2>2. ASSUME layer' = layer, ka' = ka, pc # "build" \/ pc' = pc PROVE WeightsInv'
    BY <2>2, Zenon DEF WeightsInv
  <2>3. CASE Fill
    <3>1. layer' = layer /\ ka' = ka /\ pc = "idle"
      BY <2>3, Zenon DEF Fill
    <3> QED
      BY <2>2, <3>1
  <2>4. CASE PadInput
    <3>1. layer' = layer /\ ka' = ka /\ pc = "pad"
      BY <2>4, Zenon DEF PadInput
    <3> QED
      BY <2>2, <3>1
  <2>5. CASE Rearrange
    <3>1. layer' = layer /\ ka' = ka /\ pc = "rearrange"
      BY <2>5, Zenon DEF Rearrange
    <3> QED
      BY <2>2, <3>1
  <2>6. CASE Ioctl \/ IoctlFails
    <3>1. layer' = layer /\ ka' = ka /\ pc = "ioctl"
      BY <2>6, Zenon DEF Ioctl, IoctlFails
    <3> QED
      BY <2>2, <3>1
  <2>7. CASE Unrearrange
    <3>1. layer' = layer /\ ka' = ka /\ pc = "unrearrange"
      BY <2>7, Zenon DEF Unrearrange
    <3> QED
      BY <2>2, <3>1
  <2>8. CASE CopyOutput
    <3>1. layer' = layer /\ ka' = ka /\ pc = "copy"
      BY <2>8, Zenon DEF CopyOutput
    <3> QED
      BY <2>2, <3>1
  <2>9. CASE UNCHANGED vars
    <3>1. layer' = layer /\ ka' = ka /\ pc' = pc
      BY <2>9, Zenon DEF vars
    <3> QED
      BY <2>2, <3>1
  <2> QED
    BY <2>1, <2>3, <2>4, <2>5, <2>6, <2>7, <2>8, <2>9, Zenon DEF Next
<1> QED
  BY <1>1, <1>2, PTL DEF Spec

\* For any shapes and kernel, the bytes of an ordinary convolution's filter are where
\* the IP looks for them, with zeros for channels that do not exist.
THEOREM WeightsAreInOrder == Spec => []WeightsInOrder
<1>1. TypeOK /\ WeightsInv => WeightsInOrder
  <2> SUFFICES ASSUME TypeOK, WeightsInv, pc # "build", ~layer.dw,
                      NEW oc \in 0 .. UpRound(layer.outC, Tile) * Tile - 1,
                      NEW ic \in 0 .. InBlocks(layer) * Tile - 1,
                      NEW k \in 0 .. KernelSize(layer) - 1
               PROVE  ka[WeightPlace(layer, oc, ic, k)] =
                         IF oc < layer.outC /\ ic < layer.in.c
                         THEN Filter((oc * layer.in.c + ic) * KernelSize(layer) + k) ELSE Zero
    BY Zenon DEF WeightsInOrder
  <2> DEFINE w == WeightPlace(layer, oc, ic, k)
             F == IF oc < layer.outC /\ ic < layer.in.c
                  THEN Filter((oc * layer.in.c + ic) * KernelSize(layer) + k) ELSE Zero
             W == Array(UpRound(layer.outC, Tile) * InBlocks(layer) * BlockSize(layer))
  <2>1. IsLayer(layer)
    BY LayoutAssumption DEF TypeOK
  <2>2. w \in W /\ ConvWeight(layer, w) = F
    BY <2>1, ConvWeightPlaced, Zenon
  <2>3. ka = [i \in W |-> IF layer.dw THEN DwWeight(layer, i) ELSE ConvWeight(layer, i)]
    BY Zenon DEF WeightsInv
  <2> HIDE DEF w, W, F
  <2>4. ka[w] = ConvWeight(layer, w)
    BY <2>2, <2>3, Zenon
  <2> QED
    BY <2>2, <2>4, Zenon DEF w, F
<1> QED
  BY <1>1, LayoutTypes, WeightsStay, PTL

\* Depthwise, for any number of channels and any kernel: on the diagonal of its tile and
\* right where the channel exists; what the other lanes of the last tile hold depends on
\* whether it is the first.
THEOREM DepthwiseWeightsAreAsRead == Spec => []DepthwiseReadsPastTheEnd
<1>1. TypeOK /\ WeightsInv => DepthwiseReadsPastTheEnd
  <2> SUFFICES ASSUME TypeOK, WeightsInv, pc # "build", layer.dw,
                      NEW c \in 0 .. UpRound(layer.outC, Tile) * Tile - 1, NEW lane \in 0 .. Tile - 1,
                      NEW k \in 0 .. KernelSize(layer) - 1
               PROVE  ka[(((c \div Tile) * Tile + lane) * KernelSize(layer) + k) * Tile + (c % Tile)] =
                         IF lane # c % Tile THEN Zero
                         ELSE IF c < layer.outC THEN Filter(c * KernelSize(layer) + k)
                         ELSE IF layer.outC < Tile THEN Zero ELSE Beyond
    BY Zenon DEF DepthwiseReadsPastTheEnd
  <2> DEFINE w == (((c \div Tile) * Tile + lane) * KernelSize(layer) + k) * Tile + (c % Tile)
             F == IF lane # c % Tile THEN Zero
                  ELSE IF c < layer.outC THEN Filter(c * KernelSize(layer) + k)
                  ELSE IF layer.outC < Tile THEN Zero ELSE Beyond
             W == Array(UpRound(layer.outC, Tile) * InBlocks(layer) * BlockSize(layer))
  <2>1. IsLayer(layer)
    BY LayoutAssumption DEF TypeOK
  <2>2. w \in W /\ DwWeight(layer, w) = F
    BY <2>1, DwWeightPlaced, Zenon
  <2>3. ka = [i \in W |-> IF layer.dw THEN DwWeight(layer, i) ELSE ConvWeight(layer, i)]
    BY Zenon DEF WeightsInv
  <2> HIDE DEF w, W, F
  <2>4. ka[w] = DwWeight(layer, w)
    BY <2>2, <2>3, Zenon
  <2> QED
    BY <2>2, <2>4, Zenon DEF w, F
<1> QED
  BY <1>1, LayoutTypes, WeightsStay, PTL

-----------------------------------------------------------------------------
(* The transposes.  Three columns of vzip, or of vuzp, exchange register   *)
(* and lane and reverse the three bits of one of them; the order of the    *)
(* stores reverses them back.                                              *)

\* One column of instructions, by what it takes each lane of each register from.
LEMMA ZipAt ==
    ASSUME NEW s \in {1, 2, 4}, NEW d \in {1, 2, 4}, NEW f, NEW r \in Regs, NEW l \in 0 .. 7
    PROVE  ZipAll(s, d, f)[r][l] =
             IF First(r, d) THEN f[IF (l \div s) % 2 = 0 THEN r ELSE r + d][((l \div s) \div 2) * s + (l % s)]
             ELSE f[IF ((l + 8) \div s) % 2 = 0 THEN r - d ELSE r][(((l + 8) \div s) \div 2) * s + ((l + 8) % s)]
<1>1. ZipAll(s, d, f)[r][l] = IF First(r, d) THEN Zip(s, f, r, r + d)[l] ELSE Zip(s, f, r - d, r)[l + Lanes]
  BY Zenon DEF ZipAll
<1>2. ASSUME NEW x, NEW y, NEW n \in 0 .. 15
      PROVE  Zip(s, f, x, y)[n] = f[IF (n \div s) % 2 = 0 THEN x ELSE y][((n \div s) \div 2) * s + (n % s)]
  BY Zenon DEF Zip
<1>3. l \in 0 .. 15 /\ l + 8 \in 0 .. 15 /\ Lanes = 8 /\ (r - d) + d = r
  BY DEF Lanes, Regs
<1> QED
  BY <1>1, <1>2, <1>3

LEMMA UnzipAt ==
    ASSUME NEW s \in {1, 2, 4}, NEW d \in {1, 2, 4}, NEW f, NEW r \in Regs, NEW l \in 0 .. 7
    PROVE  UnzipAll(s, d, f)[r][l] =
             IF First(r, d) THEN ByteOf(f, r, r + d, (2 * (l \div s)) * s + (l % s))
             ELSE ByteOf(f, r - d, r, (2 * (l \div s) + 1) * s + (l % s))
<1>1. UnzipAll(s, d, f)[r][l] = IF First(r, d) THEN Unzip(s, f, r, r + d)[l] ELSE Unzip(s, f, r - d, r)[l + Lanes]
  BY Zenon DEF UnzipAll
<1>2. ASSUME NEW x, NEW y, NEW n \in 0 .. 15
      PROVE  Unzip(s, f, x, y)[n] = ByteOf(f, x, y, (2 * ((n % Lanes) \div s) + n \div Lanes) * s + (n % s))
  BY Zenon DEF Unzip
<1>3. l \in 0 .. 15 /\ l + Lanes \in 0 .. 15
  BY DEF Lanes
<1>4. l % Lanes = l /\ l \div Lanes = 0 /\ (l + Lanes) % Lanes = l /\ (l + Lanes) \div Lanes = 1
  BY DEF Lanes
<1>5. /\ (2 * ((l % Lanes) \div s) + l \div Lanes) * s + (l % s) = (2 * (l \div s)) * s + (l % s)
      /\ (2 * (((l + Lanes) % Lanes) \div s) + (l + Lanes) \div Lanes) * s + ((l + Lanes) % s)
           = (2 * (l \div s) + 1) * s + (l % s)
  <2>1. (l + Lanes) % s = l % s
    BY DEF Lanes
  <2>2. /\ (2 * (l \div s) + 0) * s + (l % s) = (2 * (l \div s)) * s + (l % s)
    OBVIOUS
  <2> QED
    BY <1>4, <2>1, <2>2, Zenon
<1>6. /\ Unzip(s, f, r, r + d)[l] = ByteOf(f, r, r + d, (2 * (l \div s)) * s + (l % s))
      /\ Unzip(s, f, r - d, r)[l + Lanes] = ByteOf(f, r - d, r, (2 * (l \div s) + 1) * s + (l % s))
  BY <1>2, <1>3, <1>5, Zenon
<1> QED
  BY <1>1, <1>6, Zenon

LEMMA Zips ==
    ASSUME NEW f, NEW r \in Regs, NEW l \in 0 .. 7
    PROVE  /\ ZipAll(1, 1, f)[r][l] = f[2 * (r \div 2) + (l % 2)][4 * (r % 2) + (l \div 2)]
           /\ ZipAll(2, 2, f)[r][l] =
                f[4 * (r \div 4) + (r % 2) + 2 * ((l \div 2) % 2)][4 * ((r \div 2) % 2) + 2 * (l \div 4) + (l % 2)]
           /\ ZipAll(4, 4, f)[r][l] = f[(r % 4) + 4 * (l \div 4)][4 * (r \div 4) + (l % 4)]
<1>1. ZipAll(1, 1, f)[r][l] = f[2 * (r \div 2) + (l % 2)][4 * (r % 2) + (l \div 2)]
  BY ZipAt DEF First, Regs
<1>2. ZipAll(2, 2, f)[r][l] =
                f[4 * (r \div 4) + (r % 2) + 2 * ((l \div 2) % 2)][4 * ((r \div 2) % 2) + 2 * (l \div 4) + (l % 2)]
  BY ZipAt DEF First, Regs
<1>3. ZipAll(4, 4, f)[r][l] = f[(r % 4) + 4 * (l \div 4)][4 * (r \div 4) + (l % 4)]
  BY ZipAt DEF First, Regs
<1> QED
  BY <1>1, <1>2, <1>3

LEMMA Unzips ==
    ASSUME NEW f, NEW r \in Regs, NEW l \in 0 .. 7
    PROVE  /\ UnzipAll(4, 1, f)[r][l] = f[2 * (r \div 2) + (l \div 4)][4 * (r % 2) + (l % 4)]
           /\ UnzipAll(2, 2, f)[r][l] =
                f[4 * (r \div 4) + (r % 2) + 2 * (l \div 4)][4 * ((l \div 2) % 2) + (l % 2) + 2 * ((r \div 2) % 2)]
           /\ UnzipAll(1, 4, f)[r][l] = f[(r % 4) + 4 * (l \div 4)][2 * (l % 4) + (r \div 4)]
<1>1. UnzipAll(4, 1, f)[r][l] = f[2 * (r \div 2) + (l \div 4)][4 * (r % 2) + (l % 4)]
  BY UnzipAt DEF First, Regs, ByteOf, Lanes
<1>2. UnzipAll(2, 2, f)[r][l] =
                f[4 * (r \div 4) + (r % 2) + 2 * (l \div 4)][4 * ((l \div 2) % 2) + (l % 2) + 2 * ((r \div 2) % 2)]
  BY UnzipAt DEF First, Regs, ByteOf, Lanes
<1>3. UnzipAll(1, 4, f)[r][l] = f[(r % 4) + 4 * (l \div 4)][2 * (l % 4) + (r \div 4)]
  BY UnzipAt DEF First, Regs, ByteOf, Lanes
<1> QED
  BY <1>1, <1>2, <1>3
\* The number of the three bits of m in reverse.
Reversed(m) == 4 * (m % 2) + 2 * ((m \div 2) % 2) + m \div 4

LEMMA Transposed ==
    ASSUME NEW r \in Regs, NEW l \in 0 .. 7
    PROVE  Zipped[r][l] = <<l, Reversed(r)>> /\ Unzipped[r][l] = <<l, Reversed(r)>>
<1>1. \A x, n \in 0 .. 7 : Loaded[x][n] = <<x, n>>
  BY Zenon DEF Loaded, Regs
<1>2. Zipped[r][l] = <<l, Reversed(r)>>
  <2> DEFINE Z1 == ZipAll(1, 1, Loaded)
             Z2 == ZipAll(2, 2, Z1)
             r2 == (r % 4) + 4 * (l \div 4)
             l2 == 4 * (r \div 4) + (l % 4)
             r1 == 4 * (r2 \div 4) + (r2 % 2) + 2 * ((l2 \div 2) % 2)
             l1 == 4 * ((r2 \div 2) % 2) + 2 * (l2 \div 4) + (l2 % 2)
             r0 == 2 * (r1 \div 2) + (l1 % 2)
             l0 == 4 * (r1 % 2) + (l1 \div 2)
  <2>1. r2 \in Regs /\ l2 \in 0 .. 7
    BY DEF Regs
  <2>2. r1 \in Regs /\ l1 \in 0 .. 7
    BY <2>1 DEF Regs
  <2>3. r0 \in Regs /\ l0 \in 0 .. 7
    BY <2>2 DEF Regs
  <2>4. r0 = l /\ l0 = Reversed(r)
    BY DEF Regs, Reversed
  <2>5. Zipped[r][l] = Z2[r2][l2]
    BY Zips, Zenon DEF Zipped
  <2> HIDE DEF Z1, Z2, r2, l2, r1, l1, r0, l0
  <2>6. Z2[r2][l2] = Z1[r1][l1]
    BY <2>1, Zips, Zenon DEF Z2, r1, l1
  <2>7. Z1[r1][l1] = Loaded[r0][l0]
    BY <2>2, Zips, Zenon DEF Z1, r0, l0
  <2> QED
    BY <1>1, <2>3, <2>4, <2>5, <2>6, <2>7 DEF Regs
<1>3. Unzipped[r][l] = <<l, Reversed(r)>>
  <2> DEFINE U1 == UnzipAll(4, 1, Loaded)
             U2 == UnzipAll(2, 2, U1)
             r2 == (r % 4) + 4 * (l \div 4)
             l2 == 2 * (l % 4) + (r \div 4)
             r1 == 4 * (r2 \div 4) + (r2 % 2) + 2 * (l2 \div 4)
             l1 == 4 * ((l2 \div 2) % 2) + (l2 % 2) + 2 * ((r2 \div 2) % 2)
             r0 == 2 * (r1 \div 2) + (l1 \div 4)
             l0 == 4 * (r1 % 2) + (l1 % 4)
  <2>1. r2 \in Regs /\ l2 \in 0 .. 7
    BY DEF Regs
  <2>2. r1 \in Regs /\ l1 \in 0 .. 7
    BY <2>1 DEF Regs
  <2>3. r0 \in Regs /\ l0 \in 0 .. 7
    BY <2>2 DEF Regs
  <2>4. r0 = l /\ l0 = Reversed(r)
    BY DEF Regs, Reversed
  <2>5. Unzipped[r][l] = U2[r2][l2]
    BY Unzips, Zenon DEF Unzipped
  <2> HIDE DEF U1, U2, r2, l2, r1, l1, r0, l0
  <2>6. U2[r2][l2] = U1[r1][l1]
    BY <2>1, Unzips, Zenon DEF U2, r1, l1
  <2>7. U1[r1][l1] = Loaded[r0][l0]
    BY <2>2, Unzips, Zenon DEF U1, r0, l0
  <2> QED
    BY <1>1, <2>3, <2>4, <2>5, <2>6, <2>7 DEF Regs
<1> QED
  BY <1>2, <1>3

LEMMA StoreOrderReverses == \A m \in 0 .. 7 : StoreOrder[m + 1] \in Regs /\ Reversed(StoreOrder[m + 1]) = m
<1> TAKE m \in 0 .. 7
<1>1. m = 0 \/ m = 1 \/ m = 2 \/ m = 3 \/ m = 4 \/ m = 5 \/ m = 6 \/ m = 7
  OBVIOUS
<1> QED
  BY <1>1 DEF StoreOrder, Reversed, Regs

LEMMA BlockLoaded == \A c \in 0 .. 15, x \in 0 .. 7 : LoadedFrom(c, x) = x * 16 + c
<1> TAKE c \in 0 .. 15, x \in 0 .. 7
<1>1. c % 8 \in 0 .. 7 /\ 8 * (c \div 8) + (c % 8) = c
  OBVIOUS
<1>2. Unzipped[StoreOrder[(c % 8) + 1]][x] = <<x, c % 8>>
  BY <1>1, StoreOrderReverses, Transposed
<1>3. LoadedFrom(c, x) = (2 * x + c \div 8) * 8 + (c % 8)
  BY <1>2 DEF LoadedFrom, Lanes
<1> QED
  BY <1>1, <1>3

LEMMA BlockStored == \A q \in 0 .. 127 : StoredFrom(q) = <<q % 16, q \div 16>>
<1> TAKE q \in 0 .. 127
<1> DEFINE slot == q \div 8
<1>1. slot \div 2 \in 0 .. 7 /\ q % 8 \in 0 .. 7 /\ 8 * (slot % 2) + (q % 8) = q % 16 /\ slot \div 2 = q \div 16
  OBVIOUS
<1>2. Zipped[StoreOrder[slot \div 2 + 1]][q % 8] = <<q % 8, slot \div 2>>
  BY <1>1, StoreOrderReverses, Transposed
<1>3. StoredFrom(q) = <<8 * (slot % 2) + (q % 8), slot \div 2>>
  BY <1>2 DEF StoredFrom, Lanes
<1> QED
  BY <1>1, <1>3

\* InputRearrange, whole blocks and the tail alike: the byte of tile t, pixel px and
\* lane c of the device's layout comes from its plane's pixel px.
LEMMA InputPlaced ==
    ASSUME NEW n \in Nat \ {0}, NEW t \in Nat, NEW px \in 0 .. n - 1, NEW c \in 0 .. Tile - 1
    PROVE  InIndex(n, (t * n + px) * Tile + c) = (t * Tile + c) * n + px
<1> DEFINE k == (t * n + px) * Tile + c
           j == px * Tile + c
           whole == Lanes * (n \div Lanes)
<1>1. k \div (Tile * n) = t /\ k % (Tile * n) = j
  <2>1. j \in 0 .. n * Tile - 1
    BY DigitFits DEF Tile
  <2>2. k = t * (Tile * n) + j /\ Tile * n \in Nat \ {0} /\ Tile * n = n * Tile
    BY DEF Tile
  <2> HIDE DEF j, k
  <2>3. j \in 0 .. Tile * n - 1
    BY <2>1, <2>2
  <2>4. (t * (Tile * n) + j) \div (Tile * n) = t /\ (t * (Tile * n) + j) % (Tile * n) = j
    BY <2>2, <2>3, Division
  <2> QED
    BY <2>2, <2>4
<1>2. CASE px < whole
  <2>1. j < Tile * whole
    BY <1>2 DEF Tile, Lanes
  <2>2. j % 128 \in 0 .. 127 /\ (j % 128) % 16 = c /\ 8 * (j \div 128) + (j % 128) \div 16 = px
    BY DEF Tile
  <2>3. StoredFrom(j % 128)[1] = c /\ 8 * (j \div 128) + StoredFrom(j % 128)[2] = px
    <3>1. StoredFrom(j % 128) = <<(j % 128) % 16, (j % 128) \div 16>>
      BY <2>2, BlockStored
    <3> HIDE DEF j
    <3> QED
      BY <2>2, <3>1
  <2>4. InIndex(n, k) = (t * Tile + StoredFrom(j % 128)[1]) * n + (8 * (j \div 128) + StoredFrom(j % 128)[2])
    <3> HIDE DEF j, k, whole
    <3> DEFINE s == StoredFrom(j % 128)
               from == <<s[1], 8 * (j \div 128) + s[2]>>
    <3>1. InIndex(n, k) = (t * Tile + from[1]) * n + from[2]
      BY <1>1, <2>1, Zenon DEF InIndex, whole
    <3> HIDE DEF s
    <3>2. from[1] = s[1] /\ from[2] = 8 * (j \div 128) + s[2]
      OBVIOUS
    <3> QED
      BY <3>1, <3>2, Zenon DEF s
  <2> HIDE DEF j, k, whole
  <2>5. InIndex(n, k) = (t * Tile + c) * n + px
    BY <2>3, <2>4, Zenon
  <2> QED
    BY <2>5 DEF k
<1>3. CASE ~(px < whole)
  <2>1. ~(j < Tile * whole)
    BY <1>3 DEF Tile, Lanes
  <2>2. (j - Tile * whole) % Tile = c /\ whole + (j - Tile * whole) \div Tile = px
    BY <1>3 DEF Tile, Lanes
  <2>3. InIndex(n, k) = (t * Tile + ((j - Tile * whole) % Tile)) * n + (whole + (j - Tile * whole) \div Tile)
    <3> HIDE DEF j, k, whole
    <3> DEFINE from == <<(j - Tile * whole) % Tile, whole + (j - Tile * whole) \div Tile>>
    <3>1. InIndex(n, k) = (t * Tile + from[1]) * n + from[2]
      BY <1>1, <2>1, Zenon DEF InIndex, whole
    <3>2. from[1] = (j - Tile * whole) % Tile /\ from[2] = whole + (j - Tile * whole) \div Tile
      BY Zenon
    <3> QED
      BY <3>1, <3>2, Zenon
  <2> HIDE DEF j, k, whole
  <2>4. InIndex(n, k) = (t * Tile + c) * n + px
    BY <2>2, <2>3, Zenon
  <2> QED
    BY <2>4 DEF k
<1> QED
  BY <1>2, <1>3

\* OutputRearrange: pixel px of the plane of channel c comes from its place.
LEMMA OutputPlaced ==
    ASSUME NEW n \in Nat \ {0}, NEW c \in Nat, NEW px \in 0 .. n - 1
    PROVE  OutIndex(n, c * n + px) = ((c \div Tile) * n + px) * Tile + (c % Tile)
<1> DEFINE k == c * n + px
           t == c \div Tile
           r == c % Tile
           whole == Lanes * (n \div Lanes)
           j == IF px < whole THEN 128 * (px \div Lanes) + LoadedFrom(r, px % Lanes)
                ELSE Tile * whole + (px - whole) * Tile + r
<1>1. k \div n = c /\ k % n = px
  BY Division
<1>2. OutIndex(n, k) = t * Tile * n + j
  <2> HIDE DEF k
  <2> QED
    BY <1>1, Zenon DEF OutIndex, t, r, whole, j
<1>3. r \in 0 .. 15 /\ px % Lanes \in 0 .. 7 /\ t \in Nat
  BY DEF Tile, Lanes
<1>4. LoadedFrom(r, px % Lanes) = (px % Lanes) * 16 + r
  BY <1>3, BlockLoaded
<1> HIDE DEF k, t, r
<1>5. j = px * Tile + r
  <2>1. CASE px < whole
    BY <1>3, <1>4, <2>1 DEF Tile, Lanes
  <2>2. CASE ~(px < whole)
    BY <1>3, <2>2 DEF Tile, Lanes
  <2> QED
    BY <2>1, <2>2
<1> HIDE DEF j
<1>6. t * Tile * n + (px * Tile + r) = (t * n + px) * Tile + r
  BY <1>3 DEF Tile
<1> QED
  BY <1>2, <1>5, <1>6 DEF k, t, r

-----------------------------------------------------------------------------
(* Sizes: the largest of the extents exists, and the buffer holds it.      *)

\* Every set of naturals that is not empty has a least element: what stands in for
\* induction here.
LEMMA LeastNatural == \A S \in SUBSET Nat : S # {} => \E x \in S : \A y \in S : x <= y
<1> DEFINE R == {p \in Nat \X Nat : p[1] < p[2]}
<1>1. IsWellFoundedOn(R, Nat)
  BY NatLessThanWellFounded DEF OpToRel
<1>2. \A x, y \in Nat : <<x, y>> \in R <=> x < y
  OBVIOUS
<1> HIDE DEF R
<1> SUFFICES ASSUME NEW S \in SUBSET Nat, S # {} PROVE \E x \in S : \A y \in S : x <= y
  OBVIOUS
<1>3. PICK x \in S : \A y \in S : ~(<<y, x>> \in R)
  BY <1>1, WFMin
<1>4. \A y \in S : ~(y < x)
  BY <1>2, <1>3
<1> QED
  BY <1>4

LEMMA LargestOfMany ==
    ASSUME NEW f, NEW n \in Nat \ {0}, \A i \in 1 .. n : f[i] \in Nat
    PROVE  \E m \in 1 .. n : \A i \in 1 .. n : f[i] <= f[m]
<1> DEFINE Max(k) == \E m \in 1 .. k : \A i \in 1 .. k : f[i] <= f[m]
           Bad == {k \in 1 .. n : ~Max(k)}
<1> SUFFICES ASSUME Bad # {} PROVE FALSE
  OBVIOUS
<1>1. Bad \in SUBSET Nat /\ \A k \in 1 .. n : k \in Bad <=> ~Max(k)
  OBVIOUS
<1>2. Bad \subseteq 1 .. n
  OBVIOUS
<1> HIDE DEF Bad
<1>3. PICK k \in Bad : \A y \in Bad : k <= y
  BY <1>1, LeastNatural
<1>4. k \in 1 .. n /\ ~Max(k)
  BY <1>1, <1>2
<1>5. k # 1
  <2>1. ASSUME k = 1 PROVE Max(k)
    <3>1. 1 \in 1 .. k /\ \A i \in 1 .. k : f[i] <= f[1]
      BY <1>4, <2>1
    <3> QED
      BY <3>1, Zenon
  <2> QED
    BY <1>4, <2>1
<1>6. k - 1 \in 1 .. n /\ Max(k - 1)
  <2>1. k - 1 \in 1 .. n /\ ~(k <= k - 1)
    BY <1>4, <1>5
  <2> QED
    BY <1>1, <1>3, <2>1, Zenon
<1>7. PICK m \in 1 .. (k - 1) : \A i \in 1 .. (k - 1) : f[i] <= f[m]
  BY <1>6
<1>8. f[m] \in Nat /\ f[k] \in Nat /\ m \in 1 .. k /\ k \in 1 .. k /\ \A i \in 1 .. k : i = k \/ i \in 1 .. (k - 1)
  BY <1>4, <1>6
<1>9. \A i \in 1 .. k : f[i] \in Nat
  BY <1>4
<1>10. CASE f[m] <= f[k]
  <2>1. \A i \in 1 .. k : f[i] <= f[k]
    BY <1>7, <1>8, <1>9, <1>10
  <2> QED
    BY <1>4, <1>8, <2>1
<1>11. CASE ~(f[m] <= f[k])
  <2>1. \A i \in 1 .. k : f[i] <= f[m]
    BY <1>7, <1>8, <1>9, <1>11
  <2> QED
    BY <1>4, <1>8, <2>1
<1> QED
  BY <1>10, <1>11

LEMMA ShapeFacts ==
    ASSUME NEW s, IsShape(s), NEW p \in Nat
    PROVE  /\ s.c \in Nat \ {0} /\ s.h \in Nat \ {0} /\ s.w \in Nat \ {0} /\ s.h * s.w \in Nat \ {0}
           /\ UpRound(s.c, Tile) \in Nat \ {0} /\ s.c <= UpRound(s.c, Tile) * Tile
           /\ Extent(s, p) \in Nat /\ Size(s) \in Nat
           /\ Extent(s, p) = (UpRound(s.c, Tile) * Tile) * ((s.h + 2 * p) * (s.w + 2 * p))
           /\ Size(s) = s.c * (s.h * s.w)
<1>1. s.c \in Nat \ {0} /\ s.h \in Nat \ {0} /\ s.w \in Nat \ {0}
  BY DEF IsShape
<1>2. UpRound(s.c, Tile) \in Nat \ {0} /\ s.c <= UpRound(s.c, Tile) * Tile
  BY <1>1 DEF UpRound, Tile
<1>3. s.h * s.w \in Nat \ {0} /\ Size(s) = s.c * (s.h * s.w) /\ Size(s) \in Nat
  BY <1>1 DEF Size
<1> DEFINE U == UpRound(s.c, Tile)
           H == s.h + 2 * p
           W == s.w + 2 * p
<1>4. U \in Nat /\ H \in Nat /\ W \in Nat /\ Tile \in Nat /\ Extent(s, p) = U * Tile * H * W
  BY <1>1, <1>2 DEF Tile, Extent
<1> HIDE DEF U, H, W
<1>5. U * Tile * H * W = (U * Tile) * (H * W) /\ U * Tile * H * W \in Nat
  BY <1>4
<1> QED
  BY <1>1, <1>2, <1>3, <1>4, <1>5 DEF U, H, W

LEMMA SizeFits ==
    ASSUME NEW s, IsShape(s)
    PROVE  Size(s) \in Nat /\ Extent(s, 0) \in Nat /\ Size(s) <= Extent(s, 0)
<1> DEFINE N == s.h * s.w
           T == UpRound(s.c, Tile) * Tile
<1>1. s.c \in Nat /\ N \in Nat \ {0} /\ T \in Nat /\ s.c <= T /\ Size(s) = s.c * N /\ Extent(s, 0) = T * N
  BY ShapeFacts DEF Tile
<1> HIDE DEF N, T
<1>2. s.c * N <= T * N
  <2>1. CASE s.c = T
    BY <1>1, <2>1
  <2>2. CASE s.c < T
    <3>1. s.c * N + 0 < T * N + 0
      BY <1>1, <2>2, SmallerDigit
    <3> QED
      BY <1>1, <3>1
  <2> QED
    BY <1>1, <2>1, <2>2
<1> QED
  BY <1>1, <1>2, ShapeFacts

LEMMA BuffHolds ==
    ASSUME NEW l, IsLayer(l)
    PROVE  /\ BuffSize(l) \in Nat /\ Extent(l.in, InPad(l)) \in Nat
           /\ Extent(l.in, InPad(l)) <= BuffSize(l)
           /\ \A j \in DOMAIN l.outs : Extent(l.outs[j], 0) <= BuffSize(l)
<1> DEFINE e == [j \in 1 .. Len(l.outs) |-> Extent(l.outs[j], 0)]
           exts == {Extent(l.outs[j], 0) : j \in DOMAIN l.outs}
           top == CHOOSE x \in exts : \A f \in exts : f <= x
<1>1. Len(l.outs) \in Nat \ {0} /\ DOMAIN l.outs = 1 .. Len(l.outs)
  BY DEF IsLayer
<1>2. \A j \in DOMAIN l.outs : Extent(l.outs[j], 0) \in Nat
  <2> TAKE j \in DOMAIN l.outs
  <2>1. IsShape(l.outs[j])
    BY DEF IsLayer
  <2> QED
    BY <2>1, ShapeFacts
<1>3. \A j \in 1 .. Len(l.outs) : e[j] \in Nat /\ e[j] = Extent(l.outs[j], 0)
  BY <1>1, <1>2
<1>4. PICK m \in 1 .. Len(l.outs) : \A j \in 1 .. Len(l.outs) : e[j] <= e[m]
  <2> HIDE DEF e
  <2> QED
    BY <1>1, <1>3, LargestOfMany
<1>5. Extent(l.outs[m], 0) \in exts /\ \A f \in exts : f <= Extent(l.outs[m], 0)
  BY <1>1, <1>3, <1>4
<1>6. top \in exts /\ \A f \in exts : f <= top
  BY <1>5, Zenon
<1>7. \A j \in DOMAIN l.outs : Extent(l.outs[j], 0) <= top
  BY <1>6
<1>8. top \in Nat
  BY <1>2, <1>6
<1>9. Extent(l.in, InPad(l)) \in Nat
  <2>1. IsShape(l.in) /\ InPad(l) \in Nat
    BY DEF IsLayer, InPad
  <2> QED
    BY <2>1, ShapeFacts
<1>10. BuffSize(l) = Extent(l.in, InPad(l)) + top
  BY Zenon DEF BuffSize
<1> HIDE DEF top
<1> QED
  BY <1>2, <1>7, <1>8, <1>9, <1>10

\* Tile t, pixel px of planes of N pixels, lane r.
PlaceAt(N, t, px, r) == (t * N + px) * Tile + r

LEMMA PlaceDigits ==
    ASSUME NEW N \in Nat \ {0}, NEW t \in Nat, NEW px \in 0 .. N - 1, NEW r \in 0 .. Tile - 1
    PROVE  LET k == PlaceAt(N, t, px, r)
           IN  k % Tile = r /\ (k \div Tile) % N = px /\ k \div (Tile * N) = t
<1> DEFINE k == PlaceAt(N, t, px, r)
           up == t * N + px
           low == px * Tile + r
           TN == Tile * N
<1>1. Tile \in Nat \ {0} /\ up \in Nat /\ TN \in Nat \ {0}
  BY DEF Tile
<1>2. k % Tile = r /\ k \div Tile = up
  <2>1. k = up * Tile + r
    BY DEF PlaceAt
  <2> HIDE DEF up, k
  <2> QED
    BY <1>1, <2>1, Division
<1>3. up % N = px
  BY Division
<1>4. low \in 0 .. TN - 1
  <2>1. low \in 0 .. N * Tile - 1 /\ N * Tile = TN
    BY <1>1, DigitFits DEF Tile
  <2> QED
    BY <2>1
<1>5. k = t * TN + low
  BY DEF Tile, PlaceAt
<1>6. k \div TN = t
  <2> HIDE DEF k, low, TN
  <2> QED
    BY <1>1, <1>4, <1>5, Division
<1>7. (k \div Tile) % N = px
  BY <1>2, <1>3, Zenon
<1> HIDE DEF k
<1> QED
  BY <1>2, <1>6, <1>7, Zenon DEF k

LEMMA PlaceInside ==
    ASSUME NEW N \in Nat \ {0}, NEW T \in Nat, NEW t \in 0 .. T - 1,
           NEW px \in 0 .. N - 1, NEW r \in 0 .. Tile - 1
    PROVE  PlaceAt(N, t, px, r) \in Array((T * Tile) * N)
<1>1. Tile \in Nat /\ T * N \in Nat
  BY DEF Tile
<1>2. t * N + px \in 0 .. T * N - 1
  BY DigitFits
<1>3. (t * N + px) * Tile + r \in 0 .. (T * N) * Tile - 1
  BY <1>1, <1>2, DigitFits
<1>4. (T * N) * Tile = (T * Tile) * N
  BY DEF Tile
<1> QED
  BY <1>3, <1>4 DEF Array, PlaceAt

\* What the IP wrote at a place of output j.
LEMMA FromIpAt ==
    ASSUME NEW s, IsShape(s), NEW n, NEW j,
           NEW t \in 0 .. UpRound(s.c, Tile) - 1, NEW px \in 0 .. s.h * s.w - 1, NEW r \in 0 .. Tile - 1
    PROVE  LET k == PlaceAt(s.h * s.w, t, px, r)
           IN  /\ k \in Array(Extent(s, 0))
               /\ FromIp(n, j, s)[k] = IF t * Tile + r < s.c
                                       THEN Output(n, j, (t * Tile + r) * (s.h * s.w) + px) ELSE Beyond
<1> DEFINE N == s.h * s.w
           T == UpRound(s.c, Tile)
           k == PlaceAt(N, t, px, r)
<1>1. /\ s.h \in Nat \ {0} /\ s.w \in Nat \ {0} /\ N \in Nat \ {0} /\ T \in Nat \ {0}
      /\ Extent(s, 0) = (T * Tile) * N
  BY ShapeFacts DEF Tile
<1>2. px \in 0 .. N - 1 /\ t \in Nat /\ t \in 0 .. T - 1 /\ T \in Nat
  BY <1>1
<1>3. k % Tile = r /\ (k \div Tile) % N = px /\ k \div (Tile * N) = t /\ k \in Array((T * Tile) * N)
  <2> HIDE DEF N, T
  <2>1. k % Tile = r /\ (k \div Tile) % N = px /\ k \div (Tile * N) = t
    BY <1>1, <1>2, PlaceDigits, Zenon
  <2>2. k \in Array((T * Tile) * N)
    BY <1>1, <1>2, PlaceInside, Zenon
  <2> QED
    BY <2>1, <2>2
<1>4. Tile * s.h * s.w = Tile * N /\ (t * Tile + r) * s.h * s.w = (t * Tile + r) * N
  <2>1. t * Tile + r \in Nat /\ Tile \in Nat
    BY <1>2 DEF Tile
  <2>2. \A a \in Nat : a * s.h * s.w = a * N
    BY <1>1
  <2> QED
    BY <2>1, <2>2
<1> HIDE DEF k
<1>5. k \in Array(Extent(s, 0))
  BY <1>1, <1>3
<1>6. FromIp(n, j, s)[k] = IF t * Tile + r < s.c THEN Output(n, j, (t * Tile + r) * s.h * s.w + px) ELSE Beyond
  BY <1>3, <1>4, <1>5, Zenon DEF FromIp, N
<1> QED
  BY <1>4, <1>5, <1>6, Zenon DEF k, N

\* The outputs rearranged: every byte of the tensor, in order.
LEMMA OutputFound ==
    ASSUME NEW s, IsShape(s), NEW n, NEW j, NEW i \in Array(Size(s))
    PROVE  /\ i \in Array(Extent(s, 0))
           /\ FromIp(n, j, s)[OutIndex(s.h * s.w, i)] = Output(n, j, i)
<1> DEFINE N == s.h * s.w
           c == i \div N
           px == i % N
           T == UpRound(s.c, Tile)
           t == c \div Tile
           r == c % Tile
<1>1. /\ s.c \in Nat \ {0} /\ N \in Nat \ {0} /\ T \in Nat \ {0} /\ s.c <= T * Tile
      /\ Size(s) = s.c * N /\ Size(s) \in Nat /\ Extent(s, 0) \in Nat /\ Size(s) <= Extent(s, 0)
  BY ShapeFacts, SizeFits DEF Tile
<1>2. i \in 0 .. s.c * N - 1 /\ i \in Nat /\ i \in Array(Extent(s, 0))
  BY <1>1 DEF Array
<1> HIDE DEF N, T
<1>3. c \in Nat /\ px \in 0 .. N - 1 /\ i = c * N + px
  BY <1>1, <1>2
<1>4. c < s.c
  <2> HIDE DEF c, px
  <2>1. ASSUME ~(c < s.c) PROVE FALSE
    <3>1. CASE s.c = c
      BY <1>1, <1>2, <1>3, <3>1
    <3>2. CASE s.c < c
      <4>1. s.c * N + 0 < c * N + px
        BY <1>1, <1>3, <3>2, SmallerDigit
      <4> QED
        BY <1>1, <1>2, <1>3, <4>1
    <3> QED
      BY <1>1, <1>3, <2>1, <3>1, <3>2
  <2> QED
    BY <2>1
<1> HIDE DEF c, px
<1>5. t \in 0 .. T - 1 /\ r \in 0 .. Tile - 1 /\ c = t * Tile + r
  BY <1>1, <1>3, <1>4 DEF Tile
<1>6. OutIndex(N, i) = PlaceAt(N, t, px, r)
  BY <1>1, <1>3, OutputPlaced DEF PlaceAt
<1> HIDE DEF t, r
<1>7. FromIp(n, j, s)[PlaceAt(N, t, px, r)] =
        IF t * Tile + r < s.c THEN Output(n, j, (t * Tile + r) * N + px) ELSE Beyond
  <2>1. t \in 0 .. UpRound(s.c, Tile) - 1 /\ px \in 0 .. s.h * s.w - 1
    BY <1>3, <1>5 DEF T, N
  <2>2. FromIp(n, j, s)[PlaceAt(s.h * s.w, t, px, r)] =
        IF t * Tile + r < s.c THEN Output(n, j, (t * Tile + r) * (s.h * s.w) + px) ELSE Beyond
    BY <1>5, <2>1, FromIpAt
  <2> QED
    BY <2>2 DEF N
<1>8. FromIp(n, j, s)[OutIndex(N, i)] = Output(n, j, i)
  BY <1>3, <1>4, <1>5, <1>6, <1>7, Zenon
<1> QED
  BY <1>2, <1>8, Zenon DEF N

-----------------------------------------------------------------------------
(* The way back.  The tensors hold nothing from the future; from the ioctl *)
(* on, output after output is what the IP wrote.                           *)

Outs == DOMAIN layer.outs
Holds(j, n) == tensors[j] = [i \in Array(Size(layer.outs[j])) |-> Output(n, j, i)]

TensorsInv ==
    /\ DOMAIN tensors = Outs
    /\ \A j \in Outs : \A i \in DOMAIN tensors[j] : tensors[j][i][1] \in 0 .. call

BeforeIoctlInv ==
    /\ pc = "build" => call = 0
    /\ pc \in {"pad", "rearrange", "ioctl"} =>
         out = 1 /\ \A j \in Outs : \A i \in DOMAIN tensors[j] : tensors[j][i][1] < call

AfterIoctlInv ==
    pc \in {"unrearrange", "copy"} =>
        /\ ok /\ oa = [j \in Outs |-> FromIp(call, j, layer.outs[j])]
        /\ \A j \in Outs : j < out => Holds(j, call)

CopyInv ==
    pc = "copy" => \A i \in Array(Size(layer.outs[out])) : buff[i] = Output(call, out, i)

TransferInv == TypeOK /\ TensorsInv /\ BeforeIoctlInv /\ AfterIoctlInv /\ CopyInv /\ OutputsReachTensors

LEMMA Shapes ==
    ASSUME TypeOK
    PROVE  /\ IsLayer(layer) /\ call \in Nat /\ out \in Outs
           /\ Outs = 1 .. Len(layer.outs) /\ Len(layer.outs) \in Nat
           /\ \A j \in Outs : IsShape(layer.outs[j])
<1>1. IsLayer(layer)
  BY LayoutAssumption DEF TypeOK
<1>2. call \in Nat /\ out \in Outs
  BY LayoutAssumption DEF TypeOK, Outs
<1> QED
  BY <1>1, <1>2 DEF IsLayer, Outs

LEMMA InitTransfer == Init => TransferInv
<1> SUFFICES ASSUME Init PROVE TransferInv
  OBVIOUS
<1>1. TypeOK
  BY InitTypes
<1>2. pc = "build" /\ call = 0 /\ tensors = [j \in Outs |-> <<>>]
  BY Zenon DEF Init, Outs
<1>3. TensorsInv
  BY <1>2 DEF TensorsInv
<1>4. BeforeIoctlInv /\ AfterIoctlInv /\ CopyInv /\ OutputsReachTensors
  BY <1>2 DEF BeforeIoctlInv, AfterIoctlInv, CopyInv, OutputsReachTensors
<1> QED
  BY <1>1, <1>3, <1>4 DEF TransferInv

LEMMA BuildWeightsTransfer == TransferInv /\ BuildWeights => TransferInv'
<1> SUFFICES ASSUME TransferInv, BuildWeights PROVE TransferInv'
  OBVIOUS
<1>1. TypeOK'
  BY NextTypes, Zenon DEF TransferInv, Next
<1>2. layer' = layer /\ call' = call /\ tensors' = tensors /\ pc = "build" /\ pc' = "idle" /\ Outs' = Outs
  BY Zenon DEF BuildWeights, Outs
<1>3. call = 0
  BY <1>2 DEF TransferInv, BeforeIoctlInv
<1>4. TensorsInv'
  BY <1>2, Zenon DEF TransferInv, TensorsInv
<1>5. BeforeIoctlInv' /\ AfterIoctlInv' /\ CopyInv' /\ OutputsReachTensors'
  BY <1>2, <1>3 DEF BeforeIoctlInv, AfterIoctlInv, CopyInv, OutputsReachTensors
<1> QED
  BY <1>1, <1>4, <1>5, Zenon DEF TransferInv

LEMMA FillTransfer == TransferInv /\ Fill => TransferInv'
<1> SUFFICES ASSUME TransferInv, Fill PROVE TransferInv'
  OBVIOUS
<1>1. TypeOK'
  BY NextTypes, Zenon DEF TransferInv, Next
<1>2. layer' = layer /\ call' = call + 1 /\ tensors' = tensors /\ pc' = "pad" /\ Outs' = Outs /\ out' = 1
  BY Zenon DEF Fill, Outs
<1>3. call \in Nat /\ DOMAIN tensors = Outs
  BY Shapes, Zenon DEF TransferInv, TensorsInv
<1>4. \A j \in Outs : \A i \in DOMAIN tensors[j] : tensors[j][i][1] \in 0 .. call
  BY Zenon DEF TransferInv, TensorsInv
<1>5. \A n \in 0 .. call : n \in 0 .. call + 1 /\ n < call + 1
  BY <1>3
<1>6. TensorsInv'
  BY <1>2, <1>3, <1>4, <1>5, Zenon DEF TensorsInv
<1>7. \A j \in Outs' : \A i \in DOMAIN tensors'[j] : tensors'[j][i][1] < call'
  BY <1>2, <1>4, <1>5, Zenon
<1>8. pc' # "build" /\ pc' # "unrearrange" /\ pc' # "copy" /\ pc' # "idle"
  BY <1>2
<1>9. BeforeIoctlInv' /\ AfterIoctlInv' /\ CopyInv' /\ OutputsReachTensors'
  BY <1>2, <1>7, <1>8, Zenon DEF BeforeIoctlInv, AfterIoctlInv, CopyInv, OutputsReachTensors
<1> QED
  BY <1>1, <1>6, <1>9, Zenon DEF TransferInv

LEMMA PrepareTransfer == TransferInv /\ (PadInput \/ Rearrange) => TransferInv'
<1> SUFFICES ASSUME TransferInv, PadInput \/ Rearrange PROVE TransferInv'
  OBVIOUS
<1>1. TypeOK'
  BY NextTypes, Zenon DEF TransferInv, Next
<1>2. /\ layer' = layer /\ call' = call /\ tensors' = tensors /\ Outs' = Outs /\ out' = out
      /\ pc \in {"pad", "rearrange"} /\ pc' \in {"rearrange", "ioctl"}
  BY Zenon DEF PadInput, Rearrange, Outs
<1>3. TensorsInv'
  BY <1>2, Zenon DEF TransferInv, TensorsInv
<1>4. pc \in {"pad", "rearrange", "ioctl"}
  BY <1>2
<1>5. out' = 1 /\ \A j \in Outs' : \A i \in DOMAIN tensors'[j] : tensors'[j][i][1] < call'
  BY <1>2, <1>4, Zenon DEF TransferInv, BeforeIoctlInv
<1>6. pc' # "build" /\ ~(pc' \in {"unrearrange", "copy"}) /\ pc' # "copy" /\ pc' # "idle"
  BY <1>2
<1>7. BeforeIoctlInv' /\ AfterIoctlInv' /\ CopyInv' /\ OutputsReachTensors'
  BY <1>5, <1>6, Zenon DEF BeforeIoctlInv, AfterIoctlInv, CopyInv, OutputsReachTensors
<1> QED
  BY <1>1, <1>3, <1>7, Zenon DEF TransferInv

LEMMA IoctlTransfer == TransferInv /\ Ioctl => TransferInv'
<1> SUFFICES ASSUME TransferInv, Ioctl PROVE TransferInv'
  OBVIOUS
<1>1. TypeOK'
  BY NextTypes, Zenon DEF TransferInv, Next
<1>2. /\ layer' = layer /\ call' = call /\ tensors' = tensors /\ Outs' = Outs /\ out' = out
      /\ pc = "ioctl" /\ pc' = "unrearrange" /\ ok' = TRUE
      /\ oa' = [j \in Outs |-> FromIp(call, j, layer.outs[j])]
  BY Zenon DEF Ioctl, Outs
<1>3. call \in Nat /\ Outs = 1 .. Len(layer.outs) /\ Len(layer.outs) \in Nat /\ out \in Outs
  BY Shapes, Zenon DEF TransferInv
<1>4. out = 1
  BY <1>2, Zenon DEF TransferInv, BeforeIoctlInv
<1>5. TensorsInv'
  BY <1>2, Zenon DEF TransferInv, TensorsInv
<1>6. \A j \in Outs' : ~(j < out')
  BY <1>2, <1>3, <1>4
<1>7. AfterIoctlInv'
  BY <1>2, <1>6, Zenon DEF AfterIoctlInv
<1>8. pc' # "build" /\ ~(pc' \in {"pad", "rearrange", "ioctl"}) /\ pc' # "copy" /\ pc' # "idle"
  BY <1>2
<1>9. BeforeIoctlInv' /\ CopyInv' /\ OutputsReachTensors'
  BY <1>8, Zenon DEF BeforeIoctlInv, CopyInv, OutputsReachTensors
<1> QED
  BY <1>1, <1>5, <1>7, <1>9, Zenon DEF TransferInv

LEMMA IoctlFailsTransfer == TransferInv /\ IoctlFails => TransferInv'
<1> SUFFICES ASSUME TransferInv, IoctlFails PROVE TransferInv'
  OBVIOUS
<1>1. TypeOK'
  BY NextTypes, Zenon DEF TransferInv, Next
<1>2. /\ layer' = layer /\ call' = call /\ tensors' = tensors /\ Outs' = Outs
      /\ pc = "ioctl" /\ pc' = "idle" /\ ok' = FALSE
  BY Zenon DEF IoctlFails, Outs
<1>3. TensorsInv'
  BY <1>2, Zenon DEF TransferInv, TensorsInv
<1>4. pc \in {"pad", "rearrange", "ioctl"}
  BY <1>2
<1>5. \A j \in Outs' : \A i \in DOMAIN tensors'[j] : tensors'[j][i][1] < call'
  BY <1>2, <1>4, Zenon DEF TransferInv, BeforeIoctlInv
<1>6. pc' # "build" /\ ~(pc' \in {"unrearrange", "copy"}) /\ pc' # "copy" /\ ~(pc' \in {"pad", "rearrange", "ioctl"})
  BY <1>2
<1>7. BeforeIoctlInv' /\ AfterIoctlInv' /\ CopyInv'
  BY <1>6, Zenon DEF BeforeIoctlInv, AfterIoctlInv, CopyInv
<1>8. OutputsReachTensors'
  BY <1>2, <1>5, Zenon DEF OutputsReachTensors, Outs
<1> QED
  BY <1>1, <1>3, <1>7, <1>8, Zenon DEF TransferInv

LEMMA UnrearrangeTransfer == TransferInv /\ Unrearrange => TransferInv'
<1> SUFFICES ASSUME TransferInv, Unrearrange PROVE TransferInv'
  OBVIOUS
<1>1. TypeOK'
  BY NextTypes, Zenon DEF TransferInv, Next
<1> DEFINE s == layer.outs[out]
<1>2. /\ layer' = layer /\ call' = call /\ tensors' = tensors /\ Outs' = Outs /\ out' = out
      /\ pc = "unrearrange" /\ pc' = "copy" /\ ok' = ok /\ oa' = oa
      /\ buff' = [k \in DOMAIN buff |->
                    IF k < Extent(s, 0) THEN oa[out][OutIndex(s.h * s.w, k)] ELSE buff[k]]
  BY Zenon DEF Unrearrange, Outs
<1>3. TypeOK /\ pc \in {"unrearrange", "copy"} /\ pc' \in {"unrearrange", "copy"}
  BY <1>2 DEF TransferInv
<1>4. TensorsInv'
  BY <1>2, Zenon DEF TransferInv, TensorsInv
<1>5. AfterIoctlInv'
  BY <1>2, <1>3, Zenon DEF TransferInv, AfterIoctlInv, Holds
<1>6. out \in Outs /\ oa[out] = FromIp(call, out, s) /\ IsShape(s)
  <2>1. out \in Outs /\ IsShape(s)
    BY <1>3, Shapes, Zenon
  <2>2. oa = [j \in Outs |-> FromIp(call, j, layer.outs[j])]
    BY <1>3, Zenon DEF TransferInv, AfterIoctlInv
  <2> QED
    BY <2>1, <2>2, Zenon
<1>7. ASSUME NEW i \in Array(Size(s)) PROVE buff'[i] = Output(call, out, i)
  <2> HIDE DEF s
  <2>1. /\ i \in Array(Extent(s, 0))
        /\ FromIp(call, out, s)[OutIndex(s.h * s.w, i)] = Output(call, out, i)
    BY <1>6, <1>7, OutputFound
  <2>2. i < Extent(s, 0) /\ i \in DOMAIN buff
    <3>1. IsLayer(layer) /\ DOMAIN buff = Array(BuffSize(layer))
      BY <1>3, Shapes, Zenon DEF TypeOK
    <3>2. BuffSize(layer) \in Nat /\ Extent(s, 0) <= BuffSize(layer) /\ Extent(s, 0) \in Nat
      BY <1>6, <3>1, BuffHolds, SizeFits DEF s, Outs
    <3> QED
      BY <2>1, <3>1, <3>2 DEF Array
  <2>3. buff'[i] = oa[out][OutIndex(s.h * s.w, i)]
    BY <1>2, <2>2, Zenon DEF s
  <2> QED
    BY <1>6, <2>1, <2>3, Zenon DEF s
<1>8. CopyInv'
  BY <1>2, <1>7, Zenon DEF CopyInv
<1>9. BeforeIoctlInv' /\ OutputsReachTensors'
  BY <1>2 DEF BeforeIoctlInv, OutputsReachTensors
<1> QED
  BY <1>1, <1>4, <1>5, <1>8, <1>9, Zenon DEF TransferInv

LEMMA CopyOutputTransfer == TransferInv /\ CopyOutput => TransferInv'
<1> SUFFICES ASSUME TransferInv, CopyOutput PROVE TransferInv'
  OBVIOUS
<1>1. TypeOK'
  BY NextTypes, Zenon DEF TransferInv, Next
<1> DEFINE S == Array(Size(layer.outs[out]))
           t == [i \in S |-> buff[i]]
<1>2. /\ layer' = layer /\ call' = call /\ Outs' = Outs /\ pc = "copy" /\ ok' = ok /\ oa' = oa
      /\ tensors' = [tensors EXCEPT ![out] = t]
      /\ \/ out + 1 \in Outs /\ out' = out + 1 /\ pc' = "unrearrange"
         \/ out + 1 \notin Outs /\ out' = out /\ pc' = "idle"
  BY Zenon DEF CopyOutput, Outs
<1>3. TypeOK /\ pc \in {"unrearrange", "copy"}
  BY <1>2 DEF TransferInv
<1>4. /\ call \in Nat /\ out \in Outs /\ Outs = 1 .. Len(layer.outs) /\ Len(layer.outs) \in Nat
  BY <1>3, Shapes, Zenon
<1>5. DOMAIN tensors = Outs /\ tensors'[out] = t /\ \A j \in Outs : j # out => tensors'[j] = tensors[j]
  <2>1. DOMAIN tensors = Outs
    BY Zenon DEF TransferInv, TensorsInv
  <2> HIDE DEF t
  <2> QED
    BY <1>2, <1>4, <2>1, Zenon
<1>6. t = [i \in S |-> Output(call, out, i)]
  <2>1. \A i \in S : buff[i] = Output(call, out, i)
    BY <1>2, Zenon DEF TransferInv, CopyInv
  <2> QED
    BY <2>1, Zenon
<1>7. \A j \in Outs : j < out => Holds(j, call)
  BY <1>3, Zenon DEF TransferInv, AfterIoctlInv
<1>8. \A j \in Outs : j < out + 1 => Holds(j, call)'
  <2> SUFFICES ASSUME NEW j \in Outs, j < out + 1 PROVE Holds(j, call)'
    BY Zenon
  <2>1. CASE j = out
    BY <1>2, <1>5, <1>6, <2>1, Zenon DEF Holds
  <2>2. CASE j # out
    <3>1. j < out
      BY <1>4, <2>2
    <3> QED
      BY <1>2, <1>5, <1>7, <2>2, <3>1, Zenon DEF Holds
  <2> QED
    BY <2>1, <2>2
<1>9. TensorsInv'
  <2>1. DOMAIN tensors' = Outs'
    BY <1>2, <1>5, Zenon
  <2>2. ASSUME NEW j \in Outs, NEW i \in DOMAIN tensors'[j] PROVE tensors'[j][i][1] \in 0 .. call
    <3>1. CASE j = out
      <4>1. tensors'[j][i] = Output(call, out, i)
        BY <1>5, <1>6, <2>2, <3>1, Zenon
      <4> QED
        BY <1>4, <4>1 DEF Output
    <3>2. CASE j # out
      <4>1. tensors'[j] = tensors[j]
        BY <1>5, <3>2
      <4> QED
        BY <2>2, <4>1, Zenon DEF TransferInv, TensorsInv
    <3> QED
      BY <3>1, <3>2
  <2> QED
    BY <1>2, <2>1, <2>2, Zenon DEF TensorsInv
<1>10. CASE out + 1 \in Outs /\ out' = out + 1 /\ pc' = "unrearrange"
  <2>1. pc' # "copy" /\ pc' # "build" /\ pc' # "idle" /\ ~(pc' \in {"pad", "rearrange", "ioctl"})
    BY <1>10
  <2>2. ok' /\ oa' = [j \in Outs' |-> FromIp(call', j, layer'.outs[j])]
    BY <1>2, <1>3, Zenon DEF TransferInv, AfterIoctlInv
  <2>3. \A j \in Outs' : j < out' => Holds(j, call)'
    BY <1>2, <1>8, <1>10, Zenon
  <2>4. AfterIoctlInv'
    BY <2>2, <2>3, Zenon DEF AfterIoctlInv
  <2>5. BeforeIoctlInv' /\ CopyInv' /\ OutputsReachTensors'
    BY <2>1, Zenon DEF BeforeIoctlInv, CopyInv, OutputsReachTensors
  <2> QED
    BY <1>1, <1>9, <2>4, <2>5, Zenon DEF TransferInv
<1>11. CASE out + 1 \notin Outs /\ out' = out /\ pc' = "idle"
  <2>1. ~(pc' \in {"unrearrange", "copy"}) /\ pc' # "copy" /\ pc' # "build" /\ ~(pc' \in {"pad", "rearrange", "ioctl"})
    BY <1>11
  <2>2. \A j \in Outs : j < out + 1
    BY <1>4, <1>11
  <2>3. \A j \in Outs : Holds(j, call)'
    BY <1>8, <2>2, Zenon
  <2>4. ok'
    BY <1>2, <1>3, Zenon DEF TransferInv, AfterIoctlInv
  <2>5. OutputsReachTensors'
    BY <1>2, <2>3, <2>4, Zenon DEF OutputsReachTensors, Holds, Outs
  <2>6. BeforeIoctlInv' /\ CopyInv' /\ AfterIoctlInv'
    BY <2>1, Zenon DEF BeforeIoctlInv, CopyInv, AfterIoctlInv
  <2> QED
    BY <1>1, <1>9, <2>5, <2>6, Zenon DEF TransferInv
<1> QED
  BY <1>2, <1>10, <1>11, Zenon

LEMMA NextTransfer == TransferInv /\ [Next]_vars => TransferInv'
<1> SUFFICES ASSUME TransferInv, UNCHANGED vars PROVE TransferInv'
  BY BuildWeightsTransfer, FillTransfer, PrepareTransfer, IoctlTransfer, IoctlFailsTransfer,
     UnrearrangeTransfer, CopyOutputTransfer, Zenon DEF Next
<1>1. TypeOK'
  BY NextTypes, Zenon DEF TransferInv
<1>2. /\ layer' = layer /\ call' = call /\ tensors' = tensors /\ pc' = pc /\ ok' = ok
      /\ Outs' = Outs /\ out' = out /\ oa' = oa /\ buff' = buff
  BY Zenon DEF vars, Outs
<1>3. TensorsInv' /\ BeforeIoctlInv' /\ AfterIoctlInv' /\ CopyInv' /\ OutputsReachTensors'
  BY <1>2, Zenon DEF TransferInv, TensorsInv, BeforeIoctlInv, AfterIoctlInv, CopyInv, OutputsReachTensors, Holds
<1> QED
  BY <1>1, <1>3, Zenon DEF TransferInv

\* For any shapes and number of outputs: whatever shared the buffer with it, every
\* output of a successful inference is in its tensor, byte for byte; a failed one
\* changes no tensor.
THEOREM OutputsReachTheirTensors == Spec => []OutputsReachTensors
<1>1. TransferInv => OutputsReachTensors
  BY Zenon DEF TransferInv
<1> QED
  BY <1>1, InitTransfer, NextTransfer, PTL DEF Spec

-----------------------------------------------------------------------------
(* The way in.  What padding puts at each pixel of a framed plane.         *)

\* The byte of the padded input at i: from the image, or zero.
PaddedByte(l, n, i) ==
    LET s == l.in
        p == InPad(l)
        plane == (s.h + 2 * p) * (s.w + 2 * p)
        px == Pixels(s, p, i % plane)
    IN  IF p = 0 THEN IF i < Size(s) THEN Input(n, i) ELSE Zero
        ELSE IF i \div plane < s.c /\ px # {}
             THEN Input(n, (i \div plane) * s.h * s.w + CHOOSE x \in px : TRUE) ELSE Zero

LEMMA PixelsOf ==
    ASSUME NEW s, IsShape(s), NEW p \in Nat,
           NEW y \in 0 .. (s.h + 2 * p) - 1, NEW x \in 0 .. (s.w + 2 * p) - 1
    PROVE  Pixels(s, p, y * (s.w + 2 * p) + x) =
             IF y - 1 \in 0 .. s.h - 1 /\ x - p \in 0 .. s.w - 1 THEN {(y - 1) * s.w + (x - p)} ELSE {}
<1> DEFINE W == s.w + 2 * p
           i == y * W + x
<1>1. s.h \in Nat \ {0} /\ s.w \in Nat \ {0} /\ W \in Nat \ {0} /\ y \in Nat /\ x \in 0 .. W - 1
  BY DEF IsShape
<1>2. i \div W = y /\ i % W = x
  <2> HIDE DEF W
  <2> QED
    BY <1>1, Division
<1>3. \A z : z \in Pixels(s, p, i) <=> \E r \in Row(y, s.h), k \in Column(x, s.w, p) : z = r * s.w + k
  <2>1. \A z : z \in Pixels(s, p, i) <=>
                 \E r \in Row(i \div W, s.h), k \in Column(i % W, s.w, p) : z = r * s.w + k
    BY DEF Pixels
  <2> HIDE DEF i, W
  <2> QED
    BY <1>2, <2>1, Zenon
<1> HIDE DEF i
<1>4. CASE y - 1 \in 0 .. s.h - 1 /\ x - p \in 0 .. s.w - 1
  <2>1. Row(y, s.h) = {y - 1} /\ Column(x, s.w, p) = {x - p}
    BY <1>4 DEF Row, Column
  <2>2. \A z : z \in Pixels(s, p, i) <=> z = (y - 1) * s.w + (x - p)
    BY <1>3, <2>1, Zenon
  <2>3. Pixels(s, p, i) = {(y - 1) * s.w + (x - p)}
    BY <2>2, Zenon
  <2> QED
    BY <1>4, <2>3, Zenon DEF i, W
<1>5. CASE ~(y - 1 \in 0 .. s.h - 1 /\ x - p \in 0 .. s.w - 1)
  <2>1. Row(y, s.h) = {} \/ Column(x, s.w, p) = {}
    BY <1>5 DEF Row, Column
  <2>2. Pixels(s, p, i) = {}
    BY <1>3, <2>1, Zenon
  <2> QED
    BY <1>5, <2>2, Zenon DEF i, W
<1> QED
  BY <1>4, <1>5

\* The row of the frame in which a plane begins.
FirstRow(p) == IF p = 0 THEN 0 ELSE 1

\* Pixel (y, x) of the padded channel c.
ImageByte(l, n, c, y, x) ==
    IF /\ c < l.in.c /\ y - FirstRow(InPad(l)) \in 0 .. l.in.h - 1
       /\ x - InPad(l) \in 0 .. l.in.w - 1
    THEN Input(n, (c * l.in.h + (y - FirstRow(InPad(l)))) * l.in.w + (x - InPad(l))) ELSE Zero

LEMMA PaddedPixel ==
    ASSUME NEW l, IsLayer(l), NEW n, NEW c \in Nat,
           NEW y \in 0 .. (l.in.h + 2 * InPad(l)) - 1, NEW x \in 0 .. (l.in.w + 2 * InPad(l)) - 1
    PROVE  LET s == l.in
               p == InPad(l)
               H == s.h + 2 * p
               W == s.w + 2 * p
           IN  PaddedByte(l, n, c * (H * W) + (y * W + x)) = ImageByte(l, n, c, y, x)
<1> DEFINE s == l.in
           p == InPad(l)
           H == s.h + 2 * p
           W == s.w + 2 * p
           plane == H * W
           j == y * W + x
           i == c * plane + j
           px == Pixels(s, p, j)
<1>1. IsShape(s) /\ p \in Nat
  BY DEF IsLayer, InPad
<1>2. s.c \in Nat \ {0} /\ s.h \in Nat \ {0} /\ s.w \in Nat \ {0}
  BY <1>1 DEF IsShape
<1>3. y \in 0 .. (s.h + 2 * p) - 1 /\ x \in 0 .. (s.w + 2 * p) - 1
  OBVIOUS
<1> HIDE DEF s, p
<1>4. H \in Nat \ {0} /\ W \in Nat \ {0} /\ y \in 0 .. H - 1 /\ x \in 0 .. W - 1
  BY <1>1, <1>2 DEF s, p
<1>5. plane \in Nat \ {0} /\ j \in 0 .. plane - 1
  <2> HIDE DEF H, W
  <2>1. plane \in Nat \ {0}
    BY <1>4
  <2> QED
    BY <1>4, <2>1, DigitFits
<1>6. i \div plane = c /\ i % plane = j
  <2> HIDE DEF plane, j
  <2> QED
    BY <1>5, Division
<1>7. CASE p = 0
  <2>1. H = s.h /\ W = s.w /\ plane = s.h * s.w
    BY <1>1, <1>2, <1>7
  <2>2. Size(s) = s.c * plane /\ Size(s) \in Nat
    BY <1>1, <2>1, ShapeFacts
  <2>3. i < s.c * plane <=> c < s.c
    <3> HIDE DEF plane, j
    <3>1. ASSUME c < s.c PROVE c * plane + j < s.c * plane + 0
      BY <1>2, <1>5, <3>1, SmallerDigit
    <3>2. ASSUME s.c < c PROVE s.c * plane + 0 < c * plane + j
      BY <1>2, <1>5, <3>2, SmallerDigit
    <3>3. s.c * plane \in Nat /\ c * plane \in Nat /\ j \in Nat
      BY <1>2, <1>5
    <3> QED
      BY <1>2, <3>1, <3>2, <3>3
  <2>4. PaddedByte(l, n, i) = IF i < Size(s) THEN Input(n, i) ELSE Zero
    <3> HIDE DEF i
    <3> QED
      BY <1>7, Zenon DEF PaddedByte, s, p
  <2>5. i = (c * s.h + (y - 0)) * s.w + (x - p)
    BY <1>2, <1>4, <1>7, <2>1
  <2>6. y - 0 \in 0 .. s.h - 1 /\ x - p \in 0 .. s.w - 1 /\ FirstRow(p) = 0
    BY <1>4, <1>7, <2>1 DEF FirstRow
  <2> HIDE DEF i, plane, j, H, W
  <2>7. PaddedByte(l, n, i) = IF c < s.c THEN Input(n, (c * s.h + (y - 0)) * s.w + (x - p)) ELSE Zero
    BY <2>2, <2>3, <2>4, <2>5, Zenon
  <2> QED
    BY <2>6, <2>7, Zenon DEF i, plane, j, H, W, s, p, ImageByte
<1>8. CASE p # 0
  <2>1. PaddedByte(l, n, i) =
          IF c < s.c /\ px # {} THEN Input(n, c * s.h * s.w + CHOOSE z \in px : TRUE) ELSE Zero
    <3> HIDE DEF i, j
    <3>1. PaddedByte(l, n, i) =
            IF i \div plane < s.c /\ Pixels(s, p, i % plane) # {}
            THEN Input(n, (i \div plane) * s.h * s.w + CHOOSE z \in Pixels(s, p, i % plane) : TRUE) ELSE Zero
      BY <1>8, Zenon DEF PaddedByte, s, p
    <3> QED
      BY <1>6, <3>1, Zenon
  <2>2. px = IF y - 1 \in 0 .. s.h - 1 /\ x - p \in 0 .. s.w - 1 THEN {(y - 1) * s.w + (x - p)} ELSE {}
    <3>1. Pixels(s, p, y * (s.w + 2 * p) + x) =
            IF y - 1 \in 0 .. s.h - 1 /\ x - p \in 0 .. s.w - 1 THEN {(y - 1) * s.w + (x - p)} ELSE {}
      BY <1>1, <1>3, PixelsOf
    <3> QED
      BY <3>1
  <2>3. FirstRow(p) = 1
    BY <1>8 DEF FirstRow
  <2>4. CASE y - 1 \in 0 .. s.h - 1 /\ x - p \in 0 .. s.w - 1
    <3>1. px # {} /\ (CHOOSE z \in px : TRUE) = (y - 1) * s.w + (x - p)
      BY <2>2, <2>4
    <3>2. c * s.h * s.w + ((y - 1) * s.w + (x - p)) = (c * s.h + (y - 1)) * s.w + (x - p)
      <4>1. \A a, b, d \in Int : a * b + d * b = (a + d) * b
        OBVIOUS
      <4>2. c * s.h \in Int /\ y - 1 \in Int /\ s.w \in Int /\ x - p \in Int
        BY <1>1, <1>2, <1>4
      <4>3. c * s.h * s.w + (y - 1) * s.w = (c * s.h + (y - 1)) * s.w
        BY <4>1, <4>2
      <4>4. c * s.h * s.w \in Int /\ (y - 1) * s.w \in Int
        BY <4>2
      <4> QED
        BY <4>2, <4>3, <4>4
    <3> HIDE DEF px, i
    <3>3. PaddedByte(l, n, i) = IF c < s.c THEN Input(n, (c * s.h + (y - 1)) * s.w + (x - p)) ELSE Zero
      BY <2>1, <3>1, <3>2, Zenon
    <3> QED
      BY <2>3, <2>4, <3>3, Zenon DEF i, plane, j, H, W, s, p, ImageByte
  <2>5. CASE ~(y - 1 \in 0 .. s.h - 1 /\ x - p \in 0 .. s.w - 1)
    <3>1. px = {}
      BY <2>2, <2>5, Zenon
    <3> HIDE DEF px, i
    <3>2. PaddedByte(l, n, i) = Zero
      BY <2>1, <3>1, Zenon
    <3> QED
      BY <2>3, <2>5, <3>2, Zenon DEF i, plane, j, H, W, s, p, ImageByte
  <2> QED
    BY <2>4, <2>5
<1> QED
  BY <1>7, <1>8

LEMMA PlaceIs ==
    ASSUME NEW c \in Nat, NEW y \in Nat, NEW x \in Nat, NEW h \in Nat, NEW w \in Nat
    PROVE  Place(c, y, x, h, w) = PlaceAt(h * w, c \div Tile, y * w + x, c % Tile)
<1>1. \A t \in Nat : (t * h + y) * w + x = t * (h * w) + (y * w + x)
  <2> TAKE t \in Nat
  <2>1. (t * h + y) * w = t * h * w + y * w /\ t * h * w = t * (h * w)
    <3>1. \A a, b, d \in Nat : (a + b) * d = a * d + b * d
      OBVIOUS
    <3>2. t * h \in Nat
      OBVIOUS
    <3> QED
      BY <3>1, <3>2
  <2>2. t * h * w \in Nat /\ y * w \in Nat
    OBVIOUS
  <2> QED
    BY <2>1, <2>2
<1>2. c \div Tile \in Nat
  BY DEF Tile
<1> QED
  BY <1>1, <1>2, Zenon DEF Place, PlaceAt

\* Pixel (y, x) of channel c of what the driver's add_pad makes of output j.
SharedByte(n, j, s, p, c, y, x) ==
    IF y - 1 \in 0 .. s.h - 1 /\ x - p \in 0 .. s.w - 1
    THEN IF c < s.c THEN Output(n, j, (c * s.h + (y - 1)) * s.w + (x - p)) ELSE Beyond
    ELSE Zero

LEMMA FramedPixel ==
    ASSUME NEW s, IsShape(s), NEW p \in Nat, NEW n, NEW j,
           NEW c \in 0 .. UpRound(s.c, Tile) * Tile - 1,
           NEW y \in 0 .. (s.h + 2 * p) - 1, NEW x \in 0 .. (s.w + 2 * p) - 1
    PROVE  AddPad(FromIp(n, j, s), s, p)[Place(c, y, x, s.h + 2 * p, s.w + 2 * p)] =
             SharedByte(n, j, s, p, c, y, x)
<1> DEFINE H == s.h + 2 * p
           W == s.w + 2 * p
           T == UpRound(s.c, Tile)
           t == c \div Tile
           r == c % Tile
           plane == H * W
           m == y * W + x
           k == PlaceAt(plane, t, m, r)
           q == (y - 1) * s.w + (x - p)
           f == FromIp(n, j, s)
           px == Pixels(s, p, m)
<1>1. /\ s.c \in Nat \ {0} /\ s.h \in Nat \ {0} /\ s.w \in Nat \ {0} /\ T \in Nat \ {0}
      /\ Extent(s, p) = (T * Tile) * plane
  BY ShapeFacts
<1>2. H \in Nat \ {0} /\ W \in Nat \ {0} /\ y \in 0 .. H - 1 /\ x \in 0 .. W - 1 /\ y \in Nat /\ x \in Nat /\ p \in Nat
  BY <1>1
<1>3. c \in Nat /\ t \in 0 .. T - 1 /\ t \in Nat /\ t < T /\ r \in 0 .. Tile - 1 /\ c = t * Tile + r
  BY <1>1, TileDigits
<1>4. px = IF y - 1 \in 0 .. s.h - 1 /\ x - p \in 0 .. s.w - 1 THEN {q} ELSE {}
  BY PixelsOf
<1>5. f = FromIp(n, j, s)
  OBVIOUS
<1> HIDE DEF H, W, t, r, T, f, px
<1>6. plane \in Nat \ {0} /\ m \in 0 .. plane - 1
  <2>1. plane \in Nat \ {0}
    BY <1>2
  <2> QED
    BY <1>2, <2>1, DigitFits
<1>7. Place(c, y, x, H, W) = k
  BY <1>2, <1>3, PlaceIs DEF t, r
<1> HIDE DEF plane, m
<1>8. k % Tile = r /\ (k \div Tile) % plane = m /\ k \div (Tile * plane) = t /\ k \in Array(Extent(s, p))
  <2>1. plane \in Nat \ {0} /\ t \in Nat /\ m \in 0 .. plane - 1 /\ r \in 0 .. Tile - 1 /\ T \in Nat
    BY <1>1, <1>3, <1>6
  <2>2. k % Tile = r /\ (k \div Tile) % plane = m /\ k \div (Tile * plane) = t
    BY <2>1, PlaceDigits, Zenon DEF k
  <2>3. k \in Array((T * Tile) * plane)
    BY <1>3, <2>1, PlaceInside, Zenon DEF k
  <2> QED
    BY <1>1, <2>2, <2>3, Zenon
<1>9. AddPad(f, s, p)[k] =
        IF px = {} THEN Zero
        ELSE f[(t * s.h * s.w + CHOOSE z \in px : TRUE) * Tile + r]
  <2>1. AddPad(f, s, p)[k] =
          IF Pixels(s, p, (k \div Tile) % plane) = {} THEN Zero
          ELSE f[((k \div (Tile * plane)) * s.h * s.w + CHOOSE z \in Pixels(s, p, (k \div Tile) % plane) : TRUE) * Tile
                    + (k % Tile)]
    BY <1>8, Zenon DEF AddPad, plane, H, W
  <2> QED
    BY <1>8, <2>1, Zenon DEF px
<1>10. CASE y - 1 \in 0 .. s.h - 1 /\ x - p \in 0 .. s.w - 1
  <2>1. px # {} /\ (CHOOSE z \in px : TRUE) = q
    <3> HIDE DEF q
    <3> QED
      BY <1>4, <1>10
  <2>2. q \in 0 .. s.h * s.w - 1
    BY <1>1, <1>10, DigitFits
  <2>3. t * s.h * s.w = t * (s.h * s.w)
    BY <1>1, <1>3
  <2>4. AddPad(f, s, p)[k] = f[PlaceAt(s.h * s.w, t, q, r)]
    <3> HIDE DEF q
    <3> QED
      BY <1>9, <2>1, <2>3, Zenon DEF PlaceAt
  <2>5. t \in 0 .. UpRound(s.c, Tile) - 1
    BY <1>3 DEF T
  <2>6. f[PlaceAt(s.h * s.w, t, q, r)] =
          IF t * Tile + r < s.c THEN Output(n, j, (t * Tile + r) * (s.h * s.w) + q) ELSE Beyond
    <3> HIDE DEF q
    <3> QED
      BY <1>3, <2>2, <2>5, FromIpAt DEF f
  <2>7. c * (s.h * s.w) + q = (c * s.h + (y - 1)) * s.w + (x - p)
    <3>1. \A a, b, d \in Int : a * b + d * b = (a + d) * b
      OBVIOUS
    <3>2. c * s.h \in Int /\ y - 1 \in Int /\ s.w \in Int /\ x - p \in Int /\ c * (s.h * s.w) = c * s.h * s.w
      BY <1>1, <1>2, <1>3
    <3>3. c * s.h * s.w + (y - 1) * s.w = (c * s.h + (y - 1)) * s.w
      BY <3>1, <3>2
    <3>4. c * s.h * s.w \in Int /\ (y - 1) * s.w \in Int
      BY <3>2
    <3> QED
      BY <3>2, <3>3, <3>4
  <2> HIDE DEF q
  <2>8. AddPad(f, s, p)[k] = IF c < s.c THEN Output(n, j, (c * s.h + (y - 1)) * s.w + (x - p)) ELSE Beyond
    BY <1>3, <2>4, <2>6, <2>7, Zenon
  <2> QED
    BY <1>7, <1>10, <2>8, Zenon DEF H, W, f, SharedByte
<1>11. CASE ~(y - 1 \in 0 .. s.h - 1 /\ x - p \in 0 .. s.w - 1)
  <2>1. px = {}
    BY <1>4, <1>11, Zenon
  <2>2. AddPad(f, s, p)[k] = Zero
    BY <1>9, <2>1, Zenon
  <2> QED
    BY <1>7, <1>11, <2>2, Zenon DEF H, W, f, SharedByte
<1> QED
  BY <1>10, <1>11

LEMMA SameWidth ==
    ASSUME NEW M \in Nat \ {0}, NEW a \in Nat, NEW b \in Nat, M * a = M * b
    PROVE  a = b
<1>1. a * M + 0 = b * M + 0 /\ 0 \in 0 .. M - 1
  OBVIOUS
<1> QED
  BY <1>1, DigitsDiffer

\* The paddings that the library frames as the network asks.
PaddedRight(pads) ==
    /\ pads[4] = pads[3]
    /\ \/ pads[3] = 0 /\ pads[1] = 0 /\ pads[2] = 0
       \/ pads[3] > 0 /\ pads[1] = 1 /\ pads[2] = 2 * pads[3] - 1

\* f holds the image of inference n, s in shape, framed by top and left.
ImageAt(f, s, top, left, h, w, n) ==
    \A c \in 0 .. UpRound(s.c, Tile) * Tile - 1, y \in 0 .. h - 1, x \in 0 .. w - 1 :
        f[Place(c, y, x, h, w)] =
           IF c < s.c /\ y - top \in 0 .. s.h - 1 /\ x - left \in 0 .. s.w - 1
           THEN Input(n, (c * s.h + (y - top)) * s.w + (x - left)) ELSE Zero

\* f holds it where conv_chw_pad puts it.
HoldsImage(f, l, n) ==
    ImageAt(f, l.in, FirstRow(InPad(l)), InPad(l), l.in.h + 2 * InPad(l), l.in.w + 2 * InPad(l), n)

LEMMA FramedIsImage ==
    ASSUME NEW f, NEW s, NEW top, NEW left, NEW h, NEW w, NEW n
    PROVE  IsFramed(f, s, top, left, h, w, LAMBDA i : Input(n, i), TRUE) <=> ImageAt(f, s, top, left, h, w, n)
BY Zenon DEF IsFramed, ImageAt

\* f is the input of inference n as the paddings of l ask for it.
IsAsked(f, l, n) ==
    LET s == l.in
        pads == l.paddings
        h == s.h + pads[1] + pads[2]
        w == s.w + pads[3] + pads[4]
    IN  /\ Array(Extent(s, InPad(l))) = Array(UpRound(s.c, Tile) * Tile * h * w)
        /\ ImageAt(f, s, pads[1], pads[3], h, w, n)

LEMMA RightPaddingSuffices ==
    ASSUME NEW l, IsLayer(l), NEW f, NEW n, HoldsImage(f, l, n), PaddedRight(l.paddings)
    PROVE  IsAsked(f, l, n)
<1> DEFINE s == l.in
           p == InPad(l)
           pads == l.paddings
           h == s.h + pads[1] + pads[2]
           w == s.w + pads[3] + pads[4]
<1>1. IsShape(s) /\ p \in Nat /\ p = pads[3] /\ pads \in [1 .. 4 -> Nat]
  BY DEF IsLayer, InPad
<1>2. s.c \in Nat /\ s.h \in Nat /\ s.w \in Nat
  BY <1>1, ShapeFacts
<1>3. pads[1] \in Nat /\ pads[2] \in Nat /\ pads[3] \in Nat /\ pads[4] \in Nat
  BY <1>1
<1>4. h = s.h + 2 * p /\ w = s.w + 2 * p /\ pads[1] = FirstRow(p)
  <2>1. CASE p = 0
    BY <1>1, <1>2, <1>3, <2>1 DEF PaddedRight, FirstRow
  <2>2. CASE p # 0
    BY <1>1, <1>2, <1>3, <2>2 DEF PaddedRight, FirstRow
  <2> QED
    BY <2>1, <2>2
<1>5. ImageAt(f, s, FirstRow(p), p, s.h + 2 * p, s.w + 2 * p, n)
  BY Zenon DEF HoldsImage
<1>6. Extent(s, p) = UpRound(s.c, Tile) * Tile * (s.h + 2 * p) * (s.w + 2 * p)
  BY Zenon DEF Extent
<1> HIDE DEF s, p, pads, h, w
<1>7. ImageAt(f, s, pads[1], pads[3], h, w, n)
  BY <1>1, <1>4, <1>5
<1>8. Extent(s, p) = UpRound(s.c, Tile) * Tile * h * w
  BY <1>4, <1>6
<1> QED
  BY <1>7, <1>8, Zenon DEF IsAsked, s, p, pads, h, w

LEMMA RightPaddingNeeded ==
    ASSUME NEW l, IsLayer(l), NEW f, NEW n \in Nat, n # 0, HoldsImage(f, l, n), IsAsked(f, l, n)
    PROVE  PaddedRight(l.paddings)
<1> DEFINE s == l.in
           p == InPad(l)
           pads == l.paddings
           top == pads[1]
           bot == pads[2]
           right == pads[4]
           h == s.h + pads[1] + pads[2]
           w == s.w + pads[3] + pads[4]
           H == s.h + 2 * p
           W == s.w + 2 * p
           T == UpRound(s.c, Tile)
           F == FirstRow(p)
           m == top * w + p
           Y == m \div W
           X == m % W
<1>1. IsShape(s) /\ p \in Nat /\ p = pads[3] /\ pads \in [1 .. 4 -> Nat]
  BY DEF IsLayer, InPad
<1>2. s.c \in Nat \ {0} /\ s.h \in Nat \ {0} /\ s.w \in Nat \ {0} /\ T \in Nat \ {0}
  BY <1>1, ShapeFacts
<1>3. Extent(s, p) = (T * Tile) * (H * W)
  BY <1>1, ShapeFacts
<1>4. top \in Nat /\ bot \in Nat /\ pads[3] \in Nat /\ right \in Nat
  BY <1>1
<1>5. h = s.h + top + bot /\ w = s.w + p + right /\ h \in Nat \ {0} /\ w \in Nat \ {0}
  BY <1>1, <1>2, <1>4
<1>6. H \in Nat \ {0} /\ W \in Nat \ {0} /\ H = s.h + 2 * p /\ W = s.w + 2 * p
  BY <1>1, <1>2
<1>7. F \in Nat /\ (p = 0 => F = 0) /\ (p # 0 => F = 1)
  BY DEF FirstRow
<1>8. Array(Extent(s, p)) = Array(T * Tile * h * w) /\ ImageAt(f, s, top, pads[3], h, w, n)
  BY Zenon DEF IsAsked
<1>9. ImageAt(f, s, F, p, H, W, n)
  BY Zenon DEF HoldsImage
<1> HIDE DEF s, p, pads, top, bot, right, h, w, H, W, T, F
<1>10. ImageAt(f, s, top, p, h, w, n)
  BY <1>1, <1>8
<1>11. H * W = h * w /\ H * W \in Nat \ {0}
  <2>1. H * W \in Nat \ {0} /\ h * w \in Nat \ {0} /\ T * Tile \in Nat \ {0}
    BY <1>2, <1>5, <1>6 DEF Tile
  <2>2. T * Tile * h * w = (T * Tile) * (h * w)
    BY <1>5, <2>1
  <2>3. \A a, b \in Nat : Array(a) = Array(b) => a = b
    <3> SUFFICES ASSUME NEW a \in Nat, NEW b \in Nat, 0 .. (a - 1) = 0 .. (b - 1) PROVE a = b
      BY DEF Array
    <3>1. ~(a < b)
      <4>1. a < b => a \in 0 .. (b - 1) /\ a \notin 0 .. (a - 1)
        OBVIOUS
      <4> QED
        BY <4>1
    <3>2. ~(b < a)
      <4>1. b < a => b \in 0 .. (a - 1) /\ b \notin 0 .. (b - 1)
        OBVIOUS
      <4> QED
        BY <4>1
    <3> QED
      BY <3>1, <3>2
  <2>4. (T * Tile) * (H * W) \in Nat /\ (T * Tile) * (h * w) \in Nat
    <3>1. \A a, b \in Nat : a * b \in Nat
      OBVIOUS
    <3> QED
      BY <2>1, <3>1
  <2>5. (T * Tile) * (H * W) = (T * Tile) * (h * w)
    BY <1>3, <1>8, <2>2, <2>3, <2>4, Zenon
  <2> QED
    BY <2>1, <2>5, SameWidth
<1>12. m \in 0 .. H * W - 1 /\ m \in Nat
  <2>1. top \in 0 .. h - 1 /\ p \in 0 .. w - 1
    BY <1>1, <1>2, <1>4, <1>5
  <2>2. m \in 0 .. h * w - 1
    BY <1>5, <2>1, DigitFits
  <2> QED
    BY <1>11, <2>2
<1>13. Y \in 0 .. H - 1 /\ X \in 0 .. W - 1 /\ m = Y * W + X
  <2> HIDE DEF m
  <2>1. Y \in Nat /\ X \in 0 .. W - 1 /\ m = Y * W + X
    <3>1. W \in Nat \ {0} /\ m \in Nat
      BY <1>6, <1>12
    <3>2. \A d \in Nat \ {0} : m \div d \in Nat /\ m % d \in 0 .. d - 1 /\ m = (m \div d) * d + (m % d)
      BY <3>1
    <3> QED
      BY <3>1, <3>2
  <2> HIDE DEF Y, X
  <2>2. ~(H <= Y)
    <3>1. CASE H = Y
      BY <1>6, <1>11, <1>12, <2>1, <3>1
    <3>2. CASE H < Y
      <4>1. H * W + 0 < Y * W + X
        BY <1>6, <2>1, <3>2, SmallerDigit
      <4> QED
        BY <1>6, <1>11, <1>12, <2>1, <4>1
    <3> QED
      BY <1>6, <2>1, <3>1, <3>2
  <2> QED
    BY <1>6, <2>1, <2>2
<1>14. f[Place(0, top, p, h, w)] = Input(n, 0)
  <2>1. 0 \in 0 .. T * Tile - 1 /\ 0 < s.c
    BY <1>2 DEF Tile
  <2>2. top \in 0 .. h - 1 /\ p \in 0 .. w - 1
    BY <1>1, <1>2, <1>4, <1>5
  <2>3. top - top \in 0 .. s.h - 1 /\ p - p \in 0 .. s.w - 1 /\ (0 * s.h + (top - top)) * s.w + (p - p) = 0
    BY <1>1, <1>2, <1>4
  <2> QED
    BY <1>10, <2>1, <2>2, <2>3, Zenon DEF ImageAt, T
<1>15. Place(0, Y, X, H, W) = Place(0, top, p, h, w)
  <2> HIDE DEF m, Y, X
  <2>1. 0 \div Tile = 0 /\ 0 % Tile = 0
    BY DEF Tile
  <2>2. \A g, z, u, v \in Nat : ((0 * g + z) * v + u) * Tile + 0 = (z * v + u) * Tile
    <3> TAKE g \in Nat, z \in Nat, u \in Nat, v \in Nat
    <3>1. 0 * g + z = z
      OBVIOUS
    <3>2. (z * v + u) * Tile \in Nat
      BY DEF Tile
    <3> QED
      BY <3>1, <3>2
  <2>3. Y \in Nat /\ X \in Nat /\ H \in Nat /\ W \in Nat /\ top \in Nat /\ p \in Nat /\ h \in Nat /\ w \in Nat
    BY <1>1, <1>4, <1>5, <1>6, <1>13
  <2>4. \A g, z, u, v \in Nat : Place(0, z, u, g, v) = (z * v + u) * Tile
    <3> TAKE g \in Nat, z \in Nat, u \in Nat, v \in Nat
    <3>1. Place(0, z, u, g, v) = ((0 * g + z) * v + u) * Tile + 0
      BY <2>1 DEF Place
    <3> QED
      BY <2>2, <3>1
  <2>5. Y * W + X = top * w + p
    BY <1>13, Zenon DEF m
  <2>6. Place(0, Y, X, H, W) = (Y * W + X) * Tile
    BY <2>3, <2>4
  <2>7. Place(0, top, p, h, w) = (top * w + p) * Tile
    BY <2>3, <2>4
  <2> QED
    BY <2>5, <2>6, <2>7, Zenon
<1> HIDE DEF m, Y, X
<1>16. Y = F /\ X = p
  <2>1. 0 \in 0 .. T * Tile - 1 /\ 0 < s.c
    BY <1>2 DEF Tile
  <2>2. f[Place(0, Y, X, H, W)] =
          IF 0 < s.c /\ Y - F \in 0 .. s.h - 1 /\ X - p \in 0 .. s.w - 1
          THEN Input(n, (0 * s.h + (Y - F)) * s.w + (X - p)) ELSE Zero
    BY <1>9, <1>13, <2>1, Zenon DEF ImageAt, T
  <2>3. Input(n, 0) # Zero
    BY DEF Input, Zero
  <2>4. Y - F \in 0 .. s.h - 1 /\ X - p \in 0 .. s.w - 1
        /\ Input(n, (0 * s.h + (Y - F)) * s.w + (X - p)) = Input(n, 0)
    BY <1>14, <1>15, <2>1, <2>2, <2>3, Zenon
  <2>5. (0 * s.h + (Y - F)) * s.w + (X - p) = 0
    BY <2>4 DEF Input
  <2>6. (Y - F) * s.w + (X - p) = 0 * s.w + 0
    <3>1. 0 * s.h + (Y - F) = Y - F /\ 0 * s.w = 0
      BY <1>2, <2>4
    <3> QED
      BY <2>5, <3>1
  <2>7. Y - F = 0 /\ X - p = 0
    <3>1. Y - F \in Nat /\ X - p \in 0 .. s.w - 1 /\ s.w \in Nat /\ 0 \in 0 .. s.w - 1
      BY <1>2, <2>4
    <3> QED
      BY <2>6, <3>1, DigitsDiffer
  <2> QED
    BY <1>1, <1>7, <1>13, <2>7
<1>17. top * w = F * W
  <2>1. top * w + p = F * W + p
    BY <1>13, <1>16, Zenon DEF m
  <2>2. top * w \in Nat /\ F * W \in Nat
    BY <1>4, <1>5, <1>6, <1>7
  <2> QED
    BY <1>1, <2>1, <2>2
<1>18. CASE p = 0
  <2>1. F * W = 0
    BY <1>6, <1>7, <1>18
  <2>2. top = 0
    BY <1>4, <1>5, <1>17, <2>1
  <2>3. H = s.h /\ W = s.w /\ h = s.h + bot /\ w = s.w + right
    BY <1>2, <1>4, <1>5, <1>6, <1>18, <2>2
  <2>4. bot = 0 /\ right = 0
    <3>1. s.h * s.w = (s.h + bot) * (s.w + right)
      BY <1>11, <2>3
    <3>2. (s.h + bot) * (s.w + right) = s.h * s.w + s.h * right + bot * s.w + bot * right
      BY <1>2, <1>4
    <3>3. s.h * right \in Nat /\ bot * s.w \in Nat /\ bot * right \in Nat /\ s.h * s.w \in Nat
      BY <1>2, <1>4
    <3>4. s.h * right = 0 /\ bot * s.w = 0
      BY <3>1, <3>2, <3>3
    <3>5. \A a \in Nat \ {0}, b \in Nat \ {0} : a * b # 0
      OBVIOUS
    <3>6. right = 0
      BY <1>2, <1>4, <3>4, <3>5
    <3>7. bot = 0
      BY <1>2, <1>4, <3>4, <3>5
    <3> QED
      BY <3>6, <3>7
  <2> QED
    BY <1>1, <1>18, <2>2, <2>4 DEF PaddedRight, pads, top, bot, right
<1>19. CASE p # 0
  <2>1. top * w = W
    BY <1>6, <1>7, <1>17, <1>19
  <2>2. top = 1
    <3>1. top # 0
      <4>1. 0 * w = 0
        BY <1>5
      <4> QED
        BY <1>6, <2>1, <4>1
    <3>2. ~(2 <= top)
      <4>1. ASSUME 2 <= top PROVE FALSE
        <5>1. top - 2 \in Nat /\ top = 2 + (top - 2)
          BY <1>4, <4>1
        <5>2. PICK k \in Nat : top = 2 + k
          BY <5>1
        <5>3. top * w = 2 * w + k * w /\ k * w \in Nat
          BY <1>5, <5>2
        <5>4. 2 * w <= W
          BY <1>5, <1>6, <2>1, <5>3
        <5> QED
          BY <1>1, <1>2, <1>4, <1>5, <1>6, <5>4
      <4> QED
        BY <4>1
    <3> QED
      BY <1>4, <3>1, <3>2
  <2>3. w = W
    BY <1>5, <2>1, <2>2
  <2>4. right = p
    BY <1>1, <1>2, <1>4, <1>5, <1>6, <2>3
  <2>5. W * H = W * h
    BY <1>5, <1>6, <1>11, <2>3
  <2>6. H = h
    BY <1>5, <1>6, <2>5, SameWidth
  <2>7. bot = 2 * p - 1
    BY <1>1, <1>2, <1>4, <1>5, <1>6, <2>2, <2>6
  <2> QED
    BY <1>1, <1>19, <2>2, <2>4, <2>7 DEF PaddedRight, pads, top, bot, right
<1> QED
  BY <1>18, <1>19

IsFramedAround(f, s, p, n) ==
    IsFramed(f, s, p, p, s.h + 2 * p, s.w + 2 * p, LAMBDA i : Output(n, 1, i), FALSE)

\* add_pad frames a shared output as its reader asks for padding one only: with more,
\* the last row of the image is one row too high.
LEMMA SharedPadding ==
    ASSUME NEW s, IsShape(s), NEW p \in Nat, p # 0, NEW n
    PROVE  IsFramedAround(AddPad(FromIp(n, 1, s), s, p), s, p, n) <=> p = 1
<1>1. \A c \in 0 .. UpRound(s.c, Tile) * Tile - 1, y \in 0 .. (s.h + 2 * p) - 1, x \in 0 .. (s.w + 2 * p) - 1 :
         AddPad(FromIp(n, 1, s), s, p)[Place(c, y, x, s.h + 2 * p, s.w + 2 * p)] = SharedByte(n, 1, s, p, c, y, x)
  BY FramedPixel
<1> DEFINE f == AddPad(FromIp(n, 1, s), s, p)
           h == s.h + 2 * p
           w == s.w + 2 * p
           C == 0 .. UpRound(s.c, Tile) * Tile - 1
           A(c, y, x) == y - p \in 0 .. s.h - 1 /\ x - p \in 0 .. s.w - 1
           B(c, y, x) == Output(n, 1, (c * s.h + y - p) * s.w + x - p)
           A1(c, y, x) == y - 1 \in 0 .. s.h - 1 /\ x - p \in 0 .. s.w - 1
           B1(c, y, x) == Output(n, 1, (c * s.h + (y - 1)) * s.w + (x - p))
<1>2. /\ s.c \in Nat \ {0} /\ s.h \in Nat \ {0} /\ s.w \in Nat \ {0} /\ UpRound(s.c, Tile) \in Nat \ {0}
      /\ h \in Nat /\ w \in Nat
  BY ShapeFacts
<1>3. IsFramedAround(f, s, p, n) <=>
        \A c \in C, y \in 0 .. h - 1, x \in 0 .. w - 1 :
           c < s.c => f[Place(c, y, x, h, w)] = IF A(c, y, x) THEN B(c, y, x) ELSE Zero
  BY Zenon DEF IsFramedAround, IsFramed
<1>4. \A c \in C, y \in 0 .. h - 1, x \in 0 .. w - 1 :
        c < s.c => f[Place(c, y, x, h, w)] = IF A1(c, y, x) THEN B1(c, y, x) ELSE Zero
  <2> TAKE c \in C, y \in 0 .. h - 1, x \in 0 .. w - 1
  <2>1. AddPad(FromIp(n, 1, s), s, p)[Place(c, y, x, s.h + 2 * p, s.w + 2 * p)] =
             SharedByte(n, 1, s, p, c, y, x)
    BY <1>1, Zenon
  <2> QED
    BY <2>1, Zenon DEF SharedByte
<1>5. ASSUME p = 1
      PROVE  \A c \in C, y \in 0 .. h - 1, x \in 0 .. w - 1 : (A(c, y, x) <=> A1(c, y, x)) /\ B(c, y, x) = B1(c, y, x)
  <2> TAKE c \in C, y \in 0 .. h - 1, x \in 0 .. w - 1
  <2> QED
    BY <1>5
<1>6. ASSUME p # 1
      PROVE  ~ \A c \in C, y \in 0 .. h - 1, x \in 0 .. w - 1 :
                  c < s.c => f[Place(c, y, x, h, w)] = IF A(c, y, x) THEN B(c, y, x) ELSE Zero
  <2> DEFINE y == p + s.h - 1
  <2>1. 0 \in C /\ 0 < s.c
    BY <1>2 DEF Tile
  <2>2. y \in 0 .. h - 1 /\ p \in 0 .. w - 1 /\ A(0, y, p) /\ ~A1(0, y, p)
    BY <1>2, <1>6
  <2>3. B(0, y, p) # Zero
    BY DEF Output, Zero
  <2> HIDE DEF y, A, B, A1, B1, C, f, h, w
  <2>4. f[Place(0, y, p, h, w)] = Zero
    BY <1>4, <2>1, <2>2, Zenon
  <2> QED
    BY <2>1, <2>2, <2>3, <2>4, Zenon
<1> HIDE DEF A, B, A1, B1, C, f, h, w
<1>7. ASSUME p = 1
      PROVE  \A c \in C, y \in 0 .. h - 1, x \in 0 .. w - 1 :
                c < s.c => f[Place(c, y, x, h, w)] = IF A(c, y, x) THEN B(c, y, x) ELSE Zero
  BY <1>4, <1>5, <1>7, Zenon
<1>8. IsFramedAround(f, s, p, n) <=> p = 1
  BY <1>3, <1>6, <1>7, Zenon
<1> QED
  BY <1>8, Zenon DEF f

-----------------------------------------------------------------------------
(* The way in: the buffer is wiped, filled with the padded image and       *)
(* rearranged; on the way out the driver frames the first output.          *)

WipedInv ==
    pc = "pad" =>
        \A i \in DOMAIN buff :
            i < Extent(layer.in, InPad(layer)) /\ (InPad(layer) # 0 \/ i >= Size(layer.in)) => buff[i] = Zero

PaddedInv ==
    pc \in {"rearrange", "ioctl"} =>
        \A i \in Array(Extent(layer.in, InPad(layer))) : buff[i] = PaddedByte(layer, call, i)

ArrangedInv ==
    pc = "ioctl" =>
        LET s == Padded(layer.in, InPad(layer))
        IN  ia = [k \in Array(Extent(layer.in, InPad(layer))) |-> buff[InIndex(s.h * s.w, k)]]

ReaderInv ==
    pc \in {"unrearrange", "copy"} /\ layer.readerPad # 0 =>
        framed = AddPad(FromIp(call, 1, layer.outs[1]), layer.outs[1], layer.readerPad)

CalledInv == pc \in {"pad", "rearrange", "ioctl"} => call # 0

FrameInv == TypeOK /\ WipedInv /\ PaddedInv /\ ArrangedInv /\ ReaderInv /\ CalledInv

LEMMA InitFrame == Init => FrameInv
<1> SUFFICES ASSUME Init PROVE FrameInv
  OBVIOUS
<1>1. TypeOK
  BY InitTypes
<1>2. pc = "build"
  BY Zenon DEF Init
<1> QED
  BY <1>1, <1>2 DEF FrameInv, WipedInv, PaddedInv, ArrangedInv, ReaderInv, CalledInv

LEMMA FillFrame == FrameInv /\ Fill => FrameInv'
<1> SUFFICES ASSUME FrameInv, Fill PROVE FrameInv'
  OBVIOUS
<1>1. TypeOK'
  BY NextTypes, Zenon DEF FrameInv, Next
<1>2. /\ layer' = layer /\ call' = call + 1 /\ pc' = "pad"
      /\ buff' = [i \in DOMAIN buff |->
                    IF /\ i < Extent(layer.in, InPad(layer))
                       /\ InPad(layer) # 0 \/ i >= Size(layer.in)
                    THEN Zero ELSE buff[i]]
  BY Zenon DEF Fill
<1>3. CalledInv'
  <2>1. call \in Nat
    BY Shapes DEF FrameInv
  <2> QED
    BY <1>2, <2>1 DEF CalledInv
<1>4. WipedInv'
  <2> SUFFICES ASSUME NEW i \in DOMAIN buff', i < Extent(layer.in, InPad(layer)),
                      InPad(layer) # 0 \/ i >= Size(layer.in)
               PROVE  buff'[i] = Zero
    BY <1>2, Zenon DEF WipedInv
  <2>1. i \in DOMAIN buff
    BY <1>2, Zenon
  <2> QED
    BY <1>2, <2>1, Zenon
<1>5. ~(pc' \in {"rearrange", "ioctl"}) /\ pc' # "ioctl" /\ ~(pc' \in {"unrearrange", "copy"})
  BY <1>2
<1>6. PaddedInv' /\ ArrangedInv' /\ ReaderInv'
  BY <1>5, Zenon DEF PaddedInv, ArrangedInv, ReaderInv
<1> QED
  BY <1>1, <1>3, <1>4, <1>6, Zenon DEF FrameInv

LEMMA PadInputFrame == FrameInv /\ PadInput => FrameInv'
<1> SUFFICES ASSUME FrameInv, PadInput PROVE FrameInv'
  OBVIOUS
<1> DEFINE s == layer.in
           p == InPad(layer)
           plane == (s.h + 2 * p) * (s.w + 2 * p)
           E == Extent(s, p)
           px(i) == Pixels(s, p, i % plane)
           I(i) == Input(call, (i \div plane) * s.h * s.w + CHOOSE x \in px(i) : TRUE)
<1>1. TypeOK /\ TypeOK'
  BY NextTypes, Zenon DEF FrameInv, Next
<1>2. layer' = layer /\ call' = call /\ pc = "pad" /\ pc' = "rearrange"
  BY Zenon DEF PadInput
<1>3. buff' = [i \in DOMAIN buff |->
                 IF p = 0 THEN IF i < Size(s) THEN Input(call, i) ELSE buff[i]
                 ELSE IF i \div plane < s.c /\ px(i) # {} THEN I(i) ELSE buff[i]]
  BY Zenon DEF PadInput
<1>4. \A i : PaddedByte(layer, call, i) =
               IF p = 0 THEN IF i < Size(s) THEN Input(call, i) ELSE Zero
               ELSE IF i \div plane < s.c /\ px(i) # {} THEN I(i) ELSE Zero
  BY Zenon DEF PaddedByte
<1>5. \A i \in DOMAIN buff : i < E /\ (p # 0 \/ i >= Size(s)) => buff[i] = Zero
  BY <1>2, Zenon DEF FrameInv, WipedInv
<1>6. IsLayer(layer) /\ DOMAIN buff = Array(BuffSize(layer))
  BY <1>1, Shapes, Zenon DEF TypeOK
<1>7. E \in Nat /\ E <= BuffSize(layer) /\ BuffSize(layer) \in Nat /\ Size(s) \in Nat
  <2>1. IsShape(s)
    BY <1>6 DEF IsLayer
  <2> QED
    BY <1>6, <2>1, BuffHolds, SizeFits
<1> HIDE DEF s, p, plane, E, px, I
<1>8. ASSUME NEW i \in Array(E) PROVE buff'[i] = PaddedByte(layer, call, i)
  <2>1. i \in DOMAIN buff /\ i < E /\ (i < Size(s) \/ i >= Size(s))
    BY <1>6, <1>7 DEF Array
  <2>2. p # 0 \/ i >= Size(s) => buff[i] = Zero
    BY <1>5, <2>1, Zenon
  <2> QED
    BY <1>3, <1>4, <2>1, <2>2, Zenon
<1>9. PaddedInv'
  BY <1>2, <1>8, Zenon DEF PaddedInv, E, s, p
<1>10. CalledInv'
  BY <1>2 DEF FrameInv, CalledInv
<1>11. pc' # "pad" /\ pc' # "ioctl" /\ ~(pc' \in {"unrearrange", "copy"})
  BY <1>2
<1>12. WipedInv' /\ ArrangedInv' /\ ReaderInv'
  BY <1>11, Zenon DEF WipedInv, ArrangedInv, ReaderInv
<1> QED
  BY <1>1, <1>9, <1>10, <1>12, Zenon DEF FrameInv

LEMMA RearrangeFrame == FrameInv /\ Rearrange => FrameInv'
<1> SUFFICES ASSUME FrameInv, Rearrange PROVE FrameInv'
  OBVIOUS
<1> DEFINE s == Padded(layer.in, InPad(layer))
<1>1. TypeOK /\ TypeOK'
  BY NextTypes, Zenon DEF FrameInv, Next
<1>2. /\ layer' = layer /\ call' = call /\ buff' = buff /\ pc = "rearrange" /\ pc' = "ioctl"
      /\ ia' = [k \in DOMAIN ia |-> buff[InIndex(s.h * s.w, k)]]
  BY Zenon DEF Rearrange
<1>3. DOMAIN ia = Array(Extent(layer.in, InPad(layer)))
  BY <1>1, Zenon DEF TypeOK
<1>4. ArrangedInv'
  BY <1>2, <1>3, Zenon DEF ArrangedInv
<1>5. pc \in {"rearrange", "ioctl"} /\ pc \in {"pad", "rearrange", "ioctl"}
  BY <1>2
<1>6. PaddedInv' /\ CalledInv'
  BY <1>2, <1>5, Zenon DEF FrameInv, PaddedInv, CalledInv
<1>7. pc' # "pad" /\ ~(pc' \in {"unrearrange", "copy"})
  BY <1>2
<1>8. WipedInv' /\ ReaderInv'
  BY <1>7, Zenon DEF WipedInv, ReaderInv
<1> QED
  BY <1>1, <1>4, <1>6, <1>8, Zenon DEF FrameInv

LEMMA IoctlFrame == FrameInv /\ Ioctl => FrameInv'
<1> SUFFICES ASSUME FrameInv, Ioctl PROVE FrameInv'
  OBVIOUS
<1>1. TypeOK'
  BY NextTypes, Zenon DEF FrameInv, Next
<1>2. 1 \in DOMAIN layer.outs
  <2>1. TypeOK
    BY Zenon DEF FrameInv
  <2> QED
    BY <2>1, Shapes DEF Outs
<1>3. /\ layer' = layer /\ call' = call /\ pc' = "unrearrange"
      /\ oa' = [j \in DOMAIN layer.outs |-> FromIp(call, j, layer.outs[j])]
      /\ framed' = IF layer.readerPad = 0 THEN framed
                   ELSE AddPad(oa'[1], layer.outs[1], layer.readerPad)
  BY Zenon DEF Ioctl
<1>4. oa'[1] = FromIp(call, 1, layer.outs[1])
  BY <1>2, <1>3, Zenon
<1>5. ReaderInv'
  BY <1>3, <1>4, Zenon DEF ReaderInv
<1>6. pc' # "pad" /\ pc' # "ioctl" /\ ~(pc' \in {"rearrange", "ioctl"}) /\ ~(pc' \in {"pad", "rearrange", "ioctl"})
  BY <1>3
<1>7. WipedInv' /\ PaddedInv' /\ ArrangedInv' /\ CalledInv'
  BY <1>6, Zenon DEF WipedInv, PaddedInv, ArrangedInv, CalledInv
<1> QED
  BY <1>1, <1>5, <1>7, Zenon DEF FrameInv

LEMMA AfterwardsFrame == FrameInv /\ (BuildWeights \/ IoctlFails \/ Unrearrange \/ CopyOutput) => FrameInv'
<1> SUFFICES ASSUME FrameInv, BuildWeights \/ IoctlFails \/ Unrearrange \/ CopyOutput PROVE FrameInv'
  OBVIOUS
<1>1. TypeOK'
  BY NextTypes, Zenon DEF FrameInv, Next
<1>2. /\ layer' = layer /\ call' = call /\ framed' = framed
      /\ pc' = "idle" \/ (pc' \in {"unrearrange", "copy"} /\ pc \in {"unrearrange", "copy"})
  BY Zenon DEF BuildWeights, IoctlFails, Unrearrange, CopyOutput
<1>3. /\ pc' # "pad" /\ pc' # "ioctl" /\ ~(pc' \in {"rearrange", "ioctl"}) /\ ~(pc' \in {"pad", "rearrange", "ioctl"})
      /\ (pc' \in {"unrearrange", "copy"} => pc \in {"unrearrange", "copy"})
  BY <1>2
<1>4. ReaderInv'
  BY <1>2, <1>3, Zenon DEF FrameInv, ReaderInv
<1>5. WipedInv' /\ PaddedInv' /\ ArrangedInv' /\ CalledInv'
  BY <1>3, Zenon DEF WipedInv, PaddedInv, ArrangedInv, CalledInv
<1> QED
  BY <1>1, <1>4, <1>5, Zenon DEF FrameInv

LEMMA NextFrame == FrameInv /\ [Next]_vars => FrameInv'
<1> SUFFICES ASSUME FrameInv, UNCHANGED vars PROVE FrameInv'
  BY FillFrame, PadInputFrame, RearrangeFrame, IoctlFrame, AfterwardsFrame, Zenon DEF Next
<1>1. TypeOK'
  BY NextTypes, Zenon DEF FrameInv
<1>2. layer' = layer /\ call' = call /\ pc' = pc /\ buff' = buff /\ ia' = ia /\ framed' = framed
  BY Zenon DEF vars
<1>3. WipedInv' /\ PaddedInv' /\ ArrangedInv' /\ ReaderInv' /\ CalledInv'
  BY <1>2, Zenon DEF FrameInv, WipedInv, PaddedInv, ArrangedInv, ReaderInv, CalledInv
<1> QED
  BY <1>1, <1>3, Zenon DEF FrameInv

\* The IP receives the image where conv_chw_pad put it, in the accelerator's layout.
LEMMA ImageArrives ==
    ASSUME FrameInv, pc = "ioctl"
    PROVE  HoldsImage(ia, layer, call)
<1>1. ASSUME NEW l, IsLayer(l)
      PROVE  \A n : \A c \in Nat :
                \A y \in 0 .. (l.in.h + 2 * InPad(l)) - 1, x \in 0 .. (l.in.w + 2 * InPad(l)) - 1 :
                   PaddedByte(l, n, c * ((l.in.h + 2 * InPad(l)) * (l.in.w + 2 * InPad(l)))
                                      + (y * (l.in.w + 2 * InPad(l)) + x)) = ImageByte(l, n, c, y, x)
  BY <1>1, PaddedPixel
<1> DEFINE s == layer.in
           p == InPad(layer)
           H == s.h + 2 * p
           W == s.w + 2 * p
           N == H * W
           T == UpRound(s.c, Tile)
           E == Extent(s, p)
<1>2. TypeOK /\ IsLayer(layer) /\ call \in Nat
  BY Shapes DEF FrameInv
<1>3. IsShape(s) /\ p \in Nat
  BY <1>2 DEF IsLayer, InPad
<1>4. /\ s.c \in Nat \ {0} /\ s.h \in Nat \ {0} /\ s.w \in Nat \ {0} /\ T \in Nat \ {0}
  BY <1>3, ShapeFacts
<1>5. E = (T * Tile) * N
  BY <1>3, ShapeFacts
<1>6. Padded(s, p).h = H /\ Padded(s, p).w = W
  BY <1>3, <1>4 DEF Padded, IsShape
<1>7. ia = [k \in Array(E) |-> buff[InIndex(N, k)]]
  <2>1. ia = [k \in Array(E) |-> buff[InIndex(Padded(s, p).h * Padded(s, p).w, k)]]
    BY Zenon DEF FrameInv, ArrangedInv
  <2> QED
    BY <1>6, <2>1, Zenon
<1>8. \A i \in Array(E) : buff[i] = PaddedByte(layer, call, i)
  BY DEF FrameInv, PaddedInv
<1>9. ASSUME NEW c \in 0 .. T * Tile - 1, NEW y \in 0 .. H - 1, NEW x \in 0 .. W - 1
      PROVE  ia[Place(c, y, x, H, W)] =
               IF c < s.c /\ y - FirstRow(p) \in 0 .. s.h - 1 /\ x - p \in 0 .. s.w - 1
               THEN Input(call, (c * s.h + (y - FirstRow(p))) * s.w + (x - p)) ELSE Zero
  <2> DEFINE t == c \div Tile
             r == c % Tile
             m == y * W + x
             k == PlaceAt(N, t, m, r)
  <2>1. c \in Nat /\ t \in 0 .. T - 1 /\ t \in Nat /\ r \in 0 .. Tile - 1 /\ c = t * Tile + r
    BY <1>4, TileDigits
  <2>2. H \in Nat \ {0} /\ W \in Nat \ {0} /\ y \in 0 .. H - 1 /\ x \in 0 .. W - 1 /\ y \in Nat /\ x \in Nat
    BY <1>3, <1>4
  <2>3. PaddedByte(layer, call, c * N + m) = ImageByte(layer, call, c, y, x)
    BY <1>1, <1>2, <2>1, Zenon
  <2> HIDE DEF s, p, H, W, T, t, r
  <2>4. N \in Nat \ {0} /\ m \in 0 .. N - 1
    <3>1. N \in Nat \ {0}
      BY <2>2
    <3> QED
      BY <2>2, <3>1, DigitFits
  <2>5. Place(c, y, x, H, W) = k
    BY <2>1, <2>2, PlaceIs DEF t, r
  <2> HIDE DEF N, m, E
  <2>6. k \in Array(E)
    <3>1. T \in Nat
      BY <1>4
    <3>2. k \in Array((T * Tile) * N)
      BY <2>1, <2>4, <3>1, PlaceInside, Zenon DEF k
    <3> QED
      BY <1>5, <3>2, Zenon
  <2>7. InIndex(N, k) = c * N + m
    <3>1. InIndex(N, k) = (t * Tile + r) * N + m
      BY <2>1, <2>4, InputPlaced DEF PlaceAt
    <3> QED
      BY <2>1, <3>1, Zenon
  <2>8. c * N + m \in Array(E)
    <3>1. c \in 0 .. T * Tile - 1 /\ T * Tile \in Nat /\ N \in Nat
      BY <1>4, <2>4, <1>9 DEF Tile
    <3>2. c * N + m \in 0 .. (T * Tile) * N - 1
      BY <2>4, <3>1, DigitFits
    <3> QED
      BY <1>5, <3>2, Zenon DEF Array
  <2> HIDE DEF k
  <2>9. ia[k] = PaddedByte(layer, call, c * N + m)
    BY <1>7, <1>8, <2>6, <2>7, <2>8, Zenon
  <2> QED
    BY <2>3, <2>5, <2>9, Zenon DEF ImageByte, s, p
<1> QED
  BY <1>9, Zenon DEF HoldsImage, ImageAt

\* For any shapes and paddings: which paddings reach the IP as the network asks, from
\* the library and from the driver, and that no other does.
THEOREM FramedUnlessPaddedOddly == Spec => []FramedUnlessOddlyPadded
<1>1. FrameInv => InputFramed
  <2> SUFFICES ASSUME FrameInv, pc = "ioctl" PROVE InputFramed
    BY Zenon DEF InputFramed
  <2> DEFINE s == layer.in
             pads == layer.paddings
             h == s.h + pads[1] + pads[2]
             w == s.w + pads[3] + pads[4]
  <2>1. TypeOK /\ IsLayer(layer) /\ call \in Nat /\ call # 0
    BY Shapes DEF FrameInv, CalledInv
  <2>2. IsShape(s) /\ pads[1] \in Nat /\ pads[3] \in Nat /\ h \in Nat /\ w \in Nat
    <3>1. IsShape(s) /\ pads \in [1 .. 4 -> Nat]
      BY <2>1 DEF IsLayer
    <3>2. s.h \in Nat /\ s.w \in Nat
      BY <3>1 DEF IsShape
    <3>3. pads[1] \in Nat /\ pads[2] \in Nat /\ pads[3] \in Nat /\ pads[4] \in Nat
      BY <3>1
    <3> QED
      BY <3>1, <3>2, <3>3
  <2>3. DOMAIN ia = Array(Extent(s, InPad(layer)))
    BY <2>1, Zenon DEF TypeOK
  <2>4. IsFramed(ia, s, pads[1], pads[3], h, w, LAMBDA i : Input(call, i), TRUE)
          <=> ImageAt(ia, s, pads[1], pads[3], h, w, call)
    BY <2>2, FramedIsImage
  <2>5. IsAsked(ia, layer, call) <=> PaddedRight(pads)
    BY <2>1, ImageArrives, RightPaddingSuffices, RightPaddingNeeded
  <2> QED
    BY <2>3, <2>4, <2>5, Zenon DEF InputFramed, IsAsked, PaddedRight
<1>2. FrameInv => SharedOutputFramed
  <2> SUFFICES ASSUME FrameInv, pc = "unrearrange", layer.readerPad > 0 PROVE SharedOutputFramed
    BY Zenon DEF SharedOutputFramed
  <2>1. TypeOK /\ IsLayer(layer) /\ IsShape(layer.outs[1])
    <3>1. TypeOK
      BY Zenon DEF FrameInv
    <3> QED
      BY <3>1, Shapes
  <2>2. layer.readerPad \in Nat \ {0}
    BY <2>1 DEF IsLayer
  <2>3. framed = AddPad(FromIp(call, 1, layer.outs[1]), layer.outs[1], layer.readerPad)
    BY <2>2 DEF FrameInv, ReaderInv
  <2>4. IsFramedAround(framed, layer.outs[1], layer.readerPad, call) <=> layer.readerPad = 1
    BY <2>1, <2>2, <2>3, SharedPadding, Zenon
  <2> QED
    BY <2>4, Zenon DEF SharedOutputFramed, IsFramedAround
<1>3. FrameInv => FramedUnlessOddlyPadded
  BY <1>1, <1>2, Zenon DEF FramedUnlessOddlyPadded
<1> QED
  BY <1>3, InitFrame, NextFrame, PTL DEF Spec
=============================================================================
