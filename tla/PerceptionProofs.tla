-------------------------- MODULE PerceptionProofs --------------------------
(* Theorems about Perception for every size of the item and the frame, every  *)
(* click, all lists of detections and tracks, all outputs of the networks and *)
(* all windows of latencies, with their proofs.                               *)
EXTENDS Perception, SequenceTheorems, FiniteSetTheorems, WellFoundedInduction, TLAPS

(* ---- the letterbox ---- *)
Sizes == [width : Int, height : Int]

LEMMA WholeQuotient ==
    ASSUME NEW n \in Int, NEW k \in Int, k > 0
    PROVE  (n * k) \div k = n
OBVIOUS

LEMMA ProductOfNaturals ==
    ASSUME NEW n \in Nat, NEW k \in Nat
    PROVE  n * k \in Nat /\ n * k >= 0
OBVIOUS

(* Where the picture lies: g is the length of a pixel of the frame, in the    *)
(* units of the box.                                                          *)
Drawn(box, frame, item, g) ==
    /\ g \in Int /\ box.scale[1] \in Int /\ box.scale[2] \in Int
    /\ g > 0 /\ box.scale[1] > 0 /\ box.scale[2] > 0
    /\ g * box.scale[2] = box.scale[1] * Fine(frame)
    /\ box.contentW = frame.width * g
    /\ box.contentH = frame.height * g
    /\ box.offsetX \in Int /\ box.offsetX >= 0
    /\ box.offsetY \in Int /\ box.offsetY >= 0
    /\ item.width * Fine(frame) = frame.width * g + 2 * box.offsetX
    /\ item.height * Fine(frame) = frame.height * g + 2 * box.offsetY
    /\ box.offsetX = 0 \/ box.offsetY = 0

(* One side of the picture: len is that of the frame, s / t the scale.        *)
LEMMA SideIsDrawn ==
    ASSUME NEW len \in Int, NEW s \in Int, NEW t \in Int, NEW fine \in Int, NEW g \in Int,
           t > 0, g * t = s * fine
    PROVE  (len * s * fine) \div t = len * g
<1>1. len * s * fine = (len * g) * t
  OBVIOUS
<1> QED
  BY <1>1, WholeQuotient

LEMMA BarsAreAlike ==
    ASSUME NEW whole \in Int, NEW w \in Int, NEW half \in Int, whole - w = half * 2
    PROVE  (whole - w) \div 2 = half /\ whole = w + 2 * half
OBVIOUS

LEMMA LetterboxIsDrawn ==
    ASSUME NEW frame \in Sizes, NEW item \in Sizes, Fits(frame, item)
    PROVE  \E g \in Int : Drawn(ComputeLetterbox(item, frame), frame, item, g)
<1> DEFINE fw == frame.width
           fh == frame.height
           iw == item.width
           ih == item.height
           fine == Fine(frame)
           box == ComputeLetterbox(item, frame)
           s == Scale(item, frame)[1]
           t == Scale(item, frame)[2]
<1>1. /\ fw \in Int /\ fh \in Int /\ iw \in Int /\ ih \in Int
      /\ fw > 0 /\ fh > 0 /\ iw > 0 /\ ih > 0
  BY DEF Sizes, Fits
<1>2. fine = 2 * fw * fh /\ fine \in Int /\ fine > 0
  BY <1>1 DEF Fine
<1>3. /\ box.scale[1] = s /\ box.scale[2] = t
      /\ box.contentW = (fw * s * fine) \div t
      /\ box.contentH = (fh * s * fine) \div t
      /\ box.offsetX = (iw * fine - (fw * s * fine) \div t) \div 2
      /\ box.offsetY = (ih * fine - (fh * s * fine) \div t) \div 2
  BY DEF ComputeLetterbox
<1>4. ASSUME NEW g \in Int, NEW ox \in Int, NEW oy \in Int,
             s \in Int, t \in Int, s > 0, t > 0, g > 0, g * t = s * fine, ox >= 0, oy >= 0,
             iw * fine - fw * g = ox * 2, ih * fine - fh * g = oy * 2, ox = 0 \/ oy = 0
      PROVE  Drawn(box, frame, item, g)
  <2>1. (fw * s * fine) \div t = fw * g /\ (fh * s * fine) \div t = fh * g
    <3>1. /\ fw \in Int /\ fh \in Int /\ fine \in Int /\ s \in Int /\ t \in Int
          /\ t > 0 /\ g * t = s * fine
      BY <1>1, <1>2, <1>4
    <3> HIDE DEF fw, fh, fine, s, t
    <3>2. (fw * s * fine) \div t = fw * g
      BY <3>1, SideIsDrawn
    <3>3. (fh * s * fine) \div t = fh * g
      BY <3>1, SideIsDrawn
    <3> QED
      BY <3>2, <3>3
  <2>2. fw * g \in Int /\ fh * g \in Int /\ iw * fine \in Int /\ ih * fine \in Int
    BY <1>1, <1>2, <1>4
  <2>3. /\ (iw * fine - fw * g) \div 2 = ox /\ iw * fine = fw * g + 2 * ox
        /\ (ih * fine - fh * g) \div 2 = oy /\ ih * fine = fh * g + 2 * oy
    BY <1>4, <2>2, BarsAreAlike
  <2> HIDE DEF box, s, t, fine
  <2>4. /\ box.scale[1] = s /\ box.scale[2] = t
        /\ box.contentW = fw * g /\ box.contentH = fh * g
        /\ box.offsetX = ox /\ box.offsetY = oy
    BY <1>3, <2>1, <2>3
  <2> QED
    BY <1>4, <2>3, <2>4 DEF Drawn, fine
<1>5. CASE iw * fh <= ih * fw
  <2> DEFINE g == 2 * fh * iw
             oy == ih * fw * fh - fh * fh * iw
  <2>1. s = iw /\ t = fw
    BY <1>5 DEF Scale
  <2> HIDE DEF fw, fh, iw, ih, s, t, fine
  <2>2. g \in Int /\ g > 0 /\ oy \in Int /\ g * fw = iw * fine
    BY <1>1, <1>2
  <2>3. oy >= 0
    <3> DEFINE gap == ih * fw - iw * fh
    <3>1. oy = fh * gap
      BY <1>1
    <3>2. gap \in Nat
      BY <1>1, <1>5
    <3>3. fh \in Nat
      BY <1>1
    <3> HIDE DEF oy, gap
    <3> QED
      BY <3>1, <3>2, <3>3, ProductOfNaturals, Zenon
  <2>4. iw * fine - fw * g = 0 * 2 /\ ih * fine - fh * g = oy * 2
    BY <1>1, <1>2
  <2>5. Drawn(box, frame, item, g)
    <3> HIDE DEF g, oy, box
    <3>1. s \in Int /\ t \in Int /\ s > 0 /\ t > 0 /\ g * t = s * fine
      BY <1>1, <2>1, <2>2
    <3>2. 0 \in Int /\ 0 >= 0 /\ 0 = 0
      OBVIOUS
    <3> QED
      BY <1>4, <2>2, <2>3, <2>4, <3>1, <3>2, Zenon
  <2> QED
    BY <2>2, <2>5
<1>6. CASE ~(iw * fh <= ih * fw)
  <2> DEFINE g == 2 * fw * ih
             ox == iw * fw * fh - fw * fw * ih
  <2>1. s = ih /\ t = fh
    BY <1>6 DEF Scale
  <2> HIDE DEF fw, fh, iw, ih, s, t, fine
  <2>2. g \in Int /\ g > 0 /\ ox \in Int /\ g * fh = ih * fine
    BY <1>1, <1>2
  <2>3. ox >= 0
    <3> DEFINE gap == iw * fh - ih * fw
    <3>1. ox = fw * gap
      BY <1>1
    <3>2. gap \in Nat
      BY <1>1, <1>6
    <3>3. fw \in Nat
      BY <1>1
    <3> HIDE DEF ox, gap
    <3> QED
      BY <3>1, <3>2, <3>3, ProductOfNaturals, Zenon
  <2>4. iw * fine - fw * g = ox * 2 /\ ih * fine - fh * g = 0 * 2
    BY <1>1, <1>2
  <2>5. Drawn(box, frame, item, g)
    <3> HIDE DEF g, ox, box
    <3>1. s \in Int /\ t \in Int /\ s > 0 /\ t > 0 /\ g * t = s * fine
      BY <1>1, <2>1, <2>2
    <3>2. 0 \in Int /\ 0 >= 0 /\ 0 = 0
      OBVIOUS
    <3> QED
      BY <1>4, <2>2, <2>3, <2>4, <3>1, <3>2, Zenon
  <2> QED
    BY <2>2, <2>5
<1> QED
  BY <1>5, <1>6

(* One direction of the picture, with a bar of length o on either side of it: *)
(* len pixels of length g, at the scale s / t.                                *)
Side(len, s, t, fine, g, i, o) ==
    /\ len \in Int /\ s \in Int /\ t \in Int /\ fine \in Int /\ g \in Int /\ i \in Int /\ o \in Int
    /\ t > 0 /\ g > 0
    /\ g * t = s * fine
    /\ i * fine = len * g + 2 * o

(* What a click at x means there: the click on the other side, the sum of     *)
(* both, the end of the picture, and the pixel drawn where the click went.    *)
Lands(len, s, t, fine, g, i, o, x) ==
    LET at == x * fine - o
    IN  /\ at \in Int
        /\ (i - x) * fine - o = len * g - at
        /\ at * t + (len * g - at) * t = len * (s * fine)
        /\ (len * s * fine) \div t = len * g
        /\ \A n \in 0..len : o + (n * s * fine) \div t = x * fine =>
              at >= 0 /\ at <= len * g /\ at * t = n * (s * fine)

LEMMA Order ==
    ASSUME NEW n \in Int, NEW len \in Int, NEW g \in Int, 0 <= n, n <= len, g > 0
    PROVE  0 <= n * g /\ n * g <= len * g
<1>1. n \in Nat /\ len - n \in Nat /\ g \in Nat
  OBVIOUS
<1>2. n * g >= 0 /\ (len - n) * g >= 0
  BY <1>1, ProductOfNaturals, Zenon
<1>3. (len - n) * g = len * g - n * g
  OBVIOUS
<1>4. n * g \in Int /\ len * g \in Int
  OBVIOUS
<1> QED
  BY <1>2, <1>3, <1>4

LEMMA ClickLands ==
    ASSUME NEW len, NEW s, NEW t, NEW fine, NEW g, NEW i, NEW o, Side(len, s, t, fine, g, i, o),
           NEW x \in Int
    PROVE  Lands(len, s, t, fine, g, i, o, x)
<1> DEFINE at == x * fine - o
<1>1. /\ len \in Int /\ s \in Int /\ t \in Int /\ fine \in Int /\ g \in Int /\ i \in Int /\ o \in Int
      /\ t > 0 /\ g > 0
      /\ g * t = s * fine
      /\ i * fine = len * g + 2 * o
  BY DEF Side
<1>2. /\ at \in Int /\ len * g \in Int /\ x * fine \in Int /\ i * fine \in Int
  BY <1>1
<1>3. (i - x) * fine - o = len * g - at
  <2>1. (i - x) * fine = i * fine - x * fine
    BY <1>1
  <2> QED
    BY <1>1, <1>2, <2>1
<1>4. at * t + (len * g - at) * t = len * (s * fine)
  <2> HIDE DEF at
  <2>1. at * t + (len * g - at) * t = (len * g) * t
    BY <1>1, <1>2
  <2>2. (len * g) * t = len * (g * t)
    BY <1>1
  <2> QED
    BY <1>1, <2>1, <2>2
<1>5. ASSUME NEW n \in 0..len, o + (n * s * fine) \div t = x * fine
      PROVE  at >= 0 /\ at <= len * g /\ at * t = n * (s * fine)
  <2>1. n \in Int /\ 0 <= n /\ n <= len
    BY <1>1
  <2>2. (n * s * fine) \div t = n * g
    BY <1>1, <2>1, SideIsDrawn
  <2>3. n * g \in Int /\ 0 <= n * g /\ n * g <= len * g
    BY <1>1, <2>1, Order
  <2>4. at = n * g
    BY <1>1, <1>2, <1>5, <2>2, <2>3
  <2> HIDE DEF at
  <2>5. (n * g) * t = n * (g * t)
    BY <1>1, <2>1
  <2> QED
    BY <1>1, <2>3, <2>4, <2>5
<1>6. (len * s * fine) \div t = len * g
  BY <1>1, SideIsDrawn
<1> QED
  BY <1>2, <1>3, <1>4, <1>5, <1>6 DEF Lands

(* A click that is mapped lands where the picture is drawn.                   *)
LEMMA MappedClick ==
    ASSUME NEW item \in Sizes, NEW frame \in Sizes, NEW click \in [x : Int, y : Int],
           computed = [op |-> "map", item |-> item, frame |-> frame, click |-> click,
                       point |-> ItemToFrame(ComputeLetterbox(item, frame), click, frame)]
    PROVE  ClicksLandWhereDrawn
<1> DEFINE box == ComputeLetterbox(item, frame)
           other == [x |-> item.width - click.x, y |-> item.height - click.y]
           point == ItemToFrame(box, click, frame)
           across == ItemToFrame(box, other, frame)
           Is(ratio, n) == ratio[1] = n * ratio[2]
           Shown(x, y) == FrameToItem(box, [x |-> x, y |-> y], frame)
           near == Shown(0, 0)
           far == Shown(frame.width, frame.height)
           fine == Fine(frame)
           Goal == IF ~Fits(frame, item) THEN point = NoPoint
                   ELSE /\ point # NoPoint <=>
                             /\ near.x <= click.x * fine /\ click.x * fine <= far.x
                             /\ near.y <= click.y * fine /\ click.y * fine <= far.y
                        /\ point # NoPoint =>
                             /\ Is(<<point.x[1] + across.x[1], across.x[2]>>, frame.width)
                             /\ Is(<<point.y[1] + across.y[1], across.y[2]>>, frame.height)
                        /\ \A x \in 0..frame.width, y \in 0..frame.height :
                             Shown(x, y) = [x |-> click.x * fine, y |-> click.y * fine] =>
                               point # NoPoint /\ Is(point.x, x) /\ Is(point.y, y)
                        /\ far.x <= item.width * fine /\ far.y <= item.height * fine
                        /\ far.x = item.width * fine \/ far.y = item.height * fine
<1>1. ClicksLandWhereDrawn <=> Goal
  <2>1. /\ computed.op = "map" /\ computed.item = item /\ computed.frame = frame
        /\ computed.click = click /\ computed.point = point
    OBVIOUS
  <2> QED
    BY <2>1 DEF ClicksLandWhereDrawn
<1>2. CASE ~Fits(frame, item)
  <2>1. box.scale = <<0, 1>>
    BY <1>2 DEF ComputeLetterbox
  <2>2. point = NoPoint
    BY <2>1 DEF ItemToFrame
  <2> QED
    BY <1>1, <1>2, <2>2
<1>3. CASE Fits(frame, item)
  <2>1. PICK g \in Int : Drawn(box, frame, item, g)
    BY <1>3, LetterboxIsDrawn
  <2> DEFINE fw == frame.width
             fh == frame.height
             iw == item.width
             ih == item.height
             s == box.scale[1]
             t == box.scale[2]
             ox == box.offsetX
             oy == box.offsetY
             atX == click.x * fine - ox
             atY == click.y * fine - oy
             inside == atX >= 0 /\ atY >= 0 /\ atX <= fw * g /\ atY <= fh * g
  <2>2. /\ fw \in Int /\ fh \in Int /\ iw \in Int /\ ih \in Int /\ fine \in Int
        /\ click.x \in Int /\ click.y \in Int
    BY DEF Sizes, Fine
  <2>3. /\ s \in Int /\ t \in Int /\ s > 0 /\ t > 0 /\ g > 0 /\ g * t = s * fine
        /\ box.contentW = fw * g /\ box.contentH = fh * g
        /\ ox \in Int /\ oy \in Int /\ ox >= 0 /\ oy >= 0
        /\ iw * fine = fw * g + 2 * ox /\ ih * fine = fh * g + 2 * oy
        /\ ox = 0 \/ oy = 0
    BY <2>1 DEF Drawn
  <2>4. Side(fw, s, t, fine, g, iw, ox) /\ Side(fh, s, t, fine, g, ih, oy)
    <3> HIDE DEF fw, fh, iw, ih, fine, s, t, ox, oy, box
    <3> QED
      BY <2>1, <2>2, <2>3 DEF Side
  <2>5. Lands(fw, s, t, fine, g, iw, ox, click.x) /\ Lands(fh, s, t, fine, g, ih, oy, click.y)
    <3> HIDE DEF fw, fh, iw, ih, fine, s, t, ox, oy, box
    <3> QED
      BY <2>2, <2>4, ClickLands
  <2>6. \A p : ItemToFrame(box, p, frame) =
               LET x == p.x * fine - ox
                   y == p.y * fine - oy
               IN  IF s = 0 \/ x < 0 \/ y < 0 \/ x > fw * g \/ y > fh * g THEN NoPoint
                   ELSE [x |-> <<x * t, s * fine>>, y |-> <<y * t, s * fine>>]
    <3> HIDE DEF box
    <3> QED
      BY <2>3 DEF ItemToFrame
  <2>7. \A x, y : Shown(x, y) = [x |-> ox + (x * s * fine) \div t, y |-> oy + (y * s * fine) \div t]
    <3> HIDE DEF box
    <3> QED
      BY <2>3 DEF FrameToItem
  <2> HIDE DEF box
  <2>8. other.x = iw - click.x /\ other.y = ih - click.y
    OBVIOUS
  <2> HIDE DEF other
  <2>9. /\ other.x * fine - ox = fw * g - atX /\ other.y * fine - oy = fh * g - atY
        /\ atX \in Int /\ atY \in Int /\ fw * g \in Int /\ fh * g \in Int
    <3>1. (iw - click.x) * fine - ox = fw * g - atX /\ atX \in Int
      BY <2>5 DEF Lands
    <3>2. (ih - click.y) * fine - oy = fh * g - atY /\ atY \in Int
      BY <2>5 DEF Lands
    <3>3. fw * g \in Int /\ fh * g \in Int
      BY <2>1, <2>2
    <3> QED
      BY <2>8, <3>1, <3>2, <3>3
  <2> DEFINE here == [x |-> <<atX * t, s * fine>>, y |-> <<atY * t, s * fine>>]
             there == [x |-> <<(fw * g - atX) * t, s * fine>>, y |-> <<(fh * g - atY) * t, s * fine>>]
  <2>10. point = IF inside THEN here ELSE NoPoint
    <3>1. point = IF s = 0 \/ atX < 0 \/ atY < 0 \/ atX > fw * g \/ atY > fh * g THEN NoPoint ELSE here
      BY <2>6
    <3> HIDE DEF point, here, atX, atY, s, fw, fh
    <3> QED
      BY <2>3, <2>9, <3>1
  <2>11. across = IF inside THEN there ELSE NoPoint
    <3> DEFINE x == other.x * fine - ox
               y == other.y * fine - oy
    <3>1. across = IF s = 0 \/ x < 0 \/ y < 0 \/ x > fw * g \/ y > fh * g THEN NoPoint
                   ELSE [x |-> <<x * t, s * fine>>, y |-> <<y * t, s * fine>>]
      BY <2>6
    <3>2. x = fw * g - atX /\ y = fh * g - atY
      BY <2>9
    <3> HIDE DEF x, y, across
    <3>3. across = IF s = 0 \/ x < 0 \/ y < 0 \/ x > fw * g \/ y > fh * g THEN NoPoint ELSE there
      BY <3>1, <3>2
    <3> HIDE DEF there, atX, atY, s, fw, fh
    <3> QED
      BY <2>3, <2>9, <3>2, <3>3
  <2>12. here # NoPoint /\ there # NoPoint
    <3>1. /\ atX * t \in Int /\ atY * t \in Int /\ s * fine \in Int
          /\ (fw * g - atX) * t \in Int /\ (fh * g - atY) * t \in Int
      BY <2>2, <2>3, <2>9
    <3>2. here \in [x : Int \X Int, y : Int \X Int] /\ there \in [x : Int \X Int, y : Int \X Int]
      BY <3>1
    <3> QED
      BY <3>2, PerceptionAssumption
  <2>13. far = [x |-> ox + fw * g, y |-> oy + fh * g]
    <3>1. far = [x |-> ox + (fw * s * fine) \div t, y |-> oy + (fh * s * fine) \div t]
      BY <2>7, Zenon
    <3>2. (fw * s * fine) \div t = fw * g
      BY <2>5 DEF Lands
    <3>3. (fh * s * fine) \div t = fh * g
      BY <2>5 DEF Lands
    <3> QED
      BY <3>1, <3>2, <3>3, Zenon
  <2>13a. near = [x |-> ox, y |-> oy]
    <3>1. near = [x |-> ox + (0 * s * fine) \div t, y |-> oy + (0 * s * fine) \div t]
      BY <2>7, Zenon
    <3>2. (0 * s * fine) \div t = 0
      <4> HIDE DEF s, t, fine
      <4>1. (0 * s * fine) \div t = 0 * g
        BY <2>2, <2>3, SideIsDrawn
      <4> QED
        BY <4>1
    <3>3. ox + 0 = ox /\ oy + 0 = oy
      BY <2>3
    <3> QED
      BY <3>1, <3>2, <3>3, Zenon
  <2>13b. point # NoPoint <=> /\ near.x <= click.x * fine /\ click.x * fine <= far.x
                             /\ near.y <= click.y * fine /\ click.y * fine <= far.y
    <3>1. point # NoPoint <=> inside
      <4> HIDE DEF point, here, inside
      <4> QED
        BY <2>10, <2>12
    <3>2. /\ near.x = ox /\ near.y = oy /\ far.x = ox + fw * g /\ far.y = oy + fh * g
      <4> HIDE DEF near, far
      <4> QED
        BY <2>13, <2>13a
    <3>3. PICK w \in Int, h \in Int, x \in Int, y \in Int :
             w = fw * g /\ h = fh * g /\ x = click.x * fine /\ y = click.y * fine
      BY <2>2, <2>9
    <3>4. inside <=> x - ox >= 0 /\ y - oy >= 0 /\ x - ox <= w /\ y - oy <= h
      BY <3>3
    <3> HIDE DEF near, far, inside, point, ox, oy
    <3>5. inside <=> near.x <= x /\ x <= far.x /\ near.y <= y /\ y <= far.y
      BY <2>3, <3>2, <3>3, <3>4
    <3> QED
      BY <3>1, <3>3, <3>5
  <2>14. ASSUME point # NoPoint
         PROVE  /\ Is(<<point.x[1] + across.x[1], across.x[2]>>, fw)
                /\ Is(<<point.y[1] + across.y[1], across.y[2]>>, fh)
    <3>1. point = here /\ across = there
      BY <2>10, <2>11, <2>14
    <3>2. /\ point.x[1] = atX * t /\ across.x[1] = (fw * g - atX) * t /\ across.x[2] = s * fine
          /\ point.y[1] = atY * t /\ across.y[1] = (fh * g - atY) * t /\ across.y[2] = s * fine
      <4> HIDE DEF point, across
      <4> QED
        BY <3>1
    <3>3. atX * t + (fw * g - atX) * t = fw * (s * fine)
      BY <2>5 DEF Lands
    <3>4. atY * t + (fh * g - atY) * t = fh * (s * fine)
      BY <2>5 DEF Lands
    <3> HIDE DEF point, across, atX, atY
    <3> QED
      BY <3>2, <3>3, <3>4
  <2>15. ASSUME NEW x \in 0..fw, NEW y \in 0..fh,
                Shown(x, y) = [x |-> click.x * fine, y |-> click.y * fine]
         PROVE  point # NoPoint /\ Is(point.x, x) /\ Is(point.y, y)
    <3>1. ox + (x * s * fine) \div t = click.x * fine /\ oy + (y * s * fine) \div t = click.y * fine
      <4>1. [x |-> ox + (x * s * fine) \div t, y |-> oy + (y * s * fine) \div t]
               = [x |-> click.x * fine, y |-> click.y * fine]
        BY <2>7, <2>15
      <4> QED
        BY <4>1
    <3>2. atX >= 0 /\ atX <= fw * g /\ atX * t = x * (s * fine)
      BY <2>5, <3>1 DEF Lands
    <3>3. atY >= 0 /\ atY <= fh * g /\ atY * t = y * (s * fine)
      BY <2>5, <3>1 DEF Lands
    <3> HIDE DEF point
    <3>4. point = here
      BY <2>10, <3>2, <3>3
    <3>5. /\ point.x[1] = atX * t /\ point.x[2] = s * fine
          /\ point.y[1] = atY * t /\ point.y[2] = s * fine
      BY <3>4
    <3> HIDE DEF atX, atY
    <3> QED
      BY <2>12, <3>2, <3>3, <3>4, <3>5
  <2>16. /\ far.x <= iw * fine /\ far.y <= ih * fine
         /\ far.x = iw * fine \/ far.y = ih * fine
    <3> HIDE DEF far, fw, fh, iw, ih, s, t, ox, oy, fine
    <3>1. far.x = ox + fw * g /\ far.y = oy + fh * g
      BY <2>13
    <3>2. PICK w \in Int, h \in Int : w = fw * g /\ h = fh * g
      BY <2>9
    <3>3. /\ far.x = ox + w /\ iw * fine = w + 2 * ox
          /\ far.y = oy + h /\ ih * fine = h + 2 * oy
          /\ ox \in Int /\ oy \in Int /\ ox >= 0 /\ oy >= 0 /\ (ox = 0 \/ oy = 0)
      BY <2>3, <3>1, <3>2
    <3> QED
      BY <3>2, <3>3
  <2> QED
    BY <1>1, <1>3, <2>13b, <2>14, <2>15, <2>16
<1> QED
  BY <1>2, <1>3

(* ---- the overlap of boxes ---- *)
LEMMA TimesPositive ==
    ASSUME NEW a \in Int, NEW b \in Int, NEW k \in Int, k > 0
    PROVE  a <= b <=> a * k <= b * k
<1>1. CASE a <= b
  <2>1. b - a \in Nat /\ k \in Nat
    BY <1>1
  <2>2. (b - a) * k >= 0
    BY <2>1, ProductOfNaturals, Zenon
  <2>3. (b - a) * k = b * k - a * k /\ b * k \in Int /\ a * k \in Int
    OBVIOUS
  <2> QED
    BY <1>1, <2>2, <2>3
<1>2. CASE b < a
  <2>1. a - b - 1 \in Nat /\ k \in Nat
    BY <1>2
  <2>2. (a - b - 1) * k >= 0
    BY <2>1, ProductOfNaturals, Zenon
  <2>3. (a - b - 1) * k = a * k - b * k - k /\ b * k \in Int /\ a * k \in Int
    OBVIOUS
  <2> QED
    BY <1>2, <2>2, <2>3
<1> QED
  BY <1>1, <1>2

Ratio(p) == p[1] \in Int /\ p[2] \in Int /\ p[2] > 0

LEMMA OverlapsCompare ==
    ASSUME NEW p, NEW q, NEW r, Ratio(p), Ratio(q), Ratio(r),
           ~MoreThan(p, q), ~MoreThan(q, r)
    PROVE  ~MoreThan(p, r)
<1> DEFINE a == p[1] * r[2]
           b == r[1] * p[2]
<1>1. /\ p[1] \in Int /\ q[1] \in Int /\ r[1] \in Int
      /\ p[2] \in Int /\ q[2] \in Int /\ r[2] \in Int
      /\ p[2] > 0 /\ q[2] > 0 /\ r[2] > 0
  BY DEF Ratio
<1>2. p[1] * q[2] <= q[1] * p[2] /\ q[1] * r[2] <= r[1] * q[2]
  <2>1. /\ p[1] * q[2] \in Int /\ q[1] * p[2] \in Int
        /\ q[1] * r[2] \in Int /\ r[1] * q[2] \in Int
    BY <1>1
  <2>2. ~(p[1] * q[2] > q[1] * p[2]) /\ ~(q[1] * r[2] > r[1] * q[2])
    BY DEF MoreThan
  <2> QED
    BY <2>1, <2>2
<1>3. (p[1] * q[2]) * r[2] <= (q[1] * p[2]) * r[2]
  <2>1. p[1] * q[2] \in Int /\ q[1] * p[2] \in Int
    BY <1>1
  <2> QED
    BY <1>1, <1>2, <2>1, TimesPositive, Zenon
<1>4. (q[1] * r[2]) * p[2] <= (r[1] * q[2]) * p[2]
  <2>1. q[1] * r[2] \in Int /\ r[1] * q[2] \in Int
    BY <1>1
  <2> QED
    BY <1>1, <1>2, <2>1, TimesPositive, Zenon
<1>5. /\ (p[1] * q[2]) * r[2] = a * q[2] /\ (r[1] * q[2]) * p[2] = b * q[2]
      /\ (q[1] * p[2]) * r[2] = (q[1] * r[2]) * p[2]
      /\ a \in Int /\ b \in Int
  BY <1>1
<1>6. a * q[2] <= b * q[2]
  <2> DEFINE c == (q[1] * r[2]) * p[2]
  <2>1. a * q[2] <= c /\ c <= b * q[2]
    BY <1>3, <1>4, <1>5
  <2>2. a * q[2] \in Int /\ b * q[2] \in Int /\ c \in Int
    BY <1>1, <1>5
  <2> HIDE DEF a, b, c
  <2> QED
    BY <2>1, <2>2
<1>7. a <= b
  <2> HIDE DEF a, b
  <2> QED
    BY <1>1, <1>5, <1>6, TimesPositive
<1> QED
  BY <1>5, <1>7 DEF MoreThan

LEMMA OverlapsAreOrdered ==
    ASSUME NEW p, NEW q, Ratio(p), Ratio(q), MoreThan(p, q)
    PROVE  ~MoreThan(q, p)
<1>1. p[1] * q[2] \in Int /\ q[1] * p[2] \in Int
  BY DEF Ratio
<1> QED
  BY <1>1 DEF MoreThan

LEMMA SmallerArea ==
    ASSUME NEW w \in Int, NEW h \in Int, NEW width \in Int, NEW height \in Int,
           0 < w, w <= width, 0 < h, h <= height
    PROVE  w * h <= width * height /\ w * h \in Int /\ width * height \in Int
<1>1. w * h <= width * h
  BY TimesPositive
<1>2. h * width <= height * width
  <2>1. width > 0
    OBVIOUS
  <2> QED
    BY <2>1, TimesPositive
<1>3. width * h = h * width /\ height * width = width * height
  OBVIOUS
<1>4. w * h \in Int /\ h * width \in Int /\ width * height \in Int
  OBVIOUS
<1> QED
  BY <1>1, <1>2, <1>3, <1>4

(* The union of two boxes that have pixels in common is never empty, so the   *)
(* overlap is always a fraction; the code's last test cannot be met.          *)
LEMMA OverlapIsRatio ==
    ASSUME NEW a \in Rects, NEW b \in Rects
    PROVE  Ratio(IntersectionOverUnion(a, b))
<1> DEFINE inter == Area(Meet(a, b))
<1>1. CASE Empty(a) \/ Empty(b) \/ inter = 0
  BY <1>1 DEF IntersectionOverUnion, NoOverlap, Ratio
<1>2. CASE ~(Empty(a) \/ Empty(b) \/ inter = 0)
  <2> DEFINE x == Greater(a.x, b.x)
             y == Greater(a.y, b.y)
             w == Lesser(a.x + a.width, b.x + b.width) - x
             h == Lesser(a.y + a.height, b.y + b.height) - y
  <2>1. /\ a.x \in Int /\ a.y \in Int /\ a.width \in Int /\ a.height \in Int
        /\ b.x \in Int /\ b.y \in Int /\ b.width \in Int /\ b.height \in Int
    BY DEF Rects
  <2>2. a.width > 0 /\ a.height > 0 /\ b.width > 0 /\ b.height > 0
    BY <1>2, <2>1 DEF Empty
  <2>3. /\ w \in Int /\ w <= a.width
        /\ h \in Int /\ h <= a.height
    BY <2>1 DEF Greater, Lesser
  <2>4. Meet(a, b) = IF w <= 0 \/ h <= 0 THEN Rect(0, 0, 0, 0) ELSE Rect(x, y, w, h)
    BY DEF Meet, Empty, Rect
  <2> HIDE DEF x, y, w, h
  <2>5. w > 0 /\ h > 0 /\ inter = w * h
    <3>1. Area(Rect(0, 0, 0, 0)) = 0 /\ Area(Rect(x, y, w, h)) = w * h
      BY DEF Area, Rect
    <3> QED
      BY <1>2, <2>3, <2>4, <3>1
  <2>6. inter <= Area(a) /\ inter \in Int /\ Area(a) \in Int
    <3>1. w * h <= a.width * a.height /\ w * h \in Int /\ a.width * a.height \in Int
      BY <2>1, <2>2, <2>3, <2>5, SmallerArea
    <3> QED
      BY <2>5, <3>1 DEF Area
  <2>7. Area(b) > 0 /\ Area(b) \in Int
    <3>1. 1 * 1 <= b.width * b.height /\ b.width * b.height \in Int
      BY <2>1, <2>2, SmallerArea
    <3> QED
      BY <3>1 DEF Area
  <2>8. IntersectionOverUnion(a, b) = <<inter, Area(a) + Area(b) - inter>>
    BY <1>2 DEF IntersectionOverUnion
  <2> HIDE DEF inter
  <2> QED
    BY <2>6, <2>7, <2>8 DEF Ratio
<1> QED
  BY <1>1, <1>2

(* ---- the greedy matching ---- *)
Objects == [class : Nat, box : Rects]
Match == [detection : Nat, track : Nat, iou : Int \X Int]
CallTyped(call) ==
    call \in [detections : Seq(Objects), tracks : Seq(Objects), threshold : LeastOverlaps,
              matches : Seq(Match), best : Match, d : Nat, t : Nat]

PairOf(call, p) == /\ p.detection \in DOMAIN call.detections
                   /\ p.track \in DOMAIN call.tracks
                   /\ p = Pair(call, p.detection, p.track)
AsGood(p, q) == ~MoreThan(q.iou, p.iou)

(* What the call has taken: pairs that may be paired, no box twice, and of a  *)
(* pair it has passed over the rival that kept it out.                        *)
MatchesFit(call) ==
    /\ \A i \in DOMAIN call.matches : PairOf(call, call.matches[i]) /\ Similar(call, call.matches[i])
    /\ \A i, j \in DOMAIN call.matches :
          i # j => /\ call.matches[i].detection # call.matches[j].detection
                   /\ call.matches[i].track # call.matches[j].track
Beaten(call, p) ==
    \E i \in DOMAIN call.matches :
        /\ call.matches[i].detection = p.detection \/ call.matches[i].track = p.track
        /\ AsGood(call.matches[i], p)
RivalsFit(call) ==
    \A p : PairOf(call, p) /\ Similar(call, p) /\ Used(call, p) => Beaten(call, p)

(* The best pair of this round so far: no free pair looked at overlaps more.  *)
Seen(call, p) == p.detection < call.d \/ (p.detection = call.d /\ p.track < call.t)
BestFits(call) ==
    /\ call.best = NoMatch \/ (PairOf(call, call.best) /\ Similar(call, call.best) /\ ~Used(call, call.best))
    /\ \A p : PairOf(call, p) /\ Similar(call, p) /\ ~Used(call, p) /\ Seen(call, p)
                => AsGood(call.best, p)
CursorFits(call) == /\ call.d \in 1..(Len(call.detections) + 1)
                    /\ call.t \in 1..Len(call.tracks)

CallFits(call) == CallTyped(call) /\ MatchesFit(call) /\ RivalsFit(call)
Exhausted(call) == \A p : PairOf(call, p) /\ Similar(call, p) => Used(call, p)

LEMMA PairsTyped ==
    ASSUME NEW call, CallTyped(call), NEW d \in DOMAIN call.detections, NEW t \in DOMAIN call.tracks
    PROVE  /\ PairOf(call, Pair(call, d, t)) /\ Pair(call, d, t) \in Match
           /\ Pair(call, d, t).detection = d /\ Pair(call, d, t).track = t
           /\ Ratio(Pair(call, d, t).iou)
<1> DEFINE iou == IntersectionOverUnion(call.detections[d].box, call.tracks[t].box)
<1>1. Pair(call, d, t) = [detection |-> d, track |-> t, iou |-> iou]
  BY DEF Pair
<1>2. call.detections \in Seq(Objects) /\ call.tracks \in Seq(Objects)
  BY DEF CallTyped
<1>3. d \in Nat /\ t \in Nat /\ call.detections[d] \in Objects /\ call.tracks[t] \in Objects
  BY <1>2, LenProperties, ElementOfSeq
<1>4. call.detections[d].box \in Rects /\ call.tracks[t].box \in Rects
  BY <1>3 DEF Objects
<1>5. Ratio(iou)
  BY <1>4, OverlapIsRatio
<1>6. iou \in Int \X Int
  <2>1. iou = <<iou[1], iou[2]>>
    BY DEF IntersectionOverUnion, NoOverlap
  <2> HIDE DEF iou
  <2> QED
    BY <1>5, <2>1 DEF Ratio
<1> HIDE DEF iou
<1>7. Pair(call, d, t).detection = d /\ Pair(call, d, t).track = t /\ Pair(call, d, t).iou = iou
  BY <1>1
<1>8. Pair(call, d, t) \in Match
  BY <1>1, <1>3, <1>6 DEF Match
<1> QED
  BY <1>5, <1>7, <1>8 DEF PairOf

LEMMA PairsAreRatios ==
    ASSUME NEW call, CallTyped(call), NEW p, PairOf(call, p)
    PROVE  p \in Match /\ Ratio(p.iou)
<1>1. PICK d \in DOMAIN call.detections, t \in DOMAIN call.tracks : p = Pair(call, d, t)
  BY DEF PairOf
<1>2. Pair(call, d, t) \in Match /\ Ratio(Pair(call, d, t).iou)
  BY PairsTyped, Zenon
<1> QED
  BY <1>1, <1>2

LEMMA AsGoodAsBest ==
    ASSUME NEW p, NEW q, NEW r, Ratio(p.iou), Ratio(q.iou), Ratio(r.iou), AsGood(p, q), AsGood(q, r)
    PROVE  AsGood(p, r)
BY OverlapsCompare DEF AsGood

(* Nothing else of a call counts for what may be paired and what is used.     *)
LEMMA SameCall ==
    ASSUME NEW call, NEW next,
           next.detections = call.detections, next.tracks = call.tracks,
           next.threshold = call.threshold
    PROVE  /\ \A p : PairOf(next, p) <=> PairOf(call, p)
           /\ \A p : Similar(next, p) <=> Similar(call, p)
<1>1. \A d, t : Pair(next, d, t) = Pair(call, d, t)
  BY DEF Pair
<1> QED
  BY <1>1 DEF PairOf, Similar

LEMMA LookKeepsCall ==
    ASSUME NEW call, CallFits(call), BestFits(call), CursorFits(call), Looking(call)
    PROVE  CallFits(LookAtPair(call)) /\ BestFits(LookAtPair(call)) /\ CursorFits(LookAtPair(call))
<1> DEFINE p == Pair(call, call.d, call.t)
           last == call.t = Len(call.tracks)
           best == IF Better(call, p) THEN p ELSE call.best
           next == LookAtPair(call)
<1>1. CallTyped(call)
  BY DEF CallFits
<1>2. /\ call.d \in DOMAIN call.detections /\ call.t \in DOMAIN call.tracks
      /\ DOMAIN call.detections = 1..Len(call.detections) /\ Len(call.detections) \in Nat
      /\ DOMAIN call.tracks = 1..Len(call.tracks) /\ Len(call.tracks) \in Nat
  <2>1. call.detections \in Seq(Objects) /\ call.tracks \in Seq(Objects)
    BY <1>1 DEF CallTyped
  <2>2. /\ DOMAIN call.detections = 1..Len(call.detections) /\ Len(call.detections) \in Nat
        /\ DOMAIN call.tracks = 1..Len(call.tracks) /\ Len(call.tracks) \in Nat
    BY <2>1, LenProperties
  <2> QED
    BY <2>2 DEF CursorFits, Looking
<1>3. /\ PairOf(call, p) /\ p \in Match /\ Ratio(p.iou)
      /\ p.detection = call.d /\ p.track = call.t
  <2> DEFINE Typed(d, t) == /\ PairOf(call, Pair(call, d, t)) /\ Pair(call, d, t) \in Match
                            /\ Pair(call, d, t).detection = d /\ Pair(call, d, t).track = t
                            /\ Ratio(Pair(call, d, t).iou)
  <2>1. \A d \in DOMAIN call.detections, t \in DOMAIN call.tracks : Typed(d, t)
    BY <1>1, PairsTyped
  <2> HIDE DEF Typed
  <2>2. Typed(call.d, call.t)
    BY <1>2, <2>1
  <2> QED
    BY <2>2 DEF Typed
<1> HIDE DEF p
<1>4. /\ next.detections = call.detections /\ next.tracks = call.tracks
      /\ next.threshold = call.threshold /\ next.matches = call.matches
      /\ next.best = best
      /\ next.d = IF last THEN call.d + 1 ELSE call.d
      /\ next.t = IF last THEN 1 ELSE call.t + 1
      /\ CallTyped(next)
  <2>1. next = [call EXCEPT !.best = best, !.d = IF last THEN @ + 1 ELSE @, !.t = IF last THEN 1 ELSE @ + 1]
    BY DEF LookAtPair, p
  <2>2. best \in Match
    BY <1>1, <1>3 DEF CallTyped
  <2> HIDE DEF best, next, last
  <2>3. call \in [detections : Seq(Objects), tracks : Seq(Objects), threshold : LeastOverlaps,
                  matches : Seq(Match), best : Match, d : Nat, t : Nat]
    BY <1>1 DEF CallTyped
  <2>4. /\ next.detections = call.detections /\ next.tracks = call.tracks
        /\ next.threshold = call.threshold /\ next.matches = call.matches
        /\ next.best = best
        /\ next.d = IF last THEN call.d + 1 ELSE call.d
        /\ next.t = IF last THEN 1 ELSE call.t + 1
    BY <2>1, <2>3
  <2>5. CallTyped(next)
    <3>1. PICK dNext \in Nat, tNext \in Nat :
             /\ dNext = IF last THEN call.d + 1 ELSE call.d
             /\ tNext = IF last THEN 1 ELSE call.t + 1
      BY <2>3
    <3>2. next = [call EXCEPT !.best = best, !.d = dNext, !.t = tNext]
      BY <2>1, <2>3, <3>1
    <3> QED
      BY <2>2, <2>3, <3>2 DEF CallTyped
  <2> QED
    BY <2>4, <2>5
<1>5. CursorFits(next)
  <2> HIDE DEF next, best
  <2> QED
    BY <1>2, <1>4 DEF CursorFits
<1> HIDE DEF next, last
<1>6. /\ \A q : PairOf(next, q) <=> PairOf(call, q)
      /\ \A q : Similar(next, q) <=> Similar(call, q)
  BY <1>4, SameCall
<1>7. \A q : Used(next, q) <=> Used(call, q)
  BY <1>4 DEF Used
<1>8. CallFits(next)
  <2>1. MatchesFit(next)
    BY <1>4, <1>6 DEF CallFits, MatchesFit
  <2>2. \A q : Beaten(next, q) <=> Beaten(call, q)
    BY <1>4 DEF Beaten
  <2>3. RivalsFit(next)
    BY <1>6, <1>7, <2>2 DEF CallFits, RivalsFit
  <2> QED
    BY <1>4, <2>1, <2>3 DEF CallFits
<1>9. Ratio(call.best.iou)
  <2>1. CASE call.best = NoMatch
    BY <2>1 DEF NoMatch, NoOverlap, Ratio
  <2>2. CASE call.best # NoMatch
    BY <1>1, <2>2, PairsAreRatios DEF BestFits
  <2> QED
    BY <2>1, <2>2
<1>10. best = NoMatch \/ (PairOf(call, best) /\ Similar(call, best) /\ ~Used(call, best))
  BY <1>3 DEF BestFits, Better
<1>11. AsGood(best, call.best) /\ Ratio(best.iou)
  <2>1. CASE Better(call, p)
    <3>1. best = p /\ MoreThan(p.iou, call.best.iou)
      BY <2>1 DEF Better
    <3> QED
      BY <1>3, <1>9, <3>1, OverlapsAreOrdered DEF AsGood
  <2>2. CASE ~Better(call, p)
    <3>1. best = call.best
      BY <2>2
    <3>2. ~MoreThan(call.best.iou, call.best.iou)
      BY <1>9, OverlapsAreOrdered
    <3> QED
      BY <1>9, <3>1, <3>2 DEF AsGood
  <2> QED
    BY <2>1, <2>2
<1>12. ASSUME NEW q, PairOf(call, q), Similar(call, q), ~Used(call, q), Seen(next, q)
       PROVE  AsGood(best, q)
  <2>1. Ratio(q.iou)
    BY <1>1, <1>12, PairsAreRatios
  <2>2. CASE Seen(call, q)
    <3>1. AsGood(call.best, q)
      BY <1>12, <2>2 DEF BestFits
    <3> QED
      BY <1>9, <1>11, <2>1, <3>1, AsGoodAsBest
  <2>3. CASE ~Seen(call, q)
    <3>1. q.detection = call.d /\ q.track = call.t
      <4>1. /\ q.detection \in 1..Len(call.detections) /\ q.track \in 1..Len(call.tracks)
            /\ call.d \in 1..Len(call.detections) /\ call.t \in 1..Len(call.tracks)
        BY <1>2, <1>12 DEF PairOf
      <4> QED
        BY <1>2, <1>4, <1>12, <2>3, <4>1 DEF Seen, last
    <3>2. q = p
      BY <1>12, <3>1 DEF PairOf, p
    <3>3. CASE Better(call, p)
      <4>1. ~MoreThan(p.iou, p.iou)
        BY <1>3, OverlapsAreOrdered
      <4> QED
        BY <3>2, <3>3, <4>1 DEF AsGood
    <3>4. CASE ~Better(call, p)
      BY <1>12, <3>2, <3>4 DEF Better, AsGood
    <3> QED
      BY <3>3, <3>4
  <2> QED
    BY <2>2, <2>3
<1>13. BestFits(next)
  <2> HIDE DEF best
  <2> QED
    BY <1>4, <1>6, <1>7, <1>10, <1>12 DEF BestFits
<1> QED
  BY <1>5, <1>8, <1>13 DEF next

(* After the inner loops every pair has been looked at.                       *)
LEMMA RoundSawAll ==
    ASSUME NEW call, CallTyped(call), CursorFits(call), ~Looking(call)
    PROVE  \A p : PairOf(call, p) => Seen(call, p)
<1> SUFFICES ASSUME NEW p, PairOf(call, p)
             PROVE  Seen(call, p)
  OBVIOUS
<1>1. DOMAIN call.detections = 1..Len(call.detections) /\ Len(call.detections) \in Nat
  BY LenProperties DEF CallTyped
<1>2. call.d = Len(call.detections) + 1
  BY <1>1 DEF CursorFits, Looking
<1> QED
  BY <1>1, <1>2 DEF PairOf, Seen

LEMMA TakeKeepsCall ==
    ASSUME NEW call, CallFits(call), BestFits(call), CursorFits(call), ~Looking(call),
           call.best # NoMatch
    PROVE  CallFits(TakeBest(call)) /\ BestFits(TakeBest(call)) /\ CursorFits(TakeBest(call))
<1> DEFINE next == TakeBest(call)
           n == Len(call.matches)
<1>1. /\ CallTyped(call) /\ call.matches \in Seq(Match) /\ call.best \in Match
      /\ n \in Nat /\ DOMAIN call.matches = 1..n
  BY LenProperties DEF CallFits, CallTyped
<1>2. /\ next.detections = call.detections /\ next.tracks = call.tracks
      /\ next.threshold = call.threshold /\ next.matches = Append(call.matches, call.best)
      /\ next.best = NoMatch /\ next.d = 1 /\ next.t = 1
      /\ CallTyped(next)
  <2>1. next = [call EXCEPT !.matches = Append(call.matches, call.best), !.best = NoMatch, !.d = 1, !.t = 1]
    BY DEF TakeBest
  <2>2. NoMatch \in Match /\ Append(call.matches, call.best) \in Seq(Match)
    <3>1. NoMatch \in Match
      BY DEF NoMatch, NoOverlap, Match
    <3>2. Append(call.matches, call.best) \in Seq(Match)
      BY <1>1, AppendProperties
    <3> QED
      BY <3>1, <3>2
  <2> HIDE DEF next, n
  <2>3. call \in [detections : Seq(Objects), tracks : Seq(Objects), threshold : LeastOverlaps,
                  matches : Seq(Match), best : Match, d : Nat, t : Nat]
    BY <1>1 DEF CallTyped
  <2>4. CallTyped(next)
    <3> DEFINE more == Append(call.matches, call.best)
    <3>1. next = [call EXCEPT !.matches = more, !.best = NoMatch, !.d = 1, !.t = 1]
      BY <2>1
    <3>2. more \in Seq(Match)
      BY <2>2
    <3> HIDE DEF more
    <3> QED
      BY <2>2, <2>3, <3>1, <3>2 DEF CallTyped
  <2> QED
    BY <2>1, <2>3, <2>4
<1> HIDE DEF next
<1>3. /\ DOMAIN next.matches = 1..(n + 1)
      /\ \A i \in 1..n : next.matches[i] = call.matches[i]
      /\ next.matches[n + 1] = call.best
  <2>1. /\ Append(call.matches, call.best) \in Seq(Match)
        /\ Len(Append(call.matches, call.best)) = n + 1
        /\ \A i \in 1..n : Append(call.matches, call.best)[i] = call.matches[i]
        /\ Append(call.matches, call.best)[n + 1] = call.best
    BY <1>1, AppendProperties
  <2>2. DOMAIN Append(call.matches, call.best) = 1..(n + 1)
    BY <2>1, LenProperties
  <2> QED
    BY <1>2, <2>1, <2>2
<1> HIDE DEF n
<1>4. \A i : i \in DOMAIN next.matches <=> i \in DOMAIN call.matches \/ i = n + 1
  BY <1>1, <1>3
<1>5. /\ \A i \in DOMAIN call.matches : next.matches[i] = call.matches[i] /\ i # n + 1
      /\ n + 1 \in DOMAIN next.matches
  BY <1>1, <1>3
<1>6. /\ \A q : PairOf(next, q) <=> PairOf(call, q)
      /\ \A q : Similar(next, q) <=> Similar(call, q)
  BY <1>2, SameCall
<1>7. PairOf(call, call.best) /\ Similar(call, call.best) /\ ~Used(call, call.best)
  BY DEF BestFits
<1>8. MatchesFit(next)
  <2>1. \A i \in DOMAIN next.matches : PairOf(next, next.matches[i]) /\ Similar(next, next.matches[i])
    BY <1>3, <1>4, <1>5, <1>6, <1>7 DEF CallFits, MatchesFit
  <2>2. \A i \in DOMAIN call.matches : /\ call.matches[i].detection # call.best.detection
                                       /\ call.matches[i].track # call.best.track
    BY <1>7 DEF Used
  <2>3. ASSUME NEW i \in DOMAIN next.matches, NEW j \in DOMAIN next.matches, i # j
        PROVE  /\ next.matches[i].detection # next.matches[j].detection
               /\ next.matches[i].track # next.matches[j].track
    <3>1. CASE i \in DOMAIN call.matches /\ j \in DOMAIN call.matches
      BY <1>5, <2>3, <3>1 DEF CallFits, MatchesFit
    <3>2. CASE i \in DOMAIN call.matches /\ j = n + 1
      BY <1>3, <1>5, <2>2, <3>2
    <3>3. CASE i = n + 1 /\ j \in DOMAIN call.matches
      BY <1>3, <1>5, <2>2, <3>3
    <3> QED
      BY <1>4, <2>3, <3>1, <3>2, <3>3
  <2> QED
    BY <2>1, <2>3 DEF MatchesFit
<1>9. RivalsFit(next)
  <2> SUFFICES ASSUME NEW q, PairOf(call, q), Similar(call, q), Used(next, q)
               PROVE  Beaten(next, q)
    BY <1>6 DEF RivalsFit
  <2>1. CASE Used(call, q)
    <3>1. PICK i \in DOMAIN call.matches :
             /\ call.matches[i].detection = q.detection \/ call.matches[i].track = q.track
             /\ AsGood(call.matches[i], q)
      BY <2>1 DEF CallFits, RivalsFit, Beaten
    <3>2. i \in DOMAIN next.matches /\ next.matches[i] = call.matches[i]
      BY <1>4, <1>5
    <3> QED
      BY <3>1, <3>2 DEF Beaten
  <2>2. CASE ~Used(call, q)
    <3>1. AsGood(call.best, q)
      BY <1>1, <2>2, RoundSawAll DEF BestFits
    <3>2. call.best.detection = q.detection \/ call.best.track = q.track
      BY <1>3, <1>4, <1>5, <2>2 DEF Used
    <3> QED
      BY <1>3, <1>5, <3>1, <3>2 DEF Beaten
  <2> QED
    BY <2>1, <2>2
<1>10. /\ \A p : PairOf(call, p) => ~Seen(next, p)
       /\ CursorFits(next)
  <2>1. /\ DOMAIN call.detections = 1..Len(call.detections) /\ Len(call.detections) \in Nat
        /\ DOMAIN call.tracks = 1..Len(call.tracks) /\ Len(call.tracks) \in Nat
    BY <1>1, LenProperties DEF CallTyped
  <2> QED
    BY <1>2, <2>1 DEF PairOf, Seen, CursorFits
<1>11. BestFits(next)
  BY <1>2, <1>6, <1>10 DEF BestFits
<1> QED
  BY <1>2, <1>8, <1>9, <1>10, <1>11 DEF CallFits, next

(* When a round finds no pair, there is none left that is free.               *)
LEMMA NothingLeft ==
    ASSUME NEW call, CallFits(call), BestFits(call), CursorFits(call), ~Looking(call),
           call.best = NoMatch
    PROVE  Exhausted(call)
<1> SUFFICES ASSUME NEW p, PairOf(call, p), Similar(call, p), ~Used(call, p)
             PROVE  FALSE
  BY DEF Exhausted
<1>1. AsGood(NoMatch, p)
  BY RoundSawAll DEF BestFits, CallFits
<1>2. MoreThan(p.iou, NoOverlap)
  BY DEF Similar
<1> QED
  BY <1>1, <1>2 DEF AsGood, NoMatch

LEMMA CallBegins ==
    ASSUME NEW detections \in DetectionLists, NEW tracks \in TrackLists, NEW threshold \in LeastOverlaps,
           NEW call, call = NewCall(detections, tracks, threshold)
    PROVE  /\ CallFits(call)
           /\ Trivial(call) => Exhausted(call)
           /\ ~Trivial(call) => BestFits(call) /\ CursorFits(call)
<1>1. /\ call.detections = detections /\ call.tracks = tracks /\ call.matches = <<>>
      /\ call.best = NoMatch /\ call.d = 1 /\ call.t = 1
  BY DEF NewCall
<1>2. detections \in Seq(Objects) /\ tracks \in Seq(Objects)
  BY PerceptionAssumption DEF Objects
<1>3. CallTyped(call)
  <2>1. NoMatch \in Match /\ <<>> \in Seq(Match)
    <3>1. NoMatch \in Match
      BY DEF NoMatch, NoOverlap, Match
    <3>2. <<>> \in Seq(Match)
      BY EmptySeq
    <3> QED
      BY <3>1, <3>2
  <2> QED
    BY <1>2, <2>1 DEF NewCall, CallTyped
<1>4. DOMAIN call.matches = {}
  BY <1>1, EmptySeq
<1>5. MatchesFit(call) /\ RivalsFit(call)
  BY <1>4 DEF MatchesFit, RivalsFit, Used
<1>6. /\ DOMAIN detections = 1..Len(detections) /\ Len(detections) \in Nat
      /\ DOMAIN tracks = 1..Len(tracks) /\ Len(tracks) \in Nat
  BY <1>2, LenProperties
<1>7. Trivial(call) => Exhausted(call)
  <2>1. ASSUME Trivial(call)
        PROVE  DOMAIN call.detections = {} \/ DOMAIN call.tracks = {}
    <3>1. detections = <<>> \/ tracks = <<>>
      BY <1>1, <2>1 DEF Trivial
    <3>2. DOMAIN (<< >>) = {}
      OBVIOUS
    <3> QED
      BY <1>1, <3>1, <3>2
  <2> QED
    BY <2>1 DEF PairOf, Exhausted
<1>8. ASSUME ~Trivial(call)
      PROVE  BestFits(call) /\ CursorFits(call)
  <2>1. detections # <<>> /\ tracks # <<>>
    BY <1>1, <1>8 DEF Trivial
  <2>2. Len(detections) > 0 /\ Len(tracks) > 0
    BY <1>2, <1>6, <2>1, EmptySeq
  <2>3. CursorFits(call)
    BY <1>1, <1>6, <2>2 DEF CursorFits
  <2>4. \A p : PairOf(call, p) => ~Seen(call, p)
    BY <1>1, <1>6 DEF PairOf, Seen
  <2> QED
    BY <1>1, <2>3, <2>4 DEF BestFits
<1> QED
  BY <1>3, <1>5, <1>7, <1>8 DEF CallFits

(* ---- the latency windows ---- *)
LEMMA RoundOnce ==
    ASSUME NEW n \in Nat \ {0}, NEW x \in 0..(2 * n - 1)
    PROVE  x % n = IF x < n THEN x ELSE x - n
<1>1. x \in Nat /\ n \in Nat /\ n > 0
  OBVIOUS
<1>2. CASE x < n
  BY <1>1, <1>2
<1>3. CASE x >= n
  <2>1. PICK y \in Nat : x = y + n /\ y < n
    <3>1. x - n \in Nat /\ x = (x - n) + n /\ x - n < n
      BY <1>1, <1>3
    <3> QED
      BY <3>1
  <2>2. (y + n) % n = y
    BY <1>1, <2>1
  <2> QED
    BY <1>3, <2>1, <2>2
<1> QED
  BY <1>1, <1>2, <1>3

(* Place x, counted from the start of the ring.                               *)
Around(x) == IF x <= WindowSize THEN x ELSE x - WindowSize

(* A window holds the newest samples: from the place that is next on, which   *)
(* is the oldest one, they are in order.                                      *)
RingFits(window, newest) ==
    /\ window \in [samples : Seq(Latencies), next : Nat]
    /\ newest \in Seq(Latencies)
    /\ Len(newest) = Len(window.samples) /\ Len(newest) <= WindowSize
    /\ Len(newest) < WindowSize => window.next = 0
    /\ window.next < WindowSize
    /\ \A i \in 1..Len(newest) : newest[i] = window.samples[Around(window.next + i)]

LEMMA NewRingFits == RingFits(Window!NewWindow, <<>>)
<1>1. WindowSize \in Nat /\ WindowSize > 0
  BY PerceptionAssumption
<1>2. Window!NewWindow.samples = <<>> /\ Window!NewWindow.next = 0
      /\ Window!NewWindow \in [samples : Seq(Latencies), next : Nat]
  BY EmptySeq DEF Window!NewWindow
<1>3. <<>> \in Seq(Latencies) /\ Len(<<>>) = 0
  BY EmptySeq
<1> HIDE DEF Window!NewWindow
<1> QED
  BY <1>1, <1>2, <1>3 DEF RingFits

(* While the ring grows it is the list.                                       *)
LEMMA GrowingRing ==
    ASSUME NEW window, NEW newest, RingFits(window, newest), NEW ms \in Latencies,
           Len(newest) < WindowSize
    PROVE  RingFits([window EXCEPT !.samples = Append(@, ms)], Append(newest, ms))
<1> DEFINE grown == [window EXCEPT !.samples = Append(@, ms)]
<1>1. /\ WindowSize \in Nat /\ WindowSize > 0
      /\ newest \in Seq(Latencies) /\ window.samples \in Seq(Latencies)
      /\ window.next = 0 /\ Len(window.samples) = Len(newest) /\ Len(newest) \in Nat
  BY PerceptionAssumption, LenProperties DEF RingFits
<1>2. /\ grown.samples = Append(window.samples, ms) /\ grown.next = 0
      /\ grown \in [samples : Seq(Latencies), next : Nat]
  <2>1. PICK s \in Seq(Latencies), k \in Nat : window = [samples |-> s, next |-> k]
    <3>1. window \in [samples : Seq(Latencies), next : Nat]
      BY DEF RingFits
    <3> QED
      BY <3>1
  <2>2. window.next = k /\ window.samples = s
    BY <2>1
  <2> DEFINE longer == Append(s, ms)
  <2>3. grown = [window EXCEPT !.samples = longer]
    BY <2>2, Zenon
  <2>4. longer \in Seq(Latencies)
    BY AppendProperties
  <2> HIDE DEF longer, grown
  <2>5. grown = [samples |-> longer, next |-> k]
    BY <2>1, <2>3
  <2>6. longer = Append(window.samples, ms)
    BY <2>2, Zenon DEF longer
  <2>7. /\ grown.samples = longer /\ grown.next = 0
        /\ grown \in [samples : Seq(Latencies), next : Nat]
    BY <1>1, <2>2, <2>4, <2>5
  <2> QED
    BY <2>6, <2>7, Zenon
<1>3. /\ Append(newest, ms) \in Seq(Latencies) /\ Append(window.samples, ms) \in Seq(Latencies)
      /\ Len(Append(newest, ms)) = Len(newest) + 1 /\ Len(Append(window.samples, ms)) = Len(newest) + 1
      /\ \A i \in 1..Len(newest) : Append(newest, ms)[i] = newest[i]
      /\ \A i \in 1..Len(newest) : Append(window.samples, ms)[i] = window.samples[i]
      /\ Append(newest, ms)[Len(newest) + 1] = ms /\ Append(window.samples, ms)[Len(newest) + 1] = ms
  BY <1>1, AppendProperties
<1>4. \A i \in 1..Len(newest) : newest[i] = window.samples[i]
  BY <1>1 DEF RingFits, Around
<1>5. ASSUME NEW i \in 1..(Len(newest) + 1)
      PROVE  Append(newest, ms)[i] = grown.samples[Around(grown.next + i)]
  <2>1. Around(grown.next + i) = i
    BY <1>1, <1>2 DEF Around
  <2> HIDE DEF grown
  <2>2. CASE i = Len(newest) + 1
    BY <1>2, <1>3, <2>1, <2>2
  <2>3. CASE i \in 1..Len(newest)
    BY <1>2, <1>3, <1>4, <2>1, <2>3
  <2> QED
    BY <1>1, <2>2, <2>3
<1> HIDE DEF grown
<1>6. RingFits(grown, Append(newest, ms))
  <2>1. PICK n \in Nat : n = Len(newest) /\ n + 1 <= WindowSize
    BY <1>1
  <2>2. Len(Append(newest, ms)) = n + 1 /\ Len(grown.samples) = n + 1
    BY <1>2, <1>3, <2>1
  <2>3. \A i \in 1..(n + 1) : Append(newest, ms)[i] = grown.samples[Around(grown.next + i)]
    BY <1>5, <2>1
  <2> QED
    BY <1>1, <1>2, <1>3, <2>1, <2>2, <2>3 DEF RingFits
<1> QED
  BY <1>6 DEF grown

(* A full ring loses its oldest sample, and so does the list.                 *)
LEMMA TurningRing ==
    ASSUME NEW window, NEW newest, RingFits(window, newest), NEW ms \in Latencies,
           Len(newest) = WindowSize
    PROVE  RingFits([samples |-> [window.samples EXCEPT ![window.next + 1] = ms],
                     next |-> (window.next + 1) % WindowSize], Tail(Append(newest, ms)))
<1> DEFINE k == window.next
           turned == [window.samples EXCEPT ![k + 1] = ms]
           next == (k + 1) % WindowSize
           ring == [samples |-> turned, next |-> next]
           all == Append(newest, ms)
<1>1. /\ WindowSize \in Nat /\ WindowSize > 0
      /\ newest \in Seq(Latencies) /\ window.samples \in Seq(Latencies)
      /\ Len(window.samples) = WindowSize /\ k \in Nat /\ k < WindowSize
  BY PerceptionAssumption DEF RingFits
<1>2. next = IF k + 1 < WindowSize THEN k + 1 ELSE 0
  <2>1. k + 1 \in 0..(2 * WindowSize - 1) /\ WindowSize \in Nat \ {0}
    BY <1>1
  <2>2. PICK n \in Nat \ {0}, x \in Nat : n = WindowSize /\ x = k + 1 /\ x \in 0..(2 * n - 1)
    BY <2>1
  <2>3. x % n = IF x < n THEN x ELSE x - n
    BY <2>2, RoundOnce
  <2>4. next = x % n
    BY <2>2
  <2> HIDE DEF k, next
  <2> QED
    BY <1>1, <2>2, <2>3, <2>4
<1>3. /\ turned \in Seq(Latencies) /\ Len(turned) = WindowSize
      /\ turned[k + 1] = ms
      /\ \A j \in 1..WindowSize : j # k + 1 => turned[j] = window.samples[j]
  <2>1. k + 1 \in 1..Len(window.samples)
    BY <1>1
  <2>2. /\ turned \in Seq(Latencies) /\ Len(turned) = Len(window.samples)
        /\ \A j \in 1..Len(window.samples) : turned[j] = IF j = k + 1 THEN ms ELSE window.samples[j]
    BY <1>1, <2>1, ExceptSeq
  <2> HIDE DEF turned, k
  <2> QED
    BY <1>1, <2>1, <2>2
<1>4. /\ all \in Seq(Latencies) /\ Len(all) = WindowSize + 1
      /\ \A i \in 1..WindowSize : all[i] = newest[i]
      /\ all[WindowSize + 1] = ms
  BY <1>1, AppendProperties
<1> HIDE DEF all
<1>5. /\ Tail(all) \in Seq(Latencies) /\ Len(Tail(all)) = WindowSize
      /\ \A i \in 1..WindowSize : Tail(all)[i] = all[i + 1]
  <2>1. all # <<>>
    BY <1>1, <1>4, EmptySeq
  <2> QED
    BY <1>1, <1>4, <2>1, HeadTailProperties
<1>6. \A i \in 1..WindowSize : newest[i] = window.samples[Around(k + i)]
  BY <1>1 DEF RingFits
<1> HIDE DEF turned, next, k
<1>7. ASSUME NEW i \in 1..WindowSize
      PROVE  Tail(all)[i] = turned[Around(next + i)]
  <2>1. CASE i = WindowSize
    <3>1. Around(next + i) = k + 1
      BY <1>1, <1>2, <2>1 DEF Around
    <3> QED
      BY <1>3, <1>4, <1>5, <2>1, <3>1
  <2>2. CASE i < WindowSize
    <3>1. /\ i + 1 \in 1..WindowSize
          /\ Around(next + i) = Around(k + (i + 1))
          /\ Around(next + i) \in 1..WindowSize /\ Around(next + i) # k + 1
      BY <1>1, <1>2, <2>2 DEF Around
    <3>2. Tail(all)[i] = newest[i + 1]
      BY <1>4, <1>5, <3>1
    <3>3. newest[i + 1] = window.samples[Around(k + (i + 1))]
      BY <1>6, <3>1
    <3> QED
      BY <1>3, <3>1, <3>2, <3>3
  <2>3. i = WindowSize \/ i < WindowSize
    BY <1>1
  <2> QED
    BY <2>1, <2>2, <2>3
<1>8. /\ ring.samples = turned /\ ring.next = next
      /\ ring \in [samples : Seq(Latencies), next : Nat]
      /\ next \in Nat /\ next < WindowSize
  BY <1>1, <1>2, <1>3
<1> HIDE DEF ring
<1>9. RingFits(ring, Tail(all))
  BY <1>1, <1>3, <1>5, <1>7, <1>8 DEF RingFits
<1> QED
  BY <1>9 DEF ring, all, turned, next, k

LEMMA RecordFits ==
    ASSUME NEW window, NEW newest, RingFits(window, newest), NEW ms \in Latencies
    PROVE  RingFits(Window!Record(window, WindowSize, ms),
                    IF Len(Append(newest, ms)) > WindowSize THEN Tail(Append(newest, ms))
                                                            ELSE Append(newest, ms))
<1>1. /\ WindowSize \in Nat /\ newest \in Seq(Latencies) /\ Len(newest) \in Nat
      /\ Len(window.samples) = Len(newest) /\ Len(newest) <= WindowSize
      /\ Len(Append(newest, ms)) = Len(newest) + 1
  <2>1. /\ newest \in Seq(Latencies)
        /\ Len(window.samples) = Len(newest) /\ Len(newest) <= WindowSize
    BY DEF RingFits
  <2>2. Len(newest) \in Nat
    BY <2>1, LenProperties
  <2>3. Len(Append(newest, ms)) = Len(newest) + 1
    BY <2>1, AppendProperties
  <2> QED
    BY <2>1, <2>2, <2>3, PerceptionAssumption
<1>2. CASE Len(newest) < WindowSize
  <2>1. ~(Len(Append(newest, ms)) > WindowSize)
    BY <1>1, <1>2
  <2>2. Window!Record(window, WindowSize, ms) = [window EXCEPT !.samples = Append(@, ms)]
    BY <1>1, <1>2 DEF Window!Record
  <2> QED
    BY <1>2, <2>1, <2>2, GrowingRing
<1>3. CASE Len(newest) = WindowSize
  <2>1. Len(Append(newest, ms)) > WindowSize
    BY <1>1, <1>3
  <2>2. Window!Record(window, WindowSize, ms)
          = [samples |-> [window.samples EXCEPT ![window.next + 1] = ms],
             next |-> (window.next + 1) % WindowSize]
    BY <1>1, <1>3 DEF Window!Record
  <2> QED
    BY <1>3, <2>1, <2>2, TurningRing
<1> QED
  BY <1>1, <1>2, <1>3

(* One window of a probe takes a sample, and one list with it.                *)
Windows == [samples : Seq(Latencies), next : Nat]
ProbeFits(probe, newest) ==
    /\ probe \in [Stages -> Windows] /\ newest \in [Stages -> Seq(Latencies)]
    /\ \A stage \in Stages : RingFits(probe[stage], newest[stage])

LEMMA NewProbeFits ==
    ASSUME NEW probe, probe = [stage \in Stages |-> Window!NewWindow]
    PROVE  ProbeFits(probe, [stage \in Stages |-> <<>>])
<1>1. RingFits(Window!NewWindow, <<>>)
  BY NewRingFits
<1>2. Window!NewWindow \in Windows /\ <<>> \in Seq(Latencies)
  BY <1>1 DEF RingFits, Windows
<1> HIDE DEF Window!NewWindow
<1> QED
  BY <1>1, <1>2 DEF ProbeFits

LEMMA StageFits ==
    ASSUME NEW probe, NEW newest, ProbeFits(probe, newest), NEW stage \in Stages, NEW ms \in Latencies,
           NEW all, all = Append(newest[stage], ms),
           NEW window, window = Window!Record(probe[stage], WindowSize, ms),
           NEW list, list = IF Len(all) > WindowSize THEN Tail(all) ELSE all
    PROVE  ProbeFits([probe EXCEPT ![stage] = window], [newest EXCEPT ![stage] = list])
<1>1. RingFits(window, list)
  BY RecordFits DEF ProbeFits
<1>2. window \in Windows /\ list \in Seq(Latencies)
  BY <1>1 DEF RingFits, Windows
<1> QED
  BY <1>1, <1>2 DEF ProbeFits

LEMMA ProbeHoldsNewest ==
    ASSUME NEW window, NEW newest, RingFits(window, newest)
    PROVE  /\ Len(window.samples) = Len(newest)
           /\ \E oldest \in 0..Len(window.samples) : \A i \in DOMAIN newest :
                 newest[i] = window.samples[((oldest + i - 1) % Len(window.samples)) + 1]
<1>1. /\ WindowSize \in Nat /\ WindowSize > 0 /\ Len(newest) \in Nat
      /\ DOMAIN newest = 1..Len(newest) /\ window.next \in Nat
      /\ Len(window.samples) = Len(newest) /\ Len(newest) <= WindowSize
      /\ Len(newest) < WindowSize => window.next = 0
      /\ window.next < WindowSize
      /\ \A i \in 1..Len(newest) : newest[i] = window.samples[Around(window.next + i)]
  <2>1. WindowSize \in Nat /\ WindowSize > 0
    BY PerceptionAssumption
  <2>2. newest \in Seq(Latencies)
    BY Zenon DEF RingFits
  <2>3. Len(newest) \in Nat /\ DOMAIN newest = 1..Len(newest)
    BY <2>2, LenProperties
  <2>4. window.next \in Nat
    <3>1. window \in [samples : Seq(Latencies), next : Nat]
      BY DEF RingFits
    <3> QED
      BY <3>1
  <2> QED
    BY <2>1, <2>3, <2>4, Zenon DEF RingFits
<1>2. PICK n \in Nat, k \in Nat : n = Len(newest) /\ k = window.next
  BY <1>1
<1>3. /\ n \in Nat /\ k \in Nat /\ WindowSize \in Nat /\ WindowSize > 0
      /\ n <= WindowSize /\ k < WindowSize /\ (n < WindowSize => k = 0)
  BY <1>1, <1>2, Zenon
<1>4. k \in 0..n
  BY <1>3
<1>5. ASSUME NEW i \in 1..n
      PROVE  ((k + i - 1) % n) + 1 = Around(k + i)
  <2>1. i \in Nat /\ i > 0 /\ n > 0 /\ (n = WindowSize \/ k = 0) /\ k < n
    BY <1>3
  <2>2. PICK x \in Nat : x = k + i - 1
    BY <1>3, <2>1
  <2>3. x \in 0..(2 * n - 1)
    BY <1>3, <2>1, <2>2
  <2>4. x % n = IF x < n THEN x ELSE x - n
    BY <1>3, <2>1, <2>3, RoundOnce
  <2>5. Around(k + i) = IF x < n THEN x + 1 ELSE x - n + 1
    BY <1>3, <2>1, <2>2 DEF Around
  <2>6. k + i - 1 = x
    BY <2>2
  <2>7. (IF x < n THEN x ELSE x - n) + 1 = (IF x < n THEN x + 1 ELSE x - n + 1)
    BY <1>3, <2>2
  <2> QED
    BY <2>4, <2>5, <2>6, <2>7, Zenon
<1>6. ASSUME NEW i \in DOMAIN newest
      PROVE  newest[i] = window.samples[((k + i - 1) % Len(window.samples)) + 1]
  <2>1. i \in 1..Len(newest) /\ Len(window.samples) = Len(newest)
    BY <1>1, Zenon
  <2>2. newest[i] = window.samples[Around(window.next + i)]
    BY <1>1, <2>1, Zenon
  <2>3. window.next = k /\ Len(newest) = n
    BY <1>2, Zenon
  <2>4. i \in 1..n /\ Len(window.samples) = n
    BY <2>1, <2>3, Zenon
  <2>5. newest[i] = window.samples[Around(k + i)]
    BY <2>2, <2>3, Zenon
  <2> QED
    BY <1>5, <2>4, <2>5, Zenon
<1>7. k \in 0..Len(window.samples)
  BY <1>1, <1>2, <1>4, Zenon
<1> QED
  BY <1>1, <1>6, <1>7, Zenon

(* ---- least elements ---- *)
(* What holds of small things and is handed on to larger ones holds of all:   *)
(* the theorems of the library say so of an operator; here it is said of a    *)
(* set, of which there is a least element if there is one at all.             *)
LEMMA LeastNumber ==
    ASSUME NEW T \in SUBSET Nat, T # {}
    PROVE  \E n \in T : \A m \in T : n <= m
<1> DEFINE Below == {p \in Nat \X Nat : p[1] < p[2]}
<1>1. IsWellFoundedOn(Below, Nat)
  <2>1. IsWellFoundedOn(OpToRel(<, Nat), Nat)
    BY NatLessThanWellFounded
  <2>2. Below = OpToRel(<, Nat)
    BY DEF OpToRel
  <2> QED
    BY <2>1, <2>2
<1>2. PICK n \in T : \A m \in T : ~(<<m, n>> \in Below)
  <2> HIDE DEF Below
  <2> QED
    BY <1>1, WFMin
<1>3. ASSUME NEW m \in T
      PROVE  n <= m
  <2>1. m \in Nat /\ n \in Nat
    OBVIOUS
  <2> DEFINE p == <<m, n>>
  <2>2. p \in Nat \X Nat /\ p[1] = m /\ p[2] = n
    BY <2>1
  <2>3. ~(m < n)
    BY <1>2, <2>2
  <2> QED
    BY <2>1, <2>3
<1> QED
  BY <1>3

LEMMA LeastSet ==
    ASSUME NEW S, IsFiniteSet(S), NEW T \in SUBSET (SUBSET S), T # {}
    PROVE  \E t \in T : \A u \in T : Cardinality(t) <= Cardinality(u)
<1> DEFINE Counts == {Cardinality(t) : t \in T}
<1>1. Counts \in SUBSET Nat /\ Counts # {}
  <2>1. \A t \in T : Cardinality(t) \in Nat
    BY FS_Subset, FS_CardinalityType
  <2> QED
    BY <2>1
<1>2. PICK n \in Counts : \A m \in Counts : n <= m
  BY <1>1, LeastNumber
<1> QED
  BY <1>2

(* The largest value, and of those the first: what the maximum of a row of    *)
(* scores and the most certain candidate are.                                 *)
LEMMA FirstOfLargest ==
    ASSUME NEW left \in SUBSET Nat, left # {}, NEW bound \in Nat,
           NEW v, \A i \in left : v[i] \in Nat /\ v[i] <= bound
    PROVE  \E i \in left : \A j \in left : v[j] < v[i] \/ (v[j] = v[i] /\ i <= j)
<1> DEFINE Lacks == {bound - v[i] : i \in left}
<1>1. Lacks \in SUBSET Nat /\ Lacks # {}
  <2>1. ASSUME NEW i \in left
        PROVE  bound - v[i] \in Nat
    <3>1. v[i] \in Nat /\ v[i] <= bound
      OBVIOUS
    <3> QED
      BY <3>1
  <2> QED
    BY <2>1
<1>2. PICK lack \in Lacks : \A l \in Lacks : lack <= l
  BY <1>1, LeastNumber
<1>3. PICK k \in left : lack = bound - v[k]
  OBVIOUS
<1>4. \A j \in left : v[j] <= v[k]
  <2> SUFFICES ASSUME NEW j \in left
               PROVE  v[j] <= v[k]
    OBVIOUS
  <2>1. bound - v[k] <= bound - v[j]
    BY <1>2, <1>3
  <2> QED
    BY <2>1
<1> DEFINE Best == {i \in left : v[i] = v[k]}
<1>5. PICK i \in Best : \A j \in Best : i <= j
  <2>1. Best \in SUBSET Nat /\ Best # {}
    OBVIOUS
  <2> QED
    BY <2>1, LeastNumber
<1>6. ASSUME NEW j \in left
      PROVE  v[j] < v[i] \/ (v[j] = v[i] /\ i <= j)
  <2>1. v[j] <= v[i] /\ v[j] \in Nat /\ v[i] \in Nat
    BY <1>4
  <2>2. v[j] = v[i] => i <= j
    BY <1>5
  <2> QED
    BY <2>1, <2>2
<1> QED
  BY <1>6

(* A recursion over what is left of a finite set, by rounds each of which     *)
(* takes one element and leaves less.                                         *)
Rounds(S, first, rest, kept) ==
    kept = [left \in SUBSET S |->
              IF left = {} THEN {} ELSE {first[left]} \cup kept[rest[left]]]

LEMMA RoundsEnd ==
    ASSUME NEW S, IsFiniteSet(S), NEW first, NEW rest,
           \A left \in SUBSET S : left # {} => rest[left] \in SUBSET left /\ rest[left] # left
    PROVE  \E kept : Rounds(S, first, rest, kept)
<1> DEFINE Round(kept, left) == IF left = {} THEN {} ELSE {first[left]} \cup kept[rest[left]]
           Small(n) == {left \in SUBSET S : Cardinality(left) <= n}
           Follows(kept, n) == \A left \in Small(n) : kept[left] = Round(kept, left)
           Hard == {n \in Nat : ~\E kept : Follows(kept, n)}
<1>1. \A left \in SUBSET S : /\ IsFiniteSet(left) /\ Cardinality(left) \in Nat
                             /\ Cardinality(left) <= Cardinality(S)
                             /\ left = {} <=> Cardinality(left) = 0
  BY FS_Subset, FS_CardinalityType, FS_EmptySet
<1>2. \A left \in SUBSET S : left # {} =>
         rest[left] \in SUBSET S /\ Cardinality(rest[left]) < Cardinality(left)
  <2> SUFFICES ASSUME NEW left \in SUBSET S, left # {}
               PROVE  rest[left] \in SUBSET S /\ Cardinality(rest[left]) < Cardinality(left)
    OBVIOUS
  <2>1. /\ IsFiniteSet(left) /\ rest[left] \in SUBSET left /\ rest[left] # left
        /\ rest[left] \in SUBSET S
    BY <1>1
  <2>2. Cardinality(rest[left]) <= Cardinality(left) /\ Cardinality(rest[left]) # Cardinality(left)
    BY <2>1, FS_Subset
  <2> QED
    BY <1>1, <2>1, <2>2
<1>3. Hard = {}
  <2> SUFFICES ASSUME Hard # {}
               PROVE  FALSE
    OBVIOUS
  <2>1. PICK n \in Hard : \A m \in Hard : n <= m
    <3>1. Hard \in SUBSET Nat
      OBVIOUS
    <3> HIDE DEF Hard
    <3> QED
      BY <3>1, LeastNumber
  <2>2. n \in Nat /\ ~\E kept : Follows(kept, n)
    OBVIOUS
  <2>3. n # 0
    <3> SUFFICES ASSUME n = 0
                 PROVE  \E kept : Follows(kept, n)
      BY <2>2
    <3> DEFINE none == [left \in SUBSET S |-> {}]
    <3>1. \A left \in Small(n) : left = {} /\ left \in SUBSET S
      BY <1>1
    <3>2. Follows(none, n)
      BY <3>1
    <3> QED
      BY <3>2
  <2>4. n - 1 \in Nat /\ n - 1 \notin Hard
    <3> HIDE DEF Hard
    <3>1. n - 1 \in Nat /\ ~(n <= n - 1)
      BY <2>2, <2>3
    <3> QED
      BY <2>1, <3>1
  <2>5. PICK kept : Follows(kept, n - 1)
    BY <2>4
  <2> DEFINE next == [left \in SUBSET S |-> Round(kept, left)]
  <2>6. \A left \in Small(n - 1) : next[left] = kept[left]
    BY <2>5
  <2>7. ASSUME NEW left \in Small(n), left # {}
        PROVE  next[rest[left]] = kept[rest[left]]
    <3>1. rest[left] \in SUBSET S /\ Cardinality(rest[left]) < Cardinality(left)
      BY <1>2, <2>7
    <3>2. rest[left] \in Small(n - 1)
      BY <1>1, <2>2, <3>1
    <3> HIDE DEF Small, next
    <3> QED
      BY <2>6, <3>2
  <2>8. Follows(next, n)
    <3> SUFFICES ASSUME NEW left \in Small(n)
                 PROVE  next[left] = Round(next, left)
      OBVIOUS
    <3>1. next[left] = Round(kept, left)
      OBVIOUS
    <3>2. left # {} => next[rest[left]] = kept[rest[left]]
      BY <2>7
    <3> HIDE DEF next
    <3> QED
      BY <3>1, <3>2
  <2> QED
    BY <2>2, <2>8
<1>4. PICK kept : Follows(kept, Cardinality(S))
  <2>1. Cardinality(S) \in Nat
    BY FS_CardinalityType
  <2> QED
    BY <1>3, <2>1
<1> DEFINE whole == [left \in SUBSET S |-> kept[left]]
<1>5. ASSUME NEW left \in SUBSET S
      PROVE  kept[left] = IF left = {} THEN {} ELSE {first[left]} \cup whole[rest[left]]
  <2>1. left \in Small(Cardinality(S))
    BY <1>1
  <2>2. kept[left] = Round(kept, left)
    BY <1>4, <2>1
  <2>3. left # {} => whole[rest[left]] = kept[rest[left]]
    BY <1>2
  <2> HIDE DEF whole
  <2> QED
    BY <2>2, <2>3
<1>6. Rounds(S, first, rest, whole)
  BY <1>5 DEF Rounds
<1> QED
  BY <1>6

(* What the rounds keep: nothing that an earlier choice is alike to, and for  *)
(* whatever is dropped an alike one that was chosen before it.                *)
RoundsKeep(left, kept, alike, surer) ==
    /\ kept \subseteq left
    /\ \A i, j \in kept : i # j => <<i, j>> \notin alike \/ <<j, i>> \notin alike
    /\ \A j \in left \ kept : \E i \in kept : <<i, j>> \in alike /\ <<i, j>> \in surer

LEMMA RoundsSuppress ==
    ASSUME NEW S, IsFiniteSet(S), NEW first, NEW rest, NEW alike, NEW surer,
           \A left \in SUBSET S : left # {} =>
               /\ first[left] \in left
               /\ \A j \in left : <<first[left], j>> \in surer
               /\ rest[left] = {j \in left \ {first[left]} : <<first[left], j>> \notin alike},
           NEW kept, Rounds(S, first, rest, kept)
    PROVE  \A left \in SUBSET S : RoundsKeep(left, kept[left], alike, surer)
<1> DEFINE Wrong == {left \in SUBSET S : ~RoundsKeep(left, kept[left], alike, surer)}
<1>1. SUFFICES ASSUME Wrong # {}
               PROVE  FALSE
  OBVIOUS
<1>2. PICK left \in Wrong : \A u \in Wrong : Cardinality(left) <= Cardinality(u)
  <2>1. Wrong \in SUBSET (SUBSET S)
    OBVIOUS
  <2> HIDE DEF Wrong
  <2> QED
    BY <1>1, <2>1, LeastSet
<1>3. left \in SUBSET S /\ ~RoundsKeep(left, kept[left], alike, surer)
  OBVIOUS
<1>4. CASE left = {}
  <2>1. kept[left] = {}
    BY <1>3, <1>4 DEF Rounds
  <2> QED
    BY <1>3, <1>4, <2>1 DEF RoundsKeep
<1>5. CASE left # {}
  <2> DEFINE best == first[left]
             more == rest[left]
  <2>1. /\ best \in left /\ \A j \in left : <<best, j>> \in surer
        /\ more = {j \in left \ {best} : <<best, j>> \notin alike}
    BY <1>3, <1>5
  <2>2. more \in SUBSET S /\ more \in SUBSET left /\ more # left
    <3> HIDE DEF best, more
    <3>1. \A j \in more : j \in left /\ j # best
      BY <2>1
    <3> QED
      BY <1>3, <2>1, <3>1
  <2>3. kept[left] = {best} \cup kept[more]
    <3>1. kept[left] = IF left = {} THEN {} ELSE {first[left]} \cup kept[rest[left]]
      BY <1>3, Zenon DEF Rounds
    <3> QED
      BY <1>5, <3>1
  <2>4. RoundsKeep(more, kept[more], alike, surer)
    <3>1. IsFiniteSet(left) /\ Cardinality(left) \in Nat /\ Cardinality(more) \in Nat
      BY <1>3, <2>2, FS_Subset, FS_CardinalityType
    <3>2. Cardinality(more) <= Cardinality(left) /\ Cardinality(more) # Cardinality(left)
      BY <2>2, <3>1, FS_Subset
    <3>3. more \notin Wrong
      <4> HIDE DEF Wrong, more
      <4> QED
        BY <1>2, <3>1, <3>2
    <3> QED
      BY <2>2, <3>3
  <2> HIDE DEF best, more
  <2>5. kept[left] \subseteq left
    BY <2>1, <2>2, <2>3, <2>4 DEF RoundsKeep
  <2>6. ASSUME NEW i \in kept[left], NEW j \in kept[left], i # j
        PROVE  <<i, j>> \notin alike \/ <<j, i>> \notin alike
    BY <2>1, <2>3, <2>4, <2>6 DEF RoundsKeep
  <2>7. ASSUME NEW j \in left \ kept[left]
        PROVE  \E i \in kept[left] : <<i, j>> \in alike /\ <<i, j>> \in surer
    <3>1. CASE <<best, j>> \in alike
      BY <2>1, <2>3, <3>1
    <3>2. CASE <<best, j>> \notin alike
      <4>1. j \in more \ kept[more]
        BY <2>1, <2>3, <3>2
      <4>2. PICK i \in kept[more] : <<i, j>> \in alike /\ <<i, j>> \in surer
        BY <2>4, <4>1 DEF RoundsKeep
      <4> QED
        BY <2>3, <4>2
    <3> QED
      BY <3>1, <3>2
  <2> QED
    BY <1>3, <2>5, <2>6, <2>7 DEF RoundsKeep
<1> QED
  BY <1>4, <1>5

(* ---- pixels ---- *)
LEMMA InPixels ==
    ASSUME NEW box \in Rects
    PROVE  Pixels(box) = {p \in Int \X Int : /\ box.x <= p[1] /\ p[1] < box.x + box.width
                                             /\ box.y <= p[2] /\ p[2] < box.y + box.height}
<1>1. box.x \in Int /\ box.y \in Int /\ box.width \in Int /\ box.height \in Int
  BY DEF Rects
<1> QED
  BY <1>1 DEF Pixels

LEMMA NoPixels ==
    ASSUME NEW box \in Rects
    PROVE  Empty(box) <=> Pixels(box) = {}
<1>1. box.x \in Int /\ box.y \in Int /\ box.width \in Int /\ box.height \in Int
  BY DEF Rects
<1>2. ASSUME ~Empty(box)
      PROVE  <<box.x, box.y>> \in Pixels(box)
  BY <1>1, <1>2 DEF Pixels, Empty
<1>3. ASSUME Empty(box)
      PROVE  Pixels(box) = {}
  BY <1>1, <1>3 DEF Pixels, Empty
<1> QED
  BY <1>2, <1>3

LEMMA MeetIsCommon ==
    ASSUME NEW a \in Rects, NEW b \in Rects
    PROVE  Meet(a, b) \in Rects /\ Pixels(Meet(a, b)) = Pixels(a) \cap Pixels(b)
<1> DEFINE x == Greater(a.x, b.x)
           y == Greater(a.y, b.y)
           w == Lesser(a.x + a.width, b.x + b.width) - x
           h == Lesser(a.y + a.height, b.y + b.height) - y
           both == Rect(x, y, w, h)
<1>1. /\ a.x \in Int /\ a.y \in Int /\ a.width \in Int /\ a.height \in Int
      /\ b.x \in Int /\ b.y \in Int /\ b.width \in Int /\ b.height \in Int
  BY DEF Rects
<1>2. x \in Int /\ y \in Int /\ w \in Int /\ h \in Int
  BY <1>1 DEF Greater, Lesser
<1>3. both \in Rects /\ Rect(0, 0, 0, 0) \in Rects
  BY <1>2 DEF Rect, Rects
<1>4. Meet(a, b) = IF Empty(both) THEN Rect(0, 0, 0, 0) ELSE both
  BY DEF Meet
<1>5. both.x = x /\ both.y = y /\ both.width = w /\ both.height = h
  BY DEF Rect
<1>6. \A i \in Int : (x <= i /\ i < x + w) <=>
                     (a.x <= i /\ i < a.x + a.width /\ b.x <= i /\ i < b.x + b.width)
  BY <1>1 DEF Greater, Lesser
<1>7. \A i \in Int : (y <= i /\ i < y + h) <=>
                     (a.y <= i /\ i < a.y + a.height /\ b.y <= i /\ i < b.y + b.height)
  BY <1>1 DEF Greater, Lesser
<1> HIDE DEF x, y, w, h, both
<1>8. Pixels(both) = Pixels(a) \cap Pixels(b)
  <2>1. \A p \in Int \X Int : p[1] \in Int /\ p[2] \in Int
    OBVIOUS
  <2> QED
    BY <1>3, <1>5, <1>6, <1>7, <2>1, InPixels
<1>9. Pixels(Rect(0, 0, 0, 0)) = {}
  BY DEF Pixels, Rect
<1> QED
  BY <1>3, <1>4, <1>8, <1>9, NoPixels

LEMMA CountPixels ==
    ASSUME NEW box \in Rects, ~Empty(box)
    PROVE  /\ IsFiniteSet(Pixels(box)) /\ Cardinality(Pixels(box)) = Area(box)
           /\ Area(box) \in Nat /\ Area(box) > 0
<1>1. /\ box.x \in Int /\ box.y \in Int /\ box.width \in Int /\ box.height \in Int
      /\ box.width > 0 /\ box.height > 0
  BY DEF Rects, Empty
<1> DEFINE across == (box.x)..(box.x + box.width - 1)
           down == (box.y)..(box.y + box.height - 1)
<1>2. /\ IsFiniteSet(across) /\ Cardinality(across) = box.width
      /\ IsFiniteSet(down) /\ Cardinality(down) = box.height
  <2>1. box.x + box.width - 1 \in Int /\ box.y + box.height - 1 \in Int
    BY <1>1
  <2>2. /\ IsFiniteSet(across)
        /\ Cardinality(across) = IF box.x > box.x + box.width - 1 THEN 0
                                 ELSE (box.x + box.width - 1) - box.x + 1
    BY <1>1, <2>1, FS_Interval
  <2>3. /\ IsFiniteSet(down)
        /\ Cardinality(down) = IF box.y > box.y + box.height - 1 THEN 0
                               ELSE (box.y + box.height - 1) - box.y + 1
    BY <1>1, <2>1, FS_Interval
  <2> HIDE DEF across, down
  <2> QED
    BY <1>1, <2>2, <2>3
<1>3. Pixels(box) = across \X down
  BY DEF Pixels
<1>4. IsFiniteSet(across \X down) /\ Cardinality(across \X down) = box.width * box.height
  <2> HIDE DEF across, down
  <2> QED
    BY <1>2, FS_Product
<1>5. box.width * box.height \in Nat /\ box.width * box.height > 0
  BY <1>1
<1> HIDE DEF across, down
<1> QED
  BY <1>3, <1>4, <1>5 DEF Area

LEMMA Sign ==
    ASSUME NEW q \in Int, NEW k \in Int, k > 0
    PROVE  (0 > q) <=> (0 > q * k)
<1>1. CASE q >= 0
  <2>1. q \in Nat /\ k \in Nat
    BY <1>1
  <2>2. q * k >= 0
    BY <2>1
  <2> QED
    BY <1>1, <2>2
<1>2. CASE q < 0
  <2>1. (-q) - 1 \in Nat /\ k \in Nat
    BY <1>2
  <2>2. ((-q) - 1) * k >= 0
    BY <2>1
  <2>3. q * k = -(((-q) - 1) * k) - k
    OBVIOUS
  <2> QED
    BY <1>2, <2>2, <2>3
<1> QED
  BY <1>1, <1>2

(* The ratio of areas is the ratio of the numbers of pixels.                  *)
LEMMA AlikeIsClose ==
    ASSUME NEW a \in Rects, NEW b \in Rects, ~Empty(a), ~Empty(b), NEW most \in Int \X (Nat \ {0})
    PROVE  MoreThan(IntersectionOverUnion(a, b), most) <=>
               MoreThan(<<Cardinality(Pixels(a) \cap Pixels(b)),
                          Cardinality(Pixels(a) \cup Pixels(b))>>, most)
<1> DEFINE m == Meet(a, b)
           common == Pixels(a) \cap Pixels(b)
           together == Pixels(a) \cup Pixels(b)
           q == most[1]
           d == most[2]
<1>1. q \in Int /\ d \in Int
  OBVIOUS
<1>2. m \in Rects /\ Pixels(m) = common
  BY MeetIsCommon
<1>3. /\ IsFiniteSet(Pixels(a)) /\ Cardinality(Pixels(a)) = Area(a) /\ Area(a) \in Nat /\ Area(a) > 0
      /\ IsFiniteSet(Pixels(b)) /\ Cardinality(Pixels(b)) = Area(b) /\ Area(b) \in Nat /\ Area(b) > 0
  BY CountPixels
<1>4. Cardinality(together) = Area(a) + Area(b) - Cardinality(common)
  BY <1>3, FS_Union
<1> HIDE DEF m, common, together, q, d
<1>5. MoreThan(<<Cardinality(common), Cardinality(together)>>, most)
         <=> Cardinality(common) * d > q * Cardinality(together)
  BY DEF MoreThan, q, d
<1>6. CASE Empty(m)
  <2>1. common = {} /\ Cardinality(common) = 0
    BY <1>2, <1>6, NoPixels, FS_EmptySet
  <2>2. Area(m) = 0
    <3>1. m = Rect(0, 0, 0, 0)
      BY <1>6 DEF m, Meet
    <3> QED
      BY <3>1 DEF Rect, Area
  <2>3. IntersectionOverUnion(a, b) = <<0, 1>>
    BY <2>2 DEF IntersectionOverUnion, NoOverlap, m
  <2>4. MoreThan(IntersectionOverUnion(a, b), most) <=> 0 * d > q * 1
    BY <2>3 DEF MoreThan, q, d
  <2>5. PICK k \in Int : k = Cardinality(together) /\ k > 0
    BY <1>3, <1>4, <2>1
  <2>6. (0 > q) <=> (0 > q * k)
    BY <1>1, <2>5, Sign
  <2>7. 0 * d > q * 1 <=> 0 * d > q * k
    BY <1>1, <2>5, <2>6
  <2> QED
    BY <1>5, <2>1, <2>4, <2>5, <2>7 DEF common, together
<1>7. CASE ~Empty(m)
  <2>1. Cardinality(common) = Area(m) /\ Area(m) > 0 /\ Area(m) \in Nat
    BY <1>2, <1>7, CountPixels
  <2>2. IntersectionOverUnion(a, b) = <<Area(m), Area(a) + Area(b) - Area(m)>>
    BY <2>1 DEF IntersectionOverUnion, m
  <2>3. IntersectionOverUnion(a, b) = <<Cardinality(common), Cardinality(together)>>
    BY <1>4, <2>1, <2>2
  <2> QED
    BY <2>3 DEF common, together
<1> QED
  BY <1>6, <1>7

(* ---- the objects ---- *)
LEMMA WholeNumbers ==
    ASSUME NEW n \in Int, NEW d \in Nat \ {0}
    PROVE  Quotient(n, d) \in Int
<1>1. CASE n >= 0
  BY <1>1 DEF Quotient
<1>2. CASE n < 0
  <2>1. -n \in Int /\ (-n) \div d \in Int
    OBVIOUS
  <2> QED
    BY <1>2, <2>1 DEF Quotient
<1> QED
  BY <1>1, <1>2

LEMMA Places ==
    ASSUME NEW part \in Int, NEW whole \in Int
    PROVE  At(part, whole) \in Int
<1>1. part * whole \in Int /\ Unit \in Nat \ {0}
  BY PerceptionAssumption
<1> QED
  BY <1>1, WholeNumbers DEF At

LEMMA FrameIsRect ==
    ASSUME NEW size \in [width : Int, height : Int]
    PROVE  FrameRect(size) \in Rects
BY DEF FrameRect, Rect, Rects

(* What a row means is what its box shows.                                    *)
LEMMA BoxIsMeant ==
    ASSUME NEW row \in YoloRows, NEW size \in FrameSizes, computed.size = size
    PROVE  /\ CenteredBox(row, size) \in Rects
           /\ Pixels(CenteredBox(row, size)) = Meant(row)
<1> DEFINE w == At(row.width, size.width)
           h == At(row.height, size.height)
           left == At(row.cx, size.width) - Quotient(w, 2)
           top == At(row.cy, size.height) - Quotient(h, 2)
           box == Rect(left, top, w, h)
<1>1. size \in [width : Int, height : Int]
  BY PerceptionAssumption
<1>2. w \in Int /\ h \in Int /\ left \in Int /\ top \in Int
  <2>1. /\ row.cx \in Int /\ row.cy \in Int /\ row.width \in Int /\ row.height \in Int
        /\ size.width \in Int /\ size.height \in Int
    BY <1>1 DEF YoloRows
  <2>2. /\ w \in Int /\ h \in Int
        /\ At(row.cx, size.width) \in Int /\ At(row.cy, size.height) \in Int
    BY <2>1, Places
  <2>3. Quotient(w, 2) \in Int /\ Quotient(h, 2) \in Int
    BY <2>2, WholeNumbers
  <2> QED
    BY <2>2, <2>3
<1>3. /\ CenteredBox(row, size) = Meet(box, FrameRect(size))
      /\ Meant(row) = {p \in FramePixels(size) : /\ left <= p[1] /\ p[1] < left + w
                                                 /\ top <= p[2] /\ p[2] < top + h}
  BY DEF CenteredBox, Meant
<1> HIDE DEF w, h, left, top
<1>4. box \in Rects /\ FrameRect(size) \in Rects
      /\ box.x = left /\ box.y = top /\ box.width = w /\ box.height = h
  BY <1>1, <1>2, FrameIsRect DEF Rect, Rects
<1> HIDE DEF box
<1>5. /\ Meet(box, FrameRect(size)) \in Rects
      /\ Pixels(Meet(box, FrameRect(size))) = Pixels(box) \cap FramePixels(size)
  BY <1>4, MeetIsCommon DEF FramePixels
<1>6. Pixels(box) = {p \in Int \X Int : /\ left <= p[1] /\ p[1] < left + w
                                        /\ top <= p[2] /\ p[2] < top + h}
  BY <1>4, InPixels
<1>7. FramePixels(size) \subseteq Int \X Int
  BY <1>4, InPixels DEF FramePixels
<1> QED
  BY <1>3, <1>5, <1>6, <1>7

LEMMA BestScore ==
    ASSUME NEW scores \in Seq(0..Levels) \ {<<>>}
    PROVE  /\ BestClass(scores) \in DOMAIN scores
           /\ scores[BestClass(scores)] \in 0..Levels
           /\ (CHOOSE s \in Range(scores) : \A t \in Range(scores) : t <= s)
                 = scores[BestClass(scores)]
<1>1. Levels \in Nat
  BY PerceptionAssumption
<1>2. /\ Len(scores) \in Nat /\ Len(scores) # 0 /\ DOMAIN scores = 1..Len(scores)
      /\ \A d \in DOMAIN scores : scores[d] \in 0..Levels
  BY LenProperties, EmptySeq, ElementOfSeq
<1>3. \E c \in DOMAIN scores : \A d \in DOMAIN scores :
         scores[d] < scores[c] \/ (scores[d] = scores[c] /\ c <= d)
  <2>1. DOMAIN scores \in SUBSET Nat /\ DOMAIN scores # {}
    BY <1>2
  <2>2. \A d \in DOMAIN scores : scores[d] \in Nat /\ scores[d] <= Levels
    BY <1>1, <1>2
  <2> QED
    BY <1>1, <2>1, <2>2, FirstOfLargest
<1> DEFINE best == BestClass(scores)
<1>4. /\ best \in DOMAIN scores
      /\ \A d \in DOMAIN scores : scores[d] < scores[best] \/ (scores[d] = scores[best] /\ best <= d)
  BY <1>3 DEF BestClass
<1> HIDE DEF best
<1>5. \A t \in Range(scores) : t <= scores[best] /\ t \in Int
  BY <1>2, <1>4 DEF Range
<1>6. scores[best] \in Range(scores) /\ scores[best] \in 0..Levels
  BY <1>2, <1>4 DEF Range
<1>7. \A s \in Range(scores) : (\A t \in Range(scores) : t <= s) => s = scores[best]
  BY <1>5, <1>6
<1>8. (CHOOSE s \in Range(scores) : \A t \in Range(scores) : t <= s) = scores[best]
  BY <1>5, <1>6, <1>7
<1> QED
  BY <1>4, <1>6, <1>8 DEF best

(* How sure a row is, and that its objectness alone says when it is not.      *)
LEMMA SureOfRow ==
    ASSUME NEW row \in YoloRows, NEW size \in FrameSizes
    PROVE  /\ Candidate(row, size).confidence = Sureness(row)
           /\ Candidate(row, size).box = CenteredBox(row, size)
           /\ row.objectness * row.scores[Candidate(row, size).class] = Sureness(row)
           /\ Sureness(row) \in Nat /\ Sureness(row) <= Levels * Levels
           /\ Sureness(row) <= row.objectness * Levels
<1> DEFINE best == BestClass(row.scores)
<1>1. row.objectness \in 0..Levels /\ row.scores \in Seq(0..Levels) \ {<<>>} /\ Levels \in Nat
  BY PerceptionAssumption DEF YoloRows
<1>2. /\ row.scores[best] \in 0..Levels
      /\ (CHOOSE s \in Range(row.scores) : \A t \in Range(row.scores) : t <= s) = row.scores[best]
  BY <1>1, BestScore
<1>3. Sureness(row) = row.objectness * row.scores[best]
  BY <1>2, Zenon DEF Sureness
<1>4. Candidate(row, size) = [class |-> best, confidence |-> row.objectness * row.scores[best],
                              box |-> CenteredBox(row, size)]
  BY DEF Candidate
<1> HIDE DEF best
<1>5. PICK o \in 0..Levels, s \in 0..Levels : o = row.objectness /\ s = row.scores[best]
  BY <1>1, <1>2
<1>6. o * s \in Nat /\ o * s <= o * Levels /\ o * Levels <= Levels * Levels
  <2>1. o \in Nat /\ s \in Nat /\ Levels - s \in Nat /\ Levels - o \in Nat
    BY <1>1
  <2>2. o * s \in Nat /\ o * (Levels - s) >= 0 /\ (Levels - o) * Levels >= 0
    BY <1>1, <2>1
  <2>3. o * (Levels - s) = o * Levels - o * s /\ (Levels - o) * Levels = Levels * Levels - o * Levels
    BY <1>1, <2>1
  <2>4. o * Levels \in Int /\ Levels * Levels \in Int
    BY <1>1, <2>1
  <2> QED
    BY <2>2, <2>3, <2>4
<1>7. o * s \in Nat /\ o * s <= Levels * Levels
  <2>1. o * Levels \in Int /\ Levels * Levels \in Int
    BY <1>1
  <2> QED
    BY <1>6, <2>1
<1> QED
  BY <1>3, <1>4, <1>5, <1>6, <1>7

(* What the suppression leaves of the candidates.                             *)
Above(found, threshold) == {i \in DOMAIN found : found[i].confidence > threshold}

LEMMA Suppression ==
    ASSUME NEW found, IsFiniteSet(DOMAIN found), DOMAIN found \subseteq Nat, NEW bound \in Nat,
           \A i \in DOMAIN found : found[i].confidence \in Nat /\ found[i].confidence <= bound,
           NEW threshold, NEW most,
           NEW kept, kept = NMSBoxes(found, threshold, most)
    PROVE  /\ kept \subseteq Above(found, threshold)
           /\ \A i, j \in kept : i # j =>
                 ~TooAlike(found, i, j, most) \/ ~TooAlike(found, j, i, most)
           /\ \A j \in Above(found, threshold) \ kept : \E i \in kept :
                 TooAlike(found, i, j, most) /\ found[i].confidence >= found[j].confidence
<1> DEFINE S == DOMAIN found
           Others(left) == {j \in left \ {MostCertain(found, left)} :
                               ~TooAlike(found, MostCertain(found, left), j, most)}
           first == [left \in SUBSET S |-> MostCertain(found, left)]
           rest == [left \in SUBSET S |-> Others(left)]
           alike == {p \in S \X S : TooAlike(found, p[1], p[2], most)}
           surer == {p \in S \X S : found[p[1]].confidence >= found[p[2]].confidence}
<1>1. ASSUME NEW left \in SUBSET S, left # {}
      PROVE  /\ MostCertain(found, left) \in left
             /\ \A j \in left : found[MostCertain(found, left)].confidence >= found[j].confidence
  <2> DEFINE v == [i \in S |-> found[i].confidence]
  <2>1. \A i \in left : v[i] \in Nat /\ v[i] <= bound /\ v[i] = found[i].confidence
    OBVIOUS
  <2>2. left \in SUBSET Nat
    OBVIOUS
  <2> HIDE DEF v
  <2>3. \E i \in left : \A j \in left : v[j] < v[i] \/ (v[j] = v[i] /\ i <= j)
    BY <1>1, <2>1, <2>2, FirstOfLargest
  <2>4. \E i \in left : \A j \in left :
           found[j].confidence < found[i].confidence
           \/ (found[j].confidence = found[i].confidence /\ i <= j)
    BY <2>1, <2>3
  <2> DEFINE best == MostCertain(found, left)
  <2>5. /\ best \in left
        /\ \A j \in left : found[j].confidence < found[best].confidence
                           \/ (found[j].confidence = found[best].confidence /\ best <= j)
    BY <2>4 DEF MostCertain
  <2> HIDE DEF best
  <2>6. \A j \in left : found[best].confidence >= found[j].confidence
    BY <2>1, <2>5
  <2> QED
    BY <2>5, <2>6 DEF best
<1>2. \A p, q \in S : /\ <<p, q>> \in alike <=> TooAlike(found, p, q, most)
                      /\ <<p, q>> \in surer <=> found[p].confidence >= found[q].confidence
  OBVIOUS
<1>3. \A left \in SUBSET S : /\ first[left] = MostCertain(found, left)
                             /\ rest[left] = Others(left)
  OBVIOUS
<1> HIDE DEF alike, surer, first, rest
<1>4. ASSUME NEW left \in SUBSET S, left # {}
      PROVE  /\ first[left] \in left
             /\ \A j \in left : <<first[left], j>> \in surer
             /\ rest[left] = {j \in left \ {first[left]} : <<first[left], j>> \notin alike}
             /\ rest[left] \in SUBSET left /\ rest[left] # left
  <2>1. first[left] \in left /\ first[left] = MostCertain(found, left)
    BY <1>1, <1>3, <1>4
  <2>2. \A j \in left : <<first[left], j>> \in surer
    BY <1>1, <1>2, <1>4, <2>1
  <2>3. rest[left] = {j \in left \ {first[left]} : <<first[left], j>> \notin alike}
    BY <1>2, <1>3, <2>1
  <2>4. rest[left] \in SUBSET left /\ first[left] \notin rest[left]
    BY <2>3
  <2> QED
    BY <2>1, <2>2, <2>3, <2>4
<1>5. \A k : Rounds(S, first, rest, k) <=>
         k = [left \in SUBSET S |-> IF left = {} THEN {}
                                    ELSE {MostCertain(found, left)} \cup k[Others(left)]]
  BY <1>3 DEF Rounds
<1>6. \E k : Rounds(S, first, rest, k)
  BY <1>4, RoundsEnd
<1> DEFINE k == CHOOSE k : k = [left \in SUBSET S |-> IF left = {} THEN {}
                                    ELSE {MostCertain(found, left)} \cup k[Others(left)]]
<1>7. Rounds(S, first, rest, k)
  BY <1>5, <1>6
<1>8. kept = k[Above(found, threshold)]
  BY DEF NMSBoxes, Above
<1> HIDE DEF k
<1>9. RoundsKeep(Above(found, threshold), kept, alike, surer)
  <2>1. Above(found, threshold) \in SUBSET S
    BY DEF Above
  <2>2. \A left \in SUBSET S : RoundsKeep(left, k[left], alike, surer)
    <3>1. \A left \in SUBSET S : left # {} =>
             /\ first[left] \in left
             /\ \A j \in left : <<first[left], j>> \in surer
             /\ rest[left] = {j \in left \ {first[left]} : <<first[left], j>> \notin alike}
      BY <1>4, Zenon
    <3>2. IsFiniteSet(S)
      OBVIOUS
    <3> HIDE DEF S
    <3> QED
      BY <1>7, <3>1, <3>2, RoundsSuppress
  <2> QED
    BY <1>8, <2>1, <2>2
<1>10. Above(found, threshold) \subseteq S
  BY DEF Above
<1>11. kept \subseteq Above(found, threshold) /\ kept \subseteq S
  BY <1>9, <1>10 DEF RoundsKeep
<1> HIDE DEF S
<1>12. ASSUME NEW i \in kept, NEW j \in kept, i # j
       PROVE  ~TooAlike(found, i, j, most) \/ ~TooAlike(found, j, i, most)
  <2>1. <<i, j>> \notin alike \/ <<j, i>> \notin alike
    BY <1>9, <1>12 DEF RoundsKeep
  <2>2. i \in S /\ j \in S
    BY <1>11
  <2> QED
    BY <1>2, <2>1, <2>2
<1>13. ASSUME NEW j \in Above(found, threshold) \ kept
       PROVE  \E i \in kept : TooAlike(found, i, j, most) /\ found[i].confidence >= found[j].confidence
  <2>1. PICK i \in kept : <<i, j>> \in alike /\ <<i, j>> \in surer
    BY <1>9 DEF RoundsKeep
  <2>2. i \in S /\ j \in S
    BY <1>10, <1>11
  <2> QED
    BY <1>2, <2>1, <2>2
<1> QED
  BY <1>11, <1>12, <1>13

(* The detections of one frame.                                               *)
LEMMA ObjectsAreExplained ==
    ASSUME NEW rows \in YoloOutputs, NEW size \in FrameSizes, NEW threshold \in Thresholds,
           NEW most \in MostOverlaps,
           computed.rows = rows, computed.size = size, computed.threshold = threshold,
           computed.most = most,
           computed.detections = YoloDetections(rows, size, threshold, most)
    PROVE  ObjectsExplained
<1> DEFINE found == Candidates(rows, size, threshold)
           kept == NMSBoxes(found, threshold, most)
           shown == computed.detections
<1>1. /\ rows \in Seq(YoloRows) /\ threshold \in Int /\ most \in Int \X (Nat \ {0})
      /\ Levels \in Nat
  BY PerceptionAssumption
<1>2. /\ Len(rows) \in Nat /\ DOMAIN rows = 1..Len(rows)
      /\ \A i \in DOMAIN rows : rows[i] \in YoloRows
  BY <1>1, LenProperties, ElementOfSeq
<1>3. /\ DOMAIN found = {i \in DOMAIN rows : IsCandidate(rows[i], size, threshold)}
      /\ \A i \in DOMAIN found : found[i] = Candidate(rows[i], size)
  BY DEF Candidates
<1>4. shown = [i \in kept |-> found[i]]
  BY DEF YoloDetections
<1> HIDE DEF found, kept, shown
<1>5. \A i \in DOMAIN found : i \in DOMAIN rows /\ rows[i] \in YoloRows
  BY <1>2, <1>3
<1>6. ASSUME NEW i \in DOMAIN found
      PROVE  /\ found[i].confidence = Sureness(rows[i])
             /\ found[i].confidence \in Nat /\ found[i].confidence <= Levels * Levels
             /\ rows[i].objectness * rows[i].scores[found[i].class] = Sureness(rows[i])
             /\ found[i].box \in Rects /\ ~Empty(found[i].box)
             /\ Pixels(found[i].box) = Meant(rows[i]) /\ Meant(rows[i]) # {}
  <2>1. rows[i] \in YoloRows /\ found[i] = Candidate(rows[i], size)
        /\ IsCandidate(rows[i], size, threshold)
    BY <1>3, <1>5
  <2>2. /\ found[i].confidence = Sureness(rows[i])
        /\ found[i].box = CenteredBox(rows[i], size)
        /\ rows[i].objectness * rows[i].scores[found[i].class] = Sureness(rows[i])
        /\ Sureness(rows[i]) \in Nat /\ Sureness(rows[i]) <= Levels * Levels
    BY <2>1, SureOfRow
  <2>3. CenteredBox(rows[i], size) \in Rects /\ Pixels(CenteredBox(rows[i], size)) = Meant(rows[i])
    BY <2>1, BoxIsMeant
  <2>4. ~Empty(CenteredBox(rows[i], size))
    BY <2>1 DEF IsCandidate
  <2>5. Pixels(CenteredBox(rows[i], size)) # {}
    BY <2>3, <2>4, NoPixels
  <2> QED
    BY <2>2, <2>3, <2>4, <2>5
<1>7. /\ kept \subseteq Above(found, threshold)
      /\ \A i, j \in kept : i # j => ~TooAlike(found, i, j, most) \/ ~TooAlike(found, j, i, most)
      /\ \A j \in Above(found, threshold) \ kept : \E i \in kept :
            TooAlike(found, i, j, most) /\ found[i].confidence >= found[j].confidence
  <2>1. IsFiniteSet(DOMAIN found) /\ DOMAIN found \subseteq Nat
    <3>1. DOMAIN found \in SUBSET (1..Len(rows)) /\ IsFiniteSet(1..Len(rows))
      BY <1>2, <1>3, FS_Interval
    <3> QED
      BY <1>2, <3>1, FS_Subset
  <2>2. Levels * Levels \in Nat
    BY <1>1
  <2>3. \A i \in DOMAIN found : found[i].confidence \in Nat /\ found[i].confidence <= Levels * Levels
    BY <1>6
  <2>4. kept = NMSBoxes(found, threshold, most)
    BY DEF kept
  <2> QED
    BY <2>1, <2>2, <2>3, <2>4, Suppression
<1>8. kept \subseteq DOMAIN found
  BY <1>7 DEF Above
<1>9. DOMAIN shown = kept /\ \A i \in kept : shown[i] = found[i]
  BY <1>4
<1>10. ASSUME NEW i \in DOMAIN found, NEW j \in DOMAIN found
       PROVE  /\ TooAlike(found, i, j, most) <=> TooClose(Pixels(found[i].box), Pixels(found[j].box))
              /\ TooClose(Pixels(found[i].box), Pixels(found[j].box))
                    <=> TooClose(Pixels(found[j].box), Pixels(found[i].box))
  <2> DEFINE a == found[i].box
             b == found[j].box
  <2>1. a \in Rects /\ b \in Rects /\ ~Empty(a) /\ ~Empty(b)
    BY <1>6
  <2> HIDE DEF a, b
  <2>2. MoreThan(IntersectionOverUnion(a, b), most) <=>
               MoreThan(<<Cardinality(Pixels(a) \cap Pixels(b)),
                          Cardinality(Pixels(a) \cup Pixels(b))>>, most)
    BY <1>1, <2>1, AlikeIsClose
  <2>3. Pixels(a) \cap Pixels(b) = Pixels(b) \cap Pixels(a)
        /\ Pixels(a) \cup Pixels(b) = Pixels(b) \cup Pixels(a)
    OBVIOUS
  <2>4. TooClose(Pixels(a), Pixels(b)) <=> TooClose(Pixels(b), Pixels(a))
    BY <2>3, Zenon DEF TooClose
  <2>5. TooClose(Pixels(a), Pixels(b)) <=>
               MoreThan(<<Cardinality(Pixels(a) \cap Pixels(b)),
                          Cardinality(Pixels(a) \cup Pixels(b))>>, most)
    BY DEF TooClose
  <2>6. TooAlike(found, i, j, most) <=> MoreThan(IntersectionOverUnion(a, b), most)
    BY DEF TooAlike, a, b
  <2>7. TooAlike(found, i, j, most) <=> TooClose(Pixels(a), Pixels(b))
    BY <2>2, <2>5, <2>6
  <2> QED
    BY <2>4, <2>7 DEF a, b
<1> DEFINE sure == {row \in Range(rows) : Sureness(row) > threshold /\ Meant(row) # {}}
           Shows(d, row) == /\ Pixels(d.box) = Meant(row)
                            /\ d.confidence = Sureness(row)
                            /\ row.objectness * row.scores[d.class] = Sureness(row)
<1>11. \A d \in Range(shown) : \E row \in sure : Shows(d, row)
  <2> SUFFICES ASSUME NEW d \in Range(shown)
               PROVE  \E row \in sure : Shows(d, row)
    OBVIOUS
  <2>1. PICK i \in kept : d = found[i]
    BY <1>9 DEF Range
  <2>2. i \in DOMAIN found /\ i \in DOMAIN rows /\ found[i].confidence > threshold
    BY <1>5, <1>7, <1>8 DEF Above
  <2>3. rows[i] \in Range(rows)
    BY <2>2 DEF Range
  <2>4. rows[i] \in sure
    BY <1>6, <2>2, <2>3
  <2>5. Shows(d, rows[i])
    BY <1>6, <2>1, <2>2
  <2> QED
    BY <2>4, <2>5
<1>12. \A i, j \in DOMAIN shown : i # j => ~TooClose(Pixels(shown[i].box), Pixels(shown[j].box))
  <2> SUFFICES ASSUME NEW i \in kept, NEW j \in kept, i # j
               PROVE  ~TooClose(Pixels(found[i].box), Pixels(found[j].box))
    BY <1>9
  <2>1. i \in DOMAIN found /\ j \in DOMAIN found
    BY <1>8
  <2> QED
    BY <1>7, <1>10, <2>1
<1>13. \A row \in sure : \E d \in Range(shown) :
          /\ d.confidence >= Sureness(row)
          /\ Shows(d, row) \/ TooClose(Pixels(d.box), Meant(row))
  <2> SUFFICES ASSUME NEW row \in sure
               PROVE  \E d \in Range(shown) :
                         /\ d.confidence >= Sureness(row)
                         /\ Shows(d, row) \/ TooClose(Pixels(d.box), Meant(row))
    OBVIOUS
  <2>1. row \in Range(rows) /\ Sureness(row) > threshold /\ Meant(row) # {}
    OBVIOUS
  <2>2. PICK k \in DOMAIN rows : row = rows[k]
    BY <2>1 DEF Range
  <2>3. rows[k] \in YoloRows
    BY <1>2
  <2>4. IsCandidate(rows[k], size, threshold)
    <3>1. /\ Candidate(rows[k], size).confidence = Sureness(row)
          /\ Sureness(row) \in Nat /\ Sureness(row) <= row.objectness * Levels
      BY <2>2, <2>3, SureOfRow
    <3>2. CenteredBox(rows[k], size) \in Rects /\ Pixels(CenteredBox(rows[k], size)) = Meant(row)
      BY <2>2, <2>3, BoxIsMeant
    <3>3. ~Empty(CenteredBox(rows[k], size))
      BY <2>1, <3>2, NoPixels
    <3>4. row.objectness * Levels \in Int
      <4>1. row.objectness \in 0..Levels
        BY <2>2, <2>3 DEF YoloRows
      <4> QED
        BY <1>1, <4>1
    <3>5. row.objectness * Levels >= threshold
      BY <1>1, <2>1, <3>1, <3>4
    <3>6. Candidate(rows[k], size).confidence >= threshold
      BY <1>1, <2>1, <3>1
    <3> QED
      BY <2>2, <3>3, <3>5, <3>6 DEF IsCandidate
  <2>5. k \in DOMAIN found /\ k \in Above(found, threshold)
    <3>1. k \in DOMAIN found
      BY <1>3, <2>4
    <3> QED
      BY <1>6, <2>1, <2>2, <3>1 DEF Above
  <2>6. CASE k \in kept
    <3>1. found[k] \in Range(shown)
      BY <1>9, <2>6 DEF Range
    <3>2. Shows(found[k], row) /\ found[k].confidence >= Sureness(row)
      BY <1>6, <2>2, <2>5
    <3> QED
      BY <3>1, <3>2
  <2>7. CASE k \notin kept
    <3>1. PICK i \in kept : TooAlike(found, i, k, most) /\ found[i].confidence >= found[k].confidence
      BY <1>7, <2>5, <2>7
    <3>2. i \in DOMAIN found /\ found[i] \in Range(shown)
      BY <1>8, <1>9 DEF Range
    <3>3. TooClose(Pixels(found[i].box), Pixels(found[k].box))
      BY <1>10, <2>5, <3>1, <3>2
    <3>4. Pixels(found[k].box) = Meant(row) /\ found[k].confidence = Sureness(row)
      BY <1>6, <2>2, <2>5
    <3> QED
      BY <3>1, <3>2, <3>3, <3>4
  <2> QED
    BY <2>6, <2>7
<1> QED
  BY <1>11, <1>12, <1>13, Zenon DEF ObjectsExplained, shown

LEMMA FaceIsWhereClaimed ==
    ASSUME NEW row \in SsdRows, NEW size \in FrameSizes, computed.size = size
    PROVE  FaceBox(row, size) \in Rects /\ Pixels(FaceBox(row, size)) = FacePixels(row)
<1> DEFINE x1 == At(row.x1, size.width)
           y1 == At(row.y1, size.height)
           x2 == At(row.x2, size.width)
           y2 == At(row.y2, size.height)
           box == Corners(x1, y1, x2, y2)
           Between(v, a, b) == (a <= v /\ v < b) \/ (b <= v /\ v < a)
<1>1. size \in [width : Int, height : Int]
  BY PerceptionAssumption
<1>2. x1 \in Int /\ y1 \in Int /\ x2 \in Int /\ y2 \in Int
  <2>1. /\ row.x1 \in Int /\ row.y1 \in Int /\ row.x2 \in Int /\ row.y2 \in Int
        /\ size.width \in Int /\ size.height \in Int
    BY <1>1 DEF SsdRows
  <2> QED
    BY <2>1, Places
<1>3. /\ FaceBox(row, size) = Meet(box, FrameRect(size))
      /\ FacePixels(row) = {p \in FramePixels(size) : Between(p[1], x1, x2) /\ Between(p[2], y1, y2)}
  BY DEF FaceBox, FacePixels
<1> HIDE DEF x1, y1, x2, y2
<1>4. /\ box \in Rects /\ FrameRect(size) \in Rects
      /\ \A i \in Int : (box.x <= i /\ i < box.x + box.width) <=> Between(i, x1, x2)
      /\ \A i \in Int : (box.y <= i /\ i < box.y + box.height) <=> Between(i, y1, y2)
  <2>1. /\ box.x = Lesser(x1, x2) /\ box.width = Greater(x1, x2) - Lesser(x1, x2)
        /\ box.y = Lesser(y1, y2) /\ box.height = Greater(y1, y2) - Lesser(y1, y2)
        /\ box = Rect(Lesser(x1, x2), Lesser(y1, y2),
                      Greater(x1, x2) - Lesser(x1, x2), Greater(y1, y2) - Lesser(y1, y2))
    BY DEF Corners, Rect
  <2>2. /\ Lesser(x1, x2) \in Int /\ Greater(x1, x2) \in Int
        /\ Lesser(y1, y2) \in Int /\ Greater(y1, y2) \in Int
    BY <1>2 DEF Lesser, Greater
  <2>3. box \in Rects
    BY <2>1, <2>2 DEF Rect, Rects
  <2>4. \A i \in Int : (Lesser(x1, x2) <= i /\ i < Greater(x1, x2)) <=> Between(i, x1, x2)
    BY <1>2 DEF Lesser, Greater
  <2>5. \A i \in Int : (Lesser(y1, y2) <= i /\ i < Greater(y1, y2)) <=> Between(i, y1, y2)
    BY <1>2 DEF Lesser, Greater
  <2>6. /\ box.x + box.width = Greater(x1, x2) /\ box.y + box.height = Greater(y1, y2)
    BY <2>1, <2>2
  <2> HIDE DEF box, Between
  <2>7. FrameRect(size) \in Rects
    BY <1>1, FrameIsRect
  <2> QED
    BY <2>1, <2>3, <2>4, <2>5, <2>6, <2>7
<1> HIDE DEF box, Between
<1>5. /\ Meet(box, FrameRect(size)) \in Rects
      /\ Pixels(Meet(box, FrameRect(size))) = Pixels(box) \cap FramePixels(size)
  BY <1>4, MeetIsCommon DEF FramePixels
<1>6. Pixels(box) = {p \in Int \X Int : Between(p[1], x1, x2) /\ Between(p[2], y1, y2)}
  <2>1. Pixels(box) = {p \in Int \X Int : /\ box.x <= p[1] /\ p[1] < box.x + box.width
                                          /\ box.y <= p[2] /\ p[2] < box.y + box.height}
    BY <1>4, InPixels
  <2>2. \A p \in Int \X Int : p[1] \in Int /\ p[2] \in Int
    OBVIOUS
  <2> QED
    BY <1>4, <2>1, <2>2
<1>7. FramePixels(size) \subseteq Int \X Int
  BY <1>4, InPixels DEF FramePixels
<1> QED
  BY <1>3, <1>5, <1>6, <1>7

LEMMA FacesAreExplained ==
    ASSUME NEW ready \in BOOLEAN, NEW output \in SsdOutputs, NEW size \in FrameSizes,
           NEW threshold \in Thresholds,
           computed.ready = ready, computed.output = output, computed.size = size,
           computed.threshold = threshold,
           computed.detections = FaceDetections(ready, output, size, threshold)
    PROVE  FacesExplained
<1> DEFINE rows == output.rows
           shown == computed.detections
           sure == {row \in Range(rows) : row.confidence >= threshold}
           IsFace(row) == row.confidence >= threshold /\ ~Empty(FaceBox(row, size))
           faces == {i \in DOMAIN rows : IsFace(rows[i])}
<1>1. rows \in Seq(SsdRows) /\ size \in [width : Int, height : Int]
  BY PerceptionAssumption
<1>2. \A i \in DOMAIN rows : rows[i] \in SsdRows /\ rows[i] \in Range(rows)
  BY <1>1, ElementOfSeq DEF Range
<1>3. ASSUME NEW i \in DOMAIN rows
      PROVE  /\ Pixels(FaceBox(rows[i], size)) = FacePixels(rows[i])
             /\ Empty(FaceBox(rows[i], size)) <=> FacePixels(rows[i]) = {}
  <2>1. FaceBox(rows[i], size) \in Rects /\ Pixels(FaceBox(rows[i], size)) = FacePixels(rows[i])
    BY <1>2, FaceIsWhereClaimed
  <2> QED
    BY <2>1, NoPixels
<1>4. CASE ~ready \/ output.columns < 7
  <2>1. shown = <<>>
    BY <1>4 DEF FaceDetections, SsdDetections
  <2>2. Range(shown) = {}
    BY <2>1 DEF Range
  <2>3. ~(computed.ready /\ computed.output.columns >= 7)
    <3>1. output.columns \in Int
      BY PerceptionAssumption
    <3> QED
      BY <1>4, <3>1
  <2> QED
    BY <2>2, <2>3 DEF FacesExplained
<1>5. CASE ready /\ ~(output.columns < 7)
  <2>1. computed.ready /\ computed.output.columns >= 7
    <3>1. output.columns \in Int
      BY PerceptionAssumption
    <3> QED
      BY <1>5, <3>1
  <2>2. CASE Area(size) = 0
    <3>1. shown = <<>>
      BY <2>2 DEF FaceDetections
    <3>2. Range(shown) = {}
      BY <3>1 DEF Range
    <3>3. FramePixels(size) = {}
      <4>1. size.width \in Int /\ size.height \in Int /\ size.width * size.height = 0
        BY <1>1, <2>2 DEF Area
      <4>2. size.width = 0 \/ size.height = 0
        BY <4>1
      <4>3. FrameRect(size) \in Rects /\ Empty(FrameRect(size))
        BY <1>1, <4>2, FrameIsRect DEF FrameRect, Rect, Empty
      <4> QED
        BY <4>3, NoPixels DEF FramePixels
    <3>4. \A row : FacePixels(row) = {}
      BY <3>3 DEF FacePixels
    <3>5. {FacePixels(row) : row \in sure} \ {{}} = {}
      BY <3>4
    <3> QED
      BY <2>1, <3>2, <3>5 DEF FacesExplained
  <2>3. CASE Area(size) # 0
    <3>1. shown = [i \in faces |-> [class |-> FaceClass, confidence |-> rows[i].confidence,
                                    box |-> FaceBox(rows[i], size)]]
      BY <1>5, <2>3 DEF FaceDetections, SsdDetections
    <3> HIDE DEF shown
    <3>2. DOMAIN shown = faces /\ \A i \in faces : shown[i].box = FaceBox(rows[i], size)
      BY <3>1
    <3> HIDE DEF rows
    <3>3. ASSUME NEW pixels
          PROVE  pixels \in {Pixels(d.box) : d \in Range(shown)}
                    <=> pixels \in {FacePixels(row) : row \in sure} \ {{}}
      <4>1. ASSUME pixels \in {Pixels(d.box) : d \in Range(shown)}
            PROVE  pixels \in {FacePixels(row) : row \in sure} \ {{}}
        <5>1. PICK i \in faces : pixels = Pixels(FaceBox(rows[i], size))
          BY <3>2, <4>1 DEF Range
        <5>2. i \in DOMAIN rows /\ rows[i].confidence >= threshold /\ ~Empty(FaceBox(rows[i], size))
          OBVIOUS
        <5>3. pixels = FacePixels(rows[i]) /\ pixels # {} /\ rows[i] \in sure
          BY <1>2, <1>3, <5>1, <5>2
        <5> QED
          BY <5>3
      <4>2. ASSUME pixels \in {FacePixels(row) : row \in sure} \ {{}}
            PROVE  pixels \in {Pixels(d.box) : d \in Range(shown)}
        <5>1. PICK row \in sure : pixels = FacePixels(row) /\ pixels # {}
          BY <4>2
        <5>2. PICK i \in DOMAIN rows : row = rows[i]
          BY DEF Range
        <5>3. i \in faces /\ pixels = Pixels(FaceBox(rows[i], size))
          BY <1>3, <5>1, <5>2
        <5>4. shown[i] \in Range(shown)
          BY <3>2, <5>3 DEF Range
        <5> QED
          BY <3>2, <5>3, <5>4
      <4> QED
        BY <4>1, <4>2
    <3>4. {Pixels(d.box) : d \in Range(shown)} = {FacePixels(row) : row \in sure} \ {{}}
      BY <3>3
    <3> QED
      BY <2>1, <3>4 DEF FacesExplained, shown, rows
  <2> QED
    BY <2>2, <2>3
<1> QED
  BY <1>4, <1>5

LEMMA MotionIsExplained ==
    ASSUME NEW contours \in ContourLists, NEW size \in FrameSizes, NEW minArea,
           computed.contours = contours, computed.size = size, computed.minArea = minArea,
           computed.detections = MotionDetections(contours, size, minArea)
    PROVE  MotionExplained
<1> DEFINE shown == computed.detections
           frame == FrameRect(size)
           IsLarge(c) == c.area >= minArea /\ ~Empty(Meet(c.bounds, frame))
           moved == {i \in DOMAIN contours : IsLarge(contours[i])}
           large == {c \in Range(contours) : c.area >= minArea}
<1>1. /\ contours \in Seq([area : Int, bounds : Rects]) /\ frame \in Rects
  BY PerceptionAssumption, FrameIsRect
<1> HIDE DEF frame
<1>2. \A i \in DOMAIN contours : contours[i].bounds \in Rects /\ contours[i] \in Range(contours)
  <2> SUFFICES ASSUME NEW i \in DOMAIN contours
               PROVE  contours[i].bounds \in Rects /\ contours[i] \in Range(contours)
    OBVIOUS
  <2>1. i \in 1..Len(contours)
    BY <1>1, LenProperties
  <2>2. contours[i] \in [area : Int, bounds : Rects]
    BY <1>1, <2>1, ElementOfSeq
  <2>3. contours[i] \in Range(contours)
    BY DEF Range
  <2> QED
    BY <2>2, <2>3
<1>3. ASSUME NEW i \in DOMAIN contours
      PROVE  /\ Pixels(Meet(contours[i].bounds, frame)) = Pixels(contours[i].bounds) \cap FramePixels(size)
             /\ Empty(Meet(contours[i].bounds, frame))
                   <=> Pixels(contours[i].bounds) \cap FramePixels(size) = {}
  <2>1. /\ Meet(contours[i].bounds, frame) \in Rects
        /\ Pixels(Meet(contours[i].bounds, frame)) = Pixels(contours[i].bounds) \cap Pixels(frame)
    BY <1>1, <1>2, MeetIsCommon
  <2>2. Pixels(frame) = FramePixels(size)
    BY DEF FramePixels, frame
  <2> QED
    BY <2>1, <2>2, NoPixels
<1>4. shown = [i \in moved |-> [class |-> MotionClass, confidence |-> Levels * Levels,
                                box |-> Meet(contours[i].bounds, frame)]]
  BY DEF MotionDetections, frame
<1> HIDE DEF shown
<1>5. DOMAIN shown = moved /\ \A i \in moved : shown[i].box = Meet(contours[i].bounds, frame)
  BY <1>4
<1> DEFINE Visible(c) == Pixels(c.bounds) \cap FramePixels(size)
<1>6. ASSUME NEW pixels
      PROVE  pixels \in {Pixels(d.box) : d \in Range(shown)}
                <=> pixels \in {Visible(c) : c \in large} \ {{}}
  <2>1. ASSUME pixels \in {Pixels(d.box) : d \in Range(shown)}
        PROVE  pixels \in {Visible(c) : c \in large} \ {{}}
    <3>1. PICK i \in moved : pixels = Pixels(Meet(contours[i].bounds, frame))
      BY <1>5, <2>1 DEF Range
    <3>2. /\ i \in DOMAIN contours /\ contours[i].area >= minArea
          /\ ~Empty(Meet(contours[i].bounds, frame))
      OBVIOUS
    <3>3. pixels = Visible(contours[i]) /\ pixels # {} /\ contours[i] \in large
      BY <1>2, <1>3, <3>1, <3>2
    <3> QED
      BY <3>3
  <2>2. ASSUME pixels \in {Visible(c) : c \in large} \ {{}}
        PROVE  pixels \in {Pixels(d.box) : d \in Range(shown)}
    <3>1. PICK c \in large : pixels = Visible(c) /\ pixels # {}
      BY <2>2
    <3>2. PICK i \in DOMAIN contours : c = contours[i]
      BY DEF Range
    <3>3. i \in moved /\ pixels = Pixels(Meet(contours[i].bounds, frame))
      BY <1>3, <3>1, <3>2
    <3>4. shown[i] \in Range(shown)
      BY <1>5, <3>3 DEF Range
    <3> QED
      BY <1>5, <3>3, <3>4
  <2> QED
    BY <2>1, <2>2
<1>7. {Pixels(d.box) : d \in Range(shown)} = {Visible(c) : c \in large} \ {{}}
  BY <1>6, Zenon
<1> QED
  BY <1>7, Zenon DEF MotionExplained, shown

(* ---- what the latencies say ---- *)
(* The sums of the beginnings of a list.                                      *)
Sums(sum, s, n) == sum = [i \in 0..n |-> IF i = 0 THEN 0 ELSE sum[i - 1] + s[i]]

LEMMA SumsExist ==
    ASSUME NEW n \in Nat, NEW s
    PROVE  \E sum : Sums(sum, s, n)
<1> DEFINE AddsUp(sum, m) == \A i \in 0..m : sum[i] = IF i = 0 THEN 0 ELSE sum[i - 1] + s[i]
           Hard == {m \in 0..n : ~\E sum : AddsUp(sum, m)}
<1>1. Hard = {}
  <2> SUFFICES ASSUME Hard # {}
               PROVE  FALSE
    OBVIOUS
  <2>1. PICK m \in Hard : \A l \in Hard : m <= l
    <3>1. Hard \in SUBSET Nat
      OBVIOUS
    <3> HIDE DEF Hard
    <3> QED
      BY <3>1, LeastNumber
  <2>2. m \in 0..n /\ ~\E sum : AddsUp(sum, m)
    OBVIOUS
  <2>3. m # 0
    <3> SUFFICES ASSUME m = 0
                 PROVE  \E sum : AddsUp(sum, m)
      BY <2>2
    <3> DEFINE none == [i \in 0..n |-> 0]
    <3>1. AddsUp(none, m)
      OBVIOUS
    <3> QED
      BY <3>1
  <2>4. m - 1 \in 0..n /\ m - 1 \notin Hard
    <3> HIDE DEF Hard
    <3>1. m - 1 \in 0..n /\ ~(m <= m - 1)
      BY <2>2, <2>3
    <3> QED
      BY <2>1, <3>1
  <2>5. PICK sum : AddsUp(sum, m - 1)
    BY <2>4
  <2> DEFINE next == [i \in 0..n |-> IF i = m THEN sum[m - 1] + s[m] ELSE sum[i]]
  <2>6. /\ next[m] = sum[m - 1] + s[m]
        /\ \A i \in 0..(m - 1) : next[i] = sum[i]
    BY <2>2, <2>3
  <2> HIDE DEF next
  <2>7. ASSUME NEW i \in 0..m
        PROVE  next[i] = IF i = 0 THEN 0 ELSE next[i - 1] + s[i]
    <3>1. CASE i = m
      <4>1. i # 0 /\ i - 1 = m - 1 /\ i - 1 \in 0..(m - 1)
        BY <2>2, <2>3, <3>1
      <4> QED
        BY <2>6, <3>1, <4>1
    <3>2. CASE i # m
      <4>1. i \in 0..(m - 1) /\ (i # 0 => i - 1 \in 0..(m - 1))
        BY <2>2, <3>2
      <4>2. sum[i] = IF i = 0 THEN 0 ELSE sum[i - 1] + s[i]
        BY <2>5, <4>1
      <4> QED
        BY <2>6, <4>1, <4>2
    <3> QED
      BY <3>1, <3>2
  <2>8. AddsUp(next, m)
    BY <2>7
  <2> QED
    BY <2>2, <2>8
<1>2. PICK sum : AddsUp(sum, n)
  <2>1. n \in 0..n
    OBVIOUS
  <2>2. n \notin Hard
    BY <1>1
  <2> QED
    BY <2>1, <2>2
<1> DEFINE whole == [i \in 0..n |-> sum[i]]
<1>3. ASSUME NEW i \in 0..n
      PROVE  sum[i] = IF i = 0 THEN 0 ELSE whole[i - 1] + s[i]
  <2>1. i # 0 => i - 1 \in 0..n
    OBVIOUS
  <2>2. i # 0 => whole[i - 1] = sum[i - 1]
    BY <2>1
  <2> HIDE DEF whole
  <2> QED
    BY <1>2, <2>2
<1>4. Sums(whole, s, n)
  BY <1>3, Zenon DEF Sums
<1> QED
  BY <1>4

LEMMA SumsAreWhole ==
    ASSUME NEW n \in Nat, NEW s, \A i \in 1..n : s[i] \in Int, NEW sum, Sums(sum, s, n)
    PROVE  /\ sum[0] = 0
           /\ \A i \in 0..n : sum[i] \in Int
           /\ \A i \in 1..n : sum[i] = sum[i - 1] + s[i]
<1>1. sum[0] = 0
  BY DEF Sums
<1>2. \A i \in 1..n : sum[i] = sum[i - 1] + s[i]
  BY DEF Sums
<1> DEFINE Hard == {i \in 0..n : sum[i] \notin Int}
<1>3. Hard = {}
  <2> SUFFICES ASSUME Hard # {}
               PROVE  FALSE
    OBVIOUS
  <2>1. PICK m \in Hard : \A l \in Hard : m <= l
    <3>1. Hard \in SUBSET Nat
      OBVIOUS
    <3> HIDE DEF Hard
    <3> QED
      BY <3>1, LeastNumber
  <2>2. m \in 1..n
    BY <1>1
  <2>3. m - 1 \notin Hard
    <3> HIDE DEF Hard
    <3>1. ~(m <= m - 1)
      BY <2>2
    <3> QED
      BY <2>1, <3>1
  <2>4. sum[m - 1] \in Int /\ s[m] \in Int
    BY <2>2, <2>3
  <2>5. sum[m] \in Int
    BY <1>2, <2>2, <2>4
  <2> QED
    BY <2>5
<1> QED
  BY <1>1, <1>2, <1>3

(* The newest samples, in order, are those of the ring read from some place   *)
(* on, round its end.                                                         *)
Turned(ring, newest, n, k) ==
    /\ n \in Nat /\ k \in 0..n
    /\ Len(newest) = n /\ DOMAIN newest = 1..n
    /\ Len(ring) = n /\ DOMAIN ring = 1..n
    /\ \A i \in 1..n : newest[i] \in Int /\ ring[i] \in Int
    /\ \A i \in 1..n : newest[i] = ring[IF k + i <= n THEN k + i ELSE k + i - n]

(* A list that is read from another place on, round its end, has the same sum. *)
LEMMA SumTurns ==
    ASSUME NEW n, NEW k, NEW s, NEW t, Turned(s, t, n, k),
           NEW a, Sums(a, s, n), NEW b, Sums(b, t, n)
    PROVE  b[n] = a[n]
<1>0. /\ n \in Nat /\ k \in 0..n /\ \A i \in 1..n : s[i] \in Int
      /\ \A i \in 1..n : t[i] = s[IF k + i <= n THEN k + i ELSE k + i - n]
  BY DEF Turned
<1> DEFINE Behind(i) == IF k + i <= n THEN a[k + i] - a[k] ELSE a[n] - a[k] + a[k + i - n]
           Hard == {i \in 0..n : b[i] # Behind(i)}
<1>1. \A i \in 1..n : t[i] \in Int
  <2> SUFFICES ASSUME NEW i \in 1..n
               PROVE  t[i] \in Int
    OBVIOUS
  <2>1. (IF k + i <= n THEN k + i ELSE k + i - n) \in 1..n
    BY <1>0
  <2> QED
    BY <1>0, <2>1
<1>2. /\ a[0] = 0 /\ (\A i \in 0..n : a[i] \in Int) /\ (\A i \in 1..n : a[i] = a[i - 1] + s[i])
  BY <1>0, SumsAreWhole
<1>3. /\ b[0] = 0 /\ (\A i \in 0..n : b[i] \in Int) /\ (\A i \in 1..n : b[i] = b[i - 1] + t[i])
  BY <1>0, <1>1, SumsAreWhole
<1>4. Hard = {}
  <2> SUFFICES ASSUME Hard # {}
               PROVE  FALSE
    OBVIOUS
  <2>1. PICK m \in Hard : \A l \in Hard : m <= l
    <3>1. Hard \in SUBSET Nat
      BY <1>0
    <3> HIDE DEF Hard
    <3> QED
      BY <3>1, LeastNumber
  <2>2. m \in 0..n /\ b[m] # Behind(m)
    OBVIOUS
  <2>3. m # 0
    <3>1. Behind(0) = a[k] - a[k] /\ a[k] \in Int
      BY <1>0, <1>2
    <3> HIDE DEF Behind
    <3>2. Behind(0) = 0
      BY <3>1
    <3> QED
      BY <1>0, <1>3, <2>2, <3>2
  <2>4. m - 1 \in 0..n /\ b[m - 1] = Behind(m - 1)
    <3>1. m - 1 \in 0..n /\ ~(m <= m - 1)
      BY <1>0, <2>2, <2>3
    <3>2. m - 1 \notin Hard
      <4> HIDE DEF Hard
      <4> QED
        BY <1>0, <2>1, <3>1
    <3> QED
      BY <3>1, <3>2
  <2>5. b[m] = b[m - 1] + t[m]
    BY <1>0, <1>3, <2>2, <2>3
  <2>6. CASE k + m <= n
    <3>1. /\ k + m \in 1..n /\ k + (m - 1) <= n /\ (k + m) - 1 = k + (m - 1)
      BY <1>0, <2>2, <2>3, <2>6
    <3>2. t[m] = s[k + m] /\ a[k + m] = a[(k + m) - 1] + s[k + m]
      BY <1>0, <1>2, <2>2, <2>3, <2>6, <3>1
    <3>3. Behind(m - 1) = a[k + (m - 1)] - a[k] /\ Behind(m) = a[k + m] - a[k]
      BY <1>0, <2>6, <3>1
    <3>4. a[k + (m - 1)] \in Int /\ a[k] \in Int /\ s[k + m] \in Int
      <4>1. k + (m - 1) \in 0..n
        BY <1>0, <2>2, <2>3, <2>6
      <4> QED
        BY <1>0, <1>2, <3>1, <4>1
    <3> HIDE DEF Behind
    <3>5. b[m] = Behind(m)
      BY <1>0, <2>4, <2>5, <3>1, <3>2, <3>3, <3>4
    <3> QED
      BY <1>0, <2>2, <3>5
  <2>7. CASE ~(k + m <= n)
    <3> DEFINE p == k + m - n
    <3>1. p \in 1..n /\ p - 1 \in 0..n /\ p - 1 = k + (m - 1) - n
      BY <1>0, <2>2, <2>3, <2>7
    <3>2. t[m] = s[p] /\ a[p] = a[p - 1] + s[p]
      BY <1>0, <1>2, <2>2, <2>3, <2>7, <3>1
    <3>3. Behind(m) = a[n] - a[k] + a[p]
      BY <1>0, <2>7
    <3>4. a[p - 1] \in Int /\ a[k] \in Int /\ a[n] \in Int /\ s[p] \in Int
      BY <1>0, <1>2, <3>1
    <3>5. Behind(m - 1) = a[n] - a[k] + a[p - 1]
      <4>1. CASE k + (m - 1) <= n
        <5>1. k + (m - 1) = n /\ p - 1 = 0
          BY <1>0, <2>2, <2>3, <2>7, <4>1
        <5>2. Behind(m - 1) = a[n] - a[k]
          BY <1>0, <5>1
        <5> HIDE DEF Behind, p
        <5> QED
          BY <1>0, <1>2, <3>4, <5>1, <5>2
      <4>2. CASE ~(k + (m - 1) <= n)
        BY <3>1, <4>2
      <4> QED
        BY <4>1, <4>2
    <3> HIDE DEF Behind, p
    <3>6. b[m] = Behind(m)
      BY <1>0, <2>4, <2>5, <3>2, <3>3, <3>4, <3>5
    <3> QED
      BY <1>0, <2>2, <3>6
  <2> QED
    BY <1>0, <2>6, <2>7
<1>5. b[n] = Behind(n)
  BY <1>0, <1>4
<1>6. Behind(n) = a[n]
  <2>1. CASE k = 0
    <3>1. Behind(n) = a[n] - a[k]
      BY <1>0, <2>1
    <3> HIDE DEF Behind
    <3> QED
      BY <1>0, <1>2, <2>1, <3>1
  <2>2. CASE k # 0
    <3>1. Behind(n) = a[n] - a[k] + a[k + n - n] /\ k + n - n = k
      BY <1>0, <2>2
    <3> HIDE DEF Behind
    <3>2. a[n] \in Int /\ a[k] \in Int
      BY <1>0, <1>2
    <3> QED
      BY <3>1, <3>2
  <2> QED
    BY <1>0, <2>1, <2>2
<1> QED
  BY <1>5, <1>6

(* Sorting, by selection: of the places that are not yet settled the one with *)
(* the largest value is exchanged with the last.                              *)
LEMMA LargestPlace ==
    ASSUME NEW n \in Nat \ {0}, NEW s, \A i \in 1..n : s[i] \in Int
    PROVE  \E i \in 1..n : \A j \in 1..n : s[j] <= s[i]
<1> DEFINE Largest(i, m) == \A j \in 1..m : s[j] <= s[i]
           Hard == {m \in 1..n : ~\E i \in 1..m : Largest(i, m)}
<1>1. Hard = {}
  <2> SUFFICES ASSUME Hard # {}
               PROVE  FALSE
    OBVIOUS
  <2>1. PICK m \in Hard : \A l \in Hard : m <= l
    <3>1. Hard \in SUBSET Nat
      OBVIOUS
    <3> HIDE DEF Hard
    <3> QED
      BY <3>1, LeastNumber
  <2>2. m \in 1..n /\ ~\E i \in 1..m : Largest(i, m)
    OBVIOUS
  <2>3. m # 1
    <3> SUFFICES ASSUME m = 1
                 PROVE  Largest(1, m)
      BY <2>2
    <3>1. s[1] \in Int
      BY <2>2
    <3> QED
      BY <3>1
  <2>4. m - 1 \in 1..n /\ m - 1 \notin Hard
    <3> HIDE DEF Hard
    <3>1. m - 1 \in 1..n /\ ~(m <= m - 1)
      BY <2>2, <2>3
    <3> QED
      BY <2>1, <3>1
  <2>5. PICK i \in 1..(m - 1) : Largest(i, m - 1)
    BY <2>4
  <2>6. /\ s[i] \in Int /\ s[m] \in Int /\ i \in 1..m /\ m \in 1..m
        /\ \A j \in 1..m : s[j] \in Int /\ (j = m \/ j \in 1..(m - 1))
    BY <2>2
  <2>7. CASE s[m] <= s[i]
    <3>1. Largest(i, m)
      BY <2>5, <2>6, <2>7
    <3> QED
      BY <2>2, <2>6, <3>1
  <2>8. CASE ~(s[m] <= s[i])
    <3>1. Largest(m, m)
      <4> SUFFICES ASSUME NEW j \in 1..m
                   PROVE  s[j] <= s[m]
        OBVIOUS
      <4>1. j = m \/ s[j] <= s[i]
        BY <2>5, <2>6
      <4> QED
        BY <2>6, <2>8, <4>1
    <3> QED
      BY <2>2, <2>6, <3>1
  <2> QED
    BY <2>7, <2>8
<1>2. \E i \in 1..n : Largest(i, n)
  <2>1. n \in 1..n
    OBVIOUS
  <2>2. n \notin Hard
    BY <1>1
  <2> QED
    BY <2>1, <2>2
<1> QED
  BY <1>2

(* An order of n places, and one in which the values of a list rise.          *)
Rises(s, order, n) == \A i, j \in 1..n : i <= j => s[order[i]] <= s[order[j]]
IsOrder(order, n) ==
    /\ order \in [1..n -> 1..n]
    /\ \A i, j \in 1..n : order[i] = order[j] => i = j
    /\ \A p \in 1..n : \E i \in 1..n : order[i] = p

LEMMA OrderExists ==
    ASSUME NEW n \in Nat, NEW s, \A i \in 1..n : s[i] \in Int
    PROVE  \E order : IsOrder(order, n) /\ Rises(s, order, n)
<1> DEFINE Settled(order, m) == \A i, j \in 1..n : i <= j /\ j > n - m => s[order[i]] <= s[order[j]]
           Hard == {m \in 0..n : ~\E order : IsOrder(order, n) /\ Settled(order, m)}
<1>1. Hard = {}
  <2> SUFFICES ASSUME Hard # {}
               PROVE  FALSE
    OBVIOUS
  <2>1. PICK m \in Hard : \A l \in Hard : m <= l
    <3>1. Hard \in SUBSET Nat
      OBVIOUS
    <3> HIDE DEF Hard
    <3> QED
      BY <3>1, LeastNumber
  <2>2. m \in 0..n /\ ~\E order : IsOrder(order, n) /\ Settled(order, m)
    OBVIOUS
  <2>3. m # 0
    <3> SUFFICES ASSUME m = 0
                 PROVE  \E order : IsOrder(order, n) /\ Settled(order, m)
      BY <2>2
    <3> DEFINE same == [i \in 1..n |-> i]
    <3>1. IsOrder(same, n)
      BY DEF IsOrder
    <3>2. Settled(same, m)
      OBVIOUS
    <3> QED
      BY <3>1, <3>2
  <2>4. m - 1 \in 0..n /\ m - 1 \notin Hard
    <3> HIDE DEF Hard
    <3>1. m - 1 \in 0..n /\ ~(m <= m - 1)
      BY <2>2, <2>3
    <3> QED
      BY <2>1, <3>1
  <2>5. PICK order : IsOrder(order, n) /\ Settled(order, m - 1)
    BY <2>4
  <2> DEFINE last == n - (m - 1)
             at == [i \in 1..last |-> s[order[i]]]
  <2>6. last \in 1..n /\ last \in Nat \ {0} /\ last - 1 = n - m
    BY <2>2, <2>3
  <2> HIDE DEF last
  <2>7. PICK k \in 1..last : \A j \in 1..last : s[order[j]] <= s[order[k]]
    <3>1. \A i \in 1..last : at[i] \in Int /\ at[i] = s[order[i]]
      <4> SUFFICES ASSUME NEW i \in 1..last
                   PROVE  s[order[i]] \in Int
        OBVIOUS
      <4>1. i \in 1..n
        BY <2>6
      <4>2. order[i] \in 1..n
        BY <2>5, <4>1 DEF IsOrder
      <4> QED
        BY <4>2
    <3> HIDE DEF at
    <3>2. \E i \in 1..last : \A j \in 1..last : at[j] <= at[i]
      BY <2>6, <3>1, LargestPlace
    <3> QED
      BY <3>1, <3>2
  <2> DEFINE Swapped(i) == IF i = k THEN last ELSE IF i = last THEN k ELSE i
             next == [i \in 1..n |-> order[Swapped(i)]]
  <2>8. \A i \in 1..n : /\ Swapped(i) \in 1..n /\ Swapped(Swapped(i)) = i
                        /\ i <= last => Swapped(i) <= last
                        /\ i > last => Swapped(i) = i
                        /\ i = last => Swapped(i) = k
    BY <2>6
  <2>9. \A i \in 1..n : next[i] = order[Swapped(i)]
    OBVIOUS
  <2>10. next \in [1..n -> 1..n]
    BY <2>5, <2>8 DEF IsOrder
  <2> HIDE DEF Swapped, next
  <2>11. IsOrder(next, n)
    <3>1. ASSUME NEW i \in 1..n, NEW j \in 1..n, next[i] = next[j]
          PROVE  i = j
      <4>1. Swapped(i) = Swapped(j)
        BY <2>5, <2>8, <2>9, <3>1 DEF IsOrder
      <4> QED
        BY <2>8, <4>1
    <3>2. ASSUME NEW p \in 1..n
          PROVE  \E i \in 1..n : next[i] = p
      <4>1. PICK i \in 1..n : order[i] = p
        BY <2>5 DEF IsOrder
      <4>2. Swapped(i) \in 1..n /\ next[Swapped(i)] = p
        BY <2>8, <2>9, <4>1
      <4> QED
        BY <4>2
    <3> QED
      BY <2>10, <3>1, <3>2 DEF IsOrder
  <2>12. Settled(next, m)
    <3> SUFFICES ASSUME NEW i \in 1..n, NEW j \in 1..n, i <= j, j > n - m
                 PROVE  s[next[i]] <= s[next[j]]
      OBVIOUS
    <3>1. Swapped(i) \in 1..n /\ Swapped(j) \in 1..n
      BY <2>8
    <3>2. CASE j = last
      <4>1. Swapped(i) \in 1..last /\ Swapped(j) = k
        BY <2>6, <2>8, <3>1, <3>2
      <4>2. s[order[Swapped(i)]] <= s[order[k]]
        BY <2>7, <4>1
      <4> QED
        BY <2>9, <4>1, <4>2
    <3>3. CASE j # last
      <4>1. j > last /\ j > n - (m - 1)
        BY <2>2, <2>6, <3>3 DEF last
      <4>2. Swapped(j) = j /\ Swapped(i) <= j
        BY <2>6, <2>8, <4>1
      <4>3. s[order[Swapped(i)]] <= s[order[j]]
        BY <2>5, <3>1, <4>1, <4>2
      <4> QED
        BY <2>9, <4>2, <4>3
    <3> QED
      BY <3>2, <3>3
  <2> QED
    BY <2>2, <2>11, <2>12
<1>2. PICK order : IsOrder(order, n) /\ Settled(order, n)
  <2>1. n \in 0..n
    OBVIOUS
  <2>2. n \notin Hard
    BY <1>1
  <2> QED
    BY <2>1, <2>2
<1>3. Rises(s, order, n)
  BY <1>2 DEF Rises
<1> QED
  BY <1>2, <1>3

(* As many values of a list lie in a set after it was put in another order.   *)
Reorders(order, s, t, n) == IsOrder(order, n) /\ \A i \in 1..n : t[i] = s[order[i]]
Counted(s, n, V) == Cardinality({i \in 1..n : s[i] \in V})
LEMMA OrderCounts ==
    ASSUME NEW n \in Nat, NEW order, NEW s, NEW t, NEW V, Reorders(order, s, t, n)
    PROVE  Counted(t, n, V) = Counted(s, n, V)
<1> DEFINE A == {i \in 1..n : t[i] \in V}
           B == {i \in 1..n : s[i] \in V}
           f == [i \in A |-> order[i]]
<1>1. IsFiniteSet(A)
  <2>1. IsFiniteSet(1..n) /\ A \in SUBSET (1..n)
    BY FS_Interval
  <2> QED
    BY <2>1, FS_Subset
<1>2. f \in [A -> B]
  BY DEF Reorders, IsOrder
<1>3. \A i, j \in A : f[i] = f[j] => i = j
  BY DEF Reorders, IsOrder
<1>4. \A p \in B : \E i \in A : f[i] = p
  <2> SUFFICES ASSUME NEW p \in B
               PROVE  \E i \in A : f[i] = p
    OBVIOUS
  <2>1. PICK i \in 1..n : order[i] = p
    BY DEF Reorders, IsOrder
  <2>2. i \in A
    BY <2>1 DEF Reorders
  <2> QED
    BY <2>1, <2>2
<1> HIDE DEF A, B, f
<1>5. f \in Bijection(A, B)
  BY <1>2, <1>3, <1>4 DEF Bijection, Injection, Surjection, IsInjective
<1>6. ExistsBijection(A, B)
  BY <1>5 DEF ExistsBijection
<1> QED
  BY <1>1, <1>6, FS_Bijection DEF A, B, Counted

(* The value at a rank, in hundredths of the way from the first to the last.  *)
AtRank(s, rank) ==
    LET lo == rank \div 100 + 1
        part == rank % 100
    IN  IF part = 0 THEN 100 * s[lo] ELSE 100 * s[lo] + part * (s[lo + 1] - s[lo])
Rising(s, n) == /\ \A i \in 1..n : s[i] \in Int
                /\ \A i, j \in 1..n : i <= j => s[i] <= s[j]

LEMMA WholeAndPart ==
    ASSUME NEW rank \in Int
    PROVE  \E q \in Int, part \in 0..99 :
              rank \div 100 = q /\ rank % 100 = part /\ rank = 100 * q + part
<1>1. PICK q \in Int : q = rank \div 100
  OBVIOUS
<1>2. rank % 100 = rank - 100 * q
  BY <1>1
<1>3. PICK part \in 0..99 : part = rank % 100
  OBVIOUS
<1>4. rank = 100 * q + part
  BY <1>2, <1>3
<1> QED
  BY <1>1, <1>3, <1>4

LEMMA RankLies ==
    ASSUME NEW n \in Nat, n > 0, NEW rank \in 0..(100 * (n - 1))
    PROVE  \E lo \in 1..n, part \in 0..99 :
              /\ rank \div 100 + 1 = lo /\ rank % 100 = part /\ rank = 100 * (lo - 1) + part
              /\ part # 0 => lo + 1 \in 1..n
<1>1. rank \in Int /\ rank >= 0
  OBVIOUS
<1>2. \E q \in Int, part \in 0..99 :
         rank \div 100 = q /\ rank % 100 = part /\ rank = 100 * q + part
  BY <1>1, WholeAndPart
<1>3. PICK q \in Int, part \in 0..99 :
         /\ rank \div 100 = q /\ rank % 100 = part /\ rank = 100 * q + part
  BY <1>2, Zenon
<1>4. /\ q >= 0 /\ q <= n - 1 /\ (part # 0 => q < n - 1)
  BY <1>3
<1>5. q + 1 \in 1..n /\ (part # 0 => (q + 1) + 1 \in 1..n) /\ (q + 1) - 1 = q
  BY <1>4
<1> QED
  BY <1>3, <1>5

LEMMA PartBetween ==
    ASSUME NEW d \in Nat, NEW p \in 0..100, NEW q \in 0..100, p <= q
    PROVE  p * d \in Int /\ q * d \in Int /\ 0 <= p * d /\ p * d <= q * d /\ q * d <= 100 * d
<1>1. PICK r \in Nat, t \in Nat : q = p + r /\ 100 = q + t
  <2>1. q - p \in Nat /\ 100 - q \in Nat /\ q = p + (q - p) /\ 100 = q + (100 - q)
    OBVIOUS
  <2> QED
    BY <2>1
<1>2. p * d \in Nat /\ r * d \in Nat /\ t * d \in Nat
  <2>1. p \in Nat
    OBVIOUS
  <2> QED
    BY <2>1, ProductOfNaturals
<1>3. q * d = p * d + r * d /\ 100 * d = q * d + t * d
  BY <1>1
<1> QED
  BY <1>2, <1>3

(* Where the value at a rank lies: from its lo-th value a part of the way to  *)
(* the next one.                                                              *)
Lies(s, n, rank, lo, part) ==
    /\ rank \div 100 + 1 = lo /\ rank % 100 = part /\ rank = 100 * (lo - 1) + part
    /\ part # 0 => lo + 1 \in 1..n
    /\ AtRank(s, rank) \in Int /\ 100 * s[lo] <= AtRank(s, rank)
    /\ part = 0 => AtRank(s, rank) = 100 * s[lo]
    /\ part # 0 => AtRank(s, rank) <= 100 * s[lo + 1]

LEMMA RankBetween ==
    ASSUME NEW n \in Nat, n > 0, NEW s, Rising(s, n), NEW rank \in 0..(100 * (n - 1)),
           NEW lo \in 1..n, NEW part \in 0..99, rank \div 100 + 1 = lo, rank % 100 = part,
           part # 0 => lo + 1 \in 1..n
    PROVE  /\ AtRank(s, rank) \in Int /\ 100 * s[lo] <= AtRank(s, rank)
           /\ part = 0 => AtRank(s, rank) = 100 * s[lo]
           /\ part # 0 => AtRank(s, rank) <= 100 * s[lo + 1]
<1>1. s[lo] \in Int
  BY DEF Rising
<1>2. CASE part = 0
  <2>1. AtRank(s, rank) = 100 * s[lo]
    BY <1>2 DEF AtRank
  <2> QED
    BY <1>1, <1>2, <2>1
<1>3. CASE part # 0
  <2>1. AtRank(s, rank) = 100 * s[lo] + part * (s[lo + 1] - s[lo])
    BY <1>3 DEF AtRank
  <2>2. lo + 1 \in 1..n /\ lo <= lo + 1
    BY <1>3
  <2>3. s[lo + 1] \in Int /\ s[lo] <= s[lo + 1]
    BY <2>2 DEF Rising
  <2>4. PICK d \in Nat : d = s[lo + 1] - s[lo]
    BY <1>1, <2>3
  <2>5. part * d \in Int /\ 0 <= part * d /\ part * d <= 100 * d
    <3>1. part \in 0..100
      OBVIOUS
    <3> QED
      BY <3>1, PartBetween
  <2>6. AtRank(s, rank) = 100 * s[lo] + part * d /\ 100 * s[lo + 1] = 100 * s[lo] + 100 * d
    BY <1>1, <2>1, <2>3, <2>4
  <2> QED
    BY <1>1, <1>3, <2>3, <2>5, <2>6
<1> QED
  BY <1>2, <1>3

LEMMA RankFound ==
    ASSUME NEW n \in Nat, n > 0, NEW s, Rising(s, n), NEW rank \in 0..(100 * (n - 1))
    PROVE  \E lo \in 1..n, part \in 0..99 : Lies(s, n, rank, lo, part)
<1>1. PICK lo \in 1..n, part \in 0..99 :
         /\ rank \div 100 + 1 = lo /\ rank % 100 = part /\ rank = 100 * (lo - 1) + part
         /\ part # 0 => lo + 1 \in 1..n
  BY RankLies
<1>2. /\ AtRank(s, rank) \in Int /\ 100 * s[lo] <= AtRank(s, rank)
      /\ part = 0 => AtRank(s, rank) = 100 * s[lo]
      /\ part # 0 => AtRank(s, rank) <= 100 * s[lo + 1]
  BY <1>1, RankBetween
<1>3. Lies(s, n, rank, lo, part)
  BY <1>1, <1>2 DEF Lies
<1> QED
  BY <1>3

LEMMA RanksRise ==
    ASSUME NEW n \in Nat, n > 0, NEW s, Rising(s, n),
           NEW low \in 0..(100 * (n - 1)), NEW high \in 0..(100 * (n - 1)), low <= high
    PROVE  AtRank(s, low) <= AtRank(s, high)
<1>1. PICK l \in 1..n, p \in 0..99 : Lies(s, n, low, l, p)
  BY RankFound
<1>2. PICK h \in 1..n, q \in 0..99 : Lies(s, n, high, h, q)
  BY RankFound
<1>3. /\ AtRank(s, low) \in Int /\ 100 * s[l] <= AtRank(s, low)
      /\ p = 0 => AtRank(s, low) = 100 * s[l]
      /\ p # 0 => AtRank(s, low) <= 100 * s[l + 1]
  BY <1>1, Zenon DEF Lies
<1>4. AtRank(s, high) \in Int /\ 100 * s[h] <= AtRank(s, high)
  BY <1>2, Zenon DEF Lies
<1>5. s[l] \in Int /\ s[h] \in Int
  BY DEF Rising
<1>6. l <= h /\ (l = h => p <= q)
  <2>1. 100 * (l - 1) + p <= 100 * (h - 1) + q
    BY <1>1, <1>2 DEF Lies
  <2>2. l \in Int /\ h \in Int /\ p \in 0..99 /\ q \in 0..99
    OBVIOUS
  <2> QED
    BY <2>1, <2>2
<1>7. s[l] <= s[h]
  BY <1>6 DEF Rising
<1>8. CASE p = 0
  BY <1>3, <1>4, <1>5, <1>7, <1>8
<1>9. CASE p # 0 /\ l < h
  <2>1. l + 1 \in 1..n /\ l + 1 <= h
    BY <1>1, <1>9 DEF Lies
  <2>2. s[l + 1] \in Int /\ s[l + 1] <= s[h]
    BY <2>1 DEF Rising
  <2> QED
    BY <1>3, <1>4, <1>5, <1>9, <2>2
<1>10. CASE p # 0 /\ l = h
  <2>1. p <= q /\ q # 0 /\ l + 1 \in 1..n /\ l <= l + 1
    BY <1>1, <1>6, <1>10 DEF Lies
  <2>2. s[l + 1] \in Int /\ s[l] <= s[l + 1]
    BY <2>1 DEF Rising
  <2>3. PICK d \in Nat : d = s[l + 1] - s[l]
    BY <1>5, <2>2
  <2>4. p * d \in Int /\ q * d \in Int /\ p * d <= q * d
    BY <2>1, <2>3, PartBetween
  <2>5. /\ AtRank(s, low) = 100 * s[l] + p * d
        /\ AtRank(s, high) = 100 * s[l] + q * d
    BY <1>1, <1>2, <1>10, <2>1, <2>3 DEF AtRank, Lies
  <2> QED
    BY <1>5, <2>4, <2>5
<1> QED
  BY <1>6, <1>8, <1>9, <1>10

(* What is at most and what is at least v hundredths.                         *)
Low(v) == {x \in Int : 100 * x <= v}
High(v) == {x \in Int : 100 * x >= v}

(* Half of the values are at most and half at least the one in the middle.    *)
LEMMA MedianHalves ==
    ASSUME NEW n \in Nat, n > 0, NEW s, Rising(s, n), NEW v, v = AtRank(s, 50 * (n - 1))
    PROVE  /\ v \in Int
           /\ 2 * Counted(s, n, Low(v)) >= n
           /\ 2 * Counted(s, n, High(v)) >= n
<1> DEFINE rank == 50 * (n - 1)
           AtMost == {i \in 1..n : s[i] \in Low(v)}
           AtLeast == {i \in 1..n : s[i] \in High(v)}
<1>1. rank \in 0..(100 * (n - 1))
  OBVIOUS
<1>2. PICK lo \in 1..n, part \in 0..99 : Lies(s, n, rank, lo, part)
  BY <1>1, RankFound
<1>3. /\ v \in Int /\ 100 * s[lo] <= v
      /\ part = 0 => v = 100 * s[lo]
      /\ part # 0 => v <= 100 * s[lo + 1]
  BY <1>2 DEF Lies
<1>4. PICK up \in 1..n : up = IF part = 0 THEN lo ELSE lo + 1
  BY <1>2 DEF Lies
<1>5. 2 * lo >= n /\ 2 * (n - up + 1) >= n
  <2>1. 50 * (n - 1) = 100 * (lo - 1) + part
    BY <1>2 DEF Lies
  <2>2. CASE part = 0
    BY <1>4, <2>1, <2>2
  <2>3. CASE part # 0
    <3>1. part = 50
      BY <2>1, <2>3
    <3> QED
      BY <1>4, <2>1, <2>3, <3>1
  <2> QED
    BY <2>2, <2>3
<1>6. \A i \in 1..n : s[i] \in Int
  BY DEF Rising
<1>7. \A i \in 1..n : i <= lo => s[i] <= s[lo]
  BY DEF Rising
<1>8. \A i \in 1..n : up <= i => s[up] <= s[i]
  BY DEF Rising
<1>9. v <= 100 * s[up]
  BY <1>3, <1>4, <1>6
<1>10. IsFiniteSet(AtMost) /\ IsFiniteSet(AtLeast)
  <2>1. IsFiniteSet(1..n) /\ AtMost \in SUBSET (1..n) /\ AtLeast \in SUBSET (1..n)
    BY FS_Interval
  <2> QED
    BY <2>1, FS_Subset
<1>11. 1..lo \subseteq AtMost
  <2> SUFFICES ASSUME NEW i \in 1..lo
               PROVE  i \in 1..n /\ s[i] \in Low(v)
    OBVIOUS
  <2>1. i \in 1..n /\ i <= lo
    OBVIOUS
  <2>2. s[i] \in Int /\ s[lo] \in Int /\ s[i] <= s[lo]
    BY <1>6, <1>7, <2>1
  <2> QED
    BY <1>3, <2>1, <2>2 DEF Low
<1>12. up..n \subseteq AtLeast
  <2> SUFFICES ASSUME NEW i \in up..n
               PROVE  i \in 1..n /\ s[i] \in High(v)
    OBVIOUS
  <2>1. i \in 1..n /\ up <= i
    OBVIOUS
  <2>2. s[i] \in Int /\ s[up] \in Int /\ s[up] <= s[i]
    BY <1>6, <1>8, <2>1
  <2> QED
    BY <1>3, <1>9, <2>1, <2>2 DEF High
<1> HIDE DEF AtMost, AtLeast
<1>13. /\ Cardinality(AtMost) \in Nat /\ Cardinality(AtLeast) \in Nat
       /\ Cardinality(1..lo) <= Cardinality(AtMost)
       /\ Cardinality(up..n) <= Cardinality(AtLeast)
  BY <1>10, <1>11, <1>12, FS_Subset, FS_CardinalityType
<1>14. Cardinality(1..lo) = lo /\ Cardinality(up..n) = n - up + 1
  BY FS_Interval
<1>15. 2 * Cardinality(AtMost) >= n /\ 2 * Cardinality(AtLeast) >= n
  BY <1>5, <1>13, <1>14
<1> QED
  BY <1>3, <1>15 DEF AtMost, AtLeast, Counted

(* ---- what a window says ---- *)
LEMMA TotalIsSum ==
    ASSUME NEW s, NEW n \in Nat, Len(s) = n
    PROVE  /\ \E sum : Sums(sum, s, n) /\ Window!Total(s) = sum[n]
           /\ \E sum : Sums(sum, s, n) /\ SumOf(s) = sum[n]
<1> DEFINE sum == CHOOSE sum : sum = [i \in 0..Len(s) |-> IF i = 0 THEN 0 ELSE sum[i - 1] + s[i]]
<1>1. sum = [i \in 0..Len(s) |-> IF i = 0 THEN 0 ELSE sum[i - 1] + s[i]]
  BY SumsExist, Zenon DEF Sums
<1>2. Window!Total(s) = sum[Len(s)]
  BY DEF Window!Total
<1>3. SumOf(s) = sum[Len(s)]
  BY DEF SumOf
<1> HIDE DEF sum
<1>4. Sums(sum, s, n)
  BY <1>1 DEF Sums
<1> QED
  BY <1>2, <1>3, <1>4

(* The order in which a list of whole numbers is sorted.                      *)
Sorts(order, s, n) == /\ IsOrder(order, n) /\ Rises(s, order, n)
                      /\ Window!Sorted(s) = [i \in 1..n |-> s[order[i]]]
Wholes(s, n) == DOMAIN s = 1..n /\ \A i \in 1..n : s[i] \in Int

LEMMA SortedIsRising ==
    ASSUME NEW s, NEW n \in Nat, Wholes(s, n)
    PROVE  \E order : Sorts(order, s, n)
<1>0. DOMAIN s = 1..n /\ \A i \in 1..n : s[i] \in Int
  BY DEF Wholes
<1> DEFINE order == CHOOSE order \in Window!Bijection(DOMAIN s, DOMAIN s) :
                       \A i, j \in DOMAIN s : i <= j => s[order[i]] <= s[order[j]]
<1>1. \A o : IsOrder(o, n) <=> o \in Window!Bijection(DOMAIN s, DOMAIN s)
  <2> SUFFICES ASSUME NEW o
               PROVE  IsOrder(o, n) <=> o \in Window!Bijection(1..n, 1..n)
    BY <1>0
  <2> QED
    BY DEF IsOrder, Window!Bijection, Window!Injection, Window!Surjection, Window!IsInjective
<1>2. \E o \in Window!Bijection(DOMAIN s, DOMAIN s) :
         \A i, j \in DOMAIN s : i <= j => s[o[i]] <= s[o[j]]
  <2>1. PICK o : IsOrder(o, n) /\ Rises(s, o, n)
    BY <1>0, OrderExists
  <2>2. o \in Window!Bijection(DOMAIN s, DOMAIN s)
    BY <1>1, <2>1
  <2>3. \A i, j \in DOMAIN s : i <= j => s[o[i]] <= s[o[j]]
    BY <1>0, <2>1 DEF Rises
  <2> QED
    BY <2>2, <2>3, Zenon
<1>3. /\ order \in Window!Bijection(DOMAIN s, DOMAIN s)
      /\ \A i, j \in DOMAIN s : i <= j => s[order[i]] <= s[order[j]]
  BY <1>2, Zenon
<1>4. Window!Sorted(s) = [i \in DOMAIN s |-> s[order[i]]]
  BY DEF Window!Sorted
<1> HIDE DEF order
<1>5. IsOrder(order, n) /\ Rises(s, order, n)
  BY <1>0, <1>1, <1>3 DEF Rises
<1> QED
  BY <1>0, <1>4, <1>5 DEF Sorts

LEMMA RingTurns ==
    ASSUME NEW window, NEW newest, RingFits(window, newest)
    PROVE  \E n, k : Turned(window.samples, newest, n, k)
<1>1. PICK n \in Nat : /\ Len(newest) = n /\ DOMAIN newest = 1..n
                       /\ Len(window.samples) = n /\ DOMAIN window.samples = 1..n
                       /\ \A i \in 1..n : newest[i] \in Latencies /\ window.samples[i] \in Latencies
  <2>1. newest \in Seq(Latencies) /\ window.samples \in Seq(Latencies) /\ Len(newest) = Len(window.samples)
    BY DEF RingFits
  <2>2. /\ Len(newest) \in Nat /\ DOMAIN newest = 1..Len(newest)
        /\ DOMAIN window.samples = 1..Len(newest)
    BY <2>1, LenProperties
  <2>3. \A i \in 1..Len(newest) : newest[i] \in Latencies /\ window.samples[i] \in Latencies
    BY <2>1, <2>2, ElementOfSeq
  <2> QED
    BY <2>1, <2>2, <2>3, Zenon
<1>2. /\ n <= WindowSize /\ WindowSize \in Nat
      /\ n < WindowSize => window.next = 0
      /\ window.next < WindowSize /\ window.next \in Nat
      /\ \A i \in 1..n : newest[i] = window.samples[Around(window.next + i)]
  BY <1>1, PerceptionAssumption DEF RingFits
<1>3. PICK k \in Nat : k = window.next
  BY <1>2
<1>4. k \in 0..n
  BY <1>2, <1>3
<1>5. ASSUME NEW i \in 1..n
      PROVE  newest[i] = window.samples[IF k + i <= n THEN k + i ELSE k + i - n]
  <2>1. n = WindowSize \/ k = 0
    BY <1>2, <1>3
  <2>2. Around(k + i) = IF k + i <= n THEN k + i ELSE k + i - n
    BY <1>2, <2>1 DEF Around
  <2> QED
    BY <1>2, <1>3, <2>2, Zenon
<1>6. \A i \in 1..n : newest[i] \in Int /\ window.samples[i] \in Int
  BY <1>1, PerceptionAssumption
<1> QED
  BY <1>1, <1>4, <1>5, <1>6, Zenon DEF Turned

LEMMA TurnIsOrder ==
    ASSUME NEW n \in Nat, NEW k \in 0..n, NEW turn,
           turn = [i \in 1..n |-> IF k + i <= n THEN k + i ELSE k + i - n]
    PROVE  IsOrder(turn, n)
<1>1. ASSUME NEW i \in 1..n
      PROVE  /\ turn[i] \in 1..n
             /\ turn[i] = k + i \/ turn[i] = k + i - n
             /\ turn[i] > k <=> k + i <= n
  <2>1. turn[i] = IF k + i <= n THEN k + i ELSE k + i - n
    OBVIOUS
  <2>2. k \in Int /\ i \in Int /\ i >= 1 /\ i <= n /\ k >= 0 /\ k <= n
    OBVIOUS
  <2>3. CASE k + i <= n
    BY ONLY <2>1, <2>2, <2>3, n \in Nat
  <2>4. CASE ~(k + i <= n)
    BY ONLY <2>1, <2>2, <2>4, n \in Nat
  <2> QED
    BY <2>3, <2>4
<1>2. turn \in [1..n -> 1..n]
  BY <1>1
<1>3. ASSUME NEW i \in 1..n, NEW j \in 1..n, turn[i] = turn[j]
      PROVE  i = j
  BY <1>1, <1>3
<1>4. ASSUME NEW p \in 1..n
      PROVE  \E i \in 1..n : turn[i] = p
  <2>1. CASE p > k
    <3>1. PICK i \in 1..n : i = p - k
      BY <2>1
    <3>2. k + i = p
      BY <3>1
    <3>3. turn[i] = p
      BY <3>2
    <3> QED
      BY <3>3
  <2>2. CASE ~(p > k)
    <3>1. PICK i \in 1..n : i = p + n - k
      BY <2>2
    <3>2. k + i - n = p /\ ~(k + i <= n)
      BY <3>1
    <3>3. turn[i] = p
      BY <3>2
    <3> QED
      BY <3>3
  <2> QED
    BY <2>1, <2>2
<1> QED
  BY <1>2, <1>3, <1>4, Zenon DEF IsOrder

LEMMA MeanOfNewest ==
    ASSUME NEW window, NEW newest, RingFits(window, newest)
    PROVE  Window!Mean(window)[1] * Len(newest) = SumOf(newest) * Window!Mean(window)[2]
<1>1. PICK ring : ring = window.samples
  OBVIOUS
<1>2. PICK n, k : Turned(ring, newest, n, k)
  BY <1>1, RingTurns
<1>3. n \in Nat /\ k \in 0..n /\ Len(newest) = n /\ Len(ring) = n
  BY <1>2, Zenon DEF Turned
<1>4. PICK a : Sums(a, ring, n) /\ Window!Total(ring) = a[n]
  BY <1>3, TotalIsSum
<1>5. PICK b : Sums(b, newest, n) /\ SumOf(newest) = b[n]
  BY <1>3, TotalIsSum
<1>6. SumOf(newest) = Window!Total(ring)
  BY <1>2, <1>4, <1>5, SumTurns
<1>7. SumOf(newest) \in Int /\ b[0] = 0
  <2>1. \A i \in 1..n : newest[i] \in Int
    BY <1>2, Zenon DEF Turned
  <2>2. n \in 0..n
    BY <1>3
  <2> QED
    BY <1>3, <1>5, <2>1, <2>2, SumsAreWhole
<1>8. CASE ring = <<>>
  <2>1. n = 0
    BY <1>3, <1>8
  <2>2. Window!Mean(window) = <<0, 1>>
    BY <1>1, <1>8 DEF Window!Mean
  <2> QED
    BY <1>3, <1>5, <1>7, <2>1, <2>2
<1>9. CASE ring # <<>>
  <2>1. Window!Mean(window) = <<SumOf(newest), n>>
    BY <1>1, <1>3, <1>6, <1>9 DEF Window!Mean
  <2> QED
    BY <1>3, <1>7, <2>1
<1> QED
  BY <1>8, <1>9

(* The values of a list in rising order, and how a percentile is read there.  *)
Ranked(window, newest, n, s) ==
    /\ n \in Nat /\ n > 0 /\ Len(newest) = n /\ DOMAIN newest = 1..n /\ Rising(s, n)
    /\ \A i \in 1..n : newest[i] \in Int
    /\ \A percent \in Nat : Window!Percentile(window, percent) = AtRank(s, percent * (n - 1))
    /\ \A V : Counted(newest, n, V) = Counted(s, n, V)

LEMMA NewestAreRanked ==
    ASSUME NEW window, NEW newest, RingFits(window, newest), newest # <<>>
    PROVE  \E n, s : Ranked(window, newest, n, s)
<1>1. PICK ring : ring = window.samples
  OBVIOUS
<1>2. PICK n, k : Turned(ring, newest, n, k)
  BY <1>1, RingTurns
<1>3. /\ n \in Nat /\ k \in 0..n /\ Len(newest) = n /\ DOMAIN newest = 1..n /\ DOMAIN ring = 1..n
      /\ \A i \in 1..n : newest[i] \in Int /\ ring[i] \in Int
      /\ \A i \in 1..n : newest[i] = ring[IF k + i <= n THEN k + i ELSE k + i - n]
  BY <1>2, Zenon DEF Turned
<1>4. n > 0
  <2>1. newest \in Seq(Latencies)
    BY DEF RingFits
  <2> QED
    BY <1>3, <2>1, EmptySeq
<1>5. PICK order : Sorts(order, ring, n)
  <2>1. Wholes(ring, n)
    BY <1>3, Zenon DEF Wholes
  <2> QED
    BY <1>3, <2>1, SortedIsRising
<1>6. PICK s : s = Window!Sorted(ring)
  OBVIOUS
<1>7. /\ DOMAIN s = 1..n
      /\ \A i \in 1..n : s[i] = ring[order[i]] /\ order[i] \in 1..n
  BY <1>5, <1>6 DEF Sorts, IsOrder
<1>8. Rising(s, n)
  <2>1. \A i \in 1..n : s[i] \in Int
    BY <1>3, <1>7
  <2>2. \A i, j \in 1..n : i <= j => s[i] <= s[j]
    BY <1>5, <1>7 DEF Sorts, Rises
  <2> QED
    BY <2>1, <2>2 DEF Rising
<1>9. ASSUME NEW percent \in Nat
      PROVE  Window!Percentile(window, percent) = AtRank(s, percent * (n - 1))
  <2>1. s \in Seq(Int) /\ Len(s) = n /\ s # <<>>
    <3>1. s \in [1..n -> Int]
      <4>1. s = [i \in 1..n |-> s[i]]
        BY <1>5, <1>6, <1>7 DEF Sorts
      <4>2. \A i \in 1..n : s[i] \in Int
        BY <1>8 DEF Rising
      <4> QED
        BY <4>1, <4>2
    <3>2. s \in Seq(Int)
      BY <1>3, <3>1, SeqDef
    <3>3. Len(s) = n
      BY <1>3, <1>7, <3>2, LenProperties
    <3> QED
      BY <1>4, <3>2, <3>3, EmptySeq
  <2>2. Window!Sorted(window.samples) = s
    BY <1>1, <1>6
  <2>3. ~(s = <<>>) /\ Len(s) = n
    BY <2>1
  <2>4. PICK rank : rank = percent * (Len(s) - 1)
    OBVIOUS
  <2>5. Window!Percentile(window, percent)
          = IF rank % 100 = 0 THEN 100 * s[rank \div 100 + 1]
            ELSE 100 * s[rank \div 100 + 1]
                   + (rank % 100) * (s[(rank \div 100 + 1) + 1] - s[rank \div 100 + 1])
    BY ONLY <2>2, <2>3, <2>4, ZenonT(30) DEF Window!Percentile
  <2>6. Window!Percentile(window, percent) = AtRank(s, rank)
    BY ONLY <2>5, Zenon DEF AtRank
  <2> QED
    BY <2>3, <2>4, <2>6
<1>10. ASSUME NEW V
       PROVE  Counted(newest, n, V) = Counted(s, n, V)
  <2>1. PICK turn : turn = [i \in 1..n |-> IF k + i <= n THEN k + i ELSE k + i - n]
    OBVIOUS
  <2>2. IsOrder(turn, n)
    BY <1>3, <2>1, TurnIsOrder
  <2>3. Reorders(turn, ring, newest, n)
    BY <1>3, <2>1, <2>2 DEF Reorders
  <2>4. Reorders(order, ring, s, n)
    BY <1>5, <1>7 DEF Sorts, Reorders
  <2>5. Counted(newest, n, V) = Counted(ring, n, V)
    BY <1>3, <2>3, OrderCounts
  <2>6. Counted(s, n, V) = Counted(ring, n, V)
    BY <1>3, <2>4, OrderCounts
  <2> QED
    BY <2>5, <2>6
<1>11. Ranked(window, newest, n, s)
  <2>1. \A i \in 1..n : newest[i] \in Int
    BY <1>3, Zenon
  <2> QED
    BY <1>3, <1>4, <1>8, <1>9, <1>10, <2>1, Zenon DEF Ranked
<1> QED
  BY <1>11

(* What LatenciesExplained says of the two percentiles.                       *)
Typical(newest, p50, p95) ==
    /\ 2 * Cardinality({i \in DOMAIN newest : 100 * newest[i] <= p50}) >= Len(newest)
    /\ 2 * Cardinality({i \in DOMAIN newest : 100 * newest[i] >= p50}) >= Len(newest)
    /\ p50 <= p95
    /\ newest # <<>> => Cardinality({i \in DOMAIN newest : 100 * newest[i] >= p95}) > 0

LEMMA PercentilesOfNewest ==
    ASSUME NEW window, NEW newest, RingFits(window, newest),
           NEW p50, p50 = Window!Percentile(window, 50), NEW p95, p95 = Window!Percentile(window, 95)
    PROVE  Typical(newest, p50, p95)
<1>1. CASE newest = <<>>
  <2>1. Len(newest) = 0 /\ DOMAIN newest = {}
    BY <1>1
  <2>2. window.samples = <<>>
    <3>1. window.samples \in Seq(Latencies) /\ Len(window.samples) = 0
      BY <2>1 DEF RingFits
    <3> QED
      BY <3>1, EmptySeq
  <2>3. p50 = 0 /\ p95 = 0
    <3>1. Window!Sorted(<<>>) = <<>>
      BY DEF Window!Sorted
    <3> QED
      BY <2>2, <3>1 DEF Window!Percentile
  <2>4. Cardinality({}) = 0
    BY FS_EmptySet
  <2> QED
    BY <1>1, <2>1, <2>3, <2>4 DEF Typical
<1>2. CASE newest # <<>>
  <2>1. PICK n, s : Ranked(window, newest, n, s)
    BY <1>2, NewestAreRanked
  <2>2. /\ n \in Nat /\ n > 0 /\ Len(newest) = n /\ DOMAIN newest = 1..n /\ Rising(s, n)
        /\ \A i \in 1..n : newest[i] \in Int
        /\ p50 = AtRank(s, 50 * (n - 1)) /\ p95 = AtRank(s, 95 * (n - 1))
    <3>1. 50 \in Nat /\ 95 \in Nat
      OBVIOUS
    <3> QED
      BY <2>1, <3>1, Zenon DEF Ranked
  <2>3. \A V : Counted(newest, n, V) = Counted(s, n, V)
    BY <2>1, Zenon DEF Ranked
  <2>4. \A i \in 1..n : s[i] \in Int
    BY <2>2, Zenon DEF Rising
  <2>5. ASSUME NEW v
        PROVE  /\ Cardinality({i \in DOMAIN newest : 100 * newest[i] <= v}) = Counted(s, n, Low(v))
               /\ Cardinality({i \in DOMAIN newest : 100 * newest[i] >= v}) = Counted(s, n, High(v))
    <3>1. /\ {i \in DOMAIN newest : 100 * newest[i] <= v} = {i \in 1..n : newest[i] \in Low(v)}
          /\ {i \in DOMAIN newest : 100 * newest[i] >= v} = {i \in 1..n : newest[i] \in High(v)}
      BY <2>2, Zenon DEF Low, High
    <3>2. /\ Cardinality({i \in DOMAIN newest : 100 * newest[i] <= v}) = Counted(newest, n, Low(v))
          /\ Cardinality({i \in DOMAIN newest : 100 * newest[i] >= v}) = Counted(newest, n, High(v))
      BY <3>1, Zenon DEF Counted
    <3> QED
      BY <2>3, <3>2, Zenon
  <2>6. /\ p50 \in Int
        /\ 2 * Counted(s, n, Low(p50)) >= n
        /\ 2 * Counted(s, n, High(p50)) >= n
    BY <2>2, MedianHalves
  <2>7. p50 <= p95
    <3>1. 50 * (n - 1) \in 0..(100 * (n - 1)) /\ 95 * (n - 1) \in 0..(100 * (n - 1))
          /\ 50 * (n - 1) <= 95 * (n - 1)
      BY <2>2
    <3> QED
      BY <2>2, <3>1, RanksRise
  <2>8. p95 \in Int /\ p95 <= 100 * s[n]
    <3>1. 95 * (n - 1) \in 0..(100 * (n - 1)) /\ 100 * (n - 1) \in 0..(100 * (n - 1))
          /\ 95 * (n - 1) <= 100 * (n - 1)
      BY <2>2
    <3>2. p95 \in Int
      BY <2>2, <3>1, RankFound DEF Lies
    <3>3. AtRank(s, 100 * (n - 1)) = 100 * s[n]
      <4>1. n - 1 \in Int
        BY <2>2
      <4>2. (100 * (n - 1)) \div 100 = n - 1 /\ (100 * (n - 1)) % 100 = 0
        BY <4>1
      <4>3. (n - 1) + 1 = n
        BY <2>2
      <4> QED
        BY <4>2, <4>3 DEF AtRank
    <3> QED
      BY <2>2, <3>1, <3>2, <3>3, RanksRise
  <2>9. Counted(s, n, High(p95)) > 0
    <3> DEFINE AtLeast == {i \in 1..n : s[i] \in High(p95)}
    <3>1. n \in AtLeast
      BY <2>2, <2>4, <2>8 DEF High
    <3>2. IsFiniteSet(AtLeast)
      <4>1. IsFiniteSet(1..n) /\ AtLeast \in SUBSET (1..n)
        BY <2>2, FS_Interval
      <4> QED
        BY <4>1, FS_Subset
    <3> HIDE DEF AtLeast
    <3>3. Cardinality(AtLeast) \in Nat /\ Cardinality(AtLeast) # 0
      BY <3>1, <3>2, FS_CardinalityType, FS_EmptySet
    <3>4. Cardinality(AtLeast) > 0
      BY <3>3
    <3> QED
      BY <3>4 DEF AtLeast, Counted
  <2>10. Len(newest) = n
    BY <2>2, Zenon
  <2> QED
    BY <2>5, <2>6, <2>7, <2>9, <2>10, Zenon DEF Typical
<1> QED
  BY <1>1, <1>2

(* ---- the calls ---- *)
(* The inductive invariant: what is known of the call that is under way.      *)
Idle == computed.op = "none" => computed = Nothing
Decoded ==
    /\ computed.op = "yolo" =>
          \E rows \in YoloOutputs, size \in FrameSizes, threshold \in Thresholds, most \in MostOverlaps :
             computed = [op |-> "yolo", rows |-> rows, size |-> size, threshold |-> threshold,
                         most |-> most, detections |-> YoloDetections(rows, size, threshold, most)]
    /\ computed.op = "faces" =>
          \E ready \in BOOLEAN, output \in SsdOutputs, size \in FrameSizes, threshold \in Thresholds :
             computed = [op |-> "faces", ready |-> ready, output |-> output, size |-> size,
                         threshold |-> threshold,
                         detections |-> FaceDetections(ready, output, size, threshold)]
    /\ computed.op = "motion" =>
          \E contours \in ContourLists, size \in FrameSizes, minArea \in {1, 2} :
             computed = [op |-> "motion", contours |-> contours, size |-> size, minArea |-> minArea,
                         detections |-> MotionDetections(contours, size, minArea)]
Probing == computed.op = "probe" =>
              /\ computed = [op |-> "probe", probe |-> computed.probe, newest |-> computed.newest]
              /\ ProbeFits(computed.probe, computed.newest)
Mapped == computed.op = "map" =>
              \E item \in Items, frame \in FrameSizes, click \in Clicks :
                 computed = [op |-> "map", item |-> item, frame |-> frame, click |-> click,
                             point |-> ItemToFrame(ComputeLetterbox(item, frame), click, frame)]
Associating == computed.op = "associate" =>
                  /\ computed = [op |-> "associate", call |-> computed.call]
                  /\ CallFits(computed.call) /\ BestFits(computed.call) /\ CursorFits(computed.call)
Associated == computed.op = "associated" => CallFits(computed.call) /\ Exhausted(computed.call)
IInv == Idle /\ Decoded /\ Probing /\ Mapped /\ Associating /\ Associated

LEMMA NothingFits ==
    ASSUME computed = Nothing
    PROVE  IInv
<1>1. computed.op = "none"
  BY DEF Nothing
<1> QED
  BY <1>1 DEF IInv, Idle, Decoded, Probing, Mapped, Associating, Associated

(* The probe that measures is a new one or the one of the call before.        *)
LEMMA ProbeIsFit ==
    ASSUME IInv, computed.op \in {"none", "probe"}
    PROVE  \E p, n : Probe = [op |-> "probe", probe |-> p, newest |-> n] /\ ProbeFits(p, n)
<1>1. CASE computed = Nothing
  <2>1. ProbeFits(NewProbe, [stage \in Stages |-> <<>>])
    BY NewProbeFits DEF NewProbe
  <2> QED
    BY <1>1, <2>1 DEF Probe
<1>2. CASE computed # Nothing
  <2>1. Idle /\ Probing
    BY DEF IInv
  <2>2. computed.op = "probe"
    BY <1>2, <2>1, Zenon DEF Idle
  <2>3. /\ computed = [op |-> "probe", probe |-> computed.probe, newest |-> computed.newest]
        /\ ProbeFits(computed.probe, computed.newest)
    BY <2>1, <2>2, Zenon DEF Probing
  <2>4. Probe = computed
    BY <1>2 DEF Probe
  <2> QED
    BY <2>3, <2>4, Zenon
<1> QED
  BY <1>1, <1>2

LEMMA ComputeKeeps ==
    ASSUME IInv, Compute
    PROVE  IInv'
<1>1. CASE DecodeYolo \/ DetectFaces \/ DetectMotion
  <2>1. computed'.op \in {"yolo", "faces", "motion"}
    BY <1>1 DEF DecodeYolo, DetectFaces, DetectMotion
  <2>2. Decoded'
    <3>1. CASE DecodeYolo
      <4>1. computed'.op = "yolo"
        BY <3>1 DEF DecodeYolo
      <4> QED
        BY <3>1, <4>1 DEF DecodeYolo, Decoded
    <3>2. CASE DetectFaces
      <4>1. computed'.op = "faces"
        BY <3>2 DEF DetectFaces
      <4> QED
        BY <3>2, <4>1 DEF DetectFaces, Decoded
    <3>3. CASE DetectMotion
      <4>1. computed'.op = "motion"
        BY <3>3 DEF DetectMotion
      <4> QED
        BY <3>3, <4>1 DEF DetectMotion, Decoded
    <3> QED
      BY <1>1, <3>1, <3>2, <3>3
  <2>3. (Idle /\ Probing /\ Mapped /\ Associating /\ Associated)'
    BY <2>1 DEF Idle, Probing, Mapped, Associating, Associated
  <2> QED
    BY <2>2, <2>3 DEF IInv
<1>2. CASE MapClick
  <2>1. PICK item \in Items, frame \in FrameSizes, click \in Clicks :
           computed' = [op |-> "map", item |-> item, frame |-> frame, click |-> click,
                        point |-> ItemToFrame(ComputeLetterbox(item, frame), click, frame)]
    BY <1>2 DEF MapClick
  <2>2. computed'.op = "map"
    BY <2>1
  <2> QED
    BY <2>1, <2>2 DEF IInv, Idle, Decoded, Probing, Mapped, Associating, Associated
<1>3. CASE Associate
  <2>1. PICK detections \in DetectionLists, tracks \in TrackLists, threshold \in LeastOverlaps :
           computed' = [op |-> IF Trivial(NewCall(detections, tracks, threshold))
                               THEN "associated" ELSE "associate",
                        call |-> NewCall(detections, tracks, threshold)]
    BY <1>3 DEF Associate
  <2> DEFINE call == NewCall(detections, tracks, threshold)
  <2>2. /\ CallFits(call)
        /\ Trivial(call) => Exhausted(call)
        /\ ~Trivial(call) => BestFits(call) /\ CursorFits(call)
    BY CallBegins
  <2> HIDE DEF call
  <2>3. /\ computed'.op = IF Trivial(call) THEN "associated" ELSE "associate"
        /\ computed'.call = call
        /\ computed' = [op |-> computed'.op, call |-> computed'.call]
    BY <2>1 DEF call
  <2> QED
    BY <2>2, <2>3 DEF IInv, Idle, Decoded, Probing, Mapped, Associating, Associated
<1>4. CASE AssociateLooks \/ AssociateTakes \/ AssociateReturns
  <2> DEFINE call == computed.call
  <2>1. /\ computed = [op |-> "associate", call |-> call]
        /\ CallFits(call) /\ BestFits(call) /\ CursorFits(call)
    BY <1>4 DEF AssociateLooks, AssociateTakes, AssociateReturns, IInv, Associating
  <2> HIDE DEF call
  <2>2. ASSUME NEW next, computed' = [op |-> "associate", call |-> next],
               CallFits(next), BestFits(next), CursorFits(next)
        PROVE  IInv'
    <3>1. computed'.op = "associate" /\ computed'.call = next
      BY <2>2
    <3> QED
      BY <2>2, <3>1 DEF IInv, Idle, Decoded, Probing, Mapped, Associating, Associated
  <2>3. CASE AssociateLooks
    <3>1. Looking(call) /\ computed' = [computed EXCEPT !.call = LookAtPair(call)]
      BY <2>3 DEF AssociateLooks, call
    <3>2. computed' = [op |-> "associate", call |-> LookAtPair(call)]
      BY <2>1, <3>1
    <3> QED
      BY <2>1, <2>2, <3>1, <3>2, LookKeepsCall
  <2>4. CASE AssociateTakes
    <3>1. /\ ~Looking(call) /\ call.best # NoMatch
          /\ computed' = [computed EXCEPT !.call = TakeBest(call)]
      BY <2>4 DEF AssociateTakes, call
    <3>2. computed' = [op |-> "associate", call |-> TakeBest(call)]
      BY <2>1, <3>1
    <3> QED
      BY <2>1, <2>2, <3>1, <3>2, TakeKeepsCall
  <2>5. CASE AssociateReturns
    <3>1. /\ ~Looking(call) /\ call.best = NoMatch
          /\ computed' = [computed EXCEPT !.op = "associated"]
      BY <2>5 DEF AssociateReturns, call
    <3>2. computed'.op = "associated" /\ computed'.call = call
      BY <2>1, <3>1
    <3>3. Exhausted(call)
      BY <2>1, <3>1, NothingLeft
    <3> QED
      BY <2>1, <3>2, <3>3 DEF IInv, Idle, Decoded, Probing, Mapped, Associating, Associated
  <2> QED
    BY <1>4, <2>3, <2>4, <2>5
<1>5. CASE Measure \/ ResetMeasures
  <2>1. PICK p, n : Probe = [op |-> "probe", probe |-> p, newest |-> n] /\ ProbeFits(p, n)
    BY <1>5, ProbeIsFit DEF Measure, ResetMeasures
  <2>2. Probe.probe = p /\ Probe.newest = n
    BY <2>1
  <2>3. PICK probe, newest : /\ computed' = [Probe EXCEPT !.probe = probe, !.newest = newest]
                             /\ ProbeFits(probe, newest)
    <3>1. CASE Measure
      <4>1. PICK ms \in Latencies :
                \/ Measured("inference", ms, OnInferred(Probe.probe, WindowSize, ms))
                \/ Measured("tracking", ms, OnTracked(Probe.probe, WindowSize, ms))
                \/ Measured("rules", ms, OnRuled(Probe.probe, WindowSize, ms))
        BY <3>1 DEF Measure
      <4> DEFINE Taken(stage) == [p EXCEPT ![stage] = Window!Record(p[stage], WindowSize, ms)]
      <4>2. PICK stage \in Stages : Measured(stage, ms, Taken(stage))
        BY <2>2, <4>1 DEF OnInferred, OnTracked, OnRuled, Stages
      <4>3. ProbeFits(Taken(stage), Sampled(stage, ms))
        BY <2>1, <2>2, StageFits DEF Sampled
      <4> QED
        BY <4>2, <4>3 DEF Measured
    <3>2. CASE ResetMeasures
      <4>1. computed' = [Probe EXCEPT !.probe = ResetProbe(Probe.probe),
                                      !.newest = [stage \in Stages |-> <<>>]]
        BY <3>2 DEF ResetMeasures
      <4>2. ProbeFits(ResetProbe(Probe.probe), [stage \in Stages |-> <<>>])
        BY NewProbeFits DEF ResetProbe, Window!Reset
      <4> QED
        BY <4>1, <4>2
    <3> QED
      BY <1>5, <3>1, <3>2
  <2>4. computed' = [op |-> "probe", probe |-> probe, newest |-> newest]
    <3>1. computed' = [[op |-> "probe", probe |-> p, newest |-> n]
                          EXCEPT !.probe = probe, !.newest = newest]
      BY <2>1, <2>3, Zenon
    <3> QED
      BY <3>1
  <2>5. computed'.op = "probe" /\ computed'.probe = probe /\ computed'.newest = newest
    BY <2>4
  <2> QED
    BY <2>3, <2>4, <2>5 DEF IInv, Idle, Decoded, Probing, Mapped, Associating, Associated
<1>6. CASE Return
  BY <1>6, NothingFits DEF Return, IInv, Idle, Decoded, Probing, Mapped, Associating, Associated, Nothing
<1> QED
  BY <1>1, <1>2, <1>3, <1>4, <1>5, <1>6 DEF Compute

(* The strengthened invariant holds in every reachable state.                 *)
THEOREM Invariance == PerceptionSpec => []IInv
<1>1. NothingComputed => IInv
  BY NothingFits DEF NothingComputed
<1>2. IInv /\ [Compute]_computed => IInv'
  <2>1. CASE UNCHANGED computed
    BY <2>1 DEF IInv, Idle, Decoded, Probing, Mapped, Associating, Associated
  <2> QED
    BY <2>1, ComputeKeeps
<1> QED
  BY <1>1, <1>2, PTL DEF PerceptionSpec

(* greedyIouAssociate leaves no two that would rather have each other, for    *)
(* all lists of detections and tracks and every threshold.                    *)
THEOREM MatchingIsStable == PerceptionSpec => []AssociationStable
<1>1. IInv => AssociationStable
  <2> SUFFICES ASSUME IInv, computed.op = "associated"
               PROVE  AssociationStable
    BY DEF AssociationStable
  <2> DEFINE call == computed.call
  <2>1. CallTyped(call) /\ MatchesFit(call) /\ RivalsFit(call) /\ Exhausted(call)
    BY DEF IInv, Associated, CallFits
  <2> HIDE DEF call
  <2>2. \A i \in DOMAIN call.matches :
           /\ call.matches[i] = Pair(call, call.matches[i].detection, call.matches[i].track)
           /\ Similar(call, call.matches[i])
    BY <2>1 DEF MatchesFit, PairOf
  <2>3. ASSUME NEW d \in DOMAIN call.detections, NEW t \in DOMAIN call.tracks,
               Similar(call, Pair(call, d, t))
        PROVE  \E i \in DOMAIN call.matches :
                  /\ call.matches[i].detection = d \/ call.matches[i].track = t
                  /\ ~MoreThan(Pair(call, d, t).iou,
                               Pair(call, call.matches[i].detection, call.matches[i].track).iou)
    <3>1. /\ PairOf(call, Pair(call, d, t))
          /\ Pair(call, d, t).detection = d /\ Pair(call, d, t).track = t
      BY <2>1, PairsTyped
    <3>2. Beaten(call, Pair(call, d, t))
      BY <2>1, <2>3, <3>1 DEF RivalsFit, Exhausted
    <3> QED
      BY <2>2, <3>1, <3>2 DEF Beaten, AsGood
  <2> QED
    BY <2>1, <2>2, <2>3 DEF AssociationStable, MatchesFit, call
<1> QED
  BY <1>1, Invariance, PTL

(* The detections are the visible part of what was claimed with certainty,    *)
(* for all networks' answers, contours, frames and thresholds.                *)
THEOREM DetectionsAreExplained == PerceptionSpec => []DetectionsExplained
<1>1. IInv => DetectionsExplained
  <2> SUFFICES ASSUME IInv
               PROVE  DetectionsExplained
    OBVIOUS
  <2>1. ASSUME computed.op = "yolo"
        PROVE  ObjectsExplained
    <3>1. PICK rows \in YoloOutputs, size \in FrameSizes, threshold \in Thresholds, most \in MostOverlaps :
             computed = [op |-> "yolo", rows |-> rows, size |-> size, threshold |-> threshold,
                         most |-> most, detections |-> YoloDetections(rows, size, threshold, most)]
      BY <2>1 DEF IInv, Decoded
    <3>2. /\ computed.rows = rows /\ computed.size = size /\ computed.threshold = threshold
          /\ computed.most = most
          /\ computed.detections = YoloDetections(rows, size, threshold, most)
      BY <3>1
    <3> QED
      BY <3>2, ObjectsAreExplained
  <2>2. ASSUME computed.op = "faces"
        PROVE  FacesExplained
    <3>1. PICK ready \in BOOLEAN, output \in SsdOutputs, size \in FrameSizes, threshold \in Thresholds :
             computed = [op |-> "faces", ready |-> ready, output |-> output, size |-> size,
                         threshold |-> threshold,
                         detections |-> FaceDetections(ready, output, size, threshold)]
      BY <2>2 DEF IInv, Decoded
    <3>2. /\ computed.ready = ready /\ computed.output = output /\ computed.size = size
          /\ computed.threshold = threshold
          /\ computed.detections = FaceDetections(ready, output, size, threshold)
      BY <3>1
    <3> QED
      BY <3>2, FacesAreExplained
  <2>3. ASSUME computed.op = "motion"
        PROVE  MotionExplained
    <3>1. PICK contours \in ContourLists, size \in FrameSizes, minArea \in {1, 2} :
             computed = [op |-> "motion", contours |-> contours, size |-> size, minArea |-> minArea,
                         detections |-> MotionDetections(contours, size, minArea)]
      BY <2>3 DEF IInv, Decoded
    <3>2. /\ computed.contours = contours /\ computed.size = size /\ computed.minArea = minArea
          /\ computed.detections = MotionDetections(contours, size, minArea)
      BY <3>1
    <3> QED
      BY <3>2, MotionIsExplained
  <2> QED
    BY <2>1, <2>2, <2>3 DEF DetectionsExplained
<1> QED
  BY <1>1, Invariance, PTL

(* A click on the picture lands where it is drawn and one beside it nowhere,   *)
(* for every size of item and frame and every click (itemToFrame).            *)
THEOREM ClicksLand == PerceptionSpec => []ClicksLandWhereDrawn
<1>1. IInv => ClicksLandWhereDrawn
  <2> SUFFICES ASSUME IInv, computed.op = "map"
               PROVE  ClicksLandWhereDrawn
    BY DEF ClicksLandWhereDrawn
  <2>1. PICK item \in Items, frame \in FrameSizes, click \in Clicks :
           computed = [op |-> "map", item |-> item, frame |-> frame, click |-> click,
                       point |-> ItemToFrame(ComputeLetterbox(item, frame), click, frame)]
    BY DEF IInv, Mapped
  <2>2. item \in Sizes /\ frame \in Sizes /\ click \in [x : Int, y : Int]
    BY PerceptionAssumption DEF Sizes
  <2> QED
    BY <2>1, <2>2, MappedClick
<1> QED
  BY <1>1, Invariance, PTL

(* The latency windows hold the newest samples of each stage, for every size. *)
THEOREM WindowsAreNewest == PerceptionSpec => []WindowsHoldNewest
<1>1. IInv => WindowsHoldNewest
  <2> SUFFICES ASSUME IInv, computed.op = "probe", NEW stage \in Stages
               PROVE  LET ring == computed.probe[stage].samples
                          newest == computed.newest[stage]
                      IN  /\ Len(ring) = Len(newest)
                          /\ \E oldest \in 0..Len(ring) : \A i \in DOMAIN newest :
                                newest[i] = ring[((oldest + i - 1) % Len(ring)) + 1]
    BY DEF WindowsHoldNewest
  <2>1. RingFits(computed.probe[stage], computed.newest[stage])
    BY DEF IInv, Probing, ProbeFits
  <2> QED
    BY <2>1, ProbeHoldsNewest
<1> QED
  BY <1>1, Invariance, PTL

LEMMA SnapshotExplained ==
    ASSUME IInv, computed.op = "probe"
    PROVE  LatenciesExplained
<1>1. ASSUME NEW stage \in Stages
      PROVE  RingFits(computed.probe[stage], computed.newest[stage])
  BY DEF IInv, Probing, ProbeFits
<1>2. PICK newest : newest = computed.newest["inference"]
  OBVIOUS
<1>3. PICK shown : shown = Snapshot(computed.probe)
  OBVIOUS
<1>4. /\ shown.avgInference = Window!Mean(computed.probe["inference"])
      /\ shown.p50Inference = Window!Percentile(computed.probe["inference"], 50)
      /\ shown.p95Inference = Window!Percentile(computed.probe["inference"], 95)
      /\ shown.avgTracking = Window!Mean(computed.probe["tracking"])
      /\ shown.avgRules = Window!Mean(computed.probe["rules"])
  BY <1>3 DEF Snapshot
<1>5. /\ RingFits(computed.probe["inference"], newest)
      /\ RingFits(computed.probe["tracking"], computed.newest["tracking"])
      /\ RingFits(computed.probe["rules"], computed.newest["rules"])
  BY <1>1, <1>2 DEF Stages
<1>6. shown.avgInference[1] * Len(newest) = SumOf(newest) * shown.avgInference[2]
  BY <1>4, <1>5, MeanOfNewest
<1>7. shown.avgTracking[1] * Len(computed.newest["tracking"])
        = SumOf(computed.newest["tracking"]) * shown.avgTracking[2]
  BY <1>4, <1>5, MeanOfNewest
<1>8. shown.avgRules[1] * Len(computed.newest["rules"])
        = SumOf(computed.newest["rules"]) * shown.avgRules[2]
  BY <1>4, <1>5, MeanOfNewest
<1>9. Typical(newest, shown.p50Inference, shown.p95Inference)
  BY <1>4, <1>5, PercentilesOfNewest
<1> QED
  BY <1>2, <1>3, <1>6, <1>7, <1>8, <1>9, Zenon DEF LatenciesExplained, Typical

(* The latencies shown are those of the newest frames, for every window size  *)
(* and all latencies.                                                         *)
THEOREM LatenciesAreExplained == PerceptionSpec => []LatenciesExplained
<1>1. IInv => LatenciesExplained
  BY SnapshotExplained DEF LatenciesExplained
<1> QED
  BY <1>1, Invariance, PTL
==============================================================================
