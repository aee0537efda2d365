---------------------------- MODULE Streams_proofs -----------------------------
(***************************************************************************)
(* Proofs about the demultiplexer of fragmented MP4 (hls_fmp4.c), and about*)
(* the parsers of a stream together.                                       *)
(*                                                                         *)
(* For any boxes and fragments, cut anywhere: what the state of the        *)
(* demultiplexer is, when it is configured, and that the frames it gives   *)
(* away are those of the segment.  The lemmas about sequences come from    *)
(* Receive_proofs, those about layers from Hls_proofs.                     *)
(***************************************************************************)
EXTENDS Streams, Hls_proofs, TLAPS

-----------------------------------------------------------------------------
(* The boxes of the demultiplexer of fragmented MP4.                       *)
BoxBytes == [box : Nat, place : Nat]
BytesOf(f) == [box : 1..Len(f), place : Nat]
FmStates ==
  [st : {"hdr", "collect", "skip", "mdat"}, have : Nat, type : BoxTypes, remain : Int,
   pos : Nat, start : Int, sizes : Seq(Nat), idx : Nat \ {0}, sample : Seq(BoxBytes),
   data : Int, set : BOOLEAN, cfg : BOOLEAN, out : Seq(Seq(BoxBytes)), error : BOOLEAN]

(* A box that has begun has more to come, and the next sample is one that  *)
(* a moof announced, or none.                                              *)
FmGood ==
  {c \in FmStates : /\ c.remain >= Endless /\ (c.st # "hdr" => c.remain # 0)
                    /\ c.idx <= Len(c.sizes) + 1 /\ c.have <= 3}

(* What every byte preserves holds when all are fed: `good` is what holds  *)
(* behind each of them.                                                    *)
FedIs(at, c, s, n) ==
  at = [k \in 0..n |-> IF k = 0 THEN c ELSE FmByte(at[k - 1], s[k])]

LEMMA FedExists ==
  ASSUME NEW n \in Nat, NEW s, NEW c PROVE \E at : FedIs(at, c, s, n)
<1> DEFINE T == {m \in Nat : \E u : FedIs(u, c, s, m)}
<1>1. 0 \in T
  <2>1. FedIs([k \in 0..0 |-> c], c, s, 0) BY DEF FedIs
  <2>2. QED BY <2>1
<1>2. ASSUME NEW m \in Nat, m \in T PROVE m + 1 \in T
  <2>1. PICK u : FedIs(u, c, s, m) BY <1>2
  <2> DEFINE next == FmByte(u[m], s[m + 1])
             g == [k \in 0..(m + 1) |-> IF k = m + 1 THEN next ELSE u[k]]
             h == [k \in 0..(m + 1) |-> IF k = 0 THEN c ELSE FmByte(g[k - 1], s[k])]
  <2>2. ASSUME NEW k \in 0..(m + 1) PROVE g[k] = h[k]
    <3>1. CASE k = m + 1
      <4>1. k # 0 /\ k - 1 = m /\ m \in 0..(m + 1) /\ m # m + 1 BY <3>1
      <4>2. g[m] = u[m] /\ g[k] = FmByte(u[m], s[m + 1]) BY <3>1, <4>1
      <4>3. h[k] = FmByte(g[k - 1], s[k]) BY <4>1
      <4> HIDE DEF g, h
      <4>4. QED BY <3>1, <4>1, <4>2, <4>3
    <3>2. CASE k # m + 1
      <4>1. k \in 0..m BY <3>2
      <4>2. u[k] = IF k = 0 THEN c ELSE FmByte(u[k - 1], s[k]) BY <2>1, <4>1 DEF FedIs
      <4>3. k # 0 => k - 1 \in 0..(m + 1) /\ k - 1 # m + 1 BY <4>1
      <4>4. k # 0 => g[k - 1] = u[k - 1] BY <4>3
      <4>5. g[k] = u[k] BY <3>2
      <4>6. h[k] = IF k = 0 THEN c ELSE FmByte(g[k - 1], s[k]) OBVIOUS
      <4> HIDE DEF g, h
      <4>7. QED BY <4>2, <4>4, <4>5, <4>6
    <3>3. QED BY <3>1, <3>2
  <2>3. g = h
    <3>1. g = [k \in 0..(m + 1) |-> g[k]] /\ h = [k \in 0..(m + 1) |-> h[k]] OBVIOUS
    <3> HIDE DEF g, h
    <3>2. QED BY <2>2, <3>1
  <2>4. FedIs(g, c, s, m + 1) BY <2>3 DEF FedIs
  <2> HIDE DEF g
  <2>5. QED BY <2>4
<1> HIDE DEF T
<1>3. n \in T BY <1>1, <1>2, AllOf
<1>4. QED BY <1>3 DEF T

LEMMA FedHolds ==
  ASSUME NEW n \in Nat, NEW s, Len(s) = n, NEW c, NEW good, c \in good[0],
         \A k \in 1..n : \A d \in good[k - 1] : FmByte(d, s[k]) \in good[k]
  PROVE  Fed(c, s) \in good[n]
<1> DEFINE at == CHOOSE u : u = [k \in 0..Len(s) |->
                                    IF k = 0 THEN c ELSE FmByte(u[k - 1], s[k])]
<1>1. FedIs(at, c, s, n)
  <2>1. \E u : u = [k \in 0..Len(s) |-> IF k = 0 THEN c ELSE FmByte(u[k - 1], s[k])]
    <3>1. PICK u : FedIs(u, c, s, n) BY FedExists
    <3>2. u = [k \in 0..Len(s) |-> IF k = 0 THEN c ELSE FmByte(u[k - 1], s[k])]
      BY <3>1, Zenon DEF FedIs
    <3>3. QED BY <3>2
  <2>2. at = [k \in 0..Len(s) |-> IF k = 0 THEN c ELSE FmByte(at[k - 1], s[k])] BY <2>1
  <2> HIDE DEF at
  <2>3. QED BY <2>2, Zenon DEF FedIs
<1>2. Fed(c, s) = at[n] BY DEF Fed
<1> HIDE DEF at
<1>3. \A k \in 0..n : at[k] = IF k = 0 THEN c ELSE FmByte(at[k - 1], s[k])
  BY <1>1 DEF FedIs
<1> DEFINE T == {m \in Nat : m <= n => at[m] \in good[m]}
<1>4. 0 \in T
  <2>1. at[0] = c BY <1>3
  <2>2. QED BY <2>1
<1>5. ASSUME NEW m \in Nat, m \in T PROVE m + 1 \in T
  <2> SUFFICES ASSUME m + 1 <= n PROVE at[m + 1] \in good[m + 1] OBVIOUS
  <2>1. PICK k \in 1..n : k = m + 1 /\ k - 1 = m /\ k # 0 /\ k \in 0..n OBVIOUS
  <2>2. at[k] = FmByte(at[k - 1], s[k]) BY <1>3, <2>1
  <2>3. at[k - 1] \in good[k - 1] BY <1>5, <2>1
  <2>4. QED BY <2>1, <2>2, <2>3
<1> HIDE DEF T
<1>6. n \in T BY <1>4, <1>5, AllOf
<1>7. QED BY <1>2, <1>6 DEF T

(* One byte.                                                               *)
LEMMA NextSampleIs ==
  ASSUME NEW c \in FmGood
  PROVE  /\ NextSample(c) \in c.idx..(Len(c.sizes) + 1)
         /\ NextSample(c) <= Len(c.sizes) => c.sizes[NextSample(c)] > 0
         /\ \A j \in c.idx..(NextSample(c) - 1) : c.sizes[j] = 0
<1>1. PICK n \in Nat : n = Len(c.sizes) BY DEF FmGood, FmStates
<1>2. PICK a \in Nat \ {0} : a = c.idx /\ a <= n + 1 BY <1>1 DEF FmGood, FmStates
<1>3. \A i \in 1..n : c.sizes[i] \in Nat
  <2>1. c \in FmStates BY DEF FmGood
  <2>2. PICK s \in Seq(Nat) : s = c.sizes BY <2>1 DEF FmStates
  <2>3. \A i \in 1..n : s[i] \in Nat BY <1>1, <2>2
  <2>4. QED BY <2>2, <2>3
<1> DEFINE T == {i \in 1..(n + 1) : a <= i /\ (i = n + 1 \/ c.sizes[i] > 0)}
<1>4. n + 1 \in T BY <1>2
<1>5. T \in SUBSET (1..(n + 1)) /\ T # {} /\ n + 1 \in Nat BY <1>4
<1> HIDE DEF T
<1>6. PICK i \in T : \A j \in T : i <= j BY <1>5, FirstIn
<1>7. i \in 1..(n + 1) /\ a <= i /\ (i = n + 1 \/ c.sizes[i] > 0) BY <1>6 DEF T
<1>8. ASSUME NEW j \in a..(i - 1) PROVE c.sizes[j] = 0
  <2>1. j \in 1..n /\ a <= j /\ ~(i <= j) BY <1>7
  <2>2. j \notin T BY <1>6, <2>1
  <2>3. ~(c.sizes[j] > 0) /\ c.sizes[j] \in Nat BY <1>3, <2>1, <2>2 DEF T
  <2>4. QED BY <2>3
<1>9. /\ i \in c.idx..(Len(c.sizes) + 1)
      /\ i = Len(c.sizes) + 1 \/ c.sizes[i] > 0
      /\ \A j \in c.idx..(i - 1) : c.sizes[j] = 0
  BY <1>1, <1>2, <1>7, <1>8
<1>10. \E h : h = NextSample(c) OBVIOUS
<1>11. /\ NextSample(c) \in c.idx..(Len(c.sizes) + 1)
       /\ NextSample(c) = Len(c.sizes) + 1 \/ c.sizes[NextSample(c)] > 0
       /\ \A j \in c.idx..(NextSample(c) - 1) : c.sizes[j] = 0
  BY <1>9 DEF NextSample
<1> HIDE DEF NextSample
<1>12. QED BY <1>1, <1>2, <1>11

Length(k) == IF k.rest THEN Endless ELSE k.n
Kept(d, c) == d.cfg = c.cfg /\ d.error = c.error
HeaderEnded(d, c, k) ==
  /\ d \in FmGood /\ Kept(d, c) /\ d.have = 0 /\ d.remain = Length(k)
  /\ d.st = "hdr" <=> Length(k) = 0
  /\ k.type = "moov" /\ Length(k) \in 1..FmBox => d.st = "collect"

LEMMA HeaderEndsIs ==
  ASSUME NEW c \in FmStates, NEW k \in FmBoxes, c.idx <= Len(c.sizes) + 1
  PROVE  HeaderEnded(HeaderEnds(c, k), c, k)
<1>1. /\ c \in FmStates /\ c.idx <= Len(c.sizes) + 1 OBVIOUS
<1>2. PICK r \in Int : r = Length(k) /\ r >= Endless BY DEF Length, FmBoxes, Endless
<1>3. PICK t \in BoxTypes : t = k.type BY DEF FmBoxes
<1>4. PICK a \in Int : a = c.pos - HeaderOf(k)
  <2>1. PICK p \in Nat : p = c.pos BY <1>1 DEF FmStates
  <2>2. PICK h \in {2, 4} : h = HeaderOf(k) BY DEF HeaderOf
  <2>3. QED BY <2>1, <2>2
<1> DEFINE d == [c EXCEPT !.have = 0, !.type = t, !.remain = r, !.start = a]
<1>5. HeaderEnds(c, k) =
        IF r = 0 THEN [d EXCEPT !.st = "hdr"]
        ELSE IF t \in {"moov", "moof"} /\ r \in 0..FmBox THEN [d EXCEPT !.st = "collect"]
        ELSE IF t = "mdat"
             THEN [d EXCEPT !.st = "mdat", !.set = TRUE,
                            !.data = IF c.set THEN @ ELSE c.pos]
        ELSE [d EXCEPT !.st = "skip"]
  BY <1>2, <1>3, <1>4, Zenon DEF HeaderEnds, Length
<1>6. /\ d \in FmStates /\ d.have = 0 /\ d.remain = r /\ Kept(d, c)
      /\ d.idx = c.idx /\ d.sizes = c.sizes
  BY <1>1 DEF FmStates, Kept
<1> HIDE DEF d
<1>7. ASSUME NEW st \in {"hdr", "collect", "skip", "mdat"}, NEW e, e = [d EXCEPT !.st = st]
      PROVE  /\ e \in FmStates /\ e.have = 0 /\ e.remain = r /\ Kept(e, c) /\ e.st = st
             /\ e.idx = c.idx /\ e.sizes = c.sizes
  BY <1>6, <1>7 DEF FmStates, Kept
<1>8. ASSUME NEW x \in Int, NEW e, e = [d EXCEPT !.st = "mdat", !.set = TRUE, !.data = x]
      PROVE  /\ e \in FmStates /\ e.have = 0 /\ e.remain = r /\ Kept(e, c) /\ e.st = "mdat"
             /\ e.idx = c.idx /\ e.sizes = c.sizes
  BY <1>6, <1>8 DEF FmStates, Kept
<1>9. PICK e : e = HeaderEnds(c, k) OBVIOUS
<1>10. CASE r = 0
  <2>1. e = [d EXCEPT !.st = "hdr"] BY <1>5, <1>9, <1>10
  <2>2. e \in FmStates /\ e.have = 0 /\ e.remain = r /\ Kept(e, c) /\ e.st = "hdr"
        /\ e.idx = c.idx /\ e.sizes = c.sizes
    BY <1>7, <2>1
  <2>3. QED BY <1>1, <1>2, <1>9, <1>10, <2>2 DEF HeaderEnded, FmGood
<1>11. CASE r # 0
  <2>1. \E st \in {"collect", "skip", "mdat"} :
          /\ e \in FmStates /\ e.have = 0 /\ e.remain = r /\ Kept(e, c) /\ e.st = st
          /\ e.idx = c.idx /\ e.sizes = c.sizes
          /\ t \in {"moov", "moof"} /\ r \in 0..FmBox => e.st = "collect"
    <3>1. CASE t \in {"moov", "moof"} /\ r \in 0..FmBox
      <4>1. e = [d EXCEPT !.st = "collect"] BY <1>5, <1>9, <1>11, <3>1
      <4>2. e \in FmStates /\ e.have = 0 /\ e.remain = r /\ Kept(e, c) /\ e.st = "collect"
            /\ e.idx = c.idx /\ e.sizes = c.sizes
        BY <1>7, <4>1
      <4>3. QED BY <4>2
    <3>2. CASE ~(t \in {"moov", "moof"} /\ r \in 0..FmBox) /\ t = "mdat"
      <4>1. PICK x \in Int : x = IF c.set THEN d.data ELSE c.pos BY <1>1, <1>6 DEF FmStates
      <4>2. "data" \in DOMAIN [d EXCEPT !.st = "mdat", !.set = TRUE] BY <1>6 DEF FmStates
      <4>3. e = [d EXCEPT !.st = "mdat", !.set = TRUE, !.data = IF c.set THEN @ ELSE c.pos]
        BY <1>5, <1>9, <1>11, <3>2
      <4>4. e = [d EXCEPT !.st = "mdat", !.set = TRUE, !.data = x]
        BY <1>6, <4>1, <4>3 DEF FmStates
      <4>5. e \in FmStates /\ e.have = 0 /\ e.remain = r /\ Kept(e, c) /\ e.st = "mdat"
            /\ e.idx = c.idx /\ e.sizes = c.sizes
        BY <1>8, <4>1, <4>4
      <4>6. QED BY <3>2, <4>5
    <3>3. CASE ~(t \in {"moov", "moof"} /\ r \in 0..FmBox) /\ t # "mdat"
      <4>1. e = [d EXCEPT !.st = "skip"] BY <1>5, <1>9, <1>11, <3>3
      <4>2. e \in FmStates /\ e.have = 0 /\ e.remain = r /\ Kept(e, c) /\ e.st = "skip"
            /\ e.idx = c.idx /\ e.sizes = c.sizes
        BY <1>7, <4>1
      <4>3. QED BY <3>3, <4>2
    <3>4. QED BY <3>1, <3>2, <3>3
  <2>2. QED BY <1>1, <1>2, <1>3, <1>9, <1>11, <2>1 DEF HeaderEnded, FmGood
<1>12. QED BY <1>10, <1>11

(* A byte of a header, or one that is taken for it. *)
LEMMA HeaderByteIs ==
  ASSUME NEW c \in FmGood, c.st = "hdr", NEW b, b.place \in Nat, NEW k \in FmBoxes,
         NEW d, d = HeaderByte(c, b, k)
  PROVE  /\ d \in FmGood /\ Kept(d, c)
         /\ b.place <= HeaderOf(k) /\ c.have + 1 < HeaderOf(k) =>
              d.st = "hdr" /\ d.have = c.have + 1
         /\ b.place <= HeaderOf(k) /\ c.have + 1 = HeaderOf(k) => HeaderEnded(d, c, k)
<1>1. /\ c \in FmStates /\ c.idx <= Len(c.sizes) + 1 /\ c.remain >= Endless /\ c.have <= 3 BY DEF FmGood
<1>2. PICK n \in {2, 4} : n = HeaderOf(k) BY DEF HeaderOf
<1> DEFINE e == [c EXCEPT !.have = @ + 1, !.pos = @ + 1]
           g == [c EXCEPT !.st = "skip", !.type = "none", !.remain = Endless, !.pos = @ + 1]
<1>3. d = IF b.place > n THEN g
          ELSE IF e.have < n THEN e ELSE HeaderEnds(e, k)
  BY <1>2, Zenon DEF HeaderByte
<1>4. CASE b.place > n
  <2>1. PICK p \in Nat : p = c.pos + 1 BY <1>1 DEF FmStates
  <2>2. PICK m \in Int : m = -1 OBVIOUS
  <2>3. PICK t \in BoxTypes : t = "none" BY DEF BoxTypes
  <2> DEFINE f == [c EXCEPT !.st = "skip", !.type = t, !.remain = m, !.pos = p]
  <2>4. f \in FmStates /\ Kept(f, c) /\ f.st # "hdr" /\ f.remain = m
        /\ f.idx = c.idx /\ f.sizes = c.sizes /\ f.have = c.have
    BY <1>1 DEF FmStates, Kept
  <2>5. g = f BY <1>1, <2>1, <2>2, <2>3 DEF FmStates, Endless
  <2>6. d = f BY <1>3, <1>4, <2>5
  <2> HIDE DEF f
  <2>7. QED BY <1>1, <1>2, <1>4, <2>4, <2>6, <2>2 DEF FmGood, Endless
<1>5. CASE b.place <= n
  <2>1. c.have \in Nat BY <1>1 DEF FmStates
  <2>2. PICK h \in 0..3 : h = c.have BY <1>1, <2>1
  <2>3. PICK h1 \in Nat : h1 = h + 1 OBVIOUS
  <2>4. PICK p \in Nat : p = c.pos + 1 BY <1>1 DEF FmStates
  <2> DEFINE f == [c EXCEPT !.have = h1, !.pos = p]
  <2>5. e = f BY <1>1, <2>2, <2>4, <2>3 DEF FmStates
  <2>6. f \in FmStates BY <1>1 DEF FmStates
  <2>7. e.have = h + 1 /\ Kept(e, c) /\ e.st = "hdr" /\ e.remain = c.remain
        /\ e.idx = c.idx /\ e.sizes = c.sizes
    BY <1>1, <2>5, <2>3 DEF FmStates, Kept
  <2>8. CASE h + 1 < n
    <3>1. e \in FmStates BY <2>5, <2>6
    <3>2. d = e BY <1>3, <1>5, <2>7, <2>8
    <3> HIDE DEF e
    <3>3. QED BY <1>1, <1>2, <1>5, <2>2, <2>7, <2>8, <3>1, <3>2 DEF FmGood
  <2>9. CASE ~(h + 1 < n)
    <3>1. d = HeaderEnds(e, k) BY <1>3, <1>5, <2>7, <2>9
    <3>2. e \in FmStates BY <2>5, <2>6
    <3>3. e.idx <= Len(e.sizes) + 1 /\ HeaderOf(k) = n BY <1>1, <1>2, <2>7
    <3> HIDE DEF e
    <3>4. HeaderEnded(d, e, k) BY <3>1, <3>2, <3>3, HeaderEndsIs
    <3>5. HeaderEnded(d, c, k) BY <2>7, <3>4 DEF HeaderEnded, Kept
    <3>6. d \in FmGood /\ Kept(d, c) BY <3>5 DEF HeaderEnded
    <3>7. QED BY <1>2, <2>2, <2>9, <3>5, <3>6
  <2>10. QED BY <2>8, <2>9
<1>6. QED BY <1>2, <1>4, <1>5

(* A byte of what a box holds. *)
StayPut(d, c) ==
  /\ d.st = c.st /\ d.have = c.have /\ d.remain = c.remain
  /\ d.cfg = c.cfg /\ d.error = c.error
BoxStep(d, c, k) ==
  /\ d \in FmGood /\ d.have = c.have
  /\ d.remain = Remaining(c) /\ d.st = IF c.remain = 1 THEN "hdr" ELSE c.st
  /\ k.type # "moov" => Kept(d, c)
  /\ Kept(d, c) \/ d.cfg \/ d.error
  /\ k.type = "moov" /\ c.st = "collect" /\ c.remain = 1 => d.cfg \/ d.error

LEMMA BoxByteIs ==
  ASSUME NEW c \in FmGood, c.st # "hdr", NEW k \in FmBoxes
  PROVE  BoxStep(BoxByte(c, k), c, k)
<1>1. /\ c \in FmStates /\ c.idx <= Len(c.sizes) + 1 /\ c.have <= 3
      /\ c.remain >= Endless /\ c.remain # 0
  BY DEF FmGood
<1>2. c.remain \in Int /\ c.start \in Int /\ c.pos \in Nat BY <1>1 DEF FmStates
<1>3. PICK p \in Nat : p = c.pos + 1 BY <1>2
<1>4. PICK m \in Int : m = Remaining(c) BY <1>2 DEF Remaining, Endless
<1>5. m >= Endless /\ (c.remain # 1 => m # 0) BY <1>1, <1>2, <1>4 DEF Remaining, Endless
<1>6. PICK st \in {"hdr", "collect", "skip", "mdat"} : st = IF c.remain = 1 THEN "hdr" ELSE c.st
  BY <1>1 DEF FmStates
<1> DEFINE d == [c EXCEPT !.pos = p, !.remain = m, !.st = st]
<1>7. d = [c EXCEPT !.pos = @ + 1, !.remain = Remaining(c),
                    !.st = IF c.remain = 1 THEN "hdr" ELSE @]
  BY <1>1, <1>3, <1>4, <1>6 DEF FmStates
<1>8. BoxByte(c, k) = IF c.st = "collect" /\ c.remain = 1 THEN Collected(d, k) ELSE d
  BY <1>7, Zenon DEF BoxByte
<1>9. /\ d \in FmStates /\ Kept(d, c) /\ d.st = st /\ d.remain = m
      /\ d.idx = c.idx /\ d.sizes = c.sizes /\ d.have = c.have
  BY <1>1 DEF FmStates, Kept
<1>10. PICK e : e = BoxByte(c, k) OBVIOUS
<1> HIDE DEF d
<1>11. CASE ~(c.st = "collect" /\ c.remain = 1)
  <2>1. e = d BY <1>8, <1>10, <1>11
  <2>2. d \in FmGood
    <3>1. st # "hdr" => m # 0 BY <1>5, <1>6
    <3>2. QED BY <1>1, <1>5, <1>9, <3>1 DEF FmGood
  <2>3. QED BY <1>4, <1>6, <1>9, <1>10, <1>11, <2>1, <2>2 DEF BoxStep
<1>12. CASE c.st = "collect" /\ c.remain = 1
  <2>1. e = Collected(d, k) /\ st = "hdr" BY <1>6, <1>8, <1>10, <1>12
  <2>2. CASE k.type = "moov"
    <3>1. PICK a \in BOOLEAN : a = k.aac BY DEF FmBoxes
    <3>2. PICK n \in BOOLEAN : n = ~a OBVIOUS
    <3> DEFINE f == [d EXCEPT !.cfg = a, !.error = n]
    <3>3. e = f BY <2>1, <2>2, <3>1, <3>2 DEF Collected
    <3>4. /\ f \in FmStates /\ f.st = st /\ f.remain = m /\ f.have = c.have
          /\ f.idx = c.idx /\ f.sizes = c.sizes /\ f.cfg = a /\ f.error = n
      BY <1>9 DEF FmStates
    <3> HIDE DEF f
    <3>5. f \in FmGood BY <1>1, <1>5, <2>1, <3>4 DEF FmGood
    <3>6. f.cfg \/ f.error BY <3>2, <3>4
    <3>7. QED BY <1>4, <1>6, <1>10, <2>2, <3>3, <3>4, <3>5, <3>6 DEF BoxStep
  <2>3. CASE k.type # "moov"
    <3>1. PICK s \in Seq(Nat) : s = k.sizes BY DEF FmBoxes
    <3>2. PICK i \in Nat \ {0} : i = 1 OBVIOUS
    <3>3. PICK w \in Seq(BoxBytes) : w = <<>> BY EmptySeq
    <3>4. PICK z \in BOOLEAN : z = (k.offset # Endless) OBVIOUS
    <3>5. k.offset \in Int /\ d.start \in Int BY <1>9 DEF FmBoxes, FmStates, Endless
    <3>6. PICK x \in Int : x = d.start + k.offset BY <3>5
    <3> DEFINE f == [d EXCEPT !.sizes = s, !.idx = i, !.sample = w, !.set = z, !.data = x]
    <3>7. e = f BY <2>1, <2>3, <3>1, <3>2, <3>3, <3>4, <3>6, Zenon DEF Collected
    <3>8. /\ f \in FmStates /\ f.st = st /\ f.remain = m /\ f.have = c.have
          /\ f.idx = i /\ f.sizes = s /\ Kept(f, d)
      BY <1>9 DEF FmStates, Kept
    <3> HIDE DEF f
    <3>9. i <= Len(s) + 1 BY <3>2
    <3>10. f \in FmGood BY <1>1, <1>5, <1>9, <2>1, <3>8, <3>9 DEF FmGood
    <3>11. Kept(f, c) BY <1>9, <3>8 DEF Kept
    <3>12. QED BY <1>4, <1>6, <1>10, <2>3, <3>7, <3>8, <3>10, <3>11 DEF BoxStep
  <2>4. QED BY <2>2, <2>3
<1>13. QED BY <1>11, <1>12

(* A byte of mdat before that: the sample and the frame it may complete.   *)
LEMMA SampleByteIs ==
  ASSUME NEW c \in FmGood, NEW b \in BoxBytes
  PROVE  SampleByte(c, b) \in FmGood /\ StayPut(SampleByte(c, b), c)
<1>1. /\ c \in FmStates /\ c.idx <= Len(c.sizes) + 1 /\ c.have <= 3
      /\ c.remain >= Endless /\ (c.st # "hdr" => c.remain # 0)
  BY DEF FmGood
<1>2. PICK n \in Nat : n = Len(c.sizes) BY <1>1 DEF FmStates
<1>3. PICK h \in Nat \ {0} : h = c.idx BY <1>1 DEF FmStates
<1>4. PICK i \in Nat \ {0} : i = NextSample(c) /\ i <= n + 1
  <2>1. NextSample(c) \in c.idx..(Len(c.sizes) + 1) BY NextSampleIs
  <2>2. QED BY <1>2, <1>3, <2>1
<1>5. PICK s \in Seq(BoxBytes) : s = Append(c.sample, b)
  <2>1. PICK w \in Seq(BoxBytes) : w = c.sample BY <1>1 DEF FmStates
  <2>2. Append(w, b) \in Seq(BoxBytes) BY AppendProperties
  <2>3. QED BY <2>1, <2>2
<1>6. PICK o \in Seq(Seq(BoxBytes)) : o = IF Len(s) <= FmFrame THEN Append(c.out, s) ELSE c.out
  <2>1. c.out \in Seq(Seq(BoxBytes)) BY <1>1 DEF FmStates
  <2>2. Append(c.out, s) \in Seq(Seq(BoxBytes)) BY <2>1
  <2>3. QED BY <2>1, <2>2
<1>7. PICK j \in Nat \ {0} : j = i + 1 OBVIOUS
<1>8. PICK w \in Seq(BoxBytes) : w = <<>> BY EmptySeq
<1> DEFINE more == [c EXCEPT !.idx = i, !.sample = s]
           whole == [c EXCEPT !.idx = j, !.sample = w, !.out = o]
<1>9. more \in FmStates /\ StayPut(more, c) /\ more.idx = i /\ more.sizes = c.sizes
  BY <1>1 DEF FmStates, StayPut
<1>10. whole \in FmStates /\ StayPut(whole, c) /\ whole.idx = j /\ whole.sizes = c.sizes
  BY <1>1 DEF FmStates, StayPut
<1>11. whole = [c EXCEPT !.idx = i + 1, !.sample = <<>>,
                         !.out = IF Len(s) <= FmFrame THEN Append(@, s) ELSE @]
  BY <1>1, <1>6, <1>7, <1>8 DEF FmStates
<1>12. SampleByte(c, b) =
         IF i > Len(c.sizes) \/ c.pos < c.data THEN c
         ELSE IF Len(s) < c.sizes[i] THEN more ELSE whole
  BY <1>4, <1>5, <1>11, Zenon DEF SampleByte
<1> HIDE DEF more, whole
<1>13. more \in FmGood BY <1>1, <1>2, <1>4, <1>9 DEF FmGood, StayPut
<1>14. i <= n => whole \in FmGood BY <1>1, <1>2, <1>7, <1>10 DEF FmGood, StayPut
<1>15. StayPut(c, c) BY DEF StayPut
<1>16. QED BY <1>2, <1>9, <1>10, <1>12, <1>13, <1>14, <1>15

(* And so what fmp4_feed makes of a byte.                                  *)
HeaderStep(d, c, b, k) ==
  /\ Kept(d, c)
  /\ b.place <= HeaderOf(k) /\ c.have + 1 < HeaderOf(k) =>
       d.st = "hdr" /\ d.have = c.have + 1
  /\ b.place <= HeaderOf(k) /\ c.have + 1 = HeaderOf(k) => HeaderEnded(d, c, k)
FmStep(d, c, b, k) ==
  /\ d \in FmGood
  /\ c.error => d.error
  /\ c.cfg => d.cfg \/ d.error
  /\ c.cfg /\ k.type # "moov" => d.cfg
  /\ c.st = "hdr" /\ ~d.error => HeaderStep(d, c, b, k)
  /\ c.st # "hdr" /\ ~d.error => BoxStep(d, c, k)

LEMMA FmByteIs ==
  ASSUME file \in Seq(FmBoxes), NEW c \in FmGood, NEW b \in BytesOf(file)
  PROVE  FmStep(FmByte(c, b), c, b, file[b.box])
<1>1. b \in BoxBytes /\ b.box \in 1..Len(file) /\ b.place \in Nat BY DEF BytesOf, BoxBytes
<1>2. PICK k \in FmBoxes : k = file[b.box] BY <1>1
<1>3. PICK d : d = FmByte(c, b) OBVIOUS
<1>4. d = IF c.error THEN c
          ELSE IF c.st = "hdr" THEN HeaderByte(c, b, k)
          ELSE IF c.st = "mdat"
               THEN IF c.cfg THEN BoxByte(SampleByte(c, b), k) ELSE [c EXCEPT !.error = TRUE]
          ELSE BoxByte(c, k)
  BY <1>2, <1>3, Zenon DEF FmByte
<1>5. CASE c.error
  <2>1. d = c BY <1>4, <1>5
  <2>2. QED BY <1>2, <1>3, <1>5, <2>1 DEF FmStep
<1>6. CASE ~c.error /\ c.st = "hdr"
  <2>1. d = HeaderByte(c, b, k) BY <1>4, <1>6
  <2>2. d \in FmGood /\ HeaderStep(d, c, b, k) BY <1>1, <1>6, <2>1, HeaderByteIs DEF HeaderStep
  <2>3. Kept(d, c) BY <2>2 DEF HeaderStep
  <2>4. QED BY <1>2, <1>3, <1>6, <2>2, <2>3 DEF FmStep, Kept
<1>7. CASE ~c.error /\ c.st = "mdat" /\ ~c.cfg
  <2>1. d = [c EXCEPT !.error = TRUE] BY <1>4, <1>7
  <2>2. c \in FmStates BY DEF FmGood
  <2>3. d \in FmStates /\ d.error /\ StayPut([d EXCEPT !.error = FALSE], c) /\ d.idx = c.idx
        /\ d.sizes = c.sizes /\ d.st = c.st /\ d.remain = c.remain /\ d.have = c.have
    BY <1>7, <2>1, <2>2 DEF FmStates, StayPut
  <2>4. d \in FmGood BY <2>3 DEF FmGood
  <2>5. QED BY <1>2, <1>3, <1>7, <2>3, <2>4 DEF FmStep
<1>8. CASE ~c.error /\ c.st # "hdr" /\ (c.st = "mdat" => c.cfg)
  <2>1. PICK e \in FmGood : StayPut(e, c) /\ d = BoxByte(e, k)
    <3>1. CASE c.st = "mdat"
      <4>1. d = BoxByte(SampleByte(c, b), k) BY <1>4, <1>8, <3>1
      <4>2. SampleByte(c, b) \in FmGood /\ StayPut(SampleByte(c, b), c)
        BY <1>1, SampleByteIs
      <4>3. QED BY <4>1, <4>2
    <3>2. CASE c.st # "mdat"
      <4>1. d = BoxByte(c, k) BY <1>4, <1>8, <3>2
      <4>2. StayPut(c, c) BY DEF StayPut
      <4>3. QED BY <4>1, <4>2
    <3>3. QED BY <3>1, <3>2
  <2>2. e.st # "hdr" BY <1>8, <2>1 DEF StayPut
  <2>3. BoxStep(d, e, k) BY <2>1, <2>2, BoxByteIs
  <2>4. BoxStep(d, c, k) BY <2>1, <2>3 DEF BoxStep, StayPut, Kept, Remaining
  <2>5. d \in FmGood /\ (k.type # "moov" => Kept(d, c)) /\ (Kept(d, c) \/ d.cfg \/ d.error)
    BY <2>4 DEF BoxStep
  <2>6. QED BY <1>2, <1>3, <1>8, <2>4, <2>5 DEF FmStep, Kept
<1>9. QED BY <1>5, <1>6, <1>7, <1>8

(* The bytes of a file: each box begins where the one before ends.         *)
Placed(f, at) ==
  /\ at \in [0..Len(f) -> Nat] /\ at[0] = 0 /\ Len(FileBytes(f)) = at[Len(f)]
  /\ \A i \in 1..Len(f) : at[i] = at[i - 1] + BoxLength(f[i])
  /\ \A i \in 1..Len(f) : \A p \in 1..BoxLength(f[i]) :
       /\ at[i - 1] + p \in 1..Len(FileBytes(f))
       /\ FileBytes(f)[at[i - 1] + p].box = i /\ FileBytes(f)[at[i - 1] + p].place = p

LEMMA BoxLengthIs ==
  ASSUME NEW k \in FmBoxes
  PROVE  HeaderOf(k) \in {2, 4} /\ BoxLength(k) \in Nat /\ BoxLength(k) = HeaderOf(k) + k.n
<1>1. k.n \in Nat BY DEF FmBoxes
<1>2. PICK h \in {2, 4} : h = HeaderOf(k) BY DEF HeaderOf
<1>3. QED BY <1>1, <1>2 DEF BoxLength

LEMMA FileBytesAre ==
  ASSUME NEW f \in Seq(FmBoxes)
  PROVE  FileBytes(f) \in Seq(BytesOf(f)) /\ \E at : Placed(f, at)
<1>1. PICK n \in Nat : n = Len(f) OBVIOUS
<1>2. ASSUME NEW i \in 1..n PROVE f[i] \in FmBoxes BY <1>1
<1> DEFINE byteOf(b) == [p \in 1..BoxLength(f[b]) |-> [box |-> b, place |-> p]]
           seqs == [b \in 1..n |-> byteOf(b)]
<1>3. ASSUME NEW b \in 1..n
      PROVE  byteOf(b) \in Seq(BytesOf(f)) /\ Len(byteOf(b)) = BoxLength(f[b])
  <2>1. PICK m \in Nat : m = BoxLength(f[b]) BY <1>2, BoxLengthIs
  <2>2. \A p \in 1..m : [box |-> b, place |-> p] \in BytesOf(f) BY <1>1 DEF BytesOf
  <2>3. QED BY <2>1, <2>2
<1>4. seqs \in [1..n -> Seq(BytesOf(f))] BY <1>3
<1>5. FileBytes(f) = FlattenSeq(seqs) BY <1>1, Zenon DEF FileBytes
<1>6. \A b \in 1..n : seqs[b] = byteOf(b) OBVIOUS
<1> HIDE DEF seqs
<1>7. PICK w : w = FlattenSeq(seqs) OBVIOUS
<1>8. w \in Seq(BytesOf(f)) BY <1>4, <1>7, FlattenLayout
<1>9. PICK at : Layout(w, seqs, n, at) BY <1>4, <1>7, FlattenLayout
<1>10. \A b \in 1..n : Len(seqs[b]) \in Nat
  <2>1. \A b \in 1..n : BoxLength(f[b]) \in Nat BY <1>2, BoxLengthIs
  <2>2. QED BY <1>3, <1>6, <2>1
<1>11. \A i \in 0..n : \A j \in i..n : at[i] <= at[j] BY <1>9, <1>10, LayoutGrows
<1>12. at \in [0..n -> Nat] /\ at[0] = 0 /\ Len(w) = at[n]
  BY <1>9 DEF Layout
<1>13. ASSUME NEW i \in 1..n PROVE at[i] = at[i - 1] + BoxLength(f[i])
  <2>1. at[i] = at[i - 1] + Len(seqs[i]) BY <1>9 DEF Layout
  <2>2. Len(seqs[i]) = BoxLength(f[i])
    <3>1. seqs[i] = byteOf(i) BY <1>6
    <3>2. Len(byteOf(i)) = BoxLength(f[i]) BY <1>3
    <3> HIDE DEF byteOf
    <3>3. QED BY <3>1, <3>2
  <2>3. QED BY <2>1, <2>2
<1>14. ASSUME NEW i \in 1..n, NEW p \in 1..BoxLength(f[i])
       PROVE  /\ at[i - 1] + p \in 1..Len(w)
              /\ w[at[i - 1] + p].box = i /\ w[at[i - 1] + p].place = p
  <2>1. PICK m \in Nat : m = BoxLength(f[i]) BY <1>2, BoxLengthIs
  <2>2. w[at[i - 1] + p] = seqs[i][p] /\ seqs[i][p] = [box |-> i, place |-> p]
    <3>1. seqs[i] = byteOf(i) BY <1>6
    <3>2. byteOf(i)[p] = [box |-> i, place |-> p] OBVIOUS
    <3>3. Len(byteOf(i)) = BoxLength(f[i]) BY <1>3
    <3> HIDE DEF byteOf
    <3>4. p \in 1..Len(seqs[i]) BY <3>1, <3>3
    <3>5. w[at[i - 1] + p] = seqs[i][p] BY <1>9, <3>4 DEF Layout
    <3>6. QED BY <3>1, <3>2, <3>5
  <2>3. at[i] = at[i - 1] + m BY <1>13, <2>1
  <2>4. at[i - 1] \in Nat /\ at[i] \in Nat /\ at[n] \in Nat /\ at[i] <= at[n]
    BY <1>11, <1>12
  <2>5. QED BY <1>12, <2>1, <2>2, <2>4, <2>3
<1>15. Placed(f, at) BY <1>1, <1>5, <1>7, <1>12, <1>13, <1>14 DEF Placed
<1>16. QED BY <1>5, <1>7, <1>8, <1>15

(* What is known behind p bytes of a box: of its header, of the rest, and  *)
(* that a moov is collected.                                               *)
Moov(k) == k.type = "moov" /\ k.n \in 1..FmBox
InBox(c, k, p) ==
  IF p < HeaderOf(k) THEN c.st = "hdr" /\ c.have = p
  ELSE /\ c.st # "hdr" /\ c.have = 0 /\ c.remain = BoxLength(k) - p
       /\ Moov(k) => c.st = "collect"

(* What the next byte leaves behind: another place of the box, or its end. *)
BoxGoesOn(d, k, p) ==
  /\ p + 1 < BoxLength(k) => InBox(d, k, p + 1)
  /\ p + 1 = BoxLength(k) => d.st = "hdr" /\ d.have = 0 /\ (Moov(k) => d.cfg)

LEMMA InBoxStep ==
  ASSUME NEW c \in FmGood, NEW b, NEW k \in FmBoxes, ~k.rest, NEW p \in Nat,
         p + 1 <= BoxLength(k), b.place = p + 1,
         InBox(c, k, p), NEW d, FmStep(d, c, b, k), ~d.error
  PROVE  BoxGoesOn(d, k, p)
<1>1. PICK h \in {2, 4} : h = HeaderOf(k) BY BoxLengthIs
<1>2. PICK n \in Nat : n = k.n BY DEF FmBoxes
<1>3. BoxLength(k) = h + n BY <1>1, <1>2, BoxLengthIs
<1>4. Length(k) = n BY <1>2 DEF Length
<1>5. d \in FmGood BY DEF FmStep
<1>6. CASE p < h
  <2>1. c.st = "hdr" /\ c.have = p BY <1>1, <1>6 DEF InBox
  <2>2. HeaderStep(d, c, b, k) BY <2>1 DEF FmStep
  <2>3. CASE p + 1 < h
    <3>1. d.st = "hdr" /\ d.have = p + 1 BY <1>1, <2>1, <2>2, <2>3 DEF HeaderStep
    <3>2. QED BY <1>1, <1>2, <1>3, <2>3, <3>1 DEF InBox, BoxGoesOn
  <2>4. CASE p + 1 = h
    <3>1. HeaderEnded(d, c, k) BY <1>1, <2>1, <2>2, <2>4 DEF HeaderStep
    <3>2. /\ d.have = 0 /\ d.remain = n /\ (d.st = "hdr" <=> n = 0)
          /\ (Moov(k) => d.st = "collect" /\ n # 0)
      BY <1>2, <1>4, <3>1 DEF HeaderEnded, Moov
    <3>3. ~(p + 1 < h) /\ BoxLength(k) - (p + 1) = n BY <1>2, <1>3, <2>4
    <3>4. QED BY <1>1, <1>2, <1>3, <2>4, <3>2, <3>3 DEF InBox, BoxGoesOn
  <2>5. QED BY <1>1, <1>6, <2>3, <2>4
<1>7. CASE ~(p < h)
  <2>1. /\ c.st # "hdr" /\ c.have = 0 /\ c.remain = h + n - p
        /\ (Moov(k) => c.st = "collect")
    BY <1>1, <1>3, <1>7 DEF InBox
  <2>2. BoxStep(d, c, k) BY <2>1 DEF FmStep
  <2>3. PICK r \in Nat : r = c.remain /\ r = (h + n) - p /\ r >= 1
    <3>1. p \in Nat /\ p + 1 <= h + n BY <1>3
    <3>2. QED BY <1>2, <2>1, <3>1
  <2>4. d.have = 0 /\ d.remain = r - 1 /\ d.st = IF r = 1 THEN "hdr" ELSE c.st
    BY <2>1, <2>2, <2>3 DEF BoxStep, Remaining, Endless
  <2>5. Moov(k) /\ r = 1 => d.cfg BY <2>1, <2>2, <2>3 DEF BoxStep, Moov
  <2>6. p + 1 < h + n <=> r # 1 BY <1>2, <2>3
  <2>7. ~(p + 1 < h) /\ (h + n) - (p + 1) = r - 1 BY <1>2, <1>7, <2>3
  <2>8. QED BY <1>1, <1>3, <2>1, <2>3, <2>4, <2>5, <2>6, <2>7 DEF InBox, BoxGoesOn
<1>8. QED BY <1>6, <1>7

(* A section that is received at once: where the moov, the m-th box, ends, *)
(* it is known what the media needs.                                       *)
Reached(c, q, at, m) ==
  /\ \A i \in 1..m : \A p \in Nat :
       p < BoxLength(file[i]) /\ q = at[i - 1] + p => InBox(c, file[i], p)
  /\ at[m] <= q => c.cfg

OfSection(at, m) ==
  /\ file \in Seq(FmBoxes) /\ Placed(file, at)
  /\ m \in 1..Len(file) /\ Moov(file[m]) /\ \A i \in 1..m : ~file[i].rest

(* A byte of one of its boxes.                                             *)
LEMMA ReachedStep ==
  ASSUME NEW at, NEW m, OfSection(at, m),
         NEW q \in Nat, q + 1 <= Len(FileBytes(file)),
         NEW c \in FmGood, Reached(c, q, at, m),
         NEW d, d = FmByte(c, FileBytes(file)[q + 1]), ~d.error,
         NEW i \in 1..m, NEW p \in Nat, p + 1 <= BoxLength(file[i]), q = at[i - 1] + p
  PROVE  BoxGoesOn(d, file[i], p)
<1>1. /\ file \in Seq(FmBoxes) /\ Placed(file, at) /\ m \in 1..Len(file)
      /\ \A h \in 1..m : ~file[h].rest
  BY DEF OfSection
<1>2. PICK k \in FmBoxes : k = file[i] /\ ~k.rest BY <1>1
<1>3. PICK n \in Nat : n = BoxLength(k) BY BoxLengthIs
<1>4. at[i - 1] \in Nat /\ p + 1 \in 1..n /\ at[i - 1] + (p + 1) = q + 1
  <2>1. i - 1 \in 0..Len(file) BY <1>1
  <2>2. PICK a \in Nat : a = at[i - 1] BY <1>1, <2>1 DEF Placed
  <2>3. p + 1 <= n /\ q = a + p BY <1>2, <1>3, <2>2
  <2>4. p + 1 \in 1..n /\ a + (p + 1) = q + 1 BY <2>3
  <2>5. QED BY <2>2, <2>4
<1>5. PICK b : b = FileBytes(file)[q + 1] OBVIOUS
<1>6. b.box = i /\ b.place = p + 1
  <2>1. i \in 1..Len(file) /\ p + 1 \in 1..BoxLength(file[i]) BY <1>2, <1>3, <1>4, <1>1
  <2>2. /\ FileBytes(file)[at[i - 1] + (p + 1)].box = i
        /\ FileBytes(file)[at[i - 1] + (p + 1)].place = p + 1
    <3>1. PICK t \in 1..BoxLength(file[i]) : t = p + 1 BY <2>1
    <3>2. FileBytes(file)[at[i - 1] + t].box = i /\ FileBytes(file)[at[i - 1] + t].place = t
      BY <1>1, <2>1 DEF Placed
    <3>3. QED BY <3>1, <3>2
  <2>3. QED BY <1>4, <1>5, <2>2
<1>7. b \in BytesOf(file)
  <2>1. PICK s \in Seq(BytesOf(file)) : s = FileBytes(file) BY <1>1, FileBytesAre
  <2>2. s[q + 1] \in BytesOf(file) BY <2>1
  <2>3. QED BY <1>5, <2>1, <2>2
<1>8. FmStep(d, c, b, k) BY <1>2, <1>5, <1>6, <1>7, <1>1, FmByteIs
<1>9. InBox(c, k, p) BY <1>2, <1>3, <1>4 DEF Reached
<1>10. p + 1 <= BoxLength(k) /\ ~k.rest BY <1>2
<1>11. b.place = p + 1 BY <1>6
<1>12. BoxGoesOn(d, k, p) BY <1>8, <1>9, <1>10, <1>11, InBoxStep
<1>13. QED BY <1>2, <1>12

LEMMA ReachedNext ==
  ASSUME NEW at, NEW m, OfSection(at, m),
         NEW q \in Nat, q + 1 <= Len(FileBytes(file)),
         NEW c \in FmGood, Reached(c, q, at, m),
         NEW d, d = FmByte(c, FileBytes(file)[q + 1]), ~d.error
  PROVE  Reached(d, q + 1, at, m)
<1>1. file \in Seq(FmBoxes) /\ Placed(file, at) /\ m \in 1..Len(file) BY DEF OfSection
<1>2. \A j \in 0..m : at[j] \in Nat
  <2>1. \A j \in 0..m : j \in 0..Len(file) BY <1>1
  <2>2. QED BY <1>1, <2>1 DEF Placed
<1>3. ASSUME NEW j \in 1..m, q + 1 = at[j]
      PROVE  d.st = "hdr" /\ d.have = 0 /\ (Moov(file[j]) => d.cfg)
  <2>1. PICK k \in FmBoxes : k = file[j] BY <1>1
  <2>2. PICK n \in Nat : n = BoxLength(k) /\ n >= 1
    <3>1. PICK h \in {2, 4} : h = HeaderOf(k) BY BoxLengthIs
    <3>2. PICK l \in Nat : l = k.n BY DEF FmBoxes
    <3>3. BoxLength(k) = h + l BY <3>1, <3>2, BoxLengthIs
    <3>4. QED BY <3>3
  <2>3. at[j] = at[j - 1] + n /\ at[j - 1] \in Nat
    <3>1. j \in 1..Len(file) /\ j - 1 \in 0..m BY <1>1
    <3>2. QED BY <1>2, <1>1, <2>1, <2>2, <3>1 DEF Placed
  <2>4. PICK p \in Nat : p = n - 1 /\ p + 1 = n BY <2>2
  <2>5. q = at[j - 1] + p
    <3>1. PICK a \in Nat : a = at[j - 1] BY <2>3
    <3>2. q + 1 = a + n BY <1>3, <2>3, <3>1
    <3>3. q = a + p BY <2>4, <3>2
    <3>4. QED BY <3>1, <3>3
  <2>6. p + 1 <= BoxLength(file[j]) BY <2>1, <2>2, <2>4
  <2>7. BoxGoesOn(d, file[j], p) BY <2>5, <2>6, ReachedStep
  <2>8. QED BY <2>1, <2>2, <2>4, <2>7 DEF BoxGoesOn
<1>4. ASSUME NEW i \in 1..m, NEW p \in Nat, p < BoxLength(file[i]), q + 1 = at[i - 1] + p
      PROVE  InBox(d, file[i], p)
  <2>1. PICK k \in FmBoxes : k = file[i] BY <1>1
  <2>2. at[i - 1] \in Nat
    <3>1. i - 1 \in 0..m BY <1>1
    <3>2. QED BY <1>2, <3>1
  <2>3. CASE p = 0
    <3>1. i # 1 BY <1>4, <1>1, <2>3 DEF Placed
    <3>2. PICK j \in 1..m : j = i - 1 BY <1>1, <3>1
    <3>3. q + 1 = at[j] BY <1>4, <2>2, <2>3, <3>2
    <3>4. d.st = "hdr" /\ d.have = 0 BY <1>3, <3>3
    <3>5. PICK h \in {2, 4} : h = HeaderOf(k) BY BoxLengthIs
    <3>6. QED BY <2>1, <2>3, <3>4, <3>5 DEF InBox
  <2>4. CASE p # 0
    <3>1. PICK o \in Nat : o = p - 1 /\ o + 1 = p BY <2>4
    <3>2. q = at[i - 1] + o
      <4>1. PICK a \in Nat : a = at[i - 1] BY <2>2
      <4>2. q + 1 = a + p BY <1>4, <4>1
      <4>3. q = a + o BY <3>1, <4>2
      <4>4. QED BY <4>1, <4>3
    <3>3. PICK n \in Nat : n = BoxLength(file[i]) BY <2>1, BoxLengthIs
    <3>4. o + 1 <= BoxLength(file[i]) BY <1>4, <3>1, <3>3
    <3>5. BoxGoesOn(d, file[i], o) BY <3>4, <3>2, ReachedStep
    <3>6. QED BY <1>4, <3>1, <3>5 DEF BoxGoesOn
  <2>5. QED BY <2>3, <2>4
<1>5. at[m] <= q + 1 => d.cfg
  <2>1. at[m] \in Nat BY <1>2, <1>1
  <2>2. CASE at[m] <= q
    <3>1. c.cfg BY <2>2 DEF Reached
    <3>2. PICK s \in Seq(BytesOf(file)) : s = FileBytes(file) BY <1>1, FileBytesAre
    <3>3. PICK b \in BytesOf(file) : b = s[q + 1] BY <3>2
    <3>4. FmStep(d, c, b, file[b.box]) BY <1>1, <3>2, <3>3, FmByteIs
    <3>5. d.cfg \/ d.error BY <3>1, <3>4 DEF FmStep
    <3>6. QED BY <3>5
  <2>3. CASE at[m] = q + 1
    <3>1. m \in 1..m BY <1>1
    <3>2. Moov(file[m]) BY DEF OfSection
    <3>3. QED BY <1>3, <2>3, <3>1, <3>2
  <2>4. QED BY <2>1, <2>2, <2>3
<1>6. QED BY <1>4, <1>5 DEF Reached

(* Whatever is fed, each byte leaves the demultiplexer in its domain, and  *)
(* what is configured stays so while no other moov comes.                  *)
LEMMA FedTypes ==
  ASSUME file \in Seq(FmBoxes), NEW c \in FmGood, NEW s \in Seq(BytesOf(file))
  PROVE  Fed(c, s) \in FmGood
<1>1. PICK n \in Nat : n = Len(s) OBVIOUS
<1> DEFINE good == [k \in 0..n |-> FmGood]
<1>2. c \in good[0] OBVIOUS
<1>3. ASSUME NEW k \in 1..n, NEW d \in good[k - 1] PROVE FmByte(d, s[k]) \in good[k]
  <2>1. s[k] \in BytesOf(file) BY <1>1
  <2>2. d \in FmGood BY <1>3
  <2>3. FmStep(FmByte(d, s[k]), d, s[k], file[s[k].box]) BY <2>1, <2>2, FmByteIs
  <2>4. FmByte(d, s[k]) \in FmGood BY <2>3 DEF FmStep
  <2>5. QED BY <2>4
<1>4. good[n] = FmGood OBVIOUS
<1> HIDE DEF good
<1>5. Fed(c, s) \in good[n] BY <1>1, <1>2, <1>3, FedHolds
<1>6. QED BY <1>4, <1>5

LEMMA FedKeeps ==
  ASSUME file \in Seq(FmBoxes), \A i \in 1..Len(file) : file[i].type # "moov",
         NEW c \in FmGood, c.cfg, NEW s \in Seq(BytesOf(file))
  PROVE  Fed(c, s).cfg
<1>1. PICK n \in Nat : n = Len(s) OBVIOUS
<1> DEFINE set == {d \in FmGood : d.cfg}
           good == [k \in 0..n |-> set]
<1>2. c \in good[0] OBVIOUS
<1>3. ASSUME NEW k \in 1..n, NEW d \in good[k - 1] PROVE FmByte(d, s[k]) \in good[k]
  <2>1. s[k] \in BytesOf(file) BY <1>1
  <2>2. d \in FmGood /\ d.cfg BY <1>3
  <2>3. FmStep(FmByte(d, s[k]), d, s[k], file[s[k].box]) BY <2>1, <2>2, FmByteIs
  <2>4. file[s[k].box].type # "moov" BY <2>1 DEF BytesOf
  <2>5. FmByte(d, s[k]) \in FmGood /\ FmByte(d, s[k]).cfg BY <2>2, <2>3, <2>4 DEF FmStep
  <2>6. QED BY <2>5
<1>4. good[n] = set OBVIOUS
<1> HIDE DEF good
<1>5. Fed(c, s) \in good[n] BY <1>1, <1>2, <1>3, FedHolds
<1>6. QED BY <1>4, <1>5

LEMMA SectionConfigures ==
  ASSUME file \in Seq(FmBoxes), HasMoov(file),
         NEW c \in FmGood, c.st = "hdr", c.have = 0,
         NEW d, d = Fed(c, FileBytes(file))
  PROVE  d.cfg \/ d.error
<1>1. PICK m \in 1..Len(file) : Moov(file[m]) /\ \A i \in 1..m : ~file[i].rest
  BY DEF HasMoov, Moov
<1>2. PICK at : Placed(file, at) BY FileBytesAre
<1>3. PICK s \in Seq(BytesOf(file)) : s = FileBytes(file) BY FileBytesAre
<1>4. PICK n \in Nat : n = Len(s) OBVIOUS
<1> DEFINE set(q) == {e \in FmGood : e.error \/ Reached(e, q, at, m)}
           good == [q \in 0..n |-> set(q)]
<1>5. c \in good[0]
  <2>1. ASSUME NEW i \in 1..m, NEW p \in Nat, p < BoxLength(file[i]), 0 = at[i - 1] + p
        PROVE  InBox(c, file[i], p)
    <3>1. PICK k \in FmBoxes : k = file[i] OBVIOUS
    <3>2. i - 1 \in 0..Len(file) OBVIOUS
    <3>3. at[i - 1] \in Nat BY <1>2, <3>2 DEF Placed
    <3>4. p = 0 BY <2>1, <3>3
    <3>5. PICK h \in {2, 4} : h = HeaderOf(k) BY <3>1, BoxLengthIs
    <3>6. QED BY <3>1, <3>4, <3>5 DEF InBox
  <2>2. ~(at[m] <= 0)
    <3>1. PICK k \in FmBoxes : k = file[m] OBVIOUS
    <3>2. PICK h \in {2, 4} : h = HeaderOf(k) BY <3>1, BoxLengthIs
    <3>3. PICK l \in Nat : l = k.n BY <3>1 DEF FmBoxes
    <3>4. BoxLength(k) = h + l BY <3>2, <3>3, BoxLengthIs
    <3>5. m - 1 \in 0..Len(file) OBVIOUS
    <3>6. at[m - 1] \in Nat /\ at[m] = at[m - 1] + BoxLength(k)
      BY <1>2, <3>1, <3>5 DEF Placed
    <3>7. QED BY <3>4, <3>6
  <2>3. Reached(c, 0, at, m) BY <2>1, <2>2 DEF Reached
  <2>4. QED BY <2>3
<1>6. ASSUME NEW k \in 1..n, NEW e \in good[k - 1] PROVE FmByte(e, s[k]) \in good[k]
  <2>1. PICK q \in Nat : q = k - 1 /\ q + 1 = k /\ q + 1 <= n OBVIOUS
  <2>2. e \in FmGood /\ (e.error \/ Reached(e, q, at, m)) BY <1>6, <2>1
  <2>3. PICK b \in BytesOf(file) : b = s[k] BY <1>4
  <2>4. PICK g : g = FmByte(e, b) OBVIOUS
  <2>5. FmStep(g, e, b, file[b.box]) BY <2>2, <2>4, FmByteIs
  <2>6. g \in FmGood /\ (e.error => g.error) BY <2>5 DEF FmStep
  <2>7. ASSUME ~g.error PROVE Reached(g, k, at, m)
    <3>1. Reached(e, q, at, m) BY <2>2, <2>6, <2>7
    <3>2. g = FmByte(e, FileBytes(file)[q + 1]) /\ q + 1 <= Len(FileBytes(file))
      BY <1>3, <1>4, <2>1, <2>3, <2>4
    <3>3. OfSection(at, m) BY <1>1, <1>2 DEF OfSection
    <3>4. e \in FmGood BY <2>2
    <3>5. Reached(g, q + 1, at, m) BY <2>7, <3>1, <3>2, <3>3, <3>4, ReachedNext
    <3>6. QED BY <2>1, <3>5
  <2>8. g \in set(k) BY <2>6, <2>7
  <2>9. QED BY <2>3, <2>4, <2>8
<1>7. good[n] = set(n) OBVIOUS
<1> HIDE DEF good
<1>8. Fed(c, s) \in good[n] BY <1>4, <1>5, <1>6, FedHolds
<1>9. d \in set(n) BY <1>3, <1>7, <1>8
<1>10. at[m] <= n
  <2>1. PICK k \in FmBoxes : k = file[m] OBVIOUS
  <2>2. PICK h \in {2, 4} : h = HeaderOf(k) BY <2>1, BoxLengthIs
  <2>3. PICK l \in Nat : l = k.n BY <2>1 DEF FmBoxes
  <2>4. PICK p \in Nat : p = BoxLength(file[m]) /\ p >= 1 BY <2>1, <2>2, <2>3, BoxLengthIs
  <2>5. at[m - 1] + p \in 1..Len(FileBytes(file)) BY <1>2, <2>4 DEF Placed
  <2>6. at[m] = at[m - 1] + p BY <1>2, <2>4 DEF Placed
  <2>7. QED BY <1>3, <1>4, <2>5, <2>6
<1>11. QED BY <1>9, <1>10 DEF Reached

(* The demultiplexer between two receptions.  A section of which nothing   *)
(* has come is whole; one that has come at once has been parsed; and media *)
(* is only asked for behind a section.                                     *)
FmTypes ==
  /\ fm \in FmGood /\ file \in Seq(FmBoxes) /\ coming \in Seq(BytesOf(file))
  /\ what \in {"none", "init", "media"} /\ files \in 0..FmBound
  /\ cutInit \in BOOLEAN /\ inited \in BOOLEAN /\ failed \in BOOLEAN
FmConfigures ==
  /\ what = "init" => file \in FmInits /\ ~inited
  /\ what = "media" => file \in FmSegments /\ inited
  /\ what = "init" /\ ~cutInit =>
       \/ coming = FileBytes(file) /\ ~failed
       \/ coming = <<>> /\ (failed \/ fm.cfg)
  /\ inited /\ ~cutInit => fm.cfg
FmInv == FmTypes /\ FmConfigures

LEMMA FmResetIs ==
  ASSUME NEW c \in FmGood
  PROVE  /\ FmReset(c) \in FmGood /\ FmReset(c).st = "hdr" /\ FmReset(c).have = 0
         /\ Kept(FmReset(c), c)
<1>1. c \in FmStates /\ c.remain >= Endless BY DEF FmGood
<1>2. PICK w \in Seq(BoxBytes) : w = <<>> BY EmptySeq
<1>3. PICK s \in Seq(Nat) : s = <<>> /\ Len(s) = 0 BY EmptySeq
<1>4. PICK i \in Nat \ {0} : i = 1 OBVIOUS
<1>5. PICK z \in Nat : z = 0 OBVIOUS
<1> DEFINE d == [c EXCEPT !.st = "hdr", !.have = z, !.pos = z, !.sizes = s, !.idx = i,
                          !.sample = w, !.set = FALSE]
<1>6. d = FmReset(c) BY <1>2, <1>3, <1>4, <1>5, Zenon DEF FmReset
<1>7. /\ d \in FmStates /\ d.st = "hdr" /\ d.have = z /\ d.idx = i /\ d.sizes = s
      /\ d.remain = c.remain /\ Kept(d, c)
  BY <1>1 DEF FmStates, Kept
<1> HIDE DEF d
<1>8. d \in FmGood BY <1>1, <1>3, <1>4, <1>5, <1>7 DEF FmGood
<1>9. QED BY <1>5, <1>6, <1>7, <1>8

(* What is kept of the state when a piece has been fed.                    *)
LEMMA SettleIs ==
  ASSUME NEW c \in FmGood, Settle(c)
  PROVE  fm' \in FmGood /\ fm'.cfg = c.cfg /\ failed' = c.error /\ failed' \in BOOLEAN
<1>1. c \in FmStates /\ c.error \in BOOLEAN BY DEF FmGood, FmStates
<1>2. PICK w \in Seq(Seq(BoxBytes)) : w = <<>> BY EmptySeq
<1>3. PICK d : d = [c EXCEPT !.out = w, !.error = FALSE] OBVIOUS
<1>4. /\ d \in FmStates /\ d.st = c.st /\ d.have = c.have /\ d.idx = c.idx
      /\ d.sizes = c.sizes /\ d.remain = c.remain /\ d.cfg = c.cfg
  BY <1>1, <1>3 DEF FmStates
<1>5. d \in FmGood BY <1>4 DEF FmGood
<1>6. fm' = d /\ failed' = c.error BY <1>2, <1>3, Zenon DEF Settle
<1>7. QED BY <1>1, <1>4, <1>5, <1>6

LEMMA FmInitial == FmInit => FmInv
<1> SUFFICES ASSUME FmInit PROVE FmInv OBVIOUS
<1>1. PICK w \in Seq(Seq(BoxBytes)) : w = <<>> BY EmptySeq
<1>2. PICK s \in Seq(Nat) : s = <<>> /\ Len(s) = 0 BY EmptySeq
<1>3. PICK t \in Seq(BoxBytes) : t = <<>> BY EmptySeq
<1>4. PICK k \in BoxTypes : k = "none" BY DEF BoxTypes
<1>5. PICK z \in Nat : z = 0 OBVIOUS
<1>6. PICK i \in Nat \ {0} : i = 1 OBVIOUS
<1> DEFINE d == [st |-> "hdr", have |-> z, type |-> k, remain |-> z, pos |-> z,
                 start |-> z, sizes |-> s, idx |-> i, sample |-> t,
                 data |-> z, set |-> FALSE, cfg |-> FALSE, out |-> w, error |-> FALSE]
<1>7. fm = d BY <1>1, <1>2, <1>3, <1>4, <1>5, <1>6, Zenon DEF FmInit
<1>8. /\ d \in FmStates /\ d.st = "hdr" /\ d.have = z /\ d.remain = z /\ d.idx = i
      /\ d.sizes = s
  BY DEF FmStates
<1> HIDE DEF d
<1>9. fm \in FmGood BY <1>2, <1>5, <1>6, <1>7, <1>8 DEF FmGood, Endless
<1>10. FmBound \in Nat BY FmAssumption DEF FmAssumption
<1>11. file = <<>> /\ coming = <<>> BY DEF FmInit
<1>12. file \in Seq(FmBoxes) /\ coming \in Seq(BytesOf(file)) BY <1>11, EmptySeq
<1>13. /\ what = "none" /\ cutInit = FALSE /\ inited = FALSE /\ failed = FALSE
       /\ files = 0
  BY DEF FmInit
<1>14. FmTypes
  <2>1. files \in 0..FmBound BY <1>10, <1>13
  <2>2. QED BY <1>9, <1>12, <1>13, <2>1 DEF FmTypes
<1>15. FmConfigures BY <1>13 DEF FmConfigures
<1>16. QED BY <1>14, <1>15 DEF FmInv

LEMMA FmFetched ==
  ASSUME FmInv, FmFetch PROVE FmInv'
<1>1. FmTypes /\ FmConfigures BY DEF FmInv
<1>2. /\ what = "none" /\ files < FmBound /\ files' = files + 1 /\ failed' = FALSE
      /\ coming' = FileBytes(file') /\ fm' = fm
  BY DEF FmFetch
<1>3. \/ what' = "init" /\ file' \in FmInits /\ cutInit' = FALSE /\ inited' = FALSE
      \/ /\ inited /\ what' = "media" /\ file' \in FmSegments
         /\ cutInit' = cutInit /\ inited' = inited
  BY DEF FmFetch
<1>4. FmInits \subseteq Seq(FmBoxes) /\ FmSegments \subseteq Seq(FmBoxes) /\ FmBound \in Nat
  BY FmAssumption DEF FmAssumption
<1>5. file' \in Seq(FmBoxes) BY <1>3, <1>4
<1>6. coming' \in Seq(BytesOf(file'))
  <2>1. PICK f \in Seq(FmBoxes) : f = file' BY <1>5
  <2>2. FileBytes(f) \in Seq(BytesOf(f)) BY FileBytesAre
  <2>3. QED BY <1>2, <2>1, <2>2
<1>7. files' \in 0..FmBound BY <1>1, <1>2, <1>4 DEF FmTypes
<1>8. /\ what' \in {"none", "init", "media"} /\ cutInit' \in BOOLEAN
      /\ inited' \in BOOLEAN /\ failed' \in BOOLEAN /\ fm' \in FmGood
  BY <1>1, <1>2, <1>3 DEF FmTypes
<1>9. FmTypes' BY <1>5, <1>6, <1>7, <1>8 DEF FmTypes
<1>10. FmConfigures'
  <2>1. inited' /\ ~cutInit' => fm'.cfg BY <1>1, <1>2, <1>3 DEF FmConfigures
  <2>2. QED BY <1>2, <1>3, <2>1 DEF FmConfigures
<1>11. QED BY <1>9, <1>10 DEF FmInv

LEMMA Piece ==
  ASSUME file \in Seq(FmBoxes), coming \in Seq(BytesOf(file)), NEW n \in 1..FmReceive, Comes(n)
  PROVE  /\ Taken(n) \in Seq(BytesOf(file)) /\ coming' \in Seq(BytesOf(file))
         /\ n <= Len(coming)
         /\ n = Len(coming) => Taken(n) = coming /\ coming' = <<>>
<1>1. FmReceive \in Nat BY FmAssumption DEF FmAssumption
<1>2. n \in Nat /\ n <= Len(coming) /\ coming' = SubSeq(coming, n + 1, Len(coming))
  BY <1>1 DEF Comes
<1>3. PICK s \in Seq(BytesOf(file)) : s = coming OBVIOUS
<1>4. PICK l \in Nat : l = Len(s) OBVIOUS
<1>5. SubSeq(s, 1, n) \in Seq(BytesOf(file)) BY <1>2, <1>3, <1>4
<1>6. SubSeq(s, n + 1, l) \in Seq(BytesOf(file)) BY <1>2, <1>3, <1>4
<1>7. SubSeq(s, 1, l) = s BY <1>4
<1>8. SubSeq(s, l + 1, l) = <<>> BY <1>4
<1>9. QED BY <1>2, <1>3, <1>4, <1>5, <1>6, <1>7, <1>8 DEF Taken

LEMMA FmInitFed ==
  ASSUME FmInv, FmFeedInit PROVE FmInv'
<1>1. FmTypes /\ FmConfigures BY DEF FmInv
<1>2. /\ what = "init" /\ ~failed /\ file' = file /\ what' = what /\ inited' = inited
      /\ files' = files
  BY DEF FmFeedInit
<1>3. PICK n \in 1..FmReceive :
        /\ Comes(n) /\ cutInit' = (cutInit \/ n < Len(coming))
        /\ LET c == Fed(FmReset(fm), Taken(n)) IN Settle(FmReset(c))
  BY DEF FmFeedInit
<1>4. PICK d : d = Fed(FmReset(fm), Taken(n)) /\ Settle(FmReset(d)) BY <1>3
<1>5. file \in Seq(FmBoxes) /\ coming \in Seq(BytesOf(file)) /\ fm \in FmGood
  BY <1>1 DEF FmTypes
<1>6. /\ Taken(n) \in Seq(BytesOf(file)) /\ coming' \in Seq(BytesOf(file))
      /\ n <= Len(coming)
      /\ n = Len(coming) => Taken(n) = coming /\ coming' = <<>>
  BY <1>3, <1>5, Piece
<1>7. PICK c \in FmGood : c = FmReset(fm) /\ c.st = "hdr" /\ c.have = 0
  BY <1>5, FmResetIs
<1>8. d \in FmGood BY <1>4, <1>5, <1>6, <1>7, FedTypes
<1>9. FmReset(d) \in FmGood /\ Kept(FmReset(d), d) BY <1>8, FmResetIs
<1>10. fm' \in FmGood /\ fm'.cfg = d.cfg /\ failed' = d.error /\ failed' \in BOOLEAN
  BY <1>4, <1>9, SettleIs DEF Kept
<1>11. FmTypes'
  <2>1. cutInit' \in BOOLEAN BY <1>3
  <2>2. BytesOf(file)' = BytesOf(file) BY <1>2 DEF BytesOf
  <2>3. QED BY <1>1, <1>2, <1>5, <1>6, <1>10, <2>1, <2>2 DEF FmTypes
<1>12. file \in FmInits BY <1>1, <1>2 DEF FmConfigures
<1>13. ASSUME ~cutInit' PROVE coming' = <<>> /\ (failed' \/ fm'.cfg)
  <2>1. ~cutInit /\ ~(n < Len(coming)) BY <1>3, <1>13
  <2>2. PICK s \in Seq(BytesOf(file)) : s = coming BY <1>5
  <2>3. n = Len(coming)
    <3>1. Len(s) \in Nat OBVIOUS
    <3>2. QED BY <1>6, <2>1, <2>2, <3>1
  <2>4. Taken(n) = coming /\ coming' = <<>> BY <1>6, <2>3
  <2>5. coming # <<>>
    <3>1. Len(coming) # 0 BY <2>3
    <3>2. Len(<<>>) = 0 BY EmptySeq
    <3>3. QED BY <3>1, <3>2
  <2>6. coming = FileBytes(file) BY <1>1, <1>2, <2>1, <2>5 DEF FmConfigures
  <2>7. HasMoov(file) BY <1>12, FmAssumption DEF FmAssumption
  <2>8. d = Fed(c, FileBytes(file)) BY <1>4, <1>7, <2>4, <2>6
  <2>9. d.cfg \/ d.error BY <1>5, <1>7, <2>7, <2>8, SectionConfigures
  <2>10. QED BY <1>10, <2>4, <2>9
<1>14. what' = "init" BY <1>2
<1>15. ~inited' BY <1>1, <1>2 DEF FmConfigures
<1>16. FmConfigures' BY <1>2, <1>12, <1>13, <1>14, <1>15 DEF FmConfigures
<1>17. QED BY <1>11, <1>16 DEF FmInv

LEMMA FmMediaFed ==
  ASSUME FmInv, FmFeed PROVE FmInv'
<1>1. FmTypes /\ FmConfigures BY DEF FmInv
<1>2. /\ what = "media" /\ ~failed /\ file' = file /\ what' = what /\ inited' = inited
      /\ files' = files /\ cutInit' = cutInit
  BY DEF FmFeed
<1>3. PICK n \in 1..FmReceive : Comes(n) /\ Settle(Fed(fm, Taken(n))) BY DEF FmFeed
<1>4. file \in Seq(FmBoxes) /\ coming \in Seq(BytesOf(file)) /\ fm \in FmGood
  BY <1>1 DEF FmTypes
<1>5. Taken(n) \in Seq(BytesOf(file)) /\ coming' \in Seq(BytesOf(file))
  BY <1>3, <1>4, Piece
<1>6. PICK d \in FmGood : d = Fed(fm, Taken(n)) BY <1>4, <1>5, FedTypes
<1>7. fm' \in FmGood /\ fm'.cfg = d.cfg /\ failed' \in BOOLEAN
  BY <1>3, <1>6, SettleIs
<1>8. FmTypes'
  <2>1. BytesOf(file)' = BytesOf(file) BY <1>2 DEF BytesOf
  <2>2. QED BY <1>1, <1>2, <1>4, <1>5, <1>7, <2>1 DEF FmTypes
<1>9. file \in FmSegments /\ inited BY <1>1, <1>2 DEF FmConfigures
<1>10. \A i \in 1..Len(file) : file[i].type # "moov"
  BY <1>9, FmAssumption DEF FmAssumption
<1>11. fm.cfg => d.cfg BY <1>4, <1>5, <1>6, <1>10, FedKeeps
<1>12. inited /\ ~cutInit => fm'.cfg BY <1>1, <1>7, <1>11 DEF FmConfigures
<1>13. FmConfigures' BY <1>2, <1>9, <1>12 DEF FmConfigures
<1>14. QED BY <1>8, <1>13 DEF FmInv

LEMMA FmInitEnded ==
  ASSUME FmInv, FmInitEnd PROVE FmInv'
<1>1. FmTypes /\ FmConfigures BY DEF FmInv
<1>2. /\ what = "init" /\ what' = "none" /\ inited' = (coming = <<>> /\ ~failed)
      /\ fm' = fm /\ file' = file /\ coming' = coming /\ cutInit' = cutInit
      /\ failed' = failed /\ files' = files
  BY DEF FmInitEnd
<1>3. FmTypes'
  <2>1. BytesOf(file)' = BytesOf(file) BY <1>2 DEF BytesOf
  <2>2. inited' \in BOOLEAN BY <1>2
  <2>3. QED BY <1>1, <1>2, <2>1, <2>2 DEF FmTypes
<1>4. ASSUME inited', ~cutInit' PROVE fm'.cfg
  <2>1. coming = <<>> /\ ~failed /\ ~cutInit BY <1>2, <1>4
  <2>2. HasMoov(file) BY <1>1, <1>2, FmAssumption DEF FmAssumption, FmConfigures
  <2>3. FileBytes(file) # <<>>
    <3>1. PICK f \in Seq(FmBoxes) : f = file BY <1>1 DEF FmTypes
    <3>2. PICK m \in 1..Len(f) : f[m].n \in 1..FmBox BY <2>2, <3>1 DEF HasMoov
    <3>3. PICK at : Placed(f, at) BY FileBytesAre
    <3>4. PICK h \in {2, 4} : h = HeaderOf(f[m]) BY BoxLengthIs
    <3>5. FmBox \in Nat BY FmAssumption DEF FmAssumption
    <3>6. PICK l \in Nat : l = f[m].n BY <3>2, <3>5
    <3>7. BoxLength(f[m]) = h + l BY <3>4, <3>6, BoxLengthIs
    <3>8. 1 \in 1..BoxLength(f[m]) BY <3>7
    <3>9. at[m - 1] + 1 \in 1..Len(FileBytes(f)) BY <3>3, <3>8 DEF Placed
    <3>10. Len(<<>>) = 0 BY EmptySeq
    <3>11. QED BY <3>1, <3>9, <3>10
  <2>4. QED BY <1>1, <1>2, <2>1, <2>3 DEF FmConfigures
<1>5. FmConfigures' BY <1>2, <1>4 DEF FmConfigures
<1>6. QED BY <1>3, <1>5 DEF FmInv

LEMMA FmSegmentEnded ==
  ASSUME FmInv, FmSegmentEnd PROVE FmInv'
<1>1. FmTypes /\ FmConfigures BY DEF FmInv
<1>2. /\ what = "media" /\ what' = "none" /\ fm' = FmReset(fm) /\ inited' = inited
      /\ file' = file /\ coming' = coming /\ cutInit' = cutInit
      /\ failed' = failed /\ files' = files
  BY DEF FmSegmentEnd
<1>3. fm \in FmGood BY <1>1 DEF FmTypes
<1>4. fm' \in FmGood /\ fm'.cfg = fm.cfg BY <1>2, <1>3, FmResetIs DEF Kept
<1>5. FmTypes'
  <2>1. BytesOf(file)' = BytesOf(file) BY <1>2 DEF BytesOf
  <2>2. QED BY <1>1, <1>2, <1>4, <2>1 DEF FmTypes
<1>6. FmConfigures' BY <1>1, <1>2, <1>4 DEF FmConfigures
<1>7. QED BY <1>5, <1>6 DEF FmInv

LEMMA FmNexts == FmInv /\ [FmNext]_fmVars => FmInv'
<1> SUFFICES ASSUME FmInv, [FmNext]_fmVars PROVE FmInv' OBVIOUS
<1>1. CASE FmFetch BY <1>1, FmFetched
<1>2. CASE FmFeedInit BY <1>2, FmInitFed
<1>3. CASE FmFeed BY <1>3, FmMediaFed
<1>4. CASE FmInitEnd BY <1>4, FmInitEnded
<1>5. CASE FmSegmentEnd BY <1>5, FmSegmentEnded
<1>6. CASE UNCHANGED fmVars
  <2>1. /\ fm' = fm /\ file' = file /\ coming' = coming /\ what' = what
        /\ cutInit' = cutInit /\ inited' = inited /\ failed' = failed /\ files' = files
    BY <1>6 DEF fmVars
  <2>2. BytesOf(file)' = BytesOf(file) /\ FileBytes(file)' = FileBytes(file)
    BY <2>1 DEF BytesOf, FileBytes, BoxLength, HeaderOf
  <2>3. QED BY <2>1, <2>2 DEF FmInv, FmTypes, FmConfigures
<1>7. QED BY <1>1, <1>2, <1>3, <1>4, <1>5, <1>6 DEF FmNext

(* Every reachable state of the demultiplexer (fmp4_t in hls_fmp4.c) is in *)
(* its domain: a header has at most its length, a box that has begun has   *)
(* more to come, and the next sample is one of those announced, or none.   *)
THEOREM FmTypesHold == FmSpec => []FmTypeOK
<1>1. FmInv => FmTypeOK
  <2> SUFFICES ASSUME FmInv PROVE FmTypeOK OBVIOUS
  <2>1. FmTypes BY DEF FmInv
  <2>2. PICK c \in FmStates : /\ c = fm /\ c.remain >= Endless /\ c.have <= 3
                              /\ c.idx <= Len(c.sizes) + 1
    BY <2>1 DEF FmTypes, FmGood
  <2>3. c.st \in {"hdr", "collect", "skip", "mdat"} /\ c.cfg \in BOOLEAN /\ c.set \in BOOLEAN
    BY DEF FmStates
  <2>4. c.have \in Nat /\ c.pos \in Nat /\ c.idx \in Nat \ {0} BY DEF FmStates
  <2>5. c.sizes \in Seq(Nat) BY DEF FmStates
  <2>6. PICK n \in Nat : n = Len(c.sizes) BY <2>5
  <2>7. c.have \in 0..3 /\ c.idx \in 1..(Len(c.sizes) + 1) BY <2>2, <2>4, <2>6
  <2>8. QED BY <2>1, <2>2, <2>3, <2>4, <2>7 DEF FmTypes, FmTypeOK
<1>2. QED BY <1>1, FmInitial, FmNexts, PTL DEF FmSpec

(* A section that is received at once configures the demultiplexer for the *)
(* media behind it (fmp4_feed_init and parse_moov in hls_fmp4.c), and no   *)
(* segment takes that back, wherever the segments are cut or break off.    *)
THEOREM FmConfiguredAtOnceHolds == FmSpec => []FmConfiguredAtOnce
<1>1. FmInv => FmConfiguredAtOnce BY DEF FmInv, FmConfigures, FmConfiguredAtOnce
<1>2. QED BY <1>1, FmInitial, FmNexts, PTL DEF FmSpec

-----------------------------------------------------------------------------
(* The frames of a segment.                                                *)

(* Sums of numbers, from a on: those over the lengths of the boxes and     *)
(* over the sizes of the samples.                                          *)
SumFrom(e, a, n, s) == e = [i \in 0..n |-> IF i = 0 THEN a ELSE e[i - 1] + s[i]]
Sums(e, n, s) ==
  e \in [0..n -> Nat] /\ \A i \in 1..n : s[i] \in Nat /\ e[i] = e[i - 1] + s[i]

LEMMA SumFromExists ==
  ASSUME NEW n \in Nat, NEW s, NEW a PROVE \E e : SumFrom(e, a, n, s)
<1> DEFINE T == {m \in Nat : \E u : SumFrom(u, a, m, s)}
<1>1. 0 \in T
  <2>1. SumFrom([k \in 0..0 |-> a], a, 0, s) BY DEF SumFrom
  <2>2. QED BY <2>1
<1>2. ASSUME NEW m \in Nat, m \in T PROVE m + 1 \in T
  <2>1. PICK u : SumFrom(u, a, m, s) BY <1>2
  <2> DEFINE next == u[m] + s[m + 1]
             g == [k \in 0..(m + 1) |-> IF k = m + 1 THEN next ELSE u[k]]
             h == [k \in 0..(m + 1) |-> IF k = 0 THEN a ELSE g[k - 1] + s[k]]
  <2>2. ASSUME NEW k \in 0..(m + 1) PROVE g[k] = h[k]
    <3>1. CASE k = m + 1
      <4>1. k # 0 /\ k - 1 = m /\ m \in 0..(m + 1) /\ m # m + 1 BY <3>1
      <4>2. g[m] = u[m] /\ g[k] = u[m] + s[m + 1] BY <3>1, <4>1
      <4>3. h[k] = g[k - 1] + s[k] BY <4>1
      <4> HIDE DEF g, h
      <4>4. QED BY <3>1, <4>1, <4>2, <4>3
    <3>2. CASE k # m + 1
      <4>1. k \in 0..m BY <3>2
      <4>2. u[k] = IF k = 0 THEN a ELSE u[k - 1] + s[k] BY <2>1, <4>1 DEF SumFrom
      <4>3. k # 0 => k - 1 \in 0..(m + 1) /\ k - 1 # m + 1 BY <4>1
      <4>4. k # 0 => g[k - 1] = u[k - 1] BY <4>3
      <4>5. g[k] = u[k] BY <3>2
      <4>6. h[k] = IF k = 0 THEN a ELSE g[k - 1] + s[k] OBVIOUS
      <4> HIDE DEF g, h
      <4>7. QED BY <4>2, <4>4, <4>5, <4>6
    <3>3. QED BY <3>1, <3>2
  <2>3. g = h
    <3>1. g = [k \in 0..(m + 1) |-> g[k]] /\ h = [k \in 0..(m + 1) |-> h[k]] OBVIOUS
    <3> HIDE DEF g, h
    <3>2. QED BY <2>2, <3>1
  <2>4. SumFrom(g, a, m + 1, s) BY <2>3 DEF SumFrom
  <2> HIDE DEF g
  <2>5. QED BY <2>4
<1> HIDE DEF T
<1>3. n \in T BY <1>1, <1>2, AllOf
<1>4. QED BY <1>3 DEF T

LEMMA SumSays ==
  ASSUME NEW n \in Nat, NEW s, \A i \in 1..n : s[i] \in Nat, NEW a \in Nat,
         NEW e, SumFrom(e, a, n, s)
  PROVE  Sums(e, n, s) /\ e[0] = a
<1>1. \A i \in 0..n : e[i] = IF i = 0 THEN a ELSE e[i - 1] + s[i] BY DEF SumFrom
<1>2. e[0] = a BY <1>1
<1>3. ASSUME NEW i \in 1..n PROVE e[i] = e[i - 1] + s[i]
  <2>1. i \in 0..n /\ i # 0 OBVIOUS
  <2>2. QED BY <1>1, <2>1
<1> DEFINE T == {m \in Nat : m <= n => e[m] \in Nat}
<1>4. 0 \in T BY <1>2
<1>5. ASSUME NEW m \in Nat, m \in T PROVE m + 1 \in T
  <2> SUFFICES ASSUME m + 1 <= n PROVE e[m + 1] \in Nat OBVIOUS
  <2>1. PICK i \in 1..n : i = m + 1 /\ i - 1 = m OBVIOUS
  <2>2. e[i] = e[i - 1] + s[i] /\ s[i] \in Nat BY <1>3
  <2>3. e[m] \in Nat BY <1>5
  <2>4. QED BY <2>1, <2>2, <2>3
<1> HIDE DEF T
<1>6. Nat \subseteq T BY <1>4, <1>5, AllOf
<1>7. \A i \in 0..n : e[i] \in Nat BY <1>6 DEF T
<1>8. e \in [0..n -> Nat]
  <2>1. e = [i \in 0..n |-> e[i]] BY DEF SumFrom
  <2>2. QED BY <1>7, <2>1
<1>9. QED BY <1>2, <1>3, <1>8 DEF Sums

LEMMA SumGrows ==
  ASSUME NEW n \in Nat, NEW s, NEW e, Sums(e, n, s)
  PROVE  \A i \in 0..n : \A j \in i..n : e[i] <= e[j]
<1> SUFFICES ASSUME NEW i \in 0..n PROVE \A j \in i..n : e[i] <= e[j] OBVIOUS
<1>1. e \in [0..n -> Nat] /\ \A h \in 1..n : s[h] \in Nat /\ e[h] = e[h - 1] + s[h]
  BY DEF Sums
<1> DEFINE T == {m \in Nat : i + m <= n => e[i] <= e[i + m]}
<1>2. 0 \in T BY <1>1
<1>3. ASSUME NEW m \in Nat, m \in T PROVE m + 1 \in T
  <2> SUFFICES ASSUME i + (m + 1) <= n PROVE e[i] <= e[i + (m + 1)] OBVIOUS
  <2>1. PICK h \in 1..n : h = i + (m + 1) /\ h - 1 = i + m OBVIOUS
  <2>2. e[h] = e[h - 1] + s[h] /\ s[h] \in Nat BY <1>1
  <2>3. e[i] \in Nat /\ e[i + m] \in Nat /\ e[i] <= e[i + m] BY <1>1, <1>3
  <2>4. QED BY <2>1, <2>2, <2>3
<1> HIDE DEF T
<1>4. Nat \subseteq T BY <1>2, <1>3, AllOf
<1>5. ASSUME NEW j \in i..n PROVE e[i] <= e[j]
  <2>1. j - i \in T BY <1>4
  <2>2. i + (j - i) = j OBVIOUS
  <2>3. QED BY <2>1, <2>2 DEF T
<1>6. QED BY <1>5

(* Two that begin alike are the same.                                      *)
LEMMA SumUnique ==
  ASSUME NEW n \in Nat, NEW s, NEW e, NEW d, Sums(e, n, s), Sums(d, n, s), e[0] = d[0]
  PROVE  e = d
<1>1. /\ e \in [0..n -> Nat] /\ d \in [0..n -> Nat]
      /\ \A i \in 1..n : e[i] = e[i - 1] + s[i] /\ d[i] = d[i - 1] + s[i]
  BY DEF Sums
<1> DEFINE T == {m \in Nat : m <= n => e[m] = d[m]}
<1>2. 0 \in T OBVIOUS
<1>3. ASSUME NEW m \in Nat, m \in T PROVE m + 1 \in T
  <2> SUFFICES ASSUME m + 1 <= n PROVE e[m + 1] = d[m + 1] OBVIOUS
  <2>1. PICK i \in 1..n : i = m + 1 /\ i - 1 = m OBVIOUS
  <2>2. e[i] = e[i - 1] + s[i] /\ d[i] = d[i - 1] + s[i] BY <1>1
  <2>3. e[m] = d[m] BY <1>3
  <2>4. QED BY <2>1, <2>2, <2>3
<1> HIDE DEF T
<1>4. Nat \subseteq T BY <1>2, <1>3, AllOf
<1>5. \A i \in 0..n : e[i] = d[i] BY <1>4 DEF T
<1>6. QED BY <1>1, <1>5

(* Where the boxes of a file end, and what of them lies where.             *)
BoxesEnd(f, at, n) ==
  /\ at \in [0..n -> Nat] /\ at[0] = 0
  /\ \A i \in 1..n : /\ at[i] = at[i - 1] + BoxLength(f[i])
                     /\ BoxLength(f[i]) \in Nat /\ HeaderOf(f[i]) \in {2, 4}
                     /\ HeaderOf(f[i]) <= BoxLength(f[i])
  /\ \A i \in 0..n : \A j \in i..n : at[i] <= at[j]

LEMMA BoxesEndSo ==
  ASSUME NEW f \in Seq(FmBoxes), NEW n \in Nat, n = Len(f)
  PROVE  Placed(f, BoxEnds(f)) /\ BoxesEnd(f, BoxEnds(f), n)
<1> DEFINE s == [i \in 1..n |-> BoxLength(f[i])]
           end == CHOOSE e : e = [b \in 0..Len(f) |->
                                    IF b = 0 THEN 0 ELSE e[b - 1] + BoxLength(f[b])]
<1>1. \A i \in 1..n : s[i] = BoxLength(f[i]) OBVIOUS
<1>2. ASSUME NEW i \in 1..n
      PROVE  /\ BoxLength(f[i]) \in Nat /\ HeaderOf(f[i]) \in {2, 4}
             /\ HeaderOf(f[i]) <= BoxLength(f[i])
  <2>1. PICK k \in FmBoxes : k = f[i] OBVIOUS
  <2>2. PICK h \in {2, 4} : h = HeaderOf(k) BY BoxLengthIs
  <2>3. PICK l \in Nat : l = k.n BY DEF FmBoxes
  <2>4. BoxLength(k) = h + l BY <2>2, <2>3, BoxLengthIs
  <2>5. QED BY <2>1, <2>2, <2>4
<1>3. SumFrom(end, 0, n, s)
  <2>1. \E e : e = [b \in 0..Len(f) |-> IF b = 0 THEN 0 ELSE e[b - 1] + BoxLength(f[b])]
    <3>1. PICK e : SumFrom(e, 0, n, s) BY SumFromExists
    <3>2. e = [b \in 0..n |-> IF b = 0 THEN 0 ELSE e[b - 1] + s[b]] BY <3>1, Zenon DEF SumFrom
    <3>3. [b \in 0..n |-> IF b = 0 THEN 0 ELSE e[b - 1] + s[b]]
            = [b \in 0..n |-> IF b = 0 THEN 0 ELSE e[b - 1] + BoxLength(f[b])]
      BY <1>1
    <3> HIDE DEF s
    <3>4. e = [b \in 0..Len(f) |-> IF b = 0 THEN 0 ELSE e[b - 1] + BoxLength(f[b])]
      BY <3>2, <3>3, Zenon
    <3>5. QED BY <3>4
  <2>2. end = [b \in 0..Len(f) |-> IF b = 0 THEN 0 ELSE end[b - 1] + BoxLength(f[b])] BY <2>1
  <2> HIDE DEF end
  <2>3. [b \in 0..n |-> IF b = 0 THEN 0 ELSE end[b - 1] + s[b]]
          = [b \in 0..n |-> IF b = 0 THEN 0 ELSE end[b - 1] + BoxLength(f[b])]
    BY <1>1
  <2> HIDE DEF s
  <2>4. end = [b \in 0..n |-> IF b = 0 THEN 0 ELSE end[b - 1] + s[b]] BY <2>2, <2>3, Zenon
  <2>5. QED BY <2>4, Zenon DEF SumFrom
<1>4. BoxEnds(f) = end BY DEF BoxEnds
<1> HIDE DEF end, s
<1>5. \A i \in 1..n : s[i] \in Nat BY <1>1, <1>2
<1>6. Sums(end, n, s) /\ end[0] = 0
  <2>1. PICK z \in Nat : z = 0 OBVIOUS
  <2>2. SumFrom(end, z, n, s) BY <1>3, <2>1
  <2>3. QED BY <1>5, <2>1, <2>2, SumSays
<1>7. \A i \in 0..n : \A j \in i..n : end[i] <= end[j] BY <1>6, SumGrows
<1>8. BoxesEnd(f, end, n)
  <2>1. end \in [0..n -> Nat] /\ \A i \in 1..n : end[i] = end[i - 1] + s[i]
    BY <1>6 DEF Sums
  <2>2. QED BY <1>1, <1>2, <1>6, <1>7, <2>1 DEF BoxesEnd
<1>9. PICK at : Placed(f, at) BY FileBytesAre
<1>10. Sums(at, n, s) /\ at[0] = 0
  <2>1. at \in [0..n -> Nat] /\ at[0] = 0 /\ \A i \in 1..n : at[i] = at[i - 1] + BoxLength(f[i])
    BY <1>9 DEF Placed
  <2>2. QED BY <1>1, <1>5, <2>1 DEF Sums
<1>11. at = end BY <1>6, <1>10, SumUnique
<1>12. QED BY <1>4, <1>8, <1>9, <1>11

(* Every byte is one of a box.                                             *)
LEMMA InOneBox ==
  ASSUME NEW f, NEW at, NEW n \in Nat, BoxesEnd(f, at, n), NEW q \in Nat, q < at[n]
  PROVE  \E i \in 1..n : \E p \in Nat : p < BoxLength(f[i]) /\ q = at[i - 1] + p
<1>1. /\ at \in [0..n -> Nat] /\ at[0] = 0
      /\ \A i \in 1..n : at[i] = at[i - 1] + BoxLength(f[i]) /\ BoxLength(f[i]) \in Nat
  BY DEF BoxesEnd
<1> DEFINE U == {i \in 1..n : q < at[i]}
<1>2. n # 0 BY <1>1
<1>3. U \in SUBSET (1..n) /\ U # {}
  <2>1. n \in U BY <1>2
  <2>2. QED BY <2>1
<1>4. \A i \in U : i \in 1..n /\ q < at[i] OBVIOUS
<1>5. \A i \in 1..n : i \notin U => ~(q < at[i]) OBVIOUS
<1> HIDE DEF U
<1>6. PICK i \in U : \A j \in U : i <= j BY <1>3, FirstIn
<1>7. PICK j \in 0..n : j = i - 1 /\ at[j] \in Nat /\ at[i] = at[j] + BoxLength(f[i])
  <2>1. i \in 1..n BY <1>4
  <2>2. i - 1 \in 0..n BY <2>1
  <2>3. QED BY <1>1, <2>1, <2>2
<1>8. at[j] <= q
  <2>1. CASE j = 0 BY <1>1, <2>1
  <2>2. CASE j # 0
    <3>1. j \in 1..n BY <2>2
    <3>2. j \notin U BY <1>4, <1>6, <1>7
    <3>3. QED BY <1>5, <1>7, <3>1, <3>2
  <2>3. QED BY <2>1, <2>2
<1>9. PICK p \in Nat : p = q - at[j] /\ q = at[j] + p BY <1>7, <1>8
<1>10. q < at[i] /\ i \in 1..n BY <1>4
<1>11. PICK l \in Nat : l = BoxLength(f[i]) BY <1>1, <1>10
<1>12. p < l BY <1>7, <1>9, <1>10, <1>11
<1>13. QED BY <1>7, <1>9, <1>10, <1>11, <1>12

LEMMA SameBox ==
  ASSUME NEW f, NEW at, NEW n \in Nat, BoxesEnd(f, at, n), NEW q \in Nat,
         NEW i \in 1..n, NEW j \in 1..n,
         at[i - 1] <= q, q < at[i], at[j - 1] <= q, q < at[j]
  PROVE  i = j
<1>1. at \in [0..n -> Nat] /\ \A g \in 0..n : \A h \in g..n : at[g] <= at[h] BY DEF BoxesEnd
<1>2. CASE i < j
  <2>1. i \in 0..n /\ j - 1 \in i..n BY <1>2
  <2>2. at[i] <= at[j - 1] /\ at[i] \in Nat /\ at[j - 1] \in Nat BY <1>1, <2>1
  <2>3. QED BY <2>2
<1>3. CASE j < i
  <2>1. j \in 0..n /\ i - 1 \in j..n BY <1>3
  <2>2. at[j] <= at[i - 1] /\ at[j] \in Nat /\ at[i - 1] \in Nat BY <1>1, <2>1
  <2>3. QED BY <2>2
<1>4. QED BY <1>2, <1>3

(* The samples of the b-th box, which are in the m-th, and where they end. *)
First(f, at, b, m) ==
  IF f[b].offset # Endless THEN at[b - 1] + f[b].offset ELSE at[m - 1] + HeaderOf(f[m])
SamplesEnd(f, at, b, m, e, k) ==
  /\ Sums(e, k, f[b].sizes) /\ e[0] = First(f, at, b, m)
  /\ at[m - 1] + HeaderOf(f[m]) <= e[0] /\ e[k] <= at[m]
Fragment(f, n, b, m) ==
  /\ b \in 1..n /\ m \in (b + 1)..n /\ Announces(f[b]) /\ InMdat(f, b, m)

LEMMA SamplesEndSo ==
  ASSUME NEW f \in Seq(FmBoxes), NEW n \in Nat, n = Len(f), NEW at, at = BoxEnds(f),
         NEW b, NEW m, Fragment(f, n, b, m), NEW k, k = Len(f[b].sizes)
  PROVE  k \in Nat /\ SamplesEnd(f, at, b, m, SampleEnds(f, b), k)
<1>1. b \in 1..n /\ m \in (b + 1)..n /\ m \in 1..n /\ InMdat(f, b, m) BY DEF Fragment
<1>2. /\ NextMdat(f, b, m) /\ at[m - 1] + HeaderOf(f[m]) <= SampleEnds(f, b)[0]
      /\ SampleEnds(f, b)[Len(f[b].sizes)] <= at[m]
  BY <1>1 DEF InMdat
<1>3. PICK s \in Seq(Nat) : s = f[b].sizes
  <2>1. PICK x \in FmBoxes : x = f[b] BY <1>1
  <2>2. x.sizes \in Seq(Nat) BY DEF FmBoxes
  <2>3. QED BY <2>1, <2>2
<1>4. k \in Nat /\ k = Len(s) /\ \A i \in 1..k : s[i] \in Nat BY <1>3
<1>5. FirstSample(f, b) = First(f, at, b, m)
  <2>1. ASSUME NEW j \in (b + 1)..n, NextMdat(f, b, j) PROVE j = m
    <3>1. f[j].type = "mdat" /\ f[m].type = "mdat" BY <1>2, <2>1 DEF NextMdat
    <3>2. ~(j < m)
      <4>1. SUFFICES ASSUME j < m PROVE FALSE OBVIOUS
      <4>2. j \in (b + 1)..(m - 1) BY <1>1, <4>1
      <4>3. QED BY <1>2, <3>1, <4>2 DEF NextMdat
    <3>3. ~(m < j)
      <4>1. SUFFICES ASSUME m < j PROVE FALSE OBVIOUS
      <4>2. m \in (b + 1)..(j - 1) BY <1>1, <4>1
      <4>3. QED BY <2>1, <3>1, <4>2 DEF NextMdat
    <3>4. j \in Int /\ m \in Int BY <1>1
    <3>5. QED BY <3>2, <3>3, <3>4
  <2>2. (CHOOSE j \in (b + 1)..n : NextMdat(f, b, j)) = m BY <1>1, <1>2, <2>1
  <2>3. (CHOOSE j \in (b + 1)..Len(f) : NextMdat(f, b, j)) = m BY <2>2
  <2>4. CASE f[b].offset # Endless BY <2>4 DEF FirstSample, First
  <2>5. CASE ~(f[b].offset # Endless)
    <3>1. FirstSample(f, b) =
            LET j == CHOOSE j \in (b + 1)..Len(f) : NextMdat(f, b, j)
            IN BoxEnds(f)[j - 1] + HeaderOf(f[j])
      BY <2>5, Zenon DEF FirstSample
    <3>2. FirstSample(f, b) = at[m - 1] + HeaderOf(f[m]) BY <2>3, <3>1, Zenon
    <3>3. QED BY <2>5, <3>2, Zenon DEF First
  <2>6. QED BY <2>4, <2>5
<1>6. PICK a \in Nat : a = First(f, at, b, m)
  <2>1. BoxesEnd(f, at, n) BY BoxesEndSo
  <2>2. at[b - 1] \in Nat /\ at[m - 1] \in Nat /\ HeaderOf(f[m]) \in {2, 4}
    <3>1. b - 1 \in 0..n /\ m - 1 \in 0..n BY <1>1
    <3>2. at \in [0..n -> Nat] /\ HeaderOf(f[m]) \in {2, 4} BY <1>1, <2>1 DEF BoxesEnd
    <3>3. QED BY <3>1, <3>2
  <2>3. PICK x \in FmBoxes : x = f[b] BY <1>1
  <2>4. x.offset \in Nat \cup {Endless} BY DEF FmBoxes
  <2>5. QED BY <2>2, <2>3, <2>4 DEF First
<1> DEFINE end == CHOOSE e : e = [i \in 0..Len(f[b].sizes) |->
                                    IF i = 0 THEN FirstSample(f, b)
                                    ELSE e[i - 1] + f[b].sizes[i]]
<1>7. SumFrom(end, a, k, s)
  <2>1. \E e : e = [i \in 0..Len(f[b].sizes) |->
                      IF i = 0 THEN FirstSample(f, b) ELSE e[i - 1] + f[b].sizes[i]]
    <3>1. PICK e : SumFrom(e, a, k, s) BY <1>4, SumFromExists
    <3>2. e = [i \in 0..k |-> IF i = 0 THEN a ELSE e[i - 1] + s[i]] BY <3>1, Zenon DEF SumFrom
    <3>3. e = [i \in 0..Len(f[b].sizes) |->
                 IF i = 0 THEN FirstSample(f, b) ELSE e[i - 1] + f[b].sizes[i]]
      BY <1>3, <1>4, <1>5, <1>6, <3>2, Zenon
    <3>4. QED BY <3>3
  <2>2. end = [i \in 0..Len(f[b].sizes) |->
                 IF i = 0 THEN FirstSample(f, b) ELSE end[i - 1] + f[b].sizes[i]]
    BY <2>1
  <2> HIDE DEF end
  <2>3. end = [i \in 0..k |-> IF i = 0 THEN a ELSE end[i - 1] + s[i]]
    BY <1>3, <1>4, <1>5, <1>6, <2>2, Zenon
  <2>4. QED BY <2>3, Zenon DEF SumFrom
<1>8. SampleEnds(f, b) = end BY DEF SampleEnds
<1> HIDE DEF end
<1>9. Sums(end, k, s) /\ end[0] = a BY <1>4, <1>7, SumSays
<1>10. QED BY <1>2, <1>3, <1>4, <1>6, <1>8, <1>9, Zenon DEF SamplesEnd

(* The last moof that has been collected when q bytes have come.           *)
Latest(f, n, at, g, q) ==
  /\ g \in 0..n /\ (g # 0 => Announces(f[g]) /\ at[g] <= q)
  /\ \A h \in (g + 1)..n : Announces(f[h]) => q < at[h]

LEMMA LatestOwns ==
  ASSUME NEW f, NEW n \in Nat, NEW at, BoxesEnd(f, at, n), NEW b, NEW m, Fragment(f, n, b, m),
         NEW q \in Nat, at[m - 1] + HeaderOf(f[m]) <= q, q < at[m],
         NEW g, Latest(f, n, at, g, q)
  PROVE  g = b
<1>1. /\ b \in 1..n /\ m \in (b + 1)..n /\ m \in 1..n /\ Announces(f[b])
      /\ InMdat(f, b, m)
  BY DEF Fragment
<1>2. /\ g \in 0..n /\ (g # 0 => Announces(f[g]) /\ at[g] <= q)
      /\ \A h \in (g + 1)..n : Announces(f[h]) => q < at[h]
  BY DEF Latest
<1>3. /\ at \in [0..n -> Nat] /\ HeaderOf(f[m]) \in {2, 4}
      /\ \A i \in 0..n : \A j \in i..n : at[i] <= at[j]
  BY <1>1 DEF BoxesEnd
<1>4. ~(g < b)
  <2>1. SUFFICES ASSUME g < b PROVE FALSE OBVIOUS
  <2>2. b \in (g + 1)..n BY <1>1, <1>2, <2>1
  <2>3. q < at[b] BY <1>1, <1>2, <2>2
  <2>4. b \in 0..n /\ m - 1 \in b..n BY <1>1
  <2>5. at[b] <= at[m - 1] /\ at[b] \in Nat /\ at[m - 1] \in Nat BY <1>3, <2>4
  <2>6. PICK h \in {2, 4} : h = HeaderOf(f[m]) BY <1>3
  <2>7. QED BY <2>3, <2>5, <2>6
<1>5. ~(b < g)
  <2>1. SUFFICES ASSUME b < g PROVE FALSE OBVIOUS
  <2>2. Announces(f[g]) /\ at[g] <= q BY <1>1, <1>2, <2>1
  <2>3. g >= m
    <3>1. SUFFICES ASSUME g < m PROVE FALSE BY <1>1, <1>2
    <3>2. g \in (b + 1)..(m - 1) BY <1>1, <1>2, <2>1, <3>1
    <3>3. QED BY <1>1, <2>2, <3>2 DEF InMdat
  <2>4. m \in 0..n /\ g \in m..n BY <1>1, <1>2, <2>3
  <2>5. at[m] <= at[g] /\ at[m] \in Nat /\ at[g] \in Nat BY <1>3, <2>4
  <2>6. QED BY <2>2, <2>5
<1>6. g \in Int /\ b \in Int BY <1>1, <1>2
<1>7. QED BY <1>4, <1>5, <1>6

(* A sample that is not empty ends in the mdat of its moof.                *)
LEMMA EndsInside ==
  ASSUME NEW f, NEW n \in Nat, NEW at, BoxesEnd(f, at, n), NEW b, NEW m, Fragment(f, n, b, m),
         NEW e, NEW k \in Nat, SamplesEnd(f, at, b, m, e, k),
         NEW i \in 1..k, f[b].sizes[i] > 0, NEW q \in Nat, e[i] = q + 1
  PROVE  /\ at[m - 1] + HeaderOf(f[m]) <= q /\ q < at[m]
         /\ e[0] <= e[i - 1] /\ e[i - 1] <= q
<1>1. b \in 1..n /\ m \in (b + 1)..n /\ m \in 1..n BY DEF Fragment
<1>2. /\ at \in [0..n -> Nat] /\ HeaderOf(f[m]) \in {2, 4} BY <1>1 DEF BoxesEnd
<1>3. /\ Sums(e, k, f[b].sizes) /\ at[m - 1] + HeaderOf(f[m]) <= e[0] /\ e[k] <= at[m]
  BY DEF SamplesEnd
<1>4. PICK z \in Nat : z = f[b].sizes[i] /\ e[i] = e[i - 1] + z /\ z > 0 BY <1>3 DEF Sums
<1>5. \A h \in 0..k : \A j \in h..k : e[h] <= e[j] BY <1>3, SumGrows
<1>6. i \in 0..k /\ i - 1 \in 0..k /\ 0 \in 0..k /\ k \in i..k /\ i - 1 \in 0..k OBVIOUS
<1>7. e[0] <= e[i - 1] /\ e[i] <= e[k] BY <1>5, <1>6
<1>8. e \in [0..k -> Nat] BY <1>3 DEF Sums
<1>9. e[0] \in Nat /\ e[i] \in Nat /\ e[i - 1] \in Nat /\ e[k] \in Nat BY <1>6, <1>8
<1>10. m - 1 \in 0..n /\ m \in 0..n BY <1>1
<1>11. PICK x \in Nat : x = at[m - 1] BY <1>2, <1>10
<1>12. PICK y \in Nat : y = at[m] BY <1>2, <1>10
<1>13. PICK h \in {2, 4} : h = HeaderOf(f[m]) BY <1>2
<1>14. x + h <= e[0] /\ e[k] <= y BY <1>3, <1>11, <1>12, <1>13
<1>15. e[i - 1] <= q BY <1>4, <1>9
<1>16. q < y BY <1>7, <1>9, <1>14
<1>17. x + h <= q BY <1>7, <1>9, <1>13, <1>14, <1>15
<1>18. QED BY <1>7, <1>11, <1>12, <1>13, <1>15, <1>16, <1>17

(* A sample of l bytes ends with the x-th.                                 *)
EndsWith(x, l) ==
  \E b \in 1..Len(file) : \E i \in 1..Len(file[b].sizes) :
    Announces(file[b]) /\ file[b].sizes[i] = l /\ SampleEnds(file, b)[i] = x

LEMMA NoFrameAt ==
  ASSUME NEW x, \A l \in 1..FmFrame : ~EndsWith(x, l)
  PROVE  FramesAt(x) = <<>>
<1>1. {l \in 1..FmFrame : \E b \in 1..Len(file) : \E i \in 1..Len(file[b].sizes) :
         Announces(file[b]) /\ file[b].sizes[i] = l /\ SampleEnds(file, b)[i] = x} = {}
  BY DEF EndsWith
<1>2. QED BY <1>1, Zenon DEF FramesAt

LEMMA OneFrameAt ==
  ASSUME NEW x, NEW l \in 1..FmFrame, EndsWith(x, l),
         \A k \in 1..FmFrame : EndsWith(x, k) => k = l
  PROVE  FramesAt(x) = <<SubSeq(FileBytes(file), x - l + 1, x)>>
<1> DEFINE ending == {k \in 1..FmFrame :
                        \E b \in 1..Len(file) : \E i \in 1..Len(file[b].sizes) :
                          Announces(file[b]) /\ file[b].sizes[i] = k /\ SampleEnds(file, b)[i] = x}
<1>1. ending = {l} BY DEF EndsWith
<1>2. FramesAt(x) = IF ending = {} THEN <<>>
                    ELSE LET k == CHOOSE k \in ending : TRUE
                         IN <<SubSeq(FileBytes(file), x - k + 1, x)>>
  BY Zenon DEF FramesAt
<1> HIDE DEF ending
<1>3. ending # {} /\ (CHOOSE k \in ending : TRUE) = l BY <1>1
<1>4. QED BY <1>2, <1>3, Zenon

(* The frame that ends with a byte is a sample of the last moof.           *)
EndsOf(n, at, g, q, l) ==
  /\ g \in 1..n
  /\ \E m \in 1..n :
       /\ Fragment(file, n, g, m) /\ at[m - 1] + HeaderOf(file[m]) <= q /\ q < at[m]
       /\ \E i \in 1..Len(file[g].sizes) :
            file[g].sizes[i] = l /\ SampleEnds(file, g)[i] = q + 1

LEMMA EndsOnly ==
  ASSUME file \in Seq(FmBoxes), Fragmented(file), NEW n \in Nat, n = Len(file),
         NEW at, at = BoxEnds(file), NEW q \in Nat, NEW g, Latest(file, n, at, g, q),
         NEW l \in Nat \ {0}, EndsWith(q + 1, l)
  PROVE  EndsOf(n, at, g, q, l)
<1>1. PICK b \in 1..n : \E i \in 1..Len(file[b].sizes) :
        Announces(file[b]) /\ file[b].sizes[i] = l /\ SampleEnds(file, b)[i] = q + 1
  BY DEF EndsWith
<1>2. PICK i \in 1..Len(file[b].sizes) :
        Announces(file[b]) /\ file[b].sizes[i] = l /\ SampleEnds(file, b)[i] = q + 1
  BY <1>1
<1>3. PICK k \in Nat : k = Len(file[b].sizes) /\ i \in 1..k
  <2>1. PICK x \in FmBoxes : x = file[b] OBVIOUS
  <2>2. PICK s \in Seq(Nat) : s = x.sizes BY DEF FmBoxes
  <2>3. QED BY <1>2, <2>1, <2>2
<1>4. file[b].sizes # <<>>
  <2>1. Len(<<>>) = 0 BY EmptySeq
  <2>2. QED BY <1>3, <2>1
<1>5. PICK m \in (b + 1)..n : InMdat(file, b, m) BY <1>2, <1>4 DEF Fragmented
<1>6. Fragment(file, n, b, m) /\ m \in 1..n BY <1>2, <1>5 DEF Fragment
<1>7. BoxesEnd(file, at, n) BY BoxesEndSo
<1>8. SamplesEnd(file, at, b, m, SampleEnds(file, b), k) BY <1>3, <1>6, SamplesEndSo
<1>9. file[b].sizes[i] > 0 BY <1>2
<1>10. PICK e : e = SampleEnds(file, b) OBVIOUS
<1>11. at[m - 1] + HeaderOf(file[m]) <= q /\ q < at[m]
  <2>1. SamplesEnd(file, at, b, m, e, k) /\ e[i] = q + 1 BY <1>2, <1>8, <1>10
  <2>2. QED BY <1>3, <1>6, <1>7, <1>9, <2>1, EndsInside
<1>12. g = b BY <1>6, <1>7, <1>11, LatestOwns
<1>13. QED BY <1>2, <1>6, <1>11, <1>12 DEF EndsOf

(* What a byte does to the samples.                                        *)
SameSamples(d, c) ==
  d.sizes = c.sizes /\ d.idx = c.idx /\ d.sample = c.sample /\ d.out = c.out
SameStart(d, c) == d.set = c.set /\ d.data = c.data
StateOf(k) == IF Announces(k) THEN "collect" ELSE IF k.type = "mdat" THEN "mdat" ELSE "skip"

HeaderDone(d, c, k) ==
  /\ d.pos = c.pos /\ d.start = c.pos - HeaderOf(k) /\ SameSamples(d, c)
  /\ Length(k) # 0 => d.st = StateOf(k)
  /\ k.type = "mdat" /\ Length(k) # 0 =>
       d.set = TRUE /\ d.data = IF c.set THEN c.data ELSE c.pos
  /\ ~(k.type = "mdat" /\ Length(k) # 0) => SameStart(d, c)

LEMMA HeaderDoneSo ==
  ASSUME NEW c \in FmStates, NEW k \in FmBoxes, k.type # "moov"
  PROVE  HeaderDone(HeaderEnds(c, k), c, k)
<1>1. PICK r \in Int : r = Length(k) /\ r >= Endless BY DEF Length, FmBoxes, Endless
<1>2. PICK a : a = c.pos - HeaderOf(k) OBVIOUS
<1>3. PICK t : t = k.type OBVIOUS
<1> DEFINE d == [c EXCEPT !.have = 0, !.type = t, !.remain = r, !.start = a]
<1>4. HeaderEnds(c, k) =
        IF r = 0 THEN [d EXCEPT !.st = "hdr"]
        ELSE IF t \in {"moov", "moof"} /\ r \in 0..FmBox THEN [d EXCEPT !.st = "collect"]
        ELSE IF t = "mdat"
             THEN [d EXCEPT !.st = "mdat", !.set = TRUE,
                            !.data = IF c.set THEN @ ELSE c.pos]
        ELSE [d EXCEPT !.st = "skip"]
  BY <1>1, <1>2, <1>3, Zenon DEF HeaderEnds, Length
<1>5. /\ d.pos = c.pos /\ d.start = a /\ SameSamples(d, c) /\ SameStart(d, c)
      /\ DOMAIN d = {"st", "have", "type", "remain", "pos", "start", "sizes", "idx",
                     "sample", "data", "set", "cfg", "out", "error"}
  BY DEF FmStates, SameSamples, SameStart
<1> HIDE DEF d
<1>6. ASSUME NEW st, NEW e, e = [d EXCEPT !.st = st]
      PROVE  e.st = st /\ e.pos = c.pos /\ e.start = a /\ SameSamples(e, c) /\ SameStart(e, c)
  BY <1>5, <1>6 DEF SameSamples, SameStart
<1>7. r # 0 => (t \in {"moov", "moof"} /\ r \in 0..FmBox <=> Announces(k))
  <2>1. FmBox \in Nat /\ Endless \notin 0..FmBox BY FmAssumption DEF FmAssumption, Endless
  <2>2. k.rest \in BOOLEAN /\ k.n \in Nat BY DEF FmBoxes
  <2>3. QED BY <1>1, <1>3, <2>1, <2>2 DEF Announces, Length
<1>8. PICK e : e = HeaderEnds(c, k) OBVIOUS
<1>9. CASE r = 0
  <2>1. e = [d EXCEPT !.st = "hdr"] BY <1>4, <1>8, <1>9
  <2>2. e.pos = c.pos /\ e.start = a /\ SameSamples(e, c) /\ SameStart(e, c) BY <1>6, <2>1
  <2>3. QED BY <1>1, <1>2, <1>8, <1>9, <2>2 DEF HeaderDone
<1>10. CASE r # 0 /\ Announces(k)
  <2>1. e = [d EXCEPT !.st = "collect"] BY <1>4, <1>7, <1>8, <1>10
  <2>2. e.pos = c.pos /\ e.start = a /\ SameSamples(e, c) /\ SameStart(e, c) /\ e.st = "collect"
    BY <1>6, <2>1
  <2>3. k.type # "mdat" BY <1>10 DEF Announces
  <2>4. QED BY <1>1, <1>2, <1>8, <1>10, <2>2, <2>3 DEF HeaderDone, StateOf
<1>11. CASE r # 0 /\ ~Announces(k) /\ k.type = "mdat"
  <2>1. e = [d EXCEPT !.st = "mdat", !.set = TRUE, !.data = IF c.set THEN @ ELSE c.pos]
    BY <1>3, <1>4, <1>7, <1>8, <1>11
  <2>2. e.data = IF c.set THEN c.data ELSE c.pos BY <1>5, <2>1 DEF SameStart
  <2>3. e.st = "mdat" /\ e.set = TRUE /\ e.pos = c.pos /\ e.start = a /\ SameSamples(e, c)
    BY <1>5, <2>1 DEF SameSamples
  <2>4. QED BY <1>1, <1>2, <1>8, <1>11, <2>2, <2>3 DEF HeaderDone, StateOf
<1>12. CASE r # 0 /\ ~Announces(k) /\ k.type # "mdat"
  <2>1. e = [d EXCEPT !.st = "skip"] BY <1>3, <1>4, <1>7, <1>8, <1>12
  <2>2. e.pos = c.pos /\ e.start = a /\ SameSamples(e, c) /\ SameStart(e, c) /\ e.st = "skip"
    BY <1>6, <2>1
  <2>3. QED BY <1>1, <1>2, <1>8, <1>12, <2>2 DEF HeaderDone, StateOf
<1>13. QED BY <1>9, <1>10, <1>11, <1>12

LEMMA HeaderByteSo ==
  ASSUME NEW c \in FmGood, NEW b, b.place \in Nat, NEW k \in FmBoxes, k.type # "moov",
         b.place <= HeaderOf(k), NEW d, d = HeaderByte(c, b, k)
  PROVE  /\ c.have + 1 < HeaderOf(k) => d.pos = c.pos + 1 /\ SameSamples(d, c) /\ SameStart(d, c)
         /\ c.have + 1 = HeaderOf(k) =>
              \E e : HeaderDone(d, e, k) /\ e.pos = c.pos + 1 /\ SameSamples(e, c) /\ SameStart(e, c)
<1>1. c \in FmStates BY DEF FmGood
<1>2. PICK n \in {2, 4} : n = HeaderOf(k) BY DEF HeaderOf
<1>3. PICK h \in Nat : h = c.have + 1 BY <1>1 DEF FmStates
<1>4. PICK p \in Nat : p = c.pos + 1 BY <1>1 DEF FmStates
<1> DEFINE e == [c EXCEPT !.have = h, !.pos = p]
<1>5. e = [c EXCEPT !.have = @ + 1, !.pos = @ + 1] BY <1>1, <1>3, <1>4 DEF FmStates
<1>6. e \in FmStates /\ e.have = h /\ e.pos = p /\ SameSamples(e, c) /\ SameStart(e, c)
  BY <1>1 DEF FmStates, SameSamples, SameStart
<1>7. d = IF b.place > HeaderOf(k)
          THEN [c EXCEPT !.st = "skip", !.type = "none", !.remain = Endless, !.pos = @ + 1]
          ELSE IF e.have < HeaderOf(k) THEN e ELSE HeaderEnds(e, k)
  BY <1>5, Zenon DEF HeaderByte
<1> HIDE DEF e
<1>8. ~(b.place > HeaderOf(k)) BY <1>2
<1>9. d = IF h < HeaderOf(k) THEN e ELSE HeaderEnds(e, k) BY <1>6, <1>7, <1>8, Zenon
<1>10. HeaderDone(HeaderEnds(e, k), e, k) BY <1>6, HeaderDoneSo
<1>11. CASE h < HeaderOf(k)
  <2>1. d = e BY <1>9, <1>11
  <2>2. ~(h = HeaderOf(k)) BY <1>2, <1>11
  <2>3. QED BY <1>3, <1>4, <1>6, <2>1, <2>2
<1>12. CASE ~(h < HeaderOf(k))
  <2>1. HeaderDone(d, e, k) BY <1>9, <1>10, <1>12, Zenon
  <2>2. QED BY <1>3, <1>4, <1>6, <1>12, <2>1
<1>13. QED BY <1>11, <1>12

BoxDone(d, c, k) ==
  /\ d.pos = c.pos + 1 /\ d.start = c.start
  /\ c.st = "collect" /\ c.remain = 1 =>
       /\ d.sizes = k.sizes /\ d.idx = 1 /\ d.sample = <<>> /\ d.out = c.out
       /\ d.set = (k.offset # Endless) /\ d.data = c.start + k.offset
  /\ ~(c.st = "collect" /\ c.remain = 1) => SameSamples(d, c) /\ SameStart(d, c)

LEMMA BoxDoneSo ==
  ASSUME NEW c \in FmStates, NEW k, k.type # "moov"
  PROVE  BoxDone(BoxByte(c, k), c, k)
<1>1. PICK p : p = c.pos + 1 OBVIOUS
<1>2. PICK m : m = Remaining(c) OBVIOUS
<1>3. PICK st : st = IF c.remain = 1 THEN "hdr" ELSE c.st OBVIOUS
<1> DEFINE d == [c EXCEPT !.pos = p, !.remain = m, !.st = st]
<1>4. d = [c EXCEPT !.pos = @ + 1, !.remain = Remaining(c),
                    !.st = IF c.remain = 1 THEN "hdr" ELSE @]
  BY <1>1, <1>2, <1>3 DEF FmStates
<1>5. BoxByte(c, k) = IF c.st = "collect" /\ c.remain = 1 THEN Collected(d, k) ELSE d
  BY <1>4, Zenon DEF BoxByte
<1>6. /\ d.pos = p /\ d.start = c.start /\ SameSamples(d, c) /\ SameStart(d, c)
      /\ DOMAIN d = {"st", "have", "type", "remain", "pos", "start", "sizes", "idx",
                     "sample", "data", "set", "cfg", "out", "error"}
  BY DEF FmStates, SameSamples, SameStart
<1> HIDE DEF d
<1>7. CASE ~(c.st = "collect" /\ c.remain = 1)
  <2>1. BoxByte(c, k) = d BY <1>5, <1>7, Zenon
  <2>2. QED BY <1>1, <1>6, <1>7, <2>1 DEF BoxDone
<1>8. CASE c.st = "collect" /\ c.remain = 1
  <2>1. BoxByte(c, k) = Collected(d, k) BY <1>5, <1>8, Zenon
  <2>2. PICK x : x = d.start + k.offset OBVIOUS
  <2>3. PICK z : z = (k.offset # Endless) OBVIOUS
  <2> DEFINE e == [d EXCEPT !.sizes = k.sizes, !.idx = 1, !.sample = <<>>, !.set = z, !.data = x]
  <2>4. Collected(d, k) = e BY <2>2, <2>3, Zenon DEF Collected
  <2>5. /\ e.pos = p /\ e.start = d.start /\ e.sizes = k.sizes /\ e.idx = 1 /\ e.sample = <<>>
        /\ e.set = z /\ e.data = x /\ e.out = d.out
    BY <1>6
  <2> HIDE DEF e
  <2>6. e.out = c.out /\ e.start = c.start BY <1>6, <2>5 DEF SameSamples
  <2>7. x = c.start + k.offset BY <1>6, <2>2
  <2>8. PICK g : g = BoxByte(c, k) /\ g = e BY <2>1, <2>4
  <2>9. BoxDone(g, c, k) BY <1>1, <1>8, <2>3, <2>5, <2>6, <2>7, <2>8 DEF BoxDone
  <2>10. QED BY <2>8, <2>9
<1>9. QED BY <1>7, <1>8

SampleDone(d, c, b) ==
  /\ d.pos = c.pos /\ d.start = c.start /\ d.sizes = c.sizes /\ SameStart(d, c)
  /\ NextSample(c) > Len(c.sizes) \/ c.pos < c.data => SameSamples(d, c)
  /\ ~(NextSample(c) > Len(c.sizes) \/ c.pos < c.data) =>
       LET s == Append(c.sample, b)
       IN /\ Len(s) < c.sizes[NextSample(c)] =>
               d.idx = NextSample(c) /\ d.sample = s /\ d.out = c.out
          /\ ~(Len(s) < c.sizes[NextSample(c)]) =>
               /\ d.idx = NextSample(c) + 1 /\ d.sample = <<>>
               /\ d.out = IF Len(s) <= FmFrame THEN Append(c.out, s) ELSE c.out

LEMMA SampleDoneSo ==
  ASSUME NEW c \in FmStates, NEW b
  PROVE  SampleDone(SampleByte(c, b), c, b)
<1>1. PICK i : i = NextSample(c) OBVIOUS
<1>2. PICK s : s = Append(c.sample, b) OBVIOUS
<1>3. PICK o : o = IF Len(s) <= FmFrame THEN Append(c.out, s) ELSE c.out OBVIOUS
<1>4. PICK j : j = i + 1 OBVIOUS
<1> DEFINE more == [c EXCEPT !.idx = i, !.sample = s]
           whole == [c EXCEPT !.idx = j, !.sample = <<>>, !.out = o]
<1>5. whole = [c EXCEPT !.idx = i + 1, !.sample = <<>>,
                        !.out = IF Len(s) <= FmFrame THEN Append(@, s) ELSE @]
  BY <1>3, <1>4 DEF FmStates
<1>6. SampleByte(c, b) =
        IF i > Len(c.sizes) \/ c.pos < c.data THEN c
        ELSE IF Len(s) < c.sizes[i] THEN more ELSE whole
  BY <1>1, <1>2, <1>5, Zenon DEF SampleByte
<1>7. /\ more.pos = c.pos /\ more.start = c.start /\ more.sizes = c.sizes /\ SameStart(more, c)
      /\ more.idx = i /\ more.sample = s /\ more.out = c.out
  BY DEF FmStates, SameStart
<1>8. /\ whole.pos = c.pos /\ whole.start = c.start /\ whole.sizes = c.sizes
      /\ SameStart(whole, c) /\ whole.idx = j /\ whole.sample = <<>> /\ whole.out = o
  BY DEF FmStates, SameStart
<1>9. SameStart(c, c) /\ SameSamples(c, c) BY DEF SameStart, SameSamples
<1> HIDE DEF more, whole
<1>10. PICK d : d = SampleByte(c, b) OBVIOUS
<1>11. CASE i > Len(c.sizes) \/ c.pos < c.data
  <2>1. d = c BY <1>6, <1>10, <1>11, Zenon
  <2>2. SampleDone(d, c, b) BY <1>1, <1>9, <1>11, <2>1, Zenon DEF SampleDone
  <2>3. QED BY <1>10, <2>2
<1>12. CASE ~(i > Len(c.sizes) \/ c.pos < c.data) /\ Len(s) < c.sizes[i]
  <2>1. d = more BY <1>6, <1>10, <1>12, Zenon
  <2>2. SampleDone(d, c, b) BY <1>1, <1>2, <1>7, <1>12, <2>1, Zenon DEF SampleDone
  <2>3. QED BY <1>10, <2>2
<1>13. CASE ~(i > Len(c.sizes) \/ c.pos < c.data) /\ ~(Len(s) < c.sizes[i])
  <2>1. d = whole BY <1>6, <1>10, <1>13, Zenon
  <2>2. SampleDone(d, c, b)
    BY <1>1, <1>2, <1>3, <1>4, <1>8, <1>13, <2>1, Zenon DEF SampleDone
  <2>3. QED BY <1>10, <2>2
<1>14. QED BY <1>11, <1>12, <1>13

(* Where the demultiplexer is behind p bytes of a box, and what the next   *)
(* byte of it does.                                                        *)
Left(k, p) == IF k.rest THEN Endless ELSE BoxLength(k) - p
BoxAt(c, k, p) ==
  IF p < HeaderOf(k) THEN c.st = "hdr" /\ c.have = p
  ELSE c.st = StateOf(k) /\ c.have = 0 /\ c.remain = Left(k, p) /\ c.start = c.pos - p
MovesOn(d, c, k, p) ==
  /\ d \in FmGood /\ d.pos = c.pos + 1
  /\ p + 1 < BoxLength(k) => BoxAt(d, k, p + 1)
  /\ p + 1 = BoxLength(k) /\ ~k.rest => d.st = "hdr" /\ d.have = 0
Stays(d, c) == SameSamples(d, c) /\ SameStart(d, c)
MdatBegins(d, c) ==
  SameSamples(d, c) /\ d.set = TRUE /\ d.data = IF c.set THEN c.data ELSE c.pos + 1
MoofEnds(d, c, k, p) ==
  /\ d.sizes = k.sizes /\ d.idx = 1 /\ d.sample = <<>> /\ d.out = c.out
  /\ d.set = (k.offset # Endless) /\ d.data = (c.pos - p) + k.offset

Here(c, b, k, p) ==
  /\ c \in FmGood /\ ~c.error /\ b \in BytesOf(file) /\ k = file[b.box] /\ k \in FmBoxes
  /\ k.type # "moov" /\ p \in Nat /\ p + 1 <= BoxLength(k) /\ b.place = p + 1
  /\ BoxAt(c, k, p)

LEMMA HeaderMoves ==
  ASSUME file \in Seq(FmBoxes), NEW c, NEW b, NEW k, NEW p, Here(c, b, k, p),
         p < HeaderOf(k), NEW d, d = FmByte(c, b), ~d.error
  PROVE  /\ MovesOn(d, c, k, p)
         /\ ~(k.type = "mdat" /\ p + 1 = HeaderOf(k) /\ Length(k) # 0) => Stays(d, c)
         /\ k.type = "mdat" /\ p + 1 = HeaderOf(k) /\ Length(k) # 0 => MdatBegins(d, c)
<1>1. /\ c \in FmGood /\ ~c.error /\ b \in BytesOf(file) /\ k = file[b.box] /\ k \in FmBoxes
      /\ k.type # "moov" /\ p \in Nat /\ p + 1 <= BoxLength(k) /\ b.place = p + 1
      /\ BoxAt(c, k, p)
  BY DEF Here
<1>2. PICK h \in {2, 4} : h = HeaderOf(k) BY <1>1, BoxLengthIs
<1>3. PICK n \in Nat : n = k.n /\ BoxLength(k) = h + n BY <1>1, <1>2, BoxLengthIs DEF FmBoxes
<1>4. c.st = "hdr" /\ c.have = p BY <1>1 DEF BoxAt
<1>5. FmStep(d, c, b, k) BY <1>1, FmByteIs
<1>6. d \in FmGood /\ HeaderStep(d, c, b, k) BY <1>4, <1>5 DEF FmStep
<1>7. d = HeaderByte(c, b, k)
  <2>1. d = IF c.error THEN c
            ELSE IF c.st = "hdr" THEN HeaderByte(c, b, k)
            ELSE IF c.st = "mdat"
                 THEN IF c.cfg THEN BoxByte(SampleByte(c, b), k) ELSE [c EXCEPT !.error = TRUE]
            ELSE BoxByte(c, k)
    BY <1>1, Zenon DEF FmByte
  <2>2. QED BY <1>1, <1>4, <2>1, Zenon
<1>8. b.place \in Nat /\ b.place <= HeaderOf(k) BY <1>1, <1>2
<1>9. /\ c.have + 1 < HeaderOf(k) => d.pos = c.pos + 1 /\ SameSamples(d, c) /\ SameStart(d, c)
      /\ c.have + 1 = HeaderOf(k) =>
           \E e : HeaderDone(d, e, k) /\ e.pos = c.pos + 1 /\ SameSamples(e, c) /\ SameStart(e, c)
  BY <1>1, <1>7, <1>8, HeaderByteSo
<1>10. CASE p + 1 < h
  <2>1. d.pos = c.pos + 1 /\ Stays(d, c) BY <1>2, <1>4, <1>9, <1>10 DEF Stays
  <2>2. d.st = "hdr" /\ d.have = p + 1 BY <1>2, <1>4, <1>6, <1>8, <1>10 DEF HeaderStep
  <2>3. BoxAt(d, k, p + 1) BY <1>2, <1>10, <2>2 DEF BoxAt
  <2>4. p + 1 # BoxLength(k) /\ p + 1 # h BY <1>3, <1>10
  <2>5. QED BY <1>2, <1>6, <2>1, <2>3, <2>4 DEF MovesOn
<1>11. CASE p + 1 = h
  <2>1. PICK e : HeaderDone(d, e, k) /\ e.pos = c.pos + 1 /\ SameSamples(e, c) /\ SameStart(e, c)
    BY <1>2, <1>4, <1>9, <1>11
  <2>2. d.pos = c.pos + 1 /\ SameSamples(d, c) BY <2>1 DEF HeaderDone, SameSamples
  <2>3. HeaderEnded(d, c, k) BY <1>2, <1>4, <1>6, <1>8, <1>11 DEF HeaderStep
  <2>4. d.have = 0 /\ d.remain = Length(k) /\ (d.st = "hdr" <=> Length(k) = 0)
    BY <2>3 DEF HeaderEnded
  <2>5. Length(k) # 0 => d.st = StateOf(k) BY <2>1 DEF HeaderDone
  <2>6. d.start = d.pos - h BY <1>2, <2>1 DEF HeaderDone
  <2>7. p + 1 < BoxLength(k) => BoxAt(d, k, p + 1)
    <3>1. SUFFICES ASSUME p + 1 < BoxLength(k) PROVE BoxAt(d, k, p + 1) OBVIOUS
    <3>2. n # 0 /\ BoxLength(k) - (p + 1) = n BY <1>3, <1>11, <3>1
    <3>3. Length(k) # 0 /\ Length(k) = Left(k, p + 1) BY <1>3, <3>2 DEF Length, Left, Endless
    <3>4. ~(p + 1 < HeaderOf(k)) BY <1>2, <1>11
    <3>5. QED BY <1>11, <2>4, <2>5, <2>6, <3>3, <3>4 DEF BoxAt
  <2>8. p + 1 = BoxLength(k) /\ ~k.rest => d.st = "hdr" /\ d.have = 0
    BY <1>3, <1>11, <2>4 DEF Length
  <2>9. MovesOn(d, c, k, p) BY <1>6, <2>2, <2>7, <2>8 DEF MovesOn
  <2>10. ~(k.type = "mdat" /\ Length(k) # 0) => Stays(d, c)
    BY <2>1, <2>2 DEF HeaderDone, Stays, SameStart
  <2>11. k.type = "mdat" /\ Length(k) # 0 => MdatBegins(d, c)
    BY <2>1, <2>2 DEF HeaderDone, MdatBegins, SameStart
  <2>12. QED BY <1>2, <1>11, <2>9, <2>10, <2>11
<1>12. QED BY <1>1, <1>2, <1>10, <1>11

LEMMA BodyMoves ==
  ASSUME file \in Seq(FmBoxes), NEW c, NEW b, NEW k, NEW p, Here(c, b, k, p),
         ~(p < HeaderOf(k)), NEW d, d = FmByte(c, b), ~d.error
  PROVE  /\ MovesOn(d, c, k, p)
         /\ k.type = "mdat" => \E e : SampleDone(e, c, b) /\ Stays(d, e)
         /\ Announces(k) /\ p + 1 = BoxLength(k) => MoofEnds(d, c, k, p)
         /\ k.type # "mdat" /\ ~(Announces(k) /\ p + 1 = BoxLength(k)) => Stays(d, c)
<1>1. /\ c \in FmGood /\ ~c.error /\ b \in BytesOf(file) /\ k = file[b.box] /\ k \in FmBoxes
      /\ k.type # "moov" /\ p \in Nat /\ p + 1 <= BoxLength(k) /\ b.place = p + 1
      /\ BoxAt(c, k, p)
  BY DEF Here
<1>2. PICK h \in {2, 4} : h = HeaderOf(k) BY <1>1, BoxLengthIs
<1>3. PICK n \in Nat : n = k.n /\ BoxLength(k) = h + n BY <1>1, <1>2, BoxLengthIs DEF FmBoxes
<1>4. c.st = StateOf(k) /\ c.have = 0 /\ c.remain = Left(k, p) /\ c.start = c.pos - p
  BY <1>1 DEF BoxAt
<1>5. c \in FmStates /\ c.pos \in Nat /\ c.start \in Int BY <1>1 DEF FmGood, FmStates
<1>6. c.st # "hdr" BY <1>4 DEF StateOf
<1>7. FmStep(d, c, b, k) BY <1>1, FmByteIs
<1>8. d \in FmGood /\ BoxStep(d, c, k) BY <1>6, <1>7 DEF FmStep
<1>9. /\ d.have = 0 /\ d.remain = Remaining(c) /\ d.st = IF c.remain = 1 THEN "hdr" ELSE c.st
  BY <1>4, <1>8 DEF BoxStep
<1>10. c.st = "mdat" <=> k.type = "mdat" BY <1>4 DEF StateOf, Announces
<1>11. c.st = "collect" <=> Announces(k) BY <1>4 DEF StateOf
<1>12. Announces(k) => ~k.rest /\ k.type # "mdat" BY DEF Announces
<1>13. d = IF c.st = "mdat"
           THEN IF c.cfg THEN BoxByte(SampleByte(c, b), k) ELSE [c EXCEPT !.error = TRUE]
           ELSE BoxByte(c, k)
  BY <1>1, <1>6, Zenon DEF FmByte
<1>14. ~k.rest => (c.remain = 1 <=> p + 1 = BoxLength(k)) BY <1>1, <1>3, <1>4 DEF Left
<1>15. k.rest => c.remain # 1 BY <1>4 DEF Left, Endless
<1>16. d.pos = c.pos + 1 /\ d.start = c.start
       /\ (k.type = "mdat" => \E e : SampleDone(e, c, b) /\ Stays(d, e))
       /\ (k.type # "mdat" => BoxDone(d, c, k))
  <2>1. CASE k.type = "mdat"
    <3>1. PICK e : e = SampleByte(c, b) OBVIOUS
    <3>2. b \in BoxBytes BY <1>1 DEF BytesOf, BoxBytes
    <3>3. e \in FmGood /\ StayPut(e, c) BY <1>1, <3>1, <3>2, SampleByteIs
    <3>4. SampleDone(e, c, b) BY <1>5, <3>1, SampleDoneSo
    <3>5. c.cfg
      <4>1. SUFFICES ASSUME ~c.cfg PROVE FALSE OBVIOUS
      <4>2. d = [c EXCEPT !.error = TRUE] BY <1>10, <1>13, <2>1, <4>1, Zenon
      <4>3. d.error = TRUE BY <1>5, <4>2 DEF FmStates
      <4>4. QED BY <4>3
    <3>6. d = BoxByte(e, k) BY <1>10, <1>13, <2>1, <3>1, <3>5, Zenon
    <3>7. e \in FmStates BY <3>3 DEF FmGood
    <3>8. BoxDone(d, e, k) BY <1>1, <3>6, <3>7, BoxDoneSo
    <3>9. e.st # "collect" BY <1>10, <2>1, <3>3 DEF StayPut
    <3>10. d.pos = e.pos + 1 /\ d.start = e.start /\ Stays(d, e) BY <3>8, <3>9 DEF BoxDone, Stays
    <3>11. e.pos = c.pos /\ e.start = c.start BY <3>4 DEF SampleDone
    <3>12. QED BY <2>1, <3>4, <3>10, <3>11
  <2>2. CASE k.type # "mdat"
    <3>1. d = BoxByte(c, k) BY <1>10, <1>13, <2>2, Zenon
    <3>2. BoxDone(d, c, k) BY <1>1, <1>5, <3>1, BoxDoneSo
    <3>3. QED BY <2>2, <3>2 DEF BoxDone
  <2>3. QED BY <2>1, <2>2
<1>17. p + 1 < BoxLength(k) => BoxAt(d, k, p + 1)
  <2>1. SUFFICES ASSUME p + 1 < BoxLength(k) PROVE BoxAt(d, k, p + 1) OBVIOUS
  <2>2. c.remain # 1
    <3>1. p + 1 # BoxLength(k) BY <1>1, <1>3, <2>1
    <3>2. QED BY <1>14, <1>15, <3>1
  <2>3. d.st = StateOf(k) BY <1>4, <1>9, <2>2
  <2>4. d.remain = Left(k, p + 1)
    <3>1. CASE k.rest BY <1>4, <1>9, <3>1 DEF Left, Remaining
    <3>2. CASE ~k.rest
      <4>1. c.remain = (h + n) - p /\ Left(k, p + 1) = (h + n) - (p + 1)
        BY <1>3, <1>4, <3>2 DEF Left
      <4>2. p + 1 < h + n BY <1>3, <2>1
      <4>3. c.remain # Endless
        <5>1. n \in Nat /\ h \in Nat /\ p \in Nat BY <1>1
        <5>2. (h + n) - p # Endless BY <4>2, <5>1 DEF Endless
        <5>3. QED BY <4>1, <5>2
      <4>4. d.remain = c.remain - 1 BY <1>9, <4>3 DEF Remaining
      <4>5. ((h + n) - p) - 1 = (h + n) - (p + 1) BY <1>1
      <4>6. QED BY <4>1, <4>4, <4>5
    <3>3. QED BY <3>1, <3>2
  <2>5. d.start = d.pos - (p + 1) BY <1>1, <1>4, <1>5, <1>16
  <2>6. ~(p + 1 < HeaderOf(k)) BY <1>1, <1>2
  <2>7. QED BY <1>9, <2>3, <2>4, <2>5, <2>6 DEF BoxAt
<1>18. p + 1 = BoxLength(k) /\ ~k.rest => d.st = "hdr" /\ d.have = 0 BY <1>9, <1>14
<1>19. MovesOn(d, c, k, p) BY <1>8, <1>16, <1>17, <1>18 DEF MovesOn
<1>20. Announces(k) /\ p + 1 = BoxLength(k) => MoofEnds(d, c, k, p)
  BY <1>4, <1>11, <1>12, <1>14, <1>16 DEF BoxDone, MoofEnds
<1>21. k.type # "mdat" /\ ~(Announces(k) /\ p + 1 = BoxLength(k)) => Stays(d, c)
  BY <1>11, <1>12, <1>14, <1>16 DEF BoxDone, Stays
<1>22. QED BY <1>16, <1>19, <1>20, <1>21

(* A segment, its boxes, and the demultiplexer in them behind q bytes.     *)
Segment(n, at) ==
  /\ file \in Seq(FmBoxes) /\ n \in Nat /\ n = Len(file) /\ at = BoxEnds(file)
  /\ Fragmented(file) /\ \A i \in 1..n : file[i].type # "moov"
InBoxes(c, n, at, q) ==
  \A i \in 1..n : \A p \in Nat :
    p < BoxLength(file[i]) /\ q = at[i - 1] + p => BoxAt(c, file[i], p)

LEMMA HereSo ==
  ASSUME NEW n, NEW at, Segment(n, at), NEW q \in Nat, q < at[n],
         NEW c \in FmGood, ~c.error, InBoxes(c, n, at, q)
  PROVE  \E i \in 1..n : \E p \in Nat :
           /\ q = at[i - 1] + p /\ p + 1 <= BoxLength(file[i])
           /\ Here(c, FileBytes(file)[q + 1], file[i], p)
<1>1. /\ file \in Seq(FmBoxes) /\ n \in Nat /\ n = Len(file) /\ at = BoxEnds(file)
      /\ \A i \in 1..n : file[i].type # "moov"
  BY DEF Segment
<1>2. Placed(file, at) /\ BoxesEnd(file, at, n) BY <1>1, BoxesEndSo
<1>3. PICK i \in 1..n : \E p \in Nat : p < BoxLength(file[i]) /\ q = at[i - 1] + p
  BY <1>1, <1>2, InOneBox
<1>4. PICK p \in Nat : p < BoxLength(file[i]) /\ q = at[i - 1] + p BY <1>3
<1>5. PICK k \in FmBoxes : k = file[i] /\ k.type # "moov" BY <1>1
<1>6. PICK l \in Nat : l = BoxLength(k) BY BoxLengthIs
<1>7. p + 1 <= l /\ p + 1 \in 1..l BY <1>4, <1>5, <1>6
<1>8. i \in 1..Len(file) /\ p + 1 \in 1..BoxLength(file[i]) BY <1>1, <1>5, <1>6, <1>7
<1>9. at[i - 1] + (p + 1) = q + 1
  <2>1. i - 1 \in 0..n BY <1>1
  <2>2. PICK a \in Nat : a = at[i - 1] BY <1>2, <2>1 DEF BoxesEnd
  <2>3. q = a + p BY <1>4, <2>2
  <2>4. a + (p + 1) = q + 1 BY <2>3
  <2>5. QED BY <2>2, <2>4
<1>10. PICK b : b = FileBytes(file)[q + 1] OBVIOUS
<1>11. b.box = i /\ b.place = p + 1 /\ q + 1 \in 1..Len(FileBytes(file))
  <2>1. PICK t : t = p + 1 OBVIOUS
  <2>2. /\ at[i - 1] + t \in 1..Len(FileBytes(file))
        /\ FileBytes(file)[at[i - 1] + t].box = i /\ FileBytes(file)[at[i - 1] + t].place = t
    <3>1. \A j \in 1..Len(file) : \A u \in 1..BoxLength(file[j]) :
            /\ at[j - 1] + u \in 1..Len(FileBytes(file))
            /\ FileBytes(file)[at[j - 1] + u].box = j
            /\ FileBytes(file)[at[j - 1] + u].place = u
      BY <1>2, Zenon DEF Placed
    <3>2. t \in 1..BoxLength(file[i]) /\ i \in 1..Len(file) BY <1>8, <2>1
    <3>3. \A u \in 1..BoxLength(file[i]) :
            /\ at[i - 1] + u \in 1..Len(FileBytes(file))
            /\ FileBytes(file)[at[i - 1] + u].box = i
            /\ FileBytes(file)[at[i - 1] + u].place = u
      BY <3>1, <3>2, Zenon
    <3>4. QED BY <3>2, <3>3, Zenon
  <2>3. QED BY <1>9, <1>10, <2>1, <2>2
<1>12. b \in BytesOf(file)
  <2>1. PICK s \in Seq(BytesOf(file)) : s = FileBytes(file) BY <1>1, FileBytesAre
  <2>2. s[q + 1] \in BytesOf(file) BY <1>11, <2>1
  <2>3. QED BY <1>10, <2>1, <2>2
<1>13. BoxAt(c, k, p) BY <1>4, <1>5 DEF InBoxes
<1>14. Here(c, b, k, p) BY <1>5, <1>6, <1>7, <1>11, <1>12, <1>13 DEF Here
<1>15. QED BY <1>4, <1>5, <1>6, <1>7, <1>10, <1>14

LEMMA InBoxesNext ==
  ASSUME NEW n, NEW at, Segment(n, at), NEW q \in Nat, NEW i \in 1..n, NEW p \in Nat,
         q = at[i - 1] + p, p + 1 <= BoxLength(file[i]),
         NEW c, NEW d, MovesOn(d, c, file[i], p)
  PROVE  InBoxes(d, n, at, q + 1)
<1>1. /\ file \in Seq(FmBoxes) /\ n \in Nat /\ n = Len(file) /\ at = BoxEnds(file)
      /\ Fragmented(file)
  BY DEF Segment
<1>2. BoxesEnd(file, at, n) BY <1>1, BoxesEndSo
<1>3. /\ at \in [0..n -> Nat]
      /\ \A h \in 1..n : /\ at[h] = at[h - 1] + BoxLength(file[h])
                         /\ BoxLength(file[h]) \in Nat /\ HeaderOf(file[h]) \in {2, 4}
      /\ \A g \in 0..n : \A h \in g..n : at[g] <= at[h]
  BY <1>2 DEF BoxesEnd
<1>4. /\ p + 1 < BoxLength(file[i]) => BoxAt(d, file[i], p + 1)
      /\ p + 1 = BoxLength(file[i]) /\ ~file[i].rest => d.st = "hdr" /\ d.have = 0
  BY DEF MovesOn
<1>5. PICK l \in Nat : l = BoxLength(file[i]) BY <1>3
<1>6. PICK a \in Nat : a = at[i - 1] /\ at[i] = a + l
  <2>1. i - 1 \in 0..n BY <1>1
  <2>2. QED BY <1>3, <1>5, <2>1
<1>7. SUFFICES ASSUME NEW j \in 1..n, NEW r \in Nat, r < BoxLength(file[j]),
                      q + 1 = at[j - 1] + r
               PROVE  BoxAt(d, file[j], r)
  BY DEF InBoxes
<1>8. PICK z \in Nat : z = BoxLength(file[j]) BY <1>3
<1>9. PICK y \in Nat : y = at[j - 1] /\ at[j] = y + z
  <2>1. j - 1 \in 0..n BY <1>1
  <2>2. QED BY <1>3, <1>8, <2>1
<1>10. q + 1 = y + r /\ r < z /\ q = a + p /\ p + 1 <= l BY <1>5, <1>6, <1>7, <1>8, <1>9
<1>11. CASE p + 1 < l
  <2>1. a <= q + 1 /\ q + 1 < a + l /\ y <= q + 1 /\ q + 1 < y + z BY <1>10, <1>11
  <2>2. PICK x \in Nat : x = q + 1 OBVIOUS
  <2>3. at[i - 1] <= x /\ x < at[i] /\ at[j - 1] <= x /\ x < at[j] BY <1>6, <1>9, <2>1, <2>2
  <2>4. i = j BY <1>1, <1>2, <2>2, <2>3, SameBox
  <2>5. a = y BY <1>6, <1>9, <2>4
  <2>6. r = p + 1 BY <1>10, <2>5
  <2>7. QED BY <1>4, <1>5, <1>11, <2>4, <2>6
<1>12. CASE p + 1 = l
  <2>1. q + 1 = a + l BY <1>10, <1>12
  <2>2. i < j
    <3>1. SUFFICES ASSUME ~(i < j) PROVE FALSE OBVIOUS
    <3>2. j \in 0..n /\ i \in j..n BY <1>1, <3>1
    <3>3. at[j] <= at[i] BY <1>3, <3>2
    <3>4. y + z <= a + l BY <1>6, <1>9, <3>3
    <3>5. QED BY <1>10, <2>1, <3>4
  <2>3. i \in 0..n /\ j - 1 \in i..n BY <1>1, <2>2
  <2>4. at[i] <= at[j - 1] BY <1>3, <2>3
  <2>5. a + l <= y BY <1>6, <1>9, <2>4
  <2>6. r = 0 BY <1>10, <2>1, <2>5
  <2>7. ~file[i].rest
    <3>1. \A b \in 1..Len(file) : file[b].rest => b = Len(file) BY <1>1 DEF Fragmented
    <3>2. QED BY <1>1, <2>2, <3>1
  <2>8. d.st = "hdr" /\ d.have = 0 BY <1>4, <1>5, <1>12, <2>7
  <2>9. 0 < HeaderOf(file[j])
    <3>1. HeaderOf(file[j]) \in {2, 4} BY <1>3
    <3>2. QED BY <3>1
  <2>10. QED BY <2>6, <2>8, <2>9 DEF BoxAt
<1>13. QED BY <1>10, <1>11, <1>12

(* Samples of no bytes leave the end where it is.                          *)
LEMMA SumZero ==
  ASSUME NEW n \in Nat, NEW s, NEW e, Sums(e, n, s), NEW a \in 1..(n + 1), NEW i \in a..(n + 1),
         \A j \in a..(i - 1) : s[j] = 0
  PROVE  e[i - 1] = e[a - 1]
<1>1. e \in [0..n -> Nat] /\ \A h \in 1..n : s[h] \in Nat /\ e[h] = e[h - 1] + s[h]
  BY DEF Sums
<1> DEFINE T == {m \in Nat : a + m <= i => e[(a + m) - 1] = e[a - 1]}
<1>2. 0 \in T OBVIOUS
<1>3. ASSUME NEW m \in Nat, m \in T PROVE m + 1 \in T
  <2> SUFFICES ASSUME a + (m + 1) <= i PROVE e[(a + (m + 1)) - 1] = e[a - 1] OBVIOUS
  <2>1. PICK h \in 1..n : h = a + m /\ (a + (m + 1)) - 1 = h /\ h \in a..(i - 1) OBVIOUS
  <2>2. e[h] = e[h - 1] + s[h] /\ s[h] = 0 BY <1>1, <2>1
  <2>3. h - 1 = (a + m) - 1 /\ e[(a + m) - 1] = e[a - 1] BY <1>3, <2>1
  <2>4. h - 1 \in 0..n BY <2>1
  <2>5. e[h - 1] \in Nat BY <1>1, <2>4
  <2>6. QED BY <2>1, <2>2, <2>3, <2>5
<1> HIDE DEF T
<1>4. Nat \subseteq T BY <1>2, <1>3, AllOf
<1>5. i - a \in Nat /\ a + (i - a) = i /\ a + (i - a) <= i OBVIOUS
<1>6. i - a \in T BY <1>4, <1>5
<1>7. e[(a + (i - a)) - 1] = e[a - 1] BY <1>5, <1>6 DEF T
<1>8. QED BY <1>5, <1>7

(* Of the samples that are not empty one at most ends at a place.          *)
LEMMA EndsOnce ==
  ASSUME NEW k \in Nat, NEW s, NEW e, Sums(e, k, s), NEW q \in Nat,
         NEW i \in 1..k, e[i - 1] <= q, q + 1 <= e[i],
         NEW h \in 1..k, e[h - 1] <= q, q + 1 = e[h]
  PROVE  h = i
<1>1. e \in [0..k -> Nat] BY DEF Sums
<1>2. \A a \in 0..k : \A b \in a..k : e[a] <= e[b] BY SumGrows
<1>3. ~(h < i)
  <2>1. SUFFICES ASSUME h < i PROVE FALSE OBVIOUS
  <2>2. h \in 0..k /\ i - 1 \in h..k BY <2>1
  <2>3. e[h] <= e[i - 1] /\ e[h] \in Nat /\ e[i - 1] \in Nat BY <1>1, <1>2, <2>2
  <2>4. QED BY <2>3
<1>4. ~(i < h)
  <2>1. SUFFICES ASSUME i < h PROVE FALSE OBVIOUS
  <2>2. i \in 0..k /\ h - 1 \in i..k BY <2>1
  <2>3. e[i] <= e[h - 1] /\ e[i] \in Nat /\ e[h - 1] \in Nat BY <1>1, <1>2, <2>2
  <2>4. QED BY <2>3
<1>5. QED BY <1>3, <1>4

(* The samples of the last moof, and a byte behind q others.               *)
Sampling(n, at, g, m, e, k, q) ==
  /\ Segment(n, at) /\ q \in Nat /\ Latest(file, n, at, g, q) /\ Fragment(file, n, g, m)
  /\ e = SampleEnds(file, g) /\ k \in Nat /\ k = Len(file[g].sizes)

LEMMA SamplingSo ==
  ASSUME NEW n, NEW at, NEW g, NEW m, NEW e, NEW k, NEW q, Sampling(n, at, g, m, e, k, q)
  PROVE  /\ SamplesEnd(file, at, g, m, e, k) /\ Sums(e, k, file[g].sizes)
         /\ \A l \in Nat \ {0} : EndsWith(q + 1, l) =>
              \E i \in 1..k : /\ file[g].sizes[i] = l /\ e[i] = q + 1
                              /\ e[0] <= e[i - 1] /\ e[i - 1] <= q
<1>1. /\ Segment(n, at) /\ q \in Nat /\ Latest(file, n, at, g, q) /\ Fragment(file, n, g, m)
      /\ e = SampleEnds(file, g) /\ k \in Nat /\ k = Len(file[g].sizes)
  BY DEF Sampling
<1>2. /\ file \in Seq(FmBoxes) /\ n \in Nat /\ n = Len(file) /\ at = BoxEnds(file)
      /\ Fragmented(file)
  BY <1>1 DEF Segment
<1>3. SamplesEnd(file, at, g, m, e, k) BY <1>1, <1>2, SamplesEndSo
<1>4. Sums(e, k, file[g].sizes) BY <1>3 DEF SamplesEnd
<1>5. BoxesEnd(file, at, n) BY <1>2, BoxesEndSo
<1>6. ASSUME NEW l \in Nat \ {0}, EndsWith(q + 1, l)
      PROVE  \E i \in 1..k : /\ file[g].sizes[i] = l /\ e[i] = q + 1
                             /\ e[0] <= e[i - 1] /\ e[i - 1] <= q
  <2>1. EndsOf(n, at, g, q, l) BY <1>1, <1>2, <1>6, EndsOnly
  <2>2. PICK i \in 1..k : file[g].sizes[i] = l /\ e[i] = q + 1 BY <1>1, <2>1 DEF EndsOf
  <2>3. file[g].sizes[i] > 0 BY <2>2
  <2>4. e[0] <= e[i - 1] /\ e[i - 1] <= q
    <3>1. n \in Nat /\ k \in Nat /\ q \in Nat /\ Fragment(file, n, g, m) BY <1>1, <1>2
    <3>2. e[i] = q + 1 BY <2>2
    <3>3. QED BY <1>3, <1>5, <2>3, <3>1, <3>2, EndsInside
  <2>5. QED BY <2>2, <2>4
<1>7. QED BY <1>3, <1>4, <1>6

(* How far the samples have come behind q bytes: none has begun, or those  *)
(* up to x, which is where it is, or where the last of them ends.          *)
SampleTo(c, e, x) ==
  /\ e[c.idx - 1] <= x /\ c.sample = SubSeq(FileBytes(file), e[c.idx - 1] + 1, x)
Progress(c, q, e, k) ==
  /\ q <= e[0] => c.idx = 1 /\ c.sample = <<>>
  /\ e[0] <= q =>
       \E x \in Nat : /\ x <= q /\ x <= e[k] /\ (x = q \/ x = e[k])
                      /\ SampleTo(c, e, x)
                      /\ c.sample # <<>> => c.idx <= k /\ x < e[c.idx]

LEMMA NoPart ==
  ASSUME NEW s, NEW x \in Nat
  PROVE  SubSeq(s, x + 1, x) = <<>>
<1>1. (x + 1)..x = {} OBVIOUS
<1>2. QED BY <1>1

LEMMA PartMore ==
  ASSUME NEW S, NEW s \in Seq(S), NEW a \in Nat, NEW q \in Nat, a <= q, q + 1 <= Len(s)
  PROVE  /\ Append(SubSeq(s, a + 1, q), s[q + 1]) = SubSeq(s, a + 1, q + 1)
         /\ Len(SubSeq(s, a + 1, q + 1)) = (q + 1) - a
         /\ Len(SubSeq(s, a + 1, q)) = q - a
         /\ SubSeq(s, a + 1, q + 1) # <<>>
         /\ SubSeq(s, a + 1, q + 1) \in Seq(S)
<1>1. PICK n \in Nat : n = q - a /\ a + n = q /\ a + (n + 1) = q + 1 OBVIOUS
<1>2. a + n <= Len(s) /\ a + (n + 1) <= Len(s) /\ n + 1 \in Nat BY <1>1
<1>3. PICK x : x = SubSeq(s, a + 1, a + n) OBVIOUS
<1>4. x \in Seq(S) /\ IsPart(x, s, a, n) BY <1>2, <1>3, PartSays
<1>5. PICK m \in Nat : m = n + 1 OBVIOUS
<1>6. PICK y : y = SubSeq(s, a + 1, a + m) OBVIOUS
<1>7. y \in Seq(S) /\ IsPart(y, s, a, m) BY <1>2, <1>5, <1>6, PartSays
<1>8. PICK b \in S : b = s[q + 1] OBVIOUS
<1>9. Len(x) = n /\ \A i \in 1..n : x[i] = s[a + i] BY <1>4 DEF IsPart
<1>10. Len(y) = m /\ \A i \in 1..m : y[i] = s[a + i] BY <1>7 DEF IsPart
<1>11. PICK z : z = Append(x, b) OBVIOUS
<1>12. /\ z \in Seq(S) /\ Len(z) = m /\ z[m] = b /\ \A i \in 1..n : z[i] = x[i]
  BY <1>4, <1>5, <1>9, <1>11, AppendProperties
<1>13. ASSUME NEW i \in 1..m PROVE z[i] = y[i]
  <2>1. CASE i = m
    <3>1. a + m = q + 1 BY <1>1, <1>5
    <3>2. QED BY <1>8, <1>10, <1>12, <2>1, <3>1
  <2>2. CASE i # m
    <3>1. i \in 1..n BY <1>5, <2>2
    <3>2. QED BY <1>9, <1>10, <1>12, <3>1
  <2>3. QED BY <2>1, <2>2
<1>14. SameTo(z, y, m) BY <1>10, <1>12, <1>13 DEF SameTo
<1>15. z = y BY <1>7, <1>12, <1>14, SameToEqual
<1>16. y # <<>>
  <2>1. Len(<<>>) = 0 BY EmptySeq
  <2>2. QED BY <1>5, <1>10, <2>1
<1>17. SubSeq(s, a + 1, q) = x /\ SubSeq(s, a + 1, q + 1) = y BY <1>1, <1>3, <1>5, <1>6
<1>18. m = (q + 1) - a BY <1>1, <1>5
<1>19. QED BY <1>1, <1>7, <1>8, <1>9, <1>10, <1>11, <1>15, <1>16, <1>17, <1>18

(* Before the first sample nothing of it has been taken.                   *)
LEMMA ProgressWaits ==
  ASSUME NEW k \in Nat, NEW s, NEW e, Sums(e, k, s), NEW q \in Nat, q < e[0],
         NEW c, Progress(c, q, e, k), NEW d, SameSamples(d, c)
  PROVE  Progress(d, q + 1, e, k)
<1>1. e \in [0..k -> Nat] BY DEF Sums
<1>2. e[0] \in Nat /\ e[k] \in Nat BY <1>1
<1>3. e[0] <= e[k]
  <2>1. \A i \in 0..k : \A j \in i..k : e[i] <= e[j] BY SumGrows
  <2>2. 0 \in 0..k /\ k \in 0..k OBVIOUS
  <2>3. QED BY <2>1, <2>2
<1>4. c.idx = 1 /\ c.sample = <<>> BY <1>2 DEF Progress
<1>5. d.idx = 1 /\ d.sample = <<>> BY <1>4 DEF SameSamples
<1>6. SUFFICES ASSUME e[0] <= q + 1 PROVE e[0] = q + 1 /\ SampleTo(d, e, e[0])
  <2>1. ASSUME e[0] = q + 1, SampleTo(d, e, e[0])
        PROVE  \E x \in Nat : /\ x <= q + 1 /\ x <= e[k] /\ (x = q + 1 \/ x = e[k])
                              /\ SampleTo(d, e, x)
                              /\ d.sample # <<>> => d.idx <= k /\ x < e[d.idx]
    <3>1. PICK x \in Nat : x = e[0] BY <1>2
    <3>2. x <= q + 1 /\ x <= e[k] /\ x = q + 1 BY <1>3, <2>1, <3>1
    <3>3. SampleTo(d, e, x) BY <2>1, <3>1
    <3>4. QED BY <1>5, <3>2, <3>3
  <2>2. QED BY <1>5, <1>6, <2>1 DEF Progress
<1>7. e[0] = q + 1 BY <1>2, <1>6
<1>8. PICK x \in Nat : x = e[0] BY <1>2
<1>9. SubSeq(FileBytes(file), x + 1, x) = <<>> BY NoPart
<1>10. d.idx - 1 = 0 BY <1>5
<1>11. SampleTo(d, e, x) BY <1>5, <1>8, <1>9, <1>10 DEF SampleTo
<1>12. QED BY <1>7, <1>8, <1>11

(* A byte of what mdat holds, when it is known where the first sample is:  *)
(* before it, ...                                                          *)
LEMMA SampleWaits ==
  ASSUME NEW n, NEW at, NEW g, NEW m, NEW e, NEW k, NEW q, Sampling(n, at, g, m, e, k, q),
         q < e[0], NEW c, c.pos = q, c.data = e[0], Progress(c, q, e, k),
         NEW b, NEW d, SampleDone(d, c, b)
  PROVE  Progress(d, q + 1, e, k) /\ SameSamples(d, c) /\ FramesAt(q + 1) = <<>>
<1>1. /\ Sums(e, k, file[g].sizes)
      /\ \A l \in Nat \ {0} : EndsWith(q + 1, l) =>
           \E i \in 1..k : e[i] = q + 1 /\ e[0] <= e[i - 1] /\ e[i - 1] <= q
  BY SamplingSo
<1>2. k \in Nat /\ q \in Nat BY DEF Sampling
<1>3. e \in [0..k -> Nat] BY <1>1 DEF Sums
<1>4. e[0] \in Nat /\ e[k] \in Nat BY <1>2, <1>3
<1>5. SameSamples(d, c) BY DEF SampleDone
<1>6. Progress(d, q + 1, e, k) BY <1>1, <1>2, <1>5, ProgressWaits
<1>7. ASSUME NEW l \in 1..FmFrame PROVE ~EndsWith(q + 1, l)
  <2>1. SUFFICES ASSUME EndsWith(q + 1, l) PROVE FALSE OBVIOUS
  <2>2. FmFrame \in Nat /\ l \in Nat \ {0}
    <3>1. FmFrame \in Nat BY FmAssumption DEF FmAssumption
    <3>2. QED BY <3>1
  <2>3. PICK i \in 1..k : e[0] <= e[i - 1] /\ e[i - 1] <= q BY <1>1, <2>1, <2>2
  <2>4. i - 1 \in 0..k BY <1>2
  <2>5. e[i - 1] \in Nat BY <1>3, <2>4
  <2>6. QED BY <1>2, <1>4, <2>3, <2>5
<1>8. FramesAt(q + 1) = <<>> BY <1>7, NoFrameAt
<1>9. QED BY <1>5, <1>6, <1>8

(* ... behind the last sample that is not empty, ...                       *)
AllTaken(c, q, e, k) ==
  c.sample = <<>> /\ e[k] <= q /\ SampleTo(c, e, e[k])
(* ... or within the i-th.                                                 *)
Within(c, q, e, k, i) ==
  /\ i \in 1..k /\ e[i - 1] <= q /\ q < e[i]
  /\ c.sample = SubSeq(FileBytes(file), e[i - 1] + 1, q)

LEMMA NextPlace ==
  ASSUME NEW k \in Nat, NEW c \in FmGood, NEW e, Sums(e, k, c.sizes), k = Len(c.sizes),
         NEW q \in Nat, e[0] <= q, Progress(c, q, e, k)
  PROVE  /\ NextSample(c) > k => AllTaken(c, q, e, k)
         /\ ~(NextSample(c) > k) => Within(c, q, e, k, NextSample(c))
<1>1. /\ NextSample(c) \in c.idx..(Len(c.sizes) + 1)
      /\ NextSample(c) <= Len(c.sizes) => c.sizes[NextSample(c)] > 0
      /\ \A j \in c.idx..(NextSample(c) - 1) : c.sizes[j] = 0
  BY NextSampleIs
<1>2. PICK a \in Nat \ {0} : a = c.idx /\ a <= k + 1 BY DEF FmGood, FmStates
<1>3. PICK i \in a..(k + 1) : i = NextSample(c) BY <1>1, <1>2
<1>4. e \in [0..k -> Nat] /\ \A h \in 1..k : c.sizes[h] \in Nat /\ e[h] = e[h - 1] + c.sizes[h]
  BY DEF Sums
<1>5. \A h \in 0..k : \A j \in h..k : e[h] <= e[j] BY SumGrows
<1>6. e[i - 1] = e[a - 1]
  <2>1. a \in 1..(k + 1) BY <1>2
  <2>2. \A j \in a..(i - 1) : c.sizes[j] = 0 BY <1>1, <1>2, <1>3
  <2>3. QED BY <2>1, <2>2, SumZero
<1>7. PICK x \in Nat : /\ x <= q /\ x <= e[k] /\ (x = q \/ x = e[k])
                       /\ SampleTo(c, e, x)
                       /\ c.sample # <<>> => c.idx <= k /\ x < e[c.idx]
  BY DEF Progress
<1>8. PICK y \in Nat : y = e[a - 1] /\ y = e[i - 1]
  <2>1. a - 1 \in 0..k BY <1>2
  <2>2. QED BY <1>4, <1>6, <2>1
<1>9. y <= x /\ c.sample = SubSeq(FileBytes(file), y + 1, x)
  BY <1>2, <1>7, <1>8 DEF SampleTo
<1>10. c.sample = <<>> => x = y
  <2>1. SUFFICES ASSUME c.sample = <<>>, x # y PROVE FALSE OBVIOUS
  <2>2. PICK s : s = SubSeq(FileBytes(file), y + 1, x) OBVIOUS
  <2>3. y + 1 <= x BY <1>9, <2>1
  <2>4. Len(s) = x - y BY <1>9, <2>2, <2>3
  <2>5. Len(<<>>) = 0 BY EmptySeq
  <2>6. s = <<>> BY <1>9, <2>1, <2>2
  <2>7. QED BY <2>3, <2>4, <2>5, <2>6
<1>11. PICK z \in Nat : z = e[k] BY <1>4
<1>12. CASE i > k
  <2>1. i - 1 = k BY <1>3, <1>12
  <2>2. y = z BY <1>8, <1>11, <2>1
  <2>3. x = z BY <1>7, <1>9, <1>11, <2>2
  <2>4. c.sample = <<>> BY <1>9, <2>2, <2>3, NoPart
  <2>5. AllTaken(c, q, e, k) BY <1>7, <1>11, <2>3, <2>4 DEF AllTaken
  <2>6. QED BY <1>3, <1>12, <2>5
<1>13. CASE ~(i > k)
  <2>1. i \in 1..k BY <1>2, <1>3, <1>13
  <2>2. PICK l \in Nat : l = c.sizes[i] /\ l > 0 /\ e[i] = e[i - 1] + l
    <3>1. c.sizes[i] \in Nat /\ e[i] = e[i - 1] + c.sizes[i] BY <1>4, <2>1
    <3>2. i <= Len(c.sizes) BY <2>1
    <3>3. c.sizes[i] > 0 BY <1>1, <1>3, <3>2
    <3>4. QED BY <3>1, <3>3
  <2>3. e[i] = y + l BY <1>8, <2>2
  <2>4. x < y + l
    <3>1. CASE c.sample = <<>> BY <1>10, <2>2, <3>1
    <3>2. CASE c.sample # <<>>
      <4>1. a <= k /\ x < e[a] BY <1>2, <1>7, <3>2
      <4>2. ~(a < i)
        <5>1. SUFFICES ASSUME a < i PROVE FALSE OBVIOUS
        <5>2. a \in a..(i - 1) /\ a \in 1..k BY <1>2, <2>1, <5>1
        <5>3. c.sizes[a] = 0 BY <1>1, <1>2, <1>3, <5>2
        <5>4. e[a] = e[a - 1] + c.sizes[a] BY <1>4, <5>2
        <5>5. e[a] = y + 0 BY <1>8, <5>3, <5>4
        <5>6. e[a] = y BY <5>5
        <5>7. x < y BY <4>1, <5>6
        <5>8. QED BY <1>9, <5>7
      <4>3. a = i BY <1>2, <1>3, <4>2
      <4>4. QED BY <2>3, <4>1, <4>3
    <3>3. QED BY <3>1, <3>2
  <2>5. y + l <= z
    <3>1. i \in 0..k /\ k \in i..k BY <2>1
    <3>2. QED BY <1>5, <1>11, <2>3, <3>1
  <2>6. x = q BY <1>7, <1>11, <2>4, <2>5
  <2>7. Within(c, q, e, k, i) BY <1>8, <1>9, <2>1, <2>3, <2>4, <2>6 DEF Within
  <2>8. QED BY <1>3, <1>13, <2>7
<1>14. QED BY <1>2, <1>3, <1>12, <1>13


(* The byte behind q others ends no sample, ...                            *)
LEMMA NoSampleEnds ==
  ASSUME NEW n, NEW at, NEW g, NEW m, NEW e, NEW k, NEW q, Sampling(n, at, g, m, e, k, q),
         \A h \in 1..k : e[h - 1] <= q => e[h] # q + 1
  PROVE  FramesAt(q + 1) = <<>>
<1>1. \A l \in Nat \ {0} : EndsWith(q + 1, l) =>
        \E h \in 1..k : e[h] = q + 1 /\ e[h - 1] <= q
  BY SamplingSo
<1>2. FmFrame \in Nat BY FmAssumption DEF FmAssumption
<1>3. \A l \in 1..FmFrame : l \in Nat \ {0} BY <1>2
<1>4. \A l \in 1..FmFrame : ~EndsWith(q + 1, l) BY <1>1, <1>3
<1>5. QED BY <1>4, NoFrameAt

(* ... or that sample of the moof which it is in.                          *)
LEMMA SampleEndsHere ==
  ASSUME NEW n, NEW at, NEW g, NEW m, NEW e, NEW k, NEW q, Sampling(n, at, g, m, e, k, q),
         NEW i \in 1..k, e[i - 1] <= q, e[i] = q + 1
  PROVE  FramesAt(q + 1) = IF file[g].sizes[i] <= FmFrame
                           THEN <<SubSeq(FileBytes(file), e[i - 1] + 1, q + 1)>> ELSE <<>>
<1>1. /\ Sums(e, k, file[g].sizes)
      /\ \A l \in Nat \ {0} : EndsWith(q + 1, l) =>
           \E h \in 1..k : file[g].sizes[h] = l /\ e[h] = q + 1 /\ e[h - 1] <= q
  BY SamplingSo
<1>2. /\ q \in Nat /\ Fragment(file, n, g, m) /\ Segment(n, at)
      /\ e = SampleEnds(file, g) /\ k \in Nat /\ k = Len(file[g].sizes)
  BY DEF Sampling
<1>3. g \in 1..Len(file) /\ Announces(file[g]) BY <1>2 DEF Fragment, Segment
<1>4. FmFrame \in Nat BY FmAssumption DEF FmAssumption
<1>5. PICK a \in Nat : a = e[i - 1]
  <2>1. i - 1 \in 0..k BY <1>2
  <2>2. QED BY <1>1, <2>1 DEF Sums
<1>6. PICK l \in Nat : l = file[g].sizes[i] /\ e[i] = a + l BY <1>1, <1>5 DEF Sums
<1>7. a <= q /\ q + 1 = a + l BY <1>5, <1>6
<1>8. l \in Nat \ {0} /\ ((q + 1) - l) + 1 = a + 1 BY <1>2, <1>7
<1>9. EndsWith(q + 1, l)
  <2>1. i \in 1..Len(file[g].sizes) BY <1>2
  <2>2. SampleEnds(file, g)[i] = q + 1 BY <1>2
  <2>3. QED BY <1>3, <1>6, <2>1, <2>2 DEF EndsWith
<1>10. ASSUME NEW j \in 1..FmFrame, EndsWith(q + 1, j) PROVE j = l
  <2>1. j \in Nat \ {0} BY <1>4
  <2>2. PICK h \in 1..k : file[g].sizes[h] = j /\ e[h] = q + 1 /\ e[h - 1] <= q
    BY <1>1, <1>10, <2>1
  <2>3. h = i
    <3>1. /\ Sums(e, k, file[g].sizes) /\ k \in Nat /\ q \in Nat BY <1>1, <1>2
    <3>2. q + 1 <= e[i] BY <1>2
    <3>3. e[h - 1] <= q /\ q + 1 = e[h] BY <2>2
    <3>4. QED BY <3>1, <3>2, <3>3, EndsOnce
  <2>4. QED BY <1>6, <2>2, <2>3
<1>11. CASE l <= FmFrame
  <2>1. l \in 1..FmFrame BY <1>4, <1>8, <1>11
  <2>2. FramesAt(q + 1) = <<SubSeq(FileBytes(file), ((q + 1) - l) + 1, q + 1)>>
    BY <1>9, <1>10, <2>1, OneFrameAt
  <2>3. QED BY <1>5, <1>6, <1>8, <1>11, <2>2
<1>12. CASE ~(l <= FmFrame)
  <2>1. \A j \in 1..FmFrame : ~EndsWith(q + 1, j) BY <1>4, <1>10, <1>12
  <2>2. FramesAt(q + 1) = <<>> BY <2>1, NoFrameAt
  <2>3. QED BY <1>6, <1>12, <2>2
<1>13. QED BY <1>11, <1>12

(* ... and in a sample or behind the last.                                 *)
Adds(d, c, q) == d.out = c.out \o FramesAt(q + 1)
Takes(c, q, e, g, b) ==
  /\ c \in FmGood /\ c.pos = q /\ c.data = e[0] /\ c.sizes = file[g].sizes
  /\ e[0] <= q /\ q + 1 <= Len(FileBytes(file)) /\ b = FileBytes(file)[q + 1]

LEMMA SampleTaken ==
  ASSUME NEW n, NEW at, NEW g, NEW m, NEW e, NEW k, NEW q, Sampling(n, at, g, m, e, k, q),
         NEW c, NEW b, Takes(c, q, e, g, b), Progress(c, q, e, k),
         NEW d, SampleDone(d, c, b)
  PROVE  Progress(d, q + 1, e, k) /\ Adds(d, c, q)
<1> USE DEF Adds
<1>1. /\ c \in FmGood /\ c.pos = q /\ c.data = e[0] /\ c.sizes = file[g].sizes
      /\ e[0] <= q /\ q + 1 <= Len(FileBytes(file)) /\ b = FileBytes(file)[q + 1]
  BY DEF Takes
<1> USE <1>1
<1>2. Sums(e, k, file[g].sizes) BY SamplingSo
<1>3. q \in Nat /\ k \in Nat /\ k = Len(c.sizes) /\ file \in Seq(FmBoxes)
  BY DEF Sampling, Segment
<1>4. e \in [0..k -> Nat] /\ \A h \in 1..k : e[h] = e[h - 1] + c.sizes[h] /\ c.sizes[h] \in Nat
  BY <1>2 DEF Sums
<1>5. e[0] \in Nat /\ e[k] \in Nat
  <2>1. e \in [0..k -> Nat] BY <1>4
  <2>2. 0 \in 0..k /\ k \in 0..k BY <1>3
  <2>3. QED BY <2>1, <2>2
<1>6. \A h \in 0..k : \A j \in h..k : e[h] <= e[j] BY <1>2, <1>3, SumGrows
<1>7. ~(c.pos < c.data)
  <2>1. PICK a \in Nat : a = e[0] BY <1>5
  <2>2. c.pos = q /\ c.data = a /\ a <= q BY <2>1
  <2>3. q \in Nat BY <1>3
  <2>4. QED BY <2>2, <2>3
<1>8. PICK i : i = NextSample(c) OBVIOUS
<1>9. PICK z \in Nat : z = e[k] BY <1>5
<1>10. PICK S : /\ c.out \in Seq(S) /\ FileBytes(file) \in Seq(BytesOf(file))
  <2>1. FileBytes(file) \in Seq(BytesOf(file)) BY <1>3, FileBytesAre
  <2>2. c.out \in Seq(Seq(BoxBytes)) BY DEF FmGood, FmStates
  <2>3. QED BY <2>1, <2>2
<1>11. ~(q + 1 <= e[0])
  <2>1. QED BY <1>3, <1>5
<1>12. /\ i > k => AllTaken(c, q, e, k)
       /\ ~(i > k) => Within(c, q, e, k, i)
  BY <1>2, <1>3, <1>8, NextPlace
<1>13. CASE i > k
  <2>1. c.sample = <<>> /\ z <= q /\ SampleTo(c, e, z) BY <1>9, <1>12, <1>13 DEF AllTaken
  <2>2. SameSamples(d, c) BY <1>3, <1>8, <1>13 DEF SampleDone
  <2>3. d.sample = <<>> /\ d.idx = c.idx /\ d.sample = c.sample /\ d.out = c.out
    BY <2>1, <2>2 DEF SameSamples
  <2>4. SampleTo(d, e, z) BY <2>1, <2>3 DEF SampleTo
  <2>5. Progress(d, q + 1, e, k)
    <3>1. z <= q + 1 /\ z <= e[k] /\ z = e[k] BY <1>3, <1>9, <2>1
    <3>2. QED BY <1>11, <2>3, <2>4, <3>1 DEF Progress
  <2>6. \A h \in 1..k : e[h - 1] <= q => e[h] # q + 1
    <3>1. ASSUME NEW h \in 1..k PROVE e[h] # q + 1
      <4>1. h \in 0..k /\ k \in h..k BY <1>3
      <4>2. e[h] <= z /\ e[h] \in Nat BY <1>4, <1>6, <1>9, <4>1
      <4>3. QED BY <1>3, <2>1, <4>2
    <3>2. QED BY <3>1
  <2>7. FramesAt(q + 1) = <<>> BY <2>6, NoSampleEnds
  <2>8. c.out \o <<>> = c.out BY <1>10, EmptySeq
  <2>9. QED BY <2>3, <2>5, <2>7, <2>8
<1>14. CASE ~(i > k)
  <2>1. /\ i \in 1..k /\ e[i - 1] <= q /\ q < e[i]
        /\ c.sample = SubSeq(FileBytes(file), e[i - 1] + 1, q)
    BY <1>12, <1>14 DEF Within
  <2>2. PICK a \in Nat : a = e[i - 1] /\ a <= q
    <3>1. i - 1 \in 0..k BY <1>3, <2>1
    <3>2. QED BY <1>4, <2>1, <3>1
  <2>3. PICK l \in Nat : l = c.sizes[i] /\ e[i] = a + l BY <1>4, <2>1, <2>2
  <2>4. PICK s : s = Append(c.sample, b) OBVIOUS
  <2>5. s = SubSeq(FileBytes(file), a + 1, q + 1) /\ Len(s) = (q + 1) - a /\ s # <<>>
    <3>1. PICK w \in Seq(BytesOf(file)) : w = FileBytes(file) BY <1>3, FileBytesAre
    <3>2. a <= q /\ q + 1 <= Len(w) BY <2>2, <3>1
    <3>3. /\ Append(SubSeq(w, a + 1, q), w[q + 1]) = SubSeq(w, a + 1, q + 1)
          /\ Len(SubSeq(w, a + 1, q + 1)) = (q + 1) - a
          /\ SubSeq(w, a + 1, q + 1) # <<>>
      <4>1. PICK x \in Nat : x = q BY <1>3
      <4>2. x + 1 <= Len(w) /\ a <= x BY <3>2, <4>1
      <4>3. PICK T : T = BytesOf(file) OBVIOUS
      <4>4. w \in Seq(T) BY <4>3
      <4>5. /\ Append(SubSeq(w, a + 1, x), w[x + 1]) = SubSeq(w, a + 1, x + 1)
            /\ Len(SubSeq(w, a + 1, x + 1)) = (x + 1) - a
            /\ SubSeq(w, a + 1, x + 1) # <<>>
        BY <4>2, <4>4, PartMore
      <4>6. QED BY <4>1, <4>5
    <3>4. s = Append(SubSeq(w, a + 1, q), w[q + 1]) BY <2>1, <2>2, <2>4, <3>1
    <3>5. QED BY <3>1, <3>3, <3>4
  <2>6. ~(i > Len(c.sizes) \/ c.pos < c.data) BY <1>3, <1>7, <1>14
  <2>7. /\ Len(s) < c.sizes[i] => d.idx = i /\ d.sample = s /\ d.out = c.out
        /\ ~(Len(s) < c.sizes[i]) =>
             /\ d.idx = i + 1 /\ d.sample = <<>>
             /\ d.out = IF Len(s) <= FmFrame THEN Append(c.out, s) ELSE c.out
    BY <1>8, <2>4, <2>6 DEF SampleDone
  <2>8. a + l <= z
    <3>1. i \in 0..k /\ k \in i..k BY <1>3, <2>1
    <3>2. QED BY <1>6, <1>9, <2>3, <3>1
  <2>9. PICK x \in Nat : x = q + 1 BY <1>3
  <2>10. x <= a + l /\ x <= z /\ a <= x
    <3>1. q < a + l BY <2>1, <2>3
    <3>2. QED BY <1>3, <2>2, <2>8, <2>9, <3>1
  <2>11. CASE x < a + l
    <3>1. Len(s) < l
      <4>1. Len(s) = x - a BY <2>5, <2>9
      <4>2. x - a < l BY <2>11
      <4>3. QED BY <4>1, <4>2
    <3>2. d.idx = i /\ d.sample = s /\ d.out = c.out BY <2>3, <2>7, <3>1
    <3>3. SampleTo(d, e, x)
      <4>1. e[i - 1] <= x BY <2>2, <2>10
      <4>2. s = SubSeq(FileBytes(file), e[i - 1] + 1, x) BY <2>2, <2>5, <2>9
      <4>3. QED BY <3>2, <4>1, <4>2 DEF SampleTo
    <3>4. d.idx <= k /\ x < e[d.idx]
      <4>1. x < e[i] BY <2>3, <2>11
      <4>2. i <= k BY <1>3, <2>1
      <4>3. QED BY <3>2, <4>1, <4>2
    <3>5. Progress(d, q + 1, e, k)
      <4>1. x <= q + 1 /\ x <= e[k] /\ x = q + 1 BY <1>3, <1>9, <2>9, <2>10
      <4>2. QED BY <1>11, <3>3, <3>4, <4>1 DEF Progress
    <3>6. \A h \in 1..k : e[h - 1] <= q => e[h] # q + 1
      <4>1. SUFFICES ASSUME NEW h \in 1..k, e[h - 1] <= q, e[h] = q + 1 PROVE FALSE OBVIOUS
      <4>2. q + 1 <= e[i] /\ q + 1 = e[h] BY <2>3, <2>9, <2>10, <4>1
      <4>3. h = i
        <5>1. Sums(e, k, file[g].sizes) /\ k \in Nat /\ q \in Nat BY <1>2, <1>3
        <5>2. e[i - 1] <= q /\ i \in 1..k BY <2>1
        <5>3. QED BY <4>1, <4>2, <5>1, <5>2, EndsOnce
      <4>4. QED BY <2>3, <2>9, <2>11, <4>1, <4>3
    <3>7. FramesAt(q + 1) = <<>> BY <3>6, NoSampleEnds
    <3>8. c.out \o <<>> = c.out BY <1>10, EmptySeq
    <3>9. QED BY <3>2, <3>5, <3>7, <3>8
  <2>12. CASE ~(x < a + l)
    <3>1. x = a + l BY <2>10, <2>12
    <3>2. Len(s) = l
      <4>1. Len(s) = (q + 1) - a BY <2>5
      <4>2. (q + 1) - a = x - a BY <2>9
      <4>3. x - a = l BY <3>1
      <4>4. QED BY <4>1, <4>2, <4>3
    <3>3. /\ d.idx = i + 1 /\ d.sample = <<>>
          /\ d.out = IF Len(s) <= FmFrame THEN Append(c.out, s) ELSE c.out
      BY <2>3, <2>7, <3>2
    <3>4. e[i] = x BY <2>3, <3>1
    <3>5. SampleTo(d, e, x)
      <4>1. d.idx - 1 = i BY <2>1, <3>3
      <4>2. SubSeq(FileBytes(file), x + 1, x) = <<>> BY NoPart
      <4>3. QED BY <3>3, <3>4, <4>1, <4>2 DEF SampleTo
    <3>6. Progress(d, q + 1, e, k)
      <4>1. x <= q + 1 /\ x <= e[k] /\ x = q + 1 BY <1>3, <1>9, <2>9, <2>10
      <4>2. QED BY <1>11, <3>3, <3>5, <4>1 DEF Progress
    <3>7. FramesAt(q + 1) = IF l <= FmFrame THEN <<s>> ELSE <<>>
      <4>1. i \in 1..k /\ e[i - 1] <= q /\ e[i] = q + 1 BY <2>1, <2>9, <3>4
      <4>2. FramesAt(q + 1) = IF file[g].sizes[i] <= FmFrame
                              THEN <<SubSeq(FileBytes(file), e[i - 1] + 1, q + 1)>> ELSE <<>>
        BY <4>1, SampleEndsHere
      <4>3. SubSeq(FileBytes(file), e[i - 1] + 1, q + 1) = s BY <2>2, <2>5
      <4>4. file[g].sizes[i] = l BY <2>3
      <4>5. QED BY <4>2, <4>3, <4>4, Zenon
    <3>8. CASE l <= FmFrame
      <4>1. d.out = Append(c.out, s) BY <3>2, <3>3, <3>8
      <4>2. Append(c.out, s) = c.out \o <<s>>
        <5>1. c.out \in Seq(Seq(BoxBytes)) BY DEF FmGood, FmStates
        <5>2. PICK o \in Seq(Seq(BoxBytes)) : o = c.out BY <5>1
        <5>3. Append(o, s) = o \o <<s>> OBVIOUS
        <5>4. QED BY <5>2, <5>3
      <4>3. QED BY <3>6, <3>7, <3>8, <4>1, <4>2
    <3>9. CASE ~(l <= FmFrame)
      <4>1. d.out = c.out BY <3>2, <3>3, <3>9
      <4>2. c.out \o <<>> = c.out BY <1>10, EmptySeq
      <4>3. QED BY <3>6, <3>7, <3>9, <4>1, <4>2
    <3>10. QED BY <3>8, <3>9
  <2>13. QED BY <2>11, <2>12
<1>15. QED BY <1>13, <1>14

(* Where a byte of a segment is.                                           *)
ByteIn(n, at, i, p, q) ==
  /\ Segment(n, at) /\ i \in 1..n /\ p \in Nat /\ q \in Nat
  /\ q = at[i - 1] + p /\ p < BoxLength(file[i])

LEMMA ByteInSo ==
  ASSUME NEW n, NEW at, NEW i, NEW p, NEW q, ByteIn(n, at, i, p, q)
  PROVE  /\ BoxesEnd(file, at, n) /\ n \in Nat /\ n = Len(file) /\ file \in Seq(FmBoxes)
         /\ at = BoxEnds(file) /\ Fragmented(file)
         /\ at[i - 1] <= q /\ q < at[i]
         /\ \A j \in 1..n : at[j - 1] <= q /\ q < at[j] => j = i
<1>1. /\ Segment(n, at) /\ i \in 1..n /\ p \in Nat /\ q \in Nat
      /\ q = at[i - 1] + p /\ p < BoxLength(file[i])
  BY DEF ByteIn
<1>2. /\ n \in Nat /\ n = Len(file) /\ file \in Seq(FmBoxes) /\ at = BoxEnds(file)
      /\ Fragmented(file)
  BY <1>1 DEF Segment
<1>3. BoxesEnd(file, at, n) BY <1>2, BoxesEndSo
<1>4. at[i - 1] <= q /\ q < at[i]
  <2>1. i - 1 \in 0..n BY <1>1, <1>2
  <2>2. PICK a \in Nat : a = at[i - 1] BY <1>3, <2>1 DEF BoxesEnd
  <2>3. PICK l \in Nat : l = BoxLength(file[i]) /\ at[i] = a + l BY <1>1, <1>3, <2>2 DEF BoxesEnd
  <2>4. q = a + p /\ p < l BY <1>1, <2>2, <2>3
  <2>5. a <= q /\ q < a + l BY <1>1, <2>4
  <2>6. QED BY <2>2, <2>3, <2>5
<1>5. ASSUME NEW j \in 1..n, at[j - 1] <= q, q < at[j] PROVE j = i
  BY <1>1, <1>2, <1>3, <1>4, <1>5, SameBox
<1>6. QED BY <1>2, <1>3, <1>4, <1>5

(* A byte that is not the last of a moof leaves the last moof what it is,  *)
(* ...                                                                     *)
MoofEndsAt(i, p) == Announces(file[i]) /\ p + 1 = BoxLength(file[i])

LEMMA LatestStays ==
  ASSUME NEW n, NEW at, NEW i, NEW p, NEW q, ByteIn(n, at, i, p, q), ~MoofEndsAt(i, p),
         NEW g, Latest(file, n, at, g, q)
  PROVE  Latest(file, n, at, g, q + 1)
<1>1. /\ BoxesEnd(file, at, n) /\ n \in Nat
      /\ \A j \in 1..n : at[j - 1] <= q /\ q < at[j] => j = i
  BY ByteInSo
<1>2. i \in 1..n /\ p \in Nat /\ q \in Nat /\ q = at[i - 1] + p BY DEF ByteIn
<1>3. /\ g \in 0..n /\ (g # 0 => Announces(file[g]) /\ at[g] <= q)
      /\ \A h \in (g + 1)..n : Announces(file[h]) => q < at[h]
  BY DEF Latest
<1>4. /\ at \in [0..n -> Nat]
      /\ \A h \in 1..n : /\ at[h] = at[h - 1] + BoxLength(file[h])
                         /\ BoxLength(file[h]) \in Nat /\ HeaderOf(file[h]) \in {2, 4}
                         /\ HeaderOf(file[h]) <= BoxLength(file[h])
  BY <1>1 DEF BoxesEnd
<1>5. ASSUME NEW h \in (g + 1)..n, Announces(file[h]) PROVE q + 1 < at[h]
  <2>1. q < at[h] BY <1>3, <1>5
  <2>2. h \in 1..n /\ h - 1 \in 0..n BY <1>1, <1>3
  <2>3. PICK a \in Nat : a = at[h - 1] BY <1>4, <2>2
  <2>4. PICK l \in Nat : l = BoxLength(file[h]) /\ at[h] = a + l /\ 0 < l BY <1>4, <2>2, <2>3
  <2>5. SUFFICES ASSUME q + 1 = a + l PROVE FALSE BY <1>2, <2>1, <2>4
  <2>6. a <= q BY <1>2, <2>4, <2>5
  <2>7. h = i BY <1>1, <2>1, <2>2, <2>3, <2>6
  <2>8. q = a + p BY <1>2, <2>3, <2>7
  <2>9. p + 1 = l BY <1>2, <2>5, <2>8
  <2>10. QED BY <1>5, <2>4, <2>7, <2>9 DEF MoofEndsAt
<1>6. g # 0 => at[g] <= q + 1
  <2>1. SUFFICES ASSUME g # 0 PROVE at[g] <= q + 1 OBVIOUS
  <2>2. at[g] \in Nat BY <1>3, <1>4
  <2>3. QED BY <1>2, <1>3, <2>1, <2>2
<1>7. QED BY <1>3, <1>5, <1>6 DEF Latest

(* ... and the last of a moof makes it that one.                           *)
LEMMA LatestEnds ==
  ASSUME NEW n, NEW at, NEW i, NEW p, NEW q, ByteIn(n, at, i, p, q), MoofEndsAt(i, p)
  PROVE  Latest(file, n, at, i, q + 1) /\ at[i] = q + 1
<1>1. BoxesEnd(file, at, n) /\ n \in Nat BY ByteInSo
<1>2. i \in 1..n /\ p \in Nat /\ q \in Nat /\ q = at[i - 1] + p BY DEF ByteIn
<1>3. /\ at \in [0..n -> Nat]
      /\ \A h \in 1..n : /\ at[h] = at[h - 1] + BoxLength(file[h])
                         /\ BoxLength(file[h]) \in Nat /\ HeaderOf(file[h]) \in {2, 4}
                         /\ HeaderOf(file[h]) <= BoxLength(file[h])
      /\ \A g \in 0..n : \A h \in g..n : at[g] <= at[h]
  BY <1>1 DEF BoxesEnd
<1>4. PICK x \in Nat : x = at[i] /\ x = q + 1
  <2>1. i - 1 \in 0..n BY <1>1, <1>2
  <2>2. PICK a \in Nat : a = at[i - 1] BY <1>3, <2>1
  <2>3. at[i] = a + BoxLength(file[i]) /\ BoxLength(file[i]) = p + 1
    BY <1>2, <1>3, <2>2 DEF MoofEndsAt
  <2>4. at[i] = a + (p + 1) /\ q = a + p BY <1>2, <2>2, <2>3
  <2>5. QED BY <1>2, <2>4
<1>5. ASSUME NEW h \in (i + 1)..n PROVE x < at[h]
  <2>1. h \in 1..n /\ i \in 0..n /\ h - 1 \in i..n /\ h - 1 \in 0..n BY <1>1, <1>2
  <2>2. PICK y \in Nat : y = at[h - 1] /\ x <= y
    <3>1. at[h - 1] \in Nat BY <1>3, <2>1
    <3>2. at[i] <= at[h - 1] BY <1>3, <2>1
    <3>3. QED BY <1>4, <3>1, <3>2
  <2>3. PICK l \in Nat : l = BoxLength(file[h]) /\ at[h] = y + l /\ 0 < l BY <1>3, <2>1, <2>2
  <2>4. QED BY <2>2, <2>3
<1>6. Announces(file[i]) BY DEF MoofEndsAt
<1>7. QED BY <1>2, <1>4, <1>5, <1>6 DEF Latest

(* A byte that is not of what an mdat holds ends no frame, nor does one    *)
(* when the last moof has no samples.                                      *)
InSample(i, p) == file[i].type = "mdat" /\ ~(p < HeaderOf(file[i]))

LEMMA NoFrameHere ==
  ASSUME NEW n, NEW at, NEW i, NEW p, NEW q, ByteIn(n, at, i, p, q),
         NEW g, Latest(file, n, at, g, q),
         ~InSample(i, p) \/ g = 0 \/ file[g].sizes = <<>>
  PROVE  FramesAt(q + 1) = <<>>
<1>1. /\ BoxesEnd(file, at, n) /\ n \in Nat /\ n = Len(file) /\ file \in Seq(FmBoxes)
      /\ at = BoxEnds(file) /\ Fragmented(file)
      /\ \A j \in 1..n : at[j - 1] <= q /\ q < at[j] => j = i
  BY ByteInSo
<1>2. i \in 1..n /\ p \in Nat /\ q \in Nat /\ q = at[i - 1] + p BY DEF ByteIn
<1>3. FmFrame \in Nat BY FmAssumption DEF FmAssumption
<1>4. ASSUME NEW l \in 1..FmFrame, EndsWith(q + 1, l) PROVE FALSE
  <2>1. l \in Nat \ {0} BY <1>3
  <2>2. EndsOf(n, at, g, q, l) BY <1>1, <1>2, <1>4, <2>1, EndsOnly
  <2>3. PICK m \in 1..n :
          /\ Fragment(file, n, g, m) /\ at[m - 1] + HeaderOf(file[m]) <= q /\ q < at[m]
          /\ \E j \in 1..Len(file[g].sizes) : file[g].sizes[j] = l
    BY <2>2 DEF EndsOf
  <2>4. g # 0 /\ file[g].sizes # <<>>
    <3>1. g \in 1..n BY <2>2 DEF EndsOf
    <3>2. Len(<<>>) = 0 BY EmptySeq
    <3>3. \A j \in 1..0 : FALSE OBVIOUS
    <3>4. QED BY <2>3, <3>1, <3>2, <3>3
  <2>5. m - 1 \in 0..n BY <1>1
  <2>6. PICK a \in Nat : a = at[m - 1] BY <1>1, <2>5 DEF BoxesEnd
  <2>7. PICK h \in {2, 4} : h = HeaderOf(file[m]) BY <1>1 DEF BoxesEnd
  <2>8. a + h <= q BY <2>3, <2>6, <2>7
  <2>9. a <= q BY <1>2, <2>8
  <2>10. m = i BY <1>1, <2>3, <2>6, <2>9
  <2>11. q = a + p BY <1>2, <2>6, <2>10
  <2>12. ~(p < h) BY <1>2, <2>8, <2>11
  <2>13. file[m].type = "mdat" BY <2>3 DEF Fragment, InMdat, NextMdat
  <2>14. InSample(i, p) BY <2>7, <2>10, <2>12, <2>13 DEF InSample
  <2>15. QED BY <2>4, <2>14
<1>5. \A l \in 1..FmFrame : ~EndsWith(q + 1, l) BY <1>4
<1>6. QED BY <1>5, NoFrameAt

(* What is known of where the first sample is: what the moof says, or      *)
(* where the mdat behind it has begun.                                     *)
Content(at, m) == at[m - 1] + HeaderOf(file[m])
Knows(c, at, g, m, q) ==
  /\ c.set <=> (file[g].offset # Endless \/ Content(at, m) <= q)
  /\ c.set => c.data = First(file, at, g, m)
MdatBeginsAt(i, p) ==
  file[i].type = "mdat" /\ p + 1 = HeaderOf(file[i]) /\ Length(file[i]) # 0

LEMMA ContentIs ==
  ASSUME NEW n, NEW at, n \in Nat, BoxesEnd(file, at, n), NEW g, NEW m, Fragment(file, n, g, m)
  PROVE  /\ Content(at, m) \in Nat /\ m \in 1..n /\ file[m].type = "mdat" /\ Length(file[m]) # 0
         /\ at[m - 1] \in Nat /\ at[m] \in Nat /\ HeaderOf(file[m]) \in {2, 4}
         /\ at[m - 1] < Content(at, m) /\ Content(at, m) <= at[m]
         /\ g \in 1..n /\ at[g] \in Nat /\ at[g] <= at[m - 1] /\ g < m
<1>1. /\ g \in 1..n /\ m \in (g + 1)..n /\ file[m].type = "mdat" /\ file[m].n > 0
  BY DEF Fragment, InMdat, NextMdat
<1>2. /\ at \in [0..n -> Nat]
      /\ \A h \in 1..n : /\ at[h] = at[h - 1] + BoxLength(file[h])
                         /\ BoxLength(file[h]) \in Nat /\ HeaderOf(file[h]) \in {2, 4}
                         /\ HeaderOf(file[h]) <= BoxLength(file[h])
      /\ \A a \in 0..n : \A h \in a..n : at[a] <= at[h]
  BY DEF BoxesEnd
<1>3. m \in 1..n /\ m - 1 \in g..n /\ m - 1 \in 0..n /\ g \in 0..n /\ g < m BY <1>1
<1>4. PICK a \in Nat : a = at[m - 1] BY <1>2, <1>3
<1>5. PICK h \in {2, 4} : h = HeaderOf(file[m]) BY <1>2, <1>3
<1>6. PICK l \in Nat : l = BoxLength(file[m]) /\ at[m] = a + l /\ h <= l
  BY <1>2, <1>3, <1>4, <1>5
<1>7. Content(at, m) = a + h BY <1>4, <1>5 DEF Content
<1>8. at[g] \in Nat /\ at[g] <= a BY <1>2, <1>3, <1>4
<1>9. Length(file[m]) # 0
  <2>1. CASE file[m].rest BY <2>1 DEF Length, Endless
  <2>2. CASE ~file[m].rest BY <1>1, <2>2 DEF Length
  <2>3. QED BY <2>1, <2>2
<1>10. /\ a + h \in Nat /\ a < a + h /\ a + h <= a + l /\ a + l \in Nat
  BY <1>5, <1>6
<1>11. QED BY <1>1, <1>3, <1>4, <1>5, <1>6, <1>7, <1>8, <1>9, <1>10

LEMMA MdatBehind ==
  ASSUME NEW n, NEW at, NEW i, NEW p, NEW q, ByteIn(n, at, i, p, q), file[i].type = "mdat",
         NEW g, NEW m, Fragment(file, n, g, m), at[g] <= q
  PROVE  (i = m /\ Content(at, m) = q + (HeaderOf(file[i]) - p)) \/ (i > m /\ Content(at, m) <= q)
<1>1. BoxesEnd(file, at, n) /\ n \in Nat /\ at[i - 1] <= q /\ q < at[i] BY ByteInSo
<1>2. i \in 1..n /\ p \in Nat /\ q \in Nat /\ q = at[i - 1] + p BY DEF ByteIn
<1>3. /\ Content(at, m) \in Nat /\ m \in 1..n /\ Content(at, m) <= at[m] /\ at[m] \in Nat
      /\ HeaderOf(file[m]) \in {2, 4} /\ at[m - 1] \in Nat /\ g \in 1..n /\ at[g] \in Nat
  BY <1>1, ContentIs
<1>4. at \in [0..n -> Nat] /\ \A a \in 0..n : \A h \in a..n : at[a] <= at[h]
  BY <1>1 DEF BoxesEnd
<1>5. i > g
  <2>1. SUFFICES ASSUME ~(i > g) PROVE FALSE OBVIOUS
  <2>2. i \in 0..n /\ g \in i..n BY <1>1, <1>2, <1>3, <2>1
  <2>3. at[i] <= at[g] /\ at[i] \in Nat BY <1>4, <2>2
  <2>4. QED BY <1>1, <1>2, <1>3, <2>3
<1>6. ~(i < m)
  <2>1. SUFFICES ASSUME i < m PROVE FALSE OBVIOUS
  <2>2. i \in (g + 1)..(m - 1) BY <1>2, <1>3, <1>5, <2>1
  <2>3. QED BY <2>2 DEF Fragment, InMdat, NextMdat
<1>7. CASE i = m
  <2>1. PICK a \in Nat : a = at[i - 1] BY <1>3, <1>7
  <2>2. PICK h \in Nat : h = HeaderOf(file[i]) BY <1>3, <1>7
  <2>3. Content(at, m) = a + h BY <1>7, <2>1, <2>2 DEF Content
  <2>4. q = a + p BY <1>2, <2>1
  <2>5. a + h = q + (h - p) BY <1>2, <2>4
  <2>6. QED BY <1>7, <2>2, <2>3, <2>5
<1>8. CASE i > m
  <2>1. m \in 0..n /\ i - 1 \in m..n BY <1>1, <1>2, <1>3, <1>8
  <2>2. at[m] <= at[i - 1] /\ at[i - 1] \in Nat
    <3>1. i - 1 \in 0..n BY <1>1, <1>2
    <3>2. QED BY <1>4, <2>1, <3>1
  <2>3. Content(at, m) <= q BY <1>1, <1>2, <1>3, <2>2
  <2>4. QED BY <1>8, <2>3
<1>9. QED BY <1>2, <1>3, <1>6, <1>7, <1>8

LEMMA KnowsStays ==
  ASSUME NEW n, NEW at, NEW i, NEW p, NEW q, ByteIn(n, at, i, p, q), ~MdatBeginsAt(i, p),
         NEW g, NEW m, Fragment(file, n, g, m), NEW c, NEW d, SameStart(d, c),
         Knows(c, at, g, m, q)
  PROVE  Knows(d, at, g, m, q + 1)
<1>1. /\ BoxesEnd(file, at, n) /\ n \in Nat
      /\ \A j \in 1..n : at[j - 1] <= q /\ q < at[j] => j = i
  BY ByteInSo
<1>2. i \in 1..n /\ p \in Nat /\ q \in Nat /\ q = at[i - 1] + p BY DEF ByteIn
<1>3. /\ Content(at, m) \in Nat /\ m \in 1..n /\ file[m].type = "mdat" /\ Length(file[m]) # 0
      /\ at[m - 1] \in Nat /\ at[m] \in Nat /\ HeaderOf(file[m]) \in {2, 4}
      /\ at[m - 1] < Content(at, m) /\ Content(at, m) <= at[m]
  BY <1>1, ContentIs
<1>4. Content(at, m) # q + 1
  <2>1. SUFFICES ASSUME Content(at, m) = q + 1 PROVE FALSE OBVIOUS
  <2>2. at[m - 1] <= q /\ q < at[m] BY <1>2, <1>3, <2>1
  <2>3. m = i BY <1>1, <1>3, <2>2
  <2>4. PICK a \in Nat : a = at[m - 1] BY <1>3
  <2>5. PICK h \in {2, 4} : h = HeaderOf(file[m]) BY <1>3
  <2>6. a + h = q + 1 /\ q = a + p BY <1>2, <2>1, <2>3, <2>4, <2>5 DEF Content
  <2>7. p + 1 = h BY <1>2, <2>6
  <2>8. QED BY <1>3, <2>3, <2>5, <2>7 DEF MdatBeginsAt
<1>5. Content(at, m) <= q + 1 <=> Content(at, m) <= q BY <1>2, <1>3, <1>4
<1>6. QED BY <1>5 DEF Knows, SameStart

LEMMA KnowsBegins ==
  ASSUME NEW n, NEW at, NEW i, NEW p, NEW q, ByteIn(n, at, i, p, q), MdatBeginsAt(i, p),
         NEW g, NEW m, Fragment(file, n, g, m), at[g] <= q,
         NEW c, c.pos = q, NEW d, MdatBegins(d, c), Knows(c, at, g, m, q)
  PROVE  Knows(d, at, g, m, q + 1)
<1>1. BoxesEnd(file, at, n) /\ n \in Nat BY ByteInSo
<1>2. p \in Nat /\ q \in Nat BY DEF ByteIn
<1>3. file[i].type = "mdat" /\ p + 1 = HeaderOf(file[i]) BY DEF MdatBeginsAt
<1>4. Content(at, m) \in Nat BY <1>1, ContentIs
<1>5. d.set = TRUE /\ d.data = IF c.set THEN c.data ELSE q + 1 BY DEF MdatBegins
<1>6. (i = m /\ Content(at, m) = q + (HeaderOf(file[i]) - p)) \/ (i > m /\ Content(at, m) <= q)
  BY <1>3, MdatBehind
<1>7. Content(at, m) <= q \/ Content(at, m) = q + 1
  <2>1. PICK h : h = HeaderOf(file[i]) OBVIOUS
  <2>2. h - p = 1 BY <1>2, <1>3, <2>1
  <2>3. QED BY <1>6, <2>1, <2>2
<1>8. Content(at, m) <= q + 1 BY <1>2, <1>4, <1>7
<1>9. d.data = First(file, at, g, m)
  <2>1. CASE c.set BY <1>5, <2>1 DEF Knows
  <2>2. CASE ~c.set
    <3>1. file[g].offset = Endless /\ ~(Content(at, m) <= q) BY <2>2 DEF Knows
    <3>2. First(file, at, g, m) = Content(at, m) BY <3>1 DEF First, Content
    <3>3. QED BY <1>5, <1>7, <2>2, <3>1, <3>2
  <2>3. QED BY <2>1, <2>2
<1>10. QED BY <1>5, <1>8, <1>9 DEF Knows

(* Where nothing is done with a sample, the samples are where they were.   *)
LEMMA ProgressSame ==
  ASSUME NEW c, NEW d, SameSamples(d, c), NEW q, NEW e, NEW k, Progress(c, q, e, k)
  PROVE  Progress(d, q, e, k)
<1>1. d.idx = c.idx /\ d.sample = c.sample BY DEF SameSamples
<1>2. QED BY <1>1 DEF Progress, SampleTo

LEMMA ProgressOutside ==
  ASSUME NEW n, NEW at, NEW i, NEW p, NEW q, ByteIn(n, at, i, p, q), ~InSample(i, p),
         NEW g, NEW m, NEW e, NEW k, Sampling(n, at, g, m, e, k, q),
         NEW c, NEW d, SameSamples(d, c), Progress(c, q, e, k)
  PROVE  Progress(d, q + 1, e, k)
<1>1. /\ BoxesEnd(file, at, n) /\ n \in Nat
      /\ \A j \in 1..n : at[j - 1] <= q /\ q < at[j] => j = i
  BY ByteInSo
<1>2. p \in Nat /\ q = at[i - 1] + p BY DEF ByteIn
<1>3. k \in Nat /\ q \in Nat /\ Fragment(file, n, g, m) BY DEF Sampling
<1>4. SamplesEnd(file, at, g, m, e, k) /\ Sums(e, k, file[g].sizes) BY SamplingSo
<1>5. e[0] \in Nat /\ e[k] \in Nat
  <2>1. e \in [0..k -> Nat] BY <1>4 DEF Sums
  <2>2. QED BY <1>3, <2>1
<1>6. Content(at, m) <= e[0] /\ e[k] <= at[m] BY <1>4 DEF SamplesEnd, Content
<1>7. /\ Content(at, m) \in Nat /\ m \in 1..n /\ file[m].type = "mdat"
      /\ at[m - 1] \in Nat /\ at[m] \in Nat /\ HeaderOf(file[m]) \in {2, 4}
      /\ at[m - 1] < Content(at, m)
  BY <1>1, <1>3, ContentIs
<1>8. ~(e[0] <= q /\ q < e[k])
  <2>1. SUFFICES ASSUME e[0] <= q, q < e[k] PROVE FALSE OBVIOUS
  <2>2. Content(at, m) <= q /\ at[m - 1] <= q /\ q < at[m] BY <1>3, <1>5, <1>6, <1>7, <2>1
  <2>3. m = i BY <1>1, <1>7, <2>2
  <2>4. PICK a \in Nat : a = at[m - 1] BY <1>7
  <2>5. PICK h \in {2, 4} : h = HeaderOf(file[m]) BY <1>7
  <2>6. a + h <= q /\ q = a + p BY <1>2, <2>2, <2>3, <2>4, <2>5 DEF Content
  <2>7. ~(p < h) BY <1>2, <2>6
  <2>8. QED BY <1>7, <2>3, <2>5, <2>7 DEF InSample
<1>9. d.idx = c.idx /\ d.sample = c.sample BY DEF SameSamples
<1>10. CASE q < e[0] BY <1>4, <1>10, ProgressWaits DEF Sampling
<1>11. CASE ~(q < e[0])
  <2>1. e[0] <= q /\ ~(q + 1 <= e[0]) BY <1>3, <1>5, <1>11
  <2>2. PICK x \in Nat : /\ x <= q /\ x <= e[k] /\ (x = q \/ x = e[k])
                         /\ SampleTo(c, e, x)
                         /\ c.sample # <<>> => c.idx <= k /\ x < e[c.idx]
    BY <2>1 DEF Progress
  <2>3. x = e[k] /\ x <= q + 1 BY <1>3, <1>5, <1>8, <2>1, <2>2
  <2>4. SampleTo(d, e, x) BY <1>9, <2>2 DEF SampleTo
  <2>5. d.sample # <<>> => d.idx <= k /\ x < e[d.idx] BY <1>9, <2>2
  <2>6. x <= e[k] BY <2>2
  <2>7. QED BY <2>1, <2>3, <2>4, <2>5, <2>6 DEF Progress
<1>12. QED BY <1>10, <1>11

(* The samples behind q bytes.                                             *)
Sampled(c, n, at, g, m, q) ==
  /\ Fragment(file, n, g, m) /\ Knows(c, at, g, m, q)
  /\ Progress(c, q, SampleEnds(file, g), Len(file[g].sizes))
SamplesOf(c, n, at, g, q) ==
  /\ Latest(file, n, at, g, q) /\ c.sizes = (IF g = 0 THEN <<>> ELSE file[g].sizes)
  /\ c.sizes # <<>> => \E m : Sampled(c, n, at, g, m, q)
SamplesAt(c, n, at, q) == \E g : SamplesOf(c, n, at, g, q)
Goes(d, c, n, at, q) == SamplesAt(d, n, at, q + 1) /\ d.out = c.out \o FramesAt(q + 1)

LEMMA SampledSo ==
  ASSUME NEW n, NEW at, NEW i, NEW p, NEW q, ByteIn(n, at, i, p, q),
         NEW c, NEW g, NEW m, Latest(file, n, at, g, q), Sampled(c, n, at, g, m, q)
  PROVE  /\ Sampling(n, at, g, m, SampleEnds(file, g), Len(file[g].sizes), q)
         /\ Fragment(file, n, g, m) /\ Knows(c, at, g, m, q) /\ at[g] <= q
         /\ Progress(c, q, SampleEnds(file, g), Len(file[g].sizes))
<1>1. /\ Fragment(file, n, g, m) /\ Knows(c, at, g, m, q)
      /\ Progress(c, q, SampleEnds(file, g), Len(file[g].sizes))
  BY DEF Sampled
<1>2. BoxesEnd(file, at, n) /\ n \in Nat /\ n = Len(file) /\ file \in Seq(FmBoxes)
  BY ByteInSo
<1>3. g \in 1..n BY <1>1 DEF Fragment
<1>4. file[g] \in FmBoxes BY <1>2, <1>3
<1>5. Len(file[g].sizes) \in Nat
  <2>1. file[g].sizes \in Seq(Nat) BY <1>4 DEF FmBoxes
  <2>2. QED BY <2>1
<1>6. at[g] <= q
  <2>1. g # 0 BY <1>2, <1>3
  <2>2. QED BY <2>1 DEF Latest
<1>7. q \in Nat /\ Segment(n, at) BY DEF ByteIn
<1>8. QED BY <1>1, <1>5, <1>6, <1>7 DEF Sampling

LEMMA NoFrameMore ==
  ASSUME NEW c \in FmGood, NEW d, d.out = c.out, NEW q, FramesAt(q) = <<>>
  PROVE  d.out = c.out \o FramesAt(q)
<1>1. c.out \in Seq(Seq(BoxBytes)) BY DEF FmGood, FmStates
<1>2. c.out \o <<>> = c.out BY <1>1, EmptySeq
<1>3. QED BY <1>2

(* A byte that is of no sample, ...                                        *)
LEMMA OutsideGoes ==
  ASSUME NEW n, NEW at, NEW i, NEW p, NEW q, ByteIn(n, at, i, p, q),
         ~InSample(i, p), ~MoofEndsAt(i, p),
         NEW c \in FmGood, c.pos = q, SamplesAt(c, n, at, q),
         NEW d, SameSamples(d, c),
         MdatBeginsAt(i, p) => MdatBegins(d, c), ~MdatBeginsAt(i, p) => SameStart(d, c)
  PROVE  Goes(d, c, n, at, q)
<1>1. PICK g : SamplesOf(c, n, at, g, q) BY DEF SamplesAt
<1>2. /\ Latest(file, n, at, g, q) /\ c.sizes = (IF g = 0 THEN <<>> ELSE file[g].sizes)
      /\ c.sizes # <<>> => \E m : Sampled(c, n, at, g, m, q)
  BY <1>1 DEF SamplesOf
<1>3. Latest(file, n, at, g, q + 1) BY <1>2, LatestStays
<1>4. d.sizes = c.sizes /\ d.out = c.out BY DEF SameSamples
<1>5. ASSUME d.sizes # <<>> PROVE \E m : Sampled(d, n, at, g, m, q + 1)
  <2>1. PICK m : Sampled(c, n, at, g, m, q) BY <1>2, <1>4, <1>5
  <2>2. /\ Sampling(n, at, g, m, SampleEnds(file, g), Len(file[g].sizes), q)
        /\ Fragment(file, n, g, m) /\ Knows(c, at, g, m, q) /\ at[g] <= q
        /\ Progress(c, q, SampleEnds(file, g), Len(file[g].sizes))
    BY <1>2, <2>1, SampledSo
  <2>3. Progress(d, q + 1, SampleEnds(file, g), Len(file[g].sizes)) BY <2>2, ProgressOutside
  <2>4. Knows(d, at, g, m, q + 1)
    <3>1. CASE MdatBeginsAt(i, p) BY <2>2, <3>1, KnowsBegins
    <3>2. CASE ~MdatBeginsAt(i, p) BY <2>2, <3>2, KnowsStays
    <3>3. QED BY <3>1, <3>2
  <2>5. QED BY <2>2, <2>3, <2>4 DEF Sampled
<1>6. SamplesAt(d, n, at, q + 1)
  <2>1. SamplesOf(d, n, at, g, q + 1) BY <1>2, <1>3, <1>4, <1>5 DEF SamplesOf
  <2>2. QED BY <2>1 DEF SamplesAt
<1>7. FramesAt(q + 1) = <<>> BY <1>2, NoFrameHere
<1>8. d.out = c.out \o FramesAt(q + 1) BY <1>4, <1>7, NoFrameMore
<1>9. QED BY <1>6, <1>8 DEF Goes

(* ... the last of a moof, ...                                             *)
LEMMA MoofGoes ==
  ASSUME NEW n, NEW at, NEW i, NEW p, NEW q, ByteIn(n, at, i, p, q), MoofEndsAt(i, p),
         NEW c \in FmGood, c.pos = q, SamplesAt(c, n, at, q),
         NEW d, MoofEnds(d, c, file[i], p)
  PROVE  Goes(d, c, n, at, q)
<1>1. /\ BoxesEnd(file, at, n) /\ n \in Nat /\ n = Len(file) /\ file \in Seq(FmBoxes)
      /\ at = BoxEnds(file) /\ Fragmented(file)
  BY ByteInSo
<1>2. i \in 1..n /\ p \in Nat /\ q \in Nat /\ q = at[i - 1] + p BY DEF ByteIn
<1>3. Announces(file[i]) BY DEF MoofEndsAt
<1>4. Latest(file, n, at, i, q + 1) /\ at[i] = q + 1 BY LatestEnds
<1>5. /\ d.sizes = file[i].sizes /\ d.idx = 1 /\ d.sample = <<>> /\ d.out = c.out
      /\ d.set = (file[i].offset # Endless) /\ d.data = (q - p) + file[i].offset
  BY DEF MoofEnds
<1>6. ASSUME d.sizes # <<>> PROVE \E m : Sampled(d, n, at, i, m, q + 1)
  <2>1. PICK m \in (i + 1)..n : InMdat(file, i, m)
    BY <1>1, <1>2, <1>3, <1>5, <1>6 DEF Fragmented
  <2>2. Fragment(file, n, i, m) BY <1>2, <1>3, <2>1 DEF Fragment
  <2>3. /\ Content(at, m) \in Nat /\ at[m - 1] \in Nat /\ at[m - 1] < Content(at, m)
        /\ at[i] <= at[m - 1]
    BY <1>1, <2>2, ContentIs
  <2>4. q + 1 < Content(at, m) BY <1>2, <1>4, <2>3
  <2>5. PICK e : e = SampleEnds(file, i) OBVIOUS
  <2>6. PICK k : k = Len(file[i].sizes) OBVIOUS
  <2>7. k \in Nat /\ SamplesEnd(file, at, i, m, e, k) BY <1>1, <2>2, <2>5, <2>6, SamplesEndSo
  <2>8. e[0] \in Nat /\ Content(at, m) <= e[0]
    <3>1. e \in [0..k -> Nat] BY <2>7 DEF SamplesEnd, Sums
    <3>2. QED BY <2>7, <3>1 DEF SamplesEnd, Content
  <2>9. Progress(d, q + 1, e, k)
    <3>1. ~(e[0] <= q + 1) BY <1>2, <2>3, <2>4, <2>8
    <3>2. QED BY <1>5, <3>1 DEF Progress
  <2>10. Knows(d, at, i, m, q + 1)
    <3>1. d.set <=> file[i].offset # Endless BY <1>5
    <3>2. ~(Content(at, m) <= q + 1) BY <1>2, <2>3, <2>4
    <3>3. ASSUME file[i].offset # Endless PROVE d.data = First(file, at, i, m)
      <4>1. i - 1 \in 0..n BY <1>1, <1>2
      <4>2. PICK a \in Nat : a = at[i - 1] BY <1>1, <4>1 DEF BoxesEnd
      <4>3. q - p = a BY <1>2, <4>2
      <4>4. QED BY <1>5, <3>3, <4>2, <4>3 DEF First
    <3>4. QED BY <3>1, <3>2, <3>3 DEF Knows
  <2>11. QED BY <2>2, <2>5, <2>6, <2>9, <2>10 DEF Sampled
<1>7. SamplesAt(d, n, at, q + 1)
  <2>1. i # 0 BY <1>1, <1>2
  <2>2. SamplesOf(d, n, at, i, q + 1) BY <1>4, <1>5, <1>6, <2>1 DEF SamplesOf
  <2>3. QED BY <2>2 DEF SamplesAt
<1>8. FramesAt(q + 1) = <<>>
  <2>1. PICK g : Latest(file, n, at, g, q) BY DEF SamplesAt, SamplesOf
  <2>2. ~InSample(i, p) BY <1>3 DEF InSample, Announces
  <2>3. QED BY <2>1, <2>2, NoFrameHere
<1>9. d.out = c.out \o FramesAt(q + 1) BY <1>5, <1>8, NoFrameMore
<1>10. QED BY <1>7, <1>9 DEF Goes

(* ... and one of what an mdat holds.                                      *)
LEMMA SampleGoes ==
  ASSUME NEW n, NEW at, NEW i, NEW p, NEW q, ByteIn(n, at, i, p, q), InSample(i, p),
         NEW c \in FmGood, c.pos = q, SamplesAt(c, n, at, q),
         q + 1 <= Len(FileBytes(file)), NEW b, b = FileBytes(file)[q + 1],
         NEW x, SampleDone(x, c, b), NEW d, Stays(d, x)
  PROVE  Goes(d, c, n, at, q)
<1>1. BoxesEnd(file, at, n) /\ n \in Nat BY ByteInSo
<1>2. i \in 1..n /\ p \in Nat /\ q \in Nat BY DEF ByteIn
<1>3. PICK g : SamplesOf(c, n, at, g, q) BY DEF SamplesAt
<1>4. /\ Latest(file, n, at, g, q) /\ c.sizes = (IF g = 0 THEN <<>> ELSE file[g].sizes)
      /\ c.sizes # <<>> => \E m : Sampled(c, n, at, g, m, q)
  BY <1>3 DEF SamplesOf
<1>5. file[i].type = "mdat" /\ ~(p < HeaderOf(file[i])) BY DEF InSample
<1>6. ~MoofEndsAt(i, p) BY <1>5 DEF MoofEndsAt, Announces
<1>7. PICK h \in {2, 4} : h = HeaderOf(file[i]) BY <1>1, <1>2 DEF BoxesEnd
<1>8. h <= p BY <1>2, <1>5, <1>7
<1>9. Latest(file, n, at, g, q + 1) BY <1>4, <1>6, LatestStays
<1>10. SameSamples(d, x) /\ SameStart(d, x) /\ SameStart(x, c) /\ x.sizes = c.sizes
  BY DEF Stays, SampleDone
<1>11. SameStart(d, c) BY <1>10 DEF SameStart
<1>12. d.sizes = c.sizes /\ d.out = x.out BY <1>10 DEF SameSamples
<1>13. CASE c.sizes = <<>>
  <2>1. NextSample(c) > Len(c.sizes)
    <3>1. NextSample(c) \in c.idx..(Len(c.sizes) + 1) BY NextSampleIs
    <3>2. c.idx \in Nat \ {0} BY DEF FmGood, FmStates
    <3>3. Len(c.sizes) = 0 BY <1>13, EmptySeq
    <3>4. QED BY <3>1, <3>2, <3>3
  <2>2. SameSamples(x, c) BY <2>1 DEF SampleDone
  <2>3. d.out = c.out BY <1>12, <2>2 DEF SameSamples
  <2>4. SamplesOf(d, n, at, g, q + 1) BY <1>4, <1>9, <1>12, <1>13 DEF SamplesOf
  <2>5. FramesAt(q + 1) = <<>>
    <3>1. g = 0 \/ file[g].sizes = <<>> BY <1>4, <1>13
    <3>2. QED BY <1>4, <3>1, NoFrameHere
  <2>6. d.out = c.out \o FramesAt(q + 1) BY <2>3, <2>5, NoFrameMore
  <2>7. QED BY <2>4, <2>6 DEF Goes, SamplesAt
<1>14. CASE c.sizes # <<>>
  <2>1. PICK m : Sampled(c, n, at, g, m, q) BY <1>4, <1>14
  <2>2. PICK e : e = SampleEnds(file, g) OBVIOUS
  <2>3. PICK k : k = Len(file[g].sizes) OBVIOUS
  <2>4. /\ Sampling(n, at, g, m, e, k, q)
        /\ Fragment(file, n, g, m) /\ Knows(c, at, g, m, q) /\ at[g] <= q
        /\ Progress(c, q, e, k)
    BY <1>4, <2>1, <2>2, <2>3, SampledSo
  <2>5. Content(at, m) <= q
    <3>1. (i = m /\ Content(at, m) = q + (h - p)) \/ (i > m /\ Content(at, m) <= q)
      BY <1>5, <1>7, <2>4, MdatBehind
    <3>2. q + (h - p) <= q BY <1>2, <1>8
    <3>3. QED BY <3>1, <3>2
  <2>6. c.data = e[0]
    <3>1. e[0] = First(file, at, g, m) BY <2>4, SamplingSo DEF SamplesEnd
    <3>2. QED BY <2>4, <2>5, <3>1 DEF Knows
  <2>7. c.sizes = file[g].sizes BY <1>4, <1>14
  <2>8. Progress(x, q + 1, e, k) /\ x.out = c.out \o FramesAt(q + 1)
    <3>1. CASE q < e[0]
      <4>1. Progress(x, q + 1, e, k) /\ SameSamples(x, c) /\ FramesAt(q + 1) = <<>>
        BY <2>4, <2>6, <3>1, SampleWaits
      <4>2. x.out = c.out BY <4>1 DEF SameSamples
      <4>3. x.out = c.out \o FramesAt(q + 1) BY <4>1, <4>2, NoFrameMore
      <4>4. QED BY <4>1, <4>3
    <3>2. CASE ~(q < e[0])
      <4>1. e[0] \in Nat
        <5>1. k \in Nat BY <2>4 DEF Sampling
        <5>2. e \in [0..k -> Nat] BY <2>4, SamplingSo DEF Sums
        <5>3. QED BY <5>1, <5>2
      <4>2. e[0] <= q BY <1>2, <3>2, <4>1
      <4>3. Takes(c, q, e, g, b) BY <2>6, <2>7, <4>2 DEF Takes
      <4>4. Sampling(n, at, g, m, e, k, q) /\ Progress(c, q, e, k) BY <2>4
      <4>5. SampleDone(x, c, b) OBVIOUS
      <4>6. Progress(x, q + 1, e, k) BY <4>3, <4>4, <4>5, SampleTaken
      <4>7. Adds(x, c, q) BY <4>3, <4>4, <4>5, SampleTaken
      <4>8. QED BY <4>6, <4>7 DEF Adds
    <3>3. QED BY <3>1, <3>2
  <2>9. Progress(d, q + 1, e, k) BY <1>10, <2>8, ProgressSame
  <2>10. Knows(d, at, g, m, q + 1)
    <3>1. ~MdatBeginsAt(i, p) BY <1>2, <1>7, <1>8 DEF MdatBeginsAt
    <3>2. QED BY <1>11, <2>4, <3>1, KnowsStays
  <2>11. Sampled(d, n, at, g, m, q + 1) BY <2>2, <2>3, <2>4, <2>9, <2>10 DEF Sampled
  <2>12. SamplesOf(d, n, at, g, q + 1) BY <1>4, <1>9, <1>12, <2>11 DEF SamplesOf
  <2>13. QED BY <1>12, <2>8, <2>12 DEF Goes, SamplesAt
<1>15. QED BY <1>13, <1>14

(* A byte more of a segment, that the demultiplexer takes.                 *)
MediaAt(c, n, at, q) == c.pos = q /\ InBoxes(c, n, at, q) /\ SamplesAt(c, n, at, q)

MediaTakes(d, c, b, q) ==
  b = FileBytes(file)[q + 1] /\ c \in FmGood /\ ~c.error /\ d = FmByte(c, b) /\ ~d.error

LEMMA MediaMoves ==
  ASSUME NEW n, NEW at, Segment(n, at), NEW q \in Nat, q < at[n],
         NEW c, MediaAt(c, n, at, q), NEW b, NEW d, MediaTakes(d, c, b, q)
  PROVE  MediaAt(d, n, at, q + 1) /\ Adds(d, c, q)
<1> USE DEF Adds
<1>1. b = FileBytes(file)[q + 1] /\ c \in FmGood /\ ~c.error /\ d = FmByte(c, b) /\ ~d.error
  BY DEF MediaTakes
<1> USE <1>1
<1>2. c.pos = q /\ InBoxes(c, n, at, q) /\ SamplesAt(c, n, at, q) BY DEF MediaAt
<1>3. PICK i \in 1..n, p \in Nat :
        q = at[i - 1] + p /\ p + 1 <= BoxLength(file[i]) /\ Here(c, b, file[i], p)
  BY <1>2, HereSo
<1>4. /\ file \in Seq(FmBoxes) /\ n \in Nat /\ n = Len(file) BY DEF Segment
<1>5. PICK k \in FmBoxes : k = file[i] BY <1>4
<1>6. PICK h \in {2, 4} : h = HeaderOf(k) BY <1>5, BoxLengthIs
<1>7. PICK l \in Nat : l = k.n /\ BoxLength(k) = h + l BY <1>5, <1>6, BoxLengthIs DEF FmBoxes
<1>8. ByteIn(n, at, i, p, q)
  <2>1. p < h + l BY <1>3, <1>5, <1>7
  <2>2. QED BY <1>3, <1>5, <1>7, <2>1 DEF ByteIn
<1>9. q + 1 <= Len(FileBytes(file))
  <2>1. Placed(file, at) BY <1>4, BoxesEndSo DEF Segment
  <2>2. p + 1 \in 1..BoxLength(file[i]) BY <1>3, <1>5, <1>7
  <2>3. PICK t : t = p + 1 OBVIOUS
  <2>4. at[i - 1] + t \in 1..Len(FileBytes(file)) BY <1>4, <2>1, <2>2, <2>3, Zenon DEF Placed
  <2>5. PICK a \in Nat : a = at[i - 1]
    <3>1. BoxesEnd(file, at, n) BY <1>8, ByteInSo
    <3>2. i - 1 \in 0..n BY <1>4
    <3>3. QED BY <3>1, <3>2 DEF BoxesEnd
  <2>6. a + t = q + 1 BY <1>3, <2>3, <2>5
  <2>7. QED BY <2>4, <2>5, <2>6
<1>10. MovesOn(d, c, k, p) /\ Goes(d, c, n, at, q)
  <2>1. CASE p < h
    <3>1. /\ MovesOn(d, c, k, p)
          /\ ~(k.type = "mdat" /\ p + 1 = HeaderOf(k) /\ Length(k) # 0) => Stays(d, c)
          /\ k.type = "mdat" /\ p + 1 = HeaderOf(k) /\ Length(k) # 0 => MdatBegins(d, c)
      BY <1>3, <1>4, <1>5, <1>6, <2>1, HeaderMoves
    <3>2. MdatBeginsAt(i, p) => MdatBegins(d, c) BY <1>5, <3>1 DEF MdatBeginsAt
    <3>3. ~MdatBeginsAt(i, p) => Stays(d, c) BY <1>5, <3>1 DEF MdatBeginsAt
    <3>4. SameSamples(d, c) BY <3>2, <3>3 DEF Stays, MdatBegins
    <3>5. ~MdatBeginsAt(i, p) => SameStart(d, c) BY <3>3 DEF Stays
    <3>6. ~InSample(i, p) BY <1>5, <1>6, <2>1 DEF InSample
    <3>7. ~MoofEndsAt(i, p)
      <4>1. SUFFICES ASSUME MoofEndsAt(i, p) PROVE FALSE OBVIOUS
      <4>2. p + 1 = h + l BY <1>5, <1>7, <4>1 DEF MoofEndsAt
      <4>3. l \in 1..FmBox BY <1>5, <1>7, <4>1 DEF MoofEndsAt, Announces
      <4>4. FmBox \in Nat BY FmAssumption DEF FmAssumption
      <4>5. QED BY <2>1, <4>2, <4>3, <4>4
    <3>8. Goes(d, c, n, at, q) BY <1>2, <1>8, <3>2, <3>4, <3>5, <3>6, <3>7, OutsideGoes
    <3>9. QED BY <3>1, <3>8
  <2>2. CASE ~(p < h)
    <3>1. /\ MovesOn(d, c, k, p)
          /\ k.type = "mdat" => \E x : SampleDone(x, c, b) /\ Stays(d, x)
          /\ Announces(k) /\ p + 1 = BoxLength(k) => MoofEnds(d, c, k, p)
          /\ k.type # "mdat" /\ ~(Announces(k) /\ p + 1 = BoxLength(k)) => Stays(d, c)
      BY <1>3, <1>4, <1>5, <1>6, <2>2, BodyMoves
    <3>2. CASE k.type = "mdat"
      <4>1. PICK x : SampleDone(x, c, b) /\ Stays(d, x) BY <3>1, <3>2
      <4>2. InSample(i, p) BY <1>5, <1>6, <2>2, <3>2 DEF InSample
      <4>3. Goes(d, c, n, at, q) BY <1>2, <1>8, <1>9, <4>1, <4>2, SampleGoes
      <4>4. QED BY <3>1, <4>3
    <3>3. CASE MoofEndsAt(i, p)
      <4>1. MoofEnds(d, c, file[i], p) BY <1>5, <3>1, <3>3 DEF MoofEndsAt
      <4>2. Goes(d, c, n, at, q) BY <1>2, <1>8, <3>3, <4>1, MoofGoes
      <4>3. QED BY <3>1, <4>2
    <3>4. CASE k.type # "mdat" /\ ~MoofEndsAt(i, p)
      <4>1. Stays(d, c) BY <1>5, <3>1, <3>4 DEF MoofEndsAt
      <4>2. SameSamples(d, c) /\ SameStart(d, c) BY <4>1 DEF Stays
      <4>3. ~InSample(i, p) /\ ~MdatBeginsAt(i, p) BY <1>5, <3>4 DEF InSample, MdatBeginsAt
      <4>4. Goes(d, c, n, at, q) BY <1>2, <1>8, <3>4, <4>2, <4>3, OutsideGoes
      <4>5. QED BY <3>1, <4>4
    <3>5. QED BY <3>2, <3>3, <3>4
  <2>3. QED BY <2>1, <2>2
<1>11. MovesOn(d, c, file[i], p) BY <1>5, <1>10
<1>12. InBoxes(d, n, at, q + 1) BY <1>3, <1>11, InBoxesNext
<1>13. d.pos = q + 1 BY <1>2, <1>11 DEF MovesOn
<1>14. SamplesAt(d, n, at, q + 1) /\ d.out = c.out \o FramesAt(q + 1) BY <1>10 DEF Goes
<1>15. QED BY <1>12, <1>13, <1>14 DEF MediaAt

(* The frames of what has been heard.                                      *)
Stretches == {FramesAt(x)[1] : x \in Int} \cup Seq(BoxBytes)
FramesTo(q) == FlattenSeq([j \in 1..q |-> FramesAt(j)])

LEMMA FramesAtType ==
  ASSUME NEW q \in Int
  PROVE  FramesAt(q) \in Seq(Stretches)
<1> DEFINE ending == {n \in 1..FmFrame :
                        \E b \in 1..Len(file) : \E i \in 1..Len(file[b].sizes) :
                          Announces(file[b]) /\ file[b].sizes[i] = n /\ SampleEnds(file, b)[i] = q}
           n == CHOOSE n \in ending : TRUE
<1>1. FramesAt(q) = IF ending = {} THEN <<>> ELSE <<SubSeq(FileBytes(file), q - n + 1, q)>>
  BY Zenon DEF FramesAt
<1>2. CASE ending = {}
  <2>1. FramesAt(q) = <<>> BY <1>1, <1>2
  <2>2. QED BY <2>1, EmptySeq
<1>3. CASE ending # {}
  <2>1. n \in ending BY <1>3
  <2>2. FmFrame \in Nat BY FmAssumption DEF FmAssumption
  <2>3. n \in Nat BY <2>1, <2>2
  <2> HIDE DEF n
  <2>4. PICK a \in Int : a = q - n + 1 BY <2>3
  <2>5. FramesAt(q) = <<SubSeq(FileBytes(file), a, q)>> BY <1>1, <1>3, <2>4
  <2>6. PICK v : v = SubSeq(FileBytes(file), a, q) OBVIOUS
  <2>7. FramesAt(q)[1] = v BY <2>5, <2>6
  <2>8. v \in Stretches BY <2>7 DEF Stretches
  <2>9. <<v>> \in Seq(Stretches) BY <2>8
  <2>10. QED BY <2>5, <2>6, <2>9
<1>4. QED BY <1>2, <1>3

LEMMA FramesGrow ==
  ASSUME NEW q \in Nat
  PROVE  FramesTo(q) \in Seq(Stretches) /\ FramesTo(q + 1) = FramesTo(q) \o FramesAt(q + 1) /\ FramesTo(0) = <<>>
<1> DEFINE s(k) == [j \in 1..k |-> FramesAt(j)]
<1>1. \A k \in Nat : s(k) \in [1..k -> Seq(Stretches)] BY FramesAtType
<1>2. \A k \in Nat : FramesTo(k) = FlattenSeq(s(k)) BY DEF FramesTo
<1> DEFINE H(k) == \E f : Stages(f, Stretches, s(k), k) /\ FramesTo(k) = f[k]
<1>3. PICK m \in Nat : m = q + 1 OBVIOUS
<1>4. \A j \in 1..m : s(m)[j] = FramesAt(j) OBVIOUS
<1>5. \A j \in 1..q : s(q)[j] = FramesAt(j) OBVIOUS
<1> HIDE DEF s
<1>6. ASSUME NEW k \in Nat PROVE H(k)
  <2>1. s(k) \in [1..k -> Seq(Stretches)] BY <1>1
  <2>2. PICK f : Stages(f, Stretches, s(k), k) /\ FlattenSeq(s(k)) = f[k]
    BY <2>1, FlattenStages
  <2>3. FramesTo(k) = f[k] BY <1>2, <2>2
  <2>4. QED BY <2>2, <2>3
<1>7. PICK f : Stages(f, Stretches, s(m), m) /\ FramesTo(m) = f[m] BY <1>6
<1>8. PICK g : Stages(g, Stretches, s(q), q) /\ FramesTo(q) = g[q] BY <1>6
<1>9. f[q] = g[q]
  <2>1. q \in 0..m BY <1>3
  <2>2. \A i \in 1..q : s(q)[i] = s(m)[i] BY <1>3, <1>4, <1>5
  <2>3. q <= q OBVIOUS
  <2>4. QED BY <1>7, <1>8, <2>1, <2>2, <2>3, StagesSame
<1>10. f[m] = f[m - 1] \o s(m)[m]
  <2>1. m \in 1..m BY <1>3
  <2>2. QED BY <1>7, <2>1 DEF Stages
<1>11. m - 1 = q /\ m \in 1..m BY <1>3
<1>12. FramesTo(m) = FramesTo(q) \o FramesAt(m)
  <2>1. s(m)[m] = FramesAt(m) BY <1>4, <1>11
  <2>2. QED BY <1>7, <1>8, <1>9, <1>10, <1>11, <2>1, Zenon
<1>13. FramesTo(q) \in Seq(Stretches)
  <2>1. g \in [0..q -> Seq(Stretches)] BY <1>8 DEF Stages
  <2>2. QED BY <1>8, <2>1
<1>14. FramesTo(0) = <<>>
  <2>1. PICK h : Stages(h, Stretches, s(0), 0) /\ FramesTo(0) = h[0] BY <1>6
  <2>2. QED BY <2>1 DEF Stages
<1>15. QED BY <1>3, <1>12, <1>13, <1>14

(* A piece of a segment, that the demultiplexer takes.                     *)
MediaNow(n, at, base, q) ==
  {e \in FmGood : e.error \/ (MediaAt(e, n, at, q) /\ base \o e.out = FramesTo(q))}

LEMMA MediaNext ==
  ASSUME NEW n, NEW at, Segment(n, at), NEW q \in Nat, q < at[n],
         NEW base \in Seq(Stretches), NEW c \in MediaNow(n, at, base, q),
         NEW b, b = FileBytes(file)[q + 1], b \in BytesOf(file)
  PROVE  FmByte(c, b) \in MediaNow(n, at, base, q + 1)
<1>1. PICK d : d = FmByte(c, b) OBVIOUS
<1>2. c \in FmGood /\ (c.error \/ (MediaAt(c, n, at, q) /\ base \o c.out = FramesTo(q)))
  BY DEF MediaNow
<1>3. file \in Seq(FmBoxes) BY DEF Segment
<1>4. d \in FmGood BY <1>1, <1>2, <1>3, FmByteIs DEF FmStep
<1>5. CASE c.error
  <2>1. d = c BY <1>1, <1>5, Zenon DEF FmByte
  <2>2. QED BY <1>1, <1>4, <1>5, <2>1 DEF MediaNow
<1>6. CASE d.error BY <1>1, <1>4, <1>6 DEF MediaNow
<1>7. CASE ~c.error /\ ~d.error
  <2>1. MediaAt(c, n, at, q) /\ base \o c.out = FramesTo(q) BY <1>2, <1>7
  <2>2. MediaAt(d, n, at, q + 1) /\ Adds(d, c, q)
    <3>1. MediaTakes(d, c, b, q) BY <1>1, <1>2, <1>7 DEF MediaTakes
    <3>2. QED BY <2>1, <3>1, MediaMoves
  <2>3. PICK x \in Seq(Stretches) : x = c.out
    <3>1. c.out \in Seq(Seq(BoxBytes)) BY <1>2 DEF FmGood, FmStates
    <3>2. Seq(BoxBytes) \subseteq Stretches BY DEF Stretches
    <3>3. PICK S : S = Seq(BoxBytes) OBVIOUS
    <3>4. PICK w \in Seq(S) : w = c.out BY <3>1, <3>3
    <3>5. w \in Seq(Stretches) BY <3>2, <3>3
    <3>6. QED BY <3>4, <3>5
  <2>4. PICK y \in Seq(Stretches) : y = FramesAt(q + 1) BY FramesAtType
  <2>5. base \o (x \o y) = (base \o x) \o y
    <3>1. PICK T : T = Stretches OBVIOUS
    <3>2. base \in Seq(T) /\ x \in Seq(T) /\ y \in Seq(T) BY <3>1
    <3>3. (base \o x) \o y = base \o (x \o y) BY <3>2, ConcatAssociative, SMTT(30)
    <3>4. QED BY <3>3, Zenon
  <2>6. FramesTo(q + 1) = FramesTo(q) \o y BY <2>4, FramesGrow
  <2>7. base \o d.out = FramesTo(q + 1) BY <2>1, <2>2, <2>3, <2>4, <2>5, <2>6, Zenon DEF Adds
  <2>8. QED BY <1>1, <1>4, <2>2, <2>7 DEF MediaNow
<1>8. QED BY <1>5, <1>6, <1>7

LEMMA MediaFed ==
  ASSUME NEW n, NEW at, Segment(n, at), NEW q \in Nat, NEW k \in Nat, q + k <= at[n],
         NEW base \in Seq(Stretches), NEW c \in MediaNow(n, at, base, q),
         NEW s \in Seq(BytesOf(file)), Len(s) = k, \A j \in 1..k : s[j] = FileBytes(file)[q + j]
  PROVE  Fed(c, s) \in MediaNow(n, at, base, q + k)
<1> DEFINE good == [j \in 0..k |-> MediaNow(n, at, base, q + j)]
<1>1. c \in good[0]
  <2>1. 0 \in 0..k /\ q + 0 = q OBVIOUS
  <2>2. good[0] = MediaNow(n, at, base, q + 0) BY <2>1
  <2> HIDE DEF good
  <2>3. QED BY <2>1, <2>2, Zenon
<1>2. at[n] \in Nat
  <2>1. file \in Seq(FmBoxes) /\ n \in Nat /\ n = Len(file) /\ at = BoxEnds(file) BY DEF Segment
  <2>2. BoxesEnd(file, at, n) BY <2>1, BoxesEndSo
  <2>3. n \in 0..n BY <2>1
  <2>4. QED BY <2>2, <2>3 DEF BoxesEnd
<1>3. ASSUME NEW j \in 1..k, NEW d \in good[j - 1] PROVE FmByte(d, s[j]) \in good[j]
  <2>1. PICK x \in Nat : x = q + (j - 1) OBVIOUS
  <2>2. j - 1 \in 0..k /\ j \in 0..k OBVIOUS
  <2>3. d \in MediaNow(n, at, base, x) BY <1>3, <2>1, <2>2
  <2>4. good[j] = MediaNow(n, at, base, x + 1)
    <3>1. q + j = x + 1 BY <2>1
    <3>2. good[j] = MediaNow(n, at, base, q + j) BY <2>2
    <3> HIDE DEF good
    <3>3. QED BY <3>1, <3>2, Zenon
  <2>5. x < at[n] /\ q + j = x + 1 BY <1>2, <2>1
  <2>6. PICK b \in BytesOf(file) : b = s[j] OBVIOUS
  <2>7. b = FileBytes(file)[x + 1] BY <2>5, <2>6
  <2>8. FmByte(d, b) \in MediaNow(n, at, base, x + 1) BY <2>3, <2>5, <2>7, MediaNext
  <2> HIDE DEF good
  <2>9. QED BY <2>4, <2>6, <2>8
<1>4. good[k] = MediaNow(n, at, base, q + k)
  <2>1. k \in 0..k OBVIOUS
  <2>2. QED BY <2>1
<1> HIDE DEF good
<1>5. Fed(c, s) \in good[k] BY <1>1, <1>3, FedHolds
<1>6. QED BY <1>4, <1>5

(* Nothing of it depends on what the sink has been given.                  *)
SameMedia(d, c) ==
  /\ d.st = c.st /\ d.have = c.have /\ d.remain = c.remain /\ d.start = c.start /\ d.pos = c.pos
  /\ d.sizes = c.sizes /\ d.idx = c.idx /\ d.sample = c.sample /\ SameStart(d, c)

LEMMA MediaSame ==
  ASSUME NEW n, NEW at, NEW q, NEW c, MediaAt(c, n, at, q), NEW d, SameMedia(d, c)
  PROVE  MediaAt(d, n, at, q)
<1>1. /\ d.st = c.st /\ d.have = c.have /\ d.remain = c.remain /\ d.start = c.start
      /\ d.pos = c.pos /\ d.sizes = c.sizes /\ d.idx = c.idx /\ d.sample = c.sample
      /\ d.set = c.set /\ d.data = c.data
  BY DEF SameMedia, SameStart
<1>2. c.pos = q /\ InBoxes(c, n, at, q) /\ SamplesAt(c, n, at, q) BY DEF MediaAt
<1>3. InBoxes(d, n, at, q)
  <2>1. \A k, p : BoxAt(c, k, p) => BoxAt(d, k, p) BY <1>1 DEF BoxAt
  <2>2. QED BY <1>2, <2>1 DEF InBoxes
<1>4. PICK g : SamplesOf(c, n, at, g, q) BY <1>2 DEF SamplesAt
<1>5. \A m : Sampled(c, n, at, g, m, q) => Sampled(d, n, at, g, m, q)
  BY <1>1 DEF Sampled, Knows, Progress, SampleTo
<1>6. SamplesOf(d, n, at, g, q) BY <1>1, <1>4, <1>5 DEF SamplesOf
<1>7. SamplesAt(d, n, at, q) BY <1>6 DEF SamplesAt
<1>8. QED BY <1>1, <1>2, <1>3, <1>7 DEF MediaAt

(* Nor on anything but the file.                                           *)
LEMMA MediaStays ==
  ASSUME file' = file, NEW n, NEW at, NEW q, NEW c, MediaAt(c, n, at, q)
  PROVE  MediaAt(c, n, at, q)'
<1>1. c.pos = q /\ InBoxes(c, n, at, q) /\ SamplesAt(c, n, at, q) BY DEF MediaAt
<1>2. InBoxes(c, n, at, q)' BY <1>1 DEF InBoxes
<1>3. PICK g : SamplesOf(c, n, at, g, q) BY <1>1 DEF SamplesAt
<1>4. ASSUME NEW m, Sampled(c, n, at, g, m, q) PROVE Sampled(c, n, at, g, m, q)'
  <2>1. Knows(c, at, g, m, q)' BY <1>4 DEF Sampled, Knows, Content
  <2>2. PICK e : e = SampleEnds(file, g) OBVIOUS
  <2>3. PICK k : k = Len(file[g].sizes) OBVIOUS
  <2>4. Progress(c, q, e, k) BY <1>4, <2>2, <2>3 DEF Sampled
  <2>5. Progress(c, q, e, k)' BY <2>4 DEF Progress, SampleTo
  <2>6. Fragment(file, n, g, m) BY <1>4 DEF Sampled
  <2>7. Fragment(file', n, g, m) BY <2>6
  <2>8. e = SampleEnds(file', g) /\ k = Len(file'[g].sizes) BY <2>2, <2>3
  <2>9. QED BY <2>1, <2>5, <2>7, <2>8 DEF Sampled
<1>5. SamplesOf(c, n, at, g, q)' BY <1>3, <1>4 DEF SamplesOf
<1>6. SamplesAt(c, n, at, q)' BY <1>5 DEF SamplesAt
<1>7. QED BY <1>1, <1>2, <1>6 DEF MediaAt

LEMMA FramesStay ==
  ASSUME file' = file, NEW q
  PROVE  FramesTo(q)' = FramesTo(q)
<1>1. \A j : FramesAt(j)' = FramesAt(j) BY DEF FramesAt
<1>2. QED BY <1>1 DEF FramesTo

(* Where the demultiplexer is in a segment, behind q bytes, and that it    *)
(* begins every segment anew.                                              *)
Fresh(c) == c.st = "hdr" /\ c.have = 0 /\ c.pos = 0 /\ c.sizes = <<>>
FmPlace(q) ==
  /\ q \in Nat /\ q <= Len(FileBytes(file)) /\ coming = Received(FileBytes(file), q)
  /\ MediaAt(fm, Len(file), BoxEnds(file), q) /\ frames = FramesTo(q)
FmFollows ==
  /\ fm.out = <<>> /\ ~fm.error
  /\ what # "media" => Fresh(fm)
  /\ what = "media" /\ ~failed => \E q : FmPlace(q)
FmFramesInv == FmInv /\ FmFollows
FmBegun == file \in FmSegments /\ Fresh(fm) /\ coming = FileBytes(file) /\ frames = <<>>

LEMMA SegmentSo ==
  ASSUME file \in FmSegments
  PROVE  /\ Segment(Len(file), BoxEnds(file)) /\ BoxesEnd(file, BoxEnds(file), Len(file))
         /\ Len(file) \in Nat /\ Len(FileBytes(file)) = BoxEnds(file)[Len(file)]
         /\ FileBytes(file) \in Seq(BytesOf(file)) /\ file \in Seq(FmBoxes)
<1>1. FmSegments \subseteq Seq(FmBoxes) /\ \A i \in 1..Len(file) : file[i].type # "moov"
  BY FmAssumption DEF FmAssumption
<1>2. Fragmented(file) BY FmFragments DEF FmFragments
<1>3. PICK f \in Seq(FmBoxes) : f = file BY <1>1
<1>4. PICK n \in Nat : n = Len(f) OBVIOUS
<1>5. Placed(f, BoxEnds(f)) /\ BoxesEnd(f, BoxEnds(f), n) BY <1>4, BoxesEndSo
<1>6. FileBytes(f) \in Seq(BytesOf(f)) BY FileBytesAre
<1>7. Len(FileBytes(f)) = BoxEnds(f)[Len(f)] BY <1>5 DEF Placed
<1>8. Segment(n, BoxEnds(f)) BY <1>1, <1>2, <1>3, <1>4 DEF Segment
<1>9. QED BY <1>3, <1>4, <1>5, <1>6, <1>7, <1>8

LEMMA FmBegins == FmBegun => FmPlace(0)
<1> SUFFICES ASSUME FmBegun PROVE FmPlace(0) OBVIOUS
<1>1. file \in FmSegments /\ Fresh(fm) /\ coming = FileBytes(file) /\ frames = <<>>
  BY DEF FmBegun
<1>2. PICK n \in Nat : n = Len(file) BY <1>1, SegmentSo
<1>3. PICK at : at = BoxEnds(file) OBVIOUS
<1>4. /\ BoxesEnd(file, at, n) /\ FileBytes(file) \in Seq(BytesOf(file))
      /\ file \in Seq(FmBoxes)
  BY <1>1, <1>2, <1>3, SegmentSo
<1>5. /\ at \in [0..n -> Nat] /\ at[0] = 0
      /\ \A h \in 1..n : /\ at[h] = at[h - 1] + BoxLength(file[h])
                         /\ BoxLength(file[h]) \in Nat /\ HeaderOf(file[h]) \in {2, 4}
                         /\ HeaderOf(file[h]) <= BoxLength(file[h])
  BY <1>4 DEF BoxesEnd
<1>6. fm.st = "hdr" /\ fm.have = 0 /\ fm.pos = 0 /\ fm.sizes = <<>> BY <1>1 DEF Fresh
<1>7. InBoxes(fm, n, at, 0)
  <2>1. SUFFICES ASSUME NEW i \in 1..n, NEW p \in Nat, 0 = at[i - 1] + p
                 PROVE  BoxAt(fm, file[i], p)
    BY DEF InBoxes
  <2>2. i - 1 \in 0..n OBVIOUS
  <2>3. PICK a \in Nat : a = at[i - 1] BY <1>5, <2>2
  <2>4. p = 0 BY <2>1, <2>3
  <2>5. PICK h \in {2, 4} : h = HeaderOf(file[i]) BY <1>5
  <2>6. p < h BY <2>4
  <2>7. QED BY <1>6, <2>4, <2>5, <2>6 DEF BoxAt
<1>8. Latest(file, n, at, 0, 0)
  <2>1. ASSUME NEW h \in (0 + 1)..n PROVE 0 < at[h]
    <3>1. h \in 1..n /\ h - 1 \in 0..n OBVIOUS
    <3>2. PICK a \in Nat : a = at[h - 1] BY <1>5, <3>1
    <3>3. PICK l \in Nat : l = BoxLength(file[h]) /\ at[h] = a + l BY <1>5, <3>1, <3>2
    <3>4. PICK b \in {2, 4} : b = HeaderOf(file[h]) BY <1>5, <3>1
    <3>5. b <= l BY <1>5, <3>1, <3>3, <3>4
    <3>6. QED BY <3>2, <3>3, <3>5
  <2>2. 0 \in 0..n OBVIOUS
  <2>3. QED BY <2>1, <2>2 DEF Latest
<1>9. SamplesAt(fm, n, at, 0)
  <2>1. SamplesOf(fm, n, at, 0, 0) BY <1>6, <1>8 DEF SamplesOf
  <2>2. QED BY <2>1 DEF SamplesAt
<1>10. MediaAt(fm, n, at, 0) BY <1>6, <1>7, <1>9 DEF MediaAt
<1>11. frames = FramesTo(0) BY <1>1, FramesGrow
<1>12. coming = Received(FileBytes(file), 0) /\ 0 <= Len(FileBytes(file))
  <2>1. PICK s \in Seq(BytesOf(file)) : s = FileBytes(file) BY <1>4
  <2>2. Len(s) \in Nat /\ SubSeq(s, 1, Len(s)) = s OBVIOUS
  <2>3. 0 + 1 = 1 OBVIOUS
  <2>4. QED BY <1>1, <2>1, <2>2, <2>3 DEF Received
<1>13. QED BY <1>2, <1>3, <1>10, <1>11, <1>12 DEF FmPlace

LEMMA FmBeginsNext == FmBegun' => FmPlace(0)'
  BY FmBegins, PTL

LEMMA FmFollowsFirst == FmInit => FmFollows
<1> SUFFICES ASSUME FmInit PROVE FmFollows OBVIOUS
<1>1. /\ fm.st = "hdr" /\ fm.have = 0 /\ fm.pos = 0 /\ fm.sizes = <<>> /\ fm.out = <<>>
      /\ fm.error = FALSE /\ what = "none"
  BY DEF FmInit
<1>2. QED BY <1>1 DEF FmFollows, Fresh

LEMMA FmFetchFollows ==
  ASSUME FmFollows, FmFetch PROVE FmFollows'
<1>1. /\ what = "none" /\ frames' = <<>> /\ coming' = FileBytes(file') /\ fm' = fm
      /\ what' = "init" \/ (what' = "media" /\ file' \in FmSegments)
  BY DEF FmFetch
<1>2. fm.out = <<>> /\ ~fm.error /\ Fresh(fm) BY <1>1 DEF FmFollows
<1>3. fm'.out = <<>> /\ ~fm'.error /\ Fresh(fm') BY <1>1, <1>2
<1>4. what' = "media" => FmBegun' BY <1>1, <1>3 DEF FmBegun
<1>5. what' = "media" => FmPlace(0)' BY <1>4, FmBeginsNext
<1>6. what' = "media" => \E q : FmPlace(q)' BY <1>5
<1>7. QED BY <1>3, <1>6 DEF FmFollows

(* A state that has been reset is one to begin with.                       *)
LEMMA FmResetFresh ==
  ASSUME NEW c \in FmStates
  PROVE  Fresh(FmReset(c)) /\ FmReset(c).out = c.out /\ FmReset(c).error = c.error
<1>1. PICK d : d = FmReset(c) OBVIOUS
<1>2. d = [c EXCEPT !.st = "hdr", !.have = 0, !.pos = 0, !.sizes = <<>>, !.idx = 1,
                    !.sample = <<>>, !.set = FALSE]
  BY <1>1 DEF FmReset
<1>3. /\ d.st = "hdr" /\ d.have = 0 /\ d.pos = 0 /\ d.sizes = <<>> /\ d.out = c.out
      /\ d.error = c.error
  BY <1>2 DEF FmStates
<1>4. QED BY <1>1, <1>3 DEF Fresh

(* What the next piece begins with.                                        *)
LEMMA SettleSame ==
  ASSUME NEW c \in FmStates, Settle(c)
  PROVE  /\ SameMedia(fm', c) /\ fm'.out = <<>> /\ ~fm'.error
         /\ frames' = frames \o c.out /\ failed' = c.error
<1>1. PICK d : d = fm' OBVIOUS
<1>2. d = [c EXCEPT !.out = <<>>, !.error = FALSE] BY <1>1 DEF Settle
<1>3. /\ d.st = c.st /\ d.have = c.have /\ d.remain = c.remain /\ d.start = c.start
      /\ d.pos = c.pos /\ d.sizes = c.sizes /\ d.idx = c.idx /\ d.sample = c.sample
      /\ d.set = c.set /\ d.data = c.data /\ d.out = <<>> /\ d.error = FALSE
  BY <1>2 DEF FmStates
<1>4. SameMedia(d, c) BY <1>3 DEF SameMedia, SameStart
<1>5. frames' = frames \o c.out /\ failed' = c.error BY DEF Settle
<1>6. QED BY <1>1, <1>3, <1>4, <1>5

LEMMA FmInitFollows ==
  ASSUME FmInv, FmFeedInit PROVE FmFollows'
<1>1. FmTypes BY DEF FmInv
<1>2. what = "init" /\ what' = what /\ file' = file BY DEF FmFeedInit
<1>3. PICK n \in 1..FmReceive :
        /\ Comes(n)
        /\ LET c == Fed(FmReset(fm), Taken(n)) IN Settle(FmReset(c))
  BY DEF FmFeedInit
<1>4. PICK d : d = Fed(FmReset(fm), Taken(n)) /\ Settle(FmReset(d)) BY <1>3
<1>5. file \in Seq(FmBoxes) /\ coming \in Seq(BytesOf(file)) /\ fm \in FmGood
  BY <1>1 DEF FmTypes
<1>6. Taken(n) \in Seq(BytesOf(file)) BY <1>3, <1>5, Piece
<1>7. PICK c \in FmGood : c = FmReset(fm) BY <1>5, FmResetIs
<1>8. d \in FmGood BY <1>4, <1>5, <1>6, <1>7, FedTypes
<1>9. PICK e \in FmGood : e = FmReset(d) BY <1>8, FmResetIs
<1>10. d \in FmStates /\ e \in FmStates BY <1>8, <1>9 DEF FmGood
<1>11. Fresh(e) BY <1>9, <1>10, FmResetFresh
<1>12. SameMedia(fm', e) /\ fm'.out = <<>> /\ ~fm'.error BY <1>4, <1>9, <1>10, SettleSame
<1>13. Fresh(fm') BY <1>11, <1>12 DEF Fresh, SameMedia
<1>14. QED BY <1>2, <1>12, <1>13 DEF FmFollows

LEMMA FmMediaFollows ==
  ASSUME FmInv, FmFollows, FmFeed PROVE FmFollows'
<1>1. FmTypes /\ FmConfigures BY DEF FmInv
<1>2. what = "media" /\ ~failed /\ what' = what /\ file' = file BY DEF FmFeed
<1>3. PICK k \in 1..FmReceive : Comes(k) /\ Settle(Fed(fm, Taken(k))) BY DEF FmFeed
<1>4. FmReceive \in Nat BY FmAssumption DEF FmAssumption
<1>5. k \in Nat /\ k <= Len(coming) /\ coming' = SubSeq(coming, k + 1, Len(coming))
  BY <1>3, <1>4 DEF Comes
<1>6. fm \in FmGood /\ fm.out = <<>> /\ ~fm.error BY <1>1 DEF FmTypes, FmFollows
<1>7. file \in FmSegments BY <1>1, <1>2 DEF FmConfigures
<1>8. PICK q : FmPlace(q) BY <1>2 DEF FmFollows
<1>9. /\ q \in Nat /\ q <= Len(FileBytes(file)) /\ coming = Received(FileBytes(file), q)
      /\ MediaAt(fm, Len(file), BoxEnds(file), q) /\ frames = FramesTo(q)
  BY <1>8 DEF FmPlace
<1>10. PICK n \in Nat : n = Len(file) BY <1>7, SegmentSo
<1>11. PICK at : at = BoxEnds(file) OBVIOUS
<1>12. PICK z \in Nat : z = Len(FileBytes(file)) /\ z = at[n]
  <2>1. FileBytes(file) \in Seq(BytesOf(file)) BY <1>7, SegmentSo
  <2>2. Len(FileBytes(file)) \in Nat BY <2>1
  <2>3. QED BY <1>7, <1>10, <1>11, <2>2, SegmentSo
<1>13. Segment(n, at) BY <1>7, <1>10, <1>11, SegmentSo
<1>14. PICK s \in Seq(BytesOf(file)) :
         /\ s = Taken(k) /\ Len(s) = k /\ \A j \in 1..k : s[j] = FileBytes(file)[q + j]
         /\ coming' = Received(FileBytes(file), q + k) /\ q + k <= z
  <2>1. PICK w \in Seq(BytesOf(file)) : w = FileBytes(file) BY <1>7, SegmentSo
  <2>2. PICK r : r = coming /\ r = Received(w, q) BY <1>9, <2>1
  <2>3. z = Len(w) /\ q <= z BY <1>9, <1>12, <2>1
  <2>4. PICK S : S = BytesOf(file) /\ w \in Seq(S) BY <2>1
  <2>5. TakenOf(S, r, w, q, k, z) BY <1>5, <1>9, <2>2, <2>3, <2>4, ReceivedPart
  <2>6. /\ r \in Seq(S) /\ Len(r) = z - q
        /\ k <= z - q => /\ Len(SubSeq(r, 1, k)) = k
                         /\ \A j \in 1..k : SubSeq(r, 1, k)[j] = w[q + j]
                         /\ SubSeq(r, k + 1, Len(r)) = Received(w, q + k)
    BY <2>5 DEF TakenOf
  <2>7. k <= z - q BY <1>5, <2>2, <2>6
  <2>8. SubSeq(r, 1, k) \in Seq(S)
    <3>1. k <= Len(r) BY <2>6, <2>7
    <3>2. QED BY <1>5, <2>6, <3>1
  <2>9. q + k <= z BY <1>5, <1>9, <2>7
  <2>10. Taken(k) = SubSeq(r, 1, k) BY <2>2 DEF Taken
  <2>11. coming' = Received(w, q + k) BY <1>5, <2>2, <2>6, <2>7
  <2>12. QED BY <2>1, <2>4, <2>6, <2>7, <2>8, <2>9, <2>10, <2>11
<1>15. PICK base \in Seq(Stretches) : base = frames /\ base = FramesTo(q)
  <2>1. FramesTo(q) \in Seq(Stretches) BY <1>9, FramesGrow
  <2>2. QED BY <1>9, <2>1
<1>16. fm \in MediaNow(n, at, base, q)
  <2>1. base \o <<>> = base BY ConcatEmptySeq
  <2>2. base \o fm.out = FramesTo(q) BY <1>6, <1>15, <2>1, Zenon
  <2>3. QED BY <1>6, <1>9, <1>10, <1>11, <2>2 DEF MediaNow
<1>17. PICK d : d = Fed(fm, s) OBVIOUS
<1>18. d \in MediaNow(n, at, base, q + k)
  <2>1. q + k <= at[n] BY <1>12, <1>14
  <2>2. QED BY <1>5, <1>9, <1>13, <1>14, <1>16, <1>17, <2>1, MediaFed
<1>19. d \in FmGood /\ (d.error \/ (MediaAt(d, n, at, q + k) /\ base \o d.out = FramesTo(q + k)))
  BY <1>18 DEF MediaNow
<1>20. d \in FmStates /\ Settle(d)
  <2>1. d \in FmStates BY <1>19 DEF FmGood
  <2>2. Settle(d) BY <1>3, <1>14, <1>17
  <2>3. QED BY <2>1, <2>2
<1>21. /\ SameMedia(fm', d) /\ fm'.out = <<>> /\ ~fm'.error
       /\ frames' = frames \o d.out /\ failed' = d.error
  BY <1>20, SettleSame
<1>22. ASSUME ~failed' PROVE FmPlace(q + k)'
  <2>1. PICK x \in Nat : x = q + k BY <1>5, <1>9
  <2>2. MediaAt(d, n, at, x) /\ base \o d.out = FramesTo(x) BY <1>19, <1>21, <1>22, <2>1
  <2>3. PICK e : e = fm' OBVIOUS
  <2>4. MediaAt(e, n, at, x) BY <1>21, <2>2, <2>3, MediaSame
  <2>5. MediaAt(e, n, at, x)' BY <1>2, <2>4, MediaStays
  <2>6. frames' = FramesTo(x) BY <1>15, <1>21, <2>2
  <2>7. FramesTo(x)' = FramesTo(x) BY <1>2, FramesStay
  <2>8. MediaAt(fm, Len(file), BoxEnds(file), x)' BY <1>2, <1>10, <1>11, <2>3, <2>5
  <2>9. coming' = Received(FileBytes(file'), x) BY <1>2, <1>14, <2>1
  <2>10. x <= Len(FileBytes(file')) BY <1>2, <1>12, <1>14, <2>1
  <2>11. FmPlace(x)' BY <2>6, <2>7, <2>8, <2>9, <2>10 DEF FmPlace
  <2>12. QED BY <2>1, <2>11
<1>23. ~failed' => \E x : FmPlace(x)' BY <1>22
<1>24. QED BY <1>2, <1>21, <1>23 DEF FmFollows

LEMMA FmFollowsNext == FmFramesInv /\ [FmNext]_fmVars => FmFramesInv'
<1> SUFFICES ASSUME FmFramesInv, [FmNext]_fmVars PROVE FmFramesInv' OBVIOUS
<1>1. FmInv /\ FmFollows BY DEF FmFramesInv
<1>2. FmInv' BY <1>1, FmNexts
<1>3. FmFollows'
  <2>1. CASE FmFetch BY <1>1, <2>1, FmFetchFollows
  <2>2. CASE FmFeedInit BY <1>1, <2>2, FmInitFollows
  <2>3. CASE FmFeed BY <1>1, <2>3, FmMediaFollows
  <2>4. CASE FmInitEnd
    <3>1. what = "init" /\ what' = "none" /\ fm' = fm BY <2>4 DEF FmInitEnd
    <3>2. fm.out = <<>> /\ ~fm.error /\ Fresh(fm) BY <1>1, <3>1 DEF FmFollows
    <3>3. fm'.out = <<>> /\ ~fm'.error /\ Fresh(fm') BY <3>1, <3>2
    <3>4. QED BY <3>1, <3>3 DEF FmFollows
  <2>5. CASE FmSegmentEnd
    <3>1. what' = "none" /\ fm' = FmReset(fm) BY <2>5 DEF FmSegmentEnd
    <3>2. fm \in FmStates BY <1>1 DEF FmInv, FmTypes, FmGood
    <3>3. fm.out = <<>> /\ ~fm.error BY <1>1 DEF FmFollows
    <3>4. fm'.out = <<>> /\ ~fm'.error /\ Fresh(fm') BY <3>1, <3>2, <3>3, FmResetFresh
    <3>5. QED BY <3>1, <3>4 DEF FmFollows
  <2>6. CASE UNCHANGED fmVars
    <3>1. /\ fm' = fm /\ file' = file /\ coming' = coming /\ what' = what
          /\ failed' = failed /\ frames' = frames
      BY <2>6 DEF fmVars
    <3>2. fm'.out = <<>> /\ ~fm'.error /\ (what' # "media" => Fresh(fm'))
      BY <1>1, <3>1 DEF FmFollows
    <3>3. ASSUME what' = "media", ~failed' PROVE \E q : FmPlace(q)'
      <4>1. PICK q : FmPlace(q) BY <1>1, <3>1, <3>3 DEF FmFollows
      <4>2. /\ q \in Nat /\ q <= Len(FileBytes(file))
            /\ coming = Received(FileBytes(file), q)
            /\ MediaAt(fm, Len(file), BoxEnds(file), q) /\ frames = FramesTo(q)
        BY <4>1 DEF FmPlace
      <4>3. PICK c : c = fm OBVIOUS
      <4>4. PICK n : n = Len(file) OBVIOUS
      <4>5. PICK at : at = BoxEnds(file) OBVIOUS
      <4>6. MediaAt(c, n, at, q)' BY <3>1, <4>2, <4>3, <4>4, <4>5, MediaStays
      <4>7. MediaAt(fm, Len(file), BoxEnds(file), q)' BY <3>1, <4>3, <4>4, <4>5, <4>6
      <4>8. frames' = FramesTo(q)' BY <3>1, <4>2, FramesStay
      <4>9. coming' = Received(FileBytes(file'), q) /\ q <= Len(FileBytes(file'))
        BY <3>1, <4>2
      <4>10. FmPlace(q)' BY <4>2, <4>7, <4>8, <4>9 DEF FmPlace
      <4>11. QED BY <4>10
    <3>4. QED BY <3>2, <3>3 DEF FmFollows
  <2>7. QED BY <2>1, <2>2, <2>3, <2>4, <2>5, <2>6 DEF FmNext
<1>4. QED BY <1>2, <1>3 DEF FmFramesInv

(* Wherever a media segment is cut, and after segments that broke off,     *)
(* fmp4_feed gives the sink the samples of the segment's moofs, whole,     *)
(* once and in order, each as soon as its last byte has come; those that   *)
(* are empty, or too long for a frame, it leaves out.                      *)
THEOREM FmFramesHolds == FmSpec => []FmFrames
<1>1. FmInit => FmFramesInv BY FmInitial, FmFollowsFirst DEF FmFramesInv
<1>2. FmFramesInv => FmFrames
  <2>1. SUFFICES ASSUME FmFramesInv, what = "media", ~failed PROVE frames = Frames
    BY DEF FmFrames
  <2>2. PICK q : FmPlace(q) BY <2>1 DEF FmFramesInv, FmFollows
  <2>3. /\ q \in Nat /\ q <= Len(FileBytes(file)) /\ coming = Received(FileBytes(file), q)
        /\ frames = FramesTo(q)
    BY <2>2 DEF FmPlace
  <2>4. file \in FmSegments BY <2>1 DEF FmFramesInv, FmInv, FmConfigures
  <2>5. PICK S : S = BytesOf(file) OBVIOUS
  <2>6. PICK w \in Seq(S) : w = FileBytes(file) BY <2>4, <2>5, SegmentSo
  <2>7. PICK z \in Nat : z = Len(w) OBVIOUS
  <2>8. PICK r : r = coming /\ r = Received(w, q) BY <2>3, <2>6
  <2>9. Len(r) = z - q
    <3>1. q <= z /\ 0 \in Nat BY <2>3, <2>6, <2>7
    <3>2. TakenOf(S, r, w, q, 0, z) BY <2>3, <2>7, <2>8, <3>1, ReceivedPart
    <3>3. QED BY <3>2 DEF TakenOf
  <2>10. Len(FileBytes(file)) - Len(coming) = q
    <3>1. z - (z - q) = q BY <2>3
    <3>2. QED BY <2>6, <2>7, <2>8, <2>9, <3>1
  <2>11. QED BY <2>3, <2>10, Zenon DEF Frames, FramesTo
<1>3. QED BY <1>1, <1>2, FmFollowsNext, PTL DEF FmSpec

-----------------------------------------------------------------------------
(* The parts together.                                                     *)

(* A part that is not at work begins in one of its own initial states, and *)
(* stays in it.                                                            *)
LEMMA UsedOf ==
  ASSUME NEW p, NEW all
  PROVE  Used(p, all) \subseteq all
BY DEF Used

LEMMA StreamsInitParts ==
  ASSUME StreamsInit
  PROVE  Init /\ ChunkInit /\ HttpInit /\ TsInit /\ FmInit /\ HlsInit
<1>1. Init
  <2>1. IcyStarts(Used("icy", [1..BLOCKS -> Lengths])) BY DEF StreamsInit
  <2>2. Used("icy", [1..BLOCKS -> Lengths]) \subseteq [1..BLOCKS -> Lengths] BY UsedOf
  <2>3. QED BY <2>1, <2>2 DEF Init, IcyStarts
<1>2. ChunkInit
  <2>1. ChunkStarts(Used("chunked", ChunkLists), Used("chunked", BOOLEAN)) BY DEF StreamsInit
  <2>2. Used("chunked", ChunkLists) \subseteq ChunkLists BY UsedOf
  <2>3. Used("chunked", BOOLEAN) \subseteq BOOLEAN BY UsedOf
  <2>4. QED BY <2>1, <2>2, <2>3 DEF ChunkInit, ChunkStarts
<1>3. HlsInit
  <2>1. HlsStarts(Used("hls", 1..HlsLast), Used("hls", HlsMaps), Used("hls", HlsTimelines))
    BY DEF StreamsInit
  <2>2. Used("hls", 1..HlsLast) \subseteq 1..HlsLast BY UsedOf
  <2>3. Used("hls", HlsMaps) \subseteq HlsMaps BY UsedOf
  <2>4. Used("hls", HlsTimelines) \subseteq HlsTimelines BY UsedOf
  <2>5. QED BY <2>1, <2>2, <2>3, <2>4 DEF HlsInit, HlsStarts
<1>4. QED BY <1>1, <1>2, <1>3 DEF StreamsInit

LEMMA StreamsNextParts ==
  ASSUME [StreamsNext]_streamsVars
  PROVE  /\ [Next]_vars /\ [ChunkNext]_chunkVars /\ [HttpNext]_httpVars
         /\ [TsNext]_tsVars /\ [FmNext]_fmVars /\ [HlsNext]_hlsVars
BY Zenon DEF StreamsNext, streamsVars

(* Each part of Streams behaves as its own specification says, which is    *)
(* what its theorems are about: what is proved of a part holds in the      *)
(* composite.                                                              *)
THEOREM StreamsPartsHold ==
  StreamsSpec => Spec /\ ChunkSpec /\ HttpSpec /\ TsSpec /\ FmSpec /\ HlsSpec
<1>1. QED
  BY StreamsInitParts, StreamsNextParts, PTL
  DEF StreamsSpec, Spec, ChunkSpec, HttpSpec, TsSpec, FmSpec, HlsSpec

(* The variables of the six parsers stay in their domains, whichever is at *)
(* work.                                                                   *)
THEOREM StreamsTypesHold == StreamsSpec => []StreamsTypeOK
<1>1. StreamsTypeOK <=>
        TypeOK /\ ChunkTypeOK /\ HttpTypeOK /\ TsTypeOK /\ FmTypeOK /\ HlsTypeOK
  BY DEF StreamsTypeOK
<1>2. QED
  BY <1>1, StreamsPartsHold, IcyTypesHold, ChunkTypesHold, HttpTypesHold, TsTypesHold,
     FmTypesHold, HlsTypeCorrect, PTL

(* What TLC checks of the parsers holds for any of their constants, of the *)
(* specification that it checks: what each gives away is what was sent, in *)
(* order and once, however it is cut, requests are bounded, a connection   *)
(* that is kept is clean, and segments are heard in order, each with its   *)
(* section.                                                                *)
THEOREM StreamsSafe ==
  StreamsSpec =>
    /\ [](AudioOnly /\ MetadRight /\ ChunkData)
    /\ [](HttpReturnsWhole /\ HttpKeptIsClean /\ HttpAsksAtMost)
    /\ [](TsAudio /\ FmFrames /\ FmConfiguredAtOnce)
    /\ [](HlsSectionRight /\ HlsEndedIsHeard) /\ HlsInOrder
<1>1. QED
  BY StreamsPartsHold, AudioOnlyHolds, MetadRightHolds, ChunkDataHolds, HttpReturnsWholeHolds,
     HttpKeptIsCleanHolds, HttpAsksAtMostHolds, TsAudioHolds, FmFramesHolds,
     FmConfiguredAtOnceHolds, HlsSectionHolds, HlsEndedHolds, HlsInOrderHolds, PTL
===============================================================================
