---------------------------- MODULE Receive_proofs ----------------------------
(***************************************************************************)
(* Proofs about how what is received is taken apart: with metadata blocks  *)
(* between the audio (IcyStream) and in chunks (ChunkedStream), both in    *)
(* webclient.c, and in packets of a transport stream (TsDemux, hls_ts.c).  *)
(* What is sent is put together by FlattenSeq, of any number of blocks,    *)
(* chunks or packets; the layout lemmas say where each of them is, and     *)
(* the invariants say of the place that has been reached what the client,  *)
(* or the demultiplexer, knows there.                                      *)
(***************************************************************************)
EXTENDS IcyStream, ChunkedStream, TsDemux, SequenceTheorems, FiniteSetTheorems,
        WellFoundedInduction, TLAPS

-----------------------------------------------------------------------------
(* A set of numbers that is not empty has a first one, for intervals are   *)
(* well ordered by inclusion; so a set that holds 0 and with every number  *)
(* the next holds all: induction, with a set for the property.             *)
LEMMA FirstIn ==
  ASSUME NEW n \in Nat, NEW T \in SUBSET (1..n), T # {}
  PROVE  \E i \in T : \A j \in T : i <= j
<1> DEFINE F == {1..i : i \in T}
           S == 1..n
<1>1. F \subseteq FiniteSubsetsOf(S)
  <2>1. \A i \in T : 1..i \subseteq S /\ IsFiniteSet(1..i) BY FS_Interval
  <2>2. QED BY <2>1 DEF FiniteSubsetsOf
<1>2. F # {} OBVIOUS
<1>3. IsWellFoundedOn(StrictSubsetOrdering(S), FiniteSubsetsOf(S))
  BY FS_StrictSubsetOrderingWellFounded
<1> HIDE DEF F, S
<1>4. \E x \in F : \A y \in F : ~(<<y, x>> \in StrictSubsetOrdering(S))
  BY <1>1, <1>2, <1>3, WFMin
<1>5. PICK i \in T : \A j \in T : ~(<<1..j, 1..i>> \in StrictSubsetOrdering(S))
  BY <1>4 DEF F
<1>6. ASSUME NEW j \in T, ~(i <= j) PROVE FALSE
  <2>1. i \in 1..n /\ j \in 1..n OBVIOUS
  <2>2. 1..j \subseteq 1..i /\ i \in 1..i /\ i \notin 1..j BY <1>6, <2>1
  <2>3. 1..j \in SUBSET S /\ 1..i \in SUBSET S BY <2>1 DEF S
  <2>4. <<1..j, 1..i>> \in StrictSubsetOrdering(S)
    BY <2>2, <2>3 DEF StrictSubsetOrdering
  <2>5. QED BY <1>5, <2>4
<1>7. QED BY <1>6

LEMMA AllOf ==
  ASSUME NEW T, 0 \in T, \A m \in Nat : m \in T => m + 1 \in T
  PROVE  Nat \subseteq T
<1> SUFFICES ASSUME NEW n \in Nat, n \notin T PROVE FALSE OBVIOUS
<1> DEFINE U == {m \in 1..n : m \notin T}
<1>1. n \in U OBVIOUS
<1>2. U \in SUBSET (1..n) /\ U # {} BY <1>1
<1> HIDE DEF U
<1>3. PICK i \in U : \A j \in U : i <= j BY <1>2, FirstIn
<1>4. i \in 1..n /\ i \notin T BY <1>3 DEF U
<1>5. i - 1 \in Nat /\ i - 1 \notin U BY <1>3, <1>4
<1>6. i - 1 \in T BY <1>4, <1>5 DEF U
<1>7. QED BY <1>4, <1>5, <1>6

(* A sequence of sequences put together: where each of them begins.        *)
Joined(seqs, n, f) ==
  f = [i \in 1..n |-> IF i = 1 THEN seqs[i] ELSE f[i - 1] \o seqs[i]]
Layout(whole, seqs, n, at) ==
  /\ at \in [0..n -> Nat] /\ at[0] = 0 /\ Len(whole) = at[n]
  /\ \A i \in 1..n : at[i] = at[i - 1] + Len(seqs[i])
  /\ \A i \in 1..n : \A k \in 1..Len(seqs[i]) : whole[at[i - 1] + k] = seqs[i][k]

(* What is put together, part after part, exists for any number of parts.  *)
LEMMA JoinedExists ==
  ASSUME NEW n \in Nat, NEW seqs PROVE \E f : Joined(seqs, n, f)
<1> DEFINE T == {m \in Nat : \E f : Joined(seqs, m, f)}
<1>1. 0 \in T
  <2>1. Joined(seqs, 0, [i \in {} |-> 0]) BY DEF Joined
  <2>2. QED BY <2>1
<1>2. ASSUME NEW m \in Nat, m \in T PROVE m + 1 \in T
  <2>1. PICK f : Joined(seqs, m, f) BY <1>2
  <2> DEFINE next == IF m = 0 THEN seqs[1] ELSE f[m] \o seqs[m + 1]
             g == [i \in 1..(m + 1) |-> IF i = m + 1 THEN next ELSE f[i]]
             h == [i \in 1..(m + 1) |-> IF i = 1 THEN seqs[i] ELSE g[i - 1] \o seqs[i]]
  <2>2. ASSUME NEW i \in 1..(m + 1) PROVE g[i] = h[i]
    <3>1. CASE i = m + 1 BY <3>1
    <3>2. CASE i # m + 1
      <4>1. i \in 1..m BY <3>2
      <4>2. f[i] = IF i = 1 THEN seqs[i] ELSE f[i - 1] \o seqs[i]
        BY <2>1, <4>1 DEF Joined
      <4>3. i # 1 => g[i - 1] = f[i - 1] BY <4>1
      <4> HIDE DEF next
      <4>4. g[i] = f[i] BY <3>2
      <4>5. h[i] = IF i = 1 THEN seqs[i] ELSE g[i - 1] \o seqs[i] OBVIOUS
      <4> HIDE DEF g, h
      <4>6. QED BY <4>2, <4>3, <4>4, <4>5
    <3>3. QED BY <3>1, <3>2
  <2>3. g = h
    <3>1. DOMAIN g = 1..(m + 1) /\ DOMAIN h = 1..(m + 1) OBVIOUS
    <3>2. g = [i \in 1..(m + 1) |-> g[i]] /\ h = [i \in 1..(m + 1) |-> h[i]] OBVIOUS
    <3> HIDE DEF g, h
    <3>3. QED BY <2>2, <3>2
  <2>4. Joined(seqs, m + 1, g) BY <2>3 DEF Joined
  <2> HIDE DEF g
  <2>5. QED BY <2>4
<1> HIDE DEF T
<1>3. n \in T BY <1>1, <1>2, AllOf
<1>4. QED BY <1>3 DEF T

(* FlattenSeq is that, of all the parts.                                   *)
LEMMA FlattenJoined ==
  ASSUME NEW seqs, NEW n \in Nat \ {0}, Len(seqs) = n
  PROVE  \E f : Joined(seqs, n, f) /\ FlattenSeq(seqs) = f[n]
<1> DEFINE f == CHOOSE g : g = [i \in 1..Len(seqs) |->
                                  IF i = 1 THEN seqs[i] ELSE g[i - 1] \o seqs[i]]
<1>1. f = [i \in 1..Len(seqs) |-> IF i = 1 THEN seqs[i] ELSE f[i - 1] \o seqs[i]]
  BY JoinedExists DEF Joined
<1>2. FlattenSeq(seqs) = f[Len(seqs)] BY DEF FlattenSeq
<1>3. QED BY <1>1, <1>2 DEF Joined

LEMMA JoinedStep ==
  ASSUME NEW n \in Nat, NEW seqs, NEW f, Joined(seqs, n, f)
  PROVE  \A i \in 1..n : f[i] = IF i = 1 THEN seqs[i] ELSE f[i - 1] \o seqs[i]
  BY DEF Joined

(* It has the elements of the parts, and keeps what it has.                *)
LEMMA JoinedType ==
  ASSUME NEW S, NEW n \in Nat, NEW seqs \in [1..n -> Seq(S)], NEW f, Joined(seqs, n, f)
  PROVE  \A i \in 1..n : f[i] \in Seq(S)
<1>1. \A i \in 1..n : f[i] = IF i = 1 THEN seqs[i] ELSE f[i - 1] \o seqs[i] BY JoinedStep
<1> DEFINE T == {m \in Nat : m \in 1..n => f[m] \in Seq(S)}
<1>2. 0 \in T OBVIOUS
<1>3. ASSUME NEW m \in Nat, m \in T PROVE m + 1 \in T
  <2>1. SUFFICES ASSUME m + 1 \in 1..n PROVE f[m + 1] \in Seq(S) OBVIOUS
  <2>2. seqs[m + 1] \in Seq(S) BY <2>1
  <2>3. CASE m = 0
    <3>1. m + 1 = 1 /\ 1 \in 1..n BY <2>1, <2>3
    <3>2. f[1] = seqs[1] BY <1>1, <3>1
    <3>3. QED BY <2>2, <3>1, <3>2
  <2>4. CASE m # 0
    <3>1. PICK h \in 1..n : h = m + 1 /\ h # 1 /\ h - 1 = m BY <2>1, <2>4
    <3>2. f[h] = f[h - 1] \o seqs[h] BY <1>1, <3>1
    <3>3. m \in 1..n BY <2>1, <2>4
    <3>4. f[m] \in Seq(S) BY <1>3, <3>3
    <3>5. QED BY <2>2, <3>1, <3>2, <3>4
  <2>5. QED BY <2>3, <2>4
<1> HIDE DEF T
<1>4. Nat \subseteq T BY <1>2, <1>3, AllOf
<1>5. QED BY <1>4 DEF T

LEMMA JoinedKeeps ==
  ASSUME NEW S, NEW n \in Nat, NEW seqs \in [1..n -> Seq(S)], NEW f, Joined(seqs, n, f)
  PROVE  \A i \in 1..n : \A k \in 1..Len(f[i]) : \A j \in i..n :
           k \in 1..Len(f[j]) /\ f[j][k] = f[i][k]
<1> SUFFICES ASSUME NEW i \in 1..n, NEW k \in 1..Len(f[i])
             PROVE  \A j \in i..n : k \in 1..Len(f[j]) /\ f[j][k] = f[i][k]
  OBVIOUS
<1>1. \A h \in 1..n : f[h] = IF h = 1 THEN seqs[h] ELSE f[h - 1] \o seqs[h] BY JoinedStep
<1>2. \A h \in 1..n : f[h] \in Seq(S) BY JoinedType
<1> DEFINE T == {m \in Nat : i + m <= n => k \in 1..Len(f[i + m]) /\ f[i + m][k] = f[i][k]}
<1>3. 0 \in T OBVIOUS
<1>4. ASSUME NEW m \in Nat, m \in T PROVE m + 1 \in T
  <2>1. SUFFICES ASSUME i + (m + 1) <= n
                 PROVE  /\ k \in 1..Len(f[i + (m + 1)])
                        /\ f[i + (m + 1)][k] = f[i][k]
    OBVIOUS
  <2>2. PICK j \in 1..n : j = i + m /\ j + 1 = i + (m + 1) /\ j + 1 \in 1..n /\ j + 1 # 1
    BY <2>1
  <2>3. k \in 1..Len(f[j]) /\ f[j][k] = f[i][k] BY <1>4, <2>1, <2>2
  <2>4. f[j + 1] = f[j] \o seqs[j + 1] /\ f[j] \in Seq(S) /\ seqs[j + 1] \in Seq(S)
    <3>1. PICK h \in 1..n : h = j + 1 /\ h # 1 /\ h - 1 = j BY <2>2
    <3>2. f[h] = f[h - 1] \o seqs[h] BY <1>1, <3>1
    <3>3. f[j] \in Seq(S) BY <1>2
    <3>4. QED BY <2>2, <3>1, <3>2, <3>3
  <2> DEFINE g == f[j]
             h == seqs[j + 1]
  <2>5. g \in Seq(S) /\ h \in Seq(S) /\ k \in 1..Len(g) BY <2>3, <2>4
  <2> HIDE DEF g, h
  <2>6. k \in 1..Len(g \o h) /\ (g \o h)[k] = g[k] BY <2>5
  <2>7. k \in 1..Len(f[j + 1]) /\ f[j + 1][k] = f[j][k] BY <2>4, <2>6 DEF g, h
  <2>8. QED BY <2>2, <2>3, <2>7
<1> HIDE DEF T
<1>5. Nat \subseteq T BY <1>3, <1>4, AllOf
<1>6. ASSUME NEW j \in i..n PROVE k \in 1..Len(f[j]) /\ f[j][k] = f[i][k]
  <2>1. j - i \in T BY <1>5
  <2>2. i + (j - i) = j BY <2>1
  <2>3. QED BY <2>1, <2>2 DEF T
<1>7. QED BY <1>6

(* Whatever is put together: each part begins where the one before ends.   *)
LEMMA FlattenLayout ==
  ASSUME NEW S, NEW n \in Nat, NEW seqs \in [1..n -> Seq(S)]
  PROVE  /\ FlattenSeq(seqs) \in Seq(S)
         /\ \E at : Layout(FlattenSeq(seqs), seqs, n, at)
<1>1. seqs \in Seq(Seq(S)) /\ Len(seqs) = n OBVIOUS
<1>2. CASE n = 0
  <2>1. FlattenSeq(seqs) = seqs BY <1>1, <1>2 DEF FlattenSeq
  <2>2. seqs = <<>> BY <1>1, <1>2
  <2> DEFINE at == [i \in 0..0 |-> 0]
  <2>3. Layout(<<>>, seqs, 0, at) BY DEF Layout
  <2>4. QED BY <1>2, <2>1, <2>2, <2>3
<1>3. CASE n # 0
  <2>1. PICK f : Joined(seqs, n, f) /\ FlattenSeq(seqs) = f[n]
    BY <1>1, <1>3, FlattenJoined
  <2>2. \A i \in 1..n : f[i] \in Seq(S) BY <2>1, JoinedType
  <2>3. \A i \in 1..n : f[i] = IF i = 1 THEN seqs[i] ELSE f[i - 1] \o seqs[i]
    BY <2>1, JoinedStep
  <2>4. \A i \in 1..n : \A k \in 1..Len(f[i]) : \A j \in i..n : f[j][k] = f[i][k]
    BY <2>1, JoinedKeeps
  <2> DEFINE at == [i \in 0..n |-> IF i = 0 THEN 0 ELSE Len(f[i])]
  <2>5. /\ at \in [0..n -> Nat] /\ at[0] = 0 /\ at[n] = Len(f[n])
        /\ \A i \in 1..n : at[i] = Len(f[i])
    BY <1>3, <2>2
  <2> HIDE DEF at
  <2>6. ASSUME NEW i \in 1..n
        PROVE  /\ at[i] = at[i - 1] + Len(seqs[i])
               /\ \A k \in 1..Len(seqs[i]) :
                    at[i - 1] + k \in 1..Len(f[i]) /\ f[i][at[i - 1] + k] = seqs[i][k]
    <3>1. seqs[i] \in Seq(S) OBVIOUS
    <3>2. CASE i = 1
      <4>1. f[i] = seqs[i] BY <2>3, <3>2
      <4>2. at[i] = Len(f[i]) /\ at[i - 1] = 0 BY <2>5, <3>2
      <4>3. QED BY <3>1, <4>1, <4>2
    <3>3. CASE i # 1
      <4>1. i - 1 \in 1..n BY <3>3
      <4>2. f[i] = f[i - 1] \o seqs[i] BY <2>3, <3>3
      <4>3. /\ f[i - 1] \in Seq(S)
            /\ at[i] = Len(f[i]) /\ at[i - 1] = Len(f[i - 1])
        BY <2>2, <2>5, <4>1
      <4>4. QED BY <3>1, <4>2, <4>3
    <3>4. QED BY <3>2, <3>3
  <2>7. ASSUME NEW i \in 1..n, NEW k \in 1..Len(seqs[i])
        PROVE  f[n][at[i - 1] + k] = seqs[i][k]
    <3>1. at[i - 1] + k \in 1..Len(f[i]) /\ f[i][at[i - 1] + k] = seqs[i][k] BY <2>6
    <3>2. n \in i..n BY <1>3
    <3>3. \A j \in i..n : f[j][at[i - 1] + k] = f[i][at[i - 1] + k]
      BY <2>4, <3>1
    <3>4. QED BY <3>1, <3>2, <3>3
  <2>8. Layout(f[n], seqs, n, at) BY <2>5, <2>6, <2>7 DEF Layout
  <2>9. f[n] \in Seq(S) BY <1>3, <2>2
  <2>10. QED BY <2>1, <2>8, <2>9
<1>4. QED BY <1>2, <1>3

(* The sequences begin one behind the other ... *)
LEMMA LayoutGrows ==
  ASSUME NEW n \in Nat, NEW whole, NEW seqs, NEW at, Layout(whole, seqs, n, at),
         \A i \in 1..n : Len(seqs[i]) \in Nat
  PROVE  \A i \in 0..n : \A j \in i..n : at[i] <= at[j]
<1> SUFFICES ASSUME NEW i \in 0..n PROVE \A j \in i..n : at[i] <= at[j] OBVIOUS
<1>1. /\ at \in [0..n -> Nat]
      /\ \A h \in 1..n : at[h] = at[h - 1] + Len(seqs[h])
  BY DEF Layout
<1> DEFINE T == {m \in Nat : i + m <= n => at[i] <= at[i + m]}
<1>2. 0 \in T BY <1>1
<1>3. ASSUME NEW m \in Nat, m \in T PROVE m + 1 \in T
  <2> SUFFICES ASSUME i + (m + 1) <= n PROVE at[i] <= at[i + (m + 1)] OBVIOUS
  <2>1. PICK h \in 1..n : h = i + (m + 1) /\ h - 1 = i + m OBVIOUS
  <2>2. at[h] = at[h - 1] + Len(seqs[h]) /\ Len(seqs[h]) \in Nat BY <1>1
  <2>3. at[i] \in Nat /\ at[i + m] \in Nat /\ at[i] <= at[i + m] BY <1>1, <1>3
  <2>4. QED BY <2>1, <2>2, <2>3
<1> HIDE DEF T
<1>4. Nat \subseteq T BY <1>2, <1>3, AllOf
<1>5. ASSUME NEW j \in i..n PROVE at[i] <= at[j]
  <2>1. j - i \in T BY <1>4
  <2>2. i + (j - i) = j OBVIOUS
  <2>3. QED BY <2>1, <2>2 DEF T
<1>6. QED BY <1>5

(* ... and leave nothing out. *)
Covered(whole, seqs, n, at) ==
  \A q \in 1..Len(whole) : \E i \in 1..n : \E k \in 1..Len(seqs[i]) : q = at[i - 1] + k

LEMMA LayoutCovers ==
  ASSUME NEW n \in Nat, NEW whole, NEW seqs, NEW at, Layout(whole, seqs, n, at),
         \A i \in 1..n : Len(seqs[i]) \in Nat
  PROVE  Covered(whole, seqs, n, at)
<1> SUFFICES ASSUME NEW q \in 1..Len(whole)
             PROVE  \E i \in 1..n : \E k \in 1..Len(seqs[i]) : q = at[i - 1] + k
  BY DEF Covered
<1>1. /\ at \in [0..n -> Nat] /\ at[0] = 0 /\ Len(whole) = at[n]
      /\ \A h \in 1..n : at[h] = at[h - 1] + Len(seqs[h])
  BY DEF Layout
<1> DEFINE U == {i \in 1..n : q <= at[i]}
<1>2. n # 0 BY <1>1
<1>3. U \in SUBSET (1..n) /\ U # {}
  <2>1. n \in U BY <1>1, <1>2
  <2>2. QED BY <2>1
<1> HIDE DEF U
<1>4. PICK i \in U : \A j \in U : i <= j BY <1>3, FirstIn
<1>5. i \in 1..n /\ q <= at[i] BY <1>4 DEF U
<1>6. at[i - 1] < q
  <2>1. CASE i = 1 BY <1>1, <2>1
  <2>2. CASE i # 1
    <3>1. i - 1 \in 1..n /\ i - 1 \notin U BY <1>4, <1>5, <2>2
    <3>2. ~(q <= at[i - 1]) BY <3>1 DEF U
    <3>3. at[i - 1] \in Nat BY <1>1, <3>1
    <3>4. QED BY <3>2, <3>3
  <2>3. QED BY <2>1, <2>2
<1>7. PICK k \in Nat : k = q - at[i - 1] BY <1>1, <1>5, <1>6
<1>8. k \in 1..Len(seqs[i]) /\ q = at[i - 1] + k
  <2>1. at[i - 1] \in Nat /\ at[i] = at[i - 1] + Len(seqs[i]) /\ Len(seqs[i]) \in Nat BY <1>1, <1>5
  <2>2. QED BY <1>5, <1>6, <1>7, <2>1
<1>9. QED BY <1>5, <1>8

(* What is cut out of a sequence. *)
LEMMA PartOf ==
  ASSUME NEW S, NEW s \in Seq(S), NEW a \in Nat, NEW n \in Nat, a + n <= Len(s)
  PROVE  /\ SubSeq(s, a + 1, a + n) \in Seq(S) /\ Len(SubSeq(s, a + 1, a + n)) = n
         /\ \A i \in 1..n : SubSeq(s, a + 1, a + n)[i] = s[a + i]
  OBVIOUS

IsPart(x, s, a, n) == Len(x) = n /\ DOMAIN x = 1..n /\ \A i \in 1..n : x[i] = s[a + i]
LEMMA PartSays ==
  ASSUME NEW S, NEW s \in Seq(S), NEW a \in Nat, NEW n \in Nat, a + n <= Len(s),
         NEW x, x = SubSeq(s, a + 1, a + n)
  PROVE  x \in Seq(S) /\ IsPart(x, s, a, n)
<1>1. /\ SubSeq(s, a + 1, a + n) \in Seq(S) /\ Len(SubSeq(s, a + 1, a + n)) = n
      /\ \A i \in 1..n : SubSeq(s, a + 1, a + n)[i] = s[a + i]
  BY PartOf
<1>2. x \in Seq(S) /\ Len(x) = n /\ \A i \in 1..n : x[i] = s[a + i] BY <1>1, Zenon
<1>3. DOMAIN x = 1..n BY <1>2
<1>4. QED BY <1>2, <1>3 DEF IsPart

SameTo(s, t, n) == Len(s) = n /\ Len(t) = n /\ \A i \in 1..n : s[i] = t[i]
LEMMA SameToEqual ==
  ASSUME NEW S, NEW s \in Seq(S), NEW t \in Seq(S), NEW n \in Nat, SameTo(s, t, n)
  PROVE  s = t
<1>1. Len(s) = n /\ Len(t) = n /\ \A i \in 1..n : s[i] = t[i] BY Zenon DEF SameTo
<1>2. QED BY <1>1, SeqEqual

(* What SMT is told of a concatenation.                                    *)
LEMMA Concat ==
  ASSUME NEW S, NEW s \in Seq(S), NEW t \in Seq(S)
  PROVE  /\ s \o t \in Seq(S) /\ Len(s \o t) = Len(s) + Len(t)
         /\ \A k \in 1..Len(s) : (s \o t)[k] = s[k]
         /\ \A k \in 1..Len(t) : (s \o t)[Len(s) + k] = t[k]
  OBVIOUS

(* How many of the first p numbers are in A. *)
Counted(A, p) == Cardinality({i \in 1..p : i \in A})

(* One more of those counted, or none.                                     *)
LEMMA CountedMore ==
  ASSUME NEW A, NEW p \in Nat, NEW n \in Nat, \A i \in 1..n : p + i \in A
  PROVE  Counted(A, p + n) = Counted(A, p) + n
<1> DEFINE B == {i \in 1..p : i \in A}
           C == (p + 1)..(p + n)
<1>1. {i \in 1..(p + n) : i \in A} = B \cup C
  <2>1. ASSUME NEW i \in C PROVE i \in A /\ i \in 1..(p + n)
    <3>1. i - p \in 1..n /\ p + (i - p) = i OBVIOUS
    <3>2. QED BY <3>1
  <2>2. \A i \in 1..(p + n) : i \in 1..p \/ i \in C OBVIOUS
  <2>3. \A i \in 1..p : i \in 1..(p + n) OBVIOUS
  <2> HIDE DEF C
  <2>4. QED BY <2>1, <2>2, <2>3
<1>2. IsFiniteSet(C) /\ Cardinality(C) = n BY FS_Interval
<1>3. IsFiniteSet(1..p) BY FS_Interval
<1>4. IsFiniteSet(B)
  <2>1. B \subseteq 1..p OBVIOUS
  <2> HIDE DEF B
  <2>2. QED BY <1>3, <2>1, FS_Subset
<1>5. B \cap C = {} OBVIOUS
<1>6. Cardinality(B) \in Nat BY <1>4, FS_CardinalityType
<1> HIDE DEF B, C
<1>7. Cardinality(B \cup C) = Cardinality(B) + Cardinality(C)
  <2>1. Cardinality(B \cap C) = 0 BY <1>5, FS_EmptySet
  <2>2. Cardinality(B \cup C) = Cardinality(B) + Cardinality(C) - Cardinality(B \cap C)
    BY <1>2, <1>4, FS_Union
  <2>3. QED BY <1>2, <1>6, <2>1, <2>2
<1>8. QED BY <1>1, <1>2, <1>7 DEF Counted, B

LEMMA CountedSame ==
  ASSUME NEW A, NEW p \in Nat, NEW n \in Nat, \A i \in 1..n : p + i \notin A
  PROVE  Counted(A, p + n) = Counted(A, p)
<1>1. ASSUME NEW i \in 1..(p + n), i \in A PROVE i \in 1..p
  <2>1. CASE i \in 1..p BY <2>1
  <2>2. CASE i \notin 1..p
    <3>1. i - p \in 1..n /\ p + (i - p) = i BY <2>2
    <3>2. QED BY <1>1, <3>1
  <2>3. QED BY <2>1, <2>2
<1>2. \A i \in 1..p : i \in 1..(p + n) OBVIOUS
<1>3. {i \in 1..(p + n) : i \in A} = {i \in 1..p : i \in A} BY <1>1, <1>2
<1>4. QED BY <1>3 DEF Counted

-----------------------------------------------------------------------------
(***************************************************************************)
(* The ICY de-interleaver.                                                 *)
(***************************************************************************)
IcyByte == [kind : {"audio", "length", "metadata"}, length : Nat]

(* After the first p bytes of s, m bytes of audio and a length byte come.  *)
NextLength(s, p, m) ==
  \/ p = Len(s) /\ m = metaint
  \/ /\ p + m + 1 \in 1..Len(s) /\ s[p + m + 1].kind = "length"
     /\ \A i \in 1..m : s[p + i].kind = "audio"

(* All a reader of the stream needs to know of it. *)
IcyShape(s) ==
  /\ s \in Seq(IcyByte)
  /\ NextLength(s, 0, metaint)
  /\ \A q \in 1..Len(s) : s[q].kind = "length" =>
       /\ q + s[q].length * UNIT <= Len(s)
       /\ \A i \in 1..(s[q].length * UNIT) : s[q + i].kind = "metadata"
       /\ NextLength(s, q + s[q].length * UNIT, metaint)

LEMMA TimesNat == ASSUME NEW a \in Nat, NEW b \in Nat PROVE a * b \in Nat
  OBVIOUS

(* A length byte, its units of metadata, and the audio behind them.        *)
LEMMA BlockBytes ==
  ASSUME NEW l \in Nat
  PROVE  /\ Block(l) \in Seq(IcyByte)
         /\ Len(Block(l)) = metaint + 1 + l * UNIT
         /\ \A k \in 1..metaint : Block(l)[k].kind = "audio"
         /\ Block(l)[metaint + 1] = Byte("length", l)
         /\ \A k \in 1..(l * UNIT) : Block(l)[metaint + 1 + k].kind = "metadata"
<1> DEFINE A == [i \in 1..metaint |-> Byte("audio", 0)]
           L == <<Byte("length", l)>>
<1>1. PICK m \in Nat : m = l * UNIT BY TimesNat, IcyAssumption DEF IcyAssumption
<1> DEFINE D == [i \in 1..m |-> Byte("metadata", 0)]
<1>2. Block(l) = A \o L \o D BY <1>1 DEF Block
<1>3. /\ A \in Seq(IcyByte) /\ Len(A) = metaint
      /\ \A k \in 1..metaint : A[k].kind = "audio"
  BY IcyAssumption DEF IcyAssumption, Byte, IcyByte
<1>4. L \in Seq(IcyByte) /\ Len(L) = 1 /\ L[1] = Byte("length", l)
  BY DEF Byte, IcyByte
<1>5. /\ D \in Seq(IcyByte) /\ Len(D) = m
      /\ \A k \in 1..m : D[k].kind = "metadata"
  BY DEF Byte, IcyByte
<1>6. metaint \in Nat BY IcyAssumption DEF IcyAssumption
<1> HIDE DEF A, L, D
<1>7. /\ A \o L \in Seq(IcyByte) /\ Len(A \o L) = metaint + 1
      /\ \A k \in 1..metaint : (A \o L)[k] = A[k]
      /\ (A \o L)[metaint + 1] = L[1]
  <2>1. 1 \in 1..Len(L) BY <1>4
  <2>2. A \in Seq(IcyByte) /\ L \in Seq(IcyByte) BY <1>3, <1>4
  <2>3. /\ A \o L \in Seq(IcyByte) /\ Len(A \o L) = Len(A) + Len(L)
        /\ \A k \in 1..Len(A) : (A \o L)[k] = A[k]
        /\ \A k \in 1..Len(L) : (A \o L)[Len(A) + k] = L[k]
    BY <2>2, Concat
  <2>4. QED BY <1>3, <1>4, <2>1, <2>3
<1>8. /\ A \o L \o D \in Seq(IcyByte) /\ Len(A \o L \o D) = metaint + 1 + m
      /\ \A k \in 1..(metaint + 1) : (A \o L \o D)[k] = (A \o L)[k]
      /\ \A k \in 1..m : (A \o L \o D)[metaint + 1 + k] = D[k]
  <2> DEFINE C == A \o L
  <2>1. C \in Seq(IcyByte) /\ Len(C) = metaint + 1 BY <1>7
  <2> HIDE DEF C
  <2>2. /\ C \o D \in Seq(IcyByte) /\ Len(C \o D) = Len(C) + Len(D)
        /\ \A k \in 1..Len(C) : (C \o D)[k] = C[k]
        /\ \A k \in 1..Len(D) : (C \o D)[Len(C) + k] = D[k]
    <3>1. C \in Seq(IcyByte) /\ D \in Seq(IcyByte) BY <1>5, <2>1
    <3>2. QED BY <3>1, Concat
  <2>3. /\ C \o D \in Seq(IcyByte) /\ Len(C \o D) = metaint + 1 + m
        /\ \A k \in 1..(metaint + 1) : (C \o D)[k] = C[k]
        /\ \A k \in 1..m : (C \o D)[metaint + 1 + k] = D[k]
    BY <1>5, <1>6, <2>1, <2>2
  <2>4. QED BY <2>3 DEF C
<1>9. \A k \in 1..metaint : k \in 1..(metaint + 1) BY <1>6
<1>10. metaint + 1 \in 1..(metaint + 1) BY <1>6
<1> DEFINE B == A \o L \o D
<1>11. /\ B \in Seq(IcyByte) /\ Len(B) = metaint + 1 + m
       /\ \A k \in 1..metaint : B[k].kind = "audio"
       /\ B[metaint + 1] = Byte("length", l)
       /\ \A k \in 1..m : B[metaint + 1 + k].kind = "metadata"
  <2>1. \A k \in 1..metaint : B[k] = A[k] BY <1>7, <1>8, <1>9
  <2>2. B[metaint + 1] = L[1] BY <1>7, <1>8, <1>10
  <2>3. \A k \in 1..m : B[metaint + 1 + k] = D[k] BY <1>8
  <2>4. B \in Seq(IcyByte) /\ Len(B) = metaint + 1 + m BY <1>8
  <2> HIDE DEF B
  <2>5. \A k \in 1..metaint : B[k].kind = "audio" BY <1>3, <2>1
  <2>6. B[metaint + 1] = Byte("length", l) BY <1>4, <2>2
  <2>7. \A k \in 1..m : B[metaint + 1 + k].kind = "metadata" BY <1>5, <2>3
  <2>8. QED BY <2>4, <2>5, <2>6, <2>7
<1> HIDE DEF B
<1>12. Block(l) = B BY <1>2 DEF B
<1>13. QED BY <1>1, <1>11, <1>12

(* A length byte of a block is the one behind its audio. *)
LEMMA BlockLength ==
  ASSUME NEW l \in Nat, NEW k \in 1..Len(Block(l)), Block(l)[k].kind = "length"
  PROVE  k = metaint + 1
<1>1. PICK m \in Nat : m = l * UNIT BY TimesNat, IcyAssumption DEF IcyAssumption
<1>2. metaint \in Nat BY IcyAssumption DEF IcyAssumption
<1>3. /\ Len(Block(l)) = metaint + 1 + m
      /\ \A i \in 1..metaint : Block(l)[i].kind = "audio"
      /\ \A i \in 1..m : Block(l)[metaint + 1 + i].kind = "metadata"
  BY <1>1, BlockBytes
<1>4. k \notin 1..metaint BY <1>3
<1>5. CASE k > metaint + 1
  <2>1. PICK i \in 1..m : k = metaint + 1 + i
    <3>1. k - (metaint + 1) \in 1..m /\ k = metaint + 1 + (k - (metaint + 1))
      BY <1>2, <1>3, <1>5
    <3>2. QED BY <3>1
  <2>2. QED BY <1>3, <2>1
<1>6. QED BY <1>2, <1>3, <1>4, <1>5

(* Every stream a server sends: length bytes where they are counted on.    *)
LEMMA StreamShape ==
  ASSUME NEW lengths \in [1..BLOCKS -> Nat]
  PROVE  IcyShape(FlattenSeq([b \in 1..BLOCKS |-> Block(lengths[b])]))
<1> DEFINE seqs == [b \in 1..BLOCKS |-> Block(lengths[b])]
           s == FlattenSeq(seqs)
<1>1. /\ BLOCKS \in Nat /\ UNIT \in Nat /\ metaint \in Nat
  BY IcyAssumption DEF IcyAssumption
<1>2. \A b \in 1..BLOCKS : seqs[b] = Block(lengths[b]) /\ lengths[b] \in Nat OBVIOUS
<1>3. seqs \in [1..BLOCKS -> Seq(IcyByte)]
  <2>1. \A b \in 1..BLOCKS : Block(lengths[b]) \in Seq(IcyByte) BY BlockBytes
  <2>2. QED BY <2>1
<1> HIDE DEF seqs
<1>4. s \in Seq(IcyByte) /\ \E at : Layout(s, seqs, BLOCKS, at) BY <1>1, <1>3, FlattenLayout
<1> HIDE DEF s
<1>5. PICK at : Layout(s, seqs, BLOCKS, at) BY <1>4
<1>6. \A b \in 1..BLOCKS : Len(seqs[b]) \in Nat BY <1>3
<1>7. /\ at \in [0..BLOCKS -> Nat] /\ at[0] = 0 /\ Len(s) = at[BLOCKS]
      /\ \A b \in 1..BLOCKS : at[b] = at[b - 1] + Len(seqs[b])
      /\ \A b \in 1..BLOCKS : \A k \in 1..Len(seqs[b]) : s[at[b - 1] + k] = seqs[b][k]
  BY <1>5 DEF Layout
<1>8. \A b \in 0..BLOCKS : at[b] \in Nat /\ at[b] <= Len(s)
  <2>1. \A b \in 0..BLOCKS : \A j \in b..BLOCKS : at[b] <= at[j]
    BY <1>1, <1>5, <1>6, LayoutGrows
  <2>2. \A b \in 0..BLOCKS : BLOCKS \in b..BLOCKS BY <1>1
  <2>3. QED BY <1>7, <2>1, <2>2
<1>9. ASSUME NEW b \in 1..BLOCKS, NEW m \in Nat, m = lengths[b] * UNIT
      PROVE  /\ Len(seqs[b]) = metaint + 1 + m
             /\ at[b] = at[b - 1] + metaint + 1 + m
             /\ \A k \in 1..metaint : s[at[b - 1] + k].kind = "audio"
             /\ s[at[b - 1] + (metaint + 1)] = Byte("length", lengths[b])
             /\ \A k \in 1..m : s[at[b - 1] + (metaint + 1 + k)].kind = "metadata"
  <2>1. seqs[b] = Block(lengths[b]) /\ lengths[b] \in Nat BY <1>2
  <2>2. /\ Len(seqs[b]) = metaint + 1 + m
        /\ \A k \in 1..metaint : seqs[b][k].kind = "audio"
        /\ seqs[b][metaint + 1] = Byte("length", lengths[b])
        /\ \A k \in 1..m : seqs[b][metaint + 1 + k].kind = "metadata"
    <3>1. /\ Len(seqs[b]) = metaint + 1 + lengths[b] * UNIT
          /\ \A k \in 1..metaint : seqs[b][k].kind = "audio"
          /\ seqs[b][metaint + 1] = Byte("length", lengths[b])
          /\ \A k \in 1..(lengths[b] * UNIT) : seqs[b][metaint + 1 + k].kind = "metadata"
      <4>1. PICK l \in Nat : l = lengths[b] BY <2>1
      <4>2. /\ Len(Block(l)) = metaint + 1 + l * UNIT
            /\ \A k \in 1..metaint : Block(l)[k].kind = "audio"
            /\ Block(l)[metaint + 1] = Byte("length", l)
            /\ \A k \in 1..(l * UNIT) : Block(l)[metaint + 1 + k].kind = "metadata"
        BY BlockBytes
      <4>3. QED BY <2>1, <4>1, <4>2
    <3>2. QED BY <1>9, <3>1
  <2>3. /\ \A k \in 1..metaint : k \in 1..Len(seqs[b])
        /\ metaint + 1 \in 1..Len(seqs[b])
        /\ \A k \in 1..m : metaint + 1 + k \in 1..Len(seqs[b])
    BY <1>1, <2>2
  <2>4. at[b - 1] \in Nat /\ at[b] = at[b - 1] + Len(seqs[b])
    <3>1. b - 1 \in 0..BLOCKS BY <1>1
    <3>2. QED BY <1>7, <1>8, <3>1
  <2>5. at[b] = at[b - 1] + metaint + 1 + m BY <1>1, <2>2, <2>4
  <2>6. \A k \in 1..Len(seqs[b]) : s[at[b - 1] + k] = seqs[b][k] BY <1>7
  <2>7. QED BY <2>2, <2>3, <2>5, <2>6
<1>10. ASSUME NEW b \in 0..BLOCKS PROVE NextLength(s, at[b], metaint)
  <2>1. CASE b = BLOCKS BY <1>7, <2>1 DEF NextLength
  <2>2. CASE b # BLOCKS
    <3>1. PICK h \in 1..BLOCKS : h = b + 1 /\ h - 1 = b BY <1>1, <2>2
    <3>2. PICK m \in Nat : m = lengths[h] * UNIT BY <1>1, TimesNat
    <3>3. /\ at[h] = at[b] + metaint + 1 + m
          /\ \A k \in 1..metaint : s[at[b] + k].kind = "audio"
          /\ s[at[b] + (metaint + 1)] = Byte("length", lengths[h])
      BY <1>9, <3>1, <3>2
    <3>4. at[b] \in Nat /\ at[h] <= Len(s) BY <1>8
    <3>5. /\ at[b] + metaint + 1 = at[b] + (metaint + 1)
          /\ at[b] + metaint + 1 \in 1..Len(s)
      <4>1. PICK p \in Nat : p = at[b] BY <3>4
      <4>2. PICK w \in Nat : w = Len(s) BY <1>4
      <4>3. p + metaint + 1 + m <= w BY <3>3, <3>4, <4>1, <4>2
      <4>4. p + metaint + 1 = p + (metaint + 1) /\ p + metaint + 1 \in 1..w
        BY <1>1, <4>3
      <4>5. QED BY <4>1, <4>2, <4>4
    <3>6. s[at[b] + metaint + 1].kind = "length" BY <3>3, <3>5 DEF Byte
    <3>7. QED BY <3>3, <3>5, <3>6 DEF NextLength
  <2>3. QED BY <2>1, <2>2
<1>11. Covered(s, seqs, BLOCKS, at) BY <1>1, <1>5, <1>6, LayoutCovers
<1>12. ASSUME NEW q \in 1..Len(s), s[q].kind = "length"
       PROVE  /\ q + s[q].length * UNIT <= Len(s)
              /\ \A i \in 1..(s[q].length * UNIT) : s[q + i].kind = "metadata"
              /\ NextLength(s, q + s[q].length * UNIT, metaint)
  <2>1. PICK b \in 1..BLOCKS : \E k \in 1..Len(seqs[b]) : q = at[b - 1] + k
    BY <1>11 DEF Covered
  <2>2. PICK k \in 1..Len(seqs[b]) : q = at[b - 1] + k BY <2>1
  <2>3. s[q] = seqs[b][k] BY <1>7, <2>2
  <2>4. seqs[b] = Block(lengths[b]) /\ lengths[b] \in Nat BY <1>2
  <2>5. k = metaint + 1 BY <1>12, <2>2, <2>3, <2>4, BlockLength
  <2>6. s[q] = Byte("length", lengths[b]) BY <2>3, <2>4, <2>5, BlockBytes
  <2>7. PICK m \in Nat : m = lengths[b] * UNIT BY <1>1, <2>4, TimesNat
  <2>8. s[q].length * UNIT = m BY <2>6, <2>7 DEF Byte
  <2>9. /\ at[b] = at[b - 1] + metaint + 1 + m
        /\ \A i \in 1..m : s[at[b - 1] + (metaint + 1 + i)].kind = "metadata"
    BY <1>9, <2>7
  <2>10. at[b - 1] \in Nat /\ at[b] <= Len(s)
    <3>1. b - 1 \in 0..BLOCKS /\ b \in 0..BLOCKS BY <1>1
    <3>2. QED BY <1>8, <3>1
  <2>11. /\ q + m = at[b]
         /\ \A i \in 1..m : q + i = at[b - 1] + (metaint + 1 + i)
    <3>1. PICK p \in Nat : p = at[b - 1] BY <2>10
    <3>2. q = p + (metaint + 1) /\ at[b] = p + metaint + 1 + m BY <2>2, <2>5, <2>9, <3>1
    <3>3. q + m = p + metaint + 1 + m /\ \A i \in 1..m : q + i = p + (metaint + 1 + i)
      <4>1. m \in Nat /\ metaint \in Nat BY <1>1, <2>7
      <4>2. /\ p + (metaint + 1) + m = p + metaint + 1 + m
            /\ \A i \in 1..m : p + (metaint + 1) + i = p + (metaint + 1 + i)
        BY <4>1
      <4>3. QED BY <3>2, <4>2
    <3>4. QED BY <3>1, <3>2, <3>3
  <2>12. NextLength(s, q + m, metaint) BY <1>10, <2>11
  <2>13. QED BY <2>8, <2>9, <2>10, <2>11, <2>12
<1>13. NextLength(s, 0, metaint) BY <1>1, <1>7, <1>10
<1>14. IcyShape(s) BY <1>4, <1>12, <1>13 DEF IcyShape
<1>15. QED BY <1>14 DEF s, seqs

(* How much audio there is in a part of the stream that is nothing else,   *)
(* and in one that has none.                                               *)
AudioAt == {i \in Nat : stream[i].kind = "audio"}

(* The audio handed on so far, one more byte of it, and bytes that are none. *)
LEMMA AudioCounted ==
  ASSUME NEW p \in Nat PROVE AudioWithin(stream, p) = Counted(AudioAt, p) /\ AudioWithin(stream, p) \in Nat
<1>1. {i \in 1..p : stream[i].kind = "audio"} = {i \in 1..p : i \in AudioAt}
  <2>1. \A i \in 1..p : i \in AudioAt <=> stream[i].kind = "audio" BY DEF AudioAt
  <2>2. QED BY <2>1
<1>2. AudioWithin(stream, p) = Counted(AudioAt, p) BY <1>1 DEF AudioWithin, Counted
<1> DEFINE B == {i \in 1..p : i \in AudioAt}
<1>3. B \subseteq 1..p OBVIOUS
<1> HIDE DEF B
<1>4. Cardinality(B) \in Nat
  <2>1. IsFiniteSet(1..p) BY FS_Interval
  <2>2. IsFiniteSet(B) BY <1>3, <2>1, FS_Subset
  <2>3. QED BY <2>2, FS_CardinalityType
<1>5. QED BY <1>2, <1>4 DEF Counted, B

LEMMA AudioMore ==
  ASSUME NEW p \in Nat, NEW n \in Nat, \A i \in 1..n : stream[p + i].kind = "audio"
  PROVE  AudioWithin(stream, p + n) = AudioWithin(stream, p) + n
<1>1. \A i \in 1..n : p + i \in AudioAt BY DEF AudioAt
<1>2. Counted(AudioAt, p + n) = Counted(AudioAt, p) + n BY <1>1, CountedMore
<1>3. p + n \in Nat OBVIOUS
<1>4. QED BY <1>2, <1>3, AudioCounted

LEMMA AudioSame ==
  ASSUME NEW p \in Nat, NEW n \in Nat, \A i \in 1..n : stream[p + i].kind # "audio"
  PROVE  AudioWithin(stream, p + n) = AudioWithin(stream, p)
<1>1. \A i \in 1..n : p + i \notin AudioAt BY DEF AudioAt
<1>2. Counted(AudioAt, p + n) = Counted(AudioAt, p) BY <1>1, CountedSame
<1>3. p + n \in Nat OBVIOUS
<1>4. QED BY <1>2, <1>3, AudioCounted

AllMetadata(p, n) == \A i \in 1..n : stream[p + i].kind = "metadata"
AllAudio(p, n) == \A i \in 1..n : stream[p + i].kind = "audio"

(* Past audio the next length byte is nearer, ... *)
LEMMA NextNearer ==
  ASSUME NEW p \in Nat, NEW m \in Nat, NEW n \in 0..m, NextLength(stream, p, m),
         p + n <= Len(stream), IcyShape(stream), n > 0
  PROVE  /\ AllAudio(p, n)
         /\ NextLength(stream, p + n, m - n)
         /\ ~CutsBlock(p + n)
         /\ AudioWithin(stream, p + n) = AudioWithin(stream, p) + n
<1>1. Len(stream) \in Nat BY DEF IcyShape
<1>2. /\ p + m + 1 \in 1..Len(stream) /\ stream[p + m + 1].kind = "length"
      /\ \A i \in 1..m : stream[p + i].kind = "audio"
  BY <1>1 DEF NextLength
<1>3. \A i \in 1..n : i \in 1..m OBVIOUS
<1>4. \A i \in 1..n : stream[p + i].kind = "audio" BY <1>2, <1>3
<1>5. NextLength(stream, p + n, m - n)
  <2>1. p + n + (m - n) + 1 = p + m + 1 OBVIOUS
  <2>2. \A i \in 1..(m - n) : n + i \in 1..m /\ p + n + i = p + (n + i) OBVIOUS
  <2>3. \A i \in 1..(m - n) : stream[p + n + i].kind = "audio" BY <1>2, <2>2
  <2>4. QED BY <1>2, <2>1, <2>3 DEF NextLength
<1>6. stream[p + n + 1].kind # "metadata"
  <2>1. CASE n = m BY <1>2, <2>1
  <2>2. CASE n # m
    <3>1. n + 1 \in 1..m /\ p + n + 1 = p + (n + 1) BY <2>2
    <3>2. stream[p + (n + 1)].kind = "audio" BY <1>2, <3>1
    <3>3. QED BY <3>1, <3>2
  <2>3. QED BY <2>1, <2>2
<1>7. AudioWithin(stream, p + n) = AudioWithin(stream, p) + n
  <2>1. n \in Nat OBVIOUS
  <2>2. QED BY <1>4, <2>1, AudioMore
<1>8. ~CutsBlock(p + n) BY <1>6 DEF CutsBlock
<1>9. QED BY <1>4, <1>5, <1>7, <1>8 DEF AllAudio

(* The bytes of a block of metadata behind its length byte. *)
BytesBehind(q) == stream[q].length * UNIT

(* ... and behind a block of metadata it is metaint bytes away. *)
LEMMA BlockPassed ==
  ASSUME NEW p \in Nat, NEW m \in Nat, NextLength(stream, p, m), IcyShape(stream),
         NEW q \in 1..Len(stream), q = p + m + 1,
         NEW w \in Nat, w = BytesBehind(q)
  PROVE  /\ stream[q].kind = "length" /\ q + w <= Len(stream)
         /\ AllAudio(p, m)
         /\ AllMetadata(q, w)
         /\ NextLength(stream, q + w, metaint)
         /\ AudioWithin(stream, q + w) = AudioWithin(stream, p) + m
<1>1. Len(stream) \in Nat BY DEF IcyShape
<1>2. /\ stream[q].kind = "length"
      /\ \A i \in 1..m : stream[p + i].kind = "audio"
  BY <1>1 DEF NextLength
<1>3. /\ q + w <= Len(stream)
      /\ \A i \in 1..w : stream[q + i].kind = "metadata"
      /\ NextLength(stream, q + w, metaint)
  BY <1>2 DEF IcyShape, BytesBehind
<1>4. AudioWithin(stream, p + m) = AudioWithin(stream, p) + m BY <1>2, AudioMore
<1>5. AudioWithin(stream, p + m + 1) = AudioWithin(stream, p + m)
  <2>1. \A i \in 1..1 : stream[p + m + i].kind # "audio"
    <3>1. \A i \in 1..1 : p + m + i = q OBVIOUS
    <3>2. QED BY <1>2, <3>1
  <2>2. p + m \in Nat OBVIOUS
  <2>3. QED BY <2>1, <2>2, AudioSame
<1>6. AudioWithin(stream, q + w) = AudioWithin(stream, q)
  <2>1. \A i \in 1..w : stream[q + i].kind # "audio" BY <1>3
  <2>2. q \in Nat OBVIOUS
  <2>3. QED BY <2>1, <2>2, AudioSame
<1>7. QED BY <1>2, <1>3, <1>4, <1>5, <1>6 DEF AllAudio, AllMetadata

-----------------------------------------------------------------------------
(* Where the client is in the stream s, p bytes behind its beginning, as   *)
(* long as no reception has cut a block of metadata: input comes next, m   *)
(* bytes of audio come before the next length byte, and it has had t.      *)
IcyWhere(s, input, m, t, p) ==
  /\ p \in Nat
  /\ \A i \in 1..Len(input) : input[i] = s[p + i]
  /\ NextLength(s, p, m)
  /\ t = AudioWithin(s, p)
IcyPlace == IcyWhere(stream, inpdata, metad, taken, pos - Len(inpdata))

IcyTypes ==
  /\ pos \in 0..Len(stream) /\ cut \in BOOLEAN
  /\ inpdata \in Seq(IcyByte) /\ Len(inpdata) <= RECEIVE
  /\ metad \in 0..metaint
  /\ looping \in BOOLEAN
  /\ taken \in Nat

IcyInv ==
  /\ IcyShape(stream) /\ IcyTypes
  /\ ~looping => inpdata = <<>>
  /\ looping => Len(inpdata) > metad \/ metad = metaint
  /\ ~cut => IcyPlace /\ ~CutsBlock(pos) /\ OnlyAudio(fed)

(* The steps of the client keep the invariant.                             *)
LEMMA IcyBegins == Init => IcyInv
<1> SUFFICES ASSUME Init PROVE IcyInv OBVIOUS
<1>1. metaint \in Nat \ {0} /\ RECEIVE \in Nat /\ Lengths \subseteq Nat
  BY IcyAssumption DEF IcyAssumption
<1>2. PICK lengths \in [1..BLOCKS -> Lengths] :
        stream = FlattenSeq([b \in 1..BLOCKS |-> Block(lengths[b])])
  BY DEF Init, IcyStarts
<1>3. lengths \in [1..BLOCKS -> Nat] BY <1>1, <1>2
<1>4. IcyShape(stream) BY <1>2, <1>3, StreamShape
<1>5. /\ pos = 0 /\ cut = FALSE /\ inpdata = <<>> /\ metad = metaint /\ looping = FALSE
      /\ fed = <<>> /\ taken = 0
  BY DEF Init, IcyStarts
<1>6. Len(stream) \in Nat /\ NextLength(stream, 0, metaint) BY <1>4 DEF IcyShape
<1>7. IcyTypes
  <2>1. inpdata \in Seq(IcyByte) /\ Len(inpdata) = 0 BY <1>5
  <2>2. pos \in 0..Len(stream) /\ metad \in 0..metaint /\ Len(inpdata) <= RECEIVE
    BY <1>1, <1>5, <1>6, <2>1
  <2>3. QED BY <1>5, <2>1, <2>2 DEF IcyTypes
<1>8. AudioWithin(stream, 0) = 0
  <2>1. {i \in 1..0 : stream[i].kind = "audio"} = {} OBVIOUS
  <2>2. QED BY <2>1, FS_EmptySet DEF AudioWithin
<1>9. IcyWhere(stream, inpdata, metad, taken, 0) BY <1>5, <1>6, <1>8 DEF IcyWhere
<1>10. pos - Len(inpdata) = 0
  <2>1. Len(inpdata) = 0 /\ pos = 0 BY <1>5
  <2>2. QED BY <2>1
<1>11. ~CutsBlock(pos)
  <2>1. CASE Len(stream) = 0 BY <1>5, <2>1 DEF CutsBlock
  <2>2. CASE Len(stream) # 0
    <3>1. \A i \in 1..metaint : stream[0 + i].kind = "audio"
      BY <1>6, <2>2 DEF NextLength
    <3>2. 1 \in 1..metaint /\ 0 + 1 = 1 BY <1>1
    <3>3. stream[0 + 1].kind = "audio" BY <3>1, <3>2
    <3>4. QED BY <1>5, <3>3 DEF CutsBlock
  <2>3. QED BY <2>1, <2>2
<1>12. OnlyAudio(fed) BY <1>5 DEF OnlyAudio
<1>13. QED BY <1>4, <1>5, <1>7, <1>9, <1>10, <1>11, <1>12 DEF IcyInv, IcyPlace

LEMMA IcyReceives ==
  ASSUME IcyInv, Receive PROVE IcyInv'
<1>1. /\ metaint \in Nat \ {0} /\ RECEIVE \in Nat /\ IcyShape(stream) /\ IcyTypes
      /\ inpdata = <<>> /\ ~looping /\ stream' = stream
  BY IcyAssumption DEF IcyAssumption, IcyInv, Receive
<1>2. PICK n \in 1..RECEIVE :
        /\ pos + n <= Len(stream)
        /\ pos' = pos + n
        /\ cut' = (cut \/ CutsBlock(pos + n))
        /\ IF n > metad
           THEN /\ inpdata' = SubSeq(stream, pos + 1, pos + n)
                /\ looping' = TRUE
                /\ UNCHANGED <<metad, fed, taken>>
           ELSE /\ metad' = metad - n
                /\ Feed(SubSeq(stream, pos + 1, pos + n))
                /\ UNCHANGED <<inpdata, looping>>
  BY DEF Receive
<1> DEFINE part == SubSeq(stream, pos + 1, pos + n)
<1>3. /\ stream \in Seq(IcyByte) /\ Len(stream) \in Nat /\ pos \in Nat /\ pos + n \in 0..Len(stream)
      /\ metad \in 0..metaint /\ taken \in Nat /\ n \in Nat /\ n > 0 /\ n <= RECEIVE
      /\ cut \in BOOLEAN /\ looping \in BOOLEAN
  BY <1>1, <1>2 DEF IcyShape, IcyTypes
<1>4. /\ part \in Seq(IcyByte) /\ Len(part) = n
      /\ \A i \in 1..n : part[i] = stream[pos + i]
  BY <1>2, <1>3, PartOf
<1> HIDE DEF part
<1>5. IcyShape(stream)' BY <1>1
<1>6. cut' \in BOOLEAN /\ pos' \in 0..Len(stream') /\ pos' \in Nat BY <1>1, <1>2, <1>3 DEF CutsBlock
<1>7. pos - Len(inpdata) = pos
  <2>1. Len(inpdata) = 0 BY <1>1
  <2>2. QED BY <1>3, <2>1
<1>8. ~cut' => /\ ~CutsBlock(pos)' /\ ~cut
  <2>1. ~cut' => ~CutsBlock(pos + n) /\ ~cut BY <1>2
  <2>2. QED BY <1>1, <1>2, <2>1 DEF CutsBlock
<1>9. ~cut => IcyWhere(stream, inpdata, metad, taken, pos) /\ OnlyAudio(fed)
  BY <1>7 DEF IcyInv, IcyPlace
<1>10. CASE n > metad
  <2>1. inpdata' = part /\ looping' = TRUE /\ UNCHANGED <<metad, fed, taken>>
    BY <1>2, <1>10 DEF part
  <2>2. IcyTypes' BY <1>1, <1>3, <1>4, <1>6, <2>1 DEF IcyTypes
  <2>3. (pos - Len(inpdata))' = pos BY <1>2, <1>3, <1>4, <2>1
  <2>4. ~cut' => IcyPlace' /\ OnlyAudio(fed)'
    <3>1. SUFFICES ASSUME ~cut' PROVE IcyPlace' /\ OnlyAudio(fed)' OBVIOUS
    <3>2. IcyWhere(stream, inpdata, metad, taken, pos) /\ OnlyAudio(fed) BY <1>8, <1>9, <3>1
    <3>3. \A i \in 1..Len(inpdata') : inpdata'[i] = stream'[pos + i] BY <1>1, <1>4, <2>1
    <3>4. NextLength(stream', pos, metad') BY <1>1, <2>1, <3>2 DEF IcyWhere
    <3>5. taken' = AudioWithin(stream', pos) BY <1>1, <2>1, <3>2 DEF IcyWhere
    <3>6. OnlyAudio(fed)' BY <2>1, <3>2 DEF OnlyAudio
    <3>7. QED BY <1>3, <2>3, <3>3, <3>4, <3>5, <3>6 DEF IcyPlace, IcyWhere
  <2>5. Len(inpdata') > metad' BY <1>4, <1>10, <2>1
  <2>6. QED BY <1>5, <1>8, <2>1, <2>2, <2>4, <2>5 DEF IcyInv
<1>11. CASE ~(n > metad)
  <2>1. /\ metad' = metad - n /\ fed' = part /\ taken' = taken + Len(part)
        /\ UNCHANGED <<inpdata, looping>>
    BY <1>2, <1>11 DEF Feed, part
  <2>2. metad' \in 0..metaint /\ taken' \in Nat BY <1>1, <1>3, <1>4, <1>11, <2>1
  <2>3. IcyTypes' BY <1>1, <1>6, <2>1, <2>2 DEF IcyTypes
  <2>4. (pos - Len(inpdata))' = pos + n
    <3>1. Len(inpdata') = 0 BY <1>1, <2>1
    <3>2. QED BY <1>2, <1>3, <3>1
  <2>5. ~cut' => IcyPlace' /\ OnlyAudio(fed)'
    <3>1. SUFFICES ASSUME ~cut' PROVE IcyPlace' /\ OnlyAudio(fed)' OBVIOUS
    <3>2. IcyWhere(stream, inpdata, metad, taken, pos) BY <1>8, <1>9, <3>1
    <3>3. PICK m \in Nat : m = metad BY <1>1, <1>3
    <3>4. NextLength(stream, pos, m) /\ taken = AudioWithin(stream, pos) BY <3>2, <3>3 DEF IcyWhere
    <3>5. n \in 0..m BY <1>3, <1>11, <3>3
    <3>6. /\ AllAudio(pos, n)
          /\ NextLength(stream, pos + n, m - n)
          /\ AudioWithin(stream, pos + n) = AudioWithin(stream, pos) + n
      BY <1>1, <1>2, <1>3, <3>4, <3>5, NextNearer
    <3>7. \A i \in 1..Len(inpdata') : inpdata'[i] = stream'[pos + n + i]
      <4>1. Len(inpdata') = 0 BY <1>1, <2>1
      <4>2. QED BY <4>1
    <3>8. NextLength(stream', pos + n, metad') BY <1>1, <2>1, <3>3, <3>6
    <3>9. taken' = AudioWithin(stream', pos + n) BY <1>1, <1>4, <2>1, <3>4, <3>6
    <3>10. OnlyAudio(fed)' BY <1>4, <2>1, <3>6 DEF OnlyAudio, AllAudio
    <3>11. pos + n \in Nat BY <1>3
    <3>12. QED BY <2>4, <3>7, <3>8, <3>9, <3>10, <3>11 DEF IcyPlace, IcyWhere
  <2>6. inpdata' = <<>> /\ ~looping' BY <1>1, <2>1
  <2>7. QED BY <1>5, <1>8, <2>3, <2>5, <2>6 DEF IcyInv
<1>12. QED BY <1>10, <1>11
LEMMA PrefixOf ==
  ASSUME NEW S, NEW s \in Seq(S), NEW n \in Nat, n <= Len(s)
  PROVE  /\ SubSeq(s, 1, n) \in Seq(S) /\ Len(SubSeq(s, 1, n)) = n
         /\ \A i \in 1..n : SubSeq(s, 1, n)[i] = s[i]
  OBVIOUS

LEMMA RestOf ==
  ASSUME NEW S, NEW s \in Seq(S), NEW n \in Nat, n <= Len(s)
  PROVE  /\ SubSeq(s, n + 1, Len(s)) \in Seq(S) /\ Len(SubSeq(s, n + 1, Len(s))) = Len(s) - n
         /\ \A i \in 1..(Len(s) - n) : SubSeq(s, n + 1, Len(s))[i] = s[n + i]
  OBVIOUS

(* What the loop finds: its place in the stream, and the audio before the  *)
(* next length byte, as far as it has been received.                       *)
LEMMA IcyLoopFinds ==
  ASSUME IcyInv, looping
  PROVE  /\ metaint \in Nat \ {0} /\ RECEIVE \in Nat /\ IcyShape(stream) /\ IcyTypes
         /\ Len(stream) \in Nat /\ Len(inpdata) \in Nat /\ metad \in Nat /\ pos \in Nat
         /\ cut \in BOOLEAN /\ taken \in Nat
         /\ \A i \in 1..Len(inpdata) : inpdata[i] \in IcyByte
<1>1. metaint \in Nat \ {0} /\ RECEIVE \in Nat BY IcyAssumption DEF IcyAssumption
<1>2. IcyShape(stream) /\ IcyTypes BY DEF IcyInv
<1>3. stream \in Seq(IcyByte) /\ inpdata \in Seq(IcyByte) BY <1>2 DEF IcyShape, IcyTypes
<1>4. Len(stream) \in Nat /\ Len(inpdata) \in Nat /\ \A i \in 1..Len(inpdata) : inpdata[i] \in IcyByte
  BY <1>3
<1>5. metad \in Nat /\ pos \in Nat /\ cut \in BOOLEAN /\ taken \in Nat BY <1>1, <1>2, <1>4 DEF IcyTypes
<1>6. QED BY <1>1, <1>2, <1>4, <1>5

(* A length the loop reads is a number, and the right one as long as no    *)
(* block was cut.                                                          *)
LEMMA IcyLengthRead ==
  ASSUME IcyInv, looping, Len(inpdata) > metad, NEW l \in LengthAt(metad + 1)
  PROVE  /\ l \in Nat /\ l * UNIT \in Nat
         /\ ~cut =>
              \E p \in Nat, q \in 1..Len(stream), w \in Nat :
                /\ w = l * UNIT /\ q = p + metad + 1
                /\ p = pos - Len(inpdata)
                /\ IcyWhere(stream, inpdata, metad, taken, p)
                /\ w = BytesBehind(q)
<1>1. /\ metaint \in Nat \ {0} /\ IcyShape(stream) /\ IcyTypes
      /\ Len(stream) \in Nat /\ Len(inpdata) \in Nat /\ metad \in Nat /\ pos \in Nat
      /\ \A i \in 1..Len(inpdata) : inpdata[i] \in IcyByte
  BY IcyLoopFinds
<1>2. metad + 1 \in 1..Len(inpdata) BY <1>1
<1>3. l \in Nat
  <2>1. inpdata[metad + 1].length \in Nat BY <1>1, <1>2 DEF IcyByte
  <2>2. Lengths \subseteq Nat BY IcyAssumption DEF IcyAssumption
  <2>3. QED BY <2>1, <2>2 DEF LengthAt
<1>4. l * UNIT \in Nat BY <1>3, TimesNat, IcyAssumption DEF IcyAssumption
<1>5. ASSUME ~cut
      PROVE  \E p \in Nat, q \in 1..Len(stream), w \in Nat :
                /\ w = l * UNIT /\ q = p + metad + 1
                /\ p = pos - Len(inpdata)
                /\ IcyWhere(stream, inpdata, metad, taken, p)
                /\ w = BytesBehind(q)
  <2>1. IcyPlace BY <1>5 DEF IcyInv
  <2>2. PICK p : p = pos - Len(inpdata) OBVIOUS
  <2>3. IcyWhere(stream, inpdata, metad, taken, p) BY <2>1, <2>2 DEF IcyPlace
  <2>4. p \in Nat /\ NextLength(stream, p, metad) BY <2>3 DEF IcyWhere
  <2>5. pos <= Len(stream) BY <1>1 DEF IcyTypes
  <2>6. PICK q \in 1..Len(stream) : q = p + metad + 1
    <3>1. p + metad + 1 \in 1..Len(stream) BY <1>1, <1>2, <2>2, <2>4, <2>5
    <3>2. QED BY <3>1
  <2>7. stream[q].kind = "length" BY <1>1, <2>4, <2>6 DEF NextLength
  <2>8. inpdata[metad + 1] = stream[q]
    <3>1. inpdata[metad + 1] = stream[p + (metad + 1)] BY <1>2, <2>3 DEF IcyWhere
    <3>2. p + (metad + 1) = q BY <1>1, <2>4, <2>6
    <3>3. QED BY <3>1, <3>2
  <2>9. l = stream[q].length BY <2>7, <2>8 DEF LengthAt
  <2>10. l * UNIT = BytesBehind(q) BY <2>9 DEF BytesBehind
  <2>11. QED BY <1>4, <2>2, <2>3, <2>4, <2>6, <2>10
<1>6. QED BY <1>3, <1>4, <1>5

LEMMA IcyPassesBlock ==
  ASSUME IcyInv, LoopBlock PROVE IcyInv'
<1>1. /\ looping /\ Len(inpdata) > metad /\ metad' = metaint
      /\ fed' = SubSeq(inpdata, 1, metad) /\ taken' = taken + Len(SubSeq(inpdata, 1, metad))
      /\ stream' = stream /\ pos' = pos /\ cut' = cut /\ looping' = looping
  BY DEF LoopBlock, Feed
<1>2. PICK l \in LengthAt(metad + 1) :
        /\ Len(inpdata) >= metad + l * UNIT + 1
        /\ inpdata' = SubSeq(inpdata, metad + l * UNIT + 2, Len(inpdata))
  BY DEF LoopBlock
<1>3. /\ metaint \in Nat \ {0} /\ RECEIVE \in Nat /\ IcyShape(stream) /\ IcyTypes
      /\ Len(stream) \in Nat /\ Len(inpdata) \in Nat /\ metad \in Nat /\ pos \in Nat
      /\ cut \in BOOLEAN /\ taken \in Nat
  BY <1>1, IcyLoopFinds
<1>4. inpdata \in Seq(IcyByte) /\ Len(inpdata) <= RECEIVE BY <1>3 DEF IcyTypes
<1>5. PICK w \in Nat : w = l * UNIT BY <1>1, IcyLengthRead
<1>6. PICK k \in Nat : k = metad + w + 1 BY <1>3
<1>7. k <= Len(inpdata) /\ inpdata' = SubSeq(inpdata, k + 1, Len(inpdata))
  <2>1. k + 1 = metad + w + 2 BY <1>3, <1>6
  <2>2. QED BY <1>2, <1>5, <1>6, <2>1
<1>8. /\ inpdata' \in Seq(IcyByte) /\ Len(inpdata') = Len(inpdata) - k
      /\ \A i \in 1..(Len(inpdata) - k) : inpdata'[i] = inpdata[k + i]
  BY <1>4, <1>7, RestOf
<1>9. /\ Len(fed') = metad /\ \A i \in 1..metad : fed'[i] = inpdata[i]
      /\ taken' = taken + metad
  <2>1. metad <= Len(inpdata) BY <1>1, <1>3
  <2>2. QED BY <1>1, <1>3, <1>4, <2>1, PrefixOf
<1>10. IcyTypes'
  <2>1. Len(inpdata') <= RECEIVE BY <1>3, <1>4, <1>8
  <2>2. metad' \in 0..metaint /\ taken' \in Nat BY <1>1, <1>3, <1>9
  <2>3. QED BY <1>1, <1>3, <1>8, <2>1, <2>2 DEF IcyTypes
<1>11. ASSUME ~cut PROVE IcyPlace' /\ ~CutsBlock(pos)' /\ OnlyAudio(fed)'
  <2>1. PICK p \in Nat, q \in 1..Len(stream), v \in Nat :
          /\ v = l * UNIT /\ q = p + metad + 1
          /\ p = pos - Len(inpdata)
          /\ IcyWhere(stream, inpdata, metad, taken, p)
          /\ v = BytesBehind(q)
    BY <1>1, <1>11, IcyLengthRead
  <2>2. w = BytesBehind(q) BY <1>5, <2>1
  <2>3. /\ NextLength(stream, p, metad) /\ taken = AudioWithin(stream, p)
        /\ \A i \in 1..Len(inpdata) : inpdata[i] = stream[p + i]
    BY <2>1 DEF IcyWhere
  <2>4. /\ AllAudio(p, metad)
        /\ NextLength(stream, q + w, metaint)
        /\ AudioWithin(stream, q + w) = AudioWithin(stream, p) + metad
    <3>1. PICK m \in Nat : m = metad BY <1>3
    <3>2. NextLength(stream, p, m) /\ q = p + m + 1 BY <2>1, <2>3, <3>1
    <3>3. /\ AllAudio(p, m)
          /\ NextLength(stream, q + w, metaint)
          /\ AudioWithin(stream, q + w) = AudioWithin(stream, p) + m
      <4>1. IcyShape(stream) BY <1>3
      <4>2. QED BY <2>2, <3>2, <4>1, BlockPassed
    <3>4. QED BY <3>1, <3>3
  <2>5. p + k = q + w /\ p + k \in Nat
    <3>1. q = p + metad + 1 /\ p \in Nat /\ metad \in Nat BY <1>3, <2>1
    <3>2. QED BY <1>6, <3>1
  <2>6. \A i \in 1..Len(inpdata') : inpdata'[i] = stream'[p + k + i]
    <3>1. \A i \in 1..(Len(inpdata) - k) : k + i \in 1..Len(inpdata) /\ p + (k + i) = p + k + i
      BY <1>3
    <3>2. QED BY <1>1, <1>8, <2>3, <3>1
  <2>7. (pos - Len(inpdata))' = p + k BY <1>1, <1>3, <1>8, <2>1
  <2>8. IcyPlace'
    <3>1. NextLength(stream', p + k, metad') BY <1>1, <2>4, <2>5
    <3>2. taken' = AudioWithin(stream', p + k) BY <1>1, <1>9, <2>3, <2>4, <2>5
    <3>3. QED BY <2>5, <2>6, <2>7, <3>1, <3>2 DEF IcyPlace, IcyWhere
  <2>9. ~CutsBlock(pos)'
    <3>1. ~CutsBlock(pos) BY <1>11 DEF IcyInv
    <3>2. QED BY <1>1, <3>1 DEF CutsBlock
  <2>10. OnlyAudio(fed)'
    <3>1. \A i \in 1..metad : i \in 1..Len(inpdata) BY <1>1, <1>3
    <3>2. QED BY <1>9, <2>3, <2>4, <3>1 DEF OnlyAudio, AllAudio
  <2>11. QED BY <2>8, <2>9, <2>10
<1>12. IcyShape(stream)' BY <1>1, <1>3
<1>13. QED BY <1>1, <1>10, <1>11, <1>12 DEF IcyInv

LEMMA IcyCutsBlock ==
  ASSUME IcyInv, LoopCut PROVE IcyInv'
<1>1. /\ looping /\ Len(inpdata) > metad /\ inpdata' = <<>> /\ looping' = FALSE
      /\ fed' = SubSeq(inpdata, 1, metad) /\ taken' = taken + Len(SubSeq(inpdata, 1, metad))
      /\ stream' = stream /\ pos' = pos /\ cut' = cut
  BY DEF LoopCut, Feed
<1>2. PICK l \in LengthAt(metad + 1) :
        Len(inpdata) < metad + l * UNIT + 1 /\ metad' = metaint
  BY DEF LoopCut
<1>3. /\ metaint \in Nat \ {0} /\ RECEIVE \in Nat /\ IcyShape(stream) /\ IcyTypes
      /\ Len(stream) \in Nat /\ Len(inpdata) \in Nat /\ metad \in Nat /\ pos \in Nat
      /\ cut \in BOOLEAN /\ taken \in Nat
  BY <1>1, IcyLoopFinds
<1>4. inpdata \in Seq(IcyByte) BY <1>3 DEF IcyTypes
<1>5. taken' \in Nat
  <2>1. metad <= Len(inpdata) BY <1>1, <1>3
  <2>2. Len(SubSeq(inpdata, 1, metad)) = metad BY <1>3, <1>4, <2>1, PrefixOf
  <2>3. QED BY <1>1, <1>3, <2>2
<1>6. IcyTypes'
  <2>1. inpdata' \in Seq(IcyByte) /\ Len(inpdata') = 0 BY <1>1
  <2>2. metad' \in 0..metaint /\ Len(inpdata') <= RECEIVE BY <1>2, <1>3, <2>1
  <2>3. QED BY <1>1, <1>3, <1>5, <2>1, <2>2 DEF IcyTypes
<1>7. cut
  <2>1. SUFFICES ASSUME ~cut PROVE FALSE BY <1>3
  <2>2. PICK p \in Nat, q \in 1..Len(stream), w \in Nat :
          /\ w = l * UNIT /\ q = p + metad + 1
          /\ p = pos - Len(inpdata)
          /\ IcyWhere(stream, inpdata, metad, taken, p)
          /\ w = BytesBehind(q)
    BY <1>1, <2>1, IcyLengthRead
  <2>3. NextLength(stream, p, metad) BY <2>2 DEF IcyWhere
  <2>4. q + w <= Len(stream) /\ AllMetadata(q, w)
    <3>1. PICK m \in Nat : m = metad BY <1>3
    <3>2. NextLength(stream, p, m) /\ q = p + m + 1 BY <2>2, <2>3, <3>1
    <3>3. w = BytesBehind(q) BY <2>2
    <3>4. QED BY <1>3, <3>2, <3>3, BlockPassed
  <2>5. Len(inpdata) < metad + w + 1 BY <1>2, <2>2
  <2>6. PICK i \in 1..w : q + i = pos + 1
    <3>1. pos >= q /\ pos < q + w
      <4>1. /\ q = p + metad + 1 /\ p = pos - Len(inpdata)
            /\ p \in Nat /\ metad \in Nat /\ pos \in Nat /\ Len(inpdata) \in Nat
        BY <1>3, <2>2
      <4>2. QED BY <1>1, <2>5, <4>1
    <3>2. pos + 1 - q \in 1..w /\ q + (pos + 1 - q) = pos + 1 BY <1>3, <3>1
    <3>3. QED BY <3>2
  <2>7. stream[pos + 1].kind = "metadata" BY <2>4, <2>6 DEF AllMetadata
  <2>8. pos < Len(stream) BY <1>3, <2>4, <2>6
  <2>9. CutsBlock(pos) BY <2>7, <2>8 DEF CutsBlock
  <2>10. QED BY <2>1, <2>9 DEF IcyInv
<1>8. IcyShape(stream)' BY <1>1, <1>3
<1>9. QED BY <1>1, <1>6, <1>7, <1>8 DEF IcyInv

LEMMA IcyEnds ==
  ASSUME IcyInv, LoopEnd PROVE IcyInv'
<1>1. /\ looping /\ Len(inpdata) <= metad /\ inpdata' = <<>> /\ looping' = FALSE
      /\ metad' = metaint - Len(inpdata)
      /\ fed' = inpdata /\ taken' = taken + Len(inpdata)
      /\ stream' = stream /\ pos' = pos /\ cut' = cut
  BY DEF LoopEnd, Feed
<1>2. /\ metaint \in Nat \ {0} /\ RECEIVE \in Nat /\ IcyShape(stream) /\ IcyTypes
      /\ Len(stream) \in Nat /\ Len(inpdata) \in Nat /\ metad \in Nat /\ pos \in Nat
      /\ cut \in BOOLEAN /\ taken \in Nat
  BY <1>1, IcyLoopFinds
<1>3. metad = metaint BY <1>1, <1>2 DEF IcyInv
<1>4. IcyTypes'
  <2>1. inpdata' \in Seq(IcyByte) /\ Len(inpdata') = 0 BY <1>1
  <2>2. metad' \in 0..metaint /\ Len(inpdata') <= RECEIVE /\ taken' \in Nat
    BY <1>1, <1>2, <1>3, <2>1
  <2>3. QED BY <1>1, <1>2, <2>1, <2>2 DEF IcyTypes
<1>5. ASSUME ~cut PROVE IcyPlace' /\ ~CutsBlock(pos)' /\ OnlyAudio(fed)'
  <2>1. IcyPlace /\ ~CutsBlock(pos) BY <1>5 DEF IcyInv
  <2>2. PICK p : p = pos - Len(inpdata) OBVIOUS
  <2>3. IcyWhere(stream, inpdata, metad, taken, p) BY <2>1, <2>2 DEF IcyPlace
  <2>4. /\ p \in Nat /\ NextLength(stream, p, metaint) /\ taken = AudioWithin(stream, p)
        /\ \A i \in 1..Len(inpdata) : inpdata[i] = stream[p + i]
    BY <1>3, <2>3 DEF IcyWhere
  <2>5. PICK n \in Nat : n = Len(inpdata) BY <1>2
  <2>6. pos = p + n /\ p + n <= Len(stream) /\ n \in 0..metaint
    BY <1>1, <1>2, <1>3, <2>2, <2>4, <2>5 DEF IcyTypes
  <2>7. /\ AllAudio(p, n)
        /\ NextLength(stream, p + n, metaint - n)
        /\ AudioWithin(stream, p + n) = AudioWithin(stream, p) + n
    <3>1. CASE n = 0
      <4>1. p + n = p /\ metaint - n = metaint BY <1>2, <2>4, <3>1
      <4>2. AudioWithin(stream, p) \in Nat BY <1>2, <2>4
      <4>3. AllAudio(p, n) BY <3>1 DEF AllAudio
      <4>4. QED BY <2>4, <3>1, <4>1, <4>2, <4>3
    <3>2. CASE n # 0
      <4>1. PICK m \in Nat : m = metaint BY <1>2
      <4>2. NextLength(stream, p, m) /\ n \in 0..m /\ n > 0 BY <2>4, <2>6, <3>2, <4>1
      <4>3. /\ AllAudio(p, n)
            /\ NextLength(stream, p + n, m - n)
            /\ AudioWithin(stream, p + n) = AudioWithin(stream, p) + n
        BY <1>2, <2>4, <2>6, <4>2, NextNearer
      <4>4. QED BY <4>1, <4>3
    <3>3. QED BY <3>1, <3>2
  <2>8. (pos - Len(inpdata))' = p + n /\ p + n \in Nat
    <3>1. Len(inpdata') = 0 BY <1>1
    <3>2. QED BY <1>1, <1>2, <2>6, <3>1
  <2>9. IcyPlace'
    <3>1. NextLength(stream', p + n, metad') BY <1>1, <2>5, <2>7
    <3>2. taken' = AudioWithin(stream', p + n) BY <1>1, <2>4, <2>5, <2>7
    <3>3. \A i \in 1..Len(inpdata') : inpdata'[i] = stream'[p + n + i]
      <4>1. Len(inpdata') = 0 BY <1>1
      <4>2. QED BY <4>1
    <3>4. QED BY <2>8, <3>1, <3>2, <3>3 DEF IcyPlace, IcyWhere
  <2>10. ~CutsBlock(pos)' BY <1>1, <2>1 DEF CutsBlock
  <2>11. OnlyAudio(fed)' BY <1>1, <2>4, <2>5, <2>7 DEF OnlyAudio, AllAudio
  <2>12. QED BY <2>9, <2>10, <2>11
<1>6. IcyShape(stream)' BY <1>1, <1>2
<1>7. QED BY <1>1, <1>4, <1>5, <1>6 DEF IcyInv

LEMMA IcyStays ==
  ASSUME IcyInv, UNCHANGED vars PROVE IcyInv'
  BY DEF vars, IcyInv, IcyTypes, IcyPlace, CutsBlock, OnlyAudio

LEMMA IcyHolds == Spec => []IcyInv
<1>1. IcyInv /\ [Next]_vars => IcyInv'
  BY IcyReceives, IcyPassesBlock, IcyCutsBlock, IcyEnds, IcyStays DEF Next
<1>2. QED BY <1>1, IcyBegins, PTL DEF Spec

(* Every variable of the de-interleaver stays in its domain.               *)
THEOREM IcyTypesHold == Spec => []TypeOK
<1>1. IcyInv => TypeOK BY DEF IcyInv, IcyTypes, TypeOK
<1>2. QED BY <1>1, IcyHolds, PTL

(* Whatever the blocks of a stream and however it is cut into receptions,  *)
(* as long as none ends within a block of metadata: the decoder is fed     *)
(* with audio only, and with all of it.                                    *)
THEOREM AudioOnlyHolds == Spec => []AudioOnly
<1>1. ASSUME IcyInv PROVE AudioOnly
  <2>1. SUFFICES ASSUME ~cut
                 PROVE  OnlyAudio(fed) /\ (~looping => taken = AudioWithin(stream, pos))
    BY DEF AudioOnly
  <2>2. IcyPlace /\ OnlyAudio(fed) BY <1>1, <2>1 DEF IcyInv
  <2>3. ASSUME ~looping PROVE taken = AudioWithin(stream, pos)
    <3>1. Len(inpdata) = 0 BY <1>1, <2>3 DEF IcyInv
    <3>2. pos \in Nat BY <1>1 DEF IcyInv, IcyTypes, IcyShape
    <3>3. pos - Len(inpdata) = pos BY <3>1, <3>2
    <3>4. QED BY <2>2, <3>3 DEF IcyPlace, IcyWhere
  <2>4. QED BY <2>2, <2>3
<1>2. QED BY <1>1, IcyHolds, PTL

(* ... and metad is how much audio comes before the next length byte.      *)
THEOREM MetadRightHolds == Spec => []MetadRight
<1>1. ASSUME IcyInv PROVE MetadRight
  <2>1. SUFFICES ASSUME ~cut, ~looping PROVE metad = UntilNext(pos) BY DEF MetadRight
  <2>2. IcyPlace /\ inpdata = <<>> BY <1>1, <2>1 DEF IcyInv
  <2>3. Len(inpdata) = 0 BY <2>2
  <2>4. metaint \in Nat /\ metad \in 0..metaint /\ Len(stream) \in Nat /\ pos \in Nat
    BY <1>1, IcyAssumption DEF IcyAssumption, IcyInv, IcyTypes, IcyShape
  <2>5. pos - Len(inpdata) = pos BY <2>3, <2>4
  <2>6. NextLength(stream, pos, metad) BY <2>2, <2>5 DEF IcyPlace, IcyWhere
  <2>7. CASE pos = Len(stream)
    <3>1. metad = metaint BY <2>4, <2>6, <2>7 DEF NextLength
    <3>2. QED BY <2>7, <3>1 DEF UntilNext
  <2>8. CASE pos # Len(stream)
    <3>1. /\ stream[pos + metad + 1].kind = "length"
          /\ \A i \in 1..metad : stream[pos + i].kind = "audio"
      BY <2>6, <2>8 DEF NextLength
    <3>2. ASSUME NEW n \in 0..metaint, stream[pos + n + 1].kind = "length",
                 \A i \in 1..n : stream[pos + i].kind = "audio"
          PROVE  n = metad
      <4>1. ~(n < metad)
        <5>1. SUFFICES ASSUME n < metad PROVE FALSE OBVIOUS
        <5>2. n + 1 \in 1..metad /\ pos + n + 1 = pos + (n + 1) BY <2>4, <5>1
        <5>3. QED BY <3>1, <3>2, <5>2
      <4>2. ~(metad < n)
        <5>1. SUFFICES ASSUME metad < n PROVE FALSE OBVIOUS
        <5>2. metad + 1 \in 1..n /\ pos + metad + 1 = pos + (metad + 1) BY <2>4, <5>1
        <5>3. QED BY <3>1, <3>2, <5>2
      <4>3. QED BY <2>4, <4>1, <4>2
    <3>3. UntilNext(pos) = CHOOSE n \in 0..metaint :
                             /\ stream[pos + n + 1].kind = "length"
                             /\ \A i \in 1..n : stream[pos + i].kind = "audio"
      BY <2>8 DEF UntilNext
    <3>4. QED BY <2>4, <3>1, <3>2, <3>3
  <2>9. QED BY <2>7, <2>8
<1>2. QED BY <1>1, IcyHolds, PTL

-----------------------------------------------------------------------------
(***************************************************************************)
(* The chunked transfer.                                                   *)
(***************************************************************************)
ChunkBytesAll == [kind : {"cr", "lf", "size", "data"}, value : Nat \cup Nat \X Nat]

(* In s, the line of size z comes after q bytes, ... *)
SizeLineAt(s, q, z) ==
  /\ \A i \in 1..ChunkDigits[z] : s[q + i] = ChunkByte("size", z)
  /\ s[q + (ChunkDigits[z] + 1)].kind = "cr" /\ s[q + (ChunkDigits[z] + 2)].kind = "lf"

(* ... and after p bytes, k of a chunk and of the line end behind it.      *)
ChunkFrom(s, p, k) == \A i \in 1..k : s[p + i].kind = "data" <=> i <= k - 2

(* The places E of s where chunks end: the next chunk ends at another.     *)
ChunkEndsAt(s, E, p, k) == p + k \in E /\ ChunkFrom(s, p, k)
NextChunk(s, E, q, z) ==
  /\ SizeLineAt(s, q, z)
  /\ ChunkEndsAt(s, E, q + (ChunkDigits[z] + 2), z + 2)
ChunkShape(s, E) ==
  /\ s \in Seq(ChunkBytesAll) /\ E \subseteq 0..Len(s)
  /\ \A q \in E : q = Len(s) \/ \E z \in ChunkSizes \cup {0} : NextChunk(s, E, q, z)

(* The line of a size, the data of a chunk, and a chunk as the server sends it. *)
LEMMA ChunkNumbers ==
  /\ \A z \in ChunkSizes \cup {0} : z \in Nat /\ ChunkDigits[z] \in Nat /\ ChunkDigits[z] > 0
  /\ \A z \in ChunkSizes \cup {0} : ChunkDigits[z] + 2 <= ChunkLook
  BY ChunkAssumption DEF ChunkAssumption

LEMMA LineEndBytes ==
  /\ LineEnd \in Seq(ChunkBytesAll) /\ Len(LineEnd) = 2
  /\ LineEnd[1].kind = "cr" /\ LineEnd[2].kind = "lf"
  BY DEF LineEnd, ChunkByte, ChunkBytesAll

LEMMA SizeLineBytes ==
  ASSUME NEW z \in ChunkSizes \cup {0}
  PROVE  /\ SizeLine(z) \in Seq(ChunkBytesAll) /\ Len(SizeLine(z)) = ChunkDigits[z] + 2
         /\ SizeLineAt(SizeLine(z), 0, z)
<1>1. PICK d \in Nat : d = ChunkDigits[z] BY ChunkNumbers
<1> DEFINE A == [i \in 1..d |-> ChunkByte("size", z)]
           B == LineEnd
<1>2. z \in Nat BY ChunkNumbers
<1>3. /\ A \in Seq(ChunkBytesAll) /\ Len(A) = d
      /\ \A i \in 1..d : A[i] = ChunkByte("size", z)
  BY <1>2 DEF ChunkByte, ChunkBytesAll
<1>4. SizeLine(z) = A \o B BY <1>1 DEF SizeLine
<1>5. B \in Seq(ChunkBytesAll) /\ Len(B) = 2 /\ B[1].kind = "cr" /\ B[2].kind = "lf"
  BY LineEndBytes
<1> HIDE DEF A, B
<1>6. /\ A \o B \in Seq(ChunkBytesAll) /\ Len(A \o B) = Len(A) + Len(B)
      /\ \A k \in 1..Len(A) : (A \o B)[k] = A[k]
      /\ \A k \in 1..Len(B) : (A \o B)[Len(A) + k] = B[k]
  <2>1. A \in Seq(ChunkBytesAll) /\ B \in Seq(ChunkBytesAll) BY <1>3, <1>5
  <2>2. QED BY <2>1, Concat
<1> DEFINE C == A \o B
<1>7. C \in Seq(ChunkBytesAll) /\ Len(C) = d + 2 BY <1>3, <1>5, <1>6
<1>8. \A i \in 1..d : C[0 + i] = ChunkByte("size", z)
  <2>1. \A i \in 1..d : C[i] = A[i] BY <1>3, <1>6
  <2>2. QED BY <1>3, <2>1
<1>9. C[d + 1] = B[1] /\ C[d + 2] = B[2]
  <2>1. 1 \in 1..Len(B) /\ 2 \in 1..Len(B) BY <1>5
  <2>2. QED BY <1>3, <1>6, <2>1
<1> HIDE DEF C
<1>10. SizeLineAt(C, 0, z)
  <2>1. 0 + (d + 1) = d + 1 /\ 0 + (d + 2) = d + 2 OBVIOUS
  <2>2. QED BY <1>1, <1>5, <1>8, <1>9, <2>1 DEF SizeLineAt
<1>11. SizeLine(z) = C BY <1>4 DEF C
<1>12. QED BY <1>1, <1>7, <1>10, <1>11

LEMMA ChunkBytesOf ==
  ASSUME NEW c \in Nat, NEW z \in ChunkSizes
  PROVE  /\ ChunkBytes(c, z) \in Seq(ChunkBytesAll)
         /\ Len(ChunkBytes(c, z)) = ChunkDigits[z] + 2 + (z + 2)
         /\ SizeLineAt(ChunkBytes(c, z), 0, z)
         /\ ChunkFrom(ChunkBytes(c, z), ChunkDigits[z] + 2, z + 2)
<1>1. PICK d \in Nat : d = ChunkDigits[z] /\ z \in Nat BY ChunkNumbers
<1> DEFINE A == SizeLine(z)
           B == [i \in 1..z |-> ChunkByte("data", <<c, i>>)]
           L == LineEnd
<1>2. A \in Seq(ChunkBytesAll) /\ Len(A) = d + 2 /\ SizeLineAt(A, 0, z)
  BY <1>1, SizeLineBytes
<1>3. /\ B \in Seq(ChunkBytesAll) /\ Len(B) = z
      /\ \A i \in 1..z : B[i].kind = "data"
  <2>1. \A i \in 1..z : ChunkByte("data", <<c, i>>) \in ChunkBytesAll
    BY <1>1 DEF ChunkByte, ChunkBytesAll
  <2>2. \A i \in 1..z : B[i].kind = "data" BY <1>1 DEF ChunkByte
  <2>3. B \in [1..z -> ChunkBytesAll] BY <2>1
  <2> HIDE DEF B
  <2>4. QED BY <1>1, <2>2, <2>3
<1>4. L \in Seq(ChunkBytesAll) /\ Len(L) = 2 /\ L[1].kind = "cr" /\ L[2].kind = "lf"
  BY LineEndBytes
<1>5. ChunkBytes(c, z) = A \o B \o L BY DEF ChunkBytes
<1> HIDE DEF A, B, L
<1>6. /\ A \o B \in Seq(ChunkBytesAll) /\ Len(A \o B) = Len(A) + Len(B)
      /\ \A k \in 1..Len(A) : (A \o B)[k] = A[k]
      /\ \A k \in 1..Len(B) : (A \o B)[Len(A) + k] = B[k]
  <2>1. A \in Seq(ChunkBytesAll) /\ B \in Seq(ChunkBytesAll) BY <1>2, <1>3
  <2>2. QED BY <2>1, Concat
<1> DEFINE C == A \o B
<1>7. /\ C \in Seq(ChunkBytesAll) /\ Len(C) = d + 2 + z
      /\ \A k \in 1..(d + 2) : C[k] = A[k]
      /\ \A k \in 1..z : C[d + 2 + k].kind = "data"
  <2> HIDE DEF C
  <2>1. Len(A) = d + 2 /\ Len(B) = z BY <1>2, <1>3
  <2>2. C \in Seq(ChunkBytesAll) /\ Len(C) = Len(A) + Len(B) BY <1>6 DEF C
  <2>3. Len(C) = d + 2 + z BY <1>1, <2>1, <2>2
  <2>4. \A k \in 1..(d + 2) : C[k] = A[k] BY <1>6, <2>1 DEF C
  <2>5. ASSUME NEW k \in 1..z PROVE C[d + 2 + k].kind = "data"
    <3>1. C[Len(A) + k] = B[k] BY <1>6, <2>1 DEF C
    <3>2. Len(A) + k = d + 2 + k BY <1>1, <2>1
    <3>3. B[k].kind = "data" BY <1>3
    <3>4. QED BY <3>1, <3>2, <3>3
  <2>6. QED BY <2>2, <2>3, <2>4, <2>5
<1>8. ChunkBytes(c, z) = C \o L BY <1>5
<1> HIDE DEF C
<1>9. /\ C \o L \in Seq(ChunkBytesAll) /\ Len(C \o L) = Len(C) + Len(L)
      /\ \A k \in 1..Len(C) : (C \o L)[k] = C[k]
      /\ \A k \in 1..Len(L) : (C \o L)[Len(C) + k] = L[k]
  <2>1. C \in Seq(ChunkBytesAll) /\ L \in Seq(ChunkBytesAll) BY <1>4, <1>7
  <2>2. QED BY <2>1, Concat
<1> DEFINE D == C \o L
<1>10. D \in Seq(ChunkBytesAll) /\ Len(D) = d + 2 + (z + 2)
  <2>1. Len(C) = d + 2 + z /\ Len(L) = 2 /\ Len(D) = Len(C) + Len(L) BY <1>4, <1>7, <1>9
  <2>2. d + 2 + z + 2 = d + 2 + (z + 2) BY <1>1
  <2>3. QED BY <1>9, <2>1, <2>2
<1>11. \A k \in 1..(d + 2) : D[k] = A[k]
  <2>1. \A k \in 1..(d + 2) : k \in 1..Len(C) BY <1>1, <1>7
  <2>2. QED BY <1>7, <1>9, <2>1
<1>12. \A k \in 1..z : D[d + 2 + k].kind = "data"
  <2>1. \A k \in 1..z : d + 2 + k \in 1..Len(C) BY <1>1, <1>7
  <2>2. QED BY <1>7, <1>9, <2>1
<1>13. D[d + 2 + (z + 1)].kind = "cr" /\ D[d + 2 + (z + 2)].kind = "lf"
  <2>1. 1 \in 1..Len(L) /\ 2 \in 1..Len(L) BY <1>4
  <2>2. Len(C) + 1 = d + 2 + (z + 1) /\ Len(C) + 2 = d + 2 + (z + 2)
    <3>1. Len(C) = d + 2 + z /\ z \in Nat /\ d \in Nat BY <1>1, <1>7
    <3>2. QED BY <3>1
  <2>3. QED BY <1>4, <1>9, <2>1, <2>2
<1> HIDE DEF D
<1>14. SizeLineAt(D, 0, z)
  <2>1. /\ \A i \in 1..d : A[0 + i] = ChunkByte("size", z)
        /\ A[0 + (d + 1)].kind = "cr" /\ A[0 + (d + 2)].kind = "lf"
    BY <1>1, <1>2 DEF SizeLineAt
  <2>2. /\ \A i \in 1..d : D[0 + i] = A[0 + i]
        /\ D[0 + (d + 1)] = A[0 + (d + 1)] /\ D[0 + (d + 2)] = A[0 + (d + 2)]
    BY <1>11
  <2>3. QED BY <1>1, <2>1, <2>2 DEF SizeLineAt
<1>15. ChunkFrom(D, d + 2, z + 2)
  <2>1. ASSUME NEW i \in 1..(z + 2)
        PROVE  D[d + 2 + i].kind = "data" <=> i <= (z + 2) - 2
    <3>1. CASE i \in 1..z BY <1>1, <1>12, <3>1
    <3>2. CASE i = z + 1 BY <1>1, <1>13, <3>2
    <3>3. CASE i = z + 2 BY <1>1, <1>13, <3>3
    <3>4. QED BY <1>1, <3>1, <3>2, <3>3
  <2>2. QED BY <2>1 DEF ChunkFrom
<1>16. ChunkBytes(c, z) = D BY <1>8 DEF D
<1>17. QED BY <1>1, <1>10, <1>14, <1>15, <1>16

(* The same bytes at another place. *)
SameBytes(s, p, t, q, k) == \A i \in 1..k : s[p + i] = t[q + i]

(* A chunk in the stream is the chunk that was sent, further on.           *)
LEMMA SizeLineMoved ==
  ASSUME NEW s, NEW t, NEW p, NEW q, NEW z \in ChunkSizes \cup {0},
         SameBytes(s, p, t, q, ChunkDigits[z] + 2), SizeLineAt(t, q, z)
  PROVE  SizeLineAt(s, p, z)
<1>1. ChunkDigits[z] \in Nat BY ChunkNumbers
<1>2. /\ \A i \in 1..ChunkDigits[z] : i \in 1..(ChunkDigits[z] + 2)
      /\ ChunkDigits[z] + 1 \in 1..(ChunkDigits[z] + 2)
      /\ ChunkDigits[z] + 2 \in 1..(ChunkDigits[z] + 2)
  BY <1>1
<1>3. QED BY <1>2 DEF SizeLineAt, SameBytes

LEMMA ChunkMoved ==
  ASSUME NEW s, NEW t, NEW p, NEW q, NEW k,
         SameBytes(s, p, t, q, k), ChunkFrom(t, q, k)
  PROVE  ChunkFrom(s, p, k)
  BY DEF ChunkFrom, SameBytes
(* The last chunk, which is empty. *)
LEMMA LastBytes ==
  /\ SizeLine(0) \o LineEnd \in Seq(ChunkBytesAll)
  /\ Len(SizeLine(0) \o LineEnd) = ChunkDigits[0] + 2 + 2
  /\ SizeLineAt(SizeLine(0) \o LineEnd, 0, 0)
  /\ ChunkFrom(SizeLine(0) \o LineEnd, ChunkDigits[0] + 2, 2)
<1> DEFINE A == SizeLine(0)
           L == LineEnd
           D == A \o L
<1>1. 0 \in ChunkSizes \cup {0} OBVIOUS
<1>2. PICK d \in Nat : d = ChunkDigits[0] BY <1>1, ChunkNumbers
<1>3. A \in Seq(ChunkBytesAll) /\ Len(A) = d + 2 /\ SizeLineAt(A, 0, 0)
  BY <1>1, <1>2, SizeLineBytes
<1>4. L \in Seq(ChunkBytesAll) /\ Len(L) = 2 /\ L[1].kind = "cr" /\ L[2].kind = "lf"
  BY LineEndBytes
<1> HIDE DEF A, L
<1>5. /\ D \in Seq(ChunkBytesAll) /\ Len(D) = Len(A) + Len(L)
      /\ \A k \in 1..Len(A) : D[k] = A[k]
      /\ \A k \in 1..Len(L) : D[Len(A) + k] = L[k]
  <2>1. A \in Seq(ChunkBytesAll) /\ L \in Seq(ChunkBytesAll) BY <1>3, <1>4
  <2>2. /\ A \o L \in Seq(ChunkBytesAll) /\ Len(A \o L) = Len(A) + Len(L)
        /\ \A k \in 1..Len(A) : (A \o L)[k] = A[k]
        /\ \A k \in 1..Len(L) : (A \o L)[Len(A) + k] = L[k]
    BY <2>1, Concat
  <2>3. QED BY <2>2
<1> HIDE DEF D
<1>6. SizeLineAt(D, 0, 0)
  <2>1. SameBytes(D, 0, A, 0, ChunkDigits[0] + 2) BY <1>2, <1>3, <1>5 DEF SameBytes
  <2>2. QED BY <1>1, <1>3, <2>1, SizeLineMoved
<1>7. ChunkFrom(D, d + 2, 2)
  <2>1. D[d + 2 + 1] = L[1] /\ D[d + 2 + 2] = L[2]
    <3>1. 1 \in 1..Len(L) /\ 2 \in 1..Len(L) BY <1>4
    <3>2. QED BY <1>3, <1>5, <3>1
  <2>2. \A i \in 1..2 : i = 1 \/ i = 2 OBVIOUS
  <2>3. \A i \in 1..2 : D[d + 2 + i].kind # "data" /\ ~(i <= 2 - 2) BY <1>4, <2>1, <2>2
  <2>4. QED BY <2>3 DEF ChunkFrom
<1>8. D \in Seq(ChunkBytesAll) /\ Len(D) = d + 2 + 2 BY <1>3, <1>4, <1>5
<1>9. SizeLine(0) \o LineEnd = D BY DEF A, L, D
<1>10. QED BY <1>2, <1>6, <1>7, <1>8, <1>9

(* From p to e there is the chunk of size z, with its line. *)
WholeChunk(s, p, z, e) ==
  /\ e = p + (ChunkDigits[z] + 2) + (z + 2)
  /\ SizeLineAt(s, p, z) /\ ChunkFrom(s, p + (ChunkDigits[z] + 2), z + 2)

LEMMA Moved ==
  ASSUME NEW p \in Nat, NEW o \in Nat, NEW q \in Nat, q = p - o,
         NEW a \in Nat, NEW b \in Nat, NEW e \in Nat, e = p + a + b
  PROVE  q + a + b = e - o
  OBVIOUS

(* What follows of the stream when its first o bytes are taken away. *)
LEMMA NextShifted ==
  ASSUME NEW s, NEW all, NEW E, NEW o \in Nat, NEW p \in Nat, o <= p,
         Len(s) \in Nat, \A i \in 1..Len(s) : s[i] = all[o + i],
         NEW z \in ChunkSizes \cup {0},
         NEW e \in Nat, e - o <= Len(s), e - o \in E, WholeChunk(all, p, z, e)
  PROVE  NextChunk(s, E, p - o, z)
<1>1. PICK d \in Nat : d = ChunkDigits[z] BY ChunkNumbers
<1>2. z \in Nat BY ChunkNumbers
<1>3. PICK q \in Nat : q = p - o OBVIOUS
<1>4. q + (d + 2) + (z + 2) = e - o
  <2>1. e = p + (d + 2) + (z + 2) BY <1>1 DEF WholeChunk
  <2>2. d + 2 \in Nat /\ z + 2 \in Nat BY <1>2
  <2>3. QED BY <1>3, <2>1, <2>2, Moved
<1>5. SizeLineAt(s, q, z)
  <2>1. ASSUME NEW i \in 1..(d + 2) PROVE s[q + i] = all[p + i]
    <3>1. q + i \in 1..Len(s) /\ o + (q + i) = p + i BY <1>2, <1>3, <1>4
    <3>2. s[q + i] = all[o + (q + i)] BY <3>1
    <3>3. QED BY <3>1, <3>2
  <2>2. SameBytes(s, q, all, p, d + 2) BY <2>1 DEF SameBytes
  <2>3. SizeLineAt(all, p, z) BY DEF WholeChunk
  <2>4. QED BY <1>1, <2>2, <2>3, SizeLineMoved
<1>6. ChunkFrom(s, q + (d + 2), z + 2)
  <2>1. ASSUME NEW i \in 1..(z + 2) PROVE s[q + (d + 2) + i] = all[p + (d + 2) + i]
    <3>1. q + (d + 2) + i \in 1..Len(s) /\ o + (q + (d + 2) + i) = p + (d + 2) + i
      BY <1>2, <1>3, <1>4
    <3>2. s[q + (d + 2) + i] = all[o + (q + (d + 2) + i)] BY <3>1
    <3>3. QED BY <3>1, <3>2
  <2>2. SameBytes(s, q + (d + 2), all, p + (d + 2), z + 2) BY <2>1 DEF SameBytes
  <2>3. ChunkFrom(all, p + (d + 2), z + 2) BY <1>1 DEF WholeChunk
  <2>4. QED BY <2>2, <2>3, ChunkMoved
<1>7. QED BY <1>1, <1>3, <1>4, <1>5, <1>6 DEF NextChunk, ChunkEndsAt

(* The whole of the stream; at tells where its chunks end. *)
AllChunks(all, sizes, n, last, at) ==
  /\ all \in Seq(ChunkBytesAll) /\ at \in [0..n -> Nat] /\ at[0] = 0
  /\ \A c \in 1..n : WholeChunk(all, at[c - 1], sizes[c], at[c])
  /\ \A c \in 1..n : at[1] <= at[c] /\ at[c] <= Len(all)
  /\ IF last THEN WholeChunk(all, at[n], 0, Len(all)) ELSE at[n] = Len(all)

(* The chunks, one behind the other, and the last one that is empty.       *)
LEMMA WholeStream ==
  ASSUME NEW n \in Nat, n > 0, NEW sizes \in [1..n -> ChunkSizes], NEW last \in BOOLEAN,
         NEW all,
         all = FlattenSeq([c \in 1..n |-> ChunkBytes(c, sizes[c])])
               \o IF last THEN SizeLine(0) \o LineEnd ELSE <<>>
  PROVE  \E at : AllChunks(all, sizes, n, last, at)
<1> DEFINE seqs == [c \in 1..n |-> ChunkBytes(c, sizes[c])]
           whole == FlattenSeq(seqs)
           tail == IF last THEN SizeLine(0) \o LineEnd ELSE <<>>
<1>1. \A c \in 1..n : seqs[c] = ChunkBytes(c, sizes[c]) /\ sizes[c] \in ChunkSizes OBVIOUS
<1>2. seqs \in [1..n -> Seq(ChunkBytesAll)]
  <2>1. \A c \in 1..n : ChunkBytes(c, sizes[c]) \in Seq(ChunkBytesAll) BY ChunkBytesOf
  <2>2. QED BY <2>1
<1>3. all = whole \o tail OBVIOUS
<1> HIDE DEF seqs
<1>4. whole \in Seq(ChunkBytesAll) /\ \E at : Layout(whole, seqs, n, at) BY <1>2, FlattenLayout
<1>5. /\ tail \in Seq(ChunkBytesAll)
      /\ last => /\ Len(tail) = ChunkDigits[0] + 2 + 2
                 /\ SizeLineAt(tail, 0, 0) /\ ChunkFrom(tail, ChunkDigits[0] + 2, 2)
      /\ ~last => Len(tail) = 0
  BY LastBytes
<1> HIDE DEF whole, tail
<1>6. /\ all \in Seq(ChunkBytesAll) /\ Len(all) = Len(whole) + Len(tail)
      /\ \A k \in 1..Len(whole) : all[k] = whole[k]
      /\ \A k \in 1..Len(tail) : all[Len(whole) + k] = tail[k]
  <2>1. whole \in Seq(ChunkBytesAll) /\ tail \in Seq(ChunkBytesAll) BY <1>4, <1>5
  <2>2. /\ whole \o tail \in Seq(ChunkBytesAll) /\ Len(whole \o tail) = Len(whole) + Len(tail)
        /\ \A k \in 1..Len(whole) : (whole \o tail)[k] = whole[k]
        /\ \A k \in 1..Len(tail) : (whole \o tail)[Len(whole) + k] = tail[k]
    BY <2>1, Concat
  <2>3. QED BY <1>3, <2>2
<1>7. PICK at : Layout(whole, seqs, n, at) BY <1>4
<1>8. \A c \in 1..n : Len(seqs[c]) \in Nat BY <1>2
<1>9. /\ at \in [0..n -> Nat] /\ at[0] = 0 /\ Len(whole) = at[n]
      /\ \A c \in 1..n : at[c] = at[c - 1] + Len(seqs[c])
      /\ \A c \in 1..n : \A k \in 1..Len(seqs[c]) : whole[at[c - 1] + k] = seqs[c][k]
  BY <1>7 DEF Layout
<1>10. \A c \in 0..n : \A j \in c..n : at[c] <= at[j] BY <1>7, <1>8, LayoutGrows
<1>11. Len(whole) \in Nat /\ Len(tail) \in Nat /\ Len(all) \in Nat BY <1>4, <1>5, <1>6
<1>12. ASSUME NEW c \in 1..n, NEW z \in ChunkSizes, z = sizes[c],
              NEW p \in Nat, p = at[c - 1]
       PROVE  /\ at[c] = p + (ChunkDigits[z] + 2) + (z + 2) /\ at[c] <= Len(whole)
              /\ SizeLineAt(all, p, z) /\ ChunkFrom(all, p + (ChunkDigits[z] + 2), z + 2)
  <2>1. PICK d \in Nat : d = ChunkDigits[z] BY ChunkNumbers
  <2>2. z \in Nat BY ChunkNumbers
  <2>3. /\ Len(seqs[c]) = d + 2 + (z + 2)
        /\ SizeLineAt(seqs[c], 0, z) /\ ChunkFrom(seqs[c], d + 2, z + 2)
    BY <1>1, <1>12, <2>1, ChunkBytesOf
  <2>4. at[c] = p + Len(seqs[c]) BY <1>9, <1>12
  <2>5. at[c] = p + (d + 2) + (z + 2) BY <2>1, <2>2, <2>3, <2>4
  <2>6. at[c] <= Len(whole)
    <3>1. c \in 0..n /\ n \in c..n OBVIOUS
    <3>2. QED BY <1>9, <1>10, <3>1
  <2>7. ASSUME NEW k \in 1..(d + 2 + (z + 2)) PROVE all[p + k] = seqs[c][k]
    <3>1. whole[p + k] = seqs[c][k] BY <1>9, <1>12, <2>3
    <3>2. p + k \in 1..Len(whole) BY <1>11, <2>2, <2>5, <2>6
    <3>3. QED BY <1>6, <3>1, <3>2
  <2>8. SizeLineAt(all, p, z)
    <3>1. ASSUME NEW i \in 1..(d + 2) PROVE all[p + i] = seqs[c][0 + i]
      <4>1. i \in 1..(d + 2 + (z + 2)) /\ 0 + i = i BY <2>2
      <4>2. QED BY <2>7, <4>1
    <3>2. SameBytes(all, p, seqs[c], 0, d + 2) BY <3>1 DEF SameBytes
    <3>3. QED BY <2>1, <2>3, <3>2, SizeLineMoved
  <2>9. ChunkFrom(all, p + (d + 2), z + 2)
    <3>1. ASSUME NEW i \in 1..(z + 2) PROVE all[p + (d + 2) + i] = seqs[c][d + 2 + i]
      <4>1. d + 2 + i \in 1..(d + 2 + (z + 2)) /\ p + (d + 2 + i) = p + (d + 2) + i BY <2>2
      <4>2. all[p + (d + 2 + i)] = seqs[c][d + 2 + i] BY <2>7, <4>1
      <4>3. QED BY <4>1, <4>2
    <3>2. SameBytes(all, p + (d + 2), seqs[c], d + 2, z + 2) BY <3>1 DEF SameBytes
    <3>3. QED BY <2>3, <3>2, ChunkMoved
  <2>10. QED BY <2>1, <2>5, <2>6, <2>8, <2>9
<1>13. ASSUME last, NEW p \in Nat, p = at[n]
       PROVE  /\ Len(all) = p + (ChunkDigits[0] + 2) + (0 + 2)
              /\ SizeLineAt(all, p, 0) /\ ChunkFrom(all, p + (ChunkDigits[0] + 2), 0 + 2)
  <2>1. 0 \in ChunkSizes \cup {0} OBVIOUS
  <2>2. PICK d \in Nat : d = ChunkDigits[0] BY <2>1, ChunkNumbers
  <2>3. /\ Len(tail) = d + 2 + 2 /\ SizeLineAt(tail, 0, 0) /\ ChunkFrom(tail, d + 2, 2)
        /\ p = Len(whole)
    BY <1>5, <1>9, <1>13, <2>2
  <2>4. Len(all) = p + (d + 2) + 2 BY <1>6, <2>3
  <2>5. \A k \in 1..(d + 2 + 2) : all[p + k] = tail[k] BY <1>6, <2>3
  <2>6. SizeLineAt(all, p, 0)
    <3>1. ASSUME NEW i \in 1..(d + 2) PROVE all[p + i] = tail[0 + i]
      <4>1. i \in 1..(d + 2 + 2) /\ 0 + i = i OBVIOUS
      <4>2. QED BY <2>5, <4>1
    <3>2. SameBytes(all, p, tail, 0, d + 2) BY <3>1 DEF SameBytes
    <3>3. QED BY <2>1, <2>2, <2>3, <3>2, SizeLineMoved
  <2>7. ChunkFrom(all, p + (d + 2), 2)
    <3>1. ASSUME NEW i \in 1..2 PROVE all[p + (d + 2) + i] = tail[d + 2 + i]
      <4>1. d + 2 + i \in 1..(d + 2 + 2) /\ p + (d + 2 + i) = p + (d + 2) + i OBVIOUS
      <4>2. all[p + (d + 2 + i)] = tail[d + 2 + i] BY <2>5, <4>1
      <4>3. QED BY <4>1, <4>2
    <3>2. SameBytes(all, p + (d + 2), tail, d + 2, 2) BY <3>1 DEF SameBytes
    <3>3. QED BY <2>3, <3>2, ChunkMoved
  <2>8. 0 + 2 = 2 OBVIOUS
  <2>9. QED BY <2>2, <2>4, <2>6, <2>7, <2>8
<1>14. ASSUME NEW c \in 1..n
       PROVE  /\ WholeChunk(all, at[c - 1], sizes[c], at[c])
              /\ at[1] <= at[c] /\ at[c] <= Len(all)
  <2>1. c - 1 \in 0..n /\ 1 \in 0..n /\ c \in 0..n /\ c \in 1..n /\ n \in c..n OBVIOUS
  <2>2. PICK p \in Nat : p = at[c - 1] BY <1>9, <2>1
  <2>3. PICK z \in ChunkSizes : z = sizes[c] OBVIOUS
  <2>4. WholeChunk(all, p, z, at[c]) BY <1>12, <2>2, <2>3 DEF WholeChunk
  <2>5. at[1] <= at[c] /\ at[c] <= at[n] /\ at[c] \in Nat /\ at[n] \in Nat BY <1>9, <1>10, <2>1
  <2>6. at[n] <= Len(all) BY <1>6, <1>9, <1>11
  <2>7. QED BY <1>11, <2>2, <2>3, <2>4, <2>5, <2>6
<1>15. last => WholeChunk(all, at[n], 0, Len(all))
  <2>1. PICK p \in Nat : p = at[n] BY <1>9
  <2>2. QED BY <1>13, <2>1 DEF WholeChunk
<1>16. ~last => at[n] = Len(all) BY <1>5, <1>6, <1>9, <1>11
<1>17. QED BY <1>6, <1>9, <1>14, <1>15, <1>16 DEF AllChunks

(* Chunks follow each other in s, whose first is of size z. *)
ChunksFollow(s, z) == \E E : ChunkShape(s, E) /\ ChunkEndsAt(s, E, 0, z + 2)

(* What s is of the whole stream: all but its first o bytes. *)
BehindFirst(n, sizes, last, all, at, s, z, o, w, v) ==
  /\ n \in Nat /\ n > 0 /\ sizes \in [1..n -> ChunkSizes] /\ last \in BOOLEAN
  /\ z \in Nat /\ o \in Nat /\ w \in Nat /\ v \in Nat /\ v = w - o
  /\ s \in Seq(ChunkBytesAll) /\ Len(s) = v /\ \A i \in 1..v : s[i] = all[o + i]
  /\ \A c \in 1..n : at[c] \in Nat /\ o <= at[c] /\ at[c] <= w
  /\ \A c \in 1..n : WholeChunk(all, at[c - 1], sizes[c], at[c])
  /\ IF last THEN WholeChunk(all, at[n], 0, w) ELSE at[n] = w
  /\ at[1] = o + (z + 2) /\ ChunkFrom(all, o, z + 2)

LEMMA ChunkEndsOf ==
  ASSUME NEW n, NEW sizes, NEW last, NEW all, NEW at, NEW s, NEW z, NEW o, NEW w, NEW v,
         BehindFirst(n, sizes, last, all, at, s, z, o, w, v)
  PROVE  ChunksFollow(s, z)
<1>1. /\ n \in Nat /\ n > 0 /\ sizes \in [1..n -> ChunkSizes] /\ last \in BOOLEAN
      /\ z \in Nat /\ o \in Nat /\ w \in Nat /\ v \in Nat /\ v = w - o
      /\ s \in Seq(ChunkBytesAll) /\ Len(s) = v /\ \A i \in 1..v : s[i] = all[o + i]
      /\ \A c \in 1..n : at[c] \in Nat /\ o <= at[c] /\ at[c] <= w
      /\ \A c \in 1..n : WholeChunk(all, at[c - 1], sizes[c], at[c])
      /\ IF last THEN WholeChunk(all, at[n], 0, w) ELSE at[n] = w
      /\ at[1] = o + (z + 2) /\ ChunkFrom(all, o, z + 2)
  BY DEF BehindFirst
<1>2. \A c \in 1..n : at[c] - o \in 0..v
  <2>1. /\ o \in Nat /\ w \in Nat /\ v \in Nat /\ v = w - o
        /\ \A c \in 1..n : at[c] \in Nat /\ o <= at[c] /\ at[c] <= w
    BY <1>1
  <2>2. ASSUME NEW c \in 1..n PROVE at[c] - o \in 0..v
    <3>1. at[c] \in Nat /\ o <= at[c] /\ at[c] <= w BY <2>1
    <3>2. QED BY <2>1, <3>1
  <2>3. QED BY <2>2
<1> USE <1>1
<1> DEFINE E == {at[c] - o : c \in 1..n} \cup {v}
<1>3. v \in E /\ \A c \in 1..n : at[c] - o \in E OBVIOUS
<1>4. E \subseteq 0..v
  <2>1. v \in 0..v OBVIOUS
  <2>2. QED BY <1>2, <2>1, Zenon
<1>5. ASSUME NEW c \in 1..n
      PROVE  at[c] - o = v \/ \E y \in ChunkSizes \cup {0} : NextChunk(s, E, at[c] - o, y)
  <2>1. PICK p \in Nat : p = at[c] /\ o <= p /\ p <= w OBVIOUS
  <2>2. CASE c # n
    <3>1. PICK h \in 1..n : h = c + 1 /\ h - 1 = c BY <2>2
    <3>2. PICK y \in ChunkSizes \cup {0} : y = sizes[h] OBVIOUS
    <3>3. PICK e \in Nat : e = at[h] OBVIOUS
    <3>4. WholeChunk(all, p, y, e) BY <2>1, <3>1, <3>2, <3>3
    <3>5. e - o \in E /\ e - o \in 0..v BY <1>3, <1>2, <3>3
    <3> HIDE DEF E
    <3>6. e - o <= Len(s) /\ e - o \in E BY <3>5
    <3>7. NextChunk(s, E, p - o, y) BY <2>1, <3>4, <3>6, NextShifted
    <3>8. QED BY <2>1, <3>7
  <2>3. CASE c = n /\ last
    <3>1. PICK y \in ChunkSizes \cup {0} : y = 0 OBVIOUS
    <3>2. WholeChunk(all, p, y, w) BY <2>1, <2>3, <3>1
    <3>3. w - o \in E BY <1>3
    <3> HIDE DEF E
    <3>4. w - o <= Len(s) /\ w - o \in E BY <3>3
    <3>5. NextChunk(s, E, p - o, y) BY <2>1, <3>2, <3>4, NextShifted
    <3>6. QED BY <2>1, <3>5
  <2>4. CASE c = n /\ ~last BY <2>4
  <2>5. QED BY <2>2, <2>3, <2>4
<1>6. \A q \in E : q = v \/ \E y \in ChunkSizes \cup {0} : NextChunk(s, E, q, y)
  <2> SUFFICES ASSUME NEW q \in E
               PROVE  q = v \/ \E y \in ChunkSizes \cup {0} : NextChunk(s, E, q, y)
    OBVIOUS
  <2>1. q = v \/ \E c \in 1..n : q = at[c] - o OBVIOUS
  <2> HIDE DEF E
  <2>2. CASE q = v BY <2>2
  <2>3. CASE \E c \in 1..n : q = at[c] - o
    <3>1. PICK c \in 1..n : q = at[c] - o BY <2>3
    <3>2. QED BY <1>5, <3>1
  <2>4. QED BY <2>1, <2>2, <2>3
<1>7. 0 + (z + 2) \in E
  <2>1. 1 \in 1..n OBVIOUS
  <2>2. at[1] - o = 0 + (z + 2) OBVIOUS
  <2>3. QED BY <1>3, <2>1, <2>2
<1> HIDE DEF E
<1>8. ChunkFrom(s, 0, z + 2)
  <2>1. PICK k \in Nat : k = z + 2 OBVIOUS
  <2>2. 0 + k \in 0..v BY <1>4, <1>7, <2>1
  <2>3. ASSUME NEW i \in 1..k PROVE s[0 + i] = all[o + i]
    <3>1. i \in 1..v /\ 0 + i = i BY <2>2
    <3>2. QED BY <3>1
  <2>4. SameBytes(s, 0, all, o, k) BY <2>3 DEF SameBytes
  <2>5. QED BY <2>1, <2>4, ChunkMoved
<1>9. ChunkShape(s, E) BY <1>4, <1>6 DEF ChunkShape
<1>10. QED BY <1>7, <1>8, <1>9 DEF ChunksFollow, ChunkEndsAt

LEMMA ChunkStreamShape ==
  ASSUME NEW n \in Nat, n > 0, NEW sizes \in [1..n -> ChunkSizes], NEW last \in BOOLEAN,
         NEW all, NEW at, AllChunks(all, sizes, n, last, at),
         NEW s, s = SubSeq(all, ChunkDigits[sizes[1]] + 3, Len(all))
  PROVE  ChunksFollow(s, sizes[1])
<1>1. /\ all \in Seq(ChunkBytesAll) /\ at \in [0..n -> Nat] /\ at[0] = 0
      /\ \A c \in 1..n : WholeChunk(all, at[c - 1], sizes[c], at[c])
      /\ \A c \in 1..n : at[1] <= at[c] /\ at[c] <= Len(all)
      /\ IF last THEN WholeChunk(all, at[n], 0, Len(all)) ELSE at[n] = Len(all)
  BY DEF AllChunks
<1>2. 1 \in 1..n /\ sizes[1] \in ChunkSizes OBVIOUS
<1>3. PICK z \in ChunkSizes : z = sizes[1] /\ z \in Nat BY <1>2, ChunkNumbers
<1>4. PICK o \in Nat : o = ChunkDigits[z] + 2 BY ChunkNumbers
<1>5. PICK w \in Nat : w = Len(all) BY <1>1
<1>6. at[1] = o + (z + 2) /\ ChunkFrom(all, o, z + 2)
  <2>1. PICK p : p = at[1 - 1] /\ p = 0 BY <1>1
  <2>2. WholeChunk(all, p, z, at[1]) BY <1>1, <1>2, <1>3, <2>1
  <2>3. p + (ChunkDigits[z] + 2) = o BY <1>4, <2>1
  <2>4. QED BY <2>2, <2>3 DEF WholeChunk
<1>7. \A c \in 1..n : at[c] \in Nat /\ o <= at[c] /\ at[c] <= w
  <2>1. ASSUME NEW c \in 1..n PROVE at[c] \in Nat /\ o <= at[c] /\ at[c] <= w
    <3>1. c \in 0..n /\ 1 \in 0..n BY <1>2
    <3>2. at[c] \in Nat /\ at[1] \in Nat /\ at[1] <= at[c] /\ at[c] <= w BY <1>1, <1>5, <3>1
    <3>3. o <= at[1] BY <1>3, <1>6
    <3>4. QED BY <3>2, <3>3
  <2>2. QED BY <2>1
<1>8. o <= w
  <2>1. at[1] \in Nat /\ o <= at[1] /\ at[1] <= w BY <1>2, <1>7
  <2>2. QED BY <1>5, <2>1
<1>9. PICK v \in Nat : v = w - o BY <1>8
<1>10. /\ s \in Seq(ChunkBytesAll) /\ Len(s) = v
       /\ \A i \in 1..v : s[i] = all[o + i]
  <2>1. s = SubSeq(all, o + 1, w)
    <3>1. ChunkDigits[z] \in Nat BY ChunkNumbers
    <3>2. ChunkDigits[z] + 3 = o + 1 BY <1>4, <3>1
    <3>3. QED BY <1>3, <1>5, <3>2
  <2>2. /\ SubSeq(all, o + 1, w) \in Seq(ChunkBytesAll)
        /\ Len(SubSeq(all, o + 1, w)) = w - o
        /\ \A i \in 1..(w - o) : SubSeq(all, o + 1, w)[i] = all[o + i]
    BY <1>1, <1>5, <1>8, RestOf
  <2>3. QED BY <1>9, <2>1, <2>2
<1>11. BehindFirst(n, sizes, last, all, at, s, z, o, w, v)
  BY <1>1, <1>3, <1>5, <1>6, <1>7, <1>9, <1>10 DEF BehindFirst
<1>12. QED BY <1>3, <1>11, ChunkEndsOf

-----------------------------------------------------------------------------
(* d is the data among the first p bytes of s, in order. *)
DataAt(s) == {i \in Nat : s[i].kind = "data"}
DataSoFar(s, d, p) ==
  /\ d \in Seq(ChunkBytesAll) /\ Len(d) = Counted(DataAt(s), p)
  /\ \A i \in 1..p : i \in DataAt(s) => d[Counted(DataAt(s), i)] = s[i]

(* The data handed on so far.                                              *)
LEMMA CountedGrows ==
  ASSUME NEW A, NEW p \in Nat, NEW i \in 1..p
  PROVE  /\ Counted(A, i) \in Nat /\ Counted(A, p) \in Nat /\ Counted(A, i) <= Counted(A, p)
         /\ i \in A => Counted(A, i) >= 1
<1> DEFINE X(n) == {j \in 1..n : j \in A}
<1>1. \A n \in Nat : IsFiniteSet(X(n)) /\ Cardinality(X(n)) \in Nat
  <2>1. ASSUME NEW n \in Nat PROVE IsFiniteSet(X(n)) /\ Cardinality(X(n)) \in Nat
    <3>1. IsFiniteSet(1..n) BY FS_Interval
    <3>2. X(n) \subseteq 1..n OBVIOUS
    <3> HIDE DEF X
    <3>3. IsFiniteSet(X(n)) BY <3>1, <3>2, FS_Subset
    <3>4. QED BY <3>3, FS_CardinalityType
  <2>2. QED BY <2>1
<1>2. X(i) \subseteq X(p) OBVIOUS
<1>3. i \in A => i \in X(i) OBVIOUS
<1>4. \A n \in Nat : Counted(A, n) = Cardinality(X(n)) BY DEF Counted
<1> HIDE DEF X
<1>5. Cardinality(X(i)) <= Cardinality(X(p)) BY <1>1, <1>2, FS_Subset
<1>6. i \in A => Cardinality(X(i)) # 0 BY <1>1, <1>3, FS_EmptySet
<1>7. i \in Nat OBVIOUS
<1>8. QED BY <1>1, <1>4, <1>5, <1>6, <1>7

(* Data that follows is added, ... *)
LEMMA DataMore ==
  ASSUME NEW s, NEW d, NEW p \in Nat, DataSoFar(s, d, p),
         NEW b \in Seq(ChunkBytesAll), NEW n \in Nat, n = Len(b),
         \A i \in 1..n : p + i \in DataAt(s) /\ b[i] = s[p + i]
  PROVE  DataSoFar(s, d \o b, p + n)
<1> DEFINE A == DataAt(s)
<1>1. /\ d \in Seq(ChunkBytesAll) /\ Len(d) = Counted(A, p)
      /\ \A i \in 1..p : i \in A => d[Counted(A, i)] = s[i]
  BY DEF DataSoFar
<1>2. \A i \in 1..n : p + i \in A OBVIOUS
<1> HIDE DEF A
<1>3. \A j \in 0..n : Counted(A, p + j) = Counted(A, p) + j
  <2>1. ASSUME NEW j \in 0..n PROVE Counted(A, p + j) = Counted(A, p) + j
    <3>1. j \in Nat /\ \A i \in 1..j : i \in 1..n OBVIOUS
    <3>2. \A i \in 1..j : p + i \in A BY <1>2, <3>1
    <3>3. QED BY <3>1, <3>2, CountedMore
  <2>2. QED BY <2>1
<1>4. /\ d \o b \in Seq(ChunkBytesAll) /\ Len(d \o b) = Len(d) + Len(b)
      /\ \A k \in 1..Len(d) : (d \o b)[k] = d[k]
      /\ \A k \in 1..Len(b) : (d \o b)[Len(d) + k] = b[k]
  <2>1. d \in Seq(ChunkBytesAll) BY <1>1
  <2>2. QED BY <2>1, Concat
<1>5. Len(d \o b) = Counted(A, p + n) BY <1>1, <1>3, <1>4
<1>6. ASSUME NEW i \in 1..(p + n), i \in A PROVE (d \o b)[Counted(A, i)] = s[i]
  <2>1. CASE i <= p
    <3>1. i \in 1..p BY <2>1
    <3>2. Counted(A, i) \in 1..Len(d) BY <1>1, <1>6, <3>1, CountedGrows
    <3>3. QED BY <1>1, <1>4, <1>6, <3>1, <3>2
  <2>2. CASE ~(i <= p)
    <3>1. PICK j \in 1..n : i = p + j
      <4>1. i - p \in 1..n /\ i = p + (i - p) BY <2>2
      <4>2. QED BY <4>1
    <3>2. Counted(A, i) = Len(d) + j BY <1>1, <1>3, <3>1
    <3>3. (d \o b)[Len(d) + j] = b[j] BY <1>4
    <3>4. QED BY <3>1, <3>2, <3>3
  <2>3. QED BY <2>1, <2>2
<1>7. QED BY <1>4, <1>5, <1>6 DEF DataSoFar, A

(* ... and other bytes are not. *)
LEMMA DataNone ==
  ASSUME NEW s, NEW d, NEW p \in Nat, DataSoFar(s, d, p),
         NEW n \in Nat, \A i \in 1..n : p + i \notin DataAt(s)
  PROVE  DataSoFar(s, d, p + n)
<1> DEFINE A == DataAt(s)
<1>1. /\ d \in Seq(ChunkBytesAll) /\ Len(d) = Counted(A, p)
      /\ \A i \in 1..p : i \in A => d[Counted(A, i)] = s[i]
  BY DEF DataSoFar
<1>2. \A i \in 1..n : p + i \notin A OBVIOUS
<1> HIDE DEF A
<1>3. Counted(A, p + n) = Counted(A, p) BY <1>2, CountedSame
<1>4. ASSUME NEW i \in 1..(p + n), i \in A PROVE d[Counted(A, i)] = s[i]
  <2>1. CASE i <= p BY <1>1, <1>4, <2>1
  <2>2. CASE i > p
    <3>1. i - p \in 1..n /\ i = p + (i - p) BY <2>2
    <3>2. QED BY <1>2, <1>4, <3>1
  <2>3. QED BY <2>1, <2>2
<1>5. QED BY <1>1, <1>3, <1>4 DEF DataSoFar, A

(* n bytes of the k that are left of a chunk and its line end, of which    *)
(* the first m are data.                                                   *)
LEMMA TakePart ==
  ASSUME NEW s, NEW E, NEW d, NEW p \in Nat, NEW k \in Nat,
         ChunkEndsAt(s, E, p, k), DataSoFar(s, d, p),
         NEW n \in 0..k, NEW m \in 0..n, m = 0 \/ m <= k - 2, m = n \/ m >= k - 2,
         NEW b \in Seq(ChunkBytesAll), Len(b) = m, \A i \in 1..m : b[i] = s[p + i]
  PROVE  DataSoFar(s, d \o b, p + n) /\ ChunkEndsAt(s, E, p + n, k - n)
<1>1. p + k \in E /\ \A i \in 1..k : s[p + i].kind = "data" <=> i <= k - 2
  BY DEF ChunkEndsAt, ChunkFrom
<1>2. ASSUME NEW i \in 1..k PROVE p + i \in DataAt(s) <=> i <= k - 2
  <2>1. p + i \in Nat OBVIOUS
  <2>2. s[p + i].kind = "data" <=> i <= k - 2 BY <1>1
  <2>3. QED BY <2>1, <2>2 DEF DataAt
<1>3. DataSoFar(s, d \o b, p + m)
  <2>1. ASSUME NEW i \in 1..m PROVE p + i \in DataAt(s)
    <3>1. i \in 1..k /\ i <= k - 2 OBVIOUS
    <3>2. QED BY <1>2, <3>1
  <2>2. m \in Nat OBVIOUS
  <2>3. QED BY <2>1, <2>2, DataMore
<1>4. DataSoFar(s, d \o b, p + n)
  <2>1. PICK j \in Nat : j = n - m /\ p + m + j = p + n OBVIOUS
  <2>2. p + m \in Nat OBVIOUS
  <2>3. ASSUME NEW i \in 1..j PROVE p + m + i \notin DataAt(s)
    <3>1. m + i \in 1..k /\ ~(m + i <= k - 2) /\ p + m + i = p + (m + i) BY <2>1
    <3>2. QED BY <1>2, <3>1
  <2>4. DataSoFar(s, d \o b, p + m + j) BY <1>3, <2>2, <2>3, DataNone
  <2>5. QED BY <2>1, <2>4
<1>5. p + n + (k - n) \in E
  <2>1. p + n + (k - n) = p + k OBVIOUS
  <2>2. QED BY <1>1, <2>1
<1>6. ChunkFrom(s, p + n, k - n)
  <2>1. ASSUME NEW i \in 1..(k - n)
        PROVE  s[p + n + i].kind = "data" <=> i <= (k - n) - 2
    <3>1. n + i \in 1..k /\ p + n + i = p + (n + i) /\ (n + i <= k - 2 <=> i <= (k - n) - 2)
      OBVIOUS
    <3>2. QED BY <1>1, <3>1
  <2>2. QED BY <2>1 DEF ChunkFrom
<1>7. QED BY <1>4, <1>5, <1>6 DEF ChunkEndsAt

LEMMA ConcatAssociates ==
  ASSUME NEW S, NEW a \in Seq(S), NEW b \in Seq(S), NEW c \in Seq(S)
  PROVE  a \o (b \o c) = (a \o b) \o c
  OBVIOUS

LEMMA WithoutOf ==
  ASSUME NEW S, NEW s \in Seq(S), NEW n \in Nat, n <= Len(s)
  PROVE  /\ Without(s, n) \in Seq(S) /\ Len(Without(s, n)) = Len(s) - n
         /\ \A i \in 1..(Len(s) - n) : Without(s, n)[i] = s[i]
  BY DEF Without

LEMMA WithoutJoined ==
  ASSUME NEW S, NEW a \in Seq(S), NEW b \in Seq(S), NEW n \in Nat, n <= Len(b)
  PROVE  Without(a \o b, n) = a \o Without(b, n)
<1> DEFINE x == Without(a \o b, n)
           y == a \o Without(b, n)
<1>1. /\ a \o b \in Seq(S) /\ Len(a \o b) = Len(a) + Len(b)
      /\ \A k \in 1..Len(a) : (a \o b)[k] = a[k]
      /\ \A k \in 1..Len(b) : (a \o b)[Len(a) + k] = b[k]
  BY Concat
<1>2. PICK j \in Nat : j = Len(b) - n OBVIOUS
<1>3. PICK h \in Nat : h = Len(a) OBVIOUS
<1>4. x \in Seq(S) /\ Len(x) = h + j /\ \A i \in 1..(h + j) : x[i] = (a \o b)[i]
  <2>1. n <= Len(a \o b) /\ Len(a \o b) - n = h + j BY <1>1, <1>2, <1>3
  <2>2. a \o b \in Seq(S) BY <1>1
  <2>3. QED BY <2>1, <2>2, WithoutOf
<1>5. Without(b, n) \in Seq(S) /\ Len(Without(b, n)) = j /\ \A i \in 1..j : Without(b, n)[i] = b[i]
  BY <1>2, WithoutOf
<1>6. /\ y \in Seq(S) /\ Len(y) = h + j
      /\ \A k \in 1..h : y[k] = a[k]
      /\ \A k \in 1..j : y[h + k] = Without(b, n)[k]
  <2>1. /\ y \in Seq(S) /\ Len(y) = Len(a) + Len(Without(b, n))
        /\ \A k \in 1..Len(a) : y[k] = a[k]
        /\ \A k \in 1..Len(Without(b, n)) : y[Len(a) + k] = Without(b, n)[k]
    <3>1. Without(b, n) \in Seq(S) BY <1>5
    <3>2. QED BY <3>1, Concat
  <2>2. QED BY <1>3, <1>5, <2>1
<1> HIDE DEF x, y
<1>7. ASSUME NEW i \in 1..(h + j) PROVE x[i] = y[i]
  <2>1. CASE i <= h BY <1>1, <1>3, <1>4, <1>6, <2>1
  <2>2. CASE i > h
    <3>1. PICK k \in 1..j : i = h + k
      <4>1. i - h \in 1..j /\ i = h + (i - h) BY <2>2
      <4>2. QED BY <4>1
    <3>2. k \in 1..Len(b) BY <1>2
    <3>3. (a \o b)[h + k] = b[k] BY <1>1, <1>3, <3>2
    <3>4. QED BY <1>4, <1>5, <1>6, <3>1, <3>3
  <2>3. QED BY <2>1, <2>2
<1>8. h + j \in Nat OBVIOUS
<1>9. PICK l \in Nat : l = h + j BY <1>8
<1>10. x = y
  <2>1. x \in Seq(S) /\ Len(x) = l BY <1>4, <1>9, Zenon
  <2>2. y \in Seq(S) /\ Len(y) = l BY <1>6, <1>9, Zenon
  <2>3. \A i \in 1..l : x[i] = y[i] BY <1>7, <1>9, Zenon
  <2>4. PICK v \in Seq(S) : v = x BY <2>1
  <2>5. PICK w \in Seq(S) : w = y BY <2>2
  <2>6. SameTo(v, w, l) BY <2>1, <2>2, <2>3, <2>4, <2>5, Zenon DEF SameTo
  <2>7. v = w BY <2>6, SameToEqual
  <2>8. QED BY <2>4, <2>5, <2>7, Zenon
<1>11. QED BY <1>10 DEF x, y

-----------------------------------------------------------------------------
(* Where the client is between two receptions, and in its loop: p bytes    *)
(* behind the first length, the bytes of rest come next.                   *)
ChunkBetween(s, E, p, k, d) == p \in Nat /\ ChunkEndsAt(s, E, p, k) /\ DataSoFar(s, d, p)
ChunkWithin(s, E, upto, k, rest, d) ==
  \E p \in Nat :
    /\ p + Len(rest) = upto /\ k <= Len(rest)
    /\ \A i \in 1..Len(rest) : rest[i] = s[p + i]
    /\ ChunkEndsAt(s, E, p, k) /\ DataSoFar(s, d, p)

ChunkStates ==
  [at : {"receive", "loop", "short", "closed", "torn", "crash"}, silent : BOOLEAN,
   done : Seq(ChunkBytesAll), rest : Seq(ChunkBytesAll), cchunk : Nat]
ChunkTypes ==
  /\ come \in 0..Len(sending)
  /\ chunk \in ChunkStates
  /\ dechunked \in Seq(ChunkBytesAll)

ChunkInvOf(E) ==
  /\ ChunkShape(sending, E)
  /\ chunk.at \in {"receive", "closed"} =>
       ChunkBetween(sending, E, come, chunk.cchunk, dechunked)
  /\ chunk.at \in {"loop", "short"} =>
       ChunkWithin(sending, E, come, chunk.cchunk, chunk.rest, dechunked \o chunk.done)
ChunkInv == ChunkTypes /\ \E E : ChunkInvOf(E)

(* The steps of the client keep the invariant.                             *)
LEMMA ChunkBegins == ChunkInit => ChunkInv
<1> SUFFICES ASSUME ChunkInit PROVE ChunkInv OBVIOUS
<1>1. PICK sizes \in ChunkLists, last \in BOOLEAN :
        LET all == FlattenSeq([c \in DOMAIN sizes |-> ChunkBytes(c, sizes[c])])
                   \o IF last THEN SizeLine(0) \o LineEnd ELSE <<>>
        IN /\ sending = SubSeq(all, ChunkDigits[sizes[1]] + 3, Len(all))
           /\ chunk = [at |-> "receive", done |-> <<>>, rest |-> <<>>,
                       cchunk |-> sizes[1] + 2, silent |-> FALSE]
  BY DEF ChunkInit, ChunkStarts
<1>2. PICK n \in 1..ChunkBound : sizes \in [1..n -> ChunkSizes] BY DEF ChunkLists
<1>3. ChunkBound \in Nat BY ChunkAssumption DEF ChunkAssumption
<1>4. n \in Nat /\ n > 0 /\ DOMAIN sizes = 1..n /\ 1 \in 1..n BY <1>2, <1>3
<1> DEFINE all == FlattenSeq([c \in 1..n |-> ChunkBytes(c, sizes[c])])
                  \o IF last THEN SizeLine(0) \o LineEnd ELSE <<>>
<1>5. /\ sending = SubSeq(all, ChunkDigits[sizes[1]] + 3, Len(all))
      /\ chunk = [at |-> "receive", done |-> <<>>, rest |-> <<>>, cchunk |-> sizes[1] + 2, silent |-> FALSE]
  BY <1>1, <1>4
<1>6. PICK at : AllChunks(all, sizes, n, last, at) BY <1>2, <1>4, WholeStream
<1> HIDE DEF all
<1>7. ChunksFollow(sending, sizes[1]) BY <1>2, <1>4, <1>5, <1>6, ChunkStreamShape
<1>8. PICK E : ChunkShape(sending, E) /\ ChunkEndsAt(sending, E, 0, sizes[1] + 2)
  BY <1>7 DEF ChunksFollow
<1>9. come = 0 /\ dechunked = <<>> BY DEF ChunkInit, ChunkStarts
<1>10. sizes[1] \in Nat
  <2>1. sizes[1] \in ChunkSizes BY <1>2, <1>4
  <2>2. QED BY <2>1, ChunkNumbers
<1>11. ChunkTypes
  <2>1. Len(sending) \in Nat BY <1>8 DEF ChunkShape
  <2>2. come \in 0..Len(sending) BY <1>9, <2>1
  <2>3. sizes[1] + 2 \in Nat BY <1>10
  <2>4. <<>> \in Seq(ChunkBytesAll) OBVIOUS
  <2>5. QED BY <1>5, <1>9, <2>2, <2>3, <2>4 DEF ChunkTypes, ChunkStates
<1>12. DataSoFar(sending, <<>>, 0)
  <2>1. Counted(DataAt(sending), 0) = 0
    <3>1. {i \in 1..0 : i \in DataAt(sending)} = {} OBVIOUS
    <3>2. QED BY <3>1, FS_EmptySet DEF Counted
  <2>2. QED BY <2>1 DEF DataSoFar
<1>13. ChunkInvOf(E)
  <2>1. chunk.at = "receive" /\ chunk.cchunk = sizes[1] + 2 BY <1>5
  <2>2. QED BY <1>8, <1>9, <1>12, <2>1 DEF ChunkInvOf, ChunkBetween
<1>14. QED BY <1>11, <1>13 DEF ChunkInv

LEMMA ArrivedOf ==
  ASSUME ChunkTypes, sending \in Seq(ChunkBytesAll), NEW n \in Nat, come + n <= Len(sending)
  PROVE  /\ come \in Nat /\ come + n \in 0..Len(sending)
         /\ Arrived(n) \in Seq(ChunkBytesAll) /\ Len(Arrived(n)) = n
         /\ \A i \in 1..n : Arrived(n)[i] = sending[come + i]
<1>1. come \in Nat /\ Len(sending) \in Nat BY DEF ChunkTypes, ChunkStates
<1>2. QED BY <1>1, PartOf DEF Arrived

(* What is handed on of n bytes of the k that are left. *)
LEMMA ChunkReceivesPart ==
  ASSUME ChunkInv, ChunkReceivePart PROVE ChunkInv'
<1>1. PICK E : ChunkInvOf(E) BY DEF ChunkInv
<1>2. ChunkTypes /\ chunk.at = "receive" /\ sending' = sending
  BY DEF ChunkInv, ChunkReceivePart
<1>3. PICK n \in 1..ChunkReceive :
        /\ Sent(n)
        /\ chunk.cchunk # 0 /\ n <= chunk.cchunk
        /\ chunk' = [chunk EXCEPT !.cchunk = @ - n]
        /\ HandOn(Without(Arrived(n), CASE n = chunk.cchunk /\ n = 1 -> 1
                                        [] n = chunk.cchunk /\ n > 1 -> 2
                                        [] n = chunk.cchunk - 1 -> 1
                                        [] OTHER -> 0))
  BY DEF ChunkReceivePart
<1>4. ChunkReceive \in Nat BY ChunkAssumption DEF ChunkAssumption
<1>5. n \in Nat /\ n > 0 BY <1>3, <1>4
<1>6. chunk.cchunk \in Nat BY <1>2 DEF ChunkTypes, ChunkStates
<1>7. PICK k \in Nat : k = chunk.cchunk /\ n \in 1..k BY <1>3, <1>5, <1>6
<1>8. PICK m \in 0..n :
        /\ m = 0 \/ m <= k - 2
        /\ m = n \/ m >= k - 2
        /\ (CASE n = k /\ n = 1 -> 1 [] n = k /\ n > 1 -> 2 [] n = k - 1 -> 1 [] OTHER -> 0) = n - m
  <2>1. CASE n = k /\ n = 1
    <3>1. 0 \in 0..n /\ 0 >= k - 2 /\ 1 = n - 0 BY <1>5, <2>1
    <3>2. QED BY <2>1, <3>1
  <2>2. CASE n = k /\ n > 1
    <3>1. n - 2 \in 0..n /\ n - 2 <= k - 2 /\ n - 2 >= k - 2 /\ 2 = n - (n - 2) BY <1>5, <2>2
    <3>2. n # 1 BY <1>5, <2>2
    <3>3. (CASE n = k /\ n = 1 -> 1 [] n = k /\ n > 1 -> 2 [] n = k - 1 -> 1 [] OTHER -> 0) = 2
      BY <1>7, <2>2, <3>2
    <3>4. QED BY <3>1, <3>3
  <2>3. CASE n = k - 1
    <3>1. n - 1 \in 0..n /\ n - 1 <= k - 2 /\ n - 1 >= k - 2 /\ 1 = n - (n - 1)
      <4>1. k \in Nat /\ k = n + 1 BY <1>5, <1>7, <2>3
      <4>2. QED BY <1>5, <4>1
    <3>2. n # k BY <1>7, <2>3
    <3>3. QED BY <2>3, <3>1, <3>2
  <2>4. CASE n # k /\ n # k - 1
    <3>1. n \in 0..n /\ n <= k - 2 /\ 0 = n - n BY <1>5, <1>7, <2>4
    <3>2. QED BY <2>4, <3>1
  <2>5. QED BY <1>5, <1>7, <2>1, <2>2, <2>3, <2>4
<1>9. sending \in Seq(ChunkBytesAll) BY <1>1 DEF ChunkInvOf, ChunkShape
<1>10. come' = come + n /\ come + n <= Len(sending) BY <1>2, <1>3 DEF Sent
<1>11. /\ come \in Nat /\ come + n \in 0..Len(sending)
       /\ Arrived(n) \in Seq(ChunkBytesAll) /\ Len(Arrived(n)) = n
       /\ \A i \in 1..n : Arrived(n)[i] = sending[come + i]
  BY <1>2, <1>5, <1>9, <1>10, ArrivedOf
<1> DEFINE b == Without(Arrived(n), n - m)
<1>12. dechunked' = dechunked \o b BY <1>3, <1>7, <1>8 DEF HandOn
<1>13. b \in Seq(ChunkBytesAll) /\ Len(b) = m /\ \A i \in 1..m : b[i] = sending[come + i]
  <2>1. PICK j \in Nat : j = n - m /\ j <= n /\ n - j = m BY <1>5, <1>8
  <2>2. /\ Without(Arrived(n), j) \in Seq(ChunkBytesAll) /\ Len(Without(Arrived(n), j)) = n - j
        /\ \A i \in 1..(n - j) : Without(Arrived(n), j)[i] = Arrived(n)[i]
    <3>1. Arrived(n) \in Seq(ChunkBytesAll) /\ j <= Len(Arrived(n)) BY <1>11, <2>1
    <3>2. /\ Without(Arrived(n), j) \in Seq(ChunkBytesAll)
          /\ Len(Without(Arrived(n), j)) = Len(Arrived(n)) - j
          /\ \A i \in 1..(Len(Arrived(n)) - j) : Without(Arrived(n), j)[i] = Arrived(n)[i]
      BY <3>1, WithoutOf
    <3>3. QED BY <1>11, <3>2
  <2>3. \A i \in 1..m : i \in 1..n BY <1>5, <1>8
  <2>4. QED BY <1>11, <2>1, <2>2, <2>3
<1> HIDE DEF b
<1>14. ChunkEndsAt(sending, E, come, k) /\ DataSoFar(sending, dechunked, come)
  BY <1>1, <1>2, <1>7 DEF ChunkInvOf, ChunkBetween
<1>15. n \in 0..k BY <1>7
<1>16. DataSoFar(sending, dechunked \o b, come + n) /\ ChunkEndsAt(sending, E, come + n, k - n)
  BY <1>8, <1>11, <1>13, <1>14, <1>15, TakePart
<1>17. chunk'.at = "receive" /\ chunk'.cchunk = k - n /\ k - n \in Nat
  BY <1>2, <1>3, <1>7 DEF ChunkTypes, ChunkStates
<1>18. ChunkTypes'
  <2>1. dechunked' \in Seq(ChunkBytesAll) BY <1>12, <1>16 DEF DataSoFar
  <2>2. chunk' \in ChunkStates
    BY <1>2, <1>3, <1>7, <1>17 DEF ChunkTypes, ChunkStates
  <2>3. QED BY <1>2, <1>10, <1>11, <2>1, <2>2 DEF ChunkTypes, ChunkStates
<1>19. ChunkBetween(sending', E, come', chunk'.cchunk, dechunked')
  BY <1>2, <1>10, <1>11, <1>12, <1>16, <1>17 DEF ChunkBetween
<1>20. ChunkInvOf(E)' BY <1>1, <1>2, <1>17, <1>19 DEF ChunkInvOf
<1>21. QED BY <1>18, <1>20 DEF ChunkInv

LEMMA ChunkReceivesPast ==
  ASSUME ChunkInv, ChunkReceivePast PROVE ChunkInv'
<1>1. PICK E : ChunkInvOf(E) BY DEF ChunkInv
<1>2. ChunkTypes /\ chunk.at = "receive" /\ sending' = sending /\ dechunked' = dechunked
  BY DEF ChunkInv, ChunkReceivePast
<1>3. PICK n \in 1..ChunkReceive :
        /\ Sent(n)
        /\ chunk.cchunk = 0 \/ n > chunk.cchunk
        /\ chunk' = [chunk EXCEPT !.at = "loop", !.done = <<>>, !.rest = Arrived(n)]
  BY DEF ChunkReceivePast
<1>4. n \in Nat /\ n > 0 BY <1>3, ChunkAssumption DEF ChunkAssumption
<1>5. sending \in Seq(ChunkBytesAll) BY <1>1 DEF ChunkInvOf, ChunkShape
<1>6. come' = come + n /\ come + n <= Len(sending) BY <1>2, <1>3 DEF Sent
<1>7. /\ come \in Nat /\ come + n \in 0..Len(sending)
      /\ Arrived(n) \in Seq(ChunkBytesAll) /\ Len(Arrived(n)) = n
      /\ \A i \in 1..n : Arrived(n)[i] = sending[come + i]
  BY <1>2, <1>4, <1>5, <1>6, ArrivedOf
<1>8. PICK k \in Nat : k = chunk.cchunk BY <1>2 DEF ChunkTypes, ChunkStates
<1>9. k <= n BY <1>3, <1>4, <1>8
<1>10. /\ chunk'.at = "loop" /\ chunk'.done = <<>> /\ chunk'.rest = Arrived(n)
       /\ chunk'.cchunk = k
  BY <1>2, <1>3, <1>8 DEF ChunkTypes, ChunkStates
<1>11. ChunkTypes'
  <2>1. <<>> \in Seq(ChunkBytesAll) OBVIOUS
  <2>2. chunk' \in ChunkStates
    BY <1>2, <1>3, <1>7, <2>1 DEF ChunkTypes, ChunkStates
  <2>3. QED BY <1>2, <1>6, <1>7, <2>2 DEF ChunkTypes, ChunkStates
<1>12. ChunkEndsAt(sending, E, come, k) /\ DataSoFar(sending, dechunked, come)
  BY <1>1, <1>2, <1>8 DEF ChunkInvOf, ChunkBetween
<1>13. dechunked \o <<>> = dechunked BY <1>2 DEF ChunkTypes, ChunkStates
<1> DEFINE rest == Arrived(n)
<1>14. /\ come + Len(rest) = come + n /\ k <= Len(rest)
       /\ \A i \in 1..Len(rest) : rest[i] = sending[come + i]
  BY <1>7, <1>9
<1> HIDE DEF rest
<1>15. ChunkWithin(sending, E, come + n, k, rest, dechunked)
  BY <1>7, <1>12, <1>14 DEF ChunkWithin
<1>16. ChunkInvOf(E)'
  <2>1. ChunkShape(sending, E)' BY <1>1, <1>2 DEF ChunkInvOf
  <2>2. ChunkWithin(sending, E, come, chunk.cchunk, chunk.rest, dechunked \o chunk.done)'
    BY <1>2, <1>6, <1>10, <1>13, <1>15 DEF rest
  <2>3. QED BY <1>10, <2>1, <2>2 DEF ChunkInvOf
<1>17. QED BY <1>11, <1>16 DEF ChunkInv

LEMMA ChunkReceivesMore ==
  ASSUME ChunkInv, ChunkMore PROVE ChunkInv'
<1>1. PICK E : ChunkInvOf(E) BY DEF ChunkInv
<1>2. ChunkTypes /\ chunk.at = "loop" /\ sending' = sending /\ dechunked' = dechunked
  BY DEF ChunkInv, ChunkMore
<1>3. PICK n \in 1..ChunkLook : Sent(n) /\ chunk' = [chunk EXCEPT !.rest = @ \o Arrived(n)]
  BY DEF ChunkMore
<1>4. n \in Nat BY <1>3, ChunkAssumption DEF ChunkAssumption
<1>5. sending \in Seq(ChunkBytesAll) BY <1>1 DEF ChunkInvOf, ChunkShape
<1>6. come' = come + n /\ come + n <= Len(sending) BY <1>2, <1>3 DEF Sent
<1>7. /\ come \in Nat /\ come + n \in 0..Len(sending)
      /\ Arrived(n) \in Seq(ChunkBytesAll) /\ Len(Arrived(n)) = n
      /\ \A i \in 1..n : Arrived(n)[i] = sending[come + i]
  BY <1>2, <1>4, <1>5, <1>6, ArrivedOf
<1> DEFINE r == chunk.rest
           a == Arrived(n)
<1>8. r \in Seq(ChunkBytesAll) /\ Len(r) \in Nat BY <1>2 DEF ChunkTypes, ChunkStates
<1>9. a \in Seq(ChunkBytesAll) /\ Len(a) = n /\ \A i \in 1..n : a[i] = sending[come + i]
  BY <1>7
<1>10. PICK k \in Nat : k = chunk.cchunk BY <1>2 DEF ChunkTypes, ChunkStates
<1>11. ChunkWithin(sending, E, come, k, r, dechunked \o chunk.done)
  BY <1>1, <1>2, <1>10 DEF ChunkInvOf
<1>12. chunk' = [chunk EXCEPT !.rest = r \o a] BY <1>3
<1> HIDE DEF r, a
<1>13. PICK p \in Nat :
         /\ p + Len(r) = come /\ k <= Len(r)
         /\ \A i \in 1..Len(r) : r[i] = sending[p + i]
         /\ ChunkEndsAt(sending, E, p, k) /\ DataSoFar(sending, dechunked \o chunk.done, p)
  BY <1>11 DEF ChunkWithin
<1>14. /\ r \o a \in Seq(ChunkBytesAll) /\ Len(r \o a) = Len(r) + Len(a)
       /\ \A i \in 1..Len(r) : (r \o a)[i] = r[i]
       /\ \A i \in 1..Len(a) : (r \o a)[Len(r) + i] = a[i]
  <2>1. a \in Seq(ChunkBytesAll) BY <1>9
  <2>2. QED BY <1>8, <2>1, Concat
<1>15. ASSUME NEW i \in 1..Len(r \o a) PROVE (r \o a)[i] = sending[p + i]
  <2>1. CASE i <= Len(r) BY <1>8, <1>13, <1>14, <2>1
  <2>2. CASE ~(i <= Len(r))
    <3>1. PICK j \in 1..n : i = Len(r) + j
      <4>1. i \in 1..(Len(r) + n) BY <1>9, <1>14
      <4>2. i - Len(r) \in 1..n /\ i = Len(r) + (i - Len(r)) BY <1>4, <1>8, <2>2, <4>1
      <4>3. QED BY <4>2
    <3>2. p + i = come + j BY <1>8, <1>13, <3>1
    <3>3. (r \o a)[Len(r) + j] = a[j] BY <1>9, <1>14
    <3>4. QED BY <1>9, <3>1, <3>2, <3>3
  <2>3. QED BY <2>1, <2>2
<1>16. p + Len(r \o a) = come + n /\ k <= Len(r \o a)
  <2>1. Len(r \o a) = Len(r) + n BY <1>9, <1>14
  <2>2. QED BY <1>4, <1>8, <1>13, <2>1
<1> DEFINE x == r \o a
<1>17. p + Len(x) = come + n /\ k <= Len(x) /\ \A i \in 1..Len(x) : x[i] = sending[p + i]
  BY <1>15, <1>16
<1>18. chunk' = [chunk EXCEPT !.rest = x] /\ x \in Seq(ChunkBytesAll) BY <1>12, <1>14
<1> HIDE DEF x
<1>19. ChunkWithin(sending, E, come + n, k, x, dechunked \o chunk.done)
  BY <1>13, <1>17 DEF ChunkWithin
<1>20. /\ chunk'.at = "loop" /\ chunk'.done = chunk.done /\ chunk'.rest = x
       /\ chunk'.cchunk = k
  BY <1>2, <1>10, <1>18 DEF ChunkTypes, ChunkStates
<1>21. ChunkTypes'
  <2>1. chunk' \in ChunkStates
    BY <1>2, <1>18 DEF ChunkTypes, ChunkStates
  <2>2. QED BY <1>2, <1>6, <1>7, <2>1 DEF ChunkTypes, ChunkStates
<1>22. ChunkInvOf(E)' BY <1>1, <1>2, <1>6, <1>19, <1>20 DEF ChunkInvOf
<1>23. QED BY <1>21, <1>22 DEF ChunkInv

LEMMA ChunkGivesUp ==
  ASSUME ChunkInv, ChunkSilent PROVE ChunkInv'
<1>1. PICK E : ChunkInvOf(E) BY DEF ChunkInv
<1>2. /\ ChunkTypes /\ chunk.at = "loop"
      /\ chunk' = [chunk EXCEPT !.at = "short", !.silent = TRUE]
      /\ sending' = sending /\ come' = come /\ dechunked' = dechunked
  BY DEF ChunkInv, ChunkSilent
<1>3. /\ chunk'.at = "short" /\ chunk'.rest = chunk.rest /\ chunk'.done = chunk.done
      /\ chunk'.cchunk = chunk.cchunk
  BY <1>2 DEF ChunkTypes, ChunkStates
<1>4. ChunkTypes' BY <1>2 DEF ChunkTypes, ChunkStates
<1>5. ChunkInvOf(E)' BY <1>1, <1>2, <1>3 DEF ChunkInvOf
<1>6. QED BY <1>4, <1>5 DEF ChunkInv

LEMMA ChunkTears ==
  ASSUME ChunkInv, ChunkTorn PROVE ChunkInv'
<1>1. PICK E : ChunkInvOf(E) BY DEF ChunkInv
<1>2. /\ ChunkTypes /\ sending' = sending /\ come' = come
      /\ \E at \in {"torn", "crash"} : chunk' = [chunk EXCEPT !.at = at]
      /\ dechunked' = dechunked \/ dechunked' = dechunked \o (chunk.done \o chunk.rest)
  BY DEF ChunkInv, ChunkTorn, HandOn
<1>3. chunk'.at \in {"torn", "crash"} BY <1>2 DEF ChunkTypes, ChunkStates
<1>4. ChunkTypes'
  <2>1. /\ chunk.done \in Seq(ChunkBytesAll) /\ chunk.rest \in Seq(ChunkBytesAll)
        /\ dechunked \in Seq(ChunkBytesAll)
    BY <1>2 DEF ChunkTypes, ChunkStates
  <2>2. PICK done \in Seq(ChunkBytesAll), rest \in Seq(ChunkBytesAll),
             out \in Seq(ChunkBytesAll) :
          done = chunk.done /\ rest = chunk.rest /\ out = dechunked
    BY <2>1
  <2>3. out \o (done \o rest) \in Seq(ChunkBytesAll) OBVIOUS
  <2>4. dechunked' \in Seq(ChunkBytesAll) BY <1>2, <2>2, <2>3
  <2>5. chunk' \in ChunkStates BY <1>2 DEF ChunkTypes, ChunkStates
  <2>6. QED BY <1>2, <2>4, <2>5 DEF ChunkTypes
<1>5. ChunkInvOf(E)' BY <1>1, <1>2, <1>3 DEF ChunkInvOf
<1>6. QED BY <1>4, <1>5 DEF ChunkInv

(* The bytes of a line of size z are not data. *)
LEMMA LineIsNoData ==
  ASSUME NEW s, NEW q \in Nat, NEW z \in ChunkSizes \cup {0}, SizeLineAt(s, q, z)
  PROVE  \A i \in 1..(ChunkDigits[z] + 2) : q + i \notin DataAt(s)
<1>1. PICK d \in Nat : d = ChunkDigits[z] BY ChunkNumbers
<1>2. /\ \A i \in 1..d : s[q + i] = ChunkByte("size", z)
      /\ s[q + (d + 1)].kind = "cr" /\ s[q + (d + 2)].kind = "lf"
  BY <1>1 DEF SizeLineAt
<1>3. ASSUME NEW i \in 1..(d + 2) PROVE s[q + i].kind # "data"
  <2>1. CASE i \in 1..d BY <1>2, <2>1 DEF ChunkByte
  <2>2. CASE i = d + 1 BY <1>2, <2>2
  <2>3. CASE i = d + 2 BY <1>2, <2>3
  <2>4. QED BY <2>1, <2>2, <2>3
<1>4. QED BY <1>1, <1>3 DEF DataAt

(* What a round reads behind a chunk: the length of the next.              *)
LineReads(s, E, q, line, z) ==
  /\ NextChunk(s, E, q, z) /\ SizeOf(line) = z
  /\ LineAt(line) = ChunkDigits[z] + 1 /\ ChunkDigits[z] + 2 <= Len(line)

LEMMA LineFound ==
  ASSUME NEW s, NEW E, ChunkShape(s, E), NEW q \in E, NEW line \in Seq(ChunkBytesAll),
         ChunkLook <= Len(line) \/ \E i \in 1..(Len(line) - 1) : line[i].kind = "cr",
         q + Len(line) <= Len(s),
         \A i \in 1..Len(line) : line[i] = s[q + i]
  PROVE  \E z \in ChunkSizes \cup {0} : LineReads(s, E, q, line, z)
<1>1. q \in Nat /\ Len(s) \in Nat /\ Len(line) \in Nat BY DEF ChunkShape
<1>2. ChunkLook \in Nat /\ ChunkLook > 0
  <2>1. 0 \in ChunkSizes \cup {0} OBVIOUS
  <2>2. ChunkDigits[0] \in Nat /\ ChunkDigits[0] + 2 <= ChunkLook BY <2>1, ChunkNumbers
  <2>3. ChunkLook \in Nat BY ChunkAssumption DEF ChunkAssumption
  <2>4. QED BY <2>2, <2>3
<1>3. q # Len(s)
  <2>1. Len(line) > 0 BY <1>1, <1>2
  <2>2. QED BY <1>1, <2>1
<1>4. PICK z \in ChunkSizes \cup {0} : NextChunk(s, E, q, z) BY <1>3 DEF ChunkShape
<1>5. PICK d \in Nat : d = ChunkDigits[z] /\ d > 0 /\ d + 2 <= ChunkLook BY ChunkNumbers
<1>6. /\ \A i \in 1..d : s[q + i] = ChunkByte("size", z)
      /\ s[q + (d + 1)].kind = "cr"
  BY <1>4, <1>5 DEF NextChunk, SizeLineAt
<1>7. d + 2 <= Len(line)
  <2>1. CASE ChunkLook <= Len(line) BY <1>1, <1>2, <1>5, <2>1
  <2>2. ASSUME NEW i \in 1..(Len(line) - 1), line[i].kind = "cr" PROVE d + 2 <= Len(line)
    <3>1. i \in Nat /\ i >= 1 /\ i + 1 <= Len(line) /\ i \in 1..Len(line) BY <1>1
    <3>2. CASE i <= d
      <4>1. line[i] = ChunkByte("size", z) BY <1>6, <3>1, <3>2
      <4>2. QED BY <2>2, <4>1 DEF ChunkByte
    <3>3. CASE ~(i <= d) BY <1>1, <3>1, <3>3
    <3>4. QED BY <3>2, <3>3
  <2>3. QED BY <2>1, <2>2
<1>8. \A i \in 1..d : line[i] = ChunkByte("size", z)
  <2>1. \A i \in 1..d : i \in 1..Len(line) BY <1>1, <1>7
  <2>2. QED BY <1>6, <2>1
<1>9. line[d + 1].kind = "cr"
  <2>1. d + 1 \in 1..Len(line) BY <1>1, <1>7
  <2>2. QED BY <1>6, <2>1
<1>10. SizeOf(line) = z
  <2>1. 1 \in 1..d BY <1>5
  <2>2. line[1] = ChunkByte("size", z) BY <1>8, <2>1
  <2>3. line[1].kind = "size" /\ line[1].value = z BY <2>2 DEF ChunkByte
  <2>4. QED BY <2>3 DEF SizeOf
<1>11. LineAt(line) = d + 1
  <2>1. \A i \in 1..d : line[i].kind # "cr" BY <1>8 DEF ChunkByte
  <2>2. d + 1 \in 1..Len(line) BY <1>1, <1>7
  <2>3. \A j \in 1..((d + 1) - 1) : line[j].kind # "cr"
    <3>1. (d + 1) - 1 = d OBVIOUS
    <3>2. QED BY <2>1, <3>1
  <2>4. ASSUME NEW i \in 1..Len(line), line[i].kind = "cr",
               \A j \in 1..(i - 1) : line[j].kind # "cr"
        PROVE  i = d + 1
    <3>1. ~(i <= d) BY <2>1, <2>4
    <3>2. ~(d + 1 < i)
      <4>1. SUFFICES ASSUME d + 1 < i PROVE FALSE OBVIOUS
      <4>2. d + 1 \in 1..(i - 1) BY <4>1
      <4>3. QED BY <1>9, <2>4, <4>2
    <3>3. QED BY <1>1, <3>1, <3>2
  <2>5. QED BY <1>9, <2>2, <2>3, <2>4 DEF LineAt
<1>12. QED BY <1>4, <1>5, <1>7, <1>10, <1>11 DEF LineReads

LEMMA BehindOf ==
  ASSUME NEW S, NEW r \in Seq(S), NEW n \in Nat, n <= Len(r)
  PROVE  /\ Behind(r, n) \in Seq(S) /\ Len(Behind(r, n)) = Len(r) - n
         /\ \A i \in 1..(Len(r) - n) : Behind(r, n)[i] = r[n + i]
  BY RestOf DEF Behind

LEMMA PartBefore ==
  ASSUME NEW S, NEW r \in Seq(S), NEW k \in Nat, k <= Len(r)
  PROVE  \E m \in 0..k :
           /\ m = 0 \/ m <= k - 2
           /\ m = k \/ m >= k - 2
           /\ SubSeq(r, 1, k - 2) \in Seq(S) /\ Len(SubSeq(r, 1, k - 2)) = m
           /\ \A i \in 1..m : SubSeq(r, 1, k - 2)[i] = r[i]
<1>1. CASE k >= 2
  <2>1. PICK m \in Nat : m = k - 2 /\ m \in 0..k /\ m <= Len(r) BY <1>1
  <2>2. /\ SubSeq(r, 1, m) \in Seq(S) /\ Len(SubSeq(r, 1, m)) = m
        /\ \A i \in 1..m : SubSeq(r, 1, m)[i] = r[i]
    BY <2>1, PrefixOf
  <2>3. m >= k - 2 BY <2>1
  <2>4. QED BY <2>1, <2>2, <2>3
<1>2. CASE k = 0 \/ k = 1
  <2>1. SubSeq(r, 1, k - 2) = <<>>
    <3>1. CASE k = 0 BY <3>1
    <3>2. CASE k = 1 BY <3>2
    <3>3. QED BY <1>2, <3>1, <3>2
  <2>2. PICK t : t = SubSeq(r, 1, k - 2) OBVIOUS
  <2>3. t \in Seq(S) /\ Len(t) = 0 /\ \A i \in 1..0 : t[i] = r[i] BY <2>1, <2>2
  <2>4. 0 \in 0..k /\ 0 >= k - 2 BY <1>2
  <2>5. \E m \in 0..k :
          /\ m = 0 \/ m <= k - 2
          /\ m = k \/ m >= k - 2
          /\ t \in Seq(S) /\ Len(t) = m
          /\ \A i \in 1..m : t[i] = r[i]
    <3> WITNESS 0 \in 0..k
    <3>1. QED BY <2>3, <2>4
  <2>6. QED BY <2>2, <2>5, Zenon
<1>3. QED BY <1>1, <1>2

(* A round of the loop, in the stream: the data of the chunk, b, and what  *)
(* follows the length behind it, which is of a chunk of size z.            *)
RoundReads(E, b, follows, z) ==
  /\ chunk.at \in {"loop", "short"} /\ z \in Nat
  /\ b = SubSeq(chunk.rest, 1, chunk.cchunk - 2)
  /\ SizeOf(Behind(chunk.rest, chunk.cchunk)) = z
  /\ follows = LET line == Behind(chunk.rest, chunk.cchunk) IN Behind(line, LineAt(line) + 1)
  /\ b \in Seq(ChunkBytesAll) /\ follows \in Seq(ChunkBytesAll)
  /\ \E e \in Nat :
       /\ e + Len(follows) = come
       /\ \A i \in 1..Len(follows) : follows[i] = sending[e + i]
       /\ ChunkEndsAt(sending, E, e, z + 2)
       /\ DataSoFar(sending, (dechunked \o chunk.done) \o b, e)

LEMMA RoundFinds ==
  ASSUME ChunkTypes, NEW E, ChunkInvOf(E), chunk.at \in {"loop", "short"},
         ~Short \/ LineThere
  PROVE  \E b, follows, z : RoundReads(E, b, follows, z)
<1>1. ChunkShape(sending, E) /\ sending \in Seq(ChunkBytesAll) /\ E \subseteq 0..Len(sending)
  BY DEF ChunkInvOf, ChunkShape
<1>2. PICK r \in Seq(ChunkBytesAll) : r = chunk.rest BY DEF ChunkTypes, ChunkStates
<1>3. PICK k \in Nat : k = chunk.cchunk BY DEF ChunkTypes, ChunkStates
<1>4. PICK d : d = dechunked \o chunk.done OBVIOUS
<1>5. come \in Nat /\ come <= Len(sending) /\ Len(sending) \in Nat /\ Len(r) \in Nat
  BY <1>1, <1>2 DEF ChunkTypes, ChunkStates
<1>6. ChunkWithin(sending, E, come, k, r, d) BY <1>2, <1>3, <1>4 DEF ChunkInvOf
<1>7. PICK p \in Nat :
        /\ p + Len(r) = come /\ k <= Len(r)
        /\ \A i \in 1..Len(r) : r[i] = sending[p + i]
        /\ ChunkEndsAt(sending, E, p, k) /\ DataSoFar(sending, d, p)
  BY <1>6 DEF ChunkWithin
<1>8. ChunkLook \in Nat /\ (k + ChunkLook <= Len(r) \/ LineThere)
  <2>1. ChunkLook \in Nat BY ChunkAssumption DEF ChunkAssumption
  <2>2. QED BY <1>2, <1>3, <1>5, <2>1 DEF Short
<1>9. PICK m \in 0..k :
        /\ m = 0 \/ m <= k - 2
        /\ m = k \/ m >= k - 2
        /\ SubSeq(r, 1, k - 2) \in Seq(ChunkBytesAll) /\ Len(SubSeq(r, 1, k - 2)) = m
        /\ \A i \in 1..m : SubSeq(r, 1, k - 2)[i] = r[i]
  BY <1>7, PartBefore
<1>10. PICK b : b = SubSeq(r, 1, k - 2) OBVIOUS
<1>11. b \in Seq(ChunkBytesAll) /\ Len(b) = m /\ \A i \in 1..m : b[i] = sending[p + i]
  <2>1. \A i \in 1..m : i \in 1..Len(r) BY <1>5, <1>7, <1>9
  <2>2. QED BY <1>7, <1>9, <1>10, <2>1
<1>12. PICK q \in Nat : q = p + k OBVIOUS
<1>13. q \in E BY <1>7, <1>12 DEF ChunkEndsAt
<1>14. DataSoFar(sending, d \o b, q)
  <2>1. k \in 0..k OBVIOUS
  <2>2. DataSoFar(sending, d \o b, p + k) BY <1>7, <1>9, <1>11, <2>1, TakePart
  <2>3. QED BY <1>12, <2>2
<1>15. PICK line : line = Behind(r, k) OBVIOUS
<1>16. line \in Seq(ChunkBytesAll) /\ Len(line) = Len(r) - k
       /\ \A i \in 1..(Len(r) - k) : line[i] = r[k + i]
  BY <1>7, <1>15, BehindOf
<1>17. /\ Len(line) \in Nat /\ q + Len(line) = come
       /\ ChunkLook <= Len(line) \/ \E i \in 1..(Len(line) - 1) : line[i].kind = "cr"
  <2>1. PICK l \in Nat : l = Len(r) /\ p + l = come /\ k <= l BY <1>5, <1>7
  <2>2. Len(line) = l - k BY <1>16, <2>1
  <2>3. Len(line) \in Nat /\ q + Len(line) = come BY <1>12, <2>1, <2>2
  <2>4. CASE k + ChunkLook <= Len(r)
    <3>1. ChunkLook <= l - k BY <1>8, <2>1, <2>4
    <3>2. QED BY <2>2, <2>3, <3>1
  <2>5. CASE LineThere
    <3>1. Line = line BY <1>2, <1>3, <1>15 DEF Line
    <3>2. QED BY <2>3, <2>5, <3>1 DEF LineThere
  <2>6. QED BY <1>8, <2>3, <2>4, <2>5
<1>18. ASSUME NEW i \in 1..Len(line) PROVE line[i] = sending[q + i]
  <2>1. k + i \in 1..Len(r) /\ q + i = p + (k + i) BY <1>5, <1>7, <1>12, <1>16
  <2>2. i \in 1..(Len(r) - k) BY <1>16
  <2>3. QED BY <1>7, <1>16, <2>1, <2>2
<1>19. PICK z \in ChunkSizes \cup {0} : LineReads(sending, E, q, line, z)
  <2>1. q + Len(line) <= Len(sending) BY <1>5, <1>17
  <2>2. QED BY <1>1, <1>13, <1>16, <1>17, <1>18, <2>1, LineFound
<1>20. PICK w \in Nat : w = ChunkDigits[z] + 2 BY ChunkNumbers
<1>21. /\ SizeOf(line) = z /\ LineAt(line) + 1 = w /\ w <= Len(line)
       /\ SizeLineAt(sending, q, z) /\ ChunkEndsAt(sending, E, q + w, z + 2)
  <2>1. ChunkDigits[z] \in Nat BY ChunkNumbers
  <2>2. LineAt(line) = ChunkDigits[z] + 1 BY <1>19 DEF LineReads
  <2>3. LineAt(line) + 1 = w BY <1>20, <2>1, <2>2
  <2>4. QED BY <1>19, <1>20, <2>3 DEF LineReads, NextChunk
<1>22. PICK e \in Nat : e = q + w OBVIOUS
<1>23. DataSoFar(sending, d \o b, e)
  <2>1. \A i \in 1..w : q + i \notin DataAt(sending) BY <1>20, <1>21, LineIsNoData
  <2>2. DataSoFar(sending, d \o b, q + w) BY <1>14, <2>1, DataNone
  <2>3. QED BY <1>22, <2>2
<1>24. PICK follows : follows = Behind(line, w) OBVIOUS
<1>25. follows \in Seq(ChunkBytesAll) /\ Len(follows) = Len(line) - w
       /\ \A i \in 1..(Len(line) - w) : follows[i] = line[w + i]
  <2>1. line \in Seq(ChunkBytesAll) BY <1>16
  <2>2. w <= Len(line) BY <1>21
  <2>3. QED BY <1>24, <2>1, <2>2, BehindOf
<1>26. e + Len(follows) = come BY <1>17, <1>21, <1>22, <1>25
<1>27. ASSUME NEW i \in 1..Len(follows) PROVE follows[i] = sending[e + i]
  <2>1. w + i \in 1..Len(line) /\ e + i = q + (w + i) BY <1>17, <1>21, <1>22, <1>25
  <2>2. i \in 1..(Len(line) - w) BY <1>25
  <2>3. QED BY <1>18, <1>25, <2>1, <2>2
<1>28. ChunkEndsAt(sending, E, e, z + 2) BY <1>21, <1>22
<1>29. z \in Nat BY ChunkNumbers
<1>30. follows = LET l == Behind(chunk.rest, chunk.cchunk) IN Behind(l, LineAt(l) + 1)
  BY <1>2, <1>3, <1>15, <1>21, <1>24
<1>31. b = SubSeq(chunk.rest, 1, chunk.cchunk - 2) BY <1>2, <1>3, <1>10
<1>32. SizeOf(Behind(chunk.rest, chunk.cchunk)) = z BY <1>2, <1>3, <1>15, <1>21
<1>33. RoundReads(E, b, follows, z)
  BY <1>4, <1>11, <1>23, <1>25, <1>26, <1>27, <1>28, <1>29, <1>30, <1>31, <1>32 DEF RoundReads
<1>34. QED BY <1>33

LEMMA ChunkRounds ==
  ASSUME ChunkInv, ChunkRound PROVE ChunkInv'
<1>1. PICK E : ChunkInvOf(E) BY DEF ChunkInv
<1>2. /\ ChunkTypes /\ chunk.at \in {"loop", "short"}
      /\ ~Short \/ LineThere
      /\ sending' = sending /\ come' = come
  BY DEF ChunkInv, ChunkRound
<1>3. PICK b, follows, z : RoundReads(E, b, follows, z) BY <1>1, <1>2, RoundFinds
<1>4. /\ z \in Nat /\ b \in Seq(ChunkBytesAll) /\ follows \in Seq(ChunkBytesAll)
      /\ b = SubSeq(chunk.rest, 1, chunk.cchunk - 2)
  BY <1>3 DEF RoundReads
<1>5. PICK e \in Nat :
        /\ e + Len(follows) = come
        /\ \A i \in 1..Len(follows) : follows[i] = sending[e + i]
        /\ ChunkEndsAt(sending, E, e, z + 2)
        /\ DataSoFar(sending, (dechunked \o chunk.done) \o b, e)
  BY <1>3 DEF RoundReads
<1>6. dechunked \in Seq(ChunkBytesAll) /\ chunk.done \in Seq(ChunkBytesAll) BY <1>2 DEF ChunkTypes, ChunkStates
<1>7. PICK done \in Seq(ChunkBytesAll) : done = chunk.done \o b
  <2>1. chunk.done \o b \in Seq(ChunkBytesAll) BY <1>4, <1>6
  <2>2. QED BY <2>1
<1>8. dechunked \o done = (dechunked \o chunk.done) \o b
  <2>1. PICK sofar \in Seq(ChunkBytesAll) : sofar = chunk.done BY <1>6
  <2>2. dechunked \in Seq(ChunkBytesAll) /\ b \in Seq(ChunkBytesAll) BY <1>4, <1>6
  <2>3. dechunked \o (sofar \o b) = (dechunked \o sofar) \o b
    <3>1. PICK out \in Seq(ChunkBytesAll) : out = dechunked BY <2>2
    <3>2. PICK part \in Seq(ChunkBytesAll) : part = b BY <2>2
    <3>3. PICK T : T = ChunkBytesAll OBVIOUS
    <3>4. out \in Seq(T) /\ sofar \in Seq(T) /\ part \in Seq(T) BY <3>3
    <3>5. out \o (sofar \o part) = (out \o sofar) \o part BY <3>4, ConcatAssociates
    <3>6. QED BY <3>1, <3>2, <3>5
  <2>4. QED BY <1>7, <2>1, <2>3
<1>9. DataSoFar(sending, dechunked \o done, e) BY <1>5, <1>8
<1>10. PICK n \in Nat : n = Len(follows) BY <1>4
<1>11. PICK left \in Int : left = (z + 2) - n BY <1>4
<1> DEFINE to == IF chunk.silent THEN "closed" ELSE "receive"
<1>12. IF left > 0
       THEN /\ chunk' = [chunk EXCEPT !.at = to, !.done = <<>>, !.rest = <<>>,
                                      !.cchunk = left]
            /\ dechunked' = dechunked \o Without(done \o follows, IF left = 1 THEN 1 ELSE 0)
       ELSE /\ chunk' = [chunk EXCEPT !.at = "loop", !.done = done, !.rest = follows,
                                      !.cchunk = z + 2]
            /\ dechunked' = dechunked
  <2> DEFINE line == Behind(chunk.rest, chunk.cchunk)
  <2>1. /\ SizeOf(line) = z /\ follows = Behind(line, LineAt(line) + 1)
    BY <1>3 DEF RoundReads
  <2> HIDE DEF line
  <2>2. LET f == Behind(line, LineAt(line) + 1)
            o == chunk.done \o SubSeq(chunk.rest, 1, chunk.cchunk - 2)
            c == SizeOf(line) + 2
            l == c - Len(f)
        IN IF l > 0
           THEN /\ chunk' = [chunk EXCEPT !.at = to, !.done = <<>>, !.rest = <<>>,
                                          !.cchunk = l]
                /\ dechunked' = dechunked \o Without(o \o f, IF l = 1 THEN 1 ELSE 0)
           ELSE /\ chunk' = [chunk EXCEPT !.at = "loop", !.done = o, !.rest = f, !.cchunk = c]
                /\ dechunked' = dechunked
    BY DEF ChunkRound, HandOn, line, Line, to
  <2>3. LET c == z + 2
            l == c - Len(follows)
        IN IF l > 0
           THEN /\ chunk' = [chunk EXCEPT !.at = to, !.done = <<>>, !.rest = <<>>,
                                          !.cchunk = l]
                /\ dechunked' = dechunked \o Without(done \o follows, IF l = 1 THEN 1 ELSE 0)
           ELSE /\ chunk' = [chunk EXCEPT !.at = "loop", !.done = done, !.rest = follows, !.cchunk = c]
                /\ dechunked' = dechunked
    <3>1. done = chunk.done \o SubSeq(chunk.rest, 1, chunk.cchunk - 2) BY <1>4, <1>7
    <3>2. QED BY <2>1, <2>2, <3>1, Zenon
  <2>4. left = (z + 2) - Len(follows) BY <1>10, <1>11
  <2>5. QED BY <2>3, <2>4, Zenon
<1>13. come \in Nat /\ come \in 0..Len(sending) BY <1>2, <1>5 DEF ChunkTypes, ChunkStates
<1>14. CASE left > 0
  <2>1. /\ chunk' = [chunk EXCEPT !.at = to, !.done = <<>>, !.rest = <<>>, !.cchunk = left]
        /\ dechunked' = dechunked \o Without(done \o follows, IF left = 1 THEN 1 ELSE 0)
    BY <1>12, <1>14
  <2>2. PICK k \in Nat : k = z + 2 BY <1>4
  <2>3. n \in 0..k /\ k - n = left /\ left \in Nat
    <3>1. left = k - n BY <1>11, <2>2
    <3>2. QED BY <1>14, <3>1
  <2>4. PICK j \in 0..n : j = IF left = 1 THEN 1 ELSE 0
    <3>1. CASE left = 1
      <4>1. n >= 1 BY <1>4, <2>2, <2>3, <3>1
      <4>2. 1 \in 0..n BY <4>1
      <4>3. QED BY <3>1, <4>2
    <3>2. CASE left # 1
      <4>1. 0 \in 0..n OBVIOUS
      <4>2. QED BY <3>2, <4>1
    <3>3. QED BY <3>1, <3>2
  <2>5. PICK a : a = Without(follows, j) OBVIOUS
  <2>6. PICK m \in 0..n : m = n - j BY <2>4
  <2>7. /\ a \in Seq(ChunkBytesAll) /\ Len(a) = m
        /\ \A i \in 1..m : a[i] = follows[i]
    <3>1. j \in Nat /\ j <= Len(follows) BY <1>10, <2>4
    <3>2. QED BY <1>4, <1>10, <2>5, <2>6, <3>1, WithoutOf
  <2>8. \A i \in 1..m : a[i] = sending[e + i]
    <3>1. \A i \in 1..m : i \in 1..Len(follows) BY <1>10, <2>6
    <3>2. QED BY <1>5, <2>7, <3>1
  <2>9. (m = 0 \/ m <= k - 2) /\ (m = n \/ m >= k - 2)
    <3>1. CASE left = 1
      <4>1. m = k - 2 BY <2>3, <2>4, <2>6, <3>1
      <4>2. QED BY <2>2, <4>1
    <3>2. CASE left # 1
      <4>1. m = n /\ n <= k - 2 BY <1>14, <2>3, <2>4, <2>6, <3>2
      <4>2. QED BY <4>1
    <3>3. QED BY <3>1, <3>2
  <2>10. ChunkEndsAt(sending, E, e, k) BY <1>5, <2>2
  <2>11. DataSoFar(sending, (dechunked \o done) \o a, e + n) /\ ChunkEndsAt(sending, E, e + n, k - n)
    BY <1>9, <2>3, <2>7, <2>8, <2>9, <2>10, TakePart
  <2>12. dechunked' = (dechunked \o done) \o a
    <3>1. Without(done \o follows, j) = done \o a
      <4>1. j \in Nat /\ j <= Len(follows) BY <1>10, <2>4
      <4>2. follows \in Seq(ChunkBytesAll) BY <1>4
      <4>3. Without(done \o follows, j) = done \o Without(follows, j)
        BY <4>1, <4>2, WithoutJoined
      <4>4. QED BY <2>5, <4>3
    <3>2. dechunked' = dechunked \o (done \o a) BY <2>1, <2>4, <3>1
    <3>3. dechunked \o (done \o a) = (dechunked \o done) \o a
      <4>1. PICK out \in Seq(ChunkBytesAll) : out = dechunked BY <1>6
      <4>2. PICK part \in Seq(ChunkBytesAll) : part = a BY <2>7
      <4>3. out \o (done \o part) = (out \o done) \o part BY ConcatAssociates
      <4>4. QED BY <4>1, <4>2, <4>3
    <3>4. QED BY <3>2, <3>3
  <2>13. e + n = come BY <1>5, <1>10
  <2>14. chunk'.at \in {"receive", "closed"} /\ chunk'.cchunk = left
    BY <1>2, <2>1 DEF ChunkTypes, ChunkStates, to
  <2>15. ChunkTypes'
    <3>1. dechunked' \in Seq(ChunkBytesAll) BY <2>11, <2>12 DEF DataSoFar
    <3>2. <<>> \in Seq(ChunkBytesAll) OBVIOUS
    <3>3. chunk' \in ChunkStates
      BY <1>2, <2>1, <2>3, <3>2 DEF ChunkTypes, ChunkStates, to
    <3>4. QED BY <1>2, <1>13, <3>1, <3>3 DEF ChunkTypes, ChunkStates
  <2>16. ChunkBetween(sending', E, come', chunk'.cchunk, dechunked')
    BY <1>2, <1>13, <2>3, <2>11, <2>12, <2>13, <2>14 DEF ChunkBetween
  <2>17. ChunkInvOf(E)' BY <1>1, <1>2, <2>14, <2>16 DEF ChunkInvOf
  <2>18. QED BY <2>15, <2>17 DEF ChunkInv
<1>15. CASE ~(left > 0)
  <2>1. /\ chunk' = [chunk EXCEPT !.at = "loop", !.done = done, !.rest = follows, !.cchunk = z + 2]
        /\ dechunked' = dechunked
    BY <1>12, <1>15
  <2>2. PICK k \in Nat : k = z + 2 BY <1>4
  <2>3. k <= Len(follows)
    <3>1. left = k - n BY <1>11, <2>2
    <3>2. QED BY <1>10, <1>15, <3>1
  <2>4. ChunkEndsAt(sending, E, e, k) BY <1>5, <2>2
  <2>5. ChunkWithin(sending, E, come, k, follows, dechunked \o done)
    BY <1>5, <1>9, <2>3, <2>4 DEF ChunkWithin
  <2>6. chunk' = [chunk EXCEPT !.at = "loop", !.done = done, !.rest = follows, !.cchunk = k] BY <2>1, <2>2
  <2>7. /\ chunk'.at = "loop" /\ chunk'.done = done /\ chunk'.rest = follows
        /\ chunk'.cchunk = k
    BY <1>2, <2>6 DEF ChunkTypes, ChunkStates
  <2>8. ChunkTypes'
    <3>1. chunk' \in ChunkStates
      BY <1>2, <1>4, <2>6 DEF ChunkTypes, ChunkStates
    <3>2. QED BY <1>2, <2>1, <3>1 DEF ChunkTypes, ChunkStates
  <2>9. ChunkInvOf(E)' BY <1>1, <1>2, <2>1, <2>5, <2>7 DEF ChunkInvOf
  <2>10. QED BY <2>8, <2>9 DEF ChunkInv
<1>16. QED BY <1>14, <1>15

LEMMA ChunkStays ==
  ASSUME ChunkInv, UNCHANGED chunkVars PROVE ChunkInv'
  BY DEF chunkVars, ChunkInv, ChunkTypes, ChunkStates, ChunkInvOf

LEMMA ChunkHolds == ChunkSpec => []ChunkInv
<1>1. ChunkInv /\ [ChunkNext]_chunkVars => ChunkInv'
  BY ChunkReceivesPart, ChunkReceivesPast, ChunkReceivesMore, ChunkGivesUp, ChunkTears,
     ChunkRounds, ChunkStays DEF ChunkNext
<1>2. QED BY <1>1, ChunkBegins, PTL DEF ChunkSpec

(* Every variable of the chunked transfer stays in its domain.             *)
THEOREM ChunkTypesHold == ChunkSpec => []ChunkTypeOK
<1>1. ChunkInv => ChunkTypeOK BY DEF ChunkInv, ChunkTypes, ChunkStates, ChunkTypeOK
<1>2. QED BY <1>1, ChunkHolds, PTL

(* Whatever the sizes of the chunks, as long as the line of each of them   *)
(* is within the bytes the client looks at, and however the stream is cut: *)
(* the data, and no byte of a length or of a line end, is handed on, once  *)
(* and in order.                                                           *)
THEOREM ChunkDataHolds == ChunkSpec => []ChunkData
<1>1. ASSUME ChunkInv PROVE ChunkData
  <2>1. SUFFICES ASSUME chunk.at \in {"receive", "closed"}
                 PROVE  /\ Len(dechunked) = DataWithin(come)
                        /\ \A i \in 1..come : IsData(i) => dechunked[DataWithin(i)] = sending[i]
    BY DEF ChunkData
  <2>2. PICK E : ChunkInvOf(E) BY <1>1 DEF ChunkInv
  <2>3. DataSoFar(sending, dechunked, come) BY <2>1, <2>2 DEF ChunkInvOf, ChunkBetween
  <2>4. come \in Nat BY <2>1, <2>2 DEF ChunkInvOf, ChunkBetween
  <2>5. ASSUME NEW p \in Nat PROVE DataWithin(p) = Counted(DataAt(sending), p)
    <3>1. \A i \in 1..p : IsData(i) <=> i \in DataAt(sending) BY DEF IsData, DataAt
    <3>2. {i \in 1..p : IsData(i)} = {i \in 1..p : i \in DataAt(sending)} BY <3>1
    <3>3. QED BY <3>2 DEF DataWithin, Counted
  <2>6. Len(dechunked) = DataWithin(come) BY <2>3, <2>4, <2>5 DEF DataSoFar
  <2>7. ASSUME NEW i \in 1..come, IsData(i) PROVE dechunked[DataWithin(i)] = sending[i]
    <3>1. i \in Nat /\ i \in DataAt(sending) BY <2>4, <2>7 DEF IsData, DataAt
    <3>2. DataWithin(i) = Counted(DataAt(sending), i) BY <2>5, <3>1
    <3>3. QED BY <2>3, <3>1, <3>2 DEF DataSoFar
  <2>8. QED BY <2>6, <2>7
<1>2. QED BY <1>1, ChunkHolds, PTL

-----------------------------------------------------------------------------
(* The packets of a transport stream.                                      *)
(* The payload from one packet on, packet by packet.                       *)
PayloadAt(p) == IF segment[p].kind = "audio" THEN segment[p].n ELSE 0
SumIs(sum, a, n) ==
  sum = [p \in 0..n |-> IF p < a THEN 0 ELSE sum[p - 1] + PayloadAt(p)]

LEMMA SumExists ==
  ASSUME NEW a \in Nat \ {0}, NEW n \in Nat PROVE \E u : SumIs(u, a, n)
<1> DEFINE T == {m \in Nat : \E u : SumIs(u, a, m)}
<1>1. 0 \in T
  <2>1. 0 < a OBVIOUS
  <2>2. SumIs([p \in 0..0 |-> 0], a, 0) BY <2>1 DEF SumIs
  <2>3. QED BY <2>2
<1>2. ASSUME NEW m \in Nat, m \in T PROVE m + 1 \in T
  <2>1. PICK u : SumIs(u, a, m) BY <1>2
  <2> DEFINE next == IF m + 1 < a THEN 0 ELSE u[m] + PayloadAt(m + 1)
             g == [p \in 0..(m + 1) |-> IF p = m + 1 THEN next ELSE u[p]]
             h == [p \in 0..(m + 1) |-> IF p < a THEN 0 ELSE g[p - 1] + PayloadAt(p)]
  <2>2. ASSUME NEW k \in 0..(m + 1) PROVE g[k] = h[k]
    <3>1. CASE k = m + 1
      <4>1. k # 0 /\ k - 1 = m /\ m \in 0..(m + 1) /\ m # m + 1 BY <3>1
      <4>2. g[m] = u[m] /\ g[k] = IF m + 1 < a THEN 0 ELSE u[m] + PayloadAt(m + 1)
        BY <3>1, <4>1
      <4>3. h[k] = IF k < a THEN 0 ELSE g[k - 1] + PayloadAt(k) BY <4>1
      <4> HIDE DEF g, h
      <4>4. QED BY <3>1, <4>1, <4>2, <4>3
    <3>2. CASE k # m + 1
      <4>1. k \in 0..m BY <3>2
      <4>2. u[k] = IF k < a THEN 0 ELSE u[k - 1] + PayloadAt(k) BY <2>1, <4>1 DEF SumIs
      <4>3. ~(k < a) => k - 1 \in 0..(m + 1) /\ k - 1 # m + 1 BY <4>1
      <4>4. ~(k < a) => g[k - 1] = u[k - 1] BY <4>3
      <4>5. g[k] = u[k] BY <3>2
      <4>6. h[k] = IF k < a THEN 0 ELSE g[k - 1] + PayloadAt(k) OBVIOUS
      <4> HIDE DEF g, h
      <4>7. QED BY <4>2, <4>4, <4>5, <4>6
    <3>3. QED BY <3>1, <3>2
  <2>3. g = h
    <3>1. g = [k \in 0..(m + 1) |-> g[k]] /\ h = [k \in 0..(m + 1) |-> h[k]] OBVIOUS
    <3> HIDE DEF g, h
    <3>2. QED BY <2>2, <3>1
  <2>4. SumIs(g, a, m + 1) BY <2>3 DEF SumIs
  <2> HIDE DEF g
  <2>5. QED BY <2>4
<1> HIDE DEF T
<1>3. n \in T BY <1>1, <1>2, AllOf
<1>4. QED BY <1>3 DEF T

LEMMA PayloadSums ==
  ASSUME segment \in Seq(TsPackets), NEW a \in Nat \ {0}
  PROVE  /\ \A p \in 0..Len(segment) : p < a => PayloadFrom(a)[p] = 0
         /\ \A p \in 1..Len(segment) : a <= p =>
              PayloadFrom(a)[p] = PayloadFrom(a)[p - 1] + PayloadAt(p)
         /\ \A p \in 0..Len(segment) : PayloadFrom(a)[p] \in Nat
<1>1. PICK n \in Nat : n = Len(segment) OBVIOUS
<1>2. PICK u : u = PayloadFrom(a) OBVIOUS
<1>3. SumIs(u, a, n)
  <2>1. PICK v : SumIs(v, a, n) BY SumExists
  <2>2. v = [p \in 0..Len(segment) |->
               IF p < a THEN 0
               ELSE v[p - 1] + IF segment[p].kind = "audio" THEN segment[p].n ELSE 0]
    BY <1>1, <2>1, Zenon DEF SumIs, PayloadAt
  <2>3. u = [p \in 0..Len(segment) |->
               IF p < a THEN 0
               ELSE u[p - 1] + IF segment[p].kind = "audio" THEN segment[p].n ELSE 0]
    BY <1>2, <2>2, Zenon DEF PayloadFrom
  <2>4. QED BY <1>1, <2>3, Zenon DEF SumIs, PayloadAt
<1>4. \A p \in 0..n : u[p] = IF p < a THEN 0 ELSE u[p - 1] + PayloadAt(p) BY <1>3 DEF SumIs
<1>5. TsPkt \in Nat BY TsAssumption DEF TsAssumption
<1>6. \A p \in 1..n : PayloadAt(p) \in Nat
  <2> SUFFICES ASSUME NEW p \in 1..n PROVE PayloadAt(p) \in Nat OBVIOUS
  <2>1. segment[p] \in TsPackets BY <1>1
  <2>2. QED BY <1>5, <2>1 DEF TsPackets, PayloadAt
<1> DEFINE T == {m \in Nat : m \in 0..n => u[m] \in Nat}
<1>7. 0 \in T
  <2>1. 0 < a OBVIOUS
  <2>2. QED BY <1>4, <2>1
<1>8. ASSUME NEW m \in Nat, m \in T PROVE m + 1 \in T
  <2> SUFFICES ASSUME m + 1 \in 0..n PROVE u[m + 1] \in Nat OBVIOUS
  <2>1. PICK k \in 1..n : k = m + 1 /\ k - 1 = m /\ k \in 0..n OBVIOUS
  <2>2. u[k] = IF k < a THEN 0 ELSE u[k - 1] + PayloadAt(k) BY <1>4, <2>1
  <2>3. u[k - 1] \in Nat BY <1>8, <2>1
  <2>4. PayloadAt(k) \in Nat BY <1>6
  <2>5. QED BY <2>1, <2>2, <2>3, <2>4
<1> HIDE DEF T
<1>9. Nat \subseteq T BY <1>7, <1>8, AllOf
<1>10. \A p \in 0..n : u[p] \in Nat
  <2> SUFFICES ASSUME NEW p \in 0..n PROVE u[p] \in Nat OBVIOUS
  <2>1. p \in T BY <1>9
  <2>2. QED BY <2>1 DEF T
<1>11. ASSUME NEW p \in 1..n, a <= p PROVE u[p] = u[p - 1] + PayloadAt(p)
  <2>1. p \in 0..n /\ ~(p < a) BY <1>11
  <2>2. QED BY <1>4, <2>1
<1>12. QED BY <1>1, <1>2, <1>4, <1>10, <1>11

(* What is known of the tables, and of the PES packet, behind each packet. *)
PmtAt(p) == known.pmt \/ \E r \in 1..(p - 1) : Begins(r, "pat")
SkipAfter(p) ==
  IF PesStarts(p) = {} THEN 0
  ELSE IF segment[PesStart(p)].pes THEN HeaderRest(PesStart(p), p) ELSE 0

LEMMA TablesNext ==
  ASSUME NEW p \in Nat \ {0}
  PROVE  /\ PmtAt(p + 1) <=> PmtAt(p) \/ Begins(p, "pat")
         /\ KnownAt(p + 1) <=> KnownAt(p) \/ (Begins(p, "pmt") /\ PmtAt(p))
<1>1. 1..((p + 1) - 1) = (1..(p - 1)) \cup {p} OBVIOUS
<1>2. KnownAt(p) <=> known.audio \/ \E q \in 1..(p - 1) : Begins(q, "pmt") /\ PmtAt(q)
  BY DEF KnownAt, PmtAt
<1>3. KnownAt(p + 1) <=> known.audio \/ \E q \in 1..((p + 1) - 1) : Begins(q, "pmt") /\ PmtAt(q)
  BY DEF KnownAt, PmtAt
<1>4. PmtAt(p + 1) <=> PmtAt(p) \/ Begins(p, "pat") BY <1>1 DEF PmtAt
<1>5. KnownAt(p + 1) <=> KnownAt(p) \/ (Begins(p, "pmt") /\ PmtAt(p))
  BY <1>1, <1>2, <1>3
<1>6. QED BY <1>4, <1>5

LEMMA KnownStays ==
  ASSUME NEW p \in Nat \ {0}, NEW q \in 1..p, KnownAt(q) PROVE KnownAt(p)
<1>1. \A r \in 1..(q - 1) : r \in 1..(p - 1) OBVIOUS
<1>2. QED BY <1>1 DEF KnownAt

(* The packet in which the last PES packet begins: this one, or as before. *)
LEMMA PesStartIs ==
  ASSUME NEW p \in Nat \ {0}
  PROVE  /\ Begins(p, "audio") /\ KnownAt(p) => PesStarts(p) # {} /\ PesStart(p) = p
         /\ ~(Begins(p, "audio") /\ KnownAt(p)) =>
              PesStarts(p) = PesStarts(p - 1) /\ PesStart(p) = PesStart(p - 1)
         /\ PesStarts(p) # {} => PesStart(p) \in PesStarts(p)
<1>1. PesStarts(p) \in SUBSET (1..p) BY DEF PesStarts
<1>2. CASE Begins(p, "audio") /\ KnownAt(p)
  <2>1. p \in PesStarts(p) BY <1>2 DEF PesStarts
  <2>2. \A r \in PesStarts(p) : r <= p BY <1>1
  <2>3. \A q \in PesStarts(p) : (\A r \in PesStarts(p) : r <= q) => q = p
    BY <1>1, <2>1
  <2>4. PesStart(p) = p BY <2>1, <2>2, <2>3 DEF PesStart
  <2>5. QED BY <1>2, <2>1, <2>4
<1>3. CASE ~(Begins(p, "audio") /\ KnownAt(p))
  <2>1. PesStarts(p) = PesStarts(p - 1)
    <3>1. 1..p = (1..(p - 1)) \cup {p} OBVIOUS
    <3>2. QED BY <1>3, <3>1 DEF PesStarts
  <2>2. PesStart(p) = PesStart(p - 1) BY <2>1, Zenon DEF PesStart
  <2>3. ASSUME PesStarts(p) # {} PROVE PesStart(p) \in PesStarts(p)
    <3>1. \E q \in PesStarts(p) : \A r \in PesStarts(p) : r <= q
      <4>1. PICK n \in Nat : n = p OBVIOUS
      <4> DEFINE D == {p + 1 - r : r \in PesStarts(p)}
      <4>2. D \in SUBSET (1..n) /\ D # {} BY <1>1, <2>3, <4>1
      <4> HIDE DEF D
      <4>3. PICK i \in D : \A j \in D : i <= j BY <4>2, FirstIn
      <4>4. PICK q \in PesStarts(p) : i = p + 1 - q BY <4>3 DEF D
      <4>5. ASSUME NEW r \in PesStarts(p) PROVE r <= q
        <5>1. p + 1 - r \in D BY DEF D
        <5>2. i <= p + 1 - r BY <4>3, <5>1
        <5>3. r \in 1..p /\ q \in 1..p BY <1>1
        <5>4. QED BY <4>4, <5>2, <5>3
      <4>6. QED BY <4>5
    <3>2. QED BY <3>1 DEF PesStart
  <2>4. QED BY <1>3, <2>1, <2>2, <2>3
<1>4. QED BY <1>2, <1>3

(* What is left of the header of the last PES packet.                      *)
LEMMA HeaderRestIs ==
  ASSUME segment \in Seq(TsPackets), NEW a \in 1..Len(segment), NEW p \in 0..Len(segment)
  PROVE  /\ HeaderRest(a, p) \in Nat
         /\ p < a => HeaderRest(a, p) = segment[a].skip
         /\ a <= p => HeaderRest(a, p) = IF PayloadAt(p) < HeaderRest(a, p - 1)
                                         THEN HeaderRest(a, p - 1) - PayloadAt(p) ELSE 0
<1>1. PICK u : u = PayloadFrom(a) OBVIOUS
<1>2. /\ \A q \in 0..Len(segment) : q < a => u[q] = 0
      /\ \A q \in 1..Len(segment) : a <= q => u[q] = u[q - 1] + PayloadAt(q)
      /\ \A q \in 0..Len(segment) : u[q] \in Nat
  BY <1>1, PayloadSums
<1>3. PICK s \in Nat : s = segment[a].skip
  <2>1. segment[a] \in TsPackets OBVIOUS
  <2>2. QED BY <2>1 DEF TsPackets
<1>4. \A q \in 0..Len(segment) : HeaderRest(a, q) = IF u[q] < s THEN s - u[q] ELSE 0
  BY <1>1, <1>3 DEF HeaderRest
<1>5. PICK x \in Nat : x = u[p] BY <1>2
<1>6. HeaderRest(a, p) = IF x < s THEN s - x ELSE 0 BY <1>4, <1>5
<1>7. ASSUME p < a PROVE HeaderRest(a, p) = s
  <2>1. x = 0 BY <1>2, <1>5, <1>7
  <2>2. QED BY <1>6, <2>1
<1>8. ASSUME a <= p
      PROVE  HeaderRest(a, p) = IF PayloadAt(p) < HeaderRest(a, p - 1)
                                THEN HeaderRest(a, p - 1) - PayloadAt(p) ELSE 0
  <2>1. p \in 1..Len(segment) /\ p - 1 \in 0..Len(segment) BY <1>8
  <2>2. PICK y \in Nat : y = u[p - 1] BY <1>2, <2>1
  <2>3. PICK z \in Nat : z = PayloadAt(p)
    <3>1. segment[p] \in TsPackets BY <2>1
    <3>2. TsPkt \in Nat BY TsAssumption DEF TsAssumption
    <3>3. QED BY <3>1, <3>2 DEF TsPackets, PayloadAt
  <2>4. x = y + z BY <1>2, <1>5, <1>8, <2>1, <2>2, <2>3
  <2>5. HeaderRest(a, p - 1) = IF y < s THEN s - y ELSE 0 BY <1>4, <2>1, <2>2
  <2>6. QED BY <1>6, <2>3, <2>4, <2>5
<1>9. HeaderRest(a, p) \in Nat BY <1>6
<1>10. QED BY <1>3, <1>7, <1>8, <1>9

LEMMA SkipTyped ==
  ASSUME segment \in Seq(TsPackets), NEW p \in 0..Len(segment)
  PROVE  SkipAfter(p) \in Nat
<1>1. CASE PesStarts(p) = {} BY <1>1 DEF SkipAfter
<1>2. CASE PesStarts(p) # {}
  <2>1. p # 0 BY <1>2 DEF PesStarts
  <2>2. PesStart(p) \in 1..p BY <1>2, <2>1, PesStartIs DEF PesStarts
  <2>3. HeaderRest(PesStart(p), p) \in Nat BY <2>2, HeaderRestIs
  <2>4. QED BY <2>3 DEF SkipAfter
<1>3. QED BY <1>1, <1>2

(* A packet that adds nothing to a PES packet.                             *)
LEMMA SkipStays ==
  ASSUME segment \in Seq(TsPackets), NEW p \in 1..Len(segment),
         PayloadAt(p) = 0 \/ ~KnownAt(p)
  PROVE  SkipAfter(p) = SkipAfter(p - 1)
<1>1. ~(Begins(p, "audio") /\ KnownAt(p))
  <2>1. segment[p] \in TsPackets OBVIOUS
  <2>2. QED BY <2>1 DEF Begins, PayloadAt
<1>2. PesStarts(p) = PesStarts(p - 1) /\ PesStart(p) = PesStart(p - 1) BY <1>1, PesStartIs
<1>3. CASE PesStarts(p) = {} BY <1>2, <1>3 DEF SkipAfter
<1>4. CASE PesStarts(p) # {}
  <2>1. PICK a \in 1..p : a = PesStart(p) /\ a \in PesStarts(p)
    BY <1>4, PesStartIs DEF PesStarts
  <2>2. KnownAt(a) BY <2>1 DEF PesStarts
  <2>3. KnownAt(p) BY <2>1, <2>2, KnownStays
  <2>4. PayloadAt(p) = 0 BY <2>3
  <2>5. a \in 1..Len(segment) /\ p - 1 \in 0..Len(segment) OBVIOUS
  <2>6. PICK x \in Nat : x = HeaderRest(a, p - 1) BY <2>5, HeaderRestIs
  <2>7. HeaderRest(a, p) = IF PayloadAt(p) < x THEN x - PayloadAt(p) ELSE 0
    BY <2>1, <2>5, <2>6, HeaderRestIs
  <2>8. HeaderRest(a, p) = HeaderRest(a, p - 1) BY <2>4, <2>6, <2>7
  <2>9. QED BY <1>2, <1>4, <2>1, <2>8 DEF SkipAfter
<1>5. QED BY <1>3, <1>4

(* One that does: what of it is header, and what is left of that.          *)
LEMMA SkipGoes ==
  ASSUME segment \in Seq(TsPackets), NEW p \in 1..Len(segment), segment[p].kind = "audio",
         segment[p].n > 0, KnownAt(p), NEW n \in Nat, n = segment[p].n,
         NEW skip \in Nat, skip = IF segment[p].pusi THEN segment[p].skip ELSE SkipAfter(p - 1)
  PROVE  /\ Silent(p) \in Nat
         /\ segment[p].pusi /\ ~segment[p].pes => Silent(p) = n /\ SkipAfter(p) = 0
         /\ ~(segment[p].pusi /\ ~segment[p].pes) =>
              /\ SkipAfter(p) = IF skip < n THEN 0 ELSE skip - n
              /\ IF skip < n THEN Silent(p) = skip ELSE Silent(p) >= n
<1>1. PICK k \in TsPackets : k = segment[p] OBVIOUS
<1>2. k.pusi \in BOOLEAN /\ k.pes \in BOOLEAN /\ k.skip \in Nat BY DEF TsPackets
<1>3. PayloadAt(p) = n BY DEF PayloadAt
<1>4. Begins(p, "audio") <=> k.pusi BY <1>1, <1>2 DEF Begins
<1>5. p - 1 \in 0..Len(segment) /\ p \in 0..Len(segment) OBVIOUS
<1>6. CASE k.pusi
  <2>1. PesStarts(p) # {} /\ PesStart(p) = p BY <1>4, <1>6, PesStartIs
  <2>2. HeaderRest(p, p - 1) = segment[p].skip BY <1>5, HeaderRestIs
  <2>3. skip = k.skip BY <1>1, <1>6
  <2>4. CASE ~k.pes
    <3>1. Silent(p) = n /\ SkipAfter(p) = 0 BY <1>1, <2>1, <2>4 DEF Silent, SkipAfter
    <3>2. QED BY <1>1, <1>6, <2>4, <3>1
  <2>5. CASE k.pes
    <3>1. HeaderRest(p, p) = IF PayloadAt(p) < HeaderRest(p, p - 1)
                             THEN HeaderRest(p, p - 1) - PayloadAt(p) ELSE 0
      BY <1>5, HeaderRestIs
    <3>2. HeaderRest(p, p) = IF n < skip THEN skip - n ELSE 0 BY <1>1, <1>3, <2>2, <2>3, <3>1
    <3>3. Silent(p) = skip BY <1>1, <2>1, <2>2, <2>3, <2>5 DEF Silent
    <3>4. SkipAfter(p) = IF n < skip THEN skip - n ELSE 0
      BY <1>1, <2>1, <2>5, <3>2 DEF SkipAfter
    <3>5. QED BY <1>1, <2>5, <3>3, <3>4
  <2>6. QED BY <1>2, <2>4, <2>5
<1>7. CASE ~k.pusi
  <2>1. PesStarts(p) = PesStarts(p - 1) /\ PesStart(p) = PesStart(p - 1)
    BY <1>4, <1>7, PesStartIs
  <2>2. skip = SkipAfter(p - 1) BY <1>1, <1>7
  <2>3. CASE PesStarts(p) = {}
    <3>1. skip = 0 /\ Silent(p) = 0 /\ SkipAfter(p) = 0
      BY <2>1, <2>2, <2>3 DEF Silent, SkipAfter
    <3>2. QED BY <1>1, <1>7, <3>1
  <2>4. CASE PesStarts(p) # {}
    <3>1. PICK a \in 1..p : a = PesStart(p) /\ a \in PesStarts(p)
      BY <2>4, PesStartIs DEF PesStarts
    <3>2. a \in 1..Len(segment) OBVIOUS
    <3>3. a # p
      <4>1. Begins(a, "audio") BY <3>1 DEF PesStarts
      <4>2. QED BY <1>4, <1>7, <4>1
    <3>4. CASE ~segment[a].pes
      <4>1. skip = 0 /\ SkipAfter(p) = 0 BY <2>1, <2>2, <2>4, <3>1, <3>4 DEF SkipAfter
      <4>2. Silent(p) = 0 BY <2>4, <3>1, <3>3, <3>4 DEF Silent
      <4>3. QED BY <1>1, <1>7, <4>1, <4>2
    <3>5. CASE segment[a].pes
      <4>1. skip = HeaderRest(a, p - 1) BY <2>1, <2>2, <2>4, <3>1, <3>5 DEF SkipAfter
      <4>2. Silent(p) = skip BY <2>4, <3>1, <3>5, <4>1 DEF Silent
      <4>3. HeaderRest(a, p) = IF PayloadAt(p) < HeaderRest(a, p - 1)
                               THEN HeaderRest(a, p - 1) - PayloadAt(p) ELSE 0
        BY <1>5, <3>1, <3>2, HeaderRestIs
      <4>4. SkipAfter(p) = HeaderRest(a, p) BY <2>4, <3>1, <3>5 DEF SkipAfter
      <4>5. SkipAfter(p) = IF n < skip THEN skip - n ELSE 0
        BY <1>3, <4>1, <4>3, <4>4
      <4>6. QED BY <1>1, <1>7, <4>2, <4>5
    <3>6. QED BY <3>4, <3>5
  <2>5. QED BY <2>3, <2>4
<1>8. QED BY <1>2, <1>6, <1>7

TsBytes == [packet : Nat, place : Nat]
TsStates ==
  [pkt : Seq(TsBytes), pmt : BOOLEAN, audio : BOOLEAN, skip : Nat, out : Seq(TsBytes)]

(* What is known before packet p. *)
KnowsAt(c, p) ==
  (c.pmt <=> PmtAt(p)) /\ (c.audio <=> KnownAt(p)) /\ c.skip = SkipAfter(p - 1)

LEMMA PacketBytesAre ==
  ASSUME NEW s, NEW p \in Nat
  PROVE  /\ PacketBytes(s, p) \in Seq(TsBytes) /\ Len(PacketBytes(s, p)) = TsPkt
         /\ \A i \in 1..TsPkt : /\ PacketBytes(s, p)[i] = [packet |-> p, place |-> i]
                                /\ PacketBytes(s, p)[i] \in TsBytes
         /\ PacketBytes(s, p)[1].packet = p
<1>1. PICK n \in Nat \ {0, 1} : n = TsPkt BY TsAssumption DEF TsAssumption
<1>2. \A i \in 1..n : [packet |-> p, place |-> i] \in TsBytes BY DEF TsBytes
<1>3. QED BY <1>1, <1>2 DEF PacketBytes

(* The payload of a packet, but its first s bytes, is the end of it.       *)
EndOf(w, t, n, s) ==
  /\ SubSeq(SubSeq(w, t - n + 1, t), s + 1, n) = SubSeq(w, t - n + s + 1, t)
  /\ SubSeq(w, t - n + s + 1, t) \in Seq(TsBytes)

LEMMA PayloadEnd ==
  ASSUME NEW w \in Seq(TsBytes), NEW t \in Nat, Len(w) = t, NEW n \in 0..t, NEW s \in 0..n
  PROVE  EndOf(w, t, n, s)
<1>1. PICK a \in Nat : a = t - n /\ a + n = t OBVIOUS
<1>2. PICK v \in Seq(TsBytes) : v = SubSeq(w, a + 1, a + n)
  <2>1. a + n <= Len(w) /\ n \in Nat BY <1>1
  <2>2. SubSeq(w, a + 1, a + n) \in Seq(TsBytes) BY <2>1, PartOf
  <2>3. QED BY <2>2
<1>3. Len(v) = n /\ \A i \in 1..n : v[i] = w[a + i]
  <2>1. a + n <= Len(w) /\ n \in Nat BY <1>1
  <2>2. QED BY <1>2, <2>1, PartOf
<1>4. v = SubSeq(w, t - n + 1, t) BY <1>2, <1>1
<1>5. PICK m \in Nat : m = n - s /\ s + m = n OBVIOUS
<1>6. s + m <= Len(v) /\ s \in Nat
  <2>1. s \in Nat OBVIOUS
  <2>2. Len(v) = n BY <1>3
  <2>3. n \in Nat OBVIOUS
  <2>4. QED BY <1>5, <2>1, <2>2, <2>3
<1>7. PICK x \in Seq(TsBytes) : x = SubSeq(v, s + 1, s + m)
  <2>1. SubSeq(v, s + 1, s + m) \in Seq(TsBytes) BY <1>6, PartOf
  <2>2. QED BY <2>1
<1>8. Len(x) = m /\ \A i \in 1..m : x[i] = v[s + i] BY <1>7, <1>6, PartOf
<1>9. PICK b \in Nat : b = a + s /\ b + m = t BY <1>1, <1>5
<1>10. b + m <= Len(w) BY <1>9
<1>11. PICK y \in Seq(TsBytes) : y = SubSeq(w, b + 1, b + m)
  <2>1. SubSeq(w, b + 1, b + m) \in Seq(TsBytes) BY <1>10, PartOf
  <2>2. QED BY <2>1
<1>12. Len(y) = m /\ \A i \in 1..m : y[i] = w[b + i] BY <1>11, <1>10, PartOf
<1>13. \A i \in 1..m : x[i] = y[i]
  <2> SUFFICES ASSUME NEW i \in 1..m PROVE x[i] = y[i] OBVIOUS
  <2>1. PICK j \in 1..n : j = s + i BY <1>5
  <2>2. a + j = b + i BY <1>9, <2>1
  <2>3. QED BY <1>3, <1>8, <1>12, <2>1, <2>2
<1>14. x = y BY <1>13, <1>8, <1>12
<1>15. y = SubSeq(w, t - n + s + 1, t)
  <2>1. b + 1 = t - n + s + 1
    <3>1. s \in Nat /\ n \in Nat OBVIOUS
    <3>2. QED BY <1>1, <1>9, <3>1
  <2>2. QED BY <1>9, <1>11, <2>1
<1>16. x = SubSeq(SubSeq(w, t - n + 1, t), s + 1, n) BY <1>4, <1>5, <1>7
<1>17. QED BY <1>14, <1>15, <1>16 DEF EndOf

LEMMA SilentTyped ==
  ASSUME segment \in Seq(TsPackets), NEW p \in 1..Len(segment)
  PROVE  Silent(p) \in Nat
<1>1. CASE PesStarts(p) = {} BY <1>1 DEF Silent
<1>2. CASE PesStarts(p) # {}
  <2>1. PICK a \in 1..p : a = PesStart(p) BY <1>2, PesStartIs DEF PesStarts
  <2>2. a \in 1..Len(segment) /\ p - 1 \in 0..Len(segment) OBVIOUS
  <2>3. HeaderRest(a, p - 1) \in Nat BY <2>2, HeaderRestIs
  <2>4. segment[p].n \in Nat
    <3>1. segment[p] \in TsPackets OBVIOUS
    <3>2. TsPkt \in Nat BY TsAssumption DEF TsAssumption
    <3>3. QED BY <3>1, <3>2 DEF TsPackets
  <2>5. QED BY <2>1, <2>3, <2>4 DEF Silent
<1>3. QED BY <1>1, <1>2

LEMMA AudioTyped ==
  ASSUME segment \in Seq(TsPackets), NEW p \in 1..Len(segment)
  PROVE  AudioOf(p) \in Seq(TsBytes)
<1>1. PICK w \in Seq(TsBytes) : w = PacketBytes(segment, p) /\ Len(w) = TsPkt
  BY PacketBytesAre
<1>2. CASE ~(segment[p].kind = "audio" /\ KnownAt(p)) BY <1>2, EmptySeq DEF AudioOf
<1>3. CASE segment[p].kind = "audio" /\ KnownAt(p)
  <2>1. PICK t \in Nat : t = TsPkt BY TsAssumption DEF TsAssumption
  <2>2. PICK n \in 0..(t - 1) : n = segment[p].n
    <3>1. segment[p] \in TsPackets OBVIOUS
    <3>2. QED BY <2>1, <3>1 DEF TsPackets
  <2>3. PICK s \in Nat : s = Silent(p) BY SilentTyped
  <2>4. SubSeq(w, t - n + s + 1, t) \in Seq(TsBytes) BY <1>1, <2>1, <2>2, <2>3
  <2>5. QED BY <1>1, <1>3, <2>1, <2>2, <2>3, <2>4 DEF AudioOf
<1>4. QED BY <1>2, <1>3

(* What a complete packet changes: the state becomes that of the next one, *)
(* and its audio is given away.                                            *)
PacketDone(d, c, p) ==
  /\ d \in TsStates /\ d.pkt = c.pkt /\ KnowsAt(d, p + 1)
  /\ d.out = c.out \o AudioOf(p)

LEMMA OtherGoes ==
  ASSUME segment \in Seq(TsPackets), NEW p \in 1..Len(segment), NEW c \in TsStates,
         KnowsAt(c, p), segment[p].kind # "audio" \/ segment[p].n = 0 \/ ~KnownAt(p)
  PROVE  PacketDone(TsPacket(c, PacketBytes(segment, p)), c, p)
<1>1. PICK k \in TsPackets : k = segment[p] OBVIOUS
<1>2. PICK d : d = TsPacket(c, PacketBytes(segment, p)) OBVIOUS
<1>3. d = IF k.n = 0 \/ (k.kind = "audio" /\ ~c.audio) THEN c ELSE Table(c, k)
  <2>1. PacketBytes(segment, p)[1].packet = p BY PacketBytesAre
  <2>2. c.audio <=> KnownAt(p) BY DEF KnowsAt
  <2>3. QED BY <1>1, <1>2, <2>1, <2>2 DEF TsPacket
<1>4. AudioOf(p) = <<>>
  <2>1. CASE ~(k.kind = "audio" /\ KnownAt(p)) BY <1>1, <2>1 DEF AudioOf
  <2>2. CASE k.kind = "audio" /\ KnownAt(p)
    <3>1. PICK t \in Nat : t = TsPkt BY TsAssumption DEF TsAssumption
    <3>2. PICK s \in Nat : s = Silent(p) BY SilentTyped
    <3>3. PICK w \in Seq(TsBytes) : w = PacketBytes(segment, p) BY PacketBytesAre
    <3>4. k.n = 0 BY <1>1, <2>2
    <3>5. SubSeq(w, t - 0 + s + 1, t) = <<>> BY <3>1, <3>2
    <3>6. QED BY <1>1, <2>2, <3>1, <3>2, <3>3, <3>4, <3>5 DEF AudioOf
  <2>3. QED BY <2>1, <2>2
<1>5. d.out = c.out \o AudioOf(p) /\ d \in TsStates /\ d.pkt = c.pkt /\ d.skip = c.skip
  <2>1. PICK o \in Seq(TsBytes) : o = c.out BY DEF TsStates
  <2>2. o \o <<>> = o BY ConcatEmptySeq
  <2>3. d.out = c.out /\ d \in TsStates /\ d.pkt = c.pkt /\ d.skip = c.skip
    BY <1>3 DEF Table, TsStates
  <2>4. QED BY <1>4, <2>1, <2>2, <2>3
<1>6. SkipAfter(p) = SkipAfter(p - 1)
  <2>1. PayloadAt(p) = 0 \/ ~KnownAt(p) BY <1>1 DEF PayloadAt
  <2>2. QED BY <2>1, SkipStays
<1>7. (d.pmt <=> PmtAt(p + 1)) /\ (d.audio <=> KnownAt(p + 1))
  <2>1. (c.pmt <=> PmtAt(p)) /\ (c.audio <=> KnownAt(p)) BY DEF KnowsAt
  <2>2. /\ PmtAt(p + 1) <=> PmtAt(p) \/ Begins(p, "pat")
        /\ KnownAt(p + 1) <=> KnownAt(p) \/ (Begins(p, "pmt") /\ PmtAt(p))
    BY TablesNext
  <2>3. \A x : Begins(p, x) <=> k.kind = x /\ k.pusi /\ k.n > 0 BY <1>1 DEF Begins
  <2>4. /\ d.pmt <=> c.pmt \/ Begins(p, "pat")
        /\ d.audio <=> c.audio \/ (Begins(p, "pmt") /\ c.pmt)
    <3>1. k.n \in Nat BY TsAssumption DEF TsAssumption, TsPackets
    <3>2. CASE k.n = 0 \/ (k.kind = "audio" /\ ~c.audio)
      <4>1. ~Begins(p, "pat") /\ ~Begins(p, "pmt") BY <2>3, <3>2
      <4>2. QED BY <1>3, <3>2, <4>1
    <3>3. CASE ~(k.n = 0 \/ (k.kind = "audio" /\ ~c.audio))
      <4>1. d = Table(c, k) /\ k.n > 0 BY <1>3, <3>1, <3>3
      <4>2. Begins(p, "pat") <=> k.kind = "pat" /\ k.pusi BY <2>3, <4>1
      <4>3. Begins(p, "pmt") <=> k.kind = "pmt" /\ k.pusi BY <2>3, <4>1
      <4>4. c.pmt \in BOOLEAN /\ c.audio \in BOOLEAN BY DEF TsStates
      <4>5. /\ d.pmt <=> c.pmt \/ (k.kind = "pat" /\ k.pusi)
            /\ d.audio <=> c.audio \/ (k.kind = "pmt" /\ k.pusi /\ c.pmt)
        BY <4>1, <4>4 DEF Table, TsStates
      <4>6. QED BY <4>2, <4>3, <4>5
    <3>4. QED BY <3>2, <3>3
  <2>5. QED BY <2>1, <2>2, <2>4
<1>8. d.skip = SkipAfter((p + 1) - 1)
  <2>1. (p + 1) - 1 = p OBVIOUS
  <2>2. QED BY <1>5, <1>6, <2>1 DEF KnowsAt
<1>9. QED BY <1>2, <1>5, <1>7, <1>8 DEF PacketDone, KnowsAt

LEMMA PesGoes ==
  ASSUME segment \in Seq(TsPackets), NEW p \in 1..Len(segment), NEW c \in TsStates,
         KnowsAt(c, p), segment[p].kind = "audio", segment[p].n # 0, KnownAt(p)
  PROVE  PacketDone(TsPacket(c, PacketBytes(segment, p)), c, p)
<1>1. PICK k \in TsPackets : k = segment[p] OBVIOUS
<1>2. PICK t \in Nat : t = TsPkt BY TsAssumption DEF TsAssumption
<1>3. PICK n \in 0..t : n = k.n /\ n > 0 BY <1>1, <1>2 DEF TsPackets
<1>4. PICK w \in Seq(TsBytes) : w = PacketBytes(segment, p) /\ Len(w) = t
  BY <1>2, PacketBytesAre
<1>5. w[1].packet = p
  <2>1. p \in Nat OBVIOUS
  <2>2. PacketBytes(segment, p)[1].packet = p BY <2>1, PacketBytesAre
  <2>3. QED BY <1>4, <2>2
<1>6. PICK load : load = SubSeq(w, t - n + 1, t) OBVIOUS
<1>7. PayloadOf(w) = load BY <1>1, <1>3, <1>4, <1>5, <1>6 DEF PayloadOf
<1>8. k.pusi \in BOOLEAN /\ k.pes \in BOOLEAN /\ k.skip \in Nat BY DEF TsPackets
<1>9. PICK skip \in Nat : skip = PesSkip(c, k)
  <2>1. c.skip \in Nat BY DEF TsStates
  <2>2. QED BY <1>8, <2>1 DEF PesSkip
<1>10. skip = IF segment[p].pusi THEN segment[p].skip ELSE SkipAfter(p - 1)
  BY <1>1, <1>9 DEF PesSkip, KnowsAt
<1>11. n \in Nat /\ n = segment[p].n /\ segment[p].n > 0 BY <1>1, <1>3
<1>12. /\ Silent(p) \in Nat
       /\ k.pusi /\ ~k.pes => Silent(p) = n /\ SkipAfter(p) = 0
       /\ ~(k.pusi /\ ~k.pes) =>
            /\ SkipAfter(p) = IF skip < n THEN 0 ELSE skip - n
            /\ IF skip < n THEN Silent(p) = skip ELSE Silent(p) >= n
  BY <1>1, <1>10, <1>11, SkipGoes
<1>13. PICK e \in Nat : e = Silent(p) BY <1>12
<1>14. AudioOf(p) = SubSeq(w, t - n + e + 1, t)
  BY <1>1, <1>2, <1>3, <1>4, <1>13 DEF AudioOf
<1>15. PICK d : d = TsPacket(c, w) OBVIOUS
<1>16. d = PesPacket(c, k, load)
  <2>1. c.audio BY DEF KnowsAt
  <2>2. QED BY <1>1, <1>5, <1>7, <1>15, <2>1 DEF TsPacket
<1>17. PICK o \in Seq(TsBytes) : o = c.out BY DEF TsStates
<1>18. /\ d \in TsStates /\ d.pkt = c.pkt /\ d.pmt = c.pmt /\ d.audio = c.audio
       /\ d.out = c.out \o AudioOf(p) /\ d.skip = SkipAfter(p)
  <2>1. CASE k.pusi /\ ~k.pes
    <3>1. d = [c EXCEPT !.skip = 0] BY <1>16, <2>1 DEF PesPacket
    <3>2. SubSeq(w, t - n + n + 1, t) = <<>>
      <4>1. t - n + n + 1 = t + 1 BY <1>3
      <4>2. SubSeq(w, t + 1, t) = <<>> BY <1>4
      <4>3. QED BY <4>1, <4>2
    <3>3. AudioOf(p) = <<>> BY <1>12, <1>13, <1>14, <2>1, <3>2
    <3>4. o \o <<>> = o BY ConcatEmptySeq
    <3>5. d \in TsStates /\ d.pkt = c.pkt /\ d.pmt = c.pmt /\ d.audio = c.audio
          /\ d.out = c.out /\ d.skip = 0
      BY <3>1 DEF TsStates
    <3>6. QED BY <1>12, <1>17, <2>1, <3>3, <3>4, <3>5
  <2>2. CASE ~(k.pusi /\ ~k.pes)
    <3>1. PICK s \in 0..n : s = IF skip < n THEN skip ELSE n BY <1>9
    <3>2. PICK x \in Seq(TsBytes) : x = SubSeq(load, s + 1, n)
                                    /\ x = SubSeq(w, t - n + s + 1, t)
      <4>1. EndOf(w, t, n, s) BY <1>4, PayloadEnd
      <4>2. QED BY <1>6, <4>1 DEF EndOf
    <3>3. AudioOf(p) = x
      <4>1. CASE skip < n BY <1>12, <1>13, <1>14, <2>2, <3>1, <3>2, <4>1
      <4>2. CASE ~(skip < n)
        <5>1. e >= n /\ s = n BY <1>12, <1>13, <2>2, <3>1, <4>2
        <5>2. SubSeq(w, t - n + e + 1, t) = <<>>
          <6>1. PICK y \in Nat : y = t - n /\ y + n = t BY <1>3
          <6>2. t - n + e + 1 = y + e + 1 /\ y + e + 1 > t BY <5>1, <6>1
          <6>3. PICK a \in Nat : a = t - n + e + 1 /\ a > t BY <6>1, <6>2
          <6>4. SubSeq(w, a, t) = <<>> BY <6>3
          <6>5. QED BY <6>3, <6>4
        <5>3. SubSeq(w, t - n + s + 1, t) = <<>>
          <6>1. s = n /\ n \in Nat BY <1>3, <5>1
          <6>2. PICK a \in Nat : a = t - n + s + 1 /\ a > t BY <6>1
          <6>3. SubSeq(w, a, t) = <<>> BY <6>2
          <6>4. QED BY <6>2, <6>3
        <5>4. QED BY <1>14, <3>2, <5>2, <5>3
      <4>3. QED BY <4>1, <4>2
    <3>4. PICK y \in Seq(TsBytes) : y = o \o x BY ConcatProperties
    <3>5. PICK z \in Nat : z = skip - s BY <1>9, <3>1
    <3>6. d = [c EXCEPT !.skip = z, !.out = y]
      <4>1. d = [c EXCEPT !.skip = skip - s, !.out = @ \o x]
        <5>1. s = IF PesSkip(c, k) < k.n THEN PesSkip(c, k) ELSE k.n BY <1>3, <1>9, <3>1
        <5>2. x = SubSeq(load, s + 1, k.n) BY <1>3, <3>2
        <5>3. d = [c EXCEPT !.skip = PesSkip(c, k) - s, !.out = @ \o SubSeq(load, s + 1, k.n)]
          BY <1>16, <2>2, <5>1, Zenon DEF PesPacket
        <5>4. QED BY <1>9, <5>2, <5>3, Zenon
      <4>2. QED BY <1>17, <3>4, <3>5, <4>1 DEF TsStates
    <3>7. d \in TsStates /\ d.pkt = c.pkt /\ d.pmt = c.pmt /\ d.audio = c.audio
          /\ d.out = y /\ d.skip = z
      BY <3>6 DEF TsStates
    <3>8. z = SkipAfter(p) BY <1>12, <2>2, <3>1, <3>5
    <3>9. QED BY <1>17, <3>3, <3>4, <3>7, <3>8
  <2>3. QED BY <2>1, <2>2
<1>19. KnowsAt(d, p + 1)
  <2>1. (c.pmt <=> PmtAt(p)) /\ (c.audio <=> KnownAt(p)) BY DEF KnowsAt
  <2>2. /\ PmtAt(p + 1) <=> PmtAt(p) \/ Begins(p, "pat")
        /\ KnownAt(p + 1) <=> KnownAt(p) \/ (Begins(p, "pmt") /\ PmtAt(p))
    <3>1. p \in Nat \ {0} OBVIOUS
    <3>2. QED BY <3>1, TablesNext
  <2>3. ~Begins(p, "pat") /\ ~Begins(p, "pmt") BY DEF Begins
  <2>4. (p + 1) - 1 = p OBVIOUS
  <2>5. QED BY <1>18, <2>1, <2>2, <2>3, <2>4 DEF KnowsAt
<1>20. QED BY <1>4, <1>15, <1>18, <1>19 DEF PacketDone

LEMMA PacketGoes ==
  ASSUME segment \in Seq(TsPackets), NEW p \in 1..Len(segment), NEW c \in TsStates,
         KnowsAt(c, p)
  PROVE  PacketDone(TsPacket(c, PacketBytes(segment, p)), c, p)
<1>1. CASE segment[p].kind # "audio" \/ segment[p].n = 0 \/ ~KnownAt(p) BY <1>1, OtherGoes
<1>2. CASE ~(segment[p].kind # "audio" \/ segment[p].n = 0 \/ ~KnownAt(p)) BY <1>2, PesGoes
<1>3. QED BY <1>1, <1>2

(* What is put together, behind each of its parts.                         *)
Stages(f, S, seqs, n) ==
  /\ f \in [0..n -> Seq(S)] /\ f[0] = <<>>
  /\ \A i \in 1..n : f[i] = f[i - 1] \o seqs[i]

LEMMA FlattenStages ==
  ASSUME NEW S, NEW n \in Nat, NEW seqs \in [1..n -> Seq(S)]
  PROVE  \E f : Stages(f, S, seqs, n) /\ FlattenSeq(seqs) = f[n]
<1>1. seqs \in Seq(Seq(S)) /\ Len(seqs) = n OBVIOUS
<1>2. <<>> \in Seq(S) BY EmptySeq
<1>3. CASE n = 0
  <2>1. FlattenSeq(seqs) = seqs BY <1>1, <1>3 DEF FlattenSeq
  <2>2. seqs = <<>> BY <1>1, <1>3
  <2> DEFINE f == [i \in 0..0 |-> <<>>]
  <2>3. Stages(f, S, seqs, 0) BY <1>2 DEF Stages
  <2>4. QED BY <1>3, <2>1, <2>2, <2>3
<1>4. CASE n # 0
  <2>1. PICK g : Joined(seqs, n, g) /\ FlattenSeq(seqs) = g[n]
    BY <1>1, <1>4, FlattenJoined
  <2>2. \A i \in 1..n : g[i] \in Seq(S) BY <2>1, JoinedType
  <2>3. \A i \in 1..n : g[i] = IF i = 1 THEN seqs[i] ELSE g[i - 1] \o seqs[i]
    BY <2>1, JoinedStep
  <2> DEFINE f == [i \in 0..n |-> IF i = 0 THEN <<>> ELSE g[i]]
  <2>4. f \in [0..n -> Seq(S)] /\ f[0] = <<>> BY <1>2, <2>2
  <2>5. \A i \in 1..n : f[i] = g[i] OBVIOUS
  <2> HIDE DEF f
  <2>6. ASSUME NEW i \in 1..n PROVE f[i] = f[i - 1] \o seqs[i]
    <3>1. PICK s \in Seq(S) : s = seqs[i] OBVIOUS
    <3>2. CASE i = 1
      <4>1. f[i] = s BY <2>3, <2>5, <3>1, <3>2
      <4>2. f[i - 1] = <<>> BY <2>4, <3>2
      <4>3. <<>> \o s = s BY ConcatEmptySeq
      <4>4. QED BY <3>1, <4>1, <4>2, <4>3
    <3>3. CASE i # 1
      <4>1. PICK j \in 1..n : j = i - 1 BY <3>3
      <4>2. f[j] = g[j] BY <2>5
      <4>3. f[i] = g[i - 1] \o seqs[i] BY <2>3, <2>5, <3>3
      <4>4. QED BY <4>1, <4>2, <4>3
    <3>4. QED BY <3>2, <3>3
  <2>7. f[n] = g[n] BY <1>4, <2>5
  <2>8. QED BY <2>1, <2>4, <2>6, <2>7 DEF Stages
<1>5. QED BY <1>3, <1>4

(* Nothing is added from m on.                                             *)
NoMore(seqs, n, m) == \A i \in 1..n : i > m => seqs[i] = <<>>

LEMMA StagesStop ==
  ASSUME NEW S, NEW n \in Nat, NEW seqs, NEW f, Stages(f, S, seqs, n),
         NEW m \in 0..n, NoMore(seqs, n, m)
  PROVE  f[n] = f[m]
<1>1. /\ f \in [0..n -> Seq(S)]
      /\ \A i \in 1..n : f[i] = f[i - 1] \o seqs[i]
      /\ \A i \in 1..n : i > m => seqs[i] = <<>>
  BY DEF Stages, NoMore
<1> DEFINE T == {j \in Nat : m + j <= n => f[m + j] = f[m]}
<1>2. 0 \in T OBVIOUS
<1>3. ASSUME NEW j \in Nat, j \in T PROVE j + 1 \in T
  <2> SUFFICES ASSUME m + (j + 1) <= n PROVE f[m + (j + 1)] = f[m] OBVIOUS
  <2>1. PICK i \in 1..n : i = m + (j + 1) /\ i - 1 = m + j /\ i > m OBVIOUS
  <2>2. f[i] = f[i - 1] \o seqs[i] /\ seqs[i] = <<>> BY <1>1, <2>1
  <2>3. f[i - 1] = f[m] BY <1>3, <2>1
  <2>4. PICK s \in Seq(S) : s = f[m] BY <1>1
  <2>5. s \o <<>> = s BY ConcatEmptySeq
  <2>6. QED BY <2>1, <2>2, <2>3, <2>4, <2>5
<1> HIDE DEF T
<1>4. Nat \subseteq T BY <1>2, <1>3, AllOf
<1>5. PICK j \in Nat : m + j = n
  <2>1. n - m \in Nat /\ m + (n - m) = n OBVIOUS
  <2>2. QED BY <2>1
<1>6. j \in T BY <1>4
<1>7. m + j <= n => f[m + j] = f[m] BY <1>6 DEF T
<1>8. m + j <= n BY <1>5
<1>9. QED BY <1>5, <1>7, <1>8

(* The same parts up to m.                                                 *)
LEMMA StagesSame ==
  ASSUME NEW S, NEW n \in Nat, NEW l \in Nat, NEW a, NEW b, NEW f, NEW g,
         Stages(f, S, a, n), Stages(g, S, b, l),
         NEW m \in 0..n, m <= l, \A i \in 1..m : a[i] = b[i]
  PROVE  f[m] = g[m]
<1>1. /\ f[0] = <<>> /\ \A i \in 1..n : f[i] = f[i - 1] \o a[i]
      /\ g[0] = <<>> /\ \A i \in 1..l : g[i] = g[i - 1] \o b[i]
  BY DEF Stages
<1> DEFINE T == {j \in Nat : j <= m => f[j] = g[j]}
<1>2. 0 \in T BY <1>1
<1>3. ASSUME NEW j \in Nat, j \in T PROVE j + 1 \in T
  <2> SUFFICES ASSUME j + 1 <= m PROVE f[j + 1] = g[j + 1] OBVIOUS
  <2>1. PICK i \in 1..m : i = j + 1 /\ i - 1 = j /\ i \in 1..n /\ i \in 1..l OBVIOUS
  <2>2. f[i - 1] = g[i - 1] BY <1>3, <2>1
  <2>3. QED BY <1>1, <2>1, <2>2
<1> HIDE DEF T
<1>4. m \in T BY <1>2, <1>3, AllOf
<1>5. QED BY <1>4 DEF T

(* The audio of the first p packets.                                       *)
UpTo(p) == [i \in 1..Len(segment) |-> IF i \in 1..p THEN AudioOf(i) ELSE <<>>]
Heard(p) == FlattenSeq(UpTo(p))

LEMMA UpToTyped ==
  ASSUME segment \in Seq(TsPackets), NEW n \in Nat, n = Len(segment), NEW p
  PROVE  UpTo(p) \in [1..n -> Seq(TsBytes)]
<1>1. \A i \in 1..n : AudioOf(i) \in Seq(TsBytes) BY AudioTyped
<1>2. <<>> \in Seq(TsBytes) BY EmptySeq
<1>3. QED BY <1>1, <1>2 DEF UpTo

LEMMA HeardNext ==
  ASSUME segment \in Seq(TsPackets), NEW p \in 1..Len(segment)
  PROVE  Heard(p) = Heard(p - 1) \o AudioOf(p) /\ Heard(p - 1) \in Seq(TsBytes)
<1>1. PICK n \in Nat : n = Len(segment) OBVIOUS
<1>2. PICK a \in [1..n -> Seq(TsBytes)] : a = UpTo(p - 1) BY <1>1, UpToTyped
<1>3. PICK b \in [1..n -> Seq(TsBytes)] : b = UpTo(p) BY <1>1, UpToTyped
<1>4. PICK f : Stages(f, TsBytes, a, n) /\ FlattenSeq(a) = f[n] BY FlattenStages
<1>5. PICK g : Stages(g, TsBytes, b, n) /\ FlattenSeq(b) = g[n] BY FlattenStages
<1>6. PICK m \in 0..n : m = p - 1 BY <1>1
<1>7. PICK l \in 0..n : l = p /\ l \in 1..n /\ l - 1 = m BY <1>1, <1>6
<1>8. f[n] = f[m]
  <2>1. NoMore(a, n, m) BY <1>1, <1>2, <1>6 DEF UpTo, NoMore
  <2>2. Stages(f, TsBytes, a, n) BY <1>4
  <2>3. QED BY <2>1, <2>2, StagesStop
<1>9. g[n] = g[l]
  <2>1. NoMore(b, n, l) BY <1>1, <1>3, <1>7 DEF UpTo, NoMore
  <2>2. Stages(g, TsBytes, b, n) BY <1>5
  <2>3. QED BY <2>1, <2>2, StagesStop
<1>10. f[m] = g[m]
  <2>1. \A i \in 1..m : a[i] = b[i]
    <3>1. \A i \in 1..m : i \in 1..n /\ i \in 1..(p - 1) /\ i \in 1..p BY <1>6, <1>7
    <3>2. QED BY <1>1, <1>2, <1>3, <3>1 DEF UpTo
  <2>2. QED BY <1>4, <1>5, <2>1, StagesSame
<1>11. b[l] = AudioOf(p) BY <1>1, <1>3, <1>7 DEF UpTo
<1>12. g[l] = g[l - 1] \o b[l] BY <1>5, <1>7 DEF Stages
<1>13. f[n] \in Seq(TsBytes) BY <1>4 DEF Stages
<1>14. Heard(p) = g[n] /\ Heard(p - 1) = f[n] BY <1>2, <1>3, <1>4, <1>5 DEF Heard
<1>15. QED BY <1>7, <1>8, <1>9, <1>10, <1>11, <1>12, <1>13, <1>14

(* Nothing but empty parts. *)
LEMMA NothingFlat ==
  ASSUME NEW n \in Nat, NEW seqs, seqs = [i \in 1..n |-> <<>>] PROVE FlattenSeq(seqs) = <<>>
<1>1. <<>> \in Seq(TsBytes) BY EmptySeq
<1>2. seqs \in [1..n -> Seq(TsBytes)] BY <1>1
<1>3. PICK f : Stages(f, TsBytes, seqs, n) /\ FlattenSeq(seqs) = f[n] BY <1>2, FlattenStages
<1>4. PICK m \in 0..n : m = 0 OBVIOUS
<1>5. NoMore(seqs, n, m) BY DEF NoMore
<1>6. Stages(f, TsBytes, seqs, n) BY <1>3
<1>7. f[n] = f[m] BY <1>5, <1>6, StagesStop
<1>8. f[0] = <<>> BY <1>3 DEF Stages
<1>9. QED BY <1>3, <1>4, <1>7, <1>8

(* Where the packets of a segment are: behind the bytes before them.       *)
Laid(whole, at, n) ==
  /\ whole \in Seq(TsBytes) /\ at \in [0..n -> Nat] /\ at[0] = 0 /\ Len(whole) = at[n]
  /\ \A i \in 0..n : \A j \in i..n : at[i] <= at[j]
  /\ \A p \in 1..n : at[p - 1] + TsPkt <= at[p]
  /\ \A p \in 1..n : \A k \in 1..TsPkt :
       whole[(at[p] - TsPkt) + k] = [packet |-> p, place |-> k]
  /\ \A p \in 1..n : \A k \in 1..((at[p] - at[p - 1]) - TsPkt) :
       whole[at[p - 1] + k] = [packet |-> 0, place |-> 0]

LEMMA JunkIs ==
  ASSUME NEW n \in Nat
  PROVE  /\ Junk(n) \in Seq(TsBytes) /\ Len(Junk(n)) = n
         /\ \A i \in 1..n : Junk(n)[i] = [packet |-> 0, place |-> 0]
<1>1. [packet |-> 0, place |-> 0] \in TsBytes BY DEF TsBytes
<1>2. QED BY <1>1 DEF Junk

PartIs(x, j, p) ==
  /\ x \in Seq(TsBytes) /\ Len(x) = j + TsPkt
  /\ \A k \in 1..j : x[k] = [packet |-> 0, place |-> 0]
  /\ \A k \in 1..TsPkt : x[j + k] = [packet |-> p, place |-> k]

LEMMA PartIsSo ==
  ASSUME NEW s, NEW p \in Nat, NEW j \in Nat
  PROVE  PartIs(Junk(j) \o PacketBytes(s, p), j, p)
<1>1. PICK a \in Seq(TsBytes) : a = Junk(j) BY JunkIs
<1>2. Len(a) = j /\ \A i \in 1..j : a[i] = [packet |-> 0, place |-> 0] BY <1>1, JunkIs
<1>3. PICK b \in Seq(TsBytes) : b = PacketBytes(s, p) BY PacketBytesAre
<1>4. Len(b) = TsPkt /\ \A i \in 1..TsPkt : b[i] = [packet |-> p, place |-> i]
  BY <1>3, PacketBytesAre
<1>5. /\ a \o b \in Seq(TsBytes) /\ Len(a \o b) = Len(a) + Len(b)
      /\ \A k \in 1..Len(a) : (a \o b)[k] = a[k]
      /\ \A k \in 1..Len(b) : (a \o b)[Len(a) + k] = b[k]
  BY Concat
<1>6. PICK x : x = a \o b OBVIOUS
<1>7. PartIs(x, j, p) BY <1>2, <1>4, <1>5, <1>6 DEF PartIs
<1>8. QED BY <1>1, <1>3, <1>6, <1>7

LEMMA SegmentLaid ==
  ASSUME NEW s, NEW n \in Nat, n = Len(s), NEW junk \in [1..n -> TsJunk]
  PROVE  \E at : Laid(SegmentBytes(s, junk), at, n)
<1>1. PICK t \in Nat : t = TsPkt BY TsAssumption DEF TsAssumption
<1> DEFINE parts == [p \in 1..n |-> Junk(junk[p]) \o PacketBytes(s, p)]
<1>2. ASSUME NEW p \in 1..n PROVE junk[p] \in Nat /\ PartIs(parts[p], junk[p], p)
  <2>1. PICK j \in Nat : j = junk[p] BY TsAssumption DEF TsAssumption
  <2>2. p \in Nat OBVIOUS
  <2>3. PartIs(Junk(j) \o PacketBytes(s, p), j, p) BY <2>2, PartIsSo
  <2>4. QED BY <2>1, <2>3
<1>3. parts \in [1..n -> Seq(TsBytes)]
  <2>1. \A p \in 1..n : parts[p] \in Seq(TsBytes)
    <3> HIDE DEF parts
    <3>1. QED BY <1>2 DEF PartIs
  <2>2. QED BY <2>1
<1>4. SegmentBytes(s, junk) = FlattenSeq(parts) BY Zenon DEF SegmentBytes
<1> HIDE DEF parts
<1>5. FlattenSeq(parts) \in Seq(TsBytes) /\ \E at : Layout(FlattenSeq(parts), parts, n, at)
  BY <1>3, FlattenLayout
<1>6. PICK whole \in Seq(TsBytes) : whole = FlattenSeq(parts) BY <1>5
<1>7. PICK at : Layout(whole, parts, n, at) BY <1>5, <1>6
<1>8. /\ at \in [0..n -> Nat] /\ at[0] = 0 /\ Len(whole) = at[n]
      /\ \A i \in 1..n : at[i] = at[i - 1] + Len(parts[i])
      /\ \A i \in 1..n : \A k \in 1..Len(parts[i]) : whole[at[i - 1] + k] = parts[i][k]
  BY <1>7 DEF Layout
<1>9. \A i \in 0..n : \A j \in i..n : at[i] <= at[j]
  <2>1. \A i \in 1..n : Len(parts[i]) \in Nat BY <1>3
  <2>2. QED BY <1>7, <2>1, LayoutGrows
<1>10. ASSUME NEW p \in 1..n
       PROVE  /\ at[p - 1] + TsPkt <= at[p]
              /\ \A k \in 1..TsPkt :
                   whole[(at[p] - TsPkt) + k] = [packet |-> p, place |-> k]
              /\ \A k \in 1..((at[p] - at[p - 1]) - TsPkt) :
                   whole[at[p - 1] + k] = [packet |-> 0, place |-> 0]
  <2>1. PICK j \in Nat : j = junk[p] BY <1>2
  <2>2. PICK x : x = parts[p] /\ PartIs(x, j, p) BY <1>2, <2>1
  <2>3. /\ x \in Seq(TsBytes) /\ Len(x) = j + t
        /\ \A k \in 1..j : x[k] = [packet |-> 0, place |-> 0]
        /\ \A k \in 1..t : x[j + k] = [packet |-> p, place |-> k]
    BY <1>1, <2>2 DEF PartIs
  <2>4. PICK a \in Nat : a = at[p - 1]
    <3>1. p - 1 \in 0..n OBVIOUS
    <3>2. QED BY <1>8, <3>1
  <2>5. at[p] = a + (j + t) BY <1>8, <2>2, <2>3, <2>4
  <2>6. \A k \in 1..(j + t) : whole[a + k] = x[k] BY <1>8, <2>2, <2>3, <2>4
  <2>7. ASSUME NEW k \in 1..t PROVE whole[(at[p] - t) + k] = [packet |-> p, place |-> k]
    <3>1. (at[p] - t) + k = a + (j + k) /\ j + k \in 1..(j + t) BY <2>5
    <3>2. QED BY <2>3, <2>6, <3>1
  <2>8. ASSUME NEW k \in 1..((at[p] - a) - t)
        PROVE  whole[a + k] = [packet |-> 0, place |-> 0]
    <3>1. k \in 1..j /\ k \in 1..(j + t) BY <2>5
    <3>2. QED BY <2>3, <2>6, <3>1
  <2>9. a + t <= at[p] BY <2>5
  <2>10. QED BY <1>1, <2>4, <2>7, <2>8, <2>9
<1>11. Laid(whole, at, n) BY <1>8, <1>9, <1>10 DEF Laid
<1>12. QED BY <1>4, <1>6, <1>11

(* Which packets are complete when q bytes have been received.             *)
Received(whole, q) == SubSeq(whole, q + 1, Len(whole))

LEMMA LaidCovers ==
  ASSUME NEW n \in Nat, NEW whole, NEW at, Laid(whole, at, n), NEW q \in 1..Len(whole),
         whole[q].packet # 0
  PROVE  whole[q].packet \in 1..n /\ q <= at[whole[q].packet]
<1>1. PICK t \in Nat : t = TsPkt BY TsAssumption DEF TsAssumption
<1>2. /\ whole \in Seq(TsBytes) /\ at \in [0..n -> Nat] /\ at[0] = 0 /\ Len(whole) = at[n]
      /\ \A p \in 1..n : at[p - 1] + t <= at[p]
      /\ \A p \in 1..n : \A k \in 1..t :
           whole[(at[p] - t) + k] = [packet |-> p, place |-> k]
      /\ \A p \in 1..n : \A k \in 1..((at[p] - at[p - 1]) - t) :
           whole[at[p - 1] + k] = [packet |-> 0, place |-> 0]
  BY <1>1 DEF Laid
<1> DEFINE U == {i \in 1..n : q <= at[i]}
<1>3. U \in SUBSET (1..n) /\ U # {}
  <2>1. n # 0 BY <1>2
  <2>2. n \in U BY <1>2, <2>1
  <2>3. QED BY <2>2
<1> HIDE DEF U
<1>4. PICK p \in U : \A j \in U : p <= j BY <1>3, FirstIn
<1>5. p \in 1..n /\ q <= at[p] BY <1>4 DEF U
<1>6. PICK b \in Nat : b = at[p] BY <1>2, <1>5
<1>7. PICK a \in Nat : a = at[p - 1] BY <1>2, <1>5
<1>8. a < q
  <2>1. CASE p = 1 BY <1>2, <1>7, <2>1
  <2>2. CASE p # 1
    <3>1. p - 1 \in 1..n /\ p - 1 \notin U BY <1>4, <1>5, <2>2
    <3>2. ~(q <= at[p - 1]) BY <3>1 DEF U
    <3>3. QED BY <1>7, <3>2
  <2>3. QED BY <2>1, <2>2
<1>9. q \in Nat OBVIOUS
<1>10. CASE q <= b - t
  <2>1. PICK k \in Nat : k = q - a /\ k \in 1..((b - a) - t) /\ a + k = q
    BY <1>8, <1>9, <1>10
  <2>2. whole[a + k] = [packet |-> 0, place |-> 0] BY <1>2, <1>5, <1>6, <1>7, <2>1
  <2>3. whole[q].packet = 0 BY <2>1, <2>2
  <2>4. QED BY <2>3
<1>11. CASE q > b - t
  <2>1. PICK k \in Nat : k = q - (b - t) /\ k \in 1..t /\ (b - t) + k = q
    BY <1>5, <1>6, <1>9, <1>11
  <2>2. whole[(b - t) + k] = [packet |-> p, place |-> k] BY <1>2, <1>5, <1>6, <2>1
  <2>3. whole[q].packet = p BY <2>1, <2>2
  <2>4. QED BY <1>5, <2>3
<1>12. QED BY <1>9, <1>10, <1>11

Between(at, n, m, q) == m \in 0..n /\ at[m] <= q /\ (m < n => q < at[m + 1])

LEMMA CompleteAre ==
  ASSUME NEW n \in Nat, NEW whole, NEW at, Laid(whole, at, n), NEW q \in 0..Len(whole),
         NEW m, Between(at, n, m, q), NEW p \in 1..n
  PROVE  (\A i \in DOMAIN Received(whole, q) : Received(whole, q)[i].packet # p) <=> p <= m
<1>1. m \in 0..n /\ at[m] <= q /\ (m < n => q < at[m + 1]) BY DEF Between
<1>2. PICK t \in Nat \ {0} : t = TsPkt BY TsAssumption DEF TsAssumption
<1>3. /\ whole \in Seq(TsBytes) /\ at \in [0..n -> Nat] /\ Len(whole) = at[n]
      /\ \A i \in 0..n : \A j \in i..n : at[i] <= at[j]
      /\ \A k \in 1..t : whole[(at[p] - t) + k] = [packet |-> p, place |-> k]
      /\ at[p - 1] + t <= at[p]
  BY <1>2 DEF Laid
<1>4. PICK z \in Nat : z = Len(whole) /\ z = at[n] /\ q \in 0..z BY <1>3
<1>5. PICK l \in Nat : l = z - q /\ q + l = z BY <1>4
<1>6. PICK r : r = Received(whole, q) OBVIOUS
<1>7. Len(r) = l /\ DOMAIN r = 1..l /\ \A i \in 1..l : r[i] = whole[q + i]
  <2>1. r = SubSeq(whole, q + 1, q + l) BY <1>5, <1>6, <1>4 DEF Received
  <2>2. q \in Nat /\ q + l <= Len(whole) BY <1>5, <1>4
  <2>3. PICK w \in Seq(TsBytes) : w = whole BY <1>3
  <2>4. PICK x \in Nat : x = q BY <2>2
  <2>5. x + l <= Len(w) /\ r = SubSeq(w, x + 1, x + l) BY <2>1, <2>2, <2>3, <2>4
  <2>6. IsPart(r, w, x, l) BY <2>5, PartSays
  <2>7. QED BY <2>3, <2>4, <2>6, Zenon DEF IsPart
<1>8. ASSUME p <= m, NEW i \in 1..l, r[i].packet = p PROVE FALSE
  <2>1. PICK j \in 1..Len(whole) : j = q + i
    <3>1. q + i \in 1..z BY <1>5, <1>4
    <3>2. QED BY <1>4, <3>1
  <2>2. whole[j].packet = p /\ p # 0 BY <1>7, <1>8, <2>1
  <2>3. j <= at[p] BY <2>2, LaidCovers
  <2>4. at[p] <= at[m]
    <3>1. p \in 0..n /\ m \in p..n BY <1>8, <1>1
    <3>2. QED BY <1>3, <3>1
  <2>5. at[p] \in Nat /\ at[m] \in Nat BY <1>3, <1>1
  <2>6. QED BY <1>1, <2>1, <2>3, <2>4, <2>5
<1>9. ASSUME ~(p <= m) PROVE \E i \in 1..l : r[i].packet = p
  <2>1. m < n /\ m + 1 \in 0..n /\ p \in (m + 1)..n BY <1>9, <1>1
  <2>2. at[m + 1] <= at[p] /\ q < at[m + 1] BY <1>3, <1>1, <2>1
  <2>3. at[p] \in Nat /\ at[m + 1] \in Nat BY <1>3, <2>1
  <2>4. at[p] <= at[n]
    <3>1. p \in 0..n /\ n \in p..n OBVIOUS
    <3>2. QED BY <1>3, <3>1
  <2>5. PICK i \in 1..l : q + i = at[p]
    <3>1. PICK y \in Nat : y = at[p] /\ q < y /\ y <= z BY <1>4, <2>2, <2>3, <2>4
    <3>2. y - q \in 1..l /\ q + (y - q) = y BY <1>5, <1>4, <3>1
    <3>3. QED BY <3>1, <3>2
  <2>6. whole[(at[p] - t) + t] = [packet |-> p, place |-> t]
    <3>1. t \in 1..t OBVIOUS
    <3>2. QED BY <1>3, <3>1
  <2>7. (at[p] - t) + t = at[p] BY <2>3
  <2>8. r[i].packet = p BY <1>7, <2>5, <2>6, <2>7
  <2>9. QED BY <2>8
<1>10. QED BY <1>6, <1>7, <1>8, <1>9

(* Where the demultiplexer is in a segment when x of its bytes have come:  *)
(* behind packet m, with o bytes of the next; the sink has had `base`.     *)
TsPlace(c, base, at, x, m, o) ==
  /\ m \in 0..Len(segment) /\ o \in 0..(TsPkt - 1)
  /\ c \in TsStates /\ KnowsAt(c, m + 1) /\ base \o c.out = Heard(m)
  /\ Len(c.pkt) = o /\ \A i \in 1..o : c.pkt[i] = [packet |-> m + 1, place |-> i]
  /\ o = 0 => at[m] <= x /\ IF m = Len(segment) THEN x = at[m] ELSE x + TsPkt <= at[m + 1]
  /\ o # 0 => m # Len(segment) /\ x = (at[m + 1] - TsPkt) + o
TsPlaces(base, at, x) == {c \in TsStates : \E m, o : TsPlace(c, base, at, x, m, o)}

(* The packet it is in, or before.                                         *)
LEMMA PlaceIs ==
  ASSUME segment \in Seq(TsPackets), NEW n \in Nat, n = Len(segment), NEW t \in Nat, t = TsPkt,
         NEW whole, NEW at, Laid(whole, at, n), NEW x \in Nat, x < Len(whole),
         NEW c, NEW base, NEW m, NEW o, TsPlace(c, base, at, x, m, o)
  PROVE  /\ m \in Nat /\ o \in Nat /\ m + 1 \in 1..n /\ o < t
         /\ at[m] \in Nat /\ at[m + 1] \in Nat /\ at[m] + t <= at[m + 1]
         /\ \A k \in 1..t : whole[(at[m + 1] - t) + k] = [packet |-> m + 1, place |-> k]
         /\ \A k \in 1..((at[m + 1] - at[m]) - t) :
              whole[at[m] + k] = [packet |-> 0, place |-> 0]
         /\ IF o = 0 THEN at[m] <= x /\ x + t <= at[m + 1] ELSE x = (at[m + 1] - t) + o
<1>1. /\ at \in [0..n -> Nat] /\ Len(whole) = at[n]
      /\ \A p \in 1..n : at[p - 1] + t <= at[p]
      /\ \A p \in 1..n : \A k \in 1..t :
           whole[(at[p] - t) + k] = [packet |-> p, place |-> k]
      /\ \A p \in 1..n : \A k \in 1..((at[p] - at[p - 1]) - t) :
           whole[at[p - 1] + k] = [packet |-> 0, place |-> 0]
  BY DEF Laid
<1>2. /\ m \in 0..n /\ o \in 0..(t - 1)
      /\ o = 0 => at[m] <= x /\ IF m = n THEN x = at[m] ELSE x + t <= at[m + 1]
      /\ o # 0 => m # n /\ x = (at[m + 1] - t) + o
  BY DEF TsPlace
<1>3. m # n
  <2>1. ASSUME m = n PROVE FALSE
    <3>1. x = at[n] BY <1>2, <2>1
    <3>2. at[n] \in Nat BY <1>1
    <3>3. QED BY <1>1, <3>1, <3>2
  <2>2. QED BY <2>1
<1>4. PICK p \in 1..n : p = m + 1 /\ p - 1 = m BY <1>2, <1>3
<1>5. at[p - 1] \in Nat /\ at[p] \in Nat
  <2>1. p - 1 \in 0..n /\ p \in 0..n OBVIOUS
  <2>2. QED BY <1>1, <2>1
<1>6. m \in Nat /\ o \in Nat /\ m + 1 \in 1..n /\ o < t BY <1>2, <1>4
<1>7. at[m] \in Nat /\ at[m + 1] \in Nat BY <1>4, <1>5
<1>8. at[m] + t <= at[m + 1] BY <1>1, <1>4
<1>9. \A k \in 1..t : whole[(at[m + 1] - t) + k] = [packet |-> m + 1, place |-> k]
  <2>1. \A k \in 1..t : whole[(at[p] - t) + k] = [packet |-> p, place |-> k] BY <1>1
  <2>2. QED BY <1>4, <2>1
<1>10. \A k \in 1..((at[m + 1] - at[m]) - t) : whole[at[m] + k] = [packet |-> 0, place |-> 0]
  <2>1. \A k \in 1..((at[p] - at[p - 1]) - t) :
          whole[at[p - 1] + k] = [packet |-> 0, place |-> 0]
    BY <1>1
  <2>2. QED BY <1>4, <2>1
<1>11. IF o = 0 THEN at[m] <= x /\ x + t <= at[m + 1] ELSE x = (at[m + 1] - t) + o
  BY <1>2, <1>3
<1>12. QED BY <1>6, <1>7, <1>8, <1>9, <1>10, <1>11

LEMMA JunkSkipped ==
  ASSUME segment \in Seq(TsPackets), NEW whole, NEW at, Laid(whole, at, Len(segment)),
         NEW x \in Nat, x < Len(whole), NEW c, NEW base, NEW m,
         TsPlace(c, base, at, x, m, 0), x + TsPkt # at[m + 1]
  PROVE  TsPlace(TsByte(c, whole[x + 1]), base, at, x + 1, m, 0)
<1>1. PICK t \in Nat : t = TsPkt BY TsAssumption DEF TsAssumption
<1>2. PICK n \in Nat : n = Len(segment) OBVIOUS
<1>3. PICK o \in Nat : o = 0 OBVIOUS
<1>4. TsPlace(c, base, at, x, m, o) BY <1>3
<1>5. /\ m \in Nat /\ m + 1 \in 1..n
      /\ at[m] \in Nat /\ at[m + 1] \in Nat
      /\ \A k \in 1..((at[m + 1] - at[m]) - t) :
           whole[at[m] + k] = [packet |-> 0, place |-> 0]
      /\ IF o = 0 THEN at[m] <= x /\ x + t <= at[m + 1] ELSE x = (at[m + 1] - t) + o
  BY <1>1, <1>2, <1>4, PlaceIs
<1>6. PICK a \in Nat : a = at[m] BY <1>5
<1>7. PICK b \in Nat : b = at[m + 1] BY <1>5
<1>8. a <= x /\ x + t <= b /\ x + t # b BY <1>1, <1>3, <1>5, <1>6, <1>7
<1>9. x + 1 + t <= b /\ a <= x + 1 BY <1>8
<1>10. whole[x + 1].place = 0
  <2>1. PICK k \in Nat : k = (x + 1) - a /\ a + k = x + 1 BY <1>8
  <2>2. k \in 1..((b - a) - t) BY <1>8, <2>1
  <2>3. whole[a + k] = [packet |-> 0, place |-> 0] BY <1>5, <1>6, <1>7, <2>2
  <2>4. QED BY <2>1, <2>3
<1>11. c.pkt = <<>>
  <2>1. c \in TsStates /\ Len(c.pkt) = 0 BY DEF TsPlace
  <2>2. PICK s \in Seq(TsBytes) : s = c.pkt BY <2>1 DEF TsStates
  <2>3. QED BY <2>1, <2>2
<1>12. TsByte(c, whole[x + 1]) = c BY <1>10, <1>11 DEF TsByte
<1>13. m # n BY <1>5
<1>14. TsPlace(c, base, at, x + 1, m, 0)
  <2>1. /\ m \in 0..Len(segment) /\ 0 \in 0..(TsPkt - 1)
        /\ c \in TsStates /\ KnowsAt(c, m + 1) /\ base \o c.out = Heard(m)
        /\ Len(c.pkt) = 0 /\ \A i \in 1..0 : c.pkt[i] = [packet |-> m + 1, place |-> i]
    BY DEF TsPlace
  <2>2. at[m] <= x + 1 /\ IF m = Len(segment) THEN x + 1 = at[m] ELSE x + 1 + TsPkt <= at[m + 1]
    BY <1>1, <1>2, <1>6, <1>7, <1>9, <1>13
  <2>3. QED BY <2>1, <2>2 DEF TsPlace
<1>15. QED BY <1>12, <1>14

(* The next byte of a packet, its first one with it.                       *)
Begun(at, x, m, o) == o # 0 \/ x + TsPkt = at[m + 1]
IsNext(whole, at, x, m, o) ==
  /\ whole[x + 1] = [packet |-> m + 1, place |-> o + 1]
  /\ x + 1 = (at[m + 1] - TsPkt) + (o + 1) /\ at[m + 1] \in Nat
  /\ m + 1 \in 1..Len(segment) /\ o \in Nat /\ o < TsPkt

LEMMA NextOfPacket ==
  ASSUME segment \in Seq(TsPackets), NEW whole, NEW at, Laid(whole, at, Len(segment)),
         NEW x \in Nat, x < Len(whole), NEW c, NEW base, NEW m, NEW o,
         TsPlace(c, base, at, x, m, o), Begun(at, x, m, o)
  PROVE  IsNext(whole, at, x, m, o)
<1>1. PICK t \in Nat : t = TsPkt BY TsAssumption DEF TsAssumption
<1>2. PICK n \in Nat : n = Len(segment) OBVIOUS
<1>3. /\ m \in Nat /\ o \in Nat /\ m + 1 \in 1..n /\ o < t
      /\ at[m + 1] \in Nat
      /\ \A k \in 1..t : whole[(at[m + 1] - t) + k] = [packet |-> m + 1, place |-> k]
      /\ IF o = 0 THEN at[m] <= x /\ x + t <= at[m + 1] ELSE x = (at[m + 1] - t) + o
  BY <1>1, <1>2, PlaceIs
<1>4. PICK b \in Nat : b = at[m + 1] BY <1>3
<1>5. x = (b - t) + o BY <1>1, <1>3, <1>4 DEF Begun
<1>6. x + 1 = (b - t) + (o + 1) BY <1>3, <1>5
<1>7. o + 1 \in 1..t BY <1>3
<1>8. whole[(b - t) + (o + 1)] = [packet |-> m + 1, place |-> o + 1] BY <1>3, <1>4, <1>7
<1>9. QED BY <1>1, <1>2, <1>3, <1>4, <1>6, <1>8 DEF IsNext

LEMMA PacketGrows ==
  ASSUME segment \in Seq(TsPackets), NEW whole, NEW at, Laid(whole, at, Len(segment)),
         NEW x \in Nat, x < Len(whole), NEW c, NEW base, NEW m, NEW o,
         TsPlace(c, base, at, x, m, o), Begun(at, x, m, o), o + 1 < TsPkt
  PROVE  TsPlace(TsByte(c, whole[x + 1]), base, at, x + 1, m, o + 1)
<1>1. IsNext(whole, at, x, m, o) BY NextOfPacket
<1>2. PICK b : b = whole[x + 1] /\ b = [packet |-> m + 1, place |-> o + 1]
  BY <1>1 DEF IsNext
<1>3. /\ x + 1 = (at[m + 1] - TsPkt) + (o + 1) /\ m + 1 \in 1..Len(segment) /\ o \in Nat
  BY <1>1 DEF IsNext
<1>4. /\ m \in 0..Len(segment) /\ c \in TsStates /\ KnowsAt(c, m + 1)
      /\ base \o c.out = Heard(m)
      /\ Len(c.pkt) = o /\ \A i \in 1..o : c.pkt[i] = [packet |-> m + 1, place |-> i]
  BY DEF TsPlace
<1>5. PICK t \in Nat : t = TsPkt BY TsAssumption DEF TsAssumption
<1>6. b \in TsBytes
  <2>1. m + 1 \in Nat /\ o + 1 \in Nat BY <1>3
  <2>2. QED BY <1>2, <2>1 DEF TsBytes
<1>7. PICK s \in Seq(TsBytes) : s = c.pkt BY <1>4 DEF TsStates
<1>8. PICK r \in Seq(TsBytes) : r = Append(s, b)
  <2>1. Append(s, b) \in Seq(TsBytes) BY <1>6, AppendProperties
  <2>2. QED BY <2>1
<1>9. Len(r) = o + 1 /\ \A i \in 1..(o + 1) : r[i] = [packet |-> m + 1, place |-> i]
  <2>1. Len(s) = o /\ \A i \in 1..o : s[i] = [packet |-> m + 1, place |-> i] BY <1>4, <1>7
  <2>2. Len(r) = o + 1 /\ r[o + 1] = b /\ \A i \in 1..o : r[i] = s[i]
    BY <1>3, <1>6, <1>8, <2>1
  <2>3. \A i \in 1..(o + 1) : i \in 1..o \/ i = o + 1 BY <1>3
  <2>4. QED BY <1>2, <2>1, <2>2, <2>3
<1>10. PICK d : d = [c EXCEPT !.pkt = r] OBVIOUS
<1>11. TsByte(c, b) = d
  <2>1. ~(c.pkt = <<>> /\ b.place # 1)
    <3>1. ASSUME c.pkt = <<>> PROVE o = 0 BY <1>4, <3>1
    <3>2. b.place = o + 1 BY <1>2
    <3>3. QED BY <3>1, <3>2
  <2>2. Len(c.pkt) + 1 < TsPkt BY <1>4
  <2>3. QED BY <1>4, <1>7, <1>8, <1>10, <2>1, <2>2 DEF TsByte, TsStates
<1>12. d \in TsStates /\ d.pkt = r /\ d.out = c.out /\ d.pmt = c.pmt /\ d.audio = c.audio
       /\ d.skip = c.skip
  BY <1>4, <1>10 DEF TsStates
<1>13. KnowsAt(d, m + 1) BY <1>4, <1>12 DEF KnowsAt
<1>14. o + 1 \in 0..(TsPkt - 1) /\ o + 1 # 0 BY <1>3, <1>5
<1>15. m # Len(segment) BY <1>3, <1>4
<1>16. TsPlace(d, base, at, x + 1, m, o + 1)
  BY <1>3, <1>4, <1>9, <1>12, <1>13, <1>14, <1>15, Zenon DEF TsPlace
<1>17. QED BY <1>2, <1>11, <1>16

Associate(a, b, d) == a \o (b \o d) = (a \o b) \o d

LEMMA BytesAssociate ==
  ASSUME NEW a \in Seq(TsBytes), NEW b \in Seq(TsBytes), NEW d \in Seq(TsBytes)
  PROVE  Associate(a, b, d)
  BY DEF Associate

LEMMA PacketEnds ==
  ASSUME segment \in Seq(TsPackets), NEW whole, NEW at, Laid(whole, at, Len(segment)),
         NEW x \in Nat, x < Len(whole), NEW c, NEW base \in Seq(TsBytes), NEW m, NEW o,
         TsPlace(c, base, at, x, m, o), Begun(at, x, m, o), ~(o + 1 < TsPkt)
  PROVE  TsPlace(TsByte(c, whole[x + 1]), base, at, x + 1, m + 1, 0)
<1>1. IsNext(whole, at, x, m, o) BY NextOfPacket
<1>2. PICK b : b = whole[x + 1] /\ b = [packet |-> m + 1, place |-> o + 1]
  BY <1>1 DEF IsNext
<1>3. /\ x + 1 = (at[m + 1] - TsPkt) + (o + 1) /\ m + 1 \in 1..Len(segment) /\ o \in Nat
      /\ at[m + 1] \in Nat /\ o < TsPkt
  BY <1>1 DEF IsNext
<1>4. /\ m \in 0..Len(segment) /\ c \in TsStates /\ KnowsAt(c, m + 1)
      /\ base \o c.out = Heard(m)
      /\ Len(c.pkt) = o /\ \A i \in 1..o : c.pkt[i] = [packet |-> m + 1, place |-> i]
  BY DEF TsPlace
<1>5. PICK t \in Nat \ {0, 1} : t = TsPkt BY TsAssumption DEF TsAssumption
<1>6. PICK p \in 1..Len(segment) : p = m + 1 /\ p - 1 = m BY <1>3, <1>4
<1>7. o + 1 = t BY <1>3, <1>5
<1>8. b \in TsBytes
  <2>1. p \in Nat /\ o + 1 \in Nat BY <1>3
  <2>2. QED BY <1>2, <1>6, <2>1 DEF TsBytes
<1>9. PICK s \in Seq(TsBytes) : s = c.pkt BY <1>4 DEF TsStates
<1>10. Append(s, b) = PacketBytes(segment, p)
  <2>1. PICK w \in Seq(TsBytes) : w = PacketBytes(segment, p)
    <3>1. p \in Nat OBVIOUS
    <3>2. QED BY <3>1, PacketBytesAre
  <2>2. Len(w) = t /\ \A i \in 1..t : w[i] = [packet |-> p, place |-> i]
    <3>1. p \in Nat OBVIOUS
    <3>2. QED BY <1>5, <2>1, <3>1, PacketBytesAre
  <2>3. PICK r \in Seq(TsBytes) : r = Append(s, b)
    <3>1. Append(s, b) \in Seq(TsBytes) BY <1>8, AppendProperties
    <3>2. QED BY <3>1
  <2>4. Len(s) = o /\ \A i \in 1..o : s[i] = [packet |-> p, place |-> i] BY <1>4, <1>6, <1>9
  <2>5. Len(r) = o + 1 /\ r[o + 1] = b /\ \A i \in 1..o : r[i] = s[i]
    BY <1>3, <1>8, <2>3, <2>4
  <2>6. \A i \in 1..t : i \in 1..o \/ i = o + 1 BY <1>3, <1>7
  <2>7. \A i \in 1..t : r[i] = w[i]
    <3> SUFFICES ASSUME NEW i \in 1..t PROVE r[i] = w[i] OBVIOUS
    <3>1. w[i] = [packet |-> p, place |-> i] BY <2>2
    <3>2. CASE i \in 1..o BY <2>4, <2>5, <3>1, <3>2
    <3>3. CASE i = o + 1
      <4>1. r[i] = b BY <2>5, <3>3
      <4>2. b = [packet |-> p, place |-> i] BY <1>2, <1>6, <3>3
      <4>3. QED BY <3>1, <4>1, <4>2
    <3>4. QED BY <2>6, <3>2, <3>3
  <2>8. Len(r) = t BY <1>7, <2>5
  <2>9. r = w BY <2>2, <2>7, <2>8
  <2>10. QED BY <2>1, <2>3, <2>9
<1>11. PICK e : e = [c EXCEPT !.pkt = <<>>] OBVIOUS
<1>12. e \in TsStates /\ e.pkt = <<>> /\ e.out = c.out /\ KnowsAt(e, p)
  <2>1. <<>> \in Seq(TsBytes) BY EmptySeq
  <2>2. e \in TsStates /\ e.pkt = <<>> /\ e.out = c.out /\ e.pmt = c.pmt /\ e.audio = c.audio
        /\ e.skip = c.skip
    BY <1>4, <1>11, <2>1 DEF TsStates
  <2>3. QED BY <1>4, <1>6, <2>2 DEF KnowsAt
<1>13. PICK d : d = TsPacket(e, PacketBytes(segment, p)) OBVIOUS
<1>14. TsByte(c, b) = d
  <2>1. ~(c.pkt = <<>> /\ b.place # 1)
    <3>1. ASSUME c.pkt = <<>> PROVE o = 0 BY <1>4, <3>1
    <3>2. b.place = o + 1 BY <1>2
    <3>3. QED BY <3>1, <3>2
  <2>2. ~(Len(c.pkt) + 1 < TsPkt) BY <1>4
  <2>3. TsByte(c, b) = TsPacket(e, Append(c.pkt, b)) BY <1>11, <2>1, <2>2, Zenon DEF TsByte
  <2>4. QED BY <1>9, <1>10, <1>13, <2>3
<1>15. PacketDone(d, e, p) BY <1>12, <1>13, PacketGoes
<1>16. d \in TsStates /\ d.pkt = <<>> /\ KnowsAt(d, p + 1) /\ d.out = c.out \o AudioOf(p)
  BY <1>12, <1>15 DEF PacketDone
<1>17. base \o d.out = Heard(p)
  <2>1. Heard(p) = Heard(m) \o AudioOf(p) BY <1>6, HeardNext
  <2>2. PICK u \in Seq(TsBytes) : u = AudioOf(p) BY AudioTyped
  <2>3. PICK v \in Seq(TsBytes) : v = c.out BY <1>4 DEF TsStates
  <2>4. Associate(base, v, u) BY BytesAssociate
  <2>5. base \o (v \o u) = (base \o v) \o u BY <2>4 DEF Associate
  <2>6. QED BY <1>4, <1>16, <2>1, <2>2, <2>3, <2>5
<1>18. x + 1 = at[p]
  <2>1. PICK y \in Nat : y = at[p] BY <1>3, <1>6
  <2>2. x + 1 = (y - t) + t BY <1>3, <1>5, <1>6, <1>7, <2>1
  <2>3. QED BY <2>1, <2>2
<1>19. p # Len(segment) => at[p] + TsPkt <= at[p + 1]
  <2>1. PICK n \in Nat : n = Len(segment) OBVIOUS
  <2>2. \A q \in 1..n : at[q - 1] + TsPkt <= at[q] BY <2>1 DEF Laid
  <2>3. p # n => p + 1 \in 1..n /\ (p + 1) - 1 = p BY <2>1
  <2>4. QED BY <2>1, <2>2, <2>3
<1>20. TsPlace(d, base, at, x + 1, p, 0)
  <2>1. p \in 0..Len(segment) /\ 0 \in 0..(TsPkt - 1) BY <1>5
  <2>2. Len(d.pkt) = 0 /\ \A i \in 1..0 : d.pkt[i] = [packet |-> p + 1, place |-> i]
    BY <1>16
  <2>3. at[p] <= x + 1 /\ IF p = Len(segment) THEN x + 1 = at[p] ELSE x + 1 + TsPkt <= at[p + 1]
    BY <1>18, <1>19
  <2>4. QED BY <1>16, <1>17, <2>1, <2>2, <2>3 DEF TsPlace
<1>21. QED BY <1>2, <1>6, <1>14, <1>20

LEMMA TsByteIs ==
  ASSUME segment \in Seq(TsPackets), NEW whole, NEW at, Laid(whole, at, Len(segment)),
         NEW x \in Nat, x < Len(whole), NEW base \in Seq(TsBytes), NEW c \in TsPlaces(base, at, x)
  PROVE  TsByte(c, whole[x + 1]) \in TsPlaces(base, at, x + 1)
<1>1. PICK m, o : TsPlace(c, base, at, x, m, o) BY DEF TsPlaces
<1>2. PICK d : d = TsByte(c, whole[x + 1]) OBVIOUS
<1>3. \E l, k : TsPlace(d, base, at, x + 1, l, k)
  <2>1. CASE Begun(at, x, m, o)
    <3>1. CASE o + 1 < TsPkt BY <1>1, <1>2, <2>1, <3>1, PacketGrows
    <3>2. CASE ~(o + 1 < TsPkt) BY <1>1, <1>2, <2>1, <3>2, PacketEnds
    <3>3. QED BY <3>1, <3>2
  <2>2. CASE ~Begun(at, x, m, o)
    <3>1. TsPlace(c, base, at, x, m, 0) /\ x + TsPkt # at[m + 1] BY <1>1, <2>2 DEF Begun
    <3>2. QED BY <1>2, <3>1, JunkSkipped
  <2>3. QED BY <2>1, <2>2
<1>4. d \in TsStates BY <1>3 DEF TsPlace
<1>5. QED BY <1>2, <1>3, <1>4 DEF TsPlaces

(* What holds behind every byte holds when all have been fed.              *)
TsFedIs(at, c, s, n) ==
  at = [k \in 0..n |-> IF k = 0 THEN c ELSE TsByte(at[k - 1], s[k])]

LEMMA TsFedExists ==
  ASSUME NEW n \in Nat, NEW s, NEW c PROVE \E at : TsFedIs(at, c, s, n)
<1> DEFINE T == {m \in Nat : \E u : TsFedIs(u, c, s, m)}
<1>1. 0 \in T
  <2>1. TsFedIs([k \in 0..0 |-> c], c, s, 0) BY DEF TsFedIs
  <2>2. QED BY <2>1
<1>2. ASSUME NEW m \in Nat, m \in T PROVE m + 1 \in T
  <2>1. PICK u : TsFedIs(u, c, s, m) BY <1>2
  <2> DEFINE next == TsByte(u[m], s[m + 1])
             g == [k \in 0..(m + 1) |-> IF k = m + 1 THEN next ELSE u[k]]
             h == [k \in 0..(m + 1) |-> IF k = 0 THEN c ELSE TsByte(g[k - 1], s[k])]
  <2>2. ASSUME NEW k \in 0..(m + 1) PROVE g[k] = h[k]
    <3>1. CASE k = m + 1
      <4>1. k # 0 /\ k - 1 = m /\ m \in 0..(m + 1) /\ m # m + 1 BY <3>1
      <4>2. g[m] = u[m] /\ g[k] = TsByte(u[m], s[m + 1]) BY <3>1, <4>1
      <4>3. h[k] = TsByte(g[k - 1], s[k]) BY <4>1
      <4> HIDE DEF g, h
      <4>4. QED BY <3>1, <4>1, <4>2, <4>3
    <3>2. CASE k # m + 1
      <4>1. k \in 0..m BY <3>2
      <4>2. u[k] = IF k = 0 THEN c ELSE TsByte(u[k - 1], s[k]) BY <2>1, <4>1 DEF TsFedIs
      <4>3. k # 0 => k - 1 \in 0..(m + 1) /\ k - 1 # m + 1 BY <4>1
      <4>4. k # 0 => g[k - 1] = u[k - 1] BY <4>3
      <4>5. g[k] = u[k] BY <3>2
      <4>6. h[k] = IF k = 0 THEN c ELSE TsByte(g[k - 1], s[k]) OBVIOUS
      <4> HIDE DEF g, h
      <4>7. QED BY <4>2, <4>4, <4>5, <4>6
    <3>3. QED BY <3>1, <3>2
  <2>3. g = h
    <3>1. g = [k \in 0..(m + 1) |-> g[k]] /\ h = [k \in 0..(m + 1) |-> h[k]] OBVIOUS
    <3> HIDE DEF g, h
    <3>2. QED BY <2>2, <3>1
  <2>4. TsFedIs(g, c, s, m + 1) BY <2>3 DEF TsFedIs
  <2> HIDE DEF g
  <2>5. QED BY <2>4
<1> HIDE DEF T
<1>3. n \in T BY <1>1, <1>2, AllOf
<1>4. QED BY <1>3 DEF T

LEMMA TsFedHolds ==
  ASSUME NEW n \in Nat, NEW s, Len(s) = n, NEW c, NEW good, c \in good[0],
         \A k \in 1..n : \A d \in good[k - 1] : TsByte(d, s[k]) \in good[k]
  PROVE  TsFed(c, s) \in good[n]
<1> DEFINE at == CHOOSE u : u = [k \in 0..Len(s) |->
                                    IF k = 0 THEN c ELSE TsByte(u[k - 1], s[k])]
<1>1. TsFedIs(at, c, s, n)
  <2>1. \E u : u = [k \in 0..Len(s) |-> IF k = 0 THEN c ELSE TsByte(u[k - 1], s[k])]
    <3>1. PICK u : TsFedIs(u, c, s, n) BY TsFedExists
    <3>2. u = [k \in 0..Len(s) |-> IF k = 0 THEN c ELSE TsByte(u[k - 1], s[k])]
      BY <3>1, Zenon DEF TsFedIs
    <3>3. QED BY <3>2
  <2>2. at = [k \in 0..Len(s) |-> IF k = 0 THEN c ELSE TsByte(at[k - 1], s[k])] BY <2>1
  <2> HIDE DEF at
  <2>3. QED BY <2>2, Zenon DEF TsFedIs
<1>2. TsFed(c, s) = at[n] BY DEF TsFed
<1> HIDE DEF at
<1>3. \A k \in 0..n : at[k] = IF k = 0 THEN c ELSE TsByte(at[k - 1], s[k])
  BY <1>1 DEF TsFedIs
<1> DEFINE T == {m \in Nat : m <= n => at[m] \in good[m]}
<1>4. 0 \in T
  <2>1. at[0] = c BY <1>3
  <2>2. QED BY <2>1
<1>5. ASSUME NEW m \in Nat, m \in T PROVE m + 1 \in T
  <2> SUFFICES ASSUME m + 1 <= n PROVE at[m + 1] \in good[m + 1] OBVIOUS
  <2>1. PICK k \in 1..n : k = m + 1 /\ k - 1 = m /\ k # 0 /\ k \in 0..n OBVIOUS
  <2>2. at[k] = TsByte(at[k - 1], s[k]) BY <1>3, <2>1
  <2>3. at[k - 1] \in good[k - 1] BY <1>5, <2>1
  <2>4. QED BY <2>1, <2>2, <2>3
<1> HIDE DEF T
<1>6. n \in T BY <1>4, <1>5, AllOf
<1>7. QED BY <1>2, <1>6 DEF T

LEMMA TsFedPlaces ==
  ASSUME segment \in Seq(TsPackets), NEW whole, NEW at, Laid(whole, at, Len(segment)),
         NEW base \in Seq(TsBytes), NEW q \in Nat, NEW n \in Nat, q + n <= Len(whole),
         NEW c \in TsPlaces(base, at, q), NEW s, Len(s) = n, \A k \in 1..n : s[k] = whole[q + k]
  PROVE  TsFed(c, s) \in TsPlaces(base, at, q + n)
<1>1. PICK z \in Nat : z = Len(whole)
  <2>1. PICK w \in Seq(TsBytes) : w = whole BY DEF Laid
  <2>2. QED BY <2>1
<1> DEFINE good == [k \in 0..n |-> TsPlaces(base, at, q + k)]
<1>2. c \in good[0]
  <2>1. q + 0 = q /\ 0 \in 0..n OBVIOUS
  <2>2. QED BY <2>1
<1>3. ASSUME NEW k \in 1..n, NEW d \in good[k - 1] PROVE TsByte(d, s[k]) \in good[k]
  <2>1. PICK x \in Nat : x = q + (k - 1) /\ x + 1 = q + k /\ x < z
    <3>1. PICK v \in Nat : v = k - 1 /\ v + 1 = k /\ v < n OBVIOUS
    <3>2. q + v \in Nat /\ (q + v) + 1 = q + k /\ q + v < z BY <1>1, <3>1
    <3>3. QED BY <3>1, <3>2
  <2>2. k - 1 \in 0..n /\ k \in 0..n OBVIOUS
  <2>3. d \in TsPlaces(base, at, x) BY <1>3, <2>1, <2>2
  <2>4. s[k] = whole[x + 1] BY <2>1
  <2>5. TsByte(d, whole[x + 1]) \in TsPlaces(base, at, x + 1) BY <1>1, <2>1, <2>3, TsByteIs
  <2>6. QED BY <2>1, <2>2, <2>4, <2>5
<1>4. good[n] = TsPlaces(base, at, q + n) OBVIOUS
<1> HIDE DEF good
<1>5. TsFed(c, s) \in good[n] BY <1>2, <1>3, TsFedHolds
<1>6. QED BY <1>4, <1>5

(* What has been received and what is still to come. *)
TakenOf(S, r, whole, q, n, z) ==
  /\ r \in Seq(S) /\ Len(r) = z - q
  /\ n <= z - q => /\ Len(SubSeq(r, 1, n)) = n
                   /\ \A k \in 1..n : SubSeq(r, 1, n)[k] = whole[q + k]
                   /\ SubSeq(r, n + 1, Len(r)) = Received(whole, q + n)

LEMMA ReceivedPart ==
  ASSUME NEW S, NEW whole \in Seq(S), NEW q \in Nat, NEW n \in Nat, NEW z \in Nat, z = Len(whole),
         NEW r, r = Received(whole, q), q <= z
  PROVE  TakenOf(S, r, whole, q, n, z)
<1>1. z - q \in Nat /\ q + (z - q) = z OBVIOUS
<1>2. PICK l \in Nat : l = z - q /\ q + l = z BY <1>1
<1>3. r = SubSeq(whole, q + 1, q + l) BY <1>2 DEF Received
<1>4. r \in Seq(S) /\ Len(r) = l /\ \A i \in 1..l : r[i] = whole[q + i]
  <2>1. q + l <= Len(whole) BY <1>2
  <2>2. r \in Seq(S) /\ IsPart(r, whole, q, l) BY <1>3, <2>1, PartSays
  <2>3. QED BY <2>2 DEF IsPart
<1>5. ASSUME n <= l
      PROVE  /\ Len(SubSeq(r, 1, n)) = n
             /\ \A k \in 1..n : SubSeq(r, 1, n)[k] = whole[q + k]
             /\ SubSeq(r, n + 1, Len(r)) = Received(whole, q + n)
  <2>1. PICK s \in Seq(S) : s = r BY <1>4
  <2>2. Len(SubSeq(s, 1, n)) = n /\ \A k \in 1..n : SubSeq(s, 1, n)[k] = s[k]
    BY <1>4, <1>5, <2>1
  <2>3. l - n \in Nat /\ n + (l - n) = l BY <1>5
  <2>4. PICK m \in Nat : m = l - n /\ n + m = l BY <2>3
  <2>5. (q + n) + m = z
    <3>1. q + (n + m) = z BY <1>2, <2>4
    <3>2. q + (n + m) = (q + n) + m OBVIOUS
    <3>3. QED BY <3>1, <3>2
  <2>6. PICK x \in Seq(S) : x = SubSeq(s, n + 1, n + m)
    <3>1. n + m <= Len(s) BY <1>4, <2>1, <2>4
    <3>2. SubSeq(s, n + 1, n + m) \in Seq(S) BY <3>1, PartOf
    <3>3. QED BY <3>2
  <2>7. Len(x) = m /\ \A i \in 1..m : x[i] = s[n + i]
    <3>1. n + m <= Len(s) BY <1>4, <2>1, <2>4
    <3>2. IsPart(x, s, n, m) BY <2>6, <3>1, PartSays
    <3>3. QED BY <3>2 DEF IsPart
  <2>8. PICK p \in Nat : p = q + n /\ p + m = z BY <2>5
  <2>9. PICK y \in Seq(S) : y = SubSeq(whole, p + 1, p + m)
    <3>1. p + m <= Len(whole) BY <2>8
    <3>2. SubSeq(whole, p + 1, p + m) \in Seq(S) BY <3>1, PartOf
    <3>3. QED BY <3>2
  <2>10. Len(y) = m /\ \A i \in 1..m : y[i] = whole[p + i]
    <3>1. p + m <= Len(whole) BY <2>8
    <3>2. IsPart(y, whole, p, m) BY <2>9, <3>1, PartSays
    <3>3. QED BY <3>2 DEF IsPart
  <2>11. \A i \in 1..m : x[i] = y[i]
    <3> SUFFICES ASSUME NEW i \in 1..m PROVE x[i] = y[i] OBVIOUS
    <3>1. n + i \in 1..l /\ q + (n + i) = p + i BY <2>4, <2>8
    <3>2. QED BY <1>4, <2>1, <2>7, <2>10, <3>1
  <2>12. x = y BY <2>7, <2>10, <2>11
  <2>13. x = SubSeq(r, n + 1, Len(r)) BY <1>4, <2>1, <2>4, <2>6
  <2>14. y = Received(whole, q + n) BY <2>8, <2>9 DEF Received
  <2>15. \A k \in 1..n : k \in 1..l BY <1>5
  <2>16. QED BY <1>4, <2>1, <2>2, <2>12, <2>13, <2>14, <2>15
<1>6. QED BY <1>2, <1>4, <1>5 DEF TakenOf

(* Full batches go to the sink, and less than one stays.                   *)
LEMMA Batch ==
  ASSUME NEW l \in Nat, NEW t \in Nat \ {0}
  PROVE  /\ (l \div t) * t \in 0..l /\ l - (l \div t) * t < t
<1>1. l \div t \in Nat /\ l % t \in Nat /\ l % t < t OBVIOUS
<1>2. l = ((l \div t) * t) + (l % t) OBVIOUS
<1>3. (l \div t) * t \in Nat BY <1>1, TimesNat
<1>4. PICK k \in Nat : k = (l \div t) * t BY <1>3
<1>5. QED BY <1>1, <1>2, <1>4

LEMMA SplitAt ==
  ASSUME NEW s \in Seq(TsBytes), NEW l \in Nat, l = Len(s), NEW n \in 0..l
  PROVE  SubSeq(s, 1, n) \o SubSeq(s, n + 1, l) = s
<1>1. l - n \in Nat /\ n + (l - n) = l OBVIOUS
<1>2. PICK k \in Nat : k = l - n /\ n + k = l BY <1>1
<1>3. PICK a \in Seq(TsBytes) : a = SubSeq(s, 1, n) /\ Len(a) = n /\ \A i \in 1..n : a[i] = s[i]
  <2>1. SubSeq(s, 1, n) \in Seq(TsBytes) /\ Len(SubSeq(s, 1, n)) = n
        /\ \A i \in 1..n : SubSeq(s, 1, n)[i] = s[i]
    OBVIOUS
  <2>2. QED BY <2>1
<1>4. PICK b \in Seq(TsBytes) :
        b = SubSeq(s, n + 1, l) /\ Len(b) = k /\ \A i \in 1..k : b[i] = s[n + i]
  <2>1. n \in Nat /\ n + k <= Len(s) BY <1>2
  <2>2. /\ SubSeq(s, n + 1, n + k) \in Seq(TsBytes) /\ Len(SubSeq(s, n + 1, n + k)) = k
        /\ \A i \in 1..k : SubSeq(s, n + 1, n + k)[i] = s[n + i]
    BY <2>1, PartOf
  <2>3. QED BY <1>2, <2>2
<1>5. /\ a \o b \in Seq(TsBytes) /\ Len(a \o b) = Len(a) + Len(b)
      /\ \A i \in 1..Len(a) : (a \o b)[i] = a[i]
      /\ \A i \in 1..Len(b) : (a \o b)[Len(a) + i] = b[i]
  BY Concat
<1>6. PICK x \in Seq(TsBytes) : x = a \o b BY <1>5
<1>7. Len(x) = l BY <1>2, <1>3, <1>4, <1>5, <1>6
<1>8. \A i \in 1..l : x[i] = s[i]
  <2> SUFFICES ASSUME NEW i \in 1..l PROVE x[i] = s[i] OBVIOUS
  <2>1. CASE i <= n
    <3>1. i \in 1..n BY <2>1
    <3>2. QED BY <1>3, <1>5, <1>6, <3>1
  <2>2. CASE i > n
    <3>1. PICK j \in 1..k : i = n + j
      <4>1. i - n \in 1..k /\ i = n + (i - n) BY <1>2, <2>2
      <4>2. QED BY <4>1
    <3>2. QED BY <1>3, <1>4, <1>5, <1>6, <3>1
  <2>3. QED BY <2>1, <2>2
<1>9. x = s BY <1>7, <1>8
<1>10. QED BY <1>3, <1>4, <1>6, <1>9

LEMMA BatchesAre ==
  ASSUME NEW c \in TsStates, NEW base \in Seq(TsBytes), sunk = base, Batches(c)
  PROVE  /\ sunk' \in Seq(TsBytes) /\ demux' \in TsStates /\ sunk' \o demux'.out = base \o c.out
         /\ demux'.pkt = c.pkt /\ demux'.pmt = c.pmt /\ demux'.audio = c.audio
         /\ demux'.skip = c.skip /\ Len(demux'.out) < TsOut
<1>1. PICK s \in Seq(TsBytes) : s = c.out BY DEF TsStates
<1>2. PICK l \in Nat : l = Len(s) OBVIOUS
<1>3. PICK t \in Nat \ {0} : t = TsOut BY TsAssumption DEF TsAssumption
<1>4. PICK n \in 0..l : n = (l \div t) * t /\ l - n < t BY Batch
<1>5. /\ sunk' = base \o SubSeq(s, 1, n)
      /\ demux' = [c EXCEPT !.out = SubSeq(s, n + 1, l)]
  BY <1>1, <1>2, <1>3, <1>4 DEF Batches
<1>6. PICK a \in Seq(TsBytes) : a = SubSeq(s, 1, n)
  <2>1. SubSeq(s, 1, n) \in Seq(TsBytes) BY <1>2
  <2>2. QED BY <2>1
<1>7. PICK b \in Seq(TsBytes) : b = SubSeq(s, n + 1, l)
  <2>1. SubSeq(s, n + 1, l) \in Seq(TsBytes) BY <1>2
  <2>2. QED BY <2>1
<1>8. a \o b = s BY <1>2, <1>6, <1>7, SplitAt
<1>9. Len(b) = l - n BY <1>2, <1>7
<1>10. PICK x \in Seq(TsBytes) : x = base \o a
  <2>1. base \o a \in Seq(TsBytes) BY ConcatProperties
  <2>2. QED BY <2>1
<1>11. base \o (a \o b) = (base \o a) \o b
  <2>1. Associate(base, a, b) BY BytesAssociate
  <2>2. QED BY <2>1 DEF Associate
<1>12. demux' = [c EXCEPT !.out = b] BY <1>5, <1>7
<1>13. /\ demux' \in TsStates /\ demux'.out = b /\ demux'.pkt = c.pkt /\ demux'.pmt = c.pmt
       /\ demux'.audio = c.audio /\ demux'.skip = c.skip
  BY <1>12 DEF TsStates
<1>14. sunk' = x BY <1>5, <1>6, <1>10
<1>15. sunk' \o demux'.out = base \o c.out BY <1>1, <1>8, <1>10, <1>11, <1>13, <1>14
<1>16. Len(demux'.out) < TsOut BY <1>3, <1>4, <1>9, <1>13
<1>17. QED BY <1>13, <1>14, <1>15, <1>16

(* A segment, and what is known when it is begun, do not change while it   *)
(* is received: nor does what it holds.                                    *)
SameSegment == segment' = segment /\ known' = known

LEMMA SameHeader ==
  ASSUME SameSegment, NEW a, NEW p PROVE HeaderRest(a, p)' = HeaderRest(a, p)
<1>1. segment' = segment BY DEF SameSegment
<1>2. PayloadFrom(a)' = PayloadFrom(a) BY <1>1, Zenon DEF PayloadFrom
<1>3. QED BY <1>1, <1>2, Zenon DEF HeaderRest

LEMMA SameTables ==
  ASSUME SameSegment, NEW p
  PROVE  /\ PmtAt(p)' <=> PmtAt(p)
         /\ KnownAt(p)' <=> KnownAt(p)
         /\ PesStarts(p)' = PesStarts(p) /\ PesStart(p)' = PesStart(p)
<1>1. segment' = segment /\ known' = known BY DEF SameSegment
<1>2. ASSUME NEW q, NEW kind PROVE Begins(q, kind)' <=> Begins(q, kind)
  BY <1>1, Zenon DEF Begins
<1>3. ASSUME NEW q PROVE PmtAt(q)' <=> PmtAt(q) BY <1>1, <1>2 DEF PmtAt
<1>4. ASSUME NEW q PROVE KnownAt(q)' <=> KnownAt(q) BY <1>1, <1>2 DEF KnownAt
<1>5. PesStarts(p)' = PesStarts(p) BY <1>2, <1>4 DEF PesStarts
<1>6. PesStart(p)' = PesStart(p) BY <1>5, Zenon DEF PesStart
<1>7. QED BY <1>3, <1>4, <1>5, <1>6

LEMMA SameAudio ==
  ASSUME SameSegment, NEW p
  PROVE  SkipAfter(p)' = SkipAfter(p) /\ AudioOf(p)' = AudioOf(p)
<1>1. segment' = segment BY DEF SameSegment
<1>2. PesStarts(p)' = PesStarts(p) /\ PesStart(p)' = PesStart(p) /\ (KnownAt(p)' <=> KnownAt(p))
  BY SameTables
<1>3. SkipAfter(p)' = SkipAfter(p)
  <2>1. HeaderRest(PesStart(p), p)' = HeaderRest(PesStart(p), p)
    BY <1>2, SameHeader
  <2>2. QED BY <1>1, <1>2, <2>1, Zenon DEF SkipAfter
<1>4. Silent(p)' = Silent(p)
  <2>1. HeaderRest(PesStart(p), p - 1)' = HeaderRest(PesStart(p), p - 1)
    BY <1>2, SameHeader
  <2>2. QED BY <1>1, <1>2, <2>1, Zenon DEF Silent
<1>5. AudioOf(p)' = AudioOf(p) BY <1>1, <1>2, <1>4, Zenon DEF AudioOf, PacketBytes
<1>6. QED BY <1>3, <1>5

LEMMA SamePlace ==
  ASSUME SameSegment, NEW c, NEW d, NEW base, NEW next, NEW at, NEW x, NEW m, NEW o,
         TsPlace(c, base, at, x, m, o), d \in TsStates, next \o d.out = base \o c.out,
         d.pkt = c.pkt, d.pmt = c.pmt, d.audio = c.audio, d.skip = c.skip
  PROVE  TsPlace(d, next, at, x, m, o)'
<1>1. segment' = segment BY DEF SameSegment
<1>2. KnowsAt(d, m + 1)'
  <2>1. KnowsAt(c, m + 1) BY DEF TsPlace
  <2>2. (PmtAt(m + 1)' <=> PmtAt(m + 1)) /\ (KnownAt(m + 1)' <=> KnownAt(m + 1))
    BY SameTables
  <2>3. SkipAfter((m + 1) - 1)' = SkipAfter((m + 1) - 1) BY SameAudio
  <2>4. QED BY <2>1, <2>2, <2>3, Zenon DEF KnowsAt
<1>3. Heard(m)' = Heard(m)
  <2>1. \A i \in 1..Len(segment) : AudioOf(i)' = AudioOf(i) BY SameAudio
  <2>2. UpTo(m)' = UpTo(m) BY <1>1, <2>1 DEF UpTo
  <2>3. QED BY <2>2, Zenon DEF Heard
<1>4. base \o c.out = Heard(m) BY DEF TsPlace
<1>5. QED BY <1>1, <1>2, <1>3, <1>4 DEF TsPlace

-----------------------------------------------------------------------------
(* The invariant: while a segment is fetched the demultiplexer is in one   *)
(* of its places, and when none is it has given everything away.           *)
TsTypes ==
  /\ segment \in Seq(TsPackets) /\ bytes \in Seq(TsBytes) /\ sunk \in Seq(TsBytes)
  /\ demux \in TsStates /\ Len(demux.pkt) < TsPkt /\ Len(demux.out) < TsOut
  /\ fetched \in 0..TsBound /\ fetching \in BOOLEAN
TsAtByte(whole, at, q) ==
  /\ Laid(whole, at, Len(segment)) /\ q \in 0..Len(whole) /\ bytes = Received(whole, q)
  /\ \E m, o : TsPlace(demux, sunk, at, q, m, o)
TsReaches == fetching => \E whole, at, q : TsAtByte(whole, at, q)
TsRests ==
  ~fetching => demux.pkt = <<>> /\ demux.skip = 0 /\ demux.out = <<>> /\ TsAudio
TsInv == TsTypes /\ TsReaches /\ TsRests

LEMMA TsHears ==
  ASSUME TsTypes, NEW whole, NEW at, NEW q, TsAtByte(whole, at, q) PROVE TsAudio
<1>1. PICK m, o : TsPlace(demux, sunk, at, q, m, o) BY DEF TsAtByte
<1>2. PICK n \in Nat : n = Len(segment) BY DEF TsTypes
<1>3. PICK t \in Nat \ {0} : t = TsPkt BY TsAssumption DEF TsAssumption
<1>4. Laid(whole, at, n) /\ q \in 0..Len(whole) /\ bytes = Received(whole, q)
  BY <1>2 DEF TsAtByte
<1>5. /\ m \in 0..n /\ o \in 0..(t - 1) /\ sunk \o demux.out = Heard(m)
      /\ o = 0 => at[m] <= q /\ IF m = n THEN q = at[m] ELSE q + t <= at[m + 1]
      /\ o # 0 => m # n /\ q = (at[m + 1] - t) + o
  BY <1>1, <1>2, <1>3 DEF TsPlace
<1>6. /\ at \in [0..n -> Nat] /\ \A p \in 1..n : at[p - 1] + t <= at[p]
      /\ whole \in Seq(TsBytes)
  BY <1>3, <1>4 DEF Laid
<1>7. at[m] <= q /\ (m < n => q < at[m + 1])
  <2>1. PICK a \in Nat : a = at[m] BY <1>5, <1>6
  <2>2. PICK x \in Nat : x = q
    <3>1. Len(whole) \in Nat BY <1>6
    <3>2. QED BY <1>4, <3>1
  <2>3. CASE m = n
    <3>1. o = 0 BY <1>5, <2>3
    <3>2. q = a BY <1>5, <2>1, <2>3, <3>1
    <3>3. QED BY <2>1, <2>3, <3>2
  <2>4. CASE m # n
    <3>1. PICK p \in 1..n : p = m + 1 /\ p - 1 = m BY <1>5, <2>4
    <3>2. PICK b \in Nat : b = at[m + 1]
      <4>1. p \in 0..n OBVIOUS
      <4>2. QED BY <1>6, <3>1, <4>1
    <3>3. a + t <= b BY <1>6, <2>1, <3>1, <3>2
    <3>4. CASE o = 0
      <4>1. a <= x /\ x + t <= b BY <1>5, <2>1, <2>2, <2>4, <3>2, <3>4
      <4>2. QED BY <2>1, <2>2, <3>2, <4>1
    <3>5. CASE o # 0
      <4>1. x = (b - t) + o BY <1>5, <2>2, <3>2, <3>5
      <4>2. a <= x /\ x < b BY <1>5, <3>3, <4>1
      <4>3. QED BY <2>1, <2>2, <3>2, <4>2
    <3>6. QED BY <3>4, <3>5
  <2>5. QED BY <2>3, <2>4
<1>8. ASSUME NEW p \in 1..n PROVE p \in Complete <=> p \in 1..m
  <2>1. (\A i \in DOMAIN Received(whole, q) : Received(whole, q)[i].packet # p) <=> p <= m
    <3>1. Between(at, n, m, q) BY <1>5, <1>7 DEF Between
    <3>2. QED BY <1>4, <3>1, CompleteAre
  <2>2. p \in Complete <=> \A i \in DOMAIN bytes : bytes[i].packet # p
    BY <1>2 DEF Complete
  <2>3. p \in 1..m <=> p <= m BY <1>5
  <2>4. QED BY <1>4, <2>1, <2>2, <2>3
<1>9. [p \in 1..Len(segment) |-> IF p \in Complete THEN AudioOf(p) ELSE <<>>] = UpTo(m)
  BY <1>2, <1>8 DEF UpTo
<1>10. QED BY <1>5, <1>9, Zenon DEF TsAudio, Heard

LEMMA TsBegins == TsInit => TsInv
<1> SUFFICES ASSUME TsInit PROVE TsInv OBVIOUS
<1>1. /\ segment = <<>> /\ bytes = <<>> /\ sunk = <<>> /\ fetched = 0 /\ fetching = FALSE
      /\ demux = [pkt |-> <<>>, pmt |-> FALSE, audio |-> FALSE, skip |-> 0, out |-> <<>>]
  BY DEF TsInit
<1>2. TsBound \in Nat /\ TsPkt \in Nat \ {0} /\ TsOut \in Nat \ {0}
  BY TsAssumption DEF TsAssumption
<1>3. <<>> \in Seq(TsBytes) /\ <<>> \in Seq(TsPackets) /\ Len(<<>>) = 0 BY EmptySeq
<1>4. demux \in TsStates /\ demux.pkt = <<>> /\ demux.out = <<>> /\ demux.skip = 0
  BY <1>1, <1>3 DEF TsStates
<1>5. TsTypes
  <2>1. Len(demux.pkt) < TsPkt /\ Len(demux.out) < TsOut BY <1>2, <1>3, <1>4
  <2>2. PICK b \in Nat : b = TsBound BY <1>2
  <2>3. 0 \in 0..b OBVIOUS
  <2>4. fetched \in 0..TsBound /\ fetching \in BOOLEAN BY <1>1, <2>2, <2>3
  <2>5. segment \in Seq(TsPackets) /\ bytes \in Seq(TsBytes) /\ sunk \in Seq(TsBytes)
    BY <1>1, <1>3
  <2>6. QED BY <1>4, <2>1, <2>4, <2>5 DEF TsTypes
<1>6. TsAudio
  <2> DEFINE parts == [p \in 1..Len(segment) |-> IF p \in Complete THEN AudioOf(p) ELSE <<>>]
  <2>1. PICK n \in Nat : n = 0 /\ n = Len(segment) BY <1>1, <1>3
  <2>2. parts = [i \in 1..n |-> <<>>] BY <2>1
  <2>3. FlattenSeq(parts) = <<>>
    <3> HIDE DEF parts
    <3>1. QED BY <2>2, NothingFlat
  <2>4. sunk \o demux.out = <<>>
    <3>1. <<>> \o <<>> = <<>> BY <1>3, ConcatEmptySeq
    <3>2. QED BY <1>1, <1>4, <3>1
  <2>5. QED BY <2>3, <2>4, Zenon DEF TsAudio
<1>7. QED BY <1>1, <1>4, <1>5, <1>6 DEF TsInv, TsReaches, TsRests

LEMMA TsFetches ==
  ASSUME TsInv, TsFetch PROVE TsInv'
<1>1. TsTypes /\ TsRests BY DEF TsInv
<1>2. /\ ~fetching /\ fetched < TsBound /\ fetching' = TRUE /\ fetched' = fetched + 1
      /\ sunk' = <<>> /\ known' = [pmt |-> demux.pmt, audio |-> demux.audio] /\ demux' = demux
  BY DEF TsFetch
<1>3. PICK s \in TsSegments :
        segment' = s /\ \E junk \in [1..Len(s) -> TsJunk] : bytes' = SegmentBytes(s, junk)
  BY DEF TsFetch
<1>4. s \in Seq(TsPackets) BY TsAssumption DEF TsAssumption
<1>5. PICK n \in Nat : n = Len(s) BY <1>4
<1>6. PICK junk \in [1..n -> TsJunk] : bytes' = SegmentBytes(s, junk) BY <1>3, <1>5
<1>7. PICK at : Laid(bytes', at, n) BY <1>5, <1>6, SegmentLaid
<1>8. PICK whole \in Seq(TsBytes) : whole = bytes' BY <1>7 DEF Laid
<1>9. Laid(whole, at, n) BY <1>7, <1>8
<1>10. PICK z \in Nat : z = Len(whole) OBVIOUS
<1>11. bytes' = Received(whole, 0)
  <2>1. SubSeq(whole, 0 + 1, z) = whole BY <1>10
  <2>2. QED BY <1>8, <1>10, <2>1 DEF Received
<1>12. <<>> \in Seq(TsBytes) /\ Len(<<>>) = 0 BY EmptySeq
<1>13. /\ demux \in TsStates /\ demux.pkt = <<>> /\ demux.skip = 0 /\ demux.out = <<>>
       /\ Len(demux.out) < TsOut /\ fetched \in 0..TsBound /\ Len(demux.pkt) < TsPkt
  BY <1>1, <1>2 DEF TsTypes, TsRests
<1>14. TsTypes'
  <2>1. TsBound \in Nat BY TsAssumption DEF TsAssumption
  <2>2. fetched + 1 \in 0..TsBound BY <1>2, <1>13, <2>1
  <2>3. QED BY <1>2, <1>3, <1>4, <1>8, <1>12, <1>13, <2>2 DEF TsTypes
<1>15. TsPlace(demux, sunk, at, 0, 0, 0)'
  <2>1. /\ 0 \in 0..n /\ 0 \in 0..(TsPkt - 1) BY TsAssumption DEF TsAssumption
  <2>2. KnowsAt(demux, 0 + 1)'
    <3>1. 0 + 1 = 1 /\ 1..(1 - 1) = {} /\ (0 + 1) - 1 = 0 /\ 1..0 = {} OBVIOUS
    <3>2. known'.pmt = demux.pmt /\ known'.audio = demux.audio BY <1>2
    <3>3. PmtAt(1)' <=> demux.pmt BY <3>1, <3>2 DEF PmtAt
    <3>4. KnownAt(1)' <=> demux.audio BY <3>1, <3>2 DEF KnownAt
    <3>5. SkipAfter(0)' = 0 BY <3>1 DEF SkipAfter, PesStarts
    <3>6. QED BY <1>2, <1>13, <3>1, <3>3, <3>4, <3>5 DEF KnowsAt
  <2>3. Heard(0)' = <<>>
    <3>1. 1..0 = {} OBVIOUS
    <3>2. UpTo(0)' = [i \in 1..n |-> <<>>] BY <1>3, <1>5, <3>1 DEF UpTo
    <3>3. FlattenSeq(UpTo(0)') = <<>> BY <3>2, NothingFlat
    <3>4. QED BY <3>3, Zenon DEF Heard
  <2>4. <<>> \o <<>> = <<>> BY <1>12, ConcatEmptySeq
  <2>5. sunk' \o demux'.out = Heard(0)' BY <1>2, <1>13, <2>3, <2>4
  <2>6. Len(demux'.pkt) = 0 /\ \A i \in 1..0 : demux'.pkt[i] = [packet |-> 0 + 1, place |-> i]
    BY <1>2, <1>12, <1>13
  <2>7. at[0] <= 0 /\ IF 0 = n THEN 0 = at[0] ELSE 0 + TsPkt <= at[0 + 1]
    <3>1. at[0] = 0 /\ \A p \in 1..n : at[p - 1] + TsPkt <= at[p] BY <1>9 DEF Laid
    <3>2. n # 0 => at[0] + TsPkt <= at[1]
      <4>1. n # 0 => 1 \in 1..n /\ 1 - 1 = 0 OBVIOUS
      <4>2. QED BY <3>1, <4>1
    <3>3. QED BY <3>1, <3>2
  <2>8. QED BY <1>2, <1>3, <1>5, <1>13, <2>1, <2>2, <2>5, <2>6, <2>7 DEF TsPlace
<1>16. TsAtByte(whole, at, 0)'
  <2>1. 0 \in 0..Len(whole) BY <1>10
  <2>2. QED BY <1>3, <1>5, <1>9, <1>11, <1>15, <2>1 DEF TsAtByte
<1>17. QED BY <1>2, <1>14, <1>16 DEF TsInv, TsReaches, TsRests

LEMMA TsFeeds ==
  ASSUME TsInv, TsFeed PROVE TsInv'
<1>1. TsTypes /\ fetching /\ \E whole, at, q : TsAtByte(whole, at, q)
  BY DEF TsInv, TsReaches, TsFeed
<1>2. SameSegment /\ segment' = segment /\ fetched' = fetched /\ fetching' = fetching
  BY DEF TsFeed, SameSegment
<1>3. PICK n \in 1..TsReceive :
        /\ n <= Len(bytes) /\ Batches(TsFed(demux, SubSeq(bytes, 1, n)))
        /\ bytes' = SubSeq(bytes, n + 1, Len(bytes))
  BY DEF TsFeed
<1>4. PICK whole, at, q : TsAtByte(whole, at, q) BY <1>1
<1>5. Laid(whole, at, Len(segment)) /\ q \in 0..Len(whole) /\ bytes = Received(whole, q)
  BY <1>4 DEF TsAtByte
<1>6. PICK w \in Seq(TsBytes) : w = whole BY <1>5 DEF Laid
<1>7. PICK z \in Nat : z = Len(w) OBVIOUS
<1>8. PICK x \in 0..z : x = q BY <1>5, <1>6, <1>7
<1>9. n \in Nat BY TsAssumption DEF TsAssumption
<1>10. bytes = Received(w, x) /\ x <= z /\ x \in Nat BY <1>5, <1>6, <1>8
<1>11. /\ bytes \in Seq(TsBytes) /\ Len(bytes) = z - x
       /\ n <= z - x => /\ Len(SubSeq(bytes, 1, n)) = n
                        /\ \A k \in 1..n : SubSeq(bytes, 1, n)[k] = w[x + k]
                        /\ SubSeq(bytes, n + 1, Len(bytes)) = Received(w, x + n)
  <2>1. PICK r : r = bytes /\ r = Received(w, x) BY <1>10
  <2>2. z = Len(w) /\ x <= z /\ x \in Nat BY <1>7
  <2>3. PICK y \in Nat : y = n BY <1>9
  <2>4. TakenOf(TsBytes, r, w, x, y, z) BY <2>1, <2>2, ReceivedPart
  <2>5. QED BY <2>1, <2>3, <2>4 DEF TakenOf
<1>12. n <= z - x BY <1>3, <1>11
<1>13. PICK s : s = SubSeq(bytes, 1, n) /\ Len(s) = n /\ \A k \in 1..n : s[k] = w[x + k]
  BY <1>11, <1>12
<1>14. bytes' = Received(w, x + n) BY <1>3, <1>11, <1>12
<1>15. x + n <= Len(w) /\ x + n \in 0..Len(w) BY <1>7, <1>9, <1>12
<1>16. segment \in Seq(TsPackets) /\ sunk \in Seq(TsBytes) /\ demux \in TsStates
  BY <1>1 DEF TsTypes
<1>17. PICK base \in Seq(TsBytes) : base = sunk BY <1>16
<1>18. PICK c : c = TsFed(demux, s) OBVIOUS
<1>19. c \in TsPlaces(base, at, x + n)
  <2>1. demux \in TsPlaces(base, at, x) BY <1>4, <1>8, <1>16, <1>17 DEF TsAtByte, TsPlaces
  <2>2. Laid(w, at, Len(segment)) BY <1>5, <1>6
  <2>3. QED BY <1>9, <1>10, <1>13, <1>15, <1>16, <1>18, <2>1, <2>2, TsFedPlaces
<1>20. PICK m, o : c \in TsStates /\ TsPlace(c, base, at, x + n, m, o) BY <1>19 DEF TsPlaces
<1>21. Batches(c) BY <1>3, <1>13, <1>18
<1>22. /\ sunk' \in Seq(TsBytes) /\ demux' \in TsStates /\ sunk' \o demux'.out = base \o c.out
       /\ demux'.pkt = c.pkt /\ demux'.pmt = c.pmt /\ demux'.audio = c.audio
       /\ demux'.skip = c.skip /\ Len(demux'.out) < TsOut
  BY <1>17, <1>20, <1>21, BatchesAre
<1>23. PICK d, next : d = demux' /\ next = sunk' OBVIOUS
<1>24. TsPlace(d, next, at, x + n, m, o)'
  <2>1. /\ d \in TsStates /\ next \o d.out = base \o c.out /\ d.pkt = c.pkt /\ d.pmt = c.pmt
        /\ d.audio = c.audio /\ d.skip = c.skip
    BY <1>22, <1>23
  <2>2. TsPlace(c, base, at, x + n, m, o) BY <1>20
  <2>3. SameSegment BY <1>2
  <2>4. QED BY <2>1, <2>2, <2>3, SamePlace
<1>25. TsPlace(demux, sunk, at, x + n, m, o)' BY <1>23, <1>24, Zenon DEF TsPlace, KnowsAt
<1>26. TsTypes'
  <2>1. PICK p \in Seq(TsBytes) : p = c.pkt BY <1>20 DEF TsStates
  <2>2. Len(demux'.pkt) < TsPkt
    <3>1. PICK t \in Nat \ {0} : t = TsPkt BY TsAssumption DEF TsAssumption
    <3>2. o \in 0..(t - 1) /\ Len(p) = o BY <1>20, <2>1, <3>1 DEF TsPlace
    <3>3. QED BY <1>22, <2>1, <3>1, <3>2
  <2>3. bytes' \in Seq(TsBytes)
    <3>1. x + n \in Nat /\ x + n <= z BY <1>7, <1>9, <1>15
    <3>2. PICK r, y : y = x + n /\ r = Received(w, y) OBVIOUS
    <3>3. TakenOf(TsBytes, r, w, y, 0, z) BY <1>7, <3>1, <3>2, ReceivedPart
    <3>4. QED BY <1>14, <3>2, <3>3 DEF TakenOf
  <2>4. QED BY <1>1, <1>2, <1>22, <2>2, <2>3 DEF TsTypes
<1>27. TsAtByte(w, at, x + n)'
  BY <1>2, <1>5, <1>6, <1>14, <1>15, <1>25 DEF TsAtByte
<1>28. QED BY <1>1, <1>2, <1>26, <1>27 DEF TsInv, TsReaches, TsRests

LEMMA TsEnds ==
  ASSUME TsInv, TsSegmentEnd PROVE TsInv'
<1>1. TsTypes /\ fetching /\ \E whole, at, q : TsAtByte(whole, at, q)
  BY DEF TsInv, TsReaches, TsSegmentEnd
<1>2. TsAudio BY <1>1, TsHears
<1>3. /\ fetching' = FALSE /\ sunk' = sunk \o demux.out
      /\ demux' = [demux EXCEPT !.pkt = <<>>, !.skip = 0, !.out = <<>>]
      /\ segment' = segment /\ bytes' = bytes /\ fetched' = fetched /\ known' = known
  BY DEF TsSegmentEnd
<1>4. <<>> \in Seq(TsBytes) /\ Len(<<>>) = 0 BY EmptySeq
<1>5. /\ segment \in Seq(TsPackets) /\ bytes \in Seq(TsBytes) /\ sunk \in Seq(TsBytes)
      /\ demux \in TsStates /\ fetched \in 0..TsBound
  BY <1>1 DEF TsTypes
<1>6. demux' \in TsStates /\ demux'.pkt = <<>> /\ demux'.skip = 0 /\ demux'.out = <<>>
  BY <1>3, <1>4, <1>5 DEF TsStates
<1>7. PICK u \in Seq(TsBytes) : u = demux.out BY <1>5 DEF TsStates
<1>8. PICK v \in Seq(TsBytes) : v = sunk BY <1>5
<1>9. PICK x \in Seq(TsBytes) : x = v \o u
  <2>1. v \o u \in Seq(TsBytes) BY ConcatProperties
  <2>2. QED BY <2>1
<1>10. sunk' = x /\ x = sunk \o demux.out BY <1>3, <1>7, <1>8, <1>9
<1>11. sunk' \o demux'.out = sunk \o demux.out
  <2>1. x \o <<>> = x BY ConcatEmptySeq
  <2>2. QED BY <1>6, <1>10, <2>1
<1>12. TsAudio'
  <2>1. SameSegment BY <1>3 DEF SameSegment
  <2>2. \A p : AudioOf(p)' = AudioOf(p) BY <2>1, SameAudio
  <2>3. Complete' = Complete BY <1>3, Zenon DEF Complete
  <2> DEFINE all == [p \in 1..Len(segment) |-> IF p \in Complete THEN AudioOf(p) ELSE <<>>]
  <2>4. all' = all BY <1>3, <2>2, <2>3
  <2>5. sunk \o demux.out = FlattenSeq(all) BY <1>2 DEF TsAudio
  <2>6. sunk' \o demux'.out = FlattenSeq(all') BY <1>11, <2>4, <2>5, Zenon
  <2>7. QED BY <2>6, Zenon DEF TsAudio
<1>13. TsTypes'
  <2>1. Len(demux'.pkt) < TsPkt /\ Len(demux'.out) < TsOut
    BY <1>4, <1>6, TsAssumption DEF TsAssumption
  <2>2. QED BY <1>3, <1>5, <1>6, <1>10, <2>1 DEF TsTypes
<1>14. QED BY <1>3, <1>6, <1>12, <1>13 DEF TsInv, TsReaches, TsRests

LEMMA TsStays ==
  ASSUME TsInv, UNCHANGED tsVars PROVE TsInv'
<1>1. /\ segment' = segment /\ bytes' = bytes /\ demux' = demux /\ sunk' = sunk
      /\ fetched' = fetched /\ fetching' = fetching /\ known' = known
  BY DEF tsVars
<1>2. TsTypes' BY <1>1 DEF TsInv, TsTypes
<1>3. SameSegment BY <1>1 DEF SameSegment
<1>4. CASE fetching
  <2>1. PICK whole, at, q : TsAtByte(whole, at, q) BY <1>4 DEF TsInv, TsReaches
  <2>2. PICK m, o : TsPlace(demux, sunk, at, q, m, o) BY <2>1 DEF TsAtByte
  <2>3. PICK c, base : c = demux /\ base = sunk OBVIOUS
  <2>4. TsPlace(c, base, at, q, m, o) /\ c \in TsStates BY <2>2, <2>3 DEF TsPlace
  <2>5. TsPlace(c, base, at, q, m, o)' BY <1>3, <2>4, SamePlace
  <2>6. TsPlace(demux, sunk, at, q, m, o)'
    <3>1. c = demux' /\ base = sunk' BY <1>1, <2>3
    <3>2. QED BY <2>5, <3>1, Zenon DEF TsPlace, KnowsAt
  <2>7. TsAtByte(whole, at, q)' BY <1>1, <2>1, <2>6 DEF TsAtByte
  <2>8. QED BY <1>1, <1>2, <1>4, <2>7 DEF TsInv, TsReaches, TsRests
<1>5. CASE ~fetching
  <2>1. TsAudio /\ demux.pkt = <<>> /\ demux.skip = 0 /\ demux.out = <<>>
    BY <1>5 DEF TsInv, TsRests
  <2>2. TsAudio'
    <3>1. \A p : AudioOf(p)' = AudioOf(p) BY <1>3, SameAudio
    <3>2. Complete' = Complete BY <1>1, Zenon DEF Complete
    <3> DEFINE all == [p \in 1..Len(segment) |-> IF p \in Complete THEN AudioOf(p) ELSE <<>>]
    <3>3. all' = all BY <1>1, <3>1, <3>2
    <3>4. sunk \o demux.out = FlattenSeq(all) BY <2>1 DEF TsAudio
    <3>5. sunk' \o demux'.out = FlattenSeq(all') BY <1>1, <3>3, <3>4, Zenon
    <3>6. QED BY <3>5, Zenon DEF TsAudio
  <2>3. QED BY <1>1, <1>2, <1>5, <2>1, <2>2 DEF TsInv, TsReaches, TsRests
<1>6. QED BY <1>4, <1>5 DEF TsInv, TsTypes

LEMMA TsHolds == TsSpec => []TsInv
<1>1. TsInv /\ [TsNext]_tsVars => TsInv'
  BY TsFetches, TsFeeds, TsEnds, TsStays DEF TsNext
<1>2. QED BY <1>1, TsBegins, PTL DEF TsSpec

(* ts_feed, ts_packet, ts_segment_end: less than a packet is kept to be    *)
(* completed and less than a batch to be given away, for any packets and   *)
(* bytes between them, cut anywhere.                                       *)
THEOREM TsTypesHold == TsSpec => []TsTypeOK
<1>1. TsInv => TsTypeOK
  BY DEF TsInv, TsTypes, TsTypeOK, TsStates
<1>2. QED BY <1>1, TsHolds, PTL

(* ts_feed, ts_packet, ts_out: for any segments, of any packets, with any  *)
(* other bytes before them, cut anywhere by receptions and broken off      *)
(* anywhere, the sink is given the audio of the packets that are complete, *)
(* without PES headers, each byte once and in order.                       *)
THEOREM TsAudioHolds == TsSpec => []TsAudio
<1>1. TsInv => TsAudio
  <2> SUFFICES ASSUME TsInv PROVE TsAudio OBVIOUS
  <2>1. CASE fetching BY <2>1, TsHears DEF TsInv, TsReaches
  <2>2. CASE ~fetching BY <2>2 DEF TsInv, TsRests
  <2>3. QED BY <2>1, <2>2 DEF TsInv, TsTypes
<1>2. QED BY <1>1, TsHolds, PTL
====
