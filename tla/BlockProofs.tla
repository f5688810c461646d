---------------------------- MODULE BlockProofs ----------------------------
(***************************************************************************)
(* The properties of the older block pipeline for every module, every      *)
(* listing and every order of the functions.                               *)
(*                                                                         *)
(* The layout.  LInv follows the programs: what each list holds of each    *)
(* function, as far as the program has come.  Sizes and addresses are sums *)
(* over the blocks, so the module begins with lemmas about sums.           *)
(*                                                                         *)
(* The passes.  BInv relates every function to its source: g[k] is the     *)
(* place of the part that kept the identity of block k, and the parts      *)
(* between g[k - 1] and g[k] are what was split off in front of it.        *)
(* KeptBy says that they hold the code of the block together and that the  *)
(* branches lead to their first; Staged how many of them there are, by how *)
(* far the split has come.                                                 *)
(*                                                                         *)
(* Both rest on the lemmas of ImageProofs about sequences and blocks.      *)
(***************************************************************************)
EXTENDS Blocks, ImageProofs
-----------------------------------------------------------------------------
(* Sums. FoldLeft is a function of the sets of indices, chosen for its     *)
(* recursive equation, so that it must be shown that there is one.         *)
Steps(g, s, D) ==
  g = [S \in SUBSET D |->
            IF S = {} THEN 0 ELSE g[S \ {Max(S)}] + s[Max(S)]]

Chosen(s, D) == CHOOSE g : Steps(g, s, D)

LEMMA SumIs ==
  ASSUME NEW s
  PROVE  SumOf(s) = Chosen(s, DOMAIN s)[DOMAIN s]
BY Zenon DEF SumOf, FoldLeft, MapThenFoldSet, Chosen, Steps

LEMMA LayoutSum == ASSUME NEW s PROVE Layout!SumOf(s) = SumOf(s)
BY Zenon DEF SumOf, Layout!SumOf, FoldLeft, MapThenFoldSet, Max,
             Layout!FoldLeft, Layout!MapThenFoldSet, Layout!Max

LEMMA Greatest ==
  ASSUME NEW n \in Nat, NEW S \in SUBSET (1 .. n + 1), n + 1 \in S
  PROVE  Max(S) = n + 1 /\ S \ {n + 1} \in SUBSET (1 .. n)
<1>1. \A y \in S : n + 1 >= y
  OBVIOUS
<1>2. \A x \in S : (\A y \in S : x >= y) => x = n + 1
  OBVIOUS
<1>3. Max(S) \in S /\ \A y \in S : Max(S) >= y
  <2>1. \E x \in S : \A y \in S : x >= y
    BY <1>1
  <2> QED BY <2>1, Zenon DEF Max
<1>4. S \ {n + 1} \in SUBSET (1 .. n)
  OBVIOUS
<1> HIDE DEF Max
<1> QED BY <1>2, <1>3, <1>4

LEMMA GreatestTo ==
  ASSUME NEW n \in Nat
  PROVE  /\ Max(1 .. n + 1) = n + 1 /\ (1 .. n + 1) \ {n + 1} = 1 .. n
         /\ 1 .. n + 1 # {}
<1>1. n + 1 \in 1 .. n + 1 /\ 1 .. n + 1 \in SUBSET (1 .. n + 1)
  OBVIOUS
<1>2. Max(1 .. n + 1) = n + 1
  BY <1>1, Greatest
<1>3. (1 .. n + 1) \ {n + 1} = 1 .. n
  <2>1. \A x : x \in (1 .. n + 1) \ {n + 1} <=> x \in 1 .. n
    OBVIOUS
  <2> QED BY <2>1
<1> QED BY <1>1, <1>2, <1>3

Step(g, s, S) ==
  g[S] = IF S = {} THEN 0 ELSE g[S \ {Max(S)}] + s[Max(S)]

LEMMA StepsAt ==
  ASSUME NEW g, NEW s, NEW D, NEW S, S \subseteq D, Steps(g, s, D)
  PROVE  Step(g, s, S)
<1> DEFINE h == [U \in SUBSET D |->
                   IF U = {} THEN 0 ELSE g[U \ {Max(U)}] + s[Max(U)]]
<1>1. g = h /\ S \in SUBSET D
  BY Zenon DEF Steps
<1>2. h[S] = IF S = {} THEN 0 ELSE g[S \ {Max(S)}] + s[Max(S)]
  BY <1>1, Zenon
<1> QED BY <1>1, <1>2 DEF Step

LEMMA StepsTo ==
  ASSUME NEW g, NEW s, NEW n \in Nat, NEW k \in Nat, n + 1 <= k,
         Steps(g, s, 1 .. k)
  PROVE  g[1 .. n + 1] = g[1 .. n] + s[n + 1]
<1> DEFINE S == 1 .. n + 1
<1>1. S \subseteq 1 .. k
  OBVIOUS
<1>2. Max(S) = n + 1 /\ S \ {n + 1} = 1 .. n /\ S # {}
  BY GreatestTo
<1>3. S = 1 .. n + 1
  OBVIOUS
<1> HIDE DEF S
<1>4. g[S] = IF S = {} THEN 0 ELSE g[S \ {Max(S)}] + s[Max(S)]
  <2>1. Step(g, s, S)
    BY <1>1, StepsAt, Zenon
  <2> QED BY <2>1, Zenon DEF Step
<1> QED BY <1>2, <1>3, <1>4

LEMMA StepsNone ==
  ASSUME NEW g, NEW s, NEW D, Steps(g, s, D)
  PROVE  g[{}] = 0
<1>1. {} \subseteq D
  OBVIOUS
<1> QED BY <1>1, StepsAt DEF Step

(* One more index.                                                         *)
Grow(g, s, n) ==
  [S \in SUBSET (1 .. n + 1) |->
     IF n + 1 \in S THEN g[S \ {n + 1}] + s[n + 1] ELSE g[S]]

LEMMA StepsNext ==
  ASSUME NEW s, NEW n \in Nat, NEW g, Steps(g, s, 1 .. n)
  PROVE  Steps(Grow(g, s, n), s, 1 .. n + 1)
<1> DEFINE h == Grow(g, s, n)
<1>1. ASSUME NEW S \in SUBSET (1 .. n + 1)
      PROVE  h[S] = IF S = {} THEN 0 ELSE h[S \ {Max(S)}] + s[Max(S)]
  <2>1. CASE n + 1 \in S
    <3>1. Max(S) = n + 1 /\ S \ {n + 1} \in SUBSET (1 .. n) /\ S # {}
      BY <2>1, Greatest
    <3>2. h[S] = g[S \ {n + 1}] + s[n + 1]
      BY <2>1 DEF Grow
    <3>3. h[S \ {n + 1}] = g[S \ {n + 1}]
      <4>1. S \ {n + 1} \in SUBSET (1 .. n + 1) /\ n + 1 \notin S \ {n + 1}
        OBVIOUS
      <4> QED BY <4>1 DEF Grow
    <3> QED BY <3>1, <3>2, <3>3
  <2>2. CASE n + 1 \notin S
    <3>1. S \subseteq 1 .. n
      BY <2>2
    <3>2. h[S] = g[S]
      BY <2>2 DEF Grow
    <3>3. g[S] = IF S = {} THEN 0 ELSE g[S \ {Max(S)}] + s[Max(S)]
      <4>1. Step(g, s, S)
        BY <3>1, StepsAt, Zenon
      <4> QED BY <4>1, Zenon DEF Step
    <3>4. h[S \ {Max(S)}] = g[S \ {Max(S)}]
      <4>1. S \ {Max(S)} \in SUBSET (1 .. n + 1) /\ n + 1 \notin S \ {Max(S)}
        BY <2>2
      <4> QED BY <4>1 DEF Grow
    <3> QED BY <3>2, <3>3, <3>4
  <2> QED BY <2>1, <2>2
<1>2. h = [S \in SUBSET (1 .. n + 1) |-> h[S]]
  BY DEF Grow
<1> HIDE DEF h
<1>3. h = [S \in SUBSET (1 .. n + 1) |->
             IF S = {} THEN 0 ELSE h[S \ {Max(S)}] + s[Max(S)]]
  BY <1>1, <1>2
<1> QED BY <1>3 DEF Steps, h

LEMMA StepsExist ==
  ASSUME NEW s, NEW n \in Nat
  PROVE  Steps(Chosen(s, 1 .. n), s, 1 .. n)
<1> DEFINE T == {m \in Nat : \E g : Steps(g, s, 1 .. m)}
<1>1. 0 \in T
  <2>1. Steps([S \in SUBSET (1 .. 0) |-> 0], s, 1 .. 0)
    <3>1. SUBSET (1 .. 0) = {{}}
      OBVIOUS
    <3> QED BY <3>1 DEF Steps
  <2> QED BY <2>1
<1>2. ASSUME NEW m \in Nat, m \in T PROVE m + 1 \in T
  <2>1. PICK g : Steps(g, s, 1 .. m)
    BY <1>2
  <2> QED BY <2>1, StepsNext
<1>3. n \in T
  <2> HIDE DEF T
  <2> QED BY <1>1, <1>2, Induct
<1> QED BY <1>3, Zenon DEF Chosen

(* Of equal numbers the sums are equal.                                    *)
LEMMA StepsAgree ==
  ASSUME NEW s, NEW t, NEW n \in Nat, NEW k \in Nat, n <= k, NEW g, NEW h,
         \A m \in 1 .. n : s[m] = t[m], Steps(g, s, 1 .. n), Steps(h, t, 1 .. k)
  PROVE  g[1 .. n] = h[1 .. n]
<1> DEFINE T == {m \in Nat : m <= n => g[1 .. m] = h[1 .. m]}
<1>1. 0 \in T
  <2>1. 1 .. 0 = {}
    OBVIOUS
  <2>2. g[{}] = 0 /\ h[{}] = 0
    BY StepsNone
  <2> QED BY <2>1, <2>2
<1>2. ASSUME NEW m \in Nat, m \in T PROVE m + 1 \in T
  <2> SUFFICES ASSUME m + 1 <= n PROVE g[1 .. m + 1] = h[1 .. m + 1]
    OBVIOUS
  <2>4. g[1 .. m + 1] = g[1 .. m] + s[m + 1]
    BY StepsTo
  <2>5. h[1 .. m + 1] = h[1 .. m] + t[m + 1]
    BY StepsTo
  <2>6. g[1 .. m] = h[1 .. m] /\ s[m + 1] = t[m + 1]
    BY <1>2
  <2> QED BY <2>4, <2>5, <2>6
<1>3. n \in T
  <2> HIDE DEF T
  <2> QED BY <1>1, <1>2, Induct
<1> QED BY <1>3

LEMMA SumSame ==
  ASSUME NEW s, NEW t, NEW n \in Nat, DOMAIN s = 1 .. n, DOMAIN t = 1 .. n,
         \A m \in 1 .. n : s[m] = t[m]
  PROVE  SumOf(s) = SumOf(t)
BY SumIs, StepsExist, StepsAgree

LEMMA SumNone == ASSUME NEW s, DOMAIN s = {} PROVE SumOf(s) = 0
<1>1. 1 .. 0 = {}
  OBVIOUS
<1>2. Chosen(s, 1 .. 0)[{}] = 0
  <2>1. Steps(Chosen(s, 1 .. 0), s, 1 .. 0)
    BY StepsExist
  <2> QED BY <2>1, StepsNone
<1> QED BY <1>1, <1>2, SumIs

(* One number more.                                                        *)
LEMMA SumMore ==
  ASSUME NEW s, NEW t, NEW n \in Nat, DOMAIN s = 1 .. n, DOMAIN t = 1 .. n + 1,
         \A m \in 1 .. n : s[m] = t[m]
  PROVE  SumOf(t) = SumOf(s) + t[n + 1]
<1> DEFINE g == Chosen(s, 1 .. n)
           h == Chosen(t, 1 .. n + 1)
<1>1. Steps(g, s, 1 .. n) /\ Steps(h, t, 1 .. n + 1)
  BY StepsExist
<1>2. g[1 .. n] = h[1 .. n]
  BY <1>1, StepsAgree
<1>4. h[1 .. n + 1] = h[1 .. n] + t[n + 1]
  <2>1. n + 1 \in Nat /\ n + 1 <= n + 1
    OBVIOUS
  <2> HIDE DEF h
  <2> QED BY <1>1, <2>1, StepsTo
<1> QED BY <1>2, <1>4, SumIs

LEMMA SumType ==
  ASSUME NEW s, NEW n \in Nat, DOMAIN s = 1 .. n, \A m \in 1 .. n : s[m] \in Nat
  PROVE  SumOf(s) \in Nat
<1> DEFINE Part(m) == [j \in 1 .. m |-> s[j]]
           T == {m \in Nat : m <= n => SumOf(Part(m)) \in Nat}
<1>1. 0 \in T
  <2>1. DOMAIN Part(0) = {}
    OBVIOUS
  <2> QED BY <2>1, SumNone
<1>2. ASSUME NEW m \in Nat, m \in T PROVE m + 1 \in T
  <2> SUFFICES ASSUME m + 1 <= n PROVE SumOf(Part(m + 1)) \in Nat
    OBVIOUS
  <2>1. SumOf(Part(m + 1)) = SumOf(Part(m)) + Part(m + 1)[m + 1]
    <3>1. /\ DOMAIN Part(m) = 1 .. m /\ DOMAIN Part(m + 1) = 1 .. m + 1
          /\ \A j \in 1 .. m : Part(m)[j] = Part(m + 1)[j]
      OBVIOUS
    <3> HIDE DEF Part
    <3> QED BY <3>1, SumMore
  <2>2. Part(m + 1)[m + 1] = s[m + 1] /\ s[m + 1] \in Nat
    OBVIOUS
  <2> QED BY <2>1, <2>2, <1>2
<1>3. n \in T
  <2> HIDE DEF T
  <2> QED BY <1>1, <1>2, Induct
<1>4. SumOf(Part(n)) = SumOf(s)
  <2>1. DOMAIN Part(n) = 1 .. n /\ \A j \in 1 .. n : Part(n)[j] = s[j]
    OBVIOUS
  <2> HIDE DEF Part
  <2> QED BY <2>1, SumSame
<1> QED BY <1>3, <1>4

OneMore(s, t, n) ==
  DOMAIN s = 1 .. n /\ DOMAIN t = 1 .. n + 1 /\ \A m \in 1 .. n : s[m] = t[m]

LEMMA SumOneMore ==
  ASSUME NEW s, NEW t, NEW n \in Nat, OneMore(s, t, n)
  PROVE  SumOf(t) = SumOf(s) + t[n + 1]
BY SumMore DEF OneMore

(* The sum of two parts.                                                   *)
LEMMA SumJoin ==
  ASSUME NEW s, NEW r, NEW t, NEW n \in Nat, NEW k \in Nat,
         DOMAIN s = 1 .. n, DOMAIN r = 1 .. k, DOMAIN t = 1 .. n + k,
         \A m \in 1 .. n : t[m] = s[m] /\ s[m] \in Nat,
         \A m \in 1 .. k : t[n + m] = r[m] /\ r[m] \in Nat
  PROVE  SumOf(t) = SumOf(s) + SumOf(r)
<1> DEFINE Whole(m) == [j \in 1 .. n + m |-> t[j]]
           Rest(m) == [j \in 1 .. m |-> r[j]]
           T == {m \in Nat : m <= k =>
                   SumOf(Whole(m)) = SumOf(s) + SumOf(Rest(m))}
<1>0. SumOf(s) \in Nat
  BY SumType
<1>1. 0 \in T
  <2>1. DOMAIN Rest(0) = {}
    OBVIOUS
  <2>2. DOMAIN Whole(0) = 1 .. n /\ \A m \in 1 .. n : Whole(0)[m] = s[m]
    OBVIOUS
  <2> HIDE DEF Whole, Rest
  <2>3. SumOf(Whole(0)) = SumOf(s)
    BY <2>2, SumSame
  <2>4. SumOf(Rest(0)) = 0
    BY <2>1, SumNone
  <2> QED BY <2>3, <2>4, <1>0
<1>2. ASSUME NEW m \in Nat, m \in T PROVE m + 1 \in T
  <2> SUFFICES ASSUME m + 1 <= k
               PROVE  SumOf(Whole(m + 1)) = SumOf(s) + SumOf(Rest(m + 1))
    OBVIOUS
  <2>1. /\ DOMAIN Whole(m) = 1 .. n + m /\ DOMAIN Whole(m + 1) = 1 .. (n + m) + 1
        /\ \A j \in 1 .. n + m : Whole(m)[j] = Whole(m + 1)[j]
        /\ Whole(m + 1)[(n + m) + 1] = r[m + 1]
        /\ n + m \in Nat
    <3>1. n + (m + 1) = (n + m) + 1
      OBVIOUS
    <3> QED BY <3>1
  <2>2. /\ DOMAIN Rest(m) = 1 .. m /\ DOMAIN Rest(m + 1) = 1 .. m + 1
        /\ \A j \in 1 .. m : Rest(m)[j] = Rest(m + 1)[j]
        /\ Rest(m + 1)[m + 1] = r[m + 1]
    OBVIOUS
  <2>3. \A j \in 1 .. m : Rest(m)[j] \in Nat
    OBVIOUS
  <2>4. SumOf(Whole(m)) = SumOf(s) + SumOf(Rest(m))
    <3> HIDE DEF Whole, Rest
    <3> QED BY <1>2
  <2>8. r[m + 1] \in Nat
    OBVIOUS
  <2> HIDE DEF Whole, Rest, T
  <2>5. SumOf(Whole(m + 1)) = SumOf(Whole(m)) + r[m + 1]
    <3> DEFINE p == n + m
    <3>1. p \in Nat /\ DOMAIN Whole(m) = 1 .. p /\ DOMAIN Whole(m + 1) = 1 .. p + 1
          /\ Whole(m + 1)[p + 1] = r[m + 1]
          /\ \A j \in 1 .. p : Whole(m)[j] = Whole(m + 1)[j]
      BY <2>1
    <3> HIDE DEF p
    <3> QED BY <3>1, SumMore
  <2>6. SumOf(Rest(m + 1)) = SumOf(Rest(m)) + r[m + 1]
    <3> DEFINE a == Rest(m)
               b == Rest(m + 1)
    <3>1. /\ DOMAIN a = 1 .. m /\ DOMAIN b = 1 .. m + 1
          /\ \A j \in 1 .. m : a[j] = b[j]
      BY <2>2
    <3> HIDE DEF a, b
    <3>2. SumOf(b) = SumOf(a) + b[m + 1]
      <4>1. OneMore(a, b, m)
        BY <3>1 DEF OneMore
      <4> QED BY <4>1, SumOneMore
    <3> QED BY <3>2, <2>2 DEF a, b
  <2>7. SumOf(Rest(m)) \in Nat
    BY <2>2, <2>3, SumType
  <2> QED BY <2>4, <2>5, <2>6, <2>7, <2>8, <1>0
<1>3. k \in T
  <2> HIDE DEF T
  <2> QED BY <1>1, <1>2, Induct
<1>4. DOMAIN Whole(k) = 1 .. n + k /\ DOMAIN Rest(k) = 1 .. k
      /\ (\A j \in 1 .. n + k : Whole(k)[j] = t[j])
      /\ \A j \in 1 .. k : Rest(k)[j] = r[j]
  OBVIOUS
<1>5. SumOf(Whole(k)) = SumOf(s) + SumOf(Rest(k))
  BY <1>3
<1> HIDE DEF Whole, Rest
<1>6. SumOf(Whole(k)) = SumOf(t) /\ SumOf(Rest(k)) = SumOf(r)
  <2> DEFINE p == n + k
  <2>1. p \in Nat /\ DOMAIN t = 1 .. p /\ DOMAIN Whole(k) = 1 .. p
        /\ \A j \in 1 .. p : Whole(k)[j] = t[j]
    BY <1>4
  <2> HIDE DEF p
  <2> QED BY <1>4, <2>1, SumSame
<1> QED BY <1>5, <1>6
-----------------------------------------------------------------------------
(* The listing of one function.                                            *)
Listing == Seq(Layout!ListedBlock)

SizeTo(c, m) == SumOf([k \in 1 .. m |-> Layout!BlockSize(c[k])])

Ends(c, k) == c[k].last \in {"short", "wide"}
EndAt(c, k) == IF Ends(c, k) THEN <<k>> ELSE <<>>
EndPieces(c, m) == [k \in 1 .. m |-> EndAt(c, k)]
EndsTo(c, m) == FlattenSeq(EndPieces(c, m))

LEMMA ListedIs ==
  ASSUME NEW c \in Listing
  PROVE  /\ Len(c) \in Nat /\ DOMAIN c = 1 .. Len(c)
         /\ \A k \in 1 .. Len(c) :
              /\ c[k].before \in Nat /\ c[k].before % 2 = 0
              /\ c[k].last \in {"short", "wide", "falls", "bare"}
              /\ Layout!BlockSize(c[k]) \in Nat
              /\ c[k].last # "wide" => Layout!BlockSize(c[k]) = c[k].before + 2
<1>1. Len(c) \in Nat /\ DOMAIN c = 1 .. Len(c)
  BY DEF Listing
<1>2. ASSUME NEW k \in 1 .. Len(c)
      PROVE  /\ c[k].before \in Nat /\ c[k].before % 2 = 0
             /\ c[k].last \in {"short", "wide", "falls", "bare"}
  <2>1. c[k] \in Layout!ListedBlock
    BY DEF Listing
  <2> QED BY <2>1, Zenon DEF Layout!ListedBlock, Layout!Form
<1>3. ASSUME NEW k \in 1 .. Len(c)
      PROVE  /\ Layout!BlockSize(c[k]) \in Nat
             /\ c[k].last # "wide" => Layout!BlockSize(c[k]) = c[k].before + 2
  <2> DEFINE x == c[k].before
             w == Layout!Width(c[k].last)
  <2>1. w \in Nat /\ (c[k].last # "wide" => w = 2)
    BY DEF Layout!Width
  <2>2. Layout!BlockSize(c[k]) = x + w /\ x \in Nat
    BY <1>2, Zenon DEF Layout!BlockSize
  <2> HIDE DEF w, x
  <2>3. Layout!BlockSize(c[k]) \in Nat /\ (w = 2 => Layout!BlockSize(c[k]) = x + 2)
    BY <2>1, <2>2
  <2> QED BY <2>1, <2>3 DEF x
<1> QED BY <1>1, <1>2, <1>3

LEMMA SizeToType ==
  ASSUME NEW c \in Listing, NEW m \in 0 .. Len(c)
  PROVE  SizeTo(c, m) \in Nat
<1> DEFINE s == [k \in 1 .. m |-> Layout!BlockSize(c[k])]
<1>1. m \in Nat /\ m <= Len(c)
  BY ListedIs
<1>2. DOMAIN s = 1 .. m /\ \A k \in 1 .. m : s[k] \in Nat
  BY <1>1, ListedIs
<1> HIDE DEF s
<1>3. SumOf(s) \in Nat
  BY <1>1, <1>2, SumType
<1> QED BY <1>3 DEF SizeTo, s

(* From block m + 1 to block n.                                            *)
LEMMA SizeToPart ==
  ASSUME NEW c \in Listing, NEW n \in 0 .. Len(c), NEW m \in 0 .. n, NEW r,
         DOMAIN r = 1 .. n - m,
         \A k \in 1 .. n - m : r[k] = Layout!BlockSize(c[m + k])
  PROVE  SizeTo(c, n) = SizeTo(c, m) + SumOf(r)
<1> DEFINE s == [k \in 1 .. m |-> Layout!BlockSize(c[k])]
           t == [k \in 1 .. n |-> Layout!BlockSize(c[k])]
           d == n - m
<1>1. m \in Nat /\ n \in Nat /\ n <= Len(c) /\ d \in Nat /\ m + d = n
  BY ListedIs
<1>2. \A k \in 1 .. Len(c) : Layout!BlockSize(c[k]) \in Nat
  BY ListedIs
<1>3. \A k \in 1 .. m : t[k] = s[k] /\ s[k] \in Nat
  BY <1>1, <1>2
<1>4. \A k \in 1 .. d : m + k \in 1 .. n
  BY <1>1
<1>5. \A k \in 1 .. d : t[m + k] = r[k] /\ r[k] \in Nat
  <2> SUFFICES ASSUME NEW k \in 1 .. d PROVE t[m + k] = r[k] /\ r[k] \in Nat
    OBVIOUS
  <2>1. m + k \in 1 .. n /\ m + k \in 1 .. Len(c)
    BY <1>1, <1>4
  <2> QED BY <2>1, <1>2
<1>6. DOMAIN s = 1 .. m /\ DOMAIN r = 1 .. d /\ DOMAIN t = 1 .. m + d
  BY <1>1
<1> HIDE DEF s, t, d
<1>7. SumOf(t) = SumOf(s) + SumOf(r)
  BY <1>1, <1>3, <1>5, <1>6, SumJoin
<1> QED BY <1>7 DEF SizeTo, s, t

LEMMA EndsMore ==
  ASSUME NEW c, NEW m \in Nat
  PROVE  /\ EndsTo(c, m) \in Seq(Nat)
         /\ EndsTo(c, m + 1) = EndsTo(c, m) \o EndAt(c, m + 1)
         /\ EndsTo(c, 0) = <<>>
<1>1. ASSUME NEW n \in Nat
      PROVE  EndPieces(c, n) \in Seq(Seq(Nat))
  <2>1. \A k \in 1 .. n : EndAt(c, k) \in Seq(Nat)
    BY DEF EndAt
  <2> QED BY <2>1 DEF EndPieces
<1>2. EndPieces(c, m + 1) = Append(EndPieces(c, m), EndAt(c, m + 1))
  BY DEF EndPieces
<1>3. EndAt(c, m + 1) \in Seq(Nat)
  BY DEF EndAt
<1>4. EndPieces(c, 0) = <<>>
  BY DEF EndPieces
<1>5. Closed(Seq(Nat))
  BY SeqClosed
<1>6. EndsTo(c, m + 1) = EndsTo(c, m) \o EndAt(c, m + 1)
  BY <1>1, <1>2, <1>3, <1>5, FlattenAppend DEF EndsTo
<1>7. EndsTo(c, m) \in Seq(Nat)
  BY <1>1, <1>5, FlattenType DEF EndsTo
<1>8. EndsTo(c, 0) = <<>>
  BY <1>4, FlattenNone DEF EndsTo
<1> QED BY <1>6, <1>7, <1>8

(* The ends are blocks of the listing, in order.                           *)
EndsOrdered(c, m, e) ==
  /\ e \in Seq(Nat) /\ Len(e) <= m
  /\ \A n \in 1 .. Len(e) : e[n] \in 1 .. m /\ Ends(c, e[n])
  /\ \A n \in 1 .. Len(e) - 1 : e[n] < e[n + 1]
  /\ (m > 0 /\ Ends(c, m)) => Len(e) > 0 /\ e[Len(e)] = m
  /\ (\A k \in 1 .. m : Ends(c, k)) => Len(e) = m /\ \A n \in 1 .. m : e[n] = n

LEMMA EndsOrder ==
  ASSUME NEW c, NEW m \in Nat
  PROVE  EndsOrdered(c, m, EndsTo(c, m))
<1> DEFINE T == {n \in Nat : EndsOrdered(c, n, EndsTo(c, n))}
<1>1. 0 \in T
  <2>1. EndsTo(c, 0) = <<>>
    BY EndsMore
  <2>2. EndsOrdered(c, 0, <<>>)
    BY DEF EndsOrdered
  <2> QED BY <2>1, <2>2
<1>2. ASSUME NEW n \in Nat, n \in T PROVE n + 1 \in T
  <2> DEFINE e == EndsTo(c, n)
             g == EndsTo(c, n + 1)
  <2>1. e \in Seq(Nat) /\ g \in Seq(Nat) /\ g = e \o EndAt(c, n + 1)
    <3>1. n + 1 \in Nat
      OBVIOUS
    <3> QED BY <3>1, EndsMore
  <2>2. EndsOrdered(c, n, e)
    BY <1>2
  <2> SUFFICES EndsOrdered(c, n + 1, g)
    OBVIOUS
  <2> HIDE DEF e, g
  <2>3. CASE Ends(c, n + 1)
    <3>1. g = Append(e, n + 1)
      BY <2>1, <2>3 DEF EndAt
    <3>2. /\ Len(g) = Len(e) + 1 /\ g[Len(e) + 1] = n + 1
          /\ \A k \in 1 .. Len(e) : g[k] = e[k]
      BY <3>1, <2>1
    <3>3. Len(e) \in Nat /\ Len(e) <= n
      BY <2>2 DEF EndsOrdered
    <3>4. \A k \in 1 .. Len(g) : g[k] \in 1 .. n + 1 /\ Ends(c, g[k])
      <4> SUFFICES ASSUME NEW k \in 1 .. Len(g)
                   PROVE  g[k] \in 1 .. n + 1 /\ Ends(c, g[k])
        OBVIOUS
      <4>1. CASE k = Len(e) + 1
        BY <4>1, <3>2, <2>3
      <4>2. CASE k # Len(e) + 1
        <5>1. k \in 1 .. Len(e)
          BY <4>2, <3>2, <3>3
        <5> QED BY <5>1, <3>2, <2>2 DEF EndsOrdered
      <4> QED BY <4>1, <4>2
    <3>5. \A k \in 1 .. Len(g) - 1 : g[k] < g[k + 1]
      <4> SUFFICES ASSUME NEW k \in 1 .. Len(e) PROVE g[k] < g[k + 1]
        BY <3>2, <3>3
      <4>1. g[k] = e[k] /\ e[k] \in 1 .. n
        BY <3>2, <2>2 DEF EndsOrdered
      <4>2. CASE k = Len(e)
        BY <4>1, <4>2, <3>2
      <4>3. CASE k # Len(e)
        <5>1. k \in 1 .. Len(e) - 1 /\ k + 1 \in 1 .. Len(e)
          BY <4>3, <3>3
        <5>2. e[k] < e[k + 1]
          BY <5>1, <2>2 DEF EndsOrdered
        <5> QED BY <5>1, <5>2, <4>1, <3>2
      <4> QED BY <4>2, <4>3
    <3>6. (\A k \in 1 .. n + 1 : Ends(c, k)) =>
            Len(g) = n + 1 /\ \A k \in 1 .. n + 1 : g[k] = k
      BY <3>2, <3>3, <2>2 DEF EndsOrdered
    <3> QED BY <2>1, <3>2, <3>3, <3>4, <3>5, <3>6 DEF EndsOrdered
  <2>4. CASE ~Ends(c, n + 1)
    <3>1. g = e
      BY <2>1, <2>4 DEF EndAt
    <3>2. Len(e) \in Nat /\ Len(e) <= n
      BY <2>2 DEF EndsOrdered
    <3>3. n + 1 \in 1 .. n + 1
      OBVIOUS
    <3>4. \A k \in 1 .. Len(g) : g[k] \in 1 .. n + 1 /\ Ends(c, g[k])
      BY <3>1, <2>2 DEF EndsOrdered
    <3> QED BY <2>1, <2>2, <2>4, <3>1, <3>2, <3>3, <3>4 DEF EndsOrdered
  <2> QED BY <2>3, <2>4
<1>3. m \in T
  <2> HIDE DEF T
  <2> QED BY <1>1, <1>2, Induct
<1> QED BY <1>3
-----------------------------------------------------------------------------
(* The sum of the first numbers.                                           *)
SumTo(s, n) == SumOf([j \in 1 .. n |-> s[j]])

LEMMA SumToZero == ASSUME NEW s PROVE SumTo(s, 0) = 0
<1> DEFINE t == [j \in 1 .. 0 |-> s[j]]
<1>1. DOMAIN t = {}
  OBVIOUS
<1> HIDE DEF t
<1>2. SumOf(t) = 0
  BY <1>1, SumNone
<1> QED BY <1>2 DEF t, SumTo

LEMMA SumToMore ==
  ASSUME NEW s, NEW n \in Nat PROVE SumTo(s, n + 1) = SumTo(s, n) + s[n + 1]
<1> DEFINE a == [j \in 1 .. n |-> s[j]]
           b == [j \in 1 .. n + 1 |-> s[j]]
<1>1. OneMore(a, b, n)
  BY DEF OneMore
<1>2. b[n + 1] = s[n + 1]
  OBVIOUS
<1> HIDE DEF a, b
<1>3. SumOf(b) = SumOf(a) + b[n + 1]
  BY <1>1, SumOneMore
<1> QED BY <1>2, <1>3 DEF SumTo, a, b

LEMMA SumToType ==
  ASSUME NEW s, NEW n \in Nat, \A j \in 1 .. n : s[j] \in Nat
  PROVE  SumTo(s, n) \in Nat
<1> DEFINE t == [j \in 1 .. n |-> s[j]]
<1>1. DOMAIN t = 1 .. n /\ \A j \in 1 .. n : t[j] \in Nat
  OBVIOUS
<1> HIDE DEF t
<1>2. SumOf(t) \in Nat
  BY <1>1, SumType
<1> QED BY <1>2 DEF SumTo, t

LEMMA SumToIs ==
  ASSUME NEW s, NEW n \in Nat, DOMAIN s = 1 .. n
  PROVE  SumOf(s) = SumTo(s, n)
<1> DEFINE t == [j \in 1 .. n |-> s[j]]
<1>1. DOMAIN t = 1 .. n /\ \A j \in 1 .. n : t[j] = s[j]
  OBVIOUS
<1> HIDE DEF t
<1>2. SumOf(t) = SumOf(s)
  BY <1>1, SumSame
<1> QED BY <1>2 DEF SumTo, t

LEMMA SumToSub ==
  ASSUME NEW S, NEW s \in Seq(S), NEW n \in 0 .. Len(s)
  PROVE  SumOf(SubSeq(s, 1, n)) = SumTo(s, n)
<1> DEFINE t == SubSeq(s, 1, n)
           r == [j \in 1 .. n |-> s[j]]
<1>1. n \in Nat /\ DOMAIN t = 1 .. n /\ \A j \in 1 .. n : t[j] = s[j]
  OBVIOUS
<1>2. DOMAIN r = 1 .. n /\ \A j \in 1 .. n : r[j] = s[j]
  OBVIOUS
<1>4. \A j \in 1 .. n : t[j] = r[j]
  BY <1>1, <1>2
<1> HIDE DEF t, r
<1>3. SumOf(t) = SumOf(r)
  BY <1>1, <1>2, <1>4, SumSame
<1> QED BY <1>3 DEF SumTo, t, r
-----------------------------------------------------------------------------
(* What BB_check1.py measures.                                             *)
FromOf(e, n) == IF n = 1 THEN 1 ELSE e[n - 1] + 1

Stretch(c, from, to) ==
  [k \in 1 .. to - from |-> Layout!BlockSize(c[from + k - 1])]
MeasureOf(c, e, n) ==
  SumOf(Stretch(c, FromOf(e, n), e[n])) + c[e[n]].before + 2

EndsOf(c) == EndsTo(c, Len(c))
MeasuredOf(c) == [n \in DOMAIN EndsOf(c) |-> MeasureOf(c, EndsOf(c), n)]

AllShort(c) == \A k \in 1 .. Len(c) : c[k].last = "short"
Measurable(c) ==
  /\ Len(c) > 0 /\ c[Len(c)].last = "short"
  /\ \A k \in 1 .. Len(c) : c[k].last \in {"short", "falls"}

LEMMA FromIs ==
  ASSUME NEW c \in Listing, NEW n \in 1 .. Len(EndsOf(c))
  PROVE  LET e == EndsOf(c)
             m == FromOf(e, n)
         IN  m \in 1 .. e[n] /\ e[n] \in 1 .. Len(c) /\ Ends(c, e[n])
<1> DEFINE e == EndsOf(c)
<1>0. Len(c) \in Nat
  BY ListedIs
<1>1. EndsOrdered(c, Len(c), e)
  BY <1>0, EndsOrder DEF EndsOf
<1>2. n \in 1 .. Len(e)
  OBVIOUS
<1> HIDE DEF e
<1>3. e[n] \in 1 .. Len(c) /\ Ends(c, e[n]) /\ Len(e) \in Nat
  BY <1>1, <1>2 DEF EndsOrdered
<1>4. n # 1 => n - 1 \in 1 .. Len(e) /\ n - 1 \in 1 .. Len(e) - 1 /\ (n - 1) + 1 = n
  BY <1>2, <1>3
<1>5. n # 1 => e[n - 1] \in 1 .. Len(c) /\ e[n - 1] < e[n]
  BY <1>1, <1>4 DEF EndsOrdered
<1>6. FromOf(e, n) \in 1 .. e[n]
  BY <1>0, <1>3, <1>5 DEF FromOf
<1> QED BY <1>3, <1>6 DEF e

LEMMA StretchType ==
  ASSUME NEW c \in Listing, NEW to \in 1 .. Len(c), NEW from \in 1 .. to
  PROVE  /\ DOMAIN Stretch(c, from, to) = 1 .. to - from /\ to - from \in Nat
         /\ \A k \in 1 .. to - from : from + k - 1 \in 1 .. Len(c)
         /\ \A k \in 1 .. to - from : Stretch(c, from, to)[k] \in Nat
         /\ SumOf(Stretch(c, from, to)) \in Nat
<1> DEFINE d == to - from
<1>0. Len(c) \in Nat
  BY ListedIs
<1>1. d \in Nat /\ \A k \in 1 .. d : from + k - 1 \in 1 .. Len(c)
  BY <1>0
<1>2. DOMAIN Stretch(c, from, to) = 1 .. d
  BY DEF Stretch
<1>3. \A k \in 1 .. d : Stretch(c, from, to)[k] \in Nat
  <2> SUFFICES ASSUME NEW k \in 1 .. d PROVE Stretch(c, from, to)[k] \in Nat
    OBVIOUS
  <2>1. Stretch(c, from, to)[k] = Layout!BlockSize(c[from + k - 1])
    BY DEF Stretch
  <2>2. from + k - 1 \in 1 .. Len(c)
    BY <1>1
  <2> HIDE DEF d
  <2> QED BY <2>1, <2>2, ListedIs
<1>4. SumOf(Stretch(c, from, to)) \in Nat
  <2> HIDE DEF d
  <2> QED BY <1>1, <1>2, <1>3, SumType
<1> QED BY <1>1, <1>2, <1>3, <1>4

LEMMA MeasuredType ==
  ASSUME NEW c \in Listing
  PROVE  /\ MeasuredOf(c) \in Seq(Nat) /\ Len(MeasuredOf(c)) = Len(EndsOf(c))
         /\ Len(MeasuredOf(c)) <= Len(c)
<1> DEFINE e == EndsOf(c)
<1>0. Len(c) \in Nat
  BY ListedIs
<1>1. EndsOrdered(c, Len(c), e)
  BY <1>0, EndsOrder DEF EndsOf
<1>2. e \in Seq(Nat) /\ DOMAIN e = 1 .. Len(e) /\ Len(e) \in Nat /\ Len(e) <= Len(c)
  BY <1>1 DEF EndsOrdered
<1>3. ASSUME NEW n \in 1 .. Len(e) PROVE MeasureOf(c, e, n) \in Nat
  <2>1. FromOf(e, n) \in 1 .. e[n] /\ e[n] \in 1 .. Len(c)
    BY FromIs
  <2> HIDE DEF e
  <2>2. SumOf(Stretch(c, FromOf(e, n), e[n])) \in Nat
    BY <2>1, StretchType
  <2>3. c[e[n]].before \in Nat
    BY <2>1, ListedIs
  <2> QED BY <2>2, <2>3 DEF MeasureOf
<1>4. MeasuredOf(c) = [n \in 1 .. Len(e) |-> MeasureOf(c, e, n)]
  BY <1>2 DEF MeasuredOf
<1> HIDE DEF e
<1>5. MeasuredOf(c) \in Seq(Nat) /\ Len(MeasuredOf(c)) = Len(e)
  BY <1>2, <1>3, <1>4
<1> QED BY <1>2, <1>5 DEF e

LEMMA MeasuredAt ==
  ASSUME NEW c \in Listing, NEW n \in 1 .. Len(EndsOf(c))
  PROVE  MeasuredOf(c)[n] = MeasureOf(c, EndsOf(c), n)
<1>1. EndsOf(c) \in Seq(Nat)
  BY ListedIs, EndsMore DEF EndsOf
<1> QED BY <1>1 DEF MeasuredOf

(* Where every block ends measurably, each is measured as it is.           *)
LEMMA MeasuredShort ==
  ASSUME NEW c \in Listing, AllShort(c), NEW k \in 1 .. Len(c)
  PROVE  /\ Len(MeasuredOf(c)) = Len(c)
         /\ MeasuredOf(c)[k] = Layout!BlockSize(c[k])
<1> DEFINE e == EndsOf(c)
<1>0. Len(c) \in Nat
  BY ListedIs
<1>1. EndsOrdered(c, Len(c), e)
  BY <1>0, EndsOrder DEF EndsOf
<1>2. \A m \in 1 .. Len(c) : Ends(c, m)
  BY DEF AllShort, Ends
<1>3. Len(e) = Len(c) /\ \A n \in 1 .. Len(c) : e[n] = n
  BY <1>0, <1>1, <1>2 DEF EndsOrdered
<1>4. MeasuredOf(c)[k] = MeasureOf(c, e, k)
  BY <1>3, MeasuredAt
<1>5. Len(MeasuredOf(c)) = Len(c)
  BY <1>3, MeasuredType
<1>6. FromOf(e, k) = k /\ e[k] = k
  <2>1. k # 1 => k - 1 \in 1 .. Len(c)
    BY <1>0
  <2> HIDE DEF e
  <2> QED BY <1>3, <2>1 DEF FromOf
<1> HIDE DEF e
<1>7. SumOf(Stretch(c, k, k)) = 0
  <2>1. DOMAIN Stretch(c, k, k) = {}
    BY DEF Stretch
  <2> QED BY <2>1, SumNone
<1>8. MeasureOf(c, e, k) = 0 + c[k].before + 2
  BY <1>6, <1>7 DEF MeasureOf
<1>9. c[k].before \in Nat /\ Layout!BlockSize(c[k]) = c[k].before + 2
  <2>1. c[k].last # "wide"
    BY DEF AllShort
  <2> QED BY <2>1, ListedIs
<1> QED BY <1>4, <1>5, <1>8, <1>9

(* The sizes cover the listing without a gap.                              *)
LEMMA MeasuredOne ==
  ASSUME NEW c \in Listing, Measurable(c), NEW n \in 1 .. Len(EndsOf(c))
  PROVE  SizeTo(c, EndsOf(c)[n])
           = SizeTo(c, FromOf(EndsOf(c), n) - 1) + MeasureOf(c, EndsOf(c), n)
<1> DEFINE e == EndsOf(c)
           to == e[n]
           from == FromOf(e, n)
           m == from - 1
           d == to - from
           r == [k \in 1 .. to - m |-> Layout!BlockSize(c[m + k])]
           s == Stretch(c, from, to)
<1>0. Len(c) \in Nat
  BY ListedIs
<1>1. from \in 1 .. to /\ to \in 1 .. Len(c) /\ Ends(c, to)
  BY FromIs
<1> HIDE DEF e, from, to
<1>2. m \in 0 .. to /\ to - m = d + 1 /\ d \in Nat /\ to \in 0 .. Len(c)
  BY <1>0, <1>1
<1>3. SizeTo(c, to) = SizeTo(c, m) + SumOf(r)
  <2>1. DOMAIN r = 1 .. to - m /\ \A k \in 1 .. to - m : r[k] = Layout!BlockSize(c[m + k])
    OBVIOUS
  <2> HIDE DEF r, m
  <2> QED BY <1>2, <2>1, SizeToPart
<1>4. OneMore(s, r, d) /\ r[d + 1] = Layout!BlockSize(c[to])
  <2>1. DOMAIN s = 1 .. d
    BY DEF Stretch
  <2>2. DOMAIN r = 1 .. d + 1
    BY <1>2
  <2>3. ASSUME NEW k \in 1 .. d PROVE s[k] = r[k]
    <3>1. from + k - 1 = m + k /\ k \in 1 .. to - m
      BY <1>1, <1>2
    <3>2. s[k] = Layout!BlockSize(c[from + k - 1])
      BY DEF Stretch
    <3> QED BY <3>1, <3>2
  <2>4. d + 1 \in 1 .. to - m /\ m + (d + 1) = to
    BY <1>1, <1>2
  <2>5. r[d + 1] = Layout!BlockSize(c[m + (d + 1)])
    BY <2>4
  <2> HIDE DEF r, s, m
  <2> QED BY <2>1, <2>2, <2>3, <2>4, <2>5 DEF OneMore
<1> HIDE DEF r
<1>5. SumOf(r) = SumOf(s) + Layout!BlockSize(c[to])
  <2>1. d \in Nat
    BY <1>2
  <2> HIDE DEF s, d
  <2>2. SumOf(r) = SumOf(s) + r[d + 1]
    BY <2>1, <1>4, SumOneMore
  <2> QED BY <2>2, <1>4
<1>6. c[to].last # "wide" /\ c[to].before \in Nat
      /\ Layout!BlockSize(c[to]) = c[to].before + 2
  BY <1>1, ListedIs DEF Measurable
<1>7. SumOf(s) \in Nat
  BY <1>1, StretchType
<1>8. SizeTo(c, m) \in Nat
  <2>1. m \in 0 .. Len(c)
    BY <1>0, <1>1
  <2> HIDE DEF m
  <2> QED BY <2>1, SizeToType
<1>9. MeasureOf(c, e, n) = SumOf(s) + c[to].before + 2
  BY DEF MeasureOf, from, to
<1> HIDE DEF s, m
<1>10. SizeTo(c, to) = SizeTo(c, m) + MeasureOf(c, e, n)
  BY <1>3, <1>5, <1>6, <1>7, <1>8, <1>9
<1> QED BY <1>10 DEF m, e, to, from

LEMMA MeasuredSum ==
  ASSUME NEW c \in Listing, Measurable(c), NEW n \in 0 .. Len(EndsOf(c))
  PROVE  SumTo(MeasuredOf(c), n) = SizeTo(c, IF n = 0 THEN 0 ELSE EndsOf(c)[n])
<1> DEFINE e == EndsOf(c)
           s == MeasuredOf(c)
           End(m) == IF m = 0 THEN 0 ELSE e[m]
           T == {m \in Nat : m <= Len(e) => SumTo(s, m) = SizeTo(c, End(m))}
<1>0. Len(e) \in Nat
  BY ListedIs, EndsMore DEF EndsOf
<1>1. 0 \in T
  <2>1. SizeTo(c, 0) = 0
    <3> DEFINE t == [k \in 1 .. 0 |-> Layout!BlockSize(c[k])]
    <3>1. DOMAIN t = {}
      OBVIOUS
    <3> HIDE DEF t
    <3>2. SumOf(t) = 0
      BY <3>1, SumNone
    <3> QED BY <3>2 DEF SizeTo, t
  <2>2. SumTo(s, 0) = 0
    BY SumToZero
  <2> QED BY <2>1, <2>2
<1>2. ASSUME NEW m \in Nat, m \in T PROVE m + 1 \in T
  <2> SUFFICES ASSUME m + 1 <= Len(e) PROVE SumTo(s, m + 1) = SizeTo(c, End(m + 1))
    OBVIOUS
  <2>1. m + 1 \in 1 .. Len(e)
    BY <1>0
  <2>2. SumTo(s, m) = SizeTo(c, End(m))
    BY <1>0, <1>2
  <2>3. SumTo(s, m + 1) = SumTo(s, m) + s[m + 1]
    BY SumToMore
  <2>4. End(m + 1) = e[m + 1] /\ FromOf(e, m + 1) - 1 = End(m)
    <3>1. m # 0 => m \in 1 .. Len(e) /\ e[m] \in Nat
      <4>1. e \in Seq(Nat)
        BY ListedIs, EndsMore DEF EndsOf
      <4> HIDE DEF e
      <4> QED BY <4>1, <2>1, <1>0
    <3>2. (m + 1) - 1 = m /\ m + 1 # 0
      OBVIOUS
    <3> HIDE DEF e
    <3> QED BY <3>1, <3>2 DEF FromOf
  <2>5. s[m + 1] = MeasureOf(c, e, m + 1)
    BY <2>1, MeasuredAt
  <2>6. SizeTo(c, e[m + 1]) = SizeTo(c, FromOf(e, m + 1) - 1) + MeasureOf(c, e, m + 1)
    BY <2>1, MeasuredOne
  <2> HIDE DEF e, s, End
  <2> QED BY <2>2, <2>3, <2>4, <2>5, <2>6
<1>3. n \in T
  <2> HIDE DEF T
  <2> QED BY <1>1, <1>2, Induct
<1>4. SumTo(s, n) = SizeTo(c, End(n))
  BY <1>0, <1>3
<1> QED BY <1>4

LEMMA MeasuredBefore ==
  ASSUME NEW c \in Listing, Measurable(c), NEW n \in 1 .. Len(EndsOf(c))
  PROVE  SumTo(MeasuredOf(c), n - 1) = SizeTo(c, FromOf(EndsOf(c), n) - 1)
<1> DEFINE e == EndsOf(c)
           m == n - 1
<1>1. m \in 0 .. Len(e) /\ e \in Seq(Nat) /\ (m # 0 => m \in 1 .. Len(e))
  BY ListedIs, EndsMore DEF EndsOf
<1>2. FromOf(e, n) - 1 = IF m = 0 THEN 0 ELSE e[m]
  <2> HIDE DEF e
  <2> QED BY <1>1 DEF FromOf
<1>3. SumTo(MeasuredOf(c), m) = SizeTo(c, IF m = 0 THEN 0 ELSE e[m])
  <2> HIDE DEF m
  <2> QED BY <1>1, MeasuredSum
<1> QED BY <1>2, <1>3

LEMMA MeasuredWhole ==
  ASSUME NEW c \in Listing, Measurable(c)
  PROVE  SumOf(MeasuredOf(c)) = SizeTo(c, Len(c))
<1> DEFINE e == EndsOf(c)
           n == Len(e)
<1>0. Len(c) \in Nat /\ Len(c) > 0 /\ Ends(c, Len(c))
  BY ListedIs DEF Measurable, Ends
<1>1. EndsOrdered(c, Len(c), e)
  BY <1>0, EndsOrder DEF EndsOf
<1>2. n \in 0 .. n /\ n # 0 /\ e[n] = Len(c) /\ n \in Nat
  BY <1>0, <1>1 DEF EndsOrdered
<1>3. MeasuredOf(c) \in Seq(Nat) /\ Len(MeasuredOf(c)) = n
  BY MeasuredType
<1>4. SumOf(MeasuredOf(c)) = SumTo(MeasuredOf(c), n)
  <2>1. DOMAIN MeasuredOf(c) = 1 .. n
    BY <1>3
  <2> HIDE DEF n
  <2> QED BY <1>2, <2>1, SumToIs
<1>5. SumTo(MeasuredOf(c), n) = SizeTo(c, IF n = 0 THEN 0 ELSE e[n])
  BY <1>2, MeasuredSum
<1> QED BY <1>2, <1>4, <1>5
-----------------------------------------------------------------------------
(* The operators of BlockLayout in these terms.                            *)
LEMMA LayoutFlatten == ASSUME NEW s PROVE Layout!FlattenSeq(s) = FlattenSeq(s)
BY Zenon DEF FlattenSeq, Layout!FlattenSeq

LEMMA LayoutEnds ==
  ASSUME NEW f, code[f] \in Listing
  PROVE  Layout!Ends(f) = EndsOf(code[f])
<1>1. DOMAIN code[f] = 1 .. Len(code[f])
  BY ListedIs
<1>2. [k \in DOMAIN code[f] |->
         IF code[f][k].last \in {"short", "wide"} THEN <<k>> ELSE <<>>]
        = EndPieces(code[f], Len(code[f]))
  BY <1>1, Zenon DEF EndPieces, EndAt, Ends
<1> QED BY <1>2, LayoutFlatten DEF Layout!Ends, EndsOf, EndsTo

LEMMA LayoutMeasured ==
  ASSUME NEW f, code[f] \in Listing
  PROVE  Layout!Measured(f) = MeasuredOf(code[f])
<1> DEFINE c == code[f]
           e == EndsOf(c)
<1>1. Layout!Ends(f) = e
  BY LayoutEnds
<1> HIDE DEF e
<1>2. \A n \in DOMAIN e :
        (LET to   == e[n]
             from == IF n = 1 THEN 1 ELSE e[n - 1] + 1
         IN  Layout!SumOf([k \in 1 .. to - from |-> Layout!BlockSize(code[f][from + k - 1])])
               + code[f][to].before + 2) = MeasureOf(c, e, n)
  BY LayoutSum, Zenon DEF MeasureOf, FromOf, Stretch
<1>3. Layout!Measured(f) = [n \in DOMAIN e |-> MeasureOf(c, e, n)]
  BY <1>1, <1>2, Zenon DEF Layout!Measured
<1> QED BY <1>3, Zenon DEF MeasuredOf, e

LEMMA LayoutBefore ==
  ASSUME NEW f, sizes[f] \in Seq(Nat), NEW k \in 1 .. Len(sizes[f]) + 1
  PROVE  Layout!Before(f, k) = SumTo(sizes[f], k - 1) /\ Layout!Before(f, k) \in Nat
<1> DEFINE m == k - 1
<1>1. m \in 0 .. Len(sizes[f]) /\ m \in Nat /\ \A j \in 1 .. m : sizes[f][j] \in Nat
  OBVIOUS
<1>2. Layout!Before(f, k) = SumOf(SubSeq(sizes[f], 1, m))
  BY LayoutSum DEF Layout!Before
<1> HIDE DEF m
<1>3. SumOf(SubSeq(sizes[f], 1, m)) = SumTo(sizes[f], m)
  BY <1>1, SumToSub
<1>4. SumTo(sizes[f], m) \in Nat
  BY <1>1, SumToType
<1> QED BY <1>2, <1>3, <1>4 DEF m
-----------------------------------------------------------------------------
(* The inductive invariant of the layout, by what it relates.              *)
O == LayoutOrder
N == Len(LayoutOrder)

LEMMA OrderIs ==
  /\ N \in Nat /\ N > 0 /\ DOMAIN O = 1 .. N
  /\ \A m \in 1 .. N : O[m] \in Layout!Names
  /\ \A f \in Layout!Names : \E m \in 1 .. N : f = O[m]
  /\ \A m, n \in 1 .. N : O[m] = O[n] => m = n
<1>1. /\ LayoutOrder \in Seq(Layout!Names) /\ LayoutOrder # <<>>
      /\ \A m, n \in DOMAIN LayoutOrder : LayoutOrder[m] = LayoutOrder[n] => m = n
  BY LayoutAssumption DEF Layout!Listed
<1>2. N \in Nat /\ N > 0 /\ DOMAIN O = 1 .. N /\ \A m \in 1 .. N : O[m] \in Layout!Names
  BY <1>1 DEF O, N
<1>3. \A f \in Layout!Names : \E m \in 1 .. N : f = O[m]
  BY <1>2 DEF Layout!Names, Layout!ToSet, O
<1> QED BY <1>1, <1>2, <1>3 DEF O

LEMMA CodeIs ==
  ASSUME code \in Listings PROVE \A f \in Layout!Names : code[f] \in Listing
<1>1. Listings \subseteq [Layout!Names -> Seq(Layout!ListedBlock)]
  BY LayoutAssumption DEF Layout!Listed
<1> QED BY <1>1 DEF Listing

Fields ==
  /\ code \in Listings /\ turn \in 1 .. N + 2 /\ block \in Nat \ {0}
  /\ pc \in {"label", "measure", "address", "nop", "done", "stopped"}
  /\ DOMAIN label = Layout!Names /\ DOMAIN sizes = Layout!Names
  /\ start \in [Layout!Names -> Nat] /\ DOMAIN addrs = Layout!Names
  /\ DOMAIN nops = Layout!Names

(* The labels number the blocks.                                           *)
Numbers(c) == [k \in DOMAIN c |-> k]

LabelInv ==
  /\ pc = "label" => \A m \in 1 .. N : m < turn => label[O[m]] = Numbers(code[O[m]])
  /\ pc \in {"measure", "address", "nop", "done"} =>
       \A f \in Layout!Names : label[f] = Numbers(code[f])

(* The sizes are what is measured in the listing, or not there yet.        *)
SizesInv ==
  /\ \A f \in Layout!Names : sizes[f] \in {<<>>, MeasuredOf(code[f])}
  /\ pc = "measure" =>
       \A m \in 1 .. N : m < turn => sizes[O[m]] = MeasuredOf(code[O[m]])
  /\ pc \in {"address", "nop", "done"} =>
       \A f \in Layout!Names : sizes[f] = MeasuredOf(code[f])

(* Every function starts behind those in front of it, and its addresses    *)
(* add up the sizes.                                                       *)
StartOf(s, m) == Layout!Base + SumOf([j \in 1 .. m - 1 |-> SumOf(s[O[j]])])

Addresses(a, s, m) ==
  /\ a \in Seq(Nat) /\ Len(a) >= Len(s[O[m]])
  /\ \A n \in 1 .. Len(s[O[m]]) : a[n] = StartOf(s, m) + SumTo(s[O[m]], n - 1)

AddrInv ==
  /\ pc \in {"label", "measure"} => \A f \in Layout!Names : addrs[f] = <<>>
  /\ \A m \in 1 .. N : addrs[O[m]] # <<>> => Addresses(addrs[O[m]], sizes, m)
  /\ pc = "address" => \A m \in 1 .. N : m < turn <=> addrs[O[m]] # <<>>
  /\ (pc = "address" /\ turn <= N) => start[O[turn]] = StartOf(sizes, turn)

(* The blocks behind the iterator are not padded, those in front of it as  *)
(* the table says.                                                         *)
NeedOf(s, m, k) ==
  Layout!Region - s[O[m]][k] + (IF k = 1 /\ m <= 7 THEN Layout!Correction[m] ELSE 0)

Pads(p, s, m, l) ==
  /\ Len(p) = l
  /\ \A k \in 1 .. l : k \in DOMAIN s[O[m]] =>
       p[k] = Layout!Stores(NeedOf(s, m, k) - 2)

Upto(m) == IF m < turn THEN Len(code[O[m]])
           ELSE IF m = turn THEN block - 1 ELSE 0

NopInv ==
  /\ \A f \in Layout!Names : nops[f] \in Seq(Nat) /\ Len(nops[f]) <= Len(code[f])
  /\ pc \in {"label", "measure", "address"} => \A f \in Layout!Names : nops[f] = <<>>
  /\ pc = "nop" => \A m \in 1 .. N : Pads(nops[O[m]], sizes, m, Upto(m))
  /\ (pc = "nop" /\ turn <= N) => block <= Len(code[O[turn]]) + 1
  /\ pc = "done" => \A m \in 1 .. N : Pads(nops[O[m]], sizes, m, Len(code[O[m]]))

LInv == Fields /\ LabelInv /\ SizesInv /\ AddrInv /\ NopInv

LEMMA SizesType ==
  ASSUME Fields, SizesInv
  PROVE  \A f \in Layout!Names :
           /\ code[f] \in Listing /\ Len(code[f]) \in Nat
           /\ sizes[f] \in Seq(Nat) /\ Len(sizes[f]) <= Len(code[f])
<1> SUFFICES ASSUME NEW f \in Layout!Names
             PROVE  /\ code[f] \in Listing /\ Len(code[f]) \in Nat
                    /\ sizes[f] \in Seq(Nat) /\ Len(sizes[f]) <= Len(code[f])
  OBVIOUS
<1>1. code[f] \in Listing /\ Len(code[f]) \in Nat
  BY CodeIs, ListedIs DEF Fields
<1>2. sizes[f] = <<>> \/ sizes[f] = MeasuredOf(code[f])
  BY DEF SizesInv
<1>3. MeasuredOf(code[f]) \in Seq(Nat) /\ Len(MeasuredOf(code[f])) <= Len(code[f])
  BY <1>1, MeasuredType
<1>4. CASE sizes[f] = <<>>
  BY <1>1, <1>4
<1>5. CASE sizes[f] = MeasuredOf(code[f])
  BY <1>1, <1>3, <1>5
<1> QED BY <1>2, <1>4, <1>5

LEMMA LayoutTyped == LInv => Layout!TypeOK
<1> SUFFICES ASSUME LInv PROVE Layout!TypeOK
  OBVIOUS
<1>1. \A f \in Layout!Names : Len(sizes[f]) <= Len(code[f])
  BY SizesType DEF LInv
<1>2. ASSUME NEW f \in Layout!Names, addrs[f] # <<>>
      PROVE  Len(addrs[f]) >= Len(sizes[f])
  <2>1. PICK m \in 1 .. N : f = O[m]
    BY OrderIs
  <2> QED BY <1>2, <2>1 DEF LInv, AddrInv, Addresses
<1>3. \A f \in Layout!Names : Len(nops[f]) <= Len(code[f])
  BY DEF LInv, NopInv
<1> QED BY <1>1, <1>2, <1>3 DEF LInv, Fields, Layout!TypeOK, N

LEMMA StartFirst == ASSUME NEW s PROVE StartOf(s, 1) = Layout!Base
<1> DEFINE t == [j \in 1 .. 1 - 1 |-> SumOf(s[O[j]])]
<1>1. DOMAIN t = {}
  OBVIOUS
<1> HIDE DEF t
<1>2. SumOf(t) = 0
  BY <1>1, SumNone
<1>3. StartOf(s, 1) = Layout!Base + SumOf(t)
  BY DEF StartOf, t
<1> QED BY <1>2, <1>3 DEF Layout!Base

LEMMA StartType ==
  ASSUME NEW s, \A f \in Layout!Names : s[f] \in Seq(Nat), NEW m \in 1 .. N + 1
  PROVE  /\ StartOf(s, m) \in Nat
         /\ m <= N => StartOf(s, m + 1) = StartOf(s, m) + SumOf(s[O[m]])
<1>0. \A j \in 1 .. N : SumOf(s[O[j]]) \in Nat
  <2> SUFFICES ASSUME NEW j \in 1 .. N PROVE SumOf(s[O[j]]) \in Nat
    OBVIOUS
  <2> DEFINE q == s[O[j]]
             n == Len(q)
  <2>1. n \in Nat /\ DOMAIN q = 1 .. n /\ \A k \in 1 .. n : q[k] \in Nat
    BY OrderIs
  <2> HIDE DEF q, n
  <2>2. SumOf(q) \in Nat
    BY <2>1, SumType
  <2> QED BY <2>2 DEF q
<1> DEFINE t == [j \in 1 .. m - 1 |-> SumOf(s[O[j]])]
           u == [j \in 1 .. (m + 1) - 1 |-> SumOf(s[O[j]])]
           d == m - 1
<1>1. d \in Nat /\ m \in Nat /\ N \in Nat
  BY OrderIs
<1>2. DOMAIN t = 1 .. d /\ \A j \in 1 .. d : t[j] \in Nat
  BY <1>0, <1>1
<1>3. OneMore(t, u, d) /\ (m <= N => u[d + 1] = SumOf(s[O[m]]))
  <2>1. d + 1 = m /\ (m + 1) - 1 = d + 1
    BY <1>1
  <2>2. DOMAIN t = 1 .. d /\ DOMAIN u = 1 .. d + 1
    BY <2>1
  <2>3. \A j \in 1 .. d : t[j] = u[j]
    BY <1>1
  <2>4. u[m] = SumOf(s[O[m]])
    BY <1>1
  <2> HIDE DEF t, u, d
  <2> QED BY <2>1, <2>2, <2>3, <2>4 DEF OneMore
<1> HIDE DEF t, u, d
<1>4. SumOf(t) \in Nat
  BY <1>1, <1>2, SumType
<1>5. SumOf(u) = SumOf(t) + u[d + 1]
  BY <1>1, <1>3, SumOneMore
<1>6. StartOf(s, m) = Layout!Base + SumOf(t) /\ StartOf(s, m + 1) = Layout!Base + SumOf(u)
  BY DEF StartOf, t, u
<1>7. Layout!Base \in Nat
  BY DEF Layout!Base
<1>8. m <= N => SumOf(s[O[m]]) \in Nat
  BY <1>0, <1>1
<1> QED BY <1>3, <1>4, <1>5, <1>6, <1>7, <1>8

(* One lemma per action of the layout.                                     *)
LEMMA LayoutStart == Layout!Init => LInv
<1> SUFFICES ASSUME Layout!Init PROVE LInv
  OBVIOUS
<1>1. /\ code \in Listings /\ pc = "label" /\ turn = 1 /\ block = 1
      /\ label = [f \in Layout!Names |-> <<>>] /\ sizes = [f \in Layout!Names |-> <<>>]
      /\ start = [f \in Layout!Names |-> 0] /\ addrs = [f \in Layout!Names |-> <<>>]
      /\ nops = [f \in Layout!Names |-> <<>>]
  BY DEF Layout!Init
<1>2. Fields
  BY <1>1, OrderIs DEF Fields
<1>3. \A f \in Layout!Names : Len(code[f]) \in Nat
  BY <1>1, CodeIs, ListedIs
<1>4. LabelInv
  BY <1>1, OrderIs DEF LabelInv
<1>5. SizesInv
  BY <1>1 DEF SizesInv
<1>6. AddrInv
  BY <1>1, OrderIs DEF AddrInv
<1>7. NopInv
  BY <1>1, <1>3 DEF NopInv
<1> QED BY <1>2, <1>4, <1>5, <1>6, <1>7 DEF LInv

LEMMA StoppedStep ==
  ASSUME LInv, Layout!Stop PROVE LInv'
<1>1. /\ pc' = "stopped"
      /\ code' = code /\ turn' = turn /\ label' = label /\ sizes' = sizes /\ start' = start
      /\ addrs' = addrs /\ block' = block /\ nops' = nops
  BY DEF Layout!Stop
<1>2. Fields'
  BY <1>1 DEF LInv, Fields
<1>3. LabelInv' /\ SizesInv' /\ AddrInv' /\ NopInv'
  BY <1>1 DEF LInv, LabelInv, SizesInv, AddrInv, NopInv
<1> QED BY <1>2, <1>3 DEF LInv

LEMMA LabelStep == ASSUME LInv, Layout!LabelFunction PROVE LInv'
<1>1. /\ pc = "label" /\ turn <= N /\ turn' = turn + 1 /\ pc' = pc
      /\ label' = [label EXCEPT ![O[turn]] = Numbers(code[O[turn]])]
      /\ code' = code /\ sizes' = sizes /\ start' = start
      /\ addrs' = addrs /\ block' = block /\ nops' = nops
  BY DEF Layout!LabelFunction, Numbers, O, N
<1>2. Fields'
  BY <1>1, OrderIs DEF LInv, Fields
<1>3. turn \in 1 .. N /\ N \in Nat
  BY <1>1, OrderIs DEF LInv, Fields
<1>4. LabelInv'
  <2> SUFFICES ASSUME NEW m \in 1 .. N, m < turn'
               PROVE  label'[O[m]] = Numbers(code[O[m]])
    BY <1>1 DEF LabelInv
  <2>1. O[m] \in DOMAIN label /\ O[turn] \in DOMAIN label
    BY <1>3, OrderIs DEF LInv, Fields
  <2>2. CASE O[m] = O[turn]
    BY <1>1, <2>1, <2>2
  <2>3. CASE O[m] # O[turn]
    <3>1. m < turn
      BY <1>1, <1>3, <2>3
    <3>2. label'[O[m]] = label[O[m]]
      BY <1>1, <2>1, <2>3
    <3> QED BY <1>1, <3>1, <3>2 DEF LInv, LabelInv
  <2> QED BY <2>2, <2>3
<1>5. SizesInv' /\ AddrInv' /\ NopInv'
  BY <1>1 DEF LInv, SizesInv, AddrInv, NopInv
<1> QED BY <1>2, <1>4, <1>5 DEF LInv

LEMMA LabelledStep == ASSUME LInv, Layout!Labelled PROVE LInv'
<1>1. /\ pc = "label" /\ turn > N /\ turn' = 1 /\ block' = 1 /\ pc' = "measure"
      /\ label' = label /\ code' = code /\ sizes' = sizes /\ start' = start
      /\ addrs' = addrs /\ nops' = nops
  BY DEF Layout!Labelled, Layout!GoOn, N
<1>2. Fields'
  BY <1>1, OrderIs DEF LInv, Fields
<1>3. LabelInv'
  <2>1. \A m \in 1 .. N : m < turn
    BY <1>1, OrderIs DEF LInv, Fields
  <2>2. \A m \in 1 .. N : label[O[m]] = Numbers(code[O[m]])
    BY <1>1, <2>1 DEF LInv, LabelInv
  <2> QED BY <1>1, <2>2, OrderIs DEF LabelInv
<1>4. SizesInv' /\ AddrInv' /\ NopInv'
  BY <1>1, OrderIs DEF LInv, SizesInv, AddrInv, NopInv
<1> QED BY <1>2, <1>3, <1>4 DEF LInv

LEMMA MeasureStep == ASSUME LInv, Layout!MeasureFunction PROVE LInv'
<1>1. /\ pc = "measure" /\ turn <= N /\ turn' = turn + 1 /\ pc' = pc
      /\ sizes' = [sizes EXCEPT ![O[turn]] = Layout!Measured(O[turn])]
      /\ code' = code /\ label' = label /\ start' = start
      /\ addrs' = addrs /\ block' = block /\ nops' = nops
  BY DEF Layout!MeasureFunction, O, N
<1>2. Fields'
  BY <1>1, OrderIs DEF LInv, Fields
<1>3. turn \in 1 .. N /\ N \in Nat /\ O[turn] \in Layout!Names
  BY <1>1, OrderIs DEF LInv, Fields
<1>4. Layout!Measured(O[turn]) = MeasuredOf(code[O[turn]])
  BY <1>3, CodeIs, LayoutMeasured DEF LInv, Fields
<1>5. \A f \in Layout!Names : sizes'[f] = IF f = O[turn] THEN MeasuredOf(code[f]) ELSE sizes[f]
  BY <1>1, <1>4 DEF LInv, Fields
<1>6. SizesInv'
  <2>1. \A f \in Layout!Names : sizes'[f] \in {<<>>, MeasuredOf(code[f])}
    BY <1>5 DEF LInv, SizesInv
  <2>2. ASSUME NEW m \in 1 .. N, m < turn' PROVE sizes'[O[m]] = MeasuredOf(code[O[m]])
    <3>1. O[m] \in Layout!Names
      BY OrderIs
    <3>2. CASE O[m] = O[turn]
      BY <1>5, <3>1, <3>2
    <3>3. CASE O[m] # O[turn]
      <4>1. m < turn
        BY <1>1, <1>3, <2>2, <3>3
      <4> QED BY <1>1, <1>5, <3>1, <3>3, <4>1 DEF LInv, SizesInv
    <3> QED BY <3>2, <3>3
  <2> QED BY <1>1, <2>1, <2>2 DEF SizesInv
<1>7. AddrInv'
  <2>1. \A f \in Layout!Names : addrs'[f] = <<>>
    BY <1>1 DEF LInv, AddrInv
  <2> QED BY <1>1, <2>1, OrderIs DEF AddrInv
<1>8. LabelInv' /\ NopInv'
  BY <1>1 DEF LInv, LabelInv, NopInv
<1> QED BY <1>2, <1>6, <1>7, <1>8 DEF LInv

LEMMA MeasuredStep == ASSUME LInv, Layout!MeasureDone PROVE LInv'
<1>1. /\ pc = "measure" /\ turn > N /\ turn' = 1 /\ block' = 1 /\ pc' \in {"address", "nop"}
      /\ start' = [start EXCEPT ![O[1]] = Layout!Base]
      /\ label' = label /\ code' = code /\ sizes' = sizes
      /\ addrs' = addrs /\ nops' = nops
  BY DEF Layout!MeasureDone, Layout!GoOn, N, O
<1>2. Fields'
  BY <1>1, OrderIs DEF LInv, Fields, Layout!Base
<1>3. LabelInv'
  BY <1>1 DEF LInv, LabelInv
<1>4. SizesInv'
  <2>1. \A m \in 1 .. N : m < turn
    BY <1>1, OrderIs DEF LInv, Fields
  <2>2. \A m \in 1 .. N : sizes[O[m]] = MeasuredOf(code[O[m]])
    BY <1>1, <2>1 DEF LInv, SizesInv
  <2> QED BY <1>1, <2>2, OrderIs DEF LInv, SizesInv
<1>5. AddrInv'
  <2>1. \A f \in Layout!Names : addrs'[f] = <<>>
    BY <1>1 DEF LInv, AddrInv
  <2>2. start'[O[1]] = StartOf(sizes, 1)
    <3>1. O[1] \in DOMAIN start
      BY OrderIs DEF LInv, Fields
    <3> QED BY <1>1, <3>1, StartFirst
  <2> QED BY <1>1, <2>1, <2>2, OrderIs DEF AddrInv
<1>6. NopInv'
  <2>1. \A f \in Layout!Names : nops'[f] = <<>> /\ Len(code[f]) \in Nat
    BY <1>1, CodeIs, ListedIs DEF LInv, NopInv, Fields
  <2>2. ASSUME NEW m \in 1 .. N PROVE Pads(nops'[O[m]], sizes', m, Upto(m)')
    <3>1. Upto(m)' = 0
      BY <1>1 DEF Upto
    <3> QED BY <2>1, <3>1, OrderIs DEF Pads
  <2> QED BY <1>1, <2>1, <2>2, OrderIs DEF LInv, NopInv
<1> QED BY <1>2, <1>3, <1>4, <1>5, <1>6 DEF LInv

LEMMA FuncsIs ==
  /\ Layout!Funcs \in Seq(Layout!Names) /\ Len(Layout!Funcs) = N + 1
  /\ \A m \in 1 .. N : Layout!Funcs[m] = O[m]
  /\ Layout!Funcs[N + 1] = O[N]
<1>1. Layout!Funcs = Append(O, O[N])
  BY DEF Layout!Funcs, Layout!Last, O, N
<1>2. O \in Seq(Layout!Names) /\ O[N] \in Layout!Names /\ N = Len(O)
  BY OrderIs, LayoutAssumption DEF Layout!Listed, O, N
<1> QED BY <1>1, <1>2

(* The addresses of one turn of the loop over the records.                 *)
Computed(s, st) ==
  <<st>> \o [k \in 1 .. Len(s) - 1 |-> st + SumTo(s, k)]

LEMMA AddressTurn ==
  ASSUME LInv, Layout!AddressFunction, turn <= N
  PROVE  /\ addrs' = [addrs EXCEPT ![O[turn]] =
                        Computed(sizes[O[turn]], StartOf(sizes, turn))]
         /\ start' = [start EXCEPT ![Layout!Funcs[turn + 1]] = StartOf(sizes, turn + 1)]
<1> DEFINE f == O[turn]
           s == sizes[f]
           st == StartOf(sizes, turn)
<1>0. turn \in 1 .. N /\ N \in Nat /\ f \in Layout!Names /\ pc = "address"
  BY OrderIs DEF LInv, Fields, Layout!AddressFunction
<1>1. Layout!Funcs[turn] = f /\ Len(Layout!Funcs) = N + 1
  BY <1>0, FuncsIs
<1>2. addrs[f] = <<>> /\ start[f] = st
  BY <1>0 DEF LInv, AddrInv
<1>3. \A g \in Layout!Names : sizes[g] \in Seq(Nat)
  BY SizesType DEF LInv
<1>4. s \in Seq(Nat) /\ s # <<>>
  BY <1>0, <1>1, <1>3 DEF Layout!AddressFunction
<1>5. st \in Nat /\ StartOf(sizes, turn + 1) = st + SumOf(s)
  BY <1>0, <1>3, StartType
<1> HIDE DEF f, s, st
<1>6. \A k \in 1 .. Len(s) - 1 : Layout!Before(f, k + 1) = SumTo(s, k)
  <2> SUFFICES ASSUME NEW k \in 1 .. Len(s) - 1
               PROVE  Layout!Before(f, k + 1) = SumTo(s, k)
    OBVIOUS
  <2>1. k + 1 \in 1 .. Len(s) + 1 /\ (k + 1) - 1 = k
    BY <1>4
  <2>2. Layout!Before(f, k + 1) = SumTo(sizes[f], (k + 1) - 1)
    BY <1>4, <2>1, LayoutBefore DEF s
  <2> QED BY <2>1, <2>2 DEF s
<1>7. addrs' = [addrs EXCEPT ![f] = @ \o <<start[f]>> \o
              [k \in 1 .. Len(sizes[f]) - 1 |-> start[f] + Layout!Before(f, k + 1)]]
  BY <1>1, <1>2 DEF Layout!AddressFunction
<1>8. [k \in 1 .. Len(sizes[f]) - 1 |-> start[f] + Layout!Before(f, k + 1)]
        = [k \in 1 .. Len(s) - 1 |-> st + SumTo(s, k)]
  BY <1>2, <1>6 DEF s
<1>9. addrs' = [addrs EXCEPT ![f] = <<>> \o <<st>> \o
                  [k \in 1 .. Len(s) - 1 |-> st + SumTo(s, k)]]
  BY <1>2, <1>7, <1>8, Zenon
<1>10. <<>> \o <<st>> = <<st>>
  BY <1>5
<1>11. addrs' = [addrs EXCEPT ![f] = Computed(s, st)]
  BY <1>9, <1>10 DEF Computed
<1>12. start' = [start EXCEPT ![Layout!Funcs[turn + 1]] = st + SumOf(s)]
  <2>1. turn < Len(Layout!Funcs)
    BY <1>0, <1>1
  <2>2. start' = [start EXCEPT ![Layout!Funcs[turn + 1]] = start[f] + Layout!SumOf(sizes[f])]
    BY <1>1, <1>2, <2>1 DEF Layout!AddressFunction
  <2> QED BY <1>2, <2>2, LayoutSum DEF s
<1> QED BY <1>5, <1>11, <1>12 DEF f, s, st

LEMMA ComputedIs ==
  ASSUME NEW s, (\A f \in Layout!Names : s[f] \in Seq(Nat)), NEW m \in 1 .. N, s[O[m]] # <<>>
  PROVE  /\ Addresses(Computed(s[O[m]], StartOf(s, m)), s, m)
         /\ Computed(s[O[m]], StartOf(s, m)) # <<>>
<1> DEFINE q == s[O[m]]
           st == StartOf(s, m)
           r == [k \in 1 .. Len(q) - 1 |-> st + SumTo(q, k)]
           a == Computed(q, st)
<1>1. q \in Seq(Nat) /\ Len(q) \in Nat /\ Len(q) > 0 /\ m \in 1 .. N + 1
  BY OrderIs
<1>2. st \in Nat
  BY <1>1, StartType
<1>3. SumTo(q, 0) = 0
  BY SumToZero
<1> HIDE DEF q, st
<1>4. \A k \in 0 .. Len(q) : SumTo(q, k) \in Nat
  <2> SUFFICES ASSUME NEW k \in 0 .. Len(q) PROVE SumTo(q, k) \in Nat
    OBVIOUS
  <2>1. k \in Nat /\ \A j \in 1 .. k : q[j] \in Nat
    BY <1>1
  <2> QED BY <2>1, SumToType
<1>5. r \in Seq(Nat) /\ Len(r) = Len(q) - 1
  <2>1. Len(q) - 1 \in Nat /\ \A k \in 1 .. Len(q) - 1 : st + SumTo(q, k) \in Nat
    BY <1>1, <1>2, <1>4
  <2> QED BY <2>1
<1>6. \A k \in 1 .. Len(q) - 1 : r[k] = st + SumTo(q, k)
  OBVIOUS
<1>7. a = <<st>> \o r
  BY DEF Computed
<1> HIDE DEF r, a
<1>8. a \in Seq(Nat) /\ Len(a) = Len(q) /\ a[1] = st
  BY <1>1, <1>2, <1>5, <1>7
<1>9. ASSUME NEW n \in 1 .. Len(q) PROVE a[n] = st + SumTo(q, n - 1)
  <2>1. CASE n = 1
    BY <1>2, <1>3, <1>8, <2>1
  <2>2. CASE n # 1
    <3>1. n - 1 \in 1 .. Len(q) - 1 /\ n \in 1 + 1 .. 1 + Len(r)
      BY <1>1, <1>5, <2>2
    <3>2. a[n] = r[n - 1]
      BY <1>2, <1>5, <1>7, <3>1
    <3> QED BY <3>1, <3>2, <1>6
  <2> QED BY <2>1, <2>2
<1>10. a # <<>>
  BY <1>1, <1>8
<1> QED BY <1>1, <1>8, <1>9, <1>10 DEF Addresses, a, q, st



(* The second turn over the last function only appends.                    *)
LEMMA LastTurn ==
  ASSUME LInv, Layout!AddressFunction, turn = N + 1
  PROVE  /\ start' = start
         /\ \E t \in Seq(Nat) : addrs' = [addrs EXCEPT ![O[N]] = @ \o t]
<1> DEFINE f == O[N]
           st == start[f]
           first == addrs[f][1]
           r == [k \in 1 .. Len(sizes[f]) - 1 |-> first + Layout!Before(f, k + 1)]
<1>0. N \in 1 .. N /\ N \in Nat /\ f \in Layout!Names /\ pc = "address"
  BY OrderIs DEF LInv, Fields, Layout!AddressFunction
<1>1. Layout!Funcs[turn] = f /\ ~(turn < Len(Layout!Funcs))
  BY FuncsIs, OrderIs
<1>2. addrs[f] # <<>> /\ addrs[f] \in Seq(Nat) /\ st \in Nat
  BY <1>0 DEF LInv, Fields, AddrInv, Addresses
<1>3. addrs' = [addrs EXCEPT ![f] = @ \o <<st>> \o r]
  BY <1>1, <1>2 DEF Layout!AddressFunction
<1>4. first \in Nat /\ sizes[f] \in Seq(Nat)
  BY <1>0, <1>2, SizesType DEF LInv
<1>5. \A k \in 1 .. Len(sizes[f]) - 1 : Layout!Before(f, k + 1) \in Nat
  <2> SUFFICES ASSUME NEW k \in 1 .. Len(sizes[f]) - 1
               PROVE  Layout!Before(f, k + 1) \in Nat
    OBVIOUS
  <2>1. k + 1 \in 1 .. Len(sizes[f]) + 1
    BY <1>4
  <2> HIDE DEF f
  <2> QED BY <1>4, <2>1, LayoutBefore
<1>6. r \in Seq(Nat)
  <2> DEFINE n == Len(sizes[f]) - 1
  <2>1. \A k \in 1 .. n : first + Layout!Before(f, k + 1) \in Nat
    BY <1>4, <1>5
  <2>2. n \in Nat
    BY <1>0, <1>1, <1>4 DEF Layout!AddressFunction
  <2> HIDE DEF first, n
  <2> QED BY <2>1, <2>2 DEF n
<1> HIDE DEF r, st, first
<1>7. <<st>> \o r \in Seq(Nat) /\ addrs[f] \o <<st>> \o r = addrs[f] \o (<<st>> \o r)
  <2> DEFINE p == addrs[f]
             q == <<st>>
  <2>1. p \in Seq(Nat) /\ q \in Seq(Nat) /\ r \in Seq(Nat)
    BY <1>2, <1>6
  <2> HIDE DEF p, q
  <2>2. q \o r \in Seq(Nat)
    BY <2>1
  <2>3. p \o q \o r = p \o (q \o r)
    <3>1. Then(Then(p, q), r) = Then(p, Then(q, r))
      BY <2>1, ThenAssociative
    <3> QED BY <3>1, Zenon DEF Then
  <2> QED BY <2>2, <2>3 DEF p, q
<1>8. addrs' = [addrs EXCEPT ![f] = @ \o (<<st>> \o r)]
  BY <1>3, <1>7
<1>9. start' = start
  BY <1>1 DEF Layout!AddressFunction
<1> QED BY <1>7, <1>8, <1>9

LEMMA AddressStep == ASSUME LInv, Layout!AddressFunction PROVE LInv'
<1>1. /\ pc = "address" /\ turn <= N + 1 /\ turn' = turn + 1 /\ pc' = pc
      /\ code' = code /\ label' = label /\ sizes' = sizes
      /\ block' = block /\ nops' = nops
  BY FuncsIs DEF Layout!AddressFunction
<1>2. turn \in 1 .. N + 1 /\ N \in Nat
  BY <1>1, OrderIs DEF LInv, Fields
<1>3. \A f \in Layout!Names : sizes[f] \in Seq(Nat)
  BY SizesType DEF LInv
<1>4. CASE turn <= N
  <2> DEFINE a == Computed(sizes[O[turn]], StartOf(sizes, turn))
  <2>0. turn \in 1 .. N /\ O[turn] \in Layout!Names
    BY <1>2, <1>4, OrderIs
  <2>1. /\ addrs' = [addrs EXCEPT ![O[turn]] = a]
        /\ start' = [start EXCEPT ![Layout!Funcs[turn + 1]] = StartOf(sizes, turn + 1)]
    BY <1>4, AddressTurn
  <2>2. sizes[O[turn]] # <<>>
    BY <2>0, FuncsIs DEF Layout!AddressFunction
  <2>3. Addresses(a, sizes, turn) /\ a # <<>>
    BY <1>3, <2>0, <2>2, ComputedIs
  <2>4. turn + 1 \in 1 .. N + 1 /\ StartOf(sizes, turn + 1) \in Nat
    BY <1>2, <1>3, <1>4, StartType
  <2> HIDE DEF a
  <2>5. Fields'
    <3>1. start' \in [Layout!Names -> Nat]
      BY <2>1, <2>4 DEF LInv, Fields
    <3>2. DOMAIN addrs' = Layout!Names
      BY <2>1 DEF LInv, Fields
    <3>3. turn' \in 1 .. N + 2
      BY <1>1, <1>2
    <3> QED BY <1>1, <3>1, <3>2, <3>3 DEF LInv, Fields
  <2>6. ASSUME NEW m \in 1 .. N
        PROVE  /\ addrs'[O[m]] # <<>> => Addresses(addrs'[O[m]], sizes, m)
               /\ m < turn' <=> addrs'[O[m]] # <<>>
    <3>1. O[m] \in DOMAIN addrs
      BY OrderIs DEF LInv, Fields
    <3>2. CASE m = turn
      <4>1. addrs'[O[m]] = a
        BY <2>1, <3>1, <3>2
      <4> QED BY <1>1, <1>2, <2>3, <3>2, <4>1
    <3>3. CASE m # turn
      <4>1. O[m] # O[turn]
        BY <2>0, <3>3, OrderIs
      <4>2. addrs'[O[m]] = addrs[O[m]]
        BY <2>1, <3>1, <4>1
      <4>3. m < turn' <=> m < turn
        BY <1>1, <1>2, <3>3
      <4>4. m < turn <=> addrs[O[m]] # <<>>
        BY <1>1 DEF LInv, AddrInv
      <4> QED BY <4>2, <4>3, <4>4 DEF LInv, AddrInv
    <3> QED BY <3>2, <3>3
  <2>7. ASSUME turn' <= N PROVE start'[O[turn']] = StartOf(sizes, turn')
    <3>1. Layout!Funcs[turn + 1] = O[turn + 1] /\ O[turn + 1] \in DOMAIN start
      BY <1>1, <1>2, <2>7, OrderIs, FuncsIs DEF LInv, Fields
    <3> QED BY <1>1, <2>1, <3>1
  <2>8. AddrInv'
    BY <1>1, <2>6, <2>7 DEF AddrInv
  <2>9. LabelInv' /\ SizesInv' /\ NopInv'
    BY <1>1 DEF LInv, LabelInv, SizesInv, NopInv
  <2> QED BY <2>5, <2>8, <2>9 DEF LInv
<1>5. CASE turn = N + 1
  <2>0. N \in 1 .. N
    BY OrderIs
  <2>1. start' = start /\ \E t \in Seq(Nat) : addrs' = [addrs EXCEPT ![O[N]] = @ \o t]
    BY <1>5, LastTurn
  <2>2. PICK t \in Seq(Nat) : addrs' = [addrs EXCEPT ![O[N]] = @ \o t]
    BY <2>1
  <2>3. Fields'
    BY <1>1, <1>2, <2>1, <2>2 DEF LInv, Fields
  <2>4. ASSUME NEW m \in 1 .. N
        PROVE  /\ addrs[O[m]] # <<>> /\ addrs'[O[m]] # <<>>
               /\ Addresses(addrs'[O[m]], sizes, m)
    <3>1. O[m] \in DOMAIN addrs /\ O[N] \in DOMAIN addrs
      BY <2>0, OrderIs DEF LInv, Fields
    <3>2. addrs[O[m]] # <<>>
      BY <1>1, <1>2, <1>5 DEF LInv, AddrInv
    <3>3. Addresses(addrs[O[m]], sizes, m)
      BY <3>2 DEF LInv, AddrInv
    <3>4. CASE m = N
      <4> DEFINE a == addrs[O[m]]
                 b == addrs'[O[m]]
      <4>1. b = a \o t
        BY <2>2, <3>1, <3>4
      <4>2. a \in Seq(Nat) /\ a # <<>> /\ Len(a) >= Len(sizes[O[m]])
            /\ \A n \in 1 .. Len(sizes[O[m]]) :
                 a[n] = StartOf(sizes, m) + SumTo(sizes[O[m]], n - 1)
        BY <3>2, <3>3 DEF Addresses
      <4>3. Len(sizes[O[m]]) \in Nat
        BY <1>3, OrderIs
      <4> HIDE DEF a, b
      <4>4. b \in Seq(Nat) /\ Len(b) >= Len(a) /\ b # <<>> /\ \A n \in 1 .. Len(a) : b[n] = a[n]
        BY <4>1, <4>2
      <4>5. Addresses(b, sizes, m)
        BY <4>2, <4>3, <4>4 DEF Addresses
      <4> QED BY <3>2, <4>4, <4>5 DEF b
    <3>5. CASE m # N
      <4>1. O[m] # O[N]
        BY <2>0, <3>5, OrderIs
      <4>2. addrs'[O[m]] = addrs[O[m]]
        BY <2>2, <3>1, <4>1
      <4> QED BY <3>2, <3>3, <4>2
    <3> QED BY <3>4, <3>5
  <2>5. \A m \in 1 .. N : m < turn'
    BY <1>1, <1>2, <1>5
  <2>6. ~(turn' <= N)
    BY <1>1, <1>2, <1>5
  <2>7. AddrInv'
    BY <1>1, <2>4, <2>5, <2>6 DEF AddrInv
  <2>8. LabelInv' /\ SizesInv' /\ NopInv'
    BY <1>1 DEF LInv, LabelInv, SizesInv, NopInv
  <2> QED BY <2>3, <2>7, <2>8 DEF LInv
<1> QED BY <1>2, <1>4, <1>5

LEMMA AddressedStep == ASSUME LInv, Layout!Addressed PROVE LInv'
<1>1. /\ pc = "address" /\ turn' = 1 /\ block' = 1 /\ pc' = "nop"
      /\ code' = code /\ label' = label /\ sizes' = sizes /\ start' = start
      /\ addrs' = addrs /\ nops' = nops
  BY DEF Layout!Addressed, Layout!GoOn
<1>2. Fields'
  BY <1>1, OrderIs DEF LInv, Fields
<1>3. LabelInv' /\ SizesInv' /\ AddrInv'
  BY <1>1 DEF LInv, LabelInv, SizesInv, AddrInv
<1>4. NopInv'
  <2>1. \A f \in Layout!Names : nops'[f] = <<>> /\ Len(code[f]) \in Nat
    BY <1>1, CodeIs, ListedIs DEF LInv, NopInv, Fields
  <2>2. ASSUME NEW m \in 1 .. N PROVE Pads(nops'[O[m]], sizes', m, Upto(m)')
    <3>1. Upto(m)' = 0
      BY <1>1 DEF Upto
    <3> QED BY <2>1, <3>1, OrderIs DEF Pads
  <2> QED BY <1>1, <2>1, <2>2, OrderIs DEF LInv, NopInv
<1> QED BY <1>2, <1>3, <1>4 DEF LInv
-----------------------------------------------------------------------------
LEMMA StoresType == ASSUME NEW n \in Int PROVE Layout!Stores(n) \in Nat
BY DEF Layout!Stores

LEMMA NeedType ==
  ASSUME NEW m \in 1 .. N, sizes[O[m]] \in Seq(Nat), NEW k \in DOMAIN sizes[O[m]]
  PROVE  NeedOf(sizes, m, k) \in Int /\ Layout!Need(m, k) = NeedOf(sizes, m, k)
<1>1. sizes[O[m]][k] \in Nat /\ m \in Nat /\ m >= 1
  BY OrderIs
<1> DEFINE d == IF k = 1 /\ m <= 7 THEN Layout!Correction[m] ELSE 0
<1>2. d \in Int
  <2>1. CASE k = 1 /\ m <= 7
    <3>1. m \in 1 .. 7 /\ d = Layout!Correction[m]
      BY <1>1, <2>1
    <3> HIDE DEF d
    <3>2. m = 1 \/ m = 2 \/ m = 3 \/ m = 4 \/ m = 5 \/ m = 6 \/ m = 7
      BY <3>1
    <3> QED BY <3>1, <3>2 DEF Layout!Correction
  <2>2. CASE ~(k = 1 /\ m <= 7)
    BY <2>2
  <2> QED BY <2>1, <2>2
<1>3. NeedOf(sizes, m, k) = 128 - sizes[O[m]][k] + d
  BY DEF NeedOf, Layout!Region
<1>4. Layout!Need(m, k) = NeedOf(sizes, m, k)
  BY DEF Layout!Need, NeedOf, O
<1> HIDE DEF d
<1> QED BY <1>1, <1>2, <1>3, <1>4

(* What is stored in the block of the iterator.                            *)
LEMMA PadIs ==
  ASSUME LInv, Layout!NopBlock
  PROVE  \E n \in Nat :
           /\ nops' = [nops EXCEPT ![O[turn]] = Append(@, n)]
           /\ block \in DOMAIN sizes[O[turn]] =>
                n = Layout!Stores(NeedOf(sizes, turn, block) - 2)
<1> DEFINE f == O[turn]
<1>1. /\ pc = "nop" /\ turn <= N /\ block <= Len(code[f])
      /\ Layout!Pad(label[f][block])
  BY DEF Layout!NopBlock, Layout!InNop, O, N
<1>2. turn \in 1 .. N /\ f \in Layout!Names /\ block \in Nat \ {0}
  BY <1>1, OrderIs DEF LInv, Fields
<1>3. DOMAIN code[f] = 1 .. Len(code[f]) /\ sizes[f] \in Seq(Nat)
  BY <1>2, CodeIs, ListedIs, SizesType DEF LInv, Fields
<1>4. label[f][block] = block
  <2>1. block \in DOMAIN code[f]
    BY <1>1, <1>2, <1>3
  <2>2. label[f] = Numbers(code[f])
    BY <1>1, <1>2 DEF LInv, LabelInv
  <2> QED BY <2>1, <2>2 DEF Numbers
<1>5. Layout!Pad(block)
  BY <1>1, <1>4
<1>6. CASE block \in DOMAIN sizes[f]
  <2>1. NeedOf(sizes, turn, block) \in Int /\ Layout!Need(turn, block) = NeedOf(sizes, turn, block)
    BY <1>2, <1>3, <1>6, NeedType
  <2>2. Layout!Nops(Layout!Stores(NeedOf(sizes, turn, block) - 2))
    BY <1>5, <1>6, <2>1 DEF Layout!Pad, O
  <2>3. Layout!Stores(NeedOf(sizes, turn, block) - 2) \in Nat
    BY <2>1, StoresType
  <2> QED BY <2>2, <2>3 DEF Layout!Nops, O
<1>7. CASE block \notin DOMAIN sizes[f]
  <2>1. \E n \in {0, 3} : nops' = [nops EXCEPT ![f] = Append(@, n)]
    BY <1>5, <1>7 DEF Layout!Pad, Layout!Nops, Layout!Junk, O
  <2> QED BY <1>7, <2>1
<1> QED BY <1>6, <1>7

LEMMA NopStep == ASSUME LInv, Layout!NopBlock PROVE LInv'
<1> DEFINE f == O[turn]
<1>1. /\ pc = "nop" /\ turn <= N /\ block <= Len(code[f]) /\ block' = block + 1 /\ pc' = pc
      /\ code' = code /\ label' = label /\ sizes' = sizes /\ start' = start
      /\ addrs' = addrs /\ turn' = turn
  BY DEF Layout!NopBlock, Layout!InNop, O, N
<1>2. turn \in 1 .. N /\ f \in Layout!Names /\ block \in Nat \ {0} /\ Len(code[f]) \in Nat
  BY <1>1, OrderIs, CodeIs, ListedIs DEF LInv, Fields
<1>3. PICK n \in Nat :
        /\ nops' = [nops EXCEPT ![f] = Append(@, n)]
        /\ block \in DOMAIN sizes[f] => n = Layout!Stores(NeedOf(sizes, turn, block) - 2)
  BY PadIs
<1>4. \A g \in Layout!Names : nops'[g] = IF g = f THEN Append(nops[f], n) ELSE nops[g]
  BY <1>3 DEF LInv, Fields
<1>5. Pads(nops[f], sizes, turn, block - 1) /\ nops[f] \in Seq(Nat)
  <2>1. Upto(turn) = block - 1
    BY <1>2 DEF Upto
  <2> QED BY <1>1, <1>2, <2>1 DEF LInv, NopInv
<1>6. Pads(nops'[f], sizes, turn, block)
  <2> DEFINE p == nops[f]
             q == nops'[f]
  <2>1. q = Append(p, n) /\ p \in Seq(Nat) /\ Len(p) = block - 1
    BY <1>2, <1>4, <1>5 DEF Pads
  <2>2. /\ Len(q) = block /\ q[block] = n
        /\ \A k \in 1 .. block - 1 : q[k] = p[k]
    <3> HIDE DEF p, q
    <3> QED BY <2>1, <1>2
  <2>3. ASSUME NEW k \in 1 .. block, k \in DOMAIN sizes[f]
        PROVE  q[k] = Layout!Stores(NeedOf(sizes, turn, k) - 2)
    <3>1. CASE k = block
      BY <1>3, <2>2, <2>3, <3>1
    <3>2. CASE k # block
      <4>1. k \in 1 .. block - 1
        BY <1>2, <3>2
      <4>2. p[k] = Layout!Stores(NeedOf(sizes, turn, k) - 2)
        BY <1>5, <2>3, <4>1 DEF Pads
      <4> QED BY <2>2, <4>1, <4>2
    <3> QED BY <3>1, <3>2
  <2> QED BY <2>2, <2>3 DEF Pads
<1>7. Fields'
  BY <1>1, <1>2, <1>3 DEF LInv, Fields
<1>8. LabelInv' /\ SizesInv' /\ AddrInv'
  BY <1>1 DEF LInv, LabelInv, SizesInv, AddrInv
<1>9. NopInv'
  <2>1. ASSUME NEW g \in Layout!Names
        PROVE  nops'[g] \in Seq(Nat) /\ Len(nops'[g]) <= Len(code[g])
    <3>1. nops[g] \in Seq(Nat) /\ Len(nops[g]) <= Len(code[g])
      BY DEF LInv, NopInv
    <3>2. CASE g = f
      <4>1. nops'[g] = Append(nops[g], n) /\ Len(nops[g]) = block - 1
        BY <1>4, <1>5, <3>2 DEF Pads
      <4>2. nops'[g] \in Seq(Nat) /\ Len(nops'[g]) = Len(nops[g]) + 1
        BY <3>1, <4>1
      <4> QED BY <1>1, <1>2, <3>2, <4>1, <4>2
    <3>3. CASE g # f
      BY <1>4, <3>1, <3>3
    <3> QED BY <3>2, <3>3
  <2>2. ASSUME NEW m \in 1 .. N PROVE Pads(nops'[O[m]], sizes', m, Upto(m)')
    <3>1. CASE m = turn
      <4>1. Upto(m)' = block
        BY <1>1, <1>2, <3>1 DEF Upto
      <4> QED BY <1>1, <1>6, <3>1, <4>1
    <3>2. CASE m # turn
      <4>1. O[m] # f /\ O[m] \in Layout!Names
        BY <1>2, <3>2, OrderIs
      <4>2. nops'[O[m]] = nops[O[m]] /\ Upto(m)' = Upto(m)
        BY <1>1, <1>4, <3>2, <4>1 DEF Upto
      <4> QED BY <1>1, <4>2 DEF LInv, NopInv
    <3> QED BY <3>1, <3>2
  <2>3. block' <= Len(code[O[turn]]) + 1
    BY <1>1, <1>2
  <2> QED BY <1>1, <2>1, <2>2, <2>3 DEF NopInv
<1> QED BY <1>7, <1>8, <1>9 DEF LInv

LEMMA LeaveStep == ASSUME LInv, Layout!NopLeave PROVE LInv'
<1> DEFINE f == O[turn]
<1>1. /\ pc = "nop" /\ turn <= N /\ block > Len(code[f]) /\ block' = 1 /\ pc' = pc
      /\ code' = code /\ label' = label /\ sizes' = sizes /\ start' = start
      /\ addrs' = addrs /\ nops' = nops /\ turn' = turn + 1
  BY DEF Layout!NopLeave, Layout!InNop, O, N
<1>2. turn \in 1 .. N /\ block \in Nat \ {0} /\ N \in Nat
      /\ \A m \in 1 .. N : Len(code[O[m]]) \in Nat
  BY <1>1, OrderIs, CodeIs, ListedIs DEF LInv, Fields
<1>3. Fields'
  BY <1>1, <1>2 DEF LInv, Fields
<1>4. LabelInv' /\ SizesInv' /\ AddrInv'
  BY <1>1 DEF LInv, LabelInv, SizesInv, AddrInv
<1>5. NopInv'
  <2>1. \A m \in 1 .. N : Upto(m)' = Upto(m)
    <3>1. block = Len(code[O[turn]]) + 1
      BY <1>1, <1>2 DEF LInv, NopInv
    <3> QED BY <1>1, <1>2, <3>1 DEF Upto
  <2>2. \A m \in 1 .. N : Pads(nops'[O[m]], sizes', m, Upto(m)')
    BY <1>1, <2>1 DEF LInv, NopInv
  <2>3. turn' <= N => block' <= Len(code'[O[turn']]) + 1
    BY <1>1, <1>2
  <2> QED BY <1>1, <2>2, <2>3 DEF LInv, NopInv
<1> QED BY <1>3, <1>4, <1>5 DEF LInv

LEMMA DoneStep == ASSUME LInv, Layout!Done PROVE LInv'
<1>1. /\ pc = "nop" /\ turn > N /\ block' = 1 /\ pc' = "done" /\ turn' = 1
      /\ code' = code /\ label' = label /\ sizes' = sizes /\ start' = start
      /\ addrs' = addrs /\ nops' = nops
  BY DEF Layout!Done, Layout!GoOn, N
<1>2. Fields'
  BY <1>1, OrderIs DEF LInv, Fields
<1>3. LabelInv' /\ SizesInv' /\ AddrInv'
  BY <1>1 DEF LInv, LabelInv, SizesInv, AddrInv
<1>4. NopInv'
  <2>1. \A m \in 1 .. N : Upto(m) = Len(code[O[m]])
    BY <1>1, OrderIs DEF Upto, LInv, Fields
  <2> QED BY <1>1, <2>1 DEF LInv, NopInv
<1> QED BY <1>2, <1>3, <1>4 DEF LInv

LEMMA LayoutNext == LInv /\ [Layout!Next]_(Layout!vars) => LInv'
<1> SUFFICES ASSUME LInv, [Layout!Next]_(Layout!vars) PROVE LInv'
  OBVIOUS
<1>1. CASE Layout!LabelFunction
  BY <1>1, LabelStep
<1>2. CASE Layout!Labelled
  BY <1>2, LabelledStep
<1>3. CASE Layout!MeasureFunction
  BY <1>3, MeasureStep
<1>4. CASE Layout!MeasureDone
  BY <1>4, MeasuredStep
<1>5. CASE Layout!AddressFunction
  BY <1>5, AddressStep
<1>6. CASE Layout!Addressed
  BY <1>6, AddressedStep
<1>7. CASE Layout!NopBlock
  BY <1>7, NopStep
<1>8. CASE Layout!NopLeave
  BY <1>8, LeaveStep
<1>9. CASE Layout!Done
  BY <1>9, DoneStep
<1>10. CASE Layout!MeasureBare \/ Layout!AddressEmpty \/ Layout!NopUninitialised
              \/ Layout!NopTableTooSmall
  BY <1>10, StoppedStep DEF Layout!MeasureBare, Layout!AddressEmpty,
     Layout!NopUninitialised, Layout!NopTableTooSmall
<1>11. CASE Layout!Finished \/ UNCHANGED Layout!vars
  <2>1. /\ code' = code /\ pc' = pc /\ turn' = turn /\ label' = label /\ sizes' = sizes
        /\ start' = start /\ addrs' = addrs /\ block' = block /\ nops' = nops
    BY <1>11 DEF Layout!Finished, Layout!vars
  <2> QED BY <2>1 DEF LInv, Fields, LabelInv, SizesInv, AddrInv, NopInv, Upto
<1> QED BY <1>1, <1>2, <1>3, <1>4, <1>5, <1>6, <1>7, <1>8, <1>9, <1>10, <1>11 DEF Layout!Next

LEMMA LayoutInvariant == Layout!Spec => []LInv
BY LayoutStart, LayoutNext, PTL DEF Layout!Spec

LEMMA LayoutPadded == LInv => PaddedToRegion
<1> SUFFICES ASSUME LInv, pc = "done", NEW f \in Layout!Names, NEW k \in 2 .. Len(code[f]),
                    \A n \in DOMAIN code[f] : code[f][n].last = "short",
                    Layout!BlockSize(code[f][k]) \in 2 .. Layout!Region - 4
             PROVE  Layout!PaddedSize(f, k) = Layout!Region
  BY DEF PaddedToRegion, Layout!PaddedToRegion
<1> DEFINE c == code[f]
           z == Layout!BlockSize(c[k])
           h == c[k].before \div 2
           p == nops[f][k]
<1>1. c \in Listing /\ Len(c) \in Nat /\ k \in 1 .. Len(c) /\ DOMAIN c = 1 .. Len(c)
  BY CodeIs, ListedIs DEF LInv, Fields
<1>2. AllShort(c)
  BY <1>1 DEF AllShort
<1>3. PICK m \in 1 .. N : f = O[m]
  BY OrderIs
<1>4. sizes[f] = MeasuredOf(c)
  BY DEF LInv, SizesInv
<1>5. sizes[f][k] = z /\ k \in DOMAIN sizes[f]
  <2>1. Len(MeasuredOf(c)) = Len(c) /\ MeasuredOf(c)[k] = z
    BY <1>1, <1>2, MeasuredShort
  <2>2. MeasuredOf(c) \in Seq(Nat)
    BY <1>1, MeasuredType
  <2> HIDE DEF c, z
  <2> QED BY <1>1, <1>4, <2>1, <2>2
<1>6. z = 2 * h + 2 /\ h \in Nat
  <2>1. c[k].before \in Nat /\ c[k].before % 2 = 0 /\ z = c[k].before + 2
    <3>1. c[k].last # "wide"
      BY <1>1, <1>2 DEF AllShort
    <3> QED BY <1>1, <3>1, ListedIs
  <2> DEFINE b == c[k].before
  <2> HIDE DEF z
  <2>2. b \in Nat /\ b % 2 = 0 /\ z = b + 2
    BY <2>1
  <2> HIDE DEF b
  <2>3. b = 2 * (b \div 2) /\ b \div 2 \in Nat
    BY <2>2
  <2> QED BY <2>2, <2>3 DEF b
<1>7. NeedOf(sizes, m, k) = 128 - z + 0
  <2>1. ~(k = 1 /\ m <= 7)
    OBVIOUS
  <2> HIDE DEF z
  <2> QED BY <1>3, <1>5, <2>1 DEF NeedOf, Layout!Region
<1>8. p = Layout!Stores(NeedOf(sizes, m, k) - 2)
  <2>1. Pads(nops[O[m]], sizes, m, Len(code[O[m]]))
    BY DEF LInv, NopInv
  <2> QED BY <1>1, <1>3, <1>5, <2>1 DEF Pads
<1>9. z \in 2 .. 124
  BY DEF Layout!Region
<1> HIDE DEF z, h, p, c
<1>10. NeedOf(sizes, m, k) - 2 = 124 - 2 * h /\ h <= 61 /\ h >= 0
  BY <1>6, <1>7, <1>9
<1>11. p = (124 - 2 * h + 1) \div 2
  BY <1>6, <1>8, <1>10 DEF Layout!Stores
<1>12. p = 62 - h
  BY <1>6, <1>10, <1>11
<1>13. Layout!PaddedSize(f, k) = z + (IF p = 0 THEN 0 ELSE 2 + 2 * p)
  BY DEF Layout!PaddedSize, z, p, c
<1> QED BY <1>6, <1>10, <1>12, <1>13 DEF Layout!Region

PlaceOf(f) ==
  LET S == {i \in 1 .. Len(LayoutOrder) : LayoutOrder[i] = f}
  IN  IF S # {} THEN Layout!Min(S) ELSE 0

LEMMA PlaceIs ==
  ASSUME NEW m \in 1 .. N, NEW f, f = O[m]
  PROVE  PlaceOf(f) = m
<1> DEFINE S == {i \in 1 .. Len(LayoutOrder) : LayoutOrder[i] = f}
<1>1. S = {m}
  BY OrderIs DEF O, N
<1>2. Layout!Min({m}) = m
  <2>1. \A x \in {m} : (\A y \in {m} : x =< y) => x = m
    OBVIOUS
  <2>2. m =< m
    BY OrderIs
  <2>3. \E x \in {m} : \A y \in {m} : x =< y
    BY <2>2
  <2>4. Layout!Min({m}) \in {m}
    BY <2>3, Zenon DEF Layout!Min
  <2> QED BY <2>4
<1>3. PlaceOf(f) = IF S # {} THEN Layout!Min(S) ELSE 0
  BY Zenon DEF PlaceOf
<1> HIDE DEF S
<1> QED BY <1>1, <1>2, <1>3

(* What is measured in a function is its size.                             *)
LEMMA SizeIs ==
  ASSUME NEW f, code[f] \in Listing, Layout!Measurable(f)
  PROVE  /\ SumOf(MeasuredOf(code[f])) = Layout!CodeSize(f)
         /\ Len(code[f]) > 0 => Measurable(code[f])
<1> DEFINE c == code[f]
           t == [k \in DOMAIN c |-> Layout!BlockSize(c[k])]
<1>1. Len(c) \in Nat /\ DOMAIN c = 1 .. Len(c)
  BY ListedIs
<1>2. Len(c) > 0 => Measurable(c)
  BY <1>1 DEF Measurable, Layout!Measurable, Layout!Last
<1>3. Layout!CodeSize(f) = SumOf(t)
  BY LayoutSum DEF Layout!CodeSize
<1>4. SizeTo(c, Len(c)) = SumOf(t)
  BY <1>1, Zenon DEF SizeTo
<1>5. CASE Len(c) > 0
  <2>1. SumOf(MeasuredOf(c)) = SizeTo(c, Len(c))
    BY <1>2, <1>5, MeasuredWhole
  <2> QED BY <1>2, <1>3, <1>4, <2>1
<1>6. CASE ~(Len(c) > 0)
  <2>1. MeasuredOf(c) \in Seq(Nat) /\ Len(MeasuredOf(c)) <= Len(c)
    BY MeasuredType
  <2>2. DOMAIN MeasuredOf(c) = {} /\ DOMAIN t = {}
    BY <1>1, <1>6, <2>1
  <2> HIDE DEF t
  <2>3. SumOf(MeasuredOf(c)) = 0 /\ SumOf(t) = 0
    BY <2>2, SumNone
  <2> QED BY <1>3, <1>6, <2>3
<1> QED BY <1>1, <1>5, <1>6

LEMMA LayoutExact == LInv => AddressesExact
<1> SUFFICES ASSUME LInv, pc \in {"nop", "done"},
                    \A f \in Layout!Names : Layout!Measurable(f) /\ addrs[f] # <<>>,
                    NEW f \in Layout!Names, NEW n \in DOMAIN sizes[f]
             PROVE  addrs[f][n] =
                      Layout!TrueAddress(f, IF n = 1 THEN 1 ELSE Layout!Ends(f)[n - 1] + 1)
  BY DEF AddressesExact, Layout!AddressesExact
<1> DEFINE c == code[f]
           from == FromOf(EndsOf(c), n)
<1>1. PICK m \in 1 .. N : f = O[m]
  BY OrderIs
<1>2. c \in Listing /\ Len(c) \in Nat /\ sizes[f] \in Seq(Nat)
      /\ Len(sizes[f]) <= Len(c)
  BY SizesType DEF LInv
<1>3. n \in 1 .. Len(sizes[f])
  BY <1>2
<1>4. Measurable(c)
  BY <1>2, <1>3, SizeIs
<1>5. \A g \in Layout!Names : sizes[g] = MeasuredOf(code[g])
  BY DEF LInv, SizesInv
<1>6. addrs[f][n] = StartOf(sizes, m) + SumTo(sizes[f], n - 1)
  <2>1. Addresses(addrs[f], sizes, m)
    BY <1>1 DEF LInv, AddrInv
  <2> QED BY <1>1, <1>3, <2>1 DEF Addresses
<1>7. SumTo(sizes[f], n - 1) = SizeTo(c, from - 1)
  <2>1. n \in 1 .. Len(EndsOf(c))
    BY <1>2, <1>3, <1>5, MeasuredType
  <2>2. SumTo(MeasuredOf(c), n - 1) = SizeTo(c, from - 1)
    BY <1>2, <1>4, <2>1, MeasuredBefore
  <2> QED BY <1>5, <2>2
<1>8. (IF n = 1 THEN 1 ELSE Layout!Ends(f)[n - 1] + 1) = from
  BY <1>2, LayoutEnds DEF FromOf
<1>9. Layout!TrueAddress(f, from)
        = Layout!Base + SumOf([k \in 1 .. m - 1 |-> Layout!CodeSize(O[k])])
            + SizeTo(c, from - 1)
  <2>1. PlaceOf(f) = m
    BY <1>1, PlaceIs
  <2>2. Layout!TrueAddress(f, from)
          = Layout!Base + SumOf([k \in 1 .. PlaceOf(f) - 1 |-> Layout!CodeSize(O[k])])
              + SizeTo(c, from - 1)
    BY LayoutSum, Zenon DEF Layout!TrueAddress, Layout!SelectInSeq, PlaceOf, SizeTo, O
  <2> QED BY <2>1, <2>2
<1>10. [k \in 1 .. m - 1 |-> Layout!CodeSize(O[k])]
         = [k \in 1 .. m - 1 |-> SumOf(sizes[O[k]])]
  <2>1. ASSUME NEW k \in 1 .. m - 1
        PROVE  Layout!CodeSize(O[k]) = SumOf(sizes[O[k]])
    <3>1. k \in 1 .. N
      BY OrderIs
    <3>2. O[k] \in Layout!Names
      BY <3>1, OrderIs
    <3>3. code[O[k]] \in Listing
      BY <3>2, SizesType DEF LInv
    <3> QED BY <1>5, <3>2, <3>3, SizeIs
  <2> QED BY <2>1
<1> HIDE DEF from, c
<1> QED BY <1>6, <1>7, <1>8, <1>9, <1>10 DEF StartOf

(* The addresses are exact, whatever the functions.                        *)
THEOREM AddressesExactHolds == Layout!Spec => []AddressesExact
BY LayoutInvariant, LayoutExact, PTL

(* The padding fills the region, whatever the functions.                   *)
THEOREM PaddedToRegionHolds == Layout!Spec => []PaddedToRegion
BY LayoutInvariant, LayoutPadded, PTL
-----------------------------------------------------------------------------
(* The code of a block.                                                    *)
Insts == Instruction(Name)
Code == BasicBlock(Name)

Straight(p) == \A j \in 1 .. Len(p) : p[j].to = {}
Closes(t) == t.op \in {"br", "ret"}

(* What ends with a terminator and branches nowhere before.                *)
Shaped(c) ==
  /\ c \in Code /\ Len(c) > 0 /\ Closes(c[Len(c)])
  /\ \A j \in 1 .. Len(c) - 1 : c[j].to = {}

Inner(c) == Erase(Front(c))

(* The branches of a block to b go to n.                                   *)
Moved(c, b, n) == [j \in DOMAIN c |-> Move(c[j], b, n)]

LEMMA MoveIs ==
  ASSUME NEW x \in Insts, NEW b, NEW n \in Nat
  PROVE  /\ Move(x, b, n) \in Insts /\ Move(x, b, n).op = x.op
         /\ Move(x, b, n).callee = x.callee
         /\ Move(x, b, n).to = {IF y = b THEN n ELSE y : y \in x.to}
         /\ x.to = {} => Move(x, b, n) = x
<1>1. x.to \in SUBSET Nat
  BY DEF Insts, Instruction
<1>2. CASE b \in x.to
  <2>1. Move(x, b, n) = [x EXCEPT !.to = (x.to \ {b}) \cup {n}]
    BY <1>2 DEF Move
  <2>2. (x.to \ {b}) \cup {n} \in SUBSET Nat
    BY <1>1
  <2>3. (x.to \ {b}) \cup {n} = {IF y = b THEN n ELSE y : y \in x.to}
    BY <1>2
  <2>4. Move(x, b, n) \in Insts /\ Move(x, b, n).op = x.op
        /\ Move(x, b, n).callee = x.callee
        /\ Move(x, b, n).to = (x.to \ {b}) \cup {n}
    BY <2>1, <2>2 DEF Insts, Instruction
  <2> QED BY <2>3, <2>4, <1>2
<1>3. CASE b \notin x.to
  <2>1. Move(x, b, n) = x
    BY <1>3 DEF Move
  <2>2. x.to = {IF y = b THEN n ELSE y : y \in x.to}
    BY <1>3
  <2> QED BY <2>1, <2>2
<1> QED BY <1>2, <1>3

LEMMA ShapedSplit ==
  ASSUME NEW c, Shaped(c)
  PROVE  \E p \in Code, t \in Insts :
           c = Then(p, One(t)) /\ Straight(p) /\ Closes(t)
<1>1. c \in Seq(Insts) /\ Len(c) # 0
  BY DEF Shaped, Code, BasicBlock, Insts
<1>2. PICK p \in Seq(Insts) : c = Then(p, One(c[Len(c)])) /\ c[Len(c)] \in Insts
  BY <1>1, SplitEnd
<1> DEFINE t == c[Len(c)]
<1>3. Joins(c, p, One(t)) /\ Len(One(t)) = 1
  BY <1>2, OneIs, ThenJoins DEF Single
<1>4. Straight(p)
  <2>1. Len(p) = Len(c) - 1 /\ \A j \in 1 .. Len(p) : c[j] = p[j]
    <3> HIDE DEF t
    <3> QED BY <1>1, <1>2, <1>3 DEF Joins
  <2> QED BY <2>1 DEF Shaped, Straight
<1>5. Closes(t)
  BY DEF Shaped
<1> QED BY <1>2, <1>4, <1>5 DEF Code, BasicBlock, Insts

LEMMA ShapedThen ==
  ASSUME NEW p \in Code, NEW t \in Insts, Straight(p), Closes(t)
  PROVE  /\ Shaped(Then(p, One(t)))
         /\ Front(Then(p, One(t))) = p /\ Last(Then(p, One(t))) = t
         /\ Inner(Then(p, One(t))) = Erase(p) /\ Len(Then(p, One(t))) = Len(p) + 1
<1>1. p \in Seq(Insts) /\ One(t) \in Seq(Insts) /\ Single(One(t), t)
  BY OneIs DEF Code, BasicBlock, Insts
<1> DEFINE c == Then(p, One(t))
<1>2. c \in Seq(Insts) /\ Joins(c, p, One(t))
  BY <1>1, ThenJoins
<1>3. Front(c) = p /\ Last(c) = t
  BY <1>1, EndThen
<1> HIDE DEF c
<1>4. Len(c) = Len(p) + 1 /\ c[Len(c)] = t /\ \A j \in 1 .. Len(p) : c[j] = p[j]
  <2>1. Len(p) \in Nat
    BY <1>1
  <2> QED BY <1>1, <1>2, <2>1 DEF Joins, Single
<1>5. Shaped(c)
  <2>1. \A j \in 1 .. Len(c) - 1 : c[j].to = {}
    BY <1>1, <1>4 DEF Straight
  <2> QED BY <1>1, <1>2, <1>4, <2>1 DEF Shaped, Code, BasicBlock, Insts
<1> QED BY <1>3, <1>4, <1>5 DEF Inner, c

LEMMA MovedThen ==
  ASSUME NEW p \in Code, NEW t \in Insts, Straight(p), NEW b, NEW n \in Nat
  PROVE  Moved(Then(p, One(t)), b, n) = Then(p, One(Move(t, b, n)))
<1> DEFINE c == Then(p, One(t))
           u == Move(t, b, n)
           m == Moved(c, b, n)
<1>1. /\ p \in Seq(Insts) /\ One(t) \in Seq(Insts) /\ Single(One(t), t)
      /\ u \in Insts /\ One(u) \in Seq(Insts) /\ Single(One(u), u)
  BY MoveIs, OneIs DEF Code, BasicBlock, Insts
<1>2. c \in Seq(Insts) /\ Joins(c, p, One(t))
  BY <1>1, ThenJoins
<1>3. m \in Seq(Insts) /\ Len(m) = Len(c) /\ \A j \in 1 .. Len(c) : m[j] = Move(c[j], b, n)
  <2> HIDE DEF c
  <2>1. \A j \in DOMAIN c : Move(c[j], b, n) \in Insts
    BY <1>2, MoveIs
  <2> QED BY <1>2, <2>1 DEF Moved
<1>4. \A j \in 1 .. Len(p) : Move(p[j], b, n) = p[j]
  <2> SUFFICES ASSUME NEW j \in 1 .. Len(p) PROVE Move(p[j], b, n) = p[j]
    OBVIOUS
  <2>1. p[j] \in Insts /\ p[j].to = {}
    BY <1>1 DEF Straight
  <2> QED BY <2>1, MoveIs
<1> HIDE DEF c, m
<1>5. Joins(m, p, One(u))
  BY <1>1, <1>2, <1>3, <1>4 DEF Joins, Single, u
<1> HIDE DEF u
<1> QED BY <1>1, <1>3, <1>5, IsThen DEF c, m, u
-----------------------------------------------------------------------------
(* Counting calls.                                                         *)
CallMap == [x \in Insts |-> IF IsCall(x) THEN One(x) ELSE <<>>]

LEMMA CallMapType == Map(CallMap, Insts, Code) /\ Closed(Code)
<1>1. \A x \in Insts : (IF IsCall(x) THEN One(x) ELSE <<>>) \in Code
  BY BlockOne, EmptyType DEF Code, Insts
<1> QED BY <1>1, InstrClosed DEF CallMap, Map, Code

LEMMA CallsIs ==
  ASSUME NEW c \in Code PROVE Calls(c) = Len(FlatMap(CallMap, c))
<1>1. c \in Seq(Insts) /\ DOMAIN c = 1 .. Len(c)
  BY ElementType DEF Code, Insts, BasicBlock
<1>2. \A j \in DOMAIN c : (IF IsCall(c[j]) THEN <<c[j]>> ELSE <<>>) = CallMap[c[j]]
  BY <1>1 DEF CallMap, One
<1>3. [j \in DOMAIN c |-> IF IsCall(c[j]) THEN <<c[j]>> ELSE <<>>]
        = [j \in DOMAIN c |-> CallMap[c[j]]]
  BY <1>2
<1> QED BY <1>1, <1>3 DEF Calls, FlatMap, Pieces

LEMMA CallsThen ==
  ASSUME NEW p \in Code, NEW q \in Code
  PROVE  /\ Calls(Then(p, q)) = Calls(p) + Calls(q)
         /\ Calls(p) \in Nat /\ Then(p, q) \in Code
<1> DEFINE P == FlatMap(CallMap, p)
           Q == FlatMap(CallMap, q)
<1>1. p \in Seq(Insts) /\ q \in Seq(Insts)
  BY DEF Code, Insts, BasicBlock
<1>2. FlatMap(CallMap, Then(p, q)) = Then(P, Q)
  BY <1>1, CallMapType, FlatMapThen
<1>3. P \in Code /\ Q \in Code
  BY <1>1, CallMapType, FlatMapType
<1>4. Then(p, q) \in Code
  BY BlockThen DEF Code
<1> HIDE DEF P, Q
<1>5. Len(Then(P, Q)) = Len(P) + Len(Q) /\ Len(P) \in Nat
  BY <1>3, ThenLen, ElementType DEF Code
<1> QED BY <1>2, <1>4, <1>5, CallsIs DEF P, Q

LEMMA CallsOne ==
  ASSUME NEW x \in Insts
  PROVE  One(x) \in Code /\ Calls(One(x)) = IF IsCall(x) THEN 1 ELSE 0
<1>1. One(x) \in Code
  BY BlockOne DEF Code, Insts
<1>2. FlatMap(CallMap, One(x)) = IF IsCall(x) THEN One(x) ELSE <<>>
  BY CallMapType, FlatMapOne DEF CallMap
<1>3. Len(One(x)) = 1 /\ Len(<<>>) = 0
  BY OneLen
<1> QED BY <1>1, <1>2, <1>3, CallsIs

LEMMA CallsNone == Calls(<<>>) = 0 /\ <<>> \in Code
<1>1. <<>> \in Code
  BY EmptyType DEF Code
<1>2. FlatMap(CallMap, <<>>) = <<>>
  BY FlatMapNone
<1> QED BY <1>1, <1>2, CallsIs

BranchTo(x) == Branch({x})

LEMMA BranchIs ==
  ASSUME NEW x \in Nat
  PROVE  /\ BranchTo(x) \in Insts /\ Closes(BranchTo(x)) /\ ~IsCall(BranchTo(x))
         /\ BranchTo(x).to = {x}
<1>1. BranchTo(x) = [op |-> "br", callee |-> "-", region |-> "-", num |-> 0, to |-> {x}]
  BY DEF BranchTo, Branch, Inst
<1>2. "-" \in Symbol(Name)
  BY SymbolIs
<1>3. {x} \in SUBSET Nat /\ 0 \in 0 .. 2
  OBVIOUS
<1>4. BranchTo(x) \in Insts
  BY <1>1, <1>2, <1>3 DEF Insts, Instruction
<1> QED BY <1>1, <1>4 DEF Closes, IsCall

LEMMA ClosesIs ==
  ASSUME NEW t \in Insts, Closes(t)
  PROVE  /\ ~IsCall(t) /\ t.op # "phi" /\ Erase(One(t)) = One(t)
         /\ Calls(One(t)) = 0
<1>1. ~IsCall(t) /\ t.op # "phi"
  BY DEF Closes, IsCall
<1>2. EraseMap(Name)[t] = One(t) /\ One(t) \in Code /\ Calls(One(t)) = 0
  BY <1>1, ErasePiece, CallsOne DEF Insts
<1>3. Erase(One(t)) = FlatMap(EraseMap(Name), One(t))
  BY <1>2, EraseIs DEF Code
<1>4. FlatMap(EraseMap(Name), One(t)) = EraseMap(Name)[t]
  BY BlockMapOne, EraseType DEF Insts
<1> QED BY <1>1, <1>2, <1>3, <1>4

(* Moving the branches of a block.                                         *)
LEMMA MovedIs ==
  ASSUME NEW c, Shaped(c), NEW b, NEW n \in Nat
  PROVE  /\ Shaped(Moved(c, b, n)) /\ Inner(Moved(c, b, n)) = Inner(c)
         /\ Last(Moved(c, b, n)) = Move(Last(c), b, n)
         /\ Calls(Moved(c, b, n)) = Calls(c) /\ Len(Moved(c, b, n)) = Len(c)
<1>1. PICK p \in Code, t \in Insts :
        c = Then(p, One(t)) /\ Straight(p) /\ Closes(t)
  BY ShapedSplit
<1> DEFINE u == Move(t, b, n)
<1>2. u \in Insts /\ Closes(u)
  BY <1>1, MoveIs DEF Closes
<1>3. Moved(c, b, n) = Then(p, One(u))
  BY <1>1, MovedThen
<1> HIDE DEF u
<1>4. /\ Shaped(Then(p, One(u))) /\ Last(Then(p, One(u))) = u
      /\ Inner(Then(p, One(u))) = Erase(p) /\ Len(Then(p, One(u))) = Len(p) + 1
  BY <1>1, <1>2, ShapedThen
<1>5. Last(c) = t /\ Inner(c) = Erase(p) /\ Len(c) = Len(p) + 1
  BY <1>1, ShapedThen
<1>6. Calls(c) = Calls(Then(p, One(u)))
  <2>1. Calls(One(t)) = 0 /\ Calls(One(u)) = 0 /\ One(t) \in Code /\ One(u) \in Code
    BY <1>1, <1>2, ClosesIs, CallsOne
  <2>2. Calls(Then(p, One(u))) = Calls(p) + 0 /\ Calls(Then(p, One(t))) = Calls(p) + 0
    BY <2>1, CallsThen
  <2> QED BY <1>1, <2>2
<1> QED BY <1>3, <1>4, <1>5, <1>6 DEF u

(* Cutting a block.                                                        *)
LEMMA CutIs ==
  ASSUME NEW c, Shaped(c), NEW k \in 1 .. Len(c)
  PROVE  \E p, q \in Code, t \in Insts :
           /\ Straight(p) /\ Straight(q) /\ Closes(t)
           /\ c = Then(Then(p, q), One(t)) /\ c = Then(p, Then(q, One(t)))
           /\ Then(p, q) \in Code /\ Straight(Then(p, q))
           /\ SubSeq(c, 1, k - 1) = p /\ SubSeq(c, k, Len(c)) = Then(q, One(t))
           /\ Len(p) = k - 1 /\ Len(Then(q, One(t))) = Len(c) - k + 1
<1>1. c \in Seq(Insts)
  BY DEF Shaped, Code, BasicBlock, Insts
<1>2. k - 1 \in 0 .. Len(c) /\ Len(c) \in Nat /\ k \in Nat
  BY <1>1
<1>3. PICK p, r \in Seq(Insts) : c = Then(p, r) /\ Len(p) = k - 1
  BY <1>1, <1>2, SplitAt
<1>4. Joins(c, p, r)
  BY <1>3, ThenJoins
<1>5. Len(r) = Len(c) - k + 1 /\ Len(r) # 0 /\ Len(r) \in Nat
  BY <1>2, <1>3, <1>4 DEF Joins
<1> DEFINE t == r[Len(r)]
<1>6. PICK q \in Seq(Insts) : r = Then(q, One(t)) /\ t \in Insts
  BY <1>5, SplitEnd
<1>7. Joins(r, q, One(t)) /\ Len(One(t)) = 1 /\ One(t) \in Seq(Insts)
  BY <1>6, OneIs, ThenJoins DEF Single
<1>8. t = c[Len(c)]
  BY <1>2, <1>3, <1>4, <1>5 DEF Joins
<1> HIDE DEF t
<1>9. Closes(t)
  BY <1>8 DEF Shaped
<1>10. /\ Len(q) = Len(r) - 1
       /\ \A j \in 1 .. Len(p) : p[j] = c[j]
       /\ \A j \in 1 .. Len(q) : q[j] = c[k - 1 + j]
  <2>1. Len(q) = Len(r) - 1 /\ \A j \in 1 .. Len(q) : q[j] = r[j]
    <3>1. Len(q) \in Nat /\ Len(r) = Len(q) + 1
      <4>1. q \in Seq(Insts)
        BY <1>6
      <4>2. Len(q) \in Nat
        BY <4>1
      <4>3. Len(r) = Len(q) + Len(One(t))
        BY <1>7 DEF Joins
      <4> QED BY <1>7, <4>2, <4>3
    <3>2. \A j \in 1 .. Len(q) : q[j] = r[j]
      BY <1>7 DEF Joins
    <3> QED BY <3>1, <3>2
  <2>2. \A j \in 1 .. Len(r) : r[j] = c[Len(p) + j]
    BY <1>3, <1>4, <1>2, <1>5 DEF Joins
  <2>3. \A j \in 1 .. Len(p) : p[j] = c[j]
    BY <1>4 DEF Joins
  <2>4. ASSUME NEW j \in 1 .. Len(q) PROVE q[j] = c[k - 1 + j]
    <3>1. Len(p) = k - 1 /\ j \in 1 .. Len(r)
      BY <1>3, <1>5, <2>1
    <3>2. q[j] = r[j] /\ r[j] = c[Len(p) + j]
      BY <2>1, <2>2, <3>1
    <3> QED BY <3>1, <3>2
  <2> QED BY <2>1, <2>3, <2>4
<1>11. Straight(p)
  <2>1. \A j \in 1 .. Len(p) : j \in 1 .. Len(c) - 1
    BY <1>2, <1>3
  <2> QED BY <1>10, <2>1 DEF Shaped, Straight
<1>12. Straight(q)
  <2>1. \A j \in 1 .. Len(q) : k - 1 + j \in 1 .. Len(c) - 1
    BY <1>2, <1>5, <1>10
  <2> QED BY <1>10, <2>1 DEF Shaped, Straight
<1>13. SubSeq(c, 1, k - 1) = p /\ SubSeq(c, k, Len(c)) = r
  <2>1. SubSeq(Then(p, r), 1, Len(p)) = p
        /\ SubSeq(Then(p, r), Len(p) + 1, Len(Then(p, r))) = r
    BY <1>3, CutThen
  <2>2. Len(p) + 1 = k
    BY <1>2, <1>3
  <2> QED BY <1>3, <2>1, <2>2
<1>14. c = Then(Then(p, q), One(t))
  BY <1>3, <1>6, <1>7, ThenAssociative
<1>15. Then(p, q) \in Code /\ p \in Code /\ q \in Code
  BY CallsThen DEF Code, BasicBlock, Insts
<1>16. Straight(Then(p, q))
  <2>1. Joins(Then(p, q), p, q)
    BY ThenJoins
  <2> DEFINE w == Then(p, q)
  <2> HIDE DEF w
  <2>2. \A j \in 1 .. Len(w) : w[j].to = {}
    <3> SUFFICES ASSUME NEW j \in 1 .. Len(w) PROVE w[j].to = {}
      OBVIOUS
    <3>1. Len(p) \in Nat /\ Len(q) \in Nat /\ Joins(w, p, q)
      BY <2>1 DEF w
    <3>2. CASE j <= Len(p)
      BY <1>11, <3>1, <3>2 DEF Joins, Straight
    <3>3. CASE ~(j <= Len(p))
      <4>1. j - Len(p) \in 1 .. Len(q) /\ Len(p) + (j - Len(p)) = j
        BY <3>1, <3>3 DEF Joins
      <4>2. w[j] = q[j - Len(p)]
        BY <3>1, <4>1 DEF Joins
      <4> QED BY <1>12, <4>1, <4>2 DEF Straight
    <3> QED BY <3>2, <3>3
  <2> QED BY <2>2 DEF Straight, w
<1> QED BY <1>3, <1>5, <1>6, <1>9, <1>11, <1>12, <1>13, <1>14, <1>15, <1>16

(* A block of a function.                                                  *)
Part == [id : Nat, code : Code]

PartOf(x, c) == [id |-> x, code |-> c]

LEMMA PartIs ==
  ASSUME NEW x \in Nat, NEW c \in Code
  PROVE  PartOf(x, c) \in Part /\ PartOf(x, c).id = x /\ PartOf(x, c).code = c
BY DEF PartOf, Part

(* Splitting a block in front of an instruction.                           *)
Ahead(c, k, x) == Append(SubSeq(c, 1, k - 1), BranchTo(x))
Behind(c, k, x, n) == Moved(SubSeq(c, k, Len(c)), x, n)

LEMMA SplitCode ==
  ASSUME NEW c, Shaped(c), NEW k \in 1 .. Len(c), NEW x \in Nat, NEW n \in Nat
  PROVE  /\ Shaped(Ahead(c, k, x)) /\ Shaped(Behind(c, k, x, n))
         /\ Last(Ahead(c, k, x)) = BranchTo(x)
         /\ Last(Behind(c, k, x, n)) = Move(Last(c), x, n)
         /\ Inner(c) = Then(Inner(Ahead(c, k, x)), Inner(Behind(c, k, x, n)))
         /\ Inner(Ahead(c, k, x)) \in Code /\ Inner(Behind(c, k, x, n)) \in Code
         /\ Calls(Ahead(c, k, x)) = Calls(SubSeq(c, 1, k - 1))
         /\ Calls(Behind(c, k, x, n)) = Calls(SubSeq(c, k, Len(c)))
         /\ Len(Behind(c, k, x, n)) = Len(c) - k + 1
<1>1. PICK p, q \in Code, t \in Insts :
           /\ Straight(p) /\ Straight(q) /\ Closes(t)
           /\ c = Then(Then(p, q), One(t)) /\ c = Then(p, Then(q, One(t)))
           /\ Then(p, q) \in Code /\ Straight(Then(p, q))
           /\ SubSeq(c, 1, k - 1) = p /\ SubSeq(c, k, Len(c)) = Then(q, One(t))
           /\ Len(p) = k - 1 /\ Len(Then(q, One(t))) = Len(c) - k + 1
  BY CutIs
<1>2. BranchTo(x) \in Insts /\ Closes(BranchTo(x))
  BY BranchIs
<1>3. Ahead(c, k, x) = Then(p, One(BranchTo(x)))
  <2>1. p \in Seq(Insts)
    BY DEF Code, BasicBlock, Insts
  <2>2. Append(p, BranchTo(x)) = p \o <<BranchTo(x)>>
    BY <1>2, <2>1
  <2> QED BY <1>1, <2>2 DEF Ahead, Then, One
<1>4. /\ Shaped(Ahead(c, k, x)) /\ Last(Ahead(c, k, x)) = BranchTo(x)
      /\ Inner(Ahead(c, k, x)) = Erase(p)
  BY <1>1, <1>2, <1>3, ShapedThen
<1>5. /\ Shaped(Then(q, One(t))) /\ Last(Then(q, One(t))) = t
      /\ Inner(Then(q, One(t))) = Erase(q)
  BY <1>1, ShapedThen
<1>6. Behind(c, k, x, n) = Moved(Then(q, One(t)), x, n)
  BY <1>1 DEF Behind
<1>7. /\ Shaped(Behind(c, k, x, n)) /\ Last(Behind(c, k, x, n)) = Move(t, x, n)
      /\ Inner(Behind(c, k, x, n)) = Erase(q)
      /\ Calls(Behind(c, k, x, n)) = Calls(SubSeq(c, k, Len(c)))
      /\ Len(Behind(c, k, x, n)) = Len(c) - k + 1
  BY <1>1, <1>5, <1>6, MovedIs
<1>8. Last(c) = t /\ Inner(c) = Erase(Then(p, q))
  BY <1>1, ShapedThen
<1>9. Erase(Then(p, q)) = Then(Erase(p), Erase(q)) /\ Erase(p) \in Code /\ Erase(q) \in Code
  BY EraseThen DEF Code
<1>10. Calls(Ahead(c, k, x)) = Calls(SubSeq(c, 1, k - 1))
  <2>1. Calls(One(BranchTo(x))) = 0 /\ One(BranchTo(x)) \in Code
    BY <1>2, ClosesIs, CallsOne
  <2>2. Calls(Then(p, One(BranchTo(x)))) = Calls(p) + 0 /\ Calls(p) \in Nat
    BY <2>1, CallsThen
  <2>3. Calls(Then(p, One(BranchTo(x)))) = Calls(p)
    BY <2>2
  <2>4. Calls(Ahead(c, k, x)) = Calls(Then(p, One(BranchTo(x))))
    BY <1>3
  <2>5. Calls(SubSeq(c, 1, k - 1)) = Calls(p)
    BY <1>1
  <2> QED BY <2>3, <2>4, <2>5
<1> QED BY <1>4, <1>7, <1>8, <1>9, <1>10

(* The blocks of a function after the split.                               *)
SplitAs(b, d, j, k) ==
  LET x == b[j].id
      n == Len(b) + 1
  IN  /\ d \in Seq(Part) /\ Len(d) = n
      /\ \A m \in 1 .. j - 1 : d[m] = PartOf(b[m].id, Moved(b[m].code, x, n))
      /\ d[j] = PartOf(n, Ahead(b[j].code, k, x))
      /\ d[j + 1] = PartOf(x, Behind(b[j].code, k, x, n))
      /\ \A m \in j + 1 .. Len(b) : d[m + 1] = PartOf(b[m].id, Moved(b[m].code, x, n))

Parts(b) == b \in Seq(Part) /\ \A m \in 1 .. Len(b) : Shaped(b[m].code)

LEMMA RedirectIs ==
  ASSUME NEW b \in Seq(Part), NEW x, NEW n \in Nat, NEW m \in 1 .. Len(b)
  PROVE  Redirect(b, x, n)[m] = PartOf(b[m].id, Moved(b[m].code, x, n))
<1>1. Redirect(b, x, n)[m] = [b[m] EXCEPT !.code = Moved(b[m].code, x, n)]
  <2> DEFINE g(y) == [y EXCEPT !.code = Moved(y.code, x, n)]
  <2>1. Redirect(b, x, n) = [i \in DOMAIN b |-> g(b[i])]
    BY Zenon DEF Redirect, Moved
  <2>2. m \in DOMAIN b
    OBVIOUS
  <2> HIDE DEF g
  <2>3. Redirect(b, x, n)[m] = g(b[m])
    BY <2>1, <2>2
  <2> QED BY <2>3 DEF g
<1>2. b[m] \in Part
  OBVIOUS
<1>3. b[m] = [id |-> b[m].id, code |-> b[m].code]
  BY <1>2 DEF Part
<1> QED BY <1>1, <1>2, <1>3 DEF PartOf, Part

LEMMA SplitIs ==
  ASSUME NEW b, Parts(b), NEW j \in 1 .. Len(b), NEW k \in 1 .. Len(b[j].code)
  PROVE  SplitAs(b, SplitBefore(b, j, k), j, k)
<1> DEFINE x == b[j].id
           n == Len(b) + 1
           c == b[j].code
           rest == [b EXCEPT ![j].code = SubSeq(@, k, Len(@))]
           r == Redirect(rest, x, n)
           e == PartOf(n, Ahead(c, k, x))
           d == SplitBefore(b, j, k)
<1>1. b \in Seq(Part) /\ Shaped(c) /\ n \in Nat /\ Len(b) \in Nat /\ x \in Nat
  <2>1. b \in Seq(Part) /\ Shaped(c)
    BY DEF Parts
  <2>2. b[j] \in Part /\ Len(b) \in Nat
    BY <2>1
  <2> QED BY <2>1, <2>2 DEF Part
<1>2. e \in Part
  BY <1>1, SplitCode, PartIs DEF Shaped
<1>3. SubSeq(c, k, Len(c)) \in Code
  <2>1. c \in Seq(Insts)
    BY <1>1 DEF Shaped, Code, BasicBlock, Insts
  <2>2. SubSeq(c, k, Len(c)) \in Seq(Insts)
    BY <2>1
  <2> QED BY <2>2 DEF Code, BasicBlock, Insts
<1>4. /\ rest \in Seq(Part) /\ Len(rest) = Len(b)
      /\ rest[j].id = x /\ rest[j].code = SubSeq(c, k, Len(c))
      /\ \A m \in 1 .. Len(b) : m # j => rest[m] = b[m]
  <2> DEFINE g == SubSeq(c, k, Len(c))
             o == [b[j] EXCEPT !.code = g]
  <2>1. b[j] \in Part
    BY <1>1
  <2>2. o \in Part /\ o.id = x /\ o.code = g
    <3> HIDE DEF g
    <3> QED BY <1>3, <2>1 DEF Part, g
  <2>3. rest = [b EXCEPT ![j] = o]
    OBVIOUS
  <2> HIDE DEF o, rest, x
  <2> QED BY <1>1, <2>2, <2>3
<1> HIDE DEF rest
<1>5. \A m \in 1 .. Len(b) :
        /\ m # j => r[m] = PartOf(b[m].id, Moved(b[m].code, x, n))
        /\ m = j => r[m] = PartOf(x, Behind(c, k, x, n))
  <2> SUFFICES ASSUME NEW m \in 1 .. Len(b)
               PROVE  /\ m # j => r[m] = PartOf(b[m].id, Moved(b[m].code, x, n))
                      /\ m = j => r[m] = PartOf(x, Behind(c, k, x, n))
    OBVIOUS
  <2>1. r[m] = PartOf(rest[m].id, Moved(rest[m].code, x, n))
    <3> HIDE DEF x, n
    <3> QED BY <1>1, <1>4, RedirectIs
  <2> QED BY <2>1, <1>4 DEF Behind
<1>6. \A m \in 1 .. Len(b) : r[m] \in Part
  <2> SUFFICES ASSUME NEW m \in 1 .. Len(b) PROVE r[m] \in Part
    OBVIOUS
  <2>1. Shaped(b[m].code) /\ b[m].id \in Nat
    <3>1. b[m] \in Part
      BY <1>1
    <3> QED BY <3>1 DEF Parts, Part
  <2>2. Moved(b[m].code, x, n) \in Code /\ Behind(c, k, x, n) \in Code
    BY <1>1, <2>1, MovedIs, SplitCode DEF Shaped
  <2> HIDE DEF r, x, n, c
  <2>3. m # j => r[m] \in Part
    BY <1>5, <2>1, <2>2, PartIs
  <2>4. m = j => r[m] \in Part
    BY <1>1, <1>5, <2>2, PartIs
  <2> QED BY <2>3, <2>4
<1>7. r \in Seq(Part) /\ Len(r) = Len(b)
  <2>1. r = [m \in 1 .. Len(b) |-> r[m]]
    BY <1>4 DEF Redirect
  <2> HIDE DEF r
  <2> QED BY <1>1, <1>6, <2>1
<1>8. d = InsertAt(r, j, e)
  BY Zenon DEF SplitBefore, rest, Ahead, PartOf, BranchTo
<1> HIDE DEF d, e, r
<1>9. d = SubSeq(r, 1, j - 1) \o <<e>> \o SubSeq(r, j, Len(r))
  BY <1>8 DEF InsertAt
<1>10. /\ d \in Seq(Part) /\ Len(d) = Len(b) + 1
       /\ \A m \in 1 .. j - 1 : d[m] = r[m]
       /\ d[j] = e
       /\ \A m \in j .. Len(b) : d[m + 1] = r[m]
  <2> DEFINE u == SubSeq(r, 1, j - 1)
             w == SubSeq(r, j, Len(r))
  <2>1. /\ u \in Seq(Part) /\ Len(u) = j - 1
        /\ \A m \in 1 .. j - 1 : u[m] = r[m]
    BY <1>1, <1>7
  <2>2. /\ w \in Seq(Part) /\ Len(w) = Len(b) - j + 1
        /\ \A m \in 1 .. Len(b) - j + 1 : w[m] = r[j + m - 1]
    BY <1>1, <1>7
  <2>3. <<e>> \in Seq(Part) /\ Len(<<e>>) = 1 /\ <<e>>[1] = e
    BY <1>2
  <2> HIDE DEF u, w
  <2> DEFINE v == u \o <<e>>
  <2>4. /\ v \in Seq(Part) /\ Len(v) = j /\ v[j] = e
        /\ \A m \in 1 .. j - 1 : v[m] = r[m]
    BY <2>1, <2>3
  <2> HIDE DEF v
  <2>5. d = v \o w
    BY <1>9 DEF u, w, v
  <2>6. /\ d \in Seq(Part) /\ Len(d) = Len(b) + 1
        /\ \A m \in 1 .. j : d[m] = v[m]
        /\ \A m \in 1 .. Len(b) - j + 1 : d[j + m] = w[m]
    <3>1. Joins(d, v, w)
      BY <2>2, <2>4, <2>5, ThenJoins DEF Then
    <3> QED BY <1>1, <2>2, <2>4, <2>5, <3>1 DEF Joins
  <2>7. \A m \in j .. Len(b) : d[m + 1] = r[m]
    <3> SUFFICES ASSUME NEW m \in j .. Len(b) PROVE d[m + 1] = r[m]
      OBVIOUS
    <3> DEFINE i == m - j + 1
    <3>1. i \in 1 .. Len(b) - j + 1 /\ j + i = m + 1 /\ j + i - 1 = m
      BY <1>1
    <3> HIDE DEF i
    <3>2. d[j + i] = w[i] /\ w[i] = r[j + i - 1]
      BY <2>2, <2>6, <3>1
    <3> QED BY <3>1, <3>2
  <2> QED BY <2>4, <2>6, <2>7
<1>11. \A m \in 1 .. j - 1 : m \in 1 .. Len(b) /\ m # j
  BY <1>1
<1>12. \A m \in j + 1 .. Len(b) : m \in 1 .. Len(b) /\ m # j /\ m \in j .. Len(b)
  BY <1>1
<1>13. j \in j .. Len(b) /\ j \in 1 .. Len(b)
  BY <1>1
<1> HIDE DEF x, n, c
<1> QED BY <1>5, <1>10, <1>11, <1>12, <1>13 DEF SplitAs, d, e, x, n, c
-----------------------------------------------------------------------------
(* The parts of a function.  The part that kept the identity of block k of *)
(* the source is at g[k], and the parts the split put in front of it       *)
(* follow the one at g[k - 1].                                             *)
Retarget(x, T) == [x EXCEPT !.to = T]

EntryAt(b, g, t) == b[g[t - 1] + 1].id

Content(b, m, n) == FlattenSeq([i \in 1 .. n - m |-> Inner(b[m + i].code)])

Places(b, s, g) ==
  /\ g \in [0 .. Len(s) -> 0 .. Len(b)]
  /\ g[0] = 0 /\ g[Len(s)] = Len(b)
  /\ \A k \in 1 .. Len(s) : g[k - 1] < g[k]

Identified(b, s, g) ==
  /\ \A k \in 1 .. Len(s) : b[g[k]].id = k
  /\ \A m, n \in 1 .. Len(b) : b[m].id = b[n].id => m = n
  /\ \A m \in 1 .. Len(b) : b[m].id \in 1 .. Len(b)
  /\ \A x \in 1 .. Len(b) : \E m \in 1 .. Len(b) : b[m].id = x

Chained(b, s, g) ==
  \A k \in 1 .. Len(s) : \A j \in g[k - 1] + 1 .. g[k] - 1 :
    Last(b[j].code) = BranchTo(b[j + 1].id)

Filling(b, s, g) ==
  \A k \in 1 .. Len(s) : Content(b, g[k - 1], g[k]) = Inner(s[k])

Aiming(b, s, g) ==
  \A k \in 1 .. Len(s) :
    /\ Shaped(s[k]) /\ Last(s[k]).to \subseteq 1 .. Len(s)
    /\ Last(b[g[k]].code)
         = Retarget(Last(s[k]), {EntryAt(b, g, t) : t \in Last(s[k]).to})

KeptBy(b, s, g) ==
  /\ Parts(b) /\ Len(s) \in Nat
  /\ Places(b, s, g) /\ Identified(b, s, g) /\ Chained(b, s, g)
  /\ Filling(b, s, g) /\ Aiming(b, s, g)

(* How far the counting has come.                                          *)
AtLeastOne(n) == IF n = 0 THEN 1 ELSE n

Whole(b, s, g, k) ==
  g[k] = g[k - 1] + 1 /\ Calls(b[g[k]].code) = Calls(s[k])

Done(b, s, g, k) ==
  /\ g[k] = g[k - 1] + AtLeastOne(Calls(s[k]))
  /\ \A m \in g[k - 1] + 1 .. g[k] : Calls(b[m].code) <= 1

Midway(b, s, g, k, j, i, n) ==
  /\ j = g[k] /\ i \in 1 .. Len(b[j].code) + 1
  /\ g[k] = g[k - 1] + AtLeastOne(n)
  /\ \A m \in g[k - 1] + 1 .. g[k] - 1 : Calls(b[m].code) <= 1
  /\ n + Calls(SubSeq(b[j].code, i, Len(b[j].code))) = Calls(s[k])
  /\ Calls(SubSeq(b[j].code, 1, i - 1)) = IF n = 0 THEN 0 ELSE 1

Reached(b, s, g, j, i, n) ==
  \E k \in 1 .. Len(s) + 1 :
    /\ \A m \in 1 .. k - 1 : Done(b, s, g, m)
    /\ \A m \in k + 1 .. Len(s) : Whole(b, s, g, m)
    /\ i = 0 => j = g[k - 1] + 1 /\ (k <= Len(s) => Whole(b, s, g, k))
    /\ i > 0 => k <= Len(s) /\ Midway(b, s, g, k, j, i, n)

AllWhole(b, s, g) == \A k \in 1 .. Len(s) : Whole(b, s, g, k)
AllDone(b, s, g)  == \A k \in 1 .. Len(s) : Done(b, s, g, k)

(* How the function is to be found: the split has all of it to do, is in   *)
(* it, has left it, or was given up somewhere.                             *)
Phase(m) ==
  IF "split" \in todo THEN "whole"
  ELSE IF pass = "stopped" THEN "any"
  ELSE IF pass # "split" \/ m < fn THEN "done"
  ELSE IF m = fn THEN "now" ELSE "whole"

Staged(p, b, s, g, j, i, n) ==
  /\ p = "whole" => AllWhole(b, s, g)
  /\ p = "now"   => Reached(b, s, g, j, i, n)
  /\ p = "done"  => AllDone(b, s, g)

Tracked(f, p, b, s, j, i, n) ==
  \E g \in [0 .. Len(s) -> 0 .. Len(b)] :
    KeptBy(b, s, g) /\ (SplitSkips(f) \/ Staged(p, b, s, g, j, i, n))

Control ==
  /\ source \in Programs /\ DOMAIN body = Name
  /\ todo \subseteq {"split", "executed"} /\ pass \in {"split", "executed", "none", "stopped"}
  /\ fn \in 1 .. Len(Order) + 1 /\ blk \in Nat \ {0} /\ pos \in Nat /\ calls \in Nat
  /\ pass = "split" => "split" \notin todo
  /\ (Running("split") /\ pos > 0) =>
       ~SplitSkips(F) /\ InBlock /\ pos <= Len(B.code) + 1

BInv ==
  /\ Control
  /\ \A m \in 1 .. Len(Order) :
       Tracked(Order[m], Phase(m), body[Order[m]], source[Order[m]], blk, pos, calls)
-----------------------------------------------------------------------------
(* What a split does to the parts.                                         *)
Follows(p, q, x, n) ==
  /\ q.id = p.id /\ Inner(q.code) = Inner(p.code) /\ Calls(q.code) = Calls(p.code)
  /\ Last(q.code) = Move(Last(p.code), x, n)

Halves(p, q, r, k, x, n) ==
  /\ q.id = n /\ r.id = x
  /\ Last(q.code) = BranchTo(x) /\ Last(r.code) = Move(Last(p.code), x, n)
  /\ Inner(p.code) = Then(Inner(q.code), Inner(r.code))
  /\ Calls(q.code) = Calls(SubSeq(p.code, 1, k - 1))

Halved(b, d, j, k, x, n) ==
  /\ Parts(d) /\ Len(d) = Len(b) + 1
  /\ \A m \in 1 .. j - 1 : Follows(b[m], d[m], x, n)
  /\ Halves(b[j], d[j], d[j + 1], k, x, n)
  /\ \A m \in j + 1 .. Len(b) : Follows(b[m], d[m + 1], x, n)

LEMMA PartsAre ==
  ASSUME NEW b, Parts(b), NEW m \in 1 .. Len(b)
  PROVE  /\ b[m] \in Part /\ b[m].id \in Nat /\ Shaped(b[m].code) /\ b[m].code \in Code
         /\ Len(b) \in Nat
<1>1. b \in Seq(Part) /\ Shaped(b[m].code)
  BY DEF Parts
<1>2. b[m] \in Part /\ Len(b) \in Nat
  BY <1>1
<1> QED BY <1>1, <1>2 DEF Part

LEMMA FollowsIs ==
  ASSUME NEW p, Shaped(p.code), NEW x, NEW n \in Nat, NEW q,
         q = PartOf(p.id, Moved(p.code, x, n))
  PROVE  Follows(p, q, x, n) /\ Shaped(q.code)
<1>1. q.id = p.id /\ q.code = Moved(p.code, x, n)
  BY DEF PartOf
<1> QED BY <1>1, MovedIs DEF Follows

LEMMA SplitHalves ==
  ASSUME NEW b, Parts(b), NEW j \in 1 .. Len(b), NEW k \in 1 .. Len(b[j].code),
         NEW d, SplitAs(b, d, j, k)
  PROVE  Halved(b, d, j, k, b[j].id, Len(b) + 1)
<1> DEFINE x == b[j].id
           n == Len(b) + 1
<1>1. x \in Nat /\ Shaped(b[j].code) /\ Len(b) \in Nat /\ n \in Nat
  BY PartsAre
<1>2. /\ d \in Seq(Part) /\ Len(d) = n
      /\ \A m \in 1 .. j - 1 : d[m] = PartOf(b[m].id, Moved(b[m].code, x, n))
      /\ d[j] = PartOf(n, Ahead(b[j].code, k, x))
      /\ d[j + 1] = PartOf(x, Behind(b[j].code, k, x, n))
      /\ \A m \in j + 1 .. Len(b) : d[m + 1] = PartOf(b[m].id, Moved(b[m].code, x, n))
  BY DEF SplitAs
<1>3. \A m \in 1 .. Len(b) : Shaped(b[m].code)
  BY DEF Parts
<1>4. \A m \in 1 .. j - 1 : m \in 1 .. Len(b)
  BY <1>1
<1>5. \A m \in j + 1 .. Len(b) : m \in 1 .. Len(b)
  BY <1>1
<1>6. n = Len(b) + 1
  OBVIOUS
<1> HIDE DEF x, n
<1>7. \A m \in 1 .. j - 1 : Follows(b[m], d[m], x, n) /\ Shaped(d[m].code)
  BY <1>1, <1>2, <1>3, <1>4, FollowsIs
<1>8. \A m \in j + 1 .. Len(b) : Follows(b[m], d[m + 1], x, n) /\ Shaped(d[m + 1].code)
  BY <1>1, <1>2, <1>3, <1>5, FollowsIs
<1>9. Halves(b[j], d[j], d[j + 1], k, x, n) /\ Shaped(d[j].code) /\ Shaped(d[j + 1].code)
  <2>1. /\ d[j].id = n /\ d[j].code = Ahead(b[j].code, k, x)
        /\ d[j + 1].id = x /\ d[j + 1].code = Behind(b[j].code, k, x, n)
    BY <1>2 DEF PartOf
  <2> QED BY <1>1, <2>1, SplitCode DEF Halves
<1>10. Parts(d)
  <2> SUFFICES ASSUME NEW m \in 1 .. Len(d) PROVE Shaped(d[m].code)
    BY <1>2 DEF Parts
  <2>1. CASE m < j
    BY <1>1, <1>7, <2>1
  <2>2. CASE m = j
    BY <1>9, <2>2
  <2>3. CASE m = j + 1
    BY <1>9, <2>3
  <2>4. CASE m > j + 1
    <3> DEFINE i == m - 1
    <3>1. i \in j + 1 .. Len(b) /\ i + 1 = m
      BY <1>1, <1>2, <1>6, <2>4
    <3> HIDE DEF i
    <3> QED BY <1>8, <3>1
  <2> QED BY <1>1, <2>1, <2>2, <2>3, <2>4
<1> QED BY <1>2, <1>6, <1>7, <1>8, <1>9, <1>10 DEF Halved, x, n

(* The parts move on behind the split.                                     *)
NextPlaces(s, g, j) == [k \in 0 .. Len(s) |-> IF g[k] < j THEN g[k] ELSE g[k] + 1]

LEMMA NextIs ==
  ASSUME NEW s, NEW g, NEW j, NEW k \in 0 .. Len(s)
  PROVE  /\ g[k] < j => NextPlaces(s, g, j)[k] = g[k]
         /\ ~(g[k] < j) => NextPlaces(s, g, j)[k] = g[k] + 1
BY DEF NextPlaces

LEMMA PlacesAre ==
  ASSUME NEW b, NEW s, NEW g, Places(b, s, g), Len(s) \in Nat, Len(b) \in Nat,
         NEW k \in 1 .. Len(s)
  PROVE  /\ k \in 0 .. Len(s) /\ k - 1 \in 0 .. Len(s)
         /\ g[k] \in 1 .. Len(b) /\ g[k - 1] \in 0 .. Len(b) /\ g[k - 1] < g[k]
         /\ g[k - 1] + 1 \in 1 .. Len(b)
<1>1. k \in 0 .. Len(s) /\ k - 1 \in 0 .. Len(s)
  OBVIOUS
<1>2. g[k] \in 0 .. Len(b) /\ g[k - 1] \in 0 .. Len(b) /\ g[k - 1] < g[k]
  BY <1>1 DEF Places
<1> QED BY <1>1, <1>2

LEMMA SplitPlaces ==
  ASSUME NEW b, NEW s, NEW g, Places(b, s, g), Len(s) \in Nat, Len(b) \in Nat,
         NEW d, Len(d) = Len(b) + 1, NEW j \in 1 .. Len(b)
  PROVE  Places(d, s, NextPlaces(s, g, j))
<1> DEFINE h == NextPlaces(s, g, j)
<1>1. \A k \in 0 .. Len(s) : g[k] \in 0 .. Len(b)
  BY DEF Places
<1>2. h \in [0 .. Len(s) -> 0 .. Len(d)]
  BY <1>1 DEF NextPlaces
<1> HIDE DEF h
<1>3. h[0] = 0 /\ h[Len(s)] = Len(d)
  <2>1. g[0] = 0 /\ g[Len(s)] = Len(b) /\ 0 \in 0 .. Len(s) /\ Len(s) \in 0 .. Len(s)
    BY DEF Places
  <2> QED BY <2>1, NextIs DEF h
<1>4. \A k \in 1 .. Len(s) : h[k - 1] < h[k]
  <2> SUFFICES ASSUME NEW k \in 1 .. Len(s) PROVE h[k - 1] < h[k]
    OBVIOUS
  <2>1. /\ k \in 0 .. Len(s) /\ k - 1 \in 0 .. Len(s)
        /\ g[k] \in Nat /\ g[k - 1] \in Nat /\ g[k - 1] < g[k]
    BY PlacesAre
  <2> DEFINE u == g[k - 1]
             v == g[k]
             p == h[k - 1]
             q == h[k]
  <2>2. /\ u < j => p = u
        /\ ~(u < j) => p = u + 1
        /\ v < j => q = v
        /\ ~(v < j) => q = v + 1
    BY <2>1, NextIs DEF h
  <2>3. u \in Nat /\ v \in Nat /\ u < v
    BY <2>1
  <2> HIDE DEF u, v, p, q
  <2>4. p < q
    BY <2>2, <2>3
  <2> QED BY <2>4 DEF p, q
<1> QED BY <1>2, <1>3, <1>4 DEF Places, h

LEMMA SplitIdentified ==
  ASSUME NEW b, NEW s, NEW g, Places(b, s, g), Len(s) \in Nat, Parts(b),
         NEW j \in 1 .. Len(b), NEW k, NEW d, Identified(b, s, g),
         Halved(b, d, j, k, b[j].id, Len(b) + 1)
  PROVE  Identified(d, s, NextPlaces(s, g, j))
<1> DEFINE h == NextPlaces(s, g, j)
           x == b[j].id
           n == Len(b) + 1
<1>1. /\ Len(b) \in Nat /\ Len(d) = n
      /\ \A m \in 1 .. j - 1 : d[m].id = b[m].id
      /\ \A m \in j + 1 .. Len(b) : d[m + 1].id = b[m].id
      /\ d[j].id = n /\ d[j + 1].id = x
  BY PartsAre DEF Halved, Follows, Halves
<1> DEFINE Old(m) == IF m < j THEN m ELSE m - 1
<1>2. \A m \in 1 .. Len(d) : m # j =>
        Old(m) \in 1 .. Len(b) /\ d[m].id = b[Old(m)].id
  <2> SUFFICES ASSUME NEW m \in 1 .. Len(d), m # j
               PROVE  Old(m) \in 1 .. Len(b) /\ d[m].id = b[Old(m)].id
    OBVIOUS
  <2>1. CASE m < j
    BY <1>1, <2>1
  <2>2. CASE m = j + 1
    BY <1>1, <2>2
  <2>3. CASE m > j + 1
    <3> DEFINE i == m - 1
    <3>1. i \in j + 1 .. Len(b) /\ i + 1 = m /\ i \in 1 .. Len(b) /\ Old(m) = i
      BY <1>1, <2>3
    <3> HIDE DEF i, Old
    <3> QED BY <1>1, <3>1
  <2> QED BY <2>1, <2>2, <2>3
<1>3. \A m \in 1 .. Len(b) : b[m].id \in 1 .. Len(b)
  BY DEF Identified
<1>4. \A m, i \in 1 .. Len(b) : b[m].id = b[i].id => m = i
  BY DEF Identified
<1>5. \A i \in 1 .. Len(b) : \E m \in 1 .. Len(b) : b[m].id = i
  BY DEF Identified
<1>6. \A m \in 1 .. Len(d) : d[m].id \in 1 .. Len(d) /\ (d[m].id = n <=> m = j)
  <2> SUFFICES ASSUME NEW m \in 1 .. Len(d)
               PROVE  d[m].id \in 1 .. Len(d) /\ (d[m].id = n <=> m = j)
    OBVIOUS
  <2>1. CASE m = j
    BY <1>1, <2>1
  <2>2. CASE m # j
    <3>1. d[m].id \in 1 .. Len(b)
      <4> HIDE DEF Old
      <4> QED BY <1>2, <1>3, <2>2
    <3> QED BY <1>1, <2>2, <3>1
  <2> QED BY <2>1, <2>2
<1>7. \A m, i \in 1 .. Len(d) : d[m].id = d[i].id => m = i
  <2> SUFFICES ASSUME NEW m \in 1 .. Len(d), NEW i \in 1 .. Len(d), d[m].id = d[i].id
               PROVE  m = i
    OBVIOUS
  <2>1. CASE m = j \/ i = j
    BY <1>6, <2>1
  <2>2. CASE m # j /\ i # j
    <3>1. Old(m) = Old(i)
      <4> HIDE DEF Old
      <4> QED BY <1>2, <1>4, <2>2
    <3> QED BY <3>1, <2>2, <1>1
  <2> QED BY <2>1, <2>2
<1>8. \A i \in 1 .. Len(d) : \E m \in 1 .. Len(d) : d[m].id = i
  <2> SUFFICES ASSUME NEW i \in 1 .. Len(d) PROVE \E m \in 1 .. Len(d) : d[m].id = i
    OBVIOUS
  <2>1. CASE i = n
    BY <1>1, <2>1
  <2>2. CASE i # n
    <3>0. i \in 1 .. Len(b)
      BY <1>1, <2>2
    <3>1. PICK m \in 1 .. Len(b) : b[m].id = i
      BY <1>5, <3>0
    <3>2. CASE m < j
      BY <1>1, <3>1, <3>2
    <3>3. CASE m = j
      BY <1>1, <3>1, <3>3
    <3>4. CASE m > j
      <4>1. m \in j + 1 .. Len(b) /\ m + 1 \in 1 .. Len(d)
        BY <1>1, <3>4
      <4> QED BY <1>1, <3>1, <4>1
    <3> QED BY <1>1, <3>2, <3>3, <3>4
  <2> QED BY <2>1, <2>2
<1>9. \A i \in 1 .. Len(s) : d[h[i]].id = i
  <2> SUFFICES ASSUME NEW i \in 1 .. Len(s) PROVE d[h[i]].id = i
    OBVIOUS
  <2>1. g[i] \in 1 .. Len(b) /\ i \in 0 .. Len(s)
    BY <1>1, PlacesAre
  <2>2. b[g[i]].id = i
    BY DEF Identified
  <2>3. (g[i] < j => h[i] = g[i]) /\ (~(g[i] < j) => h[i] = g[i] + 1)
    BY <2>1, NextIs
  <2> HIDE DEF h
  <2>4. CASE g[i] < j
    BY <1>1, <2>1, <2>2, <2>3, <2>4
  <2>5. CASE g[i] = j
    BY <1>1, <2>1, <2>2, <2>3, <2>5
  <2>6. CASE g[i] > j
    <3>1. g[i] \in j + 1 .. Len(b) /\ h[i] = g[i] + 1
      BY <1>1, <2>1, <2>3, <2>6
    <3> QED BY <1>1, <2>2, <3>1
  <2> QED BY <1>1, <2>1, <2>4, <2>5, <2>6
<1> HIDE DEF h
<1>10. \A m \in 1 .. Len(d) : d[m].id \in 1 .. Len(d)
  BY <1>6
<1> QED BY <1>7, <1>8, <1>9, <1>10 DEF Identified, h
-----------------------------------------------------------------------------
(* Where the branches of the source lead.                                  *)
LEMMA RetargetIs ==
  ASSUME NEW x \in Insts, NEW T \in SUBSET Nat
  PROVE  /\ Retarget(x, T) \in Insts /\ Retarget(x, T).to = T
         /\ \A U : Retarget(Retarget(x, T), U) = Retarget(x, U)
BY DEF Insts, Instruction, Retarget

LEMMA MoveRetarget ==
  ASSUME NEW x \in Insts, NEW b, NEW n \in Nat
  PROVE  Move(x, b, n) = Retarget(x, {IF y = b THEN n ELSE y : y \in x.to})
<1>1. x.to \in SUBSET Nat
  BY DEF Insts, Instruction
<1>2. CASE b \in x.to
  <2>1. Move(x, b, n) = [x EXCEPT !.to = (x.to \ {b}) \cup {n}]
    BY <1>2 DEF Move
  <2>2. (x.to \ {b}) \cup {n} = {IF y = b THEN n ELSE y : y \in x.to}
    BY <1>2
  <2> QED BY <2>1, <2>2 DEF Retarget
<1>3. CASE b \notin x.to
  <2>1. Move(x, b, n) = x
    BY <1>3 DEF Move
  <2>2. x.to = {IF y = b THEN n ELSE y : y \in x.to}
    BY <1>3
  <2>3. [x EXCEPT !.to = x.to] = x
    BY DEF Insts, Instruction
  <2> QED BY <2>1, <2>2, <2>3 DEF Retarget
<1> QED BY <1>2, <1>3

LEMMA MoveBranch ==
  ASSUME NEW y \in Nat, NEW b, NEW n \in Nat
  PROVE  Move(BranchTo(y), b, n) = BranchTo(IF y = b THEN n ELSE y)
<1> DEFINE z == IF y = b THEN n ELSE y
<1>1. BranchTo(y) \in Insts /\ BranchTo(y).to = {y}
  BY BranchIs
<1>2. {IF v = b THEN n ELSE v : v \in {y}} = {z}
  OBVIOUS
<1>3. Move(BranchTo(y), b, n) = Retarget(BranchTo(y), {z})
  BY <1>1, <1>2, MoveRetarget
<1> HIDE DEF z
<1>4. Retarget(BranchTo(y), {z}) = BranchTo(z)
  BY DEF Retarget, BranchTo, Branch, Inst
<1> QED BY <1>3, <1>4 DEF z

(* The parts of a block still lead to each other ...                       *)
LEMMA SplitChained ==
  ASSUME NEW b, NEW s, NEW g, Places(b, s, g), Len(s) \in Nat, Parts(b),
         NEW j \in 1 .. Len(b), NEW k, NEW d, Identified(b, s, g), Chained(b, s, g),
         Halved(b, d, j, k, b[j].id, Len(b) + 1)
  PROVE  Chained(d, s, NextPlaces(s, g, j))
<1> DEFINE h == NextPlaces(s, g, j)
           x == b[j].id
           n == Len(b) + 1
<1>1. /\ Len(b) \in Nat /\ x \in Nat /\ n \in Nat
      /\ \A m \in 1 .. j - 1 : Follows(b[m], d[m], x, n)
      /\ \A m \in j + 1 .. Len(b) : Follows(b[m], d[m + 1], x, n)
      /\ d[j].id = n /\ d[j + 1].id = x
      /\ Last(d[j].code) = BranchTo(x) /\ Last(d[j + 1].code) = Move(Last(b[j].code), x, n)
  BY PartsAre DEF Halved, Halves
<1>2. /\ \A m \in 1 .. Len(b) : b[m].id \in Nat
      /\ \A m \in 1 .. Len(b) : m # j => b[m].id # x
  <2>1. \A m, i \in 1 .. Len(b) : b[m].id = b[i].id => m = i
    BY DEF Identified
  <2> QED BY <2>1, PartsAre
(* Following a link that was there.                                        *)
<1>3. ASSUME NEW m \in 1 .. Len(b), m + 1 \in 1 .. Len(b),
             Last(b[m].code) = BranchTo(b[m + 1].id)
      PROVE  /\ m < j => Last(d[m].code) = BranchTo(d[m + 1].id)
             /\ ~(m < j) => Last(d[m + 1].code) = BranchTo(d[m + 2].id)
  <2> DEFINE y == b[m + 1].id
  <2>1. y \in Nat /\ Move(BranchTo(y), x, n) = BranchTo(IF y = x THEN n ELSE y)
    <3>1. y \in Nat
      BY <1>2, <1>3
    <3> HIDE DEF y, x, n
    <3> QED BY <1>1, <3>1, MoveBranch
  <2>2. m + 1 # j => y # x
    BY <1>2, <1>3
  <2>3. CASE m < j
    <3>1. m \in 1 .. j - 1
      BY <2>3
    <3>2. Last(d[m].code) = Move(BranchTo(y), x, n)
      BY <1>1, <1>3, <3>1 DEF Follows
    <3>3. CASE m + 1 = j
      BY <1>1, <2>1, <2>3, <3>2, <3>3
    <3>4. CASE m + 1 # j
      <4>1. m + 1 \in 1 .. j - 1
        BY <2>3, <3>4
      <4>2. d[m + 1].id = y
        BY <1>1, <4>1 DEF Follows
      <4> QED BY <2>1, <2>2, <2>3, <3>2, <3>4, <4>2
    <3> QED BY <3>3, <3>4
  <2>4. CASE ~(m < j)
    <3>1. m + 1 \in j + 1 .. Len(b) /\ m + 1 # j /\ m + 1 + 1 = m + 2
      BY <1>1, <1>3, <2>4
    <3>2. d[m + 2].id = y
      BY <1>1, <3>1 DEF Follows
    <3>3. Last(d[m + 1].code) = Move(BranchTo(y), x, n)
      <4>1. CASE m = j
        BY <1>1, <1>3, <4>1
      <4>2. CASE m # j
        <5>1. m \in j + 1 .. Len(b)
          BY <1>1, <2>4, <4>2
        <5> QED BY <1>1, <1>3, <5>1 DEF Follows
      <4> QED BY <4>1, <4>2
    <3>4. Last(d[m + 1].code) = BranchTo(y)
      BY <2>1, <2>2, <3>1, <3>3
    <3> QED BY <2>4, <3>2, <3>4
  <2> QED BY <2>3, <2>4
<1>4. SUFFICES ASSUME NEW i \in 1 .. Len(s), NEW m \in h[i - 1] + 1 .. h[i] - 1
               PROVE  Last(d[m].code) = BranchTo(d[m + 1].id)
  BY DEF Chained
<1>5. /\ g[i] \in 1 .. Len(b) /\ i \in 0 .. Len(s) /\ i - 1 \in 0 .. Len(s)
      /\ g[i - 1] \in 0 .. Len(b) /\ g[i - 1] < g[i]
  BY <1>1, PlacesAre
<1>6. /\ (g[i] < j => h[i] = g[i]) /\ (~(g[i] < j) => h[i] = g[i] + 1)
      /\ (g[i - 1] < j => h[i - 1] = g[i - 1])
      /\ (~(g[i - 1] < j) => h[i - 1] = g[i - 1] + 1)
  BY <1>5, NextIs
<1>7. \A q \in g[i - 1] + 1 .. g[i] - 1 : Last(b[q].code) = BranchTo(b[q + 1].id)
  BY DEF Chained
<1> DEFINE u == g[i - 1]
           v == g[i]
           p == h[i - 1]
           r == h[i]
<1>8. /\ u \in Nat /\ v \in 1 .. Len(b) /\ u < v /\ m \in p + 1 .. r - 1
      /\ (v < j => r = v) /\ (~(v < j) => r = v + 1)
      /\ (u < j => p = u) /\ (~(u < j) => p = u + 1)
      /\ \A q \in u + 1 .. v - 1 : Last(b[q].code) = BranchTo(b[q + 1].id)
  BY <1>5, <1>6, <1>7
<1> HIDE DEF h, u, v, p, r
<1>9. CASE m < j
  <2>0. m \in Int /\ p + 1 <= m /\ m <= r - 1
    BY <1>8
  <2>a. u < j /\ p = u
    BY <1>8, <1>9, <2>0
  <2>b. m <= v - 1
    BY <1>8, <1>9, <2>0
  <2>1. m \in u + 1 .. v - 1 /\ m \in 1 .. Len(b) /\ m + 1 \in 1 .. Len(b)
    BY <1>1, <1>8, <2>0, <2>a, <2>b
  <2> QED BY <1>3, <1>8, <1>9, <2>1
<1>10. CASE m = j
  BY <1>1, <1>10
<1>11. CASE m > j
  <2> DEFINE q == m - 1
  <2>1. q \in u + 1 .. v - 1 /\ q \in 1 .. Len(b) /\ q + 1 \in 1 .. Len(b)
        /\ ~(q < j) /\ q + 1 = m /\ q + 2 = m + 1
    BY <1>1, <1>8, <1>11
  <2> HIDE DEF q
  <2>2. Last(d[q + 1].code) = BranchTo(d[q + 2].id)
    BY <1>3, <1>8, <2>1
  <2> QED BY <2>1, <2>2
<1>12. m \in Int
  BY <1>8
<1> QED BY <1>9, <1>10, <1>11, <1>12

(* ... and what led to a block leads to the first of its parts.            *)
Entering(b, d, s, g, j) ==
  \A t \in 1 .. Len(s) :
    EntryAt(d, NextPlaces(s, g, j), t)
      = IF EntryAt(b, g, t) = b[j].id THEN Len(b) + 1 ELSE EntryAt(b, g, t)

LEMMA SplitEntry ==
  ASSUME NEW b, NEW s, NEW g, Places(b, s, g), Len(s) \in Nat, Parts(b),
         NEW j \in 1 .. Len(b), NEW k, NEW d, Identified(b, s, g),
         Halved(b, d, j, k, b[j].id, Len(b) + 1)
  PROVE  Entering(b, d, s, g, j)
<1> SUFFICES ASSUME NEW t \in 1 .. Len(s)
             PROVE  EntryAt(d, NextPlaces(s, g, j), t)
                      = IF EntryAt(b, g, t) = b[j].id THEN Len(b) + 1 ELSE EntryAt(b, g, t)
  BY DEF Entering
<1> DEFINE h == NextPlaces(s, g, j)
           u == g[t - 1]
<1>1. /\ Len(b) \in Nat /\ d[j].id = Len(b) + 1
      /\ \A m \in 1 .. j - 1 : d[m].id = b[m].id
      /\ \A m \in j + 1 .. Len(b) : d[m + 1].id = b[m].id
  BY PartsAre DEF Halved, Halves, Follows
<1>2. u + 1 \in 1 .. Len(b) /\ u \in Nat /\ t - 1 \in 0 .. Len(s)
  <2>1. g[t - 1] + 1 \in 1 .. Len(b) /\ g[t - 1] \in 0 .. Len(b) /\ t - 1 \in 0 .. Len(s)
    BY <1>1, PlacesAre
  <2>2. u + 1 \in 1 .. Len(b) /\ u \in 0 .. Len(b)
    BY <2>1
  <2> HIDE DEF u
  <2> QED BY <1>1, <2>1, <2>2
<1>3. (u < j => h[t - 1] = u) /\ (~(u < j) => h[t - 1] = u + 1)
  BY <1>2, NextIs
<1>4. \A m, i \in 1 .. Len(b) : b[m].id = b[i].id => m = i
  BY DEF Identified
<1> HIDE DEF h, u
<1>5. EntryAt(b, g, t) = b[u + 1].id /\ EntryAt(d, h, t) = d[h[t - 1] + 1].id
  BY DEF EntryAt, u
<1>6. CASE u + 1 < j
  <2>1. u + 1 \in 1 .. j - 1
    BY <1>2, <1>6
  <2>2. b[u + 1].id # b[j].id
    BY <1>2, <1>4, <1>6
  <2>3. h[t - 1] = u
    BY <1>2, <1>3, <1>6
  <2> QED BY <1>1, <1>5, <2>1, <2>2, <2>3 DEF h
<1>7. CASE u + 1 = j
  <2>1. h[t - 1] = u
    BY <1>2, <1>3, <1>7
  <2> QED BY <1>1, <1>5, <1>7, <2>1 DEF h
<1>8. CASE u + 1 > j
  <2>1. u + 1 \in j + 1 .. Len(b)
    BY <1>1, <1>2, <1>8
  <2>2. b[u + 1].id # b[j].id
    BY <1>2, <1>4, <1>8
  <2>3. h[t - 1] = u + 1
    BY <1>2, <1>3, <1>8
  <2> QED BY <1>1, <1>5, <2>1, <2>2, <2>3 DEF h
<1> QED BY <1>2, <1>6, <1>7, <1>8

LEMMA SplitAiming ==
  ASSUME NEW b, NEW s, NEW g, Places(b, s, g), Len(s) \in Nat, Parts(b),
         NEW j \in 1 .. Len(b), NEW k, NEW d, Identified(b, s, g), Aiming(b, s, g),
         Halved(b, d, j, k, b[j].id, Len(b) + 1)
  PROVE  Aiming(d, s, NextPlaces(s, g, j))
<1> DEFINE h == NextPlaces(s, g, j)
           x == b[j].id
           n == Len(b) + 1
<1>1. /\ Len(b) \in Nat /\ x \in Nat /\ n \in Nat
      /\ \A m \in 1 .. j - 1 : Follows(b[m], d[m], x, n)
      /\ \A m \in j + 1 .. Len(b) : Follows(b[m], d[m + 1], x, n)
      /\ Last(d[j + 1].code) = Move(Last(b[j].code), x, n)
  BY PartsAre DEF Halved, Halves
<1>2. SUFFICES ASSUME NEW i \in 1 .. Len(s)
               PROVE  Last(d[h[i]].code)
                        = Retarget(Last(s[i]), {EntryAt(d, h, t) : t \in Last(s[i]).to})
  BY DEF Aiming
<1> DEFINE y == Last(s[i])
           T == {EntryAt(b, g, t) : t \in y.to}
           U == {EntryAt(d, h, t) : t \in y.to}
<1>3. Shaped(s[i]) /\ y.to \subseteq 1 .. Len(s) /\ Last(b[g[i]].code) = Retarget(y, T)
  BY DEF Aiming
<1>4. y \in Insts
  <2>1. PICK p \in Code, t \in Insts :
          s[i] = Then(p, One(t)) /\ Straight(p) /\ Closes(t)
    BY <1>3, ShapedSplit
  <2> QED BY <2>1, ShapedThen
<1>5. \A t \in y.to : EntryAt(b, g, t) \in Nat
  <2> SUFFICES ASSUME NEW t \in 1 .. Len(s) PROVE EntryAt(b, g, t) \in Nat
    BY <1>3
  <2>1. g[t - 1] + 1 \in 1 .. Len(b)
    BY <1>1, PlacesAre
  <2> QED BY <2>1, PartsAre DEF EntryAt
<1>6. \A t \in y.to : EntryAt(d, h, t) = IF EntryAt(b, g, t) = x THEN n ELSE EntryAt(b, g, t)
  <2> SUFFICES ASSUME NEW t \in y.to
               PROVE  EntryAt(d, h, t) = IF EntryAt(b, g, t) = x THEN n ELSE EntryAt(b, g, t)
    OBVIOUS
  <2>1. t \in 1 .. Len(s)
    BY <1>3
  <2> HIDE DEF y
  <2>2. Entering(b, d, s, g, j)
    BY SplitEntry
  <2> QED BY <2>1, <2>2 DEF Entering
<1>7. U = {IF z = x THEN n ELSE z : z \in T}
  <2> HIDE DEF h, x, n, y
  <2> QED BY <1>6
<1>8. T \in SUBSET Nat
  BY <1>5
<1> HIDE DEF T, U, y, x, n
<1>9. Move(Retarget(y, T), x, n) = Retarget(y, U)
  <2>1. Retarget(y, T) \in Insts /\ Retarget(y, T).to = T
    BY <1>4, <1>8, RetargetIs
  <2>2. Move(Retarget(y, T), x, n) = Retarget(Retarget(y, T), U)
    BY <1>1, <1>7, <2>1, MoveRetarget
  <2> QED BY <1>4, <1>8, <2>2, RetargetIs
<1>10. g[i] \in 1 .. Len(b) /\ i \in 0 .. Len(s)
  BY <1>1, PlacesAre
<1>11. (g[i] < j => h[i] = g[i]) /\ (~(g[i] < j) => h[i] = g[i] + 1)
  BY <1>10, NextIs
<1> HIDE DEF h
<1>12. Last(d[h[i]].code) = Move(Last(b[g[i]].code), x, n)
  <2>1. CASE g[i] < j
    <3>1. g[i] \in 1 .. j - 1
      BY <1>10, <2>1
    <3> QED BY <1>1, <1>11, <2>1, <3>1 DEF Follows
  <2>2. CASE g[i] = j
    BY <1>1, <1>10, <1>11, <2>2
  <2>3. CASE g[i] > j
    <3>1. g[i] \in j + 1 .. Len(b) /\ h[i] = g[i] + 1
      BY <1>1, <1>10, <1>11, <2>3
    <3> QED BY <1>1, <3>1 DEF Follows
  <2> QED BY <1>10, <2>1, <2>2, <2>3
<1> QED BY <1>3, <1>9, <1>12 DEF U, y, h
-----------------------------------------------------------------------------
(* What the parts of a block hold together.                                *)
LEMMA FlattenOne ==
  ASSUME NEW Q, Closed(Q), NEW e \in Q
  PROVE  FlattenSeq(One(e)) = e
<1>1. <<>> \in Seq(Q) /\ Append(<<>>, e) = One(e)
  BY DEF One
<1>2. FlattenSeq(Append(<<>>, e)) = <<>> \o e
  BY <1>1, FlattenAppend, FlattenNone
<1> QED BY <1>1, <1>2 DEF Closed

LEMMA FlattenMore ==
  ASSUME NEW Q, Closed(Q), NEW e \in Q, NEW y \in Seq(Q)
  PROVE  FlattenSeq(Then(One(e), y)) = Then(e, FlattenSeq(y))
<1>1. One(e) \in Seq(Q)
  BY OneIs
<1>2. FlattenSeq(Then(One(e), y)) = Then(FlattenSeq(One(e)), FlattenSeq(y))
  BY <1>1, FlattenThen
<1> QED BY <1>2, FlattenOne

LEMMA ClosedThen ==
  ASSUME NEW Q, Closed(Q), NEW a \in Q, NEW c \in Q, NEW e \in Q
  PROVE  Then(Then(a, c), e) = Then(a, Then(c, e))
<1>1. \A x, y, z \in Q : (x \o y) \o z = x \o (y \o z)
  BY Zenon DEF Closed
<1>2. (a \o c) \o e = a \o (c \o e)
  BY <1>1, Zenon
<1> QED BY <1>2, Zenon DEF Then

LEMMA FlattenHalves ==
  ASSUME NEW Q, Closed(Q), NEW p \in Seq(Q), NEW r \in Seq(Q), NEW i \in 1 .. Len(p),
         Len(r) = Len(p) + 1,
         \A m \in 1 .. i - 1 : r[m] = p[m],
         p[i] = Then(r[i], r[i + 1]),
         \A m \in i + 1 .. Len(p) : r[m + 1] = p[m]
  PROVE  FlattenSeq(r) = FlattenSeq(p)
<1>1. Len(p) \in Nat /\ i - 1 \in 0 .. Len(p) /\ i \in 1 .. Len(r) /\ i + 1 \in 1 .. Len(r)
  OBVIOUS
<1>2. PICK x, z \in Seq(Q) : p = Then(x, z) /\ Len(x) = i - 1
  BY <1>1, SplitAt
<1>3. Joins(p, x, z)
  BY <1>2, ThenJoins
<1>4. Len(z) = Len(p) - i + 1 /\ Len(z) # 0
  <2>1. Len(z) \in Nat /\ Len(p) = Len(x) + Len(z)
    BY <1>2, <1>3 DEF Joins
  <2> QED BY <1>1, <1>2, <2>1
<1>5. PICK y \in Seq(Q) : z = Then(One(z[1]), y) /\ z[1] \in Q
  BY <1>4, SplitHead
<1> DEFINE e == z[1]
           a == r[i]
           c == r[i + 1]
<1>6. /\ One(e) \in Seq(Q) /\ Len(One(e)) = 1
      /\ Joins(z, One(e), y)
  BY <1>5, OneIs, ThenJoins DEF Single
<1>7. a \in Q /\ c \in Q
  BY <1>1
<1>8. e = p[i]
  <2>1. 1 \in 1 .. Len(z) /\ Len(x) + 1 = i
    BY <1>1, <1>2, <1>4
  <2>2. p[Len(x) + 1] = z[1]
    BY <1>3, <2>1 DEF Joins
  <2> QED BY <2>1, <2>2
<1>9. Len(y) = Len(p) - i /\ \A m \in 1 .. Len(y) : y[m] = p[i + m]
  <2>1. Len(y) \in Nat /\ Len(z) = 1 + Len(y)
    BY <1>5, <1>6 DEF Joins
  <2>2. \A m \in 1 .. Len(y) : 1 + m \in 1 .. Len(z) /\ z[1 + m] = y[m]
    <3> HIDE DEF e
    <3> QED BY <1>6, <2>1 DEF Joins
  <2>3. \A m \in 1 .. Len(z) : p[i - 1 + m] = z[m]
    BY <1>2, <1>3 DEF Joins
  <2>4. \A m \in 1 .. Len(y) : i - 1 + (1 + m) = i + m
    BY <1>1
  <2> QED BY <1>1, <1>4, <2>1, <2>2, <2>3, <2>4
<1> HIDE DEF e, a, c
<1> DEFINE w == Then(One(c), y)
           v == Then(One(a), w)
<1>10. /\ One(c) \in Seq(Q) /\ Single(One(c), c) /\ One(a) \in Seq(Q) /\ Single(One(a), a)
  BY <1>7, OneIs
<1>11. w \in Seq(Q) /\ Joins(w, One(c), y)
  BY <1>5, <1>10, ThenJoins
<1>12. v \in Seq(Q) /\ Joins(v, One(a), w)
  BY <1>10, <1>11, ThenJoins
<1> HIDE DEF v, w
<1>13. Len(v) = Len(p) - i + 2 /\ v[1] = a /\ v[2] = c
       /\ \A m \in 1 .. Len(p) - i : v[2 + m] = p[i + m]
  <2>1. Len(y) \in Nat /\ Len(w) = 1 + Len(y) /\ Len(v) = 1 + Len(w) /\ Len(w) \in Nat
    BY <1>5, <1>10, <1>11, <1>12 DEF Joins, Single
  <2>2. w[1] = c /\ \A m \in 1 .. Len(y) : w[1 + m] = y[m]
    BY <1>10, <1>11 DEF Joins, Single
  <2>3. v[1] = a /\ \A m \in 1 .. Len(w) : v[1 + m] = w[m]
    BY <1>10, <1>12 DEF Joins, Single
  <2>4. v[1 + 1] = w[1]
    BY <2>1, <2>3
  <2>5. ASSUME NEW m \in 1 .. Len(p) - i PROVE v[2 + m] = p[i + m]
    <3>1. 1 + m \in 1 .. Len(w) /\ m \in 1 .. Len(y) /\ 1 + (1 + m) = 2 + m
      BY <1>1, <1>9, <2>1
    <3>2. v[1 + (1 + m)] = w[1 + m]
      BY <2>3, <3>1
    <3> QED BY <1>9, <2>2, <3>1, <3>2
  <2> QED BY <1>1, <1>9, <2>1, <2>2, <2>3, <2>4, <2>5
<1>14. Joins(r, x, v)
  <2>1. Len(r) = Len(x) + Len(v)
    BY <1>1, <1>2, <1>13
  <2>2. ASSUME NEW m \in 1 .. Len(x) PROVE r[m] = x[m]
    <3>1. m \in 1 .. i - 1
      BY <1>2
    <3> QED BY <1>3, <3>1 DEF Joins
  <2>3. ASSUME NEW m \in 1 .. Len(v) PROVE r[Len(x) + m] = v[m]
    <3>1. CASE m = 1
      BY <1>1, <1>2, <1>13, <3>1 DEF a
    <3>2. CASE m = 2
      <4>1. i - 1 + 2 = i + 1
        BY <1>1
      <4> QED BY <1>2, <1>13, <3>2, <4>1 DEF c
    <3>3. CASE m > 2
      <4> DEFINE k == m - 2
      <4>1. k \in 1 .. Len(p) - i /\ m = 2 + k /\ i + k \in i + 1 .. Len(p)
            /\ i - 1 + m = i + k + 1
        BY <1>1, <1>13, <3>3
      <4> HIDE DEF k
      <4>2. v[2 + k] = p[i + k]
        BY <1>13, <4>1
      <4>3. r[i + k + 1] = p[i + k]
        BY <4>1
      <4> QED BY <1>2, <4>1, <4>2, <4>3
    <3>4. m \in Nat /\ m >= 1
      BY <1>1, <1>13
    <3> QED BY <3>1, <3>2, <3>3, <3>4
  <2> QED BY <2>1, <2>2, <2>3 DEF Joins
<1>15. r = Then(x, v)
  BY <1>2, <1>12, <1>14, IsThen
<1>16. FlattenSeq(r) = Then(FlattenSeq(x), Then(a, Then(c, FlattenSeq(y))))
  <2>1. FlattenSeq(w) = Then(c, FlattenSeq(y))
    BY <1>5, <1>7, FlattenMore DEF w
  <2>2. FlattenSeq(v) = Then(a, FlattenSeq(w))
    BY <1>7, <1>11, FlattenMore DEF v
  <2>3. FlattenSeq(Then(x, v)) = Then(FlattenSeq(x), FlattenSeq(v))
    BY <1>2, <1>12, FlattenThen
  <2> QED BY <1>15, <2>1, <2>2, <2>3
<1>17. FlattenSeq(p) = Then(FlattenSeq(x), Then(e, FlattenSeq(y)))
  <2>1. FlattenSeq(Then(One(e), y)) = Then(e, FlattenSeq(y))
    BY <1>5, FlattenMore DEF e
  <2>2. FlattenSeq(Then(x, z)) = Then(FlattenSeq(x), FlattenSeq(z))
    BY <1>2, FlattenThen
  <2> QED BY <1>2, <1>5, <2>1, <2>2 DEF e
<1>18. e = Then(a, c)
  BY <1>8 DEF a, c
<1>19. Then(Then(a, c), FlattenSeq(y)) = Then(a, Then(c, FlattenSeq(y)))
  <2>1. FlattenSeq(y) \in Q
    BY <1>5, FlattenType
  <2> QED BY <1>7, <2>1, ClosedThen
<1> QED BY <1>16, <1>17, <1>18, <1>19

InnerAt(b, u, v) == [i \in 1 .. v - u |-> Inner(b[u + i].code)]

LEMMA InnerType == ASSUME NEW c, Shaped(c) PROVE Inner(c) \in Code
<1>1. PICK p \in Code, t \in Insts :
        c = Then(p, One(t)) /\ Straight(p) /\ Closes(t)
  BY ShapedSplit
<1>2. Inner(c) = Erase(p)
  BY <1>1, ShapedThen
<1>3. <<>> \in Code
  BY CallsNone
<1> QED BY <1>2, <1>3, EraseThen DEF Code

Holds(p, b, u, v) ==
  /\ p \in Seq(Code) /\ Len(p) = v - u
  /\ \A i \in 1 .. v - u : p[i] = Inner(b[u + i].code)

LEMMA InnerAtIs ==
  ASSUME NEW b, Parts(b), NEW u \in 0 .. Len(b), NEW v \in 0 .. Len(b), u < v
  PROVE  Holds(InnerAt(b, u, v), b, u, v)
<1>1. Len(b) \in Nat
  BY DEF Parts
<1>2. \A i \in 1 .. v - u : Inner(b[u + i].code) \in Code
  <2> SUFFICES ASSUME NEW i \in 1 .. v - u PROVE Inner(b[u + i].code) \in Code
    OBVIOUS
  <2>1. u + i \in 1 .. Len(b)
    BY <1>1
  <2> QED BY <2>1, InnerType DEF Parts
<1>3. v - u \in Nat
  BY <1>1
<1> QED BY <1>2, <1>3 DEF InnerAt, Holds

(* The parts that are not split keep what they hold ...                    *)
Agree(b, d, u, w, n) ==
  \A i \in 1 .. n : Inner(d[w + i].code) = Inner(b[u + i].code)

Apart(u, v, n) == v - u = n

LEMMA ContentSame ==
  ASSUME NEW b, NEW d, NEW u, NEW v, NEW w, NEW y, NEW n,
         Apart(u, v, n), Apart(w, y, n), Agree(b, d, u, w, n)
  PROVE  Content(d, w, y) = Content(b, u, v)
<1>1. InnerAt(d, w, y) = InnerAt(b, u, v)
  BY DEF InnerAt, Agree, Apart
<1>2. Content(d, w, y) = FlattenSeq(InnerAt(d, w, y))
  BY Zenon DEF Content, InnerAt
<1>3. Content(b, u, v) = FlattenSeq(InnerAt(b, u, v))
  BY Zenon DEF Content, InnerAt
<1> QED BY <1>1, <1>2, <1>3

(* ... and the two halves hold what the one held.                          *)
LEMMA ContentHalves ==
  ASSUME NEW b, Parts(b), NEW d, Parts(d), Len(d) = Len(b) + 1, NEW j \in 1 .. Len(b),
         NEW u \in 0 .. Len(b), NEW v \in 0 .. Len(b), u < j, j <= v,
         \A m \in 1 .. j - 1 : Inner(d[m].code) = Inner(b[m].code),
         Inner(b[j].code) = Then(Inner(d[j].code), Inner(d[j + 1].code)),
         \A m \in j + 1 .. Len(b) : Inner(d[m + 1].code) = Inner(b[m].code)
  PROVE  Content(d, u, v + 1) = Content(b, u, v)
<1> DEFINE p == InnerAt(b, u, v)
           n == v + 1
           r == InnerAt(d, u, n)
           i == j - u
<1>1. Len(b) \in Nat /\ u \in Nat /\ v \in Nat
  BY DEF Parts
<1>2. /\ u \in 0 .. Len(d) /\ n \in 0 .. Len(d) /\ u < n /\ u < v
      /\ n - u = v - u + 1 /\ i \in 1 .. v - u /\ i + 1 \in 1 .. n - u /\ i \in 1 .. n - u
      /\ u + i = j /\ u + (i + 1) = j + 1
  BY <1>1
<1> HIDE DEF n, i
<1>3. /\ p \in Seq(Code) /\ Len(p) = v - u
      /\ \A m \in 1 .. v - u : p[m] = Inner(b[u + m].code)
  <2>1. Holds(p, b, u, v)
    BY <1>2, InnerAtIs
  <2> HIDE DEF p
  <2> QED BY <2>1 DEF Holds
<1>4. /\ r \in Seq(Code) /\ Len(r) = n - u
      /\ \A m \in 1 .. n - u : r[m] = Inner(d[u + m].code)
  <2>1. Holds(r, d, u, n)
    BY <1>2, InnerAtIs
  <2> HIDE DEF r
  <2> QED BY <2>1 DEF Holds
<1> HIDE DEF p, r
<1>5. p[i] = Then(r[i], r[i + 1])
  BY <1>2, <1>3, <1>4
<1>6. ASSUME NEW m \in 1 .. i - 1 PROVE r[m] = p[m]
  <2>1. m \in 1 .. v - u /\ m \in 1 .. n - u /\ u + m \in 1 .. j - 1
    BY <1>1, <1>2
  <2> QED BY <1>3, <1>4, <2>1
<1>7. ASSUME NEW m \in i + 1 .. Len(p) PROVE r[m + 1] = p[m]
  <2>1. m \in 1 .. v - u /\ m + 1 \in 1 .. n - u /\ u + m \in j + 1 .. Len(b)
        /\ u + (m + 1) = u + m + 1
    BY <1>1, <1>2, <1>3
  <2>2. p[m] = Inner(b[u + m].code)
    BY <1>3, <2>1
  <2>3. r[m + 1] = Inner(d[u + (m + 1)].code)
    BY <1>4, <2>1
  <2>4. Inner(d[u + m + 1].code) = Inner(b[u + m].code)
    BY <2>1
  <2> QED BY <2>1, <2>2, <2>3, <2>4
<1>8. i \in 1 .. Len(p) /\ Len(r) = Len(p) + 1
  BY <1>2, <1>3, <1>4
<1>9. FlattenSeq(r) = FlattenSeq(p)
  BY <1>3, <1>4, <1>5, <1>6, <1>7, <1>8, CallMapType, FlattenHalves
<1>10. Content(d, u, n) = FlattenSeq(r) /\ Content(b, u, v) = FlattenSeq(p)
  BY Zenon DEF Content, InnerAt, r, p
<1> QED BY <1>9, <1>10 DEF n

LEMMA SplitFilling ==
  ASSUME NEW b, NEW s, NEW g, Places(b, s, g), Len(s) \in Nat, Parts(b),
         NEW j \in 1 .. Len(b), NEW k, NEW d, Filling(b, s, g),
         Halved(b, d, j, k, b[j].id, Len(b) + 1)
  PROVE  Filling(d, s, NextPlaces(s, g, j))
<1> DEFINE h == NextPlaces(s, g, j)
<1>1. /\ Len(b) \in Nat /\ Parts(d) /\ Len(d) = Len(b) + 1
      /\ \A m \in 1 .. j - 1 : Inner(d[m].code) = Inner(b[m].code)
      /\ Inner(b[j].code) = Then(Inner(d[j].code), Inner(d[j + 1].code))
      /\ \A m \in j + 1 .. Len(b) : Inner(d[m + 1].code) = Inner(b[m].code)
  BY PartsAre DEF Halved, Halves, Follows
<1>2. SUFFICES ASSUME NEW i \in 1 .. Len(s)
               PROVE  Content(d, h[i - 1], h[i]) = Content(b, g[i - 1], g[i])
  BY DEF Filling
<1>3. /\ g[i] \in 1 .. Len(b) /\ i \in 0 .. Len(s) /\ i - 1 \in 0 .. Len(s)
      /\ g[i - 1] \in 0 .. Len(b) /\ g[i - 1] < g[i]
  BY <1>1, PlacesAre
<1>4. /\ (g[i] < j => h[i] = g[i]) /\ (~(g[i] < j) => h[i] = g[i] + 1)
      /\ (g[i - 1] < j => h[i - 1] = g[i - 1])
      /\ (~(g[i - 1] < j) => h[i - 1] = g[i - 1] + 1)
  BY <1>3, NextIs
<1> DEFINE u == g[i - 1]
           v == g[i]
           p == h[i - 1]
           r == h[i]
<1>5. /\ u \in 0 .. Len(b) /\ v \in 0 .. Len(b) /\ u < v /\ u \in Nat /\ v \in Nat
      /\ (v < j => r = v) /\ (~(v < j) => r = v + 1)
      /\ (u < j => p = u) /\ (~(u < j) => p = u + 1)
  BY <1>1, <1>3, <1>4
<1> HIDE DEF h, u, v, p, r
<1>6. Content(d, p, r) = Content(b, u, v)
  <2>1. CASE v < j
    <3>1. p = u /\ r = v
      BY <1>5, <2>1
    <3>2. \A m \in 1 .. v - u : u + m \in 1 .. j - 1
      BY <1>5, <2>1
    <3>3. Agree(b, d, u, u, v - u)
      BY <1>1, <3>2 DEF Agree
    <3>4. Content(d, u, v) = Content(b, u, v)
      <4>1. Apart(u, v, v - u)
        BY DEF Apart
      <4> QED BY <3>3, <4>1, ContentSame
    <3> QED BY <3>1, <3>4
  <2>2. CASE u < j /\ ~(v < j)
    <3>1. p = u /\ r = v + 1 /\ j <= v
      BY <1>5, <2>2
    <3>2. Content(d, u, v + 1) = Content(b, u, v)
      BY <1>1, <1>5, <2>2, <3>1, ContentHalves
    <3> QED BY <3>1, <3>2
  <2>3. CASE ~(u < j)
    <3> DEFINE w == u + 1
               y == v + 1
    <3>1. p = w /\ r = y /\ w \in Nat /\ y \in Nat /\ y - w = v - u
      BY <1>5, <2>3
    <3>2. \A m \in 1 .. v - u : u + m \in j + 1 .. Len(b) /\ w + m = u + m + 1
      BY <1>1, <1>5, <2>3
    <3> HIDE DEF w, y
    <3>3. Agree(b, d, u, w, v - u)
      BY <1>1, <3>2 DEF Agree
    <3>4. Content(d, w, y) = Content(b, u, v)
      <4>1. Apart(u, v, v - u) /\ Apart(w, y, v - u)
        BY <3>1 DEF Apart
      <4> QED BY <3>3, <4>1, ContentSame
    <3> QED BY <3>1, <3>4
  <2> QED BY <2>1, <2>2, <2>3
<1> QED BY <1>6 DEF p, r, u, v

(* Whatever block is split, and wherever: the function runs what it ran.   *)
LEMMA SplitKeeps ==
  ASSUME NEW b, NEW s, NEW g, KeptBy(b, s, g), NEW j \in 1 .. Len(b),
         NEW k \in 1 .. Len(b[j].code), NEW d, SplitAs(b, d, j, k)
  PROVE  KeptBy(d, s, NextPlaces(s, g, j))
<1>1. /\ Parts(b) /\ Len(s) \in Nat /\ Places(b, s, g) /\ Identified(b, s, g)
      /\ Chained(b, s, g) /\ Filling(b, s, g) /\ Aiming(b, s, g)
  BY DEF KeptBy
<1>2. Halved(b, d, j, k, b[j].id, Len(b) + 1)
  BY <1>1, SplitHalves
<1>3. Parts(d) /\ Len(d) = Len(b) + 1 /\ Len(b) \in Nat
  BY <1>1, <1>2 DEF Halved, Parts
<1>4. Places(d, s, NextPlaces(s, g, j))
  BY <1>1, <1>3, SplitPlaces
<1>5. Identified(d, s, NextPlaces(s, g, j))
  BY <1>1, <1>2, SplitIdentified
<1>6. Chained(d, s, NextPlaces(s, g, j))
  BY <1>1, <1>2, SplitChained
<1>7. Filling(d, s, NextPlaces(s, g, j))
  BY <1>1, <1>2, SplitFilling
<1>8. Aiming(d, s, NextPlaces(s, g, j))
  BY <1>1, <1>2, SplitAiming
<1> QED BY <1>1, <1>3, <1>4, <1>5, <1>6, <1>7, <1>8 DEF KeptBy
-----------------------------------------------------------------------------
(* New code for a block that holds what it held and ends as it ended.      *)
LEMMA CodeKeeps ==
  ASSUME NEW b, NEW s, NEW g, KeptBy(b, s, g), NEW j \in 1 .. Len(b), NEW c, Shaped(c),
         Inner(c) = Inner(b[j].code), Last(c) = Last(b[j].code)
  PROVE  KeptBy([b EXCEPT ![j].code = c], s, g)
<1> DEFINE d == [b EXCEPT ![j].code = c]
<1>1. /\ Parts(b) /\ Len(s) \in Nat /\ Places(b, s, g) /\ Identified(b, s, g)
      /\ Chained(b, s, g) /\ Filling(b, s, g) /\ Aiming(b, s, g) /\ Len(b) \in Nat
  BY PartsAre DEF KeptBy
<1>2. /\ d \in Seq(Part) /\ Len(d) = Len(b)
      /\ \A m \in 1 .. Len(b) : /\ d[m].id = b[m].id /\ Shaped(d[m].code)
                                /\ Inner(d[m].code) = Inner(b[m].code)
                                /\ Last(d[m].code) = Last(b[m].code)
  <2> DEFINE e == [b[j] EXCEPT !.code = c]
  <2>1. b[j] \in Part /\ b \in Seq(Part) /\ c \in Code
    BY <1>1, PartsAre DEF Parts, Shaped
  <2>2. e \in Part /\ e.id = b[j].id /\ e.code = c
    BY <2>1 DEF Part
  <2>3. d = [b EXCEPT ![j] = e]
    OBVIOUS
  <2> HIDE DEF d, e
  <2>4. d \in Seq(Part) /\ Len(d) = Len(b)
        /\ \A m \in 1 .. Len(b) : (m = j => d[m] = e) /\ (m # j => d[m] = b[m])
    BY <2>1, <2>2, <2>3
  <2>5. \A m \in 1 .. Len(b) : Shaped(b[m].code)
    BY <1>1 DEF Parts
  <2> QED BY <2>2, <2>4, <2>5
<1> HIDE DEF d
<1>3. Parts(d)
  BY <1>2 DEF Parts
<1>4. Places(d, s, g)
  BY <1>1, <1>2 DEF Places
<1>5. \A k \in 1 .. Len(s) :
        /\ g[k] \in 1 .. Len(b) /\ g[k - 1] \in 0 .. Len(b) /\ g[k - 1] < g[k]
        /\ g[k - 1] + 1 \in 1 .. Len(b)
  BY <1>1, PlacesAre
<1>6. Identified(d, s, g)
  BY <1>1, <1>2, <1>5 DEF Identified
<1>7. Chained(d, s, g)
  <2> SUFFICES ASSUME NEW k \in 1 .. Len(s), NEW m \in g[k - 1] + 1 .. g[k] - 1
               PROVE  Last(d[m].code) = BranchTo(d[m + 1].id)
    BY DEF Chained
  <2>1. m \in 1 .. Len(b) /\ m + 1 \in 1 .. Len(b)
    BY <1>5
  <2>2. Last(b[m].code) = BranchTo(b[m + 1].id)
    BY <1>1 DEF Chained
  <2> QED BY <1>2, <2>1, <2>2
<1>8. Filling(d, s, g)
  <2> SUFFICES ASSUME NEW k \in 1 .. Len(s)
               PROVE  Content(d, g[k - 1], g[k]) = Content(b, g[k - 1], g[k])
    BY <1>1 DEF Filling
  <2> DEFINE u == g[k - 1]
             v == g[k]
  <2>1. u \in 0 .. Len(b) /\ v \in 1 .. Len(b)
    BY <1>5
  <2> HIDE DEF u, v
  <2>2. \A i \in 1 .. v - u : u + i \in 1 .. Len(b)
    BY <1>1, <2>1
  <2>3. Agree(b, d, u, u, v - u) /\ Apart(u, v, v - u)
    BY <1>2, <2>2 DEF Agree, Apart
  <2>4. Content(d, u, v) = Content(b, u, v)
    BY <2>3, ContentSame
  <2> QED BY <2>4 DEF u, v
<1>9. Aiming(d, s, g)
  <2> SUFFICES ASSUME NEW k \in 1 .. Len(s)
               PROVE  Last(d[g[k]].code)
                        = Retarget(Last(s[k]), {EntryAt(d, g, t) : t \in Last(s[k]).to})
    BY <1>1 DEF Aiming
  <2>1. /\ Last(s[k]).to \subseteq 1 .. Len(s)
        /\ Last(b[g[k]].code)
             = Retarget(Last(s[k]), {EntryAt(b, g, t) : t \in Last(s[k]).to})
    BY <1>1 DEF Aiming
  <2>2. \A t \in Last(s[k]).to : EntryAt(d, g, t) = EntryAt(b, g, t)
    BY <1>2, <1>5, <2>1 DEF EntryAt
  <2>3. {EntryAt(d, g, t) : t \in Last(s[k]).to} = {EntryAt(b, g, t) : t \in Last(s[k]).to}
    BY <2>2
  <2>4. Last(d[g[k]].code) = Last(b[g[k]].code)
    BY <1>2, <1>5
  <2> QED BY <2>1, <2>3, <2>4
<1> QED BY <1>1, <1>3, <1>4, <1>6, <1>7, <1>8, <1>9 DEF KeptBy, d

(* Counting is such a change.                                              *)
LEMMA StraightThen ==
  ASSUME NEW p \in Code, NEW q \in Code
  PROVE  Straight(Then(p, q)) <=> (Straight(p) /\ Straight(q))
<1> DEFINE w == Then(p, q)
<1>1. Joins(w, p, q) /\ Len(p) \in Nat /\ Len(q) \in Nat
  BY ThenJoins DEF Code, BasicBlock, Insts
<1> HIDE DEF w
<1>2. ASSUME Straight(w) PROVE Straight(p) /\ Straight(q)
  <2>1. \A j \in 1 .. Len(p) : j \in 1 .. Len(w) /\ w[j] = p[j]
    BY <1>1 DEF Joins
  <2>2. \A j \in 1 .. Len(q) : Len(p) + j \in 1 .. Len(w) /\ w[Len(p) + j] = q[j]
    BY <1>1 DEF Joins
  <2>3. Straight(p)
    BY <1>2, <2>1 DEF Straight
  <2>4. Straight(q)
    BY <1>2, <2>2 DEF Straight
  <2> QED BY <2>3, <2>4
<1>3. ASSUME Straight(p), Straight(q) PROVE Straight(w)
  <2> SUFFICES ASSUME NEW j \in 1 .. Len(w) PROVE w[j].to = {}
    BY DEF Straight
  <2>1. CASE j <= Len(p)
    BY <1>1, <1>3, <2>1 DEF Joins, Straight
  <2>2. CASE ~(j <= Len(p))
    <3>1. j - Len(p) \in 1 .. Len(q) /\ Len(p) + (j - Len(p)) = j
      BY <1>1, <2>2 DEF Joins
    <3>2. w[j] = q[j - Len(p)]
      BY <1>1, <3>1 DEF Joins
    <3> QED BY <1>3, <3>1, <3>2 DEF Straight
  <2> QED BY <2>1, <2>2
<1> QED BY <1>2, <1>3 DEF w

LEMMA HelperCall ==
  ASSUME NEW h \in Helper
  PROVE  CallOf(h) \in Insts /\ CallOf(h).to = {} /\ Erase(One(CallOf(h))) = <<>>
<1>1. CallOf(h) = [op |-> "call", callee |-> h, region |-> "-", num |-> 0, to |-> {}]
  BY DEF CallOf, Inst
<1>2. h \in Symbol(Name) /\ "-" \in Symbol(Name) /\ {} \in SUBSET Nat
  BY SymbolIs DEF Symbol
<1>3. CallOf(h) \in Insts
  BY <1>1, <1>2 DEF Insts, Instruction
<1>4. Inserts(CallOf(h))
  BY <1>1 DEF Inserts, IsCall
<1> QED BY <1>1, <1>3, <1>4, EraseInsert DEF Insts

LEMMA CountIs ==
  ASSUME NEW c, Shaped(c), NEW h \in Helper
  PROVE  /\ Shaped(InsertAt(c, FirstNonPhi(c), CallOf(h)))
         /\ Inner(InsertAt(c, FirstNonPhi(c), CallOf(h))) = Inner(c)
         /\ Last(InsertAt(c, FirstNonPhi(c), CallOf(h))) = Last(c)
<1> DEFINE e == CallOf(h)
<1>1. c \in Seq(Insts) /\ Len(c) # 0 /\ c[Len(c)].op # "phi" /\ Closes(c[Len(c)])
  BY DEF Shaped, Code, BasicBlock, Insts, Closes
<1>2. PICK p, q \in Seq(Insts), t \in Insts :
           /\ c = Then(p, Then(q, One(t))) /\ t = c[Len(c)]
           /\ Each(p, {x \in Insts : x.op = "phi"}) /\ Starts(Then(q, One(t)))
  BY <1>1, NormalForm
<1>3. e \in Insts /\ e.to = {} /\ Erase(One(e)) = <<>>
  BY HelperCall
<1> HIDE DEF e
<1>4. p \in Code /\ q \in Code /\ One(t) \in Code /\ One(e) \in Code
  BY <1>2, <1>3, CallsOne DEF Code, BasicBlock, Insts
<1>5. Then(p, q) \in Code /\ Then(q, One(t)) \in Code /\ Then(One(e), q) \in Code
      /\ Then(p, Then(One(e), q)) \in Code
  BY <1>4, CallsThen
<1>6. InsertAt(c, FirstNonPhi(c), e) = Then(p, Then(One(e), Then(q, One(t))))
  BY <1>2, <1>3, <1>4, <1>5, InsertFirst DEF Phis, Code, Insts
<1>7. c = Then(Then(p, q), One(t))
  BY <1>2, <1>4, BlockAssociative DEF Code
<1>8. Then(p, Then(One(e), Then(q, One(t)))) = Then(Then(p, Then(One(e), q)), One(t))
  <2>1. Then(One(e), Then(q, One(t))) = Then(Then(One(e), q), One(t))
    BY <1>4, BlockAssociative DEF Code
  <2>2. Then(Then(p, Then(One(e), q)), One(t)) = Then(p, Then(Then(One(e), q), One(t)))
    BY <1>4, <1>5, BlockAssociative DEF Code
  <2> QED BY <2>1, <2>2
<1>9. Closes(t)
  BY <1>1, <1>2
<1>10. Straight(Then(p, q))
  <2>1. Joins(c, Then(p, q), One(t)) /\ Len(Then(p, q)) \in Nat /\ Len(One(t)) = 1
    BY <1>4, <1>5, <1>7, ThenJoins, OneLen DEF Code, BasicBlock, Insts
  <2> DEFINE w == Then(p, q)
  <2> HIDE DEF w
  <2>2. \A j \in 1 .. Len(w) : j \in 1 .. Len(c) - 1 /\ w[j] = c[j]
    BY <2>1 DEF Joins, w
  <2> QED BY <2>2 DEF Shaped, Straight, w
<1>11. Straight(Then(p, Then(One(e), q)))
  <2>1. Straight(One(e))
    BY <1>3 DEF Straight, One
  <2>2. Straight(p) /\ Straight(q)
    BY <1>4, <1>10, StraightThen
  <2>3. Straight(Then(One(e), q))
    BY <1>4, <2>1, <2>2, StraightThen
  <2> QED BY <1>4, <1>5, <2>2, <2>3, StraightThen
<1>12. Erase(Then(p, Then(One(e), q))) = Erase(Then(p, q))
  <2>1. Erase(Then(One(e), q)) = Then(Erase(One(e)), Erase(q)) /\ Erase(q) \in Code
    BY <1>4, EraseThen DEF Code
  <2>2. Then(<<>>, Erase(q)) = Erase(q)
    BY <2>1, BlockNone DEF Code
  <2>3. Erase(Then(p, Then(One(e), q))) = Then(Erase(p), Erase(Then(One(e), q)))
    BY <1>4, <1>5, EraseThen DEF Code
  <2>4. Erase(Then(p, q)) = Then(Erase(p), Erase(q))
    BY <1>4, EraseThen DEF Code
  <2> QED BY <1>3, <2>1, <2>2, <2>3, <2>4
<1> DEFINE w == Then(p, Then(One(e), q))
<1> HIDE DEF w
<1>13. /\ Shaped(Then(w, One(t))) /\ Inner(Then(w, One(t))) = Erase(w)
       /\ Last(Then(w, One(t))) = t
  BY <1>5, <1>9, <1>11, ShapedThen DEF w
<1>14. Inner(c) = Erase(Then(p, q)) /\ Last(c) = t
  BY <1>5, <1>7, <1>9, <1>10, ShapedThen
<1>15. InsertAt(c, FirstNonPhi(c), e) = Then(w, One(t))
  BY <1>6, <1>8 DEF w
<1> QED BY <1>12, <1>13, <1>14, <1>15 DEF w, e

(* A block without what the passes insert.                                 *)
LEMMA EraseStraight ==
  ASSUME NEW p \in Code, Straight(p)
  PROVE  Straight(Erase(p)) /\ Erase(p) \in Code
<1> DEFINE T == {c \in Seq(Insts) : Straight(c) => Straight(Erase(c))}
<1>1. <<>> \in T
  <2>1. <<>> \in Seq(Insts)
    OBVIOUS
  <2>2. Straight(<<>>)
    BY DEF Straight
  <2> QED BY <2>1, <2>2, EraseNone
<1>2. ASSUME NEW c \in Seq(Insts), NEW x \in Insts, c \in T PROVE Then(c, One(x)) \in T
  <2>1. c \in Code /\ One(x) \in Code
    BY CallsOne DEF Code, BasicBlock, Insts
  <2>2. Then(c, One(x)) \in Seq(Insts)
    BY <2>1, CallsThen DEF Code, BasicBlock, Insts
  <2>3. /\ Erase(Then(c, One(x))) = Then(Erase(c), Erase(One(x)))
        /\ Erase(c) \in Code /\ Erase(One(x)) \in Code
    BY <2>1, EraseThen DEF Code
  <2>4. Straight(One(x)) => Straight(Erase(One(x)))
    <3>1. Erase(One(x)) = FlatMap(EraseMap(Name), One(x))
      BY <2>1, EraseIs DEF Code
    <3>2. FlatMap(EraseMap(Name), One(x)) = EraseMap(Name)[x]
      <4>1. EraseMap(Name)[x] \in Code
        BY EraseType DEF Map, Code, Insts
      <4> QED BY <4>1, BlockMapOne, EraseType DEF Insts
    <3>3. Erase(One(x)) = <<>> \/ Erase(One(x)) = One(x)
      BY <3>1, <3>2, ErasePiece DEF Insts
    <3>4. Straight(<<>>)
      BY DEF Straight
    <3> QED BY <3>3, <3>4
  <2> SUFFICES ASSUME Straight(Then(c, One(x))) PROVE Straight(Erase(Then(c, One(x))))
    BY <2>2
  <2>5. Straight(c) /\ Straight(One(x))
    BY <2>1, StraightThen
  <2>6. Straight(Erase(c))
    BY <1>2, <2>5
  <2> QED BY <2>3, <2>4, <2>5, <2>6, StraightThen
<1>3. \A c \in Seq(Insts) : c \in T
  <2> HIDE DEF T
  <2> QED BY <1>1, <1>2, ThenInduct
<1>4. p \in Seq(Insts) /\ <<>> \in Code
  BY CallsNone DEF Code, BasicBlock, Insts
<1> QED BY <1>3, <1>4, EraseThen DEF Code

LEMMA ErasedIs ==
  ASSUME NEW c, Shaped(c)
  PROVE  /\ Erase(c) = Then(Inner(c), One(Last(c))) /\ Front(Erase(c)) = Inner(c)
         /\ Inner(c) \in Code /\ Straight(Inner(c)) /\ Last(c) \in Insts
<1>1. PICK p \in Code, t \in Insts :
        c = Then(p, One(t)) /\ Straight(p) /\ Closes(t)
  BY ShapedSplit
<1>2. Inner(c) = Erase(p) /\ Last(c) = t
  BY <1>1, ShapedThen
<1>3. One(t) \in Code /\ Erase(One(t)) = One(t)
  BY <1>1, ClosesIs, CallsOne
<1>4. Erase(Then(p, One(t))) = Then(Erase(p), Erase(One(t)))
  BY <1>3, EraseThen DEF Code
<1>5. Erase(p) \in Code /\ Straight(Erase(p))
  BY <1>1, EraseStraight
<1> DEFINE q == Erase(p)
<1> HIDE DEF q
<1>6. Front(Then(q, One(t))) = q
  BY <1>1, <1>5, EndThen DEF q, Code, BasicBlock, Insts
<1> QED BY <1>1, <1>2, <1>3, <1>4, <1>5, <1>6 DEF q

Renamed(c, b, g) ==
  [i \in DOMAIN c |-> Retarget(c[i], {EntryAt(b, g, t) : t \in c[i].to})]

LEMMA RenamedThen ==
  ASSUME NEW p \in Code, Straight(p), NEW x \in Insts, NEW b, NEW g, NEW T,
         T = {EntryAt(b, g, t) : t \in x.to}, T \in SUBSET Nat
  PROVE  Renamed(Then(p, One(x)), b, g) = Then(p, One(Retarget(x, T)))
<1> DEFINE c == Then(p, One(x))
           u == Retarget(x, T)
           m == Renamed(c, b, g)
           R(y) == Retarget(y, {EntryAt(b, g, t) : t \in y.to})
<1>1. /\ p \in Seq(Insts) /\ One(x) \in Seq(Insts) /\ Single(One(x), x)
      /\ u \in Insts /\ One(u) \in Seq(Insts) /\ Single(One(u), u)
  BY RetargetIs, OneIs DEF Code, BasicBlock, Insts
<1>2. c \in Seq(Insts) /\ Joins(c, p, One(x))
  BY <1>1, ThenJoins
<1>3. \A j \in 1 .. Len(p) : R(p[j]) = p[j]
  <2> SUFFICES ASSUME NEW j \in 1 .. Len(p) PROVE R(p[j]) = p[j]
    OBVIOUS
  <2>1. p[j] \in Insts /\ p[j].to = {}
    BY <1>1 DEF Straight
  <2> DEFINE y == p[j]
  <2>2. y \in Insts /\ y.to = {}
    BY <2>1
  <2> HIDE DEF y
  <2>3. {EntryAt(b, g, t) : t \in y.to} = {}
    BY <2>2
  <2>4. [y EXCEPT !.to = {}] = y
    BY <2>2 DEF Insts, Instruction
  <2> QED BY <2>3, <2>4 DEF Retarget, y
<1>4. R(x) = u
  OBVIOUS
<1>5. Len(m) = Len(c) /\ m \in Seq(Insts) /\ \A j \in 1 .. Len(c) : m[j] = R(c[j])
  <2>1. \A j \in 1 .. Len(c) : R(c[j]) \in Insts
    <3> SUFFICES ASSUME NEW j \in 1 .. Len(c) PROVE R(c[j]) \in Insts
      OBVIOUS
    <3>1. Len(p) \in Nat /\ Len(c) = Len(p) + 1 /\ c[Len(p) + 1] = x
          /\ \A i \in 1 .. Len(p) : c[i] = p[i]
      <4> HIDE DEF c
      <4>1. Len(p) \in Nat
        BY <1>1
      <4> QED BY <1>1, <1>2, <4>1 DEF Joins, Single
    <3> HIDE DEF c, R, u
    <3>2. CASE j \in 1 .. Len(p)
      <4>1. R(c[j]) = p[j] /\ p[j] \in Insts
        BY <1>1, <1>3, <3>1, <3>2
      <4> QED BY <4>1
    <3>3. CASE j \notin 1 .. Len(p)
      <4>1. j = Len(p) + 1
        BY <3>1, <3>3
      <4> QED BY <1>1, <1>4, <3>1, <4>1
    <3> QED BY <3>2, <3>3
  <2> HIDE DEF c
  <2>2. m = [j \in 1 .. Len(c) |-> R(c[j])]
    <3>1. m = [j \in DOMAIN c |-> R(c[j])]
      BY Zenon DEF Renamed
    <3>2. DOMAIN c = 1 .. Len(c)
      BY <1>2
    <3> HIDE DEF R, m
    <3> QED BY <3>1, <3>2
  <2> HIDE DEF R, m
  <2> QED BY <1>2, <2>1, <2>2
<1> HIDE DEF c, m, R, u
<1>6. Joins(m, p, One(u))
  <2>1. Len(p) \in Nat
    BY <1>1
  <2>2. Len(m) = Len(p) + Len(One(u))
    BY <1>1, <1>2, <1>5 DEF Joins, Single
  <2>3. \A j \in 1 .. Len(p) : m[j] = p[j]
    BY <1>2, <1>3, <1>5, <1>1, <2>1 DEF Joins, Single
  <2>4. m[Len(p) + 1] = u
    BY <1>1, <1>2, <1>4, <1>5, <2>1 DEF Joins, Single
  <2> QED BY <1>1, <2>2, <2>3, <2>4 DEF Joins, Single
<1> QED BY <1>1, <1>5, <1>6, IsThen DEF c, m, u

(* What runs when a block is entered.                                      *)
Passage(b, u, v) ==
  FlattenSeq([n \in 1 .. v - (u + 1) |-> Front(Erase(b[u + 1 + n - 1].code))])
    \o Erase(b[v].code)

LEMMA PassageIs ==
  ASSUME NEW b, Parts(b), NEW u \in 0 .. Len(b), NEW v \in 0 .. Len(b), u < v
  PROVE  Passage(b, u, v) = Then(Content(b, u, v), One(Last(b[v].code)))
<1>1. Len(b) \in Nat /\ b[v].code \in Code /\ Shaped(b[v].code)
  BY PartsAre
<1> DEFINE n == v - (u + 1)
           x == [i \in 1 .. n |-> Front(Erase(b[u + 1 + i - 1].code))]
           y == [i \in 1 .. n |-> Inner(b[u + i].code)]
           z == InnerAt(b, u, v)
           e == Inner(b[v].code)
           l == One(Last(b[v].code))
<1>2. n \in Nat /\ v - u = n + 1 /\ u + (n + 1) = v
  BY <1>1
<1> HIDE DEF n
<1>3. \A i \in 1 .. n : u + 1 + i - 1 = u + i /\ u + i \in 1 .. Len(b)
  BY <1>1, <1>2
<1>4. x = y
  <2> SUFFICES ASSUME NEW i \in 1 .. n
               PROVE  Front(Erase(b[u + 1 + i - 1].code)) = Inner(b[u + i].code)
    OBVIOUS
  <2>1. u + 1 + i - 1 = u + i /\ u + i \in 1 .. Len(b)
    BY <1>3
  <2>2. Shaped(b[u + i].code)
    BY <2>1 DEF Parts
  <2> QED BY <2>1, <2>2, ErasedIs
<1>5. y \in Seq(Code) /\ Len(y) = n
  <2>1. \A i \in 1 .. n : Inner(b[u + i].code) \in Code
    BY <1>3, InnerType DEF Parts
  <2> QED BY <1>2, <2>1
<1>6. e \in Code /\ l \in Code /\ Erase(b[v].code) = Then(e, l)
  BY <1>1, ErasedIs, CallsOne
<1>7. z = Append(y, e)
  <2>1. Holds(z, b, u, v)
    BY <1>1, InnerAtIs
  <2>2. z \in Seq(Code) /\ Len(z) = n + 1 /\ z[n + 1] = e
        /\ \A i \in 1 .. n : z[i] = y[i]
    <3> HIDE DEF z
    <3> QED BY <1>2, <2>1 DEF Holds
  <2> HIDE DEF z, y, e
  <2>3. Append(y, e) \in Seq(Code) /\ Len(Append(y, e)) = n + 1
        /\ Append(y, e)[n + 1] = e /\ \A i \in 1 .. n : Append(y, e)[i] = y[i]
    BY <1>5, <1>6, <1>2
  <2>4. \A i \in 1 .. Len(z) : z[i] = Append(y, e)[i]
    BY <1>2, <2>2, <2>3
  <2> QED BY <2>2, <2>3, <2>4, SeqEqual
<1>8. FlattenSeq(Append(y, e)) = FlattenSeq(y) \o e
  BY <1>5, <1>6, CallMapType, FlattenAppend
<1>9. FlattenSeq(y) \in Code
  BY <1>5, CallMapType, FlattenType
<1> DEFINE w == FlattenSeq(y)
<1>10. Content(b, u, v) = FlattenSeq(z)
  BY Zenon DEF Content, InnerAt
<1>11. Passage(b, u, v) = FlattenSeq(x) \o Erase(b[v].code)
  BY Zenon DEF Passage, n
<1> HIDE DEF w, x, y, z, e, l
<1>12. Passage(b, u, v) = Then(w, Then(e, l))
  BY <1>4, <1>6, <1>11, Zenon DEF Then, w
<1>13. Content(b, u, v) = Then(w, e)
  BY <1>7, <1>8, <1>10, Zenon DEF Then, w
<1>14. Then(w, Then(e, l)) = Then(Then(w, e), l)
  BY <1>6, <1>9, BlockAssociative DEF w, Code
<1> QED BY <1>12, <1>13, <1>14 DEF l
-----------------------------------------------------------------------------
(* The place of a part, as SelectInSeq finds it.                           *)
FoundAt(b, k) ==
  LET S == {i \in 1 .. Len(b) : b[i].id = k}
  IN  IF S # {} THEN Min(S) ELSE 0

OnlyAt(b, k, m) ==
  /\ m \in 1 .. Len(b) /\ b[m].id = k
  /\ \A n \in 1 .. Len(b) : b[n].id = k => n = m

LEMMA FoundIs ==
  ASSUME NEW b, NEW m, NEW k, OnlyAt(b, k, m)
  PROVE  FoundAt(b, k) = m
<1> DEFINE S == {i \in 1 .. Len(b) : b[i].id = k}
<1>0. m \in Int
  BY DEF OnlyAt
<1>1. S = {m}
  BY DEF OnlyAt
<1>2. Min({m}) = m
  <2>1. \A x \in {m} : (\A y \in {m} : x =< y) => x = m
    OBVIOUS
  <2>2. m =< m
    BY <1>0
  <2>3. \E x \in {m} : \A y \in {m} : x =< y
    BY <2>2
  <2>4. Min({m}) \in {m}
    BY <2>3, Zenon DEF Min
  <2> QED BY <2>4
<1>3. FoundAt(b, k) = IF S # {} THEN Min(S) ELSE 0
  BY Zenon DEF FoundAt
<1> HIDE DEF S
<1> QED BY <1>1, <1>2, <1>3

LEMMA PlaceFound ==
  ASSUME NEW f, NEW b, NEW s, NEW g, b = body[f], KeptBy(b, s, g), NEW k \in 1 .. Len(s)
  PROVE  OnlyAt(b, k, g[k]) /\ At(f, k) = g[k]
<1>1. Len(b) \in Nat /\ Places(b, s, g) /\ Len(s) \in Nat /\ Identified(b, s, g)
  BY DEF KeptBy, Parts
<1>2. g[k] \in 1 .. Len(b)
  BY <1>1, PlacesAre
<1>3. b[g[k]].id = k
  BY <1>1 DEF Identified
<1>4. \A m, n \in 1 .. Len(b) : b[m].id = b[n].id => m = n
  BY <1>1 DEF Identified
<1>5. OnlyAt(b, k, g[k])
  BY <1>2, <1>3, <1>4 DEF OnlyAt
<1>6. FoundAt(b, k) = g[k]
  BY <1>5, FoundIs
<1>7. At(f, k) = FoundAt(b, k)
  BY Zenon DEF At, SelectInSeq, FoundAt
<1> QED BY <1>5, <1>6, <1>7

Found(f, b, s, g) ==
  \A k \in 1 .. Len(s) :
    /\ At(f, k) = g[k] /\ Start(f, k) = g[k - 1] + 1
    /\ EntryOf(f, k) = EntryAt(b, g, k)

LEMMA AllFound ==
  ASSUME NEW f, NEW b, NEW s, NEW g, b = body[f], KeptBy(b, s, g)
  PROVE  Found(f, b, s, g)
<1>1. \A k \in 1 .. Len(s) : At(f, k) = g[k]
  BY PlaceFound
<1>2. g[0] = 0 /\ Len(s) \in Nat
  BY DEF KeptBy, Places
<1>3. \A k \in 1 .. Len(s) : Start(f, k) = g[k - 1] + 1
  <2> SUFFICES ASSUME NEW k \in 1 .. Len(s) PROVE Start(f, k) = g[k - 1] + 1
    OBVIOUS
  <2>1. CASE k = 1
    BY <1>2, <2>1 DEF Start
  <2>2. CASE k # 1
    <3>1. k - 1 \in 1 .. Len(s)
      BY <1>2, <2>2
    <3> QED BY <1>1, <2>2, <3>1 DEF Start
  <2> QED BY <2>1, <2>2
<1>4. \A k \in 1 .. Len(s) : EntryOf(f, k) = EntryAt(b, g, k)
  BY <1>3 DEF EntryOf, EntryAt
<1> QED BY <1>1, <1>3, <1>4 DEF Found

(* The two conjuncts of PathsKept.                                         *)
LEMMA LinksKept ==
  ASSUME NEW f, NEW b, NEW s, NEW g, b = body[f], KeptBy(b, s, g), NEW k \in 1 .. Len(s)
  PROVE  \A j \in Start(f, k) .. At(f, k) - 1 :
           Last(body[f][j].code) = Branch({body[f][j + 1].id})
<1>1. Start(f, k) = g[k - 1] + 1 /\ At(f, k) = g[k]
  BY AllFound DEF Found
<1>2. \A j \in g[k - 1] + 1 .. g[k] - 1 : Last(b[j].code) = BranchTo(b[j + 1].id)
  BY DEF KeptBy, Chained
<1> QED BY <1>1, <1>2 DEF BranchTo

(* A block runs what c runs, with the branches to the first parts.         *)
RunsAs(f, k, c) ==
  Through(f, k) = [i \in DOMAIN Erase(c) |->
                     [Erase(c)[i] EXCEPT !.to = {EntryOf(f, t) : t \in @}]]

LEMMA ThroughKept ==
  ASSUME NEW f, NEW b, NEW s, NEW g, b = body[f], KeptBy(b, s, g), NEW k \in 1 .. Len(s)
  PROVE  RunsAs(f, k, s[k])
<1> DEFINE u == g[k - 1]
           v == g[k]
           c == Erase(s[k])
           x == Last(s[k])
           T == {EntryAt(b, g, t) : t \in x.to}
<1>1. /\ Parts(b) /\ Len(b) \in Nat /\ Places(b, s, g) /\ Len(s) \in Nat
      /\ Content(b, u, v) = Inner(s[k]) /\ Shaped(s[k]) /\ x.to \subseteq 1 .. Len(s)
      /\ Last(b[v].code) = Retarget(x, T)
  <2>1. /\ Parts(b) /\ Places(b, s, g) /\ Len(s) \in Nat
        /\ Filling(b, s, g) /\ Aiming(b, s, g)
    BY DEF KeptBy
  <2>2. Content(b, u, v) = Inner(s[k])
    BY <2>1 DEF Filling
  <2>3. Shaped(s[k]) /\ x.to \subseteq 1 .. Len(s) /\ Last(b[v].code) = Retarget(x, T)
    BY <2>1 DEF Aiming
  <2> QED BY <2>1, <2>2, <2>3 DEF Parts
<1>2. u \in 0 .. Len(b) /\ v \in 0 .. Len(b) /\ u < v
  BY <1>1, PlacesAre
<1>3. Start(f, k) = u + 1 /\ At(f, k) = v
  BY AllFound DEF Found
<1>4. Through(f, k) = Passage(b, u, v)
  <2>1. Through(f, k)
          = FlattenSeq([n \in 1 .. At(f, k) - Start(f, k) |->
                          Front(Erase(b[Start(f, k) + n - 1].code))])
              \o Erase(b[At(f, k)].code)
    BY Zenon DEF Through
  <2> HIDE DEF u, v
  <2> QED BY <1>3, <2>1, Zenon DEF Passage
<1>5. Passage(b, u, v) = Then(Inner(s[k]), One(Retarget(x, T)))
  <2> HIDE DEF u, v, T, x
  <2>1. Passage(b, u, v) = Then(Content(b, u, v), One(Last(b[v].code)))
    BY <1>1, <1>2, PassageIs
  <2> QED BY <1>1, <2>1
<1>6. /\ c = Then(Inner(s[k]), One(x)) /\ Inner(s[k]) \in Code /\ Straight(Inner(s[k]))
      /\ x \in Insts
  BY <1>1, ErasedIs
<1>7. T \in SUBSET Nat
  <2> SUFFICES ASSUME NEW t \in x.to PROVE EntryAt(b, g, t) \in Nat
    OBVIOUS
  <2>1. t \in 1 .. Len(s)
    BY <1>1
  <2>2. g[t - 1] + 1 \in 1 .. Len(b)
    BY <1>1, <2>1, PlacesAre
  <2> QED BY <1>1, <2>2, PartsAre DEF EntryAt
<1> DEFINE w == Inner(s[k])
<1> HIDE DEF T, x, w
<1>8. Renamed(Then(w, One(x)), b, g) = Then(w, One(Retarget(x, T)))
  BY <1>6, <1>7, RenamedThen DEF T, w
<1>9. ASSUME NEW i \in DOMAIN c
      PROVE  [c[i] EXCEPT !.to = {EntryOf(f, t) : t \in c[i].to}]
               = Retarget(c[i], {EntryAt(b, g, t) : t \in c[i].to})
  <2>1. c[i].to = {} \/ c[i] = x
    <3>1. Joins(c, w, One(x)) /\ Len(w) \in Nat /\ w \in Seq(Insts) /\ c \in Seq(Insts)
      <4>1. w \in Seq(Insts) /\ One(x) \in Seq(Insts)
        BY <1>6, OneIs DEF w, Code, BasicBlock, Insts
      <4>2. c = Then(w, One(x))
        BY <1>6 DEF w
      <4> HIDE DEF c
      <4> QED BY <4>1, <4>2, ThenJoins
    <3> HIDE DEF c
    <3>2. Len(One(x)) = 1 /\ One(x)[1] = x
      BY DEF One
    <3>3. i \in 1 .. Len(w) + 1
      BY <3>1, <3>2 DEF Joins
    <3>4. CASE i \in 1 .. Len(w)
      <4>1. c[i] = w[i]
        BY <3>1, <3>4 DEF Joins
      <4> QED BY <1>6, <3>4, <4>1 DEF Straight, w
    <3>5. CASE i = Len(w) + 1
      <4>1. c[Len(w) + 1] = One(x)[1]
        BY <3>1, <3>2 DEF Joins
      <4> QED BY <3>2, <3>5, <4>1
    <3> QED BY <3>1, <3>3, <3>4, <3>5
  <2>2. c[i].to \subseteq 1 .. Len(s)
    BY <1>1, <2>1 DEF x
  <2>3. \A t \in c[i].to : EntryOf(f, t) = EntryAt(b, g, t)
    <3>1. \A t \in 1 .. Len(s) : EntryOf(f, t) = EntryAt(b, g, t)
      <4>1. Found(f, b, s, g)
        BY AllFound
      <4> QED BY <4>1, Zenon DEF Found
    <3> HIDE DEF c
    <3> QED BY <2>2, <3>1
  <2> DEFINE y == c[i]
  <2> HIDE DEF c, y
  <2>4. {EntryOf(f, t) : t \in y.to} = {EntryAt(b, g, t) : t \in y.to}
    BY <2>3 DEF y
  <2> QED BY <2>4 DEF Retarget, y
<1>10. [i \in DOMAIN c |-> [c[i] EXCEPT !.to = {EntryOf(f, t) : t \in c[i].to}]]
         = Renamed(c, b, g)
  <2> HIDE DEF c
  <2> QED BY <1>9 DEF Renamed
<1>11. Renamed(c, b, g) = Then(w, One(Retarget(x, T)))
  <2>1. c = Then(w, One(x))
    BY <1>6 DEF w
  <2> HIDE DEF c
  <2> QED BY <1>8, <2>1
<1>12. Through(f, k) = Then(w, One(Retarget(x, T)))
  BY <1>4, <1>5 DEF w
<1> HIDE DEF c
<1>13. Through(f, k)
         = [i \in DOMAIN c |-> [c[i] EXCEPT !.to = {EntryOf(f, t) : t \in c[i].to}]]
  BY <1>10, <1>11, <1>12
<1> QED BY <1>13 DEF c, RunsAs
-----------------------------------------------------------------------------
(* The count moves over one instruction.                                   *)
CallOne(x) == IF IsCall(x) THEN 1 ELSE 0

LEMMA CutCode ==
  ASSUME NEW c \in Code, NEW i \in 1 .. Len(c)
  PROVE  /\ Calls(SubSeq(c, i, Len(c))) = CallOne(c[i]) + Calls(SubSeq(c, i + 1, Len(c)))
         /\ Calls(SubSeq(c, 1, i)) = Calls(SubSeq(c, 1, i - 1)) + CallOne(c[i])
         /\ Calls(SubSeq(c, i + 1, Len(c))) \in Nat /\ Calls(SubSeq(c, 1, i - 1)) \in Nat
<1>1. c \in Seq(Insts) /\ Len(c) \in Nat /\ i - 1 \in 0 .. Len(c) /\ i \in Nat
  BY DEF Code, BasicBlock, Insts
<1>2. PICK p, r \in Seq(Insts) : c = Then(p, r) /\ Len(p) = i - 1
  BY <1>1, SplitAt
<1>3. Joins(c, p, r)
  BY <1>2, ThenJoins
<1>4. Len(r) # 0 /\ r[1] = c[i]
  <2>1. Len(r) \in Nat /\ Len(c) = Len(p) + Len(r)
    BY <1>2, <1>3 DEF Joins
  <2>2. Len(r) # 0 /\ 1 \in 1 .. Len(r) /\ Len(p) + 1 = i
    BY <1>1, <1>2, <2>1
  <2>3. c[Len(p) + 1] = r[1]
    BY <1>3, <2>2 DEF Joins
  <2> QED BY <2>2, <2>3
<1> DEFINE x == c[i]
<1>5. PICK q \in Seq(Insts) : r = Then(One(x), q) /\ x \in Insts
  BY <1>4, SplitHead
<1> HIDE DEF x
<1>6. /\ p \in Code /\ q \in Code /\ r \in Code /\ One(x) \in Code /\ Calls(One(x)) = CallOne(x)
      /\ p \in Seq(Insts) /\ One(x) \in Seq(Insts) /\ Len(One(x)) = 1
  BY <1>5, CallsOne, OneLen DEF Code, BasicBlock, Insts, CallOne
<1> DEFINE a == Then(p, One(x))
<1>7. a \in Code /\ a \in Seq(Insts) /\ Len(a) = i
  <2>1. a \in Seq(Insts) /\ Joins(a, p, One(x))
    BY <1>6, ThenJoins
  <2> HIDE DEF a
  <2> QED BY <1>1, <1>2, <1>6, <2>1 DEF Joins, Code, BasicBlock, Insts
<1>8. c = Then(a, q)
  BY <1>2, <1>5, <1>6, ThenAssociative
<1> HIDE DEF a
<1>9. SubSeq(c, 1, i - 1) = p /\ SubSeq(c, i, Len(c)) = r
  <2>1. SubSeq(Then(p, r), 1, Len(p)) = p
        /\ SubSeq(Then(p, r), Len(p) + 1, Len(Then(p, r))) = r
    BY <1>2, CutThen
  <2>2. Len(p) + 1 = i
    BY <1>1, <1>2
  <2> QED BY <1>2, <2>1, <2>2
<1>10. SubSeq(c, 1, i) = a /\ SubSeq(c, i + 1, Len(c)) = q
  <2>1. SubSeq(Then(a, q), 1, Len(a)) = a
        /\ SubSeq(Then(a, q), Len(a) + 1, Len(Then(a, q))) = q
    BY <1>5, <1>7, CutThen
  <2> QED BY <1>7, <1>8, <2>1
<1>11. Calls(r) = Calls(One(x)) + Calls(q) /\ Calls(q) \in Nat
  <2>1. Calls(Then(One(x), q)) = Calls(One(x)) + Calls(q)
    BY <1>6, CallsThen
  <2>2. Calls(q) \in Nat
    BY <1>6, CallsThen
  <2> QED BY <1>5, <2>1, <2>2
<1>12. Calls(a) = Calls(p) + Calls(One(x)) /\ Calls(p) \in Nat
  BY <1>6, CallsThen DEF a
<1> QED BY <1>6, <1>9, <1>10, <1>11, <1>12 DEF x

LEMMA CutEnds ==
  ASSUME NEW c \in Code
  PROVE  /\ SubSeq(c, 1, Len(c)) = c /\ Calls(SubSeq(c, 1, 0)) = 0
         /\ Calls(SubSeq(c, Len(c) + 1, Len(c))) = 0
<1>1. c \in Seq(Insts) /\ Len(c) \in Nat
  BY DEF Code, BasicBlock, Insts
<1>2. SubSeq(c, 1, Len(c)) = c
  <2>1. 1 \in 1 .. Len(c) + 1 /\ Len(c) \in 0 .. Len(c)
    BY <1>1
  <2>2. SubSeq(c, 1, Len(c)) \in Seq(Insts) /\ Cuts(c, 1, Len(c), SubSeq(c, 1, Len(c)))
    BY <1>1, <2>1, CutType
  <2> DEFINE d == SubSeq(c, 1, Len(c))
  <2> HIDE DEF d
  <2>3. d \in Seq(Insts) /\ Len(d) = Len(c) /\ \A j \in 1 .. Len(c) : d[j] = c[j]
    <3>1. d \in Seq(Insts) /\ Cuts(c, 1, Len(c), d)
      BY <2>2 DEF d
    <3> QED BY <1>1, <3>1 DEF Cuts
  <2>4. d = c
    BY <1>1, <2>3, SeqEqual
  <2> QED BY <2>4 DEF d
<1>3. SubSeq(c, 1, 0) = <<>> /\ SubSeq(c, Len(c) + 1, Len(c)) = <<>>
  BY <1>1
<1> QED BY <1>2, <1>3, CallsNone

(* The pass begins a function ...                                          *)
LEMMA ReachedStart ==
  ASSUME NEW b, NEW s, NEW g, KeptBy(b, s, g), AllWhole(b, s, g), NEW n
  PROVE  Reached(b, s, g, 1, 0, n)
<1>1. Len(s) \in Nat /\ g[0] = 0
  BY DEF KeptBy, Places
<1>2. 1 \in 1 .. Len(s) + 1 /\ g[1 - 1] = 0
  BY <1>1
<1>3. \A m \in 1 .. 1 - 1 : Done(b, s, g, m)
  OBVIOUS
<1>4. \A m \in 1 + 1 .. Len(s) : Whole(b, s, g, m)
  BY <1>1 DEF AllWhole
<1>5. 1 <= Len(s) => Whole(b, s, g, 1)
  BY <1>1 DEF AllWhole
<1> QED BY <1>2, <1>3, <1>4, <1>5 DEF Reached

(* ... has come to its end ...                                             *)
LEMMA ReachedEnd ==
  ASSUME NEW b, NEW s, NEW g, KeptBy(b, s, g), NEW j \in Nat, NEW i \in Nat, NEW n,
         Reached(b, s, g, j, i, n), ~(j <= Len(b))
  PROVE  AllDone(b, s, g)
<1>1. Len(s) \in Nat /\ Places(b, s, g) /\ Len(b) \in Nat
  BY DEF KeptBy, Parts
<1>2. PICK k \in 1 .. Len(s) + 1 :
         /\ \A m \in 1 .. k - 1 : Done(b, s, g, m)
         /\ i = 0 => j = g[k - 1] + 1
         /\ i > 0 => k <= Len(s) /\ Midway(b, s, g, k, j, i, n)
  BY DEF Reached
<1>3. k = Len(s) + 1
  <2> SUFFICES ASSUME k \in 1 .. Len(s) PROVE FALSE
    BY <1>1, <1>2
  <2>1. g[k] \in 1 .. Len(b) /\ g[k - 1] + 1 \in 1 .. Len(b)
    BY <1>1, PlacesAre
  <2>2. CASE i = 0
    BY <1>2, <2>1, <2>2
  <2>3. CASE i > 0
    BY <1>2, <2>1, <2>3 DEF Midway
  <2> QED BY <2>2, <2>3
<1>4. k - 1 = Len(s)
  BY <1>1, <1>3
<1> QED BY <1>2, <1>4 DEF AllDone

(* ... enters a block ...                                                  *)
LEMMA ReachedEnter ==
  ASSUME NEW b, NEW s, NEW g, KeptBy(b, s, g), NEW j \in Nat, NEW n,
         Reached(b, s, g, j, 0, n), j <= Len(b)
  PROVE  Reached(b, s, g, j, 1, 0)
<1>1. Len(s) \in Nat /\ Places(b, s, g) /\ Parts(b) /\ Len(b) \in Nat
  BY DEF KeptBy, Parts
<1>2. PICK k \in 1 .. Len(s) + 1 :
         /\ \A m \in 1 .. k - 1 : Done(b, s, g, m)
         /\ \A m \in k + 1 .. Len(s) : Whole(b, s, g, m)
         /\ j = g[k - 1] + 1 /\ (k <= Len(s) => Whole(b, s, g, k))
  BY DEF Reached
<1>3. k <= Len(s)
  <2> SUFFICES ASSUME k = Len(s) + 1 PROVE FALSE
    BY <1>1, <1>2
  <2>1. k - 1 = Len(s)
    BY <1>1
  <2>2. j = Len(b) + 1
    BY <1>1, <1>2, <2>1 DEF Places
  <2> QED BY <1>1, <2>2
<1>4. k \in 1 .. Len(s)
  BY <1>1, <1>2, <1>3
<1>5. g[k] \in 1 .. Len(b) /\ g[k - 1] \in 0 .. Len(b)
  BY <1>1, <1>4, PlacesAre
<1>6. g[k] = g[k - 1] + 1 /\ j = g[k] /\ Calls(b[j].code) = Calls(s[k])
  BY <1>2, <1>3 DEF Whole
<1>7. b[j].code \in Code
  BY <1>1, <1>5, <1>6, PartsAre
<1> DEFINE c == b[j].code
<1>8. /\ SubSeq(c, 1, Len(c)) = c /\ Calls(SubSeq(c, 1, 0)) = 0 /\ Calls(c) \in Nat
      /\ Len(c) \in Nat
  BY <1>7, CutEnds, CallsThen, ElementType DEF Code
<1>9. Midway(b, s, g, k, j, 1, 0)
  <2>1. 1 \in 1 .. Len(c) + 1
    BY <1>8
  <2>2. \A m \in g[k - 1] + 1 .. g[k] - 1 : Calls(b[m].code) <= 1
    BY <1>5, <1>6
  <2>3. 0 + Calls(SubSeq(c, 1, Len(c))) = Calls(s[k])
    <3>1. Calls(SubSeq(c, 1, Len(c))) = Calls(c)
      BY <1>8
    <3>2. Calls(SubSeq(c, 1, Len(c))) \in Nat /\ Calls(c) = Calls(s[k])
      BY <1>6, <1>8, <3>1
    <3> HIDE DEF c
    <3> QED BY <3>1, <3>2
  <2>4. Calls(SubSeq(c, 1, 1 - 1)) = 0
    BY <1>8
  <2> QED BY <1>6, <2>1, <2>2, <2>3, <2>4 DEF Midway, AtLeastOne
<1> QED BY <1>2, <1>3, <1>9 DEF Reached

(* ... and leaves it.                                                      *)
LEMMA ReachedLeave ==
  ASSUME NEW b, NEW s, NEW g, KeptBy(b, s, g), NEW j \in Nat, NEW i \in Nat \ {0},
         NEW n \in Nat, Reached(b, s, g, j, i, n), i > Len(b[j].code)
  PROVE  Reached(b, s, g, j + 1, 0, n)
<1>1. Len(s) \in Nat /\ Places(b, s, g) /\ Parts(b) /\ Len(b) \in Nat
  BY DEF KeptBy, Parts
<1>2. PICK k \in 1 .. Len(s) + 1 :
         /\ \A m \in 1 .. k - 1 : Done(b, s, g, m)
         /\ \A m \in k + 1 .. Len(s) : Whole(b, s, g, m)
         /\ k <= Len(s) /\ Midway(b, s, g, k, j, i, n)
  BY DEF Reached
<1>3. k \in 1 .. Len(s) /\ k \in Nat
  BY <1>1, <1>2
<1>4. g[k] \in 1 .. Len(b) /\ g[k - 1] \in 0 .. Len(b)
  BY <1>1, <1>3, PlacesAre
<1> DEFINE c == b[j].code
<1>5. j = g[k] /\ c \in Code /\ Len(c) \in Nat
  <2>1. j = g[k]
    BY <1>2 DEF Midway
  <2> QED BY <1>1, <1>4, <2>1, PartsAre, ElementType DEF Code
<1>6. /\ g[k] = g[k - 1] + AtLeastOne(n) /\ i = Len(c) + 1
      /\ \A m \in g[k - 1] + 1 .. g[k] - 1 : Calls(b[m].code) <= 1
      /\ n + Calls(SubSeq(c, i, Len(c))) = Calls(s[k])
      /\ Calls(SubSeq(c, 1, i - 1)) = IF n = 0 THEN 0 ELSE 1
  BY <1>2, <1>5 DEF Midway
<1>7. n = Calls(s[k]) /\ Calls(c) <= 1
  <2>1. Calls(SubSeq(c, Len(c) + 1, Len(c))) = 0 /\ SubSeq(c, 1, Len(c)) = c
    BY <1>5, CutEnds
  <2>2. i - 1 = Len(c)
    BY <1>5, <1>6
  <2>3. n + 0 = Calls(s[k])
    BY <1>6, <2>1
  <2>4. Calls(c) = IF n = 0 THEN 0 ELSE 1
    BY <1>6, <2>1, <2>2
  <2> QED BY <2>3, <2>4
<1>8. Done(b, s, g, k)
  <2>1. \A m \in g[k - 1] + 1 .. g[k] : m \in g[k - 1] + 1 .. g[k] - 1 \/ m = j
    BY <1>4, <1>5
  <2> QED BY <1>6, <1>7, <2>1 DEF Done
<1>9. \A m \in 1 .. k : Done(b, s, g, m)
  <2>1. \A m \in 1 .. k : m \in 1 .. k - 1 \/ m = k
    BY <1>3
  <2> QED BY <1>2, <1>8, <2>1
<1> DEFINE l == k + 1
<1>10. /\ l \in 1 .. Len(s) + 1 /\ l - 1 = k
       /\ \A m \in l + 1 .. Len(s) : m \in k + 1 .. Len(s)
       /\ l <= Len(s) => l \in k + 1 .. Len(s)
  BY <1>1, <1>3
<1> HIDE DEF l
<1>11. /\ \A m \in 1 .. l - 1 : Done(b, s, g, m)
       /\ \A m \in l + 1 .. Len(s) : Whole(b, s, g, m)
       /\ j + 1 = g[l - 1] + 1 /\ (l <= Len(s) => Whole(b, s, g, l))
  BY <1>2, <1>5, <1>9, <1>10
<1> QED BY <1>10, <1>11 DEF Reached

(* The pass goes on in a block, and splits it.                             *)
LEMMA ReachedNext ==
  ASSUME NEW b, NEW s, NEW g, KeptBy(b, s, g), NEW j \in Nat,
         NEW i \in 1 .. Len(b[j].code), NEW n \in Nat, Reached(b, s, g, j, i, n),
         IsCall(b[j].code[i]) => n = 0
  PROVE  Reached(b, s, g, j, i + 1, n + CallOne(b[j].code[i]))
<1>1. Len(s) \in Nat /\ Places(b, s, g) /\ Parts(b) /\ Len(b) \in Nat
  BY DEF KeptBy, Parts
<1>2. PICK k \in 1 .. Len(s) + 1 :
         /\ \A m \in 1 .. k - 1 : Done(b, s, g, m)
         /\ \A m \in k + 1 .. Len(s) : Whole(b, s, g, m)
         /\ k <= Len(s) /\ Midway(b, s, g, k, j, i, n)
  <2>1. i > 0
    OBVIOUS
  <2> QED BY <2>1 DEF Reached
<1>3. k \in 1 .. Len(s) /\ k \in Nat
  BY <1>1, <1>2
<1>4. g[k] \in 1 .. Len(b) /\ g[k - 1] \in 0 .. Len(b)
  BY <1>1, <1>3, PlacesAre
<1> DEFINE c == b[j].code
           x == c[i]
           y == i + 1
           l == n + CallOne(x)
<1>5. j = g[k] /\ c \in Code /\ Len(c) \in Nat /\ i \in 1 .. Len(c)
  <2>1. j = g[k]
    BY <1>2 DEF Midway
  <2> QED BY <1>1, <1>4, <2>1, PartsAre, ElementType DEF Code
<1>6. /\ g[k] = g[k - 1] + AtLeastOne(n)
      /\ \A m \in g[k - 1] + 1 .. g[k] - 1 : Calls(b[m].code) <= 1
      /\ n + Calls(SubSeq(c, i, Len(c))) = Calls(s[k])
      /\ Calls(SubSeq(c, 1, i - 1)) = IF n = 0 THEN 0 ELSE 1
  BY <1>2 DEF Midway
<1>7. /\ Calls(SubSeq(c, i, Len(c))) = CallOne(x) + Calls(SubSeq(c, y, Len(c)))
      /\ Calls(SubSeq(c, 1, i)) = Calls(SubSeq(c, 1, i - 1)) + CallOne(x)
      /\ Calls(SubSeq(c, y, Len(c))) \in Nat
  BY <1>5, CutCode
<1>8. /\ CallOne(x) \in {0, 1} /\ (CallOne(x) = 1 => n = 0)
      /\ AtLeastOne(l) = AtLeastOne(n)
  BY DEF CallOne, AtLeastOne
<1>9. y \in 1 .. Len(c) + 1 /\ y - 1 = i /\ y > 0
  BY <1>5
<1> DEFINE u == Calls(SubSeq(c, i, Len(c)))
           v == Calls(SubSeq(c, y, Len(c)))
           w == Calls(SubSeq(c, 1, i - 1))
           z == CallOne(x)
<1>10. l + v = Calls(s[k])
  <2>1. u = z + v /\ v \in Nat /\ z \in {0, 1} /\ n + u = Calls(s[k])
    BY <1>6, <1>7, <1>8
  <2> HIDE DEF u, v, z
  <2>2. n + z + v = Calls(s[k])
    BY <2>1
  <2> QED BY <2>2 DEF z
<1>11. w + z = IF l = 0 THEN 0 ELSE 1
  <2>1. w = (IF n = 0 THEN 0 ELSE 1) /\ z \in {0, 1} /\ (z = 1 => n = 0)
    BY <1>6, <1>8
  <2> HIDE DEF w, z
  <2>2. w + z = IF n + z = 0 THEN 0 ELSE 1
    BY <2>1
  <2> QED BY <2>2 DEF z
<1> HIDE DEF c, x, y, l, z
<1>12. Midway(b, s, g, k, j, y, l)
  BY <1>5, <1>6, <1>7, <1>8, <1>9, <1>10, <1>11 DEF Midway, c, z
<1>13. Reached(b, s, g, j, y, l)
  <2>1. y # 0
    BY <1>9
  <2> QED BY <1>2, <1>12, <2>1 DEF Reached
<1> QED BY <1>13 DEF y, l, x, c

(* The places are in order.                                                *)
LEMMA Ordered ==
  ASSUME NEW b, NEW s, NEW g, Places(b, s, g), Len(s) \in Nat, Len(b) \in Nat,
         NEW k \in 0 .. Len(s)
  PROVE  \A m \in k .. Len(s) : g[k] <= g[m]
<1> DEFINE T == {n \in Nat : k + n <= Len(s) => g[k] <= g[k + n]}
<1>1. \A m \in 0 .. Len(s) : g[m] \in 0 .. Len(b)
  BY DEF Places
<1>2. \A m \in 1 .. Len(s) : g[m - 1] < g[m]
  BY DEF Places
<1>3. 0 \in T
  <2>1. g[k] \in 0 .. Len(b)
    BY <1>1
  <2>2. k + 0 = k /\ g[k] <= g[k]
    BY <2>1
  <2> QED BY <2>2
<1>4. ASSUME NEW n \in Nat, n \in T PROVE n + 1 \in T
  <2> SUFFICES ASSUME k + (n + 1) <= Len(s) PROVE g[k] <= g[k + (n + 1)]
    OBVIOUS
  <2> DEFINE i == k + n
             m == k + (n + 1)
  <2>1. /\ i \in 0 .. Len(s) /\ m \in 0 .. Len(s) /\ m - 1 = i /\ m \in 1 .. Len(s)
        /\ i <= Len(s) /\ k \in 0 .. Len(s)
    OBVIOUS
  <2>2. g[k] <= g[i]
    BY <1>4, <2>1
  <2> HIDE DEF i, m
  <2>3. g[i] < g[m]
    BY <1>2, <2>1
  <2>4. g[k] \in Nat /\ g[i] \in Nat /\ g[m] \in Nat
    BY <1>1, <2>1
  <2>5. g[k] <= g[m]
    BY <2>2, <2>3, <2>4
  <2> QED BY <2>5 DEF m
<1>5. \A n \in Nat : n \in T
  <2> HIDE DEF T
  <2> QED BY <1>3, <1>4, Induct
<1> SUFFICES ASSUME NEW m \in k .. Len(s) PROVE g[k] <= g[m]
  OBVIOUS
<1> DEFINE n == m - k
<1>6. n \in Nat /\ k + n = m /\ m <= Len(s)
  OBVIOUS
<1> HIDE DEF n
<1>7. n \in T
  BY <1>5, <1>6
<1> QED BY <1>6, <1>7

LEMMA HalfCalls ==
  ASSUME NEW b, Parts(b), NEW j \in 1 .. Len(b), NEW i \in 1 .. Len(b[j].code),
         NEW d, SplitAs(b, d, j, i), IsCall(b[j].code[i])
  PROVE  /\ Len(d[j + 1].code) \in Nat \ {0}
         /\ Calls(SubSeq(d[j + 1].code, 1, 1)) = 1
         /\ 1 + Calls(SubSeq(d[j + 1].code, 2, Len(d[j + 1].code)))
              = Calls(SubSeq(b[j].code, i, Len(b[j].code)))
<1> DEFINE x == b[j].id
           n == Len(b) + 1
           c == b[j].code
           q == SubSeq(c, i, Len(c))
           e == Behind(c, i, x, n)
<1>1. x \in Nat /\ n \in Nat /\ Shaped(c) /\ c \in Code
  BY PartsAre
<1>2. d[j + 1].code = e
  BY DEF SplitAs, PartOf
<1>3. Shaped(e) /\ Calls(e) = Calls(q) /\ Len(e) = Len(c) - i + 1
  <2> HIDE DEF c, x, n
  <2> QED BY <1>1, SplitCode DEF c
<1>4. Len(e) \in Nat \ {0} /\ e \in Code /\ 1 \in 1 .. Len(e)
  <2> HIDE DEF e
  <2>1. e \in Code /\ Len(e) > 0
    BY <1>3 DEF Shaped
  <2>2. Len(e) \in Nat
    BY <2>1, ElementType DEF Code
  <2> QED BY <2>1, <2>2
<1>5. e = Moved(q, x, n)
  BY DEF Behind
<1>6. c \in Seq(Insts) /\ Len(c) \in Nat
  BY <1>1 DEF Code, BasicBlock, Insts
<1>7. Cuts(c, i, Len(c), q) /\ q \in Seq(Insts)
  <2> DEFINE l == Len(c)
  <2>1. l \in 0 .. Len(c) /\ i \in 1 .. Len(c) + 1
    BY <1>6
  <2> HIDE DEF l, c
  <2>2. SubSeq(c, i, l) \in Seq(Insts) /\ Cuts(c, i, l, SubSeq(c, i, l))
    BY <1>6, <2>1, CutType
  <2> QED BY <2>2 DEF l
<1>8. q[1] = c[i] /\ q[1] \in Insts /\ 1 \in DOMAIN q
  <2> HIDE DEF q
  <2>1. Len(q) = Len(c) - i + 1 /\ \A m \in 1 .. Len(c) - i + 1 : q[m] = c[i + m - 1]
    <3> HIDE DEF c
    <3> QED BY <1>6, <1>7 DEF Cuts, c
  <2>2. 1 \in 1 .. Len(c) - i + 1 /\ i + 1 - 1 = i
    BY <1>6
  <2>3. q[1] = c[i + 1 - 1]
    BY <2>1, <2>2
  <2>4. 1 \in DOMAIN q
    BY <1>7, <2>1, <2>2
  <2>5. q[1] \in Insts
    BY <1>7, <2>4
  <2> QED BY <2>2, <2>3, <2>4, <2>5
<1>9. e[1] = Move(q[1], x, n)
  <2> HIDE DEF q, x, n, e
  <2> QED BY <1>5, <1>8 DEF Moved
<1>10. CallOne(e[1]) = 1
  <2> HIDE DEF q, x, n, e, c
  <2>1. e[1].op = q[1].op
    BY <1>1, <1>8, <1>9, MoveIs
  <2>2. IsCall(q[1])
    BY <1>8 DEF c
  <2> QED BY <2>1, <2>2 DEF CallOne, IsCall
<1> HIDE DEF e, q
<1>11. /\ Calls(SubSeq(e, 1, Len(e))) = CallOne(e[1]) + Calls(SubSeq(e, 1 + 1, Len(e)))
       /\ Calls(SubSeq(e, 1, 1)) = Calls(SubSeq(e, 1, 1 - 1)) + CallOne(e[1])
  BY <1>4, CutCode
<1>12. SubSeq(e, 1, Len(e)) = e /\ Calls(SubSeq(e, 1, 0)) = 0
  BY <1>4, CutEnds
<1>13. 1 + 1 = 2 /\ 1 - 1 = 0
  OBVIOUS
<1>14. Calls(e) = 1 + Calls(SubSeq(e, 2, Len(e)))
  BY <1>10, <1>11, <1>12, <1>13
<1>15. Calls(SubSeq(e, 1, 1)) = 0 + 1
  BY <1>10, <1>11, <1>12, <1>13
<1> QED BY <1>2, <1>3, <1>4, <1>14, <1>15 DEF q

(* The parts in front of the one that is split are as they were.           *)
LEMMA DoneStays ==
  ASSUME NEW b, NEW s, NEW g, Places(b, s, g), Len(s) \in Nat, Len(b) \in Nat,
         NEW j \in 1 .. Len(b), NEW d,
         \A m \in 1 .. j - 1 : Calls(d[m].code) = Calls(b[m].code),
         NEW k \in 1 .. Len(s), g[k] < j, Done(b, s, g, k)
  PROVE  Done(d, s, NextPlaces(s, g, j), k)
<1> DEFINE h == NextPlaces(s, g, j)
<1>1. /\ k \in 0 .. Len(s) /\ k - 1 \in 0 .. Len(s)
      /\ g[k] \in 1 .. Len(b) /\ g[k - 1] \in 0 .. Len(b) /\ g[k - 1] < g[k]
  BY PlacesAre
<1>2. h[k] = g[k] /\ h[k - 1] = g[k - 1]
  <2>1. g[k - 1] < j
    BY <1>1
  <2> QED BY <1>1, <2>1, NextIs
<1> HIDE DEF h
<1>3. /\ g[k] = g[k - 1] + AtLeastOne(Calls(s[k]))
      /\ \A m \in g[k - 1] + 1 .. g[k] : Calls(b[m].code) <= 1
  BY DEF Done
<1>4. \A m \in g[k - 1] + 1 .. g[k] : m \in 1 .. j - 1
  BY <1>1
<1>5. \A m \in h[k - 1] + 1 .. h[k] : Calls(d[m].code) <= 1
  BY <1>2, <1>3, <1>4
<1> QED BY <1>2, <1>3, <1>5 DEF Done, h

(* So are those behind it.                                                 *)
LEMMA WholeStays ==
  ASSUME NEW b, NEW s, NEW g, Places(b, s, g), Len(s) \in Nat, Len(b) \in Nat,
         NEW j \in 1 .. Len(b), NEW d,
         \A m \in j + 1 .. Len(b) : Calls(d[m + 1].code) = Calls(b[m].code),
         NEW k \in 1 .. Len(s), ~(g[k - 1] < j), Whole(b, s, g, k)
  PROVE  Whole(d, s, NextPlaces(s, g, j), k)
<1> DEFINE h == NextPlaces(s, g, j)
<1>1. /\ k \in 0 .. Len(s) /\ k - 1 \in 0 .. Len(s)
      /\ g[k] \in 1 .. Len(b) /\ g[k - 1] \in 0 .. Len(b) /\ g[k - 1] < g[k]
  BY PlacesAre
<1>2. h[k] = g[k] + 1 /\ h[k - 1] = g[k - 1] + 1
  <2>1. ~(g[k] < j)
    BY <1>1
  <2> QED BY <1>1, <2>1, NextIs
<1> HIDE DEF h
<1>3. g[k] = g[k - 1] + 1 /\ Calls(b[g[k]].code) = Calls(s[k])
  BY DEF Whole
<1>4. g[k] \in j + 1 .. Len(b)
  BY <1>1
<1>5. Calls(d[g[k] + 1].code) = Calls(b[g[k]].code)
  BY <1>4
<1>6. h[k] = h[k - 1] + 1
  BY <1>2, <1>3
<1>7. Calls(d[h[k]].code) = Calls(s[k])
  BY <1>2, <1>3, <1>5
<1> QED BY <1>6, <1>7 DEF Whole, h

LEMMA CutAt ==
  ASSUME NEW s, NEW g, NEW j, NEW k \in 0 .. Len(s), k - 1 \in 0 .. Len(s),
         ~(g[k] < j), g[k - 1] < j
  PROVE  /\ NextPlaces(s, g, j)[k] = g[k] + 1
         /\ NextPlaces(s, g, j)[k - 1] = g[k - 1]
BY DEF NextPlaces

(* The pass splits the block it is in, in front of the next call.          *)
LEMMA ReachedSplit ==
  ASSUME NEW b, NEW s, NEW g, KeptBy(b, s, g), NEW j \in 1 .. Len(b),
         NEW i \in 1 .. Len(b[j].code), NEW n \in Nat \ {0}, Reached(b, s, g, j, i, n),
         IsCall(b[j].code[i]), NEW d, SplitAs(b, d, j, i)
  PROVE  Reached(d, s, NextPlaces(s, g, j), j + 1, 2, n + 1)
<1> DEFINE h == NextPlaces(s, g, j)
<1>1. Len(s) \in Nat /\ Places(b, s, g) /\ Parts(b) /\ Len(b) \in Nat
  BY DEF KeptBy, Parts
<1>2. PICK k \in 1 .. Len(s) + 1 :
         /\ \A m \in 1 .. k - 1 : Done(b, s, g, m)
         /\ \A m \in k + 1 .. Len(s) : Whole(b, s, g, m)
         /\ k <= Len(s) /\ Midway(b, s, g, k, j, i, n)
  <2>1. i > 0
    OBVIOUS
  <2> QED BY <2>1 DEF Reached
<1>3. k \in 1 .. Len(s) /\ k \in Nat
  BY <1>1, <1>2
<1>4. /\ k \in 0 .. Len(s) /\ k - 1 \in 0 .. Len(s)
      /\ g[k] \in 1 .. Len(b) /\ g[k - 1] \in 0 .. Len(b) /\ g[k - 1] < g[k]
  BY <1>1, <1>3, PlacesAre
<1>5. /\ j = g[k] /\ g[k] = g[k - 1] + AtLeastOne(n)
      /\ \A m \in g[k - 1] + 1 .. g[k] - 1 : Calls(b[m].code) <= 1
      /\ n + Calls(SubSeq(b[j].code, i, Len(b[j].code))) = Calls(s[k])
      /\ Calls(SubSeq(b[j].code, 1, i - 1)) = IF n = 0 THEN 0 ELSE 1
  BY <1>2 DEF Midway
<1>6. Halved(b, d, j, i, b[j].id, Len(b) + 1)
  BY <1>1, SplitHalves
<1>7. /\ \A m \in 1 .. j - 1 : Calls(d[m].code) = Calls(b[m].code)
      /\ \A m \in j + 1 .. Len(b) : Calls(d[m + 1].code) = Calls(b[m].code)
      /\ Calls(d[j].code) = Calls(SubSeq(b[j].code, 1, i - 1))
  BY <1>6 DEF Halved, Halves, Follows
<1>0. \A m \in 0 .. Len(s) : g[m] \in Nat
  <2>1. \A m \in 0 .. Len(s) : g[m] \in 0 .. Len(b)
    BY <1>1 DEF Places
  <2> QED BY <1>1, <2>1
<1>8. ASSUME NEW m \in 1 .. k - 1 PROVE Done(d, s, h, m)
  <2> DEFINE l == k - 1
  <2>1. m \in 1 .. Len(s) /\ l \in m .. Len(s) /\ m \in 0 .. Len(s) /\ l \in 0 .. Len(s)
    BY <1>3
  <2> HIDE DEF l
  <2>2. g[m] <= g[l]
    BY <1>1, <2>1, Ordered
  <2>3. g[m] < j
    <3>1. g[m] \in Nat /\ g[l] \in Nat
      BY <1>0, <2>1
    <3>2. g[l] < j
      BY <1>4, <1>5 DEF l
    <3> QED BY <1>5, <2>2, <3>1, <3>2
  <2>4. Done(b, s, g, m)
    BY <1>2
  <2> QED BY <1>1, <1>7, <2>1, <2>3, <2>4, DoneStays
<1>9. ASSUME NEW m \in k + 1 .. Len(s) PROVE Whole(d, s, h, m)
  <2> DEFINE l == m - 1
  <2>1. m \in 1 .. Len(s) /\ l \in k .. Len(s) /\ l \in 0 .. Len(s)
    BY <1>3
  <2> HIDE DEF l
  <2>2. g[k] <= g[l]
    BY <1>1, <1>4, <2>1, Ordered
  <2>3. g[l] \in Nat
    BY <1>0, <2>1
  <2>4. ~(g[m - 1] < j)
    BY <1>5, <2>2, <2>3 DEF l
  <2>5. Whole(b, s, g, m)
    BY <1>2
  <2> QED BY <1>1, <1>7, <2>1, <2>4, <2>5, WholeStays
<1>10. h[k] = j + 1 /\ h[k - 1] = g[k - 1]
  <2>1. ~(g[k] < j) /\ g[k - 1] < j
    BY <1>4, <1>5
  <2>2. h[k] = g[k] + 1 /\ h[k - 1] = g[k - 1]
    BY <1>4, <2>1, CutAt
  <2> QED BY <1>5, <2>2
<1> HIDE DEF h
<1>11. /\ Len(d[j + 1].code) \in Nat \ {0}
       /\ Calls(SubSeq(d[j + 1].code, 1, 1)) = 1
       /\ 1 + Calls(SubSeq(d[j + 1].code, 2, Len(d[j + 1].code)))
            = Calls(SubSeq(b[j].code, i, Len(b[j].code)))
  BY <1>1, HalfCalls
<1>12. SubSeq(b[j].code, i, Len(b[j].code)) \in Code
       /\ SubSeq(d[j + 1].code, 2, Len(d[j + 1].code)) \in Code
  <2>1. Parts(d) /\ Len(d) = Len(b) + 1
    BY <1>6 DEF Halved
  <2>2. j + 1 \in 1 .. Len(d)
    BY <1>1, <2>1
  <2>3. d[j + 1].code \in Code /\ b[j].code \in Code
    BY <1>1, <2>1, <2>2, PartsAre
  <2> DEFINE p == d[j + 1].code
             q == b[j].code
  <2>4. p \in Seq(Insts) /\ q \in Seq(Insts)
    BY <2>3 DEF Code, BasicBlock, Insts
  <2>5. SubSeq(p, 2, Len(p)) \in Seq(Insts) /\ SubSeq(q, i, Len(q)) \in Seq(Insts)
    <3> HIDE DEF p, q
    <3>1. i \in Nat \ {0}
      BY DEF q
    <3> QED BY <2>4, <3>1
  <2> QED BY <2>5 DEF Code, BasicBlock, Insts
<1>13. n + 1 + Calls(SubSeq(d[j + 1].code, 2, Len(d[j + 1].code))) = Calls(s[k])
  <2> DEFINE u == Calls(SubSeq(d[j + 1].code, 2, Len(d[j + 1].code)))
             v == Calls(SubSeq(b[j].code, i, Len(b[j].code)))
  <2>1. u \in Nat
    BY <1>12, CallsThen
  <2>2. 1 + u = v /\ n + v = Calls(s[k])
    BY <1>5, <1>11
  <2> HIDE DEF u, v
  <2>3. n + 1 + u = Calls(s[k])
    BY <2>1, <2>2
  <2> QED BY <2>3 DEF u
<1>14. \A m \in h[k - 1] + 1 .. h[k] - 1 : Calls(d[m].code) <= 1
  <2> SUFFICES ASSUME NEW m \in h[k - 1] + 1 .. h[k] - 1 PROVE Calls(d[m].code) <= 1
    OBVIOUS
  <2>1. m \in g[k - 1] + 1 .. j
    BY <1>10
  <2>2. CASE m = j
    BY <1>5, <1>7, <2>2
  <2>3. CASE m # j
    <3>1. m \in g[k - 1] + 1 .. g[k] - 1 /\ m \in 1 .. j - 1
      BY <1>4, <1>5, <2>1, <2>3
    <3> QED BY <1>5, <1>7, <3>1
  <2> QED BY <2>2, <2>3
<1>15. h[k] = h[k - 1] + AtLeastOne(n + 1)
  <2>1. AtLeastOne(n + 1) = n + 1 /\ AtLeastOne(n) = n
    BY DEF AtLeastOne
  <2> DEFINE u == g[k - 1]
             v == h[k]
             w == h[k - 1]
  <2>2. u \in Nat /\ j = u + n /\ v = j + 1 /\ w = u
    BY <1>4, <1>5, <1>10, <2>1
  <2> HIDE DEF u, v, w
  <2>3. v = w + (n + 1)
    BY <2>2
  <2> QED BY <2>1, <2>3 DEF v, w
<1> DEFINE y == j + 1
           l == n + 1
<1>16. Midway(d, s, h, k, y, 2, l)
  <2>1. 2 \in 1 .. Len(d[y].code) + 1
    BY <1>11
  <2>2. Calls(SubSeq(d[y].code, 1, 2 - 1)) = 1 /\ l # 0
    BY <1>11
  <2>3. y = h[k]
    BY <1>10
  <2>4. l + Calls(SubSeq(d[y].code, 2, Len(d[y].code))) = Calls(s[k])
    BY <1>13
  <2>5. h[k] = h[k - 1] + AtLeastOne(l)
    BY <1>15
  <2> HIDE DEF y, l
  <2> QED BY <1>14, <2>1, <2>2, <2>3, <2>4, <2>5 DEF Midway
<1> HIDE DEF y, l
<1>17. Reached(d, s, h, y, 2, l)
  BY <1>2, <1>8, <1>9, <1>16 DEF Reached
<1> QED BY <1>17 DEF h, y, l
-----------------------------------------------------------------------------
(* The function through the phases.                                        *)
LEMMA TrackedPlaces ==
  ASSUME NEW f, NEW p, NEW b, NEW s, NEW j, NEW i, NEW n, Tracked(f, p, b, s, j, i, n)
  PROVE  \E g \in [0 .. Len(s) -> 0 .. Len(b)] : KeptBy(b, s, g)
BY DEF Tracked

LEMMA TrackedBy ==
  ASSUME NEW f, NEW p, NEW b, NEW s, NEW j, NEW i, NEW n, NEW g, KeptBy(b, s, g),
         SplitSkips(f) \/ Staged(p, b, s, g, j, i, n)
  PROVE  Tracked(f, p, b, s, j, i, n)
<1>1. g \in [0 .. Len(s) -> 0 .. Len(b)]
  BY DEF KeptBy, Places
<1> QED BY <1>1 DEF Tracked

LEMMA TrackedIs ==
  ASSUME NEW f, NEW p, NEW b, NEW s, NEW j, NEW i, NEW n, Tracked(f, p, b, s, j, i, n)
  PROVE  \E g : KeptBy(b, s, g) /\ (SplitSkips(f) \/ Staged(p, b, s, g, j, i, n))
BY DEF Tracked

(* Of a function the split is not in, the iterators say nothing.           *)
LEMMA TrackElsewhere ==
  ASSUME NEW f, NEW p, NEW b, NEW s, NEW j, NEW i, NEW n, Tracked(f, p, b, s, j, i, n),
         p # "now", NEW x, NEW y, NEW z
  PROVE  Tracked(f, p, b, s, x, y, z)
<1>1. PICK g : KeptBy(b, s, g) /\ (SplitSkips(f) \/ Staged(p, b, s, g, j, i, n))
  BY TrackedIs
<1>2. SplitSkips(f) \/ Staged(p, b, s, g, x, y, z)
  BY <1>1 DEF Staged
<1> QED BY <1>1, <1>2, TrackedBy

LEMMA TrackAny ==
  ASSUME NEW f, NEW p, NEW b, NEW s, NEW j, NEW i, NEW n, Tracked(f, p, b, s, j, i, n),
         NEW x, NEW y, NEW z
  PROVE  Tracked(f, "any", b, s, x, y, z)
<1>1. PICK g : KeptBy(b, s, g)
  BY TrackedIs
<1>2. Staged("any", b, s, g, x, y, z)
  BY DEF Staged
<1> QED BY <1>1, <1>2, TrackedBy

LEMMA TrackSkipped ==
  ASSUME NEW f, NEW p, NEW b, NEW s, NEW j, NEW i, NEW n, Tracked(f, p, b, s, j, i, n),
         SplitSkips(f), NEW q, NEW x, NEW y, NEW z
  PROVE  Tracked(f, q, b, s, x, y, z)
<1>1. PICK g : KeptBy(b, s, g)
  BY TrackedIs
<1> QED BY <1>1, TrackedBy

LEMMA TrackStart ==
  ASSUME NEW f, NEW b, NEW s, NEW j, NEW i, NEW n, Tracked(f, "whole", b, s, j, i, n)
  PROVE  Tracked(f, "now", b, s, 1, 0, 0)
<1>1. PICK g : KeptBy(b, s, g) /\ (SplitSkips(f) \/ Staged("whole", b, s, g, j, i, n))
  BY TrackedIs
<1>2. SplitSkips(f) \/ Staged("now", b, s, g, 1, 0, 0)
  BY <1>1, ReachedStart DEF Staged
<1> QED BY <1>1, <1>2, TrackedBy

LEMMA TrackEnd ==
  ASSUME NEW f, NEW b, NEW s, NEW j \in Nat, NEW i \in Nat, NEW n,
         Tracked(f, "now", b, s, j, i, n), ~(j <= Len(b)), NEW x, NEW y, NEW z
  PROVE  Tracked(f, "done", b, s, x, y, z)
<1>1. PICK g : KeptBy(b, s, g) /\ (SplitSkips(f) \/ Staged("now", b, s, g, j, i, n))
  BY TrackedIs
<1>2. SplitSkips(f) \/ Staged("done", b, s, g, x, y, z)
  BY <1>1, ReachedEnd DEF Staged
<1> QED BY <1>1, <1>2, TrackedBy

LEMMA TrackEnter ==
  ASSUME NEW f, NEW b, NEW s, NEW j \in Nat, NEW n, Tracked(f, "now", b, s, j, 0, n),
         j <= Len(b)
  PROVE  Tracked(f, "now", b, s, j, 1, 0) /\ 1 <= Len(b[j].code) + 1
<1>1. PICK g : KeptBy(b, s, g) /\ (SplitSkips(f) \/ Staged("now", b, s, g, j, 0, n))
  BY TrackedIs
<1>2. SplitSkips(f) \/ Staged("now", b, s, g, j, 1, 0)
  BY <1>1, ReachedEnter DEF Staged
<1> QED BY <1>1, <1>2, TrackedBy

LEMMA TrackLeave ==
  ASSUME NEW f, NEW b, NEW s, NEW j \in Nat, NEW i \in Nat \ {0}, NEW n \in Nat,
         Tracked(f, "now", b, s, j, i, n), i > Len(b[j].code)
  PROVE  Tracked(f, "now", b, s, j + 1, 0, n)
<1>1. PICK g : KeptBy(b, s, g) /\ (SplitSkips(f) \/ Staged("now", b, s, g, j, i, n))
  BY TrackedIs
<1>2. SplitSkips(f) \/ Staged("now", b, s, g, j + 1, 0, n)
  BY <1>1, ReachedLeave DEF Staged
<1> QED BY <1>1, <1>2, TrackedBy

LEMMA TrackNext ==
  ASSUME NEW f, NEW b, NEW s, NEW j \in Nat, NEW i \in 1 .. Len(b[j].code), NEW n \in Nat,
         Tracked(f, "now", b, s, j, i, n), IsCall(b[j].code[i]) => n = 0
  PROVE  Tracked(f, "now", b, s, j, i + 1, n + CallOne(b[j].code[i]))
<1>1. PICK g : KeptBy(b, s, g) /\ (SplitSkips(f) \/ Staged("now", b, s, g, j, i, n))
  BY TrackedIs
<1>2. SplitSkips(f) \/ Staged("now", b, s, g, j, i + 1, n + CallOne(b[j].code[i]))
  BY <1>1, ReachedNext DEF Staged
<1> QED BY <1>1, <1>2, TrackedBy

LEMMA TrackSplit ==
  ASSUME NEW f, NEW b, NEW s, NEW j \in 1 .. Len(b), NEW i \in 1 .. Len(b[j].code),
         NEW n \in Nat \ {0}, Tracked(f, "now", b, s, j, i, n), IsCall(b[j].code[i])
  PROVE  Tracked(f, "now", SplitBefore(b, j, i), s, j + 1, 2, n + 1)
<1> DEFINE d == SplitBefore(b, j, i)
<1>1. PICK g : KeptBy(b, s, g) /\ (SplitSkips(f) \/ Staged("now", b, s, g, j, i, n))
  BY TrackedIs
<1>2. SplitAs(b, d, j, i)
  BY <1>1, SplitIs DEF KeptBy
<1> HIDE DEF d
<1>3. KeptBy(d, s, NextPlaces(s, g, j))
  BY <1>1, <1>2, SplitKeeps
<1>4. SplitSkips(f) \/ Staged("now", d, s, NextPlaces(s, g, j), j + 1, 2, n + 1)
  BY <1>1, <1>2, ReachedSplit DEF Staged
<1>5. Tracked(f, "now", d, s, j + 1, 2, n + 1)
  BY <1>3, <1>4, TrackedBy
<1> QED BY <1>5 DEF d

(* The block the pass is in after a split has the call in front.           *)
LEMMA SplitBound ==
  ASSUME NEW f, NEW p, NEW b, NEW s, NEW x, NEW y, NEW z, Tracked(f, p, b, s, x, y, z),
         NEW j \in 1 .. Len(b), NEW i \in 1 .. Len(b[j].code)
  PROVE  /\ j + 1 <= Len(SplitBefore(b, j, i))
         /\ 2 <= Len(SplitBefore(b, j, i)[j + 1].code) + 1
<1> DEFINE d == SplitBefore(b, j, i)
<1>1. Parts(b)
  BY TrackedIs DEF KeptBy
<1>2. SplitAs(b, d, j, i)
  BY <1>1, SplitIs
<1> HIDE DEF d
<1>3. Halved(b, d, j, i, b[j].id, Len(b) + 1)
  BY <1>1, <1>2, SplitHalves
<1>4. Parts(d) /\ Len(d) = Len(b) + 1 /\ Len(b) \in Nat
  BY <1>1, <1>3 DEF Halved, Parts
<1>5. Len(d[j + 1].code) \in Nat \ {0}
  <2>1. j + 1 \in 1 .. Len(d)
    BY <1>4
  <2> QED BY <1>4, <2>1 DEF Parts, Shaped, Code, BasicBlock
<1> QED BY <1>4, <1>5 DEF d

(* A counter in front of the first block.                                  *)
LEMMA TrackCount ==
  ASSUME NEW f, NEW p, NEW b, NEW s, NEW j, NEW i, NEW n, Tracked(f, p, b, s, j, i, n),
         SplitSkips(f), b # <<>>, NEW h \in Helper, NEW q, NEW x, NEW y, NEW z
  PROVE  Tracked(f, q, [b EXCEPT ![1].code =
                          InsertAt(b[1].code, FirstNonPhi(b[1].code), CallOf(h))],
                 s, x, y, z)
<1> DEFINE c == InsertAt(b[1].code, FirstNonPhi(b[1].code), CallOf(h))
<1>1. PICK g : KeptBy(b, s, g)
  BY TrackedIs
<1>2. 1 \in 1 .. Len(b) /\ Shaped(b[1].code)
  <2>1. Parts(b)
    BY <1>1 DEF KeptBy
  <2>2. 1 \in 1 .. Len(b)
    BY <2>1 DEF Parts
  <2> QED BY <2>1, <2>2 DEF Parts
<1>3. Shaped(c) /\ Inner(c) = Inner(b[1].code) /\ Last(c) = Last(b[1].code)
  BY <1>2, CountIs
<1> HIDE DEF c
<1>4. KeptBy([b EXCEPT ![1].code = c], s, g)
  BY <1>1, <1>2, <1>3, CodeKeeps
<1>5. Tracked(f, q, [b EXCEPT ![1].code = c], s, x, y, z)
  BY <1>4, TrackedBy
<1> QED BY <1>5 DEF c
-----------------------------------------------------------------------------
(* The source, with nothing split yet.                                     *)
Sources(s) ==
  /\ s \in Seq(Code)
  /\ \A k \in 1 .. Len(s) : Shaped(s[k]) /\ Last(s[k]).to \subseteq 1 .. Len(s)

LEMMA SourceIs == ASSUME NEW p \in Programs, NEW f \in Name PROVE Sources(p[f])
<1> DEFINE s == p[f]
<1>1. /\ s \in Seq(Code)
      /\ \A k \in DOMAIN s :
           /\ s[k] # <<>>
           /\ \A i \in DOMAIN s[k] :
                IF i = Len(s[k])
                  THEN s[k][i].op \in {"br", "ret"} /\ s[k][i].to \subseteq DOMAIN s
                  ELSE s[k][i].op \notin {"br", "ret"} /\ s[k][i].to = {}
  <2>1. p \in [Name -> Seq(Code)]
    BY ProgramAssumption DEF Code
  <2>2. s \in Seq(Code)
    BY <2>1
  <2> QED BY <2>2, ProgramAssumption
<1> HIDE DEF s
<1>2. ASSUME NEW k \in 1 .. Len(s)
      PROVE  Shaped(s[k]) /\ Last(s[k]).to \subseteq 1 .. Len(s)
  <2> DEFINE c == s[k]
  <2>1. c \in Code /\ k \in DOMAIN s /\ DOMAIN s = 1 .. Len(s)
    BY <1>1
  <2>2. c # <<>> /\ c \in Seq(Insts)
    BY <1>1, <2>1 DEF Code, BasicBlock, Insts
  <2>3. \A i \in DOMAIN c :
          IF i = Len(c)
            THEN c[i].op \in {"br", "ret"} /\ c[i].to \subseteq DOMAIN s
            ELSE c[i].op \notin {"br", "ret"} /\ c[i].to = {}
    BY <1>1, <2>1
  <2> HIDE DEF c
  <2>4. Len(c) \in Nat /\ Len(c) > 0 /\ DOMAIN c = 1 .. Len(c)
    BY <2>2
  <2>5. Closes(c[Len(c)]) /\ c[Len(c)].to \subseteq 1 .. Len(s)
    BY <2>1, <2>3, <2>4 DEF Closes
  <2>6. \A j \in 1 .. Len(c) - 1 : c[j].to = {}
    BY <2>3, <2>4
  <2>7. Shaped(c) /\ Last(c).to \subseteq 1 .. Len(s)
    BY <2>1, <2>4, <2>5, <2>6 DEF Shaped, Last
  <2> QED BY <2>7 DEF c
<1> QED BY <1>1, <1>2 DEF Sources, s

Numbered(b, s) ==
  b \in Seq(Part) /\ Len(b) = Len(s) /\ \A k \in 1 .. Len(s) : b[k] = PartOf(k, s[k])

LEMMA NumberedIs ==
  ASSUME NEW s, Sources(s)
  PROVE  Numbered([k \in DOMAIN s |-> [id |-> k, code |-> s[k]]], s)
<1> DEFINE b == [k \in DOMAIN s |-> [id |-> k, code |-> s[k]]]
<1>1. s \in Seq(Code) /\ Len(s) \in Nat /\ DOMAIN s = 1 .. Len(s)
  BY DEF Sources
<1>2. \A k \in 1 .. Len(s) : s[k] \in Code /\ k \in Nat
  BY <1>1
<1>3. \A k \in 1 .. Len(s) : PartOf(k, s[k]) \in Part
  BY <1>2 DEF PartOf, Part
<1>4. b = [k \in 1 .. Len(s) |-> PartOf(k, s[k])]
  BY <1>1 DEF PartOf
<1> HIDE DEF b
<1>5. b \in Seq(Part) /\ Len(b) = Len(s)
  BY <1>1, <1>3, <1>4
<1>6. \A k \in 1 .. Len(s) : b[k] = PartOf(k, s[k])
  BY <1>4
<1> QED BY <1>5, <1>6 DEF Numbered, b

LEMMA NumberedWhole ==
  ASSUME NEW b, NEW s, Sources(s), Numbered(b, s)
  PROVE  \E g : KeptBy(b, s, g) /\ AllWhole(b, s, g)
<1> DEFINE g == [k \in 0 .. Len(s) |-> k]
<1>1. s \in Seq(Code) /\ Len(s) \in Nat /\ Len(b) = Len(s) /\ b \in Seq(Part)
  BY DEF Sources, Numbered
<1>2. \A k \in 1 .. Len(s) : s[k] \in Code /\ k \in Nat
  BY <1>1
<1>3. \A k \in 1 .. Len(s) : b[k].id = k /\ b[k].code = s[k]
  <2> SUFFICES ASSUME NEW k \in 1 .. Len(s) PROVE b[k].id = k /\ b[k].code = s[k]
    OBVIOUS
  <2> QED BY <1>2, PartIs DEF Numbered
<1>4. \A k \in 0 .. Len(s) : g[k] = k
  OBVIOUS
<1>5. \A k \in 1 .. Len(s) : g[k] = k /\ g[k - 1] = k - 1 /\ k - 1 \in 0 .. Len(s)
  BY <1>1
<1>6. g \in [0 .. Len(s) -> 0 .. Len(b)]
  BY <1>1
<1> HIDE DEF g
<1>7. Parts(b)
  BY <1>1, <1>3 DEF Parts, Sources
<1>8. Places(b, s, g)
  <2>1. g[0] = 0 /\ g[Len(s)] = Len(b)
    BY <1>1, <1>4
  <2>2. \A k \in 1 .. Len(s) : g[k - 1] < g[k]
    BY <1>2, <1>5
  <2> QED BY <1>6, <2>1, <2>2 DEF Places
<1>9. Identified(b, s, g)
  BY <1>1, <1>3, <1>5 DEF Identified
<1>10. Chained(b, s, g)
  <2> SUFFICES ASSUME NEW k \in 1 .. Len(s), NEW j \in g[k - 1] + 1 .. g[k] - 1
               PROVE  FALSE
    BY DEF Chained
  <2>1. g[k] = k /\ g[k - 1] = k - 1 /\ k \in Nat
    BY <1>1, <1>5
  <2>2. j \in k - 1 + 1 .. k - 1
    BY <2>1
  <2> QED BY <2>1, <2>2
<1>11. Filling(b, s, g)
  <2> SUFFICES ASSUME NEW k \in 1 .. Len(s) PROVE Content(b, g[k - 1], g[k]) = Inner(s[k])
    BY DEF Filling
  <2> DEFINE u == k - 1
             w == InnerAt(b, u, k)
  <2>1. k \in Nat /\ k - u = 1 /\ u + 1 = k /\ u \in Nat
    BY <1>1
  <2>2. Shaped(s[k]) /\ b[k].code = s[k]
    BY <1>3 DEF Sources
  <2> HIDE DEF u
  <2>3. w = [i \in 1 .. 1 |-> Inner(b[u + i].code)]
    BY <2>1 DEF InnerAt
  <2>4. \A i \in 1 .. 1 : Inner(b[u + i].code) = Inner(s[k])
    BY <2>1, <2>2
  <2> HIDE DEF w
  <2>5. w = One(Inner(s[k]))
    BY <2>3, <2>4 DEF One
  <2>6. Inner(s[k]) \in Code
    BY <2>2, InnerType
  <2>7. FlattenSeq(w) = Inner(s[k])
    BY <2>5, <2>6, CallMapType, FlattenOne
  <2>8. Content(b, u, k) = Inner(s[k])
    BY <2>7, Zenon DEF Content, InnerAt, w
  <2> QED BY <1>5, <2>8 DEF u
<1>12. Aiming(b, s, g)
  <2> SUFFICES ASSUME NEW k \in 1 .. Len(s)
               PROVE  Last(b[g[k]].code)
                        = Retarget(Last(s[k]), {EntryAt(b, g, t) : t \in Last(s[k]).to})
    BY DEF Aiming, Sources
  <2> DEFINE x == Last(s[k])
             T == {EntryAt(b, g, t) : t \in x.to}
  <2>1. Shaped(s[k]) /\ x.to \subseteq 1 .. Len(s)
    BY DEF Sources
  <2>2. x \in Insts
    <3>1. s[k] \in Seq(Insts) /\ Len(s[k]) > 0
      BY <2>1 DEF Shaped, Code, BasicBlock, Insts
    <3> QED BY <3>1 DEF Last
  <2>3. \A t \in x.to : EntryAt(b, g, t) = t
    <3> SUFFICES ASSUME NEW t \in x.to PROVE EntryAt(b, g, t) = t
      OBVIOUS
    <3>1. t \in 1 .. Len(s) /\ t - 1 + 1 = t
      BY <1>1, <2>1
    <3>2. g[t - 1] = t - 1 /\ b[t].id = t
      BY <1>3, <1>5, <3>1
    <3> QED BY <3>1, <3>2 DEF EntryAt
  <2>4. T = x.to
    BY <2>3
  <2>5. b[g[k]].code = s[k]
    BY <1>3, <1>5
  <2> HIDE DEF x, T
  <2>6. Retarget(x, x.to) = x
    BY <2>2 DEF Retarget, Insts, Instruction
  <2> QED BY <2>4, <2>5, <2>6 DEF x, T
<1>13. KeptBy(b, s, g)
  BY <1>1, <1>7, <1>8, <1>9, <1>10, <1>11, <1>12 DEF KeptBy
<1>14. AllWhole(b, s, g)
  <2> SUFFICES ASSUME NEW k \in 1 .. Len(s) PROVE Whole(b, s, g, k)
    BY DEF AllWhole
  <2>1. g[k] = k /\ g[k - 1] = k - 1 /\ k \in Nat /\ b[k].code = s[k]
    BY <1>1, <1>3, <1>5
  <2>2. g[k] = g[k - 1] + 1 /\ b[g[k]].code = s[k]
    BY <2>1
  <2> QED BY <2>2 DEF Whole
<1> QED BY <1>13, <1>14

(* The modules of the constants start the invariant.                       *)
LEMMA NamedIs ==
  /\ Len(Order) \in Nat
  /\ \A m \in 1 .. Len(Order) : Order[m] \in Name
  /\ \A m, n \in 1 .. Len(Order) : Order[m] = Order[n] => m = n
  /\ \A f \in Name : \E m \in 1 .. Len(Order) : f = Order[m]
<1>1. Len(Order) \in Nat /\ DOMAIN Order = 1 .. Len(Order)
  BY OrderAssumption
<1>2. \A m \in 1 .. Len(Order) : Order[m] \in Name
  BY OrderAssumption
<1>3. \A m, n \in 1 .. Len(Order) : Order[m] = Order[n] => m = n
  BY <1>1, OrderAssumption
<1>4. Name = {Order[m] : m \in DOMAIN Order}
  BY Zenon DEF Name, ToSet
<1>5. \A f \in Name : \E m \in 1 .. Len(Order) : f = Order[m]
  BY <1>1, <1>4
<1> QED BY <1>1, <1>2, <1>3, <1>5

LEMMA PassesInit == ASSUME Init PROVE BInv
<1>1. Control
  BY NamedIs DEF Init, Control, Running
<1>2. ASSUME NEW m \in 1 .. Len(Order)
      PROVE  Tracked(Order[m], Phase(m), body[Order[m]], source[Order[m]], blk, pos, calls)
  <2> DEFINE f == Order[m]
             s == source[f]
             b == body[f]
  <2>1. f \in Name /\ source \in Programs
    <3>1. Order[m] \in Name
      BY NamedIs
    <3> QED BY <3>1 DEF Init
  <2>2. Sources(s)
    BY <2>1, SourceIs
  <2>3. b = [k \in DOMAIN s |-> [id |-> k, code |-> s[k]]]
    BY <2>1 DEF Init
  <2>4. Phase(m) = "whole"
    BY DEF Init, Phase
  <2> HIDE DEF f, s, b
  <2>5. Numbered(b, s)
    BY <2>2, <2>3, NumberedIs
  <2>6. PICK g : KeptBy(b, s, g) /\ AllWhole(b, s, g)
    BY <2>2, <2>5, NumberedWhole
  <2>7. Staged("whole", b, s, g, blk, pos, calls)
    BY <2>6 DEF Staged
  <2>8. Tracked(f, "whole", b, s, blk, pos, calls)
    BY <2>6, <2>7, TrackedBy
  <2> QED BY <2>4, <2>8 DEF f, s, b
<1> QED BY <1>1, <1>2 DEF BInv
-----------------------------------------------------------------------------
(* Every step keeps the invariant.                                         *)
TrackedNow(m) ==
  Tracked(Order[m], Phase(m), body[Order[m]], source[Order[m]], blk, pos, calls)

LEMMA BInvIs == BInv <=> Control /\ \A m \in 1 .. Len(Order) : TrackedNow(m)
BY DEF BInv, TrackedNow

LEMMA PhaseIs ==
  ASSUME Control, NEW m \in 1 .. Len(Order)
  PROVE  /\ "split" \in todo => Phase(m) = "whole"
         /\ ("split" \notin todo /\ pass \in {"none", "executed"}) => Phase(m) = "done"
         /\ (pass = "split" /\ m < fn) => Phase(m) = "done"
         /\ (pass = "split" /\ m = fn) => Phase(m) = "now"
         /\ (pass = "split" /\ m > fn) => Phase(m) = "whole"
         /\ pass # "split" => Phase(m) # "now"
BY DEF Phase, Control

LEMMA StartPassKeeps == ASSUME BInv, StartPass PROVE BInv'
<1>1. Control /\ Len(Order) \in Nat
  BY NamedIs DEF BInv
<1>2. PICK p \in todo : pass' = p /\ todo' = todo \ {p}
  BY DEF StartPass
<1>3. /\ pass = "none" /\ fn' = 1 /\ blk' = 1 /\ pos' = 0 /\ calls' = 0
      /\ source' = source /\ body' = body /\ p \in {"split", "executed"}
  BY <1>1, <1>2 DEF StartPass, Control
<1>4. Control'
  BY <1>1, <1>2, <1>3 DEF Control, Running
<1>5. ASSUME NEW m \in 1 .. Len(Order) PROVE TrackedNow(m)'
  <2>1. Tracked(Order[m], Phase(m), body[Order[m]], source[Order[m]], blk, pos, calls)
    BY DEF BInv
  <2>2. CASE p = "split"
    <3>1. Phase(m) = "whole"
      BY <1>1, <1>2, <2>2, PhaseIs
    <3>2. CASE m = 1
      <4>1. Phase(m)' = "now"
        BY <1>2, <1>3, <2>2, <3>2 DEF Phase
      <4>2. Tracked(Order[m], "now", body[Order[m]], source[Order[m]], 1, 0, 0)
        BY <2>1, <3>1, TrackStart
      <4> QED BY <1>3, <4>1, <4>2 DEF TrackedNow
    <3>3. CASE m # 1
      <4>1. Phase(m)' = "whole"
        BY <1>2, <1>3, <2>2, <3>3 DEF Phase
      <4>2. Tracked(Order[m], "whole", body[Order[m]], source[Order[m]], 1, 0, 0)
        BY <2>1, <3>1, TrackElsewhere
      <4> QED BY <1>3, <4>1, <4>2 DEF TrackedNow
    <3> QED BY <3>2, <3>3
  <2>3. CASE p = "executed"
    <3>1. Phase(m)' = Phase(m) /\ Phase(m) # "now"
      BY <1>2, <1>3, <2>3 DEF Phase
    <3>2. Tracked(Order[m], Phase(m), body[Order[m]], source[Order[m]], 1, 0, 0)
      BY <2>1, <3>1, TrackElsewhere
    <3> QED BY <1>3, <3>1, <3>2 DEF TrackedNow
  <2> QED BY <1>3, <2>2, <2>3
<1> QED BY <1>4, <1>5 DEF BInv, TrackedNow

LEMMA EndPassKeeps == ASSUME BInv, EndPass PROVE BInv'
<1>1. Control /\ Len(Order) \in Nat
  BY NamedIs DEF BInv
<1>2. /\ pass \in {"split", "executed"} /\ fn > Len(Order) /\ pass' = "none"
      /\ source' = source /\ body' = body /\ todo' = todo
      /\ fn' = fn /\ blk' = blk /\ pos' = pos /\ calls' = calls
  BY DEF EndPass, cursor
<1>3. Control'
  BY <1>1, <1>2 DEF Control, Running
<1>4. ASSUME NEW m \in 1 .. Len(Order) PROVE TrackedNow(m)'
  <2>1. Tracked(Order[m], Phase(m), body[Order[m]], source[Order[m]], blk, pos, calls)
    BY DEF BInv
  <2>2. m < fn
    BY <1>1, <1>2 DEF Control
  <2>3. Phase(m)' = Phase(m)
    BY <1>1, <1>2, <2>2 DEF Phase, Control
  <2> QED BY <1>2, <2>1, <2>3 DEF TrackedNow
<1> QED BY <1>3, <1>4 DEF BInv, TrackedNow

(* The passes that are given up leave the functions as they are.           *)
LEMMA StoppedKeeps ==
  ASSUME BInv, pass' = "stopped", UNCHANGED <<source, body, todo, cursor>>
  PROVE  BInv'
<1>1. Control /\ Len(Order) \in Nat
  BY NamedIs DEF BInv
<1>2. /\ source' = source /\ body' = body /\ todo' = todo
      /\ fn' = fn /\ blk' = blk /\ pos' = pos /\ calls' = calls
  BY DEF cursor
<1>3. Control'
  BY <1>1, <1>2 DEF Control, Running
<1>4. ASSUME NEW m \in 1 .. Len(Order) PROVE TrackedNow(m)'
  <2>1. Tracked(Order[m], Phase(m), body[Order[m]], source[Order[m]], blk, pos, calls)
    BY DEF BInv
  <2>2. CASE "split" \in todo
    <3>1. Phase(m) = "whole" /\ Phase(m)' = "whole"
      BY <1>2, <2>2 DEF Phase
    <3> QED BY <1>2, <2>1, <3>1 DEF TrackedNow
  <2>3. CASE "split" \notin todo
    <3>1. Phase(m)' = "any"
      BY <1>2, <2>3 DEF Phase
    <3>2. Tracked(Order[m], "any", body[Order[m]], source[Order[m]], blk, pos, calls)
      BY <2>1, TrackAny
    <3> QED BY <1>2, <3>1, <3>2 DEF TrackedNow
  <2> QED BY <2>2, <2>3
<1> QED BY <1>3, <1>4 DEF BInv, TrackedNow

LEMMA CounterIs ==
  ASSUME NEW f, CounterOf(f) # {}
  PROVE  SplitSkips(f) /\ (CHOOSE x \in CounterOf(f) : TRUE) \in Helper
<1>1. f = "MPU_Config" \/ f \in ReadFunction
  BY DEF CounterOf
<1>2. CounterOf(f) \subseteq Helper
  BY DEF CounterOf, Helper
<1>3. (CHOOSE x \in CounterOf(f) : TRUE) \in CounterOf(f)
  OBVIOUS
<1> QED BY <1>1, <1>2, <1>3 DEF SplitSkips, MpuFunction

LEMMA ExecutedKeeps == ASSUME BInv, ExecutedFunction PROVE BInv'
<1>1. Control /\ Len(Order) \in Nat
  BY NamedIs DEF BInv
<1>2. /\ pass = "executed" /\ fn \in 1 .. Len(Order) /\ pass' = pass
      /\ source' = source /\ todo' = todo
      /\ fn' = fn + 1 /\ blk' = 1 /\ pos' = 0 /\ calls' = 0
  BY <1>1 DEF ExecutedFunction, NextFunction, Running, Control
<1> DEFINE e == CHOOSE x \in CounterOf(F) : TRUE
           c == body[F][1].code
           d == [body[F] EXCEPT ![1].code = InsertAt(c, FirstNonPhi(c), CallOf(e))]
<1>3. /\ Counts(F) => body' = [body EXCEPT ![F] = d]
      /\ ~Counts(F) => body' = body
  BY DEF ExecutedFunction
<1> HIDE DEF d
<1>4. DOMAIN body = Name /\ F \in Name
  BY <1>1, <1>2, NamedIs DEF Control, F
<1>5. Control'
  <2>1. DOMAIN body' = Name
    BY <1>3, <1>4
  <2> QED BY <1>1, <1>2, <2>1 DEF Control, Running
<1>6. ASSUME NEW m \in 1 .. Len(Order) PROVE TrackedNow(m)'
  <2>1. Tracked(Order[m], Phase(m), body[Order[m]], source[Order[m]], blk, pos, calls)
    BY DEF BInv
  <2>2. Phase(m)' = Phase(m) /\ Phase(m) # "now"
    BY <1>2 DEF Phase
  <2>3. CASE Counts(F) /\ m = fn
    <3>1. SplitSkips(F) /\ e \in Helper /\ body[F] # <<>> /\ Order[m] = F
      BY <2>3, CounterIs DEF Counts, F
    <3> HIDE DEF e
    <3>2. Tracked(F, Phase(m), d, source[F], 1, 0, 0)
      BY <2>1, <3>1, TrackCount DEF d
    <3>3. body'[F] = d
      BY <1>3, <1>4, <2>3
    <3> QED BY <1>2, <2>2, <3>1, <3>2, <3>3 DEF TrackedNow
  <2>4. CASE ~(Counts(F) /\ m = fn)
    <3>1. body'[Order[m]] = body[Order[m]]
      <4>1. CASE ~Counts(F)
        BY <1>3, <4>1
      <4>2. CASE Counts(F) /\ m # fn
        <5>1. Order[m] # F /\ Order[m] \in Name
          BY <1>2, <4>2, NamedIs DEF F
        <5> QED BY <1>3, <1>4, <4>2, <5>1
      <4> QED BY <2>4, <4>1, <4>2
    <3>2. Tracked(Order[m], Phase(m), body[Order[m]], source[Order[m]], 1, 0, 0)
      BY <2>1, <2>2, TrackElsewhere
    <3> QED BY <1>2, <2>2, <3>1, <3>2 DEF TrackedNow
  <2> QED BY <2>3, <2>4
<1> QED BY <1>5, <1>6 DEF BInv, TrackedNow

(* The steps of the split inside a function leave the others alone.        *)
LEMMA OthersKept ==
  ASSUME BInv, Running("split"), pass' = pass, todo' = todo, source' = source, fn' = fn,
         NEW m \in 1 .. Len(Order), m # fn, body'[Order[m]] = body[Order[m]]
  PROVE  TrackedNow(m)'
<1>1. Tracked(Order[m], Phase(m), body[Order[m]], source[Order[m]], blk, pos, calls)
  BY DEF BInv
<1>2. Phase(m)' = Phase(m) /\ Phase(m) # "now"
  BY DEF Phase, Running
<1>3. Tracked(Order[m], Phase(m), body[Order[m]], source[Order[m]], blk', pos', calls')
  BY <1>1, <1>2, TrackElsewhere
<1> QED BY <1>2, <1>3 DEF TrackedNow

LEMMA InSplitIs ==
  ASSUME BInv, InSplit
  PROVE  /\ Control /\ pass = "split" /\ "split" \notin todo /\ Running("split")
         /\ Len(Order) \in Nat /\ fn \in 1 .. Len(Order) /\ F \in Name
         /\ ~SplitSkips(F) /\ blk \in 1 .. Len(body[F]) /\ pos \in Nat /\ calls \in Nat
         /\ Phase(fn) = "now" /\ Tracked(F, "now", body[F], source[F], blk, pos, calls)
<1>1. Control /\ Len(Order) \in Nat
  BY NamedIs DEF BInv
<1>2. /\ pass = "split" /\ fn <= Len(Order) /\ "split" \notin todo /\ fn \in 1 .. Len(Order)
      /\ blk \in Nat \ {0} /\ blk <= Len(body[F]) /\ ~SplitSkips(F)
      /\ pos \in Nat /\ calls \in Nat
  BY <1>1 DEF InSplit, Running, InBlock, Control
<1>3. F \in Name
  BY <1>2, NamedIs DEF F
<1>4. Phase(fn) = "now"
  BY <1>2 DEF Phase
<1>5. Tracked(F, "now", body[F], source[F], blk, pos, calls)
  BY <1>2, <1>4 DEF BInv, F
<1>6. Len(body[F]) \in Nat
  <2>1. PICK g : KeptBy(body[F], source[F], g)
    BY <1>5, TrackedIs
  <2> QED BY <2>1 DEF KeptBy, Parts
<1>7. blk \in 1 .. Len(body[F])
  BY <1>2, <1>6
<1> QED BY <1>1, <1>2, <1>3, <1>4, <1>5, <1>7 DEF InSplit

(* A step of the iterators alone.                                          *)
LEMMA IteratorsKeep ==
  ASSUME BInv, InSplit, UNCHANGED <<source, body, todo, pass, fn>>,
         blk' \in Nat \ {0}, pos' \in Nat, calls' \in Nat,
         Tracked(F, "now", body[F], source[F], blk', pos', calls'),
         pos' > 0 => blk' = blk /\ pos' <= Len(B.code) + 1
  PROVE  BInv'
<1>1. /\ Control /\ pass = "split" /\ "split" \notin todo /\ Running("split")
      /\ Len(Order) \in Nat /\ fn \in 1 .. Len(Order) /\ ~SplitSkips(F)
      /\ blk \in 1 .. Len(body[F]) /\ InBlock
  BY InSplitIs DEF InSplit
<1>2. F' = F
  BY DEF F
<1>3. Control'
  <2>1. /\ source' \in Programs /\ DOMAIN body' = Name
        /\ todo' \subseteq {"split", "executed"}
        /\ pass' \in {"split", "executed", "none", "stopped"}
        /\ fn' \in 1 .. Len(Order) + 1
        /\ pass' = "split" => "split" \notin todo'
    BY <1>1 DEF Control
  <2>2. pos' > 0 => ~SplitSkips(F') /\ InBlock' /\ pos' <= Len(B'.code) + 1
    BY <1>1, <1>2 DEF InBlock, B
  <2> QED BY <2>1, <2>2 DEF Control
<1>4. ASSUME NEW m \in 1 .. Len(Order) PROVE TrackedNow(m)'
  <2>1. CASE m = fn
    <3>1. Phase(m)' = "now"
      BY <1>1, <2>1 DEF Phase
    <3> QED BY <2>1, <3>1 DEF TrackedNow, F
  <2>2. CASE m # fn
    BY <1>1, <2>2, OthersKept
  <2> QED BY <2>1, <2>2
<1> QED BY <1>3, <1>4 DEF BInv, TrackedNow

LEMMA SplitEnterKeeps == ASSUME BInv, SplitEnter PROVE BInv'
<1>1. /\ InSplit /\ pos = 0 /\ pos' = 1 /\ calls' = 0 /\ blk' = blk
      /\ UNCHANGED <<source, body, todo, pass, fn>>
  BY DEF SplitEnter
<1>2. /\ blk \in 1 .. Len(body[F]) /\ blk \in Nat /\ blk <= Len(body[F])
      /\ Tracked(F, "now", body[F], source[F], blk, pos, calls)
  BY <1>1, InSplitIs DEF InSplit, InBlock
<1>3. Tracked(F, "now", body[F], source[F], blk, 1, 0) /\ 1 <= Len(B.code) + 1
  BY <1>1, <1>2, TrackEnter DEF B
<1> QED BY <1>1, <1>2, <1>3, IteratorsKeep

LEMMA SplitLeaveBlockKeeps == ASSUME BInv, SplitLeaveBlock PROVE BInv'
<1>1. /\ InSplit /\ pos > Len(B.code) /\ pos' = 0 /\ calls' = calls /\ blk' = blk + 1
      /\ UNCHANGED <<source, body, todo, pass, fn>>
  BY DEF SplitLeaveBlock
<1>2. /\ blk \in 1 .. Len(body[F]) /\ blk \in Nat /\ pos \in Nat /\ calls \in Nat
      /\ Tracked(F, "now", body[F], source[F], blk, pos, calls)
  BY <1>1, InSplitIs
<1>3. pos # 0
  <2>1. PICK g : KeptBy(body[F], source[F], g)
    BY <1>2, TrackedIs
  <2>2. Len(B.code) \in Nat
    BY <1>2, <2>1, PartsAre DEF KeptBy, B, Code, BasicBlock
  <2> QED BY <1>1, <1>2, <2>2
<1>4. Tracked(F, "now", body[F], source[F], blk + 1, 0, calls)
  BY <1>1, <1>2, <1>3, TrackLeave DEF B
<1> QED BY <1>1, <1>2, <1>4, IteratorsKeep

(* The instruction the pass looks at.                                      *)
LEMMA VisitsIs ==
  ASSUME BInv, Visits
  PROVE  /\ InSplit /\ pos \in 1 .. Len(B.code) /\ Len(B.code) \in Nat
         /\ blk \in 1 .. Len(body[F]) /\ blk \in Nat /\ calls \in Nat
         /\ Tracked(F, "now", body[F], source[F], blk, pos, calls)
<1>1. InSplit /\ pos \in 1 .. Len(B.code)
  BY DEF Visits
<1>2. /\ blk \in 1 .. Len(body[F]) /\ blk \in Nat /\ calls \in Nat
      /\ Tracked(F, "now", body[F], source[F], blk, pos, calls)
  BY <1>1, InSplitIs
<1>3. Len(B.code) \in Nat
  <2>1. PICK g : KeptBy(body[F], source[F], g)
    BY <1>2, TrackedIs
  <2> QED BY <1>2, <2>1, PartsAre DEF KeptBy, B, Code, BasicBlock
<1> QED BY <1>1, <1>2, <1>3

LEMMA SplitPassKeeps == ASSUME BInv, SplitPass PROVE BInv'
<1>1. /\ Visits /\ ~IsCall(I) /\ pos' = pos + 1 /\ calls' = calls /\ blk' = blk
      /\ UNCHANGED <<source, body, todo, pass, fn>>
  BY DEF SplitPass
<1>2. /\ InSplit /\ pos \in 1 .. Len(B.code) /\ Len(B.code) \in Nat
      /\ blk \in 1 .. Len(body[F]) /\ blk \in Nat /\ calls \in Nat
      /\ Tracked(F, "now", body[F], source[F], blk, pos, calls)
  BY <1>1, VisitsIs
<1>3. Tracked(F, "now", body[F], source[F], blk, pos + 1, calls)
  <2>1. CallOne(I) = 0 /\ calls + 0 = calls
    BY <1>1, <1>2 DEF CallOne
  <2>2. Tracked(F, "now", body[F], source[F], blk, pos + 1, calls + CallOne(I))
    BY <1>1, <1>2, TrackNext DEF B, I
  <2> QED BY <2>1, <2>2
<1>4. pos + 1 \in Nat /\ pos + 1 <= Len(B.code) + 1
  BY <1>2
<1> QED BY <1>1, <1>2, <1>3, <1>4, IteratorsKeep

LEMMA SplitFirstCallKeeps == ASSUME BInv, SplitFirstCall PROVE BInv'
<1>1. /\ Visits /\ IsCall(I) /\ calls = 0 /\ pos' = pos + 1 /\ calls' = 1 /\ blk' = blk
      /\ UNCHANGED <<source, body, todo, pass, fn>>
  BY DEF SplitFirstCall
<1>2. /\ InSplit /\ pos \in 1 .. Len(B.code) /\ Len(B.code) \in Nat
      /\ blk \in 1 .. Len(body[F]) /\ blk \in Nat
      /\ Tracked(F, "now", body[F], source[F], blk, pos, calls)
  BY <1>1, VisitsIs
<1>3. Tracked(F, "now", body[F], source[F], blk, pos + 1, 1)
  <2>1. CallOne(I) = 1 /\ 0 + 1 = 1
    BY <1>1 DEF CallOne
  <2>2. Tracked(F, "now", body[F], source[F], blk, pos + 1, 0 + CallOne(I))
    BY <1>1, <1>2, TrackNext DEF B, I
  <2> QED BY <2>1, <2>2
<1>4. pos + 1 \in Nat /\ pos + 1 <= Len(B.code) + 1
  BY <1>2
<1> QED BY <1>1, <1>2, <1>3, <1>4, IteratorsKeep

LEMMA SplitCallKeeps == ASSUME BInv, SplitCall PROVE BInv'
<1> DEFINE d == SplitBefore(body[F], blk, pos)
<1>1. /\ Visits /\ IsCall(I) /\ calls > 0 /\ blk' = blk + 1 /\ pos' = 2
      /\ calls' = calls + 1 /\ source' = source /\ todo' = todo /\ pass' = pass /\ fn' = fn
      /\ body' = [body EXCEPT ![F] = d]
  BY DEF SplitCall
<1>2. /\ InSplit /\ pos \in 1 .. Len(B.code)
      /\ blk \in 1 .. Len(body[F]) /\ blk \in Nat /\ calls \in Nat
      /\ Tracked(F, "now", body[F], source[F], blk, pos, calls)
  BY <1>1, VisitsIs
<1>3. Tracked(F, "now", d, source[F], blk + 1, 2, calls + 1)
  BY <1>1, <1>2, TrackSplit DEF B, I
<1>4. blk + 1 <= Len(d) /\ 2 <= Len(d[blk + 1].code) + 1
  BY <1>2, SplitBound DEF B
<1> HIDE DEF d
<1>5. /\ Control /\ pass = "split" /\ "split" \notin todo /\ Running("split")
      /\ Len(Order) \in Nat /\ fn \in 1 .. Len(Order) /\ ~SplitSkips(F) /\ F \in Name
  BY <1>2, InSplitIs
<1>6. F' = F /\ DOMAIN body = Name /\ DOMAIN body' = Name /\ body'[F] = d
  BY <1>1, <1>5 DEF F, Control
<1>7. Control'
  <2>1. /\ source' \in Programs
        /\ todo' \subseteq {"split", "executed"}
        /\ pass' \in {"split", "executed", "none", "stopped"}
        /\ fn' \in 1 .. Len(Order) + 1
        /\ pass' = "split" => "split" \notin todo'
    BY <1>1, <1>5 DEF Control
  <2>2. ~SplitSkips(F') /\ InBlock' /\ pos' <= Len(B'.code) + 1
    BY <1>1, <1>4, <1>5, <1>6 DEF InBlock, B
  <2>3. blk' \in Nat \ {0} /\ pos' \in Nat /\ calls' \in Nat
    BY <1>1, <1>2
  <2> QED BY <1>6, <2>1, <2>2, <2>3 DEF Control
<1>8. ASSUME NEW m \in 1 .. Len(Order) PROVE TrackedNow(m)'
  <2>1. CASE m = fn
    <3>1. Phase(m)' = "now"
      BY <1>1, <1>5, <2>1 DEF Phase
    <3>2. Order[m] = F
      BY <2>1 DEF F
    <3> QED BY <1>1, <1>3, <1>6, <3>1, <3>2 DEF TrackedNow
  <2>2. CASE m # fn
    <3>1. Order[m] # F /\ Order[m] \in Name
      BY <1>5, <2>2, NamedIs DEF F
    <3>2. body'[Order[m]] = body[Order[m]]
      BY <1>1, <1>6, <3>1
    <3> QED BY <1>1, <1>5, <2>2, <3>2, OthersKept
  <2> QED BY <2>1, <2>2
<1> QED BY <1>7, <1>8 DEF BInv, TrackedNow

LEMMA SplitLeaveFunctionKeeps == ASSUME BInv, SplitLeaveFunction PROVE BInv'
<1>1. Control /\ Len(Order) \in Nat
  BY NamedIs DEF BInv
<1>2. /\ pass = "split" /\ "split" \notin todo /\ fn \in 1 .. Len(Order) /\ pass' = pass
      /\ source' = source /\ todo' = todo /\ body' = body
      /\ fn' = fn + 1 /\ blk' = 1 /\ pos' = 0 /\ calls' = 0
      /\ (SplitSkips(F) \/ ~InBlock) /\ blk \in Nat /\ pos \in Nat
  BY <1>1 DEF SplitLeaveFunction, NextFunction, Running, Control
<1>3. Control'
  BY <1>1, <1>2 DEF Control, Running
<1>4. ASSUME NEW m \in 1 .. Len(Order) PROVE TrackedNow(m)'
  <2>1. Tracked(Order[m], Phase(m), body[Order[m]], source[Order[m]], blk, pos, calls)
    BY DEF BInv
  <2>2. CASE m = fn
    <3>1. Phase(m) = "now" /\ Phase(m)' = "done" /\ Order[m] = F
      BY <1>2, <2>2 DEF Phase, F
    <3>2. Tracked(F, "done", body[F], source[F], 1, 0, 0)
      <4>1. CASE SplitSkips(F)
        BY <2>1, <3>1, <4>1, TrackSkipped
      <4>2. CASE ~SplitSkips(F)
        <5>1. ~(blk <= Len(body[F])) /\ blk \in Nat /\ pos \in Nat
          BY <1>1, <1>2, <4>2 DEF InBlock
        <5> QED BY <2>1, <3>1, <5>1, TrackEnd
      <4> QED BY <4>1, <4>2
    <3> QED BY <1>2, <3>1, <3>2 DEF TrackedNow
  <2>3. CASE m = fn + 1
    <3>1. Phase(m) = "whole" /\ Phase(m)' = "now"
      BY <1>2, <2>3 DEF Phase
    <3>2. Tracked(Order[m], "now", body[Order[m]], source[Order[m]], 1, 0, 0)
      BY <2>1, <3>1, TrackStart
    <3> QED BY <1>2, <3>1, <3>2 DEF TrackedNow
  <2>4. CASE m # fn /\ m # fn + 1
    <3>1. Phase(m)' = Phase(m) /\ Phase(m) # "now"
      BY <1>2, <2>4 DEF Phase
    <3>2. Tracked(Order[m], Phase(m), body[Order[m]], source[Order[m]], 1, 0, 0)
      BY <2>1, <3>1, TrackElsewhere
    <3> QED BY <1>2, <3>1, <3>2 DEF TrackedNow
  <2> QED BY <2>2, <2>3, <2>4
<1> QED BY <1>3, <1>4 DEF BInv, TrackedNow

LEMMA PassesStep == ASSUME BInv, [Next]_vars PROVE BInv'
<1>1. CASE StartPass
  BY <1>1, StartPassKeeps
<1>2. CASE ExecutedFunction
  BY <1>2, ExecutedKeeps
<1>3. CASE ExecutedUninitialised
  BY <1>3, StoppedKeeps DEF ExecutedUninitialised
<1>4. CASE SplitLeaveFunction
  BY <1>4, SplitLeaveFunctionKeeps
<1>5. CASE SplitEnter
  BY <1>5, SplitEnterKeeps
<1>6. CASE SplitLeaveBlock
  BY <1>6, SplitLeaveBlockKeeps
<1>7. CASE SplitPass
  BY <1>7, SplitPassKeeps
<1>8. CASE SplitFirstCall
  BY <1>8, SplitFirstCallKeeps
<1>9. CASE SplitCall
  BY <1>9, SplitCallKeeps
<1>10. CASE SplitIndirect
  BY <1>10, StoppedKeeps DEF SplitIndirect
<1>11. CASE EndPass
  BY <1>11, EndPassKeeps
<1>12. CASE UNCHANGED vars
  <2>1. /\ source' = source /\ body' = body /\ todo' = todo /\ pass' = pass
        /\ fn' = fn /\ blk' = blk /\ pos' = pos /\ calls' = calls
    BY <1>12 DEF vars, cursor
  <2>2. Control'
    BY <2>1 DEF BInv, Control, Running, InBlock, B, F
  <2>3. ASSUME NEW m \in 1 .. Len(Order) PROVE TrackedNow(m)'
    <3>1. Tracked(Order[m], Phase(m), body[Order[m]], source[Order[m]], blk, pos, calls)
      BY DEF BInv
    <3>2. Phase(m)' = Phase(m)
      BY <2>1 DEF Phase
    <3> QED BY <2>1, <3>1, <3>2 DEF TrackedNow
  <2> QED BY <2>2, <2>3 DEF BInv, TrackedNow
<1> QED BY <1>1, <1>2, <1>3, <1>4, <1>5, <1>6, <1>7, <1>8, <1>9, <1>10, <1>11, <1>12
        DEF Next, Finished

LEMMA PassesInvariant == Spec => []BInv
BY PassesInit, PassesStep, PTL DEF Spec
-----------------------------------------------------------------------------
(* When the split is over, every block of the function is a part of one of *)
(* the source.                                                             *)
LEMMA PartOfSource ==
  ASSUME NEW b, NEW s, NEW g, Places(b, s, g), Len(s) \in Nat, Len(b) \in Nat,
         NEW m \in 1 .. Len(b)
  PROVE  \E k \in 1 .. Len(s) : m \in g[k - 1] + 1 .. g[k]
<1> DEFINE T == {k \in 0 .. Len(s) : m <= g[k]}
<1>1. \A k \in 0 .. Len(s) : g[k] \in 0 .. Len(b)
  BY DEF Places
<1>2. g[0] = 0 /\ g[Len(s)] = Len(b) /\ Len(s) \in 0 .. Len(s)
  BY DEF Places
<1>3. Len(s) \in T /\ T \in SUBSET Nat
  BY <1>2
<1>4. PICK k \in T : \A y \in T : k <= y
  BY <1>3, Least
<1>5. k # 0
  BY <1>2, <1>4
<1>6. k \in 1 .. Len(s) /\ k - 1 \in 0 .. Len(s) /\ k - 1 \notin T
  BY <1>4, <1>5
<1> DEFINE l == k - 1
<1>7. l \in 0 .. Len(s) /\ ~(m <= g[l])
  BY <1>6
<1>8. g[l] \in 0 .. Len(b) /\ m <= g[k]
  BY <1>1, <1>4, <1>7
<1>9. g[k] \in 0 .. Len(b)
  BY <1>1, <1>6
<1>10. m \in g[l] + 1 .. g[k]
  BY <1>7, <1>8, <1>9
<1> QED BY <1>6, <1>10

LEMMA DoneCalls ==
  ASSUME NEW b, NEW s, NEW g, KeptBy(b, s, g), AllDone(b, s, g), NEW m \in 1 .. Len(b)
  PROVE  Calls(b[m].code) <= 1
<1>1. Places(b, s, g) /\ Len(s) \in Nat /\ Len(b) \in Nat
  BY DEF KeptBy, Parts
<1>2. PICK k \in 1 .. Len(s) : m \in g[k - 1] + 1 .. g[k]
  BY <1>1, PartOfSource
<1>3. Done(b, s, g, k)
  BY DEF AllDone
<1> QED BY <1>2, <1>3 DEF Done

LEMMA LargerIs == ASSUME NEW n \in Nat PROVE Max({1, n}) = AtLeastOne(n)
<1> DEFINE x == AtLeastOne(n)
<1>1. x \in {1, n} /\ \A y \in {1, n} : x >= y
  BY DEF AtLeastOne
<1>2. \A z \in {1, n} : (\A y \in {1, n} : z >= y) => z = x
  <2> SUFFICES ASSUME NEW z \in {1, n}, \A y \in {1, n} : z >= y PROVE z = x
    OBVIOUS
  <2>1. z >= x /\ x >= z /\ z \in Nat /\ x \in Nat
    BY <1>1 DEF AtLeastOne
  <2> HIDE DEF x
  <2> QED BY <2>1
<1> HIDE DEF x
<1>3. (CHOOSE z \in {1, n} : \A y \in {1, n} : z >= y) = x
  BY <1>1, <1>2
<1> QED BY <1>3, Zenon DEF Max, x

Parted(s) == [k \in DOMAIN s |-> Max({1, Calls(s[k])})]
Leading(w, m) == [k \in 1 .. m |-> w[k]]

LEMMA DoneSum ==
  ASSUME NEW b, NEW s, NEW g, KeptBy(b, s, g), AllDone(b, s, g), Sources(s)
  PROVE  Len(b) = SumOf(Parted(s))
<1> DEFINE w == Parted(s)
           T == {m \in Nat : m <= Len(s) => SumOf(Leading(w, m)) = g[m]}
<1>1. /\ Places(b, s, g) /\ Len(s) \in Nat /\ Len(b) \in Nat
      /\ s \in Seq(Code) /\ DOMAIN s = 1 .. Len(s)
  BY DEF KeptBy, Parts, Sources
<1>2. ASSUME NEW k \in 1 .. Len(s)
      PROVE  w[k] \in Nat /\ g[k] = g[k - 1] + w[k]
  <2>1. s[k] \in Code
    BY <1>1
  <2>2. Calls(s[k]) \in Nat
    BY <2>1, CallsThen
  <2>3. w[k] = AtLeastOne(Calls(s[k]))
    BY <1>1, <2>2, LargerIs DEF Parted
  <2>4. g[k] = g[k - 1] + AtLeastOne(Calls(s[k]))
    BY DEF AllDone, Done
  <2>5. AtLeastOne(Calls(s[k])) \in Nat
    BY <2>2 DEF AtLeastOne
  <2> QED BY <2>3, <2>4, <2>5
<1>3. w = Leading(w, Len(s))
  BY <1>1 DEF Parted, Leading
<1> HIDE DEF w
<1>4. 0 \in T
  <2>1. DOMAIN Leading(w, 0) = {}
    BY DEF Leading
  <2>2. SumOf(Leading(w, 0)) = 0
    BY <2>1, SumNone
  <2>3. g[0] = 0
    BY <1>1 DEF Places
  <2> QED BY <2>2, <2>3
<1>5. ASSUME NEW m \in Nat, m \in T PROVE m + 1 \in T
  <2> SUFFICES ASSUME m + 1 <= Len(s) PROVE SumOf(Leading(w, m + 1)) = g[m + 1]
    OBVIOUS
  <2>1. m <= Len(s) /\ m + 1 \in 1 .. Len(s)
    BY <1>1
  <2>2. SumOf(Leading(w, m)) = g[m]
    BY <1>5, <2>1
  <2> DEFINE p == Leading(w, m)
             q == Leading(w, m + 1)
             n == m + 1
  <2>3. n \in Nat /\ n - 1 = m
    OBVIOUS
  <2>4. w[n] \in Nat /\ g[n] = g[m] + w[n]
    BY <1>2, <2>1, <2>3
  <2>5. SumOf(q) = SumOf(p) + q[n]
    <3>1. DOMAIN p = 1 .. m /\ DOMAIN q = 1 .. m + 1
      BY DEF Leading
    <3>2. \A k \in 1 .. m : q[k] = p[k]
      BY DEF Leading
    <3>3. \A k \in 1 .. m + 1 : w[k] \in Nat
      BY <1>1, <1>2, <2>1
    <3>4. \A k \in 1 .. m + 1 : q[k] \in Nat
      BY <3>3 DEF Leading
    <3> HIDE DEF p, q
    <3> QED BY <3>1, <3>2, <3>4, SumMore
  <2>6. q[n] = w[n]
    BY DEF Leading
  <2> QED BY <2>2, <2>4, <2>5, <2>6
<1>6. Len(s) \in T
  <2> HIDE DEF T
  <2> QED BY <1>1, <1>4, <1>5, Induct
<1>7. SumOf(Leading(w, Len(s))) = g[Len(s)]
  BY <1>1, <1>6
<1>8. g[Len(s)] = Len(b)
  BY <1>1 DEF Places
<1> QED BY <1>3, <1>7, <1>8 DEF w
-----------------------------------------------------------------------------
(* What the invariant says of the function f.                              *)
LEMMA BodyKept ==
  ASSUME BInv, NEW f \in Name
  PROVE  \E g : KeptBy(body[f], source[f], g)
<1>1. PICK m \in 1 .. Len(Order) : f = Order[m]
  BY NamedIs
<1>2. Tracked(f, Phase(m), body[f], source[f], blk, pos, calls)
  BY <1>1 DEF BInv
<1> QED BY <1>2, TrackedIs

(* The state of the passes keeps its types.                                *)
THEOREM PassesTyped == Spec => []TypeOK
<1>1. ASSUME BInv PROVE TypeOK
  <2>1. Control
    BY <1>1 DEF BInv
  <2>2. ASSUME NEW f \in Name PROVE {b.id : b \in ToSet(body[f])} = DOMAIN body[f]
    <3> DEFINE b == body[f]
               s == source[f]
    <3>1. PICK g : KeptBy(b, s, g)
      BY <1>1, BodyKept
    <3>2. /\ b \in Seq(Part) /\ DOMAIN b = 1 .. Len(b)
          /\ \A m \in 1 .. Len(b) : b[m].id \in 1 .. Len(b)
          /\ \A x \in 1 .. Len(b) : \E m \in 1 .. Len(b) : b[m].id = x
      <4>1. b \in Seq(Part)
        BY <3>1 DEF KeptBy, Parts
      <4>2. DOMAIN b = 1 .. Len(b)
        BY <4>1
      <4>3. Identified(b, s, g)
        BY <3>1 DEF KeptBy
      <4> QED BY <4>1, <4>2, <4>3 DEF Identified
    <3> HIDE DEF b
    <3>3. ToSet(b) = {b[m] : m \in DOMAIN b}
      BY Zenon DEF ToSet
    <3>4. {x.id : x \in ToSet(b)} = 1 .. Len(b)
      BY <3>2, <3>3
    <3>5. {x.id : x \in ToSet(b)} = DOMAIN b
      BY <3>2, <3>4
    <3> QED BY <3>5 DEF b
  <2>3. (Running("split") /\ pos > 0) => pos <= Len(B.code) + 1
    BY <2>1 DEF Control
  <2>4. /\ todo \subseteq {"split", "executed"}
        /\ pass \in {"split", "executed", "none", "stopped"}
    BY <2>1 DEF Control
  <2> QED BY <2>2, <2>3, <2>4 DEF TypeOK
<1> QED BY <1>1, PassesInvariant, PTL

(* Splitting the blocks of a function does not change what runs on a path  *)
(* through it (BasicBlock::splitBasicBlock before a call, SplitBB.cpp).    *)
THEOREM PathsKeptHolds == Spec => []PathsKept
<1>1. ASSUME BInv PROVE PathsKept
  <2> SUFFICES ASSUME NEW f \in Name, NEW k \in DOMAIN source[f]
               PROVE  /\ \A j \in Start(f, k) .. At(f, k) - 1 :
                           Last(body[f][j].code) = Branch({body[f][j + 1].id})
                      /\ Through(f, k) =
                           [i \in DOMAIN Erase(source[f][k]) |->
                              [Erase(source[f][k])[i] EXCEPT
                                 !.to = {EntryOf(f, t) : t \in @}]]
    BY DEF PathsKept
  <2> DEFINE s == source[f]
             b == body[f]
  <2>1. PICK g : KeptBy(b, s, g)
    BY <1>1, BodyKept
  <2>2. k \in 1 .. Len(s)
    <3>1. source \in Programs
      BY <1>1 DEF BInv, Control
    <3>2. s \in Seq(Code)
      BY <3>1, SourceIs DEF Sources
    <3> QED BY <3>2
  <2> HIDE DEF s, b
  <2>3. b = body[f]
    BY DEF b
  <2>4. \A j \in Start(f, k) .. At(f, k) - 1 :
          Last(body[f][j].code) = Branch({body[f][j + 1].id})
    BY <2>1, <2>2, <2>3, LinksKept
  <2>5. RunsAs(f, k, s[k])
    BY <2>1, <2>2, <2>3, ThroughKept
  <2> QED BY <2>4, <2>5 DEF RunsAs, s
<1> QED BY <1>1, PassesInvariant, PTL

(* After Split_BB no block has two calls, and every block was split once   *)
(* for each call behind its first.                                         *)
THEOREM OneCallPerBlockHolds == Spec => []OneCallPerBlock
<1>1. ASSUME BInv PROVE OneCallPerBlock
  <2> SUFFICES ASSUME SplitDone, NEW f \in Name, ~SplitSkips(f)
               PROVE  /\ \A b \in ToSet(body[f]) : Calls(b.code) <= 1
                      /\ Len(body[f]) =
                           SumOf([k \in DOMAIN source[f] |-> Max({1, Calls(source[f][k])})])
    BY DEF OneCallPerBlock
  <2> DEFINE s == source[f]
             b == body[f]
  <2>1. PICK m \in 1 .. Len(Order) : f = Order[m]
    BY NamedIs
  <2>2. Phase(m) = "done"
    BY DEF SplitDone, Phase
  <2>3. Tracked(f, "done", b, s, blk, pos, calls)
    BY <1>1, <2>1, <2>2 DEF BInv
  <2>4. Sources(s)
    <3>1. source \in Programs
      BY <1>1 DEF BInv, Control
    <3> QED BY <3>1, SourceIs
  <2> HIDE DEF s, b
  <2>5. PICK g : KeptBy(b, s, g) /\ Staged("done", b, s, g, blk, pos, calls)
    BY <2>3, TrackedIs
  <2>6. AllDone(b, s, g)
    BY <2>5 DEF Staged
  <2>7. \A j \in 1 .. Len(b) : Calls(b[j].code) <= 1
    BY <2>5, <2>6, DoneCalls
  <2>8. ToSet(b) = {b[j] : j \in DOMAIN b} /\ DOMAIN b = 1 .. Len(b)
    <3>1. ToSet(b) = {b[j] : j \in DOMAIN b}
      BY Zenon DEF ToSet
    <3>2. DOMAIN b = 1 .. Len(b)
      BY <2>5 DEF KeptBy, Parts
    <3> QED BY <3>1, <3>2
  <2>9. \A x \in ToSet(b) : Calls(x.code) <= 1
    BY <2>7, <2>8
  <2>10. Len(b) = SumOf([k \in DOMAIN s |-> Max({1, Calls(s[k])})])
    BY <2>4, <2>5, <2>6, DoneSum, Zenon DEF Parted
  <2> QED BY <2>9, <2>10 DEF s, b
<1> QED BY <1>1, PassesInvariant, PTL

(* The state of the layout keeps its types.                                *)
THEOREM LayoutTypedHolds == Layout!Spec => []Layout!TypeOK
BY LayoutTyped, LayoutInvariant, PTL

(* Both halves keep their types, whatever the other does.                  *)
THEOREM BlocksTyped == Spec /\ Layout!Spec => []Types
<1>1. TypeOK /\ Layout!TypeOK => Types
  BY DEF Types
<1> QED BY <1>1, PassesTyped, LayoutTypedHolds, PTL
=============================================================================
