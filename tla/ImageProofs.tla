---------------------------- MODULE ImageProofs -----------------------------
(***************************************************************************)
(* What the operators of Image and Ir do to a block, whatever its length.  *)
(*                                                                         *)
(* A pass replaces each instruction of a block by a sequence of them       *)
(* (FlatMap) or inserts at the ends of the block. The lemmas cut a block   *)
(* in its phis, its code and its last instruction, follow the parts        *)
(* through the passes, and put them together again; what is proved of a    *)
(* part by induction over its length is so proved of any block.            *)
(*                                                                         *)
(* The lemmas end with what InstrumentProofs needs: what Insert_Function   *)
(* (InsertedIs), Connect_Function (ReadsInsert, ExitShape) and Set_Operand *)
(* (FilledIs) make of a block, that the last of them makes Image's block,  *)
(* and what Erase, lengths, reads and guards are of such blocks.           *)
(***************************************************************************)
EXTENDS Image, TLAPS, SequenceTheorems, WellFoundedInduction
-----------------------------------------------------------------------------
(* Induction. The library's induction theorems take the induction          *)
(* hypothesis as an operator; here it is the set of the elements it holds  *)
(* for, and the step is refuted by a least element outside of the set.     *)

(* A set of numbers has a least element.                                   *)
LEMMA Least ==
  ASSUME NEW T \in SUBSET Nat, T # {}
  PROVE  \E x \in T : \A y \in T : x <= y
<1>1. PICK x \in T : \A y \in T : ~(<<y, x>> \in OpToRel(<, Nat))
  BY WFMin, NatLessThanWellFounded
<1>2. \A y \in T : ~(y < x)
  BY <1>1 DEF OpToRel
<1> QED BY <1>2

(* A set with 0 and the successors of its elements has every number.       *)
LEMMA Induct ==
  ASSUME NEW T, 0 \in T, \A n \in Nat : n \in T => n + 1 \in T
  PROVE  \A n \in Nat : n \in T
<1> DEFINE U == {n \in Nat : n \notin T}
<1> SUFFICES ASSUME U # {} PROVE FALSE
  OBVIOUS
<1>1. PICK x \in U : \A y \in U : x <= y
  BY Least
<1>2. x - 1 \in Nat /\ x - 1 \in T
  BY <1>1
<1> QED BY <1>1, <1>2
-----------------------------------------------------------------------------
(* FirstNonPhi is the first instruction that is not a phi, and only phis   *)
(* stand in front of it.                                                   *)
LEMMA FirstOf ==
  ASSUME NEW S, NEW b \in Seq(S), \E i \in 1 .. Len(b) : b[i].op # "phi"
  PROVE  /\ FirstNonPhi(b) \in 1 .. Len(b)
         /\ b[FirstNonPhi(b)].op # "phi"
         /\ \A i \in 1 .. FirstNonPhi(b) - 1 : b[i].op = "phi"
<1> DEFINE T == {i \in 1 .. Len(b) : b[i].op # "phi"}
<1>1. FirstNonPhi(b) = Min(T)
  BY DEF FirstNonPhi, SelectInSeq
<1>2. \E x \in T : \A y \in T : x <= y
  BY Least, T \in SUBSET Nat
<1>3. Min(T) \in T /\ \A y \in T : Min(T) <= y
  BY <1>2 DEF Min
<1> DEFINE m == Min(T)
<1>4. m \in 1 .. Len(b) /\ b[m].op # "phi"
  BY <1>3
<1>5. Len(b) \in Nat
  BY LenProperties
<1> HIDE DEF m
<1>6. ASSUME NEW i \in 1 .. m - 1 PROVE b[i].op = "phi"
  <2>1. i \in 1 .. Len(b) /\ ~(m <= i)
    BY <1>4, <1>5
  <2>2. i \notin T
    BY <2>1, <1>3 DEF m
  <2> QED BY <2>1, <2>2
<1> QED BY <1>1, <1>4, <1>6 DEF m
-----------------------------------------------------------------------------
(* Joining sequences. The lemmas speak of Then rather than of \o, so that  *)
(* the solver takes a join for a term of its own and looks at its elements *)
(* only where Joins says so.                                               *)

Then(a, b) == a \o b
-----------------------------------------------------------------------------
(* FlattenSeq. The community modules define it by a function that is       *)
(* chosen for the sequence it flattens; two such functions agree as far as *)
(* their sequences do.                                                     *)

(* g[i] is the join of the first i elements of s.                          *)
Flat(g, s, n) == g = [i \in 1 .. n |-> IF i = 1 THEN s[i] ELSE Then(g[i - 1], s[i])]

(* There is such a function for every sequence and every length.           *)
LEMMA FlatExists ==
  ASSUME NEW s, NEW n \in Nat
  PROVE  \E g : Flat(g, s, n)
<1> DEFINE T == {m \in Nat : \E g : Flat(g, s, m)}
<1>1. 0 \in T
  <2>1. Flat([i \in 1 .. 0 |-> 0], s, 0)
    BY 1 .. 0 = {} DEF Flat
  <2> QED BY <2>1
<1>2. ASSUME NEW m \in Nat, m \in T PROVE m + 1 \in T
  <2>1. PICK g : Flat(g, s, m)
    BY <1>2
  <2> DEFINE h == [i \in 1 .. m + 1 |-> IF i = m + 1
                      THEN IF i = 1 THEN s[i] ELSE Then(g[m], s[i])
                      ELSE g[i]]
  <2>2. ASSUME NEW i \in 1 .. m + 1
        PROVE  h[i] = IF i = 1 THEN s[i] ELSE Then(h[i - 1], s[i])
    <3>1. CASE i = m + 1
      BY <3>1
    <3>2. CASE i # m + 1
      <4>1. i \in 1 .. m
        BY <3>2
      <4>2. g[i] = IF i = 1 THEN s[i] ELSE Then(g[i - 1], s[i])
        BY <4>1, <2>1 DEF Flat
      <4> QED BY <3>2, <4>1, <4>2
    <3> QED BY <3>1, <3>2
  <2>3. Flat(h, s, m + 1)
    BY <2>2 DEF Flat
  <2> QED BY <2>3
<1>3. \A m \in Nat : m \in T
  <2> HIDE DEF T
  <2> QED BY <1>1, <1>2, Induct
<1> QED BY <1>3

(* What Flat says of one element.                                          *)
LEMMA FlatStep ==
  ASSUME NEW g, NEW s, NEW n, Flat(g, s, n)
  PROVE  \A i \in 1 .. n : g[i] = IF i = 1 THEN s[i] ELSE Then(g[i - 1], s[i])
<1> DEFINE h == [j \in 1 .. n |-> IF j = 1 THEN s[j] ELSE Then(g[j - 1], s[j])]
<1>1. g = h
  BY Zenon DEF Flat
<1>2. \A i \in 1 .. n : h[i] = IF i = 1 THEN s[i] ELSE Then(g[i - 1], s[i])
  BY Zenon
<1> HIDE DEF h
<1> QED BY <1>1, <1>2, Zenon

(* It depends on nothing but the elements joined.                          *)
LEMMA FlatUnique ==
  ASSUME NEW s, NEW t, NEW n \in Nat, NEW m \in Nat, NEW g, NEW h, n <= m,
         \A i \in 1 .. n : s[i] = t[i],
         Flat(g, s, n), Flat(h, t, m)
  PROVE  \A i \in 1 .. n : g[i] = h[i]
<1> DEFINE T == {j \in Nat : j \in 1 .. n => g[j] = h[j]}
<1>1. 0 \in T
  OBVIOUS
<1>2. ASSUME NEW j \in Nat, j \in T PROVE j + 1 \in T
  <2> SUFFICES ASSUME j + 1 \in 1 .. n PROVE g[j + 1] = h[j + 1]
    OBVIOUS
  <2>1. g[j + 1] = IF j + 1 = 1 THEN s[j + 1] ELSE Then(g[j + 1 - 1], s[j + 1])
    BY FlatStep
  <2>2. h[j + 1] = IF j + 1 = 1 THEN t[j + 1] ELSE Then(h[j + 1 - 1], t[j + 1])
    <3>1. j + 1 \in 1 .. m
      OBVIOUS
    <3> QED BY <3>1, FlatStep
  <2>3. j + 1 - 1 = j /\ (j + 1 # 1 => j \in 1 .. n)
    OBVIOUS
  <2> QED BY <1>2, <2>1, <2>2, <2>3
<1>3. \A j \in Nat : j \in T
  <2> HIDE DEF T
  <2> QED BY <1>1, <1>2, Induct
<1> QED BY <1>3

(* FlattenSeq of a sequence of length n is the last value of such a        *)
(* function.                                                               *)
Flattens(s, n) == \E g : Flat(g, s, n) /\ FlattenSeq(s) = g[n]

(* This holds of every sequence that is not empty.                         *)
LEMMA FlattenIs ==
  ASSUME NEW s, NEW n \in Nat \ {0}, Len(s) = n
  PROVE  Flattens(s, n)
<1> DEFINE g == CHOOSE h : Flat(h, s, n)
<1>1. Flat(g, s, n)
  BY FlatExists
<1>2. FlattenSeq(s) = g[n]
  BY DEF FlattenSeq, Flat, Then
<1> QED BY <1>1, <1>2 DEF Flattens

(* A sequence of n + 1 elements is one of n elements with one appended.    *)
LEMMA SplitLast ==
  ASSUME NEW S, NEW t \in Seq(S), NEW n \in Nat, Len(t) = n + 1
  PROVE  \E u \in Seq(S), e \in S : t = Append(u, e) /\ Len(u) = n
<1> DEFINE u == SubSeq(t, 1, n)
           e == t[n + 1]
<1>1. u \in Seq(S) /\ Len(u) = n /\ e \in S
  BY SubSeqProperties
<1>2. \A i \in 1 .. n : u[i] = t[i]
  BY SubSeqProperties
<1>3. Append(u, e) \in Seq(S) /\ Len(Append(u, e)) = n + 1
  BY <1>1
<1>4. \A i \in 1 .. n + 1 : Append(u, e)[i] = t[i]
  BY <1>1, <1>2, AppendProperties
<1>5. t = Append(u, e)
  BY <1>3, <1>4, SeqEqual
<1> QED BY <1>1, <1>5

(* Nothing joined is nothing.                                              *)
LEMMA FlattenNone == FlattenSeq(<<>>) = <<>>
  BY DEF FlattenSeq

(* One element more: joined to what the others make.                       *)
LEMMA FlatOneMore ==
  ASSUME NEW s, NEW t, NEW n \in Nat \ {0}, NEW m \in Nat, NEW g, NEW h,
         m - 1 = n, Flat(g, s, n), Flat(h, t, m),
         \A i \in 1 .. n : s[i] = t[i]
  PROVE  h[m] = Then(g[n], t[m])
<1>1. n <= m /\ m # 1 /\ n \in 1 .. n /\ m \in 1 .. m
  OBVIOUS
<1>2. \A i \in 1 .. n : g[i] = h[i]
  BY <1>1, FlatUnique
<1>3. \A i \in 1 .. m : h[i] = IF i = 1 THEN t[i] ELSE Then(h[i - 1], t[i])
  BY FlatStep
<1> QED BY <1>1, <1>2, <1>3

(* The same of FlattenSeq.                                                 *)
LEMMA FlattenExtend ==
  ASSUME NEW s, NEW t, NEW n \in Nat \ {0}, NEW m \in Nat, m - 1 = n,
         Flattens(s, n), Flattens(t, m), \A i \in 1 .. n : s[i] = t[i]
  PROVE  FlattenSeq(t) = Then(FlattenSeq(s), t[m])
<1>1. PICK h : Flat(h, t, m) /\ FlattenSeq(t) = h[m]
  BY DEF Flattens
<1>2. PICK g : Flat(g, s, n) /\ FlattenSeq(s) = g[n]
  BY DEF Flattens
<1>3. h[m] = Then(g[n], t[m])
  BY <1>1, <1>2, FlatOneMore
<1> QED BY <1>1, <1>2, <1>3

(* One element joined is that element.                                     *)
LEMMA FlattenSingle ==
  ASSUME NEW t, Flattens(t, 1)
  PROVE  FlattenSeq(t) = t[1]
<1>1. PICK h : Flat(h, t, 1) /\ FlattenSeq(t) = h[1]
  BY DEF Flattens
<1>2. h[1] = t[1]
  BY <1>1, FlatStep, 1 \in 1 .. 1
<1> QED BY <1>1, <1>2

(* A set of sequences with the joins of its elements, on which the join is *)
(* associative.                                                            *)
Closed(Q) ==
  /\ <<>> \in Q
  /\ \A a, b \in Q : a \o b \in Q
  /\ \A a \in Q : a \o <<>> = a /\ <<>> \o a = a
  /\ \A a, b, c \in Q : (a \o b) \o c = a \o (b \o c)

(* All sequences over a set are such a set.                                *)
LEMMA SeqClosed == ASSUME NEW S PROVE Closed(Seq(S))
BY ConcatProperties, ConcatEmptySeq, ConcatAssociative DEF Closed

(* FlattenSeq of a sequence with an element appended.                      *)
LEMMA FlattenAppend ==
  ASSUME NEW Q, Closed(Q), NEW s \in Seq(Q), NEW e \in Q
  PROVE  FlattenSeq(Append(s, e)) = FlattenSeq(s) \o e
<1> DEFINE t == Append(s, e)
           n == Len(s)
<1>1. /\ n \in Nat /\ Len(t) = n + 1 /\ t[n + 1] = e
      /\ \A i \in 1 .. n : s[i] = t[i]
      /\ n = 0 => s = <<>>
  BY EmptySeq
<1> HIDE DEF t, n
<1>2. CASE n = 0
  <2>1. Flattens(t, 1)
    <3>1. 1 \in Nat \ {0} /\ Len(t) = 1
      BY <1>1, <1>2
    <3> QED BY <3>1, FlattenIs
  <2>2. FlattenSeq(t) = e
    BY <1>1, <1>2, <2>1, FlattenSingle
  <2> QED BY <1>1, <1>2, <2>2, FlattenNone DEF t, Closed
<1>3. CASE n # 0
  <2>1. Flattens(s, n) /\ Flattens(t, n + 1)
    BY <1>1, <1>3, FlattenIs DEF n
  <2>2. FlattenSeq(t) = FlattenSeq(s) \o t[n + 1]
    <3> DEFINE m == n + 1
    <3>1. n \in Nat \ {0} /\ m \in Nat /\ m - 1 = n /\ Flattens(t, m)
      BY <1>1, <1>3, <2>1
    <3> HIDE DEF m
    <3>2. FlattenSeq(t) = Then(FlattenSeq(s), t[m])
      BY <1>1, <2>1, <3>1, FlattenExtend
    <3> QED BY <3>2 DEF m, Then
  <2> QED BY <1>1, <2>2 DEF t
<1> QED BY <1>1, <1>2, <1>3

(* FlattenSeq does not leave a closed set.                                 *)
LEMMA FlattenType ==
  ASSUME NEW Q, Closed(Q), NEW s \in Seq(Q)
  PROVE  FlattenSeq(s) \in Q
<1> DEFINE T == {n \in Nat : \A t \in Seq(Q) : Len(t) = n => FlattenSeq(t) \in Q}
<1>1. 0 \in T
  <2>1. \A t \in Seq(Q) : Len(t) = 0 => t = <<>>
    BY EmptySeq
  <2> QED BY <2>1, FlattenNone DEF Closed
<1>2. ASSUME NEW n \in Nat, n \in T PROVE n + 1 \in T
  <2> SUFFICES ASSUME NEW t \in Seq(Q), Len(t) = n + 1
               PROVE  FlattenSeq(t) \in Q
    OBVIOUS
  <2>1. PICK u \in Seq(Q), e \in Q : t = Append(u, e) /\ Len(u) = n
    BY SplitLast
  <2>2. FlattenSeq(u) \in Q
    BY <1>2, <2>1
  <2>3. FlattenSeq(t) = FlattenSeq(u) \o e
    BY <2>1, FlattenAppend
  <2> QED BY <2>1, <2>2, <2>3 DEF Closed
<1>3. \A n \in Nat : n \in T
  <2> HIDE DEF T
  <2> QED BY <1>1, <1>2, Induct
<1>4. Len(s) \in Nat
  OBVIOUS
<1> QED BY <1>3, <1>4

(* FlattenSeq of a join is the join of what FlattenSeq makes of its parts. *)
LEMMA FlattenConcat ==
  ASSUME NEW Q, Closed(Q), NEW s \in Seq(Q), NEW t \in Seq(Q)
  PROVE  FlattenSeq(s \o t) = FlattenSeq(s) \o FlattenSeq(t)
<1> DEFINE T == {n \in Nat : \A u \in Seq(Q) :
                   Len(u) = n => FlattenSeq(s \o u) = FlattenSeq(s) \o FlattenSeq(u)}
<1>0. FlattenSeq(s) \in Q
  BY FlattenType
<1>1. 0 \in T
  <2>1. \A u \in Seq(Q) : Len(u) = 0 => u = <<>>
    BY EmptySeq
  <2>2. s \o <<>> = s /\ FlattenSeq(s) \o <<>> = FlattenSeq(s)
    BY <1>0, ConcatEmptySeq DEF Closed
  <2> QED BY <2>1, <2>2, FlattenNone
<1>2. ASSUME NEW n \in Nat, n \in T PROVE n + 1 \in T
  <2> SUFFICES ASSUME NEW v \in Seq(Q), Len(v) = n + 1
               PROVE  FlattenSeq(s \o v) = FlattenSeq(s) \o FlattenSeq(v)
    OBVIOUS
  <2>1. PICK u \in Seq(Q), e \in Q : v = Append(u, e) /\ Len(u) = n
    BY SplitLast
  <2>2. FlattenSeq(s \o u) = FlattenSeq(s) \o FlattenSeq(u)
    BY <1>2, <2>1
  <2>3. s \o v = Append(s \o u, e) /\ s \o u \in Seq(Q)
    BY <2>1
  <2>4. FlattenSeq(u) \in Q
    BY FlattenType
  <2>5. FlattenSeq(s \o v) = (FlattenSeq(s) \o FlattenSeq(u)) \o e
    BY <2>2, <2>3, FlattenAppend
  <2>6. FlattenSeq(v) = FlattenSeq(u) \o e
    BY <2>1, FlattenAppend
  <2>7. FlattenSeq(s) \o (FlattenSeq(u) \o e) = (FlattenSeq(s) \o FlattenSeq(u)) \o e
    BY <1>0, <2>4, Zenon DEF Closed
  <2> QED BY <2>5, <2>6, <2>7, Zenon
<1>3. \A n \in Nat : n \in T
  <2> HIDE DEF T
  <2> QED BY <1>1, <1>2, Induct
<1>4. Len(t) \in Nat
  OBVIOUS
<1> QED BY <1>3, <1>4

(* Induction over sequences: a set with the empty one that an element      *)
(* appended does not leave has every sequence.                             *)
LEMMA BlockInduct ==
  ASSUME NEW S, NEW T, <<>> \in T,
         \A b \in Seq(S) : \A x \in S : b \in T => Append(b, x) \in T
  PROVE  \A b \in Seq(S) : b \in T
<1> DEFINE U == {n \in Nat : \A b \in Seq(S) : Len(b) = n => b \in T}
<1>1. 0 \in U
  BY EmptySeq
<1>2. ASSUME NEW n \in Nat, n \in U PROVE n + 1 \in U
  <2> SUFFICES ASSUME NEW b \in Seq(S), Len(b) = n + 1 PROVE b \in T
    OBVIOUS
  <2>1. PICK u \in Seq(S), e \in S : b = Append(u, e) /\ Len(u) = n
    BY SplitLast
  <2>2. u \in T
    BY <1>2, <2>1
  <2> QED BY <2>1, <2>2
<1>3. \A n \in Nat : n \in U
  <2> HIDE DEF U
  <2> QED BY <1>1, <1>2, Induct
<1> SUFFICES ASSUME NEW b \in Seq(S) PROVE b \in T
  OBVIOUS
<1>4. Len(b) \in Nat
  OBVIOUS
<1> QED BY <1>3, <1>4

(* What a join is, by its elements.                                        *)
Joins(r, p, q) ==
  /\ Len(r) = Len(p) + Len(q)
  /\ \A i \in 1 .. Len(p) : r[i] = p[i]
  /\ \A i \in 1 .. Len(q) : r[Len(p) + i] = q[i]

(* Then is a join ...                                                      *)
LEMMA ThenJoins ==
  ASSUME NEW S, NEW p \in Seq(S), NEW q \in Seq(S)
  PROVE  /\ Then(p, q) \in Seq(S)
         /\ Joins(Then(p, q), p, q)
<1>1. Len(p) \in Nat /\ Len(q) \in Nat
  OBVIOUS
<1>2. /\ p \o q \in Seq(S)
      /\ Len(p \o q) = Len(p) + Len(q)
      /\ \A i \in 1 .. Len(p) + Len(q) :
           (p \o q)[i] = IF i <= Len(p) THEN p[i] ELSE q[i - Len(p)]
  BY ConcatProperties
<1>3. ASSUME NEW i \in 1 .. Len(p) PROVE (p \o q)[i] = p[i]
  BY <1>1
<1>4. ASSUME NEW i \in 1 .. Len(q) PROVE (p \o q)[Len(p) + i] = q[i]
  BY <1>1
<1> QED BY <1>2, <1>3, <1>4 DEF Then, Joins

(* ... and the only one.                                                   *)
LEMMA IsThen ==
  ASSUME NEW S, NEW p \in Seq(S), NEW q \in Seq(S), NEW r \in Seq(S),
         Joins(r, p, q)
  PROVE  r = Then(p, q)
<1> DEFINE s == Then(p, q)
<1>1. s \in Seq(S) /\ Joins(s, p, q)
  BY ThenJoins
<1> HIDE DEF s
<1>2. Len(p) \in Nat /\ Len(q) \in Nat
  OBVIOUS
<1>3. ASSUME NEW i \in 1 .. Len(r) PROVE r[i] = s[i]
  <2>1. CASE i \in 1 .. Len(p)
    BY <1>1, <2>1 DEF Joins
  <2>2. CASE i \notin 1 .. Len(p)
    <3>1. i - Len(p) \in 1 .. Len(q) /\ i = Len(p) + (i - Len(p))
      BY <1>2, <2>2 DEF Joins
    <3> QED BY <1>1, <3>1 DEF Joins
  <2> QED BY <2>1, <2>2
<1>5. Len(r) = Len(s)
  BY <1>1 DEF Joins
<1>4. r = s
  BY <1>1, <1>3, <1>5, SeqEqual
<1> QED BY <1>4 DEF s
-----------------------------------------------------------------------------
(* A block with each of its instructions replaced by a sequence: what      *)
(* every pass does to a block, with a map h of its own.                    *)

(* The maps are functions, because a lemma cannot have an operator for a   *)
(* parameter.                                                              *)
Map(h, S, Q) == h \in [S -> Q]

(* p has the pieces of b under h.                                          *)
Maps(p, h, b) == Len(p) = Len(b) /\ \A i \in 1 .. Len(b) : p[i] = h[b[i]]

(* The sequences that replace the elements of b, and their join.           *)
Pieces(h, b)  == [i \in DOMAIN b |-> h[b[i]]]

FlatMap(h, b) == FlattenSeq(Pieces(h, b))

(* The pieces are in the range of the map.                                 *)
LEMMA PiecesType ==
  ASSUME NEW S, NEW Q, NEW h, NEW b \in Seq(S), Map(h, S, Q)
  PROVE  Pieces(h, b) \in Seq(Q) /\ Maps(Pieces(h, b), h, b)
<1>1. DOMAIN b = 1 .. Len(b) /\ Len(b) \in Nat
  BY LenProperties
<1>2. Pieces(h, b) \in [1 .. Len(b) -> Q]
  BY <1>1 DEF Pieces, Map
<1>3. \A i \in 1 .. Len(b) : Pieces(h, b)[i] = h[b[i]]
  BY <1>1 DEF Pieces
<1> QED BY <1>1, <1>2, <1>3, SeqDef DEF Maps

(* The pieces of a join are those of its parts.                            *)
LEMMA PiecesThen ==
  ASSUME NEW S, NEW Q, NEW h, NEW b \in Seq(S), NEW c \in Seq(S), Map(h, S, Q)
  PROVE  Pieces(h, Then(b, c)) = Then(Pieces(h, b), Pieces(h, c))
<1> DEFINE d == Then(b, c)
           p == Pieces(h, b)
           q == Pieces(h, c)
           r == Pieces(h, d)
<1>0. Len(b) \in Nat /\ Len(c) \in Nat
  OBVIOUS
<1>1. d \in Seq(S) /\ Joins(d, b, c)
  BY ThenJoins
<1> HIDE DEF d
<1>2. p \in Seq(Q) /\ Maps(p, h, b)
  BY PiecesType
<1>3. q \in Seq(Q) /\ Maps(q, h, c)
  BY PiecesType
<1>4. r \in Seq(Q) /\ Maps(r, h, d)
  BY <1>1, PiecesType
<1> HIDE DEF p, q, r
<1>5. ASSUME NEW i \in 1 .. Len(p) PROVE r[i] = p[i]
  BY <1>0, <1>1, <1>2, <1>4 DEF Joins, Maps
<1>6. ASSUME NEW i \in 1 .. Len(q) PROVE r[Len(p) + i] = q[i]
  BY <1>0, <1>1, <1>2, <1>3, <1>4 DEF Joins, Maps
<1>7. Joins(r, p, q)
  BY <1>1, <1>2, <1>3, <1>4, <1>5, <1>6 DEF Joins, Maps
<1>8. r = Then(p, q)
  BY <1>2, <1>3, <1>4, <1>7, IsThen
<1> QED BY <1>8 DEF p, q, r, d

(* So is their join.                                                       *)
LEMMA FlatMapType ==
  ASSUME NEW S, NEW Q, NEW h, NEW b \in Seq(S), Closed(Q), Map(h, S, Q)
  PROVE  FlatMap(h, b) \in Q
BY PiecesType, FlattenType DEF FlatMap

(* Of nothing, nothing is made.                                            *)
LEMMA FlatMapNone == ASSUME NEW h PROVE FlatMap(h, <<>>) = <<>>
<1>1. Pieces(h, <<>>) = <<>>
  BY DEF Pieces
<1> QED BY <1>1, FlattenNone DEF FlatMap

(* b is the one element x.                                                 *)
Single(b, x) == Len(b) = 1 /\ b[1] = x

(* Written as an operator for the same reason as Then.                     *)
One(x) == <<x>>

(* One(x) is a sequence of one element.                                    *)
LEMMA OneIs ==
  ASSUME NEW S, NEW x \in S PROVE One(x) \in Seq(S) /\ Single(One(x), x)
BY DEF Single, One

(* One element is replaced by its sequence.                                *)
LEMMA FlatMapOne ==
  ASSUME NEW S, NEW Q, NEW h, NEW x \in S, Map(h, S, Q)
  PROVE  FlatMap(h, One(x)) = h[x]
<1> DEFINE b == One(x)
           p == Pieces(h, b)
<1>1. b \in Seq(S) /\ Single(b, x)
  BY OneIs
<1> HIDE DEF b
<1>2. Maps(p, h, b)
  BY <1>1, PiecesType
<1> HIDE DEF p
<1>3. Len(p) = 1 /\ p[1] = h[x]
  BY <1>1, <1>2 DEF Maps, Single
<1>4. Flattens(p, 1)
  BY <1>3, FlattenIs, 1 \in Nat \ {0}
<1> QED BY <1>3, <1>4, FlattenSingle DEF FlatMap, p, b

(* FlattenConcat for Then.                                                 *)
LEMMA FlattenThen ==
  ASSUME NEW Q, NEW s \in Seq(Q), NEW t \in Seq(Q), Closed(Q)
  PROVE  FlattenSeq(Then(s, t)) = Then(FlattenSeq(s), FlattenSeq(t))
BY FlattenConcat, Zenon DEF Then

(* A join is mapped by mapping its parts, so a change of a block can be    *)
(* followed part by part.                                                  *)
LEMMA FlatMapThen ==
  ASSUME NEW S, NEW Q, NEW h, NEW b \in Seq(S), NEW c \in Seq(S),
         Closed(Q), Map(h, S, Q)
  PROVE  FlatMap(h, Then(b, c)) = Then(FlatMap(h, b), FlatMap(h, c))
<1> DEFINE p == Pieces(h, b)
           q == Pieces(h, c)
<1>1. p \in Seq(Q)
  BY PiecesType
<1>2. q \in Seq(Q)
  BY PiecesType
<1>3. Pieces(h, Then(b, c)) = Then(p, q)
  BY PiecesThen
<1> HIDE DEF p, q
<1>4. FlattenSeq(Then(p, q)) = Then(FlattenSeq(p), FlattenSeq(q))
  BY <1>1, <1>2, FlattenThen
<1> QED BY <1>3, <1>4 DEF FlatMap, p, q

(* Induction over sequences, with Then.                                    *)
LEMMA ThenInduct ==
  ASSUME NEW S, NEW T, <<>> \in T,
         \A b \in Seq(S) : \A x \in S : b \in T => Then(b, One(x)) \in T
  PROVE  \A b \in Seq(S) : b \in T
<1>1. ASSUME NEW b \in Seq(S), NEW x \in S, b \in T PROVE Append(b, x) \in T
  <2>1. Append(b, x) = Then(b, One(x))
    BY AppendIsConcat DEF Then, One
  <2> QED BY <1>1, <2>1, Zenon
<1> QED BY <1>1, BlockInduct

(* The map leaves every element of c as it is.                             *)
Plain(h, c) == \A i \in 1 .. Len(c) : h[c[i]] = One(c[i])

(* Then it leaves those of its parts.                                      *)
LEMMA PlainThen ==
  ASSUME NEW S, NEW h, NEW c \in Seq(S), NEW d \in Seq(S), Plain(h, Then(c, d))
  PROVE  Plain(h, c) /\ Plain(h, d)
<1> DEFINE b == Then(c, d)
<1>1. b \in Seq(S) /\ Joins(b, c, d)
  BY ThenJoins
<1> HIDE DEF b
<1>2. Len(c) \in Nat /\ Len(d) \in Nat
  OBVIOUS
<1>3. ASSUME NEW i \in 1 .. Len(c) PROVE h[c[i]] = One(c[i])
  <2>1. i \in 1 .. Len(b) /\ b[i] = c[i]
    BY <1>1, <1>2 DEF Joins
  <2>2. h[b[i]] = One(b[i])
    BY <2>1 DEF Plain, b
  <2> QED BY <2>1, <2>2
<1>4. ASSUME NEW i \in 1 .. Len(d) PROVE h[d[i]] = One(d[i])
  <2>1. Len(c) + i \in 1 .. Len(b) /\ b[Len(c) + i] = d[i]
    BY <1>1, <1>2 DEF Joins
  <2>2. h[b[Len(c) + i]] = One(b[Len(c) + i])
    BY <2>1 DEF Plain, b
  <2> QED BY <2>1, <2>2
<1> QED BY <1>3, <1>4 DEF Plain

(* A block whose elements stay as they are stays as it is.                 *)
LEMMA FlatMapPlain ==
  ASSUME NEW S, NEW h, NEW b \in Seq(S), Map(h, S, Seq(S)), Plain(h, b)
  PROVE  FlatMap(h, b) = b
<1> DEFINE T == {c \in Seq(S) : Plain(h, c) => FlatMap(h, c) = c}
<1>1. <<>> \in T
  BY FlatMapNone
<1>2. ASSUME NEW c \in Seq(S), NEW x \in S, c \in T PROVE Then(c, One(x)) \in T
  <2> DEFINE d == One(x)
  <2>1. d \in Seq(S) /\ Single(d, x)
    BY OneIs
  <2>0. FlatMap(h, d) = h[x]
    BY FlatMapOne
  <2>3. h[x] = d => FlatMap(h, d) = d
    BY <2>0
  <2> HIDE DEF d
  <2> SUFFICES Then(c, d) \in T
    BY DEF d
  <2>2. Then(c, d) \in Seq(S)
    BY <2>1, ThenJoins
  <2> SUFFICES ASSUME Plain(h, Then(c, d)) PROVE FlatMap(h, Then(c, d)) = Then(c, d)
    BY <2>2
  <2>4. Plain(h, c) /\ Plain(h, d)
    BY <2>1, PlainThen
  <2>5. h[x] = d
    BY <2>1, <2>4 DEF Plain, Single, d
  <2>6. FlatMap(h, Then(c, d)) = Then(FlatMap(h, c), FlatMap(h, d))
    BY <2>1, SeqClosed, FlatMapThen
  <2> QED BY <1>2, <2>3, <2>4, <2>5, <2>6
<1>3. \A c \in Seq(S) : c \in T
  <2> HIDE DEF T
  <2> QED BY <1>1, <1>2, ThenInduct
<1> QED BY <1>3

(* The join is associative ...                                             *)
LEMMA ThenAssociative ==
  ASSUME NEW S, NEW p \in Seq(S), NEW q \in Seq(S), NEW r \in Seq(S)
  PROVE  Then(Then(p, q), r) = Then(p, Then(q, r))
<1>1. (p \o q) \o r = p \o (q \o r)
  BY ConcatAssociative
<1> QED BY <1>1, Zenon DEF Then

(* ... and the empty sequence is its unit.                                 *)
LEMMA ThenNone ==
  ASSUME NEW S, NEW p \in Seq(S)
  PROVE  Then(p, <<>>) = p /\ Then(<<>>, p) = p
BY ConcatEmptySeq, Zenon DEF Then
-----------------------------------------------------------------------------
(* Cutting a sequence in parts: what SubSeq, InsertAt, Front and Last do   *)
(* to a sequence that is given as a join.                                  *)

(* p is b from m to n, by its elements.                                    *)
Cuts(b, m, n, p) ==
  /\ Len(p) = (IF m <= n THEN n - m + 1 ELSE 0)
  /\ \A i \in 1 .. n - m + 1 : p[i] = b[m + i - 1]

(* SubSeq is such a cut.                                                   *)
LEMMA CutType ==
  ASSUME NEW S, NEW b \in Seq(S), NEW m \in 1 .. Len(b) + 1, NEW n \in 0 .. Len(b)
  PROVE  SubSeq(b, m, n) \in Seq(S) /\ Cuts(b, m, n, SubSeq(b, m, n))
<1>1. m \in Int /\ n \in Int /\ Len(b) \in Nat
  OBVIOUS
<1>2. \A i \in m .. n : b[i] \in S
  BY <1>1
<1>3. /\ SubSeq(b, m, n) \in Seq(S)
      /\ Len(SubSeq(b, m, n)) = IF m <= n THEN n - m + 1 ELSE 0
      /\ \A i \in 1 .. n - m + 1 : SubSeq(b, m, n)[i] = b[m + i - 1]
  BY <1>1, <1>2, SubSeqProperties
<1> QED BY <1>3 DEF Cuts

(* The cuts of a join at its seam are its parts.                           *)
LEMMA CutThen ==
  ASSUME NEW S, NEW p \in Seq(S), NEW q \in Seq(S)
  PROVE  /\ SubSeq(Then(p, q), 1, Len(p)) = p
         /\ SubSeq(Then(p, q), Len(p) + 1, Len(Then(p, q))) = q
<1> DEFINE b == Then(p, q)
           u == SubSeq(b, 1, Len(p))
           v == SubSeq(b, Len(p) + 1, Len(b))
<1>1. b \in Seq(S) /\ Joins(b, p, q)
  BY ThenJoins
<1> HIDE DEF b
<1>2. Len(p) \in Nat /\ Len(q) \in Nat
  OBVIOUS
<1>3. /\ 1 \in 1 .. Len(b) + 1 /\ Len(p) \in 0 .. Len(b)
      /\ Len(p) + 1 \in 1 .. Len(b) + 1 /\ Len(b) \in 0 .. Len(b)
  BY <1>1, <1>2 DEF Joins
<1>4. u \in Seq(S) /\ Cuts(b, 1, Len(p), u)
  BY <1>1, <1>3, CutType
<1>5. v \in Seq(S) /\ Cuts(b, Len(p) + 1, Len(b), v)
  <2> DEFINE m == Len(p) + 1
             n == Len(b)
  <2>1. m \in 1 .. Len(b) + 1 /\ n \in 0 .. Len(b)
    BY <1>3
  <2> HIDE DEF m, n
  <2>2. SubSeq(b, m, n) \in Seq(S) /\ Cuts(b, m, n, SubSeq(b, m, n))
    BY <1>1, <2>1, CutType
  <2> QED BY <2>2 DEF m, n
<1> HIDE DEF u, v
<1>6. u = p
  <2>0. Len(u) = Len(p)
    BY <1>2, <1>4 DEF Cuts
  <2>2. ASSUME NEW i \in 1 .. Len(p) PROVE u[i] = p[i]
    <3>1. i \in 1 .. Len(p) - 1 + 1 /\ 1 + i - 1 = i
      BY <1>2
    <3>2. u[i] = b[i]
      BY <1>4, <3>1 DEF Cuts
    <3> QED BY <1>1, <3>2 DEF Joins
  <2>1. Len(u) = Len(p) /\ \A i \in 1 .. Len(u) : u[i] = p[i]
    BY <2>0, <2>2
  <2> QED BY <1>4, <2>1, SeqEqual
<1>7. v = q
  <2>1. Len(v) = Len(q)
    BY <1>1, <1>2, <1>5 DEF Cuts, Joins
  <2>2. ASSUME NEW i \in 1 .. Len(v) PROVE v[i] = q[i]
    <3>1. i \in 1 .. Len(q) /\ i \in 1 .. Len(b) - (Len(p) + 1) + 1
      BY <1>1, <1>2, <2>1 DEF Joins
    <3>2. v[i] = b[Len(p) + 1 + i - 1]
      BY <1>5, <3>1 DEF Cuts
    <3>3. Len(p) + 1 + i - 1 = Len(p) + i
      BY <1>2, <3>1
    <3>4. b[Len(p) + i] = q[i]
      BY <1>1, <3>1 DEF Joins
    <3> QED BY <3>2, <3>3, <3>4
  <2> QED BY <1>5, <2>1, <2>2, SeqEqual
<1> QED BY <1>6, <1>7 DEF u, v, b

(* A sequence can be cut at every place.                                   *)
LEMMA SplitAt ==
  ASSUME NEW S, NEW b \in Seq(S), NEW n \in 0 .. Len(b)
  PROVE  \E p, q \in Seq(S) : b = Then(p, q) /\ Len(p) = n
<1> DEFINE p == SubSeq(b, 1, n)
           q == SubSeq(b, n + 1, Len(b))
<1>1. Len(b) \in Nat
  OBVIOUS
<1>2. p \in Seq(S) /\ Cuts(b, 1, n, p)
  BY <1>1, CutType
<1>3. q \in Seq(S) /\ Cuts(b, n + 1, Len(b), q)
  <2> DEFINE m == n + 1
             k == Len(b)
  <2>1. m \in 1 .. Len(b) + 1 /\ k \in 0 .. Len(b)
    BY <1>1
  <2> HIDE DEF m, k
  <2>2. SubSeq(b, m, k) \in Seq(S) /\ Cuts(b, m, k, SubSeq(b, m, k))
    BY <2>1, CutType
  <2> QED BY <2>2 DEF m, k
<1> HIDE DEF p, q
<1>4. Len(p) = n /\ Len(q) = Len(b) - n
  BY <1>1, <1>2, <1>3 DEF Cuts
<1>5. Joins(b, p, q)
  <2>1. \A i \in 1 .. Len(p) : b[i] = p[i]
    BY <1>1, <1>2, <1>4 DEF Cuts
  <2>2. ASSUME NEW i \in 1 .. Len(q) PROVE b[Len(p) + i] = q[i]
    <3>1. i \in 1 .. Len(b) - (n + 1) + 1 /\ n + 1 + i - 1 = Len(p) + i
      BY <1>1, <1>4
    <3>2. q[i] = b[n + 1 + i - 1]
      BY <1>3, <3>1 DEF Cuts
    <3> QED BY <3>1, <3>2
  <2> QED BY <1>1, <1>4, <2>1, <2>2 DEF Joins
<1> QED BY <1>2, <1>3, <1>4, <1>5, IsThen

(* A sequence of length 1 is its only element.                             *)
LEMMA IsSingle ==
  ASSUME NEW S, NEW b \in Seq(S), Len(b) = 1
  PROVE  b = One(b[1])
BY DEF One

(* A sequence that is not empty begins with its first element ...          *)
LEMMA SplitHead ==
  ASSUME NEW S, NEW b \in Seq(S), Len(b) # 0
  PROVE  \E q \in Seq(S) : b = Then(One(b[1]), q) /\ b[1] \in S
<1>1. 1 \in 0 .. Len(b) /\ 1 \in 1 .. Len(b)
  OBVIOUS
<1>2. PICK p, q \in Seq(S) : b = Then(p, q) /\ Len(p) = 1
  BY <1>1, SplitAt
<1>3. Joins(b, p, q)
  BY <1>2, ThenJoins
<1>4. p = One(p[1]) /\ p[1] = b[1]
  BY <1>2, <1>3, IsSingle DEF Joins
<1>5. b[1] \in S
  BY <1>1
<1> QED BY <1>2, <1>4, <1>5

(* ... and ends with its last.                                             *)
LEMMA SplitEnd ==
  ASSUME NEW S, NEW b \in Seq(S), Len(b) # 0
  PROVE  \E p \in Seq(S) : b = Then(p, One(b[Len(b)])) /\ b[Len(b)] \in S
<1>1. Len(b) \in Nat /\ Len(b) - 1 \in 0 .. Len(b) /\ Len(b) \in 1 .. Len(b)
  OBVIOUS
<1>2. PICK p, q \in Seq(S) : b = Then(p, q) /\ Len(p) = Len(b) - 1
  BY <1>1, SplitAt
<1>3. Joins(b, p, q)
  BY <1>2, ThenJoins
<1>4. Len(q) = 1 /\ Len(p) + 1 = Len(b)
  <2>1. Len(b) = Len(p) + Len(q)
    BY <1>3 DEF Joins
  <2>2. Len(q) \in Nat /\ Len(b) \in Nat /\ Len(p) = Len(b) - 1
    BY <1>1, <1>2
  <2>3. \A x, y, z \in Int : x = y + z /\ y = x - 1 => z = 1 /\ y + 1 = x
    OBVIOUS
  <2>4. Len(q) \in Int /\ Len(b) \in Int /\ Len(p) \in Int
    BY <2>2
  <2> QED BY <2>1, <2>2, <2>3, <2>4
<1>5. q[1] = b[Len(p) + 1]
  BY <1>3, <1>4 DEF Joins
<1>6. q = One(q[1])
  BY <1>4, IsSingle
<1>7. b[Len(b)] \in S
  BY <1>1
<1> QED BY <1>2, <1>4, <1>5, <1>6, <1>7

(* InsertAt at the seam of a join inserts between the parts.               *)
LEMMA InsertThen ==
  ASSUME NEW S, NEW p \in Seq(S), NEW q \in Seq(S), NEW e \in S
  PROVE  InsertAt(Then(p, q), Len(p) + 1, e) = Then(p, Then(One(e), q))
<1> DEFINE b == Then(p, q)
           n == Len(p) + 1
<1>1. SubSeq(b, 1, Len(p)) = p /\ SubSeq(b, Len(p) + 1, Len(b)) = q
  BY CutThen
<1>2. n - 1 = Len(p)
  OBVIOUS
<1>3. SubSeq(b, 1, n - 1) = p /\ SubSeq(b, n, Len(b)) = q
  BY <1>1, <1>2
<1> HIDE DEF b, n
<1>4. InsertAt(b, n, e) = Then(Then(p, One(e)), q)
  BY <1>3, Zenon DEF InsertAt, Then, One
<1>5. One(e) \in Seq(S)
  BY OneIs
<1>6. Then(Then(p, One(e)), q) = Then(p, Then(One(e), q))
  BY <1>5, ThenAssociative
<1> QED BY <1>4, <1>6, Zenon DEF b, n

(* Front and Last of a sequence with one element behind it.                *)
LEMMA EndThen ==
  ASSUME NEW S, NEW p \in Seq(S), NEW e \in S
  PROVE  Front(Then(p, One(e))) = p /\ Last(Then(p, One(e))) = e
<1> DEFINE q == One(e)
           b == Then(p, q)
<1>1. q \in Seq(S) /\ Single(q, e)
  BY OneIs
<1> HIDE DEF q
<1>2. Joins(b, p, q)
  BY <1>1, ThenJoins
<1>3. SubSeq(b, 1, Len(p)) = p
  BY <1>1, CutThen
<1> HIDE DEF b
<1>4. Len(p) \in Nat
  OBVIOUS
<1>5. Len(b) - 1 = Len(p) /\ Len(b) = Len(p) + 1
  BY <1>1, <1>2, <1>4 DEF Joins, Single
<1>6. b[Len(p) + 1] = e
  BY <1>1, <1>2 DEF Joins, Single
<1> QED BY <1>3, <1>5, <1>6 DEF Front, Last, b, q
-----------------------------------------------------------------------------
(* Two maps in a row, two maps that agree, and lengths.                    *)

(* b under g has the pieces of c under h.                                  *)
SamePieces(g, b, h, c) ==
  Len(b) = Len(c) /\ \A i \in 1 .. Len(b) : g[b[i]] = h[c[i]]

(* Then both become the same.                                              *)
LEMMA FlatMapSame ==
  ASSUME NEW S, NEW Q, NEW g, NEW h, NEW b \in Seq(S), NEW c \in Seq(S),
         Map(g, S, Q), Map(h, S, Q), SamePieces(g, b, h, c)
  PROVE  FlatMap(g, b) = FlatMap(h, c)
<1> DEFINE p == Pieces(g, b)
           q == Pieces(h, c)
<1>1. p \in Seq(Q) /\ Maps(p, g, b)
  BY PiecesType
<1>2. q \in Seq(Q) /\ Maps(q, h, c)
  BY PiecesType
<1> HIDE DEF p, q
<1>3. Len(p) = Len(q) /\ \A i \in 1 .. Len(p) : p[i] = q[i]
  BY <1>1, <1>2 DEF Maps, SamePieces
<1>4. p = q
  BY <1>1, <1>2, <1>3, SeqEqual
<1> QED BY <1>4 DEF FlatMap, p, q

(* Mapping by h and then by g is mapping by k.                             *)
Composes(g, h, k, S) == \A x \in S : FlatMap(g, h[x]) = k[x]

(* What holds of every element holds of a block.                           *)
LEMMA FlatMapCompose ==
  ASSUME NEW S, NEW Q, NEW R, NEW g, NEW h, NEW k, NEW b \in Seq(R),
         Closed(Q), Map(h, R, Seq(S)), Map(g, S, Q), Map(k, R, Q), Composes(g, h, k, R)
  PROVE  FlatMap(g, FlatMap(h, b)) = FlatMap(k, b)
<1> DEFINE T == {c \in Seq(R) : FlatMap(g, FlatMap(h, c)) = FlatMap(k, c)}
<1>1. <<>> \in T
  BY FlatMapNone
<1>2. ASSUME NEW c \in Seq(R), NEW x \in R, c \in T PROVE Then(c, One(x)) \in T
  <2>1. One(x) \in Seq(R)
    BY OneIs
  <2>2. Then(c, One(x)) \in Seq(R)
    BY <2>1, ThenJoins
  <2>3. FlatMap(h, Then(c, One(x))) = Then(FlatMap(h, c), FlatMap(h, One(x)))
    BY <2>1, SeqClosed, FlatMapThen
  <2>4. FlatMap(k, Then(c, One(x))) = Then(FlatMap(k, c), FlatMap(k, One(x)))
    BY <2>1, FlatMapThen
  <2>5. FlatMap(h, One(x)) = h[x] /\ FlatMap(k, One(x)) = k[x]
    BY FlatMapOne
  <2>6. FlatMap(h, c) \in Seq(S)
    BY SeqClosed, FlatMapType
  <2>7. h[x] \in Seq(S)
    BY DEF Map
  <2>8. FlatMap(g, Then(FlatMap(h, c), h[x])) = Then(FlatMap(g, FlatMap(h, c)), FlatMap(g, h[x]))
    BY <2>6, <2>7, FlatMapThen
  <2>9. FlatMap(g, h[x]) = k[x]
    BY DEF Composes
  <2> QED BY <1>2, <2>2, <2>3, <2>4, <2>5, <2>8, <2>9
<1>3. \A c \in Seq(R) : c \in T
  <2> HIDE DEF T
  <2> QED BY <1>1, <1>2, ThenInduct
<1> QED BY <1>3

(* A part of Q that joins do not leave.                                    *)
ClosedIn(T, Q) == T \subseteq Q /\ <<>> \in T /\ \A p, q \in T : Then(p, q) \in T

(* h makes of an element two elements more than it was for every element   *)
(* that k makes of it.                                                     *)
Lengthens(h, k, S) == \A x \in S : Len(h[x]) = 1 + 2 * Len(k[x])

(* The length of a block under such a map.                                 *)
LEMMA FlatMapLen ==
  ASSUME NEW S, NEW h, NEW k, NEW b \in Seq(S),
         Map(h, S, Seq(S)), Map(k, S, Seq(S)), Lengthens(h, k, S)
  PROVE  Len(FlatMap(h, b)) = Len(b) + 2 * Len(FlatMap(k, b))
<1> DEFINE T == {c \in Seq(S) : Len(FlatMap(h, c)) = Len(c) + 2 * Len(FlatMap(k, c))}
<1>1. <<>> \in T
  BY FlatMapNone
<1>2. ASSUME NEW c \in Seq(S), NEW x \in S, c \in T PROVE Then(c, One(x)) \in T
  <2> DEFINE d == One(x)
             p == FlatMap(h, c)
             q == FlatMap(k, c)
  <2>1. d \in Seq(S) /\ Single(d, x)
    BY OneIs
  <2>3. FlatMap(h, d) = h[x] /\ FlatMap(k, d) = k[x]
    BY FlatMapOne
  <2>4. p \in Seq(S) /\ q \in Seq(S)
    BY SeqClosed, FlatMapType
  <2>5. h[x] \in Seq(S) /\ k[x] \in Seq(S)
    BY DEF Map
  <2> HIDE DEF d
  <2>6. FlatMap(h, Then(c, d)) = Then(p, h[x])
    BY <2>1, <2>3, SeqClosed, FlatMapThen
  <2>7. FlatMap(k, Then(c, d)) = Then(q, k[x])
    BY <2>1, <2>3, SeqClosed, FlatMapThen
  <2>8. Len(p) = Len(c) + 2 * Len(q)
    BY <1>2
  <2> HIDE DEF p, q
  <2>9. Then(c, d) \in Seq(S) /\ Joins(Then(c, d), c, d)
    BY <2>1, ThenJoins
  <2>10. Joins(Then(p, h[x]), p, h[x])
    BY <2>4, <2>5, ThenJoins
  <2>11. Joins(Then(q, k[x]), q, k[x])
    BY <2>4, <2>5, ThenJoins
  <2>12. /\ Len(Then(c, d)) = Len(c) + 1
         /\ Len(Then(p, h[x])) = Len(p) + Len(h[x])
         /\ Len(Then(q, k[x])) = Len(q) + Len(k[x])
    BY <2>1, <2>9, <2>10, <2>11 DEF Joins, Single
  <2>13. Len(h[x]) = 1 + 2 * Len(k[x])
    BY DEF Lengthens
  <2>14. Len(c) \in Int /\ Len(q) \in Int /\ Len(k[x]) \in Int
    BY <2>4, <2>5
  <2>15. Len(Then(p, h[x])) = Len(Then(c, d)) + 2 * Len(Then(q, k[x]))
    <3> DEFINE x1 == Len(p)
               x2 == Len(c)
               x3 == Len(q)
               y1 == Len(Then(c, d))
               y2 == Len(Then(p, h[x]))
               y3 == Len(Then(q, k[x]))
               z1 == Len(h[x])
               z2 == Len(k[x])
    <3>1. /\ x1 = x2 + 2 * x3 /\ y1 = x2 + 1 /\ z1 = 1 + 2 * z2
          /\ y2 = x1 + z1 /\ y3 = x3 + z2
          /\ x2 \in Int /\ x3 \in Int /\ z2 \in Int
      BY <2>8, <2>12, <2>13, <2>14
    <3> HIDE DEF x1, x2, x3, y1, y2, y3, z1, z2
    <3>2. y2 = y1 + 2 * y3
      BY <3>1
    <3> QED BY <3>2 DEF y1, y2, y3
  <2> QED BY <2>6, <2>7, <2>9, <2>15 DEF d
<1>3. \A c \in Seq(S) : c \in T
  <2> HIDE DEF T
  <2> QED BY <1>1, <1>2, ThenInduct
<1> QED BY <1>3

(* x is in b.                                                              *)
Has(b, x) == \E i \in 1 .. Len(b) : b[i] = x

(* An element of a join is one of a part.                                  *)
LEMMA ThenHas ==
  ASSUME NEW S, NEW p \in Seq(S), NEW q \in Seq(S), NEW x
  PROVE  Has(Then(p, q), x) <=> Has(p, x) \/ Has(q, x)
<1> DEFINE b == Then(p, q)
<1>1. Joins(b, p, q)
  BY ThenJoins
<1> HIDE DEF b
<1>2. Len(p) \in Nat /\ Len(q) \in Nat
  OBVIOUS
<1>3. ASSUME Has(b, x) PROVE Has(p, x) \/ Has(q, x)
  <2>1. PICK i \in 1 .. Len(b) : b[i] = x
    BY <1>3 DEF Has
  <2>2. CASE i \in 1 .. Len(p)
    BY <1>1, <2>1, <2>2 DEF Joins, Has
  <2>3. CASE i \notin 1 .. Len(p)
    <3>1. i - Len(p) \in 1 .. Len(q) /\ Len(p) + (i - Len(p)) = i
      BY <1>1, <1>2, <2>3 DEF Joins
    <3>2. q[i - Len(p)] = x
      BY <1>1, <2>1, <3>1 DEF Joins
    <3> QED BY <3>1, <3>2 DEF Has
  <2> QED BY <2>2, <2>3
<1>4. ASSUME Has(p, x) PROVE Has(b, x)
  <2>1. PICK i \in 1 .. Len(p) : p[i] = x
    BY <1>4 DEF Has
  <2> QED BY <1>1, <1>2, <2>1 DEF Joins, Has
<1>5. ASSUME Has(q, x) PROVE Has(b, x)
  <2>1. PICK i \in 1 .. Len(q) : q[i] = x
    BY <1>5 DEF Has
  <2>2. Len(p) + i \in 1 .. Len(b) /\ b[Len(p) + i] = x
    BY <1>1, <1>2, <2>1 DEF Joins
  <2> QED BY <2>2 DEF Has
<1> QED BY <1>3, <1>4, <1>5 DEF b

(* An element that its own sequence contains is not lost.                  *)
LEMMA FlatMapHas ==
  ASSUME NEW S, NEW h, NEW b \in Seq(S), NEW y \in S,
         Map(h, S, Seq(S)), Has(h[y], y), Has(b, y)
  PROVE  Has(FlatMap(h, b), y)
<1> DEFINE T == {c \in Seq(S) : Has(c, y) => Has(FlatMap(h, c), y)}
<1>1. <<>> \in T
  BY DEF Has
<1>2. ASSUME NEW c \in Seq(S), NEW x \in S, c \in T PROVE Then(c, One(x)) \in T
  <2> DEFINE d == One(x)
  <2>1. d \in Seq(S) /\ Single(d, x)
    BY OneIs
  <2>2. FlatMap(h, d) = h[x]
    BY FlatMapOne
  <2> HIDE DEF d
  <2>3. Then(c, d) \in Seq(S)
    BY <2>1, ThenJoins
  <2> SUFFICES ASSUME Has(Then(c, d), y) PROVE Has(FlatMap(h, Then(c, d)), y)
    BY <2>3 DEF d
  <2>4. FlatMap(h, Then(c, d)) = Then(FlatMap(h, c), h[x])
    BY <2>1, <2>2, SeqClosed, FlatMapThen
  <2>5. FlatMap(h, c) \in Seq(S) /\ h[x] \in Seq(S)
    BY SeqClosed, FlatMapType DEF Map
  <2>6. Has(c, y) \/ Has(d, y)
    BY <2>1, ThenHas
  <2>7. Has(d, y) => x = y
    BY <2>1 DEF Has, Single
  <2>8. Has(FlatMap(h, c), y) \/ Has(h[x], y)
    BY <1>2, <2>6, <2>7
  <2>9. Has(Then(FlatMap(h, c), h[x]), y)
    BY <2>5, <2>8, ThenHas
  <2> QED BY <2>4, <2>9
<1>3. \A c \in Seq(S) : c \in T
  <2> HIDE DEF T
  <2> QED BY <1>1, <1>2, ThenInduct
<1> QED BY <1>3
-----------------------------------------------------------------------------
(* Instructions: the types of those the passes insert, and which of Ir's   *)
(* tests they answer to.                                                   *)

(* A call of a symbol is an instruction of the module.                     *)
LEMMA InstType ==
  ASSUME NEW N, NEW c \in Symbol(N), NEW r \in Symbol(N), NEW n \in 0 .. 2
  PROVE  Inst("call", c, r, n, {}) \in Instruction(N)
BY DEF Inst, Instruction

(* The names the passes use are symbols.                                   *)
LEMMA SymbolIs ==
  ASSUME NEW N
  PROVE  /\ N \subseteq Symbol(N)
         /\ "MPU_Config" \in Symbol(N) /\ "Read_Caller_addr" \in Symbol(N)
         /\ "Read_Caller_size" \in Symbol(N) /\ "-" \in Symbol(N)
         /\ "rest" \in Symbol(N) /\ "first" \in Symbol(N) /\ "saved" \in Symbol(N)
BY DEF Symbol, Helper, MpuFunction, ReadFunction, Reserved, Placeholder

(* So are the calls of the driver that they insert ...                     *)
LEMMA ConfigType ==
  ASSUME NEW N, NEW r \in Symbol(N), NEW n \in 0 .. 2
  PROVE  MpuConfig(r, n) \in Instruction(N)
BY InstType, SymbolIs DEF MpuConfig

(* ... and those that read the caller's region.                            *)
LEMMA ReadType == ASSUME NEW N PROVE ReadAddr \in Instruction(N) /\ ReadSize \in Instruction(N)
<1>1. 0 \in 0 .. 2
  OBVIOUS
<1> QED BY <1>1, InstType, SymbolIs, Zenon DEF ReadAddr, ReadSize, CallOf

(* The configurations Insert_Function and Connect_Function insert.         *)
LEMMA RestType ==
  ASSUME NEW N
  PROVE /\ MpuConfig("rest", 2) \in Instruction(N) /\ MpuConfig("rest", 1) \in Instruction(N)
        /\ MpuConfig("first", 1) \in Instruction(N) /\ MpuConfig("saved", 2) \in Instruction(N)
<1>1. 1 \in 0 .. 2 /\ 2 \in 0 .. 2
  OBVIOUS
<1> QED BY <1>1, ConfigType, SymbolIs, Zenon

(* A call with a configuration on either side.                             *)
Triple(a, x, c) == Then(One(a), Then(One(x), One(c)))

(* Written out.                                                            *)
LEMMA TripleIs ==
  ASSUME NEW S, NEW a \in S, NEW x \in S, NEW c \in S
  PROVE  Triple(a, x, c) = <<a, x, c>>
<1>1. One(a) \in Seq(S) /\ One(x) \in Seq(S) /\ One(c) \in Seq(S)
  BY OneIs
<1>2. Single(One(x), x) /\ Single(One(c), c)
  BY OneIs
<1>3. <<x, c>> = Then(One(x), One(c))
  <2> DEFINE r == <<x, c>>
  <2>1. r \in Seq(S) /\ Len(r) = 2 /\ r[1] = x /\ r[2] = c
    OBVIOUS
  <2> HIDE DEF r
  <2>2. Joins(r, One(x), One(c))
    BY <1>2, <2>1 DEF Joins, Single
  <2>3. r = Then(One(x), One(c))
    BY <1>1, <2>1, <2>2, IsThen
  <2> QED BY <2>3 DEF r
<1>4. <<a, x, c>> \in Seq(S) /\ Joins(<<a, x, c>>, One(a), <<x, c>>)
  <2>1. \A i \in 1 .. 2 : <<a, x, c>>[1 + i] = <<x, c>>[i]
    <3>1. \A i \in 1 .. 2 : i = 1 \/ i = 2
      OBVIOUS
    <3>2. <<a, x, c>>[1 + 1] = <<x, c>>[1] /\ <<a, x, c>>[1 + 2] = <<x, c>>[2]
      OBVIOUS
    <3> QED BY <3>1, <3>2
  <2> QED BY <2>1 DEF Joins, One
<1>5. <<a, x, c>> = Then(One(a), <<x, c>>)
  <2> DEFINE r == <<a, x, c>>
             q == <<x, c>>
  <2>0. q \in Seq(S)
    OBVIOUS
  <2> HIDE DEF r, q
  <2>1. r \in Seq(S) /\ Joins(r, One(a), q)
    BY <1>4 DEF r, q
  <2>2. r = Then(One(a), q)
    BY <1>1, <2>0, <2>1, IsThen
  <2> QED BY <2>2 DEF r, q
<1> QED BY <1>3, <1>5 DEF Triple

(* A configuration is a call, and none of the program's own.               *)
LEMMA ConfigIs ==
  ASSUME NEW r, NEW n
  PROVE  /\ IsCall(MpuConfig(r, n)) /\ IsConfig(MpuConfig(r, n))
         /\ ~IsOwnCall(MpuConfig(r, n)) /\ MpuConfig(r, n).num = n
         /\ MpuConfig(r, n).region = r /\ MpuConfig(r, n).op = "call"
         /\ MpuConfig(r, n).callee = "MPU_Config"
BY DEF MpuConfig, Inst, IsCall, IsConfig, IsOwnCall, Helper, MpuFunction

(* The reads are calls, but no configurations.                             *)
LEMMA ReadIs ==
  /\ ~IsConfig(ReadAddr) /\ ~IsConfig(ReadSize)
  /\ ~IsOwnCall(ReadAddr) /\ ~IsOwnCall(ReadSize)
  /\ IsCall(ReadAddr) /\ IsCall(ReadSize)
  /\ ReadAddr.callee \in Helper /\ ReadSize.callee \in Helper
  /\ ReadAddr.region = "-" /\ ReadSize.region = "-"
  /\ ReadAddr.op = "call" /\ ReadSize.op = "call"
BY DEF ReadAddr, ReadSize, CallOf, Inst, IsCall, IsConfig, IsOwnCall, Helper, ReadFunction

(* A call of the program's own is no configuration.                        *)
LEMMA OwnIs ==
  ASSUME NEW x, IsOwnCall(x)
  PROVE  IsCall(x) /\ ~IsConfig(x) /\ x.op = "call" /\ x.callee \notin Helper
BY DEF IsOwnCall, IsCall, IsConfig, Helper, MpuFunction
-----------------------------------------------------------------------------
(* The maps of an instruction: with Insert_Function's configurations       *)
(* around a call, with the final ones, only the calls of the program, and  *)
(* without what was inserted. Each is stated as an operator and as the     *)
(* function that FlatMap takes.                                            *)

Wrap(x)      == IF IsOwnCall(x) THEN Triple(MpuConfig("rest", 2), x, MpuConfig("rest", 1))
                                ELSE One(x)

Around(f, x) == IF IsOwnCall(x) THEN Triple(MpuConfig(x.callee, 2), x, MpuConfig(f, 1))
                                ELSE One(x)

OwnOnly(x)   == IF IsOwnCall(x) THEN One(x) ELSE <<>>

Erased(x)    == IF IsCall(x) /\ x.callee \in Helper THEN <<>> ELSE One(x)

(* The functions.                                                          *)
WrapMap(N)      == [x \in Instruction(N) |-> Wrap(x)]

AroundMap(N, f) == [x \in Instruction(N) |-> Around(f, x)]

OwnMap(N)       == [x \in Instruction(N) |-> OwnOnly(x)]

EraseMap(N)     == [x \in Instruction(N) |-> Erased(x)]

(* A triple of instructions is a block.                                    *)
LEMMA TripleType ==
  ASSUME NEW S, NEW a \in S, NEW x \in S, NEW c \in S
  PROVE  Triple(a, x, c) \in Seq(S)
BY OneIs, ThenJoins DEF Triple

(* The callee of an instruction is a symbol.                               *)
LEMMA CalleeType == ASSUME NEW N, NEW x \in Instruction(N) PROVE x.callee \in Symbol(N)
BY DEF Instruction

(* The blocks are closed under joins.                                      *)
LEMMA InstrClosed == ASSUME NEW N PROVE Closed(BasicBlock(N))
BY SeqClosed DEF BasicBlock

(* Every map makes blocks of instructions.                                 *)
LEMMA WrapType == ASSUME NEW N PROVE Map(WrapMap(N), Instruction(N), BasicBlock(N))
<1>1. ASSUME NEW x \in Instruction(N) PROVE Wrap(x) \in BasicBlock(N)
  <2>1. MpuConfig("rest", 2) \in Instruction(N) /\ MpuConfig("rest", 1) \in Instruction(N)
    BY RestType
  <2>2. One(x) \in BasicBlock(N)
    BY OneIs DEF BasicBlock
  <2>3. Triple(MpuConfig("rest", 2), x, MpuConfig("rest", 1)) \in BasicBlock(N)
    BY <2>1, TripleType DEF BasicBlock
  <2> QED BY <2>2, <2>3 DEF Wrap
<1> QED BY <1>1 DEF Map, WrapMap

(* The same for the final configurations ...                               *)
LEMMA AroundType ==
  ASSUME NEW N, NEW f \in Symbol(N) PROVE Map(AroundMap(N, f), Instruction(N), BasicBlock(N))
<1>1. ASSUME NEW x \in Instruction(N) PROVE Around(f, x) \in BasicBlock(N)
  <2>1. MpuConfig(x.callee, 2) \in Instruction(N) /\ MpuConfig(f, 1) \in Instruction(N)
    <3>1. 1 \in 0 .. 2 /\ 2 \in 0 .. 2 /\ x.callee \in Symbol(N)
      BY CalleeType
    <3> QED BY <3>1, ConfigType, Zenon
  <2>2. One(x) \in BasicBlock(N)
    BY OneIs DEF BasicBlock
  <2>3. Triple(MpuConfig(x.callee, 2), x, MpuConfig(f, 1)) \in BasicBlock(N)
    BY <2>1, TripleType DEF BasicBlock
  <2> QED BY <2>2, <2>3 DEF Around
<1> QED BY <1>1 DEF Map, AroundMap

(* (the empty sequence is a block) ...                                     *)
LEMMA EmptyType == ASSUME NEW N PROVE <<>> \in BasicBlock(N)
BY DEF BasicBlock

(* ... for the calls of the program ...                                    *)
LEMMA OwnType == ASSUME NEW N PROVE Map(OwnMap(N), Instruction(N), BasicBlock(N))
<1>1. ASSUME NEW x \in Instruction(N) PROVE OwnOnly(x) \in BasicBlock(N)
  BY OneIs, EmptyType DEF OwnOnly, BasicBlock
<1> QED BY <1>1 DEF Map, OwnMap

(* ... and for what is left without the inserted calls.                    *)
LEMMA EraseType == ASSUME NEW N PROVE Map(EraseMap(N), Instruction(N), BasicBlock(N))
<1>1. ASSUME NEW x \in Instruction(N) PROVE Erased(x) \in BasicBlock(N)
  BY OneIs, EmptyType DEF Erased, BasicBlock
<1> QED BY <1>1 DEF Map, EraseMap

(* A block's instructions and their indices.                               *)
LEMMA ElementType ==
  ASSUME NEW N, NEW b \in BasicBlock(N)
  PROVE  DOMAIN b = 1 .. Len(b) /\ Len(b) \in Nat /\ \A i \in DOMAIN b : b[i] \in Instruction(N)
BY DEF BasicBlock

(* Ir's Erase is the map ...                                               *)
LEMMA EraseIs ==
  ASSUME NEW N, NEW b \in BasicBlock(N) PROVE Erase(b) = FlatMap(EraseMap(N), b)
<1>1. \A i \in DOMAIN b : b[i] \in Instruction(N)
  BY ElementType
<1>2. [i \in DOMAIN b |-> IF IsCall(b[i]) /\ b[i].callee \in Helper
                            THEN <<>> ELSE <<b[i]>>] = Pieces(EraseMap(N), b)
  BY <1>1 DEF Pieces, EraseMap, Erased, One
<1> QED BY <1>2, Zenon DEF Erase, FlatMap

(* ... as are OwnCalls ...                                                 *)
LEMMA OwnCallsIs ==
  ASSUME NEW N, NEW b \in BasicBlock(N) PROVE OwnCalls(b) = FlatMap(OwnMap(N), b)
<1>1. \A i \in DOMAIN b : b[i] \in Instruction(N)
  BY ElementType
<1>2. [i \in DOMAIN b |-> IF IsOwnCall(b[i]) THEN <<b[i]>> ELSE <<>>] = Pieces(OwnMap(N), b)
  BY <1>1 DEF Pieces, OwnMap, OwnOnly, One
<1> QED BY <1>2, Zenon DEF OwnCalls, FlatMap

(* ... and Image's AroundCalls.                                            *)
LEMMA AroundIs ==
  ASSUME NEW N, NEW f \in Symbol(N), NEW b \in BasicBlock(N)
  PROVE  AroundCalls(f, b) = FlatMap(AroundMap(N, f), b)
<1>1. \A i \in DOMAIN b : b[i] \in Instruction(N)
  BY ElementType
<1>2. [i \in DOMAIN b |-> IF IsOwnCall(b[i])
                  THEN <<MpuConfig(b[i].callee, 2), b[i], MpuConfig(f, 1)>>
                  ELSE <<b[i]>>] = [i \in DOMAIN b |-> Around(f, b[i])]
  <2> SUFFICES ASSUME NEW i \in DOMAIN b
               PROVE  (IF IsOwnCall(b[i])
                         THEN <<MpuConfig(b[i].callee, 2), b[i], MpuConfig(f, 1)>>
                         ELSE <<b[i]>>) = Around(f, b[i])
    BY Zenon
  <2>0. b[i] \in Instruction(N) /\ 1 \in 0 .. 2 /\ 2 \in 0 .. 2 /\ b[i].callee \in Symbol(N)
    BY <1>1, CalleeType
  <2>1. MpuConfig(b[i].callee, 2) \in Instruction(N) /\ MpuConfig(f, 1) \in Instruction(N)
    BY <2>0, ConfigType, Zenon
  <2>2. Triple(MpuConfig(b[i].callee, 2), b[i], MpuConfig(f, 1))
          = <<MpuConfig(b[i].callee, 2), b[i], MpuConfig(f, 1)>>
    BY <2>0, <2>1, TripleIs, Zenon
  <2> QED BY <2>2, Zenon DEF Around, One
<1>3. [i \in DOMAIN b |-> Around(f, b[i])] = Pieces(AroundMap(N, f), b)
  BY <1>1 DEF Pieces, AroundMap
<1> QED BY <1>2, <1>3, Zenon DEF AroundCalls, FlatMap

(* What the maps do to an instruction: Insert_Function's ...               *)
LEMMA WrapIs ==
  ASSUME NEW N, NEW x \in Instruction(N)
  PROVE  /\ IsOwnCall(x) => WrapMap(N)[x] = Triple(MpuConfig("rest", 2), x, MpuConfig("rest", 1))
         /\ ~IsOwnCall(x) => WrapMap(N)[x] = One(x)
BY DEF WrapMap, Wrap

(* ... the final configurations ...                                        *)
LEMMA AroundPiece ==
  ASSUME NEW N, NEW f, NEW x \in Instruction(N)
  PROVE  /\ IsOwnCall(x) => AroundMap(N, f)[x] = Triple(MpuConfig(x.callee, 2), x, MpuConfig(f, 1))
         /\ ~IsOwnCall(x) => AroundMap(N, f)[x] = One(x)
BY DEF AroundMap, Around

(* ... the calls of the program ...                                        *)
LEMMA OwnPiece ==
  ASSUME NEW N, NEW x \in Instruction(N)
  PROVE  /\ IsOwnCall(x) => OwnMap(N)[x] = One(x)
         /\ ~IsOwnCall(x) => OwnMap(N)[x] = <<>>
BY DEF OwnMap, OwnOnly

(* ... and what is left.                                                   *)
LEMMA ErasePiece ==
  ASSUME NEW N, NEW x \in Instruction(N)
  PROVE  /\ IsCall(x) /\ x.callee \in Helper => EraseMap(N)[x] = <<>>
         /\ ~(IsCall(x) /\ x.callee \in Helper) => EraseMap(N)[x] = One(x)
BY DEF EraseMap, Erased

(* A triple has three instructions.                                        *)
LEMMA TripleLen ==
  ASSUME NEW S, NEW a \in S, NEW x \in S, NEW c \in S
  PROVE  Len(Triple(a, x, c)) = 3
<1>1. Triple(a, x, c) = <<a, x, c>>
  BY TripleIs
<1> QED BY <1>1

(* Insert_Function makes a block longer by two instructions for every      *)
(* call.                                                                   *)
LEMMA WrapLen ==
  ASSUME NEW N, NEW b \in BasicBlock(N)
  PROVE  Len(FlatMap(WrapMap(N), b)) = Len(b) + 2 * Len(OwnCalls(b))
<1>1. ASSUME NEW x \in Instruction(N) PROVE Len(WrapMap(N)[x]) = 1 + 2 * Len(OwnMap(N)[x])
  <2>1. Len(One(x)) = 1 /\ Len(<<>>) = 0
    BY DEF One
  <2>2. CASE IsOwnCall(x)
    <3>1. Len(Triple(MpuConfig("rest", 2), x, MpuConfig("rest", 1))) = 3
      BY RestType, TripleLen
    <3>2. Len(WrapMap(N)[x]) = 3 /\ Len(OwnMap(N)[x]) = 1
      BY <2>1, <2>2, <3>1, WrapIs, OwnPiece
    <3> QED BY <3>2
  <2>3. CASE ~IsOwnCall(x)
    <3>1. WrapMap(N)[x] = One(x) /\ OwnMap(N)[x] = <<>>
      BY <2>3, WrapIs, OwnPiece
    <3>2. Len(WrapMap(N)[x]) = 1 /\ Len(OwnMap(N)[x]) = 0
      BY <2>1, <3>1
    <3> QED BY <3>2
  <2> QED BY <2>2, <2>3
<1>2. Lengthens(WrapMap(N), OwnMap(N), Instruction(N))
  BY <1>1 DEF Lengthens
<1>3. OwnCalls(b) = FlatMap(OwnMap(N), b)
  BY OwnCallsIs
<1> QED BY <1>2, <1>3, FlatMapLen, WrapType, OwnType DEF BasicBlock

(* Nothing is left of an inserted call ...                                 *)
LEMMA EraseHelper ==
  ASSUME NEW N, NEW x \in Instruction(N), IsCall(x) /\ x.callee \in Helper
  PROVE  FlatMap(EraseMap(N), One(x)) = <<>>
<1>1. FlatMap(EraseMap(N), One(x)) = EraseMap(N)[x]
  BY FlatMapOne, EraseType
<1>2. EraseMap(N)[x] = <<>>
  BY ErasePiece
<1> QED BY <1>1, <1>2

(* ... and of a call with its configurations, the call.                    *)
LEMMA EraseTriple ==
  ASSUME NEW N, NEW a \in Instruction(N), NEW x \in Instruction(N), NEW c \in Instruction(N),
         IsCall(a) /\ a.callee \in Helper, IsCall(c) /\ c.callee \in Helper
  PROVE  FlatMap(EraseMap(N), Triple(a, x, c)) = EraseMap(N)[x]
<1> DEFINE p == One(a)
           q == One(x)
           r == One(c)
<1>1. p \in BasicBlock(N) /\ q \in BasicBlock(N) /\ r \in BasicBlock(N)
  BY OneIs DEF BasicBlock
<1>2. FlatMap(EraseMap(N), p) = <<>> /\ FlatMap(EraseMap(N), r) = <<>>
  BY EraseHelper
<1>3. FlatMap(EraseMap(N), q) = EraseMap(N)[x]
  BY FlatMapOne, EraseType
<1> HIDE DEF p, q, r
<1>4. Then(q, r) \in BasicBlock(N)
  BY <1>1, ThenJoins DEF BasicBlock
<1>5. FlatMap(EraseMap(N), Then(p, Then(q, r)))
       = Then(FlatMap(EraseMap(N), p), FlatMap(EraseMap(N), Then(q, r)))
  BY <1>1, <1>4, FlatMapThen, EraseType, InstrClosed DEF BasicBlock
<1>6. FlatMap(EraseMap(N), Then(q, r)) = Then(FlatMap(EraseMap(N), q), FlatMap(EraseMap(N), r))
  BY <1>1, FlatMapThen, EraseType, InstrClosed DEF BasicBlock
<1>7. EraseMap(N)[x] \in BasicBlock(N)
  BY EraseType DEF Map
<1>8. Then(EraseMap(N)[x], <<>>) = EraseMap(N)[x] /\ Then(<<>>, EraseMap(N)[x]) = EraseMap(N)[x]
  BY <1>7, ThenNone DEF BasicBlock
<1> QED BY <1>2, <1>3, <1>5, <1>6, <1>8 DEF Triple, p, q, r

(* What is left of a block with Insert_Function's configurations is what   *)
(* is left of the block.                                                   *)
LEMMA EraseWrap ==
  ASSUME NEW N, NEW b \in BasicBlock(N)
  PROVE  Erase(FlatMap(WrapMap(N), b)) = Erase(b)
<1>1. ASSUME NEW x \in Instruction(N) PROVE FlatMap(EraseMap(N), WrapMap(N)[x]) = EraseMap(N)[x]
  <2>1. CASE IsOwnCall(x)
    <3>1. WrapMap(N)[x] = Triple(MpuConfig("rest", 2), x, MpuConfig("rest", 1))
      BY <2>1, WrapIs
    <3>2. MpuConfig("rest", 2) \in Instruction(N) /\ MpuConfig("rest", 1) \in Instruction(N)
      BY RestType
    <3>3. "MPU_Config" \in Helper
      BY DEF Helper, MpuFunction
    <3> QED BY <3>1, <3>2, <3>3, ConfigIs, EraseTriple
  <2>2. CASE ~IsOwnCall(x)
    BY <2>2, WrapIs, FlatMapOne, EraseType
  <2> QED BY <2>1, <2>2
<1>2. Composes(EraseMap(N), WrapMap(N), EraseMap(N), Instruction(N))
  BY <1>1 DEF Composes
<1>3. FlatMap(WrapMap(N), b) \in BasicBlock(N)
  BY FlatMapType, WrapType, InstrClosed DEF BasicBlock
<1>4. /\ Erase(FlatMap(WrapMap(N), b)) = FlatMap(EraseMap(N), FlatMap(WrapMap(N), b))
      /\ Erase(b) = FlatMap(EraseMap(N), b)
  BY <1>3, EraseIs
<1>5. FlatMap(EraseMap(N), FlatMap(WrapMap(N), b)) = FlatMap(EraseMap(N), b)
  BY <1>2, FlatMapCompose, EraseType, WrapType, InstrClosed DEF BasicBlock
<1> QED BY <1>4, <1>5
-----------------------------------------------------------------------------
(* What the instructions of a block are, and where its phis end.           *)

(* Every instruction of b is in T.                                         *)
Each(b, T) == \A i \in 1 .. Len(b) : b[i] \in T

(* Of a join, when of both parts.                                          *)
LEMMA ThenEach ==
  ASSUME NEW S, NEW T, NEW p \in Seq(S), NEW q \in Seq(S)
  PROVE  Each(Then(p, q), T) <=> Each(p, T) /\ Each(q, T)
<1> DEFINE b == Then(p, q)
<1>1. Joins(b, p, q)
  BY ThenJoins
<1> HIDE DEF b
<1>2. Len(p) \in Nat /\ Len(q) \in Nat
  OBVIOUS
<1>3. ASSUME Each(b, T) PROVE Each(p, T) /\ Each(q, T)
  <2>1. ASSUME NEW i \in 1 .. Len(p) PROVE p[i] \in T
    <3>1. i \in 1 .. Len(b) /\ b[i] = p[i]
      BY <1>1, <1>2 DEF Joins
    <3> QED BY <1>3, <3>1 DEF Each
  <2>2. ASSUME NEW i \in 1 .. Len(q) PROVE q[i] \in T
    <3>1. Len(p) + i \in 1 .. Len(b) /\ b[Len(p) + i] = q[i]
      BY <1>1, <1>2 DEF Joins
    <3> QED BY <1>3, <3>1 DEF Each
  <2> QED BY <2>1, <2>2 DEF Each
<1>4. ASSUME Each(p, T), Each(q, T) PROVE Each(b, T)
  <2>1. ASSUME NEW i \in 1 .. Len(b) PROVE b[i] \in T
    <3>1. CASE i \in 1 .. Len(p)
      BY <1>1, <1>4, <3>1 DEF Joins, Each
    <3>2. CASE i \notin 1 .. Len(p)
      <4>1. i - Len(p) \in 1 .. Len(q) /\ Len(p) + (i - Len(p)) = i
        BY <1>1, <1>2, <3>2 DEF Joins
      <4>2. b[i] = q[i - Len(p)]
        BY <1>1, <4>1 DEF Joins
      <4> QED BY <1>4, <4>1, <4>2 DEF Each
    <3> QED BY <3>1, <3>2
  <2> QED BY <2>1 DEF Each
<1> QED BY <1>3, <1>4 DEF b

(* Of one instruction.                                                     *)
LEMMA OneEach ==
  ASSUME NEW S, NEW T, NEW x \in S PROVE Each(One(x), T) <=> x \in T
<1> DEFINE d == One(x)
<1>1. Single(d, x)
  BY OneIs
<1> HIDE DEF d
<1>2. Each(d, T) <=> x \in T
  BY <1>1 DEF Each, Single
<1> QED BY <1>2 DEF d

(* The phis, and the instructions of a program that no pass has seen.      *)
Phis(N)     == {x \in Instruction(N) : x.op = "phi"}

(* An instruction of a program before the passes: it names no region, and  *)
(* a call is one of a function of the program or through a pointer.        *)
Ordinary(N) ==
  {x \in Instruction(N) : /\ x.region = "-"
                          /\ IsCall(x) => x.callee \in (N \ Helper) \cup {"pointer"}}

(* b begins with something that is no phi.                                 *)
Starts(b)     == Len(b) # 0 /\ b[1].op # "phi"

(* Behind phis, FirstNonPhi is the beginning of the rest.                  *)
LEMMA FirstThen ==
  ASSUME NEW S, NEW T, NEW p \in Seq(S), NEW q \in Seq(S), Each(p, T),
         \A x \in T : x.op = "phi", Starts(q)
  PROVE  FirstNonPhi(Then(p, q)) = Len(p) + 1
<1> DEFINE b == Then(p, q)
           m == FirstNonPhi(b)
<1>1. b \in Seq(S) /\ Joins(b, p, q)
  BY ThenJoins
<1> HIDE DEF b
<1>2. Len(p) \in Nat /\ Len(q) \in Nat \ {0}
  BY DEF Starts
<1>3. Len(p) + 1 \in 1 .. Len(b) /\ b[Len(p) + 1] = q[1]
  BY <1>1, <1>2 DEF Joins
<1>4. \E i \in 1 .. Len(b) : b[i].op # "phi"
  BY <1>3 DEF Starts
<1>5. m \in 1 .. Len(b) /\ b[m].op # "phi" /\ \A i \in 1 .. m - 1 : b[i].op = "phi"
  BY <1>1, <1>4, FirstOf
<1> HIDE DEF m
<1>6. ~(m <= Len(p))
  <2> SUFFICES ASSUME m <= Len(p) PROVE FALSE
    OBVIOUS
  <2>1. m \in 1 .. Len(p)
    BY <1>2, <1>5
  <2>2. b[m] = p[m] /\ p[m] \in T
    BY <1>1, <2>1 DEF Joins, Each
  <2> QED BY <1>5, <2>2
<1>7. ~(m > Len(p) + 1)
  <2> SUFFICES ASSUME m > Len(p) + 1 PROVE FALSE
    OBVIOUS
  <2>1. Len(p) + 1 \in 1 .. m - 1
    BY <1>2, <1>5
  <2> QED BY <1>3, <1>5, <2>1 DEF Starts
<1>8. m = Len(p) + 1
  BY <1>2, <1>5, <1>6, <1>7
<1> QED BY <1>8 DEF m, b

(* How a join begins.                                                      *)
LEMMA StartsThen ==
  ASSUME NEW S, NEW p \in Seq(S), NEW q \in Seq(S), Starts(p)
  PROVE  Starts(Then(p, q))
<1> DEFINE b == Then(p, q)
<1>1. Joins(b, p, q)
  BY ThenJoins
<1> HIDE DEF b
<1>2. Len(p) \in Nat \ {0} /\ Len(q) \in Nat
  BY DEF Starts
<1>3. Len(b) # 0 /\ b[1] = p[1]
  BY <1>1, <1>2 DEF Joins
<1> QED BY <1>3 DEF Starts, b

(* How one instruction begins.                                             *)
LEMMA OneStarts == ASSUME NEW x, x.op # "phi" PROVE Starts(One(x))
BY DEF One, Starts

(* A block that does not end with a phi is phis, the rest, and its last    *)
(* instruction.                                                            *)
LEMMA NormalForm ==
  ASSUME NEW S, NEW b \in Seq(S), Len(b) # 0, b[Len(b)].op # "phi"
  PROVE  \E p, q \in Seq(S), t \in S :
           /\ b = Then(p, Then(q, One(t))) /\ t = b[Len(b)]
           /\ Each(p, {x \in S : x.op = "phi"}) /\ Starts(Then(q, One(t)))
<1> DEFINE n == FirstNonPhi(b) - 1
<1>1. PICK c \in Seq(S) : b = Then(c, One(b[Len(b)])) /\ b[Len(b)] \in S
  BY SplitEnd
<1> DEFINE t == b[Len(b)]
           d == One(t)
<1>2. d \in Seq(S) /\ Single(d, t)
  BY <1>1, OneIs
<1>3. b = Then(c, d) /\ t \in S
  BY <1>1
<1>0. Len(b) \in Nat \ {0} /\ Len(b) \in 1 .. Len(b)
  OBVIOUS
<1>4. /\ n \in Int /\ n + 1 \in 1 .. Len(b) /\ b[n + 1].op # "phi"
      /\ \A i \in 1 .. n : b[i].op = "phi"
  <2>1. \E i \in 1 .. Len(b) : b[i].op # "phi"
    BY <1>0
  <2>2. /\ FirstNonPhi(b) \in 1 .. Len(b)
         /\ b[FirstNonPhi(b)].op # "phi"
         /\ \A i \in 1 .. FirstNonPhi(b) - 1 : b[i].op = "phi"
    BY <2>1, FirstOf
  <2>3. n \in Int /\ n + 1 = FirstNonPhi(b)
    BY <2>2
  <2> QED BY <2>2, <2>3
<1> HIDE DEF t, d, n
<1>5. Joins(b, c, d)
  BY <1>2, <1>3, ThenJoins
<1>6. Len(c) + 1 = Len(b) /\ Len(c) \in Nat
  <2>1. Len(c) \in Nat
    OBVIOUS
  <2> QED BY <1>2, <1>5, <2>1 DEF Joins, Single
<1>7. n \in 0 .. Len(c)
  BY <1>0, <1>4, <1>6
<1>8. PICK p, q \in Seq(S) : c = Then(p, q) /\ Len(p) = n
  BY <1>7, SplitAt
<1>9. b = Then(p, Then(q, d))
  BY <1>2, <1>3, <1>8, ThenAssociative
<1>10. Then(q, d) \in Seq(S)
  BY <1>2, ThenJoins
<1>11. Joins(b, p, Then(q, d))
  BY <1>9, <1>10, ThenJoins
<1>12. Each(p, {x \in S : x.op = "phi"})
  <2>1. ASSUME NEW i \in 1 .. Len(p) PROVE p[i] \in S /\ p[i].op = "phi"
    BY <1>4, <1>8, <1>11 DEF Joins
  <2> QED BY <2>1 DEF Each
<1>13. Starts(Then(q, d))
  <2> DEFINE e == Then(q, d)
  <2>1. e \in Seq(S) /\ Joins(b, p, e)
    BY <1>10, <1>11
  <2> HIDE DEF e
  <2>2. Len(e) \in Nat
    BY <2>1
  <2>3. Len(e) # 0
    BY <1>4, <1>8, <2>1, <2>2 DEF Joins
  <2>4. 1 \in 1 .. Len(e)
    BY <2>2, <2>3
  <2>5. e[1] = b[n + 1]
    BY <1>8, <2>1, <2>4 DEF Joins
  <2> QED BY <1>4, <2>3, <2>5 DEF Starts, e
<1> QED BY <1>3, <1>9, <1>12, <1>13 DEF t, d
-----------------------------------------------------------------------------
(* Set_Operand. Filled says what the pass makes of a block as a whole: a   *)
(* configuration of region 1 gets the function's own region, one of region *)
(* 2 in front of a call that of the callee, and everything else stays.     *)

(* The configuration with its region filled in.                            *)
Opened(x, r) == [x EXCEPT !.region = r]

(* What Set_Operand makes of instruction i of block b.                     *)
FillAt(f, b, i) ==
  IF IsConfig(b[i]) /\ b[i].num = 1 THEN Opened(b[i], f)
  ELSE IF IsConfig(b[i]) /\ b[i].num = 2 /\ i < Len(b) /\ IsCall(b[i + 1])
         THEN Opened(b[i], b[i + 1].callee)
         ELSE b[i]

Filled(f, b) == [i \in DOMAIN b |-> FillAt(f, b, i)]

(* c is such a block, by its elements.                                     *)
Fills(c, f, b) == Len(c) = Len(b) /\ \A i \in 1 .. Len(b) : c[i] = FillAt(f, b, i)

(* An instruction with a region filled in is an instruction.               *)
LEMMA OpenedType ==
  ASSUME NEW N, NEW x \in Instruction(N), NEW r \in Symbol(N)
  PROVE  Opened(x, r) \in Instruction(N)
BY DEF Opened, Instruction

(* A configuration with a region filled in is that region's configuration. *)
LEMMA OpenedConfig ==
  ASSUME NEW r, NEW s, NEW n
  PROVE  Opened(MpuConfig(r, n), s) = MpuConfig(s, n)
BY DEF Opened, MpuConfig, Inst

(* Filled makes a block ...                                                *)
LEMMA FilledType ==
  ASSUME NEW N, NEW f \in Symbol(N), NEW b \in BasicBlock(N)
  PROVE  Filled(f, b) \in BasicBlock(N) /\ Fills(Filled(f, b), f, b)
<1>1. DOMAIN b = 1 .. Len(b) /\ Len(b) \in Nat /\ \A i \in DOMAIN b : b[i] \in Instruction(N)
  BY ElementType
<1>2. ASSUME NEW i \in 1 .. Len(b) PROVE FillAt(f, b, i) \in Instruction(N)
  <2>1. b[i] \in Instruction(N)
    BY <1>1
  <2>2. i < Len(b) => b[i + 1] \in Instruction(N)
    BY <1>1
  <2>3. i < Len(b) => b[i + 1].callee \in Symbol(N)
    BY <2>2, CalleeType
  <2> QED BY <2>1, <2>3, OpenedType DEF FillAt
<1>3. Filled(f, b) \in [1 .. Len(b) -> Instruction(N)]
  BY <1>1, <1>2 DEF Filled
<1>4. Filled(f, b) \in Seq(Instruction(N)) /\ Len(Filled(f, b)) = Len(b)
  BY <1>1, <1>3, SeqDef
<1>5. \A i \in 1 .. Len(b) : Filled(f, b)[i] = FillAt(f, b, i)
  BY <1>1 DEF Filled
<1> QED BY <1>4, <1>5 DEF Fills, BasicBlock

(* ... and the only one that Fills describes.                              *)
LEMMA FillsIs ==
  ASSUME NEW N, NEW f \in Symbol(N), NEW b \in BasicBlock(N), NEW c \in BasicBlock(N),
         Fills(c, f, b)
  PROVE  c = Filled(f, b)
<1> DEFINE d == Filled(f, b)
<1>1. d \in BasicBlock(N) /\ Fills(d, f, b)
  BY FilledType
<1> HIDE DEF d
<1>2. Len(c) = Len(d) /\ \A i \in 1 .. Len(c) : c[i] = d[i]
  BY <1>1 DEF Fills
<1>3. c = d
  BY <1>1, <1>2, SeqEqual DEF BasicBlock
<1> QED BY <1>3 DEF d

(* A configuration of region 2: what it becomes depends on what stands     *)
(* behind it.                                                              *)
Awaits(x)  == IsConfig(x) /\ x.num = 2

(* The last instruction of b does not look beyond the block's end.         *)
Shut(b)    == Len(b) # 0 => ~Awaits(b[Len(b)])

(* Parts can be filled one by one where no configuration looks from one    *)
(* part into the next.                                                     *)
LEMMA FillThen ==
  ASSUME NEW N, NEW f \in Symbol(N), NEW p \in BasicBlock(N), NEW q \in BasicBlock(N),
         Shut(p)
  PROVE  Filled(f, Then(p, q)) = Then(Filled(f, p), Filled(f, q))
<1> DEFINE b == Then(p, q)
           u == Filled(f, p)
           v == Filled(f, q)
           r == Filled(f, b)
<1>1. b \in BasicBlock(N) /\ Joins(b, p, q)
  BY ThenJoins DEF BasicBlock
<1> HIDE DEF b
<1>2. u \in BasicBlock(N) /\ Fills(u, f, p)
  BY FilledType
<1>3. v \in BasicBlock(N) /\ Fills(v, f, q)
  BY FilledType
<1>4. r \in BasicBlock(N) /\ Fills(r, f, b)
  BY <1>1, FilledType
<1> HIDE DEF u, v, r
<1>5. Len(p) \in Nat /\ Len(q) \in Nat
  BY ElementType
<1>0. Len(b) = Len(p) + Len(q)
  BY <1>1 DEF Joins
<1>6. ASSUME NEW i \in 1 .. Len(u) PROVE r[i] = u[i]
  <2>1. i \in 1 .. Len(p) /\ i \in 1 .. Len(b) /\ b[i] = p[i]
    BY <1>0, <1>1, <1>2, <1>5 DEF Fills, Joins
  <2>2. r[i] = FillAt(f, b, i) /\ u[i] = FillAt(f, p, i)
    BY <1>2, <1>4, <2>1 DEF Fills
  <2>3. CASE i < Len(p)
    <3>1. i + 1 \in 1 .. Len(p) /\ i < Len(b)
      BY <1>0, <1>5, <2>3
    <3>2. b[i + 1] = p[i + 1]
      BY <1>1, <3>1 DEF Joins
    <3> QED BY <2>1, <2>2, <2>3, <3>1, <3>2 DEF FillAt
  <2>4. CASE i = Len(p)
    <3>1. ~Awaits(p[i])
      BY <1>5, <2>1, <2>4 DEF Shut
    <3> QED BY <2>1, <2>2, <2>4, <3>1 DEF FillAt, Awaits
  <2> QED BY <1>5, <2>1, <2>3, <2>4
<1>7. ASSUME NEW i \in 1 .. Len(v) PROVE r[Len(u) + i] = v[i]
  <2>0. Len(u) = Len(p)
    BY <1>2 DEF Fills
  <2> DEFINE j == Len(p) + i
  <2>1. i \in 1 .. Len(q) /\ j \in 1 .. Len(b) /\ b[j] = q[i]
    BY <1>0, <1>1, <1>3, <1>5 DEF Fills, Joins
  <2>2. r[j] = FillAt(f, b, j) /\ v[i] = FillAt(f, q, i)
    BY <1>3, <1>4, <2>1 DEF Fills
  <2>3. j < Len(b) <=> i < Len(q)
    BY <1>0, <1>5
  <2>4. i < Len(q) => b[j + 1] = q[i + 1]
    <3>1. j + 1 = Len(p) + (i + 1) /\ (i < Len(q) => i + 1 \in 1 .. Len(q))
      BY <1>5, <2>1
    <3> QED BY <1>1, <3>1 DEF Joins
  <2> HIDE DEF j
  <2>5. r[j] = v[i]
    BY <2>1, <2>2, <2>3, <2>4 DEF FillAt
  <2> QED BY <2>0, <2>5 DEF j
<1>8. Len(r) = Len(u) + Len(v)
  BY <1>0, <1>2, <1>3, <1>4 DEF Fills
<1>9. Joins(r, u, v)
  BY <1>6, <1>7, <1>8 DEF Joins
<1>10. r = Then(u, v)
  BY <1>2, <1>3, <1>4, <1>9, IsThen DEF BasicBlock
<1> QED BY <1>10 DEF r, u, v, b

(* b has no configurations.                                                *)
Silent(b) == \A i \in 1 .. Len(b) : ~IsConfig(b[i])

(* Such a block stays as it is.                                            *)
LEMMA FillSilent ==
  ASSUME NEW N, NEW f \in Symbol(N), NEW b \in BasicBlock(N), Silent(b)
  PROVE  Filled(f, b) = b /\ Shut(b)
<1>0. Len(b) \in Nat
  BY ElementType
<1>1. \A i \in 1 .. Len(b) : b[i] = FillAt(f, b, i)
  BY DEF FillAt, Silent
<1>2. Fills(b, f, b)
  BY <1>1 DEF Fills
<1>3. b = Filled(f, b)
  BY <1>2, FillsIs
<1>4. Len(b) # 0 => Len(b) \in 1 .. Len(b)
  BY <1>0
<1> QED BY <1>3, <1>4 DEF Shut, Silent, Awaits

(* One instruction that is no configuration.                               *)
LEMMA OneSilent ==
  ASSUME NEW x, ~IsConfig(x) PROVE Silent(One(x))
<1>1. \A i \in 1 .. Len(One(x)) : One(x)[i] = x
  BY DEF One
<1> QED BY <1>1 DEF Silent

(* A configuration of region 1 becomes the function's.                     *)
LEMMA FillOne ==
  ASSUME NEW N, NEW f \in Symbol(N), NEW r \in Symbol(N)
  PROVE  /\ Filled(f, One(MpuConfig(r, 1))) = One(MpuConfig(f, 1))
         /\ Shut(One(MpuConfig(r, 1)))
<1> DEFINE x == MpuConfig(r, 1)
           y == MpuConfig(f, 1)
           b == One(x)
           c == One(y)
<1>1. x \in Instruction(N) /\ y \in Instruction(N)
  <2>1. 1 \in 0 .. 2
    OBVIOUS
  <2> QED BY <2>1, ConfigType, Zenon
<1>2. IsConfig(x) /\ x.num = 1 /\ Opened(x, f) = y
  BY ConfigIs, OpenedConfig
<1> HIDE DEF x, y
<1>3. b \in BasicBlock(N) /\ Single(b, x) /\ c \in BasicBlock(N) /\ Single(c, y)
  BY <1>1, OneIs DEF BasicBlock
<1> HIDE DEF b, c
<1>4. Fills(c, f, b)
  <2>1. FillAt(f, b, 1) = y
    BY <1>2, <1>3 DEF FillAt, Single
  <2> QED BY <1>3, <2>1 DEF Fills, Single
<1>5. c = Filled(f, b)
  BY <1>3, <1>4, FillsIs
<1>6. Shut(b)
  BY <1>2, <1>3 DEF Shut, Awaits, Single
<1> QED BY <1>5, <1>6 DEF b, c, x, y

(* b is x, y, z, by its elements.                                          *)
Cell(b, x, y, z) == Len(b) = 3 /\ b[1] = x /\ b[2] = y /\ b[3] = z

(* A triple is such a block.                                               *)
LEMMA TripleCell ==
  ASSUME NEW S, NEW x \in S, NEW y \in S, NEW z \in S
  PROVE  Triple(x, y, z) \in Seq(S) /\ Cell(Triple(x, y, z), x, y, z)
<1>1. Triple(x, y, z) = <<x, y, z>>
  BY TripleIs
<1>2. Cell(<<x, y, z>>, x, y, z)
  BY DEF Cell
<1> QED BY <1>1, <1>2, TripleType

(* A call with placeholders around it becomes a call with the callee's and *)
(* the caller's region around it.                                          *)
LEMMA FillTriple ==
  ASSUME NEW N, NEW f \in Symbol(N), NEW x \in Instruction(N), IsOwnCall(x)
  PROVE  LET b == Triple(MpuConfig("rest", 2), x, MpuConfig("rest", 1))
             c == Triple(MpuConfig(x.callee, 2), x, MpuConfig(f, 1))
         IN  Filled(f, b) = c /\ Shut(b)
<1> DEFINE p == MpuConfig("rest", 2)
           r == MpuConfig("rest", 1)
           u == MpuConfig(x.callee, 2)
           v == MpuConfig(f, 1)
           b == Triple(p, x, r)
           c == Triple(u, x, v)
<1>1. p \in Instruction(N) /\ r \in Instruction(N)
  BY RestType
<1>2. u \in Instruction(N) /\ v \in Instruction(N)
  <2>1. 1 \in 0 .. 2 /\ 2 \in 0 .. 2 /\ x.callee \in Symbol(N)
    BY CalleeType
  <2> QED BY <2>1, ConfigType, Zenon
<1>3. IsConfig(p) /\ p.num = 2 /\ IsConfig(r) /\ r.num = 1
  BY ConfigIs
<1>4. Opened(p, x.callee) = u /\ Opened(r, f) = v
  BY OpenedConfig
<1>5. IsCall(x) /\ ~IsConfig(x)
  BY OwnIs
<1> HIDE DEF p, r, u, v
<1>6. b \in BasicBlock(N) /\ Cell(b, p, x, r)
  BY <1>1, TripleCell DEF BasicBlock
<1>7. c \in BasicBlock(N) /\ Cell(c, u, x, v)
  BY <1>2, TripleCell DEF BasicBlock
<1> HIDE DEF b, c
<1>8. FillAt(f, b, 1) = u
  BY <1>3, <1>4, <1>5, <1>6 DEF FillAt, Cell
<1>9. FillAt(f, b, 2) = x
  BY <1>5, <1>6 DEF FillAt, Cell
<1>10. FillAt(f, b, 3) = v
  BY <1>3, <1>4, <1>6 DEF FillAt, Cell
<1>11. Fills(c, f, b)
  <2>1. \A i \in 1 .. 3 : i = 1 \/ i = 2 \/ i = 3
    OBVIOUS
  <2> QED BY <1>6, <1>7, <1>8, <1>9, <1>10, <2>1 DEF Fills, Cell
<1>12. c = Filled(f, b)
  BY <1>6, <1>7, <1>11, FillsIs
<1>13. Shut(b)
  BY <1>3, <1>6 DEF Shut, Awaits, Cell
<1> QED BY <1>12, <1>13 DEF b, c, p, r, u, v

(* Shut of a join.                                                         *)
LEMMA ShutThen ==
  ASSUME NEW N, NEW p \in BasicBlock(N), NEW q \in BasicBlock(N), Shut(p), Shut(q)
  PROVE  Shut(Then(p, q))
<1> DEFINE b == Then(p, q)
<1>1. Joins(b, p, q)
  BY ThenJoins DEF BasicBlock
<1> HIDE DEF b
<1>2. Len(p) \in Nat /\ Len(q) \in Nat
  BY ElementType
<1>3. CASE Len(q) = 0
  <2>1. Len(b) = Len(p)
    BY <1>1, <1>2, <1>3 DEF Joins
  <2>2. Len(p) # 0 => Len(p) \in 1 .. Len(p)
    BY <1>2
  <2>3. Len(p) # 0 => b[Len(p)] = p[Len(p)]
    BY <1>1, <2>2 DEF Joins
  <2> QED BY <2>1, <2>3 DEF Shut, b
<1>4. CASE Len(q) # 0
  <2>1. Len(q) \in 1 .. Len(q) /\ Len(b) = Len(p) + Len(q)
    BY <1>1, <1>2, <1>4 DEF Joins
  <2>2. b[Len(b)] = q[Len(q)]
    BY <1>1, <2>1 DEF Joins
  <2> QED BY <1>4, <2>2 DEF Shut, b
<1> QED BY <1>3, <1>4

(* The lemmas about sequences, for blocks: a join of blocks is one ...     *)
LEMMA BlockThen ==
  ASSUME NEW N, NEW p \in BasicBlock(N), NEW q \in BasicBlock(N)
  PROVE  Then(p, q) \in BasicBlock(N)
BY ThenJoins DEF BasicBlock

(* ... as is one instruction ...                                           *)
LEMMA BlockOne ==
  ASSUME NEW N, NEW x \in Instruction(N) PROVE One(x) \in BasicBlock(N)
BY OneIs DEF BasicBlock

(* ... the join is associative ...                                         *)
LEMMA BlockAssociative ==
  ASSUME NEW N, NEW p \in BasicBlock(N), NEW q \in BasicBlock(N), NEW r \in BasicBlock(N)
  PROVE  Then(Then(p, q), r) = Then(p, Then(q, r))
BY ThenAssociative DEF BasicBlock

(* ... a map makes blocks of blocks ...                                    *)
LEMMA BlockMap ==
  ASSUME NEW N, NEW h, NEW b \in BasicBlock(N), Map(h, Instruction(N), BasicBlock(N))
  PROVE  FlatMap(h, b) \in BasicBlock(N)
BY FlatMapType, InstrClosed DEF BasicBlock

(* ... of a join part by part ...                                          *)
LEMMA BlockMapThen ==
  ASSUME NEW N, NEW h, NEW p \in BasicBlock(N), NEW q \in BasicBlock(N),
         Map(h, Instruction(N), BasicBlock(N))
  PROVE  FlatMap(h, Then(p, q)) = Then(FlatMap(h, p), FlatMap(h, q))
BY FlatMapThen, InstrClosed DEF BasicBlock

(* ... and of one instruction its sequence.                                *)
LEMMA BlockMapOne ==
  ASSUME NEW N, NEW h, NEW x \in Instruction(N), Map(h, Instruction(N), BasicBlock(N))
  PROVE  FlatMap(h, One(x)) = h[x]
BY FlatMapOne

(* Set_Operand behind Insert_Function: the calls of the program get the    *)
(* final configurations around them, wherever in the block they are and    *)
(* however many follow each other.                                         *)
LEMMA FillWrapped ==
  ASSUME NEW N, NEW f \in Symbol(N), NEW b \in BasicBlock(N), Each(b, Ordinary(N))
  PROVE  /\ Filled(f, FlatMap(WrapMap(N), b)) = FlatMap(AroundMap(N, f), b)
         /\ Shut(FlatMap(WrapMap(N), b))
<1> DEFINE w == WrapMap(N)
           a == AroundMap(N, f)
           T == {c \in BasicBlock(N) : Each(c, Ordinary(N)) =>
                   /\ Filled(f, FlatMap(w, c)) = FlatMap(a, c)
                   /\ Shut(FlatMap(w, c))}
<1>0. Map(w, Instruction(N), BasicBlock(N)) /\ Map(a, Instruction(N), BasicBlock(N))
  BY WrapType, AroundType
<1>1. <<>> \in T
  <2>1. <<>> \in BasicBlock(N) /\ Silent(<<>>)
    BY EmptyType DEF Silent
  <2>2. Filled(f, <<>>) = <<>> /\ Shut(<<>>)
    BY <2>1, FillSilent
  <2>3. FlatMap(w, <<>>) = <<>> /\ FlatMap(a, <<>>) = <<>>
    BY FlatMapNone
  <2> QED BY <2>1, <2>2, <2>3
<1>2. ASSUME NEW c \in Seq(Instruction(N)), NEW x \in Instruction(N), c \in T
      PROVE  Then(c, One(x)) \in T
  <2> DEFINE d == One(x)
  <2>1. d \in BasicBlock(N) /\ c \in BasicBlock(N)
    BY BlockOne DEF BasicBlock
  <2>2. Then(c, d) \in BasicBlock(N)
    BY <2>1, BlockThen
  <2> SUFFICES ASSUME Each(Then(c, d), Ordinary(N))
               PROVE  /\ Filled(f, FlatMap(w, Then(c, d))) = FlatMap(a, Then(c, d))
                      /\ Shut(FlatMap(w, Then(c, d)))
    BY <2>2
  <2>3. Each(c, Ordinary(N)) /\ x \in Ordinary(N)
    BY <2>1, ThenEach, OneEach DEF BasicBlock
  <2>4. FlatMap(w, d) = w[x] /\ FlatMap(a, d) = a[x]
    BY <1>0, BlockMapOne
  <2> HIDE DEF d, w, a
  <2>5. /\ FlatMap(w, Then(c, d)) = Then(FlatMap(w, c), w[x])
        /\ FlatMap(a, Then(c, d)) = Then(FlatMap(a, c), a[x])
    BY <1>0, <2>1, <2>4, BlockMapThen
  <2>6. /\ FlatMap(w, c) \in BasicBlock(N) /\ w[x] \in BasicBlock(N)
    BY <1>0, <2>1, BlockMap DEF Map
  <2>7. Filled(f, FlatMap(w, c)) = FlatMap(a, c) /\ Shut(FlatMap(w, c))
    BY <1>2, <2>3
  <2>8. Filled(f, w[x]) = a[x] /\ Shut(w[x])
    <3>1. CASE IsOwnCall(x)
      <4>1. /\ w[x] = Triple(MpuConfig("rest", 2), x, MpuConfig("rest", 1))
            /\ a[x] = Triple(MpuConfig(x.callee, 2), x, MpuConfig(f, 1))
        BY <3>1, WrapIs, AroundPiece DEF w, a
      <4> QED BY <3>1, <4>1, FillTriple
    <3>2. CASE ~IsOwnCall(x)
      <4>1. w[x] = One(x) /\ a[x] = One(x)
        BY <3>2, WrapIs, AroundPiece DEF w, a
      <4>2. ~IsConfig(x)
        BY <2>3 DEF Ordinary, IsConfig, Helper, MpuFunction
      <4>3. One(x) \in BasicBlock(N) /\ Silent(One(x))
        BY <4>2, BlockOne, OneSilent
      <4> QED BY <4>1, <4>3, FillSilent
    <3> QED BY <3>1, <3>2
  <2>9. Filled(f, Then(FlatMap(w, c), w[x])) = Then(Filled(f, FlatMap(w, c)), Filled(f, w[x]))
    BY <2>6, <2>7, FillThen
  <2>10. Shut(Then(FlatMap(w, c), w[x]))
    BY <2>6, <2>7, <2>8, ShutThen
  <2> QED BY <2>5, <2>7, <2>8, <2>9, <2>10
<1>3. \A c \in Seq(Instruction(N)) : c \in T
  <2>1. <<>> \in T
    BY <1>1
  <2> HIDE DEF T
  <2> QED BY <2>1, <1>2, ThenInduct
<1> QED BY <1>3 DEF BasicBlock

(* A map that leaves phis as they are leaves a block of them as it is.     *)
LEMMA PhiMap ==
  ASSUME NEW N, NEW h, NEW p \in BasicBlock(N), Map(h, Instruction(N), BasicBlock(N)),
         \A x \in Instruction(N) : x.op = "phi" => h[x] = One(x),
         Each(p, Phis(N))
  PROVE  FlatMap(h, p) = p
<1>1. Plain(h, p)
  BY DEF Plain, Each, Phis
<1> QED BY <1>1, FlatMapPlain DEF BasicBlock

(* Such a map works on what is between the phis and the last instruction   *)
(* only.                                                                   *)
LEMMA ShapeMap ==
  ASSUME NEW N, NEW h, NEW p \in BasicBlock(N), NEW q \in BasicBlock(N), NEW t \in Instruction(N),
         Map(h, Instruction(N), BasicBlock(N)),
         \A x \in Instruction(N) : x.op = "phi" => h[x] = One(x),
         Each(p, Phis(N)), h[t] = One(t)
  PROVE  FlatMap(h, Then(p, Then(q, One(t)))) = Then(p, Then(FlatMap(h, q), One(t)))
<1> DEFINE d == One(t)
<1>1. d \in BasicBlock(N) /\ FlatMap(h, d) = d
  BY BlockOne, BlockMapOne
<1> HIDE DEF d
<1>2. Then(q, d) \in BasicBlock(N)
  BY <1>1, BlockThen
<1>3. FlatMap(h, Then(q, d)) = Then(FlatMap(h, q), d)
  BY <1>1, BlockMapThen
<1>4. FlatMap(h, p) = p
  BY PhiMap
<1>5. FlatMap(h, Then(p, Then(q, d))) = Then(FlatMap(h, p), FlatMap(h, Then(q, d)))
  BY <1>2, BlockMapThen
<1> QED BY <1>3, <1>4, <1>5 DEF d

(* Both maps of calls leave what is no call as it is.                      *)
LEMMA PhiPieces ==
  ASSUME NEW N, NEW f, NEW x \in Instruction(N), ~IsCall(x)
  PROVE  WrapMap(N)[x] = One(x) /\ AroundMap(N, f)[x] = One(x)
BY WrapIs, AroundPiece DEF IsOwnCall

(* Phis are no configurations.                                             *)
LEMMA PhiSilent ==
  ASSUME NEW N, NEW p \in BasicBlock(N), Each(p, Phis(N)) PROVE Silent(p)
BY DEF Silent, Each, Phis, IsConfig, IsCall

(* Connect_Function's configuration at the end of a function.              *)
Saved == MpuConfig("saved", 2)

(* Set_Operand leaves it as it is, because what follows is no call.        *)
LEMMA FillEnd ==
  ASSUME NEW N, NEW f \in Symbol(N), NEW x, NEW t \in Instruction(N), ~IsCall(t),
         x \in {<<>>, One(Saved)}
  PROVE  /\ x \in BasicBlock(N) /\ Then(x, One(t)) \in BasicBlock(N)
         /\ Filled(f, Then(x, One(t))) = Then(x, One(t))
<1> DEFINE d == One(t)
           c == Saved
<1>0. d \in BasicBlock(N) /\ Single(d, t)
  BY OneIs DEF BasicBlock
<1>1. ~IsConfig(t)
  BY DEF IsConfig
<1>2. CASE x = <<>>
  <2>1. Then(x, d) = d
    BY <1>0, <1>2, ThenNone DEF BasicBlock
  <2>2. Silent(d)
    BY <1>1, OneSilent
  <2> QED BY <1>0, <1>2, <2>1, <2>2, EmptyType, FillSilent
<1>3. CASE x = One(c)
  <2>1. c \in Instruction(N)
    BY RestType DEF Saved
  <2>2. IsConfig(c) /\ c.num = 2
    BY ConfigIs DEF Saved
  <2> HIDE DEF c, d
  <2>3. x \in BasicBlock(N) /\ Single(x, c)
    BY <1>3, <2>1, OneIs DEF BasicBlock
  <2> DEFINE y == Then(x, d)
  <2>4. y \in BasicBlock(N) /\ Joins(y, x, d)
    BY <1>0, <2>3, ThenJoins DEF BasicBlock
  <2> HIDE DEF y
  <2>5. Len(y) = 2 /\ y[1] = c /\ y[2] = t
    BY <1>0, <2>3, <2>4 DEF Joins, Single
  <2>6. FillAt(f, y, 1) = y[1]
    BY <2>2, <2>5 DEF FillAt
  <2>7. FillAt(f, y, 2) = y[2]
    BY <1>1, <2>5 DEF FillAt
  <2>8. Fills(y, f, y)
    <3>1. \A i \in 1 .. 2 : i = 1 \/ i = 2
      OBVIOUS
    <3> QED BY <2>5, <2>6, <2>7, <3>1 DEF Fills
  <2>9. y = Filled(f, y)
    BY <2>4, <2>8, FillsIs
  <2> QED BY <2>3, <2>4, <2>9 DEF y, d
<1> QED BY <1>2, <1>3
-----------------------------------------------------------------------------
(* The parts of a block, and how the insertions move them apart.           *)

(* A block with its phis, the entry code, its own code, the exit code and  *)
(* its last instruction.                                                   *)
Shape(p, e, q, x, t) == Then(p, Then(e, Then(q, Then(x, One(t)))))

(* Set_Operand works on a block's parts one by one.                        *)
LEMMA FillShape ==
  ASSUME NEW N, NEW f \in Symbol(N), NEW p \in BasicBlock(N), NEW e \in BasicBlock(N),
         NEW q \in BasicBlock(N), NEW x \in {<<>>, One(Saved)}, NEW t \in Instruction(N),
         Each(p, Phis(N)), Shut(e), Shut(q), ~IsCall(t)
  PROVE  Filled(f, Shape(p, e, q, x, t)) = Shape(p, Filled(f, e), Filled(f, q), x, t)
<1> DEFINE y == Then(x, One(t))
           z == Then(q, y)
           w == Then(e, z)
<1>1. y \in BasicBlock(N) /\ Filled(f, y) = y
  BY FillEnd
<1> HIDE DEF y
<1>2. z \in BasicBlock(N) /\ Filled(f, z) = Then(Filled(f, q), y)
  BY <1>1, BlockThen, FillThen
<1> HIDE DEF z
<1>3. w \in BasicBlock(N) /\ Filled(f, w) = Then(Filled(f, e), Filled(f, z))
  BY <1>2, BlockThen, FillThen
<1> HIDE DEF w
<1>4. Filled(f, p) = p /\ Shut(p)
  BY PhiSilent, FillSilent
<1>5. Filled(f, Then(p, w)) = Then(p, Filled(f, w))
  BY <1>3, <1>4, FillThen
<1> QED BY <1>2, <1>3, <1>5 DEF Shape, y, z, w

(* InsertAt of a block at a seam.                                          *)
LEMMA InsertBlock ==
  ASSUME NEW N, NEW p \in BasicBlock(N), NEW q \in BasicBlock(N), NEW e \in Instruction(N)
  PROVE  InsertAt(Then(p, q), Len(p) + 1, e) = Then(p, Then(One(e), q))
BY InsertThen DEF BasicBlock

(* FirstNonPhi of a block of phis and a rest.                              *)
LEMMA FirstBlock ==
  ASSUME NEW N, NEW p \in BasicBlock(N), NEW q \in BasicBlock(N), Each(p, Phis(N)), Starts(q)
  PROVE  FirstNonPhi(Then(p, q)) = Len(p) + 1
BY FirstThen DEF BasicBlock, Phis

(* Inserting there ...                                                     *)
LEMMA InsertFirst ==
  ASSUME NEW N, NEW p \in BasicBlock(N), NEW q \in BasicBlock(N), NEW e \in Instruction(N),
         Each(p, Phis(N)), Starts(q)
  PROVE  InsertAt(Then(p, q), FirstNonPhi(Then(p, q)), e) = Then(p, Then(One(e), q))
BY FirstBlock, InsertBlock

(* ... and once more behind what was inserted.                             *)
LEMMA InsertSecond ==
  ASSUME NEW N, NEW p \in BasicBlock(N), NEW q \in BasicBlock(N), NEW e \in Instruction(N),
         NEW g \in Instruction(N), Each(p, Phis(N)), Starts(q)
  PROVE  InsertAt(InsertAt(Then(p, q), FirstNonPhi(Then(p, q)), e),
                  FirstNonPhi(Then(p, q)) + 1, g)
           = Then(p, Then(One(e), Then(One(g), q)))
<1> DEFINE d == One(e)
           b == Then(p, d)
           c == Then(One(g), q)
<1>1. d \in BasicBlock(N) /\ Single(d, e)
  BY OneIs DEF BasicBlock
<1>2. InsertAt(Then(p, q), FirstNonPhi(Then(p, q)), e) = Then(p, Then(d, q))
  BY InsertFirst
<1> HIDE DEF d
<1>3. b \in BasicBlock(N) /\ Joins(b, p, d)
  BY <1>1, ThenJoins DEF BasicBlock
<1>4. Then(p, Then(d, q)) = Then(b, q)
  BY <1>1, BlockAssociative
<1>5. c \in BasicBlock(N)
  BY BlockOne, BlockThen
<1>6. Then(b, c) = Then(p, Then(d, c))
  BY <1>1, <1>5, BlockAssociative
<1> HIDE DEF b, c
<1>7. Len(b) = Len(p) + 1 /\ Len(p) \in Nat
  BY <1>1, <1>3, ElementType DEF Joins, Single
<1>8. FirstNonPhi(Then(p, q)) = Len(p) + 1
  BY FirstBlock
<1>9. InsertAt(Then(b, q), Len(b) + 1, g) = Then(b, c)
  BY <1>3, InsertBlock DEF c
<1> QED BY <1>2, <1>4, <1>6, <1>7, <1>8, <1>9 DEF c, d

(* Inserting before the last instruction.                                  *)
LEMMA InsertLast ==
  ASSUME NEW N, NEW p \in BasicBlock(N), NEW t \in Instruction(N), NEW e \in Instruction(N)
  PROVE  InsertAt(Then(p, One(t)), Len(Then(p, One(t))), e) = Then(p, Then(One(e), One(t)))
<1> DEFINE d == One(t)
           b == Then(p, d)
<1>1. d \in BasicBlock(N) /\ Single(d, t)
  BY OneIs DEF BasicBlock
<1> HIDE DEF d
<1>2. Joins(b, p, d)
  BY <1>1, ThenJoins DEF BasicBlock
<1>3. InsertAt(b, Len(p) + 1, e) = Then(p, Then(One(e), d))
  BY <1>1, InsertBlock
<1> HIDE DEF b
<1>4. Len(b) = Len(p) + 1
  BY <1>1, <1>2 DEF Joins, Single
<1> QED BY <1>3, <1>4 DEF b, d

(* The same parts, grouped otherwise.                                      *)
LEMMA Regroup ==
  ASSUME NEW N, NEW p \in BasicBlock(N), NEW e \in BasicBlock(N), NEW q \in BasicBlock(N),
         NEW y \in BasicBlock(N)
  PROVE  Then(p, Then(e, Then(q, y))) = Then(Then(p, Then(e, q)), y)
<1>1. Then(e, Then(q, y)) = Then(Then(e, q), y)
  BY BlockAssociative
<1>2. Then(e, q) \in BasicBlock(N)
  BY BlockThen
<1>3. Then(p, Then(Then(e, q), y)) = Then(Then(p, Then(e, q)), y)
  BY <1>2, BlockAssociative
<1> QED BY <1>1, <1>3

(* Connect_Function's insertion before the end of a block.                 *)
LEMMA ExitShape ==
  ASSUME NEW N, NEW p \in BasicBlock(N), NEW e \in BasicBlock(N), NEW q \in BasicBlock(N),
         NEW t \in Instruction(N)
  PROVE  LET b == Shape(p, e, q, <<>>, t)
         IN  InsertAt(b, Len(b), Saved) = Shape(p, e, q, One(Saved), t)
<1> DEFINE d == One(t)
           s == Saved
           b == Shape(p, e, q, <<>>, t)
           c == Then(p, Then(e, q))
<1>1. d \in BasicBlock(N) /\ s \in Instruction(N)
  BY BlockOne, RestType DEF Saved
<1>2. Then(<<>>, d) = d
  BY <1>1, ThenNone DEF BasicBlock
<1>3. b = Then(c, d)
  <2>1. b = Then(p, Then(e, Then(q, d)))
    BY <1>2 DEF Shape
  <2> HIDE DEF b, d
  <2> QED BY <1>1, <2>1, Regroup
<1>4. c \in BasicBlock(N)
  BY BlockThen
<1>5. Then(One(s), d) \in BasicBlock(N)
  BY <1>1, BlockOne, BlockThen
<1>6. Then(p, Then(e, Then(q, Then(One(s), d)))) = Then(c, Then(One(s), d))
  <2> HIDE DEF s, d
  <2> QED BY <1>5, Regroup
<1>7. InsertAt(Then(c, d), Len(Then(c, d)), s) = Then(c, Then(One(s), d))
  <2> HIDE DEF c, s
  <2> QED BY <1>1, <1>4, InsertLast
<1> HIDE DEF b, c, d
<1>8. InsertAt(b, Len(b), Saved) = Then(p, Then(e, Then(q, Then(One(Saved), d))))
  BY <1>3, <1>6, <1>7
<1> QED BY <1>8 DEF Shape, b, d

(* A map whose sequences are in T makes elements of T.                     *)
LEMMA FlatMapInto ==
  ASSUME NEW S, NEW Q, NEW T, NEW U, NEW h, NEW b \in Seq(S), Closed(Q),
         Map(h, S, Q), ClosedIn(T, Q), Each(b, U), \A x \in S : x \in U => h[x] \in T
  PROVE  FlatMap(h, b) \in T
<1> DEFINE V == {c \in Seq(S) : Each(c, U) => FlatMap(h, c) \in T}
<1>1. <<>> \in V
  BY FlatMapNone DEF ClosedIn
<1>2. ASSUME NEW c \in Seq(S), NEW x \in S, c \in V PROVE Then(c, One(x)) \in V
  <2>1. One(x) \in Seq(S)
    BY OneIs
  <2>2. Then(c, One(x)) \in Seq(S)
    BY <2>1, ThenJoins
  <2> SUFFICES ASSUME Each(Then(c, One(x)), U) PROVE FlatMap(h, Then(c, One(x))) \in T
    BY <2>2
  <2>5. Each(c, U) /\ x \in U
    BY <2>1, ThenEach, OneEach
  <2>3. FlatMap(h, Then(c, One(x))) = Then(FlatMap(h, c), FlatMap(h, One(x)))
    BY <2>1, FlatMapThen
  <2>4. FlatMap(h, One(x)) = h[x]
    BY FlatMapOne
  <2> QED BY <1>2, <2>3, <2>4, <2>5 DEF ClosedIn
<1>3. \A c \in Seq(S) : c \in V
  <2> HIDE DEF V
  <2> QED BY <1>1, <1>2, ThenInduct
<1> QED BY <1>3

(* A map that begins no sequence with a phi begins no block with one.      *)
LEMMA StartsMap ==
  ASSUME NEW N, NEW h, NEW b \in BasicBlock(N), Map(h, Instruction(N), BasicBlock(N)),
         \A x \in Instruction(N) : x.op # "phi" => Starts(h[x]), Starts(b)
  PROVE  Starts(FlatMap(h, b))
<1>1. PICK q \in Seq(Instruction(N)) : b = Then(One(b[1]), q) /\ b[1] \in Instruction(N)
  BY SplitHead DEF Starts, BasicBlock
<1> DEFINE x == b[1]
<1>2. x \in Instruction(N) /\ b = Then(One(x), q) /\ q \in BasicBlock(N) /\ x.op # "phi"
  BY <1>1 DEF BasicBlock, Starts
<1> HIDE DEF x
<1>3. One(x) \in BasicBlock(N)
  BY <1>2, BlockOne
<1>4. FlatMap(h, Then(One(x), q)) = Then(FlatMap(h, One(x)), FlatMap(h, q))
  BY <1>2, <1>3, BlockMapThen
<1>5. FlatMap(h, One(x)) = h[x] /\ Starts(h[x])
  BY <1>2, BlockMapOne
<1>6. h[x] \in BasicBlock(N) /\ FlatMap(h, q) \in BasicBlock(N)
  BY <1>2, BlockMap DEF Map
<1>7. Starts(Then(h[x], FlatMap(h, q)))
  BY <1>5, <1>6, StartsThen DEF BasicBlock
<1> QED BY <1>2, <1>4, <1>5, <1>7

(* Both maps of calls are such maps.                                       *)
LEMMA PieceStarts ==
  ASSUME NEW N, NEW f \in Symbol(N), NEW x \in Instruction(N), x.op # "phi"
  PROVE  Starts(WrapMap(N)[x]) /\ Starts(AroundMap(N, f)[x])
<1>1. CASE IsOwnCall(x)
  <2> DEFINE u == MpuConfig("rest", 2)
             v == MpuConfig("rest", 1)
             y == MpuConfig(x.callee, 2)
             z == MpuConfig(f, 1)
  <2>1. u \in Instruction(N) /\ v \in Instruction(N)
    BY RestType
  <2>2. y \in Instruction(N) /\ z \in Instruction(N)
    <3>1. 1 \in 0 .. 2 /\ 2 \in 0 .. 2 /\ x.callee \in Symbol(N)
      BY CalleeType
    <3> QED BY <3>1, ConfigType, Zenon
  <2>3. u.op # "phi" /\ y.op # "phi"
    BY ConfigIs
  <2>4. WrapMap(N)[x] = Triple(u, x, v) /\ AroundMap(N, f)[x] = Triple(y, x, z)
    BY <1>1, WrapIs, AroundPiece
  <2> HIDE DEF u, v, y, z
  <2>5. Cell(Triple(u, x, v), u, x, v) /\ Cell(Triple(y, x, z), y, x, z)
    BY <2>1, <2>2, TripleCell
  <2> QED BY <2>3, <2>4, <2>5 DEF Starts, Cell
<1>2. CASE ~IsOwnCall(x)
  BY <1>2, WrapIs, AroundPiece, OneStarts
<1> QED BY <1>1, <1>2

(* EntryCode is a block.                                                   *)
LEMMA EntryType ==
  ASSUME NEW N, NEW f \in N PROVE EntryCode(f) \in BasicBlock(N)
<1>1. MpuConfig(f, 1) \in Instruction(N)
  <2>1. 1 \in 0 .. 2 /\ f \in Symbol(N)
    BY SymbolIs
  <2> QED BY <2>1, ConfigType, Zenon
<1>2. ReadAddr \in Instruction(N) /\ ReadSize \in Instruction(N)
  BY ReadType
<1>3. (IF f = "main" THEN <<>> ELSE <<ReadAddr, ReadSize>>) \in BasicBlock(N)
  BY <1>2 DEF BasicBlock
<1>4. <<MpuConfig(f, 1)>> \in BasicBlock(N)
  BY <1>1 DEF BasicBlock
<1>5. EntryCode(f) = Then(IF f = "main" THEN <<>> ELSE <<ReadAddr, ReadSize>>, <<MpuConfig(f, 1)>>)
  BY Zenon DEF EntryCode, Then
<1> HIDE DEF EntryCode
<1> QED BY <1>3, <1>4, <1>5, BlockThen

(* ExitCode, in the words of these lemmas.                                 *)
LEMMA ExitIs ==
  ASSUME NEW f
  PROVE  ExitCode(f) = IF f = "main" THEN <<>> ELSE One(Saved)
BY DEF ExitCode, One, Saved

(* WithEntry puts the code at the start of a function behind the phis ...  *)
LEMMA EntryIs ==
  ASSUME NEW N, NEW f \in N, NEW p \in BasicBlock(N), NEW q \in BasicBlock(N),
         Each(p, Phis(N)), Starts(q)
  PROVE  WithEntry(f, Then(p, q)) = Then(p, Then(EntryCode(f), q))
<1> DEFINE b == Then(p, q)
           e == EntryCode(f)
           i == FirstNonPhi(b)
<1>1. i = Len(p) + 1
  BY FirstBlock
<1>2. SubSeq(b, 1, Len(p)) = p /\ SubSeq(b, Len(p) + 1, Len(b)) = q
  BY CutThen DEF BasicBlock
<1>3. Len(p) \in Nat
  BY ElementType
<1>4. i - 1 = Len(p)
  BY <1>1, <1>3
<1>5. SubSeq(b, 1, i - 1) = p /\ SubSeq(b, i, Len(b)) = q
  BY <1>1, <1>2, <1>4
<1>6. WithEntry(f, b) = Then(Then(SubSeq(b, 1, i - 1), e), SubSeq(b, i, Len(b)))
  BY Zenon DEF WithEntry, Then
<1>7. e \in BasicBlock(N)
  BY EntryType
<1> HIDE DEF b, e, i
<1>8. Then(Then(p, e), q) = Then(p, Then(e, q))
  BY <1>7, BlockAssociative
<1> QED BY <1>5, <1>6, <1>8 DEF b, e

(* ... and WithExit before its last instruction.                           *)
LEMMA WithExitIs ==
  ASSUME NEW N, NEW f \in N, NEW p \in BasicBlock(N), NEW t \in Instruction(N)
  PROVE  WithExit(f, Then(p, One(t))) = Then(p, Then(ExitCode(f), One(t)))
<1> DEFINE b == Then(p, One(t))
           x == ExitCode(f)
<1>1. Front(b) = p /\ Last(b) = t
  BY EndThen DEF BasicBlock
<1>2. WithExit(f, b) = Then(Then(Front(b), x), One(Last(b)))
  BY Zenon DEF WithExit, Then, One
<1>3. x \in BasicBlock(N) /\ One(t) \in BasicBlock(N)
  <2>1. Saved \in Instruction(N)
    BY RestType DEF Saved
  <2> QED BY <2>1, ExitIs, EmptyType, BlockOne
<1> HIDE DEF b, x
<1>4. Then(Then(p, x), One(t)) = Then(p, Then(x, One(t)))
  BY <1>3, BlockAssociative
<1> QED BY <1>1, <1>2, <1>4 DEF b, x

(* The empty block is the unit of the join.                                *)
LEMMA BlockNone ==
  ASSUME NEW N, NEW p \in BasicBlock(N)
  PROVE  Then(p, <<>>) = p /\ Then(<<>>, p) = p
BY ThenNone DEF BasicBlock
-----------------------------------------------------------------------------
(* Blocks in which every call is guarded and no placeholder is left.       *)
(* GoodAt says what CallsGuarded says of one instruction, and that its     *)
(* neighbours exist.                                                       *)
GoodAt(f, b, i) ==
  /\ b[i].region \notin Placeholder
  /\ IsOwnCall(b[i]) =>
       /\ i - 1 \in 1 .. Len(b) /\ i + 1 \in 1 .. Len(b)
       /\ b[i - 1] = MpuConfig(b[i].callee, 2)
       /\ b[i + 1] = MpuConfig(f, 1)

Good(N, f) == {b \in BasicBlock(N) : \A i \in 1 .. Len(b) : GoodAt(f, b, i)}

(* A join of such blocks is one.                                           *)
LEMMA GoodThen ==
  ASSUME NEW N, NEW f, NEW p \in Good(N, f), NEW q \in Good(N, f)
  PROVE  Then(p, q) \in Good(N, f)
<1> DEFINE b == Then(p, q)
<1>0. p \in BasicBlock(N) /\ q \in BasicBlock(N)
  BY DEF Good
<1>1. b \in BasicBlock(N) /\ Joins(b, p, q)
  BY <1>0, ThenJoins DEF BasicBlock
<1> HIDE DEF b
<1>2. Len(p) \in Nat /\ Len(q) \in Nat
  BY <1>0, ElementType
<1>3. Len(b) = Len(p) + Len(q)
  BY <1>1 DEF Joins
<1>4. ASSUME NEW i \in 1 .. Len(p) PROVE GoodAt(f, b, i)
  <2>1. GoodAt(f, p, i)
    BY DEF Good
  <2>2. \A j \in 1 .. Len(p) : b[j] = p[j] /\ j \in 1 .. Len(b)
    BY <1>1, <1>2, <1>3 DEF Joins
  <2> QED BY <2>1, <2>2 DEF GoodAt
<1>5. ASSUME NEW i \in 1 .. Len(q) PROVE GoodAt(f, b, Len(p) + i)
  <2> DEFINE j == Len(p) + i
  <2>1. GoodAt(f, q, i)
    BY DEF Good
  <2>2. \A h \in 1 .. Len(q) : b[Len(p) + h] = q[h] /\ Len(p) + h \in 1 .. Len(b)
    BY <1>1, <1>2, <1>3 DEF Joins
  <2>3. b[j] = q[i]
    BY <2>2
  <2>4. ASSUME i - 1 \in 1 .. Len(q)
        PROVE  j - 1 \in 1 .. Len(b) /\ b[j - 1] = q[i - 1]
    <3>1. j - 1 = Len(p) + (i - 1)
      BY <1>2
    <3> QED BY <2>2, <2>4, <3>1
  <2>5. ASSUME i + 1 \in 1 .. Len(q)
        PROVE  j + 1 \in 1 .. Len(b) /\ b[j + 1] = q[i + 1]
    <3>1. j + 1 = Len(p) + (i + 1)
      BY <1>2
    <3> QED BY <2>2, <2>5, <3>1
  <2> HIDE DEF j
  <2>6. GoodAt(f, b, j)
    BY <2>1, <2>3, <2>4, <2>5, Zenon DEF GoodAt
  <2> QED BY <2>6 DEF j
<1>6. ASSUME NEW i \in 1 .. Len(b) PROVE GoodAt(f, b, i)
  <2>1. CASE i \in 1 .. Len(p)
    BY <1>4, <2>1
  <2>2. CASE i \notin 1 .. Len(p)
    <3>1. i - Len(p) \in 1 .. Len(q) /\ Len(p) + (i - Len(p)) = i
      BY <1>2, <1>3, <2>2
    <3> QED BY <1>5, <3>1
  <2> QED BY <2>1, <2>2
<1> QED BY <1>1, <1>6 DEF Good, b

(* A block without calls of the program and without placeholders is one    *)
(* ...                                                                     *)
LEMMA GoodPlain ==
  ASSUME NEW N, NEW f, NEW b \in BasicBlock(N),
         \A i \in 1 .. Len(b) : b[i].region \notin Placeholder /\ ~IsOwnCall(b[i])
  PROVE  b \in Good(N, f)
BY DEF Good, GoodAt

(* ... as is one such instruction ...                                      *)
LEMMA GoodOne ==
  ASSUME NEW N, NEW f, NEW x \in Instruction(N), x.region \notin Placeholder, ~IsOwnCall(x)
  PROVE  One(x) \in Good(N, f)
<1> DEFINE d == One(x)
<1>1. d \in BasicBlock(N) /\ Single(d, x)
  BY OneIs DEF BasicBlock
<1> HIDE DEF d
<1>2. \A i \in 1 .. Len(d) : d[i] = x
  BY <1>1 DEF Single
<1>3. d \in Good(N, f)
  BY <1>1, <1>2, GoodPlain
<1> QED BY <1>3 DEF d

(* ... and a call with the final configurations around it.                 *)
LEMMA GoodTriple ==
  ASSUME NEW N, NEW f \in N, NEW x \in Ordinary(N), N \cap Placeholder = {}, IsOwnCall(x)
  PROVE  Triple(MpuConfig(x.callee, 2), x, MpuConfig(f, 1)) \in Good(N, f)
<1> DEFINE y == MpuConfig(x.callee, 2)
           z == MpuConfig(f, 1)
           b == Triple(y, x, z)
<1>0. x \in Instruction(N) /\ IsCall(x)
  BY OwnIs DEF Ordinary
<1>1. y \in Instruction(N) /\ z \in Instruction(N)
  <2>1. 1 \in 0 .. 2 /\ 2 \in 0 .. 2 /\ x.callee \in Symbol(N) /\ f \in Symbol(N)
    BY <1>0, CalleeType, SymbolIs
  <2> QED BY <2>1, ConfigType, Zenon
<1>2. y.region \notin Placeholder /\ ~IsOwnCall(y) /\ z.region \notin Placeholder /\ ~IsOwnCall(z)
  <2>1. x.callee \notin Placeholder
    BY <1>0 DEF Ordinary, Placeholder
  <2> QED BY <2>1, ConfigIs
<1>3. x.region \notin Placeholder
  BY DEF Ordinary, Placeholder
<1>4. b \in BasicBlock(N) /\ Cell(b, y, x, z)
  BY <1>0, <1>1, TripleCell DEF BasicBlock
<1> HIDE DEF b
<1>5. GoodAt(f, b, 1) /\ GoodAt(f, b, 2) /\ GoodAt(f, b, 3)
  BY <1>2, <1>3, <1>4 DEF GoodAt, Cell
<1>6. \A i \in 1 .. 3 : i = 1 \/ i = 2 \/ i = 3
  OBVIOUS
<1>7. b \in Good(N, f)
  BY <1>4, <1>5, <1>6 DEF Good, Cell
<1> QED BY <1>7 DEF b

(* So every block with the final configurations around its calls is one.   *)
LEMMA GoodAround ==
  ASSUME NEW N, NEW f \in N, NEW b \in BasicBlock(N), N \cap Placeholder = {},
         Each(b, Ordinary(N))
  PROVE  FlatMap(AroundMap(N, f), b) \in Good(N, f)
<1> DEFINE a == AroundMap(N, f)
<1>1. ClosedIn(Good(N, f), BasicBlock(N))
  <2>1. <<>> \in Good(N, f)
    BY EmptyType, GoodPlain
  <2>2. Good(N, f) \subseteq BasicBlock(N)
    BY DEF Good
  <2> QED BY <2>1, <2>2, GoodThen DEF ClosedIn
<1>2. ASSUME NEW x \in Instruction(N), x \in Ordinary(N) PROVE a[x] \in Good(N, f)
  <2>1. CASE IsOwnCall(x)
    BY <1>2, <2>1, AroundPiece, GoodTriple
  <2>2. CASE ~IsOwnCall(x)
    <3>1. x.region \notin Placeholder
      BY <1>2 DEF Ordinary, Placeholder
    <3> QED BY <2>2, <3>1, AroundPiece, GoodOne
  <2> QED BY <2>1, <2>2
<1>3. Map(a, Instruction(N), BasicBlock(N))
  BY SymbolIs, AroundType
<1> HIDE DEF a
<1>4. FlatMap(a, b) \in Good(N, f)
  BY <1>1, <1>2, <1>3, FlatMapInto, InstrClosed DEF BasicBlock
<1> QED BY <1>4 DEF a
-----------------------------------------------------------------------------
(* Insert_Function's configuration at the start of a function.             *)
First == MpuConfig("first", 1)

(* The parts of a block before the passes.                                 *)
Formed(N, b, p, q, t) ==
  /\ p \in BasicBlock(N) /\ q \in BasicBlock(N) /\ t \in Instruction(N)
  /\ b = Then(p, Then(q, One(t)))
  /\ Each(p, Phis(N)) /\ Starts(Then(q, One(t))) /\ ~IsCall(t)
  /\ Each(q, Ordinary(N)) /\ t \in Ordinary(N)

(* A block as Instrument's ProgramAssumption has it has such parts.        *)
LEMMA FormedExists ==
  ASSUME NEW N, NEW b \in BasicBlock(N), Len(b) # 0, b[Len(b)].op \in {"br", "ret"},
         Each(b, Ordinary(N))
  PROVE  \E p, q, t : Formed(N, b, p, q, t)
<1>1. b[Len(b)].op # "phi"
  OBVIOUS
<1>2. PICK p, q \in Seq(Instruction(N)), t \in Instruction(N) :
        /\ b = Then(p, Then(q, One(t))) /\ t = b[Len(b)]
        /\ Each(p, {x \in Instruction(N) : x.op = "phi"}) /\ Starts(Then(q, One(t)))
  <2>1. b \in Seq(Instruction(N))
    BY DEF BasicBlock
  <2> QED BY <1>1, <2>1, NormalForm
<1>3. p \in BasicBlock(N) /\ q \in BasicBlock(N) /\ Each(p, Phis(N))
  BY <1>2 DEF BasicBlock, Phis
<1>4. ~IsCall(t)
  BY <1>2 DEF IsCall
<1>5. One(t) \in BasicBlock(N) /\ Then(q, One(t)) \in BasicBlock(N)
  BY <1>3, BlockOne, BlockThen
<1>6. Each(q, Ordinary(N)) /\ t \in Ordinary(N)
  <2> DEFINE d == One(t)
             c == Then(q, d)
  <2>1. d \in BasicBlock(N) /\ c \in BasicBlock(N) /\ b = Then(p, c)
    BY <1>2, <1>5
  <2>2. Each(d, Ordinary(N)) <=> t \in Ordinary(N)
    BY OneEach
  <2> HIDE DEF d
  <2>3. Each(c, Ordinary(N)) <=> Each(q, Ordinary(N)) /\ Each(d, Ordinary(N))
    BY <1>3, <2>1, ThenEach DEF BasicBlock
  <2> HIDE DEF c
  <2>4. Each(b, Ordinary(N)) <=> Each(p, Ordinary(N)) /\ Each(c, Ordinary(N))
    BY <1>3, <2>1, ThenEach DEF BasicBlock
  <2> QED BY <2>2, <2>3, <2>4
<1> QED BY <1>2, <1>3, <1>4, <1>6 DEF Formed

(* What ImageBlock puts at the start of a block and before its end.        *)
Entry(f, k)      == IF k = 1 THEN EntryCode(f) ELSE <<>>

Closing(f, k, n) == IF k = n THEN ExitCode(f) ELSE <<>>

(* Image's block has these parts, with code inserted between them.         *)
LEMMA ImageShape ==
  ASSUME NEW N, NEW f \in N, NEW blocks, NEW k, NEW p, NEW q, NEW t,
         Formed(N, blocks[k], p, q, t)
  PROVE  ImageBlock(f, blocks, k)
           = Shape(p, Entry(f, k), FlatMap(AroundMap(N, f), q), Closing(f, k, Len(blocks)), t)
<1> DEFINE a == AroundMap(N, f)
           d == One(t)
           g == FlatMap(a, q)
           b == Then(q, d)
           c == Then(g, d)
           e == IF k = 1 THEN EntryCode(f) ELSE <<>>
           x == IF k = Len(blocks) THEN ExitCode(f) ELSE <<>>
           w == Then(p, Then(e, c))
<1>0. /\ p \in BasicBlock(N) /\ q \in BasicBlock(N) /\ t \in Instruction(N)
      /\ blocks[k] = Then(p, b) /\ Each(p, Phis(N)) /\ Starts(b) /\ ~IsCall(t)
      /\ f \in Symbol(N)
  BY SymbolIs DEF Formed
<1>1. Map(a, Instruction(N), BasicBlock(N))
  BY <1>0, AroundType
<1>2. a[t] = One(t) /\ \A y \in Instruction(N) : y.op = "phi" => a[y] = One(y)
  BY <1>0, PhiPieces DEF IsCall
<1>3. d \in BasicBlock(N) /\ g \in BasicBlock(N)
  BY <1>0, <1>1, BlockOne, BlockMap
<1>4. b \in BasicBlock(N) /\ c \in BasicBlock(N)
  BY <1>0, <1>3, BlockThen
<1>5. AroundCalls(f, blocks[k]) = Then(p, c)
  <2>1. Then(p, b) \in BasicBlock(N)
    BY <1>0, <1>4, BlockThen
  <2>2. AroundCalls(f, Then(p, b)) = FlatMap(a, Then(p, b))
    BY <1>0, <2>1, AroundIs
  <2> HIDE DEF a
  <2>3. FlatMap(a, Then(p, Then(q, One(t)))) = Then(p, Then(FlatMap(a, q), One(t)))
    BY <1>0, <1>1, <1>2, ShapeMap
  <2> QED BY <1>0, <2>2, <2>3
<1>6. Starts(c)
  <2>1. \A y \in Instruction(N) : y.op # "phi" => Starts(a[y])
    BY <1>0, PieceStarts
  <2> HIDE DEF a
  <2>2. Starts(FlatMap(a, b))
    BY <1>0, <1>1, <1>4, <2>1, StartsMap
  <2>3. FlatMap(a, d) = d
    BY <1>0, <1>1, <1>2, BlockMapOne
  <2> HIDE DEF d
  <2>4. FlatMap(a, b) = c
    BY <1>0, <1>1, <1>3, <2>3, BlockMapThen
  <2> QED BY <2>2, <2>4
<1>7. e \in BasicBlock(N)
  BY EntryType, EmptyType
<1>8. (IF k = 1 THEN WithEntry(f, Then(p, c)) ELSE Then(p, c)) = w
  <2> HIDE DEF c
  <2>1. WithEntry(f, Then(p, c)) = Then(p, Then(EntryCode(f), c))
    BY <1>0, <1>4, <1>6, EntryIs
  <2>2. Then(<<>>, c) = c
    BY <1>4, BlockNone
  <2> QED BY <2>1, <2>2
<1>9. ImageBlock(f, blocks, k) = IF k = Len(blocks) THEN WithExit(f, w) ELSE w
  <2>1. ImageBlock(f, blocks, k)
          = IF k = Len(blocks)
              THEN WithExit(f, IF k = 1 THEN WithEntry(f, AroundCalls(f, blocks[k]))
                                        ELSE AroundCalls(f, blocks[k]))
              ELSE IF k = 1 THEN WithEntry(f, AroundCalls(f, blocks[k]))
                            ELSE AroundCalls(f, blocks[k])
    BY Zenon DEF ImageBlock
  <2> HIDE DEF w, c
  <2> QED BY <1>5, <1>8, <2>1
<1>10. (IF k = Len(blocks) THEN WithExit(f, w) ELSE w) = Then(p, Then(e, Then(g, Then(x, d))))
  <2>0. Then(<<>>, d) = d
    BY <1>3, BlockNone
  <2> HIDE DEF g, e
  <2>1. w = Then(Then(p, Then(e, g)), d)
    <3> HIDE DEF d
    <3> QED BY <1>0, <1>3, <1>7, Regroup
  <2>2. Then(p, Then(e, g)) \in BasicBlock(N)
    BY <1>0, <1>3, <1>7, BlockThen
  <2>3. WithExit(f, Then(Then(p, Then(e, g)), d)) = Then(Then(p, Then(e, g)), Then(ExitCode(f), d))
    BY <1>0, <2>2, WithExitIs
  <2>4. Then(ExitCode(f), d) \in BasicBlock(N)
    <3>1. Saved \in Instruction(N)
      BY RestType DEF Saved
    <3>2. ExitCode(f) \in BasicBlock(N)
      BY <3>1, ExitIs, EmptyType, BlockOne
    <3> QED BY <1>3, <3>2, BlockThen
  <2>5. Then(Then(p, Then(e, g)), Then(ExitCode(f), d))
         = Then(p, Then(e, Then(g, Then(ExitCode(f), d))))
    <3> DEFINE y == Then(ExitCode(f), d)
    <3> HIDE DEF y
    <3>1. y \in BasicBlock(N)
      BY <2>4 DEF y
    <3>2. Then(p, Then(e, Then(g, y))) = Then(Then(p, Then(e, g)), y)
      BY <1>0, <1>3, <1>7, <3>1, Regroup
    <3> QED BY <3>2 DEF y
  <2> HIDE DEF w
  <2>6. CASE k = Len(blocks)
    BY <2>1, <2>3, <2>5, <2>6
  <2>7. CASE k # Len(blocks)
    BY <2>0, <2>7 DEF w
  <2> QED BY <2>6, <2>7
<1>11. e = Entry(f, k) /\ x = Closing(f, k, Len(blocks))
  BY Zenon DEF Entry, Closing
<1> HIDE DEF a, d, g, e, x
<1>12. ImageBlock(f, blocks, k) = Shape(p, e, g, x, t)
  BY <1>9, <1>10 DEF Shape, d
<1> QED BY <1>11, <1>12 DEF g, a

(* A block of parts that are blocks.                                       *)
LEMMA ShapeType ==
  ASSUME NEW N, NEW p \in BasicBlock(N), NEW e \in BasicBlock(N), NEW q \in BasicBlock(N),
         NEW x \in BasicBlock(N), NEW t \in Instruction(N)
  PROVE  Shape(p, e, q, x, t) \in BasicBlock(N)
BY BlockThen, BlockOne DEF Shape
-----------------------------------------------------------------------------
(* Insert_Function's two insertions: into the first block, then around     *)
(* every call.                                                             *)
Begun(b, k) == IF k = 1 THEN InsertAt(b, FirstNonPhi(b), First) ELSE b

(* What the first of them puts behind the phis.                            *)
Lead(k)     == IF k = 1 THEN One(First) ELSE <<>>

(* The inserted configuration is a block.                                  *)
LEMMA LeadType == ASSUME NEW N, NEW k PROVE Lead(k) \in BasicBlock(N)
BY RestType, BlockOne, EmptyType DEF Lead, First

(* The block with it.                                                      *)
LEMMA BegunIs ==
  ASSUME NEW N, NEW b, NEW p, NEW q, NEW t, NEW k, Formed(N, b, p, q, t)
  PROVE  Begun(b, k) = Then(p, Then(Lead(k), Then(q, One(t))))
<1> DEFINE c == Then(q, One(t))
<1>1. /\ p \in BasicBlock(N) /\ c \in BasicBlock(N) /\ b = Then(p, c)
      /\ Each(p, Phis(N)) /\ Starts(c)
  BY BlockThen, BlockOne DEF Formed
<1> HIDE DEF c
<1>2. First \in Instruction(N)
  BY RestType DEF First
<1>3. InsertAt(Then(p, c), FirstNonPhi(Then(p, c)), First) = Then(p, Then(One(First), c))
  BY <1>1, <1>2, InsertFirst
<1>4. Then(<<>>, c) = c
  BY <1>1, BlockNone
<1>5. Begun(b, k) = Then(p, Then(Lead(k), c))
  BY <1>1, <1>3, <1>4 DEF Begun, Lead
<1> QED BY <1>5 DEF c

(* The second one finds nothing to do there: the inserted call is one of   *)
(* the driver's.                                                           *)
LEMMA LeadMap ==
  ASSUME NEW N, NEW k PROVE FlatMap(WrapMap(N), Lead(k)) = Lead(k)
<1>1. First \in Instruction(N) /\ ~IsOwnCall(First)
  BY RestType, ConfigIs DEF First
<1>2. FlatMap(WrapMap(N), One(First)) = WrapMap(N)[First]
  BY <1>1, WrapType, BlockMapOne
<1>3. WrapMap(N)[First] = One(First)
  BY <1>1, WrapIs
<1> QED BY <1>2, <1>3, FlatMapNone DEF Lead

(* What the pass makes of a block.                                         *)
LEMMA InsertedIs ==
  ASSUME NEW N, NEW b, NEW p, NEW q, NEW t, NEW k, Formed(N, b, p, q, t)
  PROVE  FlatMap(WrapMap(N), Begun(b, k))
           = Shape(p, Lead(k), FlatMap(WrapMap(N), q), <<>>, t)
<1> DEFINE w == WrapMap(N)
           d == One(t)
           e == Lead(k)
           g == FlatMap(w, q)
<1>0. /\ p \in BasicBlock(N) /\ q \in BasicBlock(N) /\ t \in Instruction(N)
      /\ Each(p, Phis(N)) /\ ~IsCall(t) /\ d \in BasicBlock(N) /\ e \in BasicBlock(N)
  BY BlockOne, LeadType DEF Formed
<1>1. Map(w, Instruction(N), BasicBlock(N))
  BY WrapType
<1>2. \A x \in Instruction(N) : x.op = "phi" => w[x] = One(x)
  BY PhiPieces DEF IsCall
<1>3. w[t] = One(t)
  BY <1>0, PhiPieces
<1>4. Begun(b, k) = Then(p, Then(e, Then(q, d)))
  BY BegunIs
<1>5. FlatMap(w, e) = e
  BY LeadMap
<1>6. g \in BasicBlock(N)
  BY <1>0, <1>1, BlockMap
<1>7. Then(<<>>, d) = d
  BY <1>0, BlockNone
<1> HIDE DEF w, e
<1>8. Then(e, Then(q, d)) = Then(Then(e, q), d)
  BY <1>0, BlockAssociative
<1>9. Then(e, q) \in BasicBlock(N)
  BY <1>0, BlockThen
<1>10. FlatMap(w, Then(p, Then(Then(e, q), d))) = Then(p, Then(FlatMap(w, Then(e, q)), d))
  BY <1>0, <1>1, <1>2, <1>3, <1>9, ShapeMap
<1>11. FlatMap(w, Then(e, q)) = Then(e, g)
  BY <1>0, <1>1, <1>5, BlockMapThen
<1> HIDE DEF g, d
<1>12. Then(Then(e, g), d) = Then(e, Then(g, d))
  BY <1>0, <1>6, BlockAssociative
<1> QED BY <1>4, <1>7, <1>8, <1>10, <1>11, <1>12 DEF Shape, w, e, g, d

(* What stands at the start of a block when Connect_Function has run.      *)
Reads(b) == Then(One(ReadAddr), Then(One(ReadSize), b))

(* main does not read its caller's region.                                 *)
Opening(f, k) ==
  IF k = 1 THEN IF f = "main" THEN One(First) ELSE Reads(One(First)) ELSE <<>>

(* The reads are a block ...                                               *)
LEMMA ReadsType ==
  ASSUME NEW N, NEW b \in BasicBlock(N) PROVE Reads(b) \in BasicBlock(N)
BY ReadType, BlockOne, BlockThen DEF Reads

(* ... as is all that stands there.                                        *)
LEMMA OpeningType ==
  ASSUME NEW N, NEW f, NEW k PROVE Opening(f, k) \in BasicBlock(N)
<1>1. One(First) \in BasicBlock(N)
  BY RestType, BlockOne DEF First
<1> QED BY <1>1, ReadsType, EmptyType DEF Opening

(* Set_Operand leaves the reads as they are.                               *)
LEMMA ReadsFill ==
  ASSUME NEW N, NEW f \in Symbol(N), NEW b \in BasicBlock(N)
  PROVE  Filled(f, Reads(b)) = Reads(Filled(f, b)) /\ (Shut(b) => Shut(Reads(b)))
<1> DEFINE u == One(ReadAddr)
           v == One(ReadSize)
           c == Then(v, b)
<1>1. u \in BasicBlock(N) /\ v \in BasicBlock(N) /\ c \in BasicBlock(N)
  BY ReadType, BlockOne, BlockThen
<1>2. Silent(u) /\ Silent(v)
  BY ReadIs, OneSilent
<1> HIDE DEF u, v
<1>3. Filled(f, u) = u /\ Shut(u) /\ Filled(f, v) = v /\ Shut(v)
  BY <1>1, <1>2, FillSilent
<1>4. Filled(f, c) = Then(v, Filled(f, b)) /\ (Shut(b) => Shut(c))
  BY <1>1, <1>3, FillThen, ShutThen
<1> HIDE DEF c
<1>5. Filled(f, Then(u, c)) = Then(u, Filled(f, c)) /\ (Shut(c) => Shut(Then(u, c)))
  BY <1>1, <1>3, FillThen, ShutThen
<1> QED BY <1>4, <1>5 DEF Reads, u, v, c

(* EntryCode is the reads and the function's own configuration.            *)
LEMMA EntryReads ==
  ASSUME NEW N, NEW f \in N, f # "main"
  PROVE  EntryCode(f) = Reads(One(MpuConfig(f, 1)))
<1> DEFINE u == ReadAddr
           v == ReadSize
           w == One(MpuConfig(f, 1))
<1>1. u \in Instruction(N) /\ v \in Instruction(N)
  BY ReadType
<1>2. w \in BasicBlock(N)
  <2>1. MpuConfig(f, 1) \in Instruction(N)
    BY ConfigType, SymbolIs, 1 \in 0 .. 2
  <2> QED BY <2>1, BlockOne
<1>3. EntryCode(f) = Then(<<u, v>>, w)
  BY Zenon DEF EntryCode, Then, One
<1> HIDE DEF u, v, w
<1>4. One(u) \in Seq(Instruction(N)) /\ Single(One(u), u)
      /\ One(v) \in Seq(Instruction(N)) /\ Single(One(v), v)
  BY <1>1, OneIs
<1>5. <<u, v>> = Then(One(u), One(v))
  <2>1. <<u, v>> \in Seq(Instruction(N))
    BY <1>1
  <2>2. Joins(<<u, v>>, One(u), One(v))
    <3>1. Len(<<u, v>>) = 2 /\ <<u, v>>[1] = u /\ <<u, v>>[2] = v
      OBVIOUS
    <3> DEFINE r == <<u, v>>
               y == One(u)
               z == One(v)
    <3>2. Len(r) = 2 /\ r[1] = u /\ r[2] = v
      BY <3>1
    <3>3. Single(y, u) /\ Single(z, v)
      BY <1>4
    <3> HIDE DEF r, y, z
    <3>4. Joins(r, y, z)
      BY <3>2, <3>3 DEF Joins, Single
    <3> QED BY <3>4 DEF r, y, z
  <2> QED BY <1>4, <2>1, <2>2, IsThen
<1>6. Then(Then(One(u), One(v)), w) = Then(One(u), Then(One(v), w))
  BY <1>2, <1>4, BlockAssociative DEF BasicBlock
<1> QED BY <1>3, <1>5, <1>6 DEF Reads, u, v, w

(* Set_Operand makes EntryCode of it.                                      *)
LEMMA OpeningFill ==
  ASSUME NEW N, NEW f \in N, NEW k
  PROVE  /\ Filled(f, Opening(f, k)) = Entry(f, k)
         /\ Shut(Opening(f, k))
<1>0. f \in Symbol(N) /\ "first" \in Symbol(N)
  BY SymbolIs
<1> DEFINE b == One(First)
           c == One(MpuConfig(f, 1))
<1>1. b \in BasicBlock(N)
  BY RestType, BlockOne DEF First
<1>2. Filled(f, b) = c /\ Shut(b)
  BY <1>0, FillOne DEF First
<1>3. f # "main" => EntryCode(f) = Reads(c)
  BY EntryReads
<1>4. f = "main" => EntryCode(f) = c
  <2> SUFFICES ASSUME f = "main" PROVE EntryCode(f) = c
    OBVIOUS
  <2>1. EntryCode(f) = Then(<<>>, c)
    BY Zenon DEF EntryCode, Then, One
  <2>2. c \in BasicBlock(N)
    <3>1. MpuConfig(f, 1) \in Instruction(N)
      BY ConfigType, SymbolIs, 1 \in 0 .. 2
    <3> QED BY <3>1, BlockOne
  <2> QED BY <2>1, <2>2, BlockNone
<1>5. Silent(<<>>) /\ <<>> \in BasicBlock(N)
  BY EmptyType DEF Silent
<1>6. Filled(f, <<>>) = <<>> /\ Shut(<<>>)
  BY <1>0, <1>5, FillSilent
<1> HIDE DEF b, c
<1>7. Filled(f, Reads(b)) = Reads(c) /\ Shut(Reads(b))
  BY <1>0, <1>1, <1>2, ReadsFill
<1> QED BY <1>2, <1>3, <1>4, <1>6, <1>7, Zenon DEF Opening, Entry, b

(* What stands before the end of a block.                                  *)
LEMMA ClosingIs ==
  ASSUME NEW N, NEW f, NEW k, NEW n
  PROVE  Closing(f, k, n) \in {<<>>, One(Saved)} /\ Closing(f, k, n) \in BasicBlock(N)
<1>1. Closing(f, k, n) \in {<<>>, One(Saved)}
  BY ExitIs, Zenon DEF Closing
<1>2. Saved \in Instruction(N)
  BY RestType DEF Saved
<1>3. One(Saved) \in BasicBlock(N) /\ <<>> \in BasicBlock(N)
  BY <1>2, BlockOne, EmptyType
<1> DEFINE x == Closing(f, k, n)
           y == One(Saved)
<1> HIDE DEF x, y
<1>4. x = <<>> \/ x = y
  BY <1>1 DEF x, y
<1>5. y \in BasicBlock(N)
  BY <1>3 DEF y
<1>6. x \in BasicBlock(N)
  BY <1>3, <1>4, <1>5
<1> QED BY <1>1, <1>6 DEF x, y

(* A block as Connect_Function leaves it.                                  *)
Linked(N, f, p, q, t, k, n) ==
  Shape(p, Opening(f, k), FlatMap(WrapMap(N), q), Closing(f, k, n), t)

(* The three passes together: Set_Operand makes of it the block of Image.  *)
LEMMA FilledIs ==
  ASSUME NEW N, NEW f \in N, NEW blocks, NEW k, NEW p, NEW q, NEW t,
         Formed(N, blocks[k], p, q, t)
  PROVE  Filled(f, Linked(N, f, p, q, t, k, Len(blocks))) = ImageBlock(f, blocks, k)
<1> DEFINE e == Opening(f, k)
           g == FlatMap(WrapMap(N), q)
           x == Closing(f, k, Len(blocks))
<1>0. f \in Symbol(N)
  BY SymbolIs
<1>1. /\ p \in BasicBlock(N) /\ q \in BasicBlock(N) /\ t \in Instruction(N)
      /\ Each(p, Phis(N)) /\ ~IsCall(t) /\ Each(q, Ordinary(N))
      /\ blocks[k] = Then(p, Then(q, One(t))) /\ Starts(Then(q, One(t)))
  BY DEF Formed
<1>2. e \in BasicBlock(N) /\ Shut(e) /\ Filled(f, e) = Entry(f, k)
  BY OpeningType, OpeningFill
<1>3. g \in BasicBlock(N) /\ Shut(g) /\ Filled(f, g) = FlatMap(AroundMap(N, f), q)
  BY <1>0, <1>1, WrapType, BlockMap, FillWrapped
<1>4. x \in {<<>>, One(Saved)}
  BY ClosingIs
<1>5. ImageBlock(f, blocks, k) = Shape(p, Entry(f, k), FlatMap(AroundMap(N, f), q), x, t)
  BY ImageShape
<1> HIDE DEF e, g, x
<1>6. Filled(f, Shape(p, e, g, x, t)) = Shape(p, Filled(f, e), Filled(f, g), x, t)
  BY <1>0, <1>1, <1>2, <1>3, <1>4, FillShape
<1> QED BY <1>2, <1>3, <1>5, <1>6 DEF Linked, e, g, x

(* Connect_Function's insertion into the first block.                      *)
LEMMA ReadsInsert ==
  ASSUME NEW N, NEW p \in BasicBlock(N), NEW y \in BasicBlock(N),
         Each(p, Phis(N))
  PROVE  LET b == Then(p, Then(One(First), y))
             i == FirstNonPhi(b)
         IN  InsertAt(InsertAt(b, i, ReadAddr), i + 1, ReadSize)
               = Then(p, Then(Reads(One(First)), y))
<1> DEFINE d == One(First)
           z == Then(d, y)
           u == One(ReadAddr)
           v == One(ReadSize)
<1>1. d \in BasicBlock(N) /\ u \in BasicBlock(N) /\ v \in BasicBlock(N)
  BY RestType, ReadType, BlockOne DEF First
<1>2. z \in BasicBlock(N)
  BY <1>1, BlockThen
<1>3. Starts(z)
  <2>1. First.op # "phi"
    BY ConfigIs DEF First
  <2>2. Starts(d)
    BY <2>1, OneStarts
  <2> HIDE DEF d
  <2> QED BY <1>1, <2>2, StartsThen DEF BasicBlock
<1>4. ReadAddr \in Instruction(N) /\ ReadSize \in Instruction(N)
  BY ReadType
<1>5. Reads(d) = Then(u, Then(v, d))
  BY DEF Reads
<1> HIDE DEF d
<1>6. Then(Then(u, Then(v, d)), y) = Then(u, Then(v, z))
  <2>1. Then(v, d) \in BasicBlock(N)
    BY <1>1, BlockThen
  <2> HIDE DEF u, v
  <2> QED BY <1>1, <2>1, BlockAssociative
<1> HIDE DEF z
<1>7. InsertAt(InsertAt(Then(p, z), FirstNonPhi(Then(p, z)), ReadAddr),
               FirstNonPhi(Then(p, z)) + 1, ReadSize) = Then(p, Then(u, Then(v, z)))
  BY <1>2, <1>3, <1>4, InsertSecond
<1> QED BY <1>5, <1>6, <1>7 DEF d, z
-----------------------------------------------------------------------------
(* What Erase leaves of a block that is put together of parts.             *)

(* Erase works on parts one by one.                                        *)
LEMMA EraseThen ==
  ASSUME NEW N, NEW p \in BasicBlock(N), NEW q \in BasicBlock(N)
  PROVE  Erase(Then(p, q)) = Then(Erase(p), Erase(q)) /\ Erase(p) \in BasicBlock(N)
<1> DEFINE h == EraseMap(N)
<1>1. Map(h, Instruction(N), BasicBlock(N))
  BY EraseType
<1>2. Erase(p) = FlatMap(h, p) /\ Erase(q) = FlatMap(h, q)
  BY EraseIs
<1>3. Then(p, q) \in BasicBlock(N)
  BY BlockThen
<1>4. Erase(Then(p, q)) = FlatMap(h, Then(p, q))
  BY <1>3, EraseIs
<1> HIDE DEF h
<1>5. FlatMap(h, Then(p, q)) = Then(FlatMap(h, p), FlatMap(h, q))
  BY <1>1, BlockMapThen
<1>6. FlatMap(h, p) \in BasicBlock(N)
  BY <1>1, BlockMap
<1> QED BY <1>2, <1>4, <1>5, <1>6

(* A call that a pass inserts.                                             *)
Inserts(x) == IsCall(x) /\ x.callee \in Helper

(* Nothing is left of it ...                                               *)
LEMMA EraseInsert ==
  ASSUME NEW N, NEW x \in Instruction(N), Inserts(x)
  PROVE  Erase(One(x)) = <<>>
BY BlockOne, EraseIs, EraseHelper DEF Inserts

(* ... nor of nothing.                                                     *)
LEMMA EraseNone == Erase(<<>>) = <<>>
<1>1. Erase(<<>>) = FlatMap(EraseMap({}), <<>>)
  BY EmptyType, EraseIs
<1> QED BY <1>1, FlatMapNone

(* What the passes insert at the ends of a function are such calls.        *)
LEMMA InsertsAre ==
  /\ Inserts(First) /\ Inserts(Saved) /\ Inserts(ReadAddr) /\ Inserts(ReadSize)
BY ConfigIs, ReadIs DEF Inserts, First, Saved, Helper, MpuFunction

(* The reads leave no trace.                                               *)
LEMMA EraseReads ==
  ASSUME NEW N, NEW b \in BasicBlock(N) PROVE Erase(Reads(b)) = Erase(b)
<1> DEFINE u == One(ReadAddr)
           v == One(ReadSize)
           c == Then(v, b)
<1>1. u \in BasicBlock(N) /\ v \in BasicBlock(N) /\ c \in BasicBlock(N)
  BY ReadType, BlockOne, BlockThen
<1>2. Erase(u) = <<>> /\ Erase(v) = <<>>
  BY ReadType, InsertsAre, EraseInsert
<1> HIDE DEF u, v
<1>3. Erase(b) \in BasicBlock(N)
  BY EraseThen
<1>4. Then(<<>>, Erase(b)) = Erase(b)
  BY <1>3, BlockNone
<1>5. Erase(c) = Erase(b)
  BY <1>1, <1>2, <1>4, EraseThen
<1> HIDE DEF c
<1>6. Erase(Then(u, c)) = Erase(b)
  BY <1>1, <1>2, <1>4, <1>5, EraseThen
<1> QED BY <1>6 DEF Reads, u, v, c

(* What the passes put at the start and the end of a block leaves no trace *)
(* ...                                                                     *)
LEMMA EraseParts ==
  ASSUME NEW N, NEW f, NEW k, NEW n
  PROVE  Erase(Lead(k)) = <<>> /\ Erase(Opening(f, k)) = <<>> /\ Erase(Closing(f, k, n)) = <<>>
<1> DEFINE b == One(First)
           c == One(Saved)
<1>1. First \in Instruction(N) /\ Saved \in Instruction(N)
  BY RestType DEF First, Saved
<1>2. b \in BasicBlock(N) /\ Erase(b) = <<>> /\ Erase(c) = <<>>
  BY <1>1, InsertsAre, EraseInsert, BlockOne
<1> HIDE DEF b, c
<1>3. Erase(Reads(b)) = <<>>
  BY <1>2, EraseReads
<1>4. Closing(f, k, n) = <<>> \/ Closing(f, k, n) = c
  BY ClosingIs DEF c
<1>5. Erase(Lead(k)) = <<>>
  BY <1>2, EraseNone DEF Lead, b
<1>6. Erase(Opening(f, k)) = <<>>
  BY <1>2, <1>3, EraseNone DEF Opening, b
<1> QED BY <1>2, <1>4, <1>5, <1>6, EraseNone

(* ... and so a block has left what its own parts have left.               *)
LEMMA EraseShape ==
  ASSUME NEW N, NEW p \in BasicBlock(N), NEW e \in BasicBlock(N), NEW q \in BasicBlock(N),
         NEW g \in BasicBlock(N), NEW x \in BasicBlock(N), NEW t \in Instruction(N),
         Erase(e) = <<>>, Erase(x) = <<>>, Erase(g) = Erase(q)
  PROVE  Erase(Shape(p, e, g, x, t)) = Erase(Then(p, Then(q, One(t))))
<1> DEFINE d == One(t)
           y == Then(x, d)
           z == Then(g, y)
           w == Then(e, z)
           v == Then(q, d)
<1>1. /\ d \in BasicBlock(N) /\ y \in BasicBlock(N) /\ z \in BasicBlock(N)
      /\ w \in BasicBlock(N) /\ v \in BasicBlock(N)
  BY BlockOne, BlockThen
<1> HIDE DEF d
<1>2. Erase(d) \in BasicBlock(N)
  BY <1>1, EraseThen
<1>3. Then(<<>>, Erase(d)) = Erase(d)
  BY <1>2, BlockNone
<1>4. Erase(y) = Erase(d)
  BY <1>1, <1>3, EraseThen
<1>5. Erase(v) = Then(Erase(q), Erase(d)) /\ Erase(v) \in BasicBlock(N)
  BY <1>1, EraseThen
<1> HIDE DEF y, v
<1>6. Erase(z) = Erase(v)
  BY <1>1, <1>4, <1>5, EraseThen
<1> HIDE DEF z
<1>7. Then(<<>>, Erase(v)) = Erase(v)
  BY <1>5, BlockNone
<1>8. Erase(w) = Erase(v)
  BY <1>1, <1>6, <1>7, EraseThen
<1> HIDE DEF w
<1>9. Erase(Then(p, w)) = Erase(Then(p, v))
  BY <1>1, <1>8, EraseThen
<1> QED BY <1>9 DEF Shape, w, z, y, d, v
-----------------------------------------------------------------------------
(* How long a block is that is put together of parts.                      *)

(* The length of a join ...                                                *)
LEMMA ThenLen ==
  ASSUME NEW N, NEW p \in BasicBlock(N), NEW q \in BasicBlock(N)
  PROVE  Len(Then(p, q)) = Len(p) + Len(q)
BY ThenJoins DEF BasicBlock, Joins

(* ... of one instruction ...                                              *)
LEMMA OneLen == ASSUME NEW x PROVE Len(One(x)) = 1
BY DEF One

(* ... and the calls of the program in a join.                             *)
LEMMA OwnThen ==
  ASSUME NEW N, NEW p \in BasicBlock(N), NEW q \in BasicBlock(N)
  PROVE  /\ Len(OwnCalls(Then(p, q))) = Len(OwnCalls(p)) + Len(OwnCalls(q))
         /\ Len(OwnCalls(p)) \in Nat /\ Len(OwnCalls(q)) \in Nat
<1> DEFINE h == OwnMap(N)
<1>1. Map(h, Instruction(N), BasicBlock(N))
  BY OwnType
<1>2. Then(p, q) \in BasicBlock(N)
  BY BlockThen
<1>3. /\ OwnCalls(p) = FlatMap(h, p) /\ OwnCalls(q) = FlatMap(h, q)
      /\ OwnCalls(Then(p, q)) = FlatMap(h, Then(p, q))
  BY <1>2, OwnCallsIs
<1> HIDE DEF h
<1>4. FlatMap(h, Then(p, q)) = Then(FlatMap(h, p), FlatMap(h, q))
  BY <1>1, BlockMapThen
<1>5. FlatMap(h, p) \in BasicBlock(N) /\ FlatMap(h, q) \in BasicBlock(N)
  BY <1>1, BlockMap
<1>6. Len(FlatMap(h, p)) \in Nat /\ Len(FlatMap(h, q)) \in Nat
  BY <1>5, ElementType
<1> QED BY <1>3, <1>4, <1>5, <1>6, ThenLen

(* What the passes put at the start of a block is at most three            *)
(* instructions, and at its end one.                                       *)
LEMMA PartLen ==
  ASSUME NEW N, NEW f, NEW k, NEW n
  PROVE  /\ Len(Lead(k)) \in Nat /\ Len(Lead(k)) <= (IF k = 1 THEN 3 ELSE 0)
         /\ Len(Opening(f, k)) \in Nat /\ Len(Opening(f, k)) <= (IF k = 1 THEN 3 ELSE 0)
         /\ Len(Closing(f, k, n)) \in Nat /\ Len(Closing(f, k, n)) <= (IF k = n THEN 1 ELSE 0)
<1> DEFINE b == One(First)
           u == One(ReadAddr)
           v == One(ReadSize)
           c == One(Saved)
           d == Then(v, b)
<1>0. Len(<<>>) = 0
  OBVIOUS
<1>1. b \in BasicBlock(N) /\ u \in BasicBlock(N) /\ v \in BasicBlock(N)
  BY RestType, ReadType, BlockOne DEF First
<1>2. Len(b) = 1 /\ Len(u) = 1 /\ Len(v) = 1 /\ Len(c) = 1
  BY OneLen
<1> HIDE DEF b, u, v, c
<1>3. d \in BasicBlock(N) /\ Len(d) = 2
  <2>1. Len(d) = Len(v) + Len(b)
    BY <1>1, ThenLen
  <2> HIDE DEF d
  <2>2. Len(d) = 2
    BY <1>2, <2>1
  <2> QED BY <1>1, <2>2, BlockThen DEF d
<1> HIDE DEF d
<1>4. Len(Then(u, d)) = 3
  <2>1. Len(Then(u, d)) = Len(u) + Len(d)
    BY <1>1, <1>3, ThenLen
  <2> DEFINE y == Len(Then(u, d))
  <2> HIDE DEF y
  <2>2. y = 3
    BY <1>2, <1>3, <2>1 DEF y
  <2> QED BY <2>2 DEF y
<1>5. Lead(k) = (IF k = 1 THEN b ELSE <<>>)
  BY DEF Lead, b
<1>6. Opening(f, k) = (IF k = 1 THEN IF f = "main" THEN b ELSE Then(u, d) ELSE <<>>)
  BY DEF Opening, Reads, b, u, v, d
<1>7. Closing(f, k, n) = (IF k = n THEN IF f = "main" THEN <<>> ELSE c ELSE <<>>)
  BY ExitIs DEF Closing, c
<1>8. /\ Len(Lead(k)) = 0 \/ (k = 1 /\ Len(Lead(k)) = 1)
      /\ Len(Opening(f, k)) = 0 \/ (k = 1 /\ Len(Opening(f, k)) \in {1, 3})
      /\ Len(Closing(f, k, n)) = 0 \/ (k = n /\ Len(Closing(f, k, n)) = 1)
  BY <1>0, <1>2, <1>4, <1>5, <1>6, <1>7
<1> DEFINE l == Len(Lead(k))
           m == Len(Opening(f, k))
           r == Len(Closing(f, k, n))
<1> HIDE DEF l, m, r
<1>9. /\ l = 0 \/ (k = 1 /\ l = 1)
      /\ m = 0 \/ (k = 1 /\ m = 1) \/ (k = 1 /\ m = 3)
      /\ r = 0 \/ (k = n /\ r = 1)
  BY <1>8 DEF l, m, r
<1>10. l \in Nat /\ l <= (IF k = 1 THEN 3 ELSE 0)
  BY <1>9
<1>11. m \in Nat /\ m <= (IF k = 1 THEN 3 ELSE 0)
  BY <1>9
<1>12. r \in Nat /\ r <= (IF k = n THEN 1 ELSE 0)
  BY <1>9
<1> QED BY <1>10, <1>11, <1>12 DEF l, m, r

(* So a block grows by two for each call, three at the start of a function *)
(* and one at its end.                                                     *)
LEMMA ShapeLen ==
  ASSUME NEW N, NEW b, NEW p, NEW q, NEW t, NEW e \in BasicBlock(N), NEW x \in BasicBlock(N),
         Formed(N, b, p, q, t)
  PROVE  Len(Shape(p, e, FlatMap(WrapMap(N), q), x, t))
           <= Len(b) + 2 * Len(OwnCalls(b)) + Len(e) + Len(x)
<1> DEFINE d == One(t)
           g == FlatMap(WrapMap(N), q)
           y == Then(x, d)
           z == Then(g, y)
           w == Then(e, z)
           v == Then(q, d)
<1>1. p \in BasicBlock(N) /\ q \in BasicBlock(N) /\ t \in Instruction(N) /\ b = Then(p, v)
  BY DEF Formed
<1>2. d \in BasicBlock(N) /\ Len(d) = 1
  BY <1>1, BlockOne, OneLen
<1>3. g \in BasicBlock(N) /\ Len(g) = Len(q) + 2 * Len(OwnCalls(q))
  BY <1>1, WrapType, BlockMap, WrapLen
<1> HIDE DEF d, g
<1>4. y \in BasicBlock(N) /\ Len(y) = Len(x) + Len(d)
  BY <1>2, BlockThen, ThenLen
<1> HIDE DEF y
<1>5. z \in BasicBlock(N) /\ Len(z) = Len(g) + Len(y)
  BY <1>3, <1>4, BlockThen, ThenLen
<1> HIDE DEF z
<1>6. w \in BasicBlock(N) /\ Len(w) = Len(e) + Len(z)
  BY <1>5, BlockThen, ThenLen
<1> HIDE DEF w
<1>7. Len(Then(p, w)) = Len(p) + Len(w)
  BY <1>1, <1>6, ThenLen
<1>8. v \in BasicBlock(N) /\ Len(v) = Len(q) + Len(d)
      /\ Len(OwnCalls(v)) = Len(OwnCalls(q)) + Len(OwnCalls(d))
      /\ Len(OwnCalls(q)) \in Nat /\ Len(OwnCalls(d)) \in Nat
  BY <1>1, <1>2, BlockThen, ThenLen, OwnThen
<1> HIDE DEF v
<1>9. /\ Len(b) = Len(p) + Len(v)
      /\ Len(OwnCalls(b)) = Len(OwnCalls(p)) + Len(OwnCalls(v))
      /\ Len(OwnCalls(p)) \in Nat
  BY <1>1, <1>8, ThenLen, OwnThen
<1>10. Len(p) \in Nat /\ Len(q) \in Nat /\ Len(e) \in Nat /\ Len(x) \in Nat
  BY <1>1, ElementType
<1> DEFINE r == Then(p, w)
           lp == Len(p)
           lq == Len(q)
           le == Len(e)
           lx == Len(x)
           ld == Len(d)
           lg == Len(g)
           ly == Len(y)
           lz == Len(z)
           lw == Len(w)
           lv == Len(v)
           lb == Len(b)
           lr == Len(r)
           op == Len(OwnCalls(p))
           oq == Len(OwnCalls(q))
           ov == Len(OwnCalls(v))
           ob == Len(OwnCalls(b))
           od == Len(OwnCalls(d))
<1>11. /\ ld = 1 /\ lg = lq + 2 * oq /\ ly = lx + ld /\ lz = lg + ly /\ lw = le + lz
       /\ lr = lp + lw /\ lv = lq + ld /\ lb = lp + lv /\ ov = oq + od /\ ob = op + ov
  BY <1>2, <1>3, <1>4, <1>5, <1>6, <1>7, <1>8, <1>9
<1>12. /\ op \in Nat /\ oq \in Nat /\ od \in Nat
       /\ lp \in Nat /\ lq \in Nat /\ le \in Nat /\ lx \in Nat
  BY <1>8, <1>9, <1>10
<1> HIDE DEF lp, lq, le, lx, ld, lg, ly, lz, lw, lv, lb, lr, op, oq, ov, ob, od
<1>13. lr <= lb + 2 * ob + le + lx
  BY <1>11, <1>12
<1>14. r = Shape(p, e, FlatMap(WrapMap(N), q), x, t)
  BY DEF Shape, w, z, y, d, g
<1> HIDE DEF r
<1> QED BY <1>13, <1>14 DEF lr, lb, ob, le, lx
-----------------------------------------------------------------------------
(* A block that opens no region 1 before it has read what was in it.       *)
ReadsFirst(b) ==
  \A i \in 1 .. Len(b) : (IsConfig(b[i]) /\ b[i].num = 1) =>
    \E j \in 1 .. i - 2 : b[j] = ReadAddr /\ b[j + 1] = ReadSize

(* A block that begins with the reads, behind what is no configuration, is *)
(* one ...                                                                 *)
LEMMA ReadsFirstIs ==
  ASSUME NEW N, NEW p \in BasicBlock(N), NEW w \in BasicBlock(N), Silent(p)
  PROVE  ReadsFirst(Then(p, Reads(w)))
<1> DEFINE u == One(ReadAddr)
           v == One(ReadSize)
           c == Then(v, w)
           d == Then(u, c)
           b == Then(p, d)
<1>1. u \in BasicBlock(N) /\ v \in BasicBlock(N) /\ c \in BasicBlock(N) /\ d \in BasicBlock(N)
  BY ReadType, BlockOne, BlockThen
<1>2. Single(u, ReadAddr) /\ Single(v, ReadSize)
  BY ReadType, OneIs
<1>3. Joins(c, v, w) /\ Joins(d, u, c) /\ Joins(b, p, d)
  <2> HIDE DEF u, v, d, c
  <2>1. Joins(Then(v, w), v, w) /\ Joins(Then(u, c), u, c) /\ Joins(Then(p, d), p, d)
    BY <1>1, ThenJoins DEF BasicBlock
  <2> QED BY <2>1 DEF c, d
<1>4. Len(p) \in Nat /\ Len(w) \in Nat
  BY ElementType
<1> HIDE DEF b, c, d, u, v
<1>5. c[1] = ReadSize /\ Len(c) = 1 + Len(w)
  BY <1>2, <1>3 DEF Joins, Single
<1>6. d[1] = ReadAddr /\ d[2] = ReadSize /\ Len(d) = 2 + Len(w)
  <2>1. d[1] = ReadAddr /\ Len(d) = 2 + Len(w)
    BY <1>2, <1>3, <1>4, <1>5 DEF Joins, Single
  <2>2. d[1 + 1] = c[1]
    BY <1>2, <1>3, <1>4, <1>5 DEF Joins, Single
  <2> QED BY <1>5, <2>1, <2>2
<1> DEFINE n == Len(p)
<1>7. b[n + 1] = ReadAddr /\ b[n + 2] = ReadSize /\ n \in Nat
  BY <1>3, <1>4, <1>6 DEF Joins
<1>8. ~IsConfig(ReadAddr) /\ ~IsConfig(ReadSize)
  BY ReadIs
<1>9. \A i \in 1 .. n : ~IsConfig(b[i])
  BY <1>3 DEF Joins, Silent
<1> HIDE DEF n
<1>10. ASSUME NEW i \in 1 .. Len(b), IsConfig(b[i])
       PROVE  \E j \in 1 .. i - 2 : b[j] = ReadAddr /\ b[j + 1] = ReadSize
  <2>1. ~(i <= n) /\ i # n + 1 /\ i # n + 2
    BY <1>7, <1>8, <1>9, <1>10
  <2>2. n + 1 \in 1 .. i - 2 /\ n + 1 + 1 = n + 2
    <3>1. i \in Int
      OBVIOUS
    <3> QED BY <1>7, <2>1, <3>1
  <2> QED BY <1>7, <2>2
<1>11. ReadsFirst(b)
  BY <1>10 DEF ReadsFirst
<1> QED BY <1>11 DEF Reads, b, c, d, u, v

(* ... and so is the first block of a function as Connect_Function leaves  *)
(* it.                                                                     *)
LEMMA ShapeReads ==
  ASSUME NEW N, NEW f, NEW p \in BasicBlock(N), NEW q \in BasicBlock(N), NEW x \in BasicBlock(N),
         NEW t \in Instruction(N), Each(p, Phis(N)), f # "main"
  PROVE  ReadsFirst(Shape(p, Opening(f, 1), q, x, t))
<1> DEFINE a == One(First)
           u == One(ReadAddr)
           v == One(ReadSize)
           y == Then(q, Then(x, One(t)))
<1>1. /\ a \in BasicBlock(N) /\ u \in BasicBlock(N) /\ v \in BasicBlock(N)
      /\ y \in BasicBlock(N)
  BY RestType, ReadType, BlockOne, BlockThen DEF First
<1>2. Opening(f, 1) = Then(u, Then(v, a))
  BY DEF Opening, Reads
<1> HIDE DEF a, u, v, y
<1>3. Then(v, a) \in BasicBlock(N) /\ Then(a, y) \in BasicBlock(N)
  BY <1>1, BlockThen
<1>4. Then(Then(u, Then(v, a)), y) = Then(u, Then(Then(v, a), y))
  BY <1>1, <1>3, BlockAssociative
<1>5. Then(Then(v, a), y) = Then(v, Then(a, y))
  BY <1>1, BlockAssociative
<1>6. ReadsFirst(Then(p, Reads(Then(a, y))))
  BY <1>3, PhiSilent, ReadsFirstIs
<1> QED BY <1>2, <1>4, <1>5, <1>6 DEF Shape, Reads, y, u, v
-----------------------------------------------------------------------------
(* Two blocks that differ at most in the regions that are opened.          *)
KinAt(c, b, i) ==
  c[i] = b[i] \/ (IsConfig(c[i]) /\ IsConfig(b[i]) /\ c[i].num = b[i].num)

Kin(c, b) == Len(c) = Len(b) /\ \A i \in 1 .. Len(b) : KinAt(c, b, i)

(* Erase leaves the same of both ...                                       *)
LEMMA KinErase ==
  ASSUME NEW N, NEW b \in BasicBlock(N), NEW c \in BasicBlock(N), Kin(c, b)
  PROVE  Erase(c) = Erase(b)
<1> DEFINE h == EraseMap(N)
<1>1. Erase(c) = FlatMap(h, c) /\ Erase(b) = FlatMap(h, b)
  BY EraseIs
<1>2. ASSUME NEW x \in Instruction(N), IsConfig(x) PROVE h[x] = <<>>
  <2>1. IsCall(x) /\ x.callee \in Helper
    BY <1>2 DEF IsConfig, Helper, MpuFunction
  <2> QED BY <2>1, ErasePiece
<1>3. Map(h, Instruction(N), BasicBlock(N))
  BY EraseType
<1> HIDE DEF h
<1>4. ASSUME NEW i \in 1 .. Len(c) PROVE h[c[i]] = h[b[i]]
  <2>1. c[i] \in Instruction(N) /\ b[i] \in Instruction(N) /\ KinAt(c, b, i)
    BY ElementType DEF Kin
  <2> QED BY <1>2, <2>1 DEF KinAt
<1>5. SamePieces(h, c, h, b)
  BY <1>4 DEF SamePieces, Kin
<1>6. FlatMap(h, c) = FlatMap(h, b)
  BY <1>3, <1>5, FlatMapSame DEF BasicBlock
<1> QED BY <1>1, <1>6

(* ... and both read first, or neither does.                               *)
LEMMA KinReads ==
  ASSUME NEW N, NEW b \in BasicBlock(N), NEW c \in BasicBlock(N), Kin(c, b), ReadsFirst(b)
  PROVE  ReadsFirst(c)
<1>0. Len(b) \in Nat /\ Len(c) = Len(b)
  BY ElementType DEF Kin
<1>1. ASSUME NEW i \in 1 .. Len(c), IsConfig(c[i]), c[i].num = 1
      PROVE  \E j \in 1 .. i - 2 : c[j] = ReadAddr /\ c[j + 1] = ReadSize
  <2>1. IsConfig(b[i]) /\ b[i].num = 1
    BY <1>1 DEF Kin, KinAt
  <2>2. PICK j \in 1 .. i - 2 : b[j] = ReadAddr /\ b[j + 1] = ReadSize
    BY <1>0, <2>1 DEF ReadsFirst
  <2>3. j \in 1 .. Len(b) /\ j + 1 \in 1 .. Len(b)
    BY <1>0
  <2>4. KinAt(c, b, j) /\ KinAt(c, b, j + 1)
    BY <2>3 DEF Kin
  <2>5. ~IsConfig(ReadAddr) /\ ~IsConfig(ReadSize)
    BY ReadIs
  <2>6. c[j] = ReadAddr
    BY <2>2, <2>4, <2>5 DEF KinAt
  <2>7. c[j + 1] = ReadSize
    BY <2>2, <2>4, <2>5 DEF KinAt
  <2> QED BY <2>6, <2>7
<1> QED BY <1>1 DEF ReadsFirst

(* Set_Operand's blocks are of this kind.                                  *)
LEMMA FillKin ==
  ASSUME NEW N, NEW f, NEW b \in BasicBlock(N), NEW i \in 1 .. Len(b)
  PROVE  FillAt(f, b, i) = b[i] \/ (IsConfig(FillAt(f, b, i)) /\ IsConfig(b[i])
                                    /\ FillAt(f, b, i).num = b[i].num)
<1> DEFINE x == b[i]
<1>1. x \in Instruction(N)
  BY ElementType
<1> HIDE DEF x
<1>2. ASSUME NEW r PROVE IsConfig(x) => IsConfig(Opened(x, r)) /\ Opened(x, r).num = x.num
  BY <1>1 DEF Opened, Instruction, IsConfig, IsCall
<1>3. FillAt(f, b, i) = x \/ \E r : FillAt(f, b, i) = Opened(x, r) /\ IsConfig(x)
  BY DEF FillAt, x
<1> QED BY <1>2, <1>3 DEF x
-----------------------------------------------------------------------------
(* Blocks in which what awaits its region stands before a call of a        *)
(* function of the program, or before something that is no call.           *)
Target(N) == {x \in Instruction(N) : IsCall(x) => x.callee \in N \ Helper}

AimedAt(N, b, i) == Awaits(b[i]) => i + 1 \in 1 .. Len(b) /\ b[i + 1] \in Target(N)

Aimed(N) == {b \in BasicBlock(N) : \A i \in 1 .. Len(b) : AimedAt(N, b, i)}

(* A join of such blocks is one.                                           *)
LEMMA AimedThen ==
  ASSUME NEW N, NEW p \in Aimed(N), NEW q \in Aimed(N)
  PROVE  Then(p, q) \in Aimed(N)
<1> DEFINE b == Then(p, q)
<1>0. p \in BasicBlock(N) /\ q \in BasicBlock(N)
  BY DEF Aimed
<1>1. b \in BasicBlock(N) /\ Joins(b, p, q)
  BY <1>0, ThenJoins DEF BasicBlock
<1> HIDE DEF b
<1>2. Len(p) \in Nat /\ Len(q) \in Nat
  BY <1>0, ElementType
<1>3. Len(b) = Len(p) + Len(q)
  BY <1>1 DEF Joins
<1>4. ASSUME NEW i \in 1 .. Len(p) PROVE AimedAt(N, b, i)
  <2>1. AimedAt(N, p, i)
    BY DEF Aimed
  <2>2. \A j \in 1 .. Len(p) : b[j] = p[j] /\ j \in 1 .. Len(b)
    BY <1>1, <1>2, <1>3 DEF Joins
  <2> QED BY <2>1, <2>2 DEF AimedAt
<1>5. ASSUME NEW i \in 1 .. Len(q) PROVE AimedAt(N, b, Len(p) + i)
  <2> DEFINE j == Len(p) + i
  <2>1. AimedAt(N, q, i)
    BY DEF Aimed
  <2>2. \A h \in 1 .. Len(q) : b[Len(p) + h] = q[h] /\ Len(p) + h \in 1 .. Len(b)
    BY <1>1, <1>2, <1>3 DEF Joins
  <2>3. b[j] = q[i]
    BY <2>2
  <2>4. ASSUME i + 1 \in 1 .. Len(q)
        PROVE  j + 1 \in 1 .. Len(b) /\ b[j + 1] = q[i + 1]
    <3>1. j + 1 = Len(p) + (i + 1)
      BY <1>2
    <3> QED BY <2>2, <2>4, <3>1
  <2> HIDE DEF j
  <2>5. AimedAt(N, b, j)
    BY <2>1, <2>3, <2>4, Zenon DEF AimedAt
  <2> QED BY <2>5 DEF j
<1>6. ASSUME NEW i \in 1 .. Len(b) PROVE AimedAt(N, b, i)
  <2>1. CASE i \in 1 .. Len(p)
    BY <1>4, <2>1
  <2>2. CASE i \notin 1 .. Len(p)
    <3>1. i - Len(p) \in 1 .. Len(q) /\ Len(p) + (i - Len(p)) = i
      BY <1>2, <1>3, <2>2
    <3> QED BY <1>5, <3>1
  <2> QED BY <2>1, <2>2
<1> QED BY <1>1, <1>6 DEF Aimed, b

(* A block without configurations of region 2 is one ...                   *)
LEMMA AimedPlain ==
  ASSUME NEW N, NEW b \in BasicBlock(N), \A i \in 1 .. Len(b) : ~Awaits(b[i])
  PROVE  b \in Aimed(N)
BY DEF Aimed, AimedAt

(* ... as is one instruction ...                                           *)
LEMMA AimedOne ==
  ASSUME NEW N, NEW x \in Instruction(N), ~Awaits(x) PROVE One(x) \in Aimed(N)
<1> DEFINE d == One(x)
<1>1. d \in BasicBlock(N) /\ Single(d, x)
  BY OneIs DEF BasicBlock
<1> HIDE DEF d
<1>2. \A i \in 1 .. Len(d) : d[i] = x
  BY <1>1 DEF Single
<1>3. d \in Aimed(N)
  BY <1>1, <1>2, AimedPlain
<1> QED BY <1>3 DEF d

(* ... and a block without any configuration.                              *)
LEMMA AimedSilent ==
  ASSUME NEW N, NEW b \in BasicBlock(N), Silent(b) PROVE b \in Aimed(N)
BY AimedPlain DEF Silent, Awaits

(* Own calls whose callee has a name.                                      *)
Bound(N) == {x \in Instruction(N) : IsCall(x) => x.callee # "pointer"}

(* A placeholder before a call of a function is before one that has a name *)
(* ...                                                                     *)
LEMMA AimedTriple ==
  ASSUME NEW N, NEW x \in Ordinary(N), x \in Bound(N), IsOwnCall(x)
  PROVE  Triple(MpuConfig("rest", 2), x, MpuConfig("rest", 1)) \in Aimed(N)
<1> DEFINE y == MpuConfig("rest", 2)
           z == MpuConfig("rest", 1)
           b == Triple(y, x, z)
<1>0. x \in Instruction(N) /\ IsCall(x) /\ ~IsConfig(x)
  BY OwnIs DEF Ordinary
<1>1. x \in Target(N)
  BY <1>0 DEF Ordinary, Bound, Target
<1>2. y \in Instruction(N) /\ z \in Instruction(N)
  BY RestType
<1>3. ~Awaits(z) /\ ~Awaits(x)
  <2>1. z.num = 1
    BY ConfigIs
  <2> HIDE DEF z
  <2> QED BY <1>0, <2>1 DEF Awaits
<1>4. b \in BasicBlock(N) /\ Cell(b, y, x, z)
  BY <1>0, <1>2, TripleCell DEF BasicBlock
<1> HIDE DEF b, y, z
<1>5. AimedAt(N, b, 1) /\ AimedAt(N, b, 2) /\ AimedAt(N, b, 3)
  BY <1>1, <1>3, <1>4 DEF AimedAt, Cell
<1>6. \A i \in 1 .. 3 : i = 1 \/ i = 2 \/ i = 3
  OBVIOUS
<1>7. b \in Aimed(N)
  BY <1>4, <1>5, <1>6 DEF Aimed, Cell
<1> QED BY <1>7 DEF b, y, z

(* ... so Insert_Function makes such blocks of those without calls through *)
(* pointers.                                                               *)
LEMMA AimedWrap ==
  ASSUME NEW N, NEW b \in BasicBlock(N), Each(b, Ordinary(N)), Each(b, Bound(N))
  PROVE  FlatMap(WrapMap(N), b) \in Aimed(N)
<1> DEFINE a == WrapMap(N)
           U == Ordinary(N) \cap Bound(N)
<1>1. ClosedIn(Aimed(N), BasicBlock(N))
  <2>1. <<>> \in Aimed(N)
    BY EmptyType, AimedPlain
  <2>2. Aimed(N) \subseteq BasicBlock(N)
    BY DEF Aimed
  <2> QED BY <2>1, <2>2, AimedThen DEF ClosedIn
<1>2. ASSUME NEW x \in Instruction(N), x \in U PROVE a[x] \in Aimed(N)
  <2>1. CASE IsOwnCall(x)
    BY <1>2, <2>1, WrapIs, AimedTriple
  <2>2. CASE ~IsOwnCall(x)
    <3>1. ~Awaits(x)
      BY <1>2 DEF Ordinary, Awaits, IsConfig, Helper, MpuFunction
    <3> QED BY <2>2, <3>1, WrapIs, AimedOne
  <2> QED BY <2>1, <2>2
<1>3. Map(a, Instruction(N), BasicBlock(N))
  BY WrapType
<1>4. Each(b, U)
  BY DEF Each
<1> HIDE DEF a, U
<1>5. FlatMap(a, b) \in Aimed(N)
  BY <1>1, <1>2, <1>3, <1>4, FlatMapInto, InstrClosed DEF BasicBlock
<1> QED BY <1>5 DEF a

(* The end of a block is one: what follows the saved region is no call.    *)
LEMMA AimedEnd ==
  ASSUME NEW N, NEW t \in Ordinary(N), ~IsCall(t), NEW f, NEW k, NEW n
  PROVE  Then(Closing(f, k, n), One(t)) \in Aimed(N)
<1> DEFINE d == One(t)
           s == Saved
           x == One(s)
           c == Closing(f, k, n)
           b == Then(x, d)
<1>0. t \in Instruction(N) /\ ~Awaits(t) /\ t \in Target(N)
  BY DEF Ordinary, Awaits, IsConfig, Target
<1>1. d \in Aimed(N) /\ d \in BasicBlock(N) /\ Single(d, t)
  <2>1. d \in Aimed(N)
    BY <1>0, AimedOne
  <2>2. d \in BasicBlock(N) /\ Single(d, t)
    BY <1>0, OneIs DEF BasicBlock
  <2> QED BY <2>1, <2>2
<1>2. x \in BasicBlock(N) /\ Single(x, s)
  <2>1. s \in Instruction(N)
    BY RestType DEF Saved
  <2> QED BY <2>1, OneIs DEF BasicBlock
<1>3. c = <<>> \/ c = x
  BY ClosingIs
<1> HIDE DEF d, x, s, c
<1>4. b \in BasicBlock(N) /\ Joins(b, x, d)
  BY <1>1, <1>2, ThenJoins DEF BasicBlock
<1>5. Then(<<>>, d) = d
  BY <1>1, BlockNone
<1> HIDE DEF b
<1>6. Len(b) = 2 /\ b[1] = s /\ b[2] = t
  <2>1. Len(b) = 2 /\ b[1] = s
    BY <1>1, <1>2, <1>4 DEF Joins, Single
  <2>2. b[1 + 1] = t
    BY <1>1, <1>2, <1>4 DEF Joins, Single
  <2> QED BY <2>1, <2>2
<1>7. AimedAt(N, b, 1) /\ AimedAt(N, b, 2)
  BY <1>0, <1>6 DEF AimedAt
<1>8. \A i \in 1 .. 2 : i = 1 \/ i = 2
  OBVIOUS
<1>9. b \in Aimed(N)
  BY <1>4, <1>6, <1>7, <1>8 DEF Aimed
<1> QED BY <1>1, <1>3, <1>5, <1>9 DEF b, c, d

(* The start of a function has no configuration of region 2.               *)
LEMMA AimedOpening ==
  ASSUME NEW N, NEW f, NEW k PROVE Opening(f, k) \in Aimed(N)
<1> DEFINE a == One(First)
           u == One(ReadAddr)
           v == One(ReadSize)
<1>1. a \in Aimed(N)
  <2>1. First \in Instruction(N) /\ ~Awaits(First)
    BY RestType, ConfigIs DEF First, Awaits
  <2> QED BY <2>1, AimedOne
<1>2. u \in Aimed(N) /\ v \in Aimed(N)
  <2>1. /\ ReadAddr \in Instruction(N) /\ ~Awaits(ReadAddr)
        /\ ReadSize \in Instruction(N) /\ ~Awaits(ReadSize)
    BY ReadType, ReadIs DEF Awaits
  <2> QED BY <2>1, AimedOne
<1>3. <<>> \in Aimed(N)
  BY EmptyType, AimedPlain
<1> HIDE DEF a, u, v
<1>4. Then(v, a) \in Aimed(N)
  BY <1>1, <1>2, AimedThen
<1>5. Then(u, Then(v, a)) \in Aimed(N)
  BY <1>2, <1>4, AimedThen
<1> QED BY <1>1, <1>3, <1>5 DEF Opening, Reads, a, u, v

(* Before Set_Operand runs, every region 2 that it will look up is one of  *)
(* a function it has in its table.                                         *)
LEMMA AimedLinked ==
  ASSUME NEW N, NEW f, NEW b, NEW p, NEW q, NEW t, NEW k, NEW n,
         Formed(N, b, p, q, t), Each(q, Bound(N))
  PROVE  Linked(N, f, p, q, t, k, n) \in Aimed(N)
<1> DEFINE e == Opening(f, k)
           g == FlatMap(WrapMap(N), q)
           y == Then(Closing(f, k, n), One(t))
<1>1. /\ p \in BasicBlock(N) /\ q \in BasicBlock(N) /\ t \in Ordinary(N)
      /\ Each(p, Phis(N)) /\ ~IsCall(t) /\ Each(q, Ordinary(N))
  BY DEF Formed
<1>2. p \in Aimed(N)
  BY <1>1, PhiSilent, AimedSilent
<1>3. e \in Aimed(N)
  BY AimedOpening
<1>4. g \in Aimed(N)
  BY <1>1, AimedWrap
<1>5. y \in Aimed(N)
  BY <1>1, AimedEnd
<1> HIDE DEF e, g, y
<1>6. Then(g, y) \in Aimed(N)
  BY <1>4, <1>5, AimedThen
<1>7. Then(e, Then(g, y)) \in Aimed(N)
  BY <1>3, <1>6, AimedThen
<1>8. Then(p, Then(e, Then(g, y))) \in Aimed(N)
  BY <1>2, <1>7, AimedThen
<1> QED BY <1>8 DEF Linked, Shape, e, g, y

(* The code at the start of a function is guarded ...                      *)
LEMMA GoodEntry ==
  ASSUME NEW N, NEW f \in N, NEW k, N \cap Placeholder = {}
  PROVE  Entry(f, k) \in Good(N, f)
<1> DEFINE x == MpuConfig(f, 1)
           a == One(x)
           u == One(ReadAddr)
           v == One(ReadSize)
<1>1. a \in Good(N, f)
  <2>1. x \in Instruction(N)
    BY ConfigType, SymbolIs, 1 \in 0 .. 2
  <2>2. x.region \notin Placeholder /\ ~IsOwnCall(x)
    BY ConfigIs
  <2> HIDE DEF x
  <2> QED BY <2>1, <2>2, GoodOne
<1>2. u \in Good(N, f) /\ v \in Good(N, f)
  <2>1. /\ ReadAddr \in Instruction(N) /\ ReadAddr.region \notin Placeholder
        /\ ~IsOwnCall(ReadAddr) /\ ReadSize \in Instruction(N)
        /\ ReadSize.region \notin Placeholder /\ ~IsOwnCall(ReadSize)
    BY ReadType, ReadIs DEF Placeholder
  <2> QED BY <2>1, GoodOne
<1>3. <<>> \in Good(N, f)
  BY EmptyType, GoodPlain
<1>4. EntryCode(f) = IF f = "main" THEN a ELSE Then(u, Then(v, a))
  <2>1. CASE f = "main"
    <3>1. EntryCode(f) = Then(<<>>, a)
      BY <2>1, Zenon DEF EntryCode, Then, One
    <3>2. a \in BasicBlock(N)
      BY <1>1 DEF Good
    <3> HIDE DEF a
    <3>3. EntryCode(f) = a
      BY <3>1, <3>2, BlockNone
    <3> QED BY <2>1, <3>3
  <2>2. CASE f # "main"
    <3>1. EntryCode(f) = Reads(a)
      BY <2>2, EntryReads
    <3> QED BY <2>2, <3>1 DEF Reads
  <2> QED BY <2>1, <2>2
<1> HIDE DEF a, u, v
<1>5. Then(v, a) \in Good(N, f)
  BY <1>1, <1>2, GoodThen
<1>6. Then(u, Then(v, a)) \in Good(N, f)
  BY <1>2, <1>5, GoodThen
<1> QED BY <1>1, <1>3, <1>4, <1>6 DEF Entry

(* ... as is that at its end ...                                           *)
LEMMA GoodClosing ==
  ASSUME NEW N, NEW f, NEW g, NEW k, NEW n PROVE Closing(g, k, n) \in Good(N, f)
<1> DEFINE x == One(Saved)
           c == Closing(g, k, n)
<1>1. x \in Good(N, f)
  <2>1. Saved \in Instruction(N)
    BY RestType DEF Saved
  <2>2. Saved.region \notin Placeholder /\ ~IsOwnCall(Saved)
    BY ConfigIs DEF Saved, Placeholder
  <2> QED BY <2>1, <2>2, GoodOne
<1>2. <<>> \in Good(N, f)
  BY EmptyType, GoodPlain
<1>3. c = <<>> \/ c = x
  BY ClosingIs
<1> HIDE DEF c, x
<1>4. c \in Good(N, f)
  BY <1>1, <1>2, <1>3
<1> QED BY <1>4 DEF c

(* ... and a block of a program without calls.                             *)
LEMMA GoodOrdinary ==
  ASSUME NEW N, NEW f, NEW b \in BasicBlock(N), Each(b, Ordinary(N)),
         \A i \in 1 .. Len(b) : ~IsCall(b[i])
  PROVE  b \in Good(N, f)
<1>1. \A i \in 1 .. Len(b) : b[i].region \notin Placeholder /\ ~IsOwnCall(b[i])
  BY DEF Each, Ordinary, Placeholder, IsOwnCall
<1> QED BY <1>1, GoodPlain

(* Image's blocks are guarded, whatever the shape of the module.           *)
LEMMA GoodImage ==
  ASSUME NEW N, NEW f \in N, NEW blocks, NEW k, NEW p, NEW q, NEW t,
         Formed(N, blocks[k], p, q, t), N \cap Placeholder = {}, Each(p, Ordinary(N))
  PROVE  ImageBlock(f, blocks, k) \in Good(N, f)
<1> DEFINE e == Entry(f, k)
           g == FlatMap(AroundMap(N, f), q)
           x == Closing(f, k, Len(blocks))
           d == One(t)
<1>1. ImageBlock(f, blocks, k) = Shape(p, e, g, x, t)
  BY ImageShape
<1>2. /\ p \in BasicBlock(N) /\ q \in BasicBlock(N) /\ t \in Ordinary(N)
      /\ Each(p, Phis(N)) /\ ~IsCall(t) /\ Each(q, Ordinary(N)) /\ t \in Instruction(N)
  BY DEF Formed
<1>3. p \in Good(N, f)
  <2>1. \A i \in 1 .. Len(p) : ~IsCall(p[i])
    BY <1>2 DEF Each, Phis, IsCall
  <2> QED BY <1>2, <2>1, GoodOrdinary
<1>4. e \in Good(N, f)
  BY GoodEntry
<1>5. g \in Good(N, f)
  BY <1>2, GoodAround
<1>6. x \in Good(N, f)
  BY GoodClosing
<1>7. d \in Good(N, f)
  <2>1. t.region \notin Placeholder /\ ~IsOwnCall(t)
    BY <1>2 DEF Ordinary, Placeholder, IsOwnCall
  <2> QED BY <1>2, <2>1, GoodOne
<1> HIDE DEF e, g, x, d
<1>8. Then(x, d) \in Good(N, f)
  BY <1>6, <1>7, GoodThen
<1>9. Then(g, Then(x, d)) \in Good(N, f)
  BY <1>5, <1>8, GoodThen
<1>10. Then(e, Then(g, Then(x, d))) \in Good(N, f)
  BY <1>4, <1>9, GoodThen
<1>11. Then(p, Then(e, Then(g, Then(x, d)))) \in Good(N, f)
  BY <1>3, <1>10, GoodThen
<1> QED BY <1>1, <1>11 DEF Shape, d

(* What holds of everything in a block with the configurations around its  *)
(* calls holds of everything that was in the block before.                 *)
LEMMA EachWrap ==
  ASSUME NEW N, NEW T, NEW b \in BasicBlock(N), Each(FlatMap(WrapMap(N), b), T)
  PROVE  Each(b, T)
<1> DEFINE w == WrapMap(N)
<1>1. Map(w, Instruction(N), BasicBlock(N))
  BY WrapType
<1>2. ASSUME NEW y \in Instruction(N) PROVE Has(w[y], y)
  <2>1. CASE IsOwnCall(y)
    <3> DEFINE r == MpuConfig("rest", 2)
               s == MpuConfig("rest", 1)
               c == Triple(r, y, s)
    <3>1. w[y] = c
      BY <2>1, WrapIs
    <3>2. r \in Instruction(N) /\ s \in Instruction(N)
      BY RestType
    <3>3. Cell(c, r, y, s)
      BY <3>2, TripleCell
    <3> HIDE DEF c, r, s
    <3>4. Has(c, y)
      BY <3>3, 2 \in 1 .. 3 DEF Has, Cell
    <3> QED BY <3>1, <3>4
  <2>2. CASE ~IsOwnCall(y)
    <3> DEFINE d == One(y)
    <3>1. w[y] = d
      BY <2>2, WrapIs
    <3>2. Single(d, y)
      BY OneIs
    <3> HIDE DEF d
    <3>3. Has(d, y)
      BY <3>2, 1 \in 1 .. 1 DEF Has, Single
    <3> QED BY <3>1, <3>3
  <2> QED BY <2>1, <2>2
<1> HIDE DEF w
<1>3. ASSUME NEW i \in 1 .. Len(b) PROVE b[i] \in T
  <2> DEFINE y == b[i]
  <2>1. y \in Instruction(N) /\ Has(b, y)
    BY ElementType DEF Has
  <2> HIDE DEF y
  <2>2. Has(w[y], y)
    BY <1>2, <2>1
  <2>3. Has(FlatMap(w, b), y)
    BY <1>1, <2>1, <2>2, FlatMapHas DEF BasicBlock
  <2>4. PICK j \in 1 .. Len(FlatMap(w, b)) : FlatMap(w, b)[j] = y
    BY <2>3 DEF Has
  <2>5. y \in T
    BY <2>4 DEF Each, w
  <2> QED BY <2>5 DEF y
<1> QED BY <1>3 DEF Each

(* ThenEach for blocks ...                                                 *)
LEMMA BlockEach ==
  ASSUME NEW N, NEW T, NEW p \in BasicBlock(N), NEW q \in BasicBlock(N)
  PROVE  Each(Then(p, q), T) <=> Each(p, T) /\ Each(q, T)
BY ThenEach DEF BasicBlock

(* ... and for a block's three parts.                                      *)
LEMMA FormedEach ==
  ASSUME NEW N, NEW T, NEW b, NEW p, NEW q, NEW t, Formed(N, b, p, q, t)
  PROVE  Each(b, T) <=> Each(p, T) /\ Each(q, T) /\ t \in T
<1> DEFINE d == One(t)
           c == Then(q, d)
<1>1. /\ p \in BasicBlock(N) /\ q \in BasicBlock(N) /\ t \in Instruction(N)
      /\ d \in BasicBlock(N) /\ c \in BasicBlock(N) /\ b = Then(p, c)
  BY BlockOne, BlockThen DEF Formed
<1>2. Each(d, T) <=> t \in T
  BY <1>1, OneEach
<1> HIDE DEF d
<1>3. Each(c, T) <=> Each(q, T) /\ Each(d, T)
  BY <1>1, BlockEach
<1> HIDE DEF c
<1>4. Each(Then(p, c), T) <=> Each(p, T) /\ Each(c, T)
  BY <1>1, BlockEach
<1> QED BY <1>1, <1>2, <1>3, <1>4

(* A block is bound once the block with the insertions is.                 *)
LEMMA InsertedBound ==
  ASSUME NEW N, NEW b, NEW p, NEW q, NEW t, NEW k, Formed(N, b, p, q, t),
         Each(FlatMap(WrapMap(N), Begun(b, k)), Bound(N))
  PROVE  Each(b, Bound(N))
<1> DEFINE c == Begun(b, k)
           d == One(t)
           e == Lead(k)
<1>1. /\ p \in BasicBlock(N) /\ q \in BasicBlock(N) /\ t \in Instruction(N)
      /\ d \in BasicBlock(N) /\ e \in BasicBlock(N)
      /\ Then(q, d) \in BasicBlock(N) /\ Then(e, Then(q, d)) \in BasicBlock(N)
  BY BlockOne, BlockThen, LeadType DEF Formed
<1>2. c = Then(p, Then(e, Then(q, d)))
  BY BegunIs
<1> HIDE DEF c, d, e
<1>3. c \in BasicBlock(N)
  BY <1>1, <1>2, BlockThen
<1>4. Each(c, Bound(N))
  BY <1>3, EachWrap DEF c
<1>5. Each(p, Bound(N)) /\ Each(Then(e, Then(q, d)), Bound(N))
  BY <1>1, <1>2, <1>4, BlockEach
<1>6. Each(Then(q, d), Bound(N))
  BY <1>1, <1>5, BlockEach
<1>7. Each(q, Bound(N)) /\ Each(d, Bound(N))
  BY <1>1, <1>6, BlockEach
<1>8. t \in Bound(N)
  BY <1>1, <1>7, OneEach DEF d
<1> QED BY <1>5, <1>7, <1>8, FormedEach

(* The functions of mpu_configure.c call nothing and stay as they are.     *)
Quiet(b) == \A i \in 1 .. Len(b) : ~IsCall(b[i])

(* So they have nothing to fill in, look up or guard.                      *)
LEMMA QuietBlock ==
  ASSUME NEW N, NEW f \in Symbol(N), NEW b \in BasicBlock(N), Each(b, Ordinary(N)), Quiet(b)
  PROVE  Filled(f, b) = b /\ b \in Aimed(N) /\ b \in Good(N, f) /\ Each(b, Bound(N))
<1>1. Silent(b)
  BY DEF Quiet, Silent, IsConfig
<1>2. Each(b, Bound(N))
  BY DEF Quiet, Each, Bound, Ordinary
<1> QED BY <1>1, <1>2, FillSilent, AimedSilent, GoodOrdinary DEF Quiet
=============================================================================
