----------------------- MODULE InstrumentedRunProofs ------------------------
(***************************************************************************)
(* That the code the passes make follows the protocol of CallGuard, for    *)
(* every program they handle and every path through it, and what that says *)
(* of the program.                                                         *)
(*                                                                         *)
(* The steps of CallGuard are tied to the order in which the inserted      *)
(* calls stand in a block. So the first part shows that every block of     *)
(* Code is a chain: each instruction is followed by one that the order     *)
(* allows, from the first to the terminator, wherever the calls of the     *)
(* program's own stand in it. The second part follows a frame along such a *)
(* chain. IInv says that every frame of the stack is at an instruction and *)
(* that a frame in front of a call has room above it, since CallGuard      *)
(* bounds the stack where the callee is configured, an instruction         *)
(* earlier.                                                                *)
(***************************************************************************)
EXTENDS InstrumentedRun, ImageProofs

-----------------------------------------------------------------------------
(* Sequences in which only certain elements stand behind one another.      *)

(* R orders the elements of b: each stands in it with the one behind it.   *)
Chain(R, b) == \A i \in 1 .. Len(b) : i < Len(b) => <<b[i], b[i + 1]>> \in R

(* A join of two chains is one when they meet in R.                        *)
LEMMA ChainThen ==
  ASSUME NEW S, NEW R, NEW p \in Seq(S), NEW q \in Seq(S), Chain(R, p), Chain(R, q),
         Len(p) # 0 /\ Len(q) # 0 => <<p[Len(p)], q[1]>> \in R
  PROVE  Chain(R, Then(p, q))
<1> DEFINE b == Then(p, q)
           lp == Len(p)
           lq == Len(q)
<1>1. Joins(b, p, q)
  BY ThenJoins
<1>2. lp \in Nat /\ lq \in Nat /\ Len(b) = lp + lq
  BY <1>1 DEF Joins
<1>3. /\ \A i \in 1 .. lp : b[i] = p[i]
      /\ \A i \in 1 .. lq : b[lp + i] = q[i]
  BY <1>1 DEF Joins
<1>4. /\ \A i \in 1 .. lp : i < lp => <<p[i], p[i + 1]>> \in R
      /\ \A i \in 1 .. lq : i < lq => <<q[i], q[i + 1]>> \in R
      /\ (lp # 0 /\ lq # 0) => <<p[lp], q[1]>> \in R
  BY DEF Chain
<1> HIDE DEF b, lp, lq
<1>5. ASSUME NEW i \in 1 .. lp + lq, i < lp + lq
      PROVE  <<b[i], b[i + 1]>> \in R
  <2>1. CASE i < lp
    <3>1. i \in 1 .. lp /\ i + 1 \in 1 .. lp
      BY <1>2, <2>1
    <3> QED BY <1>3, <1>4, <2>1, <3>1
  <2>2. CASE i = lp
    <3>1. lp \in 1 .. lp /\ 1 \in 1 .. lq /\ lp # 0 /\ lq # 0
      BY <1>2, <2>2, <1>5
    <3>2. b[lp + 1] = q[1] /\ b[lp] = p[lp]
      BY <1>3, <3>1
    <3> QED BY <1>4, <2>2, <3>1, <3>2
  <2>3. CASE i > lp
    <3> DEFINE j == i - lp
    <3>1. j \in 1 .. lq /\ j < lq /\ j + 1 \in 1 .. lq /\ i = lp + j /\ i + 1 = lp + (j + 1)
      BY <1>2, <2>3, <1>5
    <3> HIDE DEF j
    <3>2. b[i] = q[j] /\ b[i + 1] = q[j + 1]
      BY <1>3, <3>1
    <3> QED BY <1>4, <3>1, <3>2
  <2> QED BY <2>1, <2>2, <2>3, <1>2
<1> QED BY <1>2, <1>5 DEF Chain, b

(* One element is a chain.                                                 *)
LEMMA ChainOne == ASSUME NEW R, NEW x PROVE Chain(R, One(x))
BY DEF Chain, One

(* Chains that begin in A ...                                              *)
Behind(S, R, A) == {b \in Seq(S) : Chain(R, b) /\ Len(b) # 0 /\ b[1] \in A}

(* ... and those that may stand in front of one, which may be empty.       *)
Ahead(S, R, A, E) ==
  {b \in Seq(S) : Chain(R, b) /\ (Len(b) # 0 => b[1] \in A /\ b[Len(b)] \in E)}

(* They can be joined ...                                                  *)
LEMMA AheadBehind ==
  ASSUME NEW S, NEW R, NEW A, NEW E, E \X A \subseteq R,
         NEW p \in Ahead(S, R, A, E), NEW q \in Behind(S, R, A)
  PROVE  Then(p, q) \in Behind(S, R, A)
<1> DEFINE b == Then(p, q)
<1>0. p \in Seq(S) /\ q \in Seq(S) /\ Len(p) \in Nat /\ Len(q) \in Nat \ {0}
  BY DEF Ahead, Behind
<1>1. b \in Seq(S) /\ Joins(b, p, q)
  BY <1>0, ThenJoins
<1>2. Len(p) # 0 => <<p[Len(p)], q[1]>> \in R
  BY DEF Ahead, Behind
<1>3. Chain(R, b)
  BY <1>0, <1>2, ChainThen DEF Ahead, Behind
<1> HIDE DEF b
<1>4. Len(b) = Len(p) + Len(q)
  BY <1>1 DEF Joins
<1>5. b[1] \in A
  <2>1. CASE Len(p) = 0
    <3>1. 1 \in 1 .. Len(q) /\ 0 + 1 = 1
      BY <1>0
    <3>2. b[Len(p) + 1] = q[1]
      BY <1>1, <3>1 DEF Joins
    <3> QED BY <2>1, <3>1, <3>2 DEF Behind
  <2>2. CASE Len(p) # 0
    <3>1. 1 \in 1 .. Len(p)
      BY <1>0, <2>2
    <3>2. b[1] = p[1]
      BY <1>1, <3>1 DEF Joins
    <3> QED BY <2>2, <3>2 DEF Ahead
  <2> QED BY <2>1, <2>2
<1>6. b \in Behind(S, R, A)
  BY <1>0, <1>1, <1>3, <1>4, <1>5 DEF Behind
<1> QED BY <1>6 DEF b

(* ... and so can two of the second kind.                                  *)
LEMMA AheadThen ==
  ASSUME NEW S, NEW R, NEW A, NEW E, E \X A \subseteq R,
         NEW p \in Ahead(S, R, A, E), NEW q \in Ahead(S, R, A, E)
  PROVE  Then(p, q) \in Ahead(S, R, A, E)
<1>0. p \in Seq(S) /\ q \in Seq(S) /\ Len(p) \in Nat /\ Len(q) \in Nat
  BY DEF Ahead
<1>1. CASE Len(q) = 0
  <2>1. q = <<>>
    BY <1>0, <1>1, EmptySeq
  <2>2. Then(p, q) = p
    BY <1>0, <2>1, ThenNone
  <2> QED BY <2>2
<1>2. CASE Len(q) # 0
  <2> DEFINE b == Then(p, q)
  <2>1. q \in Behind(S, R, A)
    BY <1>2 DEF Ahead, Behind
  <2>2. b \in Behind(S, R, A)
    BY <2>1, AheadBehind
  <2>3. Joins(b, p, q)
    BY <1>0, ThenJoins
  <2> HIDE DEF b
  <2>4. Len(q) \in 1 .. Len(q) /\ Len(b) = Len(p) + Len(q)
    BY <1>0, <1>2, <2>3 DEF Joins
  <2>5. b[Len(b)] = q[Len(q)]
    BY <2>3, <2>4 DEF Joins
  <2>6. b \in Ahead(S, R, A, E)
    BY <1>2, <2>2, <2>5 DEF Ahead, Behind
  <2> QED BY <2>6 DEF b
<1> QED BY <1>1, <1>2

(* One element of both kinds.                                              *)
LEMMA AheadOne ==
  ASSUME NEW S, NEW R, NEW A, NEW E, NEW x \in S, x \in A, x \in E
  PROVE  One(x) \in Ahead(S, R, A, E)
<1> DEFINE d == One(x)
<1>1. d \in Seq(S) /\ Single(d, x) /\ Chain(R, d)
  BY OneIs, ChainOne
<1> HIDE DEF d
<1>2. d \in Ahead(S, R, A, E)
  BY <1>1 DEF Ahead, Single
<1> QED BY <1>2 DEF d

(* The empty one.                                                          *)
LEMMA AheadNone == ASSUME NEW S, NEW R, NEW A, NEW E PROVE <<>> \in Ahead(S, R, A, E)
BY DEF Ahead, Chain

(* A nonempty chain in front of another begins it.                         *)
LEMMA BehindChain ==
  ASSUME NEW S, NEW R, NEW A, NEW B, NEW p \in Behind(S, R, B), NEW q \in Behind(S, R, A),
         \A z \in S : z \in A => <<p[Len(p)], z>> \in R
  PROVE  Then(p, q) \in Behind(S, R, B)
<1> DEFINE b == Then(p, q)
<1>0. /\ p \in Seq(S) /\ Len(p) \in Nat \ {0} /\ p[1] \in B /\ Chain(R, p)
      /\ q \in Seq(S) /\ Len(q) \in Nat \ {0} /\ q[1] \in A /\ Chain(R, q)
  BY DEF Behind
<1>1. q[1] \in S
  BY <1>0
<1>3. b \in Seq(S) /\ Joins(b, p, q)
  BY <1>0, ThenJoins
<1>4. Chain(R, b)
  BY <1>0, <1>1, ChainThen
<1> HIDE DEF b
<1>5. 1 \in 1 .. Len(p) /\ Len(b) = Len(p) + Len(q)
  BY <1>0, <1>3 DEF Joins
<1>6. b[1] = p[1] /\ Len(b) # 0
  BY <1>0, <1>3, <1>5 DEF Joins
<1>7. b \in Behind(S, R, B)
  BY <1>0, <1>3, <1>4, <1>6 DEF Behind
<1> QED BY <1>7 DEF b

(* One element.                                                            *)
LEMMA BehindOne ==
  ASSUME NEW S, NEW R, NEW A, NEW x \in S, x \in A
  PROVE  One(x) \in Behind(S, R, A)
<1> DEFINE d == One(x)
<1>1. d \in Seq(S) /\ Single(d, x) /\ Chain(R, d)
  BY OneIs, ChainOne
<1> HIDE DEF d
<1>2. d \in Behind(S, R, A)
  BY <1>1 DEF Behind, Single
<1> QED BY <1>2 DEF d

(* Three elements that stand in R.                                         *)
LEMMA TripleBehind ==
  ASSUME NEW S, NEW R, NEW A, NEW x \in S, NEW y \in S, NEW z \in S,
         <<x, y>> \in R, <<y, z>> \in R, x \in A
  PROVE  /\ Triple(x, y, z) \in Behind(S, R, A)
         /\ Cell(Triple(x, y, z), x, y, z)
<1> DEFINE b == Triple(x, y, z)
<1>1. b \in Seq(S) /\ Cell(b, x, y, z)
  BY TripleCell
<1> HIDE DEF b
<1>2. \A i \in 1 .. 3 : i < 3 => i = 1 \/ i = 2
  OBVIOUS
<1>3. Chain(R, b)
  BY <1>1, <1>2 DEF Chain, Cell
<1>4. b \in Behind(S, R, A)
  BY <1>1, <1>3 DEF Behind, Cell
<1> QED BY <1>1, <1>4 DEF b

(* Elements each of which may stand in front of each.                      *)
LEMMA AheadEach ==
  ASSUME NEW S, NEW R, NEW A, NEW E, E \X A \subseteq R, NEW b \in Seq(S),
         Each(b, A \cap E)
  PROVE  b \in Ahead(S, R, A, E)
<1>1. Len(b) \in Nat
  OBVIOUS
<1>2. \A i \in 1 .. Len(b) : b[i] \in A /\ b[i] \in E
  BY DEF Each
<1>3. ASSUME NEW i \in 1 .. Len(b), i < Len(b) PROVE <<b[i], b[i + 1]>> \in R
  <2>1. i + 1 \in 1 .. Len(b)
    BY <1>1, <1>3
  <2> QED BY <1>2, <2>1
<1>4. Len(b) # 0 => 1 \in 1 .. Len(b) /\ Len(b) \in 1 .. Len(b)
  BY <1>1
<1> QED BY <1>2, <1>3, <1>4 DEF Ahead, Chain

(* A map that makes such chains of the elements of T makes one of a        *)
(* sequence of them.                                                       *)
LEMMA AheadMap ==
  ASSUME NEW S, NEW R, NEW A, NEW E, NEW T, NEW h, E \X A \subseteq R, NEW b \in Seq(S),
         Map(h, S, Seq(S)), Each(b, T), \A x \in S : x \in T => h[x] \in Ahead(S, R, A, E)
  PROVE  FlatMap(h, b) \in Ahead(S, R, A, E)
<1>1. ClosedIn(Ahead(S, R, A, E), Seq(S))
  <2>1. <<>> \in Ahead(S, R, A, E)
    BY AheadNone
  <2>2. Ahead(S, R, A, E) \subseteq Seq(S)
    BY DEF Ahead
  <2> QED BY <2>1, <2>2, AheadThen DEF ClosedIn
<1> QED BY <1>1, SeqClosed, FlatMapInto

(* A join ends as its second part does.                                    *)
LEMMA ThenEnds ==
  ASSUME NEW S, NEW p \in Seq(S), NEW q \in Seq(S), Len(q) # 0
  PROVE  /\ Len(Then(p, q)) # 0
         /\ Then(p, q)[Len(Then(p, q))] = q[Len(q)]
         /\ Len(q) > 1 => /\ Len(Then(p, q)) > 1
                          /\ Then(p, q)[Len(Then(p, q)) - 1] = q[Len(q) - 1]
<1> DEFINE b == Then(p, q)
<1>1. Joins(b, p, q)
  BY ThenJoins
<1> HIDE DEF b
<1>2. Len(p) \in Nat /\ Len(q) \in Nat \ {0} /\ Len(b) = Len(p) + Len(q)
  BY <1>1 DEF Joins
<1>3. Len(q) \in 1 .. Len(q)
  BY <1>2
<1>4. b[Len(b)] = q[Len(q)]
  BY <1>1, <1>2, <1>3 DEF Joins
<1>5. Len(q) > 1 => Len(q) - 1 \in 1 .. Len(q) /\ Len(b) - 1 = Len(p) + (Len(q) - 1)
  BY <1>2
<1>6. Len(q) > 1 => b[Len(b) - 1] = q[Len(q) - 1]
  BY <1>1, <1>5 DEF Joins
<1> QED BY <1>2, <1>4, <1>6 DEF b

-----------------------------------------------------------------------------
(* The order of the instructions in a block of the instrumented code.      *)

(* What the program is written with.                                       *)
Names == DOMAIN Program
Instr == Instruction(Names)

(* What f calls in block k.                                                *)
Callees(f, k) == {g \in Function : Contains(Program[f][k], CallOf(g))}

(* Work between the calls.                                                 *)
Simple == {x \in Instr : x.op \in {"phi", "work"} /\ x.region = "-"}

(* What CallGuard takes for the body of a function: also the configuration *)
(* of a callee and of the caller, which are steps out of the body.         *)
Idle == {x \in Instr : /\ x \notin {ReadAddr, ReadSize}
                       /\ ~IsOwnCall(x)
                       /\ ~(IsConfig(x) /\ x.num = 1)}

(* The terminators.                                                        *)
Ends == {x \in Instr : x.op \in {"br", "ret"}}

(* z may stand behind y in a block of f that calls K; X is what stands in  *)
(* front of its terminator, if anything is inserted there.                 *)
Follows(f, K, X, y, z) ==
  \/ y \in Simple /\ z \in Idle
  \/ y = ReadAddr /\ z = ReadSize
  \/ y = ReadSize /\ z = MpuConfig(f, 1)
  \/ y = MpuConfig(f, 1) /\ z \in Idle
  \/ \E g \in K : y = MpuConfig(g, 2) /\ z = CallOf(g)
  \/ \E g \in K : y = CallOf(g) /\ z = MpuConfig(f, 1)
  \/ y \in X /\ z \in Ends

Order(f, K, X) == {c \in Instr \X Instr : Follows(f, K, X, c[1], c[2])}

(* A function of the program is a symbol, a call of it an instruction.     *)
LEMMA IsFunction ==
  ASSUME NEW f \in Function
  PROVE  /\ f \in Names /\ f \in Symbol(Names) /\ f \notin Helper
         /\ f \notin Reserved
         /\ Program[f] \in Seq(BasicBlock(Names))
         /\ CallOf(f) \in Instr /\ IsOwnCall(CallOf(f)) /\ CallOf(f).callee = f
         /\ MpuConfig(f, 1) \in Instr /\ MpuConfig(f, 2) \in Instr
<1>1. f \in Names /\ f \notin Helper
  BY DEF Function, Names
<1>2. f \in Symbol(Names) /\ f \notin Reserved
  BY <1>1, SymbolIs, ProgramAssumption DEF Names
<1>3. Program[f] \in Seq(BasicBlock(Names))
  BY <1>1, ProgramAssumption DEF Names
<1>4. 0 \in 0 .. 2 /\ 1 \in 0 .. 2 /\ 2 \in 0 .. 2 /\ "-" \in Symbol(Names)
  BY SymbolIs
<1>5. CallOf(f) \in Instr
  BY <1>2, <1>4, InstType, Zenon DEF CallOf, Instr
<1>6. MpuConfig(f, 1) \in Instr /\ MpuConfig(f, 2) \in Instr
  BY <1>2, <1>4, ConfigType, Zenon DEF Instr
<1>7. IsOwnCall(CallOf(f)) /\ CallOf(f).callee = f
  BY <1>1 DEF CallOf, Inst, IsOwnCall, IsCall
<1> QED BY <1>1, <1>2, <1>3, <1>5, <1>6, <1>7

(* The instructions CallGuard takes for the body, with a return.           *)
LEMMA IdleAre ==
  /\ Simple \subseteq Idle
  /\ Ends \subseteq Idle
  /\ \A g \in Function : MpuConfig(g, 2) \in Idle
  /\ Saved \in Idle
<1>1. \A x \in Instr : x.op # "call" => x \in Idle
  BY ReadIs DEF Idle, IsOwnCall, IsConfig, IsCall
<1>2. ASSUME NEW r, MpuConfig(r, 2) \in Instr PROVE MpuConfig(r, 2) \in Idle
  <2>1. MpuConfig(r, 2) \notin {ReadAddr, ReadSize}
    BY ConfigIs, ReadIs
  <2>2. MpuConfig(r, 2).num = 2 /\ ~IsOwnCall(MpuConfig(r, 2))
    BY ConfigIs
  <2> QED BY <1>2, <2>1, <2>2 DEF Idle
<1>3. Saved \in Instr
  BY RestType DEF Saved, Instr
<1> QED BY <1>1, <1>2, <1>3, IsFunction DEF Simple, Ends, Saved

(* What is inserted at the end of block k of f, the order in that block,   *)
(* and what the block begins with.                                         *)
Savers(f, k) == IF k = Len(Program[f]) /\ f # Main THEN {Saved} ELSE {}
Ordering(f, k) == Order(f, Callees(f, k), Savers(f, k))
Opener(f, k) ==
  IF k # 1 THEN Idle ELSE IF f = Main THEN {MpuConfig(f, 1)} ELSE {ReadAddr}

(* b is in order, from its first instruction to the program's terminator.  *)
Runs(f, k, b) ==
  /\ b \in Behind(Instr, Ordering(f, k), Opener(f, k))
  /\ b[Len(b)] = Last(Program[f][k])
  /\ b[Len(b)] \in Ends
  /\ k = Len(Program[f]) /\ f # Main => Len(b) > 1 /\ b[Len(b) - 1] = Saved

(* The pairs of the order that the construction of a block needs.          *)
LEMMA OrderIs ==
  ASSUME NEW f \in Function, NEW K \in SUBSET Function, NEW X \in SUBSET {Saved}
  PROVE  /\ (Simple \cup {MpuConfig(f, 1)}) \X Idle \subseteq Order(f, K, X)
         /\ <<ReadAddr, ReadSize>> \in Order(f, K, X)
         /\ <<ReadSize, MpuConfig(f, 1)>> \in Order(f, K, X)
         /\ \A g \in K : /\ <<MpuConfig(g, 2), CallOf(g)>> \in Order(f, K, X)
                         /\ <<CallOf(g), MpuConfig(f, 1)>> \in Order(f, K, X)
         /\ \A z \in Ends : Saved \in X => <<Saved, z>> \in Order(f, K, X)
<1>1. ReadAddr \in Instr /\ ReadSize \in Instr /\ Saved \in Instr
  BY ReadType, RestType DEF Instr, Saved
<1>2. MpuConfig(f, 1) \in Instr /\ \A g \in K : MpuConfig(g, 2) \in Instr /\ CallOf(g) \in Instr
  BY IsFunction
<1>3. Simple \subseteq Instr /\ Idle \subseteq Instr /\ Ends \subseteq Instr
  BY DEF Simple, Idle, Ends
<1>4. \A y, z \in Instr : Follows(f, K, X, y, z) => <<y, z>> \in Order(f, K, X)
  BY DEF Order
<1>5. \A y \in Simple, z \in Idle : Follows(f, K, X, y, z)
  BY DEF Follows
<1>6. \A z \in Idle : Follows(f, K, X, MpuConfig(f, 1), z)
  BY DEF Follows
<1>7. Follows(f, K, X, ReadAddr, ReadSize) /\ Follows(f, K, X, ReadSize, MpuConfig(f, 1))
  BY DEF Follows
<1>8. \A g \in K : /\ Follows(f, K, X, MpuConfig(g, 2), CallOf(g))
                   /\ Follows(f, K, X, CallOf(g), MpuConfig(f, 1))
  BY DEF Follows
<1>9. \A z \in Ends : Saved \in X => Follows(f, K, X, Saved, z)
  BY DEF Follows
<1>10. (Simple \cup {MpuConfig(f, 1)}) \X Idle \subseteq Order(f, K, X)
  <2> SUFFICES ASSUME NEW y \in Simple \cup {MpuConfig(f, 1)}, NEW z \in Idle
               PROVE  <<y, z>> \in Order(f, K, X)
    OBVIOUS
  <2> QED BY <1>2, <1>3, <1>4, <1>5, <1>6
<1> QED BY <1>1, <1>2, <1>3, <1>4, <1>7, <1>8, <1>9, <1>10, Zenon

(* Main is a function, and no name stands for something else.              *)
LEMMA MainIs == Main \in Function /\ Main \in Names /\ Names \cap Placeholder = {}
BY ProgramAssumption DEF Function, Main, Helper, MpuFunction, ReadFunction, Names, Reserved

(* A block of the program is as the compiler left it.                      *)
LEMMA ProgramBlock ==
  ASSUME NEW f \in Function, NEW k \in DOMAIN Program[f]
  PROVE  /\ k \in 1 .. Len(Program[f]) /\ Len(Program[f]) \in Nat
         /\ Program[f][k] \in BasicBlock(Names)
         /\ Compiled(f, Program[f][k])
<1>1. Program[f] \in Seq(BasicBlock(Names))
  BY IsFunction
<1> QED BY <1>1, ProgramAssumption

(* The instructions of a compiled block, its last one apart.               *)
Inner(f, k) == Simple \cup {CallOf(g) : g \in Callees(f, k)}

(* An instruction of the program: the last of its block ends it, the       *)
(* others work or call.                                                    *)
LEMMA CompiledIs ==
  ASSUME NEW f \in Function, NEW k \in DOMAIN Program[f], NEW i \in 1 .. Len(Program[f][k])
  PROVE  LET x == Program[f][k][i]
         IN  /\ x \in Ordinary(Names)
             /\ i = Len(Program[f][k]) => x \in Ends
             /\ i # Len(Program[f][k]) => x \in Inner(f, k)
             /\ x.to \subseteq 2 .. Len(Program[f])
<1> DEFINE b == Program[f][k]
           x == b[i]
<1>1. b \in BasicBlock(Names) /\ Compiled(f, b)
  BY ProgramBlock
<1> HIDE DEF b
<1>2. i \in DOMAIN b /\ x \in Instr
  BY <1>1, ElementType DEF Instr, b
<1>3. /\ x.op \in {"br", "ret"} <=> i = Len(b)
      /\ x.to \subseteq 2 .. Len(Program[f])
      /\ x.region = "-"
      /\ IsCall(x) => \E g \in Function \ {Main} : x = CallOf(g)
  BY <1>1, <1>2 DEF Compiled
<1>4. x.op \in {"phi", "work", "call", "br", "ret"}
  BY <1>2 DEF Instr, Instruction
<1>5. ASSUME NEW g \in Function, x = CallOf(g) PROVE g \in Callees(f, k) /\ x.callee = g
  <2>1. Contains(b, CallOf(g))
    BY <1>5 DEF Contains, b
  <2> QED BY <2>1, <1>5, IsFunction DEF Callees, b
<1>6. x \in Ordinary(Names)
  BY <1>2, <1>3, <1>5, IsFunction DEF Ordinary, Instr
<1>7. i = Len(b) => x \in Ends
  BY <1>2, <1>3 DEF Ends
<1>8. i # Len(b) => x \in Inner(f, k)
  BY <1>2, <1>3, <1>4, <1>5 DEF Inner, Simple, IsCall
<1> QED BY <1>3, <1>6, <1>7, <1>8 DEF b

(* What a block calls is a function other than main, and a call site.      *)
LEMMA CalleesAre ==
  ASSUME NEW f \in Function, NEW k \in DOMAIN Program[f], NEW g \in Callees(f, k)
  PROVE  g \in Function /\ g # Main /\ <<f, g>> \in Calls
<1>1. g \in Function /\ Contains(Program[f][k], CallOf(g))
  BY DEF Callees
<1>2. PICK i \in 1 .. Len(Program[f][k]) : Program[f][k][i] = CallOf(g)
  BY <1>1 DEF Contains
<1>3. Compiled(f, Program[f][k]) /\ Program[f][k] \in BasicBlock(Names)
  BY ProgramBlock
<1>4. PICK h \in Function \ {Main} : CallOf(g) = CallOf(h)
  <2>1. i \in DOMAIN Program[f][k] /\ IsCall(CallOf(g))
    BY <1>1, <1>2, <1>3, ElementType, IsFunction, OwnIs
  <2> QED BY <2>1, <1>2, <1>3 DEF Compiled
<1>5. g = h
  BY <1>1, <1>4, IsFunction
<1>6. <<f, g>> \in Calls
  BY <1>1 DEF Calls
<1> QED BY <1>1, <1>4, <1>5, <1>6

(* The parts of a block of the program.                                    *)
LEMMA ProgramParts ==
  ASSUME NEW f \in Function, NEW k \in DOMAIN Program[f]
  PROVE  \E p, q, t : /\ Formed(Names, Program[f][k], p, q, t)
                      /\ t = Last(Program[f][k]) /\ t \in Ends
                      /\ Each(p, Inner(f, k)) /\ Each(q, Inner(f, k))
                      /\ k = 1 => p = <<>>
<1> DEFINE b == Program[f][k]
           T == Inner(f, k)
<1>1. b \in BasicBlock(Names) /\ Compiled(f, b)
  BY ProgramBlock
<1>2. /\ \A i \in 1 .. Len(b) : b[i] \in Ordinary(Names)
      /\ \A i \in 1 .. Len(b) : i # Len(b) => b[i] \in T
      /\ \A i \in 1 .. Len(b) : i = Len(b) => b[i] \in Ends
  BY CompiledIs
<1>8. k = 1 => b[1].op # "phi"
  BY ProgramAssumption
<1> HIDE DEF b, T
<1>3. Len(b) \in Nat \ {0} /\ Len(b) \in 1 .. Len(b)
  BY <1>1, ElementType, EmptySeq DEF Compiled, BasicBlock
<1>4. Each(b, Ordinary(Names)) /\ b[Len(b)].op \in {"br", "ret"}
  BY <1>2, <1>3 DEF Each, Ends
<1>5. PICK p, q, t : Formed(Names, b, p, q, t)
  BY <1>1, <1>3, <1>4, FormedExists
<1>6. p \in BasicBlock(Names) /\ q \in BasicBlock(Names) /\ t \in Instruction(Names)
      /\ b = Then(p, Then(q, One(t))) /\ Each(p, Phis(Names))
  BY <1>5 DEF Formed
<1> DEFINE c == Then(p, q)
           d == One(t)
<1>7. c \in BasicBlock(Names) /\ d \in BasicBlock(Names) /\ b = Then(c, d)
  BY <1>6, BlockThen, BlockOne, BlockAssociative
<1>9. Single(d, t)
  BY <1>6, OneIs
<1>10. Front(b) = c /\ Last(b) = t
  BY <1>6, <1>7, EndThen DEF BasicBlock
<1> HIDE DEF c, d
<1>11. Joins(b, c, d) /\ Len(c) \in Nat
  BY <1>7, ThenJoins, ElementType DEF BasicBlock
<1>12. Each(c, T)
  <2>1. ASSUME NEW i \in 1 .. Len(c) PROVE c[i] \in T
    <3>1. i \in 1 .. Len(b) /\ i # Len(b) /\ b[i] = c[i]
      BY <1>9, <1>11 DEF Joins, Single
    <3> QED BY <1>2, <3>1
  <2> QED BY <2>1 DEF Each
<1>13. Each(p, T) /\ Each(q, T)
  BY <1>6, <1>12, ThenEach DEF BasicBlock, c
<1>14. t \in Ends
  BY <1>2, <1>3, <1>10 DEF Last
<1>15. k = 1 => p = <<>>
  <2> SUFFICES ASSUME k = 1, p # <<>> PROVE FALSE
    OBVIOUS
  <2>1. Len(p) \in Nat \ {0}
    BY <1>6, ElementType, EmptySeq DEF BasicBlock
  <2>2. 1 \in 1 .. Len(p)
    BY <2>1
  <2> DEFINE r == Then(q, One(t))
  <2>3. r \in BasicBlock(Names)
    BY <1>6, BlockOne, BlockThen
  <2>4. b = Then(p, r)
    BY <1>6
  <2> HIDE DEF r
  <2>5. Joins(b, p, r)
    BY <1>6, <2>3, <2>4, ThenJoins DEF BasicBlock
  <2>6. b[1] = p[1]
    BY <2>2, <2>5 DEF Joins
  <2>7. p[1].op = "phi"
    BY <1>6, <2>2 DEF Each, Phis
  <2> QED BY <1>8, <2>6, <2>7
<1> QED BY <1>5, <1>10, <1>13, <1>14, <1>15 DEF b, T

(* What may stand at the end of the instructions around calls.             *)
Finish(f) == Simple \cup {MpuConfig(f, 1)}

(* What Insert_Function puts around the calls is in order.                 *)
LEMMA AroundRuns ==
  ASSUME NEW f \in Function, NEW k \in DOMAIN Program[f], NEW q \in BasicBlock(Names),
         Each(q, Inner(f, k))
  PROVE  FlatMap(AroundMap(Names, f), q) \in Ahead(Instr, Ordering(f, k), Idle, Finish(f))
<1> DEFINE R == Ordering(f, k)
           a == AroundMap(Names, f)
           T == Inner(f, k)
           K == Callees(f, k)
<1>1. K \in SUBSET Function /\ Savers(f, k) \in SUBSET {Saved}
  BY DEF Callees, Savers
<1>2. /\ Finish(f) \X Idle \subseteq R
      /\ \A g \in K : /\ <<MpuConfig(g, 2), CallOf(g)>> \in R
                      /\ <<CallOf(g), MpuConfig(f, 1)>> \in R
  BY <1>1, OrderIs DEF Ordering, Finish
<1>3. Map(a, Instr, Seq(Instr))
  BY IsFunction, AroundType DEF Instr, BasicBlock
<1>4. \A x \in Instr : /\ IsOwnCall(x) => a[x] = Triple(MpuConfig(x.callee, 2), x, MpuConfig(f, 1))
                      /\ ~IsOwnCall(x) => a[x] = One(x)
  BY AroundPiece DEF Instr
<1>10. K \subseteq Function /\ f \in Function
  BY <1>1
<1> HIDE DEF R, a, K
<1>5. ASSUME NEW x \in Instr, x \in T PROVE a[x] \in Ahead(Instr, R, Idle, Finish(f))
  <2>1. CASE x \in Simple
    <3>1. ~IsOwnCall(x) /\ x \in Idle /\ x \in Finish(f)
      BY <2>1, IdleAre DEF Idle, Finish
    <3>2. One(x) \in Ahead(Instr, R, Idle, Finish(f))
      BY <3>1, AheadOne
    <3> QED BY <1>4, <3>1, <3>2
  <2>2. CASE \E g \in K : x = CallOf(g)
    <3>1. PICK g \in K : x = CallOf(g)
      BY <2>2
    <3> DEFINE y == MpuConfig(g, 2)
               z == MpuConfig(f, 1)
    <3>2. /\ y \in Instr /\ z \in Instr /\ IsOwnCall(x) /\ x.callee = g
          /\ y \in Idle
      BY <1>10, <3>1, IsFunction, IdleAre
    <3>3. <<y, x>> \in R /\ <<x, z>> \in R
      BY <1>2, <3>1
    <3>4. a[x] = Triple(y, x, z) /\ z \in Finish(f)
      <4>1. IsOwnCall(x) => a[x] = Triple(MpuConfig(x.callee, 2), x, z)
        BY AroundPiece DEF a, Instr
      <4>2. z \in Finish(f)
        BY DEF Finish
      <4> QED BY <3>2, <4>1, <4>2, Zenon
    <3> HIDE DEF y, z
    <3>5. Triple(y, x, z) \in Behind(Instr, R, Idle) /\ Cell(Triple(y, x, z), y, x, z)
      BY <3>2, <3>3, TripleBehind
    <3>6. Triple(y, x, z) \in Ahead(Instr, R, Idle, Finish(f))
      BY <3>4, <3>5 DEF Ahead, Behind, Cell
    <3> QED BY <3>4, <3>6
  <2> QED BY <1>5, <2>1, <2>2 DEF Inner, K
<1> HIDE DEF T
<1>6. Each(q, T) /\ q \in Seq(Instr)
  BY DEF T, BasicBlock, Instr
<1> DEFINE A == Idle
           E == Finish(f)
<1>7. E \X A \subseteq R
  BY <1>2
<1> HIDE DEF A, E
<1>8. \A x \in Instr : x \in T => a[x] \in Ahead(Instr, R, A, E)
  BY <1>5 DEF A, E
<1>9. FlatMap(a, q) \in Ahead(Instr, R, A, E)
  BY <1>3, <1>6, <1>7, <1>8, AheadMap
<1> QED BY <1>9 DEF a, R, A, E

(* The code at the start of a function ...                                 *)
LEMMA EntryRuns ==
  ASSUME NEW f \in Function, NEW k \in DOMAIN Program[f],
         NEW r \in Behind(Instr, Ordering(f, k), Idle)
  PROVE  Then(Entry(f, k), r) \in Behind(Instr, Ordering(f, k), Opener(f, k))
<1> DEFINE R == Ordering(f, k)
           z == MpuConfig(f, 1)
<1>1. Callees(f, k) \in SUBSET Function /\ Savers(f, k) \in SUBSET {Saved}
  BY DEF Callees, Savers
<1>2. /\ Finish(f) \X Idle \subseteq R
      /\ <<ReadAddr, ReadSize>> \in R /\ <<ReadSize, z>> \in R
  BY <1>1, OrderIs DEF Ordering, Finish
<1>3. ReadAddr \in Instr /\ ReadSize \in Instr /\ z \in Instr
  BY ReadType, IsFunction DEF Instr
<1>4. \A y \in Instr : y \in Idle => <<z, y>> \in R
  BY <1>2 DEF Finish
<1>5. f \in Names /\ r \in Seq(Instr)
  BY IsFunction DEF Behind
<1> HIDE DEF R, z
<1> USE DEF Opener
<1>6. CASE k # 1
  <2>1. Then(<<>>, r) = r
    BY <1>5, ThenNone
  <2> QED BY <1>6, <2>1 DEF Entry, R
<1>7. CASE k = 1 /\ f # Main
  <2> DEFINE e == Triple(ReadAddr, ReadSize, z)
             B == {ReadAddr}
  <2>1. ReadAddr \in B
    OBVIOUS
  <2> HIDE DEF B
  <2>2. e \in Behind(Instr, R, B) /\ Cell(e, ReadAddr, ReadSize, z)
    BY <1>2, <1>3, <2>1, TripleBehind
  <2>3. Entry(f, k) = e
    <3>1. Entry(f, k) = EntryCode(f)
      BY <1>7, Zenon DEF Entry
    <3>2. EntryCode(f) = Reads(One(z))
      BY <1>5, <1>7, EntryReads DEF Main, z
    <3> QED BY <3>1, <3>2, Zenon DEF Reads, Triple
  <2> HIDE DEF e
  <2>4. \A y \in Instr : y \in Idle => <<e[Len(e)], y>> \in R
    BY <1>4, <2>2 DEF Cell
  <2>5. r \in Behind(Instr, R, Idle)
    BY DEF R
  <2>6. Then(e, r) \in Behind(Instr, R, B)
    BY <2>2, <2>4, <2>5, BehindChain
  <2> QED BY <1>7, <2>3, <2>6 DEF R, B
<1>8. CASE k = 1 /\ f = Main
  <2> DEFINE e == One(z)
             B == {z}
  <2>1. z \in B
    OBVIOUS
  <2> HIDE DEF B
  <2>2. e \in Behind(Instr, R, B) /\ Single(e, z)
    BY <1>3, <2>1, BehindOne, OneIs
  <2>3. Entry(f, k) = e
    <3>1. Entry(f, k) = EntryCode(f)
      BY <1>8, Zenon DEF Entry
    <3>2. EntryCode("main") = Then(<<>>, One(MpuConfig("main", 1)))
      BY Zenon DEF EntryCode, Then, One
    <3>3. EntryCode(f) = Then(<<>>, e)
      BY <1>8, <3>2 DEF Main, z
    <3>4. e \in Seq(Instr)
      BY <2>2 DEF Behind
    <3> QED BY <3>1, <3>3, <3>4, ThenNone
  <2> HIDE DEF e
  <2>4. \A y \in Instr : y \in Idle => <<e[Len(e)], y>> \in R
    BY <1>4, <2>2 DEF Single
  <2>5. r \in Behind(Instr, R, Idle)
    BY DEF R
  <2>6. Then(e, r) \in Behind(Instr, R, B)
    BY <2>2, <2>4, <2>5, BehindChain
  <2>7. Opener(f, k) = B
    BY <1>8 DEF B, z
  <2> QED BY <2>3, <2>6, <2>7 DEF R
<1> QED BY <1>6, <1>7, <1>8

(* ... and before the end of its last block.                               *)
LEMMA ClosingRuns ==
  ASSUME NEW f \in Function, NEW k \in DOMAIN Program[f], NEW t \in Ends
  PROVE  LET c == Then(Closing(f, k, Len(Program[f])), One(t))
         IN  /\ c \in Behind(Instr, Ordering(f, k), Idle)
             /\ c[Len(c)] = t
             /\ k = Len(Program[f]) /\ f # Main => Len(c) = 2 /\ c[Len(c) - 1] = Saved
<1> DEFINE R == Ordering(f, k)
           d == One(t)
           s == One(Saved)
           n == Len(Program[f])
           c == Then(Closing(f, k, n), d)
<1>1. Callees(f, k) \in SUBSET Function /\ Savers(f, k) \in SUBSET {Saved}
  BY DEF Callees, Savers
<1>2. \A z \in Ends : Saved \in Savers(f, k) => <<Saved, z>> \in R
  BY <1>1, OrderIs DEF Ordering
<1>3. t \in Instr /\ t \in Idle /\ Saved \in Instr /\ Saved \in Idle
  BY IdleAre DEF Ends, Idle
<1>4. d \in Behind(Instr, R, Ends) /\ d \in Behind(Instr, R, Idle) /\ Single(d, t)
  BY <1>3, BehindOne, OneIs
<1>5. s \in Behind(Instr, R, Idle) /\ Single(s, Saved)
  BY <1>3, BehindOne, OneIs
<1> HIDE DEF R, d, s
<1>6. d \in Seq(Instr) /\ s \in Seq(Instr)
  BY <1>4, <1>5 DEF Behind
<1>7. CASE k = n /\ f # Main
  <2>1. Saved \in Savers(f, k)
    BY <1>7 DEF Savers
  <2>2. \A z \in Instr : z \in Ends => <<s[Len(s)], z>> \in R
    BY <1>2, <1>5, <2>1 DEF Single
  <2>3. Then(s, d) \in Behind(Instr, R, Idle)
    BY <1>4, <1>5, <2>2, BehindChain
  <2>4. c = Then(s, d)
    BY <1>7, ExitIs, Zenon DEF Closing, Main, s
  <2>5. Joins(c, s, d)
    BY <1>6, <2>4, ThenJoins
  <2> HIDE DEF c
  <2>6. Len(c) = 2 /\ c[2] = t /\ c[1] = Saved
    BY <1>4, <1>5, <2>5 DEF Joins, Single
  <2>7. c \in Behind(Instr, R, Idle)
    BY <2>3, <2>4
  <2> QED BY <2>6, <2>7 DEF c, d, R
<1>8. CASE ~(k = n /\ f # Main)
  <2>1. Closing(f, k, n) = <<>>
    BY <1>8, ExitIs, Zenon DEF Closing, Main
  <2>2. c = d
    BY <1>6, <2>1, ThenNone
  <2> HIDE DEF c
  <2>3. c[Len(c)] = t /\ c \in Behind(Instr, R, Idle)
    BY <1>4, <2>2 DEF Single
  <2> QED BY <1>8, <2>3 DEF c, d, R
<1> QED BY <1>7, <1>8

(* Every block of the code is ordered.                                     *)
LEMMA CodeRuns ==
  ASSUME NEW f \in Function, NEW k \in DOMAIN Program[f]
  PROVE  Runs(f, k, Code[f][k])
<1> DEFINE R == Ordering(f, k)
           n == Len(Program[f])
           g(q) == FlatMap(AroundMap(Names, f), q)
           E == Finish(f)
           A == Idle
           O == Opener(f, k)
<1>1. PICK p, q, t : /\ Formed(Names, Program[f][k], p, q, t)
                     /\ t = Last(Program[f][k]) /\ t \in Ends
                     /\ Each(p, Inner(f, k)) /\ Each(q, Inner(f, k))
                     /\ k = 1 => p = <<>>
  BY ProgramParts
<1>2. f \in Names /\ f \notin Helper
  BY IsFunction
<1>3. Code[f][k] = Shape(p, Entry(f, k), g(q), Closing(f, k, n), t)
  <2>1. Code[f][k] = ImageBlock(f, Program[f], k)
    BY <1>2 DEF Code, Image, Names
  <2> QED BY <1>1, <1>2, <2>1, ImageShape
<1> DEFINE c == Then(Closing(f, k, n), One(t))
           a == g(q)
           e == Entry(f, k)
<1>4. p \in BasicBlock(Names) /\ q \in BasicBlock(Names) /\ Each(p, Phis(Names))
  BY <1>1 DEF Formed
<1>5. /\ c \in Behind(Instr, R, A) /\ c[Len(c)] = t
      /\ k = n /\ f # Main => Len(c) = 2 /\ c[Len(c) - 1] = Saved
  BY <1>1, ClosingRuns
<1>6. a \in Ahead(Instr, R, A, E)
  BY <1>1, <1>4, AroundRuns
<1>7. E \X A \subseteq R
  <2>1. Callees(f, k) \in SUBSET Function /\ Savers(f, k) \in SUBSET {Saved}
    BY DEF Callees, Savers
  <2> QED BY <2>1, OrderIs DEF Ordering, Finish
<1>8. p \in Ahead(Instr, R, A, E)
  <2>1. \A i \in 1 .. Len(p) : p[i] \in Phis(Names) /\ p[i] \in Inner(f, k)
    BY <1>1, <1>4 DEF Each
  <2>2. \A x \in Phis(Names) : x \in Inner(f, k) => x \in Simple
    <3>1. \A h \in Function : CallOf(h).op = "call"
      BY IsFunction, OwnIs
    <3> QED BY <3>1 DEF Phis, Inner, Callees
  <2>3. \A x \in Simple : x \in A \cap E
    BY IdleAre DEF Finish
  <2> HIDE DEF A, E, R
  <2>4. Each(p, A \cap E) /\ p \in Seq(Instr)
    BY <1>4, <2>1, <2>2, <2>3 DEF Each, BasicBlock, Instr
  <2> QED BY <1>7, <2>4, AheadEach
<1>9. \A r \in Behind(Instr, R, A) : Then(e, r) \in Behind(Instr, R, O)
  BY EntryRuns
<1> HIDE DEF R, a, c, E, A, O
<1>10. Then(a, c) \in Behind(Instr, R, A)
  BY <1>5, <1>6, <1>7, AheadBehind
<1> DEFINE u == Then(a, c)
           v == Then(e, u)
           w == Then(p, v)
<1>11. v \in Behind(Instr, R, O)
  BY <1>9, <1>10
<1>12. w \in Behind(Instr, R, O)
  <2>1. CASE k = 1
    <3>1. v \in Seq(Instr) /\ p = <<>>
      BY <1>1, <1>11, <2>1 DEF Behind
    <3> HIDE DEF v
    <3>2. w = v
      BY <3>1, ThenNone
    <3> QED BY <1>11, <3>2
  <2>2. CASE k # 1
    <3>1. O = A
      BY <2>2, Zenon DEF O, A, Opener
    <3> HIDE DEF v
    <3> QED BY <1>7, <1>8, <1>11, <3>1, AheadBehind
  <2> QED BY <2>1, <2>2
<1>13. Code[f][k] = w
  BY <1>3, Zenon DEF Shape, a, c
<1> DEFINE last(b) == b[Len(b)] = t /\ (k = n /\ f # Main => Len(b) > 1 /\ b[Len(b) - 1] = Saved)
<1>14. ASSUME NEW x \in Seq(Instr), NEW b \in Seq(Instr), last(b), Len(b) # 0
       PROVE  last(Then(x, b)) /\ Then(x, b) \in Seq(Instr) /\ Len(Then(x, b)) # 0
  <2>1. Then(x, b) \in Seq(Instr)
    BY ThenJoins
  <2> QED BY <1>14, <2>1, ThenEnds
<1>15. last(c) /\ c \in Seq(Instr) /\ Len(c) # 0
  <2>1. c \in Seq(Instr) /\ Len(c) # 0
    BY <1>5 DEF Behind
  <2>2. Len(c) = 2 => Len(c) > 1
    OBVIOUS
  <2> QED BY <1>5, <2>1, <2>2
<1>16. p \in Seq(Instr) /\ a \in Seq(Instr) /\ e \in Seq(Instr)
  <2>1. p \in Seq(Instr) /\ a \in Seq(Instr)
    BY <1>6, <1>8 DEF Ahead
  <2>2. EntryCode(f) \in BasicBlock(Names) /\ <<>> \in BasicBlock(Names)
    BY <1>2, EntryType, EmptyType
  <2>3. e \in BasicBlock(Names)
    BY <2>2, Zenon DEF Entry
  <2> QED BY <2>1, <2>3 DEF BasicBlock, Instr
<1>17. last(w)
  <2> HIDE DEF last, e
  <2>1. last(u) /\ u \in Seq(Instr) /\ Len(u) # 0
    BY <1>14, <1>15, <1>16
  <2> HIDE DEF u
  <2>2. last(v) /\ v \in Seq(Instr) /\ Len(v) # 0
    BY <1>14, <1>16, <2>1
  <2> HIDE DEF v
  <2> QED BY <1>14, <1>16, <2>2
<1> HIDE DEF w
<1>18. Runs(f, k, w)
  BY <1>1, <1>12, <1>17 DEF Runs, R, O
<1> QED BY <1>13, <1>18

-----------------------------------------------------------------------------
(* A frame at an instruction, and what its next one is.                    *)

(* A frame at an instruction, and the one behind it.                       *)
Placed(fr) ==
  /\ fr \in StackFrame
  /\ fr.blk \in DOMAIN Program[fr.fn]
  /\ fr.pos \in 1 .. Len(Code[fr.fn][fr.blk])

Moved(fr) == [fr EXCEPT !.pos = @ + 1]

(* A return of a connected function, with its caller open.                 *)
Returning(fr) ==
  /\ InstAt(fr) = Return
  /\ fr.fn \in ReturnsLast
  /\ fr.pos > 1 /\ Code[fr.fn][fr.blk][fr.pos - 1].region = "saved"

(* The point CallGuard has a frame at, by its instruction.                 *)
LEMMA PointIs ==
  ASSUME NEW fr
  PROVE  /\ InstAt(fr) = ReadAddr => Point(fr) = "readAddr"
         /\ InstAt(fr) = ReadSize => Point(fr) = "readSize"
         /\ \A g : InstAt(fr) = MpuConfig(g, 1) => Point(fr) = "own"
         /\ IsOwnCall(InstAt(fr)) => Point(fr) = "call"
         /\ InstAt(fr) \in Idle /\ Returning(fr) => Point(fr) = "return"
         /\ InstAt(fr) \in Idle /\ ~Returning(fr) => Point(fr) = "body"
<1> DEFINE x == InstAt(fr)
<1>1. ReadAddr # ReadSize
  BY DEF ReadAddr, ReadSize, CallOf, Inst
<1>2. ~IsConfig(ReadAddr) /\ ~IsConfig(ReadSize) /\ ~IsOwnCall(ReadAddr) /\ ~IsOwnCall(ReadSize)
  BY ReadIs
<1>3. IsOwnCall(x) => ~IsConfig(x)
  BY OwnIs
<1>4. \A g : x = MpuConfig(g, 1) => IsConfig(x) /\ x.num = 1
  BY ConfigIs
<1>5. IsConfig(x) \/ IsOwnCall(x) => x # Return
  BY OwnIs DEF IsConfig, IsCall, Return, Inst
<1>6. Point(fr) =
        CASE x = ReadAddr -> "readAddr"
          [] x = ReadSize -> "readSize"
          [] IsConfig(x) /\ x.num = 1 -> "own"
          [] IsOwnCall(x) -> "call"
          [] Returning(fr) -> "return"
          [] OTHER -> "body"
  BY Zenon DEF Point, Returning
<1>7. Returning(fr) => x = Return
  BY DEF Returning
<1>8. x \in Idle => /\ x \notin {ReadAddr, ReadSize} /\ ~IsOwnCall(x)
                    /\ ~(IsConfig(x) /\ x.num = 1)
  BY DEF Idle
<1>9. Return # ReadAddr /\ Return # ReadSize
  BY DEF Return, ReadAddr, ReadSize, CallOf, Inst
<1> HIDE DEF x
<1>10. x = ReadAddr => Point(fr) = "readAddr"
  BY <1>1, <1>2, <1>6, <1>7, <1>9
<1>11. x = ReadSize => Point(fr) = "readSize"
  BY <1>1, <1>2, <1>6, <1>7, <1>9
<1>12. IsConfig(x) /\ x.num = 1 => Point(fr) = "own"
  BY <1>2, <1>3, <1>5, <1>6, <1>7
<1>13. IsOwnCall(x) => Point(fr) = "call"
  BY <1>2, <1>3, <1>5, <1>6, <1>7
<1>14. x \in Idle /\ Returning(fr) => Point(fr) = "return"
  BY <1>6, <1>8
<1>15. x \in Idle /\ ~Returning(fr) => Point(fr) = "body"
  BY <1>6, <1>8
<1> QED BY <1>4, <1>10, <1>11, <1>12, <1>13, <1>14, <1>15 DEF x

(* The order is of instructions that end no block.                         *)
LEMMA FollowsOpen ==
  ASSUME NEW f \in Function,
         NEW K \in SUBSET Function, NEW X \in SUBSET {Saved}, NEW y, NEW z,
         Follows(f, K, X, y, z)
  PROVE  y \notin Ends
<1>1. \A x \in Ends : x.op # "call" /\ x \notin Simple
  BY DEF Ends, Simple
<1>2. ReadAddr.op = "call" /\ ReadSize.op = "call"
  BY ReadIs
<1>3. \A g, n : MpuConfig(g, n).op = "call"
  BY ConfigIs
<1>4. \A g \in K : CallOf(g).op = "call"
  BY IsFunction, OwnIs
<1>5. \A x \in X : x.op = "call"
  BY <1>3 DEF Saved
<1> QED BY <1>1, <1>2, <1>3, <1>4, <1>5, Zenon DEF Follows

(* The frame behind it.                                                    *)
LEMMA MovedIs ==
  ASSUME NEW fr \in StackFrame
  PROVE  /\ Moved(fr) \in StackFrame
         /\ Moved(fr).fn = fr.fn /\ Moved(fr).blk = fr.blk
         /\ Moved(fr).pos = fr.pos + 1
         /\ Moved(fr).addr = fr.addr /\ Moved(fr).size = fr.size
BY DEF Moved, StackFrame

(* Where a frame can be.                                                   *)
LEMMA PlacedIs ==
  ASSUME NEW fr, Placed(fr)
  PROVE  /\ fr.fn \in Function /\ fr.blk \in 1 .. Len(Program[fr.fn])
         /\ InstAt(fr) \in Instr
         /\ \/ /\ fr.pos = Len(Code[fr.fn][fr.blk])
               /\ InstAt(fr) \in Ends
               /\ InstAt(fr) = Last(Program[fr.fn][fr.blk])
            \/ /\ InstAt(fr) \notin Ends
               /\ Placed(Moved(fr))
               /\ Follows(fr.fn, Callees(fr.fn, fr.blk), Savers(fr.fn, fr.blk),
                          InstAt(fr), InstAt(Moved(fr)))
<1> DEFINE f == fr.fn
           k == fr.blk
           i == fr.pos
           b == Code[f][k]
           m == Moved(fr)
<1>1. f \in Function /\ k \in DOMAIN Program[f] /\ i \in 1 .. Len(b) /\ i \in Nat
  BY DEF Placed, StackFrame
<1>2. Runs(f, k, b) /\ k \in 1 .. Len(Program[f])
  BY <1>1, CodeRuns, ProgramBlock
<1>3. /\ b \in Seq(Instr) /\ Len(b) \in Nat
      /\ \A j \in 1 .. Len(b) : j < Len(b) => <<b[j], b[j + 1]>> \in Ordering(f, k)
      /\ b[Len(b)] \in Ends /\ b[Len(b)] = Last(Program[f][k])
  BY <1>2 DEF Runs, Behind, Chain
<1>4. /\ m.fn = f /\ m.blk = k /\ m.pos = i + 1 /\ m \in StackFrame
      /\ m.addr = fr.addr /\ m.size = fr.size
  BY MovedIs DEF Placed
<1> HIDE DEF m
<1>5. InstAt(fr) = b[i] /\ InstAt(m) = b[i + 1]
  <2>1. InstAt(fr) = b[i]
    BY DEF InstAt
  <2>2. InstAt(m) = Code[m.fn][m.blk][m.pos]
    BY DEF InstAt
  <2>3. Code[m.fn][m.blk][m.pos] = b[i + 1]
    BY <1>4
  <2> QED BY <2>1, <2>2, <2>3
<1> HIDE DEF b
<1>6. b[i] \in Instr
  BY <1>1, <1>3
<1>7. CASE i = Len(b)
  <2>1. b[i] \in Ends /\ b[i] = Last(Program[f][k])
    BY <1>3, <1>7
  <2> QED BY <1>1, <1>2, <1>5, <1>6, <1>7, <2>1, Zenon DEF b
<1>8. CASE i # Len(b)
  <2>1. i < Len(b) /\ i + 1 \in 1 .. Len(b)
    BY <1>1, <1>3, <1>8
  <2>2. <<b[i], b[i + 1]>> \in Ordering(f, k)
    BY <1>1, <1>3, <2>1
  <2>3. Follows(f, Callees(f, k), Savers(f, k), b[i], b[i + 1])
    BY <2>2 DEF Ordering, Order
  <2>4. Callees(f, k) \in SUBSET Function /\ Savers(f, k) \in SUBSET {Saved}
    BY DEF Callees, Savers
  <2>5. b[i] \notin Ends
    BY <1>1, <2>3, <2>4, FollowsOpen
  <2>6. Placed(m)
    BY <1>1, <1>4, <2>1 DEF Placed, b
  <2> QED BY <1>1, <1>2, <1>5, <1>6, <2>3, <2>5, <2>6 DEF m
<1> QED BY <1>7, <1>8

(* What follows an instruction, by its kind.                               *)
FollowedBy(f, K, X, y, z) ==
  /\ y.op \in {"phi", "work"} => y \in Simple /\ z \in Idle
  /\ y = ReadAddr => z = ReadSize
  /\ y = ReadSize => z = MpuConfig(f, 1)
  /\ IsConfig(y) /\ y.region # "saved" /\ y.num # 2 => y = MpuConfig(f, 1) /\ z \in Idle
  /\ IsConfig(y) /\ y.region # "saved" /\ y.num = 2 =>
       \E g \in K : y = MpuConfig(g, 2) /\ z = CallOf(g)
  /\ IsOwnCall(y) => \E g \in K : y = CallOf(g) /\ z = MpuConfig(f, 1)
  /\ IsConfig(y) /\ y.region = "saved" => y = Saved /\ Saved \in X /\ z \in Ends

(* Each kind of instruction has one kind of follower.                      *)
LEMMA FollowsFrom ==
  ASSUME NEW f \in Function,
         NEW K \in SUBSET Function, NEW X \in SUBSET {Saved}, NEW y, NEW z,
         Follows(f, K, X, y, z)
  PROVE  FollowedBy(f, K, X, y, z)
<1>1. CASE y \in Simple /\ z \in Idle
  <2>1. y.op \in {"phi", "work"} /\ ~IsConfig(y) /\ ~IsOwnCall(y)
    BY <1>1 DEF Simple, IsConfig, IsOwnCall, IsCall
  <2>2. y # ReadAddr /\ y # ReadSize
    BY <2>1, ReadIs
  <2> QED BY <1>1, <2>1, <2>2 DEF FollowedBy
<1>2. CASE y = ReadAddr /\ z = ReadSize
  <2>1. ReadAddr # ReadSize
    BY DEF ReadAddr, ReadSize, CallOf, Inst
  <2> QED BY <1>2, <2>1, ReadIs DEF FollowedBy
<1>3. CASE y = ReadSize /\ z = MpuConfig(f, 1)
  <2>1. ReadAddr # ReadSize
    BY DEF ReadAddr, ReadSize, CallOf, Inst
  <2> QED BY <1>3, <2>1, ReadIs DEF FollowedBy
<1>4. CASE y = MpuConfig(f, 1) /\ z \in Idle
  <2>1. y.op = "call" /\ IsConfig(y) /\ ~IsOwnCall(y) /\ y.num = 1 /\ y.region = f
    BY <1>4, ConfigIs
  <2>2. y # ReadAddr /\ y # ReadSize /\ f # "saved"
    BY <2>1, ReadIs, IsFunction DEF Reserved
  <2> QED BY <1>4, <2>1, <2>2 DEF FollowedBy
<1>5. CASE \E g \in K : y = MpuConfig(g, 2) /\ z = CallOf(g)
  <2>0. PICK g \in K : y = MpuConfig(g, 2) /\ z = CallOf(g)
    BY <1>5
  <2>1. y.op = "call" /\ IsConfig(y) /\ ~IsOwnCall(y) /\ y.num = 2 /\ y.region = g
    BY <2>0, ConfigIs
  <2>2. y # ReadAddr /\ y # ReadSize /\ g # "saved"
    BY <2>1, ReadIs, IsFunction DEF Reserved
  <2> QED BY <1>5, <2>1, <2>2 DEF FollowedBy
<1>6. CASE \E g \in K : y = CallOf(g) /\ z = MpuConfig(f, 1)
  <2>0. PICK g \in K : y = CallOf(g) /\ z = MpuConfig(f, 1)
    BY <1>6
  <2>1. IsOwnCall(y)
    BY <2>0, IsFunction
  <2>2. y.op = "call" /\ ~IsConfig(y) /\ y # ReadAddr /\ y # ReadSize
    BY <2>1, ReadIs, OwnIs
  <2> QED BY <1>6, <2>1, <2>2 DEF FollowedBy
<1>7. CASE y \in X /\ z \in Ends
  <2>0. y = Saved
    BY <1>7
  <2>1. y.op = "call" /\ IsConfig(y) /\ ~IsOwnCall(y) /\ y.region = "saved"
    BY <2>0, ConfigIs DEF Saved
  <2>2. y # ReadAddr /\ y # ReadSize
    BY <2>1, ReadIs
  <2> QED BY <1>7, <2>0, <2>1, <2>2 DEF FollowedBy
<1> QED BY <1>1, <1>2, <1>3, <1>4, <1>5, <1>6, <1>7, Zenon DEF Follows

(* Where a frame goes from an instruction that does not end a block.       *)
LEMMA MovesOn ==
  ASSUME NEW fr, Placed(fr), InstAt(fr) \notin Ends
  PROVE  /\ Placed(Moved(fr))
         /\ FollowedBy(fr.fn, Callees(fr.fn, fr.blk), Savers(fr.fn, fr.blk),
                       InstAt(fr), InstAt(Moved(fr)))
<1>1. /\ Placed(Moved(fr)) /\ fr.fn \in Function
      /\ Follows(fr.fn, Callees(fr.fn, fr.blk), Savers(fr.fn, fr.blk),
                 InstAt(fr), InstAt(Moved(fr)))
  BY PlacedIs
<1>2. Callees(fr.fn, fr.blk) \in SUBSET Function /\ Savers(fr.fn, fr.blk) \in SUBSET {Saved}
  BY DEF Callees, Savers
<1> QED BY <1>1, <1>2, FollowsFrom

(* At its next instruction a frame is returning only behind Saved.         *)
LEMMA MovedReturns ==
  ASSUME NEW fr, Placed(fr), InstAt(fr) \notin Ends
  PROVE  Returning(Moved(fr)) <=>
           /\ InstAt(Moved(fr)) = Return
           /\ fr.fn \in ReturnsLast
           /\ InstAt(fr).region = "saved"
<1> DEFINE m == Moved(fr)
<1>1. fr.pos \in Nat \ {0} /\ fr.pos + 1 - 1 = fr.pos
  <2>1. fr.pos \in Nat /\ fr.pos >= 1
    BY DEF Placed, StackFrame
  <2> QED BY <2>1
<1>2. m.fn = fr.fn /\ m.blk = fr.blk /\ m.pos = fr.pos + 1
  BY MovedIs DEF Placed
<1> HIDE DEF m
<1>3. m.pos > 1 /\ m.pos - 1 = fr.pos
  BY <1>1, <1>2
<1>4. Code[m.fn][m.blk][m.pos - 1].region = InstAt(fr).region
  BY <1>2, <1>3 DEF InstAt
<1> QED BY <1>2, <1>3, <1>4 DEF Returning, m

-----------------------------------------------------------------------------
(* What CallGuard sees of a frame before and after each instruction.       *)

(* r is at the instruction behind that of fr.                              *)
Steps(fr, r) ==
  r \in StackFrame /\ r.fn = fr.fn /\ r.blk = fr.blk /\ r.pos = fr.pos + 1

(* CallGuard sees fr at point p, with g as its callee.                     *)
FrameOf(f, p, g, a, s) ==
  [fn |-> f, pc |-> p, callee |-> g, addr |-> a, size |-> s]

Seen(fr, p, g) == GuardFrame(fr) = FrameOf(fr.fn, p, g, fr.addr, fr.size)

(* A frame is seen with its callee in front of a call, with itself         *)
(* elsewhere.                                                              *)
LEMMA SeenAt ==
  ASSUME NEW fr
  PROVE  /\ ~IsOwnCall(InstAt(fr)) => Seen(fr, Point(fr), fr.fn)
         /\ \A g : IsOwnCall(InstAt(fr)) /\ InstAt(fr).callee = g => Seen(fr, Point(fr), g)
BY DEF Seen, GuardFrame, FrameOf

(* It is where Moved(fr) is, whatever values it has read.                  *)
LEMMA StepsAs ==
  ASSUME NEW fr, NEW r, Placed(fr), Steps(fr, r)
  PROVE  /\ InstAt(r) = InstAt(Moved(fr))
         /\ Placed(Moved(fr)) => Placed(r)
         /\ Returning(Moved(fr)) <=> Returning(r)
<1> DEFINE m == Moved(fr)
<1>1. m.fn = fr.fn /\ m.blk = fr.blk /\ m.pos = fr.pos + 1
  BY MovedIs DEF Placed
<1> HIDE DEF m
<1>2. m.fn = r.fn /\ m.blk = r.blk /\ m.pos = r.pos /\ r \in StackFrame
  BY <1>1 DEF Steps
<1>3. InstAt(r) = InstAt(m)
  BY <1>2 DEF InstAt
<1>4. Returning(m) <=> Returning(r)
  BY <1>2, <1>3 DEF Returning
<1>5. Placed(m) => Placed(r)
  BY <1>2 DEF Placed
<1> QED BY <1>3, <1>4, <1>5 DEF m

(* The same facts, of r.                                                   *)
LEMMA StepsOn ==
  ASSUME NEW fr, NEW r, Placed(fr), Steps(fr, r), InstAt(fr) \notin Ends
  PROVE  /\ Placed(r)
         /\ fr.fn \in Function /\ fr.blk \in DOMAIN Program[fr.fn]
         /\ FollowedBy(fr.fn, Callees(fr.fn, fr.blk), Savers(fr.fn, fr.blk),
                       InstAt(fr), InstAt(r))
         /\ Returning(r) <=>
              InstAt(r) = Return /\ fr.fn \in ReturnsLast /\ InstAt(fr).region = "saved"
         /\ r.fn = fr.fn
<1>1. fr.fn \in Function /\ fr.blk \in DOMAIN Program[fr.fn]
  BY DEF Placed, StackFrame
<1> QED BY <1>1, StepsAs, MovesOn, MovedReturns, Zenon DEF Steps

(* Only a block's last instruction ends it.                                *)
LEMMA EndsOnly ==
  ASSUME NEW fr, InstAt(fr) \in Ends
  PROVE  InstAt(fr).op \in {"br", "ret"} /\ ~IsCall(InstAt(fr))
BY DEF Ends, IsCall

(* A frame at no inserted instruction but the caller's configuration, or   *)
(* behind that at a return.                                                *)
LEMMA IdleSeen ==
  ASSUME NEW fr, InstAt(fr) \in Idle
  PROVE  /\ Returning(fr) => Seen(fr, "return", fr.fn)
         /\ ~Returning(fr) => Seen(fr, "body", fr.fn)
         /\ ~IsOwnCall(InstAt(fr))
<1>1. ~IsOwnCall(InstAt(fr))
  BY DEF Idle
<1>2. Seen(fr, Point(fr), fr.fn)
  BY <1>1, SeenAt
<1>3. /\ Returning(fr) => Point(fr) = "return"
      /\ ~Returning(fr) => Point(fr) = "body"
  BY PointIs
<1> QED BY <1>1, <1>2, <1>3, Zenon

(* The instructions that compute: in the body before and after.            *)
LEMMA WorkStep ==
  ASSUME NEW fr, NEW r, Placed(fr), Steps(fr, r), InstAt(fr).op \in {"work", "phi"}
  PROVE  /\ Placed(r) /\ ~IsOwnCall(InstAt(r))
         /\ Seen(fr, "body", fr.fn) /\ Seen(r, "body", fr.fn)
<1>1. InstAt(fr) \notin Ends
  BY EndsOnly
<1>2. /\ Placed(r) /\ r.fn = fr.fn /\ InstAt(fr) \in Simple /\ InstAt(r) \in Idle
      /\ Returning(r) => InstAt(fr).region = "saved"
  BY <1>1, StepsOn DEF FollowedBy
<1>3. InstAt(fr) \in Idle /\ InstAt(fr).region = "-"
  BY <1>2, IdleAre DEF Simple
<1>4. ~Returning(fr) /\ ~Returning(r)
  BY <1>2, <1>3 DEF Returning, Return, Inst
<1> QED BY <1>2, <1>3, <1>4, IdleSeen

(* Read_Caller_addr, followed by Read_Caller_size.                         *)
LEMMA ReadAddrStep ==
  ASSUME NEW fr, NEW r, Placed(fr), Steps(fr, r), InstAt(fr) = ReadAddr
  PROVE  /\ Placed(r) /\ ~IsOwnCall(InstAt(r))
         /\ Seen(fr, "readAddr", fr.fn) /\ Seen(r, "readSize", fr.fn)
<1>1. InstAt(fr) \notin Ends
  BY EndsOnly, ReadIs
<1>2. Placed(r) /\ r.fn = fr.fn /\ InstAt(r) = ReadSize
  BY <1>1, StepsOn DEF FollowedBy
<1>3. ~IsOwnCall(InstAt(fr)) /\ ~IsOwnCall(InstAt(r))
  BY <1>2, ReadIs
<1>4. Point(fr) = "readAddr" /\ Point(r) = "readSize"
  BY <1>2, PointIs
<1> QED BY <1>2, <1>3, <1>4, SeenAt

(* In front of MPU_Config(own, 1).                                         *)
LEMMA OwnSeen ==
  ASSUME NEW r, NEW f, InstAt(r) = MpuConfig(f, 1)
  PROVE  ~IsOwnCall(InstAt(r)) /\ Seen(r, "own", r.fn)
<1>1. ~IsOwnCall(InstAt(r))
  BY ConfigIs
<1>2. Point(r) = "own"
  BY PointIs
<1> QED BY <1>1, <1>2, SeenAt

(* Read_Caller_size, followed by MPU_Config(own, 1).                       *)
LEMMA ReadSizeStep ==
  ASSUME NEW fr, NEW r, Placed(fr), Steps(fr, r), InstAt(fr) = ReadSize
  PROVE  /\ Placed(r) /\ ~IsOwnCall(InstAt(r))
         /\ Seen(fr, "readSize", fr.fn) /\ Seen(r, "own", fr.fn)
<1>1. InstAt(fr) \notin Ends
  BY EndsOnly, ReadIs
<1>2. Placed(r) /\ r.fn = fr.fn /\ InstAt(r) = MpuConfig(fr.fn, 1)
  BY <1>1, StepsOn DEF FollowedBy
<1>3. ~IsOwnCall(InstAt(fr))
  BY ReadIs
<1>4. Point(fr) = "readSize"
  BY PointIs
<1> QED BY <1>2, <1>3, <1>4, SeenAt, OwnSeen

(* MPU_Config(own, 1), followed by the body, and by no connected return.   *)
LEMMA OwnStep ==
  ASSUME NEW fr, NEW r, Placed(fr), Steps(fr, r), IsConfig(InstAt(fr)),
         InstAt(fr).region # "saved", InstAt(fr).num # 2
  PROVE  /\ Placed(r) /\ ~IsOwnCall(InstAt(r)) /\ InstAt(fr) = MpuConfig(fr.fn, 1)
         /\ Seen(fr, "own", fr.fn) /\ Seen(r, "body", fr.fn)
<1>1. InstAt(fr) \notin Ends
  BY EndsOnly DEF IsConfig
<1>2. /\ Placed(r) /\ r.fn = fr.fn /\ InstAt(fr) = MpuConfig(fr.fn, 1)
      /\ InstAt(r) \in Idle
      /\ ~Returning(r)
  BY <1>1, StepsOn DEF FollowedBy
<1> QED BY <1>2, OwnSeen, IdleSeen

(* MPU_Config(callee, 2), followed by the call of that very function.      *)
LEMMA CalleeStep ==
  ASSUME NEW fr, NEW r, Placed(fr), Steps(fr, r), IsConfig(InstAt(fr)),
         InstAt(fr).region # "saved", InstAt(fr).num = 2
  PROVE  \E g \in Function :
           /\ InstAt(fr) = MpuConfig(g, 2) /\ <<fr.fn, g>> \in Calls
           /\ Placed(r)
           /\ Seen(fr, "body", fr.fn) /\ Seen(r, "call", g)
<1>1. InstAt(fr) \notin Ends
  BY EndsOnly DEF IsConfig
<1>2. /\ Placed(r) /\ r.fn = fr.fn /\ fr.fn \in Function
      /\ fr.blk \in DOMAIN Program[fr.fn]
      /\ \E g \in Callees(fr.fn, fr.blk) : InstAt(fr) = MpuConfig(g, 2) /\ InstAt(r) = CallOf(g)
  BY <1>1, StepsOn DEF FollowedBy
<1>3. PICK g \in Callees(fr.fn, fr.blk) : InstAt(fr) = MpuConfig(g, 2) /\ InstAt(r) = CallOf(g)
  BY <1>2
<1>4. g \in Function /\ <<fr.fn, g>> \in Calls
  BY <1>2, CalleesAre
<1>5. InstAt(fr) \in Idle /\ ~Returning(fr)
  <2>1. InstAt(fr) # Return
    BY DEF Return, Inst, IsConfig, IsCall
  <2> QED BY <1>3, <1>4, <2>1, IdleAre DEF Returning
<1>6. IsOwnCall(InstAt(r)) /\ InstAt(r).callee = g
  BY <1>3, <1>4, IsFunction
<1>7. Seen(r, "call", g)
  BY <1>6, PointIs, SeenAt
<1> QED BY <1>2, <1>3, <1>4, <1>5, <1>7, IdleSeen

(* The call, behind which the caller opens itself again.                   *)
LEMMA CallStep ==
  ASSUME NEW fr, NEW r, Placed(fr), Steps(fr, r), IsOwnCall(InstAt(fr))
  PROVE  \E g \in Function :
           /\ g # Main /\ InstAt(fr).callee = g
           /\ Placed(r) /\ ~IsOwnCall(InstAt(r))
           /\ Seen(fr, "call", g) /\ Seen(r, "own", fr.fn)
<1>1. InstAt(fr) \notin Ends
  BY EndsOnly, OwnIs
<1>2. /\ Placed(r) /\ r.fn = fr.fn /\ fr.fn \in Function
      /\ fr.blk \in DOMAIN Program[fr.fn]
      /\ \E g \in Callees(fr.fn, fr.blk) :
           InstAt(fr) = CallOf(g) /\ InstAt(r) = MpuConfig(fr.fn, 1)
  BY <1>1, StepsOn DEF FollowedBy
<1>3. PICK g \in Callees(fr.fn, fr.blk) :
        InstAt(fr) = CallOf(g) /\ InstAt(r) = MpuConfig(fr.fn, 1)
  BY <1>2
<1>4. g \in Function /\ g # Main
  BY <1>2, CalleesAre
<1>5. InstAt(fr).callee = g
  BY <1>3, <1>4, IsFunction
<1>6. Seen(fr, "call", g)
  BY <1>5, PointIs, SeenAt
<1> QED BY <1>2, <1>3, <1>4, <1>5, <1>6, OwnSeen

(* MPU_Config(saved, 2), followed by the end of the last block: the        *)
(* return, where that block has one.                                       *)
LEMMA CallerStep ==
  ASSUME NEW fr, NEW r, Placed(fr), Steps(fr, r), IsConfig(InstAt(fr)),
         InstAt(fr).region = "saved"
  PROVE  /\ InstAt(fr).num = 2 /\ fr.fn # Main
         /\ Placed(r) /\ ~IsOwnCall(InstAt(r))
         /\ Seen(fr, "body", fr.fn)
         /\ Seen(r, IF fr.fn \in ReturnsLast THEN "return" ELSE "body", fr.fn)
<1> DEFINE f == fr.fn
           k == fr.blk
<1>1. InstAt(fr) \notin Ends
  BY EndsOnly DEF IsConfig
<1>2. /\ Placed(r) /\ r.fn = fr.fn /\ f \in Function /\ k \in DOMAIN Program[f]
      /\ InstAt(fr) = Saved /\ Saved \in Savers(f, k) /\ InstAt(r) \in Ends
      /\ Returning(r) <=> InstAt(r) = Return /\ f \in ReturnsLast
  BY <1>1, StepsOn DEF FollowedBy
<1>3. f # Main /\ k = Len(Program[f])
  BY <1>2 DEF Savers
<1>4. InstAt(r) = Last(Program[f][k])
  <2>1. r.blk = k
    BY DEF Steps
  <2> QED BY <1>2, <2>1, PlacedIs
<1>5. f \in ReturnsLast => InstAt(r) = Return
  BY <1>2, <1>3, <1>4 DEF ReturnsLast
<1>6. Returning(r) <=> f \in ReturnsLast
  BY <1>2, <1>5
<1>7. InstAt(fr).num = 2 /\ InstAt(fr) \in Idle /\ InstAt(r) \in Idle
  BY <1>2, ConfigIs, IdleAre DEF Saved
<1>8. ~Returning(fr)
  BY DEF Returning, Return, Inst, IsConfig, IsCall
<1> QED BY <1>2, <1>3, <1>6, <1>7, <1>8, IdleSeen

(* The first instruction of a block.                                       *)
LEMMA BlockStart ==
  ASSUME NEW r \in StackFrame, r.blk \in DOMAIN Program[r.fn], r.pos = 1
  PROVE  Placed(r) /\ InstAt(r) \in Opener(r.fn, r.blk)
<1> DEFINE f == r.fn
           k == r.blk
           b == Code[f][k]
<1>1. f \in Function /\ k \in DOMAIN Program[f]
  BY DEF StackFrame
<1>2. Runs(f, k, b)
  BY <1>1, CodeRuns
<1>3. b \in Seq(Instr) /\ Len(b) # 0 /\ b[1] \in Opener(f, k)
  BY <1>2 DEF Runs, Behind
<1>4. 1 \in 1 .. Len(b)
  BY <1>3
<1> QED BY <1>3, <1>4 DEF Placed, InstAt

(* A branch, to the start of a block that is not the first.                *)
LEMMA JumpStep ==
  ASSUME NEW fr, NEW r \in StackFrame, NEW k, Placed(fr), InstAt(fr).op = "br",
         k \in InstAt(fr).to, r.fn = fr.fn, r.blk = k, r.pos = 1
  PROVE  /\ Placed(r) /\ ~IsOwnCall(InstAt(r))
         /\ Seen(fr, "body", fr.fn) /\ Seen(r, "body", fr.fn)
<1> DEFINE f == fr.fn
           h == fr.blk
           b == Program[f][h]
<1>1. f \in Function /\ h \in DOMAIN Program[f] /\ InstAt(fr) \in Instr
  BY PlacedIs DEF Placed, StackFrame
<1>2. InstAt(fr) \in Ends
  BY <1>1 DEF Ends
<1>3. InstAt(fr) = b[Len(b)]
  BY <1>2, PlacedIs DEF Last
<1>4. b \in BasicBlock(Names) /\ Compiled(f, b) /\ Len(Program[f]) \in Nat
      /\ DOMAIN Program[f] = 1 .. Len(Program[f])
  BY <1>1, ProgramBlock, IsFunction
<1>5. Len(b) \in 1 .. Len(b)
  <2> HIDE DEF b
  <2> QED BY <1>4, ElementType, EmptySeq DEF Compiled, BasicBlock
<1>6. b[Len(b)].to \subseteq 2 .. Len(Program[f])
  BY <1>1, <1>5, CompiledIs
<1>7. k \in 2 .. Len(Program[f])
  BY <1>3, <1>6
<1>8. k \in DOMAIN Program[f] /\ k # 1
  BY <1>4, <1>7
<1>9. Placed(r) /\ InstAt(r) \in Opener(f, k)
  BY <1>8, BlockStart
<1>10. InstAt(r) \in Idle
  BY <1>8, <1>9 DEF Opener
<1>11. InstAt(fr) \in Idle /\ ~Returning(fr)
  BY <1>2, IdleAre DEF Returning, Return, Inst
<1>12. ~Returning(r)
  BY DEF Returning
<1> QED BY <1>9, <1>10, <1>11, <1>12, IdleSeen

(* A function that is entered reads its caller first, main opens itself.   *)
LEMMA EntryStep ==
  ASSUME NEW f \in Function
  PROVE  LET r == EntryFrame(f)
         IN  /\ Placed(r) /\ ~IsOwnCall(InstAt(r))
             /\ Seen(r, IF f = Main THEN "own" ELSE "readAddr", f)
             /\ r.fn = f /\ r.addr = 0 /\ r.size = 0
<1> DEFINE r == EntryFrame(f)
<1>1. r \in StackFrame /\ r.fn = f /\ r.blk = 1 /\ r.pos = 1 /\ r.addr = 0 /\ r.size = 0
  BY DEF EntryFrame, StackFrame
<1>2. 1 \in DOMAIN Program[f]
  <2>1. Program[f] \in Seq(BasicBlock(Names)) /\ Program[f] # <<>>
    BY IsFunction, ProgramAssumption
  <2> QED BY <2>1, EmptySeq
<1> HIDE DEF r
<1>3. Placed(r) /\ InstAt(r) \in Opener(f, 1)
  BY <1>1, <1>2, BlockStart
<1>4. CASE f = Main
  <2>1. InstAt(r) = MpuConfig(f, 1)
    BY <1>3, <1>4 DEF Opener
  <2> QED BY <1>1, <1>3, <1>4, <2>1, OwnSeen DEF r
<1>5. CASE f # Main
  <2>1. InstAt(r) = ReadAddr
    BY <1>3, <1>5 DEF Opener
  <2>2. ~IsOwnCall(InstAt(r)) /\ Point(r) = "readAddr"
    BY <2>1, ReadIs, PointIs
  <2> QED BY <1>1, <1>3, <1>5, <2>2, SeenAt DEF r
<1> QED BY <1>4, <1>5

(* A return: behind the caller's configuration when the block is the last  *)
(* one of a function that only returns from there.                         *)
LEMMA ReturnStep ==
  ASSUME NEW fr, Placed(fr), InstAt(fr) = Return
  PROVE  \/ Seen(fr, "return", fr.fn)
         \/ Seen(fr, "body", fr.fn) /\ (fr.fn = Main \/ fr.fn \notin ReturnsLast)
<1> DEFINE f == fr.fn
           k == fr.blk
           b == Code[f][k]
<1>1. f \in Function /\ k \in DOMAIN Program[f] /\ InstAt(fr) \in Instr
  BY PlacedIs DEF Placed, StackFrame
<1>2. InstAt(fr) \in Ends
  BY <1>1 DEF Ends, Return, Inst
<1>3. fr.pos = Len(b) /\ Last(Program[f][k]) = Return
  BY <1>2, PlacedIs
<1>4. InstAt(fr) \in Idle
  BY <1>2, IdleAre
<1>5. ASSUME f # Main, f \in ReturnsLast PROVE Returning(fr)
  <2>1. k = Len(Program[f])
    BY <1>1, <1>3, <1>5 DEF ReturnsLast
  <2>2. Runs(f, k, b)
    BY <1>1, CodeRuns
  <2>3. Len(b) > 1 /\ b[Len(b) - 1] = Saved
    BY <1>5, <2>1, <2>2 DEF Runs
  <2>4. Saved.region = "saved"
    BY ConfigIs DEF Saved
  <2> QED BY <1>3, <1>5, <2>3, <2>4 DEF Returning
<1> QED BY <1>4, <1>5, IdleSeen

-----------------------------------------------------------------------------
(* The stack.                                                              *)

(* A stack whose frames are at instructions, with room above every frame   *)
(* that is about to call.                                                  *)
StackOK(s) ==
  /\ s \in Seq(StackFrame)
  /\ Len(s) <= MaxDepth
  /\ \A d \in 1 .. Len(s) :
       Placed(s[d]) /\ (IsOwnCall(InstAt(s[d])) => d < MaxDepth)

(* The stack with r in the place of its top.                               *)
Upd(s, r) == [s EXCEPT ![Len(s)] = r]

(* What CallGuard sees where there is no frame.                            *)
Rest == [fn |-> Main, pc |-> "own", callee |-> Main, addr |-> 0, size |-> 0]

(* The frames of Frames(s), ...                                            *)
LEMMA FramesAt ==
  ASSUME NEW s, NEW d \in 1 .. MaxDepth
  PROVE  Frames(s)[d] = IF d <= Len(s) THEN GuardFrame(s[d]) ELSE Rest
BY DEF Frames, Rest

(* ... and a function that has them.                                       *)
LEMMA FramesIs ==
  ASSUME NEW s, NEW F, DOMAIN F = 1 .. MaxDepth, F = [d \in DOMAIN F |-> F[d]],
         \A d \in 1 .. MaxDepth : F[d] = IF d <= Len(s) THEN GuardFrame(s[d]) ELSE Rest
  PROVE  Frames(s) = F
BY DEF Frames, Rest

(* The top of a stack.                                                     *)
LEMMA StackTop ==
  ASSUME NEW s, StackOK(s), Len(s) # 0
  PROVE  /\ Len(s) \in 1 .. MaxDepth /\ Placed(s[Len(s)])
         /\ s[Len(s)] \in StackFrame
         /\ IsOwnCall(InstAt(s[Len(s)])) => Len(s) < MaxDepth
         /\ Frames(s)[Len(s)] = GuardFrame(s[Len(s)])
<1>1. Len(s) \in 1 .. MaxDepth /\ Len(s) \in 1 .. Len(s)
  BY DepthAssumption DEF StackOK
<1>2. Len(s) <= Len(s)
  BY <1>1
<1>3. Frames(s)[Len(s)] = GuardFrame(s[Len(s)])
  BY <1>1, <1>2, FramesAt
<1> QED BY <1>1, <1>3 DEF StackOK

(* A step of the frame on top keeps the stack in order, ...                *)
LEMMA StackMove ==
  ASSUME NEW s, NEW r, StackOK(s), Len(s) # 0, Placed(r),
         IsOwnCall(InstAt(r)) => Len(s) < MaxDepth
  PROVE  /\ StackOK(Upd(s, r)) /\ Len(Upd(s, r)) = Len(s)
         /\ Frames(Upd(s, r)) = [Frames(s) EXCEPT ![Len(s)] = GuardFrame(r)]
<1> DEFINE u == Upd(s, r)
           n == Len(s)
           F == Frames(s)
           G == [F EXCEPT ![n] = GuardFrame(r)]
<1>1. n \in 1 .. MaxDepth /\ s \in Seq(StackFrame) /\ r \in StackFrame /\ n \in 1 .. n
  BY StackTop DEF StackOK, Placed
<1>2. u \in Seq(StackFrame) /\ Len(u) = n
      /\ \A d \in 1 .. n : u[d] = IF d = n THEN r ELSE s[d]
  BY <1>1 DEF Upd
<1> HIDE DEF u
<1>3. StackOK(u)
  BY <1>1, <1>2 DEF StackOK
<1>4. DOMAIN F = 1 .. MaxDepth
  BY DEF Frames
<1>5. \A d \in 1 .. MaxDepth : F[d] = IF d <= n THEN GuardFrame(s[d]) ELSE Rest
  BY FramesAt
<1> HIDE DEF F
<1>6. DOMAIN G = 1 .. MaxDepth /\ G = [d \in DOMAIN G |-> G[d]]
  BY <1>4
<1>7. \A d \in 1 .. MaxDepth : G[d] = IF d <= Len(u) THEN GuardFrame(u[d]) ELSE Rest
  BY <1>1, <1>2, <1>4, <1>5
<1> HIDE DEF G
<1>8. Frames(u) = G
  BY <1>6, <1>7, FramesIs
<1> QED BY <1>2, <1>3, <1>8 DEF u, G, F

(* ... so does a new frame, for which there is room, ...                   *)
LEMMA StackPush ==
  ASSUME NEW s, NEW e, StackOK(s), Len(s) < MaxDepth, Placed(e), ~IsOwnCall(InstAt(e))
  PROVE  /\ StackOK(Append(s, e)) /\ Len(Append(s, e)) = Len(s) + 1
         /\ Len(s) + 1 \in 1 .. MaxDepth
         /\ Frames(Append(s, e)) = [Frames(s) EXCEPT ![Len(s) + 1] = GuardFrame(e)]
<1> DEFINE u == Append(s, e)
           n == Len(s)
           F == Frames(s)
           G == [F EXCEPT ![n + 1] = GuardFrame(e)]
<1>1. n \in Nat /\ s \in Seq(StackFrame) /\ e \in StackFrame /\ MaxDepth \in Nat
      /\ n < MaxDepth
  BY DepthAssumption DEF StackOK, Placed
<1>2. /\ u \in Seq(StackFrame) /\ Len(u) = n + 1
      /\ \A d \in 1 .. n : u[d] = s[d]
      /\ u[n + 1] = e
  BY <1>1
<1> HIDE DEF u
<1>3. StackOK(u)
  <2>1. ASSUME NEW d \in 1 .. n + 1
        PROVE  Placed(u[d]) /\ (IsOwnCall(InstAt(u[d])) => d < MaxDepth)
    <3>1. CASE d \in 1 .. n
      <4>1. Placed(s[d]) /\ (IsOwnCall(InstAt(s[d])) => d < MaxDepth)
        BY <3>1 DEF StackOK
      <4>2. u[d] = s[d]
        BY <1>2, <3>1
      <4> QED BY <4>1, <4>2
    <3>2. CASE d = n + 1
      <4>1. u[d] = e
        BY <1>2, <3>2, Zenon
      <4> QED BY <4>1
    <3> QED BY <1>1, <3>1, <3>2
  <2>2. n + 1 <= MaxDepth
    BY <1>1
  <2> QED BY <1>2, <2>1, <2>2 DEF StackOK
<1>4. DOMAIN F = 1 .. MaxDepth
  BY DEF Frames
<1>5. \A d \in 1 .. MaxDepth : F[d] = IF d <= n THEN GuardFrame(s[d]) ELSE Rest
  BY FramesAt
<1> HIDE DEF F
<1>6. DOMAIN G = 1 .. MaxDepth /\ G = [d \in DOMAIN G |-> G[d]]
  BY <1>4
<1>7. ASSUME NEW d \in 1 .. MaxDepth
      PROVE  G[d] = IF d <= Len(u) THEN GuardFrame(u[d]) ELSE Rest
  <2>1. CASE d = n + 1
    <3>1. G[d] = GuardFrame(e) /\ d <= Len(u)
      BY <1>1, <1>2, <1>4, <2>1
    <3>2. u[d] = e
      BY <1>2, <2>1, Zenon
    <3> QED BY <3>1, <3>2
  <2>2. CASE d # n + 1
    <3>1. G[d] = F[d] /\ (d <= Len(u) <=> d <= n) /\ (d <= n => d \in 1 .. n)
      BY <1>1, <1>2, <1>4, <2>2
    <3> QED BY <1>2, <1>5, <3>1
  <2> QED BY <2>1, <2>2
<1> HIDE DEF G
<1>8. Frames(u) = G
  BY <1>6, <1>7, FramesIs
<1> QED BY <1>1, <1>2, <1>3, <1>8 DEF u, G, F

(* ... and the end of the top frame.                                       *)
LEMMA StackPop ==
  ASSUME NEW s, StackOK(s), Len(s) # 0
  PROVE  /\ StackOK(Front(s)) /\ Len(Front(s)) = Len(s) - 1
         /\ Frames(Front(s)) = [Frames(s) EXCEPT ![Len(s)] = Rest]
<1> DEFINE u == Front(s)
           n == Len(s)
           F == Frames(s)
           G == [F EXCEPT ![n] = Rest]
<1>1. n \in 1 .. MaxDepth /\ s \in Seq(StackFrame) /\ n \in 1 .. n /\ MaxDepth \in Nat
  BY StackTop, DepthAssumption DEF StackOK
<1>2. u \in Seq(StackFrame) /\ Len(u) = n - 1
      /\ \A d \in 1 .. n - 1 : u[d] = s[d]
  <2>1. PICK p \in Seq(StackFrame) : s = Then(p, One(s[n])) /\ s[n] \in StackFrame
    BY <1>1, SplitEnd
  <2>2. u = p
    <3> DEFINE x == s[n]
    <3>1. x \in StackFrame /\ s = Then(p, One(x))
      BY <2>1
    <3> HIDE DEF x
    <3>2. Front(Then(p, One(x))) = p
      BY <3>1, EndThen
    <3> QED BY <3>1, <3>2
  <2>3. One(s[n]) \in Seq(StackFrame) /\ Single(One(s[n]), s[n])
    BY <2>1, OneIs
  <2>4. Joins(s, p, One(s[n])) /\ Len(p) \in Nat
    BY <2>1, <2>3, ThenJoins
  <2>5. Len(s) = Len(p) + 1 /\ \A d \in 1 .. Len(p) : s[d] = p[d]
    BY <2>3, <2>4 DEF Joins, Single
  <2> QED BY <2>2, <2>4, <2>5
<1> HIDE DEF u
<1>3. StackOK(u)
  BY <1>1, <1>2 DEF StackOK
<1>4. DOMAIN F = 1 .. MaxDepth
  BY DEF Frames
<1>5. \A d \in 1 .. MaxDepth : F[d] = IF d <= n THEN GuardFrame(s[d]) ELSE Rest
  BY FramesAt
<1> HIDE DEF F
<1>6. DOMAIN G = 1 .. MaxDepth /\ G = [d \in DOMAIN G |-> G[d]]
  BY <1>4
<1>7. \A d \in 1 .. MaxDepth : G[d] = IF d <= Len(u) THEN GuardFrame(u[d]) ELSE Rest
  BY <1>1, <1>2, <1>4, <1>5
<1> HIDE DEF G
<1>8. Frames(u) = G
  BY <1>6, <1>7, FramesIs
<1> QED BY <1>2, <1>3, <1>8 DEF u, G, F

-----------------------------------------------------------------------------
(* The inductive invariant, and the steps.                                 *)

(* The registers hold words.                                               *)
RegistersOK ==
  /\ ctrl \in {CtrlOff, CtrlOn}
  /\ rnr \in Region
  /\ rbar \in [Region -> Nat]
  /\ rasr \in [Region -> Nat]

(* The inductive invariant.                                                *)
IInv == RegistersOK /\ StackOK(stack)

(* The frame on top after an action is r.                                  *)
Becomes(r) ==
  /\ Placed(r)
  /\ IsOwnCall(InstAt(r)) => depth < MaxDepth
  /\ stack' = Upd(stack, r)

(* The frame that runs.                                                    *)
LEMMA TopIs ==
  ASSUME IInv, Running
  PROVE  /\ depth \in 1 .. MaxDepth /\ Placed(Top) /\ Top \in StackFrame
         /\ IsOwnCall(I) => depth < MaxDepth
         /\ I = InstAt(Top)
         /\ Frames(stack)[depth] = GuardFrame(Top)
<1>1. StackOK(stack) /\ Len(stack) # 0
  BY DEF IInv, Running, depth
<1> QED BY <1>1, StackTop DEF depth, Top, I

(* What its step does to CallGuard's frames.                               *)
LEMMA TopMoves ==
  ASSUME IInv, Running, NEW r, Becomes(r)
  PROVE  /\ StackOK(stack') /\ depth' = depth
         /\ Frames(stack') = [Frames(stack) EXCEPT ![depth] = GuardFrame(r)]
<1>1. StackOK(stack) /\ Len(stack) # 0
  BY DEF IInv, Running, depth
<1> QED BY <1>1, StackMove DEF Becomes, depth

(* The fields of such a frame, ...                                         *)
LEMMA FieldsAre ==
  ASSUME NEW f, NEW p, NEW g, NEW a, NEW s
  PROVE  /\ FrameOf(f, p, g, a, s).fn = f /\ FrameOf(f, p, g, a, s).pc = p
         /\ FrameOf(f, p, g, a, s).callee = g /\ FrameOf(f, p, g, a, s).addr = a
         /\ FrameOf(f, p, g, a, s).size = s
BY DEF FrameOf

(* CallGuard's changes of a frame.                                         *)
SetPc(F, d, q)        == [F EXCEPT ![d].pc = q]
SetCallee(F, d, q, x) == [F EXCEPT ![d].pc = q, ![d].callee = x]
SetAddr(F, d, q, x)   == [F EXCEPT ![d].pc = q, ![d].addr = x]
SetSize(F, d, q, x)   == [F EXCEPT ![d].pc = q, ![d].size = x]
SetFrame(F, d, r)     == [F EXCEPT ![d] = r]

(* ... and CallGuard's changes of them.                                    *)
LEMMA FrameSet ==
  ASSUME NEW F, NEW d \in DOMAIN F, NEW f, NEW p, NEW g, NEW a, NEW s, NEW q, NEW x,
         F[d] = FrameOf(f, p, g, a, s)
  PROVE  /\ SetPc(F, d, q) = SetFrame(F, d, FrameOf(f, q, g, a, s))
         /\ SetCallee(F, d, q, x) = SetFrame(F, d, FrameOf(f, q, x, a, s))
         /\ SetAddr(F, d, q, x) = SetFrame(F, d, FrameOf(f, q, g, x, s))
         /\ SetSize(F, d, q, x) = SetFrame(F, d, FrameOf(f, q, g, a, x))
<1> DEFINE r == F[d]
           u == [r EXCEPT !.pc = q]
<1>1. r = FrameOf(f, p, g, a, s)
  OBVIOUS
<1>2. u = FrameOf(f, q, g, a, s)
  BY <1>1 DEF FrameOf
<1>3. SetPc(F, d, q) = SetFrame(F, d, u)
  BY DEF SetPc, SetFrame
<1>4. SetCallee(F, d, q, x) = SetFrame(F, d, [u EXCEPT !.callee = x])
  BY DEF SetCallee, SetFrame
<1>5. SetAddr(F, d, q, x) = SetFrame(F, d, [u EXCEPT !.addr = x])
  BY DEF SetAddr, SetFrame
<1>6. SetSize(F, d, q, x) = SetFrame(F, d, [u EXCEPT !.size = x])
  BY DEF SetSize, SetFrame
<1> HIDE DEF u
<1>7. [u EXCEPT !.callee = x] = FrameOf(f, q, x, a, s)
  BY <1>2 DEF FrameOf
<1>8. [u EXCEPT !.addr = x] = FrameOf(f, q, g, x, s)
  BY <1>2 DEF FrameOf
<1>9. [u EXCEPT !.size = x] = FrameOf(f, q, g, a, x)
  BY <1>2 DEF FrameOf
<1> QED BY <1>2, <1>3, <1>4, <1>5, <1>6, <1>7, <1>8, <1>9, Zenon

(* The words of a register are the same to both modules.                   *)
LEMMA Words ==
  /\ Guard!CtrlOn = CtrlOn /\ Guard!CtrlOff = CtrlOff /\ Guard!Region = Region
  /\ \A w : Guard!BaseField(w) = BaseField(w) /\ Guard!SizeOf(w) = SizeOf(w)
  /\ \A w : Guard!ConfigAttributes(w) = ConfigAttributes(w)
  /\ \A w, n : Guard!RbarRead(w, n) = RbarRead(w, n)
<1>1. \A w : SizeField(w) = Guard!SizeField(w)
  BY DEF SizeField, Guard!SizeField
<1> QED BY <1>1 DEF Guard!CtrlOn, CtrlOn, Guard!CtrlOff, CtrlOff, Guard!Region, Region,
     Guard!BaseField, BaseField, Guard!SizeOf, SizeOf, Guard!ConfigAttributes,
     ConfigAttributes, Guard!RbarRead, RbarRead

(* What CallGuard sees of a step that changes the frame on top to r.       *)
LEMMA GuardMoves ==
  ASSUME IInv, Running, NEW r, NEW p, NEW g, NEW q, NEW h, Becomes(r), r.fn = Top.fn,
         Seen(Top, p, g), Seen(r, q, h)
  PROVE  /\ StackOK(stack') /\ depth' = depth /\ depth \in 1 .. MaxDepth
         /\ Guard!At(p) /\ Guard!Top = FrameOf(Top.fn, p, g, Top.addr, Top.size)
         /\ h = g /\ r.addr = Top.addr /\ r.size = Top.size =>
              Frames(stack)' = SetPc(Frames(stack), depth, q)
         /\ r.addr = Top.addr /\ r.size = Top.size =>
              Frames(stack)' = SetCallee(Frames(stack), depth, q, h)
         /\ h = g /\ r.size = Top.size =>
              Frames(stack)' = SetAddr(Frames(stack), depth, q, r.addr)
         /\ h = g /\ r.addr = Top.addr =>
              Frames(stack)' = SetSize(Frames(stack), depth, q, r.size)
         /\ q = p /\ h = g /\ r.addr = Top.addr /\ r.size = Top.size =>
              Frames(stack)' = Frames(stack)
<1> DEFINE F == Frames(stack)
           f == Top.fn
           a == Top.addr
           z == Top.size
           w == FrameOf(f, p, g, a, z)
           x == r.addr
           y == r.size
           v == FrameOf(f, q, h, x, y)
<1>1. depth \in 1 .. MaxDepth /\ F[depth] = w
  BY TopIs DEF Seen
<1>2. /\ StackOK(stack') /\ depth' = depth
      /\ Frames(stack)' = SetFrame(F, depth, v)
  BY TopMoves DEF SetFrame, Seen
<1>3. DOMAIN F = 1 .. MaxDepth
  BY DEF Frames
<1>4. Guard!Top = w
  BY <1>1 DEF Guard!Top
<1>5. Guard!At(p)
  <2>1. depth > 0
    BY DEF Running
  <2> QED BY <1>4, <2>1, FieldsAre DEF Guard!At
<1> HIDE DEF F, f, a, z, x, y
<1>6. depth \in DOMAIN F /\ F[depth] = FrameOf(f, p, g, a, z)
  BY <1>1, <1>3
<1>7. SetPc(F, depth, q) = SetFrame(F, depth, FrameOf(f, q, g, a, z))
  BY <1>6, FrameSet
<1>8. SetCallee(F, depth, q, h) = SetFrame(F, depth, FrameOf(f, q, h, a, z))
  BY <1>6, FrameSet
<1>9. SetAddr(F, depth, q, x) = SetFrame(F, depth, FrameOf(f, q, g, x, z))
  BY <1>6, FrameSet
<1>10. SetSize(F, depth, q, y) = SetFrame(F, depth, FrameOf(f, q, g, a, y))
  BY <1>6, FrameSet
<1>11. SetFrame(F, depth, F[depth]) = F
  BY DEF SetFrame, F, Frames
<1>12. q = p /\ h = g /\ x = a /\ y = z => Frames(stack)' = F
  BY <1>2, <1>6, <1>11
<1> HIDE DEF v, w
<1>13. h = g /\ x = a /\ y = z => Frames(stack)' = SetPc(F, depth, q)
  BY <1>2, <1>7 DEF v
<1>14. x = a /\ y = z => Frames(stack)' = SetCallee(F, depth, q, h)
  BY <1>2, <1>8 DEF v
<1>15. h = g /\ y = z => Frames(stack)' = SetAddr(F, depth, q, x)
  BY <1>2, <1>9 DEF v
<1>16. h = g /\ x = a => Frames(stack)' = SetSize(F, depth, q, y)
  BY <1>2, <1>10 DEF v
<1> QED BY <1>1, <1>2, <1>4, <1>5, <1>12, <1>13, <1>14, <1>15, <1>16 DEF F, f, a, z, x, y, w

(* A change of one value read on entry.                                    *)
LEMMA MovedAddr ==
  ASSUME NEW fr \in StackFrame, NEW v \in Nat
  PROVE  LET r == [Moved(fr) EXCEPT !.addr = v]
         IN  Steps(fr, r) /\ r.addr = v /\ r.size = fr.size
<1> DEFINE m == Moved(fr)
<1>1. m \in StackFrame /\ m.fn = fr.fn /\ m.blk = fr.blk /\ m.pos = fr.pos + 1
      /\ m.size = fr.size
  BY MovedIs
<1> HIDE DEF m
<1>2. [m EXCEPT !.addr = v] \in StackFrame
  BY <1>1 DEF StackFrame
<1> QED BY <1>1, <1>2 DEF Steps, m, StackFrame

(* The same of the size.                                                   *)
LEMMA MovedSize ==
  ASSUME NEW fr \in StackFrame, NEW v \in 0 .. 31
  PROVE  LET r == [Moved(fr) EXCEPT !.size = v]
         IN  Steps(fr, r) /\ r.addr = fr.addr /\ r.size = v
<1> DEFINE m == Moved(fr)
<1>1. m \in StackFrame /\ m.fn = fr.fn /\ m.blk = fr.blk /\ m.pos = fr.pos + 1
      /\ m.addr = fr.addr
  BY MovedIs
<1> HIDE DEF m
<1>2. [m EXCEPT !.size = v] \in StackFrame
  BY <1>1 DEF StackFrame
<1> QED BY <1>1, <1>2 DEF Steps, m, StackFrame

(* A step that reads nothing.                                              *)
LEMMA MovedPlain ==
  ASSUME NEW fr \in StackFrame
  PROVE  LET r == Moved(fr)
         IN  Steps(fr, r) /\ r.fn = fr.fn /\ r.addr = fr.addr /\ r.size = fr.size
BY MovedIs DEF Steps

(* Advance moves the frame on top to its next instruction.                 *)
LEMMA AdvanceIs == Advance => stack' = Upd(stack, Moved(Top))
BY DEF Advance, Upd, Moved, Top, depth

(* The steps, one by one: each keeps IInv and is the step of CallGuard     *)
(* that the action stands for. Read_Caller_addr.                           *)
LEMMA ReadCallerAddrStep == IInv /\ ReadCallerAddr => IInv' /\ Guard!ReadAddr
<1> SUFFICES ASSUME IInv, ReadCallerAddr PROVE IInv' /\ Guard!ReadAddr
  OBVIOUS
<1> DEFINE v == BaseField(RbarRead(rbar[1], 1))
           r == [Moved(Top) EXCEPT !.addr = v]
<1>1. Running /\ I = ReadAddr /\ rnr' = 1 /\ UNCHANGED <<ctrl, rbar, rasr>>
  BY DEF ReadCallerAddr
<1>2. Placed(Top) /\ Top \in StackFrame /\ InstAt(Top) = ReadAddr
  BY <1>1, TopIs
<1>3. v \in Nat
  BY DEF IInv, RegistersOK, BaseField, RbarRead, Region
<1>4. stack' = Upd(stack, r)
  BY DEF ReadCallerAddr, Upd, Moved, Top, depth
<1> HIDE DEF v
<1>5. Steps(Top, r) /\ r.addr = v /\ r.size = Top.size
  BY <1>2, <1>3, MovedAddr
<1> HIDE DEF r
<1>6. /\ Becomes(r) /\ r.fn = Top.fn
      /\ Seen(Top, "readAddr", Top.fn) /\ Seen(r, "readSize", Top.fn)
  BY <1>2, <1>4, <1>5, ReadAddrStep DEF Steps, Becomes
<1>7. /\ StackOK(stack') /\ depth' = depth /\ Guard!At("readAddr")
      /\ Frames(stack)' = SetAddr(Frames(stack), depth, "readSize", v)
  BY <1>1, <1>5, <1>6, GuardMoves
<1>8. IInv'
  BY <1>1, <1>7 DEF IInv, RegistersOK, Region
<1>9. v = Guard!BaseField(Guard!RbarRead(rbar[rnr'], rnr'))
  BY <1>1, Words DEF v
<1>10. Guard!ReadAddr
  BY <1>1, <1>7, <1>9, Zenon DEF Guard!ReadAddr, SetAddr
<1> QED BY <1>8, <1>10

(* Read_Caller_size.                                                       *)
LEMMA ReadCallerSizeStep == IInv /\ ReadCallerSize => IInv' /\ Guard!ReadSize
<1> SUFFICES ASSUME IInv, ReadCallerSize PROVE IInv' /\ Guard!ReadSize
  OBVIOUS
<1> DEFINE v == SizeOf(rasr[1])
           r == [Moved(Top) EXCEPT !.size = v]
<1>1. Running /\ I = ReadSize /\ rnr' = 1 /\ UNCHANGED <<ctrl, rbar, rasr>>
  BY DEF ReadCallerSize
<1>2. Placed(Top) /\ Top \in StackFrame /\ InstAt(Top) = ReadSize
  BY <1>1, TopIs
<1>3. v \in 0 .. 31
  BY DEF IInv, RegistersOK, SizeOf, Region
<1>4. stack' = Upd(stack, r)
  BY DEF ReadCallerSize, Upd, Moved, Top, depth
<1> HIDE DEF v
<1>5. Steps(Top, r) /\ r.size = v /\ r.addr = Top.addr
  BY <1>2, <1>3, MovedSize
<1> HIDE DEF r
<1>6. /\ Becomes(r) /\ r.fn = Top.fn
      /\ Seen(Top, "readSize", Top.fn) /\ Seen(r, "own", Top.fn)
  BY <1>2, <1>4, <1>5, ReadSizeStep DEF Steps, Becomes
<1>7. /\ StackOK(stack') /\ depth' = depth /\ Guard!At("readSize")
      /\ Frames(stack)' = SetSize(Frames(stack), depth, "own", v)
  BY <1>1, <1>5, <1>6, GuardMoves
<1>8. IInv'
  BY <1>1, <1>7 DEF IInv, RegistersOK, Region
<1>9. v = Guard!SizeOf(rasr[rnr'])
  BY <1>1, Words DEF v
<1>10. Guard!ReadSize
  BY <1>1, <1>7, <1>9, Zenon DEF Guard!ReadSize, SetSize
<1> QED BY <1>8, <1>10

(* MPU_Config leaves words in the registers.                               *)
LEMMA ConfigureTypes ==
  ASSUME RegistersOK, NEW start \in Nat, NEW size \in Nat, NEW num \in 1 .. 2,
         Guard!Configure(start, size, num)
  PROVE  RegistersOK'
<1>1. Guard!BaseField(start) \in Nat /\ Guard!ConfigAttributes(size) \in Nat
  BY Words DEF BaseField, ConfigAttributes, SizeField
<1>2. num \in Region
  BY DEF Region
<1>3. /\ ctrl' = CtrlOn /\ rnr' = num
      /\ rbar' = [rbar EXCEPT ![num] = Guard!BaseField(start)]
      /\ rasr' = [rasr EXCEPT ![num] = Guard!ConfigAttributes(size)]
  BY Words DEF Guard!Configure
<1> QED BY <1>1, <1>2, <1>3 DEF RegistersOK

(* MPU_Config(own, 1), at the start and behind calls.                      *)
LEMMA ConfigureOwnStep ==
  IInv /\ ConfigureListed /\ I.num # 2 => IInv' /\ Guard!ConfigureOwn
<1> SUFFICES ASSUME IInv, ConfigureListed, I.num # 2 PROVE IInv' /\ Guard!ConfigureOwn
  OBVIOUS
<1> DEFINE r == Moved(Top)
           f == Top.fn
<1>1. /\ Running /\ IsConfig(I) /\ I.region # "saved" /\ Advance
      /\ Guard!Configure(RegionStart[I.region], RegionSize[I.region], I.num)
  BY DEF ConfigureListed
<1>2. Placed(Top) /\ Top \in StackFrame /\ InstAt(Top) = I /\ f \in Function
  BY <1>1, TopIs DEF StackFrame
<1>3. stack' = Upd(stack, r)
  BY <1>1, AdvanceIs
<1>4. Steps(Top, r) /\ r.addr = Top.addr /\ r.size = Top.size /\ r.fn = f
  BY <1>2, MovedPlain
<1> HIDE DEF r, f
<1>5. /\ Becomes(r) /\ I = MpuConfig(f, 1)
      /\ Seen(Top, "own", f) /\ Seen(r, "body", f)
  BY <1>1, <1>2, <1>3, <1>4, OwnStep DEF Becomes, f
<1>6. I.region = f /\ I.num = 1
  BY <1>5, ConfigIs
<1>7. /\ StackOK(stack') /\ depth' = depth /\ Guard!At("own")
      /\ Guard!Top = FrameOf(f, "own", f, Top.addr, Top.size)
      /\ Frames(stack)' = SetPc(Frames(stack), depth, "body")
  BY <1>1, <1>4, <1>5, GuardMoves DEF f
<1>8. Guard!Configure(RegionStart[f], RegionSize[f], 1)
  BY <1>1, <1>6
<1>9. RegionStart[f] \in Nat /\ RegionSize[f] \in Nat
  BY <1>2, RegionAssumption
<1>10. IInv'
  BY <1>7, <1>8, <1>9, ConfigureTypes DEF IInv
<1>11. Guard!Top.fn = f
  BY <1>7, FieldsAre
<1>12. Guard!Goto("body")
  BY <1>7 DEF Guard!Goto, SetPc
<1>13. Guard!ConfigureOwn
  BY <1>7, <1>8, <1>11, <1>12, Zenon DEF Guard!ConfigureOwn
<1> QED BY <1>10, <1>13

(* MPU_Config(callee, 2), before a call.                                   *)
LEMMA ConfigureCalleeStep ==
  IInv /\ ConfigureListed /\ I.num = 2 => IInv' /\ \E g \in Function : Guard!ConfigureCallee(g)
<1> SUFFICES ASSUME IInv, ConfigureListed, I.num = 2
             PROVE  IInv' /\ \E g \in Function : Guard!ConfigureCallee(g)
  OBVIOUS
<1> DEFINE r == Moved(Top)
           f == Top.fn
<1>1. /\ Running /\ IsConfig(I) /\ I.region # "saved" /\ Advance /\ depth < MaxDepth
      /\ Guard!Configure(RegionStart[I.region], RegionSize[I.region], I.num)
  BY DEF ConfigureListed
<1>2. Placed(Top) /\ Top \in StackFrame /\ InstAt(Top) = I
  BY <1>1, TopIs
<1>3. stack' = Upd(stack, r)
  BY <1>1, AdvanceIs
<1>4. Steps(Top, r) /\ r.addr = Top.addr /\ r.size = Top.size /\ r.fn = f
  BY <1>2, MovedPlain
<1> HIDE DEF r, f
<1>5. PICK g \in Function :
        /\ I = MpuConfig(g, 2) /\ <<f, g>> \in Calls
        /\ Placed(r)
        /\ Seen(Top, "body", f) /\ Seen(r, "call", g)
  BY <1>1, <1>2, <1>4, CalleeStep DEF f
<1>6. I.region = g /\ I.num = 2
  BY <1>5, ConfigIs
<1>7. Becomes(r)
  BY <1>1, <1>3, <1>5 DEF Becomes
<1>8. /\ StackOK(stack') /\ depth' = depth /\ Guard!At("body")
      /\ Guard!Top = FrameOf(f, "body", f, Top.addr, Top.size)
      /\ Frames(stack)' = SetCallee(Frames(stack), depth, "call", g)
  BY <1>1, <1>4, <1>5, <1>7, GuardMoves DEF f
<1>9. Guard!Configure(RegionStart[g], RegionSize[g], 2)
  BY <1>1, <1>6
<1>10. RegionStart[g] \in Nat /\ RegionSize[g] \in Nat
  BY <1>5, RegionAssumption
<1>11. IInv'
  BY <1>8, <1>9, <1>10, ConfigureTypes DEF IInv
<1>12. <<Guard!Top.fn, g>> \in Calls
  BY <1>5, <1>8, FieldsAre
<1>13. Guard!ConfigureCallee(g)
  BY <1>1, <1>8, <1>9, <1>12, Zenon DEF Guard!ConfigureCallee, SetCallee
<1> QED BY <1>11, <1>13

(* MPU_Config(saved, 2), before the end of the last block.                 *)
LEMMA ConfigureSavedStep == IInv /\ ConfigureSaved => IInv' /\ Guard!ConfigureCaller
<1> SUFFICES ASSUME IInv, ConfigureSaved PROVE IInv' /\ Guard!ConfigureCaller
  OBVIOUS
<1> DEFINE r == Moved(Top)
           f == Top.fn
           a == Top.addr
           z == Top.size
           q == IF f \in ReturnsLast THEN "return" ELSE "body"
<1>1. /\ Running /\ IsConfig(I) /\ I.region = "saved" /\ Advance
      /\ Guard!Configure(a, z, I.num)
  BY DEF ConfigureSaved
<1>2. Placed(Top) /\ Top \in StackFrame /\ InstAt(Top) = I /\ a \in Nat /\ z \in Nat
  BY <1>1, TopIs DEF StackFrame
<1>3. stack' = Upd(stack, r)
  BY <1>1, AdvanceIs
<1>4. Steps(Top, r) /\ r.addr = a /\ r.size = z /\ r.fn = f
  BY <1>2, MovedPlain
<1> HIDE DEF r, f
<1>5. /\ Becomes(r) /\ I.num = 2 /\ f # Main
      /\ Seen(Top, "body", f) /\ Seen(r, q, f)
  BY <1>1, <1>2, <1>3, <1>4, CallerStep DEF Becomes, f
<1> HIDE DEF a, z, q
<1>6. /\ StackOK(stack') /\ depth' = depth /\ Guard!At("body")
      /\ Guard!Top = FrameOf(f, "body", f, a, z)
      /\ Frames(stack)' = SetPc(Frames(stack), depth, q)
  BY <1>1, <1>4, <1>5, GuardMoves DEF f, a, z
<1>7. Guard!Configure(a, z, 2)
  BY <1>1, <1>5
<1>8. IInv'
  BY <1>2, <1>6, <1>7, ConfigureTypes DEF IInv
<1>9. Guard!Top.fn = f /\ Guard!Top.addr = a /\ Guard!Top.size = z
  BY <1>6, FieldsAre
<1>10. Guard!Goto(IF Guard!Top.fn \in ReturnsLast THEN "return" ELSE "body")
  BY <1>6, <1>9 DEF Guard!Goto, SetPc, q
<1>11. Guard!ConfigureCaller
  BY <1>5, <1>6, <1>7, <1>9, <1>10, Zenon DEF Guard!ConfigureCaller
<1> QED BY <1>8, <1>11

(* A frame that starts is one of CallGuard's new frames.                   *)
LEMMA EnteredIs ==
  ASSUME NEW f \in Function
  PROVE  /\ Placed(EntryFrame(f)) /\ ~IsOwnCall(InstAt(EntryFrame(f)))
         /\ GuardFrame(EntryFrame(f)) = Guard!Entry(f)
<1> DEFINE r == EntryFrame(f)
           p == IF f = Main THEN "own" ELSE "readAddr"
<1>1. /\ Placed(r) /\ ~IsOwnCall(InstAt(r)) /\ Seen(r, p, f)
      /\ r.fn = f /\ r.addr = 0 /\ r.size = 0
  BY EntryStep
<1> HIDE DEF r, p
<1>2. GuardFrame(r) = FrameOf(f, p, f, 0, 0)
  BY <1>1 DEF Seen
<1>3. Guard!Entry(f) = FrameOf(f, p, f, 0, 0)
  BY DEF Guard!Entry, FrameOf, p
<1> QED BY <1>1, <1>2, <1>3 DEF r

(* Where there is no frame CallGuard has a new one of main.                *)
LEMMA RestIs == Rest = Guard!Entry(Main)
BY DEF Rest, Guard!Entry

(* A call of a function of the program's own.                              *)
LEMMA CallFunctionStep == IInv /\ CallFunction => IInv' /\ Guard!Call
<1> SUFFICES ASSUME IInv, CallFunction PROVE IInv' /\ Guard!Call
  OBVIOUS
<1> DEFINE r == Moved(Top)
           f == Top.fn
           a == Top.addr
           z == Top.size
           u == Upd(stack, r)
           F == Frames(stack)
<1>1. Running /\ IsOwnCall(I) /\ UNCHANGED <<ctrl, rnr, rbar, rasr>>
  BY DEF CallFunction
<1>2. /\ Placed(Top) /\ Top \in StackFrame /\ InstAt(Top) = I /\ depth < MaxDepth
      /\ depth \in 1 .. MaxDepth /\ F[depth] = GuardFrame(Top)
  BY <1>1, TopIs
<1>3. stack' = Append(u, EntryFrame(I.callee))
  BY DEF CallFunction, Upd, Moved, Top, depth
<1>4. Steps(Top, r) /\ r.addr = a /\ r.size = z /\ r.fn = f
  BY <1>2, MovedPlain
<1> HIDE DEF r, f, a, z, u, F
<1>5. PICK g \in Function :
        /\ g # Main /\ I.callee = g
        /\ Placed(r) /\ ~IsOwnCall(InstAt(r))
        /\ Seen(Top, "call", g) /\ Seen(r, "own", f)
  BY <1>1, <1>2, <1>4, CallStep DEF f
<1>6. StackOK(stack) /\ Len(stack) # 0 /\ depth = Len(stack)
  BY <1>1 DEF IInv, Running, depth
<1>7. /\ StackOK(u) /\ Len(u) = depth
      /\ Frames(u) = SetFrame(F, depth, GuardFrame(r))
  BY <1>5, <1>6, StackMove DEF u, F, SetFrame
<1>8. F[depth] = FrameOf(f, "call", g, a, z) /\ GuardFrame(r) = FrameOf(f, "own", f, a, z)
  BY <1>2, <1>4, <1>5 DEF Seen, f, a, z
<1>9. DOMAIN F = 1 .. MaxDepth
  BY DEF F, Frames
<1>10. Frames(u) = SetCallee(F, depth, "own", f)
  <2>1. depth \in DOMAIN F
    BY <1>2, <1>9
  <2>2. SetCallee(F, depth, "own", f) = SetFrame(F, depth, FrameOf(f, "own", f, a, z))
    BY <1>8, <2>1, FrameSet
  <2> QED BY <1>7, <1>8, <2>2
<1> DEFINE e == EntryFrame(g)
<1>11. Placed(e) /\ ~IsOwnCall(InstAt(e)) /\ GuardFrame(e) = Guard!Entry(g)
  BY <1>5, EnteredIs
<1> HIDE DEF e
<1>12. stack' = Append(u, e)
  BY <1>3, <1>5 DEF e
<1>13. /\ StackOK(stack') /\ Len(stack') = depth + 1
       /\ Frames(stack') = SetFrame(Frames(u), depth + 1, GuardFrame(e))
  BY <1>2, <1>7, <1>11, <1>12, StackPush DEF SetFrame
<1>14. IInv' /\ depth' = depth + 1
  BY <1>1, <1>13 DEF IInv, RegistersOK, depth
<1>15. Guard!Top = FrameOf(f, "call", g, a, z)
  BY <1>8 DEF Guard!Top, F
<1>16. Guard!Top.fn = f /\ Guard!Top.callee = g /\ Guard!Top.pc = "call"
  BY <1>15, FieldsAre
<1>17. Guard!At("call")
  BY <1>1, <1>16 DEF Guard!At, Running
<1>18. Frames(stack)' = SetFrame(SetCallee(F, depth, "own", Guard!Top.fn), depth + 1,
                                 Guard!Entry(Guard!Top.callee))
  BY <1>10, <1>11, <1>13, <1>16
<1>19. Frames(stack)' = [F EXCEPT ![depth].pc = "own", ![depth].callee = Guard!Top.fn,
                                  ![depth + 1] = Guard!Entry(Guard!Top.callee)]
  BY <1>18 DEF SetFrame, SetCallee
<1>20. Guard!Call
  BY <1>1, <1>14, <1>17, <1>19, Zenon DEF Guard!Call, Guard!mpu, F
<1> QED BY <1>14, <1>20

(* A return.                                                               *)
LEMMA ReturnToCallerStep == IInv /\ ReturnToCaller => IInv' /\ Guard!Return
<1> SUFFICES ASSUME IInv, ReturnToCaller PROVE IInv' /\ Guard!Return
  OBVIOUS
<1> DEFINE f == Top.fn
           F == Frames(stack)
<1>1. /\ Running /\ I = Return /\ UNCHANGED <<ctrl, rnr, rbar, rasr>>
      /\ stack' = Front(stack)
  BY DEF ReturnToCaller
<1>2. /\ Placed(Top) /\ InstAt(Top) = Return /\ F[depth] = GuardFrame(Top)
      /\ depth \in 1 .. MaxDepth
  BY <1>1, TopIs
<1>3. StackOK(stack) /\ Len(stack) # 0 /\ depth = Len(stack)
  BY <1>1 DEF IInv, Running, depth
<1>4. /\ StackOK(stack') /\ depth' = depth - 1
      /\ Frames(stack)' = [F EXCEPT ![depth] = Guard!Entry(Main)]
  BY <1>1, <1>3, StackPop, RestIs DEF depth
<1>5. IInv'
  BY <1>1, <1>4 DEF IInv, RegistersOK
<1>6. \/ Seen(Top, "return", f)
      \/ Seen(Top, "body", f) /\ (f = Main \/ f \notin ReturnsLast)
  BY <1>2, ReturnStep
<1>7. Guard!Top = GuardFrame(Top)
  BY <1>2 DEF Guard!Top
<1>8. depth > 0
  BY <1>1 DEF Running
<1> HIDE DEF F
<1>9. Guard!AtReturn
  <2>1. CASE Seen(Top, "return", f)
    <3>1. Guard!Top.pc = "return"
      BY <1>7, <2>1, FieldsAre DEF Seen
    <3> QED BY <1>8, <3>1 DEF Guard!AtReturn, Guard!At
  <2>2. CASE Seen(Top, "body", f) /\ (f = Main \/ f \notin ReturnsLast)
    <3>1. Guard!Top.pc = "body" /\ Guard!Top.fn = f
      BY <1>7, <2>2, FieldsAre DEF Seen
    <3> QED BY <1>8, <2>2, <3>1 DEF Guard!AtReturn, Guard!At
  <2> QED BY <1>6, <2>1, <2>2
<1>10. Guard!Return
  BY <1>1, <1>4, <1>9, Zenon DEF Guard!Return, Guard!mpu, F
<1> QED BY <1>5, <1>10

(* The program's own instructions are no steps of CallGuard.               *)
LEMMA ComputeStep == IInv /\ Compute => IInv' /\ UNCHANGED Guard!vars
<1> SUFFICES ASSUME IInv, Compute PROVE IInv' /\ UNCHANGED Guard!vars
  OBVIOUS
<1> DEFINE r == Moved(Top)
<1>1. /\ Running /\ I.op \in {"work", "phi"} /\ Advance
      /\ UNCHANGED <<ctrl, rnr, rbar, rasr>>
  BY DEF Compute
<1>2. Placed(Top) /\ Top \in StackFrame /\ InstAt(Top) = I
  BY <1>1, TopIs
<1>3. stack' = Upd(stack, r)
  BY <1>1, AdvanceIs
<1>4. Steps(Top, r) /\ r.addr = Top.addr /\ r.size = Top.size /\ r.fn = Top.fn
  BY <1>2, MovedPlain
<1> HIDE DEF r
<1>5. Becomes(r) /\ Seen(Top, "body", Top.fn) /\ Seen(r, "body", Top.fn)
  BY <1>1, <1>2, <1>3, <1>4, WorkStep DEF Becomes
<1>6. StackOK(stack') /\ depth' = depth /\ Frames(stack)' = Frames(stack)
  BY <1>1, <1>4, <1>5, GuardMoves
<1> QED BY <1>1, <1>6 DEF IInv, RegistersOK, Guard!vars

(* Nor are its branches.                                                   *)
LEMMA JumpAlong == IInv /\ Jump => IInv' /\ UNCHANGED Guard!vars
<1> SUFFICES ASSUME IInv, Jump PROVE IInv' /\ UNCHANGED Guard!vars
  OBVIOUS
<1>1. Running /\ I.op = "br" /\ UNCHANGED <<ctrl, rnr, rbar, rasr>>
  BY DEF Jump
<1>2. Placed(Top) /\ Top \in StackFrame /\ InstAt(Top) = I
  BY <1>1, TopIs
<1>3. PICK k \in I.to : stack' = [stack EXCEPT ![depth].blk = k, ![depth].pos = 1]
  BY DEF Jump
<1>4. k \in Nat
  <2>1. I \in Instr
    BY <1>2, PlacedIs
  <2> QED BY <2>1 DEF Instr, Instruction
<1> DEFINE r == [Top EXCEPT !.blk = k, !.pos = 1]
<1>5. r \in StackFrame /\ r.blk = k /\ r.pos = 1 /\ r.fn = Top.fn
      /\ r.addr = Top.addr /\ r.size = Top.size
  BY <1>2, <1>4 DEF StackFrame
<1>6. stack' = Upd(stack, r)
  BY <1>3 DEF Upd, Top, depth
<1> HIDE DEF r
<1>7. Becomes(r) /\ Seen(Top, "body", Top.fn) /\ Seen(r, "body", Top.fn)
  BY <1>1, <1>2, <1>3, <1>5, <1>6, JumpStep DEF Becomes
<1>8. StackOK(stack') /\ depth' = depth /\ Frames(stack)' = Frames(stack)
  BY <1>1, <1>5, <1>7, GuardMoves
<1> QED BY <1>1, <1>8 DEF IInv, RegistersOK, Guard!vars

(* Nothing happens.                                                        *)
LEMMA StillStep ==
  IInv /\ UNCHANGED vars => IInv' /\ UNCHANGED Guard!vars
BY DEF IInv, RegistersOK, vars, Guard!vars, depth

(* The first state.                                                        *)
LEMMA Initially == Init => IInv /\ Guard!Init
<1> SUFFICES ASSUME Init PROVE IInv /\ Guard!Init
  OBVIOUS
<1> DEFINE r == EntryFrame(Main)
<1>1. /\ ctrl = CtrlOff /\ rnr = 0 /\ stack = <<r>>
      /\ rbar = [n \in Region |-> 0] /\ rasr = [n \in Region |-> 0]
  BY DEF Init
<1>2. RegistersOK
  BY <1>1 DEF RegistersOK, Region
<1>3. Main \in Function
  BY MainIs
<1>4. Placed(r) /\ ~IsOwnCall(InstAt(r)) /\ GuardFrame(r) = Guard!Entry(Main)
  BY <1>3, EnteredIs
<1>5. r \in StackFrame
  BY <1>4 DEF Placed
<1> HIDE DEF r
<1>6. Len(stack) = 1 /\ stack[1] = r /\ stack \in Seq(StackFrame)
  BY <1>1, <1>5
<1>7. StackOK(stack)
  BY <1>4, <1>6, DepthAssumption DEF StackOK
<1>8. Frames(stack) = [d \in 1 .. MaxDepth |-> Guard!Entry(Main)]
  <2>1. \A d \in 1 .. MaxDepth :
          (IF d <= Len(stack) THEN GuardFrame(stack[d]) ELSE Rest) = Guard!Entry(Main)
    BY <1>4, <1>6, RestIs
  <2> QED BY <2>1 DEF Frames, Rest
<1>9. Guard!Init
  BY <1>1, <1>6, <1>8, Words DEF Guard!Init, depth
<1> QED BY <1>2, <1>7, <1>9 DEF IInv

(* Every step of the run is one of CallGuard, or none.                     *)
LEMMA Stepwise == IInv /\ [Next]_vars => IInv' /\ [Guard!Next]_(Guard!vars)
<1> SUFFICES ASSUME IInv, [Next]_vars PROVE IInv' /\ [Guard!Next]_(Guard!vars)
  OBVIOUS
<1>1. CASE Compute
  BY <1>1, ComputeStep
<1>2. CASE Jump
  BY <1>2, JumpAlong
<1>3. CASE ReadCallerAddr
  BY <1>3, ReadCallerAddrStep DEF Guard!Next
<1>4. CASE ReadCallerSize
  BY <1>4, ReadCallerSizeStep DEF Guard!Next
<1>5. CASE ConfigureListed
  BY <1>5, ConfigureOwnStep, ConfigureCalleeStep DEF Guard!Next
<1>6. CASE ConfigureSaved
  BY <1>6, ConfigureSavedStep DEF Guard!Next
<1>7. CASE CallFunction
  BY <1>7, CallFunctionStep DEF Guard!Next
<1>8. CASE ReturnToCaller
  BY <1>8, ReturnToCallerStep DEF Guard!Next
<1>9. CASE UNCHANGED vars
  BY <1>9, StillStep
<1>10. Full \/ Returned => UNCHANGED vars
  BY DEF Full, Returned
<1> QED BY <1>1, <1>2, <1>3, <1>4, <1>5, <1>6, <1>7, <1>8, <1>9, <1>10 DEF Next

(* The types are part of IInv.                                             *)
LEMMA IInvTypes == IInv => TypeOK
<1> SUFFICES ASSUME IInv PROVE TypeOK
  OBVIOUS
<1>1. ASSUME NEW d \in 1 .. depth
      PROVE  /\ stack[d].fn \in Function
             /\ stack[d].blk \in DOMAIN Code[stack[d].fn]
             /\ stack[d].pos \in DOMAIN Code[stack[d].fn][stack[d].blk]
  <2> DEFINE fr == stack[d]
             b == Code[fr.fn][fr.blk]
  <2>1. Placed(fr)
    BY DEF IInv, StackOK, depth
  <2> HIDE DEF fr
  <2>2. fr.fn \in Function /\ fr.blk \in DOMAIN Program[fr.fn] /\ fr.pos \in 1 .. Len(b)
    BY <2>1 DEF Placed, StackFrame
  <2>3. b \in Seq(Instr)
    BY <2>2, CodeRuns DEF Runs, Behind
  <2>4. fr.blk \in DOMAIN Code[fr.fn]
    BY <2>2 DEF Code, Image, Function
  <2> HIDE DEF b
  <2>5. fr.pos \in DOMAIN b
    BY <2>2, <2>3
  <2> QED BY <2>2, <2>4, <2>5 DEF fr, b
<1> QED BY <1>1 DEF IInv, RegistersOK, StackOK, TypeOK, depth

(* In every state of every run, every frame is at an instruction of its    *)
(* function, and in front of a call there is room for another frame: what  *)
(* the order of the inserted instructions needs.                           *)
THEOREM Invariance == Spec => []IInv
<1>1. Init => IInv
  BY Initially
<1>2. IInv /\ [Next]_vars => IInv'
  BY Stepwise
<1> QED BY <1>1, <1>2, PTL DEF Spec

(* No run leaves the code: the position of every frame on the stack is     *)
(* always one of an instruction, whatever way the branches go.             *)
THEOREM TypeCorrect == Spec => []TypeOK
BY Invariance, IInvTypes, PTL

(* The code that the passes insert follows the protocol of CallGuard: for  *)
(* every program they handle, every path through every function and every  *)
(* depth of the stack.                                                     *)
THEOREM Refinement == Spec => GuardSpec
<1>1. Init => IInv /\ Guard!Init
  BY Initially
<1>2. IInv /\ [Next]_vars => IInv' /\ [Guard!Next]_(Guard!vars)
  BY Stepwise
<1> QED BY <1>1, <1>2, PTL DEF Spec, GuardSpec, Guard!Spec

-----------------------------------------------------------------------------
(* What CallGuardProofs says of the protocol holds of the run.             *)

(* The theorems of CallGuardProofs about the protocol the run follows.     *)
Protocol == INSTANCE CallGuardProofs WITH frame <- Frames(stack)

(* The last block of a function is the one, and the only one, it returns   *)
(* from.                                                                   *)
ReturnsAtEnd ==
  \A f \in Function : \A k \in DOMAIN Program[f] :
    Last(Program[f][k]) = Return <=> k = Len(Program[f])

(* The program and its regions are ones CallGuard is about.                *)
LEMMA ProtocolAssumptions == Protocol!FunctionAssumption /\ Protocol!RegionAssumption
<1>1. Main \in Function
  BY MainIs
<1>2. Calls \subseteq Function \X (Function \ {Main})
  <2> SUFFICES ASSUME NEW f \in Function, NEW g \in Function, <<f, g>> \in Calls
               PROVE  g # Main
    BY DEF Calls
  <2>1. PICK k \in DOMAIN Program[f] : Contains(Program[f][k], CallOf(g))
    BY DEF Calls
  <2>2. g \in Callees(f, k)
    BY <2>1 DEF Callees
  <2> QED BY <2>2, CalleesAre
<1>3. ReturnsLast \subseteq Function
  BY DEF ReturnsLast
<1>4. Protocol!FunctionAssumption
  BY <1>1, <1>2, <1>3, DepthAssumption DEF Protocol!FunctionAssumption
<1> QED BY <1>4, RegionAssumption DEF Protocol!RegionAssumption

(* This is what CallGuardProofs asks of the functions.                     *)
LEMMA AtEndConnected == ReturnsAtEnd => Protocol!ReturnsConnected
BY DEF ReturnsAtEnd, Protocol!ReturnsConnected, ReturnsLast

(* Both instances are of one module: what it says of the run is the same   *)
(* in either of them.                                                      *)
LEMMA SameConfigure ==
  ASSUME NEW a, NEW s, NEW n, Guard!Configure(a, s, n)
  PROVE  Protocol!Configure(a, s, n)
<1>1. Guard!SizeField(s) = Protocol!SizeField(s)
  BY DEF Guard!SizeField, Protocol!SizeField
<1> QED
  BY <1>1
     DEF Protocol!Configure, Guard!Configure, Protocol!BaseField,
         Guard!BaseField, Protocol!ConfigAttributes, Guard!ConfigAttributes,
         Protocol!CtrlOn, Guard!CtrlOn

(* The first states are the same.                                          *)
LEMMA SameInit == Guard!Init => Protocol!Init
BY DEF Guard!Init, Protocol!Init, Guard!Entry, Protocol!Entry,
       Guard!Region, Protocol!Region, Guard!CtrlOff, Protocol!CtrlOff

(* So are the steps.                                                       *)
LEMMA SameNext == Guard!Next => Protocol!Next
<1>1. Guard!ReadAddr => Protocol!ReadAddr
  BY
     DEF Protocol!ReadAddr, Guard!ReadAddr, Protocol!At, Guard!At,
         Protocol!Top, Guard!Top, Protocol!BaseField, Guard!BaseField,
         Protocol!RbarRead, Guard!RbarRead
<1>2. Guard!ReadSize => Protocol!ReadSize
  BY
     DEF Protocol!ReadSize, Guard!ReadSize, Protocol!At, Guard!At,
         Protocol!Top, Guard!Top, Protocol!SizeOf, Guard!SizeOf
<1>3. Guard!ConfigureOwn => Protocol!ConfigureOwn
  BY SameConfigure
     DEF Protocol!ConfigureOwn, Guard!ConfigureOwn, Protocol!At, Guard!At,
         Protocol!Top, Guard!Top, Protocol!Goto, Guard!Goto
<1>4. ASSUME NEW g \in Function, Guard!ConfigureCallee(g)
      PROVE  Protocol!ConfigureCallee(g)
  BY <1>4, SameConfigure
     DEF Protocol!ConfigureCallee, Guard!ConfigureCallee, Protocol!At,
         Guard!At, Protocol!Top, Guard!Top
<1>5. Guard!Call => Protocol!Call
  BY
     DEF Protocol!Call, Guard!Call, Protocol!At, Guard!At, Protocol!Top,
         Guard!Top, Protocol!Entry, Guard!Entry, Protocol!mpu, Guard!mpu
<1>6. Guard!ConfigureCaller => Protocol!ConfigureCaller
  BY SameConfigure
     DEF Protocol!ConfigureCaller, Guard!ConfigureCaller, Protocol!At,
         Guard!At, Protocol!Top, Guard!Top, Protocol!Goto, Guard!Goto
<1>7. Guard!Return => Protocol!Return
  BY
     DEF Protocol!Return, Guard!Return, Protocol!AtReturn, Guard!AtReturn,
         Protocol!At, Guard!At, Protocol!Top, Guard!Top, Protocol!Entry,
         Guard!Entry, Protocol!mpu, Guard!mpu
<1>8. Guard!Returned => Protocol!Returned
  BY
     DEF Protocol!Returned, Guard!Returned, Protocol!vars, Guard!vars
<1> QED
  BY <1>1, <1>2, <1>3, <1>4, <1>5, <1>6, <1>7, <1>8
     DEF Guard!Next, Protocol!Next

(* So are the properties.                                                  *)
LEMMA SameProperties ==
  /\ Protocol!RunningOpen => Guard!RunningOpen
  /\ Protocol!SavedIsCaller => Guard!SavedIsCaller
  /\ Protocol!BodyConfined => Guard!BodyConfined
  /\ \A r, f : Protocol!Opens(r, f) <=> Guard!Opens(r, f)
<1>1. \A r, f : Protocol!Opens(r, f) <=> Guard!Opens(r, f)
  BY
     DEF Protocol!Opens, Guard!Opens, Protocol!RegionEnabled,
         Guard!RegionEnabled, Protocol!SizeOf, Guard!SizeOf
<1>2. Protocol!Open = Guard!Open
  BY <1>1
     DEF Protocol!Open, Guard!Open, Protocol!Region, Guard!Region
<1>3. Protocol!RunningOpen => Guard!RunningOpen
  BY <1>2
     DEF Protocol!RunningOpen, Guard!RunningOpen, Protocol!Top, Guard!Top,
         Protocol!CtrlEnable, Guard!CtrlEnable
<1>4. Protocol!SavedIsCaller => Guard!SavedIsCaller
  BY
     DEF Protocol!SavedIsCaller, Guard!SavedIsCaller
<1>5. Protocol!BodyConfined => Guard!BodyConfined
  BY <1>2
     DEF Protocol!BodyConfined, Guard!BodyConfined, Protocol!At, Guard!At,
         Protocol!Top, Guard!Top
<1> QED BY <1>1, <1>3, <1>4, <1>5

(* A run is one of that instance.                                          *)
LEMMA FollowsProtocol == Spec => Protocol!Spec
<1>1. Init => Protocol!Init
  BY Initially, SameInit
<1>2. IInv /\ [Next]_vars => [Protocol!Next]_(Protocol!vars)
  BY Stepwise, SameNext DEF Protocol!vars, Guard!vars
<1> QED BY <1>1, <1>2, Invariance, PTL DEF Spec, Protocol!Spec

(* In the code that the passes make, of any program whose functions return *)
(* from their last blocks, the function that runs is open at every         *)
(* instruction once the unit is on.                                        *)
THEOREM RunningIsOpen == ReturnsAtEnd => (Spec => []Guard!RunningOpen)
<1> SUFFICES ASSUME ReturnsAtEnd PROVE Spec => []Guard!RunningOpen
  OBVIOUS
<1>1. Protocol!Spec => []Protocol!RunningOpen
  BY AtEndConnected, ProtocolAssumptions, Protocol!RunningIsOpen
<1>2. Protocol!RunningOpen => Guard!RunningOpen
  BY SameProperties
<1> QED BY <1>1, <1>2, FollowsProtocol, PTL

(* In the code of every program, what a function has read on entry is the  *)
(* region of the function below it on the stack, through recursive calls   *)
(* and calls that return from anywhere.                                    *)
THEOREM SavedIsTheCaller == Spec => []Guard!SavedIsCaller
<1>1. Protocol!Spec => []Protocol!SavedIsCaller
  BY ProtocolAssumptions, Protocol!SavedCaller
<1>2. Protocol!SavedIsCaller => Guard!SavedIsCaller
  BY SameProperties
<1> QED BY <1>1, <1>2, FollowsProtocol, PTL

(* If the functions return from their last blocks, a function has opened   *)
(* itself only while it runs its own code.                                 *)
THEOREM BodyIsConfined == ReturnsAtEnd => (Spec => []Guard!BodyConfined)
<1> SUFFICES ASSUME ReturnsAtEnd PROVE Spec => []Guard!BodyConfined
  OBVIOUS
<1>1. Protocol!Spec => []Protocol!BodyConfined
  BY AtEndConnected, ProtocolAssumptions, Protocol!BodyIsConfined
<1>2. Protocol!BodyConfined => Guard!BodyConfined
  BY SameProperties
<1> QED BY <1>1, <1>2, FollowsProtocol, PTL

(* Every return finds its caller open in region 2 if the functions return  *)
(* from their last blocks. The run early_return shows that this is false   *)
(* of a program in which one function returns from another block.          *)
THEOREM CallersConnected == ReturnsAtEnd => (Spec => CallerConnected)
<1> SUFFICES ASSUME ReturnsAtEnd PROVE Spec => CallerConnected
  OBVIOUS
<1> DEFINE Through == (depth' # depth /\ depth' > 0) =>
                        Protocol!Opens(2, Frames(stack)'[depth'].fn)
           Connects == (depth' < depth /\ depth' > 0) => Guard!Opens(2, Top'.fn)
<1>1. Protocol!Spec => [][Through]_(Protocol!vars)
  BY AtEndConnected, ProtocolAssumptions, Protocol!TransfersThroughRegionTwo
     DEF Protocol!TransferThroughRegionTwo
<1>2. IInv /\ IInv' /\ [Next]_vars /\ [Through]_(Protocol!vars) => [Connects]_vars
  <2> SUFFICES ASSUME IInv', IInv, [Through]_(Protocol!vars), depth' < depth, depth' > 0
               PROVE  Guard!Opens(2, Top'.fn)
    OBVIOUS
  <2>1. depth' # depth
    BY DEF IInv, StackOK, depth
  <2>2. Through
    BY <2>1 DEF Protocol!vars
  <2>3. Frames(stack)'[depth'] = GuardFrame(Top')
    <3>1. StackOK(stack') /\ Len(stack') # 0
      BY DEF IInv, depth
    <3> QED BY <3>1, StackTop DEF Top, depth
  <2>4. GuardFrame(Top').fn = Top'.fn
    BY DEF GuardFrame
  <2> QED BY <2>1, <2>2, <2>3, <2>4, SameProperties
<1> QED BY <1>1, <1>2, FollowsProtocol, Invariance, PTL DEF Spec, CallerConnected
=============================================================================
