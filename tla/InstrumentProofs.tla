-------------------------- MODULE InstrumentProofs --------------------------
(***************************************************************************)
(* The passes for every module that has the form the compiler gives it:    *)
(* any number of functions, blocks and instructions.                       *)
(*                                                                         *)
(* The properties are about the module as a whole, and most of them about  *)
(* its end, so none of them is inductive. IInv says what every block is    *)
(* while a pass runs: behind the iterators what the pass makes of it       *)
(* (Left), in front of them what the pass before left (Found), both as     *)
(* functions of the module the passes began with; and of the block that    *)
(* the iterators are in, what has been done up to the instruction iterator *)
(* and what the rest will become (Walked, SetUpTo). Behind the last pass   *)
(* every block is then the last stage of what it was, which ImageProofs    *)
(* shows to be Image's.                                                    *)
(*                                                                         *)
(* After the passes have stopped with an error nothing is claimed of the   *)
(* blocks but that the last step left them as they were.                   *)
(***************************************************************************)
EXTENDS Instrument, ImageProofs
-----------------------------------------------------------------------------
(* The stages of a block: what Insert_Function, Connect_Function and       *)
(* Set_Operand make of block k of f, each as a function of the module that *)
(* llvm-link wrote.                                                        *)
Inserted(f, k) ==
  IF f \in Helper THEN source[f][k]
                  ELSE FlatMap(WrapMap(Name), Begun(source[f][k], k))

Connected(f, k) ==
  LET b == Inserted(f, k)
      c == IF k = 1 THEN WithReads(b) ELSE b
  IN  IF ConnectSkips(f) THEN b ELSE IF k = Len(source[f]) THEN WithCaller(c) ELSE c

Final(f, k) == Filled(f, Connected(f, k))

(* A block before and after the pass that runs.                            *)
Found(f, k) ==
  CASE pass = "find"    -> source[f][k]
    [] pass = "insert"  -> source[f][k]
    [] pass = "connect" -> Inserted(f, k)
    [] pass = "measure" -> Connected(f, k)
    [] pass = "set"     -> Connected(f, k)
    [] pass = "done"    -> Final(f, k)

Left(f, k) ==
  CASE pass = "find"    -> source[f][k]
    [] pass = "insert"  -> Inserted(f, k)
    [] pass = "connect" -> Connected(f, k)
    [] pass = "measure" -> Connected(f, k)
    [] pass = "set"     -> Final(f, k)
    [] pass = "done"    -> Final(f, k)

(* The pass that runs has block k of the n-th function behind it.          *)
Passed(n, k) == n < fn \/ (n = fn /\ k < blk)

(* It is in the middle of that block.                                      *)
Here(n, k)   == n = fn /\ k = blk /\ pos > 0

(* Only Insert_Function and Set_Operand walk over instructions.            *)
CursorInv ==
  /\ pass = "measure" => fn = 1 /\ blk = 1
  /\ pos > 0 =>
       /\ pass \in {"insert", "set"}
       /\ fn <= Len(Order) /\ blk <= Len(source[F])
       /\ pos <= Len(B) + 1
       /\ pass = "insert" => F \notin Helper

(* function.txt has the functions that were visited, and the table those   *)
(* that function.txt has; a function in the table has code.                *)
ListInv ==
  /\ pass = "find" => ToSet(list) = {Order[n] : n \in 1 .. fn - 1} \ Helper
  /\ pass \in {"insert", "connect", "measure"} => ToSet(list) = Name \ Helper
  /\ pass \in {"set", "done"} => /\ link = Name \ Helper
                                 /\ \A f \in Name \ Helper : source[f] # <<>>

(* The blocks of Insert_Function's past have no call through a pointer.    *)
BoundInv ==
  \A n \in DOMAIN Order : \A k \in DOMAIN source[Order[n]] :
    (/\ Order[n] \notin Helper
     /\ pass \notin {"find", "insert"} \/ (pass = "insert" /\ Passed(n, k)))
      => Each(source[Order[n]][k], Bound(Name))

(* Every block is what its pass makes of it, or what the pass will find,   *)
(* but for the one the pass is in the middle of.                           *)
BodyInv ==
  \A n \in DOMAIN Order : \A k \in DOMAIN source[Order[n]] :
    ~Here(n, k) =>
      body[Order[n]][k] = IF Passed(n, k) THEN Left(Order[n], k) ELSE Found(Order[n], k)

(* What Insert_Function will meet: calls of the program or of its own.     *)
Met == {x \in Instruction(Name) : IsCall(x) => x.callee \in MpuFunction \/ x.callee \notin Helper}

(* Insert_Function in the middle of block b, with its iterator at i: what  *)
(* is in front of the iterator is done and has no call through a pointer,  *)
(* what is behind it is still to be mapped, and together they will be r.   *)
Walked(b, i, r) ==
  LET d == SubSeq(b, 1, i - 1)
      u == SubSeq(b, i, Len(b))
  IN  /\ Then(d, FlatMap(WrapMap(Name), u)) = r
      /\ Each(d, Bound(Name))
      /\ Each(u, Met)

WalkInv == (pass = "insert" /\ pos > 0) => Walked(B, pos, Inserted(F, blk))

(* Set_Operand in the middle of block b, which was c: filled in as far as  *)
(* the iterator has come.                                                  *)
SetUpTo(b, i, f, c) ==
  /\ Len(b) = Len(c)
  /\ \A j \in 1 .. Len(c) : b[j] = IF j < i THEN FillAt(f, c, j) ELSE c[j]

SetInv == (pass = "set" /\ pos > 0) => SetUpTo(B, pos, F, Connected(F, blk))

(* The inductive invariant. After a stop nothing changes any more, so it   *)
(* says nothing of it but the types; that the blocks are as they were then *)
(* is StopKeeps.                                                           *)
IInv ==
  /\ TypeOK
  /\ pass # "stopped" =>
       CursorInv /\ ListInv /\ BoundInv /\ BodyInv /\ WalkInv /\ SetInv
-----------------------------------------------------------------------------
(* The modules that Programs has.                                          *)

(* No function is named like a placeholder.                                *)
LEMMA NameIs == Name \cap Placeholder = {} /\ Order \in Seq(Name)
BY OrderAssumption DEF Reserved

(* What ProgramAssumption says of one block, in the words of ImageProofs.  *)
LEMMA SourceIs ==
  ASSUME source \in Programs, NEW f \in Name, NEW k \in DOMAIN source[f]
  PROVE  /\ source[f][k] \in BasicBlock(Name) /\ Len(source[f][k]) # 0
         /\ source[f][k][Len(source[f][k])].op \in {"br", "ret"}
         /\ Each(source[f][k], Ordinary(Name))
         /\ f \in Helper => Quiet(source[f][k])
         /\ k \in Nat \ {0} /\ k <= Len(source[f])
<1> DEFINE b == source[f][k]
<1>1. source \in [Name -> Seq(BasicBlock(Name))]
  BY ProgramAssumption
<1>2. /\ b # <<>> /\ Last(b).op \in {"br", "ret"}
      /\ \A i \in DOMAIN b : Given(f, b[i])
  BY ProgramAssumption
<1>3. source[f] \in Seq(BasicBlock(Name))
  BY <1>1
<1>4. b \in BasicBlock(Name) /\ k \in Nat \ {0} /\ k <= Len(source[f])
  BY <1>3, LenProperties, ElementOfSeq
<1> HIDE DEF b
<1>5. DOMAIN b = 1 .. Len(b) /\ Len(b) \in Nat /\ \A i \in DOMAIN b : b[i] \in Instruction(Name)
  BY <1>4, ElementType
<1>6. Len(b) # 0
  BY <1>2, <1>4, EmptySeq DEF BasicBlock
<1>7. b[Len(b)].op \in {"br", "ret"}
  BY <1>2 DEF Last
<1>8. Each(b, Ordinary(Name))
  BY <1>2, <1>5 DEF Each, Ordinary, Given
<1>9. f \in Helper => Quiet(b)
  BY <1>2, <1>5 DEF Given, Quiet
<1> QED BY <1>4, <1>6, <1>7, <1>8, <1>9 DEF b

(* So a block has its parts.                                               *)
LEMMA SourceFormed ==
  ASSUME source \in Programs, NEW f \in Name, NEW k \in DOMAIN source[f]
  PROVE  \E p, q, t : Formed(Name, source[f][k], p, q, t)
BY SourceIs, FormedExists
-----------------------------------------------------------------------------
(* The stages of a block of the functions of mpu_configure.c.              *)
LEMMA HelperStages ==
  ASSUME source \in Programs, NEW f \in Name, NEW k \in DOMAIN source[f], f \in Helper
  PROVE  /\ Inserted(f, k) = source[f][k]
         /\ Connected(f, k) = source[f][k]
         /\ Final(f, k) = source[f][k]
<1>1. Inserted(f, k) = source[f][k]
  BY DEF Inserted
<1>2. Connected(f, k) = source[f][k]
  BY <1>1 DEF Connected, ConnectSkips
<1>3. Filled(f, source[f][k]) = source[f][k]
  <2> DEFINE b == source[f][k]
  <2>1. b \in BasicBlock(Name) /\ Each(b, Ordinary(Name)) /\ Quiet(b)
    BY SourceIs
  <2>2. f \in Symbol(Name)
    BY SymbolIs
  <2> HIDE DEF b
  <2>3. Filled(f, b) = b
    BY <2>1, <2>2, QuietBlock
  <2> QED BY <2>3 DEF b
<1> QED BY <1>1, <1>2, <1>3 DEF Final

(* The stages of a block of any other function: with Insert_Function's     *)
(* configurations ...                                                      *)
LEMMA InsertedStage ==
  ASSUME source \in Programs, NEW f \in Name, NEW k \in DOMAIN source[f], f \notin Helper,
         NEW p, NEW q, NEW t, Formed(Name, source[f][k], p, q, t)
  PROVE  Inserted(f, k) = Shape(p, Lead(k), FlatMap(WrapMap(Name), q), <<>>, t)
<1> DEFINE b == source[f][k]
           a == Shape(p, Lead(k), FlatMap(WrapMap(Name), q), <<>>, t)
<1>1. Formed(Name, b, p, q, t)
  OBVIOUS
<1>2. Inserted(f, k) = FlatMap(WrapMap(Name), Begun(b, k))
  BY DEF Inserted
<1> HIDE DEF b
<1>3. FlatMap(WrapMap(Name), Begun(b, k)) = a
  BY <1>1, InsertedIs
<1> QED BY <1>2, <1>3

(* The types of a block's parts.                                           *)
LEMMA FormedParts ==
  ASSUME NEW N, NEW b, NEW p, NEW q, NEW t, Formed(N, b, p, q, t)
  PROVE  /\ p \in BasicBlock(N) /\ q \in BasicBlock(N) /\ t \in Instruction(N)
         /\ FlatMap(WrapMap(N), q) \in BasicBlock(N)
         /\ Each(p, Phis(N)) /\ ~IsCall(t)
         /\ b = Then(p, Then(q, One(t)))
BY WrapType, BlockMap DEF Formed

(* Connect_Function in the first block ...                                 *)
LEMMA ReadsStage ==
  ASSUME NEW N, NEW p \in BasicBlock(N), NEW g \in BasicBlock(N), NEW t \in Instruction(N),
         Each(p, Phis(N))
  PROVE  WithReads(Shape(p, One(First), g, <<>>, t)) = Shape(p, Reads(One(First)), g, <<>>, t)
<1> DEFINE y == Then(g, Then(<<>>, One(t)))
           b == Then(p, Then(One(First), y))
<1>1. y \in BasicBlock(N)
  BY EmptyType, BlockOne, BlockThen
<1> HIDE DEF y
<1>2. InsertAt(InsertAt(b, FirstNonPhi(b), ReadAddr), FirstNonPhi(b) + 1, ReadSize)
        = Then(p, Then(Reads(One(First)), y))
  BY <1>1, ReadsInsert
<1>3. WithReads(b) = Then(p, Then(Reads(One(First)), y))
  BY <1>2 DEF WithReads
<1> QED BY <1>3 DEF Shape, y

(* ... and in the last one.                                                *)
LEMMA CallerStage ==
  ASSUME NEW N, NEW p \in BasicBlock(N), NEW e \in BasicBlock(N), NEW g \in BasicBlock(N),
         NEW t \in Instruction(N)
  PROVE  WithCaller(Shape(p, e, g, <<>>, t)) = Shape(p, e, g, One(Saved), t)
<1> DEFINE b == Shape(p, e, g, <<>>, t)
<1>1. InsertAt(b, Len(b), Saved) = Shape(p, e, g, One(Saved), t)
  BY ExitShape
<1> HIDE DEF b
<1>2. WithCaller(b) = Shape(p, e, g, One(Saved), t)
  BY <1>1 DEF WithCaller, Saved
<1> QED BY <1>2 DEF b

(* ... with Connect_Function's calls ...                                   *)
LEMMA ConnectedStage ==
  ASSUME source \in Programs, NEW f \in Name, NEW k \in DOMAIN source[f], f \notin Helper,
         NEW p, NEW q, NEW t, Formed(Name, source[f][k], p, q, t)
  PROVE  Connected(f, k) = Linked(Name, f, p, q, t, k, Len(source[f]))
<1> DEFINE g == FlatMap(WrapMap(Name), q)
           n == Len(source[f])
           a == Shape(p, Lead(k), g, <<>>, t)
           b == Shape(p, Opening(f, k), g, <<>>, t)
           c == Shape(p, Opening(f, k), g, One(Saved), t)
<1>1. /\ p \in BasicBlock(Name) /\ q \in BasicBlock(Name) /\ t \in Instruction(Name)
      /\ g \in BasicBlock(Name) /\ Each(p, Phis(Name))
  BY FormedParts
<1>2. Inserted(f, k) = a
  BY InsertedStage
<1>3. CASE f = "main"
  <2>1. Connected(f, k) = a
    BY <1>2, <1>3 DEF Connected, ConnectSkips
  <2>2. Opening(f, k) = Lead(k)
    BY <1>3 DEF Opening, Lead
  <2>3. Closing(f, k, n) = <<>>
    BY <1>3, ExitIs DEF Closing
  <2> QED BY <2>1, <2>2, <2>3 DEF Linked
<1>4. CASE f # "main"
  <2> HIDE DEF g
  <2>1. k = 1 => WithReads(a) = b
    <3> SUFFICES ASSUME k = 1 PROVE WithReads(a) = b
      OBVIOUS
    <3>1. Lead(k) = One(First) /\ Opening(f, k) = Reads(One(First))
      BY <1>4 DEF Lead, Opening
    <3> QED BY <1>1, <3>1, ReadsStage
  <2>2. k # 1 => a = b
    <3>1. k # 1 => Lead(k) = Opening(f, k)
      BY DEF Lead, Opening
    <3> QED BY <3>1
  <2>3. WithCaller(b) = c
    <3>1. Opening(f, k) \in BasicBlock(Name)
      BY OpeningType
    <3> QED BY <1>1, <3>1, CallerStage
  <2>4. Closing(f, k, n) = IF k = n THEN One(Saved) ELSE <<>>
    BY <1>4, ExitIs DEF Closing
  <2>5. Linked(Name, f, p, q, t, k, n) = IF k = n THEN c ELSE b
    BY <2>4 DEF Linked, g
  <2>6. Connected(f, k)
         = IF k = n THEN WithCaller(IF k = 1 THEN WithReads(Inserted(f, k)) ELSE Inserted(f, k))
                    ELSE IF k = 1 THEN WithReads(Inserted(f, k)) ELSE Inserted(f, k)
    BY <1>4 DEF Connected, ConnectSkips
  <2> HIDE DEF a, b, c
  <2>7. (IF k = 1 THEN WithReads(Inserted(f, k)) ELSE Inserted(f, k)) = b
    BY <1>2, <2>1, <2>2
  <2> QED BY <2>3, <2>5, <2>6, <2>7
<1> QED BY <1>3, <1>4

(* ... and with the regions: the block of Image.                           *)
LEMMA FinalStage ==
  ASSUME source \in Programs, NEW f \in Name, NEW k \in DOMAIN source[f], f \notin Helper
  PROVE  Final(f, k) = ImageBlock(f, source[f], k)
<1>1. PICK p, q, t : Formed(Name, source[f][k], p, q, t)
  BY SourceFormed
<1>2. Connected(f, k) = Linked(Name, f, p, q, t, k, Len(source[f]))
  BY <1>1, ConnectedStage
<1>3. Filled(f, Linked(Name, f, p, q, t, k, Len(source[f]))) = ImageBlock(f, source[f], k)
  BY <1>1, FilledIs
<1> QED BY <1>2, <1>3 DEF Final

(* Such a block is a block.                                                *)
LEMMA LinkedType ==
  ASSUME NEW N, NEW f, NEW b, NEW p, NEW q, NEW t, NEW k, NEW n, Formed(N, b, p, q, t)
  PROVE  Linked(N, f, p, q, t, k, n) \in BasicBlock(N)
<1>1. Opening(f, k) \in BasicBlock(N) /\ Closing(f, k, n) \in BasicBlock(N)
  BY OpeningType, ClosingIs
<1> QED BY <1>1, FormedParts, ShapeType DEF Linked

(* The stages are blocks.                                                  *)
LEMMA StageTypes ==
  ASSUME source \in Programs, NEW f \in Name, NEW k \in DOMAIN source[f]
  PROVE  /\ Inserted(f, k) \in BasicBlock(Name)
         /\ Connected(f, k) \in BasicBlock(Name)
         /\ Final(f, k) \in BasicBlock(Name)
         /\ Fills(Final(f, k), f, Connected(f, k))
<1>1. PICK p, q, t : Formed(Name, source[f][k], p, q, t)
  BY SourceFormed
<1>2. Inserted(f, k) \in BasicBlock(Name)
  <2>1. CASE f \in Helper
    BY <2>1, HelperStages, SourceIs
  <2>2. CASE f \notin Helper
    <3>1. Inserted(f, k) = Shape(p, Lead(k), FlatMap(WrapMap(Name), q), <<>>, t)
      BY <1>1, <2>2, InsertedStage
    <3>2. Lead(k) \in BasicBlock(Name) /\ <<>> \in BasicBlock(Name)
      BY LeadType, EmptyType
    <3> QED BY <1>1, <3>1, <3>2, FormedParts, ShapeType
  <2> QED BY <2>1, <2>2
<1>3. Connected(f, k) \in BasicBlock(Name)
  <2>1. CASE f \in Helper
    BY <2>1, HelperStages, SourceIs
  <2>2. CASE f \notin Helper
    BY <1>1, <2>2, ConnectedStage, LinkedType
  <2> QED BY <2>1, <2>2
<1> QED BY <1>2, <1>3, SymbolIs, FilledType DEF Final

(* No stage loses or changes an instruction of the program ...             *)
LEMMA EraseStages ==
  ASSUME source \in Programs, NEW f \in Name, NEW k \in DOMAIN source[f]
  PROVE  /\ Erase(Inserted(f, k)) = Erase(source[f][k])
         /\ Erase(Connected(f, k)) = Erase(source[f][k])
<1>1. PICK p, q, t : Formed(Name, source[f][k], p, q, t)
  BY SourceFormed
<1> DEFINE n == Len(source[f])
           g == FlatMap(WrapMap(Name), q)
           e == Opening(f, k)
           x == Closing(f, k, n)
           b == source[f][k]
<1>2. CASE f \in Helper
  BY <1>2, HelperStages
<1>3. CASE f \notin Helper
  <2>1. Inserted(f, k) = Shape(p, Lead(k), g, <<>>, t)
    BY <1>1, <1>3, InsertedStage
  <2>2. Connected(f, k) = Shape(p, e, g, x, t)
    BY <1>1, <1>3, ConnectedStage DEF Linked
  <2>3. /\ p \in BasicBlock(Name) /\ q \in BasicBlock(Name) /\ t \in Instruction(Name)
        /\ g \in BasicBlock(Name) /\ b = Then(p, Then(q, One(t)))
    BY <1>1, FormedParts
  <2>4. e \in BasicBlock(Name) /\ x \in BasicBlock(Name) /\ Lead(k) \in BasicBlock(Name)
        /\ <<>> \in BasicBlock(Name)
    BY OpeningType, ClosingIs, LeadType, EmptyType
  <2>5. Erase(Lead(k)) = <<>> /\ Erase(e) = <<>> /\ Erase(x) = <<>> /\ Erase(<<>>) = <<>>
    BY EraseParts, EraseNone
  <2>6. Erase(g) = Erase(q)
    BY <2>3, EraseWrap
  <2> HIDE DEF b, e, g, x
  <2>7. Erase(Shape(p, Lead(k), g, <<>>, t)) = Erase(Then(p, Then(q, One(t))))
    BY <2>3, <2>4, <2>5, <2>6, EraseShape
  <2>8. Erase(Shape(p, e, g, x, t)) = Erase(Then(p, Then(q, One(t))))
    BY <2>3, <2>4, <2>5, <2>6, EraseShape
  <2>9. Erase(Inserted(f, k)) = Erase(b) /\ Erase(Connected(f, k)) = Erase(b)
    BY <2>1, <2>2, <2>3, <2>7, <2>8
  <2> QED BY <2>9 DEF b
<1> QED BY <1>2, <1>3

(* The bound of GrowthBounded.                                             *)
Limit(f, k) ==
  Len(source[f][k]) + 2 * Len(OwnCalls(source[f][k]))
    + (IF k = 1 THEN 3 ELSE 0) + (IF k = Len(source[f]) THEN 1 ELSE 0)

(* Lengths are numbers.                                                    *)
LEMMA OwnLen ==
  ASSUME NEW N, NEW b \in BasicBlock(N) PROVE Len(OwnCalls(b)) \in Nat /\ Len(b) \in Nat
BY OwnThen, ElementType

(* ... or is longer than the bound.                                        *)
LEMMA LenStages ==
  ASSUME source \in Programs, NEW f \in Name, NEW k \in DOMAIN source[f]
  PROVE  /\ Len(source[f][k]) <= Limit(f, k)
         /\ Len(Inserted(f, k)) <= Limit(f, k)
         /\ Len(Connected(f, k)) <= Limit(f, k)
<1>1. PICK p, q, t : Formed(Name, source[f][k], p, q, t)
  BY SourceFormed
<1> DEFINE n == Len(source[f])
           g == FlatMap(WrapMap(Name), q)
           e == Opening(f, k)
           x == Closing(f, k, n)
           b == source[f][k]
           l == Lead(k)
           lb == Len(b)
           ob == Len(OwnCalls(b))
           le == Len(e)
           lx == Len(x)
           ll == Len(l)
           k1 == IF k = 1 THEN 3 ELSE 0
           kn == IF k = n THEN 1 ELSE 0
<1>2. lb \in Nat /\ ob \in Nat
  BY SourceIs, OwnLen
<1>3. /\ ll \in Nat /\ ll <= k1 /\ le \in Nat /\ le <= k1 /\ lx \in Nat /\ lx <= kn
  BY PartLen
<1>4. k1 \in Nat /\ kn \in Nat
  OBVIOUS
<1>5. Limit(f, k) = lb + 2 * ob + k1 + kn
  BY DEF Limit
<1>6. CASE f \in Helper
  <2>1. Inserted(f, k) = b /\ Connected(f, k) = b
    BY <1>6, HelperStages
  <2> HIDE DEF lb, ob, le, lx, ll, k1, kn
  <2>2. lb <= Limit(f, k)
    BY <1>2, <1>4, <1>5
  <2> QED BY <2>1, <2>2 DEF lb
<1>7. CASE f \notin Helper
  <2>1. Inserted(f, k) = Shape(p, l, g, <<>>, t)
    BY <1>1, <1>7, InsertedStage
  <2>2. Connected(f, k) = Shape(p, e, g, x, t)
    BY <1>1, <1>7, ConnectedStage DEF Linked
  <2>4. e \in BasicBlock(Name) /\ x \in BasicBlock(Name) /\ l \in BasicBlock(Name)
        /\ <<>> \in BasicBlock(Name)
    BY OpeningType, ClosingIs, LeadType, EmptyType
  <2>5. Formed(Name, b, p, q, t) /\ Len(<<>>) = 0
    BY <1>1
  <2> HIDE DEF b, e, x, l
  <2>6. Len(Shape(p, l, g, <<>>, t)) <= lb + 2 * ob + ll + Len(<<>>)
    BY <2>4, <2>5, ShapeLen
  <2>7. Len(Shape(p, e, g, x, t)) <= lb + 2 * ob + le + lx
    BY <2>4, <2>5, ShapeLen
  <2> DEFINE li == Len(Inserted(f, k))
             lc == Len(Connected(f, k))
  <2>8. li \in Nat /\ lc \in Nat
    BY StageTypes, ElementType
  <2>9. li <= lb + 2 * ob + ll + 0 /\ lc <= lb + 2 * ob + le + lx
    BY <2>1, <2>2, <2>5, <2>6, <2>7
  <2> HIDE DEF li, lc, lb, ob, le, lx, ll, k1, kn
  <2>10. lb <= Limit(f, k) /\ li <= Limit(f, k) /\ lc <= Limit(f, k)
    BY <1>2, <1>3, <1>4, <1>5, <2>8, <2>9
  <2> QED BY <2>10 DEF li, lc, lb, b
<1> QED BY <1>6, <1>7

(* A function reads its caller's region first.                             *)
LEMMA ReadsStages ==
  ASSUME source \in Programs, NEW f \in Name, 1 \in DOMAIN source[f], ~ConnectSkips(f)
  PROVE  ReadsFirst(Connected(f, 1))
<1>1. PICK p, q, t : Formed(Name, source[f][1], p, q, t)
  BY SourceFormed
<1>2. f \notin Helper /\ f # "main"
  BY DEF ConnectSkips
<1> DEFINE g == FlatMap(WrapMap(Name), q)
           x == Closing(f, 1, Len(source[f]))
<1>3. Connected(f, 1) = Shape(p, Opening(f, 1), g, x, t)
  BY <1>1, <1>2, ConnectedStage DEF Linked
<1>4. /\ p \in BasicBlock(Name) /\ g \in BasicBlock(Name) /\ t \in Instruction(Name)
      /\ Each(p, Phis(Name)) /\ x \in BasicBlock(Name)
  BY <1>1, FormedParts, ClosingIs
<1> HIDE DEF g, x
<1> QED BY <1>2, <1>3, <1>4, ShapeReads

(* Without calls through pointers, Set_Operand will only look up functions *)
(* of the program.                                                         *)
LEMMA AimedStages ==
  ASSUME source \in Programs, NEW f \in Name, NEW k \in DOMAIN source[f],
         Each(source[f][k], Bound(Name))
  PROVE  Connected(f, k) \in Aimed(Name)
<1> DEFINE b == source[f][k]
<1>1. PICK p, q, t : Formed(Name, b, p, q, t)
  BY SourceFormed
<1>2. b \in BasicBlock(Name) /\ Each(b, Ordinary(Name)) /\ (f \in Helper => Quiet(b))
  BY SourceIs
<1>3. f \in Symbol(Name)
  BY SymbolIs
<1>4. f \notin Helper => Connected(f, k) = Linked(Name, f, p, q, t, k, Len(source[f]))
  BY <1>1, ConnectedStage
<1>5. f \in Helper => Connected(f, k) = b
  BY HelperStages
<1>6. Each(b, Bound(Name))
  OBVIOUS
<1> HIDE DEF b
<1>7. CASE f \in Helper
  BY <1>2, <1>3, <1>5, <1>7, QuietBlock
<1>8. CASE f \notin Helper
  <2>1. Each(q, Bound(Name))
    BY <1>1, <1>6, FormedEach
  <2>2. Linked(Name, f, p, q, t, k, Len(source[f])) \in Aimed(Name)
    BY <1>1, <2>1, AimedLinked
  <2> QED BY <1>4, <1>8, <2>2
<1> QED BY <1>7, <1>8

(* The last stage is guarded.                                              *)
LEMMA GoodStages ==
  ASSUME source \in Programs, NEW f \in Name, NEW k \in DOMAIN source[f]
  PROVE  Final(f, k) \in Good(Name, f)
<1> DEFINE b == source[f][k]
<1>1. PICK p, q, t : Formed(Name, b, p, q, t)
  BY SourceFormed
<1>2. b \in BasicBlock(Name) /\ Each(b, Ordinary(Name)) /\ (f \in Helper => Quiet(b))
  BY SourceIs
<1>3. f \in Symbol(Name) /\ Name \cap Placeholder = {}
  BY SymbolIs, NameIs
<1>4. CASE f \in Helper
  <2>1. Final(f, k) = b
    BY <1>4, HelperStages
  <2> HIDE DEF b
  <2> QED BY <1>2, <1>3, <1>4, <2>1, QuietBlock
<1>5. CASE f \notin Helper
  <2>1. Final(f, k) = ImageBlock(f, source[f], k)
    BY <1>5, FinalStage
  <2>2. Each(p, Ordinary(Name))
    <3> HIDE DEF b
    <3> QED BY <1>1, <1>2, FormedEach
  <2>3. ImageBlock(f, source[f], k) \in Good(Name, f)
    BY <1>1, <1>3, <2>2, GoodImage
  <2> QED BY <2>1, <2>3
<1> QED BY <1>4, <1>5

(* A block has no call through a pointer when the walk over it found none. *)
LEMMA BoundStages ==
  ASSUME source \in Programs, NEW f \in Name, NEW k \in DOMAIN source[f], f \notin Helper,
         Each(Inserted(f, k), Bound(Name))
  PROVE  Each(source[f][k], Bound(Name))
<1> DEFINE b == source[f][k]
<1>1. PICK p, q, t : Formed(Name, b, p, q, t)
  BY SourceFormed
<1>2. Inserted(f, k) = FlatMap(WrapMap(Name), Begun(b, k))
  BY DEF Inserted
<1> HIDE DEF b
<1>3. Each(b, Bound(Name))
  BY <1>1, <1>2, InsertedBound
<1> QED BY <1>3 DEF b
-----------------------------------------------------------------------------
(* Insert_Function's walk: done up to the iterator, and what is to come.   *)
Halves(b, i, d, u) ==
  /\ d \in BasicBlock(Name) /\ u \in BasicBlock(Name)
  /\ b = Then(d, u) /\ i = Len(d) + 1

(* Every iterator cuts its block in two.                                   *)
LEMMA HalvesExist ==
  ASSUME NEW b \in BasicBlock(Name), NEW i \in 1 .. Len(b) + 1
  PROVE  \E d, u : Halves(b, i, d, u)
<1>1. Len(b) \in Nat
  BY ElementType
<1> DEFINE n == i - 1
<1>2. n \in 0 .. Len(b) /\ i = n + 1
  BY <1>1
<1> HIDE DEF n
<1>3. PICK d, u \in Seq(Instruction(Name)) : b = Then(d, u) /\ Len(d) = n
  BY <1>2, SplitAt DEF BasicBlock
<1>4. i = Len(d) + 1
  BY <1>2, <1>3
<1> QED BY <1>3, <1>4 DEF Halves, BasicBlock

(* Walked, of the two.                                                     *)
LEMMA HalvesWalked ==
  ASSUME NEW b, NEW i, NEW d, NEW u, NEW r, Halves(b, i, d, u)
  PROVE  Walked(b, i, r) <=> /\ Then(d, FlatMap(WrapMap(Name), u)) = r
                             /\ Each(d, Bound(Name)) /\ Each(u, Met)
<1>1. d \in BasicBlock(Name) /\ u \in BasicBlock(Name) /\ b = Then(d, u) /\ i = Len(d) + 1
  BY DEF Halves
<1>2. SubSeq(Then(d, u), 1, Len(d)) = d
      /\ SubSeq(Then(d, u), Len(d) + 1, Len(Then(d, u))) = u
  BY <1>1, CutThen DEF BasicBlock
<1>3. Len(d) \in Nat
  BY <1>1, ElementType
<1>4. i - 1 = Len(d)
  BY <1>1, <1>3
<1>5. SubSeq(b, 1, i - 1) = d /\ SubSeq(b, i, Len(b)) = u
  BY <1>1, <1>2, <1>4
<1> QED BY <1>5 DEF Walked

(* The instruction the iterator points to.                                 *)
Thirds(b, i, d, x, v) ==
  /\ d \in BasicBlock(Name) /\ x \in Instruction(Name) /\ v \in BasicBlock(Name)
  /\ Halves(b, i, d, Then(One(x), v)) /\ x = b[i]

(* An iterator in the block points to an instruction.                      *)
LEMMA ThirdsExist ==
  ASSUME NEW b \in BasicBlock(Name), NEW i \in 1 .. Len(b)
  PROVE  \E d, x, v : Thirds(b, i, d, x, v)
<1>1. Len(b) \in Nat
  BY ElementType
<1>2. i \in 1 .. Len(b) + 1
  BY <1>1
<1>3. PICK d, u : Halves(b, i, d, u)
  BY <1>2, HalvesExist
<1>4. d \in BasicBlock(Name) /\ u \in BasicBlock(Name) /\ b = Then(d, u) /\ i = Len(d) + 1
  BY <1>3 DEF Halves
<1>5. Joins(b, d, u) /\ Len(d) \in Nat /\ Len(u) \in Nat
  BY <1>4, ThenJoins, ElementType DEF BasicBlock
<1>6. Len(u) # 0 /\ b[Len(d) + 1] = u[1]
  BY <1>4, <1>5 DEF Joins
<1>7. PICK v \in Seq(Instruction(Name)) : u = Then(One(u[1]), v) /\ u[1] \in Instruction(Name)
  BY <1>4, <1>6, SplitHead DEF BasicBlock
<1> DEFINE x == u[1]
<1>8. x = b[i] /\ x \in Instruction(Name) /\ u = Then(One(x), v) /\ v \in BasicBlock(Name)
  BY <1>4, <1>6, <1>7 DEF BasicBlock
<1> HIDE DEF x
<1>9. Thirds(b, i, d, x, v)
  BY <1>3, <1>4, <1>8 DEF Thirds
<1> QED BY <1>9

(* What Walked says of it.                                                 *)
LEMMA ThirdsWalked ==
  ASSUME NEW b, NEW i, NEW d, NEW x, NEW v, NEW r, Thirds(b, i, d, x, v), Walked(b, i, r)
  PROVE  /\ Then(d, Then(WrapMap(Name)[x], FlatMap(WrapMap(Name), v))) = r
         /\ Each(d, Bound(Name)) /\ x \in Met /\ Each(v, Met)
         /\ WrapMap(Name)[x] \in BasicBlock(Name) /\ FlatMap(WrapMap(Name), v) \in BasicBlock(Name)
<1> DEFINE w == WrapMap(Name)
           e == One(x)
           u == Then(e, v)
<1>1. /\ d \in BasicBlock(Name) /\ x \in Instruction(Name) /\ v \in BasicBlock(Name)
      /\ Halves(b, i, d, u) /\ e \in BasicBlock(Name)
  BY BlockOne DEF Thirds
<1>2. Map(w, Instruction(Name), BasicBlock(Name))
  BY WrapType
<1>3. Then(d, FlatMap(w, u)) = r /\ Each(d, Bound(Name)) /\ Each(u, Met)
  BY <1>1, HalvesWalked
<1>4. FlatMap(w, e) = w[x]
  BY <1>1, <1>2, BlockMapOne
<1>5. Each(e, Met) <=> x \in Met
  BY <1>1, OneEach
<1>6. w[x] \in BasicBlock(Name) /\ FlatMap(w, v) \in BasicBlock(Name)
  BY <1>1, <1>2, BlockMap DEF Map
<1> HIDE DEF w, e
<1>7. FlatMap(w, u) = Then(w[x], FlatMap(w, v))
  BY <1>1, <1>2, <1>4, BlockMapThen
<1>8. Each(e, Met) /\ Each(v, Met)
  BY <1>1, <1>3, BlockEach
<1> QED BY <1>3, <1>5, <1>6, <1>7, <1>8 DEF w

(* The walk begins in front of the block.                                  *)
LEMMA WalkStart ==
  ASSUME NEW b \in BasicBlock(Name), Each(b, Met)
  PROVE  Walked(b, 1, FlatMap(WrapMap(Name), b))
<1> DEFINE r == FlatMap(WrapMap(Name), b)
<1>1. <<>> \in BasicBlock(Name) /\ Len(<<>>) = 0
  BY EmptyType
<1>2. b = Then(<<>>, b)
  BY BlockNone
<1>3. Halves(b, 1, <<>>, b)
  BY <1>1, <1>2 DEF Halves
<1>4. r \in BasicBlock(Name)
  BY WrapType, BlockMap
<1> HIDE DEF r
<1>5. Then(<<>>, r) = r
  BY <1>4, BlockNone
<1>6. Each(<<>>, Bound(Name))
  BY DEF Each
<1>7. Walked(b, 1, r)
  BY <1>3, <1>5, <1>6, HalvesWalked DEF r
<1> QED BY <1>7 DEF r

(* An instruction that needs nothing around it: the iterator moves on.     *)
LEMMA WalkPass ==
  ASSUME NEW b \in BasicBlock(Name), NEW i \in 1 .. Len(b), NEW r, Walked(b, i, r),
         ~IsCall(b[i]) \/ b[i].callee \in MpuFunction
  PROVE  Walked(b, i + 1, r)
<1>1. PICK d, x, v : Thirds(b, i, d, x, v)
  BY ThirdsExist
<1> DEFINE w == WrapMap(Name)
           e == One(x)
           g == FlatMap(w, v)
           c == Then(d, e)
<1>2. /\ d \in BasicBlock(Name) /\ x \in Instruction(Name) /\ v \in BasicBlock(Name)
      /\ b = Then(d, Then(e, v)) /\ i = Len(d) + 1 /\ x = b[i]
  BY <1>1 DEF Thirds, Halves
<1>3. /\ Then(d, Then(w[x], g)) = r /\ Each(d, Bound(Name)) /\ Each(v, Met)
      /\ g \in BasicBlock(Name)
  BY <1>1, ThirdsWalked
<1>4. ~IsOwnCall(x) /\ x \in Bound(Name)
  BY <1>2 DEF IsOwnCall, Bound, Helper, MpuFunction
<1>5. w[x] = e
  BY <1>2, <1>4, WrapIs
<1>6. e \in BasicBlock(Name) /\ Len(e) = 1 /\ (Each(e, Bound(Name)) <=> x \in Bound(Name))
  BY <1>2, BlockOne, OneLen, OneEach
<1> HIDE DEF e, g
<1>7. c \in BasicBlock(Name) /\ Len(c) = Len(d) + Len(e)
  BY <1>2, <1>6, BlockThen, ThenLen
<1>8. Each(c, Bound(Name))
  BY <1>2, <1>3, <1>4, <1>6, BlockEach
<1>9. b = Then(c, v) /\ Then(c, g) = Then(d, Then(e, g))
  BY <1>2, <1>3, <1>6, BlockAssociative
<1>10. i + 1 = Len(c) + 1
  BY <1>2, <1>6, <1>7, ElementType
<1> HIDE DEF c
<1>11. Halves(b, i + 1, c, v)
  BY <1>2, <1>7, <1>9, <1>10 DEF Halves
<1>12. Then(c, g) = r
  BY <1>3, <1>5, <1>9
<1> QED BY <1>3, <1>8, <1>11, <1>12, HalvesWalked DEF g

(* Behind the block, the walk has made what it was to make, and met no     *)
(* call through a pointer.                                                 *)
LEMMA WalkEnd ==
  ASSUME NEW b \in BasicBlock(Name), NEW r, Walked(b, Len(b) + 1, r)
  PROVE  b = r /\ Each(b, Bound(Name))
<1>1. <<>> \in BasicBlock(Name) /\ b = Then(b, <<>>)
  BY EmptyType, BlockNone
<1>2. Halves(b, Len(b) + 1, b, <<>>)
  BY <1>1 DEF Halves
<1>3. Then(b, FlatMap(WrapMap(Name), <<>>)) = r /\ Each(b, Bound(Name))
  BY <1>2, HalvesWalked
<1>4. FlatMap(WrapMap(Name), <<>>) = <<>>
  BY FlatMapNone
<1> QED BY <1>1, <1>3, <1>4

(* The two insertions around a call.                                       *)
Surrounded(b, i) ==
  InsertAt(InsertAt(b, i, MpuConfig("rest", 2)), i + 2, MpuConfig("rest", 1))

(* What they make of the parts of the block.                               *)
LEMMA SurroundedIs ==
  ASSUME NEW b, NEW i, NEW d, NEW x, NEW v, Thirds(b, i, d, x, v)
  PROVE  LET y == MpuConfig("rest", 2)
             z == MpuConfig("rest", 1)
             c == Then(d, Then(One(y), One(x)))
         IN  /\ Surrounded(b, i) = Then(c, Then(One(z), v))
             /\ c \in BasicBlock(Name) /\ Len(c) = Len(d) + 2 /\ i = Len(d) + 1
             /\ Then(One(z), v) \in BasicBlock(Name)
<1> DEFINE y == MpuConfig("rest", 2)
           z == MpuConfig("rest", 1)
           s == One(y)
           e == One(x)
           o == One(z)
           k == Then(s, e)
           c == Then(d, k)
<1>1. /\ d \in BasicBlock(Name) /\ x \in Instruction(Name) /\ v \in BasicBlock(Name)
      /\ b = Then(d, Then(e, v)) /\ i = Len(d) + 1 /\ Len(d) \in Nat
  BY ElementType DEF Thirds, Halves
<1>2. y \in Instruction(Name) /\ z \in Instruction(Name)
  BY RestType
<1>3. /\ s \in BasicBlock(Name) /\ Len(s) = 1 /\ e \in BasicBlock(Name) /\ Len(e) = 1
      /\ o \in BasicBlock(Name)
  BY <1>1, <1>2, BlockOne, OneLen
<1> HIDE DEF y, z
<1>4. InsertAt(b, i, y) = Then(d, Then(s, Then(e, v)))
  <2>1. Then(e, v) \in BasicBlock(Name)
    BY <1>1, <1>3, BlockThen
  <2> DEFINE q == Then(e, v)
  <2> HIDE DEF q
  <2>2. InsertAt(Then(d, q), Len(d) + 1, y) = Then(d, Then(One(y), q))
    BY <1>1, <1>2, <2>1, InsertBlock DEF q
  <2> QED BY <1>1, <2>2 DEF q
<1> HIDE DEF s, e, o
<1>5. k \in BasicBlock(Name) /\ Len(k) = Len(s) + Len(e) /\ Then(e, v) \in BasicBlock(Name)
  BY <1>1, <1>3, BlockThen, ThenLen
<1>6. Then(s, Then(e, v)) = Then(k, v)
  BY <1>1, <1>3, BlockAssociative
<1> HIDE DEF k
<1>7. c \in BasicBlock(Name) /\ Len(c) = Len(d) + Len(k)
  BY <1>1, <1>5, BlockThen, ThenLen
<1>8. Then(d, Then(k, v)) = Then(c, v)
  BY <1>1, <1>5, BlockAssociative
<1> HIDE DEF c
<1>9. InsertAt(b, i, y) = Then(c, v)
  BY <1>4, <1>6, <1>8
<1>10. InsertAt(Then(c, v), Len(c) + 1, z) = Then(c, Then(o, v))
  BY <1>1, <1>2, <1>7, InsertBlock DEF o
<1> DEFINE ld == Len(d)
           ls == Len(s)
           le == Len(e)
           lk == Len(k)
           lc == Len(c)
<1>11. ld \in Nat /\ ls = 1 /\ le = 1 /\ lk = ls + le /\ lc = ld + lk /\ i = ld + 1
  BY <1>1, <1>3, <1>5, <1>7
<1> HIDE DEF ld, ls, le, lk, lc
<1>12. i + 2 = lc + 1 /\ lc = ld + 2
  BY <1>11
<1>13. InsertAt(InsertAt(b, i, y), i + 2, z) = Then(c, Then(o, v))
  BY <1>9, <1>10, <1>12 DEF lc
<1>14. Then(o, v) \in BasicBlock(Name)
  BY <1>1, <1>3, BlockThen
<1>15. Surrounded(b, i) = Then(c, Then(o, v))
  BY <1>13 DEF Surrounded, y, z
<1>16. Len(c) = Len(d) + 2
  BY <1>12 DEF lc, ld
<1> QED BY <1>1, <1>7, <1>14, <1>15, <1>16 DEF y, z, s, e, o, k, c

(* The pass goes on with the inserted call behind the call, which is one   *)
(* of the driver's and therefore passed over next.                         *)
LEMMA WalkAround ==
  ASSUME NEW b \in BasicBlock(Name), NEW i \in 1 .. Len(b), NEW r, Walked(b, i, r),
         IsCall(b[i]), b[i].callee \notin MpuFunction, b[i].callee # "pointer"
  PROVE  /\ Surrounded(b, i) \in BasicBlock(Name)
         /\ i + 2 \in 1 .. Len(Surrounded(b, i))
         /\ Walked(Surrounded(b, i), i + 2, r)
<1>1. PICK d, x, v : Thirds(b, i, d, x, v)
  BY ThirdsExist
<1> DEFINE w == WrapMap(Name)
           y == MpuConfig("rest", 2)
           z == MpuConfig("rest", 1)
           s == One(y)
           e == One(x)
           o == One(z)
           k == Then(s, e)
           c == Then(d, k)
           u == Then(o, v)
           g == FlatMap(w, v)
           a == Surrounded(b, i)
<1>2. d \in BasicBlock(Name) /\ x \in Instruction(Name) /\ v \in BasicBlock(Name) /\ x = b[i]
  BY <1>1 DEF Thirds
<1>3. /\ Then(d, Then(w[x], g)) = r /\ Each(d, Bound(Name)) /\ x \in Met /\ Each(v, Met)
      /\ g \in BasicBlock(Name)
  BY <1>1, ThirdsWalked
<1>4. IsOwnCall(x) /\ x \in Bound(Name)
  BY <1>2, <1>3 DEF Met, IsOwnCall, Bound
<1>5. w[x] = Triple(y, x, z)
  BY <1>2, <1>4, WrapIs
<1>6. /\ a = Then(c, u) /\ c \in BasicBlock(Name) /\ Len(c) = Len(d) + 2 /\ i = Len(d) + 1
      /\ u \in BasicBlock(Name)
  BY <1>1, SurroundedIs
<1>7. y \in Instruction(Name) /\ z \in Instruction(Name)
  BY RestType
<1>8. /\ ~IsOwnCall(z) /\ y \in Bound(Name) /\ z \in Met
  <2>1. y.callee = "MPU_Config" /\ z.callee = "MPU_Config" /\ ~IsOwnCall(z)
    BY ConfigIs
  <2> HIDE DEF y, z
  <2> QED BY <1>7, <2>1 DEF Bound, Met, MpuFunction
<1>9. /\ s \in BasicBlock(Name) /\ (Each(s, Bound(Name)) <=> y \in Bound(Name))
      /\ e \in BasicBlock(Name) /\ (Each(e, Bound(Name)) <=> x \in Bound(Name))
      /\ o \in BasicBlock(Name) /\ (Each(o, Met) <=> z \in Met)
  BY <1>2, <1>7, BlockOne, OneEach
<1>10. Map(w, Instruction(Name), BasicBlock(Name))
  BY WrapType
<1>11. FlatMap(w, o) = o
  <2>1. w[z] = One(z)
    BY <1>7, <1>8, WrapIs
  <2> HIDE DEF w, z
  <2>2. FlatMap(w, One(z)) = w[z]
    BY <1>7, <1>10, BlockMapOne
  <2> QED BY <2>1, <2>2
<1> HIDE DEF w, y, z
<1>12. w[x] = Then(s, Then(e, o))
  BY <1>5 DEF Triple
<1> HIDE DEF s, e, o, g, a
<1>13. FlatMap(w, u) = Then(o, g)
  BY <1>2, <1>9, <1>10, <1>11, BlockMapThen DEF g
<1>14. k \in BasicBlock(Name) /\ Then(o, g) \in BasicBlock(Name) /\ Then(e, o) \in BasicBlock(Name)
  BY <1>3, <1>9, BlockThen
<1>15. Then(Then(s, Then(e, o)), g) = Then(k, Then(o, g))
  <2>1. Then(s, Then(e, o)) = Then(k, o)
    BY <1>9, BlockAssociative
  <2>2. Then(Then(k, o), g) = Then(k, Then(o, g))
    BY <1>3, <1>9, <1>14, BlockAssociative
  <2> QED BY <2>1, <2>2
<1>16. Each(k, Bound(Name))
  BY <1>4, <1>8, <1>9, BlockEach
<1>17. Each(u, Met)
  BY <1>2, <1>3, <1>8, <1>9, BlockEach
<1> HIDE DEF k
<1>18. Then(d, Then(k, Then(o, g))) = Then(c, Then(o, g))
  BY <1>2, <1>14, BlockAssociative
<1>19. Each(c, Bound(Name))
  BY <1>2, <1>3, <1>14, <1>16, BlockEach
<1>20. Len(u) # 0 /\ Len(u) \in Nat
  <2>1. Len(u) = Len(o) + Len(v)
    BY <1>2, <1>9, ThenLen
  <2>2. Len(o) = 1
    BY OneLen DEF o
  <2>3. Len(v) \in Nat
    BY <1>2, ElementType
  <2> DEFINE lu == Len(u)
             lo == Len(o)
             lv == Len(v)
  <2> HIDE DEF lu, lo, lv
  <2>4. lu # 0 /\ lu \in Nat
    BY <2>1, <2>2, <2>3 DEF lu, lo, lv
  <2> QED BY <2>4 DEF lu
<1> HIDE DEF c, u
<1>21. a \in BasicBlock(Name) /\ Len(a) = Len(c) + Len(u)
  BY <1>6, BlockThen, ThenLen
<1>22. Len(d) \in Nat
  BY <1>2, ElementType
<1>23. i + 2 = Len(c) + 1 /\ i + 2 \in 1 .. Len(a)
  BY <1>6, <1>20, <1>21, <1>22
<1>24. Halves(a, i + 2, c, u)
  BY <1>6, <1>23 DEF Halves
<1>25. Then(c, FlatMap(w, u)) = r
  BY <1>3, <1>12, <1>13, <1>15, <1>18
<1>26. Walked(a, i + 2, r)
  BY <1>17, <1>19, <1>24, <1>25, HalvesWalked DEF w
<1> QED BY <1>21, <1>23, <1>26 DEF a

(* The walk begins behind the insertion into the first block, which the    *)
(* iterator will meet.                                                     *)
LEMMA BeginWalk ==
  ASSUME source \in Programs, NEW f \in Name, NEW k \in DOMAIN source[f], f \notin Helper
  PROVE  /\ Begun(source[f][k], k) \in BasicBlock(Name)
         /\ Walked(Begun(source[f][k], k), 1, Inserted(f, k))
<1> DEFINE b == source[f][k]
           c == Begun(b, k)
           e == Lead(k)
<1>1. PICK p, q, t : Formed(Name, b, p, q, t)
  BY SourceFormed
<1>2. Each(b, Ordinary(Name))
  BY SourceIs
<1>3. Inserted(f, k) = FlatMap(WrapMap(Name), c)
  BY DEF Inserted
<1> HIDE DEF b
<1> DEFINE d == One(t)
           u == Then(q, d)
<1>4. /\ p \in BasicBlock(Name) /\ q \in BasicBlock(Name) /\ t \in Instruction(Name)
      /\ d \in BasicBlock(Name) /\ u \in BasicBlock(Name) /\ e \in BasicBlock(Name)
      /\ c = Then(p, Then(e, u))
  BY <1>1, FormedParts, BegunIs, BlockOne, BlockThen, LeadType
<1>5. ASSUME NEW a, Each(a, Ordinary(Name)) PROVE Each(a, Met)
  <2>1. Ordinary(Name) \subseteq Met
    BY DEF Ordinary, Met, Helper, MpuFunction, ReadFunction
  <2> QED BY <1>5, <2>1 DEF Each
<1>6. Each(p, Met) /\ Each(q, Met) /\ t \in Met
  <2>1. Each(b, Met)
    BY <1>2, <1>5
  <2> QED BY <1>1, <2>1, FormedEach
<1>7. Each(d, Met)
  BY <1>4, <1>6, OneEach
<1>8. Each(e, Met)
  <2>1. First \in Instruction(Name) /\ First.callee = "MPU_Config"
    BY RestType, ConfigIs DEF First
  <2>2. First \in Met
    BY <2>1 DEF Met, MpuFunction
  <2>3. Each(One(First), Met)
    BY <2>1, <2>2, OneEach
  <2>4. Each(<<>>, Met)
    BY DEF Each
  <2> QED BY <2>3, <2>4 DEF Lead
<1> HIDE DEF d, e, c
<1>9. Each(u, Met)
  BY <1>4, <1>6, <1>7, BlockEach
<1> HIDE DEF u
<1>10. Then(e, u) \in BasicBlock(Name) /\ Each(Then(e, u), Met)
  BY <1>4, <1>8, <1>9, BlockThen, BlockEach
<1>11. c \in BasicBlock(Name) /\ Each(c, Met)
  BY <1>4, <1>6, <1>10, BlockThen, BlockEach
<1>12. Walked(c, 1, FlatMap(WrapMap(Name), c))
  BY <1>11, WalkStart
<1> QED BY <1>3, <1>11, <1>12 DEF c, b
-----------------------------------------------------------------------------
(* Set_Operand's walk begins with nothing filled in ...                    *)
LEMMA SetStart ==
  ASSUME NEW b \in BasicBlock(Name), NEW f PROVE SetUpTo(b, 1, f, b)
BY DEF SetUpTo

(* a is b with x at i.                                                     *)
Replaced(a, b, i, x) ==
  Len(a) = Len(b) /\ a[i] = x /\ \A j \in 1 .. Len(b) : j # i => a[j] = b[j]

(* ... fills in the instruction the iterator points to ...                 *)
LEMMA SetStep ==
  ASSUME NEW b \in BasicBlock(Name), NEW i \in 1 .. Len(b), NEW f, NEW c, NEW a,
         SetUpTo(b, i, f, c), Replaced(a, b, i, FillAt(f, c, i))
  PROVE  SetUpTo(a, i + 1, f, c)
<1>1. Len(a) = Len(c) /\ Len(b) = Len(c) /\ Len(c) \in Nat
  BY ElementType DEF SetUpTo, Replaced
<1>2. ASSUME NEW j \in 1 .. Len(c)
      PROVE  a[j] = IF j < i + 1 THEN FillAt(f, c, j) ELSE c[j]
  <2>1. CASE j = i
    BY <2>1 DEF Replaced
  <2>2. CASE j # i
    <3>1. a[j] = b[j]
      BY <1>1, <2>2 DEF Replaced
    <3>2. b[j] = IF j < i THEN FillAt(f, c, j) ELSE c[j]
      BY DEF SetUpTo
    <3>3. j < i + 1 <=> j < i
      BY <2>2
    <3> QED BY <3>1, <3>2, <3>3
  <2> QED BY <2>1, <2>2
<1> QED BY <1>1, <1>2 DEF SetUpTo

(* (or leaves it) ...                                                      *)
LEMMA SetNothing ==
  ASSUME NEW b \in BasicBlock(Name), NEW i \in 1 .. Len(b) PROVE Replaced(b, b, i, b[i])
BY DEF Replaced

(* ... and ends with all filled in.                                        *)
LEMMA SetEnd ==
  ASSUME NEW b \in BasicBlock(Name), NEW f \in Name, NEW c \in BasicBlock(Name),
         SetUpTo(b, Len(b) + 1, f, c)
  PROVE  b = Filled(f, c)
<1>1. Len(b) = Len(c) /\ Len(c) \in Nat
  BY ElementType DEF SetUpTo
<1>2. ASSUME NEW j \in 1 .. Len(c) PROVE b[j] = FillAt(f, c, j)
  <2>1. j < Len(b) + 1
    BY <1>1
  <2> QED BY <2>1 DEF SetUpTo
<1>3. Fills(b, f, c)
  BY <1>1, <1>2 DEF Fills
<1> QED BY <1>3, SymbolIs, FillsIs

(* On its way the block differs from what it was in regions only ...       *)
LEMMA SetKin ==
  ASSUME NEW b \in BasicBlock(Name), NEW c \in BasicBlock(Name), NEW f, NEW i, SetUpTo(b, i, f, c)
  PROVE  Kin(b, c)
<1>1. ASSUME NEW j \in 1 .. Len(c) PROVE KinAt(b, c, j)
  <2> DEFINE y == FillAt(f, c, j)
             x == c[j]
  <2>1. y = x \/ (IsConfig(y) /\ IsConfig(x) /\ y.num = x.num)
    BY FillKin
  <2>2. b[j] = y \/ b[j] = x
    BY DEF SetUpTo
  <2> HIDE DEF y
  <2> QED BY <2>1, <2>2 DEF KinAt
<1> QED BY <1>1 DEF Kin, SetUpTo

(* ... and so does the last stage.                                         *)
LEMMA FilledKin ==
  ASSUME source \in Programs, NEW f \in Name, NEW k \in DOMAIN source[f]
  PROVE  Kin(Final(f, k), Connected(f, k))
<1> DEFINE b == Final(f, k)
           c == Connected(f, k)
<1>1. b \in BasicBlock(Name) /\ c \in BasicBlock(Name) /\ Fills(b, f, c)
  BY StageTypes
<1> HIDE DEF b, c
<1>2. ASSUME NEW j \in 1 .. Len(c) PROVE KinAt(b, c, j)
  <2> DEFINE y == FillAt(f, c, j)
             x == c[j]
  <2>1. y = x \/ (IsConfig(y) /\ IsConfig(x) /\ y.num = x.num)
    BY <1>1, FillKin
  <2>2. b[j] = y
    BY <1>1 DEF Fills
  <2> HIDE DEF y
  <2> QED BY <2>1, <2>2 DEF KinAt
<1>3. Kin(b, c)
  BY <1>1, <1>2 DEF Kin, Fills
<1> QED BY <1>3 DEF b, c

(* What the iterator of Set_Operand points to, and what stands behind it.  *)
LEMMA SetHere ==
  ASSUME NEW b \in BasicBlock(Name), NEW c \in Aimed(Name), NEW f, NEW i \in 1 .. Len(b),
         SetUpTo(b, i, f, c)
  PROVE  /\ b[i] = c[i]
         /\ Awaits(b[i]) => /\ i < Len(c) /\ b[i + 1] = c[i + 1]
                            /\ IsCall(b[i + 1]) => b[i + 1].callee \in Name \ Helper
<1>1. Len(b) = Len(c) /\ Len(c) \in Nat
  BY ElementType DEF SetUpTo
<1>2. b[i] = c[i]
  BY <1>1 DEF SetUpTo
<1>3. ASSUME Awaits(b[i])
      PROVE  /\ i < Len(c) /\ b[i + 1] = c[i + 1]
             /\ IsCall(b[i + 1]) => b[i + 1].callee \in Name \ Helper
  <2>1. i + 1 \in 1 .. Len(c) /\ c[i + 1] \in Target(Name)
    BY <1>1, <1>2, <1>3 DEF Aimed, AimedAt
  <2>2. b[i + 1] = c[i + 1]
    BY <2>1 DEF SetUpTo
  <2>3. i < Len(c)
    BY <1>1, <2>1
  <2> QED BY <2>1, <2>2, <2>3 DEF Target
<1> QED BY <1>2, <1>3
-----------------------------------------------------------------------------
(* What TypeOK and the assumptions say of the iterators.                   *)

(* Order has every function once.                                          *)
LEMMA OrderTyped ==
  /\ Len(Order) \in Nat /\ DOMAIN Order = 1 .. Len(Order)
  /\ \A n \in DOMAIN Order : Order[n] \in Name
  /\ \A f \in Name : \E n \in DOMAIN Order : f = Order[n]
  /\ \A m, n \in DOMAIN Order : Order[m] = Order[n] => m = n
  /\ Name = {Order[n] : n \in DOMAIN Order}
<1>1. Order \in Seq(Name)
  BY NameIs
<1>2. Len(Order) \in Nat /\ DOMAIN Order = 1 .. Len(Order)
  BY <1>1, LenProperties
<1>3. Name = {Order[n] : n \in DOMAIN Order}
  BY DEF Name, ToSet
<1> QED BY <1>2, <1>3, OrderAssumption

(* The module has its shape in every state.                                *)
LEMMA Typed ==
  ASSUME TypeOK, NEW f \in Name
  PROVE  /\ Len(source[f]) \in Nat /\ DOMAIN source[f] = 1 .. Len(source[f])
         /\ Len(body[f]) = Len(source[f]) /\ DOMAIN body[f] = DOMAIN source[f]
         /\ \A k \in DOMAIN source[f] : body[f][k] \in BasicBlock(Name)
<1>1. source \in [Name -> Seq(BasicBlock(Name))]
  BY ProgramAssumption DEF TypeOK
<1>2. source[f] \in Seq(BasicBlock(Name)) /\ body[f] \in Seq(BasicBlock(Name))
      /\ Len(body[f]) = Len(source[f])
  BY <1>1 DEF TypeOK
<1>3. /\ Len(source[f]) \in Nat /\ DOMAIN source[f] = 1 .. Len(source[f])
      /\ DOMAIN body[f] = DOMAIN source[f]
  BY <1>2, LenProperties
<1>4. \A k \in DOMAIN source[f] : body[f][k] \in BasicBlock(Name)
  BY <1>2, <1>3, ElementOfSeq
<1> QED BY <1>2, <1>3, <1>4

(* The iterators point to a block, or behind the last one.                 *)
LEMMA CursorTyped ==
  ASSUME TypeOK, fn <= Len(Order)
  PROVE  /\ fn \in DOMAIN Order /\ F \in Name
         /\ blk <= Len(source[F]) => blk \in DOMAIN source[F] /\ B \in BasicBlock(Name)
<1>1. fn \in DOMAIN Order /\ F \in Name
  BY OrderTyped DEF TypeOK, F
<1>2. blk <= Len(source[F]) => blk \in DOMAIN source[F]
  BY <1>1, Typed DEF TypeOK
<1>3. blk \in DOMAIN source[F] => B \in BasicBlock(Name)
  BY <1>1, Typed DEF B
<1> QED BY <1>1, <1>2, <1>3

(* No step changes the module the passes began with, nor its stages.       *)
LEMMA StageFrame ==
  ASSUME source' = source, NEW f, NEW k
  PROVE  /\ Inserted(f, k)' = Inserted(f, k)
         /\ Connected(f, k)' = Connected(f, k)
         /\ Final(f, k)' = Final(f, k)
<1>1. Inserted(f, k)' = Inserted(f, k)
  BY DEF Inserted
<1>2. Connected(f, k)' = Connected(f, k)
  BY <1>1 DEF Connected
<1> QED BY <1>1, <1>2 DEF Final

(* What a change of the block that the iterators point to leaves alone.    *)
LEMMA Rewritten ==
  ASSUME TypeOK, fn <= Len(Order), blk \in DOMAIN source[F],
         NEW b \in BasicBlock(Name), Rewrite(b)
  PROVE  /\ body' \in [Name -> Seq(BasicBlock(Name))]
         /\ \A f \in Name : Len(body'[f]) = Len(body[f])
         /\ body'[F][blk] = b
         /\ \A n \in DOMAIN Order : \A k \in DOMAIN source[Order[n]] :
              ~(n = fn /\ k = blk) => body'[Order[n]][k] = body[Order[n]][k]
<1>1. fn \in DOMAIN Order /\ F \in Name
  BY CursorTyped
<1>2. body \in [Name -> Seq(BasicBlock(Name))]
  BY DEF TypeOK
<1> DEFINE s == [body[F] EXCEPT ![blk] = b]
<1>3. body' = [body EXCEPT ![F] = s]
  BY DEF Rewrite
<1>4. blk \in DOMAIN body[F] /\ body[F] \in Seq(BasicBlock(Name))
  BY <1>1, <1>2, Typed
<1>5. s \in Seq(BasicBlock(Name)) /\ Len(s) = Len(body[F])
      /\ s[blk] = b /\ \A k \in DOMAIN body[F] : k # blk => s[k] = body[F][k]
  BY <1>4, ExceptSeq
<1> HIDE DEF s
<1>6. body' \in [Name -> Seq(BasicBlock(Name))]
  BY <1>1, <1>2, <1>3, <1>5
<1>7. body'[F] = s /\ \A f \in Name : f # F => body'[f] = body[f]
  BY <1>1, <1>2, <1>3
<1>8. \A f \in Name : Len(body'[f]) = Len(body[f])
  BY <1>5, <1>7
<1>9. ASSUME NEW n \in DOMAIN Order, NEW k \in DOMAIN source[Order[n]], ~(n = fn /\ k = blk)
      PROVE  body'[Order[n]][k] = body[Order[n]][k]
  <2>1. Order[n] \in Name
    BY OrderTyped
  <2>2. CASE n = fn
    <3>1. Order[n] = F /\ k \in DOMAIN body[F] /\ k # blk
      BY <1>1, <1>9, <2>2, Typed DEF F
    <3> QED BY <1>5, <1>7, <3>1
  <2>3. CASE n # fn
    <3>1. Order[n] # F
      BY <1>1, <2>3, OrderTyped DEF F
    <3> QED BY <1>7, <2>1, <3>1
  <2> QED BY <2>2, <2>3
<1> QED BY <1>5, <1>6, <1>7, <1>8, <1>9
-----------------------------------------------------------------------------
(* The invariant holds at first and is kept: one lemma for each action.    *)

(* At first no pass has done anything.                                     *)
LEMMA InitStep == Init => IInv
<1> SUFFICES ASSUME Init PROVE IInv
  OBVIOUS
<1> USE DEF Init
<1>1. source \in [Name -> Seq(BasicBlock(Name))]
  BY ProgramAssumption
<1>2. TypeOK
  <2>1. 1 \in 1 .. Len(Order) + 1
    BY OrderTyped
  <2>2. <<>> \in Seq(Name \ Helper)
    OBVIOUS
  <2> QED BY <1>1, <2>1, <2>2 DEF TypeOK
<1>3. CursorInv /\ BoundInv /\ WalkInv /\ SetInv
  BY DEF CursorInv, BoundInv, WalkInv, SetInv
<1>4. ListInv
  <2>1. ToSet(<<>>) = {}
    BY DEF ToSet
  <2>2. 1 .. fn - 1 = {}
    OBVIOUS
  <2> QED BY <2>1, <2>2 DEF ListInv
<1>5. BodyInv
  BY DEF BodyInv, Left, Found
<1> QED BY <1>2, <1>3, <1>4, <1>5 DEF IInv

(* A stop leaves the types.                                                *)
LEMMA StopStep == ASSUME TypeOK, Stop PROVE IInv'
BY DEF TypeOK, Stop, IInv, cursor

(* A name appended to the list.                                            *)
LEMMA AppendTyped ==
  ASSUME NEW S, NEW s \in Seq(S), NEW e \in S
  PROVE  Append(s, e) \in Seq(S) /\ ToSet(Append(s, e)) = ToSet(s) \cup {e}
<1> DEFINE t == Append(s, e)
<1>1. /\ t \in Seq(S) /\ Len(t) = Len(s) + 1 /\ Len(s) \in Nat
      /\ DOMAIN s = 1 .. Len(s) /\ DOMAIN t = 1 .. Len(t)
  BY LenProperties, AppendProperties
<1>2. t[Len(s) + 1] = e /\ \A i \in 1 .. Len(s) : t[i] = s[i]
  BY AppendProperties
<1> HIDE DEF t
<1>3. ToSet(t) = ToSet(s) \cup {e}
  BY <1>1, <1>2 DEF ToSet
<1> QED BY <1>1, <1>3 DEF t

(* Find_Function appends the function it is at.                            *)
LEMMA FindStep == ASSUME IInv, FindFunction PROVE IInv'
<1> USE DEF FindFunction, Running, NextFunction
<1>1. TypeOK /\ CursorInv /\ ListInv /\ BoundInv /\ BodyInv
  BY DEF IInv
<1>2. fn \in DOMAIN Order /\ F \in Name /\ fn \in Nat /\ Len(Order) \in Nat
  <2>1. fn \in DOMAIN Order /\ F \in Name
    BY <1>1, CursorTyped
  <2> QED BY <2>1, OrderTyped
<1>3. list' \in Seq(Name \ Helper) /\ ToSet(list') = ToSet(list) \cup ({F} \ Helper)
  <2>1. CASE F \in Helper
    BY <1>1, <2>1 DEF TypeOK
  <2>2. CASE F \notin Helper
    <3>1. list \in Seq(Name \ Helper) /\ F \in Name \ Helper /\ list' = Append(list, F)
      BY <1>1, <1>2, <2>2 DEF TypeOK
    <3> QED BY <2>2, <3>1, AppendTyped
  <2> QED BY <2>1, <2>2
<1>4. TypeOK'
  <2>1. fn' \in 1 .. Len(Order) + 1
    BY <1>2, OrderTyped
  <2> QED BY <1>1, <1>3, <2>1 DEF TypeOK
<1>5. ListInv'
  <2>1. {Order[n] : n \in 1 .. fn} = {Order[n] : n \in 1 .. fn - 1} \cup {F}
    <3>1. 1 .. fn = (1 .. fn - 1) \cup {fn}
      BY <1>2, OrderTyped
    <3> QED BY <3>1 DEF F
  <2>2. ToSet(list) = {Order[n] : n \in 1 .. fn - 1} \ Helper
    BY <1>1 DEF ListInv
  <2>3. fn' - 1 = fn
    BY <1>2
  <2>4. ToSet(list') = {Order[n] : n \in 1 .. fn' - 1} \ Helper
    BY <1>3, <2>1, <2>2, <2>3
  <2> QED BY <2>4 DEF ListInv
<1>6. (CursorInv /\ BoundInv /\ WalkInv /\ SetInv)'
  BY DEF CursorInv, BoundInv, WalkInv, SetInv
<1>7. BodyInv'
  <2>1. pos = 0 /\ pos' = 0
    BY <1>1 DEF CursorInv, TypeOK
  <2>2. \A n \in DOMAIN Order : \A k \in DOMAIN source[Order[n]] :
          body[Order[n]][k] = source[Order[n]][k]
    BY <1>1, <2>1 DEF BodyInv, Here, Left, Found
  <2> QED BY <2>2 DEF BodyInv, Left, Found
<1> QED BY <1>4, <1>5, <1>6, <1>7 DEF IInv

(* Between two passes every block is what the first one makes of it and    *)
(* what the second one finds: the first one has every block behind it ...  *)
LEMMA AllPassed ==
  ASSUME TypeOK, BodyInv, fn > Len(Order),
         NEW n \in DOMAIN Order, NEW k \in DOMAIN source[Order[n]]
  PROVE  Passed(n, k) /\ body[Order[n]][k] = Left(Order[n], k)
<1>1. n < fn
  BY OrderTyped DEF TypeOK
<1>2. Passed(n, k) /\ ~Here(n, k)
  BY <1>1, OrderTyped DEF Passed, Here, TypeOK
<1> QED BY <1>2 DEF BodyInv

(* ... and the next pass has none behind it.                               *)
LEMMA NonePassed ==
  ASSUME TypeOK, fn' = 1, blk' = 1, NEW n \in DOMAIN Order, NEW k \in DOMAIN source[Order[n]]
  PROVE  ~Passed(n, k)'
<1>1. Order[n] \in Name /\ n \in Nat \ {0}
  BY OrderTyped
<1>2. k \in Nat \ {0}
  BY <1>1, Typed
<1> QED BY <1>1, <1>2 DEF Passed

(* One pass ends and the next begins.                                      *)
LEMMA NextPassStep ==
  ASSUME IInv, NEW p, NEW q, NextPass(p, q),
         <<p, q>> \in {<<"find", "insert">>, <<"insert", "connect">>,
                       <<"connect", "measure">>, <<"set", "done">>}
  PROVE  IInv'
<1> USE DEF NextPass
<1>0. \/ p = "find" /\ q = "insert"
      \/ p = "insert" /\ q = "connect"
      \/ p = "connect" /\ q = "measure"
      \/ p = "set" /\ q = "done"
  OBVIOUS
<1>1. TypeOK /\ CursorInv /\ ListInv /\ BoundInv /\ BodyInv
  BY <1>0 DEF IInv
<1>2. TypeOK'
  BY <1>0, <1>1, OrderTyped DEF TypeOK
<1>3. (CursorInv /\ WalkInv /\ SetInv)'
  BY DEF CursorInv, WalkInv, SetInv
<1>4. ListInv'
  <2>1. {Order[n] : n \in 1 .. fn - 1} = Name \/ fn # Len(Order) + 1
    BY OrderTyped
  <2>2. fn = Len(Order) + 1
    BY <1>1, OrderTyped DEF TypeOK
  <2> QED BY <1>0, <1>1, <2>1, <2>2 DEF ListInv
<1>5. BoundInv'
  <2> SUFFICES ASSUME NEW n \in DOMAIN Order, NEW k \in DOMAIN source[Order[n]],
                      Order[n] \notin Helper,
                      pass' \notin {"find", "insert"} \/ (pass' = "insert" /\ Passed(n, k)')
               PROVE  Each(source[Order[n]][k], Bound(Name))
    BY DEF BoundInv
  <2>1. ~Passed(n, k)'
    BY <1>1, NonePassed
  <2>2. Passed(n, k)
    BY <1>1, AllPassed
  <2>3. pass \notin {"find", "insert"} \/ (pass = "insert" /\ Passed(n, k))
    BY <1>0, <2>1, <2>2
  <2> QED BY <1>1, <2>3 DEF BoundInv
<1>6. BodyInv'
  <2> SUFFICES ASSUME NEW n \in DOMAIN Order, NEW k \in DOMAIN source[Order[n]]
               PROVE  body'[Order[n]][k] = IF Passed(n, k)' THEN Left(Order[n], k)'
                                                            ELSE Found(Order[n], k)'
    BY DEF BodyInv
  <2>1. ~Passed(n, k)'
    BY <1>1, NonePassed
  <2>2. body[Order[n]][k] = Left(Order[n], k)
    BY <1>1, AllPassed
  <2>3. Found(Order[n], k)' = Left(Order[n], k)
    BY <1>0, StageFrame DEF Found, Left
  <2> QED BY <2>1, <2>2, <2>3
<1> QED BY <1>2, <1>3, <1>4, <1>5, <1>6 DEF IInv

(* The blocks behind which a step moves the iterators.                     *)
Crossed(n, k) == Passed(n, k)' /\ ~Passed(n, k)

(* Such a block is as its pass leaves it ...                               *)
Settled(n, k) ==
  /\ body'[Order[n]][k] = Left(Order[n], k)
  /\ (pass = "insert" /\ Order[n] \notin Helper) => Each(source[Order[n]][k], Bound(Name))

(* ... and every other is as it was.                                       *)
Kept(n, k) == ~Crossed(n, k) =>
  /\ (Passed(n, k)' <=> Passed(n, k))
  /\ ~Here(n, k) /\ body'[Order[n]][k] = body[Order[n]][k]

(* A step that moves the iterators on keeps the invariant when it leaves   *)
(* behind it what its pass makes of those blocks.                          *)
LEMMA MovedOn ==
  ASSUME IInv, TypeOK', pass \in {"insert", "connect", "set"}, pos' = 0,
         UNCHANGED <<source, list, link, pass>>,
         \A n \in DOMAIN Order : \A k \in DOMAIN source[Order[n]] :
           Kept(n, k) /\ (Crossed(n, k) => Settled(n, k))
  PROVE  IInv'
<1>1. ListInv /\ BoundInv /\ BodyInv
  BY DEF IInv
<1>2. (CursorInv /\ WalkInv /\ SetInv)'
  BY DEF CursorInv, WalkInv, SetInv
<1>3. ListInv'
  BY <1>1 DEF ListInv
<1>4. BoundInv'
  <2> SUFFICES ASSUME NEW n \in DOMAIN Order, NEW k \in DOMAIN source[Order[n]],
                      Order[n] \notin Helper,
                      pass \notin {"find", "insert"} \/ (pass = "insert" /\ Passed(n, k)')
               PROVE  Each(source[Order[n]][k], Bound(Name))
    BY DEF BoundInv
  <2>1. CASE Crossed(n, k) /\ pass = "insert"
    BY <2>1 DEF Settled
  <2>2. CASE ~(Crossed(n, k) /\ pass = "insert")
    <3>1. pass \notin {"find", "insert"} \/ (pass = "insert" /\ Passed(n, k))
      BY <2>2 DEF Crossed
    <3> QED BY <1>1, <3>1 DEF BoundInv
  <2> QED BY <2>1, <2>2
<1>5. BodyInv'
  <2> SUFFICES ASSUME NEW n \in DOMAIN Order, NEW k \in DOMAIN source[Order[n]]
               PROVE  body'[Order[n]][k] = IF Passed(n, k)' THEN Left(Order[n], k)'
                                                            ELSE Found(Order[n], k)'
    BY DEF BodyInv
  <2>1. Left(Order[n], k)' = Left(Order[n], k) /\ Found(Order[n], k)' = Found(Order[n], k)
    BY StageFrame DEF Left, Found
  <2>2. CASE Crossed(n, k)
    BY <2>1, <2>2 DEF Settled, Crossed
  <2>3. CASE ~Crossed(n, k)
    <3>1. (Passed(n, k)' <=> Passed(n, k)) /\ ~Here(n, k) /\ body'[Order[n]][k] = body[Order[n]][k]
      BY <2>3 DEF Kept
    <3>2. body[Order[n]][k] = IF Passed(n, k) THEN Left(Order[n], k) ELSE Found(Order[n], k)
      BY <1>1, <3>1 DEF BodyInv
    <3> QED BY <2>1, <3>1, <3>2
  <2> QED BY <2>2, <2>3
<1> QED BY <1>2, <1>3, <1>4, <1>5 DEF IInv

(* A function that is skipped, or has no block left.                       *)
LEMMA LeaveFunctionStep == ASSUME IInv, LeaveFunction PROVE IInv'
<1> USE DEF LeaveFunction, Running, NextFunction
<1>1. TypeOK /\ CursorInv /\ ListInv /\ BoundInv /\ BodyInv
  BY DEF IInv
<1>2. /\ pass \in {"insert", "connect", "set"} /\ fn <= Len(Order)
      /\ fn' = fn + 1 /\ blk' = 1 /\ pos' = 0
      /\ UNCHANGED <<source, body, list, link, pass>>
  OBVIOUS
<1>3. \/ pass = "insert" /\ F \in Helper
      \/ pass = "connect" /\ ConnectSkips(F)
      \/ ~InBlock
  BY DEF InsertSkips
<1>4. fn \in DOMAIN Order /\ F \in Name
  BY <1>1, <1>2, CursorTyped
<1>5. fn \in Nat /\ blk \in Nat \ {0} /\ Len(Order) \in Nat /\ pos \in Nat
      /\ Len(source[F]) \in Nat /\ Len(body[F]) = Len(source[F])
  <2>1. fn \in Nat /\ Len(Order) \in Nat
    BY <1>4, OrderTyped
  <2>2. Len(source[F]) \in Nat /\ Len(body[F]) = Len(source[F])
    BY <1>1, <1>4, Typed
  <2> QED BY <1>1, <2>1, <2>2 DEF TypeOK
<1>6. pos = 0
  BY <1>1, <1>2, <1>3, <1>5 DEF CursorInv, InBlock
<1>7. TypeOK'
  <2>1. fn' \in 1 .. Len(Order) + 1
    BY <1>2, <1>5
  <2> QED BY <1>1, <1>2, <2>1 DEF TypeOK
<1> HIDE DEF LeaveFunction
<1>8. ASSUME NEW n \in DOMAIN Order, NEW k \in DOMAIN source[Order[n]]
      PROVE  Kept(n, k) /\ (Crossed(n, k) => Settled(n, k))
  <2>1. Order[n] \in Name /\ n \in Nat
    BY OrderTyped
  <2>2. k \in Nat \ {0} /\ k <= Len(source[Order[n]])
    BY <1>1, <2>1, Typed
  <2>3. ~Here(n, k)
    BY <1>6 DEF Here
  <2>4. Passed(n, k)' <=> n <= fn
    BY <1>2, <1>5, <2>1, <2>2 DEF Passed
  <2>5. Passed(n, k) => n <= fn
    BY <1>5, <2>1 DEF Passed
  <2>6. Kept(n, k)
    BY <1>2, <2>3, <2>4, <2>5 DEF Kept, Crossed
  <2>7. ASSUME Crossed(n, k) PROVE Settled(n, k)
    <3>1. n = fn /\ Order[n] = F /\ ~Passed(n, k) /\ k >= blk
      BY <1>5, <2>1, <2>2, <2>4, <2>7 DEF Crossed, Passed, F
    <3>2. ~(~InBlock)
      BY <1>5, <2>2, <3>1 DEF InBlock
    <3>3. body[F][k] = Found(F, k)
      BY <1>1, <2>3, <3>1 DEF BodyInv
    <3>4. CASE pass = "insert" /\ F \in Helper
      <4>1. source \in Programs
        BY <1>1 DEF TypeOK
      <4>2. Inserted(F, k) = source[F][k]
        BY <1>4, <3>1, <3>4, <4>1, HelperStages
      <4> QED BY <1>2, <3>1, <3>3, <3>4, <4>2 DEF Settled, Found, Left
    <3>5. CASE pass = "connect" /\ ConnectSkips(F)
      <4>1. Connected(F, k) = Inserted(F, k)
        BY <3>5 DEF Connected
      <4> QED BY <1>2, <3>1, <3>3, <3>5, <4>1 DEF Settled, Found, Left
    <3> QED BY <1>3, <3>2, <3>4, <3>5
  <2> QED BY <2>6, <2>7
<1> QED BY <1>2, <1>7, <1>8, MovedOn

(* A block whose end the iterator has reached.                             *)
LEMMA LeaveBlockStep == ASSUME IInv, LeaveBlock PROVE IInv'
<1> USE DEF LeaveBlock, Running, NextBlock
<1>1. TypeOK /\ CursorInv /\ BodyInv /\ WalkInv /\ SetInv
  BY DEF IInv
<1>2. /\ pass \in {"insert", "set"} /\ fn <= Len(Order) /\ InBlock /\ pos > Len(B)
      /\ fn' = fn /\ blk' = blk + 1 /\ pos' = 0
      /\ UNCHANGED <<source, body, list, link, pass>>
  OBVIOUS
<1> HIDE DEF LeaveBlock
<1>4. fn \in DOMAIN Order /\ F \in Name
  BY <1>1, <1>2, CursorTyped
<1>5. fn \in Nat /\ blk \in Nat \ {0} /\ pos \in Nat
      /\ Len(source[F]) \in Nat /\ Len(body[F]) = Len(source[F])
  <2>1. fn \in Nat /\ Len(Order) \in Nat
    BY <1>4, OrderTyped
  <2>2. Len(source[F]) \in Nat /\ Len(body[F]) = Len(source[F])
    BY <1>1, <1>4, Typed
  <2> QED BY <1>1, <2>1, <2>2 DEF TypeOK
<1>6. blk <= Len(source[F]) /\ blk \in DOMAIN source[F] /\ B \in BasicBlock(Name)
  BY <1>1, <1>2, <1>5, CursorTyped DEF InBlock
<1>7. Len(B) \in Nat
  BY <1>6, ElementType
<1>8. pos > 0 /\ pos = Len(B) + 1
  BY <1>1, <1>2, <1>5, <1>7 DEF CursorInv
<1>9. TypeOK'
  <2>1. blk' \in Nat \ {0}
    BY <1>2, <1>5
  <2> QED BY <1>1, <1>2, <2>1 DEF TypeOK
<1>10. /\ source \in Programs
       /\ Inserted(F, blk) \in BasicBlock(Name) /\ Connected(F, blk) \in BasicBlock(Name)
  <2>1. source \in Programs
    BY <1>1 DEF TypeOK
  <2> QED BY <1>4, <1>6, <2>1, StageTypes
<1>11. /\ body[F][blk] = Left(F, blk)
       /\ (pass = "insert" /\ F \notin Helper) => Each(source[F][blk], Bound(Name))
  <2>1. CASE pass = "insert"
    <3>1. Walked(B, Len(B) + 1, Inserted(F, blk)) /\ F \notin Helper
      BY <1>1, <1>8, <2>1 DEF WalkInv, CursorInv
    <3>2. B = Inserted(F, blk) /\ Each(B, Bound(Name))
      BY <1>6, <3>1, WalkEnd
    <3>3. Each(source[F][blk], Bound(Name))
      BY <1>4, <1>6, <1>10, <3>1, <3>2, BoundStages
    <3> QED BY <2>1, <3>2, <3>3 DEF Left, B
  <2>2. CASE pass = "set"
    <3>1. SetUpTo(B, Len(B) + 1, F, Connected(F, blk))
      BY <1>1, <1>8, <2>2 DEF SetInv
    <3>2. B = Filled(F, Connected(F, blk))
      BY <1>4, <1>6, <1>10, <3>1, SetEnd
    <3> QED BY <2>2, <3>2 DEF Left, B, Final
  <2> QED BY <1>2, <2>1, <2>2
<1>12. ASSUME NEW n \in DOMAIN Order, NEW k \in DOMAIN source[Order[n]]
      PROVE  Kept(n, k) /\ (Crossed(n, k) => Settled(n, k))
  <2>1. Order[n] \in Name /\ n \in Nat
    BY OrderTyped
  <2>2. k \in Nat \ {0}
    BY <1>1, <2>1, Typed
  <2>3. Passed(n, k)' <=> (Passed(n, k) \/ (n = fn /\ k = blk))
    BY <1>2, <1>5, <2>1, <2>2 DEF Passed
  <2>4. (n = fn /\ k = blk) => ~Passed(n, k)
    BY <1>5 DEF Passed
  <2>6. ~(n = fn /\ k = blk) => ~Here(n, k)
    BY DEF Here
  <2>7. Kept(n, k)
    BY <1>2, <2>3, <2>4, <2>6 DEF Kept, Crossed
  <2>5. ASSUME Crossed(n, k) PROVE Settled(n, k)
    <3>1. n = fn /\ Order[n] = F /\ k = blk
      BY <2>3, <2>5 DEF Crossed, F
    <3> QED BY <1>2, <1>11, <3>1 DEF Settled
  <2> QED BY <2>5, <2>7
<1>13. pass \in {"insert", "connect", "set"}
  BY <1>2
<1> QED BY <1>2, <1>9, <1>12, <1>13, MovedOn

(* A step within a block changes nothing of what the block is to become.   *)
LEMMA HereFrame ==
  ASSUME UNCHANGED <<source, fn, blk>>
  PROVE  /\ F' = F
         /\ Inserted(F, blk)' = Inserted(F, blk)
         /\ Connected(F, blk)' = Connected(F, blk)
<1>1. F' = F
  BY DEF F
<1>2. Inserted(F, blk)' = Inserted(F, blk)
  BY <1>1 DEF Inserted
<1>3. Connected(F, blk)' = Connected(F, blk)
  BY <1>1, <1>2 DEF Connected
<1> QED BY <1>1, <1>2, <1>3

(* The block with the iterators in it becomes b, the instruction iterator i. *)
Becomes(b, i) ==
  /\ b \in BasicBlock(Name) /\ i \in 1 .. Len(b) + 1
  /\ Rewrite(b) \/ (b = B /\ UNCHANGED body)
  /\ GoTo(i)
  /\ UNCHANGED <<source, list, link, pass>>

(* A step within a block keeps the invariant when the block is walked as   *)
(* far as the iterator says.                                               *)
LEMMA MovedWithin ==
  ASSUME IInv, pass \in {"insert", "set"}, fn <= Len(Order), InBlock,
         pass = "insert" => F \notin Helper,
         NEW b, NEW i, Becomes(b, i),
         pass = "insert" => Walked(b, i, Inserted(F, blk)),
         pass = "set" => SetUpTo(b, i, F, Connected(F, blk))
  PROVE  IInv'
<1> USE DEF GoTo
<1>1. TypeOK /\ CursorInv /\ ListInv /\ BoundInv /\ BodyInv
  BY DEF IInv
<1>2. /\ b \in BasicBlock(Name) /\ i \in 1 .. Len(b) + 1
      /\ Rewrite(b) \/ (b = B /\ body' = body)
      /\ pos' = i /\ fn' = fn /\ blk' = blk
      /\ UNCHANGED <<source, list, link, pass>>
  BY DEF Becomes
<1>3. fn \in DOMAIN Order /\ F \in Name
  BY <1>1, CursorTyped
<1>4. blk <= Len(source[F]) /\ blk \in DOMAIN source[F]
  <2>1. Len(body[F]) = Len(source[F])
    BY <1>1, <1>3, Typed
  <2> QED BY <1>1, <2>1, CursorTyped DEF InBlock
<1>5. /\ body' \in [Name -> Seq(BasicBlock(Name))]
      /\ \A f \in Name : Len(body'[f]) = Len(body[f])
      /\ body'[F][blk] = b
      /\ \A n \in DOMAIN Order : \A k \in DOMAIN source[Order[n]] :
           ~(n = fn /\ k = blk) => body'[Order[n]][k] = body[Order[n]][k]
  <2>1. CASE Rewrite(b)
    BY <1>1, <1>2, <1>4, <2>1, Rewritten
  <2>2. CASE b = B /\ body' = body
    BY <1>1, <2>2 DEF B, TypeOK
  <2> QED BY <1>2, <2>1, <2>2
<1>6. F' = F /\ B' = b
  BY <1>2, <1>5, HereFrame DEF B
<1>7. i \in Nat /\ i > 0 /\ i <= Len(b) + 1
  BY <1>2, ElementType
<1>8. TypeOK'
  BY <1>1, <1>2, <1>5, <1>7 DEF TypeOK
<1>9. CursorInv'
  BY <1>2, <1>4, <1>6, <1>7 DEF CursorInv
<1>10. ListInv'
  BY <1>1, <1>2 DEF ListInv
<1>11. BoundInv'
  BY <1>1, <1>2 DEF BoundInv, Passed
<1>12. WalkInv'
  BY <1>2, <1>6, HereFrame DEF WalkInv
<1>13. SetInv'
  BY <1>2, <1>6, HereFrame DEF SetInv
<1>14. BodyInv'
  <2> SUFFICES ASSUME NEW n \in DOMAIN Order, NEW k \in DOMAIN source[Order[n]], ~Here(n, k)'
               PROVE  body'[Order[n]][k] = IF Passed(n, k)' THEN Left(Order[n], k)'
                                                            ELSE Found(Order[n], k)'
    BY <1>2 DEF BodyInv
  <2>1. Left(Order[n], k)' = Left(Order[n], k) /\ Found(Order[n], k)' = Found(Order[n], k)
    BY <1>2, StageFrame DEF Left, Found
  <2>2. Passed(n, k)' <=> Passed(n, k)
    BY <1>2 DEF Passed
  <2>3. ~(n = fn /\ k = blk)
    BY <1>2, <1>7 DEF Here
  <2>4. ~Here(n, k)
    BY <2>3 DEF Here
  <2>5. body[Order[n]][k] = IF Passed(n, k) THEN Left(Order[n], k) ELSE Found(Order[n], k)
    BY <1>1, <2>4 DEF BodyInv
  <2> QED BY <1>5, <2>1, <2>2, <2>3, <2>5
<1> QED BY <1>8, <1>9, <1>10, <1>11, <1>12, <1>13, <1>14 DEF IInv

(* What a block is when its pass comes to it.                              *)
LEMMA Arrived ==
  ASSUME IInv, pass \in {"insert", "connect", "set"}, fn <= Len(Order), InBlock, pos = 0
  PROVE  /\ fn \in DOMAIN Order /\ F \in Name /\ blk \in DOMAIN source[F]
         /\ B \in BasicBlock(Name) /\ B = Found(F, blk)
         /\ source \in Programs /\ Len(body[F]) = Len(source[F])
<1>1. TypeOK /\ BodyInv
  BY DEF IInv
<1>2. fn \in DOMAIN Order /\ F \in Name
  BY <1>1, CursorTyped
<1>3. Len(body[F]) = Len(source[F])
  BY <1>1, <1>2, Typed
<1>4. blk \in DOMAIN source[F] /\ B \in BasicBlock(Name)
  BY <1>1, <1>3, CursorTyped DEF InBlock
<1>5. Order[fn] = F /\ fn \in Nat /\ blk \in Nat
  BY <1>1, <1>2, OrderTyped DEF F, TypeOK
<1>6. ~Here(fn, blk) /\ ~Passed(fn, blk)
  BY <1>5 DEF Here, Passed
<1>7. blk \in DOMAIN source[Order[fn]]
  BY <1>4, <1>5
<1>8. body[Order[fn]][blk] = Found(Order[fn], blk)
  BY <1>1, <1>2, <1>6, <1>7 DEF BodyInv
<1>9. source \in Programs
  BY <1>1 DEF TypeOK
<1> QED BY <1>2, <1>3, <1>4, <1>5, <1>8, <1>9 DEF B

(* Insert_Function comes to a block ...                                    *)
LEMMA InsertEnterStep == ASSUME IInv, InsertEnter PROVE IInv'
<1>1. /\ pass = "insert" /\ fn <= Len(Order) /\ F \notin Helper /\ InBlock /\ pos = 0
      /\ UNCHANGED <<source, list, link, pass>>
  BY DEF InsertEnter, Running, InsertSkips
<1> DEFINE b == Begun(source[F][blk], blk)
<1>2. /\ F \in Name /\ blk \in DOMAIN source[F] /\ source \in Programs
      /\ B = source[F][blk]
  BY <1>1, Arrived DEF Found
<1>3. b \in BasicBlock(Name) /\ Walked(b, 1, Inserted(F, blk))
  BY <1>1, <1>2, BeginWalk
<1>4. Rewrite(b) \/ (b = B /\ UNCHANGED body)
  BY <1>2 DEF InsertEnter, Begun, First
<1>5. GoTo(1)
  BY DEF InsertEnter
<1> HIDE DEF b
<1>6. Len(b) \in Nat
  BY <1>3, ElementType
<1>7. 1 \in 1 .. Len(b) + 1
  BY <1>6
<1>8. Becomes(b, 1)
  BY <1>1, <1>3, <1>4, <1>5, <1>7 DEF Becomes
<1> QED BY <1>1, <1>3, <1>8, MovedWithin

(* The block that Insert_Function walks over.                              *)
LEMMA Visited ==
  ASSUME IInv, pass \in {"insert", "set"}, fn <= Len(Order), InBlock, pos \in 1 .. Len(B)
  PROVE  /\ fn \in DOMAIN Order /\ F \in Name /\ blk \in DOMAIN source[F]
         /\ B \in BasicBlock(Name) /\ source \in Programs
         /\ pos \in Nat /\ pos > 0 /\ Len(B) \in Nat /\ pos + 1 \in 1 .. Len(B) + 1
         /\ pass = "insert" => F \notin Helper /\ Walked(B, pos, Inserted(F, blk))
         /\ pass = "set" => SetUpTo(B, pos, F, Connected(F, blk))
<1>1. TypeOK /\ CursorInv /\ WalkInv /\ SetInv
  BY DEF IInv
<1>2. fn \in DOMAIN Order /\ F \in Name
  BY <1>1, CursorTyped
<1>3. Len(body[F]) = Len(source[F])
  BY <1>1, <1>2, Typed
<1>4. blk \in DOMAIN source[F] /\ B \in BasicBlock(Name)
  BY <1>1, <1>3, CursorTyped DEF InBlock
<1>5. Len(B) \in Nat
  BY <1>4, ElementType
<1>6. pos \in Nat /\ pos > 0 /\ pos + 1 \in 1 .. Len(B) + 1
  BY <1>5
<1>7. source \in Programs
  BY <1>1 DEF TypeOK
<1>8. pass = "insert" => F \notin Helper /\ Walked(B, pos, Inserted(F, blk))
  BY <1>1, <1>6 DEF CursorInv, WalkInv
<1>9. pass = "set" => SetUpTo(B, pos, F, Connected(F, blk))
  BY <1>1, <1>6 DEF SetInv
<1> QED BY <1>2, <1>4, <1>5, <1>6, <1>7, <1>8, <1>9

(* ... passes an instruction over ...                                      *)
LEMMA InsertPassStep == ASSUME IInv, InsertPass PROVE IInv'
<1>1. /\ pass = "insert" /\ fn <= Len(Order) /\ InBlock /\ pos \in 1 .. Len(B)
      /\ ~IsCall(B[pos]) \/ B[pos].callee \in MpuFunction
      /\ GoTo(pos + 1) /\ UNCHANGED <<source, body, list, link, pass>>
  BY DEF InsertPass, InsertVisits, Running, I
<1>2. /\ B \in BasicBlock(Name) /\ F \notin Helper /\ Walked(B, pos, Inserted(F, blk))
      /\ pos + 1 \in 1 .. Len(B) + 1
  BY <1>1, Visited
<1>3. Walked(B, pos + 1, Inserted(F, blk))
  BY <1>1, <1>2, WalkPass
<1>4. Becomes(B, pos + 1)
  BY <1>1, <1>2 DEF Becomes
<1> QED BY <1>1, <1>2, <1>3, <1>4, MovedWithin

(* ... or inserts around a call.                                           *)
LEMMA InsertAroundStep == ASSUME IInv, InsertAround PROVE IInv'
<1>1. /\ pass = "insert" /\ fn <= Len(Order) /\ InBlock /\ pos \in 1 .. Len(B)
      /\ IsCall(B[pos]) /\ B[pos].callee \notin MpuFunction /\ B[pos].callee # "pointer"
      /\ Rewrite(Surrounded(B, pos))
      /\ GoTo(pos + 2) /\ UNCHANGED <<source, list, link, pass>>
  BY DEF InsertAround, InsertVisits, Running, I, Surrounded
<1> DEFINE b == Surrounded(B, pos)
           i == pos + 2
<1>2. /\ B \in BasicBlock(Name) /\ F \notin Helper /\ Walked(B, pos, Inserted(F, blk))
  BY <1>1, Visited
<1>3. b \in BasicBlock(Name) /\ i \in 1 .. Len(b) /\ Walked(b, i, Inserted(F, blk))
  BY <1>1, <1>2, WalkAround
<1>4. Rewrite(b) /\ GoTo(i)
  BY <1>1
<1> HIDE DEF b, i
<1>5. Len(b) \in Nat
  BY <1>3, ElementType
<1>6. i \in 1 .. Len(b) + 1
  BY <1>3, <1>5
<1>7. Becomes(b, i)
  BY <1>1, <1>3, <1>4, <1>6 DEF Becomes
<1> QED BY <1>1, <1>2, <1>3, <1>7, MovedWithin

(* Connect_Function does a block in one step; a function of one block gets *)
(* both insertions.                                                        *)
LEMMA ConnectBlockStep == ASSUME IInv, ConnectBlock PROVE IInv'
<1> DEFINE c == Connected(F, blk)
<1>1. /\ pass = "connect" /\ fn <= Len(Order) /\ ~ConnectSkips(F) /\ InBlock
      /\ fn' = fn /\ blk' = blk + 1 /\ pos' = 0
      /\ UNCHANGED <<source, list, link, pass>>
  BY DEF ConnectBlock, ConnectVisits, Running, NextBlock
<1>2. TypeOK /\ CursorInv
  BY <1>1 DEF IInv
<1>3. pos = 0
  BY <1>1, <1>2 DEF CursorInv, TypeOK
<1>4. /\ fn \in DOMAIN Order /\ F \in Name /\ blk \in DOMAIN source[F]
      /\ B = Inserted(F, blk) /\ source \in Programs /\ Len(body[F]) = Len(source[F])
  BY <1>1, <1>3, Arrived DEF Found
<1>5. c \in BasicBlock(Name)
  BY <1>4, StageTypes
<1>6. Rewrite(c)
  <2>1. IsLast <=> blk = Len(source[F])
    BY <1>4 DEF IsLast
  <2> QED BY <1>1, <1>4, <2>1 DEF ConnectBlock, Connected, IsFirst
<1> HIDE DEF c
<1>7. /\ body' \in [Name -> Seq(BasicBlock(Name))]
      /\ \A f \in Name : Len(body'[f]) = Len(body[f])
      /\ body'[F][blk] = c
      /\ \A n \in DOMAIN Order : \A k \in DOMAIN source[Order[n]] :
           ~(n = fn /\ k = blk) => body'[Order[n]][k] = body[Order[n]][k]
  BY <1>1, <1>2, <1>4, <1>5, <1>6, Rewritten
<1>8. fn \in Nat /\ blk \in Nat \ {0}
  BY <1>2, <1>4, OrderTyped DEF TypeOK
<1>9. TypeOK'
  BY <1>1, <1>2, <1>7, <1>8 DEF TypeOK
<1>10. ASSUME NEW n \in DOMAIN Order, NEW k \in DOMAIN source[Order[n]]
       PROVE  Kept(n, k) /\ (Crossed(n, k) => Settled(n, k))
  <2>1. Order[n] \in Name /\ n \in Nat
    BY OrderTyped
  <2>2. k \in Nat \ {0}
    BY <1>2, <2>1, Typed
  <2>3. Passed(n, k)' <=> (Passed(n, k) \/ (n = fn /\ k = blk))
    BY <1>1, <1>8, <2>1, <2>2 DEF Passed
  <2>4. (n = fn /\ k = blk) => ~Passed(n, k)
    BY <1>8 DEF Passed
  <2>5. ~Here(n, k)
    BY <1>3 DEF Here
  <2>6. Kept(n, k)
    BY <1>7, <2>3, <2>4, <2>5 DEF Kept, Crossed
  <2>7. ASSUME Crossed(n, k) PROVE Settled(n, k)
    <3>1. n = fn /\ Order[n] = F /\ k = blk
      BY <2>3, <2>7 DEF Crossed, F
    <3>2. Left(F, blk) = c
      BY <1>1 DEF Left, c
    <3> QED BY <1>1, <1>7, <3>1, <3>2 DEF Settled
  <2> QED BY <2>6, <2>7
<1>11. pass \in {"insert", "connect", "set"}
  BY <1>1
<1> QED BY <1>1, <1>9, <1>10, <1>11, MovedOn

(* function_size.py measures the listed functions, and all have code.      *)
LEMMA MeasureStep == ASSUME IInv, Measure PROVE IInv'
<1>1. /\ pass = "measure" /\ pass' = "set" /\ link' = ToSet(list)
      /\ \A f \in ToSet(list) : source[f] # <<>>
      /\ UNCHANGED <<source, body, list, fn, blk, pos>>
  BY DEF Measure, cursor
<1>2. TypeOK /\ CursorInv /\ ListInv /\ BoundInv /\ BodyInv
  BY <1>1 DEF IInv
<1>3. ToSet(list) = Name \ Helper
  BY <1>1, <1>2 DEF ListInv
<1>4. fn = 1 /\ blk = 1 /\ pos = 0
  BY <1>1, <1>2 DEF CursorInv, TypeOK
<1>5. TypeOK'
  BY <1>1, <1>2, <1>3 DEF TypeOK
<1>6. (CursorInv /\ WalkInv /\ SetInv)'
  BY <1>1, <1>4 DEF CursorInv, WalkInv, SetInv
<1>7. ListInv'
  BY <1>1, <1>3 DEF ListInv
<1>8. BoundInv'
  BY <1>1, <1>2 DEF BoundInv
<1>9. BodyInv'
  <2> SUFFICES ASSUME NEW n \in DOMAIN Order, NEW k \in DOMAIN source[Order[n]]
               PROVE  body'[Order[n]][k] = IF Passed(n, k)' THEN Left(Order[n], k)'
                                                            ELSE Found(Order[n], k)'
    BY <1>1 DEF BodyInv
  <2>1. ~Passed(n, k)'
    BY <1>1, <1>2, <1>4, NonePassed
  <2>2. ~Passed(n, k) /\ ~Here(n, k)
    BY <1>1, <1>4, <2>1 DEF Here, Passed
  <2>3. body[Order[n]][k] = Found(Order[n], k)
    BY <1>2, <2>2 DEF BodyInv
  <2>4. Found(Order[n], k)' = Found(Order[n], k)
    BY <1>1, StageFrame DEF Found
  <2> QED BY <1>1, <2>1, <2>3, <2>4
<1> QED BY <1>5, <1>6, <1>7, <1>8, <1>9 DEF IInv

(* Set_Operand comes to a block ...                                        *)
LEMMA SetEnterStep == ASSUME IInv, SetEnter PROVE IInv'
<1>1. /\ pass = "set" /\ fn <= Len(Order) /\ InBlock /\ pos = 0
      /\ GoTo(1) /\ UNCHANGED <<source, body, list, link, pass>>
  BY DEF SetEnter, Running
<1>2. B \in BasicBlock(Name) /\ B = Connected(F, blk)
  BY <1>1, Arrived DEF Found
<1>3. SetUpTo(B, 1, F, Connected(F, blk))
  BY <1>2, SetStart
<1>4. Len(B) \in Nat
  BY <1>2, ElementType
<1>5. 1 \in 1 .. Len(B) + 1
  BY <1>4
<1>6. Becomes(B, 1)
  BY <1>1, <1>2, <1>5 DEF Becomes
<1> QED BY <1>1, <1>3, <1>6, MovedWithin

(* The instruction that Set_Operand looks at, and the one behind it, are   *)
(* still those that Connect_Function left; a configuration before a call   *)
(* is before one of a listed function.                                     *)
LEMMA SetLooks ==
  ASSUME IInv, SetVisits
  PROVE  LET c == Connected(F, blk)
         IN  /\ pass = "set" /\ fn <= Len(Order) /\ InBlock
             /\ F \in Name /\ B \in BasicBlock(Name) /\ pos \in 1 .. Len(B)
             /\ pos + 1 \in 1 .. Len(B) + 1
             /\ SetUpTo(B, pos, F, c)
             /\ B[pos] = c[pos] /\ link = Name \ Helper
             /\ IsConfig(B[pos]) => F \notin Helper
             /\ Awaits(B[pos]) => /\ pos < Len(c) /\ B[pos + 1] = c[pos + 1]
                                  /\ IsCall(B[pos + 1]) => B[pos + 1].callee \in Name \ Helper
<1> DEFINE c == Connected(F, blk)
<1>1. pass = "set" /\ fn <= Len(Order) /\ InBlock /\ pos \in 1 .. Len(B)
  BY DEF SetVisits, Running
<1>2. /\ fn \in DOMAIN Order /\ F \in Name /\ blk \in DOMAIN source[F]
      /\ B \in BasicBlock(Name) /\ source \in Programs
      /\ pos + 1 \in 1 .. Len(B) + 1 /\ SetUpTo(B, pos, F, c)
  BY <1>1, Visited
<1>3. ListInv /\ BoundInv
  BY <1>1 DEF IInv
<1>4. link = Name \ Helper
  BY <1>1, <1>3 DEF ListInv
<1>5. c \in Aimed(Name) /\ (F \in Helper => Quiet(c))
  <2>1. CASE F \in Helper
    <3>1. c = source[F][blk]
      BY <1>2, <2>1, HelperStages
    <3> DEFINE b == source[F][blk]
    <3>2. b \in BasicBlock(Name) /\ Each(b, Ordinary(Name)) /\ Quiet(b)
      BY <1>2, <2>1, SourceIs
    <3>3. F \in Symbol(Name)
      BY <1>2, SymbolIs
    <3> HIDE DEF b
    <3>4. b \in Aimed(Name)
      BY <3>2, <3>3, QuietBlock
    <3> QED BY <3>1, <3>2, <3>4 DEF b
  <2>2. CASE F \notin Helper
    <3>1. F = Order[fn]
      BY DEF F
    <3>2. Each(source[F][blk], Bound(Name))
      BY <1>1, <1>2, <1>3, <2>2, <3>1 DEF BoundInv
    <3> QED BY <1>2, <2>2, <3>2, AimedStages
  <2> QED BY <2>1, <2>2
<1> HIDE DEF c
<1> DEFINE b == B
           i == pos
<1>6. b \in BasicBlock(Name) /\ i \in 1 .. Len(b) /\ SetUpTo(b, i, F, c) /\ c \in Aimed(Name)
  BY <1>1, <1>2, <1>5
<1> HIDE DEF b, i
<1>7. /\ b[i] = c[i]
      /\ Awaits(b[i]) => /\ i < Len(c) /\ b[i + 1] = c[i + 1]
                         /\ IsCall(b[i + 1]) => b[i + 1].callee \in Name \ Helper
  BY <1>6, SetHere
<1>8. IsConfig(b[i]) => F \notin Helper
  <2>1. Len(b) = Len(c)
    BY <1>6 DEF SetUpTo
  <2> QED BY <1>5, <1>6, <1>7, <2>1 DEF Quiet, IsConfig
<1> QED BY <1>1, <1>2, <1>4, <1>7, <1>8 DEF b, i, c

(* A step of Set_Operand writes at its iterator what FillAt asks for.      *)
LEMMA SetWrites ==
  ASSUME IInv, SetVisits, NEW r \in Name \cup Helper,
         FillAt(F, Connected(F, blk), pos) = Opened(B[pos], r),
         Rewrite([B EXCEPT ![pos] = Opened(B[pos], r)]), GoTo(pos + 1),
         UNCHANGED <<source, list, link, pass>>
  PROVE  IInv'
<1> DEFINE c == Connected(F, blk)
           x == Opened(B[pos], r)
           b == [B EXCEPT ![pos] = x]
<1>1. /\ pass = "set" /\ fn <= Len(Order) /\ InBlock
      /\ B \in BasicBlock(Name) /\ pos \in 1 .. Len(B) /\ pos + 1 \in 1 .. Len(B) + 1
      /\ SetUpTo(B, pos, F, c)
  BY SetLooks
<1>2. B[pos] \in Instruction(Name) /\ DOMAIN B = 1 .. Len(B)
  BY <1>1, ElementType
<1>3. x \in Instruction(Name)
  <2>1. r \in Symbol(Name)
    BY DEF Symbol
  <2> QED BY <1>2, <2>1, OpenedType
<1>4. FillAt(F, c, pos) = x /\ Rewrite(b)
  OBVIOUS
<1> HIDE DEF x, c
<1>5. /\ b \in BasicBlock(Name) /\ Len(b) = Len(B) /\ b[pos] = x
      /\ \A j \in 1 .. Len(B) : j # pos => b[j] = B[j]
  BY <1>1, <1>2, <1>3, ExceptSeq DEF BasicBlock
<1> HIDE DEF b
<1>6. Replaced(b, B, pos, FillAt(F, c, pos))
  BY <1>4, <1>5 DEF Replaced
<1>7. SetUpTo(b, pos + 1, F, c)
  BY <1>1, <1>6, SetStep
<1>8. Becomes(b, pos + 1)
  BY <1>1, <1>4, <1>5 DEF Becomes
<1> QED BY <1>1, <1>7, <1>8, MovedWithin DEF c

(* ... fills in the function's own region ...                              *)
LEMMA SetOwnStep == ASSUME IInv, SetOwn PROVE IInv'
<1> DEFINE c == Connected(F, blk)
<1>1. SetVisits /\ IsConfig(B[pos]) /\ B[pos].num = 1
      /\ Rewrite([B EXCEPT ![pos].region = Lookup(F)]) /\ GoTo(pos + 1)
      /\ UNCHANGED <<source, list, link, pass>>
  BY DEF SetOwn, SetArgument, I
<1>2. F \in Name /\ B[pos] = c[pos] /\ F \in link
  BY <1>1, SetLooks
<1>3. Rewrite([B EXCEPT ![pos] = Opened(B[pos], F)])
  BY <1>1, <1>2 DEF Lookup, Opened
<1>4. FillAt(F, c, pos) = Opened(B[pos], F)
  BY <1>1, <1>2 DEF FillAt
<1> QED BY <1>1, <1>2, <1>3, <1>4, SetWrites

(* ... fills in the callee's ...                                           *)
LEMMA SetCalleeStep == ASSUME IInv, SetCallee PROVE IInv'
<1> DEFINE c == Connected(F, blk)
           g == B[pos + 1].callee
<1>1. SetVisits /\ IsConfig(B[pos]) /\ B[pos].num = 2 /\ IsCall(B[pos + 1])
      /\ Rewrite([B EXCEPT ![pos].region = Lookup(g)]) /\ GoTo(pos + 1)
      /\ UNCHANGED <<source, list, link, pass>>
  BY DEF SetCallee, SetArgument, I, BeforeCall
<1>2. /\ B[pos] = c[pos] /\ pos < Len(c) /\ B[pos + 1] = c[pos + 1]
      /\ g \in Name \ Helper /\ g \in link
  BY <1>1, SetLooks DEF Awaits
<1>3. Rewrite([B EXCEPT ![pos] = Opened(B[pos], g)])
  BY <1>1, <1>2 DEF Lookup, Opened
<1>4. FillAt(F, c, pos) = Opened(B[pos], g)
  BY <1>1, <1>2 DEF FillAt
<1> HIDE DEF g
<1> QED BY <1>1, <1>2, <1>3, <1>4, SetWrites

(* ... or passes the instruction over.                                     *)
LEMMA SetPassStep == ASSUME IInv, SetPass PROVE IInv'
<1> DEFINE c == Connected(F, blk)
<1>1. SetVisits /\ (~IsConfig(B[pos]) \/ (B[pos].num = 2 /\ ~IsCall(B[pos + 1])))
      /\ GoTo(pos + 1) /\ UNCHANGED <<source, body, list, link, pass>>
  BY DEF SetPass, I, BeforeCall
<1>2. /\ pass = "set" /\ fn <= Len(Order) /\ InBlock
      /\ B \in BasicBlock(Name) /\ pos \in 1 .. Len(B) /\ pos + 1 \in 1 .. Len(B) + 1
      /\ SetUpTo(B, pos, F, c) /\ B[pos] = c[pos]
      /\ Awaits(B[pos]) => B[pos + 1] = c[pos + 1]
  BY <1>1, SetLooks
<1>3. FillAt(F, c, pos) = B[pos]
  BY <1>1, <1>2 DEF FillAt, Awaits
<1> HIDE DEF c
<1>4. Replaced(B, B, pos, FillAt(F, c, pos))
  BY <1>2, <1>3, SetNothing
<1>5. SetUpTo(B, pos + 1, F, c)
  BY <1>2, <1>4, SetStep
<1>6. Becomes(B, pos + 1)
  BY <1>1, <1>2 DEF Becomes
<1> QED BY <1>2, <1>5, <1>6, MovedWithin DEF c

(* All actions together.                                                   *)
LEMMA InvariantStep == ASSUME IInv, [Next]_vars PROVE IInv'
<1>1. CASE FindFunction
  BY <1>1, FindStep
<1>2. CASE NextPass("find", "insert")
  BY <1>2, NextPassStep
<1>3. CASE LeaveFunction
  BY <1>3, LeaveFunctionStep
<1>4. CASE LeaveBlock
  BY <1>4, LeaveBlockStep
<1>5. CASE InsertEnter
  BY <1>5, InsertEnterStep
<1>6. CASE InsertPass
  BY <1>6, InsertPassStep
<1>7. CASE InsertAround
  BY <1>7, InsertAroundStep
<1>8. CASE InsertIndirect \/ ConnectUninitialised \/ MeasureFails
  <2>1. TypeOK /\ Stop
    BY <1>8 DEF InsertIndirect, ConnectUninitialised, MeasureFails, IInv
  <2> QED BY <2>1, StopStep
<1>9. CASE NextPass("insert", "connect")
  BY <1>9, NextPassStep
<1>10. CASE ConnectBlock
  BY <1>10, ConnectBlockStep
<1>11. CASE NextPass("connect", "measure")
  BY <1>11, NextPassStep
<1>12. CASE Measure
  BY <1>12, MeasureStep
<1>13. CASE SetEnter
  BY <1>13, SetEnterStep
<1>14. CASE SetOwn
  BY <1>14, SetOwnStep
<1>15. CASE SetCallee
  BY <1>15, SetCalleeStep
<1>16. CASE SetPass
  BY <1>16, SetPassStep
<1>17. CASE NextPass("set", "done")
  BY <1>17, NextPassStep
<1>18. CASE Finished \/ UNCHANGED vars
  <2>1. UNCHANGED vars
    BY <1>18 DEF Finished
  <2> QED BY <2>1 DEF IInv, TypeOK, CursorInv, ListInv, BoundInv, BodyInv, WalkInv, SetInv,
                      vars, F, B, Here, Passed, Left, Found, Inserted, Connected, Final
<1> QED
  BY <1>1, <1>2, <1>3, <1>4, <1>5, <1>6, <1>7, <1>8, <1>9, <1>10, <1>11, <1>12, <1>13,
     <1>14, <1>15, <1>16, <1>17, <1>18 DEF Next

(* The invariant holds in every state, for every module of any number of   *)
(* functions, blocks and instructions.                                     *)
THEOREM Invariant == Spec => []IInv
<1>1. IInv /\ [Next]_vars => IInv'
  BY InvariantStep
<1> QED BY <1>1, InitStep, PTL DEF Spec

(* The lists hold names of functions that get a region, the blocks are     *)
(* sequences of instructions, and no pass adds or drops a block (all       *)
(* passes).                                                                *)
THEOREM TypeCorrect == Spec => []TypeOK
<1>1. IInv => TypeOK
  BY DEF IInv
<1> QED BY <1>1, Invariant, PTL
-----------------------------------------------------------------------------
(* What follows from the invariant.                                        *)

(* A block in the middle of Insert_Function's walk has left what it will   *)
(* have left, and is no longer than it will be.                            *)
LEMMA WalkedGrowth ==
  ASSUME NEW b \in BasicBlock(Name), NEW i \in 1 .. Len(b) + 1, NEW r \in BasicBlock(Name),
         Walked(b, i, r)
  PROVE  Erase(b) = Erase(r) /\ Len(b) <= Len(r)
<1>1. PICK d, u : Halves(b, i, d, u)
  BY HalvesExist
<1> DEFINE g == FlatMap(WrapMap(Name), u)
<1>2. d \in BasicBlock(Name) /\ u \in BasicBlock(Name) /\ b = Then(d, u)
  BY <1>1 DEF Halves
<1>3. Then(d, g) = r
  BY <1>1, HalvesWalked
<1>4. g \in BasicBlock(Name)
  BY <1>2, WrapType, BlockMap
<1>5. Erase(g) = Erase(u) /\ Len(g) = Len(u) + 2 * Len(OwnCalls(u))
  BY <1>2, EraseWrap, WrapLen
<1>6. Len(OwnCalls(u)) \in Nat /\ Len(u) \in Nat /\ Len(d) \in Nat
  BY <1>2, OwnLen
<1> HIDE DEF g
<1>7. Len(b) = Len(d) + Len(u) /\ Len(r) = Len(d) + Len(g)
  BY <1>2, <1>3, <1>4, ThenLen
<1>8. Erase(b) = Then(Erase(d), Erase(u)) /\ Erase(r) = Then(Erase(d), Erase(g))
  BY <1>2, <1>3, <1>4, EraseThen
<1> DEFINE lb == Len(b)
           ld == Len(d)
           lu == Len(u)
           lr == Len(r)
           lg == Len(g)
           lo == Len(OwnCalls(u))
<1>9. lb = ld + lu /\ lr = ld + lg /\ lg = lu + 2 * lo /\ lo \in Nat /\ lu \in Nat /\ ld \in Nat
  BY <1>5, <1>6, <1>7
<1> HIDE DEF lb, ld, lu, lr, lg, lo
<1>10. lb <= lr
  BY <1>9
<1> QED BY <1>5, <1>8, <1>10 DEF lb, lr

(* The same for a block in the middle of Set_Operand's.                    *)
LEMMA KinGrowth ==
  ASSUME NEW b \in BasicBlock(Name), NEW c \in BasicBlock(Name), Kin(b, c)
  PROVE  Erase(b) = Erase(c) /\ Len(b) = Len(c)
BY KinErase DEF Kin

(* What holds of every block in every state before opt has stopped.        *)
Grown(b, f, k) == Erase(b) = Erase(source[f][k]) /\ Len(b) <= Limit(f, k)

(* Every stage is like this ...                                            *)
LEMMA StagesGrown ==
  ASSUME source \in Programs, NEW f \in Name, NEW k \in DOMAIN source[f]
  PROVE  /\ Grown(source[f][k], f, k) /\ Grown(Inserted(f, k), f, k)
         /\ Grown(Connected(f, k), f, k) /\ Grown(Final(f, k), f, k)
<1> DEFINE b == Final(f, k)
           c == Connected(f, k)
<1>1. /\ Grown(source[f][k], f, k) /\ Grown(Inserted(f, k), f, k) /\ Grown(c, f, k)
  BY EraseStages, LenStages DEF Grown
<1>2. b \in BasicBlock(Name) /\ c \in BasicBlock(Name) /\ Kin(b, c)
  BY StageTypes, FilledKin
<1> HIDE DEF b, c
<1>3. Grown(b, f, k)
  BY <1>1, <1>2, KinGrowth DEF Grown
<1> QED BY <1>1, <1>3 DEF b, c

(* ... and so is every block.                                              *)
LEMMA BlocksGrown ==
  ASSUME IInv, pass # "stopped", NEW f \in Name, NEW k \in DOMAIN source[f]
  PROVE  Grown(body[f][k], f, k)
<1>1. TypeOK /\ CursorInv /\ BodyInv /\ WalkInv /\ SetInv
  BY DEF IInv
<1>2. PICK n \in DOMAIN Order : f = Order[n]
  BY OrderTyped
<1>3. source \in Programs
  BY <1>1 DEF TypeOK
<1>4. /\ Grown(source[f][k], f, k) /\ Grown(Inserted(f, k), f, k)
      /\ Grown(Connected(f, k), f, k) /\ Grown(Final(f, k), f, k)
  BY <1>3, StagesGrown
<1>5. CASE ~Here(n, k)
  <2>1. body[f][k] = IF Passed(n, k) THEN Left(f, k) ELSE Found(f, k)
    BY <1>1, <1>2, <1>5 DEF BodyInv
  <2>2. pass \in {"find", "insert", "connect", "measure", "set", "done"}
    BY <1>1 DEF TypeOK
  <2>3. Left(f, k) \in {source[f][k], Inserted(f, k), Connected(f, k), Final(f, k)}
    BY <2>2 DEF Left
  <2>4. Found(f, k) \in {source[f][k], Inserted(f, k), Connected(f, k), Final(f, k)}
    BY <2>2 DEF Found
  <2>5. body[f][k] \in {source[f][k], Inserted(f, k), Connected(f, k), Final(f, k)}
    BY <2>1, <2>3, <2>4
  <2> QED BY <1>4, <2>5
<1>6. CASE Here(n, k)
  <2>1. f = F /\ k = blk /\ pos > 0 /\ body[f][k] = B
    BY <1>2, <1>6 DEF Here, F, B
  <2>2. pass \in {"insert", "set"} /\ fn <= Len(Order) /\ pos <= Len(B) + 1 /\ pos \in Nat
    BY <1>1, <2>1 DEF CursorInv, TypeOK
  <2>3. B \in BasicBlock(Name)
    BY <1>1, <2>1, Typed
  <2>4. pos \in 1 .. Len(B) + 1
    BY <2>1, <2>2, <2>3, ElementType
  <2>5. Inserted(f, k) \in BasicBlock(Name) /\ Connected(f, k) \in BasicBlock(Name)
    BY <1>3, StageTypes
  <2>6. CASE pass = "insert"
    <3>1. Walked(B, pos, Inserted(f, k))
      BY <1>1, <2>1, <2>6 DEF WalkInv
    <3>2. Erase(B) = Erase(Inserted(f, k)) /\ Len(B) <= Len(Inserted(f, k))
      BY <2>3, <2>4, <2>5, <3>1, WalkedGrowth
    <3>3. Len(B) \in Nat /\ Len(Inserted(f, k)) \in Nat
      BY <2>3, <2>5, ElementType
    <3>4. Limit(f, k) \in Nat
      <4>1. source[f][k] \in BasicBlock(Name)
        BY <1>3, SourceIs
      <4>2. Len(source[f][k]) \in Nat /\ Len(OwnCalls(source[f][k])) \in Nat
        BY <4>1, OwnLen
      <4> DEFINE ls == Len(source[f][k])
                 lo == Len(OwnCalls(source[f][k]))
                 x == IF k = 1 THEN 3 ELSE 0
                 y == IF k = Len(source[f]) THEN 1 ELSE 0
      <4>3. x \in Nat /\ y \in Nat /\ ls \in Nat /\ lo \in Nat
        BY <4>2
      <4>4. Limit(f, k) = ls + 2 * lo + x + y
        BY DEF Limit
      <4> HIDE DEF ls, lo, x, y
      <4> QED BY <4>3, <4>4
    <3> DEFINE lb == Len(B)
               lr == Len(Inserted(f, k))
               l == Limit(f, k)
    <3>5. lb <= lr /\ lr <= l /\ lb \in Nat /\ lr \in Nat /\ l \in Nat
      BY <1>4, <3>2, <3>3, <3>4 DEF Grown
    <3> HIDE DEF lb, lr, l
    <3>6. lb <= l
      BY <3>5
    <3> QED BY <1>4, <2>1, <3>2, <3>6 DEF Grown, lb, l
  <2>7. CASE pass = "set"
    <3>1. SetUpTo(B, pos, F, Connected(f, k))
      BY <1>1, <2>1, <2>7 DEF SetInv
    <3>2. Kin(B, Connected(f, k))
      BY <2>3, <2>5, <3>1, SetKin
    <3>3. Erase(B) = Erase(Connected(f, k)) /\ Len(B) = Len(Connected(f, k))
      BY <2>3, <2>5, <3>2, KinGrowth
    <3> QED BY <1>4, <2>1, <3>3 DEF Grown
  <2> QED BY <2>2, <2>6, <2>7
<1> QED BY <1>5, <1>6

(* The stop of opt or python leaves the blocks as they are.                *)
LEMMA StopKeeps ==
  ASSUME [Next]_vars, pass' = "stopped"
  PROVE  UNCHANGED <<source, body>>
BY DEF Next, vars, FindFunction, NextPass, LeaveFunction, LeaveBlock, InsertEnter, InsertPass,
       InsertAround, InsertIndirect, ConnectBlock, ConnectUninitialised, Measure, MeasureFails,
       SetEnter, SetOwn, SetCallee, SetArgument, SetPass, Finished, Stop, Running, InsertVisits,
       ConnectVisits, SetVisits

(* The program's own code is never changed, moved or dropped by a pass,    *)
(* though Insert_Function, Connect_Function and Set_Operand rewrite its    *)
(* blocks and Insert_Function does so under its iterator.                  *)
THEOREM CodeOnlyAdded == Spec => []OnlyAdds
<1> DEFINE P == pass # "stopped" => OnlyAdds
<1>1. IInv => P
  BY BlocksGrown DEF Grown, OnlyAdds
<1>2. Init => OnlyAdds
  BY DEF Init, OnlyAdds
<1>3. OnlyAdds /\ P' /\ [Next]_vars => OnlyAdds'
  BY StopKeeps DEF OnlyAdds
<1> HIDE DEF P
<1> QED BY <1>1, <1>2, <1>3, Invariant, PTL DEF Spec

(* No block grows beyond two configurations for each of its calls, three   *)
(* instructions at the start of the function and one at its end:           *)
(* Insert_Function's loop does not find work in what it has inserted.      *)
THEOREM GrowthIsBounded == Spec => []GrowthBounded
<1> DEFINE P == pass # "stopped" => GrowthBounded
<1>1. IInv => P
  BY BlocksGrown DEF Grown, GrowthBounded, Limit
<1>2. Init => P
  BY <1>1, InitStep
<1>3. Init => pass # "stopped"
  BY DEF Init
<1>4. GrowthBounded /\ P' /\ [Next]_vars => GrowthBounded'
  BY StopKeeps DEF GrowthBounded
<1>5. Init => GrowthBounded
  BY <1>2, <1>3
<1> HIDE DEF P
<1> QED BY <1>1, <1>4, <1>5, Invariant, PTL DEF Spec

(* From the end of Connect_Function on, blocks differ in regions only.     *)
LEMMA AfterConnect ==
  ASSUME IInv, pass \in {"measure", "set", "done"}, NEW f \in Name, NEW k \in DOMAIN source[f]
  PROVE  /\ Kin(body[f][k], Connected(f, k))
         /\ pass = "done" => body[f][k] = Final(f, k)
<1>1. TypeOK /\ CursorInv /\ BodyInv /\ SetInv
  BY DEF IInv
<1>2. PICK n \in DOMAIN Order : f = Order[n]
  BY OrderTyped
<1>3. source \in Programs
  BY <1>1 DEF TypeOK
<1>4. Kin(Final(f, k), Connected(f, k)) /\ Connected(f, k) \in BasicBlock(Name)
  BY <1>3, FilledKin, StageTypes
<1>5. CASE ~Here(n, k)
  <2>1. body[f][k] = IF Passed(n, k) THEN Left(f, k) ELSE Found(f, k)
    BY <1>1, <1>2, <1>5 DEF BodyInv
  <2>2. body[f][k] = Final(f, k) \/ (body[f][k] = Connected(f, k) /\ pass # "done")
    BY <2>1 DEF Left, Found
  <2>3. Kin(Connected(f, k), Connected(f, k))
    BY DEF Kin, KinAt
  <2> QED BY <1>4, <2>2, <2>3
<1>6. CASE Here(n, k)
  <2>1. f = F /\ k = blk /\ pos > 0 /\ body[f][k] = B
    BY <1>2, <1>6 DEF Here, F, B
  <2>2. pass = "set"
    BY <1>1, <2>1 DEF CursorInv
  <2>3. B \in BasicBlock(Name)
    BY <1>1, <2>1, Typed
  <2>4. SetUpTo(B, pos, F, Connected(f, k))
    BY <1>1, <2>1, <2>2 DEF SetInv
  <2>5. Kin(B, Connected(f, k))
    BY <1>4, <2>3, <2>4, SetKin
  <2> QED BY <2>1, <2>2, <2>5
<1> QED BY <1>5, <1>6

(* A function that Connect_Function connects reads its caller's region out *)
(* of region 1 before it opens region 1 for itself, although               *)
(* Insert_Function put the second there first.                             *)
THEOREM CallersReadFirst == Spec => []CallerReadFirst
<1>1. ASSUME IInv, pass \in {"measure", "set", "done"},
             NEW f \in Name, ~ConnectSkips(f), source[f] # <<>>
      PROVE  ReadsFirst(body[f][1]) /\ DOMAIN body[f][1] = 1 .. Len(body[f][1])
  <2>1. TypeOK
    BY <1>1 DEF IInv
  <2>2. source \in Programs
    BY <2>1 DEF TypeOK
  <2>3. 1 \in DOMAIN source[f]
    <3>1. source[f] \in Seq(BasicBlock(Name))
      BY <2>2, ProgramAssumption
    <3> QED BY <1>1, <3>1
  <2>4. ReadsFirst(Connected(f, 1))
    BY <1>1, <2>2, <2>3, ReadsStages
  <2>5. Kin(body[f][1], Connected(f, 1))
    BY <1>1, <2>3, AfterConnect
  <2>6. body[f][1] \in BasicBlock(Name) /\ Connected(f, 1) \in BasicBlock(Name)
    BY <2>1, <2>2, <2>3, Typed, StageTypes
  <2> DEFINE b == body[f][1]
             c == Connected(f, 1)
  <2>7. b \in BasicBlock(Name) /\ c \in BasicBlock(Name) /\ Kin(b, c) /\ ReadsFirst(c)
    BY <2>4, <2>5, <2>6
  <2> HIDE DEF b, c
  <2>8. ReadsFirst(b) /\ DOMAIN b = 1 .. Len(b)
    BY <2>7, KinReads, ElementType
  <2> QED BY <2>8 DEF b
<1>2. IInv => CallerReadFirst
  BY <1>1 DEF CallerReadFirst, ReadsFirst
<1> QED BY <1>2, Invariant, PTL

(* In the module that is linked every call stands between the              *)
(* configurations of its callee and of its caller, and Set_Operand has     *)
(* left no placeholder of Insert_Function and found nothing behind the end *)
(* of its table.                                                           *)
THEOREM EveryCallGuarded == Spec => []CallsGuarded
<1>1. ASSUME IInv, pass = "done", NEW f \in Name, NEW k \in DOMAIN source[f]
      PROVE  body[f][k] \in Good(Name, f)
  <2>1. source \in Programs
    BY <1>1 DEF IInv, TypeOK
  <2>2. body[f][k] = Final(f, k)
    BY <1>1, AfterConnect
  <2> QED BY <2>1, <2>2, GoodStages
<1>2. ASSUME IInv, pass = "done", NEW f \in Name, NEW k \in DOMAIN source[f],
             NEW i \in DOMAIN body[f][k]
      PROVE  GoodAt(f, body[f][k], i)
  <2> DEFINE b == body[f][k]
  <2>1. b \in Good(Name, f) /\ i \in DOMAIN b
    BY <1>1, <1>2
  <2> HIDE DEF b
  <2>2. DOMAIN b = 1 .. Len(b)
    BY <2>1, ElementType DEF Good
  <2>3. GoodAt(f, b, i)
    BY <2>1, <2>2 DEF Good
  <2> QED BY <2>3 DEF b
<1>3. IInv => CallsGuarded
  BY <1>2 DEF CallsGuarded, GoodAt
<1> QED BY <1>3, Invariant, PTL

(* The passes, one turn of a loop at a time, compute Image.                *)
THEOREM ImageIsReached == Spec => []ImageReached
<1>1. ASSUME IInv, pass = "done" PROVE body = Image(source)
  <2>1. TypeOK /\ source \in Programs
    BY <1>1 DEF IInv, TypeOK
  <2>2. DOMAIN source = Name /\ body \in [Name -> Seq(BasicBlock(Name))]
    BY <2>1, ProgramAssumption DEF TypeOK
  <2>3. ASSUME NEW f \in Name
        PROVE  body[f] = IF f \in Helper
                           THEN source[f]
                           ELSE [k \in DOMAIN source[f] |-> ImageBlock(f, source[f], k)]
    <3>1. /\ DOMAIN body[f] = 1 .. Len(source[f]) /\ DOMAIN source[f] = 1 .. Len(source[f])
          /\ body[f] \in Seq(BasicBlock(Name)) /\ source[f] \in Seq(BasicBlock(Name))
          /\ Len(body[f]) = Len(source[f])
      BY <2>1, <2>2, Typed, ProgramAssumption
    <3>2. ASSUME NEW k \in DOMAIN source[f]
          PROVE  body[f][k] = IF f \in Helper THEN source[f][k] ELSE ImageBlock(f, source[f], k)
      <4>1. body[f][k] = Final(f, k)
        BY <1>1, AfterConnect
      <4> QED BY <2>1, <4>1, HelperStages, FinalStage
    <3>3. body[f] = [k \in DOMAIN source[f] |-> body[f][k]]
      BY <3>1
    <3>4. source[f] = [k \in DOMAIN source[f] |-> source[f][k]]
      BY <3>1
    <3> QED BY <3>2, <3>3, <3>4
  <2>4. body = [f \in Name |-> body[f]]
    BY <2>2
  <2> QED BY <2>2, <2>3, <2>4 DEF Image
<1>2. IInv => ImageReached
  BY <1>1 DEF ImageReached
<1> QED BY <1>2, Invariant, PTL

(* A module with a function that is only declared, or with a call through  *)
(* a pointer, is not built: the measuring or Insert_Function stops.        *)
THEOREM OnlyTheCoveredBuilt == Spec => []OnlyCoveredIsBuilt
<1>1. ASSUME IInv, pass = "done", NEW f \in Name \ Helper
      PROVE  /\ source[f] # <<>>
             /\ \A k \in DOMAIN source[f] : ~Contains(source[f][k], Indirect)
  <2>1. TypeOK /\ ListInv /\ BoundInv
    BY <1>1 DEF IInv
  <2>2. source[f] # <<>>
    BY <1>1, <2>1 DEF ListInv
  <2>3. PICK n \in DOMAIN Order : f = Order[n]
    BY OrderTyped
  <2>4. ASSUME NEW k \in DOMAIN source[f] PROVE ~Contains(source[f][k], Indirect)
    <3>1. Each(source[f][k], Bound(Name))
      BY <1>1, <2>1, <2>3 DEF BoundInv
    <3>2. Indirect \notin Bound(Name)
      BY DEF Bound, Indirect, CallOf, Inst, IsCall
    <3> QED BY <3>1, <3>2 DEF Contains, Each
  <2> QED BY <2>2, <2>4
<1>2. IInv => OnlyCoveredIsBuilt
  BY <1>1 DEF OnlyCoveredIsBuilt
<1> QED BY <1>2, Invariant, PTL
=============================================================================
