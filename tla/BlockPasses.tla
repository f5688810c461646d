---------------------------- MODULE BlockPasses ----------------------------
(***************************************************************************)
(* The passes that prepare a module for regions per basic block: Split_BB  *)
(* splits blocks until none has two calls, and Executed_BB counts the      *)
(* calls of the driver.  opt runs them one after the other, in any order.  *)
(*                                                                         *)
(* A block is its identity and its code; branches name identities, so that *)
(* splitting moves code between blocks that branches still point to.  The  *)
(* blocks of the source are 1 .. n in layout order.                        *)
(***************************************************************************)
EXTENDS Ir, FiniteSetsExt

CONSTANTS
  Order,     \* the functions of the module, in module order
  Programs   \* the modules: a sequence of code sequences for every function

Name == ToSet(Order)

ASSUME OrderAssumption ==
  /\ Order \in Seq(Name)
  /\ \A m, n \in DOMAIN Order : Order[m] = Order[n] => m = n

(* The compiler ends every block with its only terminator, which branches  *)
(* to blocks of the same function.                                         *)
ASSUME ProgramAssumption ==
  \A p \in Programs :
    /\ p \in [Name -> Seq(BasicBlock(Name))]
    /\ \A f \in Name : \A k \in DOMAIN p[f] :
         /\ p[f][k] # <<>>
         /\ \A i \in DOMAIN p[f][k] :
              LET x == p[f][k][i]
              IN  IF i = Len(p[f][k])
                    THEN x.op \in {"br", "ret"} /\ x.to \subseteq DOMAIN p[f]
                    ELSE x.op \notin {"br", "ret"} /\ x.to = {}

VARIABLES
  source,    \* the module that was given
  body,      \* the module as the passes have left it
  todo,      \* the passes that have not run
  pass,      \* the pass that runs, "none" or "stopped"
  fn,        \* its function iterator, an index of Order
  blk,       \* its block iterator, an index in layout order
  pos,       \* its instruction iterator, 0 before the block is entered
  calls      \* call_cnt

cursor == <<fn, blk, pos, calls>>
vars   == <<source, body, todo, pass, cursor>>

F == Order[fn]
B == body[F][blk]
I == B.code[pos]

Running(p)   == pass = p /\ fn <= Len(Order)
InBlock      == blk <= Len(body[F])
NextFunction == fn' = fn + 1 /\ blk' = 1 /\ pos' = 0 /\ calls' = 0

Init ==
  /\ source \in Programs
  /\ body = [f \in Name |->
               [k \in DOMAIN source[f] |-> [id |-> k, code |-> source[f][k]]]]
  /\ todo = {"split", "executed"}
  /\ pass = "none"
  /\ fn = 1 /\ blk = 1 /\ pos = 0 /\ calls = 0

StartPass ==
  /\ pass = "none"
  /\ \E p \in todo : pass' = p /\ todo' = todo \ {p}
  /\ fn' = 1 /\ blk' = 1 /\ pos' = 0 /\ calls' = 0
  /\ UNCHANGED <<source, body>>

EndPass ==
  /\ pass \in {"split", "executed"} /\ fn > Len(Order)
  /\ pass' = "none"
  /\ UNCHANGED <<source, body, todo, cursor>>
-----------------------------------------------------------------------------
(* The counter a function of the driver is to call first.                  *)
CounterOf(f) ==
  CASE f = "MPU_Config"      -> {"Config_execute"}
    [] f \in ReadFunction    -> {"read_execute"}
    [] OTHER                 -> {}

Counts(f) == CounterOf(f) # {} /\ body[f] # <<>>

ExecutedFunction ==
  /\ Running("executed")
  /\ CounterOf(F) \subseteq Name \/ ~Counts(F)
  /\ body' =
       IF Counts(F)
         THEN LET c == body[F][1].code
                  g == CHOOSE x \in CounterOf(F) : TRUE
              IN  [body EXCEPT ![F][1].code =
                     InsertAt(c, FirstNonPhi(c), CallOf(g))]
         ELSE body
  /\ NextFunction
  /\ UNCHANGED <<source, todo, pass>>

(* The pointer to a counter the module does not have was never assigned.   *)
ExecutedUninitialised ==
  /\ Running("executed")
  /\ Counts(F) /\ ~(CounterOf(F) \subseteq Name)
  /\ pass' = "stopped"
  /\ UNCHANGED <<source, body, todo, cursor>>
-----------------------------------------------------------------------------
(* The functions that Split_BB leaves alone.                               *)
SplitSkips(f) == f \in MpuFunction \cup ReadFunction

SplitLeaveFunction ==
  /\ Running("split")
  /\ SplitSkips(F) \/ ~InBlock
  /\ NextFunction
  /\ UNCHANGED <<source, body, todo, pass>>

InSplit == Running("split") /\ ~SplitSkips(F) /\ InBlock

SplitEnter ==
  /\ InSplit /\ pos = 0
  /\ pos' = 1 /\ calls' = 0
  /\ UNCHANGED <<source, body, todo, pass, fn, blk>>

SplitLeaveBlock ==
  /\ InSplit /\ pos > Len(B.code)
  /\ blk' = blk + 1 /\ pos' = 0
  /\ UNCHANGED <<source, body, todo, pass, fn, calls>>

Visits == InSplit /\ pos \in 1 .. Len(B.code)

SplitPass ==
  /\ Visits /\ ~IsCall(I)
  /\ pos' = pos + 1
  /\ UNCHANGED <<source, body, todo, pass, fn, blk, calls>>

SplitFirstCall ==
  /\ Visits /\ IsCall(I) /\ I.callee # "pointer"
  /\ calls = 0
  /\ pos' = pos + 1 /\ calls' = 1
  /\ UNCHANGED <<source, body, todo, pass, fn, blk>>

(* Branches to b go to n.                                                  *)
Move(x, b, n) ==
  IF b \in x.to THEN [x EXCEPT !.to = (@ \ {b}) \cup {n}] ELSE x

Redirect(blocks, b, n) ==
  [k \in DOMAIN blocks |-> [blocks[k] EXCEPT !.code =
     [i \in DOMAIN @ |-> Move(@[i], b, n)]]]

(* Mistake: the branches to the block are left as they are.                *)
SplitBeforeUnlinked(blocks, k, i) ==
  LET b == blocks[k]
      n == Len(blocks) + 1
  IN  InsertAt([blocks EXCEPT ![k].code = SubSeq(@, i, Len(@))], k,
               [id |-> n, code |-> Append(SubSeq(b.code, 1, i - 1), Branch({b.id}))])

(* splitBasicBlock(BI, "", true): what is in front of BI goes to a new     *)
(* block in front of this one, and so do the branches to this one.         *)
SplitBefore(blocks, k, i) ==
  LET b == blocks[k]
      n == Len(blocks) + 1
      rest == [blocks EXCEPT ![k].code = SubSeq(@, i, Len(@))]
  IN  InsertAt(Redirect(rest, b.id, n), k,
               [id |-> n, code |-> Append(SubSeq(b.code, 1, i - 1), Branch({b.id}))])

(* Mistake: the iterator is taken to be in the new block.                  *)
SplitCallInNew ==
  /\ Visits /\ IsCall(I) /\ I.callee # "pointer"
  /\ calls > 0
  /\ body' = [body EXCEPT ![F] = SplitBefore(@, blk, pos)]
  /\ pos' = Len(B.code) + 1
  /\ calls' = calls + 1
  /\ UNCHANGED <<source, todo, pass, fn, blk>>

(* Mistake: the count starts again behind the call at which it was split.  *)
SplitCallRecount ==
  /\ Visits /\ IsCall(I) /\ I.callee # "pointer"
  /\ calls > 0
  /\ body' = [body EXCEPT ![F] = SplitBefore(@, blk, pos)]
  /\ blk' = blk + 1 /\ pos' = 2
  /\ calls' = 0
  /\ UNCHANGED <<source, todo, pass, fn>>

(* The block iterator and the instruction iterator stay at their block and *)
(* their call, which is the first instruction of the block now.            *)
SplitCall ==
  /\ Visits /\ IsCall(I) /\ I.callee # "pointer"
  /\ calls > 0
  /\ body' = [body EXCEPT ![F] = SplitBefore(@, blk, pos)]
  /\ blk' = blk + 1 /\ pos' = 2
  /\ calls' = calls + 1
  /\ UNCHANGED <<source, todo, pass, fn>>

(* getCalledFunction() of an indirect call is null.                        *)
SplitIndirect ==
  /\ Visits /\ I.callee = "pointer"
  /\ pass' = "stopped"
  /\ UNCHANGED <<source, body, todo, cursor>>
-----------------------------------------------------------------------------
Finished ==
  /\ pass = "stopped" \/ (pass = "none" /\ todo = {})
  /\ UNCHANGED vars

Next ==
  \/ StartPass
  \/ ExecutedFunction
  \/ ExecutedUninitialised
  \/ SplitLeaveFunction
  \/ SplitEnter
  \/ SplitLeaveBlock
  \/ SplitPass
  \/ SplitFirstCall
  \/ SplitCall
  \/ SplitIndirect
  \/ EndPass
  \/ Finished

Spec == Init /\ [][Next]_vars
-----------------------------------------------------------------------------
TypeOK ==
  /\ todo \subseteq {"split", "executed"}
  /\ pass \in {"split", "executed", "none", "stopped"}
  /\ \A f \in Name : {b.id : b \in ToSet(body[f])} = DOMAIN body[f]
  /\ (Running("split") /\ pos > 0) => pos <= Len(B.code) + 1

(* The blocks that block k of the source has become: the new ones in front *)
(* of it in the layout and itself.                                         *)
At(f, k)      == SelectInSeq(body[f], LAMBDA b : b.id = k)
Start(f, k)   == IF k = 1 THEN 1 ELSE At(f, k - 1) + 1
EntryOf(f, k) == body[f][Start(f, k)].id

(* What runs when block k is entered, up to its own terminator, with the   *)
(* branches between its parts and the counting taken out.                  *)
Through(f, k) ==
  LET part(j) == Erase(body[f][j].code)
  IN  FlattenSeq([n \in 1 .. At(f, k) - Start(f, k) |->
                    Front(part(Start(f, k) + n - 1))]) \o part(At(f, k))

(* At any moment of the splitting a path through the function runs the     *)
(* instructions it ran in the source: the parts of a block follow each     *)
(* other, and a branch to the block goes to the first of them.             *)
PathsKept ==
  \A f \in Name : \A k \in DOMAIN source[f] :
    /\ \A j \in Start(f, k) .. At(f, k) - 1 :
         Last(body[f][j].code) = Branch({body[f][j + 1].id})
    /\ Through(f, k) =
         [i \in DOMAIN Erase(source[f][k]) |->
            [Erase(source[f][k])[i] EXCEPT !.to = {EntryOf(f, t) : t \in @}]]

Calls(code) ==
  Len(FlattenSeq([i \in DOMAIN code |-> IF IsCall(code[i]) THEN <<code[i]>> ELSE <<>>]))

SumOf(s) == FoldLeft(+, 0, s)

SplitDone == pass # "split" /\ "split" \notin todo /\ pass # "stopped"

(* What Insert_Function asks of its input (Insert_Function.cpp:120) holds  *)
(* after Split_BB, though the blocks are split under its iterators: no     *)
(* block has more than one call, and none was split that need not be.      *)
OneCallPerBlock ==
  SplitDone => \A f \in Name : ~SplitSkips(f) =>
    /\ \A b \in ToSet(body[f]) : Calls(b.code) <= 1
    /\ Len(body[f]) =
         SumOf([k \in DOMAIN source[f] |-> Max({1, Calls(source[f][k])})])
=============================================================================
