----------------------------- MODULE Instrument -----------------------------
(***************************************************************************)
(* The passes of opt over one module, in the order the Makefile runs them: *)
(* Find_Function lists the functions, Insert_Function and Connect_Function *)
(* insert calls of mpu_configure.c, function_size.py measures the listed   *)
(* functions, and Set_Operand fills in their regions.  BB_label only names *)
(* blocks and leaves no trace here.                                        *)
(*                                                                         *)
(* A pass changes the block it walks over: a step is one turn of one of    *)
(* its loops, with the iterator where the source leaves it.                *)
(***************************************************************************)
EXTENDS Image, FiniteSets

CONSTANTS
  Order,     \* the functions of the module, in module order
  Programs   \* the modules: a sequence of blocks for every function

Name == ToSet(Order)

ASSUME OrderAssumption ==
  /\ Order \in Seq(Name)
  /\ \A m, n \in DOMAIN Order : Order[m] = Order[n] => m = n
  /\ Name \cap Reserved = {}

(* Before the passes a block ends with its terminator, calls functions of  *)
(* the program or through pointers, and has none of what the passes insert *)
(* in it.  The functions of mpu_configure.c call nothing.                  *)
Given(f, x) ==
  /\ x.region = "-" /\ x.num = 0
  /\ IsCall(x) => f \notin Helper /\ x.callee \in (Name \ Helper) \cup {"pointer"}

ASSUME ProgramAssumption ==
  \A p \in Programs :
    /\ p \in [Name -> Seq(BasicBlock(Name))]
    /\ \A f \in Name : \A k \in DOMAIN p[f] :
         /\ p[f][k] # <<>>
         /\ Last(p[f][k]).op \in {"br", "ret"}
         /\ \A i \in DOMAIN p[f][k] : Given(f, p[f][k][i])

VARIABLES
  source,    \* the module that llvm-link wrote
  body,      \* the module as the passes have left it
  list,      \* function.txt
  link,      \* the functions of Link_addr.txt
  pass,      \* the pass that runs, "done" or "stopped"
  fn,        \* its function iterator, an index of Order
  blk,       \* its block iterator
  pos        \* its instruction iterator, 0 before the block is entered

cursor == <<fn, blk, pos>>
vars   == <<source, body, list, link, pass, fn, blk, pos>>

F == Order[fn]
B == body[F][blk]
I == B[pos]

Running(p) == pass = p /\ fn <= Len(Order)
InBlock    == blk <= Len(body[F])

(* Functions that Insert_Function and Connect_Function leave alone.        *)
InsertSkips(f) == f \in Helper

(* Mistake: main is not left out, though nobody called it.                 *)
ConnectSkipsHelpers(f) == f \in Helper

ConnectSkips(f) == f \in Helper \/ f = "main"

NextFunction    == fn' = fn + 1 /\ blk' = 1 /\ pos' = 0
NextBlock       == blk' = blk + 1 /\ pos' = 0 /\ UNCHANGED fn
GoTo(i)         == pos' = i /\ UNCHANGED <<fn, blk>>
Rewrite(b)      == body' = [body EXCEPT ![F][blk] = b]

(* opt or python stops with an error, and make with it.                    *)
Stop == pass' = "stopped" /\ UNCHANGED <<source, body, list, link, cursor>>

Init ==
  /\ source \in Programs
  /\ body = source
  /\ list = <<>>
  /\ link = {}
  /\ pass = "find"
  /\ fn = 1 /\ blk = 1 /\ pos = 0

(* A pass is over when its function iterator has reached the end.          *)
NextPass(p, q) ==
  /\ pass = p /\ fn > Len(Order)
  /\ pass' = q
  /\ fn' = 1 /\ blk' = 1 /\ pos' = 0
  /\ UNCHANGED <<source, body, list, link>>
-----------------------------------------------------------------------------
(* Mistake: only the functions that write the regions are excluded.        *)
FindAllButMpu ==
  /\ Running("find")
  /\ list' = IF F \in MpuFunction THEN list ELSE Append(list, F)
  /\ NextFunction
  /\ UNCHANGED <<source, body, link, pass>>

FindFunction ==
  /\ Running("find")
  /\ list' = IF F \in Helper THEN list ELSE Append(list, F)
  /\ NextFunction
  /\ UNCHANGED <<source, body, link, pass>>
-----------------------------------------------------------------------------
(* The block iterator of Insert_Function or Connect_Function has reached   *)
(* the end, or the function is skipped.                                    *)
LeaveFunction ==
  /\ \/ Running("insert") /\ (InsertSkips(F) \/ ~InBlock)
     \/ Running("connect") /\ (ConnectSkips(F) \/ ~InBlock)
     \/ Running("set") /\ ~InBlock
  /\ NextFunction
  /\ UNCHANGED <<source, body, list, link, pass>>

LeaveBlock ==
  /\ Running("insert") \/ Running("set")
  /\ InBlock /\ pos > Len(B)
  /\ NextBlock
  /\ UNCHANGED <<source, body, list, link, pass>>

(* The iterator starts behind nothing: BB->begin() is taken after the      *)
(* insertion into the first block.                                         *)
InsertEnter ==
  /\ Running("insert") /\ ~InsertSkips(F) /\ InBlock /\ pos = 0
  /\ IF blk = 1
       THEN Rewrite(InsertAt(B, FirstNonPhi(B), MpuConfig("first", 1)))
       ELSE UNCHANGED body
  /\ GoTo(1)
  /\ UNCHANGED <<source, list, link, pass>>

InsertVisits == Running("insert") /\ InBlock /\ pos \in 1 .. Len(B)

InsertPass ==
  /\ InsertVisits
  /\ ~IsCall(I) \/ I.callee \in MpuFunction
  /\ GoTo(pos + 1)
  /\ UNCHANGED <<source, body, list, link, pass>>

(* Mistake: the calls the pass has inserted are not told from the others.  *)
InsertAroundEvery ==
  /\ InsertVisits
  /\ IsCall(I) /\ I.callee # "pointer"
  /\ Rewrite(InsertAt(InsertAt(B, pos, MpuConfig("rest", 2)),
                      pos + 2, MpuConfig("rest", 1)))
  /\ GoTo(pos + 2)
  /\ UNCHANGED <<source, list, link, pass>>

(* The iterator stays at the call, so that it visits the call inserted     *)
(* behind it next.                                                         *)
InsertAround ==
  /\ InsertVisits
  /\ IsCall(I) /\ I.callee \notin MpuFunction /\ I.callee # "pointer"
  /\ Rewrite(InsertAt(InsertAt(B, pos, MpuConfig("rest", 2)),
                      pos + 2, MpuConfig("rest", 1)))
  /\ GoTo(pos + 2)
  /\ UNCHANGED <<source, list, link, pass>>

(* Mistake: a call whose callee is null is passed over.                    *)
PassIndirect ==
  /\ InsertVisits
  /\ I.callee = "pointer"
  /\ GoTo(pos + 1)
  /\ UNCHANGED <<source, body, list, link, pass>>

(* getCalledFunction() of an indirect call is null.                        *)
InsertIndirect ==
  /\ InsertVisits
  /\ I.callee = "pointer"
  /\ Stop
-----------------------------------------------------------------------------
ConnectVisits ==
  Running("connect") /\ ~ConnectSkips(F) /\ InBlock

IsFirst == blk = 1
IsLast  == blk = Len(body[F])

(* Mistake: the reads end up behind what Insert_Function put there.        *)
WithReadsBehind(b) ==
  LET i == FirstNonPhi(b) + 1
  IN  InsertAt(InsertAt(b, i, ReadAddr), i + 1, ReadSize)

(* Before the first instruction that is not a phi: read_addr, read_size.   *)
WithReads(b) ==
  LET i == FirstNonPhi(b)
  IN  InsertAt(InsertAt(b, i, ReadAddr), i + 1, ReadSize)

(* Mistake: the call replaces the terminator.                              *)
WithCallerForReturn(b) == Append(Front(b), MpuConfig("saved", 2))

(* Before the terminator: MPU_Config(addr, size, 2).                       *)
WithCaller(b) == InsertAt(b, Len(b), MpuConfig("saved", 2))

ConnectBlock ==
  /\ ConnectVisits
  /\ LET b == IF IsFirst THEN WithReads(B) ELSE B
     IN  Rewrite(IF IsLast THEN WithCaller(b) ELSE b)
  /\ NextBlock
  /\ UNCHANGED <<source, list, link, pass>>

(* addr and size are declared inside the loop over the blocks and assigned *)
(* in the first one only: in another one their values are indeterminate.   *)
(* Where they are not what the first turn left there they are no values of *)
(* this function, and opt stops.                                           *)
ConnectUninitialised ==
  /\ ConnectVisits
  /\ IsLast /\ ~IsFirst
  /\ Stop
-----------------------------------------------------------------------------
(* function_size.py finds no code of a function that is only declared.     *)
Measure ==
  /\ pass = "measure"
  /\ \A f \in ToSet(list) : source[f] # <<>>
  /\ link' = ToSet(list)
  /\ pass' = "set"
  /\ UNCHANGED <<source, body, list, cursor>>

MeasureFails ==
  /\ pass = "measure"
  /\ \E f \in ToSet(list) : source[f] = <<>>
  /\ Stop
-----------------------------------------------------------------------------
SetVisits == Running("set") /\ InBlock /\ pos \in 1 .. Len(B)

SetEnter ==
  /\ Running("set") /\ InBlock /\ pos = 0
  /\ GoTo(1)
  /\ UNCHANGED <<source, body, list, link, pass>>

(* A function that Link_addr.txt does not list gets what lies behind the   *)
(* end of the table.                                                       *)
Lookup(f) == IF f \in link THEN f ELSE "junk"

SetArgument(f) ==
  /\ Rewrite([B EXCEPT ![pos].region = Lookup(f)])
  /\ GoTo(pos + 1)
  /\ UNCHANGED <<source, list, link, pass>>

SetOwn ==
  /\ SetVisits
  /\ IsConfig(I) /\ I.num = 1
  /\ SetArgument(F)

BeforeCall == IsCall(B[pos + 1])

(* Mistake: the region before a call is the caller's.                      *)
SetCalleeOwn ==
  /\ SetVisits
  /\ IsConfig(I) /\ I.num = 2 /\ BeforeCall
  /\ SetArgument(F)

SetCallee ==
  /\ SetVisits
  /\ IsConfig(I) /\ I.num = 2 /\ BeforeCall
  /\ SetArgument(B[pos + 1].callee)

(* Mistake: a configuration that is not before a call does not advance.    *)
SetPassCallsOnly ==
  /\ SetVisits
  /\ \/ ~IsConfig(I) /\ GoTo(pos + 1)
     \/ IsConfig(I) /\ I.num = 2 /\ ~BeforeCall /\ GoTo(pos)
  /\ UNCHANGED <<source, body, list, link, pass>>

SetPass ==
  /\ SetVisits
  /\ \/ ~IsConfig(I)
     \/ I.num = 2 /\ ~BeforeCall
  /\ GoTo(pos + 1)
  /\ UNCHANGED <<source, body, list, link, pass>>
-----------------------------------------------------------------------------
Finished ==
  /\ pass \in {"done", "stopped"}
  /\ UNCHANGED vars

Next ==
  \/ FindFunction
  \/ NextPass("find", "insert")
  \/ LeaveFunction
  \/ LeaveBlock
  \/ InsertEnter
  \/ InsertPass
  \/ InsertAround
  \/ InsertIndirect
  \/ NextPass("insert", "connect")
  \/ ConnectBlock
  \/ ConnectUninitialised
  \/ NextPass("connect", "measure")
  \/ Measure
  \/ MeasureFails
  \/ SetEnter
  \/ SetOwn
  \/ SetCallee
  \/ SetPass
  \/ NextPass("set", "done")
  \/ Finished

Spec == Init /\ [][Next]_vars

(* The passes are sequential programs that nothing waits for and nothing   *)
(* interrupts.                                                             *)
FairSpec == Spec /\ WF_vars(Next)
-----------------------------------------------------------------------------
TypeOK ==
  /\ source \in Programs
  /\ body \in [Name -> Seq(BasicBlock(Name))]
  /\ \A f \in Name : Len(body[f]) = Len(source[f])
  /\ list \in Seq(Name \ Helper)
  /\ link \subseteq Name \ Helper
  /\ pass \in {"find", "insert", "connect", "measure", "set", "done", "stopped"}
  /\ fn \in 1 .. Len(Order) + 1
  /\ blk \in Nat \ {0}
  /\ pos \in Nat

(* The program's own code is never changed, moved or dropped, while a pass *)
(* inserts around the instruction its iterator points to or at any other   *)
(* time.                                                                   *)
OnlyAdds ==
  \A f \in Name : \A k \in DOMAIN source[f] :
    Erase(body[f][k]) = Erase(source[f][k])

(* Insert_Function inserts calls into the block in which it looks for      *)
(* calls, and still no block grows by more than the two configurations     *)
(* around each of its calls and those at both ends of the function.        *)
GrowthBounded ==
  \A f \in Name : \A k \in DOMAIN source[f] :
    Len(body[f][k]) <=
      Len(source[f][k]) + 2 * Len(OwnCalls(source[f][k]))
        + (IF k = 1 THEN 3 ELSE 0) + (IF k = Len(source[f]) THEN 1 ELSE 0)

(* In the module that is linked every call stands between the              *)
(* configuration of its callee and that of its caller, with no placeholder *)
(* left, although three passes have rewritten the block in between.        *)
CallsGuarded ==
  pass = "done" =>
    \A f \in Name : \A k \in DOMAIN source[f] : \A i \in DOMAIN body[f][k] :
      LET b == body[f][k]
      IN  /\ b[i].region \notin Placeholder
          /\ IsOwnCall(b[i]) =>
               /\ b[i - 1] = MpuConfig(b[i].callee, 2)
               /\ b[i + 1] = MpuConfig(f, 1)

(* A function reads its caller's region out of region 1 before it puts its *)
(* own there, although the pass that inserts the reads runs second.        *)
CallerReadFirst ==
  pass \in {"measure", "set", "done"} =>
    \A f \in Name : (~ConnectSkips(f) /\ source[f] # <<>>) =>
      LET b == body[f][1]
      IN  \A i \in DOMAIN b : (IsConfig(b[i]) /\ b[i].num = 1) =>
            \E j \in 1 .. i - 2 : b[j] = ReadAddr /\ b[j + 1] = ReadSize

(* Together the passes compute Image, whatever the shape of the module.    *)
ImageReached == pass = "done" => body = Image(source)

(* A module the passes cannot protect is not built: one with a function    *)
(* that has no code, or with a call through a pointer in code of its own.  *)
OnlyCoveredIsBuilt ==
  pass = "done" =>
    \A f \in Name \ Helper :
      /\ source[f] # <<>>
      /\ \A k \in DOMAIN source[f] : ~Contains(source[f][k], Indirect)

(* The passes end, though the blocks grow under their iterators.           *)
Terminates == <>(pass \in {"done", "stopped"})
=============================================================================
