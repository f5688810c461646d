---------------------------- MODULE BlockLayout ----------------------------
(***************************************************************************)
(* The older pipeline (Startup/Makefile), with a region per basic block:   *)
(* BB_label numbers the blocks, BB_check1.py measures them in the listing, *)
(* Addr_info.py computes their addresses, and Insert_Nop pads each to the  *)
(* size of a region.  expect_BB.py and BB_check2.py, which hand the table  *)
(* of sizes on, are not in the repository; here the table stays as it is.  *)
(*                                                                         *)
(* A block of the module is what objdump lists for it: the bytes in front  *)
(* of its last instruction and the form of that one.                       *)
(***************************************************************************)
EXTENDS Integers, SequencesExt, FiniteSetsExt, Folds

CONSTANTS
  Order,      \* the functions, in the order of the module and of function.txt
  Listings    \* for every function a sequence of blocks [before, last]

Names == ToSet(Order)

Base   == 134234112                \* 0x08004000, function_start
Region == 128

(* The forms of a last instruction:                                        *)
(*   "short"  b.n, bx or pop, of two bytes                                 *)
(*   "wide"   b.w, of four bytes                                           *)
(*   "falls"  any other of two bytes: the block goes on into the next one, *)
(*            or ends with a conditional branch                            *)
(*   "bare"   the same, listed without operands                            *)
Form  == {"short", "wide", "falls", "bare"}
Width(form) == IF form = "wide" THEN 4 ELSE 2

(* What is listed are Thumb instructions, of two bytes or four.            *)
ListedBlock == [before : {n \in Nat : n % 2 = 0}, last : Form]

(* What the constants are.                                                 *)
Listed ==
  /\ Order \in Seq(Names) /\ Order # <<>>
  /\ \A m, n \in DOMAIN Order : Order[m] = Order[n] => m = n
  /\ Listings \subseteq [Names -> Seq(ListedBlock)]

VARIABLES
  code,       \* the listing
  pc,         \* "label", "measure", "address", "nop", "done" or "stopped"
  i,          \* the loop variable: an index of Order, or of Funcs
  label,      \* the numbers in the names of every function's blocks
  sizes,      \* BB_size.txt: a sequence of sizes for every function
  start,      \* Addr_info.py: start_addr of every function,
  addrs,      \*   and its BB_addr
  b,          \* the block iterator of Insert_Nop
  nops        \* the stores inserted into every block

vars == <<code, pc, i, label, sizes, start, addrs, b, nops>>

SumOf(s) == FoldLeft(+, 0, s)
GoOn(p) == pc' = p /\ i' = 1 /\ b' = 1
Stop     == pc' = "stopped"
              /\ UNCHANGED <<code, i, label, sizes, start, addrs, b, nops>>

BlockSize(x) == x.before + Width(x.last)

Init ==
  /\ code \in Listings
  /\ pc = "label"
  /\ i = 1 /\ b = 1
  /\ label = [f \in Names |-> <<>>]
  /\ sizes = [f \in Names |-> <<>>]
  /\ start = [f \in Names |-> 0]
  /\ addrs = [f \in Names |-> <<>>]
  /\ nops = [f \in Names |-> <<>>]
-----------------------------------------------------------------------------
LabelFunction ==
  /\ pc = "label" /\ i <= Len(Order)
  /\ label' = [label EXCEPT ![Order[i]] = [k \in DOMAIN code[Order[i]] |-> k]]
  /\ i' = i + 1
  /\ UNCHANGED <<code, pc, sizes, start, addrs, b, nops>>

Labelled ==
  /\ pc = "label" /\ i > Len(Order)
  /\ GoOn("measure")
  /\ UNCHANGED <<code, label, sizes, start, addrs, nops>>
-----------------------------------------------------------------------------
(* The blocks after which BB_check1.py takes a block to end.               *)
Ends(f) ==
  FlattenSeq([k \in DOMAIN code[f] |->
                IF code[f][k].last \in {"short", "wide"} THEN <<k>> ELSE <<>>])

(* end_addr - start_addr + 2, from the first line behind the last end to   *)
(* the line of this one.                                                   *)
Measured(f) ==
  [n \in DOMAIN Ends(f) |->
     LET to   == Ends(f)[n]
         from == IF n = 1 THEN 1 ELSE Ends(f)[n - 1] + 1
     IN  SumOf([k \in 1 .. to - from |-> BlockSize(code[f][from + k - 1])])
           + code[f][to].before + 2]

MeasureFunction ==
  /\ pc = "measure" /\ i <= Len(Order)
  /\ \A k \in DOMAIN code[Order[i]] : code[Order[i]][k].last # "bare"
  /\ sizes' = [sizes EXCEPT ![Order[i]] = Measured(Order[i])]
  /\ i' = i + 1
  /\ UNCHANGED <<code, pc, label, start, addrs, b, nops>>

(* A line without operands has no tmp[2].                                  *)
MeasureBare ==
  /\ pc = "measure" /\ i <= Len(Order)
  /\ \E k \in DOMAIN code[Order[i]] : code[Order[i]][k].last = "bare"
  /\ Stop

(* Addr_info.py is run by hand or not at all.                              *)
MeasureDone ==
  /\ pc = "measure" /\ i > Len(Order)
  /\ \E p \in {"address", "nop"} : GoOn(p)
  /\ start' = [start EXCEPT ![Order[1]] = Base]
  /\ UNCHANGED <<code, label, sizes, addrs, nops>>
-----------------------------------------------------------------------------
(* Funcs of Addr_info.py: the loop that reads the records turns once more  *)
(* behind the last one and appends the same object again.                  *)
Funcs == Append(Order, Last(Order))

Before(f, k) == SumOf(SubSeq(sizes[f], 1, k - 1))

(* Mistake: the second turn over the last object starts its list again.    *)
AddressFresh ==
  /\ pc = "address" /\ i <= Len(Funcs)
  /\ LET f == Funcs[i]
     IN  /\ sizes[f] # <<>>
         /\ addrs' = [addrs EXCEPT ![f] =
              [k \in DOMAIN sizes[f] |-> start[f] + Before(f, k)]]
         /\ start' = IF i < Len(Funcs)
                       THEN [start EXCEPT ![Funcs[i + 1]] =
                               start[f] + SumOf(sizes[f])]
                       ELSE start
  /\ i' = i + 1
  /\ UNCHANGED <<code, pc, label, sizes, b, nops>>

(* BB_addr is appended to and read from its beginning; start_addr of the   *)
(* next object may be that of this one.                                    *)
AddressFunction ==
  /\ pc = "address" /\ i <= Len(Funcs)
  /\ LET f     == Funcs[i]
         first == IF addrs[f] = <<>> THEN start[f] ELSE addrs[f][1]
     IN  /\ sizes[f] # <<>>
         /\ addrs' = [addrs EXCEPT ![f] = @ \o <<start[f]>> \o
              [k \in 1 .. Len(sizes[f]) - 1 |-> first + Before(f, k + 1)]]
         /\ start' = IF i < Len(Funcs)
                       THEN [start EXCEPT ![Funcs[i + 1]] =
                               first + SumOf(sizes[f])]
                       ELSE start
  /\ i' = i + 1
  /\ UNCHANGED <<code, pc, label, sizes, b, nops>>

(* BB_size[-1] of a function without blocks.                               *)
AddressEmpty ==
  /\ pc = "address" /\ i <= Len(Funcs)
  /\ sizes[Funcs[i]] = <<>>
  /\ Stop

Addressed ==
  /\ pc = "address" /\ i > Len(Funcs)
  /\ GoOn("nop")
  /\ UNCHANGED <<code, label, sizes, start, addrs, nops>>
-----------------------------------------------------------------------------
(* The corrections of the first blocks of seven functions, as committed.   *)
Correction == <<2, -4, -4, 2, 0, -4, -4>>

Need(n, k) ==
  Region - sizes[Order[n]][k]
    + (IF k = 1 /\ n <= 7 THEN Correction[n] ELSE 0)

(* fill_nop: stores of two bytes while there is need.                      *)
Stores(need) == IF need > 0 THEN (need + 1) \div 2 ELSE 0

(* The table must have the seven functions, with a block each.             *)
TableLargeEnough == Len(Order) >= 7 /\ \A n \in {1, 2, 3, 4, 6, 7} :
                                         sizes[Order[n]] # <<>>

InNop == pc = "nop" /\ TableLargeEnough /\ i <= Len(Order)

(* Behind the end of BB_need_size: whatever is there.                      *)
Junk == {0, 3}

Nops(n) == nops' = [nops EXCEPT ![Order[i]] = Append(@, n)]

(* Mistake: the number in the label is taken as an index from zero.        *)
PadShifted(num) ==
  IF num + 1 \in DOMAIN sizes[Order[i]]
    THEN Nops(Stores(Need(i, num + 1) - 2))
    ELSE \E n \in Junk : Nops(n)

(* By the size that stands num-th in the table, for the block of that      *)
(* number.                                                                 *)
Pad(num) ==
  IF num \in DOMAIN sizes[Order[i]]
    THEN Nops(Stores(Need(i, num) - 2))
    ELSE \E n \in Junk : Nops(n)

NopBlock ==
  /\ InNop /\ b <= Len(code[Order[i]])
  /\ Pad(label[Order[i]][b])
  /\ b' = b + 1
  /\ UNCHANGED <<code, pc, i, label, sizes, start, addrs>>

(* A, which the stores write to, is declared inside the loop over the      *)
(* blocks and assigned in block 1 only: elsewhere it may be no instruction *)
(* of the function.                                                        *)
NopUninitialised ==
  /\ InNop /\ b \in 2 .. Len(code[Order[i]])
  /\ Stop

NopLeave ==
  /\ InNop /\ b > Len(code[Order[i]])
  /\ i' = i + 1 /\ b' = 1
  /\ UNCHANGED <<code, pc, label, sizes, start, addrs, nops>>

NopTableTooSmall ==
  /\ pc = "nop" /\ ~TableLargeEnough
  /\ Stop

Done ==
  /\ pc = "nop" /\ TableLargeEnough /\ i > Len(Order)
  /\ GoOn("done")
  /\ UNCHANGED <<code, label, sizes, start, addrs, nops>>

Finished == pc \in {"done", "stopped"} /\ UNCHANGED vars

Next ==
  \/ LabelFunction
  \/ Labelled
  \/ MeasureFunction
  \/ MeasureBare
  \/ MeasureDone
  \/ AddressFunction
  \/ AddressEmpty
  \/ Addressed
  \/ NopBlock
  \/ NopUninitialised
  \/ NopLeave
  \/ NopTableTooSmall
  \/ Done
  \/ Finished

Spec == Init /\ [][Next]_vars
-----------------------------------------------------------------------------
TypeOK ==
  /\ code \in Listings
  /\ pc \in {"label", "measure", "address", "nop", "done", "stopped"}
  /\ i \in 1 .. Len(Order) + 2
  /\ DOMAIN sizes = Names
  /\ \A f \in Names :
       /\ Len(sizes[f]) <= Len(code[f]) /\ Len(nops[f]) <= Len(code[f])
       /\ addrs[f] # <<>> => Len(addrs[f]) >= Len(sizes[f])

(* Where a block of the listing is if the functions follow each other.     *)
CodeSize(f) == SumOf([k \in DOMAIN code[f] |-> BlockSize(code[f][k])])
TrueAddress(f, k) ==
  Base + SumOf([n \in 1 .. SelectInSeq(Order, LAMBDA g : g = f) - 1 |->
                  CodeSize(Order[n])])
       + SumOf([n \in 1 .. k - 1 |-> BlockSize(code[f][n])])

(* The code ends every block with an instruction that BB_check1.py knows   *)
(* and measures as two bytes, or falls through inside a function.          *)
Measurable(f) ==
  /\ Last(code[f]).last = "short"
  /\ \A k \in DOMAIN code[f] : code[f][k].last \in {"short", "falls"}

(* Addr_info.py gives every measured block the address it has, the last    *)
(* function's as well, whose record it reads and computes twice.           *)
AddressesExact ==
  ( /\ pc \in {"nop", "done"}
    /\ \A f \in Names : Measurable(f) /\ addrs[f] # <<>> ) =>
    \A f \in Names : \A n \in DOMAIN sizes[f] :
      addrs[f][n] = TrueAddress(f, IF n = 1 THEN 1 ELSE Ends(f)[n - 1] + 1)

(* llc: the stores of a block and one instruction for the zero they store. *)
PaddedSize(f, k) ==
  BlockSize(code[f][k]) +
    (IF nops[f][k] = 0 THEN 0 ELSE 2 + 2 * nops[f][k])

(* A block that leaves room for two instructions fills a region exactly    *)
(* after the padding, so that the blocks behind the first of a function    *)
(* lie one region apart; the first one is corrected by hand.               *)
PaddedToRegion ==
  pc = "done" =>
    \A f \in Names : \A k \in 2 .. Len(code[f]) :
      ( /\ \A n \in DOMAIN code[f] : code[f][n].last = "short"
        /\ BlockSize(code[f][k]) \in 2 .. Region - 4 ) =>
          PaddedSize(f, k) = Region
=============================================================================
