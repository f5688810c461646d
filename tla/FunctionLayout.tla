--------------------------- MODULE FunctionLayout ---------------------------
(***************************************************************************)
(* Where the functions and their regions end up: function_size.py measures *)
(* the functions in a listing of objdump, gives each a region and writes   *)
(* the linker script, Set_Operand encodes the sizes of the regions, and    *)
(* the linker places the functions by the script.                          *)
(*                                                                         *)
(* The listing shows each function as a number of instructions and literal *)
(* words of two or four bytes.  The measuring looks at the last two only,  *)
(* so that is all there is of them here.                                   *)
(***************************************************************************)
EXTENDS Integers, SequencesExt, FiniteSetsExt

CONSTANTS
  Names,       \* function.txt
  Listings     \* the listings of objdump: [name, before, prev, last], where
               \*   before  the bytes in front of the last item
               \*   prev    the width of the item in front of the last
               \*   last    the width of the last item

list_num == Len(Names)

Base == 134234112                  \* 0x08004000, CODE_start

(* The sizes of regions that divide Base, from the 32 bytes that the       *)
(* doublings of region_size start with.                                    *)
RegionSizes == {32, 64, 128, 256, 512, 1024, 2048, 4096, 8192, 16384}
Largest == 16384

(* A module has every function once, and one at least.                     *)
ASSUME NamesAssumption ==
  /\ Names \in Seq(STRING) /\ list_num > 0
  /\ \A j, k \in 1 .. list_num : Names[j] = Names[k] => j = k

(* No function is measured larger than the largest region that Base can be *)
(* the start of.                                                           *)
ASSUME ListingAssumption ==
  \A l \in Listings : \A i \in DOMAIN l :
    /\ {l[i].prev, l[i].last} \subseteq {2, 4}
    /\ l[i].before \in Nat /\ l[i].before >= l[i].prev
    /\ l[i].before + 2 <= Largest

VARIABLES
  listing,     \* output_opt4.txt
  section,     \* the number of the section .f1, .f2, ... that the source of
               \* the program gives a function other than main
  funcs,       \* the list of Func objects
  pc,          \* "measure", "allocate", "link", "done" or "stopped"
  i,           \* the loop variable, from 1
  dot,         \* the linker's location counter in the section .function
  address      \* where the linker has put the functions it has come to

vars == <<listing, section, funcs, pc, i, dot, address>>

(* The function's place in the listing, which has it at most once; 0 if it *)
(* has none.                                                               *)
ListedAs(f) ==
  LET places == {k \in DOMAIN listing : listing[k].name = f}
  IN  IF places = {} THEN 0 ELSE CHOOSE k \in places : TRUE

(* What the linker sees of a function.                                     *)
CodeSize(f) == LET x == listing[ListedAs(f)] IN x.before + x.last

(* end_addr - start_addr + 2: end_addr is the address of the last item,    *)
(* but of the one in front of it in the function that ends the file, since *)
(* no empty line follows that one.                                         *)
Measured(f) ==
  LET x == listing[ListedAs(f)]
  IN  IF ListedAs(f) = Len(listing) THEN x.before - x.prev + 2
                                    ELSE x.before + 2

(* Mistake: the smallest region is a cache line of 16 bytes.               *)
SmallRegionSizeOf(size) ==
  CHOOSE r \in RegionSizes \cup {16} :
    r >= size /\ \A q \in RegionSizes \cup {16} : q >= size => r <= q

(* region_size: 32, doubled while it is smaller than size.                 *)
RegionSizeOf(size) ==
  CHOOSE r \in RegionSizes :
    r >= size /\ \A q \in RegionSizes : q >= size => r <= q

(* Mistake: the doublings are counted from the encoding of 16.             *)
ToSizeFromThree(size) ==
  3 + (CHOOSE n \in 0 .. 20 : 32 * 2 ^ n >= size
                              /\ \A m \in 0 .. n - 1 : 32 * 2 ^ m < size)

(* to_size: 0b00100 for 32 bytes, one more for every doubling; what is no  *)
(* size of a region is reported and encoded as 32.                         *)
ToSize(size) ==
  IF size >= 32 /\ size % 32 = 0
    THEN 4 + (CHOOSE n \in 0 .. 20 : 32 * 2 ^ n >= size
                                     /\ \A m \in 0 .. n - 1 : 32 * 2 ^ m < size)
    ELSE 4

(* Mistake: the list is sorted without reverse.                            *)
SortsAfter(s, p, j, k) ==
  \/ s[p[j]].function_size < s[p[k]].function_size
  \/ s[p[j]].function_size = s[p[k]].function_size /\ p[j] < p[k]

(* sorted(..., reverse=True) keeps the order of equal elements: p takes    *)
(* the places of the sorted list to those of s.                            *)
SortsBefore(s, p, j, k) ==
  \/ s[p[j]].function_size > s[p[k]].function_size
  \/ s[p[j]].function_size = s[p[k]].function_size /\ p[j] < p[k]

-----------------------------------------------------------------------------
Func(f) ==
  [name |-> f, function_size |-> 0, region_start |-> 0, region_size |-> 0]

Others == ToSet(Names) \ {"main"}

Init ==
  /\ listing \in Listings
  /\ section \in Bijection(Others, 1 .. Cardinality(Others))
  /\ funcs = [k \in 1 .. list_num |-> Func(Names[k])]
  /\ pc = "measure"
  /\ i = 1
  /\ dot = Base
  /\ address = [f \in {} |-> 0]

MeasureFunction ==
  /\ pc = "measure" /\ i <= list_num
  /\ ListedAs(funcs[i].name) # 0
  /\ funcs' = [funcs EXCEPT ![i].function_size = Measured(funcs[i].name)]
  /\ i' = i + 1
  /\ UNCHANGED <<listing, section, pc, dot, address>>

(* The lines of a function that is not in the listing are none: lines[0]   *)
(* raises IndexError.                                                      *)
MeasureNothing ==
  /\ pc = "measure" /\ i <= list_num
  /\ ListedAs(funcs[i].name) = 0
  /\ pc' = "stopped"
  /\ UNCHANGED <<listing, section, funcs, i, dot, address>>

Sort ==
  /\ pc = "measure" /\ i > list_num
  /\ \E p \in Bijection(1 .. list_num, 1 .. list_num) :
       /\ \A j, k \in 1 .. list_num : j < k => SortsBefore(funcs, p, j, k)
       /\ funcs' = [k \in 1 .. list_num |->
                      [funcs[p[k]] EXCEPT !.region_start =
                         IF k = 1 THEN Base ELSE @]]
  /\ pc' = "allocate"
  /\ i' = 1
  /\ UNCHANGED <<listing, section, dot, address>>

(* Mistake: the next region starts where the function ends.                *)
AllocatePacked ==
  /\ pc = "allocate" /\ i <= list_num
  /\ LET size == RegionSizeOf(funcs[i].function_size)
         next == funcs[i].region_start + funcs[i].function_size
         s    == [funcs EXCEPT ![i].region_size = size]
     IN  funcs' = IF i < list_num
                    THEN [s EXCEPT ![i + 1].region_start = next] ELSE s
  /\ i' = i + 1
  /\ UNCHANGED <<listing, section, pc, dot, address>>

Allocate ==
  /\ pc = "allocate" /\ i <= list_num
  /\ LET size == RegionSizeOf(funcs[i].function_size)
         next == funcs[i].region_start + size
         s    == [funcs EXCEPT ![i].region_size = size]
     IN  funcs' = IF i < list_num
                    THEN [s EXCEPT ![i + 1].region_start = next] ELSE s
  /\ i' = i + 1
  /\ UNCHANGED <<listing, section, pc, dot, address>>

WriteScript ==
  /\ pc = "allocate" /\ i > list_num
  /\ pc' = "link"
  /\ i' = 1
  /\ UNCHANGED <<listing, section, funcs, dot, address>>

(* Mistake: the numbers of the sections leave one out for main.            *)
SectionOfRank(k) == k

(* The k-th line of the script names the sections .text.* where the k-th   *)
(* function is main, and .f1, .f2, ... in turn where it is not.            *)
SectionLine(k) ==
  IF \E j \in 1 .. k - 1 : funcs[j].name = "main" THEN k - 1 ELSE k

PlacedBy(k) ==
  IF funcs[k].name = "main"
    THEN {"main"}
    ELSE {f \in Others : section[f] = SectionLine(k)}

AlignUp(a, n) == a + ((n - (a % n)) % n)

(* ld: *(section), . = ALIGN(region_size).  A section is one function's,   *)
(* and there may be none of that number.                                   *)
Link ==
  /\ pc = "link" /\ i <= list_num
  /\ LET placed == PlacedBy(i)
         end    == IF placed = {} THEN dot
                     ELSE dot + CodeSize(CHOOSE f \in placed : TRUE)
     IN  /\ address' = [f \in DOMAIN address \cup placed |->
                          IF f \in placed THEN dot ELSE address[f]]
         /\ dot' = AlignUp(end, funcs[i].region_size)
  /\ i' = i + 1
  /\ UNCHANGED <<listing, section, funcs, pc>>

LinkEnd ==
  /\ pc = "link" /\ i > list_num
  /\ pc' = "done"
  /\ UNCHANGED <<listing, section, funcs, i, dot, address>>

Finished ==
  /\ pc \in {"done", "stopped"}
  /\ UNCHANGED vars

Next ==
  \/ MeasureFunction
  \/ MeasureNothing
  \/ Sort
  \/ Allocate
  \/ WriteScript
  \/ Link
  \/ LinkEnd
  \/ Finished

Spec == Init /\ [][Next]_vars
-----------------------------------------------------------------------------
(* The functions whose regions have been allocated.                        *)
Allocated ==
  CASE pc = "allocate"          -> 1 .. i - 1
    [] pc \in {"link", "done"}  -> 1 .. list_num
    [] OTHER                    -> {}

Bytes(start, size) == start .. start + size - 1

FuncType ==
  [name : ToSet(Names), function_size : 0 .. Largest,
   region_start : Nat, region_size : {0} \cup RegionSizes]

TypeOK ==
  /\ listing \in Listings
  /\ section \in Bijection(Others, 1 .. Cardinality(Others))
  /\ funcs \in [1 .. list_num -> FuncType]
  /\ pc \in {"measure", "allocate", "link", "done", "stopped"}
  /\ i \in 1 .. list_num + 1
  /\ dot \in Nat
  /\ DOMAIN address \subseteq ToSet(Names)

(* The protection unit ignores the bits of a base below the region's size: *)
(* every region is aligned to its size, which is only so because the       *)
(* functions come in descending order.                                     *)
RegionsAligned ==
  \A k \in Allocated : funcs[k].region_start % funcs[k].region_size = 0

(* No byte is in the regions of two functions.                             *)
RegionsDisjoint ==
  \A j, k \in Allocated :
    j < k => funcs[j].region_start + funcs[j].region_size
               <= funcs[k].region_start

(* The size that Set_Operand encodes is the one function_size.py chose:    *)
(* the unit makes 2^(SIZE+1) bytes of it.                                  *)
SizesEncoded ==
  \A k \in Allocated : 2 ^ (ToSize(funcs[k].region_size) + 1) = funcs[k].region_size

(* Every function fits into the region it was given.                       *)
FunctionsFit ==
  \A k \in Allocated : CodeSize(funcs[k].name) <= funcs[k].region_size

(* The sections of the source are numbered in the order of the sizes.      *)
SectionsInOrder ==
  \A k \in 1 .. list_num :
    funcs[k].name # "main" =>
      section[funcs[k].name] =
        Cardinality({j \in 1 .. k : funcs[j].name # "main"})

(* The linker puts every function at the start of its region, wherever     *)
(* main is in the order: the addresses in Link_addr.txt and those that     *)
(* tmp.ld leads to are computed apart.                                     *)
LinkedAtRegion ==
  (pc = "done" /\ FunctionsFit /\ SectionsInOrder) =>
    \A k \in 1 .. list_num :
      /\ funcs[k].name \in DOMAIN address
      /\ address[funcs[k].name] = funcs[k].region_start
=============================================================================
