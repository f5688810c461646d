------------------------ MODULE FunctionLayoutProofs ------------------------
(***************************************************************************)
(* What FunctionLayout's run checks for three functions, for any number of *)
(* them and any listing, and the invariant it rests on.                    *)
(***************************************************************************)
EXTENDS FunctionLayout, FiniteSetTheorems, TLAPS

Index == 1 .. list_num

RegionOf(k) == RegionSizeOf(funcs[k].function_size)

(* The functions that have their region_start.                             *)
Reached == {k \in Index : pc = "allocate" => k <= i}

(* Every function is one of the objects, no two are one, and those that    *)
(* were measured are in the listing.                                       *)
Named ==
  /\ \A j, k \in Index : funcs[j].name = funcs[k].name => j = k
  /\ \A f \in ToSet(Names) : \E k \in Index : funcs[k].name = f
  /\ pc # "stopped" =>
       \A k \in Index : (pc = "measure" => k < i) =>
                           ListedAs(funcs[k].name) # 0

(* The regions behind the sort, which are as large or smaller one by one,  *)
(* lie one behind the other.                                               *)
Laid ==
  pc \in {"allocate", "link", "done"} =>
    /\ funcs[1].region_start = Base
    /\ \A j, k \in Index :
         j < k => funcs[j].function_size >= funcs[k].function_size
    /\ \A k \in Allocated : funcs[k].region_size = RegionOf(k)
    /\ \A k \in Reached : funcs[k].region_start % RegionOf(k) = 0
    /\ \A j \in Allocated, k \in Reached :
         j < k => funcs[j].region_start + RegionOf(j) <= funcs[k].region_start
    /\ \A k \in Allocated :
         k < list_num => funcs[k + 1].region_start
                           = funcs[k].region_start + RegionOf(k)

(* The linker stands where the next region starts.                         *)
Linked ==
  /\ pc \in {"measure", "allocate"} => dot = Base
  /\ pc = "done" => i = list_num + 1
  /\ (pc \in {"link", "done"} /\ FunctionsFit /\ SectionsInOrder) =>
       /\ i <= list_num => dot = funcs[i].region_start
       /\ \A k \in Index : k < i =>
            /\ funcs[k].name \in DOMAIN address
            /\ address[funcs[k].name] = funcs[k].region_start

IInv == TypeOK /\ Named /\ Laid /\ Linked

-----------------------------------------------------------------------------
LEMMA LargestIsNat == Largest \in Nat
BY SMT DEF Largest

(* region_size gives a size of a region that is large enough, and a larger *)
(* function one that a smaller function's region divides.                  *)
LEMMA RegionSizeIsLargeEnough ==
  ASSUME NEW size \in 0 .. Largest
  PROVE  /\ RegionSizeOf(size) \in RegionSizes
         /\ RegionSizeOf(size) >= size
         /\ \A q \in RegionSizes : q >= size => RegionSizeOf(size) <= q
<1>1. \E r \in RegionSizes :
        r >= size /\ \A q \in RegionSizes : q >= size => r <= q
  BY SMT DEF RegionSizes, Largest
<1> QED
  BY <1>1 DEF RegionSizeOf

LEMMA RegionSizesDivide ==
  ASSUME NEW m \in RegionSizes, NEW n \in RegionSizes, n <= m,
         NEW a \in Nat, a % m = 0
  PROVE  (a + m) % n = 0
<1>1. m > 0 /\ n > 0 /\ m % n = 0
  BY DEF RegionSizes
<1> QED
  BY <1>1 DEF RegionSizes

LEMMA LargerFunctionLargerRegion ==
  ASSUME NEW s \in 0 .. Largest, NEW t \in 0 .. Largest, t <= s
  PROVE  RegionSizeOf(t) <= RegionSizeOf(s)
<1>1. RegionSizeOf(s) \in RegionSizes /\ RegionSizeOf(s) >= s
  BY RegionSizeIsLargeEnough
<1>2. RegionSizeOf(s) >= t
  BY <1>1, SMT DEF RegionSizes, Largest
<1> QED
  BY <1>1, <1>2, RegionSizeIsLargeEnough

LEMMA BaseIsAligned ==
  Base \in Nat /\ \A r \in RegionSizes : Base % r = 0
BY SMT DEF RegionSizes, Base

(* What ALIGN leaves behind code that fills a region in part.              *)
LEMMA AlignUpIsNat ==
  ASSUME NEW r \in RegionSizes, NEW a \in Nat PROVE AlignUp(a, r) \in Nat
BY DEF RegionSizes, AlignUp

LEMMA AlignUpEndsRegion ==
  ASSUME NEW r \in RegionSizes, NEW a \in Nat, a % r = 0, NEW c \in 1 .. r
  PROVE  AlignUp(a + c, r) = a + r
BY DEF RegionSizes, AlignUp

-----------------------------------------------------------------------------
(* The powers of two up to the largest region, and that all are numbers.   *)
LEMMA Powers ==
  /\ 2 ^ 0 = 1 /\ 2 ^ 1 = 2 /\ 2 ^ 2 = 4 /\ 2 ^ 3 = 8 /\ 2 ^ 4 = 16 /\ 2 ^ 5 = 32
  /\ 2 ^ 6 = 64 /\ 2 ^ 7 = 128 /\ 2 ^ 8 = 256 /\ 2 ^ 9 = 512 /\ 2 ^ 10 = 1024
  /\ 2 ^ 11 = 2048 /\ 2 ^ 12 = 4096 /\ 2 ^ 13 = 8192 /\ 2 ^ 14 = 16384
OBVIOUS

LEMMA PowerIsNat ==
  ASSUME NEW n \in 0 .. 20 PROVE 2 ^ n \in Nat
<1>1. /\ 2 ^ 0 \in Nat /\ 2 ^ 1 \in Nat /\ 2 ^ 2 \in Nat /\ 2 ^ 3 \in Nat /\ 2 ^ 4 \in Nat
      /\ 2 ^ 5 \in Nat /\ 2 ^ 6 \in Nat /\ 2 ^ 7 \in Nat /\ 2 ^ 8 \in Nat /\ 2 ^ 9 \in Nat
      /\ 2 ^ 10 \in Nat /\ 2 ^ 11 \in Nat /\ 2 ^ 12 \in Nat /\ 2 ^ 13 \in Nat /\ 2 ^ 14 \in Nat
      /\ 2 ^ 15 \in Nat /\ 2 ^ 16 \in Nat /\ 2 ^ 17 \in Nat /\ 2 ^ 18 \in Nat /\ 2 ^ 19 \in Nat
      /\ 2 ^ 20 \in Nat
  OBVIOUS
<1>2. \/ n = 0 \/ n = 1 \/ n = 2 \/ n = 3 \/ n = 4 \/ n = 5 \/ n = 6
      \/ n = 7 \/ n = 8 \/ n = 9 \/ n = 10 \/ n = 11 \/ n = 12 \/ n = 13
      \/ n = 14 \/ n = 15 \/ n = 16 \/ n = 17 \/ n = 18 \/ n = 19 \/ n = 20
  OBVIOUS
<1> QED BY <1>1, <1>2

(* to_size's loop turns n times for a region of r bytes.                   *)
Turns(n, r) == 32 * 2 ^ n >= r /\ \A m \in 0 .. n - 1 : 32 * 2 ^ m < r

(* It turns until the size is reached, and not once more.                  *)
LEMMA TurnsUnique ==
  ASSUME NEW r \in Nat, NEW m \in 0 .. 20, NEW n \in 0 .. 20, Turns(m, r), Turns(n, r)
  PROVE  m = n
<1>1. ASSUME NEW j \in 0 .. 20, NEW k \in 0 .. 20, Turns(j, r), Turns(k, r), j < k
      PROVE  FALSE
  <2>1. j \in 0 .. k - 1
    BY <1>1
  <2>2. 32 * 2 ^ j < r /\ 32 * 2 ^ j >= r
    BY <1>1, <2>1 DEF Turns
  <2>3. 2 ^ j \in Nat
    BY PowerIsNat
  <2> QED BY <2>2, <2>3
<1> QED BY <1>1

(* Every size of a region is reached exactly, and its encoding is what the *)
(* unit reads it as.                                                       *)
LEMMA RegionIsDoubled ==
  ASSUME NEW r \in RegionSizes
  PROVE  \E k \in 0 .. 9 : Turns(k, r) /\ 2 ^ (4 + k + 1) = r
<1> DEFINE D(k) == Turns(k, r) /\ 2 ^ (4 + k + 1) = r
<1>1. CASE r = 32
  <2>1. D(0)
    BY <1>1, Powers DEF Turns
  <2> QED BY <2>1
<1>2. CASE r = 64
  <2>1. D(1)
    BY <1>2, Powers DEF Turns
  <2> QED BY <2>1
<1>3. CASE r = 128
  <2>1. D(2)
    BY <1>3, Powers DEF Turns
  <2> QED BY <2>1
<1>4. CASE r = 256
  <2>1. D(3)
    BY <1>4, Powers DEF Turns
  <2> QED BY <2>1
<1>5. CASE r = 512
  <2>1. D(4)
    BY <1>5, Powers DEF Turns
  <2> QED BY <2>1
<1>6. CASE r = 1024
  <2>1. D(5)
    BY <1>6, Powers DEF Turns
  <2> QED BY <2>1
<1>7. CASE r = 2048
  <2>1. D(6)
    BY <1>7, Powers DEF Turns
  <2> QED BY <2>1
<1>8. CASE r = 4096
  <2>1. D(7)
    BY <1>8, Powers DEF Turns
  <2> QED BY <2>1
<1>9. CASE r = 8192
  <2>1. D(8)
    BY <1>9, Powers DEF Turns
  <2> QED BY <2>1
<1>10. CASE r = 16384
  <2>1. D(9)
    BY <1>10, Powers DEF Turns
  <2> QED BY <2>1
<1> QED
  BY <1>1, <1>2, <1>3, <1>4, <1>5, <1>6, <1>7, <1>8, <1>9, <1>10 DEF RegionSizes

LEMMA Encodes ==
  ASSUME NEW r \in RegionSizes
  PROVE  2 ^ (ToSize(r) + 1) = r
<1>1. PICK k \in 0 .. 9 : Turns(k, r) /\ 2 ^ (4 + k + 1) = r
  BY RegionIsDoubled
<1> DEFINE c == CHOOSE n \in 0 .. 20 : Turns(n, r)
<1>2. k \in 0 .. 20 /\ r \in Nat /\ r >= 32 /\ r % 32 = 0
  BY <1>1 DEF RegionSizes
<1>3. c \in 0 .. 20 /\ Turns(c, r)
  BY <1>1, <1>2
<1>4. ToSize(r) = 4 + c
  BY <1>2 DEF ToSize, Turns
<1>5. c = k
  BY <1>1, <1>2, <1>3, TurnsUnique
<1> HIDE DEF c
<1> QED BY <1>1, <1>4, <1>5

-----------------------------------------------------------------------------
(* A function that is listed has a size that is measured.                  *)
LEMMA ListedIsItem ==
  ASSUME listing \in Listings, NEW f, ListedAs(f) # 0
  PROVE  /\ ListedAs(f) \in DOMAIN listing
         /\ CodeSize(f) \in Nat /\ CodeSize(f) > 0
         /\ Measured(f) \in 0 .. Largest
<1> DEFINE places == {k \in DOMAIN listing : listing[k].name = f}
           x      == listing[ListedAs(f)]
<1>1. places # {} /\ ListedAs(f) = CHOOSE k \in places : TRUE
  BY DEF ListedAs
<1>2. ListedAs(f) \in places
  BY <1>1
<1>3. ListedAs(f) \in DOMAIN listing
  BY <1>2
<1>4. /\ x.prev \in {2, 4} /\ x.last \in {2, 4}
      /\ x.before \in Nat /\ x.before >= x.prev /\ x.before + 2 <= Largest
  BY <1>3, ListingAssumption
<1>5. CodeSize(f) \in Nat /\ CodeSize(f) > 0
  BY <1>4 DEF CodeSize
<1>6. Measured(f) = x.before - x.prev + 2 \/ Measured(f) = x.before + 2
  BY DEF Measured
<1>7. Measured(f) \in 0 .. Largest
  BY <1>4, <1>6, LargestIsNat
<1> QED
  BY <1>3, <1>5, <1>7

-----------------------------------------------------------------------------
LEMMA InitEstablishes == Init => IInv
<1> SUFFICES ASSUME Init PROVE IInv
  OBVIOUS
<1> USE NamesAssumption
<1>0. list_num \in Nat /\ list_num > 0
  BY DEF list_num
<1>1. \A k \in Index : Names[k] \in ToSet(Names)
  BY DEF Index, list_num, ToSet
<1>2. TypeOK
  <2>1. funcs \in [1 .. list_num -> FuncType]
    BY <1>0, <1>1, LargestIsNat DEF Init, Func, FuncType, Index
  <2> QED
    BY <1>0, <2>1, BaseIsAligned DEF Init, TypeOK
<1>3. Named
  BY <1>0 DEF Init, Named, Func, Index, ToSet, list_num
<1>4. Laid /\ Linked
  BY DEF Init, Laid, Linked
<1> QED
  BY <1>2, <1>3, <1>4 DEF IInv

(* TypeOK and NamesAssumption taken apart.                                 *)
LEMMA Types ==
  ASSUME TypeOK
  PROVE  /\ list_num \in Nat /\ list_num > 0
         /\ \A k \in Index :
              /\ funcs[k].name \in ToSet(Names)
              /\ funcs[k].function_size \in 0 .. Largest
              /\ funcs[k].region_start \in Nat
              /\ funcs[k].region_size \in {0} \cup RegionSizes
              /\ RegionOf(k) \in RegionSizes /\ RegionOf(k) \in Nat
         /\ i \in 1 .. list_num + 1
<1>1. list_num \in Nat /\ list_num > 0
  BY NamesAssumption DEF list_num
<1>2. \A k \in Index : funcs[k] \in FuncType
  BY DEF TypeOK, Index
<1>3. \A k \in Index : RegionOf(k) \in RegionSizes
  BY <1>2, RegionSizeIsLargeEnough DEF RegionOf, FuncType
<1>4. RegionSizes \subseteq Nat
  BY DEF RegionSizes
<1> QED
  BY <1>1, <1>2, <1>3, <1>4 DEF TypeOK, FuncType

LEMMA Measures ==
  ASSUME IInv, MeasureFunction PROVE IInv'
<1>1. /\ TypeOK /\ Named /\ pc = "measure" /\ i \in Index
      /\ list_num \in Nat /\ UNCHANGED <<listing, section, pc, dot, address>>
  BY Types DEF IInv, MeasureFunction, Index
<1>2. Measured(funcs[i].name) \in 0 .. Largest
  BY <1>1, ListedIsItem DEF TypeOK, MeasureFunction
<1>3. /\ TypeOK'
      /\ \A k \in Index : funcs'[k].name = funcs[k].name
  <2>1. funcs'[i] \in FuncType /\ funcs'[i].name = funcs[i].name
    BY <1>1, <1>2 DEF TypeOK, MeasureFunction, FuncType, Index
  <2>2. funcs' \in [1 .. list_num -> FuncType]
    BY <1>1, <2>1 DEF TypeOK, MeasureFunction, Index
  <2>3. \A k \in Index : funcs'[k].name = funcs[k].name
    BY <1>1, <2>1 DEF TypeOK, MeasureFunction, Index
  <2>4. i' \in 1 .. list_num + 1
    BY <1>1 DEF MeasureFunction, Index
  <2> QED
    BY <1>1, <2>2, <2>3, <2>4 DEF TypeOK
<1>4. \A f : ListedAs(f)' = ListedAs(f)
  BY <1>1 DEF ListedAs
<1>5. \A k \in Index : k < i' => ListedAs(funcs[k].name) # 0
  BY <1>1 DEF MeasureFunction, Named, Index
<1>6. Named'
  BY <1>1, <1>3, <1>4, <1>5 DEF Named
<1>7. Laid' /\ Linked'
  BY <1>1 DEF IInv, Laid, Linked
<1> QED
  BY <1>3, <1>6, <1>7 DEF IInv

LEMMA Sorts ==
  ASSUME IInv, Sort PROVE IInv'
<1>1. /\ TypeOK /\ Named /\ pc = "measure" /\ i = list_num + 1
      /\ list_num \in Nat /\ list_num > 0 /\ pc' = "allocate" /\ i' = 1
      /\ UNCHANGED <<listing, section, dot, address>>
  BY Types DEF IInv, Sort
<1>2. PICK p \in Bijection(1 .. list_num, 1 .. list_num) :
        /\ \A j, k \in 1 .. list_num : j < k => SortsBefore(funcs, p, j, k)
        /\ funcs' = [k \in 1 .. list_num |->
                       [funcs[p[k]] EXCEPT !.region_start =
                          IF k = 1 THEN Base ELSE @]]
  BY DEF Sort
<1>3. \A k \in Index : p[k] \in Index
  BY <1>2 DEF Bijection, Injection, Index
<1>4. /\ \A k \in Index : /\ funcs'[k].name = funcs[p[k]].name
                          /\ funcs'[k].function_size = funcs[p[k]].function_size
      /\ funcs'[1].region_start = Base
      /\ TypeOK'
  <2>1. \A k \in Index :
          /\ funcs'[k] \in FuncType
          /\ funcs'[k].name = funcs[p[k]].name
          /\ funcs'[k].function_size = funcs[p[k]].function_size
    BY <1>1, <1>2, <1>3, BaseIsAligned DEF TypeOK, FuncType, Index
  <2>2. funcs'[1].region_start = Base
    BY <1>1, <1>2, <1>3 DEF TypeOK, FuncType, Index
  <2>3. funcs' \in [1 .. list_num -> FuncType]
    BY <1>2, <2>1 DEF Index
  <2> QED
    BY <1>1, <2>1, <2>2, <2>3 DEF TypeOK
<1>5. \A k \in Index : funcs[k].function_size \in Int
  BY <1>1, Types
<1>6. \A j, k \in Index : j < k =>
        /\ p[j] # p[k]
        /\ funcs'[j].function_size >= funcs'[k].function_size
  BY <1>2, <1>3, <1>4, <1>5 DEF SortsBefore, Index
<1>7. Named'
  <2>1. \A j, k \in Index : funcs'[j].name = funcs'[k].name => j = k
    BY <1>1, <1>3, <1>4, <1>6 DEF Named, Index
  <2>2. \A f : ListedAs(f)' = ListedAs(f)
    BY <1>1 DEF ListedAs
  <2>3. \A k \in Index : ListedAs(funcs[p[k]].name) # 0
    BY <1>1, <1>3 DEF Named, Index
  <2>4. \A f \in ToSet(Names) : \E k \in Index : funcs'[k].name = f
    <3>1. \A m \in Index : \E k \in Index : p[k] = m
      BY <1>2 DEF Bijection, Surjection, Index
    <3>2. ASSUME NEW f \in ToSet(Names)
          PROVE  \E k \in Index : funcs'[k].name = f
      <4>1. PICK m \in Index : funcs[m].name = f
        BY <1>1, <3>2 DEF Named
      <4>2. PICK k \in Index : p[k] = m
        BY <3>1
      <4> QED
        BY <1>4, <4>1, <4>2
    <3> QED
      BY <3>2
  <2> QED
    BY <1>4, <2>1, <2>2, <2>3, <2>4 DEF Named
<1>8. Laid'
  <2>1. Allocated' = {} /\ Reached' = {1}
    BY <1>1 DEF Allocated, Reached, Index
  <2>2. RegionOf(1)' \in RegionSizes
    BY <1>1, <1>4, RegionSizeIsLargeEnough
       DEF RegionOf, TypeOK, FuncType, Index
  <2>3. funcs'[1].region_start % RegionOf(1)' = 0
    BY <1>4, <2>2, BaseIsAligned
  <2> QED
    BY <1>4, <1>6, <2>1, <2>3 DEF Laid
<1>9. Linked'
  BY <1>1 DEF IInv, Linked
<1> QED
  BY <1>4, <1>7, <1>8, <1>9 DEF IInv

LEMMA Allocates ==
  ASSUME IInv, Allocate PROVE IInv'
<1>1. /\ TypeOK /\ Named /\ Laid /\ Linked /\ pc = "allocate" /\ i \in Index
      /\ list_num \in Nat /\ pc' = pc /\ i' = i + 1
      /\ UNCHANGED <<listing, section, dot, address>>
  BY Types DEF IInv, Allocate, Index
<1>2. \A k \in Index :
        /\ RegionOf(k) \in RegionSizes /\ RegionOf(k) \in Nat
        /\ funcs[k].region_start \in Nat /\ funcs[k].function_size \in 0 .. Largest
  BY <1>1, Types
<1>3. \A k \in Index :
        /\ funcs'[k] \in FuncType
        /\ funcs'[k].name = funcs[k].name
        /\ funcs'[k].function_size = funcs[k].function_size
        /\ funcs'[k].region_size = IF k = i THEN RegionOf(i)
                                            ELSE funcs[k].region_size
        /\ funcs'[k].region_start = IF k = i + 1
                                       THEN funcs[i].region_start + RegionOf(i)
                                       ELSE funcs[k].region_start
  <2> DEFINE s    == [funcs EXCEPT ![i].region_size = RegionOf(i)]
             next == funcs[i].region_start + RegionOf(i)
  <2>1. next \in Nat
    BY <1>1, <1>2
  <2>2. /\ i < list_num => funcs' = [s EXCEPT ![i + 1].region_start = next]
        /\ i >= list_num => funcs' = s
    BY <1>1 DEF Allocate, RegionOf, Index
  <2>3. /\ s \in [Index -> FuncType]
        /\ \A k \in Index :
             /\ s[k].name = funcs[k].name
             /\ s[k].function_size = funcs[k].function_size
             /\ s[k].region_start = funcs[k].region_start
             /\ s[k].region_size = IF k = i THEN RegionOf(i)
                                            ELSE funcs[k].region_size
    BY <1>1, <1>2 DEF TypeOK, FuncType, Index
  <2>4. CASE i < list_num
    <3>1. i + 1 \in Index
      BY <1>1, <2>4 DEF Index
    <3> HIDE DEF s, next
    <3> QED
      BY <2>1, <2>2, <2>3, <2>4, <3>1 DEF FuncType, next
  <2>5. CASE i >= list_num
    <3>1. i + 1 \notin Index
      BY <1>1, <2>5 DEF Index
    <3> HIDE DEF s, next
    <3> QED
      BY <2>2, <2>3, <2>5, <3>1 DEF FuncType
  <2> QED
    BY <1>1, <2>4, <2>5 DEF Index
<1>4. TypeOK'
  <2>1. funcs' \in [1 .. list_num -> FuncType]
    BY <1>1, <1>3 DEF Allocate, TypeOK, Index
  <2> QED
    BY <1>1, <2>1 DEF TypeOK, Index
<1>5. Named'
  <2>1. \A f : ListedAs(f)' = ListedAs(f)
    BY <1>1 DEF ListedAs
  <2> QED
    BY <1>1, <1>3, <2>1 DEF Named
<1>6. \A k \in Index : RegionOf(k)' = RegionOf(k)
  BY <1>3 DEF RegionOf
<1>7. /\ Allocated = 1 .. i - 1 /\ Allocated' = 1 .. i
      /\ Reached = 1 .. i /\ Reached' = {k \in Index : k <= i + 1}
  BY <1>1 DEF Allocated, Reached, Index
<1>8. i + 1 \in Index =>
        (funcs[i].region_start + RegionOf(i)) % RegionOf(i + 1) = 0
  <2> SUFFICES ASSUME i + 1 \in Index
               PROVE  (funcs[i].region_start + RegionOf(i)) % RegionOf(i + 1) = 0
    OBVIOUS
  <2>1. RegionOf(i + 1) <= RegionOf(i)
    BY <1>1, <1>2, LargerFunctionLargerRegion DEF Laid, RegionOf, Index
  <2>2. funcs[i].region_start % RegionOf(i) = 0
    BY <1>1, <1>7 DEF Laid, Index
  <2> QED
    BY <1>1, <1>2, <2>1, <2>2, RegionSizesDivide
<1>9. Laid'
  <2>1. \A j, k \in Index :
          j < k => funcs'[j].function_size >= funcs'[k].function_size
    BY <1>1, <1>3 DEF Laid
  <2>2. funcs'[1].region_start = Base
    BY <1>1, <1>3 DEF Laid, Index
  <2>3. \A k \in 1 .. i : funcs'[k].region_size = RegionOf(k)
    BY <1>1, <1>3, <1>7 DEF Laid, Index
  <2>4. \A k \in Index : k <= i + 1 => funcs'[k].region_start % RegionOf(k) = 0
    BY <1>1, <1>3, <1>7, <1>8 DEF Laid, Index
  <2>5. \A j \in 1 .. i : \A k \in Index : j < k /\ k <= i + 1 =>
          funcs'[j].region_start + RegionOf(j) <= funcs'[k].region_start
    <3> SUFFICES ASSUME NEW j \in 1 .. i, NEW k \in Index, j < k, k <= i + 1
                 PROVE  funcs'[j].region_start + RegionOf(j)
                          <= funcs'[k].region_start
      OBVIOUS
    <3>1. j \in Index /\ j # i + 1 /\ funcs'[j].region_start = funcs[j].region_start
      BY <1>1, <1>3 DEF Index
    <3>2. CASE k <= i
      BY <1>1, <1>3, <1>7, <3>1, <3>2 DEF Laid, Index
    <3>3. CASE k = i + 1 /\ j = i
      BY <1>2, <1>3, <3>1, <3>3
    <3>4. CASE k = i + 1 /\ j < i
      <4>1. funcs[j].region_start + RegionOf(j) <= funcs[i].region_start
        BY <1>1, <1>7, <3>4 DEF Laid, Index
      <4>2. funcs'[k].region_start = funcs[i].region_start + RegionOf(i)
        BY <1>3, <3>4
      <4>3. /\ RegionOf(i) \in Nat /\ RegionOf(j) \in Nat
            /\ funcs[i].region_start \in Nat /\ funcs[j].region_start \in Nat
        BY <1>1, <1>2, <3>1
      <4>4. funcs[j].region_start + RegionOf(j)
              <= funcs[i].region_start + RegionOf(i)
        BY <4>1, <4>3
      <4> QED
        BY <3>1, <4>2, <4>4
    <3> QED
      BY <1>1, <3>2, <3>3, <3>4 DEF Index
  <2>6. \A k \in 1 .. i : k < list_num =>
          funcs'[k + 1].region_start = funcs'[k].region_start + RegionOf(k)
    <3> SUFFICES ASSUME NEW k \in 1 .. i, k < list_num
                 PROVE  funcs'[k + 1].region_start
                          = funcs'[k].region_start + RegionOf(k)
      OBVIOUS
    <3>1. /\ k \in Index /\ k + 1 \in Index /\ k # i + 1
          /\ funcs'[k].region_start = funcs[k].region_start
      BY <1>1, <1>3 DEF Index
    <3>2. CASE k = i
      BY <1>3, <3>1, <3>2
    <3>3. CASE k # i
      <4>1. k \in Allocated /\ k + 1 # i + 1
        BY <1>1, <1>7, <3>3 DEF Index
      <4>2. funcs[k + 1].region_start = funcs[k].region_start + RegionOf(k)
        BY <1>1, <4>1 DEF Laid
      <4> QED
        BY <1>3, <3>1, <4>1, <4>2
    <3> QED
      BY <3>2, <3>3
  <2>7. 1 .. i \subseteq Index
    BY <1>1 DEF Index
  <2> QED
    BY <1>6, <1>7, <2>1, <2>2, <2>3, <2>4, <2>5, <2>6, <2>7 DEF Laid
<1>10. Linked'
  BY <1>1 DEF Linked
<1> QED
  BY <1>4, <1>5, <1>9, <1>10 DEF IInv

-----------------------------------------------------------------------------
(* The script's numbers of the sections are the ranks that the functions   *)
(* other than main have among themselves.                                  *)
LEMMA LineIsRank ==
  ASSUME TypeOK, Named, NEW k \in Index, funcs[k].name # "main"
  PROVE  Cardinality({j \in 1 .. k : funcs[j].name # "main"}) = SectionLine(k)
<1>1. list_num \in Nat /\ k \in Nat /\ 1 .. k \subseteq Index
  BY Types DEF Index
<1>2. IsFiniteSet(1 .. k) /\ Cardinality(1 .. k) = k
  BY <1>1, FS_Interval DEF Index
<1>3. CASE \E m \in 1 .. k - 1 : funcs[m].name = "main"
  <2>1. PICK m \in 1 .. k - 1 : funcs[m].name = "main"
    BY <1>3
  <2>2. {j \in 1 .. k : funcs[j].name # "main"} = (1 .. k) \ {m}
    BY <1>1, <2>1 DEF Named, Index
  <2>3. Cardinality((1 .. k) \ {m}) = k - 1
    <3>1. m \in 1 .. k
      BY <1>1
    <3> QED
      BY <1>2, <3>1, FS_RemoveElement
  <2> QED
    BY <1>3, <2>2, <2>3 DEF SectionLine
<1>4. CASE ~ \E m \in 1 .. k - 1 : funcs[m].name = "main"
  <2>1. {j \in 1 .. k : funcs[j].name # "main"} = 1 .. k
    BY <1>1, <1>4
  <2> QED
    BY <1>2, <1>4, <2>1 DEF SectionLine
<1> QED
  BY <1>3, <1>4

LEMMA PlacedAlone ==
  ASSUME TypeOK, Named, SectionsInOrder, NEW k \in Index
  PROVE  PlacedBy(k) = {funcs[k].name}
<1>1. CASE funcs[k].name = "main"
  BY <1>1 DEF PlacedBy
<1>2. CASE funcs[k].name # "main"
  <2>1. funcs[k].name \in Others
    BY <1>2, Types DEF Others
  <2>2. section[funcs[k].name] = SectionLine(k)
    BY <1>2, LineIsRank DEF SectionsInOrder, Index
  <2>3. \A f, g \in Others : section[f] = section[g] => f = g
    BY DEF TypeOK, Bijection, Injection, IsInjective
  <2> QED
    BY <1>2, <2>1, <2>2, <2>3 DEF PlacedBy
<1> QED
  BY <1>1, <1>2

LEMMA WritesScript ==
  ASSUME IInv, WriteScript PROVE IInv'
<1>1. /\ TypeOK /\ Named /\ Laid /\ Linked /\ pc = "allocate" /\ i = list_num + 1
      /\ list_num \in Nat /\ list_num > 0 /\ pc' = "link" /\ i' = 1
      /\ UNCHANGED <<listing, section, funcs, dot, address>>
  BY Types DEF IInv, WriteScript
<1>2. TypeOK'
  BY <1>1 DEF TypeOK
<1>3. \A f : ListedAs(f)' = ListedAs(f)
  BY <1>1 DEF ListedAs
<1>4. Named'
  BY <1>1, <1>3 DEF Named
<1>5. Allocated = Index /\ Allocated' = Index /\ Reached = Index /\ Reached' = Index
  BY <1>1 DEF Allocated, Reached, Index
<1>6. \A k : RegionOf(k)' = RegionOf(k)
  BY <1>1 DEF RegionOf
<1>7. Laid'
  BY <1>1, <1>5, <1>6 DEF Laid
<1>8. Linked'
  BY <1>1 DEF Linked, Laid, Index
<1> QED
  BY <1>2, <1>4, <1>7, <1>8 DEF IInv

LEMMA Links ==
  ASSUME IInv, Link PROVE IInv'
<1>1. /\ TypeOK /\ Named /\ Laid /\ Linked /\ pc = "link" /\ i \in Index
      /\ list_num \in Nat /\ pc' = "link" /\ i' = i + 1
      /\ UNCHANGED <<listing, section, funcs>>
  BY Types DEF IInv, Link, Index
<1>2. \A f : ListedAs(f)' = ListedAs(f) /\ CodeSize(f)' = CodeSize(f)
  BY <1>1 DEF ListedAs, CodeSize
<1>3. Named'
  BY <1>1, <1>2 DEF Named
<1>4. /\ Allocated = Index /\ Allocated' = Index
      /\ Reached = Index /\ Reached' = Index
      /\ \A k : RegionOf(k)' = RegionOf(k)
  BY <1>1 DEF Allocated, Reached, RegionOf, Index
<1>5. Laid'
  BY <1>1, <1>4 DEF Laid
<1>6. ASSUME FunctionsFit, SectionsInOrder
      PROVE  /\ address' = [f \in DOMAIN address \cup {funcs[i].name} |->
                              IF f = funcs[i].name THEN dot ELSE address[f]]
             /\ dot' = funcs[i].region_start + RegionOf(i)
  <2>1. PlacedBy(i) = {funcs[i].name}
    BY <1>1, <1>6, PlacedAlone
  <2>2. address' = [f \in DOMAIN address \cup {funcs[i].name} |->
                      IF f = funcs[i].name THEN dot ELSE address[f]]
    BY <2>1 DEF Link
  <2>3. dot' = AlignUp(dot + CodeSize(funcs[i].name), funcs[i].region_size)
    <3>1. (CHOOSE f \in PlacedBy(i) : TRUE) = funcs[i].name /\ PlacedBy(i) # {}
      BY <2>1
    <3> QED
      BY <3>1 DEF Link
  <2>4. /\ dot = funcs[i].region_start /\ dot % RegionOf(i) = 0 /\ dot \in Nat
        /\ funcs[i].region_size = RegionOf(i) /\ RegionOf(i) \in RegionSizes
    BY <1>1, <1>4, <1>6, Types DEF Linked, Laid, Index
  <2>5. CodeSize(funcs[i].name) \in 1 .. RegionOf(i)
    <3>1. CodeSize(funcs[i].name) \in Nat /\ CodeSize(funcs[i].name) > 0
      BY <1>1, ListedIsItem DEF Named, TypeOK
    <3>2. CodeSize(funcs[i].name) <= RegionOf(i)
      BY <1>1, <1>4, <1>6, <2>4 DEF FunctionsFit
    <3> QED
      BY <2>4, <3>1, <3>2, Types, <1>1
  <2> QED
    BY <2>2, <2>3, <2>4, <2>5, AlignUpEndsRegion
<1>7. TypeOK'
  <2>1. PlacedBy(i) \subseteq ToSet(Names)
    BY <1>1, Types DEF PlacedBy, Others
  <2>2. DOMAIN address' \subseteq ToSet(Names)
    BY <1>1, <2>1 DEF Link, TypeOK
  <2>3. \A f \in PlacedBy(i) : CodeSize(f) \in Nat
    BY <1>1, <2>1, ListedIsItem DEF Named, TypeOK
  <2>4. PICK end \in Nat : dot' = AlignUp(end, funcs[i].region_size)
    <3> DEFINE end == IF PlacedBy(i) = {} THEN dot
                        ELSE dot + CodeSize(CHOOSE f \in PlacedBy(i) : TRUE)
    <3>1. end \in Nat
      <4>1. dot \in Nat
        BY <1>1 DEF TypeOK
      <4>2. PlacedBy(i) # {} => (CHOOSE f \in PlacedBy(i) : TRUE) \in PlacedBy(i)
        OBVIOUS
      <4> QED
        BY <2>3, <4>1, <4>2
    <3>2. dot' = AlignUp(end, funcs[i].region_size)
      BY DEF Link
    <3> QED
      BY <3>1, <3>2
  <2>5. funcs[i].region_size \in RegionSizes
    BY <1>1, <1>4, Types DEF Laid
  <2>6. dot' \in Nat
    BY <2>4, <2>5, AlignUpIsNat
  <2> QED
    BY <1>1, <2>2, <2>6 DEF TypeOK, Index
<1>8. Linked'
  <2>1. /\ FunctionsFit' => FunctionsFit
        /\ SectionsInOrder' => SectionsInOrder
    BY <1>1, <1>2, <1>4 DEF FunctionsFit, SectionsInOrder
  <2> SUFFICES ASSUME FunctionsFit, SectionsInOrder
               PROVE  /\ i' <= list_num => dot' = funcs'[i'].region_start
                      /\ \A k \in Index : k < i' =>
                           /\ funcs'[k].name \in DOMAIN address'
                           /\ address'[funcs'[k].name] = funcs'[k].region_start
    BY <1>1, <2>1 DEF Linked
  <2>2. i + 1 <= list_num => dot' = funcs[i + 1].region_start
    BY <1>1, <1>4, <1>6 DEF Laid, Index
  <2>3. ASSUME NEW k \in Index, k < i + 1
        PROVE  /\ funcs[k].name \in DOMAIN address'
               /\ address'[funcs[k].name] = funcs[k].region_start
    <3>1. CASE k = i
      BY <1>1, <1>6, <3>1 DEF Linked, Index
    <3>2. CASE k # i
      <4>1. k < i /\ funcs[k].name # funcs[i].name
        BY <1>1, <2>3, <3>2 DEF Named, Index
      <4>2. /\ funcs[k].name \in DOMAIN address
            /\ address[funcs[k].name] = funcs[k].region_start
        BY <1>1, <4>1 DEF Linked
      <4> QED
        BY <1>6, <4>1, <4>2
    <3> QED
      BY <3>1, <3>2
  <2> QED
    BY <1>1, <2>2, <2>3
<1> QED
  BY <1>3, <1>5, <1>7, <1>8 DEF IInv

-----------------------------------------------------------------------------
(* The remaining steps move pc only, and stop early or end the linking.    *)
LEMMA OtherStepsPreserve ==
  ASSUME IInv, MeasureNothing \/ LinkEnd \/ UNCHANGED vars PROVE IInv'
<1>1. /\ TypeOK /\ Named /\ Laid /\ Linked /\ list_num \in Nat
      /\ UNCHANGED <<listing, section, funcs, i, dot, address>>
  BY Types DEF IInv, MeasureNothing, LinkEnd, vars
<1>2. \A f : ListedAs(f)' = ListedAs(f) /\ CodeSize(f)' = CodeSize(f)
  BY <1>1 DEF ListedAs, CodeSize
<1>3. CASE MeasureNothing
  <2>1. TypeOK' /\ Named' /\ Laid' /\ Linked'
    BY <1>1, <1>3 DEF MeasureNothing, TypeOK, Named, Laid, Linked
  <2> QED
    BY <2>1 DEF IInv
<1>4. CASE LinkEnd \/ UNCHANGED vars
  <2>1. /\ pc' = pc \/ (pc = "link" /\ pc' = "done" /\ i = list_num + 1)
        /\ Allocated' = Allocated /\ Reached' = Reached
    BY <1>1, <1>4, Types DEF LinkEnd, vars, Allocated, Reached
  <2>2. TypeOK'
    BY <1>1, <2>1 DEF TypeOK
  <2>3. Named'
    BY <1>1, <1>2, <2>1 DEF Named
  <2>4. Laid'
    BY <1>1, <2>1 DEF Laid, RegionOf
  <2>5. FunctionsFit' = FunctionsFit /\ SectionsInOrder' = SectionsInOrder
    BY <1>1, <1>2, <2>1 DEF FunctionsFit, SectionsInOrder
  <2>6. Linked'
    BY <1>1, <2>1, <2>5 DEF Linked
  <2> QED
    BY <2>2, <2>3, <2>4, <2>6 DEF IInv
<1> QED
  BY <1>3, <1>4

LEMMA NextPreserves == IInv /\ [Next]_vars => IInv'
<1> SUFFICES ASSUME IInv, [Next]_vars PROVE IInv'
  OBVIOUS
<1>1. CASE MeasureFunction
  BY <1>1, Measures
<1>2. CASE Sort
  BY <1>2, Sorts
<1>3. CASE Allocate
  BY <1>3, Allocates
<1>4. CASE WriteScript
  BY <1>4, WritesScript
<1>5. CASE Link
  BY <1>5, Links
<1>6. CASE MeasureNothing \/ LinkEnd \/ UNCHANGED vars
  BY <1>6, OtherStepsPreserve
<1> QED
  BY <1>1, <1>2, <1>3, <1>4, <1>5, <1>6 DEF Next, Finished

LEMMA InductiveInvariant == Spec => []IInv
BY InitEstablishes, NextPreserves, PTL DEF Spec

-----------------------------------------------------------------------------
(* The objects, the regions and the linker's counter keep their types.     *)
THEOREM TypeCorrect == Spec => []TypeOK
<1>1. IInv => TypeOK
  BY DEF IInv
<1> QED
  BY <1>1, InductiveInvariant, PTL

(* Every region that function_size.py gives starts at a multiple of its    *)
(* size, whatever the sizes of the functions are.                          *)
THEOREM RegionsAreAligned == Spec => []RegionsAligned
<1>1. IInv => RegionsAligned
  <2> SUFFICES ASSUME IInv PROVE RegionsAligned
    OBVIOUS
  <2>1. Allocated \subseteq Reached
    BY Types DEF IInv, Allocated, Reached, Index
  <2> QED
    BY <2>1 DEF IInv, Laid, RegionsAligned, Allocated
<1> QED
  BY <1>1, InductiveInvariant, PTL

(* No byte of the program is in the regions of two functions.              *)
THEOREM RegionsAreDisjoint == Spec => []RegionsDisjoint
<1>1. IInv => RegionsDisjoint
  <2> SUFFICES ASSUME IInv PROVE RegionsDisjoint
    OBVIOUS
  <2>1. Allocated \subseteq Reached
    BY Types DEF IInv, Allocated, Reached, Index
  <2> QED
    BY <2>1 DEF IInv, Laid, RegionsDisjoint, Allocated
<1> QED
  BY <1>1, InductiveInvariant, PTL

(* The linker puts every function where function_size.py computed that its *)
(* region starts, if the sections are numbered in order and none of the    *)
(* functions before it is larger than its region.                          *)
THEOREM FunctionsAreLinkedAtRegion == Spec => []LinkedAtRegion
<1>1. IInv => LinkedAtRegion
  BY Types DEF IInv, Linked, LinkedAtRegion, Index
<1> QED
  BY <1>1, InductiveInvariant, PTL

(* The size that Set_Operand encodes is the one that function_size.py gave *)
(* the region, for every region there can be.                              *)
THEOREM SizesAreEncoded == Spec => []SizesEncoded
<1>1. IInv => SizesEncoded
  <2> SUFFICES ASSUME IInv PROVE SizesEncoded
    OBVIOUS
  <2>1. ASSUME NEW k \in Allocated
        PROVE  2 ^ (ToSize(funcs[k].region_size) + 1) = funcs[k].region_size
    <3>1. k \in Index /\ pc \in {"allocate", "link", "done"}
      BY Types DEF IInv, Allocated, Index
    <3>2. funcs[k].region_size = RegionOf(k)
      BY <3>1 DEF IInv, Laid
    <3>3. RegionOf(k) \in RegionSizes
      BY <3>1, Types, RegionSizeIsLargeEnough DEF IInv, RegionOf
    <3> QED BY <3>2, <3>3, Encodes
  <2> QED BY <2>1 DEF SizesEncoded
<1> QED
  BY <1>1, InductiveInvariant, PTL
=============================================================================
