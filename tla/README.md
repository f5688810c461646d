# A specification of the function sandbox

The repository instruments a bare-metal program for a Cortex-M4 so that the
memory protection unit (MPU) follows its calls: while a function runs, the
unit's regions name that function's code and no other's. This directory holds
TLA+ modules of the driver that writes the unit's registers, the LLVM passes
that insert the calls of the driver, the program that lays the functions out in
flash, and the instrumented program at run time, together with the
configurations that check them and proofs of the properties that matter most.

## The system

    main.c, cnt.c, mpu_configure.c
         |  clang, llvm-link
         v
    output.bc --Find_Function--> function.txt
         |  BB_label
         |  Insert_Function      MPU_Config calls, with placeholder regions
         |  Connect_Function     reads of the caller's region, its restoration
         v
    output_opt4.bc --llc, objdump, function_size.py--> Link_addr.txt, tmp.ld
         |  Set_Operand          the regions of Link_addr.txt
         v
    output_opt5.bc --llc, ld with tmp.ld--> final.elf --> the board

| Part | State | Operations | Talks to |
|---|---|---|---|
| MPU driver (`src/mpu_configure.c`) | the registers SHCSR, CTRL, RNR and the regions' RBAR, RASR | `MPU_Config`, `MPU_zero_region`, `Read_Caller_addr`, `Read_Caller_size` | called by instrumented code; nothing calls `MPU_zero_region` |
| `Find_Function` | list of names | one pass over the module | writes `function.txt` |
| `BB_label` | a counter per function | names the blocks | names only |
| `Insert_Function` | the module, iterators | calls of `MPU_Config` at the start of every function, before and behind every call | the module |
| `Connect_Function` | the module, iterators, two values | reads the caller's region at the start, opens it again in the last block | the module |
| `function_size.py` | list of functions | measure, sort, allocate, write | reads the listing and `function.txt`; writes `Link_addr.txt`, `tmp.ld` |
| `Set_Operand` | table of functions, the module | replaces the placeholders | reads `Link_addr.txt` |
| instrumented program | the unit, the stack, two values per frame | calls, returns, branches | the driver |
| Makefile | files and their times | its rules | starts all of the above |
| block pipeline (`Startup/Makefile`, `BB_check1.py`, `Addr_info.py`, `cfg_extract.py`, `Insert_ld.py`, `Insert_Nop`) | sizes of blocks | measure, pad, place | the older variant, per basic block |
| `Split_BB`, `Executed_BB` | the module | split blocks, count calls of the driver | used by no Makefile |
| `startup.c`, `syscalls.c` | memory, the heap's end | reset, fault handlers, newlib stubs | runs `main` |
| `llvm_lib/{IPO,InstCombine,Scalar,...}` | | | a copy of LLVM 13's `lib/Transforms`, nothing of the project |

What is hard here is not concurrency: the passes are sequential and the
firmware is one thread of control whose interrupts all end in an empty loop.
It is that

* a region is switched in several register writes while the code that writes
  them runs under the very regions it changes;
* the protocol of a call is spread over four places that two passes insert
  independently, and has to work for nested and recursive calls, with a single
  pair of registers as the only memory;
* the passes insert instructions in front of and behind their own iterators;
* the second argument of meaning, region 2, marks two different things that a
  third pass tells apart by what stands next to them;
* the same layout is computed three times, by the allocation, by the encoding
  of sizes and by the linker, and nothing compares the three;
* the build keeps its tables in files that make does not know of.

## Modules

| Module | Models | Role |
|---|---|---|
| `MpuRegisters` | the words of `mpu_configure.c/.h` and what the unit makes of them | operators |
| `MpuRegions` | what the driver promises | abstract specification |
| `MpuConfigure` | `mpu_configure.c`, one register access per action | state machine, implements `MpuRegions` |
| `CallGuard` | the protocol of calls and returns over regions 1 and 2 | abstract specification of an instrumented program |
| `CallGuardProofs` | | theorems |
| `Ir` | the module as the passes see it | operators |
| `Instrument` | the passes, one turn of a loop per action | state machine |
| `Image` | the result of the passes, as a function of the module | operators; what `Instrument` computes |
| `ImageProofs` | | lemmas about blocks of any length |
| `InstrumentProofs` | | theorems |
| `InstrumentedRun` | the processor running `Image` | state machine, implements `CallGuard` |
| `InstrumentedRunProofs` | | theorems |
| `FunctionLayout` | `function_size.py`, `to_size`, the linker's `.function` | state machine |
| `FunctionLayoutProofs` | | theorems |
| `BuildPipeline` | the rules of the Makefile and make | state machine |
| `BuildPipelineProofs` | | theorems |
| `BlockPasses` | `Split_BB` and `Executed_BB` | state machine |
| `BlockLayout` | `BB_label`, `BB_check1.py`, `Addr_info.py`, `Insert_Nop` | state machine |
| `Blocks` | the two in one module | composition without shared state |
| `BlockProofs` | | theorems |
| `Startup` | `startup.c`, `_sbrk`, the stack and resets | state machine |
| `FirmwareProofs` | | theorems about `MpuConfigure` and `Startup` |
| `MC*` | | the instances TLC checks |

How they fit together: the passes of `Instrument` compute `Image` (proved for
every module); `InstrumentedRun` executes `Image` and implements `CallGuard`
(proved for every program); `CallGuard` is correct for every program (proved),
so what it says holds of the code that the passes make; a step of `CallGuard`
that configures a region is a whole call of the driver, which `MpuConfigure`
shows to be one replacement of one region with the unit off; and what
`CallGuard` assumes of the regions (aligned, of at least 32 bytes, one per
function) is what `FunctionLayout` establishes.

### MpuConfigure

`pc` names the register access that comes next; `"caller"` means that no call is
in progress. A call of any element of `Requests` may start then, so nothing
depends on who calls the driver. `MPU_Config` and `MPU_zero_region` make the
same accesses in the same order with different words, so they share actions;
`BaseWord` and `Attributes` hold the difference. A word is a number and its
fields are quotients and remainders, with SHCSR reduced to the one bit the code
touches. The registers are volatile, so their order in the source is their order
in the run. A register write takes effect at once: the code has no barrier, and
what the processor has already fetched is not modelled.

### CallGuard

A frame is the function, the point it is at, and the two values it read on
entry (`read_addr` and `read_size` are values of a frame in LLVM's sense, in
registers or on the stack). Only the top frame runs. The constant `ReturnsLast`
holds the functions whose only return ends their last basic block, the case
`Connect_Function` handles; a function outside it may run the restoration in the
middle of its body (when its last block is not a returning one) and may return
without it.

### Ir, Instrument, Image

An instruction is a record of its kind, its callee and, for a call of
`MPU_Config`, the region its first two operands name (the function it belongs
to, one of the placeholders, or the saved values) and the region's number. A
function is a sequence of blocks in layout order and a declaration has none.
`pos` is the instruction iterator and stays with its instruction when something
is inserted in front of it, as an `ilist` iterator does.

`Connect_Function` declares `addr` and `size` inside its loop over the blocks
and assigns them in the first one. Where the last block is another one they are
indeterminate; the model lets the pass either find the first turn's values or
stop. `getCalledFunction()` of a call through a pointer is null, and the pass
stops. A name that `Link_addr.txt` lacks yields `"junk"`.

### InstrumentedRun

`stack` holds the frames with the place of their next instruction. Branches are
nondeterministic. `Compiled` is what a block is when it comes from the compiler:
one terminator, at its end, and branches and calls that lead somewhere. A call
of `MPU_Config` is one step, of a region of `Link_addr.txt` (`ConfigureListed`)
or of the two values the function read when it was entered (`ConfigureSaved`).
`Frames` maps each frame to `CallGuard`'s by the instruction it is at
(`Point`), and `Guard` is `CallGuard` of these frames. `CallGuard` asks for room
on its stack where the callee is configured, which is the instruction in front
of the call; so a run whose stack is full ends there (`Full`).

### FunctionLayout

A function in the listing is the number of bytes before its last item and the
widths of the last two, which is all the measuring looks at. `section` is the
numbering of the sections `.f1`, `.f2`, ... that the source of the program gives
its functions by hand (that source, `cnt.c`, is not in the repository), and the
model takes every numbering. `main` is taken to lie in a section `.text.*`, as
the generated script expects. The sizes of regions end at 16 KB, which is as far
as the alignment of the first address (`Base`, 0x08004000) goes: nothing in
`function_size.py` keeps a larger function out, `ListingAssumption` does.

### BuildPipeline

A target is a rule whose recipe decides something; rules that only convert or
disassemble are part of the target behind them (the head of the module lists
which). The content of a file is the set of versions of the program that went
into it, and a recipe passes on the union of what it reads, so a file that mixes
two programs has two elements. `newer` is which file
was modified after which. make
itself is external and modelled by what the Makefile relies on: it makes the
prerequisites first, in the order in which the rules name them, skips what is
newer than its prerequisites, runs up to `Jobs` recipes at a time, and after a
failing recipe starts no other. A recipe that fails leaves its target as it was,
or absent; `objdump > $@` leaves what it has written. `Table` holds the three
files that rules read and write without naming them. The edits are those of the
C sources; the linker script, `function_size.py` and the passes, which no rule
names either, stay as they are.

### BlockPasses

A block is an identity and its code, and branches name identities, so that
moving code to a new block and redirecting branches are two things that can go
wrong apart. `splitBasicBlock` is in LLVM's `lib/IR` and taken to do what its
callers rely on: the instructions in front of the call move to a new block in
front, and every branch to the block goes there. Both iterators of the pass stay
with their block and their call. The pass's second test, that the first
instruction is not the terminator, holds in every block with a call.
`Executed_BB` finds its counters in a first loop and calls them at the start of
the driver's functions. `ProgramAssumption` says what opt reads: every block ends
with its only terminator, which branches within the function.

### BlockLayout

The blocks of a function are what objdump lists for them: a number of bytes and
the form of the last instruction, which is what `BB_check1.py` looks at. It has
no other notion of a block, so `Ends` may be fewer than the blocks, and
`Measured` sums over what lies between two ends. `Addr_info.py` is in no
Makefile, so `MeasureDone` goes there or past it. Its reading loop turns once
more behind the last record and appends the same object again (`Funcs`), and the
loop behind it then appends to a list that is already filled and computes the
start of the next object, which is itself. `Insert_Nop` looks the size up by the
number in the block's name; one that is not in the table is read from behind the
vector's end, which is one of `Junk`, and the pointer `A` is only assigned in
block 1. The padding of a block is as many stores as `fill_nop` inserts, of two
bytes each, and one instruction that loads the zero, which is what the source's
`-2` counts with. `Listed` says what a listing is: Thumb instructions, hence
blocks of an even number of bytes.

### Blocks

The older pipeline is these two modules with llc and objdump between them, which
leave nothing of one's state in the other's: a block of `BlockPasses` is a
sequence of instructions, one of `BlockLayout` a number of bytes. `Blocks` extends
the first and instantiates the second (`Layout`), so that one run and one module
of proofs serve both.

### Startup

Memory is one array of cells, at whose low end lie .data and .bss, and heap and
stack share the rest. `heap_end` is a cell of .bss, so the loop of
`Reset_Handler` is what makes the first call of `_sbrk` find zero there, and a
stack that grows far enough runs over it. A reset may come between any two steps
and leaves the memory as it is. A fault pushes a frame and runs the handler,
which ends by returning to the access that faulted. The first write to a port
whose clock was started by the instruction before may be lost (this is the
hardware's, and a choice in `SetMode`). Its initial states, next-state relation
and type invariant are `BootInit`, `BootNext` and `BootTypeOK`, and what runs next
is `at`, so that `FirmwareProofs` can extend it together with `MpuConfigure`.

## What the runs check

| Run | Question | Bounds |
|---|---|---|
| `mpu_configure` | Is every state between two register accesses harmless, and is a region replaced as a whole? | two functions' regions in regions 1 and 2, a placeholder, one `MPU_zero_region`, both readers; any sequence of calls |
| `call_guard` | Do the inserted calls keep the running function open and alone? | four functions, calls nested, repeated, directly and mutually recursive, depth 5 |
| `instrument` | Do the passes end, change nothing of the program, and produce the intended code? | six functions, up to four blocks, calls in every position, 36 modules |
| `instrumented_run` | Does that code follow the protocol? | the loops and branches of three functions, depth 6 |
| `early_return` (violation) | Does every return find its caller open? | a function that returns from its third block of four |
| `function_layout` | Do allocation, encoding and linking agree? | three functions with sizes at both sides of 32 and 64 bytes, all orders and ties, all section numberings, 936 listings |
| `wide_end` (violation) | Does every function fit its region? | functions that end with a four-byte item |
| `build` | Is `final.elf` always of one program, and does make recover? | one job, three edits, failures or cleanings at any point, any number of makes |
| `parallel_build` (violation) | The same with two jobs | the first make, nothing fails |
| `cut_listing` (violation) | Is every size measured from a whole listing? | one failing recipe |
| `blocks` | Does splitting under the iterators keep the paths and leave at most one call per block; are the addresses and the padding of blocks right for every listing the programs can read? | five functions with up to three calls in a block, branches to every block, both orders of the passes; eight functions of which two vary: up to three blocks of every form, or none |
| `startup` | Does main find its memory, is the heap what was granted, is a fault final and shown? | two cells each of .data and .bss, three for heap and stack, resets at any step |

The bounds reach every case the code distinguishes. The driver's code depends on
its arguments only through the words it writes; two requests per region are
enough to mix. The passes look at one instruction and its neighbours; the
modules contain every kind next to every other that matters (a call at the start
of a block, behind a phi, behind another call, before the terminator; the first
block as the last). In the protocol a frame only relates to the one below it, so
depth 5 or 6 with recursion shows every pair and their neighbours, and the
proofs cover the rest. Three functions are enough for a wrong order to matter in
the layout. In the build three events are an edit, a failure of the make that
follows it and one more before or during its repetition. Two bounds are in
guards: `MaxDepth` (`CallGuard` makes no call at that depth, and
`InstrumentedRun` stops in front of the configuration of the callee, in `Full`)
and `MaxEvents`.

Deadlock is checked in every run; `Finished` and `Returned` are the stuttering
steps of programs that are over, `Full` that of a run that has reached its bound.

There are three liveness properties. `FaultShown` of `Startup` assumes weak
fairness of the steps by which a fault is taken and its handler runs, and of
nothing else: not of a reset and not of the program. `MakeRecovers` of
`BuildPipeline` assumes weak fairness of the steps of a make that has been
started: it is a process that runs until it ends, and its recipes end. Starting
one, editing and failing are not fair. `Terminates` of `Instrument` holds under
weak fairness of the next-state relation: the passes are sequential programs
that wait for nothing, so one that can take a step takes it. It is not for free,
because the passes add to the block they walk through.

Every property is broken by at least one plausible mistake in the code; the
definitions whose comments begin with "Mistake:" are these variants and are used
by no specification.

### Findings

* `early_return`: `Connect_Function.cpp:142` restores the caller before the
  terminator of the block that comes last in the function. A function whose
  layout does not end with its only return, which is what a return inside a loop
  without an end becomes, goes back to its caller with region 2 still open for
  something else. The pass is described as "Connect between caller and callee".
* `wide_end`: `function_size.py:97` adds 2 to the distance between the first and
  the last item, so a function that ends with a four-byte literal or instruction
  counts two bytes less than it has; if that moves it across a power of two its
  region is half of what it needs.
* `parallel_build`: `output_opt5.bc` (Makefile:55) has only `output_opt4.bc` as a
  prerequisite, though `Set_Operand` reads the `Link_addr.txt` that `pass5`
  writes. Only the order in which a serial make visits the prerequisites of
  `pass6` runs them in the right order; `make -j` uses the table in the
  repository, and links with the new script.
* `cut_listing`: a listing that was cut short (Makefile:69) is newer than its
  object file and stays. If its last function is only partly there, the next
  make measures that part. `ElfConsistent` and `ElfFresh` therefore leave the
  question of a whole listing to `ElfMeasured`.

`BB_check1.py`, which no run singles out, has the rule of `wide_end` as well
(line 102, for a block that ends with b.w), and does not end a block at a
conditional branch or where it falls through (line 92), so its table can have
fewer entries than the function has blocks, while `Insert_Nop` looks entries up
by the number of the block. The properties of `BlockLayout` say for which
listings they hold (`Measurable`, and `PaddedToRegion`'s first condition).

## What is proved

TLAPS checks eight modules, `FirmwareProofs`, `CallGuardProofs`, `ImageProofs`,
`InstrumentProofs`, `InstrumentedRunProofs`, `FunctionLayoutProofs`,
`BuildPipelineProofs` and `BlockProofs`, for every value of the constants that
satisfies the assumptions named in the modules. Every invariant and every action
property that a passing run checks is a theorem.

`FirmwareProofs`, the driver. The invariant `IInv` says, for each value of `pc`, what
the registers hold: off between `disable` and `enable`, the selected region
the requested one, faults cleared from the first access to the last. The safety
properties alone are not inductive, because none of them mentions the point the
driver is at. From it follow
`TypeCorrect`, `FaultsAreEnforced` and `CallerIsProtected`;
`SwitchCodeIsFetchable`, under `CodeSpared` (no `MPU_zero_region` request covers
the driver's code); and `Refinement`, that the register accesses implement
`MpuRegions`: the write of the base already counts as the replacement, and the
write of the attributes is a stutter.

`CallGuardProofs`. `IInv` adds two facts to the properties: a frame below the
top one (`Waiting`) is behind its call and has its own caller saved; and
what regions 1 and 2 hold at each point of the top frame (`Opened`), for example
at `"readAddr"` that region 1 is the caller's and region 2 the function's own.
The theorems hold for any set of functions, any calls and any depth. What concerns
region 1 needs nothing else: `TypeCorrect`; `SavedCaller`, that the saved values
are the caller's even where the caller itself was not opened again; and
`ClosedOnlyAtOwn`, that the running function is closed at no point but in front
of the configuration of its own region, wherever functions return from. What
concerns region 2 (`RunningIsOpen`, `BodyIsConfined`,
`TransfersThroughRegionTwo`) is proved under
`ReturnsConnected`: every function but main returns from its last block only.
`early_return` shows that the assumption is needed. `IInv` therefore states its
clauses on region 2 under the same condition.

`ImageProofs` and `InstrumentProofs`. Any number of functions, of blocks and of
instructions; `OrderAssumption` says that the module lists a function once and
none is named like a placeholder, `ProgramAssumption` what a block is before the
passes. The properties speak of the whole module, most of them of its end, so
none is inductive. `IInv` says what every block is in the middle of a pass: in
front of the iterators what the pass before left (`Found`), behind them what
this pass makes of it (`Left`), both as functions of the module the passes began
with; and of the block the iterators are in, what has been done up to the
instruction iterator and what the rest will become (`Walked`, `SetUpTo`). This
is where the passes could go wrong: an iterator that stays with its instruction
while something is inserted in front of it and behind it has to skip exactly
what was inserted. Behind the last pass every block is the last stage of what it
was, and `ImageProofs` shows that stage to be `Image`'s (`ImageIsReached`), to
give back the source when what was inserted is erased (`CodeOnlyAdded`), to have
a call for every call and a guard on both sides of it (`EveryCallGuarded`), and
to read before it configures (`CallersReadFirst`). All seven safety properties
that the run checks are theorems. `ImageProofs` cuts a block in its phis, its
code and its terminator and follows the parts through the passes. It is by
induction over the length of a block, and as the provers cannot use the
library's induction theorems, it derives a contradiction from a shortest
counterexample. After the passes have stopped with an error the properties ask
only that the program is still there, which holds because a stop changes nothing
(`StopKeeps`).

`InstrumentedRunProofs`. `Refinement`: for every program that the passes handle
(`ProgramAssumption`), every table of regions, every path and every depth, the
run of `Image` is a run of `CallGuard`. What that rests on is the order of the
inserted calls. The first part shows each block of `Code` to be a chain, in
which each instruction is followed by one that the protocol allows (`CodeRuns`):
the reads by the configuration of the function's own region, a configuration of
a callee by its call, the call by the configuration of the caller, the
restoration by the terminator. `IInv` says that each frame is at an instruction
of such a chain (`Placed`), and that a frame in front of a call has room above
it. Each inserted call, each call and each return of the code is then one step
of `CallGuard`, and the program's own instructions are none. Through an instance
of `CallGuardProofs` its theorems hold of the code: `SavedIsTheCaller` of every
program; `RunningIsOpen`, `BodyIsConfined` and `CallersConnected` under
`ReturnsAtEnd`, that in every function but main the returns are the ends of the
last blocks. `CallersConnected` states the property that `early_return`
violates: what that run's program breaks is `ReturnsAtEnd`, and nothing else can
break the property.

The proofs changed two things in the models. `ConnectBlock` chose what to insert
by a CASE whose guards overlapped for a function with one block, so that it was
left open which of them was taken; TLC took the first. And the bound on the
depth of `InstrumentedRun` was a guard on branches, which a function whose first
block makes a call passed by; `Full` bounds every run.

`FunctionLayoutProofs`. Any number of functions, any listing within
`ListingAssumption`, and any numbering of the sections. `IInv` adds that every
function is one object and in the listing (`Named`); that behind the sort the
sizes descend and each region starts where the one in front of it ends (`Laid`);
and that the linker stands where the next region starts (`Linked`). The
alignment needs the descent: a start that is aligned to a larger region and
moved on by it is aligned to every smaller one (`RegionSizesDivide`).
`FunctionsAreLinkedAtRegion` follows because the sections that the script
numbers are the ranks of the functions other than main (`LineIsRank`), so that
each line places one function. `SizesAreEncoded`: the number that `to_size`
finds for each size of a region is the one whose power of two is that size.

`BuildPipelineProofs`. `TypeOK` holds for any number of jobs, and
`ElfConsistent` and `ElfFresh` for a serial make (`Jobs = 1`; `parallel_build`
shows that two jobs break the first) and any number of events. `IInv` adds that
one recipe runs at a time and in the order of the targets (`Serial`); that what
it has read is still there (`Current`); that a target make would skip was made
of its prerequisite as it is (`Chained`), which is what lets a make trust what
an earlier one left; and that all this make is done with is of one version
(`Made`). The tables have no time of their own and no rule names them: they
belong to the right version only because `pass5` runs in every make before
anything reads them.

`FirmwareProofs`, the startup code. The properties speak of main only; `BootInv`
adds what each loop of `Reset_Handler` has already done
(`Filled`), that nothing is granted before main and that `lowest` bounds the
stack (`Counted`), and that heap_end is zero or the end of what was granted while
the stack has not run over it (`Heap`). All five safety properties hold for a
memory of any size and any requests.

`BlockProofs`, the passes. `PathsKept` and `OneCallPerBlock` compare a function
with its source, but neither says how the blocks of the two correspond while the
split walks through blocks it has just made. `BInv` does, by a map `g` from the
source's blocks to places in the layout: the part that kept the identity of block
k is at `g[k]`, and what was split off in front of it lies between `g[k - 1]` and
`g[k]` (`Places`, `Identified`). `KeptBy` adds what makes the paths the same: each
part but the last only branches to the next (`Chained`), together they hold the
code of the block (`Filling`), and the branches of the source lead to first parts
(`Aiming`). It is kept by every split, wherever it is (`SplitKeeps`), whatever the
iterators do afterwards; this is why `PathsKept` holds in every state of the pass
and not only behind it. The number of parts depends on the iterators, and is
stated apart: a function is untouched, finished, or the one the pass is in
(`Phase`), and in that one the parts in front of the block iterator are done, the
blocks behind it untouched, and the block itself is split as often as the calls
in front of the instruction iterator ask for (`Reached`, `Midway`). The count is
never reset inside a block, and after a split the iterator is at the second
instruction of a block that begins with a call: the mistakes `SplitCallInNew` and
`SplitCallRecount` break just that. `Executed_BB` needs no more than that a call
of a counter is erased again and comes behind the phis (`CountIs`, `CodeKeeps`).
No statement about reachability is needed, as `PathsKept` speaks of one block and
its branches at a time.

`BlockProofs`, the layout. `LInv` says what each list holds of each function, by
the program that runs and its loop variable: the numbers of the labels, the sizes
measured so far, the addresses, and the stores per block. `AddressesExact` is then
that the sum over the measured sizes is the sum over the blocks of the listing,
which holds because each measured size is itself the sum over the blocks between
two ends; and that the second turn over the last function appends behind what
the first has written, which the property does not read. Sums are proved from
the definition of `FoldLeft`, a choice of a recursive function that has to be
shown to exist first (`StepsExist`).

TLC has checked both invariants on the instance of the run `blocks` before they
were proved. Four things changed in the models. The bytes of a block are even:
`PaddedToRegion` does not hold of an odd one, which objdump never lists. Sums fold
from the left, so that one more number is one more addition. Calls and ends of
blocks are counted by flattening and not by `SelectSeq`, of which the provers have
no definition. And the redirection of one instruction is an operator of its own
(`Move`), since the prover does not expand an `@` inside another `EXCEPT` as SANY
and TLC do.

Only model-checked: the liveness properties `Terminates`, `FaultShown` and
`MakeRecovers`, since liveness is out of the prover's reach.

## What is not modelled

* That an access outside the regions faults. `MPU_Config` sets PRIVDEFENA and
  the firmware never leaves privileged mode, so the default memory map stays
  available behind the regions. The properties therefore say what the regions
  hold, and rely on the default map in `SwitchCodeFetchable` only, where the code does.
* Interrupts: no source of one is enabled, and their handlers are an endless
  loop.
* The code generator. `FunctionLayout` assumes that the code that is linked is
  as long as the code that was measured, though `Set_Operand` changes constants
  in between.
* The parts listed as not modelled in `PROJECT.json`, and the copy of LLVM.

## Plan

1. Done: the driver, the protocol, the passes, the run, the layout; proofs for
   the driver and the protocol.
2. Done: `BuildPipeline`, the Makefile's rules under make.
3. Done: `BlockLayout`, the block pipeline's measuring, addresses and padding.
4. Done: `BlockPasses`, `Split_BB` and `Executed_BB`.
5. Done: `Startup`, with its proofs.
6. Done: proofs of `FunctionLayout` for any number of functions, among them
   `SizesEncoded`; of `BuildPipeline` for any number of events; of `SavedIsCaller`
   without `ReturnsConnected`; of the passes, that they compute `Image` for every
   module; of the refinement of `CallGuard` by `InstrumentedRun`.
7. Done: proofs of `BlockPasses` and `BlockLayout`, for any module, any listing
   and any number of functions and blocks.
8. Left: nothing that the runs check and the prover can reach. A next step
   would be a model of the code generator between `Set_Operand` and the linker,
   to check what `FunctionLayout` assumes of it.
