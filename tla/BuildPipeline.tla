--------------------------- MODULE BuildPipeline ---------------------------
(***************************************************************************)
(* src/Makefile: what make rebuilds and when, across edits of the program, *)
(* failing recipes and new starts.                                         *)
(*                                                                         *)
(* Chains of rules that only hand a file on are one target here:           *)
(*   bc1      output.bc to output_opt1.bc; its recipe, Find_Function, also *)
(*            writes function.txt                                          *)
(*   bc4      output_opt2.bc to output_opt4.bc                             *)
(*   listing  output_opt4.o and output_opt4.txt                            *)
(*   pass5    no file: function_size.py runs in every make and writes      *)
(*            Link_addr.txt and tmp.ld                                     *)
(*   bc5      output_opt5.bc, which Set_Operand makes with Link_addr.txt   *)
(*   elf      final.elf, which ld makes with tmp.ld                        *)
(*                                                                         *)
(* The content of a file is the set of versions of the program that have   *)
(* gone into it, empty if there is no such file.                           *)
(***************************************************************************)
EXTENDS Integers, SequencesExt, FiniteSets

CONSTANTS
  Jobs,       \* make -j Jobs
  MaxEvents   \* bound on the edits, failures and cleanings together

ASSUME BuildAssumption ==
  /\ Jobs \in Nat \ {0}
  /\ MaxEvents \in Nat

Source == {"program", "startup"}
Table  == {"function.txt", "Link_addr.txt", "tmp.ld"}

(* The targets, in the order in which make comes to them.                  *)
Targets == <<"bc1", "bc4", "listing", "pass5", "bc5", "elf">>
Target  == ToSet(Targets)
File    == Source \cup Table \cup (Target \ {"pass5"})

(* Mistake: the rule of final.elf names the startup code and not the       *)
(* instrumented module.                                                    *)
ElfOfStartup(t) ==
  CASE t = "bc1"     -> {"program"}
    [] t = "bc4"     -> {"bc1"}
    [] t = "listing" -> {"bc4"}
    [] t = "pass5"   -> {"listing"}
    [] t = "bc5"     -> {"bc4"}
    [] t = "elf"     -> {"startup"}

(* The prerequisites of a rule.                                            *)
Prerequisite(t) ==
  CASE t = "bc1"     -> {"program"}
    [] t = "bc4"     -> {"bc1"}
    [] t = "listing" -> {"bc4"}
    [] t = "pass5"   -> {"listing"}
    [] t = "bc5"     -> {"bc4"}
    [] t = "elf"     -> {"bc5", "startup"}

(* What its recipe reads and what it writes.                               *)
Reads(t) ==
  CASE t = "pass5" -> {"function.txt", "listing"}
    [] t = "bc5"   -> {"bc4", "Link_addr.txt"}
    [] t = "elf"   -> {"bc5", "tmp.ld"}
    [] OTHER       -> Prerequisite(t)

Writes(t) ==
  CASE t = "pass5" -> {"Link_addr.txt", "tmp.ld"}
    [] t = "bc1"   -> {"bc1", "function.txt"}
    [] OTHER       -> {t}

Absent == {}
Half   == {-1}                     \* what objdump has written when it fails

VARIABLES
  version,   \* of the program
  content,   \* of every file
  newer,     \* the pairs <<f, g>> where f was modified after g
  make,      \* "idle", "running", "failing", or "ok" after a good end
  done,      \* the targets this make is done with
  running,   \* those whose recipes run
  input,     \* what a running recipe has read
  began,     \* the version of the program when this make started
  events     \* the edits, failures and cleanings so far

vars == <<version, content, newer, make, done, running, input, began, events>>

Newer(f, g) == <<f, g>> \in newer

(* f is modified.                                                          *)
Touch(f) ==
  newer' = {p \in newer : f \notin {p[1], p[2]}}
             \cup {<<f, g>> : g \in File \ {f}}

Event == events < MaxEvents /\ events' = events + 1

(* The tables of an earlier program are in the repository.                 *)
Init ==
  /\ version = 1
  /\ content = [f \in File |-> CASE f \in Table   -> {0}
                                 [] f \in Source  -> {1}
                                 [] OTHER         -> Absent]
  /\ newer = {}
  /\ make = "idle"
  /\ done = {} /\ running = {}
  /\ input = [t \in Target |-> {}]
  /\ began = 0
  /\ events = 0
-----------------------------------------------------------------------------
Start ==                           \* make final
  /\ make \in {"idle", "ok"}
  /\ make' = "running"
  /\ done' = {}
  /\ began' = version
  /\ UNCHANGED <<version, content, newer, running, input, events>>

(* make comes to the first target whose prerequisites are done.            *)
Ready(t) ==
  /\ t \notin done \cup running
  /\ Prerequisite(t) \subseteq done \cup Source

Before(t) == {Targets[j] : j \in {k \in DOMAIN Targets :
                                    \A q \in 1 .. k : Targets[q] # t}}

(* Mistake: make starts a recipe without waiting for a free job.           *)
ComesToAtOnce(t) ==
  /\ make = "running"
  /\ Ready(t)

ComesTo(t) ==
  /\ make = "running"
  /\ Cardinality(running) < Jobs
  /\ Ready(t)
  /\ \A u \in Before(t) : ~Ready(u)

(* Mistake: pass5 counts as made once its tables are there.                *)
OutOfDateOnce(t) ==
  IF t = "pass5"
    THEN content["Link_addr.txt"] = Absent
    ELSE \/ content[t] = Absent
         \/ \E p \in Prerequisite(t) : Newer(p, t)

OutOfDate(t) ==
  t # "pass5" => \/ content[t] = Absent
                 \/ \E p \in Prerequisite(t) : Newer(p, t)

(* Mistake: make looks at a target that is up to date again and again.     *)
SkipForgotten(t) ==
  /\ ComesTo(t)
  /\ ~OutOfDate(t)
  /\ UNCHANGED vars

Skip(t) ==
  /\ ComesTo(t)
  /\ ~OutOfDate(t)
  /\ done' = done \cup {t}
  /\ UNCHANGED <<version, content, newer, make, running, input, began, events>>

Run(t) ==
  /\ ComesTo(t)
  /\ OutOfDate(t)
  /\ running' = running \cup {t}
  /\ input' = [input EXCEPT ![t] = UNION {content[f] : f \in Reads(t)}]
  /\ UNCHANGED <<version, content, newer, make, done, began, events>>

(* function_size.py stops at a name that the listing does not have. Half a  *)
(* listing may have them all, with less than all of the last function.     *)
MayLackNames(t) == t = "pass5" /\ input[t] \cap Half # {}

Finish(t) ==
  /\ t \in running
  /\ content' = [f \in File |-> IF f \in Writes(t) THEN input[t] ELSE content[f]]
  /\ IF t = "pass5" THEN UNCHANGED newer ELSE Touch(t)
  /\ running' = running \ {t}
  /\ done' = done \cup {t}
  /\ UNCHANGED <<version, make, input, began, events>>

(* Find_Function closes function.txt before opt writes the module, and     *)
(* function_size.py has closed Link_addr.txt when it comes to tmp.ld.      *)
WriteTable(t) ==
  /\ t \in running
  /\ \E f \in Writes(t) \cap {"function.txt", "Link_addr.txt"} :
       /\ content[f] # input[t]
       /\ content' = [content EXCEPT ![f] = input[t]]
  /\ UNCHANGED <<version, newer, make, done, running, input, began, events>>

(* make starts no other recipe and waits for those that run.               *)
GiveUp(t) ==
  /\ running' = running \ {t}
  /\ make' = "failing"
  /\ UNCHANGED <<version, done, input, began>>

MeasureFails ==
  /\ "pass5" \in running
  /\ MayLackNames("pass5")
  /\ GiveUp("pass5")
  /\ UNCHANGED <<content, newer, events>>

(* A recipe that fails or is interrupted leaves its target as it was or    *)
(* removes it; only objdump writes through the shell, which leaves what    *)
(* has been written so far.                                                *)
Fail(t) ==
  /\ t \in running
  /\ Event
  /\ \/ UNCHANGED <<content, newer>>
     \/ /\ t # "pass5"
        /\ content' = [content EXCEPT ![t] = Absent]
        /\ UNCHANGED newer
     \/ /\ t = "listing"
        /\ content' = [content EXCEPT ![t] = Half]
        /\ Touch(t)
  /\ GiveUp(t)

Failed ==
  /\ make = "failing" /\ running = {}
  /\ make' = "idle"
  /\ UNCHANGED <<version, content, newer, done, running, input, began, events>>

Done ==
  /\ make = "running" /\ done = Target
  /\ make' = "ok"
  /\ UNCHANGED <<version, content, newer, done, running, input, began, events>>

(* The sources are not edited while they are being compiled.               *)
Edit ==
  /\ Event
  /\ "bc1" \notin running
  /\ version' = version + 1
  /\ content' = [content EXCEPT !["program"] = {version'}]
  /\ Touch("program")
  /\ UNCHANGED <<make, done, running, input, began>>

EditStartup ==
  /\ Event
  /\ "elf" \notin running
  /\ Touch("startup")
  /\ UNCHANGED <<version, content, make, done, running, input, began>>

(* make clean keeps the tables.                                            *)
Clean ==
  /\ make \in {"idle", "ok"}
  /\ Event
  /\ make' = "idle"
  /\ content' = [f \in File |-> IF f \in Target THEN Absent ELSE content[f]]
  /\ UNCHANGED <<version, newer, done, running, input, began>>

MakeStep ==
  \/ \E t \in Target : Skip(t) \/ Run(t) \/ WriteTable(t) \/ Finish(t)
  \/ MeasureFails
  \/ Failed
  \/ Done

Next ==
  \/ Start
  \/ MakeStep
  \/ \E t \in Target : Fail(t)
  \/ Edit
  \/ EditStartup
  \/ Clean

Spec == Init /\ [][Next]_vars

(* A make that has been started goes on; nobody has to start one.          *)
FairSpec == Spec /\ WF_vars(MakeStep)
-----------------------------------------------------------------------------
TypeOK ==
  /\ version \in 1 .. events + 1
  /\ content \in [File -> SUBSET (-1 .. version)]
  /\ newer \in SUBSET (File \X File)
  /\ make \in {"idle", "running", "failing", "ok"}
  /\ done \in SUBSET Target /\ running \in SUBSET Target
  /\ done \cap running = {}
  /\ Cardinality(running) <= Jobs
  /\ input \in [Target -> SUBSET (-1 .. version)]
  /\ began \in 0 .. version
  /\ events \in 0 .. MaxEvents

(* A final.elf is made of one program: the code, the regions Set_Operand   *)
(* wrote into it and the script it was placed by belong together, whatever *)
(* failed, was edited or removed before. That the listing was whole is     *)
(* ElfMeasured.                                                            *)
ElfConsistent == Cardinality(content["elf"] \ Half) <= 1

(* When make ends well, final.elf is of the program as it was when make    *)
(* started or later, even after a make that failed half way.               *)
ElfFresh ==
  make = "ok" => content["elf"] \ Half \in {{v} : v \in began .. version}

(* No part of a final.elf was computed from half a listing, so that every  *)
(* function's size has been checked, as the heading of pass5 says.         *)
ElfMeasured == content["elf"] \cap Half = {}

(* A make that nothing disturbs any more ends well, whatever state earlier *)
(* ones have left, unless half a listing counts as up to date.             *)
MakeRecovers ==
  (make = "running" /\ events = MaxEvents /\ content["listing"] # Half)
    ~> (make = "ok" /\ content["elf"] \in {{v} : v \in began .. version})
=============================================================================
