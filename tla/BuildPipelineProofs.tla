------------------------ MODULE BuildPipelineProofs -------------------------
(***************************************************************************)
(* What BuildPipeline's run checks of a serial make for three events, for  *)
(* any number of edits, failures and cleanings, and the invariant it rests *)
(* on.                                                                     *)
(***************************************************************************)
EXTENDS BuildPipeline, FiniteSetTheorems, TLAPS

(* The part of a file's content that is of a program.                      *)
Whole(f) == content[f] \ Half

(* A serial make runs one recipe at a time, only while it goes on, and     *)
(* comes to the targets in their order.                                    *)
Serial ==
  /\ \A t, u \in running : t = u
  /\ make # "running" => running = {}
  /\ make \in {"running", "ok"} => \A t \in done \cup running : Before(t) \subseteq done
  /\ make = "ok" => done = Target

(* A recipe that runs is due, and what it has read is still there.         *)
Current ==
  \A t \in running :
    OutOfDate(t) /\ input[t] = UNION {content[f] : f \in Reads(t)}

(* A target that make would skip has been made of its prerequisite as it   *)
(* is; bc1 is the program as it is, and so is function.txt.                *)
Chained ==
  /\ content["program"] = {version}
  /\ content["bc1"] # Absent /\ ~Newer("program", "bc1") =>
       content["bc1"] = {version} /\ content["function.txt"] = {version}
  /\ content["bc4"] # Absent /\ content["bc1"] # Absent /\ ~Newer("bc1", "bc4") =>
       content["bc4"] = content["bc1"]
  /\ content["listing"] # Absent /\ content["bc4"] # Absent
     /\ ~Newer("bc4", "listing") => content["listing"] \in {content["bc4"], Half}
  /\ content["bc5"] # Absent /\ content["bc4"] # Absent /\ ~Newer("bc4", "bc5") =>
       Whole("bc5") = content["bc4"]
  /\ content["elf"] # Absent /\ content["bc5"] # Absent /\ ~Newer("bc5", "elf") =>
       Whole("elf") = Whole("bc5")

(* What this make is done with is of the one version w.                    *)
MadeOf(w) ==
  /\ "bc1" \in done => content["bc1"] = {w} /\ content["function.txt"] = {w}
  /\ "bc4" \in done => content["bc4"] = {w}
  /\ "listing" \in done => content["listing"] \in {{w}, Half}
  /\ "pass5" \in done => Whole("Link_addr.txt") = {w} /\ Whole("tmp.ld") = {w}
  /\ "bc5" \in done => Whole("bc5") = {w}
  /\ "elf" \in done => Whole("elf") = {w}

Made == make \in {"running", "ok"} => \E w \in began .. version : MadeOf(w)

ElfOfOne == \E v \in Int : Whole("elf") \subseteq {v}

IInv == TypeOK /\ Serial /\ Current /\ Chained /\ Made /\ ElfOfOne

-----------------------------------------------------------------------------
LEMMA Shape ==
  /\ Target = {"bc1", "bc4", "listing", "pass5", "bc5", "elf"}
  /\ File = {"program", "startup", "function.txt", "Link_addr.txt", "tmp.ld",
             "bc1", "bc4", "listing", "bc5", "elf"}
<1>1. Target = {"bc1", "bc4", "listing", "pass5", "bc5", "elf"}
  BY DEF Target, ToSet, Targets
<1> QED
  BY <1>1 DEF File, Source, Table

(* The order of the targets.                                               *)
LEMMA Order ==
  /\ Before("bc1") = {}
  /\ Before("bc4") = {"bc1"}
  /\ Before("listing") = {"bc1", "bc4"}
  /\ Before("pass5") = {"bc1", "bc4", "listing"}
  /\ Before("bc5") = {"bc1", "bc4", "listing", "pass5"}
  /\ Before("elf") = {"bc1", "bc4", "listing", "pass5", "bc5"}
<1> DEFINE Ahead(t) == {k \in DOMAIN Targets : \A q \in 1 .. k : Targets[q] # t}
<1>1. DOMAIN Targets = 1 .. 6
  BY DEF Targets
<1>2. /\ Targets[1] = "bc1" /\ Targets[2] = "bc4" /\ Targets[3] = "listing"
      /\ Targets[4] = "pass5" /\ Targets[5] = "bc5" /\ Targets[6] = "elf"
  BY DEF Targets
<1>3. /\ Ahead("bc1") = {} /\ Ahead("bc4") = {1} /\ Ahead("listing") = {1, 2}
      /\ Ahead("pass5") = {1, 2, 3} /\ Ahead("bc5") = {1, 2, 3, 4}
      /\ Ahead("elf") = {1, 2, 3, 4, 5}
  BY <1>1, <1>2
<1> QED
  BY <1>2, <1>3 DEF Before

LEMMA Touched ==
  ASSUME newer \in SUBSET (File \X File), NEW f \in File, Touch(f)
  PROVE  /\ newer' \in SUBSET (File \X File)
         /\ \A g \in File : g # f => Newer(f, g)' /\ ~Newer(g, f)'
         /\ \A g, h \in File : g # f /\ h # f => Newer(g, h)' = Newer(g, h)
<1>1. newer' = {p \in newer : f \notin {p[1], p[2]}}
                 \cup {<<f, g>> : g \in File \ {f}}
  BY DEF Touch
<1>2. newer' \in SUBSET (File \X File)
  BY <1>1
<1>3. \A g \in File : g # f => <<f, g>> \in newer' /\ <<g, f>> \notin newer'
  BY <1>1
<1>4. \A g, h \in File : g # f /\ h # f =>
        (<<g, h>> \in newer' <=> <<g, h>> \in newer)
  BY <1>1
<1> QED
  BY <1>2, <1>3, <1>4 DEF Newer

LEMMA TargetFinite == IsFiniteSet(Target)
<1>1. IsFiniteSet({"bc1"})
  BY FS_Singleton
<1>2. IsFiniteSet({"bc1"} \cup {"bc4"})
  BY <1>1, FS_AddElement
<1>3. IsFiniteSet({"bc1"} \cup {"bc4"} \cup {"listing"})
  BY <1>2, FS_AddElement
<1>4. IsFiniteSet({"bc1"} \cup {"bc4"} \cup {"listing"} \cup {"pass5"})
  BY <1>3, FS_AddElement
<1>5. IsFiniteSet({"bc1"} \cup {"bc4"} \cup {"listing"} \cup {"pass5"} \cup {"bc5"})
  BY <1>4, FS_AddElement
<1>6. IsFiniteSet({"bc1"} \cup {"bc4"} \cup {"listing"} \cup {"pass5"} \cup {"bc5"}
                    \cup {"elf"})
  BY <1>5, FS_AddElement
<1>7. Target = {"bc1"} \cup {"bc4"} \cup {"listing"} \cup {"pass5"} \cup {"bc5"}
                 \cup {"elf"}
  BY Shape
<1> QED
  BY <1>6, <1>7

-----------------------------------------------------------------------------
(* The types, for any number of jobs.                                      *)
LEMMA TypeInit == Init => TypeOK
<1> SUFFICES ASSUME Init PROVE TypeOK
  OBVIOUS
<1>1. content \in [File -> SUBSET (-1 .. version)]
  BY DEF Init, Absent
<1>2. Cardinality(running) <= Jobs
  BY FS_EmptySet, BuildAssumption DEF Init
<1> QED
  BY <1>1, <1>2, BuildAssumption DEF Init, TypeOK

(* What a recipe reads is in the range of what files hold.                 *)
LEMMA ReadsTyped ==
  ASSUME TypeOK, NEW t \in Target
  PROVE  UNION {content[f] : f \in Reads(t)} \in SUBSET (-1 .. version)
<1>1. Reads(t) \subseteq File
  BY Shape DEF Reads, Prerequisite
<1> QED
  BY <1>1 DEF TypeOK

LEMMA TypeStep == TypeOK /\ [Next]_vars => TypeOK'
<1> SUFFICES ASSUME TypeOK, [Next]_vars PROVE TypeOK'
  OBVIOUS
<1> USE BuildAssumption
<1>1. IsFiniteSet(running) /\ Cardinality(running) \in Nat
  BY TargetFinite, FS_Subset, FS_CardinalityType DEF TypeOK
<1>2. ASSUME NEW t PROVE Cardinality(running \ {t}) <= Jobs
  <2>1. Cardinality(running) <= Jobs
    BY DEF TypeOK
  <2> QED
    BY <1>1, <2>1, FS_RemoveElement
<1>3. CASE Start
  BY <1>3 DEF Start, TypeOK
<1>4. ASSUME NEW t \in Target, Skip(t) PROVE TypeOK'
  BY <1>4 DEF Skip, ComesTo, Ready, TypeOK
<1>5. ASSUME NEW t \in Target, Run(t) PROVE TypeOK'
  <2>1. Cardinality(running \cup {t}) <= Jobs
    <3>1. t \notin running /\ Cardinality(running) < Jobs
      BY <1>5 DEF Run, ComesTo, Ready
    <3>2. Cardinality(running \cup {t}) = Cardinality(running) + 1
      BY <1>1, <3>1, FS_AddElement
    <3> QED
      BY <1>1, <3>1, <3>2
  <2>2. input' \in [Target -> SUBSET (-1 .. version)]
    BY <1>5, ReadsTyped DEF Run, TypeOK
  <2> QED
    BY <1>5, <2>1, <2>2 DEF Run, ComesTo, Ready, TypeOK
<1>6. ASSUME NEW t \in Target, WriteTable(t) PROVE TypeOK'
  <2>1. content' \in [File -> SUBSET (-1 .. version)]
    BY <1>6 DEF WriteTable, TypeOK
  <2> QED
    BY <1>6, <2>1 DEF WriteTable, TypeOK
<1>7. ASSUME NEW t \in Target, Finish(t) PROVE TypeOK'
  <2>1. content' \in [File -> SUBSET (-1 .. version)]
    BY <1>7 DEF Finish, TypeOK
  <2>2. newer' \in SUBSET (File \X File)
    <3>1. CASE t = "pass5"
      BY <1>7, <3>1 DEF Finish, TypeOK
    <3>2. CASE t # "pass5"
      BY <1>7, <3>2, Shape, Touched DEF Finish, TypeOK
    <3> QED
      BY <3>1, <3>2
  <2>3. Cardinality(running') <= Jobs
    BY <1>2, <1>7 DEF Finish
  <2> QED
    BY <1>7, <2>1, <2>2, <2>3 DEF Finish, TypeOK
<1>8. CASE MeasureFails
  <2>1. Cardinality(running') <= Jobs
    BY <1>2, <1>8 DEF MeasureFails, GiveUp
  <2> QED
    BY <1>8, <2>1 DEF MeasureFails, GiveUp, TypeOK
<1>9. CASE Failed \/ Done \/ UNCHANGED vars
  BY <1>9 DEF Failed, Done, vars, TypeOK
<1>10. ASSUME NEW t \in Target, Fail(t) PROVE TypeOK'
  <2>1. content' \in [File -> SUBSET (-1 .. version)]
    BY <1>10 DEF Fail, TypeOK, Absent, Half
  <2>2. newer' \in SUBSET (File \X File)
    <3>1. CASE UNCHANGED newer
      BY <3>1 DEF TypeOK
    <3>2. CASE t = "listing" /\ Touch(t)
      BY <3>2, Shape, Touched DEF TypeOK
    <3> QED
      BY <1>10, <3>1, <3>2 DEF Fail
  <2>3. Cardinality(running') <= Jobs
    BY <1>2, <1>10 DEF Fail, GiveUp
  <2> QED
    BY <1>10, <2>1, <2>2, <2>3 DEF Fail, Event, GiveUp, TypeOK
<1>11. CASE Edit
  <2>1. newer' \in SUBSET (File \X File)
    BY <1>11, Shape, Touched DEF Edit, TypeOK
  <2>2. version \in Int /\ version' = version + 1 /\ version >= 1
    BY <1>11 DEF Edit, TypeOK
  <2>3. -1 .. version \subseteq -1 .. version' /\ {version'} \subseteq -1 .. version'
    BY <2>2
  <2>4. content' \in [File -> SUBSET (-1 .. version')]
    BY <1>11, <2>3 DEF Edit, TypeOK
  <2>5. input' \in [Target -> SUBSET (-1 .. version')]
    BY <1>11, <2>3 DEF Edit, TypeOK
  <2> QED
    BY <1>11, <2>1, <2>2, <2>4, <2>5 DEF Edit, Event, TypeOK
<1>12. CASE EditStartup
  <2>1. newer' \in SUBSET (File \X File)
    BY <1>12, Shape, Touched DEF EditStartup, TypeOK
  <2> QED
    BY <1>12, <2>1 DEF EditStartup, Event, TypeOK
<1>13. CASE Clean
  <2>1. content' \in [File -> SUBSET (-1 .. version)]
    BY <1>13 DEF Clean, TypeOK, Absent
  <2> QED
    BY <1>13, <2>1 DEF Clean, Event, TypeOK
<1> QED
  BY <1>3, <1>4, <1>5, <1>6, <1>7, <1>8, <1>9, <1>10, <1>11, <1>12, <1>13
     DEF Next, MakeStep

-----------------------------------------------------------------------------
(* From here on make runs one job.                                         *)
LEMMA SerialInit == Init => Serial /\ Current /\ Chained /\ Made /\ ElfOfOne
<1> SUFFICES ASSUME Init PROVE Serial /\ Current /\ Chained /\ Made /\ ElfOfOne
  OBVIOUS
<1>1. /\ running = {} /\ make = "idle" /\ version = 1
      /\ content["program"] = {1}
      /\ \A f \in {"bc1", "bc4", "listing", "bc5", "elf"} : content[f] = Absent
  BY Shape DEF Init, Table, Source
<1> QED
  BY <1>1 DEF Serial, Current, Chained, Made, ElfOfOne, Whole, Absent

(* make comes to a target when no recipe runs and everything in front of   *)
(* it is done.                                                             *)
LEMMA ComesInOrder ==
  ASSUME Jobs = 1, IInv, NEW t \in Target, ComesTo(t)
  PROVE  running = {} /\ t \notin done /\ Before(t) \subseteq done /\ make = "running"
<1>1. running = {}
  <2>1. IsFiniteSet(running) /\ Cardinality(running) \in Nat
    BY TargetFinite, FS_Subset, FS_CardinalityType DEF IInv, TypeOK
  <2>2. Cardinality(running) = 0
    BY <2>1 DEF ComesTo
  <2> QED
    BY <2>1, <2>2, FS_EmptySet
<1>2. /\ \A u \in Before(t) : ~Ready(u)
      /\ t \notin done /\ make = "running"
  BY DEF ComesTo, Ready
<1>3. "bc1" \in Before(t) => "bc1" \in done
  BY <1>1, <1>2 DEF Ready, Prerequisite, Source
<1>4. "bc4" \in Before(t) /\ "bc1" \in done => "bc4" \in done
  BY <1>1, <1>2 DEF Ready, Prerequisite, Source
<1>5. "listing" \in Before(t) /\ "bc4" \in done => "listing" \in done
  BY <1>1, <1>2 DEF Ready, Prerequisite, Source
<1>6. "pass5" \in Before(t) /\ "listing" \in done => "pass5" \in done
  BY <1>1, <1>2 DEF Ready, Prerequisite, Source
<1>7. "bc5" \in Before(t) /\ "bc4" \in done => "bc5" \in done
  BY <1>1, <1>2 DEF Ready, Prerequisite, Source
<1>8. t \in {"bc1", "bc4", "listing", "pass5", "bc5", "elf"}
  BY Shape
<1>9. Before(t) \subseteq done
  BY <1>3, <1>4, <1>5, <1>6, <1>7, <1>8, Order
<1> QED
  BY <1>1, <1>2, <1>9

(* A target that runs has everything in front of it done and is not done.  *)
LEMMA RunsInOrder ==
  ASSUME IInv, NEW t \in running
  PROVE  /\ t \in {"bc1", "bc4", "listing", "pass5", "bc5", "elf"}
         /\ running = {t} /\ t \notin done /\ make = "running"
         /\ Before(t) \subseteq done
BY Shape DEF IInv, TypeOK, Serial

(* What is in front of bc1, the first target, is nothing.                  *)
LEMMA FirstIsFirst ==
  ASSUME IInv, make \in {"running", "ok"}, "bc1" \notin done
  PROVE  done = {}
BY Shape, Order DEF IInv, TypeOK, Serial

(* Versions are no marks of half a listing.                                *)
LEMMA WholeVersions ==
  ASSUME TypeOK, NEW w \in began .. version
  PROVE  w \in Int /\ w # -1 /\ {w} \ Half = {w}
BY DEF TypeOK, Half

LEMMA Skips ==
  ASSUME Jobs = 1, IInv, NEW t \in Target, Skip(t)
  PROVE  Serial' /\ Current' /\ Chained' /\ Made' /\ ElfOfOne'
<1>1. /\ running = {} /\ t \notin done /\ Before(t) \subseteq done
      /\ make = "running" /\ ~OutOfDate(t) /\ done' = done \cup {t}
      /\ UNCHANGED <<version, content, newer, make, running, input, began>>
  BY ComesInOrder DEF Skip
<1>2. TypeOK /\ Serial /\ Current /\ Chained /\ Made /\ ElfOfOne
  BY DEF IInv
<1>3. Serial' /\ Current' /\ Chained' /\ ElfOfOne'
  BY <1>1, <1>2 DEF Serial, Current, Chained, ElfOfOne, Whole, Newer
<1>4. t \in {"bc1", "bc4", "listing", "bc5", "elf"}
  BY <1>1, Shape DEF OutOfDate
<1>5. /\ content[t] # Absent
      /\ \A p \in Prerequisite(t) : ~Newer(p, t)
  BY <1>1, <1>4 DEF OutOfDate
<1>6. Made'
  <2>1. CASE t = "bc1"
    <3>1. done = {}
      BY <1>1, <2>1, FirstIsFirst
    <3>2. MadeOf(version)'
      BY <1>1, <1>2, <1>5, <2>1, <3>1 DEF MadeOf, Chained, Prerequisite
    <3>3. version \in began .. version
      BY <1>2 DEF TypeOK
    <3> QED
      BY <1>1, <3>2, <3>3 DEF Made
  <2>2. CASE t # "bc1"
    <3>1. PICK w \in began .. version : MadeOf(w)
      BY <1>1, <1>2 DEF Made
    <3>2. w \in Int /\ {w} # {} /\ {w} # Half /\ {w} \ Half = {w}
      BY <1>2, WholeVersions DEF Half
    <3>3. t = "bc4" => content["bc4"] = {w}
      BY <1>1, <1>2, <1>5, <3>1, <3>2, Order DEF MadeOf, Chained, Prerequisite, Absent
    <3>4. t = "listing" => content["listing"] \in {{w}, Half}
      BY <1>1, <1>2, <1>5, <3>1, <3>2, Order DEF MadeOf, Chained, Prerequisite, Absent
    <3>5. t = "bc5" => Whole("bc5") = {w}
      BY <1>1, <1>2, <1>5, <3>1, <3>2, Order DEF MadeOf, Chained, Prerequisite, Absent
    <3>6. t = "elf" => Whole("elf") = {w}
      <4>1. Whole("bc5") = {w} => content["bc5"] # Absent
        BY DEF Whole, Absent
      <4> QED
        BY <1>1, <1>2, <1>5, <3>1, <3>2, <4>1, Order
           DEF MadeOf, Chained, Prerequisite
    <3>7. MadeOf(w)'
      BY <1>1, <1>4, <2>2, <3>1, <3>3, <3>4, <3>5, <3>6 DEF MadeOf, Whole
    <3> QED
      BY <1>1, <3>1, <3>7 DEF Made
  <2> QED
    BY <2>1, <2>2
<1> QED
  BY <1>3, <1>6

LEMMA Runs ==
  ASSUME Jobs = 1, IInv, NEW t \in Target, Run(t)
  PROVE  Serial' /\ Current' /\ Chained' /\ Made' /\ ElfOfOne'
<1>1. /\ running = {} /\ t \notin done /\ Before(t) \subseteq done
      /\ make = "running" /\ OutOfDate(t) /\ running' = {t}
      /\ UNCHANGED <<version, content, newer, make, done, began>>
  BY ComesInOrder DEF Run
<1>2. input'[t] = UNION {content[f] : f \in Reads(t)}
  BY DEF Run, IInv, TypeOK
<1>3. Current'
  BY <1>1, <1>2 DEF Current, OutOfDate, Newer
<1>4. Serial'
  BY <1>1 DEF IInv, Serial
<1>5. Chained' /\ Made' /\ ElfOfOne'
  BY <1>1 DEF IInv, Chained, Made, MadeOf, ElfOfOne, Whole, Newer
<1> QED
  BY <1>3, <1>4, <1>5

LEMMA WritesTable ==
  ASSUME IInv, NEW t \in Target, WriteTable(t)
  PROVE  Serial' /\ Current' /\ Chained' /\ Made' /\ ElfOfOne'
<1>1. /\ t \in running /\ UNCHANGED <<version, newer, make, done, running, input, began>>
  BY DEF WriteTable
<1>2. TypeOK /\ Serial /\ Current /\ Chained /\ Made /\ ElfOfOne
  BY DEF IInv
<1>3. running = {t} /\ t \notin done /\ make = "running"
  BY <1>1, RunsInOrder
<1>4. PICK f \in Writes(t) \cap {"function.txt", "Link_addr.txt"} :
        content' = [content EXCEPT ![f] = input[t]]
  BY DEF WriteTable
<1>5. \A g \in File : g # f => content'[g] = content[g]
  BY <1>2, <1>4 DEF TypeOK
<1>6. \/ t = "bc1" /\ f = "function.txt"
      \/ t = "pass5" /\ f = "Link_addr.txt"
  BY <1>4, Shape DEF Writes
<1>7. Serial'
  BY <1>1, <1>2 DEF Serial
<1>8. Current'
  <2>1. OutOfDate(t) /\ input[t] = UNION {content[g] : g \in Reads(t)}
    BY <1>1, <1>2 DEF Current
  <2>2. \A g \in Reads(t) : content'[g] = content[g]
    BY <1>5, <1>6, Shape DEF Reads, Prerequisite
  <2>3. OutOfDate(t)'
    BY <1>1, <1>5, <1>6, <2>1, Shape DEF OutOfDate, Newer
  <2> QED
    BY <1>1, <1>3, <2>1, <2>2, <2>3 DEF Current
<1>9. Chained'
  <2>1. \A g \in {"program", "bc1", "bc4", "listing", "bc5", "elf"} :
          content'[g] = content[g]
    BY <1>5, <1>6, Shape
  <2>2. t = "bc1" => content["bc1"] = Absent \/ Newer("program", "bc1")
    BY <1>1, <1>2 DEF Current, OutOfDate, Prerequisite
  <2>3. t # "bc1" => content'["function.txt"] = content["function.txt"]
    BY <1>5, <1>6, Shape
  <2> QED
    BY <1>1, <1>2, <2>1, <2>2, <2>3 DEF Chained, Whole, Newer
<1>10. Made'
  <2>1. PICK w \in began .. version : MadeOf(w)
    BY <1>2, <1>3 DEF Made
  <2>2. \A g \in {"bc1", "bc4", "listing", "bc5", "elf", "tmp.ld"} :
          content'[g] = content[g]
    BY <1>5, <1>6, Shape
  <2>3. CASE t = "bc1"
    <3>1. done = {}
      BY <1>3, <2>3, FirstIsFirst
    <3> QED
      BY <1>1, <2>1, <3>1 DEF Made, MadeOf
  <2>4. CASE t = "pass5"
    <3>1. content'["function.txt"] = content["function.txt"]
      BY <1>5, <1>6, <2>4, Shape
    <3>2. MadeOf(w)'
      BY <1>1, <1>3, <2>1, <2>2, <2>4, <3>1 DEF MadeOf, Whole
    <3> QED
      BY <1>1, <2>1, <3>2 DEF Made
  <2> QED
    BY <1>6, <2>3, <2>4
<1>11. ElfOfOne'
  BY <1>2, <1>5, <1>6, Shape DEF ElfOfOne, Whole
<1> QED
  BY <1>7, <1>8, <1>9, <1>10, <1>11

LEMMA Finishes ==
  ASSUME IInv, NEW t \in Target, Finish(t)
  PROVE  Serial' /\ Current' /\ Chained' /\ Made' /\ ElfOfOne'
<1>1. /\ t \in running /\ running' = running \ {t} /\ done' = done \cup {t}
      /\ UNCHANGED <<version, make, input, began>>
  BY DEF Finish
<1>2. TypeOK /\ Serial /\ Current /\ Chained /\ Made /\ ElfOfOne
  BY DEF IInv
<1>3. running = {t} /\ t \notin done /\ make = "running" /\ Before(t) \subseteq done
  BY <1>1, RunsInOrder
<1>4. \A g \in File : content'[g] = IF g \in Writes(t) THEN input[t] ELSE content[g]
  BY DEF Finish
<1>5. input[t] = UNION {content[g] : g \in Reads(t)}
  BY <1>1, <1>2 DEF Current
<1>6. Serial' /\ Current'
  <2>1. Serial'
    BY <1>1, <1>2, <1>3 DEF Serial
  <2> QED
    BY <1>1, <1>3, <2>1 DEF Current
<1>7. PICK w \in began .. version : MadeOf(w)
  BY <1>2, <1>3 DEF Made
<1>8. w \in Int /\ {w} # {} /\ {w} \ Half = {w} /\ Half \ Half = {}
  BY <1>2, <1>7, WholeVersions
<1>9. t # "pass5" =>
        /\ \A g \in File : g # t => Newer(t, g)' /\ ~Newer(g, t)'
        /\ \A g, h \in File : g # t /\ h # t => Newer(g, h)' = Newer(g, h)
  BY <1>2, Shape, Touched DEF Finish, TypeOK
<1>10. CASE t = "bc1"
  <2>1. input[t] = {version}
    BY <1>2, <1>5, <1>10 DEF Reads, Prerequisite, Chained
  <2>2. /\ content'["bc1"] = {version} /\ content'["function.txt"] = {version}
        /\ \A g \in {"program", "bc4", "listing", "bc5", "elf"} :
             content'[g] = content[g]
    BY <1>4, <1>10, <2>1, Shape DEF Writes
  <2>3. done = {}
    BY <1>3, <1>10, FirstIsFirst
  <2>4. Chained'
    BY <1>1, <1>2, <1>9, <1>10, <2>2, Shape DEF Chained, Whole
  <2>5. MadeOf(version)' /\ version \in began .. version
    BY <1>1, <1>2, <1>10, <2>2, <2>3 DEF MadeOf, TypeOK
  <2> QED
    BY <1>1, <1>2, <1>6, <2>2, <2>4, <2>5 DEF Made, ElfOfOne, Whole
<1>11. CASE t = "bc4"
  <2>1. content["bc1"] = {w} /\ input[t] = {w}
    BY <1>3, <1>5, <1>7, <1>11, Order DEF Reads, Prerequisite, MadeOf
  <2>2. /\ content'["bc4"] = {w}
        /\ \A g \in {"program", "bc1", "listing", "bc5", "elf",
                     "function.txt", "Link_addr.txt", "tmp.ld"} :
             content'[g] = content[g]
    BY <1>4, <1>11, <2>1, Shape DEF Writes
  <2>3. Chained'
    BY <1>1, <1>2, <1>9, <1>11, <2>1, <2>2, Shape DEF Chained, Whole
  <2>4. MadeOf(w)'
    BY <1>1, <1>7, <1>11, <2>2 DEF MadeOf, Whole
  <2> QED
    BY <1>1, <1>2, <1>6, <1>7, <2>2, <2>3, <2>4 DEF Made, ElfOfOne, Whole
<1>12. CASE t = "listing"
  <2>1. content["bc4"] = {w} /\ input[t] = {w}
    BY <1>3, <1>5, <1>7, <1>12, Order DEF Reads, Prerequisite, MadeOf
  <2>2. /\ content'["listing"] = {w}
        /\ \A g \in {"program", "bc1", "bc4", "bc5", "elf",
                     "function.txt", "Link_addr.txt", "tmp.ld"} :
             content'[g] = content[g]
    BY <1>4, <1>12, <2>1, Shape DEF Writes
  <2>3. Chained'
    BY <1>1, <1>2, <1>9, <1>12, <2>1, <2>2, Shape DEF Chained, Whole
  <2>4. MadeOf(w)'
    BY <1>1, <1>7, <1>12, <2>2 DEF MadeOf, Whole
  <2> QED
    BY <1>1, <1>2, <1>6, <1>7, <2>2, <2>3, <2>4 DEF Made, ElfOfOne, Whole
<1>13. CASE t = "pass5"
  <2>1. /\ content["function.txt"] = {w} /\ content["listing"] \in {{w}, Half}
        /\ input[t] = content["function.txt"] \cup content["listing"]
    BY <1>3, <1>5, <1>7, <1>13, Order DEF Reads, MadeOf
  <2>2. input[t] \ Half = {w}
    BY <1>8, <2>1
  <2>3. /\ content'["Link_addr.txt"] = input[t] /\ content'["tmp.ld"] = input[t]
        /\ \A g \in {"program", "bc1", "bc4", "listing", "bc5", "elf", "function.txt"} :
             content'[g] = content[g]
    BY <1>4, <1>13, Shape DEF Writes
  <2>4. Chained'
    BY <1>1, <1>2, <1>13, <2>3 DEF Finish, Chained, Whole, Newer
  <2>5. MadeOf(w)'
    BY <1>1, <1>7, <1>13, <2>2, <2>3 DEF MadeOf, Whole
  <2> QED
    BY <1>1, <1>2, <1>6, <1>7, <2>3, <2>4, <2>5 DEF Made, ElfOfOne, Whole
<1>14. CASE t = "bc5"
  <2>1. /\ content["bc4"] = {w} /\ Whole("Link_addr.txt") = {w}
        /\ input[t] = content["bc4"] \cup content["Link_addr.txt"]
    BY <1>3, <1>5, <1>7, <1>14, Order DEF Reads, MadeOf
  <2>2. input[t] \ Half = {w}
    BY <1>8, <2>1 DEF Whole
  <2>3. /\ content'["bc5"] = input[t]
        /\ \A g \in {"program", "bc1", "bc4", "listing", "elf",
                     "function.txt", "Link_addr.txt", "tmp.ld"} :
             content'[g] = content[g]
    BY <1>4, <1>14, Shape DEF Writes
  <2>4. Chained'
    BY <1>1, <1>2, <1>9, <1>14, <2>1, <2>2, <2>3, Shape DEF Chained, Whole
  <2>5. MadeOf(w)'
    BY <1>1, <1>7, <1>14, <2>2, <2>3 DEF MadeOf, Whole
  <2> QED
    BY <1>1, <1>2, <1>6, <1>7, <2>3, <2>4, <2>5 DEF Made, ElfOfOne, Whole
<1>15. CASE t = "elf"
  <2>1. /\ Whole("bc5") = {w} /\ Whole("tmp.ld") = {w}
        /\ input[t] = content["bc5"] \cup content["tmp.ld"]
    BY <1>3, <1>5, <1>7, <1>15, Order DEF Reads, MadeOf
  <2>2. input[t] \ Half = {w}
    BY <2>1 DEF Whole
  <2>3. /\ content'["elf"] = input[t]
        /\ \A g \in {"program", "bc1", "bc4", "listing", "bc5",
                     "function.txt", "Link_addr.txt", "tmp.ld"} :
             content'[g] = content[g]
    BY <1>4, <1>15, Shape DEF Writes
  <2>4. Chained'
    BY <1>1, <1>2, <1>9, <1>15, <2>1, <2>2, <2>3, Shape DEF Chained, Whole
  <2>5. MadeOf(w)'
    BY <1>1, <1>7, <1>15, <2>2, <2>3 DEF MadeOf, Whole
  <2>6. ElfOfOne'
    BY <1>8, <2>2, <2>3 DEF ElfOfOne, Whole
  <2> QED
    BY <1>1, <1>6, <1>7, <2>4, <2>5, <2>6 DEF Made
<1> QED
  BY <1>10, <1>11, <1>12, <1>13, <1>14, <1>15, Shape

(* A make that gives up leaves what it was making as it was, away, or, of  *)
(* the listing, half written.                                              *)
LEMMA GivesUp ==
  ASSUME IInv, NEW t \in Target, Fail(t) \/ (MeasureFails /\ t = "pass5")
  PROVE  Serial' /\ Current' /\ Chained' /\ Made' /\ ElfOfOne'
<1>1. /\ t \in running /\ make' = "failing" /\ running' = running \ {t}
      /\ UNCHANGED <<version, done, input, began>>
  BY DEF Fail, MeasureFails, GiveUp
<1>2. TypeOK /\ Serial /\ Current /\ Chained /\ Made /\ ElfOfOne
  BY DEF IInv
<1>3. running' = {}
  BY <1>1, RunsInOrder
<1>4. Serial' /\ Current' /\ Made'
  BY <1>1, <1>3 DEF Serial, Current, Made
<1>5. CASE UNCHANGED <<content, newer>>
  BY <1>1, <1>2, <1>4, <1>5 DEF Chained, ElfOfOne, Whole, Newer
<1>6. CASE t # "pass5" /\ content' = [content EXCEPT ![t] = Absent] /\ UNCHANGED newer
  <2>1. \A g \in File : content'[g] = IF g = t THEN Absent ELSE content[g]
    BY <1>2, <1>6 DEF TypeOK
  <2>2. t \in {"bc1", "bc4", "listing", "bc5", "elf"}
    BY <1>6, Shape
  <2>3. Chained'
    BY <1>1, <1>2, <1>6, <2>1, <2>2, Shape DEF Chained, Whole, Newer
  <2>4. ElfOfOne'
    BY <1>2, <2>1, <2>2, Shape DEF ElfOfOne, Whole, Absent
  <2> QED
    BY <1>4, <2>3, <2>4
<1>7. CASE t = "listing" /\ content' = [content EXCEPT ![t] = Half] /\ Touch(t)
  <2>1. \A g \in File : content'[g] = IF g = t THEN Half ELSE content[g]
    BY <1>2, <1>7 DEF TypeOK
  <2>2. \A g, h \in File : g # t /\ h # t => Newer(g, h)' = Newer(g, h)
    BY <1>2, <1>7, Shape, Touched DEF TypeOK
  <2>3. Chained'
    BY <1>1, <1>2, <1>7, <2>1, <2>2, Shape DEF Chained, Whole
  <2>4. ElfOfOne'
    BY <1>2, <1>7, <2>1, Shape DEF ElfOfOne, Whole
  <2> QED
    BY <1>4, <2>3, <2>4
<1> QED
  BY <1>5, <1>6, <1>7 DEF Fail, MeasureFails

LEMMA StartsAndEnds ==
  ASSUME IInv, Start \/ Failed \/ Done \/ UNCHANGED vars
  PROVE  Serial' /\ Current' /\ Chained' /\ Made' /\ ElfOfOne'
<1>1. TypeOK /\ Serial /\ Current /\ Chained /\ Made /\ ElfOfOne
      /\ UNCHANGED <<version, content, newer, running, input>>
  BY DEF IInv, Start, Failed, Done, vars
<1>2. Current' /\ Chained' /\ ElfOfOne'
  BY <1>1 DEF Current, OutOfDate, Newer, Chained, Whole, ElfOfOne
<1>3. CASE Start
  <2>1. Serial'
    BY <1>1, <1>3 DEF Start, Serial
  <2>2. version \in version .. version
    BY <1>1 DEF TypeOK
  <2>3. Made'
    BY <1>1, <1>3, <2>2 DEF Start, Made, MadeOf
  <2> QED
    BY <1>2, <2>1, <2>3
<1>4. CASE Failed \/ UNCHANGED vars
  BY <1>1, <1>2, <1>4 DEF Failed, vars, Serial, Made, MadeOf, Whole
<1>5. CASE Done
  <2>1. running = {}
    BY <1>1, <1>5 DEF Done, TypeOK
  <2> QED
    BY <1>1, <1>2, <1>5, <2>1 DEF Done, Serial, Made, MadeOf, Whole
<1> QED
  BY <1>3, <1>4, <1>5

LEMMA Edits ==
  ASSUME IInv, Edit
  PROVE  Serial' /\ Current' /\ Chained' /\ Made' /\ ElfOfOne'
<1>1. /\ "bc1" \notin running /\ version' = version + 1
      /\ UNCHANGED <<make, done, running, input, began>>
  BY DEF Edit
<1>2. TypeOK /\ Serial /\ Current /\ Chained /\ Made /\ ElfOfOne
  BY DEF IInv
<1>3. \A g \in File : content'[g] = IF g = "program" THEN {version'} ELSE content[g]
  BY <1>2 DEF Edit, TypeOK
<1>4. /\ \A g \in File : g # "program" => Newer("program", g)'
      /\ \A g, h \in File : g # "program" /\ h # "program" =>
                            Newer(g, h)' = Newer(g, h)
  BY <1>2, Shape, Touched DEF Edit, TypeOK
<1>5. Serial'
  BY <1>1, <1>2 DEF Serial
<1>6. Current'
  <2>1. ASSUME NEW t \in running
        PROVE  OutOfDate(t)' /\ input'[t] = UNION {content'[f] : f \in Reads(t)}
    <3>1. t \in {"bc4", "listing", "pass5", "bc5", "elf"}
      BY <1>1, <2>1, RunsInOrder
    <3>2. OutOfDate(t) /\ input[t] = UNION {content[f] : f \in Reads(t)}
      BY <1>2 DEF Current
    <3>3. \A f \in Reads(t) \cup Prerequisite(t) : f \in File /\ f # "program"
      BY <3>1, Shape DEF Reads, Prerequisite
    <3>4. \A f \in Reads(t) : content'[f] = content[f]
      BY <1>3, <3>3
    <3>5. OutOfDate(t)'
      BY <1>3, <1>4, <3>1, <3>2, <3>3, Shape DEF OutOfDate
    <3> QED
      BY <1>1, <3>2, <3>4, <3>5
  <2> QED
    BY <1>1, <2>1 DEF Current
<1>7. Chained' /\ ElfOfOne'
  BY <1>2, <1>3, <1>4, Shape DEF Chained, ElfOfOne, Whole
<1>8. Made'
  <2>1. ASSUME NEW w \in began .. version, MadeOf(w)
        PROVE  w \in began' .. version' /\ MadeOf(w)'
    <3>1. w \in began' .. version'
      BY <1>1, <1>2 DEF TypeOK
    <3>2. MadeOf(w)'
      BY <1>1, <1>3, <2>1, Shape DEF MadeOf, Whole
    <3> QED
      BY <3>1, <3>2
  <2> QED
    BY <1>1, <1>2, <2>1 DEF Made
<1> QED
  BY <1>5, <1>6, <1>7, <1>8

LEMMA EditsStartup ==
  ASSUME IInv, EditStartup
  PROVE  Serial' /\ Current' /\ Chained' /\ Made' /\ ElfOfOne'
<1>1. /\ "elf" \notin running
      /\ UNCHANGED <<version, content, make, done, running, input, began>>
  BY DEF EditStartup
<1>2. TypeOK /\ Serial /\ Current /\ Chained /\ Made /\ ElfOfOne
  BY DEF IInv
<1>3. \A g, h \in File : g # "startup" /\ h # "startup" => Newer(g, h)' = Newer(g, h)
  BY <1>2, Shape, Touched DEF EditStartup, TypeOK
<1>4. Current'
  <2>1. ASSUME NEW t \in running
        PROVE  OutOfDate(t)'
    <3>1. t \in {"bc1", "bc4", "listing", "pass5", "bc5"}
      BY <1>1, <2>1, RunsInOrder
    <3>2. \A f \in Prerequisite(t) : f \in File /\ f # "startup"
      BY <3>1, Shape DEF Prerequisite
    <3> QED
      BY <1>1, <1>2, <1>3, <3>1, <3>2, Shape DEF Current, OutOfDate
  <2> QED
    BY <1>1, <1>2, <2>1 DEF Current
<1>5. Chained'
  BY <1>1, <1>2, <1>3, Shape DEF Chained, Whole
<1> QED
  BY <1>1, <1>2, <1>4, <1>5 DEF Serial, Made, MadeOf, ElfOfOne, Whole

LEMMA Cleans ==
  ASSUME IInv, Clean
  PROVE  Serial' /\ Current' /\ Chained' /\ Made' /\ ElfOfOne'
<1>1. /\ make' = "idle" /\ running = {} /\ running' = {}
      /\ UNCHANGED <<version, newer>>
  BY DEF Clean, IInv, Serial
<1>2. /\ content'["program"] = content["program"]
      /\ \A f \in {"bc1", "bc4", "listing", "bc5", "elf"} : content'[f] = Absent
  BY Shape DEF Clean
<1>3. Chained' /\ ElfOfOne'
  BY <1>1, <1>2 DEF IInv, Chained, ElfOfOne, Whole, Absent
<1> QED
  BY <1>1, <1>3 DEF Serial, Current, Made

LEMMA InductiveInvariant ==
  ASSUME Jobs = 1 PROVE Spec => []IInv
<1>1. Init => IInv
  BY TypeInit, SerialInit DEF IInv
<1>2. IInv /\ [Next]_vars => IInv'
  <2> SUFFICES ASSUME IInv, [Next]_vars PROVE IInv'
    OBVIOUS
  <2>1. TypeOK'
    BY TypeStep DEF IInv
  <2>2. Serial' /\ Current' /\ Chained' /\ Made' /\ ElfOfOne'
    <3>1. ASSUME NEW t \in Target, Skip(t) \/ Run(t) \/ WriteTable(t) \/ Finish(t)
          PROVE  Serial' /\ Current' /\ Chained' /\ Made' /\ ElfOfOne'
      BY <3>1, Skips, Runs, WritesTable, Finishes
    <3>2. CASE MeasureFails
      BY <3>2, Shape, GivesUp
    <3>3. ASSUME NEW t \in Target, Fail(t)
          PROVE  Serial' /\ Current' /\ Chained' /\ Made' /\ ElfOfOne'
      BY <3>3, GivesUp
    <3>4. CASE Start \/ Failed \/ Done \/ UNCHANGED vars
      BY <3>4, StartsAndEnds
    <3>5. CASE Edit
      BY <3>5, Edits
    <3>6. CASE EditStartup
      BY <3>6, EditsStartup
    <3>7. CASE Clean
      BY <3>7, Cleans
    <3> QED
      BY <3>1, <3>2, <3>3, <3>4, <3>5, <3>6, <3>7 DEF Next, MakeStep
  <2> QED
    BY <2>1, <2>2 DEF IInv
<1> QED
  BY <1>1, <1>2, PTL DEF Spec

-----------------------------------------------------------------------------
(* The files, their times and the recipes that run keep their types, with  *)
(* any number of jobs and of events.                                       *)
THEOREM TypeCorrect == Spec => []TypeOK
BY TypeInit, TypeStep, PTL DEF Spec

(* However often recipes fail, sources are edited and the targets are      *)
(* removed, a serial make puts one program into final.elf, with its own    *)
(* regions and its own script.                                             *)
THEOREM SerialElfIsConsistent ==
  ASSUME Jobs = 1 PROVE Spec => []ElfConsistent
<1>1. IInv => ElfConsistent
  <2> SUFFICES ASSUME IInv PROVE ElfConsistent
    OBVIOUS
  <2>1. PICK v \in Int : Whole("elf") \subseteq {v}
    BY DEF IInv, ElfOfOne
  <2>2. Whole("elf") = {} \/ Whole("elf") = {v}
    BY <2>1
  <2>3. Cardinality(Whole("elf")) <= 1
    <3>1. Cardinality({}) = 0 /\ Cardinality({v}) = 1
      BY FS_EmptySet, FS_Singleton
    <3> QED
      BY <2>2, <3>1
  <2> QED
    BY <2>3 DEF ElfConsistent, Whole
<1> QED
  BY <1>1, InductiveInvariant, PTL

(* When a serial make ends well, final.elf is of the program as it was     *)
(* when this make started or later, whatever earlier ones have left.       *)
THEOREM SerialElfIsFresh ==
  ASSUME Jobs = 1 PROVE Spec => []ElfFresh
<1>1. IInv => ElfFresh
  <2> SUFFICES ASSUME IInv, make = "ok" PROVE ElfFresh
    BY DEF ElfFresh
  <2>1. PICK w \in began .. version : Whole("elf") = {w}
    BY Shape DEF IInv, Made, MadeOf, Serial
  <2> QED
    BY <2>1 DEF ElfFresh, Whole
<1> QED
  BY <1>1, InductiveInvariant, PTL
=============================================================================
