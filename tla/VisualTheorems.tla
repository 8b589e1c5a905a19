---------------------------- MODULE VisualTheorems ----------------------------
(***************************************************************************)
(* The renderer's promises about the artifacts on disk, for every list of  *)
(* pages and every number of builds and edits.                             *)
(***************************************************************************)
EXTENDS VisualFiles, SequenceTheorems, TLAPS

Writing == {"create", "fill", "sync", "rename", "syncDir"}

(* The types, without bounds *)
Types ==
  /\ build \in Nat /\ edited \subseteq Names /\ todo \in Seq(Names)
  /\ pc \in {"idle", "scan", "compare", "inventory"} \cup Writing
  /\ reading \in [of : Names \cup {"none"}, payload : Int, changed : BOOLEAN]
  /\ now \in [Names -> Int] /\ stable \in [Names -> SUBSET Int]

(* What is there may last, and unless others wrote it, a build has written *)
(* it.                                                                     *)
Disk ==
  \A n \in Names :
    now[n] \in stable[n] /\ Torn \notin stable[n] /\ (n \notin edited => stable[n] \subseteq 0..build)

(* The manifest is no newer than a page. *)
Behind ==
  \A p \in ToSet(Pages) : edited \cap {p, Manifest} = {} =>
    \A v \in stable[p], m \in stable[Manifest] : m <= v

(* A rename finds the temporary file complete and synced. *)
Temporary ==
  /\ pc \in {"sync", "rename"} => tmp = "whole"
  /\ pc = "rename" => synced

(* This build's artifact is certain to be found, others' edits apart. *)
Certain(n) == n \in edited \/ stable[n] = {build}

(* The first k artifacts in the order of writing are certain, and the      *)
(* others are to do.                                                       *)
Done(k) ==
  /\ Len(todo) + k = Len(visualWriteOrder)
  /\ \A i \in 1..Len(todo) : todo[i] = visualWriteOrder[k + i]
  /\ \A i \in 1..k : Certain(visualWriteOrder[i])

Progress ==
  /\ pc \in Writing => ~stray /\ \E k \in Nat : Done(k)
  /\ pc \in Writing \cup {"inventory"} => mode = "write"
  /\ pc \in {"fill", "sync", "rename", "syncDir"} => todo # <<>>
  /\ pc = "syncDir" => now[Head(todo)] = build \/ Head(todo) \in edited
  /\ mode = "verify" => \A n \in Names : Certain(n)

(* What is being read is what is found under the name, or has changed. *)
Reading ==
  reading # NoRead =>
    /\ pc = "compare" /\ todo # <<>> /\ reading.of = Head(todo)
    /\ ~reading.changed => now[Head(todo)] = reading.payload

VisualInv == Types /\ Disk /\ Behind /\ Temporary /\ Progress /\ Reading

-----------------------------------------------------------------------------
(* The order of writing: the pages, then the manifest *)
LEMMA OrderFacts ==
  /\ visualWriteOrder \in Seq(Names) /\ Len(Pages) \in Nat
  /\ Len(visualWriteOrder) = Len(Pages) + 1
  /\ \A i \in 1..Len(Pages) : visualWriteOrder[i] \in ToSet(Pages)
  /\ visualWriteOrder[Len(Pages) + 1] = Manifest
  /\ \A p \in ToSet(Pages) : \E i \in 1..Len(Pages) : visualWriteOrder[i] = p
<1>1. Pages \in Seq(Names) /\ <<Manifest>> \in Seq(Names)
  <2>1. Pages \in Seq(STRING)
    BY VisualAssumption
  <2>2. \A i \in 1..Len(Pages) : Pages[i] \in Names
    BY <2>1 DEF Names, ToSet
  <2>3. Pages \in Seq(Names)
    BY <2>1, <2>2, ElementOfSeq, LenProperties, SeqDef
  <2> QED
    BY <2>3 DEF Names
<1>2. PICK P \in Seq(Names) : P = Pages /\ Len(P) \in Nat
  BY <1>1
<1>3. PICK m \in Names : m = Manifest
  BY DEF Names
<1>4. /\ P \o <<m>> \in Seq(Names) /\ Len(P \o <<m>>) = Len(P) + 1
      /\ \A i \in 1..Len(P) : (P \o <<m>>)[i] = P[i]
      /\ (P \o <<m>>)[Len(P) + 1] = m
  OBVIOUS
<1>5. ToSet(Pages) = {P[i] : i \in 1..Len(P)}
  BY <1>2 DEF ToSet
<1> QED
  BY <1>2, <1>3, <1>4, <1>5 DEF visualWriteOrder

(* Names of artifacts *)
LEMMA NameFacts ==
  /\ Manifest \in Names /\ ToSet(Pages) \subseteq Names /\ "none" \notin Names
  /\ sortedArtifactNames \in Seq(Names)
<1>1. "none" \notin Names /\ Manifest \in Names /\ ToSet(Pages) \subseteq Names
  BY VisualAssumption DEF Names, Manifest
<1>2. sortedArtifactNames \in Seq(STRING) /\ ToSet(sortedArtifactNames) = Names
  BY VisualAssumption
<1>3. \A i \in 1..Len(sortedArtifactNames) : sortedArtifactNames[i] \in Names
  BY <1>2 DEF ToSet
<1> QED
  BY <1>1, <1>2, <1>3, SeqDef

(* The steps one by one *)
Steps ==
  \/ Start \/ Scan \/ BeginRead \/ EndRead \/ Compared \/ Inventory \/ FailWrite
  \/ CreateTemporary \/ writeAllVisual \/ SyncFile \/ Rename \/ SyncDirectory \/ Written
  \/ Killed \/ PowerLost \/ OthersTidyUp \/ \E n \in Names : OthersEdit(n)

LEMMA StepCases == [Next]_vars => Steps \/ UNCHANGED vars
BY DEF Next, Program, Steps

LEMMA NoReadTyped ==
  NoRead \in [of : Names \cup {"none"}, payload : Int, changed : BOOLEAN]
BY DEF NoRead, Absent

LEMMA ReadTyped ==
  ASSUME NEW n \in Names, NEW v \in Int
  PROVE  [of |-> n, payload |-> v, changed |-> FALSE] \in
           [of : Names \cup {"none"}, payload : Int, changed : BOOLEAN]
OBVIOUS

(* The values a loss of power may leave *)
LEMMA LostFacts ==
  ASSUME Types, Disk, PowerLost
  PROVE  /\ now' \in [Names -> Int] /\ stable' \in [Names -> SUBSET Int]
         /\ \A n \in Names : now'[n] \in stable[n] /\ stable'[n] = {now'[n]}
<1>1. PICK f \in [Names -> UNION {stable[n] : n \in Names}] :
        now' = f /\ \A n \in Names : f[n] \in stable[n]
  BY DEF PowerLost
<1>2. UNION {stable[n] : n \in Names} \subseteq Int
  BY DEF Types
<1>3. f \in [Names -> Int] /\ \A n \in Names : stable[n] \subseteq Int
  BY <1>1, <1>2 DEF Types
<1>4. stable' = [n \in Names |-> {f[n]}]
  BY <1>1 DEF PowerLost
<1> QED
  BY <1>1, <1>3, <1>4

(* Each action keeps the types. *)
LEMMA TypeStep == Types /\ Disk /\ Progress /\ Reading /\ [Next]_vars => Types'
<1> SUFFICES ASSUME Types, Disk, Progress, Reading, Steps \/ UNCHANGED vars PROVE Types'
  BY StepCases
<1>0. /\ todo # <<>> => Head(todo) \in Names /\ Tail(todo) \in Seq(Names)
      /\ <<>> \in Seq(Names) /\ build + 1 \in Nat
  BY DEF Types
<1>1. CASE Start
  BY <1>0, <1>1 DEF Start, Types, disk, Writing
<1>2. CASE Scan
  BY <1>2, NameFacts DEF Scan, Types, disk, Writing, Goto, Stop
<1>3. CASE BeginRead
  <2>1. reading' = reading \/ reading' = [of |-> Head(todo), payload |-> now[Head(todo)], changed |-> FALSE]
    BY <1>3 DEF BeginRead
  <2>2. todo # <<>> /\ now[Head(todo)] \in Int
    BY <1>0, <1>3 DEF BeginRead, Types
  <2>3. reading' \in [of : Names \cup {"none"}, payload : Int, changed : BOOLEAN]
    <3>1. CASE reading' = reading
      BY <3>1 DEF Types
    <3>2. CASE reading' = [of |-> Head(todo), payload |-> now[Head(todo)], changed |-> FALSE]
      BY <1>0, <2>2, <3>2, ReadTyped
    <3> QED
      BY <2>1, <3>1, <3>2
  <2>4. todo' \in {todo, Tail(todo)} /\ UNCHANGED <<now, stable, pc, build, edited>>
    BY <1>3 DEF BeginRead, disk
  <2>5. todo' \in Seq(Names)
    BY <1>0, <2>2, <2>4 DEF Types
  <2> QED
    BY <2>3, <2>4, <2>5 DEF Types
<1>4. CASE EndRead
  <2>1. /\ todo' \in {todo, Tail(todo)} /\ UNCHANGED <<now, stable, build, edited>>
        /\ pc' \in {"compare", "idle"} /\ reading' = NoRead
    BY <1>4 DEF EndRead, Judge, disk, Goto, Stop
  <2>2. todo # <<>>
    BY <1>4 DEF EndRead, Reading
  <2>3. todo' \in Seq(Names)
    BY <1>0, <2>1, <2>2 DEF Types
  <2> QED
    BY <2>1, <2>3, NoReadTyped DEF Types
<1>5. CASE Compared
  BY <1>5 DEF Compared, Types, disk, Writing, Stop
<1>6. CASE Inventory
  BY <1>6, OrderFacts DEF Inventory, Types, disk, Writing, Goto, Stop
<1>7. CASE FailWrite
  BY <1>7 DEF FailWrite, Types, Writing, Stop
<1>8. CASE CreateTemporary
  BY <1>8 DEF CreateTemporary, Types, Writing, Goto
<1>9. CASE writeAllVisual
  BY <1>9 DEF writeAllVisual, Types, Writing, Goto
<1>10. CASE SyncFile
  BY <1>10 DEF SyncFile, Types, Writing, Goto
<1>11. CASE Rename
  <2>1. /\ now' = [now EXCEPT ![Head(todo)] = IF tmp = "whole" THEN build ELSE Torn]
        /\ stable' = [stable EXCEPT ![Head(todo)] = @ \cup {IF synced /\ tmp = "whole" THEN build ELSE Torn}]
    BY <1>11 DEF Rename
  <2>2. Torn \in Int /\ build \in Int
    BY DEF Torn, Types
  <2>3. now' \in [Names -> Int] /\ stable' \in [Names -> SUBSET Int]
    BY <2>1, <2>2 DEF Types
  <2> QED
    BY <1>11, <2>3 DEF Rename, Types, Writing, Goto
<1>12. CASE SyncDirectory
  <2>1. stable' \in [Names -> SUBSET Int]
    BY <1>12 DEF SyncDirectory, Types
  <2>2. todo # <<>>
    BY <1>12 DEF SyncDirectory, Progress
  <2> QED
    BY <1>0, <1>12, <2>1, <2>2 DEF SyncDirectory, Types, Writing, Goto, Stop
<1>13. CASE Written
  BY <1>13 DEF Written, Types, disk, Writing
<1>14. CASE Killed
  BY <1>0, <1>14, NoReadTyped DEF Killed, Halt, Types, Writing
<1>15. CASE PowerLost
  <2>1. now' \in [Names -> Int] /\ stable' \in [Names -> SUBSET Int]
    BY <1>15, LostFacts
  <2> QED
    BY <1>0, <1>15, <2>1, NoReadTyped DEF PowerLost, Halt, Types, Writing
<1>16. CASE OthersTidyUp
  BY <1>16 DEF OthersTidyUp, Types
<1>17. CASE \E n \in Names : OthersEdit(n)
  <2>1. PICK n \in Names : OthersEdit(n)
    BY <1>17
  <2>2. /\ now' = [now EXCEPT ![n] = Alien] /\ stable' = [stable EXCEPT ![n] = @ \cup {Alien}]
        /\ reading' = [reading EXCEPT !.changed = @ \/ reading.of = n] /\ edited' = edited \cup {n}
        /\ UNCHANGED <<build, todo, pc>>
    BY <2>1 DEF OthersEdit
  <2>3. now' \in [Names -> Int] /\ stable' \in [Names -> SUBSET Int]
    BY <2>2 DEF Types, Alien
  <2>4. reading' \in [of : Names \cup {"none"}, payload : Int, changed : BOOLEAN]
    BY <2>2 DEF Types
  <2> QED
    BY <2>2, <2>3, <2>4 DEF Types
<1>18. CASE UNCHANGED vars
  BY <1>18 DEF vars, disk, Types
<1> QED
  BY <1>1, <1>2, <1>3, <1>4, <1>5, <1>6, <1>7, <1>8, <1>9, <1>10, <1>11, <1>12, <1>13,
     <1>14, <1>15, <1>16, <1>17, <1>18 DEF Steps

(* Each action keeps what a rename needs. *)
LEMMA TemporaryStep == Temporary /\ [Next]_vars => Temporary'
<1> SUFFICES ASSUME Temporary, Steps \/ UNCHANGED vars PROVE Temporary'
  BY StepCases
<1>1. CASE Start \/ Scan \/ BeginRead \/ EndRead \/ Compared \/ Inventory \/ FailWrite
  BY <1>1 DEF Start, Scan, BeginRead, EndRead, Compared, Inventory, FailWrite, Goto, Stop,
     disk, Temporary
<1>2. CASE CreateTemporary \/ writeAllVisual \/ SyncFile \/ Rename \/ SyncDirectory \/ Written
  BY <1>2 DEF CreateTemporary, writeAllVisual, SyncFile, Rename, SyncDirectory, Written,
     Goto, Stop, disk, Temporary
<1>3. CASE Killed \/ PowerLost \/ OthersTidyUp \/ \E n \in Names : OthersEdit(n)
  BY <1>3 DEF Killed, PowerLost, Halt, OthersTidyUp, OthersEdit, Temporary
<1>4. CASE UNCHANGED vars
  BY <1>4 DEF vars, disk, Temporary
<1> QED
  BY <1>1, <1>2, <1>3, <1>4 DEF Steps

(* How a step changes an artifact.  Only a rename replaces one, by this     *)
(* build's, and only others write anything else.                            *)
Replaces ==
  /\ pc = "rename" /\ pc' = "syncDir" /\ UNCHANGED <<edited, build, mode, todo, stray>>
  /\ now' = [now EXCEPT ![Head(todo)] = build]
  /\ stable' = [stable EXCEPT ![Head(todo)] = @ \cup {build}]

Edits(n) ==
  /\ now' = [now EXCEPT ![n] = Alien] /\ stable' = [stable EXCEPT ![n] = @ \cup {Alien}]
  /\ edited' = edited \cup {n} /\ UNCHANGED <<build, mode, todo, stray, pc>>

Settles ==
  /\ \A n \in Names : now'[n] \in stable[n] /\ stable'[n] \in {stable[n], {now'[n]}}
  /\ \A n \in Names : now'[n] = now[n] \/ pc' = "idle"
  /\ edited' = edited /\ build' \in {build, build + 1}
  /\ build' # build => pc = "idle" /\ mode' # "verify"

LEMMA DiskCases ==
  ASSUME Types, Disk, Temporary, Steps \/ UNCHANGED vars
  PROVE  Replaces \/ Settles \/ \E n \in Names : Edits(n)
<1>0. \A n \in Names : now[n] \in stable[n]
  BY DEF Disk
<1>1. CASE Start
  BY <1>0, <1>1 DEF Start, Settles, disk
<1>2. CASE Scan \/ BeginRead \/ EndRead \/ Compared \/ Inventory \/ FailWrite
  <2>1. UNCHANGED <<now, stable, edited, build>>
    BY <1>2 DEF Scan, BeginRead, EndRead, Compared, Inventory, FailWrite, Goto, Stop, disk
  <2> QED
    BY <1>0, <2>1 DEF Settles
<1>3. CASE CreateTemporary \/ writeAllVisual \/ SyncFile \/ Written \/ Killed \/ OthersTidyUp \/ UNCHANGED vars
  <2>1. UNCHANGED <<now, stable, edited, build>>
    BY <1>3 DEF CreateTemporary, writeAllVisual, SyncFile, Written, Killed, OthersTidyUp, Goto, disk, vars
  <2> QED
    BY <1>0, <2>1 DEF Settles
<1>4. CASE Rename
  BY <1>4 DEF Rename, Replaces, Temporary, Goto
<1>5. CASE SyncDirectory
  <2>1. UNCHANGED <<now, edited, build>> /\ (stable' = stable \/ stable' = [n \in Names |-> {now[n]}])
    BY <1>5 DEF SyncDirectory, Goto, Stop
  <2> QED
    BY <1>0, <2>1 DEF Settles
<1>6. CASE PowerLost
  <2>1. UNCHANGED <<edited, build>> /\ pc' = "idle"
    BY <1>6 DEF PowerLost, Halt
  <2> QED
    BY <1>6, <2>1, LostFacts DEF Settles
<1>7. CASE \E n \in Names : OthersEdit(n)
  BY <1>7 DEF OthersEdit, Edits
<1> QED
  BY <1>1, <1>2, <1>3, <1>4, <1>5, <1>6, <1>7 DEF Steps

(* What a settling leaves may have been there before. *)
LEMMA SettleFacts ==
  ASSUME Types, Disk, Settles
  PROVE  /\ \A n \in Names : stable'[n] \subseteq stable[n] /\ now'[n] \in stable'[n]
         /\ build' \in Nat /\ build <= build'
<1>1. build' \in Nat /\ build <= build'
  BY DEF Types, Settles
<1>2. ASSUME NEW n \in Names PROVE stable'[n] \subseteq stable[n] /\ now'[n] \in stable'[n]
  <2>1. now'[n] \in stable[n] /\ (stable'[n] = stable[n] \/ stable'[n] = {now'[n]})
    BY <1>2 DEF Settles
  <2> QED
    BY <2>1
<1> QED
  BY <1>1, <1>2

(* What a rename and an edit add to one artifact *)
LEMMA ChangeFacts ==
  ASSUME Types, NEW n \in Names, NEW v \in Int,
         now' = [now EXCEPT ![n] = v], stable' = [stable EXCEPT ![n] = @ \cup {v}]
  PROVE  /\ now'[n] = v /\ stable'[n] = stable[n] \cup {v}
         /\ \A o \in Names \ {n} : now'[o] = now[o] /\ stable'[o] = stable[o]
BY DEF Types

(* Each action keeps what may be found on disk. *)
LEMMA DiskStep == Types /\ Disk /\ Temporary /\ Progress /\ [Next]_vars => Disk'
<1> SUFFICES ASSUME Types, Disk, Temporary, Progress, Steps \/ UNCHANGED vars PROVE Disk'
  BY StepCases
<1>1. CASE Replaces
  <2>1. PICK n \in Names : n = Head(todo)
    BY <1>1 DEF Replaces, Progress, Types
  <2>2. build \in Int /\ build # Torn /\ build \in 0..build
    BY DEF Types, Torn
  <2>3. /\ now'[n] = build /\ stable'[n] = stable[n] \cup {build}
        /\ \A o \in Names \ {n} : now'[o] = now[o] /\ stable'[o] = stable[o]
    BY <1>1, <2>1, <2>2, ChangeFacts DEF Replaces
  <2>4. edited' = edited /\ build' = build
    BY <1>1 DEF Replaces
  <2>5. ASSUME NEW o \in Names
        PROVE  /\ now'[o] \in stable'[o] /\ Torn \notin stable'[o]
               /\ o \notin edited => stable'[o] \subseteq 0..build
    <3>1. CASE o = n
      BY <2>2, <2>3, <3>1 DEF Disk
    <3>2. CASE o # n
      BY <2>3, <3>2 DEF Disk
    <3> QED
      BY <3>1, <3>2
  <2> QED
    BY <2>4, <2>5 DEF Disk
<1>2. CASE Settles
  <2>1. edited' = edited
    BY <1>2 DEF Settles
  <2>2. ASSUME NEW o \in Names
        PROVE  /\ now'[o] \in stable'[o] /\ Torn \notin stable'[o]
               /\ o \notin edited => stable'[o] \subseteq 0..build'
    <3>1. /\ stable'[o] \subseteq stable[o] /\ now'[o] \in stable'[o]
          /\ build' \in Nat /\ build <= build' /\ build \in Nat
      BY <1>2, SettleFacts DEF Types
    <3>2. 0..build \subseteq 0..build'
      BY <3>1
    <3> QED
      BY <3>1, <3>2 DEF Disk
  <2> QED
    BY <2>1, <2>2 DEF Disk
<1>3. ASSUME NEW n \in Names, Edits(n) PROVE Disk'
  <2>1. Alien \in Int /\ Alien # Torn
    BY DEF Alien, Torn
  <2>2. /\ now'[n] = Alien /\ stable'[n] = stable[n] \cup {Alien}
        /\ \A o \in Names \ {n} : now'[o] = now[o] /\ stable'[o] = stable[o]
    BY <1>3, <2>1, ChangeFacts DEF Edits
  <2>3. edited' = edited \cup {n} /\ build' = build
    BY <1>3 DEF Edits
  <2>4. ASSUME NEW o \in Names
        PROVE  /\ now'[o] \in stable'[o] /\ Torn \notin stable'[o]
               /\ o \notin edited' => stable'[o] \subseteq 0..build'
    <3>1. CASE o = n
      BY <2>1, <2>2, <2>3, <3>1 DEF Disk
    <3>2. CASE o # n
      BY <2>2, <2>3, <3>2 DEF Disk
    <3> QED
      BY <3>1, <3>2
  <2> QED
    BY <2>4 DEF Disk
<1> QED
  BY <1>1, <1>2, <1>3, DiskCases

(* When the manifest's turn comes, every page is certain to be this         *)
(* build's.                                                                 *)
LEMMA ManifestLast ==
  ASSUME Types, NEW k \in Nat, Done(k), todo # <<>>, Head(todo) = Manifest
  PROVE  \A p \in ToSet(Pages) : Certain(p)
<1>1. /\ Len(todo) \in Nat /\ Len(todo) > 0 /\ todo[1] = Manifest
      /\ Len(todo) + k = Len(Pages) + 1 /\ Len(Pages) \in Nat
  BY OrderFacts DEF Types, Done
<1>2. visualWriteOrder[k + 1] = Manifest
  BY <1>1 DEF Done
<1>3. k + 1 \notin 1..Len(Pages)
  BY <1>2, OrderFacts, VisualAssumption
<1>4. k = Len(Pages)
  BY <1>1, <1>3
<1> QED
  BY <1>4, OrderFacts DEF Done

(* Each action keeps the manifest behind. *)
LEMMA BehindStep == Types /\ Disk /\ Temporary /\ Progress /\ Behind /\ [Next]_vars => Behind'
<1> SUFFICES ASSUME Types, Disk, Temporary, Progress, Behind, Steps \/ UNCHANGED vars,
                    NEW p \in ToSet(Pages), edited' \cap {p, Manifest} = {},
                    NEW v \in stable'[p], NEW m \in stable'[Manifest]
             PROVE  m <= v
  BY StepCases DEF Behind
<1>0. p \in Names /\ Manifest \in Names /\ p # Manifest
  BY NameFacts, VisualAssumption
<1>1. CASE Replaces
  <2>1. PICK n \in Names : n = Head(todo)
    BY <1>1 DEF Replaces, Progress, Types
  <2>2. build \in Int /\ edited' = edited
    BY <1>1 DEF Types, Replaces
  <2>3. /\ stable'[n] = stable[n] \cup {build}
        /\ \A o \in Names \ {n} : stable'[o] = stable[o]
    BY <1>1, <2>1, <2>2, ChangeFacts DEF Replaces
  <2>4. stable[p] \subseteq 0..build /\ stable[Manifest] \subseteq 0..build
    BY <1>0, <2>2 DEF Disk
  <2>5. v \in stable[p] /\ m \in stable[Manifest] => m <= v
    BY <2>2 DEF Behind
  <2>6. CASE n = Manifest
    <3>1. PICK k \in Nat : Done(k)
      BY <1>1 DEF Replaces, Progress, Writing
    <3>2. todo # <<>>
      BY <1>1 DEF Replaces, Progress
    <3>3. stable[p] = {build}
      BY <2>1, <2>2, <2>6, <3>1, <3>2, ManifestLast DEF Certain
    <3>4. v = build /\ m \in 0..build
      BY <1>0, <2>2, <2>3, <2>4, <2>6, <3>3 DEF Types
    <3> QED
      BY <3>4, <2>2
  <2>7. CASE n = p
    <3>1. m \in stable[Manifest] /\ m \in 0..build /\ (v \in stable[p] \/ v = build)
      BY <1>0, <2>3, <2>4, <2>7
    <3> QED
      BY <2>2, <2>5, <3>1
  <2>8. CASE n # p /\ n # Manifest
    BY <1>0, <2>3, <2>5, <2>8
  <2> QED
    BY <2>6, <2>7, <2>8
<1>2. CASE Settles
  <2>1. v \in stable[p] /\ m \in stable[Manifest] /\ edited' = edited
    BY <1>0, <1>2, SettleFacts DEF Settles
  <2> QED
    BY <2>1 DEF Behind
<1>3. ASSUME NEW n \in Names, Edits(n) PROVE m <= v
  <2>1. edited' = edited \cup {n} /\ n # p /\ n # Manifest
    BY <1>3 DEF Edits
  <2>2. v \in stable[p] /\ m \in stable[Manifest]
    BY <1>0, <1>3, <2>1, ChangeFacts DEF Edits, Alien
  <2> QED
    BY <2>1, <2>2 DEF Behind
<1> QED
  BY <1>1, <1>2, <1>3, DiskCases

(* What is certain stays so, as long as the build is the same. *)
LEMMA CertainStays ==
  ASSUME Types, Disk, Replaces \/ Settles \/ \E n \in Names : Edits(n),
         NEW o \in Names, Certain(o), build' = build, pc = "rename" => todo # <<>>
  PROVE  Certain(o)'
<1>1. CASE Replaces
  <2>1. PICK n \in Names : n = Head(todo)
    BY <1>1 DEF Replaces, Types
  <2>2. /\ stable'[n] = stable[n] \cup {build}
        /\ \A q \in Names \ {n} : stable'[q] = stable[q]
    BY <1>1, <2>1, ChangeFacts DEF Replaces, Types
  <2>3. edited' = edited
    BY <1>1 DEF Replaces
  <2> QED
    BY <2>2, <2>3 DEF Certain
<1>2. CASE Settles
  <2>1. stable'[o] \subseteq stable[o] /\ now'[o] \in stable'[o] /\ edited' = edited
    BY <1>2, SettleFacts DEF Settles
  <2> QED
    BY <2>1 DEF Certain
<1>3. ASSUME NEW n \in Names, Edits(n) PROVE Certain(o)'
  <2>1. edited' = edited \cup {n}
    BY <1>3 DEF Edits
  <2>2. CASE o = n \/ o \in edited
    BY <2>1, <2>2 DEF Certain
  <2>3. CASE o # n /\ stable[o] = {build}
    <3>1. stable'[o] = stable[o]
      BY <1>3, <2>3, ChangeFacts DEF Edits, Alien
    <3> QED
      BY <2>3, <3>1 DEF Certain
  <2> QED
    BY <2>2, <2>3 DEF Certain
<1> QED
  BY <1>1, <1>2, <1>3

(* A step that leaves what is to do alone *)
LEMMA DoneStays ==
  ASSUME Types, Disk, Replaces \/ Settles \/ \E n \in Names : Edits(n),
         NEW k \in Nat, Done(k), build' = build, todo' = todo, pc = "rename" => todo # <<>>
  PROVE  Done(k)'
<1>1. Len(todo) \in Nat /\ k <= Len(visualWriteOrder)
  BY OrderFacts DEF Types, Done
<1>2. ASSUME NEW i \in 1..k PROVE Certain(visualWriteOrder[i])'
  <2>1. PICK o \in Names : o = visualWriteOrder[i]
    BY <1>1, <1>2, OrderFacts
  <2>2. Certain(o)
    BY <2>1 DEF Done
  <2>3. Certain(o)'
    BY <2>2, CertainStays
  <2> QED
    BY <2>1, <2>3
<1> QED
  BY <1>2 DEF Done

(* A step within the writing that neither renames nor goes on to the next  *)
(* artifact, and one after which nothing is being written                  *)
LEMMA ProgressFrame ==
  ASSUME Types, Disk, Progress, Replaces \/ Settles \/ \E n \in Names : Edits(n),
         \/ pc' \notin Writing
         \/ pc \in Writing /\ todo' = todo /\ stray' = stray /\ build' = build,
         pc' \in Writing \cup {"inventory"} => mode' = "write",
         pc' \in {"fill", "sync", "rename", "syncDir"} => todo # <<>>,
         pc' = "syncDir" => (now[Head(todo)] = build \/ Head(todo) \in edited)',
         mode' = "verify" => mode = "verify" /\ build' = build
  PROVE  Progress'
<1>1. ASSUME pc' \in Writing PROVE ~stray' /\ \E k \in Nat : Done(k)'
  <2>1. PICK k \in Nat : Done(k)
    BY <1>1 DEF Progress
  <2>2. pc = "rename" => todo # <<>>
    BY DEF Progress
  <2>3. Done(k)'
    BY <1>1, <2>1, <2>2, DoneStays
  <2> QED
    BY <1>1, <2>3 DEF Progress
<1>2. ASSUME mode' = "verify", NEW o \in Names PROVE Certain(o)'
  <2>1. Certain(o) /\ (pc = "rename" => todo # <<>>)
    BY <1>2 DEF Progress
  <2> QED
    BY <1>2, <2>1, CertainStays
<1>3. pc' \in {"fill", "sync", "rename", "syncDir"} => todo' # <<>>
  BY DEF Writing
<1> QED
  BY <1>1, <1>2, <1>3 DEF Progress

(* Each action keeps what is known of the artifacts written so far. *)
LEMMA ProgressStep == Types /\ Disk /\ Temporary /\ Progress /\ [Next]_vars => Progress'
<1> SUFFICES ASSUME Types, Disk, Temporary, Progress, Steps \/ UNCHANGED vars PROVE Progress'
  BY StepCases
<1>0. Replaces \/ Settles \/ \E n \in Names : Edits(n)
  BY DiskCases
<1>1. CASE Start
  <2>1. pc' = "scan" /\ mode' # "verify"
    BY <1>1 DEF Start
  <2> QED
    BY <1>0, <2>1, ProgressFrame DEF Writing
<1>2. CASE Scan \/ BeginRead \/ EndRead \/ Compared
  <2>1. /\ pc' \in {"idle", "scan", "compare", "inventory"} /\ mode' = mode /\ build' = build
        /\ pc' = "inventory" => mode = "write"
    BY <1>2 DEF Scan, BeginRead, EndRead, Compared, Goto, Stop
  <2> QED
    BY <1>0, <2>1, ProgressFrame DEF Writing
<1>3. CASE Inventory /\ pc' = "idle"
  <2>1. pc' = "idle" /\ mode' = mode /\ build' = build
    BY <1>3 DEF Inventory, Goto, Stop
  <2> QED
    BY <1>0, <2>1, ProgressFrame DEF Writing
<1>4. CASE Inventory /\ pc' # "idle"
  <2>1. /\ pc' = "create" /\ todo' = visualWriteOrder /\ ~stray /\ stray' = stray
        /\ mode' = mode /\ mode = "write"
    BY <1>4 DEF Inventory, Goto, Stop, Unexpected, disk, Progress
  <2>2. Done(0)'
    BY <2>1, OrderFacts DEF Done
  <2> QED
    BY <2>1, <2>2 DEF Progress
<1>5. CASE FailWrite
  <2>1. pc' = "idle" /\ mode' = mode /\ build' = build
    BY <1>5 DEF FailWrite, Stop
  <2> QED
    BY <1>0, <2>1, ProgressFrame DEF Writing
<1>6. CASE CreateTemporary \/ writeAllVisual \/ SyncFile
  <2>1. /\ pc \in Writing /\ pc' \in {"fill", "sync", "rename"} /\ mode' = mode /\ build' = build
        /\ todo' = todo /\ stray' = stray
    BY <1>6 DEF CreateTemporary, writeAllVisual, SyncFile, Goto, Writing
  <2>2. todo # <<>> /\ mode = "write"
    BY <1>6, <2>1 DEF CreateTemporary, writeAllVisual, SyncFile, Progress
  <2> QED
    BY <1>0, <2>1, <2>2, ProgressFrame
<1>7. CASE Rename
  <2>1. /\ pc = "rename" /\ pc' = "syncDir" /\ mode' = mode /\ build' = build
        /\ todo' = todo /\ stray' = stray /\ tmp = "whole"
    BY <1>7 DEF Rename, Goto, Temporary
  <2>2. todo # <<>> /\ mode = "write"
    BY <2>1 DEF Progress, Writing
  <2>3. now'[Head(todo)] = build
    BY <1>7, <2>1, <2>2 DEF Rename, Types
  <2> QED
    BY <1>0, <2>1, <2>2, <2>3, ProgressFrame DEF Writing
<1>8. CASE SyncDirectory /\ pc' = "idle"
  <2>1. mode' = mode /\ build' = build
    BY <1>8 DEF SyncDirectory, Goto, Stop
  <2> QED
    BY <1>0, <1>8, <2>1, ProgressFrame DEF Writing
<1>9. CASE SyncDirectory /\ pc' # "idle"
  <2>1. /\ pc = "syncDir" /\ pc' = "create" /\ todo' = Tail(todo)
        /\ stable' = [n \in Names |-> {now[n]}]
        /\ UNCHANGED <<mode, build, stray, edited>>
    BY <1>9 DEF SyncDirectory, Goto, Stop
  <2>2. PICK k \in Nat : Done(k) /\ ~stray /\ mode = "write" /\ todo # <<>>
    BY <2>1 DEF Progress, Writing
  <2>3. PICK o \in Names : o = Head(todo)
    BY <2>2 DEF Types
  <2>4. Certain(o)'
    <3>1. now[o] = build \/ o \in edited
      BY <2>1, <2>3 DEF Progress
    <3> QED
      BY <2>1, <3>1 DEF Certain
  <2>5. /\ Len(todo) \in Nat /\ Len(todo) > 0 /\ Len(Tail(todo)) = Len(todo) - 1
        /\ Head(todo) = todo[1] /\ \A i \in 1..Len(Tail(todo)) : Tail(todo)[i] = todo[i + 1]
    BY <2>2 DEF Types
  <2>6. /\ Len(todo) + k = Len(visualWriteOrder)
        /\ \A i \in 1..Len(todo) : todo[i] = visualWriteOrder[k + i]
        /\ \A i \in 1..k : Certain(visualWriteOrder[i])
    BY <2>2 DEF Done
  <2>7. visualWriteOrder[k + 1] = o
    BY <2>3, <2>5, <2>6
  <2>8. ASSUME NEW i \in 1..k + 1 PROVE Certain(visualWriteOrder[i])'
    <3>1. CASE i = k + 1
      BY <2>4, <2>7, <3>1
    <3>2. CASE i # k + 1
      <4>1. i \in 1..k /\ i \in 1..Len(visualWriteOrder)
        BY <2>5, <2>6, <2>8, <3>2
      <4>2. PICK n \in Names : n = visualWriteOrder[i] /\ Certain(n)
        BY <2>6, <4>1, OrderFacts
      <4>3. Certain(n)'
        BY <1>0, <2>1, <4>2, CertainStays
      <4> QED
        BY <4>2, <4>3
    <3> QED
      BY <3>1, <3>2
  <2>9. Len(Tail(todo)) + (k + 1) = Len(visualWriteOrder)
    BY <2>5, <2>6
  <2>10. ASSUME NEW i \in 1..Len(Tail(todo)) PROVE Tail(todo)[i] = visualWriteOrder[(k + 1) + i]
    <3>1. i + 1 \in 1..Len(todo) /\ k + (i + 1) = (k + 1) + i
      BY <2>5, <2>10
    <3> QED
      BY <2>5, <2>6, <3>1
  <2>11. Done(k + 1)'
    BY <2>1, <2>8, <2>9, <2>10 DEF Done
  <2> QED
    BY <2>1, <2>2, <2>11 DEF Progress
<1>10. CASE Written
  <2>1. /\ pc = "create" /\ todo = <<>> /\ pc' = "scan" /\ build' = build
        /\ UNCHANGED <<stable, edited>>
    BY <1>10 DEF Written, disk
  <2>2. PICK k \in Nat : Done(k)
    BY <2>1 DEF Progress, Writing
  <2>3. k = Len(Pages) + 1
    BY <2>1, <2>2, OrderFacts DEF Done
  <2>4. ASSUME NEW n \in Names PROVE Certain(n)'
    <3>1. PICK i \in 1..Len(Pages) + 1 : visualWriteOrder[i] = n
      BY <2>4, OrderFacts DEF Names
    <3>2. Certain(n)
      BY <2>2, <2>3, <3>1 DEF Done
    <3> QED
      BY <2>1, <3>2 DEF Certain
  <2> QED
    BY <2>1, <2>4 DEF Progress, Writing
<1>11. CASE Killed \/ PowerLost
  <2>1. pc' = "idle" /\ mode' = mode /\ build' = build
    BY <1>11 DEF Killed, PowerLost, Halt
  <2> QED
    BY <1>0, <2>1, ProgressFrame DEF Writing
<1>12. CASE OthersTidyUp
  <2>1. pc' = "idle" /\ mode' = mode /\ build' = build
    BY <1>12 DEF OthersTidyUp
  <2> QED
    BY <1>0, <2>1, ProgressFrame DEF Writing
<1>13. CASE \E n \in Names : OthersEdit(n)
  <2>1. PICK n \in Names : OthersEdit(n)
    BY <1>13
  <2>2. /\ UNCHANGED <<pc, mode, build, todo, stray>> /\ edited' = edited \cup {n}
        /\ now' = [now EXCEPT ![n] = Alien]
    BY <2>1 DEF OthersEdit
  <2>3. ASSUME pc = "syncDir" PROVE now'[Head(todo)] = build \/ Head(todo) \in edited'
    <3>1. Head(todo) \in Names /\ (now[Head(todo)] = build \/ Head(todo) \in edited)
      BY <2>3 DEF Progress, Types
    <3> QED
      BY <2>2, <3>1 DEF Types
  <2> QED
    BY <1>0, <2>2, <2>3, ProgressFrame DEF Progress
<1>14. CASE UNCHANGED vars
  <2>1. UNCHANGED <<pc, mode, build, todo, stray, edited, now>>
    BY <1>14 DEF vars, disk
  <2> QED
    BY <1>0, <2>1, ProgressFrame DEF Progress
<1> QED
  BY <1>1, <1>2, <1>3, <1>4, <1>5, <1>6, <1>7, <1>8, <1>9, <1>10, <1>11, <1>12, <1>13, <1>14
     DEF Steps

(* Each action keeps what is known of the read in progress. *)
LEMMA ReadingStep == Types /\ Disk /\ Reading /\ [Next]_vars => Reading'
<1> SUFFICES ASSUME Types, Disk, Reading, Steps \/ UNCHANGED vars PROVE Reading'
  BY StepCases
<1>1. CASE reading' = NoRead
  BY <1>1 DEF Reading
<1>2. CASE BeginRead /\ reading' # NoRead
  BY <1>2 DEF BeginRead, Reading, disk
<1>3. CASE \E n \in Names : OthersEdit(n)
  <2>1. PICK n \in Names : OthersEdit(n)
    BY <1>3
  <2>2. /\ reading' = [reading EXCEPT !.changed = @ \/ reading.of = n]
        /\ UNCHANGED <<pc, todo>> /\ now' = [now EXCEPT ![n] = Alien]
    BY <2>1 DEF OthersEdit
  <2>3. /\ reading'.of = reading.of /\ reading'.payload = reading.payload
        /\ reading'.changed <=> reading.changed \/ reading.of = n
    BY <2>2 DEF Types
  <2>4. CASE reading = NoRead
    <3>1. reading.of = "none" /\ reading.payload = Absent /\ reading.changed = FALSE
      BY <2>4 DEF NoRead
    <3>2. reading.of # n
      BY <3>1, NameFacts
    <3>3. reading' = reading
      BY <2>2, <3>1, <3>2 DEF Types
    <3> QED
      BY <2>4, <3>3 DEF Reading
  <2>5. CASE reading # NoRead
    <3>1. /\ pc = "compare" /\ todo # <<>> /\ reading.of = Head(todo)
          /\ ~reading.changed => now[Head(todo)] = reading.payload
      BY <2>5 DEF Reading
    <3>2. reading.of # n => now'[Head(todo)] = now[Head(todo)]
      BY <2>2, <3>1 DEF Types
    <3> QED
      BY <2>2, <2>3, <3>1, <3>2 DEF Reading
  <2> QED
    BY <2>4, <2>5
<1>4. CASE Start \/ Scan \/ Compared \/ Inventory \/ FailWrite \/ CreateTemporary \/ writeAllVisual
           \/ SyncFile \/ Rename \/ SyncDirectory \/ Written \/ OthersTidyUp
  <2>1. reading' = reading /\ (pc # "compare" \/ todo = <<>>)
    BY <1>4 DEF Start, Scan, Compared, Inventory, FailWrite, CreateTemporary, writeAllVisual,
       SyncFile, Rename, SyncDirectory, Written, OthersTidyUp
  <2> QED
    BY <2>1 DEF Reading
<1>5. CASE UNCHANGED vars
  BY <1>5 DEF vars, disk, Reading
<1>6. EndRead \/ Killed \/ PowerLost => reading' = NoRead
  BY DEF EndRead, Killed, PowerLost, Halt
<1> QED
  BY <1>1, <1>2, <1>3, <1>4, <1>5, <1>6 DEF Steps

(* The artifacts are there, all of the same build, or none is. *)
LEMMA InitVisual == Init => VisualInv
<1> SUFFICES ASSUME Init PROVE VisualInv
  OBVIOUS
<1>1. PICK v \in {Absent, 1} : now = [n \in Names |-> v] /\ stable = [n \in Names |-> {v}]
  BY DEF Init
<1>2. v \in 0..1 /\ v \in Int /\ v # Torn
  BY DEF Absent, Torn
<1>3. /\ build = 1 /\ edited = {} /\ pc = "idle" /\ todo = <<>> /\ reading = NoRead
      /\ mode = "none"
  BY DEF Init
<1>4. /\ now \in [Names -> Int] /\ stable \in [Names -> SUBSET Int]
      /\ \A n \in Names : now[n] = v /\ stable[n] = {v}
  BY <1>1, <1>2
<1>5. Types
  BY <1>3, <1>4, NoReadTyped DEF Types
<1>6. Disk /\ Behind
  BY <1>2, <1>3, <1>4, NameFacts DEF Disk, Behind
<1> QED
  BY <1>3, <1>5, <1>6 DEF VisualInv, Temporary, Progress, Reading, Writing

(* The inductive invariant: what a loss of power may leave of each          *)
(* artifact, and how far the writing and the reading are.                   *)
THEOREM VisualInvariant == Spec => []VisualInv
<1>1. VisualInv /\ [Next]_vars => VisualInv'
  BY TypeStep, DiskStep, BehindStep, TemporaryStep, ProgressStep, ReadingStep DEF VisualInv
<1> QED
  BY <1>1, InitVisual, PTL DEF Spec

(* writeVisualArtifacts: a kill or a loss of power at any moment leaves no  *)
(* artifact half written and no page older than the manifest.               *)
THEOREM ManifestBehind == Spec => []ManifestNeverAhead
<1>1. VisualInv => ManifestNeverAhead
  <2> SUFFICES ASSUME VisualInv PROVE ManifestNeverAhead
    OBVIOUS
  <2>1. \A n \in Names : stable[n] \cup {now[n]} = stable[n] /\ Torn \notin stable[n]
    BY DEF VisualInv, Disk
  <2> QED
    BY <2>1, NameFacts DEF VisualInv, Behind, ManifestNeverAhead
<1> QED
  BY <1>1, VisualInvariant, PTL

(* What mode verify means, whatever a loss of power leaves *)
LEMMA VerifiedDurable == VisualInv => SuccessDurable
<1> SUFFICES ASSUME VisualInv, mode = "verify", NEW n \in Names \ edited
             PROVE  stable[n] = {now[n]} /\ now[n] = build
  BY DEF SuccessDurable
<1>1. stable[n] = {build} /\ now[n] \in stable[n]
  BY DEF VisualInv, Progress, Certain, Disk
<1> QED
  BY <1>1

(* An artifact is taken for this build's only by EndRead, which has seen    *)
(* that nobody changed it during the read.                                  *)
LEMMA ReadSound ==
  ASSUME VisualInv, Steps \/ UNCHANGED vars, reading # NoRead, pc' = "compare",
         reading' = NoRead, Head(todo) \notin stale'
  PROVE  now[Head(todo)] = build
<1>1. /\ pc = "compare" /\ todo # <<>> /\ reading.of = Head(todo)
      /\ ~reading.changed => now[Head(todo)] = reading.payload
  BY DEF VisualInv, Reading
<1>2. CASE EndRead
  BY <1>1, <1>2 DEF EndRead, Judge, Stop
<1>3. CASE \E n \in Names : OthersEdit(n)
  <2>1. PICK n \in Names : reading' = [reading EXCEPT !.changed = @ \/ reading.of = n]
    BY <1>3 DEF OthersEdit
  <2>2. /\ reading'.of = reading.of /\ reading'.payload = reading.payload
        /\ reading'.changed <=> reading.changed \/ reading.of = n
    BY <2>1 DEF VisualInv, Types
  <2>3. reading'.of = "none" /\ reading.of \in Names
    BY <1>1 DEF NoRead, VisualInv, Types
  <2> QED
    BY <2>2, <2>3, NameFacts
<1>4. ~EndRead /\ ~(\E n \in Names : OthersEdit(n)) => FALSE
  BY <1>1 DEF Steps, vars, disk, Start, Scan, BeginRead, Compared, Inventory, FailWrite,
     CreateTemporary, writeAllVisual, SyncFile, Rename, SyncDirectory, Written, Killed,
     PowerLost, Halt, OthersTidyUp
<1> QED
  BY <1>2, <1>3, <1>4

(* A run is sure of what it does and says: an artifact it takes for its own *)
(* was so at the end of the read, none is replaced while a temporary file   *)
(* of an earlier run is there, and what it reports as written lasts.        *)
THEOREM RunsAreSound == Spec => RunsSound
<1>1. ASSUME VisualInv, VisualInv', [Next]_vars
      PROVE  /\ reading # NoRead /\ pc' = "compare" /\ reading' = NoRead /\ Head(todo) \notin stale' =>
                  now[Head(todo)] = build
             /\ stray => \A n \in Names : now'[n] \in {now[n], Alien} \cup stable[n]
             /\ SuccessDurable'
  <2>0. Steps \/ UNCHANGED vars
    BY <1>1, StepCases
  <2>1. reading # NoRead /\ pc' = "compare" /\ reading' = NoRead /\ Head(todo) \notin stale' =>
          now[Head(todo)] = build
    BY <1>1, <2>0, ReadSound
  <2>2. ASSUME stray, NEW n \in Names PROVE now'[n] \in {now[n], Alien} \cup stable[n]
    <3>1. ~Replaces
      BY <1>1, <2>2 DEF VisualInv, Progress, Writing, Replaces
    <3>2. Settles \/ \E o \in Names : Edits(o)
      BY <1>1, <2>0, <3>1, DiskCases DEF VisualInv
    <3>3. CASE Settles
      BY <3>3 DEF Settles
    <3>4. ASSUME NEW o \in Names, Edits(o) PROVE now'[n] \in {now[n], Alien}
      BY <1>1, <3>4 DEF Edits, VisualInv, Types
    <3> QED
      BY <3>2, <3>3, <3>4
  <2>3. SuccessDurable'
    BY <1>1, VerifiedDurable, PTL
  <2> QED
    BY <2>1, <2>2, <2>3
<1>2. VisualInv /\ VisualInv' /\ [Next]_vars =>
        [/\ reading # NoRead /\ pc' = "compare" /\ reading' = NoRead /\ Head(todo) \notin stale' =>
              now[Head(todo)] = build
         /\ stray => \A n \in Names : now'[n] \in {now[n], Alien} \cup stable[n]
         /\ SuccessDurable']_vars
  BY <1>1
<1> QED
  BY <1>2, VisualInvariant, PTL DEF Spec, RunsSound
=============================================================================
