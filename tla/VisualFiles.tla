----------------------------- MODULE VisualFiles ------------------------------
(***************************************************************************)
(* How render_readme_visuals checks and replaces the README's artifacts     *)
(* (tools/render_readme_visuals, main.go and visualfs.go): a preflight      *)
(* check, one atomic replacement per artifact, the manifest last, and a     *)
(* check of what was written.  The process may be killed and the machine    *)
(* may lose power between any two steps, and others may edit an artifact.   *)
(*                                                                          *)
(* A payload is the number of its build, for contents and mode together; a  *)
(* build may repeat the last one, and a file whose mode somebody changed is *)
(* nobody's build.                                                          *)
(* stable gives, for an artifact, everything that may be found under its    *)
(* name after a loss of power: a rename is only certain once the directory  *)
(* has been synced.                                                         *)
(***************************************************************************)
EXTENDS Integers, Sequences, FiniteSets, SequencesExt

CONSTANTS
  Pages,        \* the artifacts but the manifest, in the order they are written
  sortedArtifactNames,  \* all of them, in the order they are checked
  MaxBuilds, MaxEdits

Manifest == "manifest"
Names == ToSet(Pages) \cup {Manifest}

ASSUME VisualAssumption ==
  /\ Pages \in Seq(STRING) /\ sortedArtifactNames \in Seq(STRING)
  /\ Manifest \notin ToSet(Pages) /\ {"none", "unexpected"} \cap ToSet(Pages) = {}
  /\ ToSet(sortedArtifactNames) = Names
  /\ {MaxBuilds, MaxEdits} \subseteq Nat

Absent == 0
Torn == -1
Alien == 99         \* what someone else wrote

(* Fault: the names are simply sorted. *)
visualWriteOrderSorted == <<Manifest>> \o Pages
visualWriteOrder == Pages \o <<Manifest>>

VARIABLES
  now, stable,      \* per artifact: its payload; what a loss of power may leave
  tmp, synced,      \* the temporary file: "none", "empty", "part" or "whole"; on disk
  stray,            \* temporary files that earlier runs left behind
  pc, mode, build,
  todo,             \* artifacts still to be written or checked
  reading, stale,   \* the read in progress; artifacts found to differ
  edited, exit

disk == <<now, stable, tmp, synced, stray>>
vars == <<disk, pc, mode, build, todo, reading, stale, edited, exit>>

(* changed: the file's identity, size or time is no longer what Lstat saw. *)
NoRead == [of |-> "none", payload |-> Absent, changed |-> FALSE]
Init ==
  /\ \E v \in {Absent, 1} : now = [n \in Names |-> v] /\ stable = [n \in Names |-> {v}]
  /\ tmp = "none" /\ synced = FALSE /\ stray = FALSE
  /\ pc = "idle" /\ mode = "none" /\ build = 1
  /\ todo = <<>> /\ reading = NoRead /\ stale = {}
  /\ edited = {} /\ exit = "none"

Goto(place) == pc' = place /\ UNCHANGED <<mode, build, exit>>
Stop(code) == pc' = "idle" /\ exit' = code /\ UNCHANGED <<mode, build>>

-----------------------------------------------------------------------------
(* A run: --check, or a check, the writing and a second check *)

Start ==
  /\ pc = "idle"
  /\ mode' \in {"check", "write"} /\ build' \in {build, build + 1} \cap 1..MaxBuilds
  /\ pc' = "scan" /\ exit' = "none" /\ stale' = {}
  /\ UNCHANGED <<disk, todo, reading, edited>>

Unexpected == stray

(* readBoundedVisualEntries: an entry that is not an artifact is noted as   *)
(* unexpected, and the check goes on.  Like every read of the directory it  *)
(* may fail.                                                                *)
Scan ==
  /\ pc = "scan"
  /\ \/ Stop("failure") /\ UNCHANGED <<todo, stale>>
     \/ Goto("compare") /\ todo' = sortedArtifactNames
        /\ stale' = IF Unexpected THEN {"unexpected"} ELSE {}
  /\ UNCHANGED <<disk, reading, edited>>

(* readBoundedVisualLeaf: the file before, the payload, the file after.     *)
(* Reading may fail, and a file that changed meanwhile is a failure.        *)
BeginRead ==
  /\ pc = "compare" /\ todo # <<>> /\ reading = NoRead
  /\ LET n == Head(todo) IN
     IF now[n] = Absent
     THEN stale' = stale \cup {n} /\ todo' = Tail(todo) /\ UNCHANGED reading
     ELSE reading' = [of |-> n, payload |-> now[n], changed |-> FALSE] /\ UNCHANGED <<stale, todo>>
  /\ UNCHANGED <<disk, pc, mode, build, edited, exit>>

Judge(n) == stale' = IF reading.payload = build THEN stale ELSE stale \cup {n}

EndRead ==
  /\ pc = "compare" /\ reading # NoRead
  /\ \/ Stop("failure") /\ UNCHANGED <<stale, todo>>
     \/ ~reading.changed /\ Judge(Head(todo)) /\ todo' = Tail(todo) /\ Goto("compare")
  /\ reading' = NoRead
  /\ UNCHANGED <<disk, edited>>

(* Only what is unexpected keeps a run from writing.  The second check      *)
(* follows the writing and is the same code.                                *)
Compared ==
  /\ pc = "compare" /\ todo = <<>>
  /\ IF mode = "write" /\ "unexpected" \notin stale THEN pc' = "inventory" /\ UNCHANGED <<mode, build, exit>>
     ELSE Stop(IF stale = {} THEN "success" ELSE "failure")
  /\ UNCHANGED <<disk, todo, reading, stale, edited>>

-----------------------------------------------------------------------------
(* writeVisualArtifacts *)

Inventory ==
  /\ pc = "inventory"
  /\ \/ Stop("failure") /\ UNCHANGED todo
     \/ ~Unexpected /\ Goto("create") /\ todo' = visualWriteOrder
  /\ UNCHANGED <<disk, reading, stale, edited>>

(* atomicWriteVisual.  Every step may fail; the deferred call then removes  *)
(* the temporary file, unless that fails as well: its error is ignored.     *)
FailWrite ==
  /\ pc \in {"create", "fill", "sync", "rename"} /\ todo # <<>>
  /\ tmp' = "none" /\ synced' = FALSE /\ Stop("failure")
  /\ stray' \in (IF tmp = "none" THEN {stray} ELSE {stray, TRUE})
  /\ UNCHANGED <<now, stable, todo, reading, stale, edited>>

CreateTemporary ==
  /\ pc = "create" /\ todo # <<>> /\ Goto("fill")
  /\ tmp' = "empty" /\ synced' = FALSE
  /\ UNCHANGED <<now, stable, stray, todo, reading, stale, edited>>

writeAllVisual ==
  /\ pc = "fill"
  /\ \/ tmp = "empty" /\ tmp' = "part" /\ Goto("fill")
     \/ tmp' = "whole" /\ Goto("sync")
  /\ UNCHANGED <<now, stable, synced, stray, todo, reading, stale, edited>>

SyncFile ==
  /\ pc = "sync" /\ Goto("rename") /\ synced' = TRUE
  /\ UNCHANGED <<now, stable, tmp, stray, todo, reading, stale, edited>>

Rename ==
  /\ pc = "rename" /\ Goto("syncDir")
  /\ LET n == Head(todo) IN
     /\ now' = [now EXCEPT ![n] = IF tmp = "whole" THEN build ELSE Torn]
     /\ stable' = [stable EXCEPT ![n] = @ \cup {IF synced /\ tmp = "whole" THEN build ELSE Torn}]
  /\ tmp' = "none" /\ synced' = FALSE
  /\ UNCHANGED <<stray, todo, reading, stale, edited>>

(* Fault: the directory is not synced. *)
SyncDirectorySkipped ==
  /\ pc = "syncDir" /\ Goto("create") /\ todo' = Tail(todo)
  /\ UNCHANGED <<disk, reading, stale, edited>>

(* The replaced artifact is verified, then the directory synced. *)
SyncDirectory ==
  /\ pc = "syncDir"
  /\ \/ /\ Goto("create") /\ todo' = Tail(todo)
        /\ stable' = [n \in Names |-> {now[n]}]
     \/ Stop("failure") /\ UNCHANGED <<todo, stable>>
  /\ UNCHANGED <<now, tmp, synced, stray, reading, stale, edited>>

(* A last check of everything. *)
Written ==
  /\ pc = "create" /\ todo = <<>>
  /\ pc' = "scan" /\ mode' = "verify" /\ UNCHANGED <<build, exit>>
  /\ UNCHANGED <<disk, todo, reading, stale, edited>>

-----------------------------------------------------------------------------
(* What happens to the process *)

Halt ==
  /\ pc' = "idle" /\ exit' = "crashed" /\ todo' = <<>> /\ reading' = NoRead
  /\ tmp' = "none" /\ synced' = FALSE

Killed ==
  /\ pc # "idle" /\ Halt
  /\ stray' = (stray \/ tmp # "none")
  /\ UNCHANGED <<now, stable, mode, build, stale, edited>>

PowerLost ==
  /\ pc # "idle" /\ Halt
  /\ now' \in {f \in [Names -> UNION {stable[n] : n \in Names}] : \A n \in Names : f[n] \in stable[n]}
  /\ stable' = [n \in Names |-> {now'[n]}]
  /\ stray' \in (IF tmp = "none" THEN {stray} ELSE {stray, TRUE})
  /\ UNCHANGED <<mode, build, stale, edited>>

OthersEdit(n) ==
  /\ n \notin edited /\ Cardinality(edited) < MaxEdits
  /\ now' = [now EXCEPT ![n] = Alien] /\ stable' = [stable EXCEPT ![n] = @ \cup {Alien}]
  /\ edited' = edited \cup {n}
  /\ reading' = [reading EXCEPT !.changed = @ \/ reading.of = n]
  /\ UNCHANGED <<tmp, synced, stray, pc, mode, build, todo, stale, exit>>

OthersTidyUp ==
  /\ pc = "idle" /\ stray /\ stray' = FALSE
  /\ UNCHANGED <<now, stable, tmp, synced, pc, mode, build, todo, reading, stale, edited, exit>>

-----------------------------------------------------------------------------
Program ==
  \/ Scan \/ BeginRead \/ EndRead \/ Compared \/ Inventory \/ FailWrite \/ CreateTemporary
  \/ writeAllVisual \/ SyncFile \/ Rename \/ SyncDirectory \/ Written

Next ==
  \/ Start \/ Program \/ Killed \/ PowerLost \/ OthersTidyUp
  \/ \E n \in Names : OthersEdit(n)

Spec == Init /\ [][Next]_vars

(* The manifest vouches for the pages.  At every moment, and after a kill   *)
(* or a loss of power at any moment, no page is older than the manifest:    *)
(* the manifest is never ahead of what it describes.  And no artifact is    *)
(* found half written, whenever the run was cut short.                      *)
ManifestNeverAhead ==
  /\ \A n \in Names : Torn \notin stable[n] \cup {now[n]}
  /\ \A p \in ToSet(Pages) : edited \cap {p, Manifest} = {} =>
       \A v \in stable[p] \cup {now[p]}, m \in stable[Manifest] \cup {now[Manifest]} : m <= v

(* What a run reports as written survives a loss of power, whatever a run   *)
(* before it had left half done.                                            *)
SuccessDurable ==
  exit = "success" /\ mode = "verify" => \A n \in Names \ edited : stable[n] = {now[n]} /\ now[n] = build

(* A run is sure of what it does and says.  An artifact it takes for its    *)
(* own was so at the end of the reading: an edit during the reading is seen *)
(* or not yet made.  While a temporary file of a run that was cut short is  *)
(* there, no artifact is replaced.  And what it reports as written lasts.   *)
RunsSound ==
  [][/\ reading # NoRead /\ pc' = "compare" /\ reading' = NoRead /\ Head(todo) \notin stale' =>
          now[Head(todo)] = build
     /\ stray => \A n \in Names : now'[n] \in {now[n], Alien} \cup stable[n]
     /\ SuccessDurable']_vars
=============================================================================
