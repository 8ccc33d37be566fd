---------------------------- MODULE FileMoFProofs ----------------------------
(***************************************************************************)
(* Proofs about FileMoF, for any number of files, documents and crashes:   *)
(* its types, that the target is never torn, that what was answered        *)
(* survives, and that it implements StableStorage.  The inductive          *)
(* invariant says that the open handle and the files that a boot may find  *)
(* are kept apart until the rename, at which point the file is complete.   *)
(***************************************************************************)
EXTENDS FileMoF, TLAPS, FiniteSetTheorems

\* Before the rename, an attempt works on a file that no boot may find.
Working == {"write", "flush", "sync", "rename"}

\* A step of an attempt, or a buffer that has not been emptied, belongs to a
\* running process, whose open file has been created; the buffer is empty once
\* it has been flushed.
HandleOpen ==
    /\ pc # "idle" \/ buffer # 0 => up
    /\ up => content[inner].amount # "unused"
    /\ pc # "idle" => version > 0
    /\ pc \in {"sync", "rename", "sync_dir"} => buffer = 0

\* Whatever a boot may find is complete and on disk.
FoundIsWhole ==
    \A f \in Reachable :
        content[f].amount = "synced" /\ content[f].doc <= version

\* The open file is not one of them while something may still be written to
\* it, and they are older than what is being written.
Apart ==
    /\ pc \in Working \/ buffer # 0 => inner \notin Reachable
    /\ pc \in Working => \A f \in Reachable : content[f].doc < version

\* How far the open file has come.
Progress ==
    /\ pc = "flush" => content[inner].doc = version
    /\ pc \in {"sync", "rename"} =>
         content[inner].doc = version /\ content[inner].amount \in Whole
    /\ pc = "rename" => content[inner].amount = "synced"
    /\ pc = "sync_dir" => target = inner /\ content[inner].doc = version

\* What was answered is not newer than what a boot may find.
AnsweredKept ==
    /\ answered <= version
    /\ temp_dir = "same" => \A f \in older \cup {target} : Document(f) >= answered
    /\ outages = 0 => Document(target) >= answered

\* The inductive invariant.
FileInv ==
    /\ TypeOK
    /\ HandleOpen
    /\ FoundIsWhole
    /\ Apart
    /\ Progress
    /\ AnsweredKept
-----------------------------------------------------------------------------
\* new_backing is a file that has not been used.
LEMMA NewBackingIsFresh ==
    ASSUME Fresh # {}
    PROVE  new_backing \in File /\ content[new_backing].amount = "unused"
BY DEF new_backing, Fresh

LEMMA InitInv == Init => FileInv
BY FileAssumption DEF Init, FileInv, TypeOK, HandleOpen, FoundIsWhole, Apart,
   Progress, AnsweredKept, Reachable, Working, Amount, Document, up

\* Types are kept by every step.
LEMMA TypeStep ==
    ASSUME TypeOK, [Next]_vars
    PROVE  TypeOK'
<1> USE FileAssumption, BoundsAssumption DEF TypeOK, Amount, up
<1>1. CASE Boot
  BY <1>1, NewBackingIsFresh DEF Boot, Document
<1>2. CASE Rewind
  <2>1. PICK old \in Dropped(inner) :
          content' = [content EXCEPT ![inner] = old,
                                     ![new_backing].amount = "empty"]
    BY <1>2 DEF Rewind
  <2>2. old \in [doc : Nat, amount : Amount]
    BY <1>2 DEF Rewind, Dropped
  <2>3. content' \in [File -> [doc : Nat, amount : Amount]]
    BY <2>1, <2>2
  <2> QED BY <1>2, <2>3, NewBackingIsFresh DEF Rewind
<1>3. CASE RewindFails
  BY <1>3 DEF RewindFails
<1>4. CASE Write
  <2>1. PICK a \in {"empty", "part", "whole"} :
          content' = [content EXCEPT ![inner].doc = version, ![inner].amount = a]
    BY <1>4 DEF Write
  <2>2. content' \in [File -> [doc : Nat, amount : Amount]]
    BY <2>1
  <2> QED BY <1>4, <2>2 DEF Write
<1>5. CASE WriteFails
  <2>1. PICK a \in {"empty", "part"} :
          content' = [content EXCEPT ![inner].doc = version, ![inner].amount = a]
    BY <1>5 DEF WriteFails
  <2>2. content' \in [File -> [doc : Nat, amount : Amount]]
    BY <2>1
  <2> QED BY <1>5, <2>2 DEF WriteFails
<1>6. CASE Flush
  BY <1>6 DEF Flush
<1>7. CASE FlushFails
  <2>1. PICK a \in {content[inner].amount, "part"} :
          content' = [content EXCEPT ![inner].amount = a]
    BY <1>7 DEF FlushFails
  <2>2. content' \in [File -> [doc : Nat, amount : Amount]]
    BY <2>1
  <2> QED BY <1>7, <2>2 DEF FlushFails
<1>8. CASE Sync
  BY <1>8 DEF Sync
<1>9. CASE Rename
  BY <1>9 DEF Rename
<1>10. CASE Fail
  BY <1>10 DEF Fail
<1>11. CASE SyncDir
  BY <1>11 DEF SyncDir
<1>12. CASE Kill
  BY <1>12 DEF Kill
<1>13. CASE PowerFailure
  <2>1. content' \in [File -> [doc : Nat, amount : Amount]]
    BY <1>13 DEF PowerFailure, Remains
  <2> QED BY <1>13, <2>1 DEF PowerFailure
<1>14. CASE UNCHANGED vars
  BY <1>14 DEF vars
<1> QED
  BY <1>1, <1>2, <1>3, <1>4, <1>5, <1>6, <1>7, <1>8, <1>9, <1>10, <1>11,
     <1>12, <1>13, <1>14 DEF Next, Attempt

\* A step that touches neither the target's name nor the files that a boot may
\* find changes nothing about what it finds.
LEMMA Untouched ==
    ASSUME FileInv,
           UNCHANGED <<target, older, answered, outages, temp_dir>>,
           \A f \in Reachable : content'[f] = content[f],
           version' \in Nat, version' >= version
    PROVE  /\ Reachable' = Reachable
           /\ \A f \in older \cup {target} : Document(f)' = Document(f)
           /\ FoundIsWhole'
           /\ AnsweredKept'
<1>1. Reachable' = Reachable
  BY DEF Reachable
<1>2. \A f \in older \cup {target} : Document(f)' = Document(f)
  BY DEF Document, Reachable
<1>3. FoundIsWhole'
  <2>1. \A f \in Reachable : content[f].doc \in Nat /\ content[f].doc <= version
    BY DEF FileInv, TypeOK, FoundIsWhole, Reachable
  <2>2. version \in Nat
    BY DEF FileInv, TypeOK
  <2> QED BY <1>1, <2>1, <2>2 DEF FileInv, FoundIsWhole
<1>4. AnsweredKept'
  <2>1. answered \in Nat /\ version \in Nat /\ answered <= version
    BY DEF FileInv, TypeOK, AnsweredKept
  <2>2. (answered <= version)'
    BY <2>1
  <2>3. (temp_dir = "same" => \A f \in older \cup {target} :
                                Document(f) >= answered)'
    BY <1>2 DEF FileInv, AnsweredKept
  <2>4. (outages = 0 => Document(target) >= answered)'
    BY <1>2 DEF FileInv, AnsweredKept
  <2> QED BY <2>2, <2>3, <2>4 DEF AnsweredKept
<1> QED BY <1>1, <1>2, <1>3, <1>4

\* A power failure takes nothing from the file that is found after it.
LEMMA FilesSurvive ==
    ASSUME FileInv, PowerFailure
    PROVE  content' = content
<1>1. CASE target' = NoFile
  BY <1>1 DEF PowerFailure
<1>2. CASE target' # NoFile
  <2>1. target' \in Reachable
    BY <1>2 DEF PowerFailure, Reachable
  <2>2. Remains(target') = {content[target']}
    BY <2>1 DEF Remains, FileInv, FoundIsWhole
  <2>3. content' = [content EXCEPT ![target'] = content[target']]
    BY <1>2, <2>2 DEF PowerFailure
  <2> QED BY <2>1, <2>3 DEF FileInv, TypeOK
<1> QED BY <1>1, <1>2

\* Everything else is kept by every step.
LEMMA InvStep ==
    ASSUME FileInv, [Next]_vars
    PROVE  FileInv'
<1>0. TypeOK'
  BY TypeStep DEF FileInv
<1> SUFFICES HandleOpen' /\ FoundIsWhole' /\ Apart' /\ Progress'
             /\ AnsweredKept'
  BY <1>0 DEF FileInv
<1> USE FileAssumption, BoundsAssumption
<1>1. CASE Boot
  <2>0. new_backing \in File /\ content[new_backing].amount = "unused"
    BY <1>1, NewBackingIsFresh DEF Boot
  <2>1. \A f \in Reachable : content'[f] = content[f]
    BY <1>1, <2>0 DEF Boot, FileInv, FoundIsWhole, TypeOK, Reachable
  <2>2. Reachable' = Reachable /\ FoundIsWhole' /\ AnsweredKept'
    BY <1>1, <2>1, Untouched DEF Boot, FileInv, TypeOK
  <2>3. pc = "idle" /\ buffer = 0
    BY <1>1 DEF Boot, FileInv, HandleOpen
  <2>4. HandleOpen'
    BY <1>1, <2>0, <2>3 DEF Boot, FileInv, HandleOpen, TypeOK
  <2>5. Apart'
    BY <1>1, <2>3 DEF Boot, Apart, Working
  <2>6. Progress'
    BY <1>1, <2>3 DEF Boot, Progress
  <2> QED BY <2>2, <2>4, <2>5, <2>6
<1>2. CASE Rewind
  <2>0. /\ new_backing \in File
        /\ content[new_backing].amount = "unused"
        /\ inner \in File
        /\ inner # new_backing
    BY <1>2, NewBackingIsFresh DEF Rewind, FileInv, HandleOpen, TypeOK, up
  <2>1. PICK old \in Dropped(inner) :
          content' = [content EXCEPT ![inner] = old,
                                     ![new_backing].amount = "empty"]
    BY <1>2 DEF Rewind
  <2>2. /\ content'[inner] = old
        /\ content'[new_backing].amount = "empty"
        /\ \A f \in File \ {inner, new_backing} : content'[f] = content[f]
    BY <2>0, <2>1 DEF FileInv, TypeOK
  <2>3. inner \in Reachable => old = content[inner]
    BY DEF Dropped, FileInv, Apart
  <2>4. new_backing \notin Reachable
    BY <2>0 DEF FileInv, FoundIsWhole
  <2>5. \A f \in Reachable : content'[f] = content[f]
    BY <2>2, <2>3, <2>4 DEF Reachable, FileInv, TypeOK
  <2>6. version \in Nat /\ version' = version + 1
    BY <1>2 DEF Rewind, FileInv, TypeOK
  <2>7. version' \in Nat /\ version' >= version /\ version' > 0
    BY <2>6
  <2>8. UNCHANGED <<target, older, answered, outages, temp_dir>>
    BY <1>2 DEF Rewind
  <2>9. Reachable' = Reachable /\ FoundIsWhole' /\ AnsweredKept'
    BY <2>5, <2>7, <2>8, Untouched
  <2>10. HandleOpen'
    BY <1>2, <2>0, <2>2, <2>7 DEF Rewind, HandleOpen, up
  <2>11. \A f \in Reachable : content[f].doc \in Nat /\ content[f].doc <= version
    BY DEF FileInv, TypeOK, FoundIsWhole, Reachable
  <2>12. Apart'
    <3>1. inner' \notin Reachable'
      BY <1>2, <2>4, <2>9 DEF Rewind
    <3>2. \A f \in Reachable' : content'[f].doc < version'
      BY <2>5, <2>6, <2>9, <2>11
    <3> QED BY <3>1, <3>2 DEF Apart
  <2>13. Progress'
    BY <1>2 DEF Rewind, Progress
  <2> QED BY <2>9, <2>10, <2>12, <2>13
<1>3. CASE RewindFails
  <2>1. \A f \in Reachable : content'[f] = content[f]
    BY <1>3 DEF RewindFails, FileInv, Apart, Working, TypeOK, Reachable
  <2>2. Reachable' = Reachable /\ FoundIsWhole' /\ AnsweredKept'
    BY <1>3, <2>1, Untouched DEF RewindFails, FileInv, TypeOK
  <2>3. HandleOpen'
    BY <1>3 DEF RewindFails, FileInv, HandleOpen, TypeOK, up
  <2>4. Apart'
    BY <1>3, <2>1, <2>2 DEF RewindFails, FileInv, Apart, Working, HandleOpen
  <2>5. Progress'
    BY <1>3 DEF RewindFails, FileInv, Progress, HandleOpen, TypeOK, up, Whole
  <2> QED BY <2>2, <2>3, <2>4, <2>5
<1>4. CASE Write
  <2>1. \A f \in Reachable : content'[f] = content[f]
    BY <1>4 DEF Write, FileInv, Apart, Working, TypeOK, Reachable
  <2>2. Reachable' = Reachable /\ FoundIsWhole' /\ AnsweredKept'
    <3>1. UNCHANGED <<target, older, answered, outages, temp_dir, version>>
      BY <1>4 DEF Write
    <3>2. version' \in Nat /\ version' >= version
      BY <3>1 DEF FileInv, TypeOK
    <3> QED BY <2>1, <3>1, <3>2, Untouched
  <2>3. HandleOpen'
    BY <1>4 DEF Write, FileInv, HandleOpen, TypeOK, up
  <2>4. Apart'
    BY <1>4, <2>1, <2>2 DEF Write, FileInv, Apart, Working, HandleOpen
  <2>5. Progress'
    BY <1>4 DEF Write, FileInv, Progress, HandleOpen, TypeOK, up, Whole
  <2> QED BY <2>2, <2>3, <2>4, <2>5
<1>5. CASE WriteFails
  <2>1. \A f \in Reachable : content'[f] = content[f]
    BY <1>5 DEF WriteFails, FileInv, Apart, Working, TypeOK, Reachable
  <2>2. Reachable' = Reachable /\ FoundIsWhole' /\ AnsweredKept'
    <3>1. UNCHANGED <<target, older, answered, outages, temp_dir, version>>
      BY <1>5 DEF WriteFails
    <3>2. version' \in Nat /\ version' >= version
      BY <3>1 DEF FileInv, TypeOK
    <3> QED BY <2>1, <3>1, <3>2, Untouched
  <2>3. HandleOpen'
    BY <1>5 DEF WriteFails, FileInv, HandleOpen, TypeOK, up
  <2>4. Apart'
    BY <1>5, <2>1, <2>2 DEF WriteFails, FileInv, Apart, Working, HandleOpen
  <2>5. Progress'
    BY <1>5 DEF WriteFails, FileInv, Progress, HandleOpen, TypeOK, up, Whole
  <2> QED BY <2>2, <2>3, <2>4, <2>5
<1>6. CASE Flush
  <2>1. \A f \in Reachable : content'[f] = content[f]
    BY <1>6 DEF Flush, FileInv, Apart, Working, TypeOK, Reachable
  <2>2. Reachable' = Reachable /\ FoundIsWhole' /\ AnsweredKept'
    BY <1>6, <2>1, Untouched DEF Flush, FileInv, TypeOK
  <2>3. HandleOpen'
    BY <1>6 DEF Flush, FileInv, HandleOpen, TypeOK, up
  <2>4. Apart'
    BY <1>6, <2>1, <2>2 DEF Flush, FileInv, Apart, Working, HandleOpen
  <2>5. Progress'
    BY <1>6 DEF Flush, FileInv, Progress, HandleOpen, TypeOK, up, Whole
  <2> QED BY <2>2, <2>3, <2>4, <2>5
<1>7. CASE FlushFails
  <2>1. \A f \in Reachable : content'[f] = content[f]
    BY <1>7 DEF FlushFails, FileInv, Apart, Working, TypeOK, Reachable
  <2>2. Reachable' = Reachable /\ FoundIsWhole' /\ AnsweredKept'
    BY <1>7, <2>1, Untouched DEF FlushFails, FileInv, TypeOK
  <2>3. HandleOpen'
    BY <1>7 DEF FlushFails, FileInv, HandleOpen, TypeOK, up
  <2>4. Apart'
    BY <1>7, <2>1, <2>2 DEF FlushFails, FileInv, Apart, Working, HandleOpen
  <2>5. Progress'
    BY <1>7 DEF FlushFails, FileInv, Progress, HandleOpen, TypeOK, up, Whole
  <2> QED BY <2>2, <2>3, <2>4, <2>5
<1>8. CASE Sync
  <2>1. \A f \in Reachable : content'[f] = content[f]
    BY <1>8 DEF Sync, FileInv, Apart, Working, TypeOK, Reachable
  <2>2. Reachable' = Reachable /\ FoundIsWhole' /\ AnsweredKept'
    BY <1>8, <2>1, Untouched DEF Sync, FileInv, TypeOK
  <2>3. HandleOpen'
    BY <1>8 DEF Sync, FileInv, HandleOpen, TypeOK, up
  <2>4. Apart'
    BY <1>8, <2>1, <2>2 DEF Sync, FileInv, Apart, Working, HandleOpen
  <2>5. Progress'
    BY <1>8 DEF Sync, FileInv, Progress, HandleOpen, TypeOK, up, Whole
  <2> QED BY <2>2, <2>3, <2>4, <2>5
<1>9. CASE Rename
  <2>1. /\ inner \in File
        /\ content[inner].amount = "synced"
        /\ content[inner].doc = version
        /\ version \in Nat
    BY <1>9 DEF Rename, FileInv, HandleOpen, Progress, TypeOK, up
  <2>2. Reachable' = Reachable \cup {inner}
    BY <1>9, <2>1 DEF Rename, Reachable
  <2>3. FoundIsWhole'
    BY <1>9, <2>1, <2>2 DEF Rename, FileInv, FoundIsWhole
  <2>4. HandleOpen'
    BY <1>9 DEF Rename, FileInv, HandleOpen, up
  <2>5. Apart'
    <3>1. buffer = 0
      BY <1>9 DEF Rename, FileInv, HandleOpen
    <3> QED BY <1>9, <3>1 DEF Rename, Apart, Working
  <2>6. Progress'
    BY <1>9, <2>1 DEF Rename, Progress
  <2>7. AnsweredKept'
    <3>1. \A f : Document(f)' = Document(f)
      BY <1>9 DEF Rename, Document
    <3>2. Document(inner) = version
      BY <2>1 DEF Document
    <3>3. answered \in Nat /\ answered <= version
      BY DEF FileInv, TypeOK, AnsweredKept
    <3> QED BY <1>9, <2>1, <3>1, <3>2, <3>3 DEF Rename, FileInv, AnsweredKept
  <2> QED BY <2>3, <2>4, <2>5, <2>6, <2>7
<1>10. CASE Fail
  <2>1. \A f \in Reachable : content'[f] = content[f]
    BY <1>10 DEF Fail, FileInv, Apart, Working, TypeOK, Reachable
  <2>2. Reachable' = Reachable /\ FoundIsWhole' /\ AnsweredKept'
    BY <1>10, <2>1, Untouched DEF Fail, FileInv, TypeOK
  <2>3. HandleOpen'
    BY <1>10 DEF Fail, FileInv, HandleOpen, TypeOK, up
  <2>4. Apart'
    BY <1>10, <2>1, <2>2 DEF Fail, FileInv, Apart, Working, HandleOpen
  <2>5. Progress'
    BY <1>10 DEF Fail, FileInv, Progress, HandleOpen, TypeOK, up, Whole
  <2> QED BY <2>2, <2>3, <2>4, <2>5
<1>11. CASE SyncDir
  <2>1. /\ target = inner
        /\ target \in File
        /\ content[target].doc = version
        /\ content[target].amount = "synced"
        /\ version \in Nat
    BY <1>11 DEF SyncDir, FileInv, Progress, HandleOpen, FoundIsWhole, Reachable,
       TypeOK, up
  <2>2. Reachable' \subseteq Reachable
    BY <1>11 DEF SyncDir, Reachable
  <2>3. FoundIsWhole'
    BY <1>11, <2>2 DEF SyncDir, FileInv, FoundIsWhole
  <2>4. HandleOpen'
    BY <1>11 DEF SyncDir, FileInv, HandleOpen, up
  <2>5. Apart'
    BY <1>11, <2>2 DEF SyncDir, FileInv, Apart, Working
  <2>6. Progress'
    BY <1>11 DEF SyncDir, Progress
  <2>7. AnsweredKept'
    <3>1. \A f : Document(f)' = Document(f)
      BY <1>11 DEF SyncDir, Document
    <3>2. Document(target) = version
      BY <2>1 DEF Document
    <3> QED BY <1>11, <2>1, <3>1, <3>2 DEF SyncDir, AnsweredKept
  <2> QED BY <2>3, <2>4, <2>5, <2>6, <2>7
<1>12. CASE Kill
  <2>1. \A f \in Reachable : content'[f] = content[f]
    BY <1>12 DEF Kill, FileInv, Apart, Working, TypeOK, Reachable
  <2>2. Reachable' = Reachable /\ FoundIsWhole' /\ AnsweredKept'
    BY <1>12, <2>1, Untouched DEF Kill, FileInv, TypeOK
  <2>3. HandleOpen'
    BY <1>12 DEF Kill, FileInv, HandleOpen, TypeOK, up
  <2>4. Apart'
    BY <1>12, <2>1, <2>2 DEF Kill, FileInv, Apart, Working, HandleOpen
  <2>5. Progress'
    BY <1>12 DEF Kill, FileInv, Progress, HandleOpen, TypeOK, up, Whole
  <2> QED BY <2>2, <2>3, <2>4, <2>5
<1>13. CASE PowerFailure
  <2>1. target' \in older \cup {target} /\ older' = {}
    BY <1>13 DEF PowerFailure
  <2>2. Reachable' \subseteq Reachable
    BY <2>1 DEF Reachable
  <2>3. content' = content
    BY <1>13, FilesSurvive
  <2>4. FoundIsWhole'
    BY <1>13, <2>2, <2>3 DEF PowerFailure, FileInv, FoundIsWhole
  <2>5. HandleOpen' /\ Apart' /\ Progress'
    BY <1>13 DEF PowerFailure, HandleOpen, Apart, Progress, Working, up
  <2>6. AnsweredKept'
    <3>1. \A f : Document(f)' = Document(f)
      BY <2>3 DEF Document
    <3>2. outages' # 0
      BY <1>13 DEF PowerFailure, FileInv, TypeOK
    <3> QED BY <1>13, <2>1, <3>1, <3>2 DEF PowerFailure, FileInv, AnsweredKept
  <2> QED BY <2>4, <2>5, <2>6
<1>14. CASE UNCHANGED vars
  BY <1>14 DEF vars, FileInv, HandleOpen, FoundIsWhole, Apart, Progress,
     AnsweredKept, Reachable, Document, up
<1> QED
  BY <1>1, <1>2, <1>3, <1>4, <1>5, <1>6, <1>7, <1>8, <1>9, <1>10, <1>11,
     <1>12, <1>13, <1>14 DEF Next, Attempt
-----------------------------------------------------------------------------
LEMMA Invariant == Spec => []FileInv
<1>1. FileInv /\ [Next]_vars => FileInv'
  BY InvStep
<1> QED BY InitInv, <1>1, PTL DEF Spec

\* The variables of FileMoF keep their types, through every failure of a
\* system call and every crash.
THEOREM FileTypes == Spec => []TypeOK
<1>1. FileInv => TypeOK
  BY DEF FileInv
<1> QED BY Invariant, <1>1, PTL

\* Whatever fails and crashes, the next boot finds a whole document or none:
\* the handle that stays open on the target after the rename is never written
\* through, and what is renamed has been synced (rewind, flush).
THEOREM TargetIsNeverTorn == Spec => []NeverTorn
<1>1. FileInv => NeverTorn
  BY DEF FileInv, FoundIsWhole, NeverTorn, Whole
<1> QED BY Invariant, <1>1, PTL

\* A document whose responses were sent is not lost by a killed process, and
\* not by a power failure either if flush syncs the directory of the target.
THEOREM AnswersSurvive == Spec => []AnsweredSurvives
<1>1. FileInv => AnsweredSurvives
  BY DEF FileInv, AnsweredKept, AnsweredSurvives
<1> QED BY Invariant, <1>1, PTL
-----------------------------------------------------------------------------
(***************************************************************************)
(* The refinement: every step of FileMoF is one of StableStorage, or       *)
(* changes nothing there.                                                  *)
(***************************************************************************)
\* What a boot finds under each name, before and after a step that touches
\* neither the names nor those files.
LEMMA SameStorage ==
    ASSUME FileInv,
           UNCHANGED <<target, older>>,
           \A f \in Reachable : content'[f] = content[f]
    PROVE  /\ Document(target)' = Document(target)
           /\ {Document(f) : f \in older}' = {Document(f) : f \in older}
<1>1. \A f \in older \cup {target} : Document(f)' = Document(f)
  BY DEF Document, Reachable
<1> QED BY <1>1

\* The document in the target is older than the one being written.
LEMMA NewerThanTarget ==
    ASSUME FileInv, pc \in Working
    PROVE  version > Document(target)
BY DEF FileInv, TypeOK, Apart, HandleOpen, Working, Document, Reachable

\* One step.
LEMMA StorageStep ==
    ASSUME FileInv, [Next]_vars
    PROVE  [Storage!Next]_(Storage!vars)
<1> USE FileAssumption, BoundsAssumption
<1>1. CASE Boot
  <2>1. new_backing \in File /\ content[new_backing].amount = "unused"
    BY <1>1, NewBackingIsFresh DEF Boot
  <2>2. \A f \in Reachable : content'[f] = content[f]
    BY <1>1, <2>1 DEF Boot, FileInv, FoundIsWhole, TypeOK, Reachable
  <2>3. /\ Document(target)' = Document(target)
        /\ {Document(f) : f \in older}' = {Document(f) : f \in older}
    BY <1>1, <2>2, SameStorage DEF Boot
  <2>4. pc = "idle" /\ pc' = "idle" /\ ~ up /\ up'
    BY <1>1, <2>1 DEF Boot, FileInv, HandleOpen, up
  <2>5. Storage!Boot
    BY <1>1, <2>3, <2>4 DEF Boot, Storage!Boot
  <2> QED BY <2>5 DEF Storage!Next
<1>2. CASE Rewind
  <2>0. /\ new_backing \in File
        /\ content[new_backing].amount = "unused"
        /\ inner \in File
        /\ inner # new_backing
    BY <1>2, NewBackingIsFresh DEF Rewind, FileInv, HandleOpen, TypeOK, up
  <2>1. PICK old \in Dropped(inner) :
          content' = [content EXCEPT ![inner] = old,
                                     ![new_backing].amount = "empty"]
    BY <1>2 DEF Rewind
  <2>2. /\ inner \in Reachable => old = content[inner]
        /\ new_backing \notin Reachable
    BY <2>0 DEF Dropped, FileInv, Apart, FoundIsWhole
  <2>3. \A f \in Reachable : content'[f] = content[f]
    BY <2>0, <2>1, <2>2 DEF FileInv, TypeOK, Reachable
  <2>4. /\ Document(target)' = Document(target)
        /\ {Document(f) : f \in older}' = {Document(f) : f \in older}
    BY <1>2, <2>3, SameStorage DEF Rewind
  <2>5. version' \in Nat \ {0}
    BY <1>2 DEF Rewind, FileInv, TypeOK
  <2>6. up /\ up' /\ pc = "idle" /\ pc' = "write"
    BY <1>2, <2>0 DEF Rewind, up
  <2>7. Storage!Begin
    BY <1>2, <2>4, <2>5, <2>6 DEF Rewind, Storage!Begin
  <2> QED BY <2>7 DEF Storage!Next
<1>3. CASE RewindFails
  <2>1. \A f \in Reachable : content'[f] = content[f]
    BY <1>3 DEF RewindFails, FileInv, Apart, Working, TypeOK, Reachable
  <2>2. /\ Document(target)' = Document(target)
        /\ {Document(f) : f \in older}' = {Document(f) : f \in older}
    BY <1>3, <2>1, SameStorage DEF RewindFails
  <2> QED BY <1>3, <2>2 DEF RewindFails, Storage!vars, up
<1>4. CASE Write
  <2>1. \A f \in Reachable : content'[f] = content[f]
    BY <1>4 DEF Write, FileInv, Apart, Working, TypeOK, Reachable
  <2>2. /\ Document(target)' = Document(target)
        /\ {Document(f) : f \in older}' = {Document(f) : f \in older}
    BY <1>4, <2>1, SameStorage DEF Write
  <2> QED BY <1>4, <2>2 DEF Write, Storage!vars, up
<1>5. CASE WriteFails
  <2>1. \A f \in Reachable : content'[f] = content[f]
    BY <1>5 DEF WriteFails, FileInv, Apart, Working, TypeOK, Reachable
  <2>2. /\ Document(target)' = Document(target)
        /\ {Document(f) : f \in older}' = {Document(f) : f \in older}
    BY <1>5, <2>1, SameStorage DEF WriteFails
  <2>3. version # 0 /\ pc # "idle"
    BY <1>5 DEF WriteFails, FileInv, HandleOpen, TypeOK
  <2>4. Storage!Refuse
    BY <1>5, <2>2, <2>3 DEF WriteFails, Storage!Refuse, up
  <2> QED BY <2>4 DEF Storage!Next
<1>6. CASE Flush
  <2>1. \A f \in Reachable : content'[f] = content[f]
    BY <1>6 DEF Flush, FileInv, Apart, Working, TypeOK, Reachable
  <2>2. /\ Document(target)' = Document(target)
        /\ {Document(f) : f \in older}' = {Document(f) : f \in older}
    BY <1>6, <2>1, SameStorage DEF Flush
  <2> QED BY <1>6, <2>2 DEF Flush, Storage!vars, up
<1>7. CASE FlushFails
  <2>1. \A f \in Reachable : content'[f] = content[f]
    BY <1>7 DEF FlushFails, FileInv, Apart, Working, TypeOK, Reachable
  <2>2. /\ Document(target)' = Document(target)
        /\ {Document(f) : f \in older}' = {Document(f) : f \in older}
    BY <1>7, <2>1, SameStorage DEF FlushFails
  <2>3. version # 0 /\ pc # "idle"
    BY <1>7 DEF FlushFails, FileInv, HandleOpen, TypeOK
  <2>4. Storage!Refuse
    BY <1>7, <2>2, <2>3 DEF FlushFails, Storage!Refuse, up
  <2> QED BY <2>4 DEF Storage!Next
<1>8. CASE Sync
  <2>1. \A f \in Reachable : content'[f] = content[f]
    BY <1>8 DEF Sync, FileInv, Apart, Working, TypeOK, Reachable
  <2>2. /\ Document(target)' = Document(target)
        /\ {Document(f) : f \in older}' = {Document(f) : f \in older}
    BY <1>8, <2>1, SameStorage DEF Sync
  <2> QED BY <1>8, <2>2 DEF Sync, Storage!vars, up
<1>9. CASE Rename
  <2>1. /\ inner \in File
        /\ content[inner].amount = "synced"
        /\ content[inner].doc = version
    BY <1>9 DEF Rename, FileInv, HandleOpen, Progress, TypeOK, up
  <2>2. \A f : Document(f)' = Document(f)
    BY <1>9 DEF Rename, Document
  <2>3. Document(target)' = version
    BY <1>9, <2>1 DEF Rename, Document
  <2>4. {Document(f) : f \in older}'
          = {Document(f) : f \in older} \cup {Document(target)}
    BY <1>9, <2>2 DEF Rename
  <2>5. version > Document(target)
    BY <1>9, NewerThanTarget DEF Rename, Working
  <2>6. Storage!Install
    BY <1>9, <2>3, <2>4, <2>5 DEF Rename, Storage!Install, up
  <2> QED BY <2>6 DEF Storage!Next
<1>10. CASE Fail
  <2>1. \A f \in Reachable : content'[f] = content[f]
    BY <1>10 DEF Fail, FileInv, Apart, Working, TypeOK, Reachable
  <2>2. /\ Document(target)' = Document(target)
        /\ {Document(f) : f \in older}' = {Document(f) : f \in older}
    BY <1>10, <2>1, SameStorage DEF Fail
  <2>3. version # 0 /\ pc # "idle"
    BY <1>10 DEF Fail, FileInv, HandleOpen, TypeOK
  <2>4. Storage!Refuse
    BY <1>10, <2>2, <2>3 DEF Fail, Storage!Refuse, up
  <2> QED BY <2>4 DEF Storage!Next
<1>11. CASE SyncDir
  <2>1. /\ target = inner
        /\ target \in File
        /\ content[target].doc = version
        /\ content[target].amount = "synced"
        /\ version # 0
    BY <1>11 DEF SyncDir, FileInv, Progress, HandleOpen, FoundIsWhole, Reachable,
       TypeOK, up
  <2>2. \A f : Document(f)' = Document(f)
    BY <1>11 DEF SyncDir, Document
  <2>3. Document(target) = version /\ Document(target)' = version
    BY <1>11, <2>1 DEF SyncDir, Document
  <2>4. {Document(f) : f \in older}' \in {{Document(f) : f \in older}, {}}
    BY <1>11, <2>2 DEF SyncDir
  <2>5. Storage!Answer
    BY <1>11, <2>1, <2>3, <2>4 DEF SyncDir, Storage!Answer, up
  <2> QED BY <2>5 DEF Storage!Next
<1>12. CASE Kill
  <2>1. \A f : Document(f)' = Document(f)
    BY <1>12 DEF Kill, Document
  <2>2. /\ Document(target)' = Document(target)
        /\ {Document(f) : f \in older}' = {Document(f) : f \in older}
    BY <1>12, <2>1 DEF Kill
  <2>3. Storage!Kill
    BY <1>12, <2>2 DEF Kill, Storage!Kill, up
  <2> QED BY <2>3 DEF Storage!Next
<1>13. CASE PowerFailure
  <2>1. target' \in older \cup {target} /\ older' = {}
    BY <1>13 DEF PowerFailure
  <2>2. content' = content
    BY <1>13, FilesSurvive
  <2>3. \A f : Document(f)' = Document(f)
    BY <2>2 DEF Document
  <2>4. Document(target)' \in {Document(f) : f \in older} \cup {Document(target)}
    BY <2>1, <2>2 DEF Document
  <2>5. {Document(f) : f \in older}' = {}
    BY <2>1
  <2>6. Storage!PowerFailure
    BY <1>13, <2>4, <2>5 DEF PowerFailure, Storage!PowerFailure, up
  <2> QED BY <2>6 DEF Storage!Next
<1>14. CASE UNCHANGED vars
  <2>1. \A f : Document(f)' = Document(f)
    BY <1>14 DEF vars, Document
  <2>2. /\ Document(target)' = Document(target)
        /\ {Document(f) : f \in older}' = {Document(f) : f \in older}
    BY <1>14, <2>1 DEF vars
  <2> QED BY <1>14, <2>2 DEF vars, Storage!vars, up
<1> QED
  BY <1>1, <1>2, <1>3, <1>4, <1>5, <1>6, <1>7, <1>8, <1>9, <1>10, <1>11,
     <1>12, <1>13, <1>14 DEF Next, Attempt

\* FileMoF implements StableStorage: through temporary files, buffers, failed
\* system calls and crashes, the document on disk is replaced in one step,
\* before its responses are sent, and a boot starts from it.
THEOREM FilesImplementStorage == Spec => ImplementsStorage
<1>1. Init => Storage!Init
  BY DEF Init, Storage!Init, Document, up
<1>2. FileInv /\ [Next]_vars => [Storage!Next]_(Storage!vars)
  BY StorageStep
<1> QED BY Invariant, <1>1, <1>2, PTL DEF Spec, ImplementsStorage, Storage!Spec
-----------------------------------------------------------------------------
(***************************************************************************)
(* Temporary files.  The set is finite, and cardinality means something.   *)
(***************************************************************************)
TempsInv ==
    /\ IsFiniteSet(temps)
    /\ TempsBounded

\* A step that is no crash leaves behind no file but the open one.
LEMMA TempsShrink ==
    ASSUME TempsInv, TypeOK, IsFiniteSet(temps'),
           temps' \ {inner'} \subseteq temps \ {inner}, crashes' = crashes
    PROVE  TempsInv'
<1>1. IsFiniteSet(temps \ {inner}) /\ Cardinality(temps \ {inner}) <= crashes
  BY FS_RemoveElement DEF TempsInv, TempsBounded
<1>2. PICK S : S = temps' \ {inner'}
  OBVIOUS
<1>3. /\ IsFiniteSet(S) /\ Cardinality(S) <= Cardinality(temps \ {inner})
      /\ Cardinality(S) \in Nat /\ Cardinality(temps \ {inner}) \in Nat
  BY <1>1, <1>2, FS_Subset, FS_CardinalityType
<1>4. Cardinality(S) <= crashes
  BY <1>1, <1>3 DEF TypeOK
<1> QED BY <1>2, <1>4 DEF TempsInv, TempsBounded

LEMMA TempsStep ==
    ASSUME TempsInv, TypeOK, [Next]_vars
    PROVE  TempsInv'
<1>1. CASE Boot
  <2>1. temps' = temps \cup {new_backing} /\ inner' = new_backing
        /\ crashes' = crashes /\ inner = NoFile
    BY <1>1 DEF Boot, up
  <2>2. temps' \ {inner'} \subseteq temps \ {inner}
    BY <2>1, FileAssumption DEF TypeOK
  <2>3. IsFiniteSet(temps')
    BY <2>1, FS_AddElement DEF TempsInv
  <2> QED BY <2>1, <2>2, <2>3, TempsShrink
<1>2. CASE Rewind
  <2>1. temps' = (temps \ {inner}) \cup {new_backing} /\ inner' = new_backing
        /\ crashes' = crashes
    BY <1>2 DEF Rewind
  <2>2. IsFiniteSet(temps \ {inner})
    BY FS_RemoveElement DEF TempsInv
  <2>3. IsFiniteSet(temps')
    BY <2>1, <2>2, FS_AddElement
  <2> QED BY <2>1, <2>3, TempsShrink
<1>3. CASE RewindFails \/ Rename
  <2>1. temps' = temps \ {inner} /\ inner' = inner /\ crashes' = crashes
    BY <1>3 DEF RewindFails, Rename
  <2>2. IsFiniteSet(temps')
    BY <2>1, FS_RemoveElement DEF TempsInv
  <2> QED BY <2>1, <2>2, TempsShrink
<1>4. CASE temps' = temps /\ inner' = inner /\ crashes' = crashes
  BY <1>4, TempsShrink DEF TempsInv
<1>5. CASE Kill \/ PowerFailure
  <2>1. temps' = temps /\ inner' = NoFile /\ crashes' = crashes + 1
    BY <1>5 DEF Kill, PowerFailure
  <2>2. PICK S : S = temps \ {inner}
    OBVIOUS
  <2>3. IsFiniteSet(S) /\ Cardinality(S) \in Nat /\ Cardinality(S) <= crashes
    BY <2>2, FS_RemoveElement, FS_CardinalityType DEF TempsInv, TempsBounded
  <2>4. /\ IsFiniteSet(S \cup {inner})
        /\ Cardinality(S \cup {inner}) <= Cardinality(S) + 1
    BY <2>3, FS_AddElement
  <2>5. temps' \ {inner'} \subseteq S \cup {inner}
    BY <2>1, <2>2
  <2>6. PICK T : T = temps' \ {inner'}
    OBVIOUS
  <2>7. /\ Cardinality(T) <= Cardinality(S \cup {inner})
        /\ Cardinality(T) \in Nat /\ Cardinality(S \cup {inner}) \in Nat
    BY <2>4, <2>5, <2>6, FS_Subset, FS_CardinalityType
  <2>8. Cardinality(T) <= crashes'
    BY <2>1, <2>3, <2>4, <2>7 DEF TypeOK
  <2> QED BY <2>1, <2>6, <2>8 DEF TempsInv, TempsBounded
<1> QED
  BY <1>1, <1>2, <1>3, <1>4, <1>5
  DEF Next, Attempt, Write, WriteFails, Flush, FlushFails, Sync, Fail, SyncDir,
      vars

\* A temporary file is left behind only by a crash: failed attempts, however
\* many and at whichever system call, leave none.
THEOREM OnlyCrashesLeaveTemps == Spec => []TempsBounded
<1>1. Init => TempsInv
  <2> SUFFICES ASSUME Init PROVE TempsInv
    OBVIOUS
  <2>1. temps \ {inner} = {} /\ temps = {}
    BY DEF Init
  <2> QED BY <2>1, FS_EmptySet DEF Init, TempsInv, TempsBounded
<1>2. TypeOK /\ TempsInv /\ [Next]_vars => TempsInv'
  BY TempsStep
<1>3. TempsInv => TempsBounded
  BY DEF TempsInv
<1>4. FileInv => TypeOK
  BY DEF FileInv
<1> QED BY Invariant, <1>1, <1>2, <1>3, <1>4, PTL DEF Spec
==============================================================================
