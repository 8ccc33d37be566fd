------------------------------- MODULE FileMoF -------------------------------
(***************************************************************************)
(* How one node persists its state (FileMoF in raft/src/persistence.rs,    *)
(* the end of incoming_raft_rpcs_loop in raft/src/lib.rs, and the start of *)
(* main): every document is written to a temporary file of its own, which  *)
(* is then renamed to the target.  Each system call is a step, may fail,   *)
(* and may be the last one before the process is killed or the machine     *)
(* loses its power.                                                        *)
(*                                                                         *)
(* Documents are numbered in the order in which they are written.  A file  *)
(* is its inode: the handle that was written through stays open after the  *)
(* rename and then leads to the target itself.                             *)
(***************************************************************************)
EXTENDS Naturals, FiniteSets

CONSTANTS
    File,          \* the inodes; a file is not used a second time
    NoFile,
    MaxDocuments,  \* how many documents are written
    MaxCrashes     \* how often the process or the machine fails

ASSUME FileAssumption == NoFile \notin File

ASSUME BoundsAssumption == MaxDocuments \in Nat /\ MaxCrashes \in Nat

VARIABLES
    pc,         \* which system call comes next
    content,    \* each file: the document, and how much of it is there
    temps,      \* the temporary files that are in temp_dir()
    target,     \* the file under the target's name, or NoFile
    older,      \* the files (or NoFile) that the name may stand for after a
                \* power failure, as its directory has not been synced
    inner,      \* the file of the open handle (FileMoF::inner), or NoFile
                \* while the process does not run
    buffer,     \* the document that BufWriter still holds a part of, or 0
    version,    \* the number of the last document
    loaded,     \* the document that the process has started from
    answered,   \* the last document whose responses were sent
    crashes,    \* how many failures there have been
    outages,    \* how many of them were power failures
    temp_dir    \* "same" if it is the target's directory, as TMPDIR may say

vars == <<pc, content, temps, target, older, inner, buffer, version, loaded,
          answered, crashes, outages, temp_dir>>

\* How much of its document a file holds; "synced" is all of it, on disk.
Amount == {"unused", "empty", "part", "whole", "synced"}

Whole == {"whole", "synced"}

up == inner # NoFile

Fresh == {f \in File : content[f].amount = "unused"}

\* new_backing: a file of its own.  Which one makes no difference.
new_backing == CHOOSE f \in Fresh : TRUE

\* What restore makes of the file under the target's name: an empty or a
\* missing one is no document.
Document(f) ==
    IF f = NoFile \/ content[f].amount = "empty" THEN 0 ELSE content[f].doc

Init ==
    /\ pc = "idle"
    /\ content = [f \in File |-> [doc |-> 0, amount |-> "unused"]]
    /\ temps = {}
    /\ target = NoFile
    /\ older = {}
    /\ inner = NoFile
    /\ buffer = 0
    /\ version = 0
    /\ loaded = 0
    /\ answered = 0
    /\ crashes = 0
    /\ outages = 0
    /\ temp_dir \in {"same", "other"}
-----------------------------------------------------------------------------
(***************************************************************************)
(* The process starts (main).  A document that is not whole does not parse *)
(* and ends the process; the supervisor starts it again, in vain.  It also *)
(* ends, and is started again, if no temporary file can be created.        *)
(***************************************************************************)
\* Mutant: the target itself is opened.
BootInPlace ==
    /\ ~ up
    /\ target # NoFile => content[target].amount \in {"empty"} \cup Whole
    /\ temps' = temps \cup {target}
    /\ inner' = target
    /\ loaded' = Document(target)
    /\ UNCHANGED <<pc, content, target, older, buffer, version, answered,
                   crashes, outages, temp_dir>>

Boot ==
    /\ ~ up
    /\ target # NoFile => content[target].amount \in {"empty"} \cup Whole
    /\ Fresh # {}
    /\ content' = [content EXCEPT ![new_backing].amount = "empty"]
    /\ temps' = temps \cup {new_backing}
    /\ inner' = new_backing
    /\ loaded' = Document(target)
    /\ UNCHANGED <<pc, target, older, buffer, version, answered, crashes,
                   outages, temp_dir>>
-----------------------------------------------------------------------------
(***************************************************************************)
(* A handler has run: rewind, persist, flush, and only then the responses. *)
(***************************************************************************)
\* What is left in BufWriter is written when it is dropped, if it can be.
Dropped(f) ==
    IF buffer = 0 THEN {content[f]}
    ELSE {[content[f] EXCEPT !.amount = a] : a \in {content[f].amount, "whole"}}

\* Mutant: the temporary file of an attempt that failed stays.
RewindLeaving ==
    /\ up
    /\ pc = "idle"
    /\ version < MaxDocuments
    /\ version' = version + 1
    /\ Fresh # {}
    /\ \E old \in Dropped(inner) :
         content' = [content EXCEPT ![inner] = old,
                                    ![new_backing].amount = "empty"]
    /\ temps' = temps \cup {new_backing}
    /\ inner' = new_backing
    /\ buffer' = 0
    /\ pc' = "write"
    /\ UNCHANGED <<target, older, loaded, answered, crashes, outages,
                   temp_dir>>

\* The temporary file of an attempt that failed is removed (after a rename
\* there is none), and a new one created.
Rewind ==
    /\ up
    /\ pc = "idle"
    /\ version < MaxDocuments
    /\ version' = version + 1
    /\ Fresh # {}
    /\ \E old \in Dropped(inner) :
         content' = [content EXCEPT ![inner] = old,
                                    ![new_backing].amount = "empty"]
    /\ temps' = (temps \ {inner}) \cup {new_backing}
    /\ inner' = new_backing
    /\ buffer' = 0
    /\ pc' = "write"
    /\ UNCHANGED <<target, older, loaded, answered, crashes, outages,
                   temp_dir>>

\* Mutant: without a new file the old handle is used again.
RewindFailsWriting ==
    /\ up
    /\ pc = "idle"
    /\ version < MaxDocuments
    /\ version' = version + 1
    /\ content' = [content EXCEPT ![inner].amount = "empty"]
    /\ pc' = "write"
    /\ UNCHANGED <<temps, target, older, inner, buffer, loaded, answered,
                   crashes, outages, temp_dir>>

\* The old file cannot be removed, or is but no new one can be created: the
\* old handle stays, and nothing is written.
RewindFails ==
    /\ up
    /\ pc = "idle"
    /\ inner \in temps
    /\ temps' = temps \ {inner}
    /\ UNCHANGED <<pc, content, target, older, inner, buffer, version,
                   loaded, answered, crashes, outages, temp_dir>>

\* write_all into the BufWriter, which passes on what does not fit.
Write ==
    /\ pc = "write"
    /\ \E a \in {"empty", "part", "whole"} :
         /\ content' = [content EXCEPT ![inner].doc = version,
                                       ![inner].amount = a]
         /\ buffer' = IF a = "whole" THEN 0 ELSE version
    /\ pc' = "flush"
    /\ UNCHANGED <<temps, target, older, inner, version, loaded, answered,
                   crashes, outages, temp_dir>>

WriteFails ==
    /\ pc = "write"
    /\ \E a \in {"empty", "part"} :
         content' = [content EXCEPT ![inner].doc = version, ![inner].amount = a]
    /\ buffer' \in {0, version}
    /\ pc' = "idle"
    /\ UNCHANGED <<temps, target, older, inner, version, loaded, answered,
                   crashes, outages, temp_dir>>

Flush ==
    /\ pc = "flush"
    /\ content' = [content EXCEPT ![inner].amount = "whole"]
    /\ buffer' = 0
    /\ pc' = "sync"
    /\ UNCHANGED <<temps, target, older, inner, version, loaded, answered,
                   crashes, outages, temp_dir>>

FlushFails ==
    /\ pc = "flush"
    /\ buffer # 0
    /\ \E a \in {content[inner].amount, "part"} :
         content' = [content EXCEPT ![inner].amount = a]
    /\ pc' = "idle"
    /\ UNCHANGED <<temps, target, older, inner, buffer, version, loaded,
                   answered, crashes, outages, temp_dir>>

\* Mutant: the file is closed without being synced.
SyncNothing ==
    /\ pc = "sync"
    /\ pc' = "rename"
    /\ UNCHANGED <<content, temps, target, older, inner, buffer, version,
                   loaded, answered, crashes, outages, temp_dir>>

Sync ==
    /\ pc = "sync"
    /\ content' = [content EXCEPT ![inner].amount = "synced"]
    /\ pc' = "rename"
    /\ UNCHANGED <<temps, target, older, inner, buffer, version, loaded,
                   answered, crashes, outages, temp_dir>>

Rename ==
    /\ pc = "rename"
    /\ target' = inner
    /\ older' = older \cup {target}
    /\ temps' = temps \ {inner}
    /\ pc' = "sync_dir"
    /\ UNCHANGED <<content, inner, buffer, version, loaded, answered,
                   crashes, outages, temp_dir>>

\* Mutant: whether the rename succeeds is not looked at.
FailIgnoringRename ==
    /\ pc \in {"sync", "rename", "sync_dir"}
    /\ pc' = IF pc = "rename" THEN "sync_dir" ELSE "idle"
    /\ UNCHANGED <<content, temps, target, older, inner, buffer, version,
                   loaded, answered, crashes, outages, temp_dir>>

\* sync_all, the rename, or opening or syncing the directory fails: the
\* responses are not sent.
Fail ==
    /\ pc \in {"sync", "rename", "sync_dir"}
    /\ pc' = "idle"
    /\ UNCHANGED <<content, temps, target, older, inner, buffer, version,
                   loaded, answered, crashes, outages, temp_dir>>

\* The directory of the temporary file is synced, and the responses are sent.
SyncDir ==
    /\ pc = "sync_dir"
    /\ older' = IF temp_dir = "same" THEN {} ELSE older
    /\ answered' = version
    /\ pc' = "idle"
    /\ UNCHANGED <<content, temps, target, inner, buffer, version, loaded,
                   crashes, outages, temp_dir>>
-----------------------------------------------------------------------------
(***************************************************************************)
(* Failures.                                                               *)
(***************************************************************************)
\* The time bomb, or a panic: what is in the page cache stays.
Kill ==
    /\ up
    /\ crashes < MaxCrashes
    /\ crashes' = crashes + 1
    /\ pc' = "idle"
    /\ inner' = NoFile
    /\ buffer' = 0
    /\ UNCHANGED <<content, temps, target, older, version, loaded, answered,
                   outages, temp_dir>>

\* What may be left of a file.  (Only the one under the target's name is ever
\* read again.)
Remains(f) ==
    IF content[f].amount = "synced" THEN {content[f]}
    ELSE {[content[f] EXCEPT !.amount = a] :
            a \in {"empty", "part", content[f].amount}}

\* A rename in a directory that has not been synced may be undone.  (The file
\* would then be in temp_dir() again, where nothing reads it; temps leaves it
\* out.)
PowerFailure ==
    /\ crashes < MaxCrashes
    /\ crashes' = crashes + 1
    /\ outages' = outages + 1
    /\ pc' = "idle"
    /\ inner' = NoFile
    /\ buffer' = 0
    /\ target' \in older \cup {target}
    /\ older' = {}
    /\ IF target' = NoFile THEN UNCHANGED content
       ELSE \E c \in Remains(target') :
              content' = [content EXCEPT ![target'] = c]
    /\ UNCHANGED <<temps, version, loaded, answered, temp_dir>>
-----------------------------------------------------------------------------
Attempt ==
    \/ Rewind
    \/ RewindFails
    \/ Write
    \/ WriteFails
    \/ Flush
    \/ FlushFails
    \/ Sync
    \/ Rename
    \/ Fail
    \/ SyncDir

Next == Boot \/ Attempt \/ Kill \/ PowerFailure

Spec == Init /\ [][Next]_vars

\* The supervisor starts the process again whenever it has ended.
FairSpec == Spec /\ WF_vars(Boot)
-----------------------------------------------------------------------------
(***************************************************************************)
(* Properties.                                                             *)
(***************************************************************************)

\* Every variable has its type.
TypeOK ==
    /\ pc \in {"idle", "write", "flush", "sync", "rename", "sync_dir"}
    /\ content \in [File -> [doc : Nat, amount : Amount]]
    /\ temps \subseteq File
    /\ target \in File \cup {NoFile}
    /\ older \subseteq File \cup {NoFile}
    /\ inner \in File \cup {NoFile}
    /\ buffer \in Nat
    /\ version \in Nat
    /\ loaded \in Nat
    /\ answered \in Nat
    /\ crashes \in Nat
    /\ outages \in Nat
    /\ temp_dir \in {"same", "other"}

\* The files that a boot may find under the target's name, now or after a
\* power failure.
Reachable == (older \cup {target}) \ {NoFile}

\* "'Writing' to the target is an atomic file rename" (FileMoF): whenever the
\* process is killed or the power fails, and whichever system calls have
\* failed before, the next boot finds a whole document or none at all; it
\* never takes an empty file for a node without a past.
NeverTorn == \A f \in Reachable : content[f].amount \in Whole

\* "Needs to be persisted to stable storage before responding to requests"
\* (Persistent): what a boot finds is no older than any document whose
\* responses were sent, whichever way later attempts have failed.  A power
\* failure is excepted unless the directory that flush syncs is the target's.
AnsweredSurvives ==
    temp_dir = "same" \/ outages = 0 => Document(target) >= answered

\* A temporary file is left behind only by a crash: failed attempts, however
\* many, leave none (rewind).
TempsBounded == Cardinality(temps \ {inner}) <= crashes

\* A node that was killed comes back: the supervisor starts it until it boots,
\* and there is nothing on disk that would end it every time (gate, main).
Recovers == ~ up ~> up

\* Files, handles and system calls together are the storage of StableStorage,
\* which replaces its document in one step.
Storage ==
    INSTANCE StableStorage WITH
        writing <- IF pc = "idle" THEN 0 ELSE version,
        stored <- Document(target),
        earlier <- {Document(f) : f \in older}

ImplementsStorage == Storage!Spec
==============================================================================
