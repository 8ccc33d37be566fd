---------------------------- MODULE StableStorage ----------------------------
(***************************************************************************)
(* What the persistence of a node promises ("Needs to be persisted to      *)
(* stable storage before responding to requests, and restored from it on   *)
(* node boot", raft/src/persistence.rs): there is one document on disk,    *)
(* replaced in one step; a response is sent only after its document is in  *)
(* place; a killed process leaves the document alone; and a power failure  *)
(* may bring back an earlier one, but never a mixture.                     *)
(***************************************************************************)
EXTENDS Naturals

VARIABLES
    up,        \* is the process running?
    writing,   \* the document that is being persisted, or 0
    stored,    \* the document on disk, or 0 if there is none
    earlier,   \* the documents that a power failure may bring back
    loaded,    \* the document that the process has started from
    answered   \* the last document whose responses were sent

vars == <<up, writing, stored, earlier, loaded, answered>>

Init ==
    /\ up = FALSE
    /\ writing = 0
    /\ stored = 0
    /\ earlier = {}
    /\ loaded = 0
    /\ answered = 0

\* The process starts from what is on disk, whatever happened before.
Boot ==
    /\ ~ up
    /\ up' = TRUE
    /\ loaded' = stored
    /\ UNCHANGED <<writing, stored, earlier, answered>>

Begin ==
    /\ up
    /\ writing = 0
    /\ writing' \in Nat \ {0}
    /\ UNCHANGED <<up, stored, earlier, loaded, answered>>

\* The document is replaced; the new one is newer.
Install ==
    /\ writing > stored
    /\ stored' = writing
    /\ earlier' = earlier \cup {stored}
    /\ UNCHANGED <<up, writing, loaded, answered>>

\* The responses are sent, with the earlier documents perhaps gone for good.
Answer ==
    /\ writing # 0
    /\ writing = stored
    /\ writing' = 0
    /\ answered' = stored
    /\ earlier' \in {earlier, {}}
    /\ UNCHANGED <<up, stored, loaded>>

\* Something failed, before or after the document was replaced: no response.
Refuse ==
    /\ writing # 0
    /\ writing' = 0
    /\ UNCHANGED <<up, stored, earlier, loaded, answered>>

Kill ==
    /\ up
    /\ up' = FALSE
    /\ writing' = 0
    /\ UNCHANGED <<stored, earlier, loaded, answered>>

PowerFailure ==
    /\ up' = FALSE
    /\ writing' = 0
    /\ stored' \in earlier \cup {stored}
    /\ earlier' = {}
    /\ UNCHANGED <<loaded, answered>>

Next ==
    \/ Boot
    \/ Begin
    \/ Install
    \/ Answer
    \/ Refuse
    \/ Kill
    \/ PowerFailure

Spec == Init /\ [][Next]_vars
==============================================================================
