--------------------------- MODULE RecordedChanges ---------------------------
(***************************************************************************)
(* What the undo journal promises, without saying how: the machine is      *)
(* changed only where a record of the change already exists, and a record  *)
(* is never given up while the change it is for still stands.              *)
(***************************************************************************)
CONSTANT Changes            \* the changes that can be made to the machine

VARIABLES
    made,       \* changes of ours that stand on the machine
    recorded    \* changes that survive a crash of the service

absVars == <<made, recorded>>

RecInit == made = {} /\ recorded = {}

\* Write the records anew, keeping every one that is still needed.
WriteRecords ==
    /\ recorded' \in SUBSET Changes
    /\ made \subseteq recorded'
    /\ UNCHANGED made

Make ==
    /\ \E c \in recorded : made' = made \cup {c}
    /\ UNCHANGED recorded

Reverse ==
    /\ \E c \in recorded : made' = made \ {c}
    /\ UNCHANGED recorded

RecNext == WriteRecords \/ Make \/ Reverse

RecSpec == RecInit /\ [][RecNext]_absVars
=============================================================================
