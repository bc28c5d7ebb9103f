---------------------------- MODULE StableStore ----------------------------
(***************************************************************************)
(* What the settings promise: a stored configuration that only a commit of *)
(* the current one replaces, in one step and as a whole, and that a reset  *)
(* of the controller brings back.  Until the first commit nothing is       *)
(* promised.  The store may be erased, which leaves the current            *)
(* configuration to be committed again.                                    *)
(***************************************************************************)
CONSTANTS Version, None

VARIABLES stored, current

Init == \/ stored = None /\ current = None
        \/ stored \in Version /\ current = stored

FirstCommit ==
  stored = None /\ current = None /\ stored' \in Version /\ current' \in Version

Change == stored # None /\ current' \in Version /\ UNCHANGED stored
Commit == current # None /\ stored' = current /\ UNCHANGED current
Erase  == stored' = None /\ UNCHANGED current
Reset  == current' = stored /\ UNCHANGED stored

Next == FirstCommit \/ Change \/ Commit \/ Erase \/ Reset
Spec == Init /\ [][Next]_<<stored, current>>
=============================================================================
