-------------------------- MODULE RecordSetChange --------------------------
(***************************************************************************)
(* What every adapter promises of a change of one record set, whatever     *)
(* calls it makes: it writes only the records it wants, removes the others *)
(* of the set only once all of those are in place, leaves every other      *)
(* record of the zone alone, and reports success only when all is done.    *)
(* It may stop half way at any time, with an error.                        *)
(***************************************************************************)
EXTENDS Integers

CONSTANT None

VARIABLES zone,       \* what each record of the zone serves, by ID
          change,     \* None, or [old |-> the set's records, goal |-> what shall be served]
          answer,     \* of the last change: "none" until there is one
          disturbed   \* someone else has written meanwhile, or the list was old

vars == <<zone, change, answer, disturbed>>

Init == change = None /\ answer = "none" /\ disturbed = FALSE

\* All the wanted records are in place.
Written ==
  \A id \in DOMAIN change.goal : id \in DOMAIN zone /\ zone[id] = change.goal[id]
\* And all the others of the set are gone.
Complete == Written /\ (change.old \ DOMAIN change.goal) \cap DOMAIN zone = {}

\* A change begins: it aims at records of one set and at new ones.
Start ==
  /\ change = None /\ change' # None /\ answer' = "none"
  /\ disturbed' \in BOOLEAN
  /\ disturbed' \/ (/\ change'.old \subseteq DOMAIN zone
                    /\ DOMAIN change'.goal \cap DOMAIN zone \subseteq change'.old)
  /\ UNCHANGED zone

\* A change is refused.
Refuse == change = None /\ answer' = "error" /\ disturbed' \in BOOLEAN /\ UNCHANGED <<zone, change>>

\* One wanted record is written.
Write ==
  /\ change # None
  /\ \E id \in DOMAIN change.goal :
        zone' = [i \in DOMAIN zone \cup {id} |-> IF i = id THEN change.goal[id] ELSE zone[i]]
  /\ UNCHANGED <<change, answer, disturbed>>

\* One record that is no longer wanted is removed: make before break.
Remove ==
  /\ change # None
  /\ disturbed \/ Written
  /\ \E id \in change.old \ DOMAIN change.goal : zone' = [i \in DOMAIN zone \ {id} |-> zone[i]]
  /\ UNCHANGED <<change, answer, disturbed>>

\* The change ends, with success only if it is complete.
Finish ==
  /\ change # None /\ change' = None
  /\ answer' \in {"ok", "error"}
  /\ answer' = "ok" => disturbed \/ Complete
  /\ UNCHANGED <<zone, disturbed>>

\* Someone else writes to the zone.
Interfere == disturbed' = TRUE /\ UNCHANGED <<change, answer>>

Next == Start \/ Refuse \/ Write \/ Remove \/ Finish \/ Interfere

Spec == Init /\ [][Next]_vars

---------------------------------------------------------------------------
(* What follows for those who ask for the names of the set meanwhile. *)

\* At no time of a change, wherever it stops, are both an old record gone and a
\* new one missing, unless someone else has written or the list was old.
NoGap ==
  change # None => disturbed \/ change.old \subseteq DOMAIN zone \/ Written
=============================================================================
