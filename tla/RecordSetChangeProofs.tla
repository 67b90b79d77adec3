----------------------- MODULE RecordSetChangeProofs -----------------------
(* Proofs about RecordSetChange, for every zone and every change of it. *)
EXTENDS RecordSetChange, TLAPS

\* A wanted record that is written leaves the old ones and the other wanted
\* ones in place.
LEMMA WriteNoGap == NoGap /\ Write => NoGap'
<1> SUFFICES ASSUME NoGap, Write PROVE NoGap'
  OBVIOUS
<1> PICK id \in DOMAIN change.goal :
           zone' = [i \in DOMAIN zone \cup {id} |-> IF i = id THEN change.goal[id] ELSE zone[i]]
  BY DEF Write
<1>1. change' = change /\ disturbed' = disturbed /\ DOMAIN zone' = DOMAIN zone \cup {id}
  BY DEF Write
<1>2. ASSUME Written PROVE Written'
  BY <1>1, <1>2 DEF Written
<1> QED
  BY <1>1, <1>2 DEF NoGap, Write

\* A record that is removed is none of the wanted ones.
LEMMA RemoveNoGap == NoGap /\ Remove => NoGap'
<1> SUFFICES ASSUME NoGap, Remove PROVE NoGap'
  OBVIOUS
<1>1. change' = change /\ disturbed' = disturbed
  BY DEF Remove
<1>2. ASSUME Written PROVE Written'
  <2> PICK id \in change.old \ DOMAIN change.goal : zone' = [i \in DOMAIN zone \ {id} |-> zone[i]]
    BY DEF Remove
  <2> QED
    BY <1>1, <1>2 DEF Written
<1> QED
  BY <1>1, <1>2 DEF NoGap, Remove

\* A change begins with all its old records in place.
LEMMA StartNoGap == NoGap /\ Start => NoGap'
  BY DEF NoGap, Start

\* The zone never loses a record of the set before what replaces it is there.
THEOREM NoGapAlways == Spec => []NoGap
<1>1. Init => NoGap
  BY DEF Init, NoGap
<1>2. NoGap /\ [Next]_vars => NoGap'
  <2> SUFFICES ASSUME NoGap, [Next]_vars PROVE NoGap'
    OBVIOUS
  <2>1. CASE Refuse
    BY <2>1 DEF NoGap, Refuse
  <2>2. CASE Finish
    BY <2>2 DEF NoGap, Finish
  <2>3. CASE Interfere
    BY <2>3 DEF NoGap, Interfere
  <2>4. CASE UNCHANGED vars
    BY <2>4 DEF NoGap, Written, vars
  <2> QED
    BY <2>1, <2>2, <2>3, <2>4, StartNoGap, WriteNoGap, RemoveNoGap DEF Next
<1> QED
  BY <1>1, <1>2, PTL DEF Spec
=============================================================================
