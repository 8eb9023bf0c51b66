--------------------------- MODULE StatusFollower ---------------------------
(***************************************************************************)
(* What a controller promises that reports in an object's status what the  *)
(* object's spec asks for.  It may report late, and it may report what was *)
(* asked for earlier, even after it reported something newer; but it never *)
(* reports what nobody asked for, what every copy has forgotten does not   *)
(* come back, and in the end the report is what is asked for.              *)
(***************************************************************************)
CONSTANTS
  Names,   \* the objects
  Claims,  \* what can be asked for and reported
  None     \* no object, or no report

VARIABLES
  want,     \* [Names -> what the object asks for, or None]
  have,     \* [Names -> what the object reports, or None]
  inflight  \* [Names -> what a copy of the object still asks for]

vars == <<want, have, inflight>>

Init ==
  /\ want = [n \in Names |-> None]
  /\ have = [n \in Names |-> None]
  /\ inflight = [n \in Names |-> {}]

\* Copies of the objects are dropped; a new one is a copy of the object.
Forget(n) == inflight'[n] \subseteq inflight[n] \cup ({want'[n]} \ {None})

Others(n) ==
  \A m \in Names \ {n} :
    want'[m] = want[m] /\ have'[m] = have[m] /\ Forget(m)

\* A user creates, edits or deletes the object, which may begin anew.
Ask(n) ==
  /\ want'[n] \in Claims \cup {None}
  /\ have'[n] \in {have[n], None}
  /\ Forget(n)
  /\ Others(n)

\* The controller reports what some copy asks for.
Report(n) ==
  /\ want'[n] = want[n]
  /\ have'[n] \in inflight[n] \cup {have[n]}
  /\ Forget(n)
  /\ Others(n)

Next == \E n \in Names : Ask(n) \/ Report(n)

Spec == Init /\ [][Next]_vars

\* In the end every object reports what it asks for.
Settles == <>[](\A n \in Names : want[n] # None => have[n] = want[n])
=============================================================================
