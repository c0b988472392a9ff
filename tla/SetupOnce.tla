------------------------------ MODULE SetupOnce ------------------------------
(***************************************************************************)
(* What first-time setup promises of its attempts, however many there are  *)
(* at once.  Only an attempt that found no administrator may create one,   *)
(* and it creates at most one; attempts that claim setup together each     *)
(* create theirs.  One that fails may take its administrator back, but     *)
(* after a caller has been told that setup is complete never the last one, *)
(* so setup is never open again.                                           *)
(***************************************************************************)
CONSTANTS Attempts, Names

VARIABLES
  admins,  \* the administrators there are
  claims,  \* the attempts that found none, and have not created theirs yet
  done     \* a caller has been told that setup is complete

Init == admins = {} /\ claims = {} /\ done = FALSE

Claim(a) ==
  /\ admins = {}
  /\ claims' = claims \cup {a}
  /\ UNCHANGED <<admins, done>>

Create(a, n) ==
  /\ a \in claims
  /\ n \notin admins
  /\ claims' = claims \ {a}
  /\ admins' = admins \cup {n}
  /\ UNCHANGED done

Abandon ==
  /\ claims' \in SUBSET claims
  /\ UNCHANGED <<admins, done>>

TakeBack(n) ==
  /\ n \in admins
  /\ admins' = admins \ {n}
  /\ done => admins' # {}
  /\ UNCHANGED <<claims, done>>

Complete ==
  /\ admins # {}
  /\ done' = TRUE
  /\ UNCHANGED <<admins, claims>>

Next ==
  \/ \E a \in Attempts : Claim(a) \/ \E n \in Names : Create(a, n)
  \/ \E n \in Names : TakeBack(n)
  \/ Abandon
  \/ Complete

Spec == Init /\ [][Next]_<<admins, claims, done>>
=============================================================================
