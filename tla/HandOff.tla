------------------------------ MODULE HandOff ------------------------------
(***************************************************************************)
(* What a halo buffer in shared memory promises to the two ranks that use  *)
(* it: a place that holds at most one message.  A message is put only when *)
(* the place is empty and taken exactly once, whole.                       *)
(***************************************************************************)
CONSTANT Message

VARIABLES
  place,     \* the messages in transit: {} or one message
  taken      \* what the reader got last: {} before its first message

vars == <<place, taken>>

TypeOK ==
  /\ \/ place = {}
     \/ \E m \in Message : place = {m}
  /\ \/ taken = {}
     \/ \E m \in Message : taken = {m}

Init ==
  /\ place = {}
  /\ taken = {}

Put ==
  /\ place = {}
  /\ \E m \in Message : place' = {m}
  /\ UNCHANGED taken

Take ==
  /\ place # {}
  /\ taken' = place
  /\ place' = {}

Next == Put \/ Take

Spec == Init /\ [][Next]_vars
=============================================================================
