------------------------------- MODULE OneShot -------------------------------
(***************************************************************************)
(* What a CheckedContinuation promises to the code that suspends on it     *)
(* (withCheckedThrowingContinuation in UDPConnection.discoverIP): once     *)
(* asked, it is resumed with one result, and the result never changes.     *)
(***************************************************************************)
CONSTANTS
  Results,  \* what it can be resumed with
  NoResult

VARIABLES asked, result

vars == <<asked, result>>

Init == asked = FALSE /\ result = NoResult

Ask == ~asked /\ asked' = TRUE /\ UNCHANGED result

Resume == /\ asked /\ result = NoResult
          /\ result' \in Results
          /\ UNCHANGED asked

Next == Ask \/ Resume

Spec == Init /\ [][Next]_vars

(* Nobody stays suspended.                                                 *)
Resumed == asked ~> result # NoResult
=============================================================================
