----------------------------- MODULE MCServices -----------------------------
(***************************************************************************)
(* The services beside the ledger on small instances.  The keyboard has   *)
(* two buttons, the second of which cancels.                               *)
(***************************************************************************)
EXTENDS Services, MCReporting, MCRepairs, TLC

Symmetry == Permutations(Calls) \cup Permutations(Presses) \cup Permutations(Users)

MCCreations ==
  [start : {2}, end : {3}, mode : {"FIXED"}, enabled : {TRUE}, offset : {1},
   category : {TRUE}]
NoUpdate == [start |-> Absent, end |-> Absent, mode |-> Absent, active |-> Absent,
             enabled |-> Absent, offset |-> Absent]
MCUpdates ==
  {[NoUpdate EXCEPT !.start = Given(3)], [NoUpdate EXCEPT !.end = Given(2)],
   [NoUpdate EXCEPT !.enabled = Given(FALSE)],
   [NoUpdate EXCEPT !.enabled = Given(FALSE), !.offset = Given(NoOffset),
                    !.mode = Given("FLEXIBLE")]}
=============================================================================
