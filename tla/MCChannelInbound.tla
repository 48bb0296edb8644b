-------------------------- MODULE MCChannelInbound --------------------------
(* A small inbox: one update with two possible rows, and a second update.  *)
EXTENDS ChannelInbound, TLC

CONSTANTS j1, j2, j3, u1, u2

MCJobs     == {j1, j2, j3}
MCUpdates  == {u1, u2}
MCUpdateOf == (j1 :> u1) @@ (j2 :> u1) @@ (j3 :> u2)
MCKindOf   == (u1 :> "TEXT") @@ (u2 :> "CALLBACK")
=============================================================================
