------------------------------ MODULE MCLedger ------------------------------
(* One asset wallet and one credit wallet, or the asset wallet alone;      *)
(* requests are interchangeable.                                           *)
EXTENDS Ledger, TLC

CONSTANTS a, c

MCWallets     == {a, c}
MCWalletType  == (a :> "ASSET") @@ (c :> "CREDIT")
MCOpening     == (a :> 2) @@ (c :> 0)
MCCreditLimit == (a :> 0) @@ (c :> 2)

MCOneWallet      == {a}
MCOneType        == a :> "ASSET"
MCOneOpening     == a :> 2
MCOneCreditLimit == a :> 0

Symmetry == Permutations(Requests)
=============================================================================
