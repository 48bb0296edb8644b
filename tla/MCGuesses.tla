------------------------------ MODULE MCGuesses ------------------------------
(***************************************************************************)
(* Names, descriptions and categories for a small instance.                *)
(***************************************************************************)
EXTENDS Categorization, TLC

MCTexts == {Plain(<<>>), Plain(<<"aa">>), Plain(<<"bb">>), Plain(<<"x">>), Plain(<<"x", "aa">>),
            Plain(<<"aa", "bb">>), Plain(<<"bb", "aa">>),
            [words |-> <<"aa", "bb">>, dashed |-> TRUE], [words |-> <<"aa">>, dashed |-> TRUE]}
MCPlace == [w \in {"aa", "bb", "x", "Lainnya", "Hiburan", "Tagihan", "Bonus"} |->
              CASE w = "aa" -> 2 [] w = "bb" -> 3 [] w = "x" -> 4 [] OTHER -> 1]
MCUnfit == {<<"x">>}

MCWords == {"bayar", "trf", "12", "netflix", "netflixid", "toko", "to'ko"}
MCDescriptions == UNION {[1..n -> MCWords] : n \in 1..3}
MCPrefixes == <<"trf", "bayar">>
MCKeywords == [Tagihan |-> {"netflix"}, Hiburan |-> {"netflix"}, Lainnya |-> {"trf"}, Bonus |-> {"toko"}]
MCInside == [w \in MCWords |-> IF w = "netflixid" THEN {"netflix"} ELSE {w}]
MCSpells == [w \in MCWords |-> IF w = "to'ko" THEN "toko" ELSE w]
Named(name, type, rank) == [name |-> name, type |-> type, rank |-> rank]
MCCategories == {Named("Hiburan", "EXPENSE", 2), Named("Tagihan", "EXPENSE", 3),
                 Named("Lainnya", "EXPENSE", 4), Named("Lainnya", "INCOME", 4),
                 Named("Bonus", "INCOME", 6)}
MCMine == {MCCategories, MCCategories \ {Named("Lainnya", "EXPENSE", 4)},
           MCCategories \cup {Named("Lainnya", "EXPENSE", 8)}}
MCMapped == {{}, {[merchant |-> <<"netflix">>, category |-> Named("Tagihan", "EXPENSE", 3)]},
             {[merchant |-> <<"trf", "toko", "12">>, category |-> Named("Bonus", "INCOME", 6)]}}
=============================================================================
