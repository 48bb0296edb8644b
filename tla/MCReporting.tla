----------------------------- MODULE MCReporting -----------------------------
(***************************************************************************)
(* The reports on a small calendar: a year of three months of one, three   *)
(* and two days, three years of it.                                        *)
(***************************************************************************)
EXTENDS Reporting

MCMonthDays == <<1, 3, 2>>
Ticks == 0..35
MCNows == {24, 25, 27, 30}
MCEntries ==
  {Row(2, "INCOME", 1, 1, "bank", Uncategorized, "fun", t) : t \in Ticks}
    \cup {Row(2, "EXPENSE", 1, 1, "bank", Uncategorized, "food", t) : t \in Ticks}
    \cup {Row(2, "EXPENSE", 1, 3, "card", Uncategorized, "food", t) : t \in Ticks}
    \cup {Row(2, "TRANSFER", 6, 6, "bank", to, Uncategorized, t) : to \in {"card", "lost"}, t \in Ticks}
MCOthers == {{}, {Row(1, "EXPENSE", 2, 2, "bank", Uncategorized, "food", 25),
                  Row(3, "EXPENSE", 4, 4, "card", Uncategorized, "fun", 26)},
             {Row(1, "INCOME", 2, 2, "bank", Uncategorized, "fun", 22)}}

=============================================================================
