------------------------------ MODULE MCImportWizard ------------------------------
(* Model checking ImportWizard: two accounts, one of them still to be        *)
(* created, files that overlap, share a password or a layout, fan out, are   *)
(* refused at commit or cannot be read, and a vault that has one of their    *)
(* spans already.                                                            *)
EXTENDS ImportWizard

CONSTANTS acc1, acc2

Rows(x, y) == [k \in {"x", "y"} |-> IF k = "x" THEN x ELSE y]
Stm(rows, span, sound, hint) == [rows |-> rows, span |-> span, sound |-> sound, hint |-> hint]
File(kind, lock, bank, layout, stmts) ==
    [kind |-> kind, ok |-> TRUE, lock |-> lock, bank |-> bank, layout |-> layout, stmts |-> stmts]

\* Two locked statements of account a, a locked table, a CSV of each layout, a
\* file of two statements whose second has its days the wrong way round.
Picked == <<
    File("ofx", None, FALSE, None, <<Stm(Rows(2, 0), 1, TRUE, "n1"), Stm(Rows(1, 1), 2, FALSE, "n2")>>),
    File("pdf", "p1", TRUE, None, <<Stm(Rows(1, 0), 3, TRUE, "n1")>>),
    File("pdf", "p1", FALSE, "reversed", <<Stm(Rows(0, 4), 4, TRUE, None)>>),
    File("csv", None, FALSE, "ordinary", <<Stm(Rows(1, 4), 5, TRUE, None)>>),
    File("pdf", "p2", TRUE, None, <<Stm(Rows(0, 0), None, TRUE, "n2")>>)>>

Backwards == {"reversed"}
TwoLayouts == {"reversed", "ordinary"}
TwoKeys == {"x", "y"}
TwoNumbers == {"n1", "n2"}
OnePassword == {"p1"}
TwoAccounts == {acc1, acc2}

Empty == [c \in TwoAccounts |-> Rows(0, 0)]
NoPw == [c \in TwoAccounts |-> None]
OneAccount == [c \in {acc1} |-> "n1"]
Vaults == {[accounts |-> OneAccount, books |-> Empty, spans |-> {<<acc1, 3>>}, stored |-> NoPw],
           [accounts |-> OneAccount, books |-> [Empty EXCEPT ![acc1] = Rows(1, 0)],
            spans |-> {<<acc1, 3>>}, stored |-> [NoPw EXCEPT ![acc1] = "p2"]]}
=============================================================================
