-------------------------------- MODULE MCLedger --------------------------------
(* Model checking Ledger on two kinds of vault: one about statements and      *)
(* transfers, with two overlapping statements, a purchase in both, made twice *)
(* and spelt in two ways, and money moved between accounts; one about filing. *)
(* The configuration's constants span both; each kind narrows them.           *)
EXTENDS Ledger, TLC

CONSTANTS n1, n2

VARIABLE kind   \* which of the two this vault is

TwoNames == {n1, n2}
Symmetry == Permutations(TwoNames)

Spelling == [coffee |-> "coffee", COFFEE |-> "coffee", pay |-> "pay"]
Draft(day, amount, desc) == [day |-> day, amount |-> amount, desc |-> desc]

First  == [drafts |-> <<Draft(2, -5, "coffee"), Draft(2, -5, "COFFEE")>>,
           start |-> 1, end |-> 2, closing |-> 0]
Second == [drafts |-> <<Draft(2, -5, "COFFEE"), Draft(3, 5, "pay")>>,
           start |-> 2, end |-> 3, closing |-> 7]

TwoFiles == {First, Second}
Wider == {<<1, 3>>}
Typed == {Draft(2, -5, "coffee")}
TwoTypes == <<[parent |-> 0, name |-> "Income"], [parent |-> 0, name |-> "Expenditure"]>>
FoodSeeded == TwoTypes \o <<[parent |-> 2, name |-> "Food"]>>
Looks == {"cof", "any"}
Found == {<<"cof", "coffee">>, <<"any", "coffee">>, <<"any", "pay">>}
FoodOrPay == {"Food", "Pay"}
KnowsCoffee == <<[pattern |-> "cof", name |-> "Food"]>>

\* Nothing is filed: the default categories are gone, and the library's with them.
Statements == INSTANCE Ledger WITH
    Patterns <- {}, CategoryNames <- {}, Seed <- TwoTypes, Switches <- {TRUE},
    MaxCategoryId <- 2, MaxRuleId <- 0, MaxDepth <- 0, MaxManual <- 0

\* One account, a statement and a typed row; the library knows coffee.
Filings == INSTANCE Ledger WITH
    Files <- {Second}, OtherSpans <- {}, MaxTxnId <- 2, MaxPeriodId <- 1, MaxAccountId <- 1

EitherInit == \/ kind = "statements" /\ Statements!Init
              \/ kind = "filing" /\ Filings!Init
EitherNext == /\ \/ kind = "statements" /\ Statements!Next
                 \/ kind = "filing" /\ Filings!Next
              /\ UNCHANGED kind
EitherSpec == EitherInit /\ [][EitherNext]_<<vars, kind>>
=============================================================================
