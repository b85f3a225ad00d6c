------------------------------- MODULE MCHousehold -------------------------------
(* Two accounts for cash and a card; rent, a levy, pay and a weekly bill; a    *)
(* shop, a garage and the landlord's one-off fee.                              *)
EXTENDS Household, TLC

MCType == [current |-> "current", savings |-> "savings", card |-> "credit_card"]
MCMerchant == [rent |-> 1, fee |-> 1, pay |-> 2, gym |-> 3, shop |-> 4, garage |-> 5,
               out |-> 6, back |-> 6, levy |-> 7]

\* Income 1 and Expenditure 2 are the roots; Home 3 holds Housing 4; Car 5.
MCParent == 1 :> 0 @@ 2 :> 0 @@ 3 :> 2 @@ 4 :> 3 @@ 5 :> 2 @@ 6 :> 1

Rent(due) == [text |-> "rent", account |-> "current", due |-> due, every |-> 0,
              amount |-> -150000, category |-> 4]
Pay == [text |-> "pay", account |-> "current", due |-> 25, every |-> 0,
        amount |-> 400000, category |-> 6]
Levy == [text |-> "levy", account |-> "current", due |-> 3, every |-> 0,
         amount |-> -120000, category |-> 3]
Gym(every) == [text |-> "gym", account |-> "current", due |-> 1, every |-> every,
               amount |-> -4500, category |-> 3]
Purchase(text, account, amount, category) ==
    [text |-> text, account |-> account, amount |-> amount, category |-> category]

Quiet == [start |-> 1, end |-> 1, look |-> 1..31, printed |-> {1}, bills |-> {},
          buys |-> {}, moves |-> {}, kinds |-> {}, budget |-> 0, known |-> {}]
Confirmed == {<<"out", 1>>, <<"out", 3>>}

\* Rent on the days months end, looked at on most days from October to May, in a
\* common and in a leap year.
MonthEnds ==
    {[Quiet EXCEPT !.start = date(y, 10, 1), !.end = date(y + 1, 5, 31),
                   !.bills = {Rent(due), Pay, Levy}, !.known = Confirmed,
                   !.look = 1..7 \cup {15} \cup 26..31]
       : y \in {2022, 2023}, due \in {1, 28, 29, 30, 31}}

\* A bill the bank fails to take, and a notice dismissed.
Misses ==
    {[Quiet EXCEPT !.start = date(y, 11, 1), !.end = date(y + 1, 5, 31),
                   !.bills = {Rent(due)}, !.known = Confirmed,
                   !.look = {1, 3, 4, 5, 6, 28, 29, 30, 31},
                   !.kinds = {"skip", "dismiss"}, !.budget = 2]
       : y \in {2022, 2023}, due \in {1, 30, 31}}

\* A statement late, and what recurs every week or two.
Weekly ==
    {[Quiet EXCEPT !.start = date(2023, 1, 1), !.end = date(2023, 3, 1),
                   !.bills = {Gym(every)}, !.look = {1, 8, 15, 22},
                   !.kinds = {"behind", "decide"}, !.budget = 2]
       : every \in {7, 14}}

\* Purchases, under a category at either level or none, and moves between the
\* owner's accounts.
Spending ==
    {[Quiet EXCEPT !.start = date(2022, 10, 1), !.end = date(2023, 2, 9),
                   !.bills = {Rent(31), Pay}, !.look = {9, 28}, !.printed = {9},
                   !.buys = {Purchase("shop", "current", -60000, 3),
                             Purchase("fee", "card", -60000, 0),
                             Purchase("garage", "card", -20000, 5)},
                   !.moves = {[debit |-> "out", credit |-> "back", from |-> "current",
                               to |-> "savings", amount |-> 60000, days |-> 1]},
                   !.kinds = {"buy", "move", "unlink"}, !.budget = 2]}

\* Rows lost on the way in, and statements without a balance.
Losses ==
    {[Quiet EXCEPT !.start = date(2023, 1, 1), !.end = date(2023, 4, 30), !.look = {1, 15},
                   !.printed = {1, 15},
                   !.bills = {[Rent(10) EXCEPT !.amount = -30000],
                              [Pay EXCEPT !.amount = 30000, !.due = 20]},
                   !.kinds = {"lose", "csv", "behind"}, !.budget = 2]}

MCHouseholds == MonthEnds \cup Misses \cup Weekly \cup Spending \cup Losses
=============================================================================
