-------------------------------- MODULE Household --------------------------------
(***************************************************************************)
(* The analytics over the life of a vault.  A bank posts a household's      *)
(* standing bills, its purchases and its moves between its own accounts;    *)
(* the owner imports statements, and answers what the program suggests.     *)
(* Every figure is then a function of the vault's rows, the statements'     *)
(* closing balances, the owner's decisions and the date: Recurring and      *)
(* Reporting, with the balances of services/forecast.py and                 *)
(* services/reconciliation.py here.                                         *)
(*                                                                          *)
(* The bank and the household are the environment.  What the bank posted is *)
(* kept apart from what the vault holds, so that a property can compare     *)
(* what the program says with what is true.                                 *)
(***************************************************************************)
EXTENDS Reporting

CONSTANTS
    Type,         \* each account's type
    Households    \* the environments: see Household below

VARIABLES
    home,       \* the household, fixed
    today,
    bank,       \* every posting: what is true
    rows,       \* the postings the vault holds
    periods,    \* the statements imported: [account, end, closing]
    decisions,  \* recurring_decisions, by <<direction, merchant key>>
    dismissed,  \* alert_dismissals
    pairs,      \* the confirmed transfers, as <<debit, credit>> postings
    behind,     \* the owner is behind with statements
    left        \* departures from routine left to happen (bound)

vars == <<home, today, bank, rows, periods, decisions, dismissed, pairs, behind, left>>

(***************************************************************************)
(* A household is [start, end, look, printed, bills, buys, moves, kinds,    *)
(* budget, known]: the days its vault covers, the days of the month it is   *)
(* looked at, those its statements print a closing balance on, its bills    *)
(* [text, account, due, every, amount, category] (every = 0: on day due of  *)
(* each month), what it may buy, what it may move between its accounts,     *)
(* which departures from routine may happen and how many, and the streams   *)
(* already confirmed.                                                       *)
(***************************************************************************)
Accounts == DOMAIN Type
Streams == {"in", "out"} \X Range(Merchant)
LastEnd(a) == Max({p.end : p \in {q \in periods : q.account = a}} \cup {0})

\* Real dates, and bills, purchases and moves of known texts and accounts.
ASSUME HouseholdsAreWhole ==
    /\ IsFiniteSet(Accounts)
    /\ \A h \in Households :
          /\ IsDate(h.start) /\ IsDate(h.end) /\ h.start <= h.end
          /\ IsFiniteSet(h.bills) /\ h.budget \in Nat
          /\ \A b \in h.bills \cup h.buys :
                /\ b.text \in DOMAIN Merchant /\ b.account \in Accounts
                /\ b.amount \in Int /\ b.category \in Categories \cup {None}
          /\ \A b \in h.bills : b.every \in Nat /\ b.due \in 1..31
          /\ \A m \in h.moves :
                /\ {m.debit, m.credit} \subseteq DOMAIN Merchant /\ {m.from, m.to} \subseteq Accounts
                /\ m.amount \in Nat /\ m.days \in Nat

Posting(text, account, on, amount, category) ==
    [id |-> <<on, text>>, account |-> account, on |-> on, amount |-> amount,
     text |-> text, category |-> category]

\* A bank puts a bill due on a day the month has not on the month's last day.
BillMonths(b, from, to) ==
    {InMonth(k \div 12, (k % 12) + 1, b.due)
       : k \in (12 * year(from) + month(from) - 1)..(12 * year(to) + month(to) - 1)}
Every(b, to) ==
    {plus_days(home.start, b.every * k) : k \in 0..(days_between(home.start, to) \div b.every)}
DueDates(b, from, to) ==
    {d \in IF b.every > 0 THEN Every(b, to) ELSE BillMonths(b, from, to) : from <= d /\ d <= to}
BillPosting(b, d) == Posting(b.text, b.account, d, b.amount, b.category)
Due(from, to) == UNION {{BillPosting(b, d) : d \in DueDates(b, from, to)} : b \in home.bills}

Balance(a, to) ==
    MapThenSumSet(LAMBDA p : p.amount, {p \in bank : p.account = a /\ p.on <= to})

excluded == UNION {{m.debit.id, m.credit.id} : m \in pairs}

-----------------------------------------------------------------------------
(* The balances.                                                             *)
CashTypes == {"current", "savings"}

sum_after(a, after, up_to) ==
    MapThenSumSet(LAMBDA r : r.amount,
                  {r \in rows : r.account = a /\ r.on > after /\ r.on <= up_to})

closing_balances_for_account(a) == {p \in periods : p.account = a /\ p.closing # {}}
Closing(p) == SumSet(p.closing)
latest_closing_balance(a) ==
    CHOOSE p \in closing_balances_for_account(a) :
        \A q \in closing_balances_for_account(a) : q.end <= p.end

\* The vault's balance: each cash account's latest closing brought current.
AnchorSource(a) ==
    LET p == latest_closing_balance(a) IN Closing(p) + sum_after(a, p.end, today)
Anchored == {a \in Accounts : Type[a] \in CashTypes /\ closing_balances_for_account(a) # {}}
anchor == IF Anchored = {} THEN {} ELSE {MapThenSumSet(AnchorSource, Anchored)}

\* Each closing and the one before it, with the rows between them.
Chain(a) ==
    LET chain == closing_balances_for_account(a)
    IN {link \in chain \X chain :
            /\ link[1].end < link[2].end
            /\ \A r \in chain : ~ (link[1].end < r.end /\ r.end < link[2].end)}
bridge(p, q) == Closing(q) - (Closing(p) + sum_after(p.account, p.end, q.end))

\* Mistake: the differences may cancel.
NetReconciles(a) ==
    IF Chain(a) = {} THEN "not_enough_data"
    ELSE IF MapThenSumSet(LAMBDA link : bridge(link[1], link[2]), Chain(a)) = 0
         THEN "reconciled" ELSE "off"

\* Every gap between two closings must be bridged exactly, not their sum.
reconcile_account(a) ==
    IF Chain(a) = {} THEN "not_enough_data"
    ELSE IF \A link \in Chain(a) : bridge(link[1], link[2]) = 0 THEN "reconciled" ELSE "off"

account_status(a) == IF Type[a] \in CashTypes THEN reconcile_account(a) ELSE "not_supported"

-----------------------------------------------------------------------------
found == snapshot(rows, today, excluded, decisions)
shown_alerts == alerts(rows, today, excluded, decisions, dismissed)

horizons == {month_bounds(<<year(today), month(today)>>)[2], plus_days(today, 30),
             plus_days(today, 60), plus_days(today, 90)}
forecast(horizon) == project_forecast(anchor, found.confirmed, today, horizon)

-----------------------------------------------------------------------------
Init ==
    /\ home \in Households
    /\ today = home.start
    /\ bank = Due(home.start, home.start)
    /\ rows = {}
    /\ periods = {}
    /\ decisions = [s \in Streams |-> IF s \in home.known THEN "confirmed" ELSE "none"]
    /\ dismissed = {}
    /\ pairs = {}
    /\ behind = FALSE
    /\ left = home.budget

Depart(kind) == kind \in home.kinds /\ left > 0 /\ left' = left - 1
Used == {p.account : p \in bank}   \* the accounts a statement comes for
Imported == \A a \in Used : LastEnd(a) = today
NextLook ==
    Min({d \in {plus_days(today, n) : n \in 1..31} : day(d) \in home.look} \cup {home.end})
Coming == Due(plus_days(today, 1), NextLook)

Passes(posted) ==
    /\ behind \/ Imported
    /\ today < home.end
    /\ today' = NextLook
    /\ bank' = bank \cup posted
    /\ UNCHANGED <<home, rows, periods, decisions, dismissed, pairs, behind>>

DayPasses == Passes(Coming) /\ UNCHANGED left

\* The bank does not take one of the bills.
SkipBill ==
    \E p \in Coming :
        Depart("skip") /\ Passes(Coming \ {p})

Buy ==
    \E b \in home.buys :
        /\ Depart("buy")
        /\ Passes(Coming
                    \cup {Posting(b.text, b.account, NextLook, b.amount, b.category)})

\* Money moved between two accounts, the credit landing some days later.
MoveMoney ==
    \E m \in home.moves :
        /\ Depart("move")
        /\ plus_days(NextLook, m.days) <= home.end
        /\ Passes(Coming
                    \cup {Posting(m.debit, m.from, NextLook, -m.amount, None),
                          Posting(m.credit, m.to, plus_days(NextLook, m.days), m.amount, None)})

FallBehind ==
    /\ Depart("behind")
    /\ ~ behind /\ ~ Imported
    /\ behind' = TRUE
    /\ UNCHANGED <<home, today, bank, rows, periods, decisions, dismissed, pairs>>

\* A statement of everything since the last; printed with its closing balance
\* or, a CSV, without one.
Statement(a, closing, lost) ==
    /\ LastEnd(a) < today
    /\ LET since == LastEnd(a)
       IN rows' = rows \cup ({p \in bank : p.account = a /\ since < p.on /\ p.on <= today} \ lost)
    /\ periods' = periods \cup {[account |-> a, end |-> today, closing |-> closing]}
    /\ behind' = FALSE
    /\ UNCHANGED <<home, today, bank, decisions, dismissed, pairs>>

Printed(a) == IF day(today) \in home.printed THEN {Balance(a, today)} ELSE {}
Import == \E a \in Used : Statement(a, Printed(a), {}) /\ UNCHANGED left
ImportCsv == \E a \in Used : Depart("csv") /\ Statement(a, {}, {})

\* A row the file did not hold.
ImportLosesRow ==
    \E a \in Used, p \in bank :
        /\ Depart("lose")
        /\ p.account = a /\ LastEnd(a) < p.on /\ p.on <= today
        /\ Statement(a, Printed(a), {p})

-----------------------------------------------------------------------------
(* The owner's answers.                                                      *)
Decide(s, status) ==
    /\ Depart("decide")
    /\ decisions' = [decisions EXCEPT ![s] = status]
    /\ UNCHANGED <<home, today, bank, rows, periods, dismissed, pairs, behind>>

StreamOf(items) == {<<i.direction, i.key>> : i \in items}
confirm == \E s \in StreamOf(found.suggested) : Decide(s, "confirmed")
dismiss == \E s \in StreamOf(found.suggested) : Decide(s, "dismissed")
reset == \E s \in StreamOf(found.confirmed) : Decide(s, "none")

dismiss_alert ==
    \E a \in shown_alerts :
        /\ Depart("dismiss")
        /\ dismissed' = dismissed \cup {<<a.kind, a.key>>}
        /\ UNCHANGED <<home, today, bank, rows, periods, decisions, pairs, behind>>

\* The two legs of a move, both in the vault, not yet paired.
confirm_transfer ==
    \E d, c \in {r \in rows : r.id \notin excluded} :
        /\ d.amount < 0 /\ c.amount = -d.amount /\ d.account # c.account
        /\ pairs' = pairs \cup {[debit |-> d, credit |-> c]}
        /\ UNCHANGED <<home, today, bank, rows, periods, decisions, dismissed, behind, left>>

unlink_transfer ==
    \E m \in pairs :
        /\ Depart("unlink")
        /\ pairs' = pairs \ {m}
        /\ UNCHANGED <<home, today, bank, rows, periods, decisions, dismissed, behind>>

Over == today = home.end /\ Imported /\ UNCHANGED vars

Next ==
    \/ DayPasses \/ SkipBill \/ Buy \/ MoveMoney \/ FallBehind
    \/ Import \/ ImportCsv \/ ImportLosesRow
    \/ confirm \/ dismiss \/ reset \/ dismiss_alert
    \/ confirm_transfer \/ unlink_transfer
    \/ Over

Spec == Init /\ [][Next]_vars

-----------------------------------------------------------------------------
(* What is true of a household, against what the program says of it.         *)
StreamRows(b) == {r \in rows : Key(r) = Merchant[b.text] /\ Direction(r) = Direction(b)}
OnlyBill(b) ==
    /\ \A c \in home.bills : Merchant[c.text] = Merchant[b.text] => c = b
    /\ \A p \in bank : Key(p) = Merchant[b.text] => p.text = b.text
Known(b) == decisions[<<Direction(b), Merchant[b.text]>>] = "confirmed"
Taken(b) == {p.on : p \in {q \in bank : q.text = b.text}}
Skipped(b) == DueDates(b, home.start, today) \ Taken(b)
Whole == rows = {p \in bank : p.on <= today}

TypeOK ==
    /\ home \in Households
    /\ today \in home.start..home.end
    /\ rows \subseteq bank
    /\ \A p \in periods : p.account \in Accounts /\ p.end \in home.start..today
    /\ decisions \in [Streams -> {"none", "confirmed", "dismissed"}]
    /\ left \in 0..home.budget

\* A confirmed bill the bank has taken at least three times, and never failed
\* to take, is projected on exactly the days the bank will take it, at every
\* horizon, whatever day of the month it is due and however short the months
\* between; even when the latest statement is four weeks old.
ForecastMeetsTheBank ==
    \A b \in home.bills :
        LET heard == LastEnd(b.account)
            seen  == DueDates(b, home.start, heard)
        IN /\ Known(b) /\ OnlyBill(b)
           /\ Days(StreamRows(b)) = seen /\ Cardinality(seen) >= 3
           /\ heard > 0 /\ days_between(heard, today) <= (IF b.every > 0 THEN b.every ELSE 28)
           => \A h \in horizons :
                {<<e.on, e.amount>> : e \in {f \in forecast(h).events : f.key = Merchant[b.text]}}
                  = {<<d, b.amount>> : d \in DueDates(b, plus_days(today, 1), h)}

\* A confirmed bill the bank failed to take for the first time is told of from
\* the fourth day on, for as long as the stream is followed, unless the owner
\* dismissed the notice of that very date; and a bill the bank has always
\* taken is never told of.  (The vault holds everything posted.)
MissedIsTold ==
    \A b \in {c \in home.bills : c.amount < 0} :
        LET key(d) == <<"missed_debit", <<Merchant[b.text], d>>>>
            shown  == {<<a.kind, a.key>> : a \in shown_alerts}
            told   == {k[2][2] : k \in {j \in shown : j[1] = "missed_debit" /\ j[2][1] = Merchant[b.text]}}
            skips  == Skipped(b)
        IN /\ Known(b) /\ OnlyBill(b) /\ Whole
           /\ \A d \in skips : Cardinality({e \in Taken(b) : e < d}) >= 3 /\ Max(Taken(b)) < d
           => /\ told \subseteq skips
              /\ \A d \in skips : /\ \A e \in skips : d <= e
                                /\ plus_days(d, 3) < today
                                /\ days_between(Max(Taken(b)), today) <= 2 * (IF b.every > 0 THEN b.every ELSE 30)
                   => d \in told \/ key(d) \in dismissed

\* What the household spent out of the ordinary: neither a bill nor a move it
\* has confirmed as its own.
OneOffs(from, to) ==
    {p \in bank : /\ from <= p.on /\ p.on <= to /\ p.amount < 0 /\ p.id \notin excluded
                  /\ \A b \in home.bills : p.text # b.text}

\* With a vault that holds everything the bank posted and a bank that took
\* every bill, all of them monthly, and from before the three months it is
\* compared with: a month is called dearer only when something out of the
\* ordinary was bought in it, and no merchant but that one's is named; it is
\* called cheaper only when something was bought in those three; a complete
\* month is always spoken of; and a category spikes only when something was
\* bought under it.  Households whose bills come to less than the summary's
\* floor, or whose vault begins within a month, are out of its reach
\* (SteadyBills in HouseholdProofs).
SummaryIsFair ==
    /\ Whole
    /\ \A b \in home.bills : b.every = 0 /\ Skipped(b) = {}
    => /\ \A mode \in {"current_month", "previous_month"} :
            LET prefs == [mode |-> mode, year |-> None, month |-> None]
                says  == month_summary(rows, excluded, prefs, Everything, today)
                p     == resolve_period(prefs, today)
                from  == month_bounds(MonthsBack(<<year(p[1]), month(p[1])>>, 4)[4])[1]
            IN home.start <= from =>
                 /\ says.verdict = "higher" => OneOffs(p[1], p[2]) # {}
                 /\ says.verdict = "lower" => OneOffs(from, plus_days(p[1], -1)) # {}
                 /\ says.cause # None => says.cause \in {Key(o) : o \in OneOffs(p[1], p[2])}
                 /\ says.verdict = "silent" => mode = "current_month"
       /\ \A a \in shown_alerts :
            a.kind = "category_spike" =>
              LET b == month_bounds(a.key[2])
              IN \E o \in OneOffs(b[1], b[2]) : o.category = a.key[1]

\* Every way the dashboard adds a period up agrees, for each period and set of
\* accounts: the tiles, the donut, the drill-down's branches, the month's point
\* of the trend and the summary's sentence; and each row of the period is
\* counted once, or is a leg of a confirmed transfer.
TilesAgree ==
    \A mode \in Modes, scope \in {Everything} \cup {{a} : a \in Used} :
        LET prefs  == [mode |-> mode, year |-> year(today), month |-> month(today)]
            p      == resolve_period(prefs, today)
            count  == Counted(rows, excluded, prefs, scope, today)
            tiles  == summary(count)
            tree   == drill_down(count, pairs, prefs, scope, today)
            says   == month_summary(rows, excluded, prefs, scope, today)
            trend  == monthly_trend(rows, excluded, prefs, scope, today)[1]
        IN /\ tree.income.amount = tiles.income
           /\ tree.spending.amount = tiles.expenditure
           /\ tree.income.count + tree.spending.count = Cardinality(count)
           /\ SumFunction(spending_by_category(count)) = tiles.expenditure
           /\ mode \in {"current_month", "previous_month", "specific_month"} =>
                trend = [income |-> tiles.income, expenditure |-> tiles.expenditure]
           /\ says.verdict # "silent" /\ p[2] < today => says.spend = tiles.expenditure
           /\ scope = Everything =>
                tree.transfers.count = Cardinality({m \in pairs : p[1] <= m.debit.on /\ m.debit.on <= p[2]})

\* The rows the vault never got, of one account, in one stretch of days.
Lost(a, after, to) == {p \in bank \ rows : p.account = a /\ after < p.on /\ p.on <= to}
LostSum(a, after, to) == MapThenSumSet(LAMBDA p : p.amount, Lost(a, after, to))

\* An account is called reconciled exactly when the vault lost nothing between
\* any two closings, however the losses would cancel over the whole; and when
\* nothing was lost since the latest closing, the forecast of an up-to-date
\* vault starts from the balance the bank has.
HonestBalance ==
    /\ \A a \in Accounts : account_status(a) \in {"reconciled", "off"} =>
            ((account_status(a) = "reconciled")
               <=> \A link \in Chain(a) : LostSum(a, link[1].end, link[2].end) = 0)
    /\ /\ Anchored # {}
       /\ \A a \in Anchored : Lost(a, latest_closing_balance(a).end, today) = {}
       => anchor = {MapThenSumSet(LAMBDA a : Balance(a, today), Anchored)}

\* The dashboard's figures agree with each other and with the bank's closings.
FiguresAgree == TilesAgree /\ HonestBalance
=============================================================================
