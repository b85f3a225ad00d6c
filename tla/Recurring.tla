-------------------------------- MODULE Recurring --------------------------------
(***************************************************************************)
(* Recurring money, the forecast and two of the three alerts, as functions  *)
(* of the transactions and the date: services/recurring.py, the projection  *)
(* of services/forecast.py, the detectors of services/alerts.py.  A         *)
(* transaction is [id, account, on, amount, text, category] with its amount *)
(* in signed minor units; the display Decimals between the services are     *)
(* exact and left out, the one rounding (monthly_equivalent) is not.        *)
(* Merchant is normalise_text(merchant_name(text)): two texts may share one.*)
(***************************************************************************)
EXTENDS Calendar, FiniteSets

CONSTANTS Merchant   \* each description's merchant key

\* The keys are ordered: of equals the summary names the smaller.
ASSUME KeysAreOrdered == \A t \in DOMAIN Merchant : Merchant[t] \in Int

Cadences == {"weekly", "fortnightly", "monthly", "yearly"}
Nominal == [weekly |-> 7, fortnightly |-> 14, monthly |-> 30, yearly |-> 365]
Bands == [weekly |-> 5..10, fortnightly |-> 11..18, monthly |-> 25..35, yearly |-> 330..400]
MonthlyNum == [weekly |-> 52, fortnightly |-> 26, monthly |-> 12, yearly |-> 1]

MinOccurrences == 3
ActiveGrace == 2        \* nominal intervals a stream may be silent
NewMaxOccurrences == 4
MissGrace == 3          \* days

Magnitude(row) == IF row.amount < 0 THEN -row.amount ELSE row.amount
Direction(row) == IF row.amount < 0 THEN "out" ELSE "in"
Key(row) == Merchant[row.text]
Days(rows) == {row.on : row \in rows}

-----------------------------------------------------------------------------
(* Qualifying a group of transactions of one merchant and direction.         *)
median_low(rows) ==
    LET below(v) == Cardinality({r \in rows : Magnitude(r) <= v})
        mid == (Cardinality(rows) + 1) \div 2
    IN Min({v \in {Magnitude(r) : r \in rows} : below(v) >= mid})

WithinTolerance(rows) ==
    LET med == median_low(rows)
    IN \A r \in rows : LET off == Magnitude(r) - med
                       IN 100 * (IF off < 0 THEN -off ELSE off) <= 10 * med

\* The gaps between successive days; members of one day have none.
Gaps(days) == {days_between(d, Min({e \in days : e > d})) : d \in days \ {Max(days)}}

\* The cadence every gap shares, or none: two gaps, so three days, at least.
classify(days) ==
    LET shared == {c \in Cadences : Gaps(days) \subseteq Bands[c]}
    IN IF Cardinality(days) < 3 \/ shared = {} THEN "none"
       ELSE CHOOSE c \in shared : TRUE

\* Mistake: the last day seen is taken for the day aimed at.
LastDay(days) == day(Max(days))

\* The day of the month a stream aims at: its last day may be a clamped one.
intended_day(days) ==
    LET last == Max(days)
    IN IF day(last) = monthrange(year(last), month(last))
       THEN Max({day(d) : d \in days})
       ELSE day(last)

\* The n-th occurrence after the anchor, always counted from the anchor.
add_cadence_n(anchor, cadence, n, aim) ==
    CASE cadence = "weekly"      -> plus_days(anchor, 7 * n)
      [] cadence = "fortnightly" -> plus_days(anchor, 14 * n)
      [] cadence = "monthly"     -> add_months(anchor, n, aim)
      [] cadence = "yearly"      -> add_months(anchor, 12 * n, aim)

HalfEven(a, b) ==
    LET q == a \div b
        r == a % b
    IN IF 2 * r < b \/ (2 * r = b /\ q % 2 = 0) THEN q ELSE q + 1

monthly_equivalent(amount, cadence) == HalfEven(amount * MonthlyNum[cadence], 12)

RecurringItem(group) ==
    LET days == Days(group)
        aim  == intended_day(days)
        any  == CHOOSE r \in group : TRUE
        cadence == classify(days)
    IN [key |-> Key(any), direction |-> Direction(any), cadence |-> cadence,
        amount |-> median_low(group),
        monthly |-> monthly_equivalent(median_low(group), cadence),
        occurrences |-> Cardinality(group),
        first_seen |-> Min(days), last_seen |-> Max(days),
        next_expected |-> add_cadence_n(Max(days), cadence, 1, aim),
        txn_ids |-> {r.id : r \in group}, day_of_month |-> aim]

\* Still going: a charge landed within the grace of today.
Active(days, today) == days_between(Max(days), today) <= ActiveGrace * Nominal[classify(days)]

Qualifies(group, today) ==
    /\ Cardinality(group) >= MinOccurrences
    /\ WithinTolerance(group)
    /\ classify(Days(group)) # "none"
    /\ Active(Days(group), today)

\* Every group of one direction and merchant that qualifies today.
detect_recurring(rows, today, excluded) ==
    LET kept   == {r \in rows : r.id \notin excluded /\ r.amount # 0}
        group(s) == {r \in kept : <<Direction(r), Key(r)>> = s}
        groups == {group(s) : s \in {<<Direction(r), Key(r)>> : r \in kept}}
    IN {RecurringItem(g) : g \in {h \in groups : Qualifies(h, today)}}

\* One detection pass split by the owner's decisions; dismissed ones go.
snapshot(rows, today, excluded, decisions) ==
    LET detected == detect_recurring(rows, today, excluded)
        status(i) == decisions[<<i.direction, i.key>>]
    IN [suggested |-> {i \in detected : status(i) = "none"},
        confirmed |-> {i \in detected : status(i) = "confirmed"}]


-----------------------------------------------------------------------------
(* The forecast.                                                             *)
Signed(item) == IF item.direction = "out" THEN -item.amount ELSE item.amount

\* The occurrences after today and no later than the horizon.
occurrences(item, today, horizon) ==
    LET steps == 0..(days_between(item.last_seen, horizon) \div (Nominal[item.cadence] - 2) + 1)
        nth(n) == add_cadence_n(item.last_seen, item.cadence, n, item.day_of_month)
    IN {d \in {nth(n) : n \in steps} : today < d /\ d <= horizon}

ForecastEvents(items, today, horizon) ==
    UNION {{[on |-> d, key |-> i.key, direction |-> i.direction, amount |-> Signed(i)]
              : d \in occurrences(i, today, horizon)} : i \in items}

\* anchor holds the balance to start from, or nothing: then only the net
\* change is projected.
project_forecast(anchor, items, today, horizon) ==
    LET events == ForecastEvents(items, today, horizon)
        start  == SumSet(anchor)
    IN [mode |-> IF anchor = {} THEN "net_flow" ELSE "anchored",
        start |-> start, events |-> events,
        end |-> start + MapThenSumSet(LAMBDA e : e.amount, events)]

-----------------------------------------------------------------------------
(* The alerts that follow a stream.                                          *)
Outgoing(items) == {i \in items : i.direction = "out"}

detect_new_recurring(suggested) ==
    {[kind |-> "new_recurring", key |-> <<i.key>>, amount |-> i.amount]
       : i \in {j \in Outgoing(suggested) : j.occurrences <= NewMaxOccurrences}}

\* Mistake: overdue is counted in nominal intervals from the last charge.
OverdueByInterval(confirmed, today) ==
    {[kind |-> "missed_debit", key |-> <<i.key, i.next_expected>>, amount |-> i.amount]
       : i \in {j \in Outgoing(confirmed) : plus_days(j.last_seen, Nominal[j.cadence] + MissGrace) < today}}

detect_missed_debits(confirmed, today) ==
    {[kind |-> "missed_debit", key |-> <<i.key, i.next_expected>>, amount |-> i.amount]
       : i \in {j \in Outgoing(confirmed) : plus_days(j.next_expected, MissGrace) < today}}
=============================================================================
