-------------------------------- MODULE Reporting --------------------------------
(***************************************************************************)
(* What the dashboard says of a period: services/reporting.py, the month    *)
(* summary of services/month_summary.py and the spike alert of              *)
(* services/alerts.py, over repositories/reporting.py.  Amounts are minor   *)
(* units.  A scope is the set of accounts chosen, or Everything.            *)
(***************************************************************************)
EXTENDS Recurring, Sequences, Functions

CONSTANTS
    Parent,     \* the category tree: each category's parent; a root has None
    Exponent    \* of the currency's minor unit

None == 0               \* no category, no parent
Everything == {"all"}   \* account_ids = None

BaselineMonths == 3
MinElapsedDays == 7
SpikeFactor == 2
SpikeWindow == 3
Minor(major) == major * 10^Exponent

ASSUME MinorUnitsCount == 10^Exponent \in Nat \ {0}

Total(rows) == MapThenSumSet(Magnitude, rows)
Spent(rows) == {r \in rows : r.amount < 0}
Earned(rows) == {r \in rows : r.amount > 0}

rows_in_range(rows, start, end, scope) ==
    {r \in rows : start <= r.on /\ r.on <= end /\ (scope = Everything \/ r.account \in scope)}

-----------------------------------------------------------------------------
(* The period and the tiles.                                                 *)
Modes == {"previous_month", "current_month", "specific_month", "year_to_date", "specific_year"}

\* prefs is [mode, year, month]; an absent year or month is None.
resolve_period(prefs, today) ==
    LET ym == <<year(today), month(today)>>
    IN CASE prefs.mode = "current_month" -> month_bounds(ym)
         [] prefs.mode = "specific_month" /\ prefs.year # None /\ prefs.month # None
              -> month_bounds(<<prefs.year, prefs.month>>)
         [] prefs.mode = "year_to_date" -> <<date(year(today), 1, 1), today>>
         [] prefs.mode = "specific_year" /\ prefs.year # None
              -> <<date(prefs.year, 1, 1), date(prefs.year, 12, 31)>>
         [] OTHER -> month_bounds(prev_month(ym))

resolve_trend_months(prefs, today) ==
    LET end == resolve_period(prefs, today)[2]
    IN MonthsBack(<<year(end), month(end)>>, 12)

\* The period's rows that are not one of the owner's confirmed transfers.
Counted(rows, excluded, prefs, scope, today) ==
    LET p == resolve_period(prefs, today)
    IN {r \in rows_in_range(rows, p[1], p[2], scope) : r.id \notin excluded}

summary(counted) ==
    [income |-> Total(Earned(counted)), expenditure |-> Total(counted \ Earned(counted)),
     net |-> Total(Earned(counted)) - Total(counted \ Earned(counted))]

\* The donut: what was spent under each category, no category included.
spending_by_category(counted) ==
    [c \in {r.category : r \in Spent(counted)} |->
        Total({r \in Spent(counted) : r.category = c})]

\* Income and expenditure of each of the twelve months, newest first.
monthly_trend(rows, excluded, prefs, scope, today) ==
    LET months == resolve_trend_months(prefs, today)
        of(ym) == {r \in rows_in_range(rows, month_bounds(ym)[1], month_bounds(ym)[2], scope)
                     : r.id \notin excluded}
    IN [k \in 1..12 |-> [income |-> Total(Earned(of(months[k]))),
                         expenditure |-> Total(of(months[k]) \ Earned(of(months[k])))]]

-----------------------------------------------------------------------------
(* The drill-down: the amount and the row count of each node.                *)
Categories == DOMAIN Parent
RootCategories == {c \in Categories : Parent[c] = None}
Children(c) == {d \in Categories : Parent[d] = c}

\* The categories are a tree: a depth grows from each to those under it.
ASSUME CategoriesAreATree ==
    /\ IsFiniteSet(Categories) /\ None \notin Categories
    /\ \E depth \in [Categories -> 0..Cardinality(Categories)] :
          \A c \in Categories :
              Parent[c] # None => Parent[c] \in Categories /\ depth[Parent[c]] < depth[c]

Nothing == [amount |-> 0, count |-> 0]
SumNodes(nodes) ==
    [amount |-> SumFunction([n \in DOMAIN nodes |-> nodes[n].amount]),
     count |-> SumFunction([n \in DOMAIN nodes |-> nodes[n].count])]

\* The direct child of a root that c is under; a root is its own.  (The tree
\* has no cycle: Ledger's FiledUnderALeaf.)
top_of_chain(c) ==
    LET climb[d \in Categories] ==
            IF Parent[d] \in RootCategories \cup {None} THEN d ELSE climb[Parent[d]]
    IN climb[c]

\* One node per merchant of the rows filed under the category itself.
merchant_nodes(bucket) ==
    [k \in {Key(r) : r \in bucket} |->
        [amount |-> Total({r \in bucket : Key(r) = k}),
         count |-> Cardinality({r \in bucket : Key(r) = k})]]

Own(rows, c) == {r \in rows : r.category = c}

\* Its own merchants and the nodes of the categories under it; the children of
\* a root are top items themselves and are not walked from it.
category_node(rows, c) ==
    LET node[d \in Categories] ==
            LET kids == IF d \in RootCategories THEN {} ELSE Children(d)
            IN SumNodes(<<SumNodes(merchant_nodes(Own(rows, d))), SumNodes([e \in kids |-> node[e]])>>)
    IN node[c]

category_branch(rows) ==
    LET tops == {top_of_chain(r.category) : r \in {s \in rows : s.category # None}}
    IN SumNodes(<<SumNodes([c \in tops |-> category_node(rows, c)]),
                  SumNodes(merchant_nodes(Own(rows, None)))>>)

\* moves are the confirmed transfers as [debit, credit] rows: one belongs to
\* the period of its debit, and to the scope of either account.
transfers_branch(moves, prefs, scope, today) ==
    LET p == resolve_period(prefs, today)
        shown == {m \in moves : /\ p[1] <= m.debit.on /\ m.debit.on <= p[2]
                                /\ \/ scope = Everything
                                   \/ {m.debit.account, m.credit.account} \cap scope # {}}
        pairs == {<<m.debit.account, m.credit.account>> : m \in shown}
        group(q) == {m \in shown : <<m.debit.account, m.credit.account>> = q}
    IN SumNodes([q \in pairs |->
            [amount |-> Total({m.debit : m \in group(q)}), count |-> Cardinality(group(q))]])

drill_down(counted, moves, prefs, scope, today) ==
    [income |-> category_branch(Earned(counted)),
     spending |-> category_branch(counted \ Earned(counted)),
     transfers |-> transfers_branch(moves, prefs, scope, today)]

-----------------------------------------------------------------------------
(* The month summary.                                                        *)
baseline_mean(total) == (total + BaselineMonths \div 2) \div BaselineMonths

\* Mistake: compared up to today's day of the month, cut to each month's end.
ToTheDay(today, months) == day(today)

\* How far into the month a month still running is compared: below the last
\* day of every month compared, where a bank puts what is due later.
head_day(today, months) ==
    Min({day(today), Min({monthrange(months[k][1], months[k][2]) : k \in DOMAIN months}) - 1})

\* The rows spent in a month, up to day head of it (0: the whole month).
spend_rows(rows, ym, head, scope, excluded) ==
    LET b == month_bounds(ym)
        end == IF head = 0 THEN b[2] ELSE date(ym[1], ym[2], head)
    IN {r \in Spent(rows_in_range(rows, b[1], end, scope)) : r.id \notin excluded}

\* The merchant with the greatest excess over its own baseline, if any has one:
\* of equals the smaller key.
candidate(window, baselines) ==
    LET of(rows, k) == {r \in rows : Key(r) = k}
        excess(k) == Total(of(window, k)) - baseline_mean(Total(of(baselines, k)))
        over == {k \in {Key(r) : r \in window} : excess(k) > 0}
        best == {k \in over : \A j \in over : excess(k) >= excess(j)}
    IN IF best = {} THEN [key |-> None, excess |-> 0]
       ELSE [key |-> Min(best), excess |-> excess(Min(best))]

Material(movement, baseline) ==
    LET size == IF movement < 0 THEN -movement ELSE movement
    IN 100 * size >= 10 * baseline /\ size >= Minor(100)

verdict(spend, baseline) ==
    IF ~ Material(spend - baseline, baseline) THEN "normal"
    ELSE IF spend > baseline THEN "higher" ELSE "lower"

\* One family explains a rise when it is sixty parts in a hundred of it.
explains(best, movement) == best.excess > 0 /\ 100 * best.excess >= 60 * movement

summarise_month(item) ==
    LET baseline == baseline_mean(item.prior_total)
        says == verdict(item.spend, baseline)
    IN IF \/ item.prior_count < BaselineMonths
          \/ baseline < Minor(1000)
          \/ item.partial /\ item.days < MinElapsedDays
          \/ ~ item.started
          \/ item.spend = 0
       THEN [verdict |-> "silent", cause |-> None, spend |-> 0]
       ELSE [verdict |-> says, spend |-> item.spend,
             cause |-> IF says = "higher" /\ explains(item.candidate, item.spend - baseline)
                       THEN item.candidate.key ELSE None]

MonthModes == {"previous_month", "current_month", "specific_month"}

month_summary(rows, excluded, prefs, scope, today) ==
    LET end     == resolve_period(prefs, today)[2]
        months  == MonthsBack(<<year(end), month(end)>>, BaselineMonths + 1)
        bounds  == month_bounds(months[1])
        started == bounds[1] <= today
        partial == started /\ today <= bounds[2]
        head    == IF partial THEN head_day(today, months) ELSE 0
        window  == [k \in DOMAIN months |-> spend_rows(rows, months[k], head, scope, excluded)]
        priors  == {k \in 2..Len(window) : window[k] # {}}
        before  == UNION {window[k] : k \in priors}
    IN IF \/ prefs.mode \notin MonthModes
          \/ prefs.mode = "specific_month" /\ (prefs.year = None \/ prefs.month = None)
       THEN [verdict |-> "silent", cause |-> None, spend |-> 0]
       ELSE summarise_month([partial |-> partial, started |-> started,
                days |-> IF partial THEN head ELSE monthrange(months[1][1], months[1][2]),
                spend |-> Total(window[1]), prior_total |-> Total(before),
                prior_count |-> Cardinality(priors), candidate |-> candidate(window[1], before)])

-----------------------------------------------------------------------------
(* The spike alert: last month against the months before it that hold data.  *)
detect_category_spikes(inputs, ym) ==
    LET average(i) == (i.prior_total + i.prior_count \div 2) \div i.prior_count
    IN {[kind |-> "category_spike", key |-> <<i.category, ym>>, amount |-> i.current]
          : i \in {j \in inputs : /\ j.prior_count > 0
                                  /\ j.current >= SpikeFactor * average(j)
                                  /\ average(j) >= Minor(50)}}

spike_inputs(rows, excluded, ym) ==
    LET months == MonthsBack(ym, SpikeWindow + 1)
        all(k) == rows_in_range(rows, month_bounds(months[k])[1], month_bounds(months[k])[2], Everything)
        under(k, c) == {r \in Spent(all(k)) : r.id \notin excluded /\ r.category = c}
        held == {k \in 2..(SpikeWindow + 1) : all(k) # {}}
        used == {c \in Categories : \E k \in 1..(SpikeWindow + 1) : under(k, c) # {}}
    IN {[category |-> c, current |-> Total(under(1, c)),
         prior_total |-> Total(UNION {under(k, c) : k \in held}),
         prior_count |-> Cardinality(held)] : c \in used}

alerts(rows, today, excluded, decisions, dismissed) ==
    LET found == snapshot(rows, today, excluded, decisions)
        ym    == prev_month(<<year(today), month(today)>>)
        all   == detect_new_recurring(found.suggested)
                   \cup detect_category_spikes(spike_inputs(rows, excluded, ym), ym)
                   \cup detect_missed_debits(found.confirmed, today)
    IN {a \in all : <<a.kind, a.key>> \notin dismissed}
=============================================================================
