--------------------------------- MODULE Ledger ---------------------------------
(***************************************************************************)
(* The tables of an open vault and what the owner does to them: accounts    *)
(* (services/accounts.py), transactions typed in (services/transactions.py),*)
(* statement imports (services/import_.py), statements deleted or moved     *)
(* (services/statements.py), transfers between accounts                     *)
(* (services/transfer_detection.py); filing is Categorization.              *)
(*                                                                          *)
(* A service call is one database transaction on the one connection, made   *)
(* from the GUI thread, so each is one step; one that fails rolls back and  *)
(* is no step.  A parsed file is [drafts, start, end, closing]; a day is a  *)
(* number.  Every tab re-reads the tables when it is shown, so the lists    *)
(* the owner acts on are the tables' own.                                   *)
(***************************************************************************)
EXTENDS Categorization

CONSTANTS
    AccountNames,
    Files,        \* the parsed files the owner may import
    OtherSpans,   \* <<start, end>> the owner may put in place of a file's own
    Entries,      \* [day, amount, desc] the owner may type in
    Window,       \* TRANSFER_WINDOW_DAYS
    MaxTxnId, MaxPeriodId, MaxAccountId   \* bounds: ids in use

VARIABLES
    accounts,  \* names by id
    periods,   \* statements by id: [account, start, end, closing, holds], where
               \* the ghost holds is the files whose every row is in the account
               \* for this statement's sake
    pairs      \* "confirmed" or "rejected" by <<lower id, higher id>>

vars == <<txns, categories, rules, library, accounts, periods, pairs>>

Drafts == [day : Int, amount : Int \ {0}, desc : DOMAIN Fold]

ASSUME FilesAreDated ==
    \A f \in Files : /\ f.start \in Int /\ f.end \in Int /\ f.start <= f.end
                     /\ f.drafts \in Seq(Drafts)
ASSUME EntriesAreAmounts == Entries \subseteq Drafts
ASSUME SpansAreOrdered == \A s \in OtherSpans : s \in Int \X Int /\ s[1] <= s[2]
ASSUME WindowIsDays == Window \in Nat

-----------------------------------------------------------------------------
(* services/import_.py                                                       *)
Key(d) == <<d.day, d.amount, Fold[d.desc]>>
Incoming(drafts, k) == Cardinality({i \in DOMAIN drafts : Key(drafts[i]) = k})
Existing(rows, a, k) == Cardinality({t \in DOMAIN rows : rows[t].account = a /\ Key(rows[t]) = k})

\* _dedup: of each key, the first (incoming - existing) drafts, in file order.
DedupAllOrNone(rows, a, drafts) ==
    {i \in DOMAIN drafts :
        Existing(rows, a, Key(drafts[i])) < Incoming(drafts, Key(drafts[i]))}
dedup(rows, a, drafts) ==
    {i \in DOMAIN drafts :
        LET k == Key(drafts[i])
            rank == Cardinality({j \in 1..i : Key(drafts[j]) = k})
        IN rank <= Incoming(drafts, k) - Existing(rows, a, k)}

IdsForSpan(a, s, e) ==
    {p \in DOMAIN periods : periods[p].account = a /\ periods[p].start = s /\ periods[p].end = e}

Row(a, d, p) == [account |-> a, day |-> d.day, amount |-> d.amount, desc |-> d.desc,
                 period |-> p, category |-> None, source |-> "none"]

MaxId == NewId(txns) - 1

\* add_batch: the kept drafts in file order, each with the next id.
WithBatch(a, drafts, kept, p) ==
    LET at == [i \in kept |-> MaxId + Cardinality({j \in kept : j <= i})]
    IN [t \in DOMAIN txns \cup Range(at) |->
           IF t \in DOMAIN txns THEN txns[t]
           ELSE Row(a, drafts[CHOOSE i \in kept : at[i] = t], p)]

Spanned(f, s, e) == \A i \in DOMAIN f.drafts : s <= f.drafts[i].day /\ f.drafts[i].day <= e

\* commit_import: insert what is new, stamp it with the span's statement, file it.
CommitImport(f, a, s, e) ==
    LET kept == dedup(txns, a, f.drafts)
        same == IdsForSpan(a, s, e)
        p    == IF same = {} THEN NewId(periods) ELSE CHOOSE q \in same : TRUE
        old  == IF same = {} THEN [account |-> a, start |-> s, end |-> e,
                                   closing |-> f.closing, holds |-> {}]
                ELSE periods[p]
        fill == IF old.closing = None THEN f.closing ELSE old.closing
        now  == IF Spanned(f, s, e) THEN old.holds \cup {f} ELSE old.holds
    IN /\ a \in DOMAIN accounts /\ s <= e
       /\ UNCHANGED <<categories, rules, library, accounts, pairs>>
       /\ p <= MaxPeriodId
       /\ periods' = Put(periods, p, [old EXCEPT !.closing = fill, !.holds = now])
       /\ MaxId + Cardinality(kept) <= MaxTxnId
       /\ txns' = recategorize_auto_rows(WithBatch(a, f.drafts, kept, p),
                                         categories, rules, library, MaxId)

-----------------------------------------------------------------------------
(* services/transactions.py                                                  *)
AddTransaction(a, d) ==
    /\ a \in DOMAIN accounts /\ NewId(txns) <= MaxTxnId
    /\ txns' = Put(txns, NewId(txns), Row(a, d, None))
    /\ UNCHANGED <<categories, rules, library, accounts, periods, pairs>>

-----------------------------------------------------------------------------
(* services/statements.py                                                    *)
\* The statements that would keep a row when those of `gone` are deleted.
CoversHalfOpen(ps, row, gone) ==
    {q \in DOMAIN ps \ gone : /\ ps[q].account = row.account
                              /\ ps[q].start <= row.day /\ row.day < ps[q].end}
Covers(ps, row, gone) ==
    {q \in DOMAIN ps \ gone : /\ ps[q].account = row.account
                              /\ ps[q].start <= row.day /\ row.day <= ps[q].end}

\* ORDER BY period_start, id LIMIT 1
FirstStatement(ps, qs) ==
    CHOOSE q \in qs : \A r \in qs : \/ ps[q].start < ps[r].start
                                    \/ ps[q].start = ps[r].start /\ q <= r

\* hand_off_covered, then delete_for_statement, for every statement of the batch.
HandOffToDoomed(rows, ps, gone) ==
    LET doomed == {t \in DOMAIN rows : rows[t].period \in gone
                                       /\ Covers(ps, rows[t], {rows[t].period}) = {}}
    IN [t \in DOMAIN rows \ doomed |->
           IF rows[t].period \in gone
           THEN [rows[t] EXCEPT !.period = FirstStatement(ps, Covers(ps, rows[t], {rows[t].period}))]
           ELSE rows[t]]
AfterDelete(rows, ps, gone) ==
    LET doomed == {t \in DOMAIN rows : rows[t].period \in gone /\ Covers(ps, rows[t], gone) = {}}
    IN [t \in DOMAIN rows \ doomed |->
           IF rows[t].period \in gone
           THEN [rows[t] EXCEPT !.period = FirstStatement(ps, Covers(ps, rows[t], gone))]
           ELSE rows[t]]

\* transfer_pairs' foreign keys: ON DELETE CASCADE.
Cascade(ps, rows) == Restrict(ps, {x \in DOMAIN ps : x[1] \in DOMAIN rows /\ x[2] \in DOMAIN rows})

DeleteStatements(gone) ==
    /\ gone # {} /\ gone \subseteq DOMAIN periods
    /\ txns' = AfterDelete(txns, periods, gone)
    /\ periods' = Without(periods, gone)
    /\ pairs' = Cascade(pairs, txns')
    /\ UNCHANGED <<categories, rules, library, accounts>>

\* delete_confirmed_joined_by_move: confirmed pairs the move would put in one account.
JoinedAfterMove(p, a) == {x \in DOMAIN pairs : pairs[x] = "confirmed" /\ \E i \in {1, 2} :
        /\ txns[x[i]].period = p /\ txns[x[i]].account = a /\ txns[x[3 - i]].account = a}
JoinedByMove(p, a) ==
    {x \in DOMAIN pairs : pairs[x] = "confirmed" /\ \E i \in {1, 2} :
        /\ txns[x[i]].period = p /\ txns[x[i]].account # a /\ txns[x[3 - i]].account = a}

SpanFree(p, a) == IdsForSpan(a, periods[p].start, periods[p].end) \subseteq {p}

\* reassign_account.  Rows other statements of the old account relied on may
\* leave with it, and none come along: holds is emptied where that matters.
ReassignAccount(p, a) ==
    /\ p \in DOMAIN periods /\ a \in DOMAIN accounts /\ a # periods[p].account
    /\ SpanFree(p, a)
    /\ pairs' = Without(pairs, JoinedByMove(p, a))
    /\ periods' = [q \in DOMAIN periods |->
           IF q = p THEN [periods[q] EXCEPT !.account = a, !.holds = {}]
           ELSE IF periods[q].account = periods[p].account THEN [periods[q] EXCEPT !.holds = {}]
           ELSE periods[q]]
    /\ txns' = [t \in DOMAIN txns |->
           IF txns[t].period = p THEN [txns[t] EXCEPT !.account = a] ELSE txns[t]]
    /\ UNCHANGED <<categories, rules, library, accounts>>

-----------------------------------------------------------------------------
(* services/transfer_detection.py                                            *)
Pair(d, c) == IF d < c THEN <<d, c>> ELSE <<c, d>>
Confirmed == {x \in DOMAIN pairs : pairs[x] = "confirmed"}
Consumed(t) == \E x \in Confirmed : t \in {x[1], x[2]}

candidate_pairs ==
    {dc \in (DOMAIN txns) \X (DOMAIN txns) :
        LET d == txns[dc[1]]  c == txns[dc[2]] IN
        /\ d.amount < 0 /\ c.amount = 0 - d.amount /\ c.account # d.account
        /\ d.day - Window <= c.day /\ c.day <= d.day + Window
        /\ ~Consumed(dc[1]) /\ ~Consumed(dc[2])
        /\ Pair(dc[1], dc[2]) \notin DOMAIN pairs}

\* ORDER BY d.occurred_on, d.id, c.id
Earlier(x, y) == \/ txns[x[1]].day < txns[y[1]].day
                 \/ txns[x[1]].day = txns[y[1]].day /\ x[1] < y[1]
                 \/ x[1] = y[1] /\ x[2] < y[2]

\* confirm_many: in that order, each pair neither side of which an earlier one
\* took.  Each is committed on its own: a pass cut short is one over fewer pairs.
Greedy(chosen) ==
    CHOOSE taken \in SUBSET chosen :
        taken = {x \in chosen : \A y \in taken : Earlier(y, x) => y[1] # x[1] /\ y[2] # x[2]}

Decide(decided, status) ==
    /\ pairs' = [x \in DOMAIN pairs \cup {Pair(dc[1], dc[2]) : dc \in decided} |->
                    IF x \in DOMAIN pairs THEN pairs[x] ELSE status]
    /\ UNCHANGED <<txns, categories, rules, library, accounts, periods>>

ConfirmMany(chosen) == chosen # {} /\ Decide(Greedy(chosen), "confirmed")
RejectMany(chosen) == chosen # {} /\ Decide(chosen, "rejected")

Unlink(x) == /\ x \in Confirmed /\ pairs' = Without(pairs, {x})
             /\ UNCHANGED <<txns, categories, rules, library, accounts, periods>>

-----------------------------------------------------------------------------
(* services/accounts.py                                                      *)
Used(n) == \E b \in DOMAIN accounts : accounts[b] = n

AddAccount(n) == /\ ~Used(n) /\ NewId(accounts) <= MaxAccountId
                 /\ accounts' = Put(accounts, NewId(accounts), n)
                 /\ UNCHANGED <<txns, categories, rules, library, periods, pairs>>

UpdateAccount(a, n) == /\ a \in DOMAIN accounts /\ ~Used(n)
                       /\ accounts' = [accounts EXCEPT ![a] = n]
                       /\ UNCHANGED <<txns, categories, rules, library, periods, pairs>>

\* delete_account: refused while it has rows or statements, and for the last one.
DeleteAccount(a) ==
    /\ a \in DOMAIN accounts /\ Cardinality(DOMAIN accounts) > 1
    /\ \A t \in DOMAIN txns : txns[t].account # a
    /\ \A p \in DOMAIN periods : periods[p].account # a
    /\ accounts' = Without(accounts, {a})
    /\ UNCHANGED <<txns, categories, rules, library, periods, pairs>>

-----------------------------------------------------------------------------
Init == /\ CatInit /\ txns = <<>> /\ periods = <<>> /\ pairs = <<>>
        /\ \E n \in AccountNames : accounts = <<n>>

Next ==
    \/ \E f \in Files, a \in DOMAIN accounts :
          \E s \in OtherSpans \cup {<<f.start, f.end>>} : CommitImport(f, a, s[1], s[2])
    \/ \E a \in DOMAIN accounts, d \in Entries : AddTransaction(a, d)
    \/ \E gone \in SUBSET DOMAIN periods : DeleteStatements(gone)
    \/ \E p \in DOMAIN periods, a \in DOMAIN accounts : ReassignAccount(p, a)
    \/ \E chosen \in SUBSET candidate_pairs : ConfirmMany(chosen) \/ RejectMany(chosen)
    \/ \E x \in DOMAIN pairs : Unlink(x)
    \/ \E n \in AccountNames : AddAccount(n)
    \/ \E a \in DOMAIN accounts, n \in AccountNames : UpdateAccount(a, n)
    \/ \E a \in DOMAIN accounts : DeleteAccount(a)
    \/ CatNext /\ UNCHANGED <<accounts, periods, pairs>>

Spec == Init /\ [][Next]_vars

-----------------------------------------------------------------------------
(***************************************************************************)
(* What the tables of a vault hold, of any tables: a vault on disk is whole *)
(* when they hold this together, and the invariants below say that it stays *)
(* so.                                                                      *)
(***************************************************************************)
Ids(D) == IsFiniteSet(D) /\ D \subseteq Nat \ {0}
Table(t, R) == Ids(DOMAIN t) /\ t \in [DOMAIN t -> R]

Sources == {"none", "rule", "library", "manual"}
Names == CategoryNames \cup {Seed[c].name : c \in DOMAIN Seed}
Closings == {f.closing : f \in Files} \cup {None}

TxnRow == [account : Nat \ {0}, day : Int, amount : Int \ {0}, desc : DOMAIN Fold,
           period : Nat, category : Nat, source : Sources]
PeriodRow == [account : Nat \ {0}, start : Int, end : Int, closing : Closings,
              holds : SUBSET Files]
CategoryRow == [parent : Nat, name : Names]
RuleRow == [pattern : Patterns, category : Nat, priority : Int]

TypeOK ==
    /\ Table(txns, TxnRow) /\ Table(periods, PeriodRow) /\ Table(accounts, AccountNames)
    /\ Table(categories, CategoryRow) /\ Table(rules, RuleRow)
    /\ library \in BOOLEAN
    /\ pairs \in [DOMAIN pairs -> {"confirmed", "rejected"}]

\* ReferencesHold, of any tables.
DistinctSpans(ps) ==
    \A q, r \in DOMAIN ps :
        ps[q].account = ps[r].account /\ ps[q].start = ps[r].start /\ ps[q].end = ps[r].end
        => q = r
Stamped(row, ps, as) ==
    /\ row.account \in DOMAIN as
    /\ row.period # None => row.period \in DOMAIN ps /\ ps[row.period].account = row.account
Refer(ts, ps, as) ==
    /\ DOMAIN as # {}
    /\ \A p \in DOMAIN ps : ps[p].account \in DOMAIN as
    /\ DistinctSpans(ps)
    /\ \A t \in DOMAIN ts : Stamped(ts[t], ps, as)

\* The two transfer invariants, of any tables.
Ordered(x, ts) == /\ x \in (DOMAIN ts) \X (DOMAIN ts) /\ x[1] < x[2]
Joins(x, ts) == /\ ts[x[1]].amount = 0 - ts[x[2]].amount
                /\ ts[x[1]].account # ts[x[2]].account
Apart(x, y) == x[1] # y[1] /\ x[1] # y[2] /\ x[2] # y[1] /\ x[2] # y[2]
Transfers(ps, ts) ==
    /\ \A x \in DOMAIN ps : Ordered(x, ts)
    /\ \A x \in DOMAIN ps : ps[x] = "confirmed" => Joins(x, ts)
    /\ \A x, y \in DOMAIN ps : ps[x] = "confirmed" /\ ps[y] = "confirmed" /\ x # y => Apart(x, y)

\* The category tree: closed upwards, with the Types for its only roots.
UpClosed(cats, S) == \A d \in S : cats[d].parent # None => cats[d].parent \in S
UnderOneType(cats, c) == \E r \in Roots : Above(cats, c) \cap Roots = {r}

Tree(cats) ==
    /\ Table(cats, CategoryRow)
    /\ UpClosed(cats, DOMAIN cats)
    /\ {c \in DOMAIN cats : cats[c].parent = None} = Roots
    /\ \A c \in DOMAIN cats : UnderOneType(cats, c)

RulesPoint(rs, cats) == \A r \in DOMAIN rs : Leaf(cats, rs[r].category)
RowPoints(row, cats) == row.category = None \/ Leaf(cats, row.category)

\* Every row of the file is in the statement's span, and on its account.
Held(rows, per, f) ==
    /\ Spanned(f, per.start, per.end)
    /\ \A i \in DOMAIN f.drafts :
          Existing(rows, per.account, Key(f.drafts[i])) >= Incoming(f.drafts, Key(f.drafts[i]))

-----------------------------------------------------------------------------
(* FIBR-0005 INV-6, FIBR-0052 INV-8, FIBR-0059 INV-3: no reference dangles,  *)
(* a statement and the rows stamped with it are in one account, and an       *)
(* account has one statement per span - through imports, moves, hand-offs    *)
(* and ids that come back.                                                   *)
ReferencesHold ==
    /\ DOMAIN accounts # {}
    /\ \A p \in DOMAIN periods : /\ periods[p].account \in DOMAIN accounts
                                /\ SpanFree(p, periods[p].account)
    /\ \A t \in DOMAIN txns :
          /\ txns[t].account \in DOMAIN accounts
          /\ txns[t].period # None => /\ txns[t].period \in DOMAIN periods
                                      /\ periods[txns[t].period].account = txns[t].account

(* FIBR-0148: deleting statements never takes a row that a statement still   *)
(* on record brought (until a move takes rows out of its account): the       *)
(* account has at least as many of each row as the statement's file has.     *)
StatementKeepsItsRows ==
    \A p \in DOMAIN periods : \A f \in periods[p].holds : \A i \in DOMAIN f.drafts :
        LET k == Key(f.drafts[i])
        IN Existing(txns, periods[p].account, k) >= Incoming(f.drafts, k)

(* FIBR-0201 INV-13: deleting a batch leaves what deleting its statements    *)
(* one at a time leaves, rows and stamps, in either order.                   *)
BatchIsALoop ==
    \A p, q \in DOMAIN periods : p # q =>
        AfterDelete(AfterDelete(txns, periods, {p}), Without(periods, {p}), {q})
            = AfterDelete(txns, periods, {p, q})

(* FIBR-0007 INV-5: an import leaves, of each row, the greater of what the   *)
(* account had and what the file has: two equal purchases stay two, and no   *)
(* file, re-import or overlap counts one twice.                              *)
ImportIsUnion ==
    [][\A f \in Files, a \in DOMAIN accounts :
          (\E s \in OtherSpans \cup {<<f.start, f.end>>} : CommitImport(f, a, s[1], s[2])) =>
          \A i \in DOMAIN f.drafts :
              LET k == Key(f.drafts[i])
              IN Existing(txns', a, k) = Max({Existing(txns, a, k), Incoming(f.drafts, k)})]_vars

(* FIBR-0010 INV-3, FIBR-0213: an import re-files, loses or alters no row    *)
(* that was there before it.                                                 *)
ImportOnlyAdds ==
    (\E t \in DOMAIN txns : t \notin DOMAIN txns' \/ txns'[t] # txns[t]) =>
    \A f \in Files, a \in DOMAIN accounts :
        \A s \in OtherSpans \cup {<<f.start, f.end>>} : ~CommitImport(f, a, s[1], s[2])

(* FIBR-0011 INV-2, INV-8, FIBR-0059 INV-12: a confirmed transfer is between *)
(* two rows on record, equal and opposite, in different accounts - whatever  *)
(* was deleted, moved or imported since, and whichever ids came back.        *)
TransferJoinsTwoAccounts ==
    \A x \in Confirmed :
        /\ x[1] \in DOMAIN txns /\ x[2] \in DOMAIN txns
        /\ txns[x[1]].amount = 0 - txns[x[2]].amount
        /\ txns[x[1]].account # txns[x[2]].account

(* FIBR-0011 INV-4: no row is in two confirmed transfers, however many       *)
(* suggestions that share it are confirmed at once.                          *)
OneTransferPerRow ==
    \A x, y \in Confirmed : x # y => {x[1], x[2]} \cap {y[1], y[2]} = {}

(* Rows, statements and transfers refer to what is there and means it.       *)
LinksAreSound == ReferencesHold /\ TransferJoinsTwoAccounts /\ OneTransferPerRow

(* FIBR-0010 INV-7, INV-9: rows and rules point at assignable categories     *)
(* that exist, though categories are deleted and their ids come back.        *)
PointsAtALeaf ==
    /\ \A t \in DOMAIN txns : txns[t].category = None \/ Leaf(categories, txns[t].category)
    /\ \A r \in DOMAIN rules : Leaf(categories, rules[r].category)

(* FIBR-0006 INV-5, FIBR-0141: the two Types stay the only roots and every   *)
(* category is under exactly one of them: no re-parenting makes a cycle.     *)
TreeIsSound ==
    /\ {c \in DOMAIN categories : categories[c].parent = None} = Roots
    /\ \A c \in DOMAIN categories : Cardinality(Above(categories, c) \cap Roots) = 1

(* What is filed is filed under a category of a Type, for ever.              *)
FiledUnderALeaf == PointsAtALeaf /\ TreeIsSound

Filing(row) == <<row.category, row.source>>

(* FIBR-0010 INV-1: what the owner filed by hand, a deliberate blank too, is *)
(* re-filed only by hand or when its category is deleted.                    *)
ManualIsFrozen ==
    \A t \in DOMAIN txns \cap DOMAIN txns' :
       txns[t].source = "manual" /\ Filing(txns'[t]) # Filing(txns[t])
       => \/ txns[t].category # None /\ txns[t].category \notin DOMAIN categories'
          \/ txns'[t].source = "manual"

(* The owner's filing outlives imports and re-filing alike.                  *)
FilingIsKept == [][ManualIsFrozen /\ ImportOnlyAdds]_vars
=============================================================================
