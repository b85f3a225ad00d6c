------------------------------- MODULE Workspace -------------------------------
(***************************************************************************)
(* The unlocked window (ui/main_window.py and the tabs of ui/) over the     *)
(* tables of Ledger: what each tab shows and when it is re-read, which row  *)
(* a button acts on once the table was re-sorted or refilled, the questions *)
(* a tab asks before it writes, and what becomes of one that an auto-lock   *)
(* catches open.                                                            *)
(*                                                                          *)
(* The pickers and editors (account, category, rule, alerts, manual entry,  *)
(* settings) are modal and go with the lock, so opening and accepting one   *)
(* is one step.  A QMessageBox.question is not: it runs an event loop of    *)
(* its own, in which the idle lock and the reveal timer fire.  A refused    *)
(* write changes nothing and is no step.  A day does not end meanwhile, and *)
(* the filters of Transactions and Home's account box show everything.      *)
(***************************************************************************)
EXTENDS Ledger

CONSTANTS
    Vaults,     \* the vaults the window may open: their tables
    MaxEdits    \* bound: writes to a vault, those it comes with included

\* A vault is opened whole: its tables are what these services left there.
ASSUME VaultsAreWhole ==
    \A v \in Vaults :
        /\ Table(v.txns, TxnRow) /\ Table(v.periods, PeriodRow) /\ Table(v.accounts, AccountNames)
        /\ Table(v.rules, RuleRow) /\ v.pairs \in [DOMAIN v.pairs -> {"confirmed", "rejected"}]
        /\ Refer(v.txns, v.periods, v.accounts) /\ Transfers(v.pairs, v.txns)
        /\ Tree(v.categories) /\ RulesPoint(v.rules, v.categories)
        /\ \A t \in DOMAIN v.txns : RowPoints(v.txns[t], v.categories)
        /\ \A p \in DOMAIN v.periods : \A f \in v.periods[p].holds : Held(v.txns, v.periods[p], f)

VARIABLES
    marks,   \* tables outside Ledger: [saved: accounts with a statement password,
             \*  decided: the decision on the one recurring stream,
             \*  dismissed: whether its alert was dismissed, prefs: date, amount]
    place,   \* what fills the window: "locked", "workspace" or "wizard"
    gate,    \* the unlock dialog is up
    page,    \* the workspace: [tab, rows, desc, sel, picked, form, reveal]; rows
             \* is what the tab's lists were filled with, desc how they are sorted,
             \* sel the highlighted <<list, visual row>>s, form the account whose
             \* details are in the Accounts form; the ghost picked is the <<list,
             \* item>>s the owner clicked on
    box,     \* the open question, or NoBox: [kind, ids, says, old]; old: its page
             \* was taken down
    behind,  \* the parts of the window the tables have moved on from
    known,   \* those of them that are so for a reason the README names
    missed,  \* some write hit or did something else than the owner was shown
    edits

ui == <<place, gate, page, box, behind, known, missed>>
wvars == <<vars, marks, ui, edits>>

-----------------------------------------------------------------------------
(* What the tabs show.                                                       *)
Tabs == {"home", "transactions", "statements", "accounts", "categories", "rules",
         "transfers", "recurring", "forecast"}

HomeShows == IF txns = <<>> THEN <<>>
             ELSE <<txns, accounts, categories, Confirmed, marks.decided, marks.prefs>>
TransactionsShow == <<txns, accounts, categories, Confirmed>>
StatementsShow == <<periods, accounts, {<<t, txns[t].period>> : t \in DOMAIN txns}, marks.prefs>>
AccountsShow == <<accounts, periods, txns, marks.saved>>
CategoriesShow == <<categories>>
RulesShow == <<rules, categories>>
TransfersShow == <<txns, accounts, pairs, marks.prefs>>
RecurringShow == <<txns, Confirmed, marks.decided, marks.prefs>>
ForecastShows == <<txns, periods, accounts, Confirmed, marks.decided, marks.prefs>>
AlertsShow == <<txns, categories, Confirmed, marks.decided, marks.dismissed>>

TabView(tab) ==
    CASE tab = "home"         -> HomeShows
      [] tab = "transactions" -> TransactionsShow
      [] tab = "statements"   -> StatementsShow
      [] tab = "accounts"     -> AccountsShow
      [] tab = "categories"   -> CategoriesShow
      [] tab = "rules"        -> RulesShow
      [] tab = "transfers"    -> TransfersShow
      [] tab = "recurring"    -> RecurringShow
      [] tab = "forecast"     -> ForecastShows

View(part) == CASE part = "page"  -> TabView(page.tab)
                [] part = "bell"  -> AlertsShow
                [] part = "count" -> <<Cardinality(DOMAIN txns)>>

\* The members of S in an order: the i-th has i - 1 before it.
InOrder(S, before(_, _)) ==
    [i \in 1..Cardinality(S) |-> CHOOSE x \in S : Cardinality({y \in S : before(y, x)}) = i - 1]

\* The parallel lists, in the order the repositories return them.
Listed(list) ==
    CASE list = "transactions" -> InOrder(DOMAIN txns, LAMBDA t, u :
              txns[t].day < txns[u].day \/ (txns[t].day = txns[u].day /\ t < u))
      [] list = "accounts"   -> InOrder(DOMAIN accounts, LAMBDA a, b : accounts[a] < accounts[b])
      [] list = "statements" -> InOrder(DOMAIN periods, LAMBDA p, q : p < q)
      [] list = "tree"       -> InOrder(DOMAIN categories, LAMBDA c, d : c < d)
      [] list = "rules"      -> InOrder(DOMAIN rules, LAMBDA r, q : Before(rules, r, q))
      [] list = "suggested"  -> InOrder(candidate_pairs, LAMBDA x, y : x # y /\ Earlier(x, y))
      [] list = "confirmed"  -> InOrder(Confirmed, LAMBDA x, y : x # y /\ Earlier(x, y))

ListsOf(tab) == CASE tab \in {"transactions", "statements", "accounts", "rules"} -> {tab}
                  [] tab = "categories" -> {"tree"}
                  [] tab = "transfers"  -> {"suggested", "confirmed"}
                  [] OTHER -> {}
Filled(tab) == [list \in ListsOf(tab) |-> Listed(list)']     \* after the step

Sortable == {"transactions", "statements", "accounts", "suggested", "confirmed"}
Several  == {"statements", "suggested"}          \* MultiSelection

\* refresh_tab: the tabs that are re-read when `tab` comes to the front.
AllButForecast(tab) == {tab} \ {"forecast"}
refresh_tab(tab) == {tab}

-----------------------------------------------------------------------------
(* From a highlighted row to what it stands for.                             *)
Mirrored(list, row) == IF page.desc /\ list \in Sortable THEN Len(page.rows[list]) + 1 - row ELSE row
Displayed(list, row) == page.rows[list][Mirrored(list, row)]

\* selected_index: the tag of the row, which moves with it, not its number.
RowNumber(list, row) == row
selected_index(list, row) == Mirrored(list, row)

Resolved(list) == {page.rows[list][selected_index(list, s[2])] : s \in {s \in page.sel : s[1] = list}}
Picked(list)   == {x[2] : x \in {x \in page.picked : x[1] = list}}
One(list, id)  == Resolved(list) = {id}

fill_guard(p) == [p EXCEPT !.sel = {}, !.picked = {}]

\* After a write: what was repainted is current, the rest may have fallen behind.
Seen(repainted) ==
    /\ behind' = (behind \cup {x \in {"page", "bell", "count"} : View(x)' # View(x)}) \ repainted
    /\ known' = known \ repainted

Refill == /\ page' = fill_guard([page EXCEPT !.rows = Filled(page.tab)])
          /\ Seen({"page"} \cup (IF page.tab = "home" /\ txns' # <<>> THEN {"bell"} ELSE {}))

\* remember_columns: a header keeps the sort the owner left it with.
layouts(tab) == IF ListsOf(tab) \cap Sortable = {} THEN {FALSE} ELSE BOOLEAN

\* Bring `tab` to the front, re-read.
ComeToFront(tab, counted) ==
    /\ \E desc \in layouts(tab) :
          page' = fill_guard([page EXCEPT !.tab = tab, !.rows = Filled(tab), !.desc = desc])
    /\ LET count == IF counted \/ tab = "home" THEN {} ELSE {"count"}
       IN behind' = (IF tab \in refresh_tab(tab) \/ edits = 0 THEN {} ELSE {"page"})
                    \cup ((behind \cup {x \in {"count"} : View(x)' # View(x)}) \cap count)
    /\ known' = known \cap behind'

\* build_workspace: every tab is constructed, and so read, anew.
build_workspace(tab, counted) ==
    /\ place' = "workspace"
    /\ \E desc \in layouts(tab) :
          page' = [tab |-> tab, rows |-> Filled(tab), desc |-> desc, sel |-> {}, picked |-> {},
                   form |-> None, reveal |-> FALSE]
    /\ behind' = (behind \cup {x \in {"count"} : View(x)' # View(x)})
                 \cap (IF counted \/ tab = "home" THEN {} ELSE {"count"})

NoPage == [tab |-> "home", rows |-> <<>>, desc |-> FALSE, sel |-> {}, picked |-> {},
           form |-> None, reveal |-> FALSE]

NoBox == [kind |-> "none", ids |-> {}, says |-> None, old |-> FALSE]

Hit(named, done) == missed' = (missed \/ named # done)

Free == place = "workspace" /\ box = NoBox
At(tab) == Free /\ page.tab = tab
Write == edits < MaxEdits /\ edits' = edits + 1
Still == UNCHANGED <<place, gate, box>>
Quiet == UNCHANGED <<vars, marks, edits>>

-----------------------------------------------------------------------------
(* Looking around.                                                           *)
\* on_tab_changed, and the View menu, which takes the wizard down; show_home
\* re-reads Home when it is at the front already.
OpenTab(tab) ==
    /\ Free /\ (tab # page.tab \/ tab = "home") /\ Quiet
    /\ ComeToFront(tab, FALSE) /\ Still /\ UNCHANGED missed

ensure_workspace(tab) ==
    /\ place = "wizard" /\ box = NoBox /\ Quiet
    /\ build_workspace(tab, FALSE) /\ known' = behind'
    /\ UNCHANGED <<gate, box, missed>>

Click(list, row) ==
    /\ Free /\ list \in ListsOf(page.tab) /\ row \in DOMAIN page.rows[list]
    /\ LET hit == {<<list, row>>}
           kept == IF list \in Several THEN page.sel ELSE {s \in page.sel : s[1] # list}
           sel == IF list \in Several /\ hit \subseteq page.sel THEN page.sel \ hit ELSE kept \cup hit
       IN page' = [page EXCEPT !.sel = sel,
               !.picked = {<<s[1], Displayed(s[1], s[2])>> : s \in sel},
               !.form = IF list = "accounts" THEN page.rows[list][selected_index(list, row)] ELSE @]
    /\ Still /\ UNCHANGED <<behind, known, missed>> /\ Quiet

\* A header click: the rows turn over and the selection goes with them.
Sort == /\ Free /\ ListsOf(page.tab) \cap Sortable # {}
        /\ page' = [page EXCEPT !.desc = ~@,
                !.sel = {<<s[1], Len(page.rows[s[1]]) + 1 - s[2]>> : s \in page.sel}]
        /\ Still /\ UNCHANGED <<behind, known, missed>> /\ Quiet

-----------------------------------------------------------------------------
(* Accounts (ui/accounts.py).                                                *)
Kept == UNCHANGED marks

on_add(n) == /\ At("accounts") /\ Write /\ AddAccount(n) /\ Kept
             /\ page' = fill_guard([page EXCEPT !.rows = Filled("accounts"), !.form = None])
             /\ Seen({"page"}) /\ Still /\ UNCHANGED missed

\* The form is written over the highlighted account.
on_update(a, n) == /\ At("accounts") /\ One("accounts", a) /\ Write /\ UpdateAccount(a, n) /\ Kept
                   /\ Hit(<<Picked("accounts"), page.form>>, <<{a}, a>>) /\ Refill /\ Still

Ask(kind, ids, says) ==
    /\ box' = [NoBox EXCEPT !.kind = kind, !.ids = ids, !.says = says]
    /\ UNCHANGED <<place, gate, page, behind, known>> /\ Quiet

AskAboutAccount(a) ==
    /\ At("accounts") /\ One("accounts", a)
    /\ Hit(Picked("accounts"), {a})
    /\ Ask("delete account", {a}, None) \/ (a \in marks.saved /\ Ask("forget password", {a}, None))

\* on_reveal_toggled: refill, and highlight the same account without reloading
\* the form.  The box, and after 30 seconds the timer, even under a question.
PositionOf(a) == CHOOSE i \in DOMAIN page.rows.accounts : page.rows.accounts[i] = a
RowOf(a) == Mirrored("accounts", PositionOf(a))

on_reveal_toggled(on) ==
    /\ place = "workspace"
    /\ page' = IF page.tab # "accounts" THEN [page EXCEPT !.reveal = on]
               ELSE [page EXCEPT !.reveal = on,
                        !.sel = {<<"accounts", RowOf(a)>> : a \in Resolved("accounts")}]
    /\ UNCHANGED <<place, gate, box, behind, known, missed>> /\ Quiet
ToggleReveal == At("accounts") /\ on_reveal_toggled(~page.reveal)
on_reveal_timeout == page.reveal /\ on_reveal_toggled(FALSE)

-----------------------------------------------------------------------------
(* Categories (ui/categories.py): the tree offers three levels, roots first. *)
Levels == 3
Depth(cats, c) == Cardinality(Above(cats, c))
Subtree(c) == {d \in DOMAIN categories : c \in Above(categories, d)}

JustItself(c) == 0
subtree_height(c) == Max({Depth(categories, d) : d \in Subtree(c)}) - Depth(categories, c)

\* rebuild_move_under: the Types and the categories right under them.
move_under(c) == {p \in DOMAIN categories \ Subtree(c) :
    Depth(categories, p) \in {1, 2} /\ Depth(categories, p) + 1 + subtree_height(c) <= Levels}

\* The current parent is preselected, and listed first when it is not offered.
preselected(c) == categories[c].parent

on_add_category(c, n) ==
    /\ At("categories") /\ One("tree", c) /\ Depth(categories, c) < Levels
    /\ Write /\ AddCategory(c, n)
    /\ UNCHANGED <<accounts, periods, pairs>> /\ Kept
    /\ Hit(Picked("tree"), {c}) /\ Refill /\ Still

on_update_category(c, n, p, touched) ==
    /\ At("categories") /\ One("tree", c)
    /\ p \in IF touched THEN move_under(c) ELSE {preselected(c)}
    /\ Write /\ UpdateCategory(c, n, p)
    /\ UNCHANGED <<accounts, periods, pairs>> /\ Kept /\ Refill /\ Still
    /\ Hit(<<Picked("tree"), IF touched THEN p ELSE categories[c].parent>>, <<{c}, p>>)

AskAboutCategory(c) == /\ At("categories") /\ One("tree", c) /\ Leaf(categories, c)
                       /\ Hit(Picked("tree"), {c}) /\ Ask("delete category", {c}, None)

-----------------------------------------------------------------------------
(* Rules (ui/rules.py).                                                      *)
AddRuleFromTab(x, c) == /\ At("rules") /\ Write /\ AddRule(x, c)
                        /\ UNCHANGED <<accounts, periods, pairs, missed>> /\ Kept /\ Refill /\ Still

\* on_edit holds the rule's id while the editor is open; on_delete does not ask.
OnRule(r) == At("rules") /\ One("rules", r) /\ Hit(Picked("rules"), {r})
on_edit(r, x, c) == /\ OnRule(r) /\ Write /\ UpdateRule(r, x, c)
                    /\ UNCHANGED <<accounts, periods, pairs>> /\ Kept /\ Refill /\ Still
on_delete_rule(r) == /\ OnRule(r) /\ Write /\ DeleteRule(r)
                     /\ UNCHANGED <<accounts, periods, pairs>> /\ Kept /\ Refill /\ Still

\* The moved rule stays highlighted, in its new place.
Reselected(r) == {<<"rules", i>> : i \in {i \in DOMAIN Listed("rules")' : Listed("rules")'[i] = r}}
MovedWith(r, q) == q = r \/ \E i \in 2..Len(page.rows.rules) :
                        page.rows.rules[i - 1] = r /\ page.rows.rules[i] = q
on_move(r, q) ==
    /\ OnRule(r) /\ MovedWith(r, q) /\ Write /\ MoveRule(q)
    /\ UNCHANGED <<accounts, periods, pairs>> /\ Kept /\ Still
    /\ page' = [page EXCEPT !.rows = Filled("rules"), !.sel = Reselected(r)]
    /\ Seen({"page"})

on_apply == /\ At("rules") /\ Write /\ ApplyRules
            /\ UNCHANGED <<accounts, periods, pairs, missed>> /\ Kept /\ Refill /\ Still

-----------------------------------------------------------------------------
(* Transactions (ui/transactions.py): file one by hand, and teach the rule.  *)
apply_category(t, c) ==
    /\ At("transactions") /\ One("transactions", t) /\ Write /\ SetManualCategory(t, c)
    /\ UNCHANGED <<accounts, periods, pairs>> /\ Kept
    /\ Hit(Picked("transactions"), {t}) /\ Refill /\ Still
apply_learned_rule(x, c) ==
    /\ At("transactions") /\ Write /\ LearnRule(x, c)
    /\ UNCHANGED <<accounts, periods, pairs, missed>> /\ Kept /\ Refill /\ Still

-----------------------------------------------------------------------------
(* Statements (ui/statements.py).                                            *)
\* delete_preview_many: the rows no statement that stays would keep.
Removed(gone) == Cardinality({t \in DOMAIN txns : txns[t].period \in gone
                                                  /\ Covers(periods, txns[t], gone) = {}})

AskAboutStatements(gone, named) == /\ gone # {} /\ Hit(named, gone)
                                   /\ Ask("delete statements", gone, Removed(gone))
on_delete == /\ At("statements")
             /\ AskAboutStatements(Resolved("statements"), Picked("statements"))
on_delete_all == /\ At("statements")
                 /\ AskAboutStatements(Range(page.rows.statements), Range(page.rows.statements))

\* Home, hidden behind this tab, and the count are refreshed with it.
refresh_after_statement_change == page' = fill_guard([page EXCEPT !.rows = Filled("statements")])
                                  /\ Seen({"page", "bell", "count"})

apply_reassign(p, a) ==
    /\ At("statements") /\ One("statements", p) /\ Write /\ ReassignAccount(p, a) /\ Kept
    /\ Hit(Picked("statements"), {p}) /\ refresh_after_statement_change /\ Still

-----------------------------------------------------------------------------
(* Transfers (ui/transfers.py), Recurring (ui/recurring.py), the alerts.     *)
\* A pair whose row a late answer deleted is refused by the foreign key.
Decides(list, standing) ==
    /\ At("transfers") /\ Resolved(list) # {} /\ Resolved(list) \subseteq standing
    /\ Write /\ Hit(Picked(list), Resolved(list))
on_confirm == /\ Decides("suggested", candidate_pairs) /\ ConfirmMany(Resolved("suggested"))
              /\ Kept /\ Refill /\ Still
on_reject == /\ Decides("suggested", candidate_pairs) /\ RejectMany(Resolved("suggested"))
             /\ Kept /\ Refill /\ Still
on_confirm_all == /\ At("transfers") /\ Write /\ ConfirmMany(candidate_pairs)
                  /\ Kept /\ Refill /\ Still /\ UNCHANGED missed
on_unlink(x) == /\ Decides("confirmed", Confirmed) /\ One("confirmed", x) /\ Unlink(x)
                /\ Kept /\ Refill /\ Still

DecideStream(d) ==
    /\ At("recurring") /\ txns # <<>> /\ Write
    /\ d \in IF marks.decided = "suggested" THEN {"confirmed", "dismissed"}
             ELSE IF marks.decided = "confirmed" THEN {"suggested"} ELSE {}
    /\ marks' = [marks EXCEPT !.decided = d]
    /\ UNCHANGED <<vars, missed>> /\ Refill /\ Still

\* The dialog opens from Home and tells the button how many are left.
on_alerts_changed ==
    /\ At("home") /\ txns # <<>> /\ marks.decided # "dismissed" /\ ~marks.dismissed /\ Write
    /\ marks' = [marks EXCEPT !.dismissed = TRUE]
    /\ UNCHANGED <<vars, page, missed>> /\ Still /\ Seen({"bell"})

-----------------------------------------------------------------------------
(* From the toolbar: a transaction, the settings, an import.                 *)
on_manual_committed(a, d) ==
    /\ place # "locked" /\ box = NoBox /\ Write /\ AddTransaction(a, d) /\ Kept
    /\ IF place = "workspace" THEN ComeToFront("transactions", TRUE) /\ UNCHANGED place
       ELSE build_workspace("transactions", TRUE) /\ known' = {}
    /\ UNCHANGED <<gate, box, missed>>

\* Transactions re-renders the rows it has; the other prefs tabs are re-read.
Pushed == {"home", "transactions", "statements", "transfers", "recurring", "forecast"}
on_settings_saved(on) ==
    /\ place # "locked" /\ box = NoBox /\ Write /\ SetLibraryEnabled(on)
    /\ UNCHANGED <<accounts, periods, pairs>> /\ marks' = [marks EXCEPT !.prefs = ~@]
    /\ IF place = "workspace" /\ page.tab \in Pushed
       THEN IF page.tab = "transactions" THEN page' = fill_guard(page) /\ Seen({}) ELSE Refill
       ELSE UNCHANGED page /\ (IF place = "workspace" THEN Seen({}) ELSE UNCHANGED <<behind, known>>)
    /\ Still /\ UNCHANGED missed

open_import == /\ Free /\ place' = "wizard" /\ page' = NoPage
               /\ behind' = behind \cap {"count"} /\ known' = known \cap {"count"}
               /\ UNCHANGED <<gate, box, missed>> /\ Quiet

\* A file of the wizard lands; after the last, or on Cancel, the wizard is done.
WizardCommits(f, a) ==
    /\ place = "wizard" /\ box = NoBox /\ Write /\ CommitImport(f, a, f.start, f.end) /\ Kept
    /\ behind' = behind \cup {x \in {"count"} : View(x)' # View(x)}
    /\ UNCHANGED <<place, gate, page, box, known, missed>>

on_import_done == /\ place = "wizard" /\ box = NoBox /\ Quiet /\ build_workspace("statements", TRUE)
                  /\ known' = {} /\ UNCHANGED <<gate, box, missed>>

-----------------------------------------------------------------------------
(* Questions answered, and the lock.                                         *)
DoIt == \/ /\ box.kind = "delete account" /\ \E a \in box.ids : DeleteAccount(a)
           /\ marks' = [marks EXCEPT !.saved = @ \ box.ids]
        \/ /\ box.kind = "forget password" /\ marks' = [marks EXCEPT !.saved = @ \ box.ids]
           /\ UNCHANGED vars
        \/ /\ box.kind = "delete category" /\ \E c \in box.ids : DeleteCategory(c)
           /\ UNCHANGED <<accounts, periods, pairs>> /\ Kept
        \/ box.kind = "delete statements" /\ DeleteStatements(box.ids) /\ Kept

\* The box is answered in a page that is still there: do it, and refill.
AnswerYes ==
    /\ box # NoBox /\ ~box.old /\ Write /\ DoIt /\ box' = NoBox
    /\ IF box.kind = "delete statements"
       THEN Hit(box.says, Cardinality(DOMAIN txns) - Cardinality(DOMAIN txns'))
            /\ refresh_after_statement_change
       ELSE UNCHANGED missed /\ Refill
    /\ UNCHANGED <<place, gate>>

\* ... or in one that was taken down: the service refuses while locked, and
\* does it on the vault that was opened since; the new page is not told.
AnswerLate ==
    /\ box # NoBox /\ box.old /\ place # "locked" /\ Write /\ DoIt /\ box' = NoBox
    /\ UNCHANGED <<place, gate, page, missed>>
    /\ behind' = behind \cup {x \in {"page", "bell", "count"} : View(x)' # View(x)}
    /\ known' = known \cup (behind' \ behind)

\* No, a refusal, or the destruction of its page: the question goes.
BoxGoes == /\ box # NoBox /\ ~gate /\ box' = NoBox
           /\ UNCHANGED <<place, gate, page, behind, known, missed>> /\ Quiet

\* The page is nobody's any more; it may live on under its question.  What is
\* wiped of it, and that it stays silent, is the matter of LockWipe.
clear_live == /\ page' = NoPage /\ behind' = {} /\ known' = {}
              /\ box' \in IF box = NoBox \/ box.old THEN {box}
                          ELSE {NoBox, [box EXCEPT !.old = TRUE]}

Lock == /\ place # "locked" /\ place' = "locked" /\ gate' = TRUE /\ clear_live
        /\ UNCHANGED missed /\ Quiet

\* enter_unlocked: a new workspace at the tab last shown, and the count.
enter_unlocked(tab) == /\ place = "locked" /\ gate /\ gate' = FALSE /\ Quiet
                       /\ build_workspace(tab, TRUE) /\ known' = {} /\ UNCHANGED <<box, missed>>

CancelUnlock == /\ gate /\ gate' = FALSE
                /\ UNCHANGED <<place, page, box, behind, known, missed>> /\ Quiet
ShowUnlock == /\ place = "locked" /\ ~gate /\ box = NoBox /\ gate' = TRUE
              /\ UNCHANGED <<place, page, box, behind, known, missed>> /\ Quiet

-----------------------------------------------------------------------------
WInit ==
    /\ \E v \in Vaults :
          /\ txns = v.txns /\ categories = v.categories /\ rules = v.rules
          /\ accounts = v.accounts /\ periods = v.periods /\ pairs = v.pairs
          /\ marks = [saved |-> v.saved, decided |-> "suggested", dismissed |-> FALSE, prefs |-> FALSE]
          /\ edits = v.edits
    /\ library = TRUE /\ place = "locked" /\ gate = TRUE /\ page = NoPage /\ box = NoBox
    /\ behind = {} /\ known = {} /\ missed = FALSE

WNext ==
    \/ \E tab \in Tabs : OpenTab(tab) \/ ensure_workspace(tab) \/ enter_unlocked(tab)
    \/ \E list \in UNION {ListsOf(tab) : tab \in Tabs}, row \in 1..MaxCategoryId : Click(list, row)
    \/ Sort \/ ToggleReveal \/ on_reveal_timeout
    \/ \E n \in AccountNames : on_add(n) \/ \E a \in DOMAIN accounts : on_update(a, n)
    \/ \E a \in DOMAIN accounts : AskAboutAccount(a)
    \/ \E c \in DOMAIN categories, n \in CategoryNames : on_add_category(c, n)
    \/ \E c, p \in DOMAIN categories, touched \in BOOLEAN :
          \E n \in CategoryNames \cup {categories[c].name} : on_update_category(c, n, p, touched)
    \/ \E c \in DOMAIN categories : AskAboutCategory(c)
    \/ \E x \in Patterns, c \in DOMAIN categories :
          \/ AddRuleFromTab(x, c) \/ apply_learned_rule(x, c)
          \/ \E r \in DOMAIN rules : on_edit(r, x, c)
    \/ \E r \in DOMAIN rules : on_delete_rule(r) \/ \E q \in DOMAIN rules : on_move(r, q)
    \/ on_apply
    \/ \E t \in DOMAIN txns, c \in DOMAIN categories \cup {None} : apply_category(t, c)
    \/ on_delete \/ on_delete_all
    \/ \E p \in DOMAIN periods, a \in DOMAIN accounts : apply_reassign(p, a)
    \/ on_confirm \/ on_reject \/ on_confirm_all \/ \E x \in Confirmed : on_unlink(x)
    \/ \E d \in {"suggested", "confirmed", "dismissed"} : DecideStream(d)
    \/ on_alerts_changed
    \/ \E a \in DOMAIN accounts, d \in Entries : on_manual_committed(a, d)
    \/ \E on \in Switches : on_settings_saved(on)
    \/ open_import \/ on_import_done \/ \E f \in Files, a \in DOMAIN accounts : WizardCommits(f, a)
    \/ AnswerYes \/ AnswerLate \/ BoxGoes
    \/ Lock \/ CancelUnlock \/ ShowUnlock

WSpec == WInit /\ [][WNext]_wvars

-----------------------------------------------------------------------------
(* FIBR-0051 INV-7, FIBR-0052 INV-10: the tab at the front, the count in the *)
(* status bar and Home's alerts button say what the vault says, whatever was *)
(* written from another tab, a dialog or the wizard (save where `known`).    *)
ScreenFollowsVault ==
    place = "workspace" =>
        behind \cap ({"page", "count"} \cup (IF page.tab = "home" /\ txns # <<>> THEN {"bell"} ELSE {}))
            \subseteq known

(* FIBR-0117 INV-9, FIBR-0204, FIBR-0113 INV-22, FIBR-0149: a write hits the *)
(* rows the owner clicked on - re-sorted, refilled or re-selected since -    *)
(* with the form of that very row, leaves what was not touched, and takes    *)
(* as many transactions as the question said.                                *)
HitsWhatWasPicked == ~missed

(* FIBR-0154 INV-2: what the tree and its Move under box offer never makes a *)
(* category deeper than three levels, or a deeper one deeper still.          *)
TreeStaysShallow ==
    [][\A c \in DOMAIN categories' :
          \/ Depth(categories', c) <= Levels
          \/ c \in DOMAIN categories /\ Depth(categories', c) <= Depth(categories, c)]_wvars
=============================================================================
