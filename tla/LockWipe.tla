------------------------------- MODULE LockWipe -------------------------------
(***************************************************************************)
(* What a lock leaves in memory (ui/main_window.py `_clear_decrypted_rows`). *)
(* A screen that is taken down is only handed to deleteLater: while a box's   *)
(* event loop runs inside one of its handlers, or anywhere above it, the      *)
(* screen stays, with its timers and the handler that waits for the box.  So  *)
(* it is wiped as it is taken down: every widget under it is silenced, then   *)
(* every one of a kind the loop names is emptied, then each `clear_rows`      *)
(* drops the Python lists kept beside the tables.                             *)
(*                                                                            *)
(* A place, <<owner, what>>, is where a screen may keep something decrypted:  *)
(* the widgets of one class of a tab (named by their Qt class, or             *)
(* "placeholder" for the hint of an empty field), or an attribute.  The wipe  *)
(* is synchronous; it has steps of its own because emptying a widget that is  *)
(* not silenced runs its slot.  Modal dialogs (they go with the lock, see     *)
(* Shell), the captions of buttons and the year of a spin box are left out.   *)
(***************************************************************************)
EXTENDS Naturals, Sequences, FiniteSets

CONSTANTS
    MaxScreens,    \* bound: screens alive at one time
    MaxLoops       \* bound: event loops nested in one another

VARIABLES
    vault,     \* the vault is open
    live,      \* the screen in the window, or Nobody
    screens,   \* alive screens, by number: [kind, holds: places with something in
               \* them, silent: widgets with their signals blocked, reveal: whether
               \* the Accounts tab's thirty-second timer runs]
    loops,     \* the nested event loops, innermost last: the screen one of whose
               \* handlers waits for it, or Nobody for a box of the window's own
    wipe,      \* the wipe under way, or NoWipe: [of, stage, left, next]; left are
               \* the widgets still to empty, next what will fill the window
    touched,   \* a slot of a widget being wiped went to the vault
    strayed    \* the window obeyed a screen that it had taken down

mvars == <<vault, live, screens, loops, wipe, touched, strayed>>

Nobody == 0

-----------------------------------------------------------------------------
(* What a screen is made of.                                                 *)
Owners(kind) == IF kind = "workspace"
                THEN <<"home", "transactions", "statements", "accounts", "categories",
                       "rules", "transfers", "recurring", "forecast">>
                ELSE <<"wizard", "review">>

\* The widgets that show something read from the vault or from the file.
Shows(owner) ==
    CASE owner = "home" -> {"QLabel", "QTreeWidget", "QComboBox", "QChartView"}
      [] owner = "transactions" -> {"QTableView", "QComboBox", "QLineEdit", "QDateEdit"}
      [] owner = "accounts" -> {"QTableWidget", "QLineEdit"}
      [] owner = "categories" -> {"QTreeWidget", "QComboBox", "QLineEdit", "placeholder"}
      [] owner = "forecast" -> {"QLabel", "QComboBox", "QChartView", "QTableWidget"}
      [] owner = "wizard" -> {"QLabel", "QComboBox", "QTableWidget", "QDateEdit"}
      [] OTHER -> {"QTableWidget"}

\* The attributes that keep decrypted values beside them.
Attributes(owner) ==
    CASE owner = "transactions" -> {"_master", "_rows", "_transfer_labels"}
      [] owner = "accounts" -> {"_rows", "_with_pw"}
      [] owner \in {"statements", "rules"} -> {"_rows"}
      [] owner = "transfers" -> {"_candidates", "_confirmed"}
      [] owner = "recurring" -> {"_suggested_items", "_confirmed_items"}
      [] owner = "review" -> {"_files", "_account_names"}
      [] owner = "wizard" -> {"_text", "_date_sample_text", "_date_sample_cache", "_header",
                              "_ofx_statements", "_pdf_candidates", "_preview", "_pending_hint",
                              "_batch_files", "_batch", "_batch_asking", "_remember_pw"}
      [] OTHER -> {}

OwnersOf(kind) == {Owners(kind)[i] : i \in DOMAIN Owners(kind)}
Places(kind) == UNION {{o} \X (Shows(o) \cup Attributes(o)) : o \in OwnersOf(kind)}

\* findChildren and the widget itself; each owner's own signals are QWidget's.
Widgets(kind) == {<<kind, "QWidget">>} \cup ({"accounts"} \cap OwnersOf(kind)) \X {"QCheckBox"}
                 \cup UNION {{o} \X (Shows(o) \cup {"QWidget"}) : o \in OwnersOf(kind)}

-----------------------------------------------------------------------------
(* The three loops of _clear_decrypted_rows.                                 *)
OnlyTheEmptied(kind) == {w \in Widgets(kind) : w[2] \notin {"QWidget", "QCheckBox"}}
silenced(kind) == Widgets(kind)

Emptied == {"QTableWidget", "QTreeWidget", "QComboBox", "QLabel", "QLineEdit", "QChartView"}

\* What each clear_rows drops; Home, Categories and Forecast have none.
RowsModelDates == Attributes("transactions") \cup {"QTableView", "QDateEdit"}
FilesAndPasswords == {"_text", "_date_sample_text", "_ofx_statements", "_pdf_candidates",
                      "_batch_files", "_batch", "_remember_pw"}

clear_rows(owner) ==
    CASE owner = "transactions" -> RowsModelDates
      [] owner = "wizard" -> FilesAndPasswords
      [] owner \in {"statements", "accounts", "rules", "transfers", "recurring", "review"} ->
             Attributes(owner)
      [] OTHER -> {}

\* The slots that run when a widget is emptied and its signals are not blocked:
\* these read the vault (Home's writes its report period too), and show again ...
VaultSlots == {<<"home", "QComboBox">>, <<"transactions", "QComboBox">>,
               <<"transactions", "QLineEdit">>, <<"forecast", "QComboBox">>}
ReadAgain(w) ==
    CASE w[1] = "home" -> {"QLabel", "QTreeWidget", "QChartView"}
      [] w[1] = "transactions" -> {"QTableView", "_rows"}
      [] w[1] = "forecast" -> {"QLabel", "QTableWidget", "QChartView"}
\* ... and the date pickers of the mapping step re-read the file's text.
DatesReadAs(holds) == IF <<"wizard", "_text">> \in holds THEN {<<"wizard", "QLabel">>} ELSE {}

Reaction(w, holds) == IF w \in VaultSlots THEN (IF vault THEN {w[1]} \X ReadAgain(w) ELSE {})
                      ELSE IF w = <<"wizard", "QComboBox">> THEN DatesReadAs(holds) ELSE {}

-----------------------------------------------------------------------------
NoWipe == [of |-> Nobody, stage |-> "none", left |-> {}, next |-> "none"]
Idle == wipe = NoWipe

\* Back at the outermost loop deleteLater takes effect on what was taken down.
Alive(some) == [s \in {s \in some : s = live \/ loops' # <<>>} |-> screens[s]]

\* What is only there once the owner has picked a row or typed.
Picked == {<<"transactions", "QLineEdit">>, <<"accounts", "QLineEdit">>,
           <<"categories", "QComboBox">>, <<"categories", "QLineEdit">>,
           <<"categories", "placeholder">>}

Built(kind) == [kind |-> kind, silent |-> {}, reveal |-> FALSE,
                holds |-> IF kind = "workspace" THEN Places(kind) \ Picked
                          ELSE {<<"wizard", "QComboBox">>}]

Room == Cardinality(DOMAIN screens) < MaxScreens
Install(kept, kind) ==
    LET n == CHOOSE n \in 1..MaxScreens : n \notin DOMAIN kept
    IN /\ live' = n
       /\ screens' = [s \in DOMAIN kept \cup {n} |-> IF s = n THEN Built(kind) ELSE kept[s]]

StartWipe(next) ==
    wipe' = [of |-> live, stage |-> "signals", next |-> next,
             left |-> {w \in Widgets(screens[live].kind) : w[2] \in Emptied}]

Holding(places) ==
    /\ screens' = [screens EXCEPT ![live].holds = @ \cup places]
    /\ UNCHANGED <<vault, live, loops, wipe, touched, strayed>>

-----------------------------------------------------------------------------
(* The owner.                                                                *)
enter_unlocked == /\ Idle /\ ~vault /\ Room /\ vault' = TRUE /\ Install(screens, "workspace")
                  /\ UNCHANGED <<loops, wipe, touched, strayed>>

Pick == Idle /\ loops = <<>> /\ live # Nobody /\ screens[live].kind = "workspace" /\ Holding(Picked)

ToggleReveal == /\ Idle /\ loops = <<>> /\ live # Nobody /\ screens[live].kind = "workspace"
                /\ screens' = [screens EXCEPT ![live].reveal = ~@]
                /\ UNCHANGED <<vault, live, loops, wipe, touched, strayed>>

\* The import wizard takes the place of the workspace, and gives it back.
open_import == /\ Idle /\ loops = <<>> /\ live # Nobody /\ screens[live].kind = "workspace"
               /\ StartWipe("wizard") /\ UNCHANGED <<vault, live, screens, loops, touched, strayed>>
on_import_done == /\ Idle /\ loops = <<>> /\ live # Nobody /\ screens[live].kind = "wizard"
                  /\ StartWipe("workspace") /\ UNCHANGED <<vault, live, screens, loops, touched, strayed>>

\* One file at the mapping or the preview step, a batch, and one of its files
\* at the mapping step.
Read(step) ==
    CASE step = "mapping" -> {<<"wizard", x>> : x \in {"_text", "_header", "_date_sample_text",
                 "_date_sample_cache", "_pdf_candidates", "_remember_pw", "QLabel"}}
      [] step = "preview" -> {<<"wizard", x>> : x \in {"_ofx_statements", "_preview",
                 "_pending_hint", "_remember_pw", "QTableWidget", "QDateEdit", "QLabel"}}
      [] step = "batch" -> {<<"wizard", "_batch_files">>, <<"wizard", "_batch">>}
                              \cup {p \in Places("wizard") : p[1] = "review"}
      [] step = "asking" -> {<<"wizard", x>> : x \in {"_batch_asking", "_text", "_header",
                 "_date_sample_text", "_date_sample_cache", "QLabel"}}

ReadFiles(step) ==
    /\ Idle /\ loops = <<>> /\ live # Nobody /\ screens[live].kind = "wizard"
    /\ step = "asking" => <<"wizard", "_batch_files">> \in screens[live].holds
    /\ Holding(Read(step))

-----------------------------------------------------------------------------
(* The lock, and the wipe.                                                   *)
\* The vault is closed before the screen is taken down.
lock == /\ Idle /\ vault /\ vault' = FALSE /\ StartWipe("locked")
        /\ UNCHANGED <<live, screens, loops, touched, strayed>>

BlockSignals ==
    /\ wipe.stage = "signals" /\ wipe' = [wipe EXCEPT !.stage = "emptying"]
    /\ screens' = [screens EXCEPT ![wipe.of].silent = silenced(screens[wipe.of].kind)]
    /\ UNCHANGED <<vault, live, loops, touched, strayed>>

\* The children come depth first: one tab after the other.
Turn(w) == LET order == Owners(screens[wipe.of].kind)
           IN \E i \in DOMAIN order :
                 /\ w[1] = order[i]
                 /\ \A j \in 1..(i - 1), v \in wipe.left : v[1] # order[j]

Empty(w) ==
    LET speaks == w \notin screens[wipe.of].silent
    IN /\ wipe.stage = "emptying" /\ w \in wipe.left /\ Turn(w)
       /\ wipe' = [wipe EXCEPT !.left = @ \ {w}]
       /\ screens' = [screens EXCEPT ![wipe.of].holds =
              (@ \ {w}) \cup (IF speaks THEN Reaction(w, @) ELSE {})]
       /\ touched' = (touched \/ (speaks /\ w \in VaultSlots))
       /\ UNCHANGED <<vault, live, loops, strayed>>

\* The lists; then the screen goes, at once unless some box's loop still runs.
ClearRows ==
    /\ wipe.stage = "emptying" /\ wipe.left = {} /\ wipe' = NoWipe
    /\ LET s == wipe.of
           dropped == UNION {{o} \X clear_rows(o) : o \in OwnersOf(screens[s].kind)}
           wiped == [screens EXCEPT ![s].holds = @ \ dropped]
           kept == [x \in (IF loops = <<>> THEN {} ELSE DOMAIN screens) |-> wiped[x]]
       IN IF wipe.next = "locked" THEN live' = Nobody /\ screens' = kept
          ELSE Install(kept, wipe.next)
    /\ UNCHANGED <<vault, loops, touched, strayed>>

-----------------------------------------------------------------------------
(* Boxes, and what is still to come to a screen that was taken down.         *)
\* A question of a tab, or the wizard's warning about a closing balance: the
\* box is modal, so the page is used no more before it is answered.
Ask == /\ Idle /\ loops = <<>> /\ live # Nobody /\ loops' = <<live>>
       /\ screens[live].kind = "wizard" => <<"wizard", "_preview">> \in screens[live].holds
       /\ UNCHANGED <<vault, live, screens, wipe, touched, strayed>>

\* About, a file dialog, the message of a worker that ended.
WindowBox == /\ Idle /\ Len(loops) < MaxLoops /\ loops' = Append(loops, Nobody)
             /\ UNCHANGED <<vault, live, screens, wipe, touched, strayed>>

Innermost == loops[Len(loops)]
Pop == loops' = SubSeq(loops, 1, Len(loops) - 1)

\* No, a refusal, or a box nothing waits for.
BoxCloses == /\ Idle /\ loops # <<>> /\ Pop /\ UNCHANGED <<vault, live, wipe, touched, strayed>>
             /\ screens' = Alive(DOMAIN screens)

\* Yes: the tab does it unless the vault is closed, refills its lists - the
\* page is gone before the next event - and reports `changed`; the wizard has
\* committed, and reports `done`.
HandlerResumes ==
    /\ Idle /\ loops # <<>> /\ Innermost \in DOMAIN screens /\ Pop
    /\ LET page == screens[Innermost]
           source == IF page.kind = "wizard" THEN <<"wizard", "QWidget">> ELSE <<"statements", "QWidget">>
           heard == source \notin page.silent /\ (page.kind = "wizard" \/ vault)
       IN /\ strayed' = (strayed \/ (heard /\ Innermost # live))
          /\ IF heard /\ page.kind = "wizard" /\ live # Nobody THEN StartWipe("workspace")
             ELSE UNCHANGED wipe
    /\ screens' = Alive(DOMAIN screens)
    /\ UNCHANGED <<vault, live, touched>>

\* A screen may also go while a box still runs, and its own box with it.
Destroy(s) ==
    /\ Idle /\ s \in DOMAIN screens \ {live}
    /\ loops' = SelectSeq(loops, LAMBDA x : x # s)
    /\ screens' = Alive(DOMAIN screens \ {s})
    /\ UNCHANGED <<vault, live, wipe, touched, strayed>>

\* The timer unchecks the box; what it shows is read again if that is heard.
on_reveal_timeout(s) ==
    /\ Idle /\ s \in DOMAIN screens /\ screens[s].reveal
    /\ LET heard == <<"accounts", "QCheckBox">> \notin screens[s].silent
       IN screens' = [screens EXCEPT ![s].reveal = FALSE,
              ![s].holds = IF heard /\ vault
                           THEN @ \cup ({"accounts"} \X {"QTableWidget", "_rows", "_with_pw"}) ELSE @]
    /\ UNCHANGED <<vault, live, loops, wipe, touched, strayed>>

-----------------------------------------------------------------------------
Init == /\ vault = FALSE /\ live = Nobody /\ screens = <<>> /\ loops = <<>> /\ wipe = NoWipe
        /\ touched = FALSE /\ strayed = FALSE

Next == \/ enter_unlocked \/ Pick \/ ToggleReveal \/ open_import \/ on_import_done
        \/ \E step \in {"mapping", "preview", "batch", "asking"} : ReadFiles(step)
        \/ lock \/ BlockSignals \/ (\E w \in wipe.left : Empty(w)) \/ ClearRows
        \/ Ask \/ WindowBox \/ BoxCloses \/ HandlerResumes
        \/ \E s \in DOMAIN screens : Destroy(s) \/ on_reveal_timeout(s)

Spec == Init /\ [][Next]_mvars

-----------------------------------------------------------------------------
\* What no part of the wipe reaches.
Unreached == ({"wizard"} \X {"_header", "_date_sample_cache", "_preview", "_pending_hint",
                             "_batch_asking", "QDateEdit"})
             \cup {<<"categories", "placeholder">>}

(* FIBR-0216, FIBR-0322: while the vault is locked no screen that a box keeps *)
(* alive holds a decrypted value, though the vault is opened and locked again *)
(* meanwhile, the screen's reveal timer fires and other screens come and go - *)
(* save in the places no part of the wipe reaches (see ParsedFileForgotten    *)
(* and WorkspaceForgotten).                                                   *)
RowsGoneWhileLocked ==
    ~vault /\ Idle => \A s \in DOMAIN screens : screens[s].holds \subseteq Unreached

(* FIBR-0367: nothing reacts to the emptying: no slot of a widget that is     *)
(* being wiped reads a vault that is closed, nor writes the report period of  *)
(* an emptied picker into one that is open.                                   *)
WipeTouchesNoVault == ~touched

(* FIBR-0216: a handler of a screen that was taken down, when its box is      *)
(* answered at last, does not make the window act on it: a `done` of the old  *)
(* wizard would take down the screen that was opened since.                   *)
WipedScreensAreMute == ~strayed

(* What the wipe is for: a screen that was taken down holds nothing, does     *)
(* nothing to the vault and says nothing, for as long as a box keeps it alive. *)
WipedForGood == RowsGoneWhileLocked /\ WipeTouchesNoVault /\ WipedScreensAreMute

(* What import_wizard.py says of its clear_rows (l.1587) and                  *)
(* test_lock_wipe.py of the wipe (l.1): nothing of the file that was being    *)
(* imported is left behind a lock.                                            *)
ParsedFileForgotten ==
    ~vault /\ Idle => \A s \in DOMAIN screens : screens[s].kind = "wizard" => screens[s].holds = {}

(* What main_window.py says of the wipe (l.279-281) and test_lock_wipe.py     *)
(* (l.1): no value of the vault is left in a tab behind a lock.               *)
WorkspaceForgotten ==
    ~vault /\ Idle => \A s \in DOMAIN screens : screens[s].kind = "workspace" => screens[s].holds = {}
=============================================================================
