------------------------------ MODULE ImportWizard ------------------------------
(***************************************************************************)
(* The import wizard (ui/import_wizard.py): one file through unlock, map    *)
(* and preview to its account, or several as a batch (BatchImport).  The    *)
(* two share the vault, the map page and its form, and a cancelled batch    *)
(* comes back to the pick step of the same wizard.                          *)
(***************************************************************************)
EXTENDS BatchImport

VARIABLE one   \* the single file on screen, or None: [path, stmt, step, pick,
               \* combo, preview, mapping, hint, keep, chosen]; pick and combo are
               \* the two account boxes, keep is _remember_pw, hint says whether
               \* Create is offered, and the ghost chosen is the account the owner
               \* picked for this very statement

vars == <<vault, batch, form, picks, one>>

Single == [path : DOMAIN Library, stmt : Nat, step : {"prompt", "map", "preview"},
           pick : AccountIds, combo : AccountIds, preview : Previews \cup {None},
           mapping : {"plain", "reversed", None}, hint : BOOLEAN,
           keep : Passwords \cup {None}, chosen : AccountIds \cup {None}]

(* Every table, record and slot is of its type, and a question or a picker   *)
(* on screen is about a record the batch has: a cancel while one is open     *)
(* must not take its record away.                                            *)
TypeOK ==
    /\ DOMAIN accounts \subseteq AccountIds /\ books \in [AccountIds -> [Keys -> Nat]]
    /\ stored \in [AccountIds -> Words]
    /\ \A l \in DOMAIN profiles : profiles[l] \in {"plain", "reversed"}
    /\ files \in Seq(Record) /\ index \in Nat \ {0}
    /\ phase \in {"idle", "scan", "ask", "review", "run", "report"}
    /\ armed \in [{"scan", "ask", "run"} -> Nat]
    /\ asking \in DOMAIN files \cup {None} /\ picking \in DOMAIN files \cup {None}
    /\ typed \subseteq Passwords /\ form \in {"plain", "reversed"} /\ picks \in Nat
    /\ one \in Single \cup {None}

-----------------------------------------------------------------------------
OneStmt(o) == Library[o.path].stmts[o.stmt]

Previewed(o) == [o EXCEPT !.preview = Preview(o, o.combo), !.step = "preview"]

\* _apply_account_match, which comes before the preview.
ApplyAccountMatch(o) ==
    LET hint == OneStmt(o).hint
        a == MatchAccount(hint)
    IN [o EXCEPT !.combo = IF a = None THEN o.pick ELSE a, !.chosen = None,
                 !.hint = hint # None /\ \A b \in DOMAIN accounts : accounts[b] # hint]

ShowStatement(o, i) == Previewed(ApplyAccountMatch([o EXCEPT !.stmt = i]))

\* A CSV, or a PDF's table: a saved layout goes straight to the preview.
ShowTable(o) ==
    LET layout == Library[o.path].layout
    IN IF layout \in DOMAIN profiles
       THEN /\ one' = Previewed([o EXCEPT !.mapping = profiles[layout]])
            /\ form' = profiles[layout]
       ELSE one' = [o EXCEPT !.step = "map"] /\ form' = ResetForm

\* _continue_after_decrypt
ShowPlaintext(o) ==
    IF Library[o.path].bank THEN one' = ShowStatement(o, 1) /\ UNCHANGED form ELSE ShowTable(o)

\* _select_file with `a` in the pick step's box.  One that cannot be read
\* changes nothing.
SelectFile(path, a) ==
    LET file == Library[path]
        o == [path |-> path, stmt |-> 1, step |-> "prompt", pick |-> a, combo |-> a,
              preview |-> None, mapping |-> None, hint |-> FALSE, keep |-> None, chosen |-> None]
    IN /\ one = None /\ phase = "idle" /\ armed = Idle /\ picks < MaxPicks /\ picks' = picks + 1
       /\ a \in DOMAIN accounts /\ file.ok
       /\ CASE file.kind = "ofx" -> one' = ShowStatement(o, 1) /\ UNCHANGED form
            [] file.kind = "csv" -> ShowTable(o)
            [] file.kind = "pdf" -> IF file.lock \in {None} \cup StoredPasswords
                                    THEN ShowPlaintext(o) ELSE one' = o /\ UNCHANGED form
       /\ UNCHANGED <<vault, batch>>

\* _on_pdf_password: a wrong one asks again; a right one is held, not written.
OnPdfPassword(p, remember) ==
    /\ one # None /\ one.step = "prompt" /\ p = Library[one.path].lock
    /\ ShowPlaintext([one EXCEPT !.keep = IF remember THEN p ELSE None])
    /\ UNCHANGED <<vault, batch, picks>>

CancelPrompt == /\ one # None /\ one.step = "prompt" /\ one' = None
                /\ UNCHANGED <<vault, batch, form, picks>>

\* _on_map_next; a mapping that does not fit is refused on the page.
OnOneMapNext(named) ==
    LET layout == Library[one.path].layout
        m == Ticked(layout)
    IN /\ one # None /\ one.step = "map"
       /\ one' = Previewed([one EXCEPT !.mapping = m]) /\ form' = m
       /\ profiles' = IF named THEN [l \in DOMAIN profiles \cup {layout} |->
                                        IF l = layout THEN m ELSE profiles[l]] ELSE profiles
       /\ UNCHANGED <<accounts, books, spans, stored, batch, picks>>

OnPreviewBack == /\ one # None /\ one.step = "preview" /\ one.mapping # None
                 /\ one' = [one EXCEPT !.step = "map"]
                 /\ UNCHANGED <<vault, batch, form, picks>>

OnOfxStatementChanged(i) ==
    /\ one # None /\ one.step = "preview" /\ Library[one.path].kind = "ofx"
    /\ i \in DOMAIN Library[one.path].stmts \ {one.stmt}
    /\ one' = ShowStatement(one, i)
    /\ UNCHANGED <<vault, batch, form, picks>>

\* _on_confirm_account_changed
Retargeted(o, a) == Previewed([o EXCEPT !.combo = a, !.hint = FALSE, !.chosen = a])

OnConfirmAccountChanged(a) ==
    /\ one # None /\ one.step = "preview" /\ a \in DOMAIN accounts \ {one.combo}
    /\ one' = Retargeted(one, a)
    /\ UNCHANGED <<vault, batch, form, picks>>

CreateAccountFrom(a, number) ==
    /\ one # None /\ one.step = "preview" /\ one.hint
    /\ a \in AccountIds \ DOMAIN accounts /\ number \in {OneStmt(one).hint, None}
    /\ accounts' = [b \in DOMAIN accounts \cup {a} |-> IF b = a THEN number ELSE accounts[b]]
    /\ one' = Retargeted(one, a)
    /\ UNCHANGED <<books, spans, stored, profiles, batch, form, picks>>

\* _on_import.  A span that is out of order is refused, and the page stays.
SaveRememberedPw == IF one.keep = None THEN stored
                    ELSE [stored EXCEPT ![one.preview.account] = one.keep]

OnImport ==
    LET a == one.preview.account  now == Preview(one, a) IN
    /\ one # None /\ one.step = "preview" /\ OneStmt(one).span # None /\ OneStmt(one).sound
    /\ books' = [books EXCEPT ![a] = [k \in Keys |-> @[k] + now.fresh[k]]]
    /\ spans' = spans \cup {<<a, OneStmt(one).span>>}
    /\ stored' = SaveRememberedPw
    /\ one' = None /\ form' = "plain"
    /\ UNCHANGED <<accounts, profiles, batch, picks>>

\* `done` without an import, and an auto-lock: a new wizard next time.
LeaveWizard == /\ one # None /\ one' = None /\ form' = "plain"
               /\ UNCHANGED <<vault, batch, picks>>

-----------------------------------------------------------------------------
Init == BatchInit /\ one = None

OneNext ==
    \/ \E path \in DOMAIN Library, a \in AccountIds : SelectFile(path, a)
    \/ \E p \in Passwords, remember \in BOOLEAN : OnPdfPassword(p, remember)
    \/ CancelPrompt \/ OnPreviewBack \/ OnImport \/ LeaveWizard
    \/ \E named \in BOOLEAN : OnOneMapNext(named)
    \/ \E path \in DOMAIN Library : \E i \in DOMAIN Library[path].stmts : OnOfxStatementChanged(i)
    \/ \E a \in AccountIds : OnConfirmAccountChanged(a)
    \/ \E a \in AccountIds, n \in Numbers \cup {None} : CreateAccountFrom(a, n)

Next == OneNext \/ (BatchNext /\ one = None /\ UNCHANGED one)

Alone == one = None /\ UNCHANGED one

\* The event loop delivers queued turns, and the owner answers what is asked.
Fairness == WF_vars(ChainTurn /\ Alone) /\ WF_vars(OwnerAnswers /\ Alone)
Spec == Init /\ [][Next]_vars /\ Fairness

-----------------------------------------------------------------------------
\* What ApprovedImport calls the approved list: the files a run has still to commit.
Approved ==
    LET left == {i \in DOMAIN files : i >= index /\ files[i].outcome = "ready"}
        nth(n) == CHOOSE i \in left : Cardinality({j \in left : j < i}) = n - 1
    IN IF phase # "run" THEN <<>>
       ELSE [n \in 1..Cardinality(left) |-> [account |-> files[nth(n)].account,
                rows |-> Stmt(files[nth(n)]).rows, promised |-> files[nth(n)].new]]
Promise == INSTANCE ApprovedImport WITH
    Statements <- UNION {{Library[p].stmts[i].rows : i \in DOMAIN Library[p].stmts} : p \in DOMAIN Library},
    approved <- Approved,
    exact <- \A j \in DOMAIN files : j < index /\ files[j].outcome = "failed" => files[j].preview = None

(* FIBR-0085 INV-1, INV-2, INV-4: each approved file lands whole, in its     *)
(* order, adding the rows the review screen showed - whatever accounts were  *)
(* changed, created or shared on the way there, and through refused files,   *)
(* cancelled runs, database errors and locks.                                *)
KeepsItsPromise == Promise!Spec

Landed(r) == \A k \in Keys : Stmt(r).rows[k] <= books[r.account][k]

(* FIBR-0085 section 4.8: in the report every file is accounted for; what it *)
(* calls imported is in the account shown, and so is what it calls already   *)
(* imported, unless a file the review counted on never landed.               *)
ReportIsTrue == phase = "report" => \A i \in DOMAIN files :
    /\ files[i].outcome \in Terminal \cup {"already_imported"}
    /\ files[i].outcome = "committed" => Landed(files[i])
    /\ files[i].outcome = "already_imported" =>
          \/ Landed(files[i])
          \/ \E j \in 1..(i - 1) : files[j].account = files[i].account
                                   /\ files[j].outcome \in {"failed", "not_attempted"}

(* FIBR-0085 section 4.4, FIBR-0407: the owner is not asked for a password   *)
(* the vault or an earlier answer holds, nor, until the batch holds all the  *)
(* rows it may, for a layout that is saved.                                  *)
NeverAsksTwice ==
    asking # None =>
        /\ files[asking].outcome = "needs_password" =>
              Content(files[asking]).lock \notin PasswordLadder(typed)
        /\ files[asking].outcome = "needs_mapping" /\ ~Full(files) =>
              Content(files[asking]).layout \notin DOMAIN profiles

(* FIBR-0085 INV-16, FIBR-0465: a password kept for an account opens a file  *)
(* whose statement is in that account; nothing is kept for a file that was   *)
(* cancelled, refused, sent elsewhere or locked away.                        *)
RememberedOpens ==
    \A a \in DOMAIN accounts :
        \/ stored[a] = None \/ \E past \in Past : stored[a] = past.stored[a]
        \/ \E path \in DOMAIN Library : \E i \in DOMAIN Library[path].stmts :
              /\ Library[path].lock = stored[a]
              /\ <<a, Library[path].stmts[i].span>> \in spans

(* FIBR-0085 INV-5, FIBR-0086 INV-7a: the account shown is the one the rows  *)
(* go to, and it is the owner's choice for this statement, or else the one   *)
(* whose number the statement bears, or else the pick step's - never one     *)
(* left over from another statement of the file.                             *)
FilesItself ==
    /\ \A i \in DOMAIN files : files[i].preview # None =>
          files[i].preview.account = files[i].account
    /\ one # None /\ one.preview # None =>
          /\ one.preview.account = one.combo
          /\ one.combo = IF one.chosen # None THEN one.chosen
                         ELSE IF one.mapping = None /\ MatchAccount(OneStmt(one).hint) # None
                              THEN MatchAccount(OneStmt(one).hint)
                         ELSE one.pick

(* FIBR-0085, audit row 15: a tick left on the map page by one file never    *)
(* turns the amounts of another around, and is never saved for one.          *)
NoSignFlip ==
    /\ \A i \in DOMAIN files : files[i].parsed /\ files[i].mapping # None =>
          files[i].mapping = Needed(Content(files[i]).layout)
    /\ one # None /\ one.mapping # None => one.mapping = Needed(Library[one.path].layout)
    /\ \A l \in DOMAIN profiles : profiles[l] = Needed(l)

(* An answer given for one file - a password, an account, a layout - is used *)
(* and kept for what it was given for and for nothing else.                  *)
AnswersStayPut == RememberedOpens /\ FilesItself /\ NoSignFlip

(* FIBR-0085 section 4.7: if the owner answers what is asked, the scan and   *)
(* its questions end, and so does a run.                                     *)
BatchSettles == /\ phase \in {"scan", "ask"} ~> phase \notin {"scan", "ask"}
                /\ phase = "run" ~> phase # "run"
=============================================================================
