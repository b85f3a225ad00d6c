------------------------------ MODULE MCWorkspace ------------------------------
(* A vault lived in: two accounts whose names sort against their ids, two     *)
(* overlapping statements, two suggestions that share a row or a transfer     *)
(* confirmed and a row filed by hand, two rules, a category four levels deep; *)
(* and a new vault.  Beside the tabs, what a lock leaves of the screens: the   *)
(* two share no state, so a behaviour is about one of them, and the other      *)
(* stays as it was at the start.                                               *)
EXTENDS Workspace, TLC

Spelling == [coffee |-> "coffee", move |-> "move"]
Draft(day, amount, desc) == [day |-> day, amount |-> amount, desc |-> desc]
Till == {[drafts |-> <<Draft(2, -5, "coffee")>>, start |-> 2, end |-> 3, closing |-> 0]}
Typed == {Draft(3, 5, "move")}
Found == {<<"cof", "coffee">>}
NoLibrary == <<>>
NoSpans == {}

Category(parent, name) == [parent |-> parent, name |-> name]
TwoTypes == <<Category(0, "Income"), Category(0, "Expenditure")>>
Defaults == TwoTypes \o <<Category(2, "Food"), Category(2, "Home"), Category(2, "Out"),
                           Category(2, "Coffee")>>
Deep == TwoTypes \o <<Category(2, "Food"), Category(3, "Out"), Category(4, "Coffee"),
                       Category(2, "Home")>>

Posted(account, day, amount, desc, period) ==
    [account |-> account, day |-> day, amount |-> amount, desc |-> desc, period |-> period,
     category |-> 0, source |-> "none"]
Period(account, start, end) ==
    [account |-> account, start |-> start, end |-> end, closing |-> 0, holds |-> {}]

LivedIn ==
    [accounts   |-> <<2, 1>>,
     periods    |-> <<Period(1, 1, 2), Period(1, 2, 3)>>,
     txns       |-> <<Posted(1, 1, -5, "coffee", 1), Posted(1, 2, -5, "move", 2),
                      Posted(2, 2, 5, "move", 0)>>,
     categories |-> Deep,
     rules      |-> <<[pattern |-> "cof", category |-> 5, priority |-> 0],
                      [pattern |-> "cof", category |-> 3, priority |-> -1]>>,
     pairs      |-> <<>>, saved |-> {1}, edits |-> 1]
Linked == [LivedIn EXCEPT !.pairs = [x \in {<<2, 3>>} |-> "confirmed"],
                          !.txns[2].category = 5, !.txns[2].source = "manual"]
New == [accounts |-> <<1>>, periods |-> <<>>, txns |-> <<>>, categories |-> TwoTypes,
        rules |-> <<>>, pairs |-> <<>>, saved |-> {}, edits |-> 0]
MCVaults == {LivedIn, Linked, New}

CONSTANTS MaxScreens, MaxLoops
VARIABLES about, vault, live, screens, loops, wipe, touched, strayed

Wiped == INSTANCE LockWipe
lockVars == <<vault, live, screens, loops, wipe, touched, strayed>>

AboutTabs == about = "tabs" /\ WInit /\ Wiped!Init
AboutLock == about = "lock" /\ WInit /\ Wiped!Init /\ accounts = New.accounts
WindowNext == /\ UNCHANGED about
              /\ \/ about = "tabs" /\ WNext /\ UNCHANGED lockVars
                 \/ about = "lock" /\ Wiped!Next /\ UNCHANGED wvars
WindowSpec == (AboutTabs \/ AboutLock) /\ [][WindowNext]_<<about, wvars, lockVars>>

(* _clear_decrypted_rows: a screen that was taken down holds nothing it       *)
(* reaches, does nothing to the vault and says nothing to the window, for as   *)
(* long as a box keeps it alive.                                               *)
WipedForGood == Wiped!WipedForGood
=============================================================================
