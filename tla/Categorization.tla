----------------------------- MODULE Categorization -----------------------------
(***************************************************************************)
(* Categories, rules and the filing of transactions: services/categories.py *)
(* and services/categorization.py over their tables.  A description is what *)
(* its folded text is (Fold); Hits says which patterns occur in which folded*)
(* texts.  Ids are SQLite's: one more than the largest in the table, so the *)
(* id of a deleted row comes back.                                          *)
(*                                                                          *)
(* The module is the part of Ledger that files transactions; the other      *)
(* tables, and the rows themselves, are Ledger's.                           *)
(***************************************************************************)
EXTENDS Integers, FiniteSets, Sequences, FiniteSetsExt, Functions

CONSTANTS
    Fold,           \* normalise_text: each description's folded text
    Patterns,       \* what a rule may look for
    Hits,           \* <<pattern, folded text>>: the one occurs in the other
    CategoryNames,
    Seed,           \* the category table a vault starts with
    Library,        \* the built-in library: a sequence of [pattern, name]
    Switches,       \* what the owner sets the library switch to
    MaxCategoryId,  \* bounds: ids of categories,
    MaxRuleId,      \* ids of rules,
    MaxDepth,       \* how far below 0 a rule's priority goes,
    MaxManual       \* rows the owner files by hand

VARIABLES
    txns,        \* transactions by id
    categories,  \* [parent, name] by id; the two Type roots have no parent
    rules,       \* [pattern, category, priority] by id
    library      \* the library switch

catVars == <<categories, rules, library>>

None == 0
Roots == {r \in DOMAIN Seed : Seed[r].parent = None}   \* Income, Expenditure

\* migrations.py: the Types, and the default categories each under one of them.
ASSUME SeedIsATree ==
    /\ Seed \in Seq([parent : Nat, name : {Seed[c].name : c \in DOMAIN Seed}])
    /\ \A c \in DOMAIN Seed : Seed[c].parent \in Roots \cup {None}
ASSUME SwitchesAreOnOrOff == Switches \subseteq BOOLEAN

NewId(table) == IF DOMAIN table = {} THEN 1 ELSE Max(DOMAIN table) + 1
Put(table, id, row) == [i \in DOMAIN table \cup {id} |-> IF i = id THEN row ELSE table[i]]
Without(table, ids) == Restrict(table, DOMAIN table \ ids)

-----------------------------------------------------------------------------
(* The category tree.                                                        *)
Leaf(cats, c) == c \in DOMAIN cats /\ cats[c].parent # None

\* c and everything above it; total even on a tree with a cycle.
Above(cats, c) ==
    LET up[n \in Nat] ==
            IF n = 0 THEN {c}
            ELSE LET seen == up[n - 1]
                 IN seen \cup ({cats[d].parent : d \in seen} \ {None})
    IN up[Cardinality(DOMAIN cats)]

\* The category a library entry's name stands for: under the root the seed
\* puts that name, else the first of that name, else none.
NamedCategory(cats, name) ==
    LET all  == {c \in DOMAIN cats : Leaf(cats, c) /\ cats[c].name = name}
        home == {c \in all : \E s \in DOMAIN Seed \ Roots :
                              Seed[s].name = name /\ Seed[s].parent \in Above(cats, c)}
        pool == IF home # {} THEN home ELSE all
    IN IF pool = {} THEN None
       ELSE CHOOSE c \in pool : \A d \in pool :
                \/ cats[c].parent < cats[d].parent
                \/ cats[c].parent = cats[d].parent /\ c <= d

-----------------------------------------------------------------------------
(* Filing: the first rule that matches, else the library, else nothing.      *)
Before(rs, r, q) == \/ rs[r].priority < rs[q].priority
                    \/ rs[r].priority = rs[q].priority /\ r < q

Filed(row, c, s) == [row EXCEPT !.category = c, !.source = s]

categorize_with_library(cats, rs, on, row) ==
    LET Hit(x)   == <<x, Fold[row.desc]>> \in Hits
        matching == {r \in DOMAIN rs : Hit(rs[r].pattern)}
        entries  == {i \in DOMAIN Library : /\ on /\ Hit(Library[i].pattern)
                                            /\ NamedCategory(cats, Library[i].name) # None}
    IN IF matching # {}
       THEN LET first == CHOOSE r \in matching : \A q \in matching \ {r} : Before(rs, r, q)
            IN Filed(row, rs[first].category, "rule")
       ELSE IF entries # {}
       THEN Filed(row, NamedCategory(cats, Library[Min(entries)].name), "library")
       ELSE Filed(row, None, "none")

\* recategorize_auto_rows: manual rows and rows up to min_txn_id are not read.
RecategorizeManualToo(rows, cats, rs, on, min_txn_id) ==
    [t \in DOMAIN rows |->
        IF t > min_txn_id
        THEN categorize_with_library(cats, rs, on, rows[t])
        ELSE rows[t]]
recategorize_auto_rows(rows, cats, rs, on, min_txn_id) ==
    [t \in DOMAIN rows |->
        IF rows[t].source # "manual" /\ t > min_txn_id
        THEN categorize_with_library(cats, rs, on, rows[t])
        ELSE rows[t]]

-----------------------------------------------------------------------------
(* services/categories.py                                                    *)
NameFree(parent, name, c) ==
    \A d \in DOMAIN categories \ {c} : categories[d].parent = parent => categories[d].name # name

AddCategory(parent, name) ==
    /\ parent \in DOMAIN categories /\ NameFree(parent, name, None)
    /\ NewId(categories) <= MaxCategoryId
    /\ categories' = Put(categories, NewId(categories), [parent |-> parent, name |-> name])
    /\ UNCHANGED <<txns, rules, library>>

\* _reject_cycle: not under itself or anything below it.
UpdateCategory(c, name, parent) ==
    /\ Leaf(categories, c) /\ parent \in DOMAIN categories
    /\ c \notin Above(categories, parent)
    /\ NameFree(parent, name, c)
    /\ categories' = [categories EXCEPT ![c] = [parent |-> parent, name |-> name]]
    /\ UNCHANGED <<txns, rules, library>>

Childless(c) == \A d \in DOMAIN categories : categories[d].parent # c

Cleared(rows, c) == [t \in DOMAIN rows |->
    IF rows[t].category = c THEN Filed(rows[t], None, "none") ELSE rows[t]]

\* One transaction: clear its rows, delete its rules, delete it, re-file.
DeleteReapplyFirst(c) ==
    /\ Leaf(categories, c) /\ Childless(c)
    /\ rules' = Without(rules, {r \in DOMAIN rules : rules[r].category = c})
    /\ categories' = Without(categories, {c})
    /\ txns' = recategorize_auto_rows(Cleared(txns, c), categories, rules, library, 0)
    /\ UNCHANGED library
DeleteCategory(c) ==
    /\ Leaf(categories, c) /\ Childless(c)
    /\ rules' = Without(rules, {r \in DOMAIN rules : rules[r].category = c})
    /\ categories' = Without(categories, {c})
    /\ txns' = recategorize_auto_rows(Cleared(txns, c), categories', rules', library, 0)
    /\ UNCHANGED library

-----------------------------------------------------------------------------
(* services/categorization.py                                                *)
\* A new rule goes to the top: (min_priority() or 0) - 1.
TopPriority(rs) == (IF DOMAIN rs = {} THEN 0 ELSE Min({rs[r].priority : r \in DOMAIN rs})) - 1

RoomForRule == NewId(rules) <= MaxRuleId /\ 0 - MaxDepth <= TopPriority(rules)

WithRule(pattern, c) ==
    Put(rules, NewId(rules), [pattern |-> pattern, category |-> c, priority |-> TopPriority(rules)])

AddRule(pattern, c) ==
    /\ Leaf(categories, c) /\ RoomForRule
    /\ rules' = WithRule(pattern, c)
    /\ UNCHANGED <<txns, categories, library>>

UpdateRule(r, pattern, c) ==
    /\ r \in DOMAIN rules /\ Leaf(categories, c)
    /\ rules' = [rules EXCEPT ![r].pattern = pattern, ![r].category = c]
    /\ UNCHANGED <<txns, categories, library>>

DeleteRule(r) == /\ r \in DOMAIN rules /\ rules' = Without(rules, {r})
                 /\ UNCHANGED <<txns, categories, library>>

\* move_rule "up"; "down" is the same swap seen from the other rule.
MoveRule(r) ==
    /\ r \in DOMAIN rules
    /\ LET above == {q \in DOMAIN rules : Before(rules, q, r)}
           other == CHOOSE q \in above : \A s \in above \ {q} : Before(rules, s, q)
       IN /\ above # {}
          /\ rules' = [rules EXCEPT ![r].priority = rules[other].priority,
                                    ![other].priority = rules[r].priority]
    /\ UNCHANGED <<txns, categories, library>>

ApplyRules == /\ txns' = recategorize_auto_rows(txns, categories, rules, library, 0)
              /\ UNCHANGED catVars

SetLibraryEnabled(on) == library' = on /\ UNCHANGED <<txns, categories, rules>>

SetManualCategory(t, c) ==
    /\ t \in DOMAIN txns /\ (c = None \/ Leaf(categories, c))
    /\ Cardinality({u \in DOMAIN txns : txns[u].source = "manual"} \cup {t}) <= MaxManual
    /\ txns' = [txns EXCEPT ![t] = Filed(txns[t], c, "manual")]
    /\ UNCHANGED catVars

\* _maybe_offer_rule: a hand-filed row that would be filed elsewhere.
Teaches(t) ==
    /\ txns[t].source = "manual" /\ txns[t].category # None
    /\ categorize_with_library(categories, rules, library, txns[t]).category # txns[t].category

\* _apply_learned_rule: what the owner made of the offer becomes a rule, and the
\* rules are applied (a kill between the two leaves what AddRule leaves).
LearnRule(pattern, c) ==
    /\ \E t \in DOMAIN txns : Teaches(t)
    /\ Leaf(categories, c) /\ RoomForRule
    /\ rules' = WithRule(pattern, c)
    /\ txns' = recategorize_auto_rows(txns, categories, rules', library, 0)
    /\ UNCHANGED <<categories, library>>

-----------------------------------------------------------------------------
(* A fresh vault: the roots, the default categories, no rules.               *)
CatInit == categories = Seed /\ rules = <<>> /\ library = TRUE

CatNext ==
    \/ \E p \in DOMAIN categories, n \in CategoryNames : AddCategory(p, n)
    \/ \E c, p \in DOMAIN categories :
          \E n \in CategoryNames \cup {categories[c].name} : UpdateCategory(c, n, p)
    \/ \E c \in DOMAIN categories : DeleteCategory(c)
    \/ \E x \in Patterns, c \in DOMAIN categories : AddRule(x, c) \/ LearnRule(x, c)
    \/ \E r \in DOMAIN rules, x \in Patterns, c \in DOMAIN categories : UpdateRule(r, x, c)
    \/ \E r \in DOMAIN rules : DeleteRule(r) \/ MoveRule(r)
    \/ ApplyRules
    \/ \E on \in Switches : SetLibraryEnabled(on)
    \/ \E t \in DOMAIN txns, c \in DOMAIN categories \cup {None} : SetManualCategory(t, c)
=============================================================================
