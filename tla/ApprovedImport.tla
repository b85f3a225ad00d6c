------------------------------ MODULE ApprovedImport ------------------------------
(***************************************************************************)
(* What the review screen of a batch import promises (FIBR-0085 INV-1,      *)
(* INV-2, INV-4): the accounts change only by whole statements of an        *)
(* approved list landing in its order, each adding exactly the number of    *)
(* rows shown for it - or, once an earlier one was refused, no fewer.       *)
(* BatchImport is shown to implement this.                                  *)
(***************************************************************************)
EXTENDS Naturals, Sequences, FiniteSetsExt

CONSTANT Statements   \* the rows a statement may have, counted by key

VARIABLES
    books,      \* books[a][k]: how many rows of key k account a holds
    approved,   \* what is still to land: [account, rows, promised] in order
    exact       \* has every approved statement landed so far?

\* Rows r laid over what an account has: of each key the greater count.
Merge(b, r) == [k \in DOMAIN b |-> IF r[k] > b[k] THEN r[k] ELSE b[k]]
Adds(b, r) == [k \in DOMAIN b |-> IF r[k] > b[k] THEN r[k] - b[k] ELSE 0]
Size(r) == MapThenSumSet(LAMBDA k : r[k], DOMAIN r)

Approve == /\ approved = <<>> /\ approved' # <<>>
           /\ exact' = TRUE /\ UNCHANGED books

Land == LET next == Head(approved)
            adds == Size(Adds(books[next.account], next.rows))
        IN /\ approved # <<>>
           /\ adds >= next.promised
           /\ exact => adds = next.promised
           /\ books' = [books EXCEPT ![next.account] = Merge(@, next.rows)]
           /\ approved' = Tail(approved)
           /\ UNCHANGED exact

Refuse == /\ approved # <<>> /\ approved' = Tail(approved)
          /\ exact' = FALSE /\ UNCHANGED books

\* The owner cancels, the vault locks, or the run is broken off.
Stop == approved' = <<>> /\ UNCHANGED books

\* A statement imported by itself, outside any approved list.
ImportOne == /\ approved = <<>> /\ approved' = <<>>
             /\ \E a \in DOMAIN books, r \in Statements :
                   books' = [books EXCEPT ![a] = Merge(@, r)]

Init == approved = <<>>
Next == Approve \/ Land \/ Refuse \/ Stop \/ ImportOne
Spec == Init /\ [][Next]_<<books, approved>>
=============================================================================
