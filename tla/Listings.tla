------------------------------ MODULE Listings ------------------------------
(***************************************************************************)
(* The two listings of the provider that the backend pages itself: the     *)
(* faxes assigned to the reader, for which it fetches page after page of   *)
(* all faxes, and the recordings of several extensions, for which it       *)
(* fetches the newest of each and merges them, leaving out some of them    *)
(* when they are asked for as logs.                                        *)
(*                                                                         *)
(* Rows are numbers, the newer the larger; the provider lists the newest   *)
(* first.  Rows come and go between two fetches.                           *)
(***************************************************************************)
EXTENDS Naturals, Sequences, FiniteSets

CONSTANTS
    MaxRow,     \* bound on the rows that ever come
    FetchPage,  \* _FAX_FETCH_ALL_PAGE_SIZE
    Lines,      \* extensions whose recordings are asked for
    FetchLimit, \* MULTI_EXTENSION_FETCH_LIMIT
    MaxPage,    \* bound on the page and the page size a client asks for
    MaxBlocked, \* bound on the recordings that are left out
    Waiting, Failed

ASSUME ListingsAssumption ==
    /\ MaxRow \in Nat /\ MaxPage \in Nat /\ MaxBlocked \in Nat
    /\ FetchPage \in Nat \ {0} /\ FetchLimit \in Nat \ {0}

Newer(S, x) == Cardinality({y \in S : y > x})
NoOlder(S, x) == Cardinality({y \in S : y >= x})

\* Page p, counted from 1, of the rows S.
RowsOfPage(S, p, size) == {x \in S : Newer(S, x) >= (p - 1) * size /\ Newer(S, x) < p * size}

VARIABLES
    rows,       \* rows[l]: what the provider has, of line l; faxes are of no line
    ever,       \* the last row that came
    fetched,    \* the pages of faxes fetched so far
    listed,     \* where the listing of faxes stands
    batch,      \* batch[l]: the recordings fetched of l, or that they are to be
    view,       \* the page and the page size asked for
    hidden,     \* the recordings this leaves out: with type=logs, those of some numbers
    before,     \* history: the rows when the fetches began
    came, went  \* history: whether rows came or went since

listVars == <<rows, ever, fetched, listed, batch, view, hidden, before, came, went>>

Faxed == "faxes"
Kept == Lines \cup {Faxed}

ListInit ==
    /\ rows = [k \in Kept |-> {}]
    /\ ever = 0
    /\ fetched = <<>>
    /\ listed = "no"
    /\ batch = [l \in Lines |-> {}]
    /\ view = <<1, 1>> /\ hidden = {}
    /\ before = rows
    /\ came = FALSE /\ went = FALSE

RowComes(k) ==
    /\ ever < MaxRow
    /\ ever' = ever + 1
    /\ rows' = [rows EXCEPT ![k] = @ \cup {ever'}]
    /\ came' = TRUE
    /\ UNCHANGED <<fetched, listed, batch, view, hidden, before, went>>

\* By a DELETE that is passed on, or at the provider.
RowGoes(k, x) ==
    /\ x \in rows[k]
    /\ rows' = [rows EXCEPT ![k] = @ \ {x}]
    /\ went' = TRUE
    /\ UNCHANGED <<ever, fetched, listed, batch, view, hidden, before, came>>

AskFaxes ==
    /\ listed = "no"
    /\ listed' = "paging"
    /\ before' = rows /\ came' = FALSE /\ went' = FALSE
    /\ UNCHANGED <<rows, ever, fetched, batch, view, hidden>>

\* Mutant: pages counted from 0.
FaxPageFromZero(p) == RowsOfPage(rows[Faxed], p + 1, FetchPage)

FaxPage(p) == RowsOfPage(rows[Faxed], p, FetchPage)

\* A page that is not full is the last one.
FetchFaxes ==
    LET page == FaxPage(Len(fetched) + 1) IN
    /\ listed = "paging"
    /\ fetched' = Append(fetched, page)
    /\ listed' = IF Cardinality(page) < FetchPage THEN "listed" ELSE "paging"
    /\ UNCHANGED <<rows, ever, batch, view, hidden, before, came, went>>

FaxesFail ==
    /\ listed = "paging"
    /\ listed' = "failed"
    /\ UNCHANGED <<rows, ever, fetched, batch, view, hidden, before, came, went>>

\* What is left out does not depend on when a recording comes.
AskRecordings(p, size, blocked) ==
    /\ listed = "no"
    /\ Cardinality(blocked) <= MaxBlocked
    /\ listed' = "merging"
    /\ batch' = [l \in Lines |-> Waiting]
    /\ view' = <<p, size>> /\ hidden' = blocked
    /\ before' = rows /\ came' = FALSE /\ went' = FALSE
    /\ UNCHANGED <<rows, ever, fetched>>

\* Mutant: the page that is asked for, of each extension.
NewestOfPage(l) == RowsOfPage(rows[l], view[1], view[2])

Newest(l) == RowsOfPage(rows[l], 1, FetchLimit)

FetchRecordings(l) ==
    /\ listed = "merging" /\ batch[l] = Waiting
    /\ \E got \in {Newest(l), Failed} : batch' = [batch EXCEPT ![l] = got]
    /\ UNCHANGED <<rows, ever, fetched, listed, view, hidden, before, came, went>>

ListNext ==
    \/ \E k \in Kept : RowComes(k) \/ \E x \in rows[k] : RowGoes(k, x)
    \/ AskFaxes \/ FetchFaxes \/ FaxesFail
    \/ \E p, size \in 1 .. MaxPage, blocked \in SUBSET (1 .. MaxRow) :
           AskRecordings(p, size, blocked)
    \/ \E l \in Lines : FetchRecordings(l)

ListSpec == ListInit /\ [][ListNext]_listVars

-----------------------------------------------------------------------------

\* The faxes assigned to a user are looked for among all faxes there were: one is
\* missed only if another was deleted, and one is listed twice only if another came,
\* between two pages.
FaxListingComplete ==
    listed = "listed" =>
        /\ ~went => before[Faxed] \subseteq UNION {fetched[i] : i \in DOMAIN fetched}
        /\ ~came => \A i, j \in DOMAIN fetched : i # j => fetched[i] \cap fetched[j] = {}

\* What is left out goes after the fetch and before the page is cut.
Unhidden(S) == S \ hidden

Merged == Unhidden(UNION {batch[l] : l \in {k \in Lines : batch[k] # Failed}})

AllFetched ==
    listed = "merging" /\ (\A l \in Lines : batch[l] \notin {Waiting, Failed}) /\ ~came /\ ~went

\* The page of the merged recordings is that page of all there are to show.
AsOfAll ==
    RowsOfPage(Merged, view[1], view[2])
        = RowsOfPage(Unhidden(UNION {before[l] : l \in Lines}), view[1], view[2])

\* The fetch of l was not cut off, or goes back as far as the page that is asked for.
GoesBack(l) ==
    \/ Cardinality(batch[l]) < FetchLimit
    \/ \E x \in batch[l] : NoOlder(Merged, x) >= view[1] * view[2]

\* The recordings of several extensions are paged as if all had been fetched, if nothing
\* came or went, every extension answered and no fetch that was cut off at its limit ends
\* before the page does; of the logs, the rows left out may have used up the limit.
RecordingPageRight == (AllFetched /\ \A l \in Lines : GoesBack(l)) => AsOfAll

=============================================================================
