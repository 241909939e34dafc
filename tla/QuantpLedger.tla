---------------------------- MODULE QuantpLedger ----------------------------
(***************************************************************************)
(* The $QUANTP ledger (quantp.mjs: createQuantpLedger, quantpLedger and    *)
(* the cached source around them): a team wallet's history is listed from  *)
(* its tip and from the open ends of earlier listings, its transactions    *)
(* are read a few at a time, and the figures are added up from those read. *)
(*                                                                         *)
(* A transaction is its place in the wallet's history.  Some of them, dust *)
(* anyone may send, no node can return.  The wallets are listed at once:   *)
(* when another wallet's listing fails, the load ends while this one's     *)
(* goes on behind it (`stray`).  The histories hold no transactions that   *)
(* failed: they are listed and dropped.                                    *)
(***************************************************************************)
EXTENDS Integers, SequencesExt, FiniteSetsExt

CONSTANTS
    Histories,      \* sequences of [dust, paid, spent, bought, burned]
    pageLimit, maxPages, maxReads, READ_TRIES,
    MaxFaults,      \* bound: calls that fail; fewer than READ_TRIES, where `failed` is cut off
    MaxStrays       \* bound: loads that end before this wallet's listing does

NoPage == [pc |-> "none"]

VARIABLES
    history, tip,          \* the wallet's transactions, and how many have landed
    listed, read, failed,  \* places; how many reads of a place failed
    newest, cursors,       \* the newest place listed; ranges not listed yet
    listing, stray,        \* this wallet's listing in the load under way, and one left behind
    pending,               \* what the load under way reads
    last,                  \* what the last load that ended well returned
    hurry,
    faults, strays,
    overtaken,             \* history: the listings under way that another one ended before
    overwritten            \* history: an overtaken listing has ended

wallet == <<listed, newest, cursors>>
overlap == <<overtaken, overwritten>>
vars == <<history, tip, wallet, read, failed, listing, stray, pending, last, hurry, faults, strays,
          overlap>>

Init ==
    /\ history \in Histories
    /\ tip \in 0..Len(history)
    /\ listed = {} /\ read = {} /\ failed = [i \in DOMAIN history |-> 0]
    /\ newest = 0 /\ cursors = <<>>
    /\ listing = NoPage /\ stray = NoPage /\ pending = <<>>
    /\ last = NoPage /\ hurry = FALSE /\ faults = 0 /\ strays = 0
    /\ overtaken = {} /\ overwritten = FALSE

-----------------------------------------------------------------------------
(* The figures (quantpLedger): payouts, burns and what was spent on what   *)
(* they burned.                                                            *)

\* A buy, then a burn: in the same transaction or not.
Entry(sum, tx) ==
    LET lamports == sum.lamports + tx.spent
        amount   == sum.amount + tx.bought
        take     == IF tx.burned < amount THEN tx.burned ELSE amount
        spent    == IF take > 0 THEN (lamports * take) \div amount ELSE 0
    IN [paid |-> sum.paid + tx.paid, burned |-> sum.burned + tx.burned,
        buyback |-> sum.buyback + spent, lamports |-> lamports - spent, amount |-> amount - take]

\* The sums over the first n of some transactions, of those at these places.
Sums(txs, places) ==
    LET sum[n \in 0..Len(txs)] ==
            IF n = 0 THEN [paid |-> 0, burned |-> 0, buyback |-> 0, lamports |-> 0, amount |-> 0]
            ELSE IF n \in places THEN Entry(sum[n - 1], txs[n]) ELSE sum[n - 1]
    IN sum

Figures(places) == Sums(history, places)[Len(history)]

\* ledgerSummary: what was paid out, burned, and spent on buying back, burned or not yet.
Summary(places) ==
    LET f == Figures(places)
    IN [paid |-> f.paid, burned |-> f.burned, bought |-> f.buyback + f.lamports]

-----------------------------------------------------------------------------
(* Listing (signaturesOf, listWallet).                                     *)

\* One page: the newest ones older than `before` and newer than `until`.
Page(before, until) ==
    LET there == {i \in 1..tip : until < i /\ i < before}
    IN IF there = {} THEN {} ELSE {i \in there : Cardinality({j \in there : j > i}) < pageLimit}

Full(page) == Cardinality(page) = pageLimit

BeginListing ==
    [pc |-> "tip", until |-> newest, before |-> Len(history) + 1, pages |-> 0, list |-> {},
     older |-> {}, todo |-> <<>>, open |-> <<>>, upto |-> tip]

\* The tip listing goes on until a page that is not full, or `maxPages` pages.
TipPage(c) ==
    LET page == Page(c.before, c.until)
        next == [c EXCEPT !.list = @ \cup page, !.pages = @ + 1,
                          !.before = IF page = {} THEN @ ELSE Min(page)]
    IN IF Full(page) /\ next.pages < maxPages THEN next
       ELSE [next EXCEPT !.pc = IF Full(page) THEN "cut" ELSE "reached", !.todo = cursors]

\* One more page of a range still open.
RangePage(c) ==
    LET range == Head(c.todo)
        page  == Page(range.before, range.until)
    IN [c EXCEPT !.older = @ \cup page, !.todo = Tail(@),
                 !.open = IF Full(page) THEN Append(@, [range EXCEPT !.before = Min(page)]) ELSE @]

\* Mutant: the gap is measured from the newest signature just listed.
CutLeftAtTip(c) == <<[before |-> c.before, until |-> Max(c.list)]>>

\* The gap below a tip listing that was cut.
CutLeft(c) == <<[before |-> c.before, until |-> c.until]>>

\* All pages are in: what was listed is kept with the ranges still open.
Listed(c) ==
    /\ cursors' = c.open \o (IF c.pc = "cut" THEN CutLeft(c) ELSE <<>>)
    /\ newest' = IF c.list = {} THEN newest ELSE Max(c.list)
    /\ listed' = listed \cup c.list \cup c.older

\* The others under way were begun without knowing of what this one wrote.
Overtakes(one, others) ==
    /\ overtaken' = others
    /\ overwritten' = (overwritten \/ one \in overtaken)

Lists(c) == c.pc \in {"tip", "cut", "reached"}

Ended(c) == c.pc # "tip" /\ c.todo = <<>>

NextPage(c) == IF c.pc = "tip" THEN TipPage(c) ELSE RangePage(c)

\* Mutant: newest first, whatever failed before.
NewestFirst(i, j) == i > j

\* Newest first, and what failed before after the rest.
ReadsBefore(i, j) == failed[i] < failed[j] \/ (failed[i] = failed[j] /\ i > j)

\* What one load reads of the places left: the first of them in that order.
ToRead(of) ==
    {SubSeq(order, 1, Min({maxReads, Len(order)})) :
        order \in {s \in SetToSeqs(of \ read) : \A i, j \in DOMAIN s : i < j => ReadsBefore(s[i], s[j])}}

-----------------------------------------------------------------------------
(* A load: only one is under way (cachedSource).                           *)

BeginLoad ==
    /\ listing = NoPage
    /\ listing' = BeginListing
    /\ UNCHANGED <<history, tip, wallet, read, failed, stray, pending, last, hurry, faults, strays,
                   overlap>>

ListPage ==
    /\ Lists(listing)
    /\ LET c == NextPage(listing)
       IN IF Ended(c)
          THEN /\ Listed(c) /\ Overtakes("load", IF stray = NoPage THEN {} ELSE {"stray"})
               /\ listing' = [pc |-> "reading", upto |-> c.upto, begun |-> FALSE]
               /\ pending' \in ToRead(listed')
          ELSE listing' = c /\ UNCHANGED <<wallet, pending, overlap>>
    /\ UNCHANGED <<history, tip, read, failed, stray, last, hurry, faults, strays>>

\* A listing left behind goes on with its own pages, or fails.
StrayPage ==
    /\ stray # NoPage
    /\ \/ LET c == NextPage(stray)
          IN /\ IF Ended(c)
                THEN /\ Listed(c) /\ Overtakes("stray", IF Lists(listing) THEN {"load"} ELSE {})
                     /\ stray' = NoPage
                ELSE stray' = c /\ UNCHANGED <<wallet, overlap>>
             /\ UNCHANGED faults
       \/ /\ faults < MaxFaults /\ faults' = faults + 1
          /\ stray' = NoPage /\ overtaken' = overtaken \ {"stray"}
          /\ UNCHANGED <<wallet, overwritten>>
    /\ UNCHANGED <<history, tip, read, failed, listing, pending, last, hurry, strays>>

\* The listing's own call fails, or another wallet's does: before this listing ends or after it.
ListFails ==
    /\ Lists(listing) \/ (listing.pc = "reading" /\ ~listing.begun)
    /\ \/ /\ faults < MaxFaults /\ faults' = faults + 1
          /\ overtaken' = overtaken \ {"load"} /\ UNCHANGED <<stray, strays>>
       \/ /\ Lists(listing) /\ strays < MaxStrays /\ stray = NoPage
          /\ stray' = listing /\ strays' = strays + 1
          /\ overtaken' = (IF "load" \in overtaken THEN {"stray"} ELSE {}) /\ UNCHANGED faults
    /\ listing' = NoPage /\ pending' = <<>>
    /\ UNCHANGED <<history, tip, wallet, read, failed, last, hurry, overwritten>>

\* Counted up to READ_TRIES: what can be read fails less often and comes before the dust.
FailedOnce(i) == [failed EXCEPT ![i] = IF @ < READ_TRIES THEN @ + 1 ELSE @]

ReadOne ==
    /\ listing.pc = "reading" /\ pending # <<>>
    /\ LET i == Head(pending)
       IN \/ ~history[i].dust /\ read' = read \cup {i} /\ UNCHANGED <<failed, faults>>
          \/ history[i].dust /\ failed' = FailedOnce(i) /\ UNCHANGED <<read, faults>>
          \/ /\ ~history[i].dust /\ faults < MaxFaults
             /\ failed' = FailedOnce(i) /\ faults' = faults + 1 /\ UNCHANGED read
    /\ pending' = Tail(pending) /\ listing' = [listing EXCEPT !.begun = TRUE]
    /\ UNCHANGED <<history, tip, wallet, stray, last, hurry, strays, overlap>>

Unread     == listed \ read
Unreadable == {i \in Unread : failed[i] >= READ_TRIES}

Hurries == cursors # <<>> \/ Cardinality(Unread) > Cardinality(Unreadable)

\* The load ends, everything read or its time up after at least one read.
EndLoad ==
    /\ listing.pc = "reading"
    /\ pending # <<>> => listing.begun
    /\ listing' = NoPage /\ pending' = <<>>
    /\ hurry' = Hurries
    /\ last' = [pc |-> "loaded", figures |-> Summary(read), complete |-> Unread = {} /\ cursors = <<>>,
                upto |-> listing.upto]
    /\ UNCHANGED <<history, tip, wallet, read, failed, stray, faults, strays, overlap>>

\* A transaction of the wallet lands.
Land ==
    /\ tip < Len(history) /\ tip' = tip + 1
    /\ UNCHANGED <<history, wallet, read, failed, listing, stray, pending, last, hurry, faults, strays,
                   overlap>>

Load == BeginLoad \/ ListPage \/ ReadOne \/ EndLoad

Next == Load \/ StrayPage \/ ListFails \/ Land

\* A load step is always possible, so this is its weak fairness.
Spec == Init /\ [][Next]_vars /\ []<><<Load>>_vars

-----------------------------------------------------------------------------

\* What the lists say of themselves is true: they hold at most what has landed, and complete they
\* hold all that had landed when the listing began, however listings were cut off and left behind,
\* calls failed and transactions landed meanwhile, and whatever was bought before or after a burn.
\* Said only until a listing writes its ranges over those another one wrote since it began - one was
\* left behind by a failed load (quantp.mjs:880): a range it does not know of is then never listed.
FiguresTrue ==
    last.pc = "loaded" /\ ~overwritten =>
        LET all(n) == Summary(1..n)
            within(f, g) == f.paid <= g.paid /\ f.burned <= g.burned /\ f.bought <= g.bought
        IN /\ within(last.figures, all(tip))
           /\ last.complete => within(all(last.upto), last.figures)

\* Once nothing lands any more, everything that can be read is read and the lists are no longer
\* refreshed early, though dust among them can never be read: in every behaviour in which no listing
\* writes its ranges over those another one wrote since it began.
CaughtUp ==
    <>[](\/ overwritten
         \/ ~hurry /\ \A i \in DOMAIN history : i <= tip => history[i].dust \/ i \in read)
=============================================================================
