---------------------------- MODULE TradeHistory ----------------------------
(***************************************************************************)
(* One coin's trades on the server: read from the signatures of its DBC    *)
(* pool pass by pass (syncHeld in indexer.mjs, pendingSignatures and       *)
(* fetchTransactions in solana.mjs), stored as an index and chunks, and    *)
(* served page by page while a pass writes them anew.                      *)
(*                                                                         *)
(* Signatures are numbers, 1 the oldest; 0 is none.  A page of them is an  *)
(* interval.  One pass works on a coin at a time (its lease outlives the   *)
(* pass), and it may die or lose an answer between any two calls.          *)
(*                                                                         *)
(* Outside the model: the DAMM v2 pool's own cursor, sides and prices,     *)
(* candles, lists stored as one array or with lost chunks, nodes that do   *)
(* not show what was read before, and the deletion of a coin (CoinIndex).  *)
(***************************************************************************)
EXTENDS Integers, FiniteSets, Sequences, SequencesExt

CONSTANTS
    PAGE,                \* signatures of one request
    SCAN_PAGES,          \* requests of one pass
    INITIAL_SIGNATURES,  \* of the first read of a coin a visitor opened
    PER_PASS,            \* transactions of one pass
    MAX_TRADES, TRADE_CHUNK,
    Queries,             \* the pages visitors ask for: <<offset, limit>>
    MaxSignatures, MaxFaults,    \* bounds
    None

ASSUME HistoryAssumption ==
    /\ {PAGE, SCAN_PAGES, INITIAL_SIGNATURES, PER_PASS, MAX_TRADES, TRADE_CHUNK} \subseteq Nat \ {0}
    /\ SCAN_PAGES >= 2
    /\ \A q \in Queries : q[1] \in Nat /\ q[2] \in 1..TRADE_CHUNK
    /\ MaxSignatures \in Nat /\ MaxFaults \in Nat

VARIABLES
    chain,      \* the pool's transactions, and whether each succeeded
    shown,      \* how many of them every node shows
    external,   \* a visitor's coin is read from its newest signatures, a launch from its first
    record,     \* coin:<mint>: cursor, gap anchor, start of the history, whether it is behind, tally
    head,       \* trades:<mint>: the index, newest chunk first
    chunk,      \* trades:<mint>:<n>: newest trade first
    pass,       \* the pass under way
    page,       \* a page of trades being read for a visitor
    faults

store == <<record, head, chunk>>
vars  == <<chain, shown, external, store, pass, page, faults>>

Fault == faults < MaxFaults /\ faults' = faults + 1

NoPass == [ pc |-> "idle", cursor |-> 0, anchor |-> 0, from |-> None, reached |-> TRUE, n |-> 0,
            before |-> 0, previous |-> None, window |-> {}, last |-> 0, fresh |-> {},
            behind |-> FALSE, day |-> None, gone |-> {}, put |-> None ]

NoPage == [ pc |-> "idle", offset |-> 0, limit |-> 0, todo |-> <<>>, skip |-> 0, items |-> <<>>,
            tries |-> 0, want |-> <<>> ]

\* coveredFrom: a launch's history is complete from its first transaction.
Init ==
    /\ chain = <<>> /\ shown = 0
    /\ external \in BOOLEAN
    /\ record = [ cursor |-> 0, anchor |-> 0, from |-> IF external THEN None ELSE 0,
                  behind |-> TRUE, day |-> None ]
    /\ head = [next |-> 0, chunks |-> <<>>] /\ chunk = <<>>
    /\ pass = NoPass /\ page = NoPage
    /\ faults = 0

Transact ==
    /\ Len(chain) < MaxSignatures
    /\ \E ok \in BOOLEAN : chain' = Append(chain, ok)
    /\ UNCHANGED <<shown, external, store, pass, page, faults>>

Show ==
    /\ shown < Len(chain)
    /\ shown' = shown + 1
    /\ UNCHANGED <<chain, external, store, pass, page, faults>>

-----------------------------------------------------------------------------
(* The trades as stored.                                                   *)

\* The members of a set of numbers, least first.
Ascending(S) ==
    CHOOSE s \in [1..Cardinality(S) -> S] : \A i, j \in DOMAIN s : i < j => s[i] < s[j]

\* How many trades some chunks of an index hold.
Held(chunks) ==
    LET held[i \in 0..Len(chunks)] == IF i = 0 THEN 0 ELSE held[i - 1] + chunks[i].count
    IN held[Len(chunks)]

\* Items from + 1 .. to of a sequence, as far as it goes.
Slice(s, from, to) == SubSeq(s, from + 1, IF to < Len(s) THEN to ELSE Len(s))

Live(c)      == Slice(chunk[c.n], 0, c.count)
Rows(chunks) == FlattenSeq([i \in DOMAIN chunks |-> Live(chunks[i])])
Trades       == Rows(head.chunks)

-----------------------------------------------------------------------------
(* Signatures: pendingSignatures.                                          *)

\* Those that succeeded among lo + 1 .. hi.
Window(lo, hi) == {i \in lo + 1..hi : chain[i]}

\* The pass goes on to read the window; below, anchor is the boundary above it.
Plans(lo, hi, anchor, from) ==
    pass' = [pass EXCEPT !.pc = "read", !.window = Window(lo, hi), !.anchor = anchor, !.last = hi,
                         !.from = from, !.reached = TRUE, !.previous = None, !.before = 0, !.n = 0]

BeginPass ==
    /\ pass.pc = "idle"
    /\ pass' = [NoPass EXCEPT
          !.pc = IF external /\ record.cursor = 0 /\ record.anchor = 0 THEN "first" ELSE "scan",
          !.cursor = record.cursor, !.anchor = record.anchor, !.from = record.from,
          !.before = record.anchor]
    /\ UNCHANGED <<chain, shown, external, store, page, faults>>

\* The newest signatures, as some node shows them.
ReadFirst ==
    /\ pass.pc = "first"
    /\ \E tip \in shown..Len(chain) :
          LET lo == IF tip > INITIAL_SIGNATURES THEN tip - INITIAL_SIGNATURES ELSE 0
          IN Plans(lo, tip, 0, IF tip - lo < INITIAL_SIGNATURES THEN 0 ELSE lo)
    /\ UNCHANGED <<chain, shown, external, store, page, faults>>

\* One request for the page below a boundary, or below the tip.
ReadSignatures ==
    /\ pass.pc = "scan"
    /\ \E tip \in shown..Len(chain) :
       LET top   == IF pass.before = 0 THEN tip ELSE pass.before - 1
           hi    == IF top < pass.cursor THEN pass.cursor ELSE top
           lo    == IF hi - pass.cursor > PAGE THEN hi - PAGE ELSE pass.cursor
           from  == IF pass.cursor = 0 THEN 0 ELSE pass.from
           again == pass.n + 1 < SCAN_PAGES
           Scans(before, previous) ==
               pass' = IF again
                       THEN [pass EXCEPT !.n = @ + 1, !.before = before, !.previous = previous]
                       ELSE [pass EXCEPT !.pc = "merge", !.reached = FALSE, !.behind = TRUE,
                                !.anchor = IF previous = None THEN 0 ELSE previous.above,
                                !.previous = None, !.before = 0, !.n = 0]
       IN CASE hi - lo >= PAGE -> Scans(lo + 1, [lo |-> lo, hi |-> hi, above |-> pass.before])
            [] hi - lo \in 1..PAGE - 1 -> Plans(lo, hi, pass.before, from)
            [] hi = lo /\ pass.previous # None ->
                 Plans(pass.previous.lo, pass.previous.hi, pass.previous.above, from)
            [] hi = lo /\ pass.previous = None /\ pass.before = 0 -> Plans(0, 0, 0, from)
            [] OTHER -> Scans(0, None)
    /\ UNCHANGED <<chain, shown, external, store, page, faults>>

\* What a batch may come to: the oldest of the window, as far as one goes.
Batches == {read \in SUBSET pass.window :
               Cardinality(read) <= PER_PASS /\ \A i \in read, j \in pass.window \ read : i < j}

\* Mutant: a transaction a node does not show yet is stepped past.
ReadableWithHoles(read) == {i \in read : i <= shown}

\* Never past one that is not visible.
Readable(read) == read

\* Mutant: only what was read moves the cursor.
CursorAtRead(read, whole) == IF read = {} THEN pass.cursor ELSE Max(read)

\* A window read as a whole is left behind with the failed signatures above it.
CursorAfter(read, whole) ==
    IF whole /\ pass.last # 0 THEN pass.last
    ELSE IF read = {} THEN pass.cursor ELSE Max(read)

\* fetchTransactions: up to the first one the node does not show, or as far as throttling,
\* an error or the deadline let it.
ReadTransactions ==
    /\ pass.pc = "read"
    /\ \E batch \in Batches :
          LET read  == Readable(batch)
              left  == pass.window \ batch
          IN /\ IF left = {} \/ Cardinality(batch) = PER_PASS \/ Min(left) > shown
                THEN UNCHANGED faults ELSE Fault
             /\ pass' = [pass EXCEPT !.pc = "merge", !.fresh = read,
                            !.cursor = CursorAfter(read, left = {}),
                            !.behind = pass.anchor # 0 \/ left # {}, !.window = {}, !.last = 0]
    /\ UNCHANGED <<chain, shown, external, store, page>>

\* A request for signatures fails: the pass keeps what the record says.
RequestFails ==
    /\ pass.pc \in {"first", "scan"} /\ Fault
    /\ pass' = [NoPass EXCEPT !.pc = "merge", !.cursor = record.cursor, !.anchor = record.anchor,
                              !.from = record.from, !.behind = TRUE]
    /\ UNCHANGED <<chain, shown, external, store, page>>

-----------------------------------------------------------------------------
(* Storing a pass: mergeTrades, saveTrades, tally; the coin's lock is held. *)

\* Mutant: the numbers of chunks are used again.
NextNumberAgain(loaded) == 0

NextNumber(loaded) == loaded.next

\* What the cap leaves of a chunk.
CutTo(c, trades) ==
    LET live == {j \in 0..Len(Live(c)) : j > 0 => Live(c)[j] \in Range(trades)}
    IN [c EXCEPT !.count = CHOOSE j \in live : \A k \in live : k <= j]

\* The chunks it leaves anything of.
CutsTo(chunks, trades) ==
    LET some == Ascending({i \in DOMAIN chunks : CutTo(chunks[i], trades).count > 0})
    IN [i \in DOMAIN some |-> CutTo(chunks[some[i]], trades)]

\* From the oldest on, those that are still the end of the list.
Ending(left, trades) ==
    LET ends  == {i \in 1..Len(left) + 1 : IsSuffix(Rows(SubSeq(left, i, Len(left))), trades)}
        first == CHOOSE i \in ends : \A j \in 1..Len(left) + 1 : j < i => j \notin ends
    IN SubSeq(left, first, Len(left))

\* The newest is written again when it is partial and takes newer trades.
Untouched(kept, trades) ==
    IF kept # <<>> /\ kept[1].count < TRADE_CHUNK /\ Rows(kept) # trades THEN Tail(kept) ELSE kept

\* The chunks that keep their number.
KeptChunks(loaded, trades) == Untouched(Ending(CutsTo(loaded.chunks, trades), trades), trades)

\* What saveTrades writes: the chunks of the newest trades, oldest numbered first and the newest
\* partial, and the index.
Layout(loaded, trades) ==
    LET kept == KeptChunks(loaded, trades)
        rest == Len(trades) - Held(kept)
        m    == (rest + TRADE_CHUNK - 1) \div TRADE_CHUNK
        first == NextNumber(loaded)
        end(i) == rest - i * TRADE_CHUNK
        rows == [n \in first..(first + m - 1) |->
                    LET e == end(n - first)
                    IN SubSeq(trades, IF e > TRADE_CHUNK THEN e - TRADE_CHUNK + 1 ELSE 1, e)]
    IN [ rows |-> rows,
         head |-> [ next |-> first + m,
                    chunks |-> Reverse([i \in 1..m |-> [n |-> first + i - 1,
                                                        count |-> Len(rows[first + i - 1])]])
                               \o kept ] ]

\* The tally starts once the list fills, from the trades it holds then.
Tally(day, stored, added) ==
    IF day = None
    THEN IF Len(stored) + Cardinality(added) < MAX_TRADES THEN None
         ELSE [ from |-> IF Len(stored) >= MAX_TRADES THEN Last(stored) ELSE 1,
                counted |-> Range(stored) \cup added ]
    ELSE [day EXCEPT !.counted = @ \cup added]

\* The chunks are written; nothing reads them before the index names them.
Merge ==
    /\ pass.pc = "merge"
    /\ LET stored == Trades
           added  == pass.fresh \ Range(stored)
           trades == Slice(Reverse(Ascending(added \cup Range(stored))), 0, MAX_TRADES)
           new    == Layout(head, trades)
       IN IF added = {}
          THEN /\ pass' = [pass EXCEPT !.pc = "record", !.fresh = {}, !.day = record.day]
               /\ UNCHANGED chunk
          ELSE /\ chunk' = [n \in DOMAIN chunk \cup DOMAIN new.rows |->
                               IF n \in DOMAIN new.rows THEN new.rows[n] ELSE chunk[n]]
               /\ pass' = [pass EXCEPT !.pc = "head", !.fresh = {}, !.put = new.head,
                              !.gone = {head.chunks[i].n : i \in DOMAIN head.chunks}
                                       \ {new.head.chunks[i].n : i \in DOMAIN new.head.chunks},
                              !.day = Tally(record.day, stored, added)]
    /\ UNCHANGED <<chain, shown, external, record, head, page, faults>>

WriteIndex ==
    /\ pass.pc = "head"
    /\ head' = pass.put
    /\ pass' = [pass EXCEPT !.pc = "delete", !.put = None]
    /\ UNCHANGED <<chain, shown, external, record, chunk, page, faults>>

\* The chunks it replaced; a failure leaves them behind.
DeleteReplaced ==
    /\ pass.pc = "delete"
    /\ \E left \in SUBSET pass.gone :
          /\ IF left = {} THEN UNCHANGED faults ELSE Fault
          /\ chunk' = [n \in DOMAIN chunk \ (pass.gone \ left) |-> chunk[n]]
    /\ pass' = [pass EXCEPT !.pc = "record", !.gone = {}]
    /\ UNCHANGED <<chain, shown, external, record, head, page>>

WriteRecord ==
    /\ pass.pc = "record"
    /\ record' = [ cursor |-> pass.cursor, anchor |-> pass.anchor, from |-> pass.from,
                   behind |-> pass.behind, day |-> pass.day ]
    /\ pass' = NoPass
    /\ UNCHANGED <<chain, shown, external, head, chunk, page, faults>>

\* The instance dies, or a write of the store fails and the pass with it.
Crash ==
    /\ pass.pc # "idle" /\ Fault
    /\ pass' = NoPass
    /\ UNCHANGED <<chain, shown, external, store, page>>

-----------------------------------------------------------------------------
(* A page of trades: tradePage.                                            *)

Ask ==
    /\ page.pc = "idle"
    /\ \E q \in Queries : page' = [NoPage EXCEPT !.pc = "head", !.offset = q[1], !.limit = q[2]]
    /\ UNCHANGED <<chain, shown, external, store, pass, faults>>

\* want: the page of the list as it is now.
ReadIndex ==
    /\ page.pc = "head"
    /\ LET cs     == head.chunks
           before == [i \in DOMAIN cs |-> Held(SubSeq(cs, 1, i - 1))]
           first  == {i \in DOMAIN cs : before[i] + cs[i].count > page.offset}
           start  == CHOOSE i \in first : \A j \in first : i <= j
       IN page' = [page EXCEPT !.pc = "chunk",
                      !.want = Slice(Trades, page.offset, page.offset + page.limit),
                      !.todo = IF first = {} THEN <<>> ELSE SubSeq(cs, start, Len(cs)),
                      !.skip = IF first = {} THEN 0 ELSE page.offset - before[start]]
    /\ UNCHANGED <<chain, shown, external, store, pass, faults>>

PageRead == page.todo = <<>> \/ Len(page.items) >= page.limit

\* A chunk that is gone was replaced since the index was read: that is read again, twice at most.
ReadChunk ==
    /\ page.pc = "chunk" /\ ~PageRead
    /\ LET c == Head(page.todo) IN
       IF c.n \in DOMAIN chunk
       THEN page' = [page EXCEPT !.todo = Tail(@), !.skip = 0,
               !.items = @ \o Slice(Live(c), page.skip, page.skip + page.limit - Len(page.items))]
       ELSE IF page.tries < 2
       THEN page' = [page EXCEPT !.pc = "head", !.tries = @ + 1, !.todo = <<>>, !.skip = 0,
                                 !.items = <<>>, !.want = <<>>]
       ELSE page' = [page EXCEPT !.pc = "cut"]
    /\ UNCHANGED <<chain, shown, external, store, pass, faults>>

Answer ==
    /\ (page.pc = "chunk" /\ PageRead) \/ page.pc = "cut"
    /\ page' = NoPage
    /\ UNCHANGED <<chain, shown, external, store, pass, faults>>

-----------------------------------------------------------------------------
PassStep ==
    \/ BeginPass \/ ReadFirst \/ ReadSignatures \/ ReadTransactions
    \/ Merge \/ WriteIndex \/ DeleteReplaced \/ WriteRecord

Next ==
    \/ Transact \/ Show \/ PassStep \/ RequestFails \/ Crash
    \/ Ask \/ ReadIndex \/ ReadChunk \/ Answer

Spec == Init /\ [][Next]_vars

\* Passes go on - every opened page and the background tick start one, and some step of one is
\* always enabled - and every node shows every transaction in the end.
PassMoves == pass' # pass /\ faults' = faults
FairSpec  == Spec /\ []<><<PassMoves>>_vars /\ WF_vars(Show)

-----------------------------------------------------------------------------
(* Properties.                                                             *)

Signature == 0..MaxSignatures
Day       == [from : 1..MaxSignatures, counted : SUBSET (1..MaxSignatures)]

\* Types, and the index is as documented (indexer.mjs:489): its chunks are stored, full except the
\* newest and what the cap trimmed of the oldest, and hold each trade once, newest first.
TypeOK ==
    /\ chain \in Seq(BOOLEAN) /\ shown \in 0..Len(chain)
    /\ record \in [ cursor : Signature, anchor : Signature, from : Signature \cup {None},
                    behind : BOOLEAN, day : {None} \cup Day ]
    /\ pass.cursor \in 0..Len(chain) /\ pass.anchor \in 0..Len(chain)
    /\ \A i \in DOMAIN head.chunks :
          LET c == head.chunks[i]
          IN /\ c.n \in 0..head.next - 1 /\ c.n \in DOMAIN chunk
             /\ c.count \in 1..Len(chunk[c.n])
             /\ i \in 2..Len(head.chunks) - 1 => c.count = TRADE_CHUNK
    /\ Len(Trades) <= MAX_TRADES
    /\ \A i, j \in DOMAIN Trades : i < j => Trades[i] > Trades[j]

\* A record's history is what it says it is: every trade between the start of its history and its
\* cursor is stored, or older than everything in a full list.  However the backlog was paged, and
\* whichever pass died or met a node that lags.
HistoryAsClaimed ==
    record.from # None =>
        \A i \in record.from + 1 .. record.cursor :
            chain[i] /\ i \notin Range(Trades)
                => Len(Trades) = MAX_TRADES /\ i < Last(Trades)

\* A page is a page of one list the coin had, whatever was merged while it was read; only after
\* three attempts may it be cut short.
PageIsCut ==
    [][Answer => \/ page.items = page.want
                 \/ page.tries = 2 /\ IsPrefix(page.items, page.want)]_vars

\* Once the traffic pauses, every transaction is read past: a backlog longer than a pass pages is
\* worked off, and failed transactions hold nothing up.
CatchesUp == []<>(record.cursor = Len(chain))

\* "`from` is the time since which every indexed trade is counted" (tally, indexer.mjs:1333).
TallyComplete ==
    record.day # None /\ record.from # None =>
        \A i \in record.from + 1 .. record.cursor :
            chain[i] /\ i >= record.day.from => i \in record.day.counted
=============================================================================
