--------------------------- MODULE HolderBuckets ---------------------------
(***************************************************************************)
(* The records the keeper keeps of one coin's holders (holdtime.mjs):      *)
(* balances and balance x seconds, in buckets with two slots each.  A      *)
(* sample reads and writes only the buckets whose balances changed, each   *)
(* to the slot its header does not point at, and then writes the header;   *)
(* it may stop anywhere in between.  Records accrue lazily: one changes    *)
(* only when its balance does.  Beside them, `earned` adds up at every     *)
(* sample what the records stand for.                                      *)
(*                                                                         *)
(* Outside the model: how a window is cut, paid and settled (KeeperEpochs),*)
(* scanning a coin's holders, and a header that is lost, which begins a    *)
(* window of its own.  The clock matters only as the seconds a sample is   *)
(* credited for; that a bucket is old enough to be written again may be so *)
(* at any sample.                                                          *)
(***************************************************************************)
EXTENDS Integers, FiniteSets, FiniteSetsExt, Functions

CONSTANTS
    Wallet, Vault,          \* owners of the coin: wallets, and addresses no one can sign for
    Order, Hash,            \* the order of the owners' addresses, and their hashes
    Holdings,               \* bound: what a sample may find, an amount of each owner
    Gaps,                   \* bound: seconds between samples
    MAX_STEP, maxTracked, maxRecords, bucketTarget, bucketMax, OFF_CURVE_MAX,
    MaxSamples, MaxLosses, MaxWindows

VARIABLES
    header,     \* holdtime:<mint>
    bucket,     \* the stored buckets: <<buckets, n, slot>> to the owners' records
    last,       \* each owner's balance at the last sample
    earned,     \* each wallet's seconds x balance in this window
    gap,        \* whether some of a wallet's time is not on record
    samples, losses

holderVars == <<header, bucket, last, earned, gap, samples, losses>>

Owner == Wallet \cup Vault
Empty  == <<>>                    \* an empty bucket, no digest

Init ==
    /\ header = [ gen |-> 0, first |-> TRUE, covered |-> 0, buckets |-> 1, offCurve |-> {},
                  meta |-> [n \in {0} |-> [digest |-> Empty, count |-> 0, slot |-> 1]] ]
    /\ bucket = Empty
    /\ last = [w \in Owner |-> 0]
    /\ earned = [w \in Wallet |-> 0]
    /\ gap = [w \in Wallet |-> "none"]
    /\ samples = 0 /\ losses = 0

LesserOf(a, b) == IF a < b THEN a ELSE b
LargerOf(a, b) == IF a < b THEN b ELSE a

\* What f maps, and of the rest what g does.  (Chosen of one, TLC builds it once.)
Over(f, g) ==
    CHOOSE h \in {[x \in DOMAIN f \cup DOMAIN g |-> IF x \in DOMAIN f THEN f[x] ELSE g[x]]} : h = h

-----------------------------------------------------------------------------
(* Buckets and records.                                                    *)

bucketOf(w, buckets) == Hash[w] % buckets

\* The bucket counts there are, and the one that keeps about `bucketTarget` records in each.
Counts == {n \in {1, 2, 4, 8} : n = 1 \/ n * bucketTarget <= maxRecords}
bucketCount(records) ==
    Min({n \in Counts : records <= n * bucketTarget} \cup {Max(Counts)})

\* The records some buckets are said to hold.
Counted(metas, ns) == MapThenSumSet(LAMBDA n : metas[n].count, ns)

Key(n)  == <<header.buckets, n, header.meta[n].slot>>
Lost(n) == header.meta[n].count > 0 /\ Key(n) \notin DOMAIN bucket

\* readBucket
Live(n) == IF header.meta[n].count > 0 /\ Key(n) \in DOMAIN bucket THEN bucket[Key(n)] ELSE Empty

Records == [w \in UNION {DOMAIN Live(n) : n \in DOMAIN header.meta} |->
                Live(bucketOf(w, header.buckets))[w]]

\* A record of an older window has earned nothing in this one, but was held since it began.
held(rec) == IF rec.gen = header.gen THEN rec ELSE [rec EXCEPT !.acc = 0, !.clock = 0]

weight(rec, clock) == LET h == held(rec) IN h.acc + h.balance * (clock - h.clock)

\* The record after a sample at `to`, the one before it having been at `from`.
touch(h, balance, from, to) ==
    [ balance |-> balance, clock |-> to, gen |-> header.gen,
      acc |-> h.acc + h.balance * (from - h.clock) + LesserOf(h.balance, balance) * (to - from) ]

Nothing == [balance |-> 0, acc |-> 0, clock |-> 0, gen |-> header.gen]

-----------------------------------------------------------------------------
(* A sample.                                                               *)

\* The largest balances, of owners not known to be vaults.
Tracked(balances) ==
    LET some == {w \in Owner \ header.offCurve : balances[w] > 0}
        Above(v, w) == \/ balances[v] > balances[w]
                       \/ balances[v] = balances[w] /\ Order[v] < Order[w]
    IN {w \in some : Cardinality({v \in some : Above(v, w)}) < maxTracked}

\* The `count` records worth least: their weight, and one more step at their balance.
Lowest(recs, count, to) ==
    LET Worth(w)    == held(recs[w]).acc + recs[w].balance * (to - held(recs[w]).clock + MAX_STEP)
        Below(v, w) == \/ Worth(v) < Worth(w)
                       \/ Worth(v) = Worth(w) /\ Order[v] < Order[w]
    IN {w \in DOMAIN recs : Cardinality({v \in DOMAIN recs : Below(v, w)}) < count}

keepRecords == maxRecords - (maxRecords \div 8)

\* Mutant: a bucket is written where it is read.
SlotLive(n, regrow) == IF regrow THEN 0 ELSE header.meta[n].slot

\* The slot the header does not point at; buckets of a new count have keys of their own.
Slot(n, regrow) == IF regrow THEN 0 ELSE 1 - header.meta[n].slot

\* All a sample computes from the header, the buckets and the balances found: the new header, and
\* what is written to which key.  It is computed in four passes, each handed what the one before
\* it found, of which `p`, the plan, is the first.

\* The tracked owners of a bucket and their balances, which is what its digest is of.
In(n, p)         == {w \in Owner : bucketOf(w, p.buckets) = n}
Found(n, out, p) == [w \in (p.tracked \cap In(n, p)) \ out |-> p.balances[w]]
Held(w, p)       == IF w \in p.tracked THEN p.balances[w] ELSE 0

\* The buckets that are read: those with a balance changed, the old ones, and all if they are split.
Todo(p, old) ==
    {n \in 0..(p.buckets - 1) :
        \/ p.regrow \/ header.meta[n].digest # Found(n, {}, p)
        \/ old /\ header.meta[n].count > 0}

\* The last pass: the records dropped are gone from the digests, too.
Written(p, todo, listed, all, crowded, dropped) ==
    LET written == todo \cup {bucketOf(w, p.buckets) : w \in dropped}
        New(n)  == Restrict(all, (DOMAIN all \cap In(n, p)) \ dropped)
        meta    == [n \in 0..(p.buckets - 1) |->
                      IF n \in written
                      THEN [ digest |-> Found(n, listed \cup crowded \cup dropped, p),
                             count |-> Cardinality(DOMAIN New(n)), slot |-> Slot(n, p.regrow) ]
                      ELSE header.meta[n]]
    IN [ header |-> [header EXCEPT !.first = FALSE, !.covered = p.to, !.buckets = p.buckets,
                                   !.meta = meta, !.offCurve = @ \cup listed],
         writes |-> [k \in {<<p.buckets, n, Slot(n, p.regrow)>> :
                               n \in {i \in written : New(i) # Empty}} |-> New(k[2])],
         held   |-> [w \in Wallet |-> IF w \in DOMAIN all \ dropped THEN all[w].balance ELSE 0],
         left   |-> Wallet \cap ({w \in Owner : p.balances[w] > 0 /\ w \notin p.tracked}
                                 \cup crowded \cup dropped) ]

\* The third: the bounds, of each bucket and of all records.
Bounded(p, todo, listed, built) ==
    LET Part(n) == Restrict(built, DOMAIN built \cap In(n, p))
        crowded == UNION {Lowest(Part(n), Cardinality(DOMAIN Part(n)) - bucketMax, p.to) : n \in todo}
        rest    == {w \in DOMAIN p.recs : bucketOf(w, p.buckets) \notin todo}
        Pruned(all, total) ==
            Written(p, todo, listed, all, crowded,
                    IF total > maxRecords THEN Lowest(all, total - keepRecords, p.to) ELSE {})
    IN Pruned(Over(Restrict(built, DOMAIN built \ crowded), Restrict(p.recs, rest)),
              Cardinality(DOMAIN built \ crowded) + Counted(header.meta, (0..(p.buckets - 1)) \ todo))

\* The second: the records of the buckets read, with the balances found; vaults are told apart.
Rebuilt(p, todo) ==
    LET Rec(w)   == IF w \in DOMAIN p.recs THEN held(p.recs[w]) ELSE Nothing
        After(w) == IF w \in DOMAIN p.recs /\ Rec(w).balance = Held(w, p) THEN p.recs[w]
                    ELSE touch(Rec(w), Held(w, p), p.from, p.to)
        vaults   == {w \in p.tracked \cap Vault : bucketOf(w, p.buckets) \in todo}
        listed   == {u \in vaults : Cardinality({x \in vaults : Order[x] < Order[u]})
                                      < OFF_CURVE_MAX - Cardinality(header.offCurve)}
        seen     == {w \in (DOMAIN p.recs \cup p.tracked) \ Vault : bucketOf(w, p.buckets) \in todo}
        Kept(records) ==
            Restrict(records, {w \in seen : Held(w, p) > 0 \/ held(records[w]).acc > 0})
    IN Bounded(p, todo, listed, Kept([w \in seen |-> After(w)]))

\* The first: who is tracked, and in how many buckets.
Planned(balances, step, recs, tracked) ==
    LET known   == Counted(header.meta, DOMAIN header.meta)
        buckets == LargerOf(header.buckets, bucketCount(LargerOf(known, Cardinality(tracked))))
    IN [ balances |-> balances, recs |-> recs, tracked |-> tracked,
         from |-> header.covered, to |-> header.covered + step,
         buckets |-> buckets, regrow |-> buckets # header.buckets ]

Sampled(balances, step, old) ==
    LET Passes(p) == Rebuilt(p, Todo(p, old))
    IN Passes(Planned(balances, step, Records, Tracked(balances)))

\* The first sample is credited nothing, and none more than MAX_STEP.
Credit(seconds) == IF header.first THEN 0 ELSE LesserOf(seconds, MAX_STEP)

Sample(balances, seconds, old) ==
    /\ samples < MaxSamples /\ samples' = samples + 1
    /\ LET s == Sampled(balances, Credit(seconds), old)
       IN /\ header' = s.header
          /\ bucket' = LET all == Over(s.writes, bucket)
                        IN Restrict(all, {k \in DOMAIN all : k[1] = s.header.buckets})
          /\ gap' = [w \in Wallet |->
                        IF w \in s.left THEN "open"
                        ELSE IF gap[w] = "open" /\ s.held[w] = balances[w] THEN "mended"
                        ELSE gap[w]]
    /\ earned' = [w \in Wallet |->
                    earned[w] + LesserOf(last[w], balances[w]) * Credit(seconds)]
    /\ last' = balances
    /\ UNCHANGED losses

\* The keeper is stopped, or the store fails, after some of the buckets.
SampleFails(balances, seconds) ==
    /\ samples < MaxSamples /\ samples' = samples + 1
    /\ LET s == Sampled(balances, Credit(seconds), FALSE)
       IN \E done \in SUBSET DOMAIN s.writes : bucket' = Over(Restrict(s.writes, done), bucket)
    /\ UNCHANGED <<header, last, earned, gap, losses>>

\* weights: an epoch is weighed.  A bucket that is missing is marked to be built again.
Weigh ==
    /\ \E n \in DOMAIN header.meta : Lost(n)
    /\ header' = [header EXCEPT !.meta =
                    [n \in DOMAIN @ |-> IF Lost(n) THEN [@[n] EXCEPT !.digest = Empty, !.count = 0]
                                        ELSE @[n]]]
    /\ UNCHANGED <<bucket, last, earned, gap, samples, losses>>

\* finalize, restart
NewWindow ==
    /\ header.gen < MaxWindows /\ ~header.first
    /\ header' = [header EXCEPT !.gen = @ + 1, !.covered = 0]
    /\ earned' = [w \in Wallet |-> 0]
    /\ gap' = [w \in Wallet |-> IF gap[w] = "mended" THEN "none" ELSE gap[w]]
    /\ UNCHANGED <<bucket, last, samples, losses>>

\* The store no longer has a bucket.
Lose ==
    /\ losses < MaxLosses /\ losses' = losses + 1
    /\ \E k \in DOMAIN bucket :
          /\ bucket' = Restrict(bucket, DOMAIN bucket \ {k})
          /\ gap' = [w \in Wallet |->
                        IF \E n \in DOMAIN header.meta : k = Key(n) /\ w \in DOMAIN Live(n)
                        THEN "open" ELSE gap[w]]
    /\ UNCHANGED <<header, last, earned, samples>>

Next ==
    \/ \E balances \in Holdings, seconds \in Gaps :
          (\E old \in BOOLEAN : Sample(balances, seconds, old)) \/ SampleFails(balances, seconds)
    \/ Weigh \/ NewWindow \/ Lose

Spec == Init /\ [][Next]_holderVars

-----------------------------------------------------------------------------
(* Properties.                                                             *)

\* What an epoch is weighed by: of each wallet exactly what it earned, never more, and less only
\* after its record was lost or gave way to larger ones; nothing for vaults.  However many samples
\* stopped part way, skipped unchanged buckets or split them (holdtime.mjs:14-29).
WeightsEarned ==
    LET recs == Records IN
    /\ DOMAIN recs \subseteq Wallet
    /\ \A w \in Wallet :
          LET got == IF w \in DOMAIN recs THEN weight(recs[w], header.covered) ELSE 0
          IN got <= earned[w] /\ (gap[w] = "none" => got = earned[w])

\* The records stay within their bounds.
RecordsBounded ==
    /\ Cardinality(DOMAIN Records) <= maxRecords
    /\ \A n \in DOMAIN header.meta : Cardinality(DOMAIN Live(n)) <= bucketMax
=============================================================================
