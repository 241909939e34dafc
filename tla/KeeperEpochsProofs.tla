------------------------- MODULE KeeperEpochsProofs -------------------------
(***************************************************************************)
(* That the keeper pays each second of holding time once, and that its     *)
(* standing epochs can be claimed, for any number of crashes, of epochs    *)
(* posted elsewhere, of cancels and of nodes' lags.                        *)
(*                                                                         *)
(* The argument: a post that may still land has its record, young and      *)
(* unbroken, and is what the window was cut for - so no step takes the     *)
(* record for abandoned or the cut for dropped before it can no longer     *)
(* land; and what stands is disjoint from the window, or is the cut.       *)
(*                                                                         *)
(* And that the records an epoch is weighed by (HolderBuckets) are true to *)
(* what each wallet earned, for any owners, holdings, gaps and bounds.     *)
(* The argument of the second half: a bucket that a sample does not read   *)
(* has the digest of the balances found, so its records stay true unread;  *)
(* one that it reads weighs the lesser balance of the step; and only slots *)
(* the header does not point at are written before the header is.          *)
(***************************************************************************)
EXTENDS MCKeeper, FiniteSetTheorems, SequenceTheorems, WellFoundedInduction, TLAPS

Writing == {"record", "list", "send", "confirm", "posted", "finalize"}

\* Only this keeper posted, and nothing was cancelled.
Alone == foreign = 0 /\ cancels = 0

Headers == [window : Roots, at : {0, 1}, cut : {None} \cup Posts, next : {None} \cup Nat]

KeeperType ==
    /\ chain \in Seq(Epochs) /\ Count <= MaxEpochs
    /\ live \subseteq [index : Indexes, root : Roots, sent : BOOLEAN]
    /\ rec \in [Indexes -> {None} \cup Records]
    /\ header \in Headers
    /\ clock \in 0..MaxSeconds
    /\ view \in Nat /\ view <= Count
    /\ post \in {None} \cup Posts
    /\ foreign \in Nat /\ cancels \in Nat

Own(i, root) == rec[i] # None /\ rec[i].root = root /\ ~rec[i].cancelled

\* A post that may still land has its record - or is about to get it, unsent - and pays what no
\* standing epoch pays.
LiveKept ==
    \A tx \in live :
        /\ tx.index <= Count /\ tx.root # {} /\ tx.root \subseteq 1..clock
        /\ tx.index = Count =>
              /\ \/ pc = "record" /\ ~tx.sent /\ tx.index = post.index /\ tx.root = post.root
                 \/ Own(tx.index, tx.root) /\ ~rec[tx.index].old
              /\ \A i \in 0..Count - 1 : Posted(i) => tx.root \cap Epoch(i).root = {}

\* A record says posted only of its own epoch, and an old one's epoch is shown by every node.
RecordsTrue ==
    \A i \in Indexes : rec[i] # None =>
        /\ rec[i].status = "posted" => i < Count /\ Epoch(i).root = rec[i].root
        /\ rec[i].old /\ Posted(i) => Epoch(i).seen

\* An old record at the index a tick is about to post at is of no standing epoch.
NextIsFree == pc = "entangle" /\ rec[view] # None /\ rec[view].old => ~Posted(view)

\* What the tick is about to post, and what it has written of it.
Posting ==
    /\ pc \in {"cut"} \cup Writing => post # None /\ post.index <= Count /\ post.root # {}
                                      /\ post.root \subseteq 1..clock
    /\ pc \in {"cut", "record"} =>
          ~Posted(post.index) /\ (rec[post.index] # None => rec[post.index].root = {})
    /\ pc = "cut" => header.cut = None /\ header.window = post.root /\ header.next # None
    /\ pc \in Writing => header.cut = post
    /\ pc \in {"posted", "finalize"} => post.index < Count /\ Epoch(post.index).root = post.root

EpochsDisjoint ==
    /\ \A i \in 0..Count - 1 : Epoch(i).root \subseteq 1..clock
    /\ \A i, j \in 0..Count - 1 :
          i # j /\ Posted(i) /\ Posted(j) => Epoch(i).root \cap Epoch(j).root = {}
    /\ Alone => \A i \in 0..Count - 1 : Posted(i)

\* A header whose window holds what no epoch pays, or what the cut of it pays; and, of a keeper
\* that is alone, all that no epoch pays.
HeaderFor(h, t) ==
    /\ h.window \subseteq 1..t
    /\ h.cut # None => h.cut.root = h.window /\ h.cut.index <= Count
    /\ \A i \in 0..Count - 1 : Posted(i) =>
          \/ Epoch(i).root \cap h.window = {}
          \/ h.cut # None /\ h.cut.index = i /\ h.cut.root = Epoch(i).root
    /\ \A tx \in live : tx.index = Count =>
          h.cut # None /\ h.cut.index = tx.index /\ h.cut.root = tx.root
    /\ Alone =>
          /\ \A s \in 1..t : s \in h.window \/ \E i \in 0..Count - 1 : s \in Epoch(i).root
          /\ h.cut = None => h.next = Count \/ (h.next = None /\ Count = 0)
          /\ h.cut # None =>
                /\ h.next = h.cut.index
                /\ \/ Count = h.cut.index
                   \/ Count = h.cut.index + 1 /\ Epoch(h.cut.index).root = h.cut.root

HeaderTrue == HeaderFor(header, clock)

KeeperInv ==
    /\ KeeperType /\ LiveKept /\ LandedServed /\ RecordsTrue /\ NextIsFree /\ Posting
    /\ EpochsDisjoint /\ HeaderTrue

-----------------------------------------------------------------------------
(* The chain of epochs.                                                    *)

LEMMA ChainFacts ==
    ASSUME KeeperType
    PROVE  /\ Count \in Nat /\ Count <= MaxEpochs /\ MaxEpochs \in Nat
           /\ \A i \in 0..Count - 1 : /\ Epoch(i) \in Epochs /\ Epoch(i).root \in Roots
                                      /\ i \in Indexes /\ i \in Nat
<1>1. Count \in Nat /\ Count <= MaxEpochs /\ MaxEpochs \in Nat
  BY KeeperAssumption DEF KeeperType, Count
<1>2. \A i \in 0..Count - 1 : Epoch(i) \in Epochs
  BY <1>1 DEF KeeperType, Count, Epoch
<1>3. \A i \in 0..Count - 1 : i \in Indexes /\ i \in Nat
  BY <1>1 DEF Indexes
<1> QED
  BY <1>1, <1>2, <1>3 DEF Epochs

LEMMA AppendFacts ==
    ASSUME KeeperType, NEW root \in Roots, PostEpoch(root)
    PROVE  /\ chain' \in Seq(Epochs) /\ Count' = Count + 1
           /\ \A i \in 0..Count - 1 : chain'[i + 1] = chain[i + 1]
           /\ chain'[Count + 1].root = root /\ chain'[Count + 1].open /\ ~chain'[Count + 1].seen
<1> DEFINE e == [root |-> root, open |-> TRUE, seen |-> FALSE]
<1>1. chain \in Seq(Epochs) /\ e \in Epochs /\ chain' = Append(chain, e)
  BY DEF KeeperType, PostEpoch, Epochs
<1>2. /\ chain' \in Seq(Epochs) /\ Len(chain') = Len(chain) + 1
      /\ \A i \in 1..Len(chain) : chain'[i] = chain[i]
      /\ chain'[Len(chain) + 1] = e
  BY <1>1, AppendProperties
<1>3. \A i \in 0..Count - 1 : i + 1 \in 1..Len(chain)
  BY <1>1 DEF Count
<1> QED
  BY <1>2, <1>3 DEF Count

\* The fields of what is stored.
LEMMA StoredFields ==
    ASSUME KeeperType
    PROVE  /\ \A i \in Indexes : rec[i] # None => /\ rec[i] \in Records
                                                  /\ rec[i].root \in Roots
                                                  /\ rec[i].status \in {"pending", "posted"}
                                                  /\ rec[i].cancelled \in BOOLEAN
                                                  /\ rec[i].old \in BOOLEAN
           /\ header.window \in Roots /\ header.cut \in {None} \cup Posts
           /\ header.next \in {None} \cup Nat /\ header.at \in {0, 1}
           /\ clock \in Nat /\ MaxSeconds \in Nat /\ clock <= MaxSeconds
<1>1. clock \in Nat /\ MaxSeconds \in Nat /\ clock <= MaxSeconds
  BY KeeperAssumption DEF KeeperType
<1>2. \A i \in Indexes : rec[i] # None => rec[i] \in Records
  BY DEF KeeperType
<1> QED
  BY <1>1, <1>2 DEF KeeperType, Records, Headers

LEMMA PostFields ==
    ASSUME NEW p \in Posts
    PROVE  p.index \in Indexes /\ p.root \in Roots /\ p.index \in Nat /\ p # None
<1>1. MaxEpochs \in Nat
  BY KeeperAssumption
<1> QED
  BY <1>1, NoneAssumption DEF Posts, Indexes

LEMMA LiveFields ==
    ASSUME KeeperType, NEW tx \in live
    PROVE  tx.index \in Indexes /\ tx.root \in Roots /\ tx.sent \in BOOLEAN /\ tx.index \in Nat
<1>1. MaxEpochs \in Nat
  BY KeeperAssumption
<1> QED
  BY <1>1 DEF KeeperType, Indexes

LEMMA InitKeeperInv == Init => KeeperInv
<1> SUFFICES ASSUME Init PROVE KeeperInv
  OBVIOUS
<1>1. /\ chain = <<>> /\ live = {} /\ rec = [i \in Indexes |-> None]
      /\ header = [window |-> {}, at |-> 0, cut |-> None, next |-> None] /\ clock = 0
      /\ pc = "idle" /\ view = 0 /\ post = None /\ foreign = 0 /\ cancels = 0
  BY DEF Init
<1>2. Count = 0 /\ MaxEpochs \in Nat /\ MaxSeconds \in Nat
  BY <1>1, KeeperAssumption DEF Count
<1>3. \A i \in Nat : ~Posted(i)
  BY <1>2 DEF Posted
<1>4. chain \in Seq(Epochs)
  BY <1>1
<1>5. header \in Headers
  BY <1>1 DEF Roots, Headers
<1>6. KeeperType
  BY <1>1, <1>2, <1>4, <1>5 DEF KeeperType
<1>7. LiveKept /\ RecordsTrue /\ NextIsFree /\ Posting /\ EpochsDisjoint
  BY <1>1, <1>2 DEF LiveKept, RecordsTrue, NextIsFree, Posting, EpochsDisjoint, Writing
<1>8. LandedServed
  BY <1>2, <1>3 DEF LandedServed, Indexes
<1>9. header.window = {} /\ header.cut = None /\ header.next = None
  BY <1>1
<1>10. HeaderTrue
  BY <1>1, <1>2, <1>9 DEF HeaderTrue, HeaderFor
<1> QED
  BY <1>6, <1>7, <1>8, <1>10 DEF KeeperInv

-----------------------------------------------------------------------------
(* The window, settled, started over and sampled.                          *)

LEMMA HeaderFields ==
    ASSUME NEW h \in Headers
    PROVE  /\ h.window \in Roots /\ h.at \in {0, 1} /\ h.cut \in {None} \cup Posts
           /\ h.next \in {None} \cup Nat
           /\ h.cut # None => /\ h.cut.index \in Indexes /\ h.cut.index \in Nat
                              /\ h.cut.root \in Roots
<1>1. MaxEpochs \in Nat
  BY KeeperAssumption
<1> QED
  BY <1>1 DEF Headers, Posts, Indexes

\* finalize, of a cut that landed: what the window held is paid by the cut's epoch.
LEMMA FinalizedKeeps ==
    ASSUME KeeperInv, header.cut # None, header.cut.index < Count,
           Alone => Epoch(header.cut.index).root = header.cut.root
    PROVE  Finalized(header) \in Headers /\ HeaderFor(Finalized(header), clock)
<1> DEFINE h == Finalized(header)
           c == header.cut
<1>1. KeeperType /\ HeaderFor(header, clock)
  BY DEF KeeperInv, HeaderTrue
<1>2. header \in Headers /\ c.index \in Nat /\ Count \in Nat /\ clock \in Nat
  BY <1>1, HeaderFields, ChainFacts, StoredFields DEF KeeperType
<1>3. c.index + 1 \in Nat /\ {} \in Roots
  BY <1>2 DEF Roots
<1>4. h = [header EXCEPT !.window = {}, !.cut = None, !.next = c.index + 1]
  BY DEF Finalized
<1>5. h \in Headers /\ h.window = {} /\ h.cut = None /\ h.next = c.index + 1
  BY <1>2, <1>3, <1>4 DEF Headers
<1> HIDE DEF h
<1>6. \A tx \in live : tx.index # Count
  BY <1>1, <1>2 DEF HeaderFor
<1>7. ASSUME Alone
      PROVE  /\ \A s \in 1..clock : \E i \in 0..Count - 1 : s \in Epoch(i).root
             /\ h.next = Count
  <2>1. /\ \A s \in 1..clock : s \in header.window \/ \E i \in 0..Count - 1 : s \in Epoch(i).root
        /\ c.root = header.window /\ (Count = c.index \/ Count = c.index + 1)
    BY <1>1, <1>7 DEF HeaderFor
  <2>2. c.index \in 0..Count - 1 /\ Epoch(c.index).root = header.window
    BY <1>2, <1>7, <2>1
  <2> QED
    BY <1>2, <1>5, <2>1, <2>2
<1> QED
  BY <1>5, <1>6, <1>7 DEF HeaderFor, h

\* A cut that is given up can no longer land, and did not.
LEMMA DroppedKeeps ==
    ASSUME KeeperInv, pc # "record", header.cut # None,
           ~Own(header.cut.index, header.cut.root)
    PROVE  /\ [header EXCEPT !.cut = None] \in Headers
           /\ HeaderFor([header EXCEPT !.cut = None], clock)
<1> DEFINE h == [header EXCEPT !.cut = None]
           c == header.cut
<1>1. KeeperType /\ HeaderFor(header, clock) /\ LiveKept /\ LandedServed
  BY DEF KeeperInv, HeaderTrue
<1>2. header \in Headers /\ c.index \in Nat /\ c.index \in Indexes /\ Count \in Nat
  BY <1>1, HeaderFields, ChainFacts DEF KeeperType
<1>3. h \in Headers /\ h.window = header.window /\ h.cut = None /\ h.next = header.next
  BY <1>2 DEF Headers
<1> HIDE DEF h
<1>4. ~(Posted(c.index) /\ Epoch(c.index).root = c.root)
  BY <1>1, <1>2 DEF LandedServed, Own
<1>5. \A i \in 0..Count - 1 : Posted(i) => Epoch(i).root \cap header.window = {}
  BY <1>1, <1>4 DEF HeaderFor
<1>6. \A tx \in live : tx.index # Count
  BY <1>1 DEF HeaderFor, LiveKept
<1>7. ASSUME Alone PROVE h.next = Count
  <2>1. ~(c.index < Count /\ Epoch(c.index).root = c.root)
    BY <1>1, <1>2, <1>4, <1>7 DEF KeeperInv, EpochsDisjoint
  <2> QED
    BY <1>1, <1>2, <1>3, <1>7, <2>1 DEF HeaderFor
<1> QED
  BY <1>1, <1>3, <1>5, <1>6, <1>7 DEF HeaderFor, h

LEMMA SettledKeeps ==
    ASSUME KeeperInv, pc # "record", NEW count \in Nat, count <= Count
    PROVE  Settled(header, count) \in Headers /\ HeaderFor(Settled(header, count), clock)
<1> DEFINE c == header.cut
<1>1. KeeperType /\ HeaderFor(header, clock) /\ LandedServed /\ RecordsTrue /\ EpochsDisjoint
  BY DEF KeeperInv, HeaderTrue
<1>2. header \in Headers /\ Count \in Nat
  BY <1>1, ChainFacts DEF KeeperType
<1>3. CASE c = None \/ (c # None /\ CutStatus(c, count) = "pending")
  BY <1>1, <1>2, <1>3 DEF Settled
<1>4. CASE c # None /\ CutStatus(c, count) = "posted"
  <2>1. c.index \in Nat /\ c.index \in Indexes
    BY <1>2, <1>4, HeaderFields
  <2>2. /\ rec[c.index] # None /\ rec[c.index].root = c.root
        /\ rec[c.index].status # "pending" \/ count > c.index
    BY <1>4 DEF CutStatus
  <2>3. rec[c.index].status \in {"pending", "posted"}
    BY <1>1, <2>1, <2>2, StoredFields
  <2>4. c.index < Count
    BY <1>1, <1>2, <2>1, <2>2, <2>3 DEF RecordsTrue
  <2>5. Alone => Epoch(c.index).root = c.root
    BY <1>1, <1>2, <2>1, <2>2, <2>4 DEF EpochsDisjoint, LandedServed
  <2>6. Settled(header, count) = Finalized(header)
    BY <1>4 DEF Settled
  <2> QED
    BY <1>4, <2>4, <2>5, <2>6, FinalizedKeeps
<1>5. CASE c # None /\ CutStatus(c, count) = "dropped"
  <2>1. ~Own(c.index, c.root)
    BY <1>5 DEF CutStatus, Own
  <2>2. Settled(header, count) = [header EXCEPT !.cut = None]
    BY <1>5 DEF Settled
  <2> QED
    BY <1>5, <2>1, <2>2, DroppedKeeps
<1> QED
  BY <1>3, <1>4, <1>5 DEF CutStatus

LEMMA WindowForKeeps ==
    ASSUME KeeperInv, pc # "record", NEW count \in Nat, count <= Count
    PROVE  /\ WindowFor(count) \in Headers /\ HeaderFor(WindowFor(count), clock)
           /\ WindowFor(count).cut = None => WindowFor(count).next # None
<1> DEFINE h == Settled(header, count)
           w == WindowFor(count)
<1>1. h \in Headers /\ HeaderFor(h, clock)
  BY SettledKeeps
<1>2. Count \in Nat
  BY ChainFacts DEF KeeperInv
<1>3. \/ w = h /\ (h.cut = None => h.next # None)
      \/ /\ h.cut = None /\ (h.next = None \/ count > h.next)
         /\ w = [h EXCEPT !.next = count]
      \/ /\ h.cut = None /\ h.next # None /\ count > h.next
         /\ w = [h EXCEPT !.window = {}, !.next = count]
  <2>1. h.next \in {None} \cup Nat
    BY <1>1, HeaderFields
  <2> HIDE DEF h
  <2> QED
    BY <2>1 DEF WindowFor, h
<1> HIDE DEF h, w
<1>4. CASE h.cut = None /\ (h.next = None \/ count > h.next) /\ w = [h EXCEPT !.next = count]
  <2>1. w \in Headers /\ w.window = h.window /\ w.cut = None /\ w.next = count
    BY <1>1, <1>4 DEF Headers
  <2>3. Alone => h.next = Count \/ (h.next = None /\ Count = 0)
    BY <1>1, <1>4 DEF HeaderFor
  <2>2. Alone => count = Count
    BY <1>2, <1>4, <2>3, NoneAssumption
  <2> QED
    BY <1>1, <1>4, <2>1, <2>2, NoneAssumption DEF HeaderFor, w
<1>5. CASE /\ h.cut = None /\ h.next # None /\ count > h.next
           /\ w = [h EXCEPT !.window = {}, !.next = count]
  <2>1. {} \in Roots
    BY DEF Roots
  <2>2. w \in Headers /\ w.window = {} /\ w.cut = None /\ w.next = count
    BY <1>1, <1>5, <2>1 DEF Headers
  <2>3. ~Alone
    BY <1>1, <1>2, <1>5 DEF HeaderFor
  <2> QED
    BY <1>1, <1>5, <2>2, <2>3, NoneAssumption DEF HeaderFor, w
<1> QED
  BY <1>1, <1>3, <1>4, <1>5 DEF w

\* sample: the new second is no epoch's.
LEMMA SampleKeeps ==
    ASSUME KeeperInv, NEW h \in Headers, HeaderFor(h, clock), Sample(h)
    PROVE  header' \in Headers /\ HeaderFor(header', clock') /\ clock' \in 0..MaxSeconds
           /\ clock' \in {clock, clock + 1} /\ header'.cut = None /\ header'.next = h.next
<1>1. KeeperType /\ EpochsDisjoint
  BY DEF KeeperInv
<1>2. clock \in Nat /\ MaxSeconds \in Nat /\ clock <= MaxSeconds /\ Count \in Nat
  BY <1>1, StoredFields, ChainFacts
<1>3. h.cut = None /\ h.at \in {0, 1} /\ h.window \in Roots
  BY HeaderFields DEF Sample
<1>4. CASE h.at = 0
  <2>1. header' = [h EXCEPT !.at = 1, !.window = h.window] /\ clock' = clock
    BY <1>4 DEF Sample, Sampled
  <2>2. /\ header' \in Headers /\ header'.window = h.window /\ header'.cut = None
        /\ header'.next = h.next
    BY <1>3, <2>1 DEF Headers
  <2> QED
    BY <1>2, <1>3, <2>1, <2>2 DEF HeaderFor
<1>5. CASE h.at # 0
  <2>1. /\ header' = [h EXCEPT !.at = 1, !.window = h.window \cup {clock + 1}]
        /\ clock' = clock + 1 /\ clock < MaxSeconds
    BY <1>5 DEF Sample, Sampled
  <2>2. clock + 1 \in Seconds /\ h.window \cup {clock + 1} \in Roots
    BY <1>2, <1>3, <2>1 DEF Seconds, Roots
  <2>3. /\ header' \in Headers /\ header'.window = h.window \cup {clock + 1}
        /\ header'.cut = None /\ header'.next = h.next
    BY <1>3, <2>1, <2>2 DEF Headers
  <2>4. \A i \in 0..Count - 1 : clock + 1 \notin Epoch(i).root
    <3>1. clock + 1 \notin 1..clock
      BY <1>2
    <3> QED
      BY <1>1, <3>1 DEF EpochsDisjoint
  <2>5. header'.window \subseteq 1..clock'
    <3>1. 1..clock \subseteq 1..clock' /\ clock + 1 \in 1..clock'
      BY <1>2, <2>1
    <3> QED
      BY <2>3, <3>1 DEF HeaderFor
  <2>6. \A s \in 1..clock' : s \in 1..clock \/ s = clock + 1
    BY <1>2, <2>1
  <2>7. ASSUME Alone
        PROVE  /\ \A s \in 1..clock' : s \in header'.window \/ \E i \in 0..Count - 1 : s \in Epoch(i).root
               /\ h.next = Count \/ (h.next = None /\ Count = 0)
    BY <1>3, <2>3, <2>6, <2>7 DEF HeaderFor
  <2>8. \A i \in 0..Count - 1 : Posted(i) => Epoch(i).root \cap header'.window = {}
    BY <1>3, <2>3, <2>4 DEF HeaderFor
  <2>9. \A tx \in live : tx.index # Count
    BY <1>3 DEF HeaderFor
  <2>10. HeaderFor(header', clock')
    BY <2>3, <2>5, <2>7, <2>8, <2>9 DEF HeaderFor
  <2> QED
    BY <1>2, <2>1, <2>3, <2>10
<1> QED
  BY <1>4, <1>5

-----------------------------------------------------------------------------
(* Frames: what the steps of one kind keep.                                *)

LEMMA HeaderFrame ==
    ASSUME UNCHANGED <<chain, live, foreign, cancels>>, HeaderFor(header', clock')
    PROVE  HeaderTrue'
  BY DEF HeaderTrue, HeaderFor, Alone, Count, Epoch, Posted

\* A count read from a node misses at most an epoch that not every node shows.
LEMMA CountsReadFacts ==
    ASSUME KeeperType, NEW n \in CountsRead
    PROVE  /\ n \in Nat /\ n <= Count
           /\ \A i \in Nat : i < Count /\ i >= n => ~Epoch(i).seen
<1>1. Count \in Nat
  BY ChainFacts
<1> QED
  BY <1>1 DEF CountsRead

\* A step that leaves the chain, what may land on it and the records alone.
LEMMA WindowMoves ==
    ASSUME KeeperInv, pc # "record", UNCHANGED <<chain, live, rec, foreign, cancels>>,
           view' \in Nat, view' <= Count, post' \in {None} \cup Posts,
           header' \in Headers, HeaderFor(header', clock'), clock' \in 0..MaxSeconds,
           clock' \in {clock, clock + 1}
    PROVE  KeeperType' /\ LiveKept' /\ LandedServed' /\ RecordsTrue' /\ EpochsDisjoint' /\ HeaderTrue'
<1>1. KeeperType /\ LiveKept /\ LandedServed /\ RecordsTrue /\ EpochsDisjoint
  BY DEF KeeperInv
<1>2. UNCHANGED Count /\ \A i \in Nat : (Posted(i)' <=> Posted(i)) /\ Epoch(i)' = Epoch(i)
  BY DEF Count, Posted, Epoch
<1>3. Count \in Nat /\ MaxEpochs \in Nat /\ Count <= MaxEpochs /\ clock \in Nat
  BY <1>1, ChainFacts, StoredFields
<1>4. 1..clock \subseteq 1..clock'
  BY <1>3
<1>5. KeeperType'
  BY <1>1, <1>2 DEF KeeperType
<1>6. LiveKept'
  BY <1>1, <1>2, <1>3, <1>4 DEF LiveKept, Own
<1>7. LandedServed' /\ RecordsTrue'
  BY <1>1, <1>2 DEF LandedServed, RecordsTrue, Indexes
<1>8. EpochsDisjoint'
  BY <1>1, <1>2, <1>3, <1>4 DEF EpochsDisjoint, Alone
<1> QED
  BY <1>5, <1>6, <1>7, <1>8, HeaderFrame

\* The same, outside the posting of an epoch.
LEMMA TickMoves ==
    ASSUME KeeperInv, pc # "record", UNCHANGED <<chain, live, rec, foreign, cancels>>,
           pc' \notin {"cut"} \cup Writing, view' \in Nat, view' <= Count,
           post' \in {None} \cup Posts,
           pc' = "entangle" => view' \in CountsRead \/ (pc = "entangle" /\ view' = view),
           header' \in Headers, HeaderFor(header', clock'), clock' \in 0..MaxSeconds,
           clock' \in {clock, clock + 1}
    PROVE  KeeperInv'
<1>1. KeeperType /\ RecordsTrue /\ NextIsFree
  BY DEF KeeperInv
<1>2. \A i \in Nat : (Posted(i)' <=> Posted(i)) /\ Epoch(i)' = Epoch(i)
  BY DEF Count, Posted, Epoch
<1>3. Count \in Nat /\ MaxEpochs \in Nat /\ Count <= MaxEpochs
  BY <1>1, ChainFacts
<1>4. NextIsFree'
  <2> SUFFICES ASSUME pc' = "entangle", rec[view'] # None, rec[view'].old, Posted(view')
               PROVE  FALSE
    BY <1>2 DEF NextIsFree
  <2>1. CASE view' \in CountsRead
    <3>1. view' \in Indexes
      BY <1>3 DEF Indexes
    <3>2. Epoch(view').seen
      BY <1>1, <3>1 DEF RecordsTrue
    <3> QED
      BY <1>1, <2>1, <3>2, CountsReadFacts DEF Posted
  <2> QED
    BY <1>1, <2>1 DEF NextIsFree
<1>5. Posting'
  BY DEF Posting, Writing
<1> QED
  BY <1>4, <1>5, WindowMoves DEF KeeperInv

\* Records change, outside the posting of an epoch: they are dropped when old or past and of no
\* standing epoch, or marked posted or cancelled as their epoch is.
LEMMA RecordsChange ==
    ASSUME KeeperInv, pc \notin {"cut"} \cup Writing, pc' \notin {"cut"} \cup Writing,
           UNCHANGED <<chain, live, header, clock, foreign, cancels>>,
           view' \in Nat, view' <= Count, post' \in {None} \cup Posts,
           rec' \in [Indexes -> {None} \cup Records],
           pc' = "entangle" => pc = "entangle" /\ view' = view,
           \A i \in Indexes :
              \/ rec'[i] = rec[i]
              \/ rec[i] # None /\ rec'[i] = None /\ ~Posted(i) /\ (rec[i].old \/ i < Count)
              \/ /\ rec[i] # None /\ rec'[i] # None /\ i < Count
                 /\ rec'[i].root = rec[i].root /\ rec'[i].old = rec[i].old
                 /\ rec'[i].cancelled = rec[i].cancelled \/ ~Posted(i)
                 /\ rec'[i].status = "posted" => Epoch(i).root = rec[i].root
    PROVE  KeeperInv'
<1>1. /\ KeeperType /\ LiveKept /\ LandedServed /\ RecordsTrue /\ NextIsFree /\ Posting
      /\ EpochsDisjoint /\ HeaderTrue
  BY DEF KeeperInv
<1>2. UNCHANGED Count /\ \A i \in Nat : (Posted(i)' <=> Posted(i)) /\ Epoch(i)' = Epoch(i)
  BY DEF Count, Posted, Epoch
<1>3. Count \in Nat /\ MaxEpochs \in Nat /\ Count <= MaxEpochs
  BY <1>1, ChainFacts
<1>4. \A i \in Indexes : i \in Nat
  BY <1>3 DEF Indexes
<1>5. KeeperType'
  BY <1>1, <1>2 DEF KeeperType
<1>6. LiveKept'
  <2> SUFFICES ASSUME NEW tx \in live
               PROVE  /\ tx.index <= Count /\ tx.root # {} /\ tx.root \subseteq 1..clock
                      /\ tx.index = Count =>
                            /\ Own(tx.index, tx.root)' /\ ~rec'[tx.index].old
                            /\ \A i \in 0..Count - 1 : Posted(i) => tx.root \cap Epoch(i).root = {}
    BY <1>2, <1>3 DEF LiveKept
  <2>1. tx.index \in Indexes
    BY <1>1, LiveFields
  <2>2. tx.index = Count => Own(tx.index, tx.root) /\ ~rec[tx.index].old
    BY <1>1 DEF LiveKept, Writing
  <2>3. tx.index = Count => rec'[tx.index] = rec[tx.index]
    BY <1>3, <2>1, <2>2
  <2> QED
    BY <1>1, <2>2, <2>3 DEF LiveKept, Own
<1>7. LandedServed'
  BY <1>1, <1>2, <1>4 DEF LandedServed
<1>8. RecordsTrue'
  BY <1>1, <1>2, <1>4 DEF RecordsTrue
<1>9. NextIsFree'
  <2>1. view \in Indexes /\ view \in Nat
    BY <1>1, <1>3 DEF KeeperType, Indexes
  <2> QED
    BY <1>1, <1>2, <2>1 DEF NextIsFree
<1>10. Posting'
  BY DEF Posting, Writing
<1>11. EpochsDisjoint'
  BY <1>1, <1>2, <1>3 DEF EpochsDisjoint, Alone
<1>12. HeaderFor(header', clock')
  BY <1>1 DEF HeaderTrue
<1> QED
  BY <1>5, <1>6, <1>7, <1>8, <1>9, <1>10, <1>11, <1>12, HeaderFrame DEF KeeperInv

\* The epochs stay but for what nodes show, and for those that are cancelled.
LEMMA EpochsStay ==
    ASSUME KeeperInv, UNCHANGED <<live, rec, header, clock, pc, view, post, foreign>>,
           chain' \in Seq(Epochs), Count' = Count, cancels' \in Nat,
           \A i \in 0..Count - 1 : /\ chain'[i + 1].root = chain[i + 1].root
                                   /\ chain'[i + 1].open => chain[i + 1].open
                                   /\ chain[i + 1].seen => chain'[i + 1].seen,
           Alone' => Alone /\ \A i \in 0..Count - 1 : chain'[i + 1].open
    PROVE  KeeperInv'
<1>1. /\ KeeperType /\ LiveKept /\ LandedServed /\ RecordsTrue /\ NextIsFree /\ Posting
      /\ EpochsDisjoint /\ HeaderTrue
  BY DEF KeeperInv
<1>2. Count \in Nat /\ MaxEpochs \in Nat /\ Count <= MaxEpochs
  BY <1>1, ChainFacts
<1>3. \A i \in Nat : i < Count => i \in 0..Count - 1
  BY <1>2
<1>4. \A i \in Nat : /\ Posted(i)' => Posted(i)
                     /\ i < Count => Epoch(i)'.root = Epoch(i).root
                     /\ i < Count /\ Epoch(i).seen => Epoch(i)'.seen
  BY <1>3 DEF Posted, Epoch
<1>5. \A i \in Indexes : i \in Nat
  BY <1>2 DEF Indexes
<1>6. KeeperType'
  BY <1>1 DEF KeeperType
<1>7. LiveKept' /\ NextIsFree'
  BY <1>1, <1>2, <1>4 DEF LiveKept, Own, NextIsFree, KeeperType
<1>8. LandedServed' /\ RecordsTrue'
  BY <1>1, <1>4, <1>5 DEF LandedServed, RecordsTrue, Posted
<1>9. Posting'
  <2>1. post # None => post.index \in Nat
    BY <1>1, PostFields DEF KeeperType
  <2> QED
    BY <1>1, <1>4, <2>1 DEF Posting, Writing
<1>10. EpochsDisjoint'
  <2>1. \A i \in 0..Count - 1 : Alone' => Posted(i)'
    BY <1>1, <1>4 DEF EpochsDisjoint, Posted, Epoch
  <2> QED
    BY <1>1, <1>2, <1>4, <2>1 DEF EpochsDisjoint
<1>11. HeaderTrue'
  <2>1. header.cut # None => header.cut.index \in Nat
    BY <1>1, HeaderFields DEF KeeperType
  <2>2. \A i \in 0..Count - 1 : i \in Nat /\ i < Count
    BY <1>2
  <2>3. Alone' => HeaderFor(header, clock) /\ Alone /\ \A i \in 0..Count - 1 : Epoch(i)'.root = Epoch(i).root
    BY <1>1, <1>4, <2>2 DEF HeaderTrue
  <2>4. ASSUME Alone'
        PROVE  /\ \A s \in 1..clock : s \in header.window \/ \E i \in 0..Count - 1 : s \in Epoch(i)'.root
               /\ header.cut = None => header.next = Count \/ (header.next = None /\ Count = 0)
               /\ header.cut # None =>
                     /\ header.next = header.cut.index
                     /\ \/ Count = header.cut.index
                        \/ Count = header.cut.index + 1 /\ Epoch(header.cut.index)'.root = header.cut.root
    BY <2>1, <2>3, <2>4, <1>2, <1>4 DEF HeaderFor
  <2>5. \A i \in 0..Count - 1 : Posted(i)' =>
          \/ Epoch(i)'.root \cap header.window = {}
          \/ header.cut # None /\ header.cut.index = i /\ header.cut.root = Epoch(i)'.root
    BY <1>1, <1>4, <2>2 DEF HeaderTrue, HeaderFor
  <2> QED
    BY <1>1, <2>4, <2>5 DEF HeaderTrue, HeaderFor
<1> QED
  BY <1>6, <1>7, <1>8, <1>9, <1>10, <1>11 DEF KeeperInv

-----------------------------------------------------------------------------
(* The chain's steps.                                                      *)

\* What a post adds to the chain.
LEMMA EpochAdded ==
    ASSUME KeeperType, NEW root \in Roots, PostEpoch(root)
    PROVE  /\ chain' \in Seq(Epochs) /\ Count' = Count + 1
           /\ \A i \in Nat : i < Count => (Posted(i)' <=> Posted(i)) /\ Epoch(i)' = Epoch(i)
           /\ \A i \in Nat : i = Count =>
                 (Posted(i)' <=> root # {}) /\ Epoch(i)'.root = root /\ ~Epoch(i)'.seen
           /\ \A i \in 0..Count' - 1 : i \in Nat /\ (i < Count \/ i = Count)
<1>1. Count \in Nat
  BY ChainFacts
<1>2. /\ chain' \in Seq(Epochs) /\ Count' = Count + 1
      /\ \A i \in 0..Count - 1 : chain'[i + 1] = chain[i + 1]
      /\ chain'[Count + 1].root = root /\ chain'[Count + 1].open /\ ~chain'[Count + 1].seen
  BY AppendFacts
<1>3. \A i \in Nat : i < Count => i \in 0..Count - 1 /\ i < Count'
  BY <1>1, <1>2
<1>4. \A i \in Nat : i < Count => (Posted(i)' <=> Posted(i)) /\ Epoch(i)' = Epoch(i)
  BY <1>2, <1>3 DEF Posted, Epoch
<1>5. \A i \in Nat : i = Count =>
         (Posted(i)' <=> root # {}) /\ Epoch(i)'.root = root /\ ~Epoch(i)'.seen
  BY <1>1, <1>2 DEF Posted, Epoch
<1>6. \A i \in 0..Count' - 1 : i \in Nat /\ (i < Count \/ i = Count)
  BY <1>1, <1>2
<1> QED
  BY <1>2, <1>4, <1>5, <1>6

LEMMA LandKeeps ==
    ASSUME KeeperInv, NEW tx \in live, Land(tx)
    PROVE  KeeperInv'
<1>1. /\ KeeperType /\ LiveKept /\ LandedServed /\ RecordsTrue /\ NextIsFree /\ Posting
      /\ EpochsDisjoint /\ HeaderFor(header, clock)
  BY DEF KeeperInv, HeaderTrue
<1>2. /\ tx.sent /\ tx.index = Count /\ Count < MaxEpochs /\ PostEpoch(tx.root)
      /\ live' = live \ {tx}
      /\ UNCHANGED <<rec, list, header, clock, pc, view, post, foreign, cancels>>
  BY DEF Land, store, local, counts
<1>3. tx.root \in Roots /\ Count \in Nat /\ MaxEpochs \in Nat /\ Count \in Indexes
  BY <1>1, <1>2, LiveFields, ChainFacts
<1>4. /\ chain' \in Seq(Epochs) /\ Count' = Count + 1
      /\ \A i \in Nat : i < Count => (Posted(i)' <=> Posted(i)) /\ Epoch(i)' = Epoch(i)
      /\ \A i \in Nat : i = Count =>
            (Posted(i)' <=> tx.root # {}) /\ Epoch(i)'.root = tx.root /\ ~Epoch(i)'.seen
      /\ \A i \in 0..Count' - 1 : i \in Nat /\ (i < Count \/ i = Count)
  BY <1>1, <1>2, <1>3, EpochAdded
<1>5. /\ tx.root # {} /\ tx.root \subseteq 1..clock
      /\ Own(Count, tx.root) /\ ~rec[Count].old
      /\ \A i \in 0..Count - 1 : Posted(i) => tx.root \cap Epoch(i).root = {}
  BY <1>1, <1>2 DEF LiveKept
<1>6. \A i \in Nat : Posted(i)' => i < Count \/ i = Count
  BY <1>3, <1>4 DEF Posted
<1>7. \A i \in Indexes : i \in Nat
  BY <1>3 DEF Indexes
<1>8. KeeperType'
  BY <1>1, <1>2, <1>3, <1>4 DEF KeeperType
<1>9. LiveKept'
  <2>1. \A t \in live : t.index \in Nat /\ t.index <= Count
    BY <1>1, LiveFields DEF LiveKept
  <2> QED
    BY <1>1, <1>2, <1>3, <1>4, <2>1 DEF LiveKept
<1>10. LandedServed'
  BY <1>1, <1>2, <1>4, <1>5, <1>6, <1>7 DEF LandedServed, Own
<1>11. RecordsTrue'
  <2>1. \A i \in Indexes : rec[i] # None /\ rec[i].status = "posted" => i < Count
    BY <1>1 DEF RecordsTrue
  <2>2. ASSUME NEW i \in Indexes, rec[i] # None, rec[i].status = "posted"
        PROVE  i < Count' /\ Epoch(i)'.root = rec[i].root
    BY <1>1, <1>3, <1>4, <1>7, <2>1, <2>2 DEF RecordsTrue
  <2>3. ASSUME NEW i \in Indexes, rec[i] # None, rec[i].old, Posted(i)'
        PROVE  Epoch(i)'.seen
    BY <1>1, <1>4, <1>5, <1>6, <1>7, <2>3 DEF RecordsTrue
  <2> QED
    BY <1>2, <2>2, <2>3 DEF RecordsTrue
<1>12. NextIsFree'
  <2>1. view \in Nat /\ view <= Count
    BY <1>1 DEF KeeperType
  <2> QED
    BY <1>1, <1>2, <1>3, <1>4, <1>5, <2>1 DEF NextIsFree
<1>13. Posting'
  <2>1. post # None => post.index \in Nat
    BY <1>1, PostFields DEF KeeperType
  <2>2. ASSUME pc \in {"cut"} \cup Writing
        PROVE  post # None /\ post.index \in Nat /\ post.index <= Count
    BY <1>1, <2>1, <2>2 DEF Posting
  <2>3. ASSUME pc \in {"cut", "record"} PROVE post.index < Count
    BY <1>1, <1>3, <1>5, <2>2, <2>3 DEF Posting, Own, Writing
  <2> QED
    BY <1>1, <1>2, <1>3, <1>4, <2>2, <2>3 DEF Posting, Writing
<1>14. EpochsDisjoint'
  <2>1. \A i \in Nat : i < Count => i \in 0..Count - 1
    BY <1>3
  <2>2. \A i \in 0..Count' - 1 : Epoch(i)'.root \subseteq 1..clock
    BY <1>1, <1>4, <1>5, <2>1 DEF EpochsDisjoint
  <2>3. ASSUME NEW i \in 0..Count' - 1, NEW j \in 0..Count' - 1, i # j, Posted(i)', Posted(j)'
        PROVE  Epoch(i)'.root \cap Epoch(j)'.root = {}
    <3>1. CASE i < Count /\ j < Count
      BY <1>1, <1>4, <2>1, <2>3, <3>1 DEF EpochsDisjoint
    <3>2. CASE i = Count /\ j < Count
      BY <1>4, <1>5, <2>1, <2>3, <3>2
    <3>3. CASE j = Count /\ i < Count
      BY <1>4, <1>5, <2>1, <2>3, <3>3
    <3> QED
      BY <1>4, <2>3, <3>1, <3>2, <3>3
  <2>4. Alone' => \A i \in 0..Count' - 1 : Posted(i)'
    BY <1>1, <1>2, <1>4, <1>5, <2>1 DEF EpochsDisjoint, Alone
  <2> QED
    BY <1>2, <2>2, <2>3, <2>4 DEF EpochsDisjoint
<1>15. HeaderTrue'
  <2>1. header.cut # None /\ header.cut.index = Count /\ header.cut.root = tx.root
    BY <1>1, <1>2 DEF HeaderFor
  <2>2. \A i \in Nat : i < Count => i \in 0..Count - 1
    BY <1>3
  <2>3. \A i \in 0..Count - 1 : i \in 0..Count' - 1 /\ i \in Nat /\ i < Count
    BY <1>3, <1>4
  <2>4. \A t \in live' : t.index # Count'
    <3>1. \A t \in live : t.index \in Nat /\ t.index <= Count
      BY <1>1, LiveFields DEF LiveKept
    <3> QED
      BY <1>2, <1>3, <1>4, <3>1
  <2>5. \A i \in 0..Count' - 1 : Posted(i)' =>
           \/ Epoch(i)'.root \cap header.window = {}
           \/ header.cut.index = i /\ header.cut.root = Epoch(i)'.root
    BY <1>1, <1>4, <2>1, <2>2 DEF HeaderFor
  <2>6. ASSUME Alone
        PROVE  /\ \A s \in 1..clock : s \in header.window \/ \E i \in 0..Count' - 1 : s \in Epoch(i)'.root
               /\ header.next = header.cut.index /\ Count' = header.cut.index + 1
               /\ chain'[header.cut.index + 1].root = header.cut.root
    <3>1. /\ \A s \in 1..clock : s \in header.window \/ \E i \in 0..Count - 1 : s \in Epoch(i).root
          /\ header.next = header.cut.index
      BY <1>1, <2>1, <2>6 DEF HeaderFor
    <3>2. chain'[Count + 1].root = tx.root
      BY <1>1, <1>2, <1>3, AppendFacts
    <3> QED
      BY <1>4, <2>1, <2>3, <3>1, <3>2
  <2>7. header.cut.index <= Count' /\ header.cut.root = header.window /\ header.window \subseteq 1..clock
    BY <1>1, <1>3, <1>4, <2>1 DEF HeaderFor
  <2> QED
    BY <1>2, <2>1, <2>4, <2>5, <2>6, <2>7 DEF HeaderTrue, HeaderFor, Alone, Epoch
<1> QED
  BY <1>8, <1>9, <1>10, <1>11, <1>12, <1>13, <1>14, <1>15 DEF KeeperInv

LEMMA ForeignPostKeeps ==
    ASSUME KeeperInv, ForeignPost
    PROVE  KeeperInv'
<1>1. /\ KeeperType /\ LiveKept /\ LandedServed /\ RecordsTrue /\ NextIsFree /\ Posting
      /\ EpochsDisjoint /\ HeaderFor(header, clock)
  BY DEF KeeperInv, HeaderTrue
<1>2. /\ Count < MaxEpochs /\ PostEpoch({}) /\ foreign' = foreign + 1
      /\ UNCHANGED <<live, header, clock, pc, view, post, cancels>>
  BY DEF ForeignPost, local
<1>3. \/ rec' = rec
      \/ /\ rec[Count] = None
         /\ rec' = [rec EXCEPT ![Count] = [root |-> {}, status |-> "posted",
                                           cancelled |-> FALSE, old |-> FALSE]]
  BY DEF ForeignPost
<1>4. {} \in Roots /\ Count \in Nat /\ MaxEpochs \in Nat /\ Count \in Indexes
  <2>1. Count \in Nat /\ MaxEpochs \in Nat
    BY <1>1, ChainFacts
  <2> QED
    BY <1>2, <2>1 DEF Roots, Indexes
<1>5. /\ chain' \in Seq(Epochs) /\ Count' = Count + 1
      /\ \A i \in Nat : i < Count => (Posted(i)' <=> Posted(i)) /\ Epoch(i)' = Epoch(i)
      /\ \A i \in Nat : i = Count => ~Posted(i)' /\ Epoch(i)'.root = {}
      /\ \A i \in 0..Count' - 1 : i \in Nat /\ (i < Count \/ i = Count)
  BY <1>1, <1>2, <1>4, EpochAdded
<1>6. \A i \in Nat : Posted(i)' => i < Count
  BY <1>4, <1>5 DEF Posted
<1>7. \A i \in Indexes : i \in Nat
  BY <1>4 DEF Indexes
<1>8. /\ rec' \in [Indexes -> {None} \cup Records]
      /\ \A i \in Indexes :
            \/ rec'[i] = rec[i]
            \/ /\ i = Count /\ rec'[i].root = {} /\ ~rec'[i].old
  <2>1. rec \in [Indexes -> {None} \cup Records]
    BY <1>1 DEF KeeperType
  <2> DEFINE r == [root |-> {}, status |-> "posted", cancelled |-> FALSE, old |-> FALSE]
  <2>2. r \in Records /\ r.root = {} /\ ~r.old
    BY <1>4 DEF Records
  <2>3. rec' = rec \/ rec' = [rec EXCEPT ![Count] = r]
    BY <1>3
  <2> HIDE DEF r
  <2> QED
    BY <1>4, <2>1, <2>2, <2>3
<1>9. foreign' \in Nat /\ foreign' # 0
  BY <1>1, <1>2 DEF KeeperType
<1>10. KeeperType'
  BY <1>1, <1>2, <1>4, <1>5, <1>8, <1>9 DEF KeeperType
<1>11. \A t \in live : t.index \in Nat /\ t.index <= Count /\ t.index # Count'
  <2>1. \A t \in live : t.index \in Nat /\ t.index <= Count
    BY <1>1, LiveFields DEF LiveKept
  <2> QED
    BY <1>4, <1>5, <2>1
<1>12. LiveKept'
  BY <1>1, <1>2, <1>4, <1>5, <1>11 DEF LiveKept
<1>13. LandedServed'
  <2>1. ASSUME NEW i \in Indexes, Posted(i)' PROVE Posted(i) /\ Epoch(i)' = Epoch(i) /\ rec'[i] = rec[i]
    BY <1>4, <1>5, <1>6, <1>7, <1>8, <2>1
  <2> QED
    BY <1>1, <2>1 DEF LandedServed
<1>14. RecordsTrue'
  <2>1. ASSUME NEW i \in Indexes, rec'[i] # None, rec'[i].status = "posted"
        PROVE  i < Count' /\ Epoch(i)'.root = rec'[i].root
    <3>1. CASE rec'[i] = rec[i]
      <4>1. i < Count /\ Epoch(i).root = rec[i].root
        BY <1>1, <2>1, <3>1 DEF RecordsTrue
      <4> QED
        BY <1>4, <1>5, <1>7, <3>1, <4>1
    <3>2. CASE rec'[i] # rec[i]
      <4>1. i = Count /\ rec'[i].root = {}
        BY <1>8, <3>2
      <4> QED
        BY <1>4, <1>5, <1>7, <4>1
    <3> QED
      BY <3>1, <3>2
  <2>2. ASSUME NEW i \in Indexes, rec'[i] # None, rec'[i].old, Posted(i)'
        PROVE  Epoch(i)'.seen
    BY <1>1, <1>5, <1>6, <1>7, <1>8, <2>2 DEF RecordsTrue
  <2> QED
    BY <2>1, <2>2 DEF RecordsTrue
<1>15. NextIsFree'
  <2>1. view \in Nat /\ view <= Count /\ view \in Indexes
    BY <1>1, <1>4 DEF KeeperType, Indexes
  <2>2. ASSUME pc = "entangle", rec'[view] # None, rec'[view].old, Posted(view)'
        PROVE  FALSE
    <3>1. view' = view
      BY <1>2
    <3>2. view < Count
      BY <1>6, <2>1, <2>2, <3>1
    <3>3. rec'[view] = rec[view] /\ Posted(view)
      BY <1>4, <1>5, <1>8, <2>1, <2>2, <3>1, <3>2
    <3> QED
      BY <1>1, <2>2, <3>3 DEF NextIsFree
  <2> QED
    BY <1>2, <2>2 DEF NextIsFree
<1>16. Posting'
  <2>1. ASSUME pc \in {"cut"} \cup Writing
        PROVE  /\ post # None /\ post.index \in Nat /\ post.index <= Count
               /\ post.index \in Indexes
    <3>1. post # None /\ post.index <= Count
      BY <1>1, <2>1 DEF Posting
    <3> QED
      BY <1>1, <3>1, PostFields DEF KeeperType
  <2>2. ASSUME pc \in {"cut", "record"}
        PROVE  ~Posted(post.index)' /\ (rec'[post.index] # None => rec'[post.index].root = {})
    <3>1. ~Posted(post.index) /\ (rec[post.index] # None => rec[post.index].root = {})
      BY <1>1, <2>2 DEF Posting
    <3>2. post.index \in Nat /\ post.index \in Indexes /\ post' = post
      BY <1>2, <2>1, <2>2 DEF Writing
    <3>3. ~Posted(post.index)'
      BY <1>5, <1>6, <3>1, <3>2
    <3>4. rec'[post.index] # None => rec'[post.index].root = {}
      BY <1>8, <3>1, <3>2
    <3> QED
      BY <3>3, <3>4
  <2>3. ASSUME pc \in {"posted", "finalize"}
        PROVE  post.index < Count' /\ Epoch(post.index)'.root = post.root
    <3>1. post.index < Count /\ Epoch(post.index).root = post.root
      BY <1>1, <2>3 DEF Posting
    <3> QED
      BY <1>2, <1>4, <1>5, <2>1, <2>3, <3>1 DEF Writing
  <2>4. ASSUME pc \in {"cut"} \cup Writing
        PROVE  post # None /\ post.index <= Count' /\ post.root # {} /\ post.root \subseteq 1..clock
    <3>1. post.root # {} /\ post.root \subseteq 1..clock
      BY <1>1, <2>4 DEF Posting
    <3> QED
      BY <1>4, <1>5, <2>1, <2>4, <3>1
  <2>5. /\ pc = "cut" => header.cut = None /\ header.window = post.root /\ header.next # None
        /\ pc \in Writing => header.cut = post
    BY <1>1 DEF Posting
  <2> QED
    BY <1>2, <2>2, <2>3, <2>4, <2>5 DEF Posting
<1>17. EpochsDisjoint'
  <2>1. \A i \in Nat : i < Count => i \in 0..Count - 1
    BY <1>4
  <2>2. \A i \in 0..Count' - 1 : Epoch(i)'.root \subseteq 1..clock
    BY <1>1, <1>5, <2>1 DEF EpochsDisjoint
  <2>3. ASSUME NEW i \in 0..Count' - 1, NEW j \in 0..Count' - 1, i # j, Posted(i)', Posted(j)'
        PROVE  Epoch(i)'.root \cap Epoch(j)'.root = {}
    BY <1>1, <1>5, <1>6, <2>1, <2>3 DEF EpochsDisjoint
  <2> QED
    BY <1>2, <1>9, <2>2, <2>3 DEF EpochsDisjoint, Alone
<1>18. HeaderTrue'
  <2>1. \A i \in Nat : i < Count => i \in 0..Count - 1
    BY <1>4
  <2>2. \A i \in 0..Count' - 1 : Posted(i)' =>
           \/ Epoch(i)'.root \cap header.window = {}
           \/ header.cut # None /\ header.cut.index = i /\ header.cut.root = Epoch(i)'.root
    BY <1>1, <1>5, <1>6, <2>1 DEF HeaderFor
  <2>3. /\ header.window \subseteq 1..clock
        /\ header.cut # None => header.cut.root = header.window /\ header.cut.index <= Count'
    <3>1. header.cut # None => header.cut.index \in Nat
      BY <1>1, HeaderFields DEF KeeperType
    <3> QED
      BY <1>1, <1>4, <1>5, <3>1 DEF HeaderFor
  <2> QED
    BY <1>2, <1>9, <1>11, <2>2, <2>3 DEF HeaderTrue, HeaderFor, Alone
<1> QED
  BY <1>10, <1>12, <1>13, <1>14, <1>15, <1>16, <1>17, <1>18 DEF KeeperInv

\* Fewer posts may land: some expired, or the process died and lost what it had not sent.
LEMMA FewerLive ==
    ASSUME KeeperInv, live' \subseteq live,
           UNCHANGED <<chain, rec, header, clock, foreign, cancels>>,
           \/ UNCHANGED <<pc, view, post>>
           \/ /\ pc' = "idle" /\ view' = 0 /\ post' = None
              /\ \A tx \in live' : tx.sent
    PROVE  KeeperInv'
<1>1. /\ KeeperType /\ LiveKept /\ LandedServed /\ RecordsTrue /\ NextIsFree /\ Posting
      /\ EpochsDisjoint /\ HeaderFor(header, clock)
  BY DEF KeeperInv, HeaderTrue
<1>2. UNCHANGED Count /\ \A i \in Nat : (Posted(i)' <=> Posted(i)) /\ Epoch(i)' = Epoch(i)
  BY DEF Count, Posted, Epoch
<1>3. Count \in Nat /\ MaxEpochs \in Nat
  BY <1>1, ChainFacts
<1>4. KeeperType'
  BY <1>1, <1>2, <1>3 DEF KeeperType
<1>5. LiveKept'
  BY <1>1, <1>2, <1>3 DEF LiveKept, Own
<1>6. LandedServed' /\ RecordsTrue'
  BY <1>1, <1>2, <1>3 DEF LandedServed, RecordsTrue, Indexes
<1>7. NextIsFree'
  BY <1>1, <1>2 DEF NextIsFree, KeeperType
<1>8. Posting'
  <2>1. post # None => post.index \in Nat
    BY <1>1, PostFields DEF KeeperType
  <2> QED
    BY <1>1, <1>2, <2>1 DEF Posting, Writing
<1>9. EpochsDisjoint'
  BY <1>1, <1>2, <1>3 DEF EpochsDisjoint, Alone
<1>10. HeaderTrue'
  BY <1>1, <1>2, <1>3 DEF HeaderTrue, HeaderFor, Alone, Epoch
<1> QED
  BY <1>4, <1>5, <1>6, <1>7, <1>8, <1>9, <1>10 DEF KeeperInv

LEMMA CancelKeeps ==
    ASSUME KeeperInv, NEW i \in 0..Count - 1, CancelEpoch(i)
    PROVE  KeeperInv'
<1>1. KeeperType /\ Count \in Nat
  BY ChainFacts DEF KeeperInv
<1>2. /\ chain' = [chain EXCEPT ![i + 1].open = FALSE] /\ cancels' = cancels + 1
      /\ UNCHANGED <<live, rec, header, clock, pc, view, post, foreign>>
  BY DEF CancelEpoch, store, local
<1>3. chain \in Seq(Epochs) /\ i + 1 \in 1..Len(chain)
  BY <1>1 DEF KeeperType, Count
<1> DEFINE e == [chain[i + 1] EXCEPT !.open = FALSE]
<1>4. chain[i + 1] \in Epochs
  BY <1>3
<1>5. e \in Epochs /\ e.root = chain[i + 1].root /\ e.seen = chain[i + 1].seen /\ ~e.open
  BY <1>4 DEF Epochs
<1>6. chain' = [chain EXCEPT ![i + 1] = e]
  BY <1>2
<1> HIDE DEF e
<1>7. /\ chain' \in Seq(Epochs) /\ Len(chain') = Len(chain)
      /\ \A j \in 1..Len(chain) : chain'[j] = IF j = i + 1 THEN e ELSE chain[j]
  BY <1>3, <1>5, <1>6, ExceptSeq
<1>8. \A j \in 0..Count - 1 : j + 1 \in 1..Len(chain)
  BY <1>1, <1>3 DEF Count
<1>9. ASSUME NEW j \in 0..Count - 1
      PROVE  /\ chain'[j + 1].root = chain[j + 1].root
             /\ chain'[j + 1].open => chain[j + 1].open
             /\ chain[j + 1].seen => chain'[j + 1].seen
  BY <1>7, <1>8, <1>5
<1>10. cancels' \in Nat /\ cancels' # 0
  BY <1>1, <1>2 DEF KeeperType
<1> QED
  BY <1>2, <1>7, <1>9, <1>10, EpochsStay DEF Count, Alone

LEMMA CatchUpKeeps ==
    ASSUME KeeperInv, CatchUp
    PROVE  KeeperInv'
<1>1. KeeperType /\ Count \in Nat
  BY ChainFacts DEF KeeperInv
<1>2. /\ chain' = [i \in DOMAIN chain |-> [chain[i] EXCEPT !.seen = TRUE]]
      /\ UNCHANGED <<live, rec, header, clock, pc, view, post, foreign, cancels>>
  BY DEF CatchUp, store, local, counts
<1>3. chain \in Seq(Epochs) /\ DOMAIN chain = 1..Len(chain)
  BY <1>1 DEF KeeperType
<1>4. \A j \in 1..Len(chain) : /\ chain[j] \in Epochs
                               /\ chain'[j] = [chain[j] EXCEPT !.seen = TRUE]
  BY <1>2, <1>3
<1>5. chain' \in Seq(Epochs) /\ Len(chain') = Len(chain)
  <2>1. \A j \in 1..Len(chain) : [chain[j] EXCEPT !.seen = TRUE] \in Epochs
    BY <1>4 DEF Epochs
  <2> QED
    BY <1>2, <1>3, <2>1
<1>6. \A j \in 0..Count - 1 : j + 1 \in 1..Len(chain)
  BY <1>1, <1>3 DEF Count
<1>7. ASSUME NEW j \in 0..Count - 1
      PROVE  /\ chain'[j + 1].root = chain[j + 1].root
             /\ chain'[j + 1].open = chain[j + 1].open
             /\ chain'[j + 1].seen
  <2>1. chain[j + 1] \in Epochs /\ chain'[j + 1] = [chain[j + 1] EXCEPT !.seen = TRUE]
    BY <1>4, <1>6
  <2> QED
    BY <2>1 DEF Epochs
<1>8. Alone => \A j \in 0..Count - 1 : chain[j + 1].open
  BY DEF KeeperInv, EpochsDisjoint, Posted, Epoch
<1>9. cancels' \in Nat /\ (Alone' => Alone) /\ Count' = Count
  BY <1>1, <1>2, <1>5 DEF KeeperType, Alone, Count
<1> QED
  BY <1>2, <1>5, <1>7, <1>8, <1>9, EpochsStay

LEMMA DayKeeps ==
    ASSUME KeeperInv, Day
    PROVE  KeeperInv'
<1>1. /\ KeeperType /\ Count \in Nat /\ HeaderTrue /\ EpochsDisjoint
      /\ pc = "idle" /\ pc' = "idle"
      /\ UNCHANGED <<chain, live, rec, header, clock, view, post, foreign, cancels>>
  BY ChainFacts DEF KeeperInv, Day, store, local, counts
<1>2. header' \in Headers /\ HeaderFor(header', clock') /\ clock' \in 0..MaxSeconds
  BY <1>1 DEF KeeperType, HeaderTrue
<1>3. pc' \notin {"cut"} \cup Writing /\ pc' # "entangle" /\ pc # "record"
  BY <1>1 DEF Writing
<1>4. view' \in Nat /\ view' <= Count /\ post' \in {None} \cup Posts /\ clock' \in {clock, clock + 1}
  BY <1>1 DEF KeeperType
<1> QED
  BY <1>1, <1>2, <1>3, <1>4, TickMoves

\* A record grows old only when every node shows what landed, and no post for its index may land.
LEMMA AgeKeeps ==
    ASSUME KeeperInv, NEW i \in Indexes, Age(i)
    PROVE  KeeperInv'
<1>1. /\ KeeperType /\ LiveKept /\ LandedServed /\ RecordsTrue /\ NextIsFree /\ Posting
      /\ EpochsDisjoint /\ HeaderTrue
  BY DEF KeeperInv
<1>2. /\ pc # "entangle" /\ rec[i] # None /\ AllSeen /\ \A tx \in live : tx.index # i
      /\ rec' = [rec EXCEPT ![i].old = TRUE]
      /\ UNCHANGED <<chain, live, header, clock, pc, view, post, foreign, cancels>>
  BY DEF Age, world, local, counts
<1>3. UNCHANGED Count /\ \A j \in Nat : (Posted(j)' <=> Posted(j)) /\ Epoch(j)' = Epoch(j)
  BY <1>2 DEF Count, Posted, Epoch
<1>4. Count \in Nat /\ MaxEpochs \in Nat /\ Count <= MaxEpochs
  BY <1>1, ChainFacts
<1>5. \A j \in Indexes : j \in Nat
  BY <1>4 DEF Indexes
<1>6. rec[i] \in Records /\ rec'[i] = [rec[i] EXCEPT !.old = TRUE]
  BY <1>1, <1>2 DEF KeeperType
<1>7. /\ rec'[i] \in Records /\ rec'[i].root = rec[i].root /\ rec'[i].status = rec[i].status
      /\ rec'[i].cancelled = rec[i].cancelled /\ rec'[i] # None
  <2>1. rec'[i] \in Records
    BY <1>6 DEF Records
  <2> QED
    BY <1>6, <2>1, NoneAssumption DEF Records
<1>8. \A j \in Indexes : j # i => rec'[j] = rec[j]
  BY <1>1, <1>2 DEF KeeperType
<1>9. \A j \in Indexes : rec'[j] # None =>
         /\ rec[j] # None /\ rec'[j].root = rec[j].root /\ rec'[j].status = rec[j].status
         /\ rec'[j].cancelled = rec[j].cancelled
  BY <1>2, <1>7, <1>8
<1>10. KeeperType'
  <2>1. rec' \in [Indexes -> {None} \cup Records]
    BY <1>1, <1>2, <1>7 DEF KeeperType
  <2> QED
    BY <1>1, <1>2, <1>3, <2>1 DEF KeeperType
<1>11. LiveKept'
  <2>1. \A tx \in live : tx.index \in Indexes /\ tx.index # i
    BY <1>1, <1>2, LiveFields
  <2> QED
    BY <1>1, <1>2, <1>3, <1>4, <1>8, <2>1 DEF LiveKept, Own
<1>12. LandedServed'
  BY <1>1, <1>3, <1>5, <1>7, <1>8 DEF LandedServed
<1>13. RecordsTrue'
  <2>1. \A j \in Indexes : Posted(j) => Epoch(j).seen
    BY <1>2, <1>4, <1>5 DEF AllSeen, Posted
  <2> QED
    BY <1>1, <1>3, <1>5, <1>9, <2>1 DEF RecordsTrue
<1>14. NextIsFree'
  BY <1>2 DEF NextIsFree
<1>15. Posting'
  <2>1. post # None => post.index \in Nat /\ post.index \in Indexes
    BY <1>1, PostFields DEF KeeperType
  <2> QED
    BY <1>1, <1>2, <1>3, <1>9, <2>1 DEF Posting, Writing
<1>16. EpochsDisjoint'
  BY <1>1, <1>2, <1>3, <1>4 DEF EpochsDisjoint, Alone
<1>17. HeaderTrue'
  <2>1. HeaderFor(header', clock')
    BY <1>1, <1>2 DEF HeaderTrue
  <2> QED
    BY <1>2, <2>1, HeaderFrame
<1> QED
  BY <1>10, <1>11, <1>12, <1>13, <1>14, <1>15, <1>16, <1>17 DEF KeeperInv

LEMMA ChainKeeps == KeeperInv /\ Chain => KeeperInv'
<1> SUFFICES ASSUME KeeperInv, Chain PROVE KeeperInv'
  OBVIOUS
<1>1. ASSUME NEW tx \in live, Expire(tx) PROVE KeeperInv'
  BY <1>1, FewerLive DEF Expire, store, local, counts
<1> QED
  BY <1>1, LandKeeps, ForeignPostKeeps, CancelKeeps, CatchUpKeeps, DayKeeps, AgeKeeps DEF Chain

LEMMA CrashKeeps == KeeperInv /\ Crash => KeeperInv'
<1> SUFFICES ASSUME KeeperInv, Crash PROVE KeeperInv'
  OBVIOUS
<1>1. live' \subseteq live /\ \A tx \in live' : tx.sent
  BY DEF Crash
<1> QED
  BY <1>1, FewerLive DEF Crash, store, Goto

-----------------------------------------------------------------------------
(* The tick's steps.                                                       *)

\* A write of one record: of an index outside the bound, none.
LEMMA PutFacts ==
    ASSUME KeeperType, NEW i, NEW r, i \in Indexes => r \in {None} \cup Records, Put(i, r)
    PROVE  /\ rec' \in [Indexes -> {None} \cup Records]
           /\ \A j \in Indexes : rec'[j] = IF j = i THEN r ELSE rec[j]
<1>1. rec \in [Indexes -> {None} \cup Records] /\ rec' = [rec EXCEPT ![i] = r]
  BY DEF KeeperType, Put
<1>2. \A j \in Indexes : rec'[j] = IF j = i THEN r ELSE rec[j]
  BY <1>1
<1> QED
  BY <1>1, <1>2

LEMMA SamplePassKeeps ==
    ASSUME KeeperInv, SamplePass
    PROVE  KeeperInv'
<1>1. /\ pc = "idle" /\ pc' = "turn"
      /\ UNCHANGED <<chain, live, rec, view, post, foreign, cancels>>
  BY DEF SamplePass, Goto, world, local, counts
<1>2. KeeperType /\ HeaderTrue /\ Count \in Nat /\ clock \in Nat
  BY ChainFacts, StoredFields DEF KeeperInv
<1>3. pc' \notin {"cut"} \cup Writing /\ pc' # "entangle" /\ pc # "record"
  BY <1>1 DEF Writing
<1>4. view' \in Nat /\ view' <= Count /\ post' \in {None} \cup Posts
  BY <1>1, <1>2 DEF KeeperType
<1> DEFINE h == Settled(header, 0)
<1>5. h \in Headers /\ HeaderFor(h, clock)
  BY <1>2, <1>3, SettledKeeps
<1>6. CASE header' = h /\ clock' = clock
  BY <1>1, <1>2, <1>3, <1>4, <1>5, <1>6, TickMoves DEF KeeperType
<1>7. CASE Sample(h)
  <2> HIDE DEF h
  <2> QED
    BY <1>1, <1>3, <1>4, <1>5, <1>7, SampleKeeps, TickMoves
<1>8. CASE header' = header /\ clock' = clock
  BY <1>1, <1>2, <1>3, <1>4, <1>8, TickMoves DEF KeeperType, HeaderTrue
<1> QED
  BY <1>6, <1>7, <1>8 DEF SamplePass

\* Steps that leave the store alone.
LEMMA StillKeeps ==
    ASSUME KeeperInv,
           StartTurn \/ ReconcileFails \/ TendFails \/ NothingToPost \/ GiveUp
    PROVE  KeeperInv'
<1>1. KeeperType /\ HeaderTrue /\ Count \in Nat
  BY ChainFacts DEF KeeperInv
<1>2. header \in Headers /\ HeaderFor(header, clock) /\ clock \in 0..MaxSeconds
  BY <1>1 DEF KeeperType, HeaderTrue
<1>3. /\ pc # "record" /\ pc' \notin {"cut"} \cup Writing
      /\ UNCHANGED <<chain, live, rec, header, clock, post, foreign, cancels>>
      /\ pc' = "entangle" => view' \in CountsRead
      /\ view' \in CountsRead \/ view' = view
  <2>1. CASE StartTurn
    BY <2>1 DEF StartTurn, Goto, Writing, world, store, counts
  <2>2. CASE ReconcileFails
    BY <2>2 DEF ReconcileFails, Writing, world, store
  <2>3. CASE TendFails
    BY <2>3 DEF TendFails, Goto, Writing, world, store
  <2>4. CASE NothingToPost
    BY <2>4 DEF NothingToPost, Goto, Writing, world, store, local, counts
  <2>5. CASE GiveUp
    BY <2>5 DEF GiveUp, Goto, Writing, world, store, local, counts
  <2> QED
    BY <2>1, <2>2, <2>3, <2>4, <2>5
<1>4. view' \in Nat /\ view' <= Count /\ post' \in {None} \cup Posts
  BY <1>1, <1>3, CountsReadFacts DEF KeeperType
<1> QED
  BY <1>2, <1>3, <1>4, TickMoves

LEMMA TendWindowKeeps ==
    ASSUME KeeperInv, TendWindow
    PROVE  KeeperInv'
<1>1. /\ pc = "reconcile" /\ pc' \in {"entangle", "watch"} /\ view' \in CountsRead
      /\ UNCHANGED <<chain, live, rec, post, foreign, cancels>>
  BY DEF TendWindow, Goto, world, counts
<1>2. KeeperType /\ Count \in Nat
  BY ChainFacts DEF KeeperInv
<1>3. pc' \notin {"cut"} \cup Writing /\ pc # "record"
  BY <1>1 DEF Writing
<1>4. view' \in Nat /\ view' <= Count /\ post' \in {None} \cup Posts
  BY <1>1, <1>2, CountsReadFacts DEF KeeperType
<1> DEFINE h == WindowFor(view')
<1>5. h \in Headers /\ HeaderFor(h, clock)
  BY <1>3, <1>4, WindowForKeeps
<1>6. (header' = h /\ clock' = clock) \/ Sample(h)
  BY DEF TendWindow
<1> HIDE DEF h
<1>7. CASE header' = h /\ clock' = clock
  BY <1>1, <1>2, <1>3, <1>4, <1>5, <1>7, TickMoves DEF KeeperType
<1>8. CASE Sample(h)
  BY <1>1, <1>3, <1>4, <1>5, <1>8, SampleKeeps, TickMoves
<1> QED
  BY <1>6, <1>7, <1>8

\* What a settled record says is what the chain holds.
LEMMA SettleLandedChanges ==
    ASSUME KeeperInv, NEW i, NEW count, i \in Indexes => rec[i] # None /\ i < Count,
           SettleLanded(i, count)
    PROVE  /\ rec' \in [Indexes -> {None} \cup Records]
           /\ \A j \in Indexes :
                 \/ rec'[j] = rec[j]
                 \/ rec[j] # None /\ rec'[j] = None /\ ~Posted(j) /\ (rec[j].old \/ j < Count)
                 \/ /\ rec[j] # None /\ rec'[j] # None /\ j < Count
                    /\ rec'[j].root = rec[j].root /\ rec'[j].old = rec[j].old
                    /\ rec'[j].cancelled = rec[j].cancelled \/ ~Posted(j)
                    /\ rec'[j].status = "posted" => Epoch(j).root = rec[j].root
<1>1. KeeperType /\ LandedServed /\ rec \in [Indexes -> {None} \cup Records]
  BY DEF KeeperInv, KeeperType
<1>2. i \in Indexes => /\ rec[i] \in Records /\ rec[i].root \in Roots /\ rec[i].root # None
                       /\ rec[i] # None
  BY <1>1, StoredFields, NoneAssumption
<1>3. PICK root \in Reads(i) :
       \/ root = rec[i].root /\ Put(i, [rec[i] EXCEPT !.status = "posted"])
       \/ root # None /\ root # rec[i].root /\ Put(i, None)
       \/ root = None /\ rec[i].old /\ ~Epoch(i).open /\ Put(i, None)
       \/ UNCHANGED rec
  BY DEF SettleLanded, DropEpoch
<1>4. root # None => Epoch(i).open /\ root = Epoch(i).root
  BY <1>3 DEF Reads
<1>5. CASE root = rec[i].root /\ Put(i, [rec[i] EXCEPT !.status = "posted"])
  <2> DEFINE r == [rec[i] EXCEPT !.status = "posted"]
  <2>1. i \in Indexes => /\ r \in Records /\ r # None /\ r.root = rec[i].root
                         /\ r.old = rec[i].old /\ r.cancelled = rec[i].cancelled
    <3>1. i \in Indexes => /\ r \in Records /\ r.root = rec[i].root
                           /\ r.old = rec[i].old /\ r.cancelled = rec[i].cancelled
      BY <1>2 DEF Records
    <3> QED
      BY <3>1, NoneAssumption
  <2>2. Put(i, r)
    BY <1>5
  <2> HIDE DEF r
  <2>3. /\ rec' \in [Indexes -> {None} \cup Records]
        /\ \A j \in Indexes : rec'[j] = IF j = i THEN r ELSE rec[j]
    BY <1>1, <2>1, <2>2, PutFacts
  <2> QED
    BY <1>2, <1>4, <1>5, <2>1, <2>3
<1>6. CASE /\ Put(i, None)
           /\ (root # None /\ root # rec[i].root) \/ (root = None /\ ~Epoch(i).open)
  <2>1. /\ rec' \in [Indexes -> {None} \cup Records]
        /\ \A j \in Indexes : rec'[j] = IF j = i THEN None ELSE rec[j]
    BY <1>1, <1>6, PutFacts
  <2>2. i \in Indexes => ~Posted(i)
    BY <1>1, <1>4, <1>6 DEF LandedServed, Posted
  <2> QED
    BY <2>1, <2>2
<1> QED
  BY <1>1, <1>3, <1>5, <1>6

LEMMA ReconcileKeeps ==
    ASSUME KeeperInv, Reconcile
    PROVE  KeeperInv'
<1> DEFINE i == Head(todo)
           Changes == \A j \in Indexes :
                 \/ rec'[j] = rec[j]
                 \/ rec[j] # None /\ rec'[j] = None /\ ~Posted(j) /\ (rec[j].old \/ j < Count)
                 \/ /\ rec[j] # None /\ rec'[j] # None /\ j < Count
                    /\ rec'[j].root = rec[j].root /\ rec'[j].old = rec[j].old
                    /\ rec'[j].cancelled = rec[j].cancelled \/ ~Posted(j)
                    /\ rec'[j].status = "posted" => Epoch(j).root = rec[j].root
<1>1. /\ pc = "reconcile" /\ pc' = "reconcile"
      /\ UNCHANGED <<chain, live, header, clock, post, foreign, cancels>>
  BY DEF Reconcile, world, counts
<1>2. /\ KeeperType /\ RecordsTrue /\ rec \in [Indexes -> {None} \cup Records]
      /\ Count \in Nat /\ MaxEpochs \in Nat /\ view \in Nat /\ view <= Count
  BY ChainFacts DEF KeeperInv, KeeperType
<1>3. \/ UNCHANGED <<rec, view>>
      \/ rec[i] # None /\ i < view /\ SettleLanded(i, view) /\ view' = view
      \/ rec[i] # None /\ view' \in CountsRead /\ i < view' /\ SettleLanded(i, view')
      \/ rec[i] # None /\ rec[i].old /\ view' \in CountsRead /\ ~(i < view') /\ DropEpoch(i)
  BY DEF Reconcile, ReconcileOne
<1>4. view' \in Nat /\ view' <= Count
  BY <1>2, <1>3, CountsReadFacts
<1>5. \A j \in Indexes : j \in Nat
  BY <1>2 DEF Indexes
<1> HIDE DEF i
<1>6. rec' \in [Indexes -> {None} \cup Records] /\ Changes
  <2>1. CASE UNCHANGED <<rec, view>>
    BY <1>2, <2>1
  <2>2. ASSUME NEW count \in Nat, count <= Count, rec[i] # None, i < count, SettleLanded(i, count)
        PROVE  rec' \in [Indexes -> {None} \cup Records] /\ Changes
    <3>1. i \in Indexes => rec[i] # None /\ i < Count
      BY <1>2, <1>5, <2>2
    <3> QED
      BY <2>2, <3>1, SettleLandedChanges
  <2>3. CASE rec[i] # None /\ rec[i].old /\ view' \in CountsRead /\ ~(i < view') /\ DropEpoch(i)
    <3>1. /\ rec' \in [Indexes -> {None} \cup Records]
          /\ \A j \in Indexes : rec'[j] = IF j = i THEN None ELSE rec[j]
      BY <1>2, <2>3, PutFacts DEF DropEpoch
    <3>2. i \in Indexes => ~Posted(i)
      <4> SUFFICES ASSUME i \in Indexes, Posted(i) PROVE FALSE
        OBVIOUS
      <4>1. Epoch(i).seen
        BY <1>2, <2>3 DEF RecordsTrue
      <4>2. i \in Nat /\ i < Count /\ i >= view'
        BY <1>4, <1>5, <2>3 DEF Posted
      <4> QED
        BY <1>2, <2>3, <4>1, <4>2, CountsReadFacts
    <3> QED
      BY <2>3, <3>1, <3>2
  <2> QED
    BY <1>2, <1>3, <1>4, <2>1, <2>2, <2>3
<1>7. /\ pc \notin {"cut"} \cup Writing /\ pc' \notin {"cut"} \cup Writing /\ pc' # "entangle"
      /\ post' \in {None} \cup Posts
  BY <1>1, <1>2 DEF Writing, KeeperType
<1> QED
  BY <1>1, <1>4, <1>6, <1>7, RecordsChange

LEMMA DropStaleKeeps ==
    ASSUME KeeperInv, DropStale
    PROVE  KeeperInv'
<1>1. /\ pc = "entangle" /\ rec[view] # None /\ rec[view].old /\ Put(view, None)
      /\ UNCHANGED <<chain, live, header, clock, pc, view, post, foreign, cancels>>
  BY DEF DropStale, DropEpoch, world, local, counts
<1>2. KeeperType /\ NextIsFree
  BY DEF KeeperInv
<1>3. /\ rec' \in [Indexes -> {None} \cup Records]
      /\ \A j \in Indexes : rec'[j] = IF j = view THEN None ELSE rec[j]
  BY <1>1, <1>2, PutFacts
<1>4. ~Posted(view)
  BY <1>1, <1>2 DEF NextIsFree
<1>5. /\ pc \notin {"cut"} \cup Writing /\ pc' \notin {"cut"} \cup Writing
      /\ view' \in Nat /\ view' <= Count /\ post' \in {None} \cup Posts
  BY <1>1, <1>2 DEF Writing, KeeperType
<1> QED
  BY <1>1, <1>3, <1>4, <1>5, RecordsChange

LEMMA WatchKeeps ==
    ASSUME KeeperInv, Watch
    PROVE  KeeperInv'
<1>1. /\ pc = "watch" /\ pc' = "idle" /\ view' = 0 /\ post' = None
      /\ UNCHANGED <<chain, live, header, clock, foreign, cancels>>
  BY DEF Watch, Goto, world, counts
<1>2. KeeperType /\ RecordsTrue /\ Count \in Nat /\ rec \in [Indexes -> {None} \cup Records]
  BY ChainFacts DEF KeeperInv, KeeperType
<1>3. /\ pc \notin {"cut"} \cup Writing /\ pc' \notin {"cut"} \cup Writing /\ pc' # "entangle"
      /\ view' \in Nat /\ view' <= Count /\ post' \in {None} \cup Posts
  BY <1>1, <1>2 DEF Writing
<1>4. CASE rec' = rec
  BY <1>1, <1>2, <1>3, <1>4, RecordsChange
<1>5. ASSUME NEW i \in 0..Count - 1, rec[i] # None, rec[i].status = "posted", ~Epoch(i).open,
             rec' = [rec EXCEPT ![i].cancelled = TRUE]
      PROVE  KeeperInv'
  <2> DEFINE r == [rec[i] EXCEPT !.cancelled = TRUE]
  <2>1. i \in Indexes /\ i < Count
    BY <1>2, ChainFacts
  <2>2. rec[i] \in Records
    BY <1>2, <1>5, <2>1
  <2>3. /\ r \in Records /\ r.root = rec[i].root /\ r.old = rec[i].old
        /\ r.status = rec[i].status
    BY <2>2 DEF Records
  <2>4. r # None /\ Put(i, r)
    BY <1>5, <2>3, NoneAssumption DEF Put
  <2> HIDE DEF r
  <2>5. /\ rec' \in [Indexes -> {None} \cup Records]
        /\ \A j \in Indexes : rec'[j] = IF j = i THEN r ELSE rec[j]
    BY <1>2, <2>3, <2>4, PutFacts
  <2>6. ~Posted(i) /\ Epoch(i).root = rec[i].root
    BY <1>2, <1>5, <2>1 DEF Posted, RecordsTrue
  <2> QED
    BY <1>1, <1>3, <1>5, <2>1, <2>3, <2>4, <2>5, <2>6, RecordsChange
<1> QED
  BY <1>4, <1>5 DEF Watch, CancelProof

\* A window with enough time behind it is about to be cut for the next epoch.
LEMMA WindowKeeps ==
    ASSUME KeeperInv, Window
    PROVE  KeeperInv'
<1>1. /\ pc = "entangle" /\ rec[view] = None /\ view \in Indexes
      /\ UNCHANGED <<chain, live, rec, view, foreign, cancels>>
  BY DEF Window, world, counts
<1>2. /\ KeeperType /\ LandedServed /\ view \in Nat /\ view <= Count /\ pc # "record"
      /\ clock \in 0..MaxSeconds /\ clock \in Nat /\ post \in {None} \cup Posts
  BY <1>1, StoredFields DEF KeeperInv, KeeperType
<1> DEFINE h == WindowFor(view)
<1>3. h \in Headers /\ HeaderFor(h, clock) /\ (h.cut = None => h.next # None)
  BY <1>2, WindowForKeeps
<1>4. h.cut = None /\ (Sample(h) \/ (header' = h /\ clock' = clock))
  BY DEF Window
<1> HIDE DEF h
<1>5. /\ header' \in Headers /\ HeaderFor(header', clock') /\ clock' \in 0..MaxSeconds
      /\ clock' \in {clock, clock + 1} /\ header'.cut = None /\ header'.next # None
  <2>1. CASE Sample(h)
    BY <1>3, <1>4, <2>1, SampleKeeps
  <2>2. CASE header' = h /\ clock' = clock
    BY <1>2, <1>3, <1>4, <2>2
  <2> QED
    BY <1>4, <2>1, <2>2
<1>6. \/ post' = post /\ pc' = "watch"
      \/ /\ post' = [index |-> view, root |-> header'.window] /\ pc' = "cut"
         /\ Cardinality(header'.window) >= MIN_COVERED
  BY DEF Window, Goto
<1>7. CASE post' = post /\ pc' = "watch"
  <2>1. pc' \notin {"cut"} \cup Writing
    BY <1>7 DEF Writing
  <2> QED
    BY <1>1, <1>2, <1>5, <1>7, <2>1, TickMoves
<1>8. CASE /\ post' = [index |-> view, root |-> header'.window] /\ pc' = "cut"
           /\ Cardinality(header'.window) >= MIN_COVERED
  <2>1. header'.window \in Roots /\ header'.window \subseteq 1..clock'
    BY <1>5, HeaderFields DEF HeaderFor
  <2>2. post' \in Posts /\ post'.index = view /\ post'.root = header'.window
    BY <1>1, <1>8, <2>1 DEF Posts
  <2>3. post' # None
    BY <2>2, NoneAssumption
  <2>4. post'.root # {}
    <3>1. Cardinality({}) = 0 /\ MIN_COVERED \in Nat \ {0}
      BY FS_EmptySet, KeeperAssumption
    <3>2. ~(0 >= MIN_COVERED)
      BY <3>1
    <3> QED
      BY <1>8, <2>2, <3>1, <3>2
  <2>5. ~Posted(view) /\ Count' = Count /\ (Posted(view)' <=> Posted(view))
    BY <1>1, <1>2 DEF LandedServed, Count, Posted, Epoch
  <2>6. KeeperType' /\ LiveKept' /\ LandedServed' /\ RecordsTrue' /\ EpochsDisjoint' /\ HeaderTrue'
    BY <1>1, <1>2, <1>5, <2>2, WindowMoves
  <2>7. NextIsFree'
    BY <1>8 DEF NextIsFree
  <2>8. ~Posted(post.index)' /\ rec'[post'.index] = None
    BY <1>1, <2>2, <2>5 DEF Posted, Epoch, Count
  <2>9. Posting'
    BY <1>2, <1>5, <1>8, <2>1, <2>2, <2>3, <2>4, <2>5, <2>8 DEF Posting, Writing
  <2> QED
    BY <2>6, <2>7, <2>9 DEF KeeperInv
<1> QED
  BY <1>6, <1>7, <1>8

\* The cut is marked, for a post that is signed and not yet sent: no other may land any more.
LEMMA CutKeeps ==
    ASSUME KeeperInv, Cut
    PROVE  KeeperInv'
<1> DEFINE new == [index |-> post.index, root |-> post.root, sent |-> FALSE]
<1>1. /\ pc = "cut" /\ pc' = "record" /\ live' = live \cup {new}
      /\ header' = [header EXCEPT !.cut = post]
      /\ UNCHANGED <<chain, rec, clock, view, post, foreign, cancels>>
  BY DEF Cut, Goto, local, counts
<1>2. /\ KeeperType /\ LiveKept /\ LandedServed /\ RecordsTrue /\ Posting /\ EpochsDisjoint
      /\ HeaderFor(header, clock)
  BY DEF KeeperInv, HeaderTrue
<1>3. UNCHANGED Count /\ \A i \in Nat : (Posted(i)' <=> Posted(i)) /\ Epoch(i)' = Epoch(i)
  BY <1>1 DEF Count, Posted, Epoch
<1>4. Count \in Nat /\ MaxEpochs \in Nat /\ header \in Headers
  BY <1>2, ChainFacts DEF KeeperType
<1>5. /\ post # None /\ post.index <= Count /\ post.root # {} /\ post.root \subseteq 1..clock
      /\ ~Posted(post.index) /\ (rec[post.index] # None => rec[post.index].root = {})
      /\ header.cut = None /\ header.window = post.root /\ header.next # None
  BY <1>1, <1>2 DEF Posting
<1>6. post \in Posts /\ post.index \in Indexes /\ post.root \in Roots /\ post.index \in Nat
  BY <1>2, <1>5, PostFields DEF KeeperType
<1>7. new.index = post.index /\ new.root = post.root /\ ~new.sent
      /\ new \in [index : Indexes, root : Roots, sent : BOOLEAN]
  BY <1>6
<1> HIDE DEF new
<1>8. /\ header' \in Headers /\ header'.window = header.window /\ header'.cut = post
      /\ header'.next = header.next
  BY <1>1, <1>4, <1>6 DEF Headers
<1>9. \A tx \in live : tx.index # Count
  BY <1>2, <1>5 DEF HeaderFor
<1>10. \A i \in 0..Count - 1 : Posted(i) => post.root \cap Epoch(i).root = {}
  BY <1>2, <1>5 DEF HeaderFor
<1>11. KeeperType'
  BY <1>1, <1>2, <1>3, <1>7, <1>8 DEF KeeperType
<1>12. LiveKept'
  <2>1. \A tx \in live : tx.index <= Count /\ tx.root # {} /\ tx.root \subseteq 1..clock
    BY <1>2 DEF LiveKept
  <2>2. \A tx \in live' : tx \in live \/ tx = new
    BY <1>1
  <2>3. \A i \in 0..Count - 1 : i \in Nat
    BY <1>4
  <2>4. ASSUME NEW tx \in live'
        PROVE  /\ tx.index <= Count /\ tx.root # {} /\ tx.root \subseteq 1..clock
               /\ tx.index = Count =>
                     /\ ~tx.sent /\ tx.index = post.index /\ tx.root = post.root
                     /\ \A i \in 0..Count - 1 : Posted(i)' => tx.root \cap Epoch(i)'.root = {}
    BY <1>3, <1>5, <1>7, <1>9, <1>10, <2>1, <2>2, <2>3
  <2> QED
    BY <1>1, <1>3, <2>4 DEF LiveKept
<1>13. LandedServed' /\ RecordsTrue'
  BY <1>1, <1>2, <1>3, <1>4 DEF LandedServed, RecordsTrue, Indexes
<1>14. NextIsFree'
  BY <1>1 DEF NextIsFree
<1>15. Posting'
  BY <1>1, <1>3, <1>5, <1>6, <1>8 DEF Posting, Writing
<1>16. EpochsDisjoint'
  BY <1>1, <1>2, <1>3, <1>4 DEF EpochsDisjoint, Alone
<1>17. HeaderTrue'
  <2>1. ASSUME Alone
        PROVE  /\ \A s \in 1..clock : s \in header.window \/ \E i \in 0..Count - 1 : s \in Epoch(i).root
               /\ header.next = post.index /\ Count = post.index
    <3>1. /\ \A s \in 1..clock : s \in header.window \/ \E i \in 0..Count - 1 : s \in Epoch(i).root
          /\ header.next = Count
      BY <1>2, <1>5, <2>1 DEF HeaderFor
    <3>2. ~(post.index < Count)
      <4>1. post.index < Count => post.index \in 0..Count - 1
        BY <1>4, <1>6
      <4> QED
        BY <1>2, <1>5, <2>1, <4>1 DEF EpochsDisjoint
    <3>3. post.index = Count
      BY <1>4, <1>5, <1>6, <3>2
    <3> QED
      BY <3>1, <3>3
  <2>2. \A tx \in live' : tx.index = Count => tx.index = post.index /\ tx.root = post.root
    BY <1>1, <1>7, <1>9
  <2>3. header.window \subseteq 1..clock
    BY <1>2 DEF HeaderFor
  <2>4. \A i \in 0..Count - 1 : i \in Nat
    BY <1>4
  <2> QED
    BY <1>1, <1>3, <1>5, <1>8, <1>10, <2>1, <2>2, <2>3, <2>4 DEF HeaderTrue, HeaderFor, Alone
<1> QED
  BY <1>11, <1>12, <1>13, <1>14, <1>15, <1>16, <1>17 DEF KeeperInv

\* saveEpoch's record: the post that may land gets it before it is sent.
LEMMA RecordKeeps ==
    ASSUME KeeperInv, Record
    PROVE  KeeperInv'
<1> DEFINE r == [root |-> post.root, status |-> "pending", cancelled |-> FALSE, old |-> FALSE]
<1>1. /\ pc = "record" /\ pc' = "list" /\ Put(post.index, r)
      /\ UNCHANGED <<chain, live, header, clock, view, post, foreign, cancels>>
  BY DEF Record, Goto, world, local, counts
<1>2. /\ KeeperType /\ LiveKept /\ LandedServed /\ RecordsTrue /\ Posting /\ EpochsDisjoint
      /\ HeaderFor(header, clock)
  BY DEF KeeperInv, HeaderTrue
<1>3. UNCHANGED Count /\ \A i \in Nat : (Posted(i)' <=> Posted(i)) /\ Epoch(i)' = Epoch(i)
  BY <1>1 DEF Count, Posted, Epoch
<1>4. Count \in Nat /\ MaxEpochs \in Nat /\ \A i \in Indexes : i \in Nat
  BY <1>2, ChainFacts DEF Indexes
<1>5. /\ post # None /\ post.index <= Count /\ post.root # {} /\ post.root \subseteq 1..clock
      /\ ~Posted(post.index) /\ header.cut = post
  BY <1>1, <1>2 DEF Posting, Writing
<1>6. post \in Posts /\ post.index \in Indexes /\ post.root \in Roots /\ post.index \in Nat
  BY <1>2, <1>5, PostFields DEF KeeperType
<1>7. /\ r \in Records /\ r.root = post.root /\ r.status = "pending" /\ ~r.cancelled /\ ~r.old
      /\ r # None
  <2>1. r \in Records
    BY <1>6 DEF Records
  <2> QED
    BY <2>1, NoneAssumption
<1> HIDE DEF r
<1>8. /\ rec' \in [Indexes -> {None} \cup Records]
      /\ \A j \in Indexes : rec'[j] = IF j = post.index THEN r ELSE rec[j]
  BY <1>1, <1>2, <1>7, PutFacts
<1>9. KeeperType'
  BY <1>1, <1>2, <1>3, <1>8 DEF KeeperType
<1>10. LiveKept'
  <2> SUFFICES ASSUME NEW tx \in live
               PROVE  /\ tx.index <= Count /\ tx.root # {} /\ tx.root \subseteq 1..clock
                      /\ tx.index = Count =>
                            /\ Own(tx.index, tx.root)' /\ ~rec'[tx.index].old
                            /\ \A i \in 0..Count - 1 : Posted(i) => tx.root \cap Epoch(i).root = {}
    BY <1>1, <1>3, <1>4 DEF LiveKept
  <2>1. tx.index \in Indexes
    BY <1>2, LiveFields
  <2>2. tx.index = Count => tx.index = post.index /\ tx.root = post.root
    BY <1>2, <1>5 DEF HeaderFor
  <2>3. tx.index = Count => Own(tx.index, tx.root)' /\ ~rec'[tx.index].old
    BY <1>1, <1>7, <1>8, <2>1, <2>2 DEF Own
  <2> QED
    BY <1>2, <2>3 DEF LiveKept
<1>11. LandedServed'
  BY <1>2, <1>3, <1>4, <1>5, <1>8 DEF LandedServed
<1>12. RecordsTrue'
  BY <1>2, <1>3, <1>4, <1>7, <1>8 DEF RecordsTrue
<1>13. NextIsFree' /\ Posting'
  BY <1>1, <1>3, <1>5 DEF NextIsFree, Posting, Writing
<1>14. EpochsDisjoint'
  BY <1>1, <1>2, <1>3, <1>4 DEF EpochsDisjoint, Alone
<1>15. HeaderFor(header', clock')
  BY <1>1, <1>2
<1> QED
  BY <1>1, <1>9, <1>10, <1>11, <1>12, <1>13, <1>14, <1>15, HeaderFrame DEF KeeperInv

LEMMA ListKeeps ==
    ASSUME KeeperInv, List \/ Confirmed
    PROVE  KeeperInv'
<1>1. /\ pc \in Writing \ {"record"} /\ pc' \in Writing \ {"record"}
      /\ UNCHANGED <<chain, live, rec, header, clock, view, post, foreign, cancels>>
      /\ pc' \in {"posted", "finalize"} =>
            post.index < Count /\ Epoch(post.index).root = post.root
  <2>1. CASE List
    BY <2>1 DEF List, Goto, Writing, world, local, counts
  <2>2. CASE Confirmed
    BY <2>2 DEF Confirmed, Goto, Writing, world, store, local, counts
  <2> QED
    BY <2>1, <2>2
<1>2. KeeperType /\ Posting /\ HeaderFor(header, clock)
  BY DEF KeeperInv, HeaderTrue
<1>3. /\ view' \in Nat /\ view' <= Count /\ post' \in {None} \cup Posts /\ header' \in Headers
      /\ HeaderFor(header', clock') /\ clock' \in 0..MaxSeconds /\ clock' \in {clock, clock + 1}
  BY <1>1, <1>2 DEF KeeperType
<1>4. KeeperType' /\ LiveKept' /\ LandedServed' /\ RecordsTrue' /\ EpochsDisjoint' /\ HeaderTrue'
  BY <1>1, <1>3, WindowMoves
<1>5. pc' \notin {"cut", "record", "entangle"} /\ pc \in Writing /\ pc' \in Writing
  BY <1>1 DEF Writing
<1>6. UNCHANGED Count /\ Epoch(post.index)' = Epoch(post.index)
  BY <1>1 DEF Count, Epoch
<1>7. Posting'
  BY <1>1, <1>2, <1>5, <1>6 DEF Posting
<1> QED
  BY <1>4, <1>5, <1>7 DEF KeeperInv, NextIsFree

LEMMA BroadcastKeeps ==
    ASSUME KeeperInv, Broadcast
    PROVE  KeeperInv'
<1>1. /\ pc = "send" /\ pc' = "confirm"
      /\ live' = {IF tx.index = post.index /\ tx.root = post.root
                  THEN [tx EXCEPT !.sent = TRUE] ELSE tx : tx \in live}
      /\ UNCHANGED <<chain, rec, header, clock, view, post, foreign, cancels>>
  BY DEF Broadcast, Goto, store, local, counts
<1>2. /\ KeeperType /\ LiveKept /\ LandedServed /\ RecordsTrue /\ Posting /\ EpochsDisjoint
      /\ HeaderFor(header, clock)
  BY DEF KeeperInv, HeaderTrue
<1>3. UNCHANGED Count /\ \A i \in Nat : (Posted(i)' <=> Posted(i)) /\ Epoch(i)' = Epoch(i)
  BY <1>1 DEF Count, Posted, Epoch
<1>4. Count \in Nat /\ MaxEpochs \in Nat
  BY <1>2, ChainFacts
<1>5. ASSUME NEW t \in live'
      PROVE  /\ t \in [index : Indexes, root : Roots, sent : BOOLEAN]
             /\ \E tx \in live : t.index = tx.index /\ t.root = tx.root
  <2>1. PICK tx \in live : t = tx \/ t = [tx EXCEPT !.sent = TRUE]
    BY <1>1
  <2>2. tx \in [index : Indexes, root : Roots, sent : BOOLEAN]
    BY <1>2 DEF KeeperType
  <2> QED
    BY <2>1, <2>2
<1>6. KeeperType'
  BY <1>1, <1>2, <1>3, <1>5 DEF KeeperType
<1>7. LiveKept'
  <2> SUFFICES ASSUME NEW t \in live'
               PROVE  /\ t.index <= Count /\ t.root # {} /\ t.root \subseteq 1..clock
                      /\ t.index = Count =>
                            /\ Own(t.index, t.root)' /\ ~rec[t.index].old
                            /\ \A i \in 0..Count - 1 : Posted(i) => t.root \cap Epoch(i).root = {}
    BY <1>1, <1>3, <1>4 DEF LiveKept
  <2>1. PICK tx \in live : t.index = tx.index /\ t.root = tx.root
    BY <1>5
  <2> QED
    BY <1>1, <1>2, <2>1 DEF LiveKept, Own
<1>8. LandedServed' /\ RecordsTrue'
  BY <1>1, <1>2, <1>3, <1>4 DEF LandedServed, RecordsTrue, Indexes
<1>9. NextIsFree' /\ Posting'
  BY <1>1, <1>2, <1>3 DEF NextIsFree, Posting, Writing
<1>10. EpochsDisjoint'
  BY <1>1, <1>2, <1>3, <1>4 DEF EpochsDisjoint, Alone
<1>11. HeaderTrue'
  <2>1. \A t \in live' : t.index = Count =>
           header.cut # None /\ header.cut.index = t.index /\ header.cut.root = t.root
    BY <1>2, <1>5 DEF HeaderFor
  <2> QED
    BY <1>1, <1>2, <1>3, <1>4, <2>1 DEF HeaderTrue, HeaderFor, Alone, Epoch
<1> QED
  BY <1>6, <1>7, <1>8, <1>9, <1>10, <1>11 DEF KeeperInv

LEMMA MarkPostedKeeps ==
    ASSUME KeeperInv, MarkPosted
    PROVE  KeeperInv'
<1> DEFINE r == [root |-> post.root, status |-> "posted", cancelled |-> FALSE, old |-> FALSE]
<1>1. /\ pc = "posted" /\ pc' = "finalize" /\ Put(post.index, r)
      /\ UNCHANGED <<chain, live, header, clock, view, post, foreign, cancels>>
  BY DEF MarkPosted, Goto, world, local, counts
<1>2. /\ KeeperType /\ LiveKept /\ LandedServed /\ RecordsTrue /\ Posting /\ EpochsDisjoint
      /\ HeaderFor(header, clock)
  BY DEF KeeperInv, HeaderTrue
<1>3. UNCHANGED Count /\ \A i \in Nat : (Posted(i)' <=> Posted(i)) /\ Epoch(i)' = Epoch(i)
  BY <1>1 DEF Count, Posted, Epoch
<1>4. Count \in Nat /\ MaxEpochs \in Nat /\ \A i \in Indexes : i \in Nat
  BY <1>2, ChainFacts DEF Indexes
<1>5. /\ post # None /\ post.index < Count /\ Epoch(post.index).root = post.root
  BY <1>1, <1>2 DEF Posting, Writing
<1>6. post \in Posts /\ post.index \in Indexes /\ post.root \in Roots /\ post.index \in Nat
  BY <1>2, <1>5, PostFields DEF KeeperType
<1>7. /\ r \in Records /\ r.root = post.root /\ ~r.cancelled /\ ~r.old /\ r # None
  <2>1. r \in Records
    BY <1>6 DEF Records
  <2> QED
    BY <2>1, NoneAssumption
<1> HIDE DEF r
<1>8. /\ rec' \in [Indexes -> {None} \cup Records]
      /\ \A j \in Indexes : rec'[j] = IF j = post.index THEN r ELSE rec[j]
  BY <1>1, <1>2, <1>7, PutFacts
<1>9. KeeperType'
  BY <1>1, <1>2, <1>3, <1>8 DEF KeeperType
<1>10. LiveKept'
  <2> SUFFICES ASSUME NEW tx \in live
               PROVE  /\ tx.index <= Count /\ tx.root # {} /\ tx.root \subseteq 1..clock
                      /\ tx.index = Count =>
                            /\ Own(tx.index, tx.root)' /\ ~rec'[tx.index].old
                            /\ \A i \in 0..Count - 1 : Posted(i) => tx.root \cap Epoch(i).root = {}
    BY <1>1, <1>3, <1>4 DEF LiveKept
  <2>1. tx.index \in Indexes
    BY <1>2, LiveFields
  <2>2. tx.index = Count => Own(tx.index, tx.root) /\ ~rec[tx.index].old
    BY <1>1, <1>2 DEF LiveKept
  <2>3. tx.index = Count => rec'[tx.index] = rec[tx.index]
    BY <1>4, <1>5, <1>6, <1>8, <2>1
  <2> QED
    BY <1>2, <2>2, <2>3 DEF LiveKept, Own
<1>11. LandedServed'
  BY <1>2, <1>3, <1>4, <1>5, <1>7, <1>8 DEF LandedServed
<1>12. RecordsTrue'
  BY <1>2, <1>3, <1>4, <1>5, <1>7, <1>8 DEF RecordsTrue
<1>13. NextIsFree' /\ Posting'
  BY <1>1, <1>2, <1>3, <1>6 DEF NextIsFree, Posting, Writing
<1>14. EpochsDisjoint'
  BY <1>1, <1>2, <1>3, <1>4 DEF EpochsDisjoint, Alone
<1>15. HeaderFor(header', clock')
  BY <1>1, <1>2
<1> QED
  BY <1>1, <1>9, <1>10, <1>11, <1>12, <1>13, <1>14, <1>15, HeaderFrame DEF KeeperInv

LEMMA FinalizeKeeps ==
    ASSUME KeeperInv, Finalize
    PROVE  KeeperInv'
<1>1. /\ pc = "finalize" /\ pc' = "watch" /\ header' = Finalized(header) /\ clock' = clock
      /\ UNCHANGED <<chain, live, rec, view, post, foreign, cancels>>
  BY DEF Finalize, Goto, world, local, counts
<1>2. KeeperType /\ Posting
  BY DEF KeeperInv
<1>3. /\ header.cut # None /\ header.cut.index < Count
      /\ Epoch(header.cut.index).root = header.cut.root
  BY <1>1, <1>2 DEF Posting, Writing
<1>4. header' \in Headers /\ HeaderFor(header', clock')
  BY <1>1, <1>3, FinalizedKeeps
<1>5. /\ pc # "record" /\ pc' \notin {"cut"} \cup Writing /\ pc' # "entangle" /\ view' \in Nat
      /\ view' <= Count /\ post' \in {None} \cup Posts
      /\ clock' \in 0..MaxSeconds /\ clock' \in {clock, clock + 1}
  BY <1>1, <1>2 DEF KeeperType, Writing
<1> QED
  BY <1>1, <1>4, <1>5, TickMoves

LEMMA TickKeeps == KeeperInv /\ Tick => KeeperInv'
  BY SamplePassKeeps, StillKeeps, ReconcileKeeps, TendWindowKeeps, DropStaleKeeps, WindowKeeps,
     CutKeeps, RecordKeeps, ListKeeps, BroadcastKeeps, MarkPostedKeeps, FinalizeKeeps, WatchKeeps
     DEF Tick

LEMMA NextKeeperInv == KeeperInv /\ [Next]_vars => KeeperInv'
<1> SUFFICES ASSUME KeeperInv, [Next]_vars PROVE KeeperInv'
  OBVIOUS
<1>1. CASE UNCHANGED vars
  <2>1. UNCHANGED <<chain, live, rec, header, clock, pc, view, post, foreign, cancels>>
    BY <1>1 DEF vars, world, store, local, counts
  <2> QED
    BY <2>1, FewerLive
<1> QED
  BY <1>1, ChainKeeps, TickKeeps, CrashKeeps DEF Next

-----------------------------------------------------------------------------
(* What follows from the invariant.                                        *)

\* The inductive invariant, of every behaviour.
THEOREM KeeperAccounted == Spec => []KeeperInv
  BY InitKeeperInv, NextKeeperInv, PTL DEF Spec

\* An epoch of the keeper that stands on the chain has its record, which holds its root and has
\* not been given up: what the keeper drops, cancels or writes over is never one that landed
\* (saveEpoch before the send, dropEpoch, settleCancelled).
THEOREM LandedAlwaysServed == Spec => []LandedServed
<1>1. KeeperInv => LandedServed
  BY DEF KeeperInv
<1> QED
  BY <1>1, KeeperAccounted, PTL

\* While only this keeper posted and nothing was cancelled, every sampled second is in the window
\* or in an epoch, through any crash, expiry or lag (cutStatus, finalize, windowFor).
THEOREM NothingIsLost == Spec => []NothingLost
<1>1. KeeperInv => NothingLost
  <2> SUFFICES ASSUME KeeperInv, foreign = 0, cancels = 0, NEW s \in 1..clock
               PROVE  s \in header.window \cup UNION {Epoch(i).root : i \in 0..Count - 1}
    BY DEF NothingLost
  <2>1. s \in header.window \/ \E i \in 0..Count - 1 : s \in Epoch(i).root
    BY DEF KeeperInv, HeaderTrue, HeaderFor, Alone
  <2> QED
    BY <2>1
<1> QED
  BY <1>1, KeeperAccounted, PTL

\* The seconds the standing epochs pay.
Paid == {Epoch(i).root : i \in {j \in 0..Count - 1 : Posted(j)}}

\* clock and the chain's epochs, by what every step but three leaves of them.
LEMMA PaidStays ==
    ASSUME UNCHANGED chain
    PROVE  Paid' = Paid
  BY DEF Paid, Posted, Epoch, Count

LEMMA LandPays ==
    ASSUME KeeperInv, NEW tx \in live, Land(tx)
    PROVE  Promise!Next
<1>1. KeeperType /\ LiveKept /\ HeaderTrue
  BY DEF KeeperInv
<1>2. tx.index = Count /\ PostEpoch(tx.root) /\ clock' = clock
  BY DEF Land
<1>3. tx.root \in Roots /\ Count \in Nat
  BY <1>1, LiveFields, ChainFacts
<1>4. /\ tx.root # {} /\ tx.root \in SUBSET (1..clock)
      /\ \A i \in 0..Count - 1 : Posted(i) => tx.root \cap Epoch(i).root = {}
  BY <1>1, <1>2 DEF LiveKept
<1>5. /\ Count' = Count + 1
      /\ \A i \in Nat : i < Count => (Posted(i)' <=> Posted(i)) /\ Epoch(i)' = Epoch(i)
      /\ \A i \in Nat : i = Count => (Posted(i)' <=> tx.root # {}) /\ Epoch(i)'.root = tx.root
      /\ \A i \in 0..Count' - 1 : i \in Nat /\ (i < Count \/ i = Count)
  BY <1>1, <1>2, <1>3, EpochAdded
<1>6. \A i \in 0..Count - 1 : i \in Nat /\ i < Count /\ i \in 0..Count' - 1
  BY <1>3, <1>5
<1>7. \A i \in Nat : i < Count => i \in 0..Count - 1
  BY <1>3
<1>8. Paid' \subseteq Paid \cup {tx.root}
  <2> SUFFICES ASSUME NEW i \in 0..Count' - 1, Posted(i)'
               PROVE  Epoch(i)'.root \in Paid \cup {tx.root}
    BY DEF Paid
  <2> QED
    BY <1>5, <1>7 DEF Paid
<1>9. Paid \cup {tx.root} \subseteq Paid'
  <2>1. \A i \in 0..Count - 1 : Posted(i) => Epoch(i).root \in Paid'
    BY <1>5, <1>6 DEF Paid
  <2>2. Count \in 0..Count' - 1
    BY <1>3, <1>5
  <2>3. tx.root \in Paid'
    BY <1>3, <1>4, <1>5, <2>2 DEF Paid
  <2> QED
    BY <2>1, <2>3 DEF Paid
<1>10. \A other \in Paid : tx.root \cap other = {}
  BY <1>4 DEF Paid
<1>11. Promise!Pay(tx.root)
  BY <1>2, <1>4, <1>8, <1>9, <1>10 DEF Promise!Pay, Paid
<1> QED
  BY <1>4, <1>11 DEF Promise!Next

LEMMA CancelTakesBack ==
    ASSUME KeeperInv, NEW i \in 0..Count - 1, CancelEpoch(i)
    PROVE  Promise!Next \/ Paid' = Paid
<1>1. KeeperType /\ EpochsDisjoint /\ Count \in Nat /\ clock' = clock
  BY ChainFacts DEF KeeperInv, CancelEpoch
<1>2. chain \in Seq(Epochs) /\ i + 1 \in 1..Len(chain) /\ i \in Nat /\ i < Count
  BY <1>1 DEF KeeperType, Count
<1> DEFINE e == [chain[i + 1] EXCEPT !.open = FALSE]
<1>3. e \in Epochs /\ ~e.open /\ e.root = chain[i + 1].root
  <2>1. chain[i + 1] \in Epochs
    BY <1>2
  <2> QED
    BY <2>1 DEF Epochs
<1>4. chain' = [chain EXCEPT ![i + 1] = e]
  BY DEF CancelEpoch
<1> HIDE DEF e
<1>5. /\ Len(chain') = Len(chain)
      /\ \A j \in 1..Len(chain) : chain'[j] = IF j = i + 1 THEN e ELSE chain[j]
  BY <1>2, <1>3, <1>4, ExceptSeq
<1>6. Count' = Count /\ \A j \in 0..Count - 1 : j \in Nat /\ j + 1 \in 1..Len(chain)
  BY <1>1, <1>2, <1>5 DEF Count
<1>7. ~Posted(i)'
  BY <1>2, <1>3, <1>5 DEF Posted, Epoch
<1>8. \A j \in 0..Count - 1 : j # i => (Posted(j)' <=> Posted(j)) /\ Epoch(j)' = Epoch(j)
  BY <1>2, <1>5, <1>6 DEF Posted, Epoch
<1>9. CASE ~Posted(i)
  BY <1>6, <1>7, <1>8, <1>9 DEF Paid
<1>10. CASE Posted(i)
  <2>1. Epoch(i).root # {} /\ Epoch(i).root \in Paid
    BY <1>10 DEF Posted, Paid
  <2>2. \A j \in 0..Count - 1 : j # i /\ Posted(j) => Epoch(j).root # Epoch(i).root
    BY <1>1, <1>10, <2>1 DEF EpochsDisjoint
  <2>3. Paid' = Paid \ {Epoch(i).root}
    <3>1. Paid' \subseteq Paid \ {Epoch(i).root}
      <4> SUFFICES ASSUME NEW j \in 0..Count - 1, Posted(j)'
                   PROVE  Epoch(j)'.root \in Paid \ {Epoch(i).root}
        BY <1>6 DEF Paid
      <4> QED
        BY <1>7, <1>8, <2>2 DEF Paid
    <3>2. Paid \ {Epoch(i).root} \subseteq Paid'
      <4> SUFFICES ASSUME NEW j \in 0..Count - 1, Posted(j), Epoch(j).root # Epoch(i).root
                   PROVE  Epoch(j).root \in Paid'
        BY DEF Paid
      <4> QED
        BY <1>6, <1>8 DEF Paid
    <3> QED
      BY <3>1, <3>2
  <2>4. Promise!Cancel(Epoch(i).root)
    BY <1>1, <2>3 DEF Promise!Cancel, Paid
  <2> QED
    BY <2>1, <2>4 DEF Promise!Next, Paid
<1> QED
  BY <1>9, <1>10

\* What someone else posts with the keeper's key pays no second of its, and what nodes show none.
LEMMA OthersPayNothing ==
    ASSUME KeeperInv, ForeignPost \/ CatchUp
    PROVE  Paid' = Paid
<1>1. KeeperType /\ Count \in Nat
  BY ChainFacts DEF KeeperInv
<1>2. CASE ForeignPost
  <2>1. PostEpoch({}) /\ {} \in Roots
    BY <1>2 DEF ForeignPost, Roots
  <2>2. /\ Count' = Count + 1
        /\ \A i \in Nat : i < Count => (Posted(i)' <=> Posted(i)) /\ Epoch(i)' = Epoch(i)
        /\ \A i \in Nat : i = Count => ~Posted(i)'
        /\ \A i \in 0..Count' - 1 : i \in Nat /\ (i < Count \/ i = Count)
    BY <1>1, <2>1, EpochAdded
  <2>3. \A i \in 0..Count - 1 : i \in Nat /\ i < Count /\ i \in 0..Count' - 1
    BY <1>1, <2>2
  <2>4. \A i \in Nat : i < Count => i \in 0..Count - 1
    BY <1>1
  <2>5. {j \in 0..Count' - 1 : Posted(j)'} = {j \in 0..Count - 1 : Posted(j)}
    BY <2>2, <2>3, <2>4
  <2> QED
    BY <2>2, <2>3, <2>5 DEF Paid
<1>3. CASE CatchUp
  <2>1. chain \in Seq(Epochs) /\ chain' = [i \in DOMAIN chain |-> [chain[i] EXCEPT !.seen = TRUE]]
    BY <1>1, <1>3 DEF KeeperType, CatchUp
  <2>2. DOMAIN chain = 1..Len(chain) /\ Len(chain) \in Nat /\ \A i \in 1..Len(chain) : chain[i] \in Epochs
    BY <2>1
  <2>3. Len(chain') = Len(chain)
    BY <2>1, <2>2
  <2>4. \A i \in 1..Len(chain) : chain'[i].root = chain[i].root /\ chain'[i].open = chain[i].open
    BY <2>1, <2>2 DEF Epochs
  <2>5. \A i \in 0..Count - 1 : i + 1 \in 1..Len(chain)
    BY <2>2 DEF Count
  <2>6. Count' = Count /\ \A i \in 0..Count - 1 : (Posted(i)' <=> Posted(i)) /\ Epoch(i)'.root = Epoch(i).root
    BY <2>3, <2>4, <2>5 DEF Posted, Epoch, Count
  <2> QED
    BY <2>6 DEF Paid
<1> QED
  BY <1>2, <1>3

\* A step of the tick leaves the chain alone, and samples a second at most.
LEMMA TickSamples ==
    ASSUME KeeperInv, Tick
    PROVE  UNCHANGED chain /\ (clock' = clock \/ clock' = clock + 1)
<1>1. \A h : Sample(h) => clock' = clock \/ clock' = clock + 1
  BY DEF Sample
<1>2. CASE SamplePass \/ TendWindow \/ Window
  BY <1>1, <1>2 DEF SamplePass, TendWindow, Window, world
<1>3. CASE StartTurn \/ Reconcile \/ ReconcileFails \/ TendFails \/ NothingToPost \/ DropStale
  BY <1>3 DEF StartTurn, Reconcile, ReconcileFails, TendFails, NothingToPost, DropStale, world
<1>4. CASE Cut \/ Record \/ List \/ Broadcast \/ GiveUp
  BY <1>4 DEF Cut, Record, List, Broadcast, GiveUp, world
<1>5. CASE Confirmed \/ MarkPosted \/ Finalize \/ Watch
  BY <1>5 DEF Confirmed, MarkPosted, Finalize, Watch, world
<1> QED
  BY <1>2, <1>3, <1>4, <1>5 DEF Tick

LEMMA StepKeepsPromise == KeeperInv /\ [Next]_vars => [Promise!Next]_<<clock, Paid>>
<1> SUFFICES ASSUME KeeperInv, [Next]_vars PROVE [Promise!Next]_<<clock, Paid>>
  OBVIOUS
<1>1. CASE UNCHANGED vars
  BY <1>1, PaidStays DEF vars, world
<1>2. CASE Tick
  <2>1. Paid' = Paid /\ (clock' = clock \/ clock' = clock + 1)
    BY <1>2, PaidStays, TickSamples
  <2>2. clock' = clock + 1 => Promise!Sample
    BY <2>1 DEF Promise!Sample, Paid
  <2> QED
    BY <2>1, <2>2 DEF Promise!Next
<1>3. CASE Crash
  BY <1>3, PaidStays DEF Crash
<1>4. CASE Chain
  <2>1. ASSUME NEW tx \in live, Land(tx) PROVE Promise!Next
    BY <2>1, LandPays
  <2>2. ASSUME NEW tx \in live, Expire(tx) PROVE UNCHANGED <<clock, Paid>>
    BY <2>2, PaidStays DEF Expire
  <2>3. CASE ForeignPost \/ CatchUp
    BY <2>3, OthersPayNothing DEF ForeignPost, CatchUp
  <2>4. ASSUME NEW i \in 0..Count - 1, CancelEpoch(i) PROVE [Promise!Next]_<<clock, Paid>>
    BY <2>4, CancelTakesBack DEF CancelEpoch
  <2>5. CASE Day
    BY <2>5, PaidStays DEF Day
  <2>6. ASSUME NEW i \in Indexes, Age(i) PROVE UNCHANGED <<clock, Paid>>
    BY <2>6, PaidStays DEF Age, world
  <2> QED
    BY <1>4, <2>1, <2>2, <2>3, <2>4, <2>5, <2>6 DEF Chain
<1> QED
  BY <1>1, <1>2, <1>3, <1>4 DEF Next

\* KeepsPromise for any number of epochs, faults, foreign posts and cancels: each sampled second
\* is paid by one standing epoch at most (entangle, cutStatus, finalize).
THEOREM KeeperKeepsPromise == Spec => KeepsPromise
<1>1. Init => Promise!Init
  <2> SUFFICES ASSUME Init PROVE Promise!Init
    OBVIOUS
  <2>1. clock = 0 /\ Count = 0
    BY DEF Init, Count
  <2>2. \A j \in 0..Count - 1 : FALSE
    BY <2>1
  <2> QED
    BY <2>1, <2>2 DEF Promise!Init
<1>2. KeeperInv /\ [Next]_vars => [Promise!Next]_<<clock, Paid>>
  BY StepKeepsPromise
<1> QED
  BY <1>1, <1>2, KeeperAccounted, PTL DEF Spec, KeepsPromise, Promise!Spec, Paid

-----------------------------------------------------------------------------
(* The second half: the records of the holders (HolderBuckets).  First the *)
(* sums of what some buckets are said to hold, which are a fold.           *)

\* A set that holds 0, and with each natural the next, holds them all.
LEMMA SetInduction ==
    ASSUME NEW S, 0 \in S, \A n \in Nat : n \in S => n + 1 \in S
    PROVE  \A n \in Nat : n \in S
<1> DEFINE T == {n \in Nat : n \notin S}
<1> SUFFICES ASSUME T # {} PROVE FALSE
  OBVIOUS
<1>1. IsWellFoundedOn(OpToRel(<, Nat), Nat)
  BY NatLessThanWellFounded
<1>2. T \subseteq Nat
  OBVIOUS
<1> HIDE DEF T
<1>3. PICK m \in T : \A k \in T : <<k, m>> \notin OpToRel(<, Nat)
  BY <1>1, <1>2, WFMin
<1>4. m \in Nat /\ m \notin S /\ \A k \in Nat : k < m => k \in S
  BY <1>2, <1>3 DEF T, OpToRel
<1> QED BY <1>4

Chosen(s) == CHOOSE x \in s : TRUE

SumsEq(g, f, D) == g = [s \in D |-> IF s = {} THEN 0 ELSE f[Chosen(s)].count + g[s \ {Chosen(s)}]]

\* The counts of the parts of S, as the fold adds them up.
Sums(f, S) == CHOOSE g : SumsEq(g, f, SUBSET S)

LEMMA SumsExist ==
    ASSUME NEW f, NEW S, IsFiniteSet(S)
    PROVE  SumsEq(Sums(f, S), f, SUBSET S)
<1> DEFINE Upto(k) == {s \in SUBSET S : Cardinality(s) <= k}
           N == {k \in Nat : \E g : SumsEq(g, f, Upto(k))}
<1>1. \A s \in SUBSET S : IsFiniteSet(s) /\ Cardinality(s) \in Nat
  BY FS_Subset, FS_CardinalityType
<1>2. \A s \in SUBSET S : s # {} => /\ Chosen(s) \in s /\ s \ {Chosen(s)} \in SUBSET S
                                    /\ Cardinality(s \ {Chosen(s)}) = Cardinality(s) - 1
  <2> SUFFICES ASSUME NEW s \in SUBSET S, s # {}
               PROVE  Chosen(s) \in s /\ Cardinality(s \ {Chosen(s)}) = Cardinality(s) - 1
    OBVIOUS
  <2>1. Chosen(s) \in s
    BY DEF Chosen
  <2> QED BY <1>1, <2>1, FS_RemoveElement
<1>3. 0 \in N
  <2> DEFINE g == [s \in Upto(0) |-> 0]
  <2>1. \A s \in Upto(0) : s = {}
    BY <1>1, FS_EmptySet
  <2>2. SumsEq(g, f, Upto(0))
    BY <2>1 DEF SumsEq
  <2> QED BY <2>2
<1>4. ASSUME NEW k \in Nat, k \in N PROVE k + 1 \in N
  <2>1. PICK g : SumsEq(g, f, Upto(k))
    BY <1>4
  <2> DEFINE h == [s \in Upto(k + 1) |-> IF s = {} THEN 0 ELSE f[Chosen(s)].count + g[s \ {Chosen(s)}]]
  <2>2. \A s \in Upto(k) : h[s] = g[s]
    <3>1. \A s \in Upto(k) : s \in Upto(k + 1)
      BY <1>1
    <3>2. \A s \in Upto(k) : g[s] = IF s = {} THEN 0 ELSE f[Chosen(s)].count + g[s \ {Chosen(s)}]
      BY <2>1 DEF SumsEq
    <3> HIDE DEF Upto
    <3> QED BY <3>1, <3>2
  <2>3. \A s \in Upto(k + 1) : s # {} => s \ {Chosen(s)} \in Upto(k)
    BY <1>1, <1>2
  <2>4. SumsEq(h, f, Upto(k + 1))
    <3>1. \A s \in Upto(k + 1) :
             h[s] = IF s = {} THEN 0 ELSE f[Chosen(s)].count + h[s \ {Chosen(s)}]
      BY <2>2, <2>3
    <3>2. h = [s \in Upto(k + 1) |-> h[s]]
      OBVIOUS
    <3> HIDE DEF h, Upto
    <3> QED BY <3>1, <3>2 DEF SumsEq
  <2> HIDE DEF h, Upto
  <2>5. \E g1 : SumsEq(g1, f, Upto(k + 1))
    BY <2>4
  <2> QED BY <2>5
<1>5. \E g : SumsEq(g, f, SUBSET S)
  <2> HIDE DEF N
  <2>1. \A k \in Nat : k \in N
    BY <1>3, <1>4, SetInduction
  <2>2. Cardinality(S) \in N
    BY <1>1, <2>1
  <2>3. Upto(Cardinality(S)) = SUBSET S
    BY FS_Subset
  <2> QED BY <2>2, <2>3 DEF N
<1> QED BY <1>5 DEF Sums, SumsEq

LEMMA CountedIs ==
    ASSUME NEW f, NEW S
    PROVE  H!Counted(f, S) = Sums(f, S)[S]
BY DEF H!Counted, H!MapThenSumSet, H!MapThenFoldSet, Sums, SumsEq, Chosen

\* What finite sets hold together is no more than their counts add up to.
LEMMA CountedCovers ==
    ASSUME NEW f, NEW S, IsFiniteSet(S), NEW D,
           \A x \in S : IsFiniteSet(D[x]) /\ f[x].count \in Nat /\ Cardinality(D[x]) <= f[x].count
    PROVE  /\ IsFiniteSet(UNION {D[x] : x \in S}) /\ H!Counted(f, S) \in Nat
           /\ Cardinality(UNION {D[x] : x \in S}) <= H!Counted(f, S)
<1> DEFINE g == Sums(f, S)
           All(T) == UNION {D[x] : x \in T}
           Covers(T) == /\ g[T] \in Nat /\ IsFiniteSet(All(T)) /\ Cardinality(All(T)) \in Nat
                        /\ Cardinality(All(T)) <= g[T]
           N == {n \in Nat : \A T \in SUBSET S : Cardinality(T) = n => Covers(T)}
<1>1. \A T \in SUBSET S : IsFiniteSet(T) /\ Cardinality(T) \in Nat
  BY FS_Subset, FS_CardinalityType
<1>2. \A T \in SUBSET S : g[T] = IF T = {} THEN 0 ELSE f[Chosen(T)].count + g[T \ {Chosen(T)}]
  <2>1. SumsEq(g, f, SUBSET S)
    BY SumsExist
  <2> HIDE DEF g
  <2> QED BY <2>1 DEF SumsEq
<1> HIDE DEF g
<1>3. 0 \in N
  <2> SUFFICES ASSUME NEW T \in SUBSET S, Cardinality(T) = 0 PROVE Covers(T)
    OBVIOUS
  <2>1. T = {}
    BY <1>1, FS_EmptySet
  <2>2. All(T) = {}
    BY <2>1
  <2> HIDE DEF All
  <2> QED BY <2>1, <2>2, <1>2, FS_EmptySet
<1>4. ASSUME NEW n \in Nat, n \in N PROVE n + 1 \in N
  <2> SUFFICES ASSUME NEW T \in SUBSET S, Cardinality(T) = n + 1 PROVE Covers(T)
    OBVIOUS
  <2> DEFINE x == Chosen(T)
             U == T \ {x}
  <2>1. T # {}
    BY FS_EmptySet
  <2>2. x \in T
    BY <2>1 DEF Chosen
  <2>3. g[T] = f[x].count + g[U]
    BY <1>2, <2>1
  <2> HIDE DEF x
  <2>4. U \in SUBSET S /\ Cardinality(U) = n
    <3>1. IsFiniteSet(T) /\ Cardinality(T) = n + 1
      BY <1>1
    <3>2. Cardinality(U) = Cardinality(T) - 1
      BY <2>2, <3>1, FS_RemoveElement
    <3> QED BY <3>1, <3>2
  <2>5. Covers(U)
    BY <1>4, <2>4
  <2>6. All(T) = All(U) \cup D[x]
    BY <2>2
  <2> HIDE DEF All, U
  <2>7. /\ IsFiniteSet(D[x]) /\ f[x].count \in Nat /\ Cardinality(D[x]) <= f[x].count
        /\ Cardinality(D[x]) \in Nat
    BY <2>2, FS_CardinalityType
  <2>8. /\ IsFiniteSet(All(T)) /\ Cardinality(All(U) \cap D[x]) \in Nat
        /\ Cardinality(All(T)) = Cardinality(All(U)) + Cardinality(D[x]) - Cardinality(All(U) \cap D[x])
    <3>1. IsFiniteSet(All(U) \cap D[x])
      BY <2>7, FS_Intersection
    <3> QED BY <2>5, <2>6, <2>7, <3>1, FS_Union, FS_CardinalityType
  <2>9. Cardinality(All(T)) \in Nat
    BY <2>8, FS_CardinalityType
  <2> QED BY <2>3, <2>5, <2>7, <2>8, <2>9
<1>5. Covers(S)
  <2> HIDE DEF N
  <2>1. \A n \in Nat : n \in N
    BY <1>3, <1>4, SetInduction
  <2>2. Cardinality(S) \in N /\ S \in SUBSET S
    BY <1>1, <2>1
  <2> QED BY <2>2 DEF N
<1> QED BY <1>5, CountedIs DEF g

-----------------------------------------------------------------------------
(* The records worth least.                                                *)

LEMMA CountIs == \A S : H!Cardinality(S) = Cardinality(S)
BY DEF H!Cardinality, Cardinality

\* The elements of S with no less than c before them.
Ranked(S, before, c) == {w \in S : ~(Cardinality({v \in S : <<v, w>> \in before}) < c)}

\* In a finite set, ordered by `before`, all but c of the elements have c before them.
LEMMA RanksCount ==
    ASSUME NEW S, IsFiniteSet(S), NEW before,
           \A x \in S : <<x, x>> \notin before,
           \A x, y, z \in S : <<x, y>> \in before /\ <<y, z>> \in before => <<x, z>> \in before,
           \A x, y \in S : x # y => <<x, y>> \in before \/ <<y, x>> \in before,
           NEW c \in Int
    PROVE  \/ Ranked(S, before, c) = {}
           \/ Cardinality(Ranked(S, before, c)) + c <= Cardinality(S)
<1> DEFINE Under(w) == {v \in S : <<v, w>> \in before}
           rest == {w \in S : ~(Cardinality(Under(w)) < c)}
           n == Cardinality(S)
           rank == [w \in rest |-> Cardinality(Under(w))]
<1>1. \A w \in S : IsFiniteSet(Under(w)) /\ Cardinality(Under(w)) \in Nat
  <2> TAKE w \in S
  <2>1. Under(w) \in SUBSET S
    OBVIOUS
  <2> HIDE DEF Under
  <2> QED BY <2>1, FS_Subset, FS_CardinalityType
<1>2. n \in Nat
  BY FS_CardinalityType
<1>3. ASSUME NEW v \in S, NEW w \in S, <<v, w>> \in before
      PROVE  Cardinality(Under(v)) < Cardinality(Under(w))
  <2>1. Under(v) \in SUBSET Under(w) /\ v \in Under(w) /\ v \notin Under(v)
    BY <1>3
  <2> HIDE DEF Under
  <2>2. Cardinality(Under(v)) <= Cardinality(Under(w)) /\ Cardinality(Under(v)) # Cardinality(Under(w))
    BY <1>1, <2>1, FS_Subset
  <2> QED BY <1>1, <2>2
<1>4. ASSUME NEW w \in S PROVE Cardinality(Under(w)) < n
  <2>1. Under(w) \in SUBSET S /\ w \notin Under(w)
    OBVIOUS
  <2> HIDE DEF Under
  <2>2. Cardinality(Under(w)) <= n /\ Cardinality(Under(w)) # n
    BY <2>1, FS_Subset
  <2> QED BY <1>1, <1>2, <2>2
<1>5. rank \in Injection(rest, c..(n - 1))
  <2>1. \A w \in rest : rank[w] \in c..(n - 1)
    <3> SUFFICES ASSUME NEW w \in rest PROVE rank[w] \in c..(n - 1)
      OBVIOUS
    <3>1. w \in S /\ rank[w] = Cardinality(Under(w)) /\ ~(Cardinality(Under(w)) < c)
      OBVIOUS
    <3>2. Cardinality(Under(w)) < n /\ Cardinality(Under(w)) \in Nat
      BY <3>1, <1>1, <1>4
    <3> HIDE DEF rank, Under, n, rest
    <3> QED BY <3>1, <3>2, <1>2
  <2>2. \A v, w \in rest : v # w => rank[v] # rank[w]
    <3> SUFFICES ASSUME NEW v \in rest, NEW w \in rest, v # w PROVE rank[v] # rank[w]
      OBVIOUS
    <3>1. v \in S /\ w \in S /\ rank[v] = Cardinality(Under(v)) /\ rank[w] = Cardinality(Under(w))
      OBVIOUS
    <3>2. Cardinality(Under(v)) < Cardinality(Under(w)) \/ Cardinality(Under(w)) < Cardinality(Under(v))
      <4>1. <<v, w>> \in before \/ <<w, v>> \in before
        BY <3>1
      <4> HIDE DEF Under
      <4> QED BY <4>1, <3>1, <1>3
    <3>3. Cardinality(Under(v)) \in Nat /\ Cardinality(Under(w)) \in Nat
      BY <3>1, <1>1
    <3> HIDE DEF Under, rank, rest
    <3> QED BY <3>1, <3>2, <3>3
  <2>3. rank \in [rest -> c..(n - 1)]
    BY <2>1
  <2> HIDE DEF rank, rest
  <2> QED BY <2>2, <2>3 DEF Injection, IsInjective
<1>6. IsFiniteSet(c..(n - 1)) /\ Cardinality(c..(n - 1)) = IF c > n - 1 THEN 0 ELSE n - 1 - c + 1
  <2> HIDE DEF n
  <2>1. n - 1 \in Int
    BY <1>2
  <2> QED BY <2>1, FS_Interval
<1> HIDE DEF rank
<1>7. IsFiniteSet(rest) /\ Cardinality(rest) <= Cardinality(c..(n - 1))
  <2> HIDE DEF rest
  <2> QED BY <1>5, <1>6, FS_Injection
<1>8. Cardinality(rest) \in Nat
  <2> HIDE DEF rest
  <2> QED BY <1>7, FS_CardinalityType
<1>9. rest = {} \/ Cardinality(rest) + c <= n
  <2> HIDE DEF rest
  <2>1. CASE c > n - 1
    <3>1. Cardinality(rest) = 0
      BY <2>1, <1>6, <1>7, <1>8
    <3> QED BY <3>1, <1>7, FS_EmptySet
  <2>2. CASE ~(c > n - 1)
    <3>1. Cardinality(rest) <= n - 1 - c + 1
      BY <2>2, <1>6, <1>7
    <3> HIDE DEF n
    <3> QED BY <3>1, <1>2, <1>8
  <2> QED BY <2>1, <2>2
<1> QED BY <1>9 DEF Ranked

-----------------------------------------------------------------------------
(* Records, and what they weigh.                                           *)

RecType == [balance : Nat, clock : Nat, gen : Nat, acc : Nat]

\* A record of a window up to this one, of a time in it.
Dated(r, gen, covered) ==
    r \in RecType /\ r.gen <= gen /\ (r.gen = gen => r.clock <= covered)

HeldAt(r, gen) == IF r.gen = gen THEN r ELSE [r EXCEPT !.acc = 0, !.clock = 0]

WeightAt(r, gen, time) ==
    HeldAt(r, gen).acc + HeldAt(r, gen).balance * (time - HeldAt(r, gen).clock)

LEMMA HeldIs == \A r : H!held(r) = HeldAt(r, holders.gen)
BY DEF H!held, HeldAt

LEMMA WeightIs == \A r, time : H!weight(r, time) = WeightAt(r, holders.gen, time)
BY DEF H!held, H!weight, HeldAt, WeightAt

LEMMA TimesNat == \A x, y \in Nat : x * y \in Nat
OBVIOUS

LEMMA HeldDated ==
    ASSUME NEW gen \in Nat, NEW covered \in Nat, NEW r, Dated(r, gen, covered)
    PROVE  /\ HeldAt(r, gen) \in RecType /\ HeldAt(r, gen).balance = r.balance
           /\ HeldAt(r, gen).clock <= covered
<1>1. CASE r.gen = gen
  BY <1>1 DEF Dated, HeldAt
<1>2. CASE r.gen # gen
  <2> DEFINE h == [r EXCEPT !.acc = 0, !.clock = 0]
  <2>1. r \in RecType
    BY DEF Dated
  <2>2. h \in RecType /\ h.balance = r.balance /\ h.clock = 0
    BY <2>1 DEF RecType
  <2> HIDE DEF h
  <2>3. HeldAt(r, gen) = h
    BY <1>2 DEF HeldAt, h
  <2> QED BY <2>2, <2>3
<1> QED BY <1>1, <1>2

LEMMA TypedRec ==
    ASSUME NEW r \in RecType
    PROVE  r.balance \in Nat /\ r.clock \in Nat /\ r.gen \in Nat /\ r.acc \in Nat
BY DEF RecType

LEMMA WeightNat ==
    ASSUME NEW gen \in Nat, NEW covered \in Nat, NEW r, Dated(r, gen, covered)
    PROVE  WeightAt(r, gen, covered) \in Nat
<1> DEFINE h == HeldAt(r, gen)
<1>1. h \in RecType /\ h.clock <= covered
  BY HeldDated
<1>2. WeightAt(r, gen, covered) = h.acc + h.balance * (covered - h.clock)
  BY DEF WeightAt
<1> HIDE DEF h
<1>3. h.acc \in Nat /\ h.balance \in Nat /\ h.clock \in Nat
  BY <1>1, TypedRec
<1>4. covered - h.clock \in Nat
  BY <1>1, <1>3
<1>5. h.balance * (covered - h.clock) \in Nat
  BY <1>3, <1>4, TimesNat
<1> QED BY <1>2, <1>3, <1>5

\* As time goes on, a record that stays weighs its balance more for each second.
LEMMA WeightGrows ==
    ASSUME NEW gen \in Nat, NEW covered \in Nat, NEW step \in Nat, NEW r, Dated(r, gen, covered)
    PROVE  /\ Dated(r, gen, covered + step)
           /\ WeightAt(r, gen, covered + step) = WeightAt(r, gen, covered) + r.balance * step
<1> DEFINE h == HeldAt(r, gen)
<1>1. h \in RecType /\ h.clock <= covered /\ h.balance = r.balance
  BY HeldDated
<1>2. \A time : WeightAt(r, gen, time) = h.acc + h.balance * (time - h.clock)
  BY DEF WeightAt
<1> HIDE DEF h
<1>3. h.acc \in Nat /\ h.balance \in Nat /\ h.clock \in Nat
  BY <1>1, TypedRec
<1>4. \A x, y, z \in Int : x * (y + z) = x * y + x * z
  OBVIOUS
<1>5. covered + step - h.clock = (covered - h.clock) + step /\ covered - h.clock \in Int
  BY <1>3
<1>6. h.balance * (covered + step - h.clock) = h.balance * (covered - h.clock) + h.balance * step
  <2>1. h.balance \in Int /\ covered - h.clock \in Int /\ step \in Int
    BY <1>3
  <2> QED BY <1>4, <1>5, <2>1
<1>7. h.balance * (covered - h.clock) \in Int /\ h.balance * step \in Int
  BY <1>3
<1>8. WeightAt(r, gen, covered + step) = WeightAt(r, gen, covered) + r.balance * step
  BY <1>1, <1>2, <1>3, <1>6, <1>7
<1>9. Dated(r, gen, covered + step)
  <2>1. r \in RecType /\ r.gen <= gen /\ (r.gen = gen => r.clock <= covered)
    BY DEF Dated
  <2>2. r.clock \in Nat
    BY <2>1, TypedRec
  <2> QED BY <2>1, <2>2 DEF Dated
<1> QED BY <1>8, <1>9

\* A new window begins with nothing earned.
LEMMA WeightBegins ==
    ASSUME NEW gen \in Nat, NEW covered \in Nat, NEW r, Dated(r, gen, covered)
    PROVE  Dated(r, gen + 1, 0) /\ WeightAt(r, gen + 1, 0) = 0
<1>1. r \in RecType /\ r.gen \in Nat /\ r.gen <= gen
  BY TypedRec DEF Dated
<1>2. r.gen # gen + 1 /\ r.gen <= gen + 1
  BY <1>1
<1> DEFINE h == [r EXCEPT !.acc = 0, !.clock = 0]
<1>3. HeldAt(r, gen + 1) = h
  BY <1>2 DEF HeldAt
<1>4. h.acc = 0 /\ h.clock = 0 /\ h.balance \in Nat
  BY <1>1 DEF RecType
<1> HIDE DEF h
<1>5. WeightAt(r, gen + 1, 0) = 0 + h.balance * (0 - 0)
  BY <1>3, <1>4 DEF WeightAt
<1>6. h.balance * (0 - 0) = 0
  BY <1>4
<1> QED BY <1>1, <1>2, <1>5, <1>6 DEF Dated

LEMMA LesserIs ==
    ASSUME NEW x \in Nat, NEW y \in Nat
    PROVE  H!LesserOf(x, y) \in Nat /\ H!LesserOf(x, y) <= x /\ H!LesserOf(x, y) <= y
           /\ (x <= y => H!LesserOf(x, y) = x) /\ (y <= x => H!LesserOf(x, y) = y)
BY DEF H!LesserOf

\* A record that is touched has weighed what it did, and the lesser balance for the seconds since.
LEMMA TouchWeighs ==
    ASSUME NEW gen \in Nat, holders.gen = gen, NEW from \in Nat, NEW step \in Nat, NEW balance \in Nat,
           NEW h \in RecType, h.clock <= from,
           NEW to, to = from + step, NEW r, r = H!touch(h, balance, from, to)
    PROVE  /\ Dated(r, gen, to) /\ r.balance = balance /\ HeldAt(r, gen) = r
           /\ r.acc = h.acc + h.balance * (from - h.clock) + H!LesserOf(h.balance, balance) * step
           /\ WeightAt(r, gen, to) = r.acc
<1> DEFINE least == H!LesserOf(h.balance, balance)
           sum == h.acc + h.balance * (from - h.clock) + least * (to - from)
<1>1. h.acc \in Nat /\ h.balance \in Nat /\ h.clock \in Nat
  BY TypedRec
<1>2. least \in Nat
  BY <1>1, LesserIs
<1>3. r = [balance |-> balance, clock |-> to, gen |-> gen, acc |-> sum]
  BY DEF H!touch
<1> HIDE DEF least
<1>4. from - h.clock \in Nat /\ to - from = step /\ to \in Nat
  BY <1>1
<1>5. h.balance * (from - h.clock) \in Nat /\ least * step \in Nat
  BY <1>1, <1>2, <1>4, TimesNat
<1>6. sum = h.acc + h.balance * (from - h.clock) + least * step /\ sum \in Nat
  BY <1>1, <1>4, <1>5
<1> HIDE DEF sum
<1>7. r \in RecType /\ r.balance = balance /\ r.clock = to /\ r.acc = sum /\ r.gen = gen
  BY <1>3, <1>4, <1>6 DEF RecType
<1>8. Dated(r, gen, to) /\ HeldAt(r, gen) = r
  BY <1>4, <1>7 DEF Dated, HeldAt
<1>9. WeightAt(r, gen, to) = sum + balance * (to - to)
  BY <1>7, <1>8 DEF WeightAt
<1>10. balance * (to - to) = 0
  <2>1. to - to = 0 /\ balance * 0 = 0
    BY <1>4
  <2> QED BY <2>1
<1>11. WeightAt(r, gen, to) = sum
  BY <1>6, <1>9, <1>10
<1> QED BY <1>6, <1>7, <1>8, <1>11 DEF least

-----------------------------------------------------------------------------
(* What is left when the records worth least go.                           *)

LEMMA OwnersOrdered ==
    /\ H!Owner = Wallet \cup Vault /\ IsFiniteSet(H!Owner)
    /\ \A w \in H!Owner : Order[w] \in Nat /\ Hash[w] \in Nat
    /\ \A u, w \in H!Owner : Order[u] = Order[w] => u = w
BY HoldersAssumption DEF H!Owner

LEMMA LowestLeaves ==
    ASSUME holders.gen \in Nat, NEW covered \in Nat, NEW recs, DOMAIN recs \subseteq H!Owner,
           \A w \in DOMAIN recs : Dated(recs[w], holders.gen, covered),
           NEW count \in Int, NEW to \in Nat
    PROVE  /\ H!Lowest(recs, count, to) \subseteq DOMAIN recs
           /\ LET rest == DOMAIN recs \ H!Lowest(recs, count, to)
              IN rest = {} \/ Cardinality(rest) + count <= Cardinality(DOMAIN recs)
<1> DEFINE S == DOMAIN recs
           Held(w) == HeldAt(recs[w], holders.gen)
           Worth(w) == Held(w).acc + recs[w].balance * (to - Held(w).clock + MAX_STEP)
           Below(v, w) == Worth(v) < Worth(w) \/ (Worth(v) = Worth(w) /\ Order[v] < Order[w])
           before == {q \in S \X S : Below(q[1], q[2])}
           Low(w) == {v \in S : <<v, w>> \in before}
           rest == {w \in S : ~(Cardinality(Low(w)) < count)}
<1>1. IsFiniteSet(S) /\ \A w \in S : Order[w] \in Nat
  BY OwnersOrdered, FS_Subset
<1>2. \A u, w \in S : Order[u] = Order[w] => u = w
  BY OwnersOrdered
<1>3. \A w \in S : Worth(w) \in Int
  <2> SUFFICES ASSUME NEW w \in S PROVE Worth(w) \in Int
    OBVIOUS
  <2>1. Held(w) \in RecType /\ recs[w] \in RecType
    BY HeldDated DEF Dated
  <2>2. Held(w).acc \in Int /\ Held(w).clock \in Int /\ recs[w].balance \in Int
    BY <2>1, TypedRec
  <2>3. MAX_STEP \in Nat
    BY HoldersAssumption
  <2>4. to - Held(w).clock + MAX_STEP \in Int
    BY <2>2, <2>3
  <2> HIDE DEF Held
  <2>5. recs[w].balance * (to - Held(w).clock + MAX_STEP) \in Int
    BY <2>2, <2>4
  <2> QED BY <2>2, <2>5
<1>4. H!Lowest(recs, count, to) = {w \in S : Cardinality({v \in S : Below(v, w)}) < count}
  BY HeldIs, CountIs DEF H!Lowest
<1> HIDE DEF Worth
<1>5. \A w \in S : {v \in S : Below(v, w)} = Low(w)
  OBVIOUS
<1>6. H!Lowest(recs, count, to) = {w \in S : Cardinality(Low(w)) < count}
  BY <1>4, <1>5
<1>7. S \ H!Lowest(recs, count, to) = rest
  BY <1>6
<1>8. \A x \in S : <<x, x>> \notin before
  BY <1>1, <1>3
<1>9. \A x, y, z \in S : <<x, y>> \in before /\ <<y, z>> \in before => <<x, z>> \in before
  BY <1>1, <1>3
<1>10. \A x, y \in S : x # y => <<x, y>> \in before \/ <<y, x>> \in before
  BY <1>1, <1>2, <1>3
<1> HIDE DEF before, S
<1>11. rest = {} \/ Cardinality(rest) + count <= Cardinality(S)
  <2>1. count \in Int
    OBVIOUS
  <2>2. Ranked(S, before, count) = {} \/ Cardinality(Ranked(S, before, count)) + count <= Cardinality(S)
    BY <1>1, <1>8, <1>9, <1>10, <2>1, RanksCount
  <2> QED BY <2>2 DEF Ranked
<1> QED BY <1>6, <1>7, <1>11 DEF S

-----------------------------------------------------------------------------
(* The inductive invariant of the records.                                 *)

Digests  == UNION {[S -> Nat] : S \in SUBSET (Wallet \cup Vault)}
MetaType == [digest : Digests, count : Nat, slot : {0, 1}]

HeaderTyped(h) ==
    h \in [ gen : Nat, first : BOOLEAN, covered : Nat, buckets : Nat \ {0}, offCurve : SUBSET Vault,
            meta : [0..(h.buckets - 1) -> MetaType] ]

\* The records of a bucket, and of all, as a header h points at them in a store b.
LiveAt(h, b, n) ==
    LET k == <<h.buckets, n, h.meta[n].slot>>
    IN IF h.meta[n].count > 0 /\ k \in DOMAIN b THEN b[k] ELSE <<>>

RecsAt(h, b) == [w \in UNION {DOMAIN LiveAt(h, b, n) : n \in DOMAIN h.meta} |->
                     LiveAt(h, b, H!bucketOf(w, h.buckets))[w]]

BucketsTrue(h, b) ==
    \A n \in 0..(h.buckets - 1) :
        /\ DOMAIN LiveAt(h, b, n) \subseteq {w \in Wallet : H!bucketOf(w, h.buckets) = n}
        /\ Cardinality(DOMAIN LiveAt(h, b, n)) <= h.meta[n].count
        /\ Cardinality(DOMAIN LiveAt(h, b, n)) <= bucketMax

\* The balance a digest was taken of.
Noted(h, w) ==
    LET digest == h.meta[H!bucketOf(w, h.buckets)].digest
    IN IF w \in DOMAIN digest THEN digest[w] ELSE 0

\* Each record is of the balance its bucket's digest was taken of; a balance that is in the digest
\* and in no record was lost.
RecsTrue(h, recs, g) ==
    /\ DOMAIN recs \subseteq Wallet /\ Cardinality(DOMAIN recs) <= maxRecords
    /\ \A w \in DOMAIN recs : Dated(recs[w], h.gen, h.covered) /\ recs[w].balance = Noted(h, w)
    /\ \A w \in Wallet \ DOMAIN recs : Noted(h, w) = 0 \/ g[w] = "open"

BalanceIn(recs, w) == IF w \in DOMAIN recs THEN recs[w].balance ELSE 0
WeightIn(h, recs, w) == IF w \in DOMAIN recs THEN WeightAt(recs[w], h.gen, h.covered) ELSE 0

\* What a wallet's record holds, and weighs, against what it held and has earned.
WalletTrue(h, recs, l, e, g, w) ==
    /\ BalanceIn(recs, w) <= l[w] /\ (g[w] # "open" => BalanceIn(recs, w) = l[w])
    /\ WeightIn(h, recs, w) <= e[w] /\ (g[w] = "none" => WeightIn(h, recs, w) = e[w])

WalletsTrue(h, recs, l, e, g) ==
    /\ l \in [Wallet \cup Vault -> Nat] /\ e \in [Wallet -> Nat]
    /\ g \in [Wallet -> {"none", "open", "mended"}]
    /\ \A w \in Wallet : WalletTrue(h, recs, l, e, g, w)

HoldersTrue(h, b, l, e, g) ==
    /\ HeaderTyped(h) /\ BucketsTrue(h, b)
    /\ RecsTrue(h, RecsAt(h, b), g) /\ WalletsTrue(h, RecsAt(h, b), l, e, g)

HoldersInv == HoldersTrue(holders, bucket, last, earned, gap)

-----------------------------------------------------------------------------

LEMMA LiveIs == \A n : H!Live(n) = LiveAt(holders, bucket, n)
BY DEF H!Live, H!Key, H!Empty, LiveAt

LEMMA RecordsAre == H!Records = RecsAt(holders, bucket)
BY LiveIs DEF H!Records, RecsAt

LEMMA BucketIn ==
    ASSUME NEW w \in Wallet \cup Vault, NEW n \in Nat \ {0}
    PROVE  H!bucketOf(w, n) \in 0..(n - 1)
<1>1. Hash[w] \in Nat
  BY HoldersAssumption
<1>2. Hash[w] % n \in 0..(n - 1)
  BY <1>1
<1> QED BY <1>2 DEF H!bucketOf

LEMMA HeaderTypes ==
    ASSUME NEW h, HeaderTyped(h)
    PROVE  /\ h.gen \in Nat /\ h.first \in BOOLEAN /\ h.covered \in Nat /\ h.buckets \in Nat \ {0}
           /\ h.offCurve \subseteq Vault /\ h.meta \in [0..(h.buckets - 1) -> MetaType]
           /\ DOMAIN h.meta = 0..(h.buckets - 1)
           /\ \A n \in 0..(h.buckets - 1) :
                 /\ h.meta[n].count \in Nat /\ h.meta[n].slot \in {0, 1}
                 /\ h.meta[n].digest \in Digests /\ h.meta[n] \in MetaType
BY DEF HeaderTyped, MetaType

\* All records are those of the buckets, each in its own.
LEMMA RecsByBucket ==
    ASSUME NEW h, NEW b, HeaderTyped(h), BucketsTrue(h, b)
    PROVE  /\ DOMAIN RecsAt(h, b) \subseteq Wallet
           /\ \A n \in 0..(h.buckets - 1) :
                 DOMAIN LiveAt(h, b, n) = {w \in DOMAIN RecsAt(h, b) : H!bucketOf(w, h.buckets) = n}
           /\ \A w \in DOMAIN RecsAt(h, b) : RecsAt(h, b)[w] = LiveAt(h, b, H!bucketOf(w, h.buckets))[w]
<1>1. DOMAIN RecsAt(h, b) = UNION {DOMAIN LiveAt(h, b, n) : n \in 0..(h.buckets - 1)}
  BY HeaderTypes DEF RecsAt
<1>2. \A n \in 0..(h.buckets - 1) :
         DOMAIN LiveAt(h, b, n) \subseteq {w \in Wallet : H!bucketOf(w, h.buckets) = n}
  BY DEF BucketsTrue
<1>3. \A w \in DOMAIN RecsAt(h, b) : RecsAt(h, b)[w] = LiveAt(h, b, H!bucketOf(w, h.buckets))[w]
  BY DEF RecsAt
<1> QED BY <1>1, <1>2, <1>3

LEMMA WalletsFinite ==
    /\ IsFiniteSet(Wallet)
    /\ \A S \in SUBSET Wallet : IsFiniteSet(S) /\ Cardinality(S) \in Nat
<1>1. IsFiniteSet(Wallet)
  BY OwnersOrdered, FS_Subset
<1> QED BY <1>1, FS_Subset, FS_CardinalityType

\* The invariant speaks of a store through the records the header points at.
LEMMA SameLives ==
    ASSUME NEW h, NEW b, NEW c, NEW l, NEW e, NEW g, HeaderTyped(h),
           \A n \in 0..(h.buckets - 1) : LiveAt(h, c, n) = LiveAt(h, b, n),
           HoldersTrue(h, b, l, e, g)
    PROVE  HoldersTrue(h, c, l, e, g)
<1>1. BucketsTrue(h, c)
  BY DEF HoldersTrue, BucketsTrue
<1>2. BucketsTrue(h, b)
  BY DEF HoldersTrue
<1>3. DOMAIN h.meta = 0..(h.buckets - 1)
  BY HeaderTypes
<1> DEFINE D(s) == UNION {DOMAIN LiveAt(h, s, n) : n \in DOMAIN h.meta}
<1>4. D(c) = D(b)
  BY <1>3
<1>5. \A w \in D(b) : H!bucketOf(w, h.buckets) \in 0..(h.buckets - 1)
  BY <1>2, <1>3 DEF BucketsTrue
<1>6. RecsAt(h, c) = RecsAt(h, b)
  <2>1. RecsAt(h, c) = [w \in D(c) |-> LiveAt(h, c, H!bucketOf(w, h.buckets))[w]]
    BY DEF RecsAt
  <2>2. RecsAt(h, b) = [w \in D(b) |-> LiveAt(h, b, H!bucketOf(w, h.buckets))[w]]
    BY DEF RecsAt
  <2> HIDE DEF D
  <2> QED BY <2>1, <2>2, <1>4, <1>5
<1> QED BY <1>1, <1>6 DEF HoldersTrue

-----------------------------------------------------------------------------
(* The passes of a sample.                                                 *)

RecBefore(p, w) == IF w \in DOMAIN p.recs THEN H!held(p.recs[w]) ELSE H!Nothing
RecAfter(p, w) ==
    IF w \in DOMAIN p.recs /\ RecBefore(p, w).balance = H!Held(w, p) THEN p.recs[w]
    ELSE H!touch(RecBefore(p, w), H!Held(w, p), p.from, p.to)

SeenIn(p, todo_) == {w \in (DOMAIN p.recs \cup p.tracked) \ Vault : H!bucketOf(w, p.buckets) \in todo_}
KeptIn(p, todo_) ==
    {w \in SeenIn(p, todo_) : H!Held(w, p) > 0 \/ H!held(RecAfter(p, w)).acc > 0}
RestIn(p, todo_) == {w \in DOMAIN p.recs : H!bucketOf(w, p.buckets) \notin todo_}
PartOf(p, built, n) == H!Restrict(built, DOMAIN built \cap H!In(n, p))
Crowded(p, todo_, built) ==
    UNION {H!Lowest(PartOf(p, built, n), H!Cardinality(DOMAIN PartOf(p, built, n)) - bucketMax, p.to) :
               n \in todo_}
AllRecs(p, todo_, built, crowded) ==
    H!Over(H!Restrict(built, DOMAIN built \ crowded), H!Restrict(p.recs, RestIn(p, todo_)))
TotalOf(p, todo_, built, crowded) ==
    H!Cardinality(DOMAIN built \ crowded) + H!Counted(holders.meta, (0..(p.buckets - 1)) \ todo_)
Dropped(p, all, total) ==
    IF total > maxRecords THEN H!Lowest(all, total - H!keepRecords, p.to) ELSE {}

LEMMA BoundedIs ==
    ASSUME NEW p, NEW todo_, NEW listed, NEW built
    PROVE  LET crowded == Crowded(p, todo_, built)
               all     == AllRecs(p, todo_, built, crowded)
               dropped == Dropped(p, all, TotalOf(p, todo_, built, crowded))
           IN H!Bounded(p, todo_, listed, built) = H!Written(p, todo_, listed, all, crowded, dropped)
BY Zenon DEF H!Bounded, Crowded, AllRecs, Dropped, TotalOf, PartOf, RestIn

LEMMA RebuiltIs ==
    ASSUME NEW p, NEW todo_
    PROVE  \E listed \in SUBSET Vault :
              H!Rebuilt(p, todo_) = H!Bounded(p, todo_, listed, [w \in KeptIn(p, todo_) |-> RecAfter(p, w)])
<1> DEFINE seen == SeenIn(p, todo_)
           recs == [w \in seen |-> RecAfter(p, w)]
           vaults == {w \in p.tracked \cap Vault : H!bucketOf(w, p.buckets) \in todo_}
           listed == {u \in vaults : H!Cardinality({x \in vaults : Order[x] < Order[u]})
                                      < OFF_CURVE_MAX - H!Cardinality(holders.offCurve)}
           kept == H!Restrict(recs, {w \in seen : H!Held(w, p) > 0 \/ H!held(recs[w]).acc > 0})
<1>1. H!Rebuilt(p, todo_) = H!Bounded(p, todo_, listed, kept)
  BY Zenon DEF H!Rebuilt, RecAfter, RecBefore, SeenIn
<1>2. kept = [w \in KeptIn(p, todo_) |-> RecAfter(p, w)]
  <2>1. \A w \in seen : recs[w] = RecAfter(p, w)
    OBVIOUS
  <2> HIDE DEF seen, recs
  <2>2. {w \in seen : H!Held(w, p) > 0 \/ H!held(recs[w]).acc > 0} = KeptIn(p, todo_)
    BY <2>1 DEF KeptIn, seen
  <2>3. kept = H!Restrict(recs, KeptIn(p, todo_))
    BY <2>2
  <2>4. KeptIn(p, todo_) \subseteq seen
    BY DEF KeptIn, seen
  <2> HIDE DEF kept
  <2> QED BY <2>1, <2>3, <2>4 DEF H!Restrict
<1>3. listed \in SUBSET Vault
  OBVIOUS
<1> QED BY <1>1, <1>2, <1>3

LEMMA SampledIs ==
    ASSUME NEW balances, NEW step, NEW old
    PROVE  LET p == H!Planned(balances, step, H!Records, H!Tracked(balances))
           IN H!Sampled(balances, step, old) = H!Rebuilt(p, H!Todo(p, old))
BY DEF H!Sampled

-----------------------------------------------------------------------------
(* What a sample plans to do.                                              *)

PlanTrue(p, balances, step) ==
    /\ p.recs = RecsAt(holders, bucket) /\ p.balances = balances
    /\ p.tracked \subseteq {w \in H!Owner : balances[w] > 0}
    /\ p.from = holders.covered /\ p.to = holders.covered + step
    /\ p.buckets \in Nat \ {0} /\ p.regrow \in BOOLEAN
    /\ p.regrow <=> p.buckets # holders.buckets

\* A bucket that is not read has the digest of what was found.
TodoTrue(p, todo_) ==
    /\ todo_ \subseteq 0..(p.buckets - 1)
    /\ \A n \in (0..(p.buckets - 1)) \ todo_ :
          ~p.regrow /\ holders.meta[n].digest = H!Found(n, {}, p)

LEMMA FewCounts ==
    ASSUME NEW S \in SUBSET {1, 2, 4, 8}, S # {}
    PROVE  H!Max(S) \in S /\ H!Min(S) \in S
<1>1. \E x \in S : \A y \in S : x >= y
  <2>1. CASE 8 \in S
    BY <2>1
  <2>2. CASE 8 \notin S /\ 4 \in S
    BY <2>2
  <2>3. CASE 8 \notin S /\ 4 \notin S /\ 2 \in S
    BY <2>3
  <2>4. CASE 8 \notin S /\ 4 \notin S /\ 2 \notin S
    <3>1. S = {1}
      BY <2>4
    <3> QED BY <3>1
  <2> QED BY <2>1, <2>2, <2>3, <2>4
<1>2. \E x \in S : \A y \in S : x <= y
  <2>1. CASE 1 \in S
    BY <2>1
  <2>2. CASE 1 \notin S /\ 2 \in S
    BY <2>2
  <2>3. CASE 1 \notin S /\ 2 \notin S /\ 4 \in S
    BY <2>3
  <2>4. CASE 1 \notin S /\ 2 \notin S /\ 4 \notin S
    <3>1. S = {8}
      BY <2>4
    <3> QED BY <3>1
  <2> QED BY <2>1, <2>2, <2>3, <2>4
<1> QED BY <1>1, <1>2 DEF H!Max, H!Min

LEMMA BucketCounts == \A records : H!bucketCount(records) \in {1, 2, 4, 8}
<1>1. H!Counts \in SUBSET {1, 2, 4, 8} /\ H!Counts # {}
  BY DEF H!Counts
<1>2. H!Max(H!Counts) \in H!Counts
  BY <1>1, FewCounts
<1> TAKE records
<1> DEFINE S == {n \in H!Counts : records <= n * bucketTarget} \cup {H!Max(H!Counts)}
<1>3. S \in SUBSET {1, 2, 4, 8} /\ S # {}
  BY <1>1, <1>2
<1>4. H!bucketCount(records) = H!Min(S)
  BY DEF H!bucketCount
<1> HIDE DEF S
<1> QED BY <1>3, <1>4, FewCounts

LEMMA PlanIs ==
    ASSUME HeaderTyped(holders), NEW balances, NEW step
    PROVE  PlanTrue(H!Planned(balances, step, H!Records, H!Tracked(balances)), balances, step)
<1> DEFINE count == H!bucketCount(H!LargerOf(H!Counted(holders.meta, DOMAIN holders.meta),
                                             H!Cardinality(H!Tracked(balances))))
           buckets == H!LargerOf(holders.buckets, count)
           p == [ balances |-> balances, recs |-> H!Records, tracked |-> H!Tracked(balances),
                  from |-> holders.covered, to |-> holders.covered + step,
                  buckets |-> buckets, regrow |-> buckets # holders.buckets ]
<1>1. H!Planned(balances, step, H!Records, H!Tracked(balances)) = p
  BY DEF H!Planned
<1>2. H!Tracked(balances) \subseteq {w \in H!Owner : balances[w] > 0}
  BY DEF H!Tracked
<1>3. count \in {1, 2, 4, 8}
  BY BucketCounts
<1> HIDE DEF count
<1>4. buckets \in Nat \ {0}
  BY <1>3, HeaderTypes DEF H!LargerOf
<1>5. /\ p.recs = H!Records /\ p.balances = balances /\ p.tracked = H!Tracked(balances)
      /\ p.from = holders.covered /\ p.to = holders.covered + step
      /\ p.buckets = buckets /\ p.regrow = (buckets # holders.buckets)
  OBVIOUS
<1>6. p.regrow \in BOOLEAN /\ (p.regrow <=> p.buckets # holders.buckets)
  BY <1>5, Zenon
<1> HIDE DEF buckets, p
<1>7. PlanTrue(p, balances, step)
  BY <1>2, <1>4, <1>5, <1>6, RecordsAre DEF PlanTrue
<1> QED BY <1>1, <1>7

LEMMA TodoIs ==
    ASSUME NEW p, NEW old, p.regrow \in BOOLEAN
    PROVE  TodoTrue(p, H!Todo(p, old))
BY DEF TodoTrue, H!Todo

\* The balance found of a wallet in a bucket.
LEMMA FoundIs ==
    ASSUME NEW p, NEW n, NEW out, NEW w
    PROVE  /\ w \in DOMAIN H!Found(n, out, p) <=>
                 w \in p.tracked /\ w \in H!Owner /\ H!bucketOf(w, p.buckets) = n /\ w \notin out
           /\ w \in DOMAIN H!Found(n, out, p) => H!Found(n, out, p)[w] = p.balances[w]
BY DEF H!Found, H!In

\* In a bucket that is not read, what was found is what the digest has.
LEMMA NotedIsHeld ==
    ASSUME HeaderTyped(holders), NEW balances, NEW step, NEW p, PlanTrue(p, balances, step),
           NEW todo_, TodoTrue(p, todo_), NEW w \in Wallet, H!bucketOf(w, p.buckets) \notin todo_
    PROVE  Noted(holders, w) = H!Held(w, p)
<1> DEFINE n == H!bucketOf(w, p.buckets)
<1>1. n \in (0..(p.buckets - 1)) \ todo_
  BY BucketIn DEF PlanTrue
<1>2. ~p.regrow /\ holders.meta[n].digest = H!Found(n, {}, p)
  BY <1>1, Zenon DEF TodoTrue
<1>3. p.buckets = holders.buckets
  BY <1>2 DEF PlanTrue
<1>4. w \in H!Owner
  BY DEF H!Owner
<1>5. w \in DOMAIN holders.meta[n].digest <=> w \in p.tracked
  BY <1>2, <1>4, FoundIs
<1>6. w \in p.tracked => holders.meta[n].digest[w] = p.balances[w]
  BY <1>2, <1>5, FoundIs
<1> QED BY <1>3, <1>5, <1>6 DEF Noted, H!Held

LEMMA HeldFound ==
    ASSUME NEW balances \in [Wallet \cup Vault -> Nat], NEW step, NEW p, PlanTrue(p, balances, step),
           NEW w \in Wallet
    PROVE  /\ H!Held(w, p) \in Nat /\ H!Held(w, p) <= balances[w]
           /\ w \in p.tracked => H!Held(w, p) > 0 /\ H!Held(w, p) = balances[w]
           /\ w \notin p.tracked => H!Held(w, p) = 0
<1>1. balances[w] \in Nat
  OBVIOUS
<1>2. w \in p.tracked => balances[w] > 0
  BY DEF PlanTrue
<1>3. p.balances = balances
  BY DEF PlanTrue
<1> QED BY <1>1, <1>2, <1>3 DEF H!Held

LEMMA WeighsNothing ==
    ASSUME NEW gen \in Nat, NEW covered \in Nat, NEW r, Dated(r, gen, covered), r.balance = 0,
           ~(HeldAt(r, gen).acc > 0)
    PROVE  WeightAt(r, gen, covered) = 0
<1> DEFINE k == HeldAt(r, gen)
           d == covered - k.clock
<1>1. k \in RecType /\ k.balance = 0
  BY HeldDated
<1>2. k.acc = 0 /\ d \in Int
  BY <1>1, TypedRec
<1>3. WeightAt(r, gen, covered) = k.acc + k.balance * d
  BY DEF WeightAt
<1> HIDE DEF k, d
<1>4. k.acc + k.balance * d = 0 + 0 * d
  BY <1>1, <1>2
<1>5. 0 + 0 * d = 0
  BY <1>2
<1> QED BY <1>3, <1>4, <1>5

\* What a wallet's record was before the sample, or the one it begins with.
LEMMA BeforeWeighs ==
    ASSUME NEW gen \in Nat, NEW covered \in Nat, holders.gen = gen, holders.covered = covered,
           NEW p, NEW w, w \in DOMAIN p.recs => Dated(p.recs[w], gen, covered)
    PROVE  /\ RecBefore(p, w) \in RecType /\ RecBefore(p, w).clock <= covered
           /\ RecBefore(p, w).balance = BalanceIn(p.recs, w)
           /\ RecBefore(p, w).acc + RecBefore(p, w).balance * (covered - RecBefore(p, w).clock)
                 = WeightIn(holders, p.recs, w)
<1> DEFINE R == p.recs
<1>0. PICK h : h = RecBefore(p, w)
  OBVIOUS
<1>1. CASE w \in DOMAIN R
  <2>1. h = HeldAt(R[w], gen)
    BY <1>0, <1>1, HeldIs DEF RecBefore
  <2>2. h \in RecType /\ h.balance = R[w].balance /\ h.clock <= covered
    BY <1>1, <2>1, HeldDated
  <2>3. WeightIn(holders, R, w) = WeightAt(R[w], gen, covered)
    BY <1>1 DEF WeightIn
  <2>4. WeightIn(holders, R, w) = h.acc + h.balance * (covered - h.clock)
    BY <2>1, <2>3 DEF WeightAt
  <2> QED BY <1>0, <1>1, <2>2, <2>4 DEF BalanceIn
<1>2. CASE w \notin DOMAIN R
  <2>1. h = [balance |-> 0, acc |-> 0, clock |-> 0, gen |-> gen]
    BY <1>0, <1>2 DEF RecBefore, H!Nothing
  <2>2. h \in RecType /\ h.balance = 0 /\ h.clock = 0 /\ h.acc = 0
    BY <2>1 DEF RecType
  <2>3. h.acc + h.balance * (covered - h.clock) = 0
    BY <2>2
  <2> QED BY <1>0, <1>2, <2>2, <2>3 DEF BalanceIn, WeightIn
<1> QED BY <1>1, <1>2

\* A record that is read weighs what it did, and the lesser balance for the seconds since.
LEMMA AfterWeighs ==
    ASSUME HeaderTyped(holders), NEW balances \in [Wallet \cup Vault -> Nat], NEW step \in Nat, NEW p,
           PlanTrue(p, balances, step), NEW w \in Wallet,
           w \in DOMAIN p.recs => Dated(p.recs[w], holders.gen, holders.covered)
    PROVE  /\ Dated(RecAfter(p, w), holders.gen, p.to) /\ RecAfter(p, w).balance = H!Held(w, p)
           /\ WeightAt(RecAfter(p, w), holders.gen, p.to)
                 = WeightIn(holders, p.recs, w)
                   + H!LesserOf(BalanceIn(p.recs, w), H!Held(w, p)) * step
           /\ H!Held(w, p) = 0 /\ ~(H!held(RecAfter(p, w)).acc > 0)
                 => WeightAt(RecAfter(p, w), holders.gen, p.to) = 0
<1>1. PICK gen \in Nat : holders.gen = gen
  BY HeaderTypes
<1>2. PICK covered \in Nat : holders.covered = covered
  BY HeaderTypes
<1>3. PICK found \in Nat : found = H!Held(w, p)
  BY HeldFound
<1>4. PICK h : h = RecBefore(p, w)
  OBVIOUS
<1>5. PICK r : r = RecAfter(p, w)
  OBVIOUS
<1>6. PICK weighed : weighed = WeightIn(holders, p.recs, w)
  OBVIOUS
<1>7. /\ h \in RecType /\ h.clock <= covered /\ h.balance = BalanceIn(p.recs, w)
      /\ h.acc + h.balance * (covered - h.clock) = weighed
  BY <1>1, <1>2, <1>4, <1>6, BeforeWeighs
<1>8. h.acc \in Nat /\ h.balance \in Nat /\ h.clock \in Nat
  BY <1>7, TypedRec
<1>9. p.from = covered /\ p.to = covered + step
  BY <1>2 DEF PlanTrue
<1>10. SUFFICES
          /\ Dated(r, gen, covered + step) /\ r.balance = found
          /\ WeightAt(r, gen, covered + step) = weighed + H!LesserOf(h.balance, found) * step
          /\ found = 0 /\ ~(HeldAt(r, gen).acc > 0) => WeightAt(r, gen, covered + step) = 0
  BY <1>1, <1>3, <1>5, <1>6, <1>7, <1>9, HeldIs
<1>11. CASE w \in DOMAIN p.recs /\ h.balance = found
  <2>1. r = p.recs[w] /\ r.balance = found
    BY <1>3, <1>4, <1>5, <1>7, <1>11 DEF RecAfter, BalanceIn
  <2>2. Dated(r, gen, covered)
    BY <2>1, <1>1, <1>2, <1>11
  <2>3. Dated(r, gen, covered + step)
        /\ WeightAt(r, gen, covered + step) = WeightAt(r, gen, covered) + r.balance * step
    BY <2>2, WeightGrows
  <2>4. weighed = WeightAt(r, gen, covered)
    BY <1>1, <1>2, <1>6, <1>11, <2>1 DEF WeightIn
  <2>5. H!LesserOf(h.balance, found) = r.balance
    BY <1>8, <1>11, <2>1, LesserIs
  <2>6. found = 0 /\ ~(HeldAt(r, gen).acc > 0) => WeightAt(r, gen, covered + step) = 0
    BY <2>1, <2>3, WeighsNothing
  <2> QED BY <2>1, <2>3, <2>4, <2>5, <2>6
<1>12. CASE ~(w \in DOMAIN p.recs /\ h.balance = found)
  <2>1. r = H!touch(h, found, covered, covered + step)
    BY <1>3, <1>4, <1>5, <1>9, <1>12 DEF RecAfter
  <2>2. /\ Dated(r, gen, covered + step) /\ r.balance = found /\ HeldAt(r, gen) = r
        /\ r.acc = h.acc + h.balance * (covered - h.clock) + H!LesserOf(h.balance, found) * step
        /\ WeightAt(r, gen, covered + step) = r.acc
    <3>1. PICK to : to = covered + step
      OBVIOUS
    <3>2. r = H!touch(h, found, covered, to)
      BY <2>1, <3>1
    <3>3. /\ Dated(r, gen, to) /\ r.balance = found /\ HeldAt(r, gen) = r
          /\ r.acc = h.acc + h.balance * (covered - h.clock) + H!LesserOf(h.balance, found) * step
          /\ WeightAt(r, gen, to) = r.acc
      BY <1>1, <1>2, <1>3, <1>7, <3>1, <3>2, TouchWeighs, SMTT(60)
    <3> QED BY <3>1, <3>3
  <2>3. r.acc \in Nat
    BY <2>2, TypedRec DEF Dated
  <2>4. WeightAt(r, gen, covered + step) = weighed + H!LesserOf(h.balance, found) * step
    BY <1>7, <2>2
  <2>5. ~(HeldAt(r, gen).acc > 0) => WeightAt(r, gen, covered + step) = 0
    BY <2>2, <2>3
  <2> QED BY <2>2, <2>4, <2>5
<1> QED BY <1>11, <1>12

-----------------------------------------------------------------------------
(* The records a sample leaves.                                            *)

Built(p, todo_)      == [w \in KeptIn(p, todo_) |-> RecAfter(p, w)]
CrowdedOut(p, todo_) == Crowded(p, todo_, Built(p, todo_))
Merged(p, todo_)     == AllRecs(p, todo_, Built(p, todo_), CrowdedOut(p, todo_))
DroppedOut(p, todo_) ==
    Dropped(p, Merged(p, todo_), TotalOf(p, todo_, Built(p, todo_), CrowdedOut(p, todo_)))
GoneOut(p, todo_)    == CrowdedOut(p, todo_) \cup DroppedOut(p, todo_)
LastRecs(p, todo_)   ==
    H!Restrict(Merged(p, todo_), DOMAIN Merged(p, todo_) \ DroppedOut(p, todo_))

LEMMA SampledAs ==
    ASSUME NEW p, NEW todo_
    PROVE  \E listed \in SUBSET Vault :
              H!Rebuilt(p, todo_) =
                 H!Written(p, todo_, listed, Merged(p, todo_), CrowdedOut(p, todo_), DroppedOut(p, todo_))
<1>1. PICK listed \in SUBSET Vault :
         H!Rebuilt(p, todo_) = H!Bounded(p, todo_, listed, Built(p, todo_))
  BY RebuiltIs, Zenon DEF Built
<1>2. H!Bounded(p, todo_, listed, Built(p, todo_)) =
         H!Written(p, todo_, listed, Merged(p, todo_), CrowdedOut(p, todo_), DroppedOut(p, todo_))
  BY BoundedIs, Zenon DEF Merged, CrowdedOut, DroppedOut
<1> QED BY <1>1, <1>2, Zenon

LEMMA RestrictIs ==
    ASSUME NEW f, NEW S
    PROVE  DOMAIN H!Restrict(f, S) = S /\ \A x \in S : H!Restrict(f, S)[x] = f[x]
BY DEF H!Restrict

LEMMA OverIs ==
    ASSUME NEW f, NEW g
    PROVE  /\ DOMAIN H!Over(f, g) = DOMAIN f \cup DOMAIN g
           /\ \A x \in DOMAIN f : H!Over(f, g)[x] = f[x]
           /\ \A x \in DOMAIN g \ DOMAIN f : H!Over(f, g)[x] = g[x]
BY DEF H!Over

\* Which records are kept, and what each is.
LEMMA KeptAre ==
    ASSUME NEW p, NEW todo_, DOMAIN p.recs \subseteq Wallet, p.tracked \subseteq H!Owner
    PROVE  /\ KeptIn(p, todo_) \subseteq Wallet /\ RestIn(p, todo_) \subseteq Wallet
           /\ CrowdedOut(p, todo_) \subseteq KeptIn(p, todo_)
           /\ \A w : w \in KeptIn(p, todo_) => H!bucketOf(w, p.buckets) \in todo_
           /\ \A w : w \in RestIn(p, todo_) <=>
                        w \in DOMAIN p.recs /\ H!bucketOf(w, p.buckets) \notin todo_
<1>1. KeptIn(p, todo_) \subseteq Wallet /\ RestIn(p, todo_) \subseteq Wallet
  BY DEF KeptIn, SeenIn, RestIn, H!Owner
<1>2. \A w : w \in KeptIn(p, todo_) => H!bucketOf(w, p.buckets) \in todo_
  BY DEF KeptIn, SeenIn
<1>3. \A w : w \in RestIn(p, todo_) <=> w \in DOMAIN p.recs /\ H!bucketOf(w, p.buckets) \notin todo_
  BY DEF RestIn
<1>4. CrowdedOut(p, todo_) \subseteq KeptIn(p, todo_)
  <2>1. DOMAIN Built(p, todo_) = KeptIn(p, todo_)
    BY DEF Built
  <2> SUFFICES ASSUME NEW w \in CrowdedOut(p, todo_) PROVE w \in KeptIn(p, todo_)
    OBVIOUS
  <2>2. PICK n \in todo_ :
           w \in H!Lowest(PartOf(p, Built(p, todo_), n),
                        H!Cardinality(DOMAIN PartOf(p, Built(p, todo_), n)) - bucketMax, p.to)
    BY DEF CrowdedOut, Crowded
  <2>3. w \in DOMAIN PartOf(p, Built(p, todo_), n)
    BY <2>2 DEF H!Lowest
  <2>4. DOMAIN PartOf(p, Built(p, todo_), n) \subseteq DOMAIN Built(p, todo_)
    BY DEF PartOf, H!Restrict
  <2> QED BY <2>1, <2>3, <2>4
<1> QED BY <1>1, <1>2, <1>3, <1>4

\* Which records there are before any is dropped, and what each is.
LEMMA MergedAre ==
    ASSUME NEW p, NEW todo_, DOMAIN p.recs \subseteq Wallet, p.tracked \subseteq H!Owner
    PROVE  /\ DOMAIN Merged(p, todo_) = (KeptIn(p, todo_) \ CrowdedOut(p, todo_)) \cup RestIn(p, todo_)
           /\ \A w : w \in KeptIn(p, todo_) \ CrowdedOut(p, todo_)
                        => Merged(p, todo_)[w] = RecAfter(p, w)
           /\ \A w : w \in RestIn(p, todo_) => Merged(p, todo_)[w] = p.recs[w]
<1> DEFINE K == KeptIn(p, todo_)
           out == CrowdedOut(p, todo_)
           rest == RestIn(p, todo_)
           f == H!Restrict(Built(p, todo_), DOMAIN Built(p, todo_) \ out)
           g == H!Restrict(p.recs, rest)
<1>1. DOMAIN Built(p, todo_) = K /\ \A w \in K : Built(p, todo_)[w] = RecAfter(p, w)
  BY DEF Built
<1>2. DOMAIN f = K \ out /\ \A w \in K \ out : f[w] = RecAfter(p, w)
  BY <1>1, RestrictIs
<1>3. DOMAIN g = rest /\ \A w \in rest : g[w] = p.recs[w]
  BY RestrictIs
<1>4. Merged(p, todo_) = H!Over(f, g)
  BY Zenon DEF Merged, AllRecs
<1>5. \A w : w \in rest => w \notin K
  BY KeptAre, Zenon
<1> HIDE DEF f, g, K, out, rest
<1>6. DOMAIN H!Over(f, g) = (K \ out) \cup rest
  BY <1>2, <1>3, OverIs
<1>7. \A w \in K \ out : H!Over(f, g)[w] = RecAfter(p, w)
  <2>1. \A w \in DOMAIN f : H!Over(f, g)[w] = f[w]
    BY OverIs
  <2> QED BY <1>2, <2>1
<1>8. \A w \in rest : H!Over(f, g)[w] = p.recs[w]
  <2>1. \A w \in DOMAIN g \ DOMAIN f : H!Over(f, g)[w] = g[w]
    BY OverIs
  <2>2. \A w \in rest : w \in DOMAIN g /\ w \notin DOMAIN f
    BY <1>2, <1>3, <1>5
  <2> QED BY <1>3, <2>1, <2>2
<1> QED BY <1>4, <1>6, <1>7, <1>8 DEF K, out, rest

\* Which records are left, and what each is.
LEMMA LastAre ==
    ASSUME NEW p, NEW todo_, DOMAIN p.recs \subseteq Wallet, p.tracked \subseteq H!Owner
    PROVE  /\ DOMAIN LastRecs(p, todo_) \subseteq Wallet
           /\ DOMAIN LastRecs(p, todo_) = DOMAIN Merged(p, todo_) \ DroppedOut(p, todo_)
           /\ \A w : w \in DOMAIN LastRecs(p, todo_) => w \notin GoneOut(p, todo_)
<1>1. DOMAIN LastRecs(p, todo_) = DOMAIN Merged(p, todo_) \ DroppedOut(p, todo_)
  BY RestrictIs DEF LastRecs
<1>2. /\ KeptIn(p, todo_) \subseteq Wallet /\ RestIn(p, todo_) \subseteq Wallet
      /\ CrowdedOut(p, todo_) \subseteq KeptIn(p, todo_)
      /\ \A w : w \in RestIn(p, todo_) => w \notin KeptIn(p, todo_)
  BY KeptAre, Zenon
<1>3. DOMAIN Merged(p, todo_) = (KeptIn(p, todo_) \ CrowdedOut(p, todo_)) \cup RestIn(p, todo_)
  BY MergedAre, Zenon
<1> QED BY <1>1, <1>2, <1>3 DEF GoneOut

LEMMA LastIs ==
    ASSUME NEW p, NEW todo_, DOMAIN p.recs \subseteq Wallet, p.tracked \subseteq H!Owner,
           NEW w \in DOMAIN LastRecs(p, todo_)
    PROVE  \/ /\ H!bucketOf(w, p.buckets) \in todo_ /\ w \in KeptIn(p, todo_)
              /\ LastRecs(p, todo_)[w] = RecAfter(p, w)
           \/ /\ H!bucketOf(w, p.buckets) \notin todo_ /\ w \in DOMAIN p.recs
              /\ LastRecs(p, todo_)[w] = p.recs[w]
<1>1. w \in DOMAIN Merged(p, todo_) /\ LastRecs(p, todo_)[w] = Merged(p, todo_)[w]
  BY RestrictIs DEF LastRecs
<1>2. DOMAIN Merged(p, todo_) = (KeptIn(p, todo_) \ CrowdedOut(p, todo_)) \cup RestIn(p, todo_)
  BY MergedAre, Zenon
<1>3. CASE w \in KeptIn(p, todo_) \ CrowdedOut(p, todo_)
  <2>1. Merged(p, todo_)[w] = RecAfter(p, w)
    BY <1>3, MergedAre, Zenon
  <2>2. H!bucketOf(w, p.buckets) \in todo_
    BY <1>3, KeptAre, Zenon
  <2> QED BY <1>1, <1>3, <2>1, <2>2
<1>4. CASE w \in RestIn(p, todo_)
  <2>1. Merged(p, todo_)[w] = p.recs[w]
    BY <1>4, MergedAre, ZenonT(60)
  <2>2. H!bucketOf(w, p.buckets) \notin todo_ /\ w \in DOMAIN p.recs
    BY <1>4 DEF RestIn
  <2> QED BY <1>1, <2>1, <2>2
<1> QED BY <1>1, <1>2, <1>3, <1>4

LEMMA LeftOutIs ==
    ASSUME NEW p, NEW todo_, DOMAIN p.recs \subseteq Wallet, p.tracked \subseteq H!Owner,
           NEW w, w \notin DOMAIN LastRecs(p, todo_), w \notin GoneOut(p, todo_)
    PROVE  \/ H!bucketOf(w, p.buckets) \in todo_ /\ w \notin KeptIn(p, todo_)
           \/ H!bucketOf(w, p.buckets) \notin todo_ /\ w \notin DOMAIN p.recs
<1>1. DOMAIN LastRecs(p, todo_) = DOMAIN Merged(p, todo_) \ DroppedOut(p, todo_)
  BY RestrictIs DEF LastRecs
<1>2. DOMAIN Merged(p, todo_) = (KeptIn(p, todo_) \ CrowdedOut(p, todo_)) \cup RestIn(p, todo_)
  BY MergedAre, Zenon
<1> QED BY <1>1, <1>2 DEF GoneOut, RestIn

\* What the sample is of, and what it found before it.
SampleOf(p, todo_, balances, step, l, e, g) ==
    /\ HoldersTrue(holders, bucket, l, e, g)
    /\ balances \in [Wallet \cup Vault -> Nat] /\ step \in Nat
    /\ PlanTrue(p, balances, step) /\ TodoTrue(p, todo_)

LEMMA SampleFacts ==
    ASSUME NEW p, NEW todo_, NEW balances, NEW step, NEW l, NEW e, NEW g,
           SampleOf(p, todo_, balances, step, l, e, g)
    PROVE  /\ HeaderTyped(holders) /\ BucketsTrue(holders, bucket)
           /\ RecsTrue(holders, p.recs, g) /\ WalletsTrue(holders, p.recs, l, e, g)
           /\ DOMAIN p.recs \subseteq Wallet /\ p.tracked \subseteq H!Owner
           /\ balances \in [Wallet \cup Vault -> Nat] /\ step \in Nat /\ p.recs = RecsAt(holders, bucket)
           /\ \A w \in DOMAIN p.recs : Dated(p.recs[w], holders.gen, holders.covered)
           /\ PlanTrue(p, balances, step) /\ TodoTrue(p, todo_)
<1>1. p.recs = RecsAt(holders, bucket) /\ p.tracked \subseteq H!Owner
  BY DEF SampleOf, PlanTrue
<1> QED BY <1>1 DEF SampleOf, HoldersTrue, RecsTrue

\* A record that is left weighs what it did, and the lesser balance for the seconds since.
LEMMA LastWeighs ==
    ASSUME NEW p, NEW todo_, NEW balances, NEW step, NEW l, NEW e, NEW g,
           SampleOf(p, todo_, balances, step, l, e, g), NEW w \in DOMAIN LastRecs(p, todo_)
    PROVE  /\ w \in Wallet /\ Dated(LastRecs(p, todo_)[w], holders.gen, p.to)
           /\ LastRecs(p, todo_)[w].balance = H!Held(w, p)
           /\ WeightAt(LastRecs(p, todo_)[w], holders.gen, p.to)
                 = WeightIn(holders, p.recs, w)
                   + H!LesserOf(BalanceIn(p.recs, w), H!Held(w, p)) * step
<1>1. HeaderTyped(holders) /\ w \in Wallet /\ DOMAIN p.recs \subseteq Wallet /\ p.tracked \subseteq H!Owner
      /\ balances \in [Wallet \cup Vault -> Nat] /\ step \in Nat
      /\ PlanTrue(p, balances, step) /\ TodoTrue(p, todo_)
      /\ \A v \in DOMAIN p.recs : Dated(p.recs[v], holders.gen, holders.covered)
  BY SampleFacts, LastAre
<1>2. CASE H!bucketOf(w, p.buckets) \in todo_
  <2>1. LastRecs(p, todo_)[w] = RecAfter(p, w)
    BY <1>1, <1>2, LastIs
  <2> QED BY <1>1, <2>1, AfterWeighs
<1>3. CASE H!bucketOf(w, p.buckets) \notin todo_
  <2>1. PICK r : r = LastRecs(p, todo_)[w]
    OBVIOUS
  <2>2. w \in DOMAIN p.recs /\ r = p.recs[w]
    <3>1. w \in DOMAIN p.recs /\ LastRecs(p, todo_)[w] = p.recs[w]
      BY <1>1, <1>3, LastIs
    <3> QED BY <2>1, <3>1
  <2>3. Noted(holders, w) = H!Held(w, p)
    BY <1>1, <1>3, NotedIsHeld
  <2>4. r.balance = Noted(holders, w)
    BY <2>2, SampleFacts DEF RecsTrue
  <2>5. PICK gen \in Nat : holders.gen = gen
    BY <1>1, HeaderTypes
  <2>6. PICK covered \in Nat : holders.covered = covered
    BY <1>1, HeaderTypes
  <2>7. p.to = covered + step
    BY <1>1, <2>6 DEF PlanTrue
  <2>8. PICK found : found = H!Held(w, p)
    OBVIOUS
  <2>9. Dated(r, gen, covered)
    BY <1>1, <2>2, <2>5, <2>6
  <2>10. Dated(r, gen, covered + step)
         /\ WeightAt(r, gen, covered + step) = WeightAt(r, gen, covered) + r.balance * step
    BY <1>1, <2>5, <2>6, <2>9, WeightGrows
  <2>11. WeightIn(holders, p.recs, w) = WeightAt(r, gen, covered) /\ BalanceIn(p.recs, w) = r.balance
    BY <2>2, <2>5, <2>6 DEF WeightIn, BalanceIn
  <2>12. r.balance \in Nat
    BY <2>9, TypedRec DEF Dated
  <2>13. H!LesserOf(r.balance, found) = r.balance
    BY <2>3, <2>4, <2>8, <2>12, LesserIs
  <2> QED BY <1>1, <2>1, <2>3, <2>4, <2>5, <2>7, <2>8, <2>10, <2>11, <2>13
<1> QED BY <1>2, <1>3

\* A wallet that has no record, though none was dropped, has nothing to weigh and holds nothing, unless
\* its record was lost.
LEMMA LeftOutWeighs ==
    ASSUME NEW p, NEW todo_, NEW balances, NEW step, NEW l, NEW e, NEW g,
           SampleOf(p, todo_, balances, step, l, e, g),
           NEW w \in Wallet \ DOMAIN LastRecs(p, todo_), w \notin GoneOut(p, todo_)
    PROVE  WeightIn(holders, p.recs, w) = 0 /\ (H!Held(w, p) = 0 \/ g[w] = "open")
<1>1. HeaderTyped(holders) /\ w \in Wallet /\ DOMAIN p.recs \subseteq Wallet /\ p.tracked \subseteq H!Owner
      /\ balances \in [Wallet \cup Vault -> Nat] /\ step \in Nat
      /\ PlanTrue(p, balances, step) /\ TodoTrue(p, todo_) /\ RecsTrue(holders, p.recs, g)
      /\ \A v \in DOMAIN p.recs : Dated(p.recs[v], holders.gen, holders.covered)
  BY SampleFacts
<1>2. CASE H!bucketOf(w, p.buckets) \in todo_ /\ w \notin KeptIn(p, todo_)
  <2>1. CASE w \in SeenIn(p, todo_)
    <3>1. ~(H!Held(w, p) > 0) /\ ~(H!held(RecAfter(p, w)).acc > 0)
      BY <1>2, <2>1 DEF KeptIn
    <3>2. H!Held(w, p) = 0
      BY <1>1, <3>1, HeldFound
    <3>3. WeightAt(RecAfter(p, w), holders.gen, p.to) = 0
          /\ WeightAt(RecAfter(p, w), holders.gen, p.to)
                 = WeightIn(holders, p.recs, w)
                   + H!LesserOf(BalanceIn(p.recs, w), H!Held(w, p)) * step
      BY <1>1, <3>1, <3>2, AfterWeighs
    <3>4. PICK weighed : weighed = WeightIn(holders, p.recs, w)
      OBVIOUS
    <3>5. weighed \in Nat /\ BalanceIn(p.recs, w) \in Nat
      <4>1. CASE w \in DOMAIN p.recs
        <5>1. Dated(p.recs[w], holders.gen, holders.covered)
          BY <1>1, <4>1
        <5>2. holders.gen \in Nat /\ holders.covered \in Nat
          BY <1>1, HeaderTypes
        <5>3. WeightAt(p.recs[w], holders.gen, holders.covered) \in Nat
          BY <5>1, <5>2, WeightNat
        <5>4. p.recs[w].balance \in Nat
          BY <5>1, TypedRec DEF Dated
        <5> QED BY <3>4, <4>1, <5>3, <5>4 DEF WeightIn, BalanceIn
      <4>2. CASE w \notin DOMAIN p.recs
        BY <3>4, <4>2 DEF WeightIn, BalanceIn
      <4> QED BY <4>1, <4>2
    <3>6. H!LesserOf(BalanceIn(p.recs, w), 0) = 0
      BY <3>5, LesserIs
    <3>7. weighed + 0 * step = 0
      BY <3>2, <3>3, <3>4, <3>6
    <3>8. 0 * step = 0
      BY <1>1
    <3> QED BY <3>2, <3>4, <3>5, <3>7, <3>8
  <2>2. CASE w \notin SeenIn(p, todo_)
    <3>1. w \notin Vault
      BY HoldersAssumption
    <3>2. w \notin DOMAIN p.recs /\ w \notin p.tracked
      BY <1>2, <2>2, <3>1 DEF SeenIn
    <3> QED BY <1>1, <3>2, HeldFound DEF WeightIn
  <2> QED BY <2>1, <2>2
<1>3. CASE H!bucketOf(w, p.buckets) \notin todo_ /\ w \notin DOMAIN p.recs
  <2>1. Noted(holders, w) = H!Held(w, p)
    BY <1>1, <1>3, NotedIsHeld
  <2>2. Noted(holders, w) = 0 \/ g[w] = "open"
    BY <1>1, <1>3 DEF RecsTrue
  <2> QED BY <1>3, <2>1, <2>2 DEF WeightIn
<1> QED BY <1>1, <1>2, <1>3, LeftOutIs

-----------------------------------------------------------------------------
(* What a sample writes.                                                   *)

WrittenIn(p, todo_) == todo_ \cup {H!bucketOf(w, p.buckets) : w \in DroppedOut(p, todo_)}
NewIn(p, todo_, n) ==
    H!Restrict(Merged(p, todo_), (DOMAIN Merged(p, todo_) \cap H!In(n, p)) \ DroppedOut(p, todo_))
NewMeta(p, todo_, listed, n) ==
    [ digest |-> H!Found(n, listed \cup CrowdedOut(p, todo_) \cup DroppedOut(p, todo_), p),
      count |-> H!Cardinality(DOMAIN NewIn(p, todo_, n)), slot |-> H!Slot(n, p.regrow) ]
MetaOut(p, todo_, listed) ==
    [n \in 0..(p.buckets - 1) |->
        IF n \in WrittenIn(p, todo_) THEN NewMeta(p, todo_, listed, n) ELSE holders.meta[n]]
HeaderOut(p, todo_, listed) ==
    [holders EXCEPT !.first = FALSE, !.covered = p.to, !.buckets = p.buckets,
                    !.meta = MetaOut(p, todo_, listed), !.offCurve = @ \cup listed]
WritesOut(p, todo_) ==
    [k \in {<<p.buckets, n, H!Slot(n, p.regrow)>> :
               n \in {i \in WrittenIn(p, todo_) : NewIn(p, todo_, i) # <<>>}} |-> NewIn(p, todo_, k[2])]
StoreOut(p, todo_) ==
    LET all == H!Over(WritesOut(p, todo_), bucket)
    IN H!Restrict(all, {k \in DOMAIN all : k[1] = p.buckets})
LeftOut(p, todo_) ==
    Wallet \cap ({w \in H!Owner : p.balances[w] > 0 /\ w \notin p.tracked}
                 \cup CrowdedOut(p, todo_) \cup DroppedOut(p, todo_))

LEMMA WrittenIs ==
    ASSUME NEW p, NEW todo_, NEW listed, NEW s,
           s = H!Written(p, todo_, listed, Merged(p, todo_), CrowdedOut(p, todo_), DroppedOut(p, todo_))
    PROVE  /\ s.header = HeaderOut(p, todo_, listed)
           /\ s.writes = WritesOut(p, todo_)
           /\ s.held = [w \in Wallet |-> BalanceIn(LastRecs(p, todo_), w)]
           /\ s.left = LeftOut(p, todo_)
<1> DEFINE M == Merged(p, todo_)
           out == CrowdedOut(p, todo_)
           drop == DroppedOut(p, todo_)
           held == [w \in Wallet |-> IF w \in DOMAIN M \ drop THEN M[w].balance ELSE 0]
<1>1. s = [ header |-> HeaderOut(p, todo_, listed), writes |-> WritesOut(p, todo_), held |-> held,
            left |-> LeftOut(p, todo_) ]
  BY Zenon DEF H!Written, HeaderOut, MetaOut, NewMeta, WrittenIn, NewIn, WritesOut, LeftOut, H!Empty
<1>2. held = [w \in Wallet |-> BalanceIn(LastRecs(p, todo_), w)]
  <2>1. DOMAIN LastRecs(p, todo_) = DOMAIN M \ drop
        /\ \A w \in DOMAIN M \ drop : LastRecs(p, todo_)[w] = M[w]
    BY RestrictIs DEF LastRecs
  <2> HIDE DEF M, drop
  <2> QED BY <2>1 DEF BalanceIn
<1> HIDE DEF held
<1> QED BY <1>1, <1>2

LEMMA NewAre ==
    ASSUME NEW p, NEW todo_, DOMAIN p.recs \subseteq Wallet, p.tracked \subseteq H!Owner, NEW n
    PROVE  /\ \A w : w \in DOMAIN NewIn(p, todo_, n) <=>
                        w \in DOMAIN LastRecs(p, todo_) /\ H!bucketOf(w, p.buckets) = n
           /\ \A w \in DOMAIN NewIn(p, todo_, n) : NewIn(p, todo_, n)[w] = LastRecs(p, todo_)[w]
           /\ Cardinality(DOMAIN NewIn(p, todo_, n)) \in Nat
           /\ H!Cardinality(DOMAIN NewIn(p, todo_, n)) = Cardinality(DOMAIN NewIn(p, todo_, n))
<1> DEFINE M == Merged(p, todo_)
           drop == DroppedOut(p, todo_)
           F == LastRecs(p, todo_)
           N == NewIn(p, todo_, n)
<1>1. DOMAIN N = (DOMAIN M \cap H!In(n, p)) \ drop /\ \A w \in DOMAIN N : N[w] = M[w]
  BY RestrictIs DEF NewIn
<1>2. DOMAIN F = DOMAIN M \ drop /\ \A w \in DOMAIN F : F[w] = M[w]
  BY RestrictIs DEF LastRecs
<1>3. DOMAIN F \subseteq Wallet
  BY LastAre, Zenon
<1>4. \A w \in Wallet : w \in H!In(n, p) <=> H!bucketOf(w, p.buckets) = n
  BY DEF H!In, H!Owner
<1> HIDE DEF M, drop, F, N
<1>5. DOMAIN N = {w \in DOMAIN F : H!bucketOf(w, p.buckets) = n}
  BY <1>1, <1>2, <1>3, <1>4
<1>6. \A w \in DOMAIN N : N[w] = F[w]
  BY <1>1, <1>2
<1>7. Cardinality(DOMAIN N) \in Nat
  BY <1>3, <1>5, WalletsFinite
<1> QED BY <1>5, <1>6, <1>7, CountIs DEF F, N

LEMMA SlotIs ==
    ASSUME HeaderTyped(holders), NEW balances, NEW step, NEW p, PlanTrue(p, balances, step),
           NEW n \in 0..(p.buckets - 1)
    PROVE  H!Slot(n, p.regrow) \in {0, 1}
<1>1. CASE p.regrow
  BY <1>1 DEF H!Slot
<1>2. CASE ~p.regrow
  <2>1. n \in 0..(holders.buckets - 1)
    BY <1>2 DEF PlanTrue
  <2>2. holders.meta[n].slot \in {0, 1}
    BY <2>1, HeaderTypes
  <2> QED BY <1>2, <2>2 DEF H!Slot
<1> QED BY <1>1, <1>2 DEF PlanTrue

\* A bucket that is not written is one that was not read.
LEMMA UnwrittenIs ==
    ASSUME NEW balances, NEW step, NEW p, PlanTrue(p, balances, step), NEW todo_, TodoTrue(p, todo_),
           NEW n \in 0..(p.buckets - 1), n \notin todo_
    PROVE  ~p.regrow /\ p.buckets = holders.buckets /\ n \in 0..(holders.buckets - 1)
<1>1. ~p.regrow
  BY DEF TodoTrue
<1> QED BY <1>1 DEF PlanTrue

LEMMA MetaIs ==
    ASSUME NEW balances, NEW step, NEW p, PlanTrue(p, balances, step), NEW todo_, NEW listed
    PROVE  /\ DOMAIN MetaOut(p, todo_, listed) = 0..(p.buckets - 1)
           /\ \A n \in 0..(p.buckets - 1) :
                 /\ n \in WrittenIn(p, todo_) =>
                       MetaOut(p, todo_, listed)[n] = NewMeta(p, todo_, listed, n)
                 /\ n \notin WrittenIn(p, todo_) => MetaOut(p, todo_, listed)[n] = holders.meta[n]
BY DEF MetaOut

LEMMA MetaTypes ==
    ASSUME NEW p, NEW todo_, NEW balances, NEW step, NEW l, NEW e, NEW g,
           SampleOf(p, todo_, balances, step, l, e, g), NEW listed \in SUBSET Vault
    PROVE  MetaOut(p, todo_, listed) \in [0..(p.buckets - 1) -> MetaType]
<1>1. /\ HeaderTyped(holders) /\ DOMAIN p.recs \subseteq Wallet /\ p.tracked \subseteq H!Owner
      /\ balances \in [Wallet \cup Vault -> Nat]
      /\ PlanTrue(p, balances, step) /\ TodoTrue(p, todo_)
  BY SampleFacts
<1>2. ASSUME NEW n \in 0..(p.buckets - 1), n \in WrittenIn(p, todo_)
      PROVE  NewMeta(p, todo_, listed, n) \in MetaType
  <2> DEFINE f == H!Found(n, listed \cup CrowdedOut(p, todo_) \cup DroppedOut(p, todo_), p)
  <2>1. p.balances = balances /\ H!Owner = Wallet \cup Vault
    BY <1>1 DEF PlanTrue, H!Owner
  <2>2. f \in Digests
    <3> DEFINE S == (p.tracked \cap H!In(n, p)) \ (listed \cup CrowdedOut(p, todo_) \cup DroppedOut(p, todo_))
    <3>1. f = [w \in S |-> balances[w]]
      BY <2>1 DEF H!Found
    <3>2. S \subseteq Wallet \cup Vault
      BY <1>1, <2>1
    <3> HIDE DEF S, f
    <3>3. f \in [S -> Nat]
      BY <1>1, <3>1, <3>2
    <3> QED BY <3>2, <3>3 DEF Digests
  <2>3. H!Slot(n, p.regrow) \in {0, 1}
    BY <1>1, SlotIs
  <2>4. H!Cardinality(DOMAIN NewIn(p, todo_, n)) \in Nat
    <3>1. Cardinality(DOMAIN NewIn(p, todo_, n)) \in Nat
      BY <1>1, NewAre, Zenon
    <3> QED BY <3>1, CountIs
  <2> HIDE DEF f
  <2>5. NewMeta(p, todo_, listed, n) =
           [digest |-> f, count |-> H!Cardinality(DOMAIN NewIn(p, todo_, n)), slot |-> H!Slot(n, p.regrow)]
    BY Zenon DEF NewMeta, f
  <2> QED BY <2>2, <2>3, <2>4, <2>5 DEF MetaType
<1>3. ASSUME NEW n \in 0..(p.buckets - 1), n \notin WrittenIn(p, todo_)
      PROVE  holders.meta[n] \in MetaType
  <2>1. n \in 0..(holders.buckets - 1)
    BY <1>1, <1>3, UnwrittenIs DEF WrittenIn
  <2> QED BY <1>1, <2>1, HeaderTypes
<1> QED BY <1>2, <1>3 DEF MetaOut

LEMMA HeaderKept ==
    ASSUME NEW p, NEW todo_, NEW balances, NEW step, NEW l, NEW e, NEW g,
           SampleOf(p, todo_, balances, step, l, e, g), NEW listed \in SUBSET Vault,
           NEW h, h = HeaderOut(p, todo_, listed)
    PROVE  /\ HeaderTyped(h) /\ h.gen = holders.gen /\ ~h.first /\ h.covered = p.to
           /\ h.buckets = p.buckets /\ h.meta = MetaOut(p, todo_, listed)
<1>1. HeaderTyped(holders) /\ PlanTrue(p, balances, step) /\ step \in Nat
  BY SampleFacts
<1>2. PICK m \in [0..(p.buckets - 1) -> MetaType] : m = MetaOut(p, todo_, listed)
  BY MetaTypes
<1>3. holders.covered \in Nat /\ holders.offCurve \subseteq Vault /\ holders.gen \in Nat
  BY <1>1, HeaderTypes
<1>4. p.to \in Nat /\ p.buckets \in Nat \ {0}
  BY <1>1, <1>3 DEF PlanTrue
<1>5. h = [holders EXCEPT !.first = FALSE, !.covered = p.to, !.buckets = p.buckets, !.meta = m,
                          !.offCurve = @ \cup listed]
  BY <1>2 DEF HeaderOut
<1>6. holders = [ gen |-> holders.gen, first |-> holders.first, covered |-> holders.covered,
                  buckets |-> holders.buckets, offCurve |-> holders.offCurve, meta |-> holders.meta ]
  BY <1>1 DEF HeaderTyped
<1>7. h = [ gen |-> holders.gen, first |-> FALSE, covered |-> p.to, buckets |-> p.buckets,
            offCurve |-> holders.offCurve \cup listed, meta |-> m ]
  BY <1>5, <1>6
<1>8. /\ h.gen = holders.gen /\ ~h.first /\ h.covered = p.to /\ h.buckets = p.buckets /\ h.meta = m
  BY <1>7
<1>9. HeaderTyped(h)
  BY <1>2, <1>3, <1>4, <1>7 DEF HeaderTyped
<1> QED BY <1>2, <1>8, <1>9

-----------------------------------------------------------------------------
(* What is read of what a sample wrote.                                    *)

\* The bucket a header points at is the one just written, or one that was left alone.
LEMMA StoreIs ==
    ASSUME NEW p, NEW todo_, NEW n, NEW slot, NEW k, k = <<p.buckets, n, slot>>
    PROVE  /\ n \notin WrittenIn(p, todo_) =>
                 /\ k \in DOMAIN StoreOut(p, todo_) <=> k \in DOMAIN bucket
                 /\ k \in DOMAIN bucket => StoreOut(p, todo_)[k] = bucket[k]
           /\ n \in WrittenIn(p, todo_) /\ slot = H!Slot(n, p.regrow) /\ NewIn(p, todo_, n) # <<>> =>
                 k \in DOMAIN StoreOut(p, todo_) /\ StoreOut(p, todo_)[k] = NewIn(p, todo_, n)
<1> DEFINE W == WritesOut(p, todo_)
           all == H!Over(W, bucket)
           S == StoreOut(p, todo_)
<1>1. S = H!Restrict(all, {j \in DOMAIN all : j[1] = p.buckets})
  BY Zenon DEF StoreOut
<1>2. DOMAIN S = {j \in DOMAIN all : j[1] = p.buckets} /\ \A j \in DOMAIN S : S[j] = all[j]
  BY <1>1, RestrictIs
<1>3. DOMAIN all = DOMAIN W \cup DOMAIN bucket
      /\ (\A j \in DOMAIN W : all[j] = W[j])
      /\ (\A j \in DOMAIN bucket \ DOMAIN W : all[j] = bucket[j])
  BY OverIs
<1>4. k[1] = p.buckets /\ k[2] = n /\ k[3] = slot
  OBVIOUS
<1>5. DOMAIN W = {<<p.buckets, i, H!Slot(i, p.regrow)>> :
                     i \in {j \in WrittenIn(p, todo_) : NewIn(p, todo_, j) # <<>>}}
      /\ \A j \in DOMAIN W : W[j] = NewIn(p, todo_, j[2])
  BY DEF WritesOut
<1> HIDE DEF W, all, S
<1>6. n \notin WrittenIn(p, todo_) => k \notin DOMAIN W
  BY <1>4, <1>5
<1>7. n \in WrittenIn(p, todo_) /\ slot = H!Slot(n, p.regrow) /\ NewIn(p, todo_, n) # <<>>
         => k \in DOMAIN W /\ W[k] = NewIn(p, todo_, n)
  BY <1>4, <1>5
<1>8. n \notin WrittenIn(p, todo_) =>
         (k \in DOMAIN S <=> k \in DOMAIN bucket) /\ (k \in DOMAIN bucket => S[k] = bucket[k])
  BY <1>2, <1>3, <1>4, <1>6
<1>9. k \in DOMAIN W => k \in DOMAIN S /\ S[k] = W[k]
  BY <1>2, <1>3, <1>4
<1> QED BY <1>7, <1>8, <1>9 DEF S

LEMMA LiveOut ==
    ASSUME NEW p, NEW todo_, NEW balances, NEW step, NEW l, NEW e, NEW g,
           SampleOf(p, todo_, balances, step, l, e, g), NEW listed \in SUBSET Vault,
           NEW h, h = HeaderOut(p, todo_, listed), NEW n \in 0..(p.buckets - 1)
    PROVE  LET L == LiveAt(h, StoreOut(p, todo_), n)
           IN  /\ DOMAIN L = {w \in DOMAIN LastRecs(p, todo_) : H!bucketOf(w, p.buckets) = n}
               /\ \A w \in DOMAIN L : L[w] = LastRecs(p, todo_)[w]
               /\ n \in WrittenIn(p, todo_) => Cardinality(DOMAIN L) = h.meta[n].count
               /\ n \notin WrittenIn(p, todo_) =>
                     L = LiveAt(holders, bucket, n) /\ h.meta[n] = holders.meta[n]
<1> DEFINE F == LastRecs(p, todo_)
           N == NewIn(p, todo_, n)
           S == StoreOut(p, todo_)
           L == LiveAt(h, S, n)
           m == h.meta[n]
           k == <<p.buckets, n, m.slot>>
<1>1. /\ HeaderTyped(holders) /\ DOMAIN p.recs \subseteq Wallet /\ p.tracked \subseteq H!Owner
      /\ PlanTrue(p, balances, step) /\ TodoTrue(p, todo_)
      /\ BucketsTrue(holders, bucket) /\ p.recs = RecsAt(holders, bucket)
  BY SampleFacts
<1>2. h.buckets = p.buckets /\ h.meta = MetaOut(p, todo_, listed)
  BY HeaderKept
<1>3. L = IF m.count > 0 /\ k \in DOMAIN S THEN S[k] ELSE <<>>
  BY <1>2 DEF LiveAt
<1>4. /\ DOMAIN N = {w \in DOMAIN F : H!bucketOf(w, p.buckets) = n}
      /\ \A w \in DOMAIN N : N[w] = F[w]
      /\ Cardinality(DOMAIN N) \in Nat /\ H!Cardinality(DOMAIN N) = Cardinality(DOMAIN N)
  <2>1. DOMAIN N = {w \in DOMAIN F : H!bucketOf(w, p.buckets) = n}
    <3>1. \A w : w \in DOMAIN N <=> w \in DOMAIN F /\ H!bucketOf(w, p.buckets) = n
      BY <1>1, NewAre, Zenon
    <3> HIDE DEF N, F
    <3> QED BY <3>1
  <2>2. \A w \in DOMAIN N : N[w] = F[w]
    BY <1>1, NewAre, Zenon
  <2>3. Cardinality(DOMAIN N) \in Nat
    BY <1>1, NewAre, Zenon
  <2> QED BY <2>1, <2>2, <2>3, CountIs
<1>5. CASE n \in WrittenIn(p, todo_)
  <2>1. m = NewMeta(p, todo_, listed, n)
    BY <1>1, <1>2, <1>5, MetaIs
  <2>2. m.count = Cardinality(DOMAIN N) /\ m.slot = H!Slot(n, p.regrow)
    BY <2>1, <1>4 DEF NewMeta
  <2>3. N # <<>> => k \in DOMAIN S /\ S[k] = N
    <3> HIDE DEF m, S, N
    <3>1. k = <<p.buckets, n, m.slot>>
      OBVIOUS
    <3> HIDE DEF k
    <3> QED BY <1>5, <2>2, <3>1, StoreIs DEF S, N
  <2> HIDE DEF F, N, S, L, m, k
  <2>4. CASE m.count > 0
    <3>1. N # <<>>
      <4>1. Cardinality(DOMAIN <<>>) = 0
        <5>1. DOMAIN <<>> = {}
          OBVIOUS
        <5> QED BY <5>1, FS_EmptySet
      <4> QED BY <2>2, <2>4, <4>1
    <3>2. L = N
      BY <1>3, <2>3, <2>4, <3>1
    <3> QED BY <1>4, <1>5, <2>2, <3>2 DEF F, L, S, m
  <2>5. CASE ~(m.count > 0)
    <3>1. L = <<>>
      BY <1>3, <2>5
    <3>2. Cardinality(DOMAIN N) = 0
      BY <1>4, <2>2, <2>5
    <3>3. IsFiniteSet(DOMAIN N)
      <4>1. DOMAIN F \subseteq Wallet
        BY <1>1, LastAre, Zenon DEF F
      <4> QED BY <1>4, <4>1, WalletsFinite
    <3>4. DOMAIN N = {}
      BY <3>2, <3>3, FS_EmptySet
    <3>5. DOMAIN L = {}
      BY <3>1
    <3> QED BY <1>4, <1>5, <2>2, <3>2, <3>4, <3>5 DEF F, L, S, m
  <2> QED BY <2>4, <2>5
<1>6. CASE n \notin WrittenIn(p, todo_)
  <2>1. n \notin todo_
    BY <1>6 DEF WrittenIn
  <2>2. p.buckets = holders.buckets /\ n \in 0..(holders.buckets - 1)
    BY <1>1, <2>1, UnwrittenIs
  <2>3. m = holders.meta[n]
    BY <1>1, <1>2, <1>6, MetaIs
  <2>4. (k \in DOMAIN S <=> k \in DOMAIN bucket) /\ (k \in DOMAIN bucket => S[k] = bucket[k])
    <3> HIDE DEF m, S
    <3>1. k = <<p.buckets, n, m.slot>>
      OBVIOUS
    <3> HIDE DEF k
    <3> QED BY <1>6, <3>1, StoreIs DEF S
  <2>5. L = LiveAt(holders, bucket, n)
    <3>1. LiveAt(holders, bucket, n) = IF m.count > 0 /\ k \in DOMAIN bucket THEN bucket[k] ELSE <<>>
      BY <2>2, <2>3 DEF LiveAt
    <3> HIDE DEF m, k, S, L
    <3> QED BY <1>3, <2>4, <3>1
  <2>6. DOMAIN L = {w \in DOMAIN p.recs : H!bucketOf(w, p.buckets) = n}
    BY <1>1, <2>2, <2>5, RecsByBucket
  <2>7. \A w \in DOMAIN L : L[w] = p.recs[w]
    <3> SUFFICES ASSUME NEW w \in DOMAIN L PROVE L[w] = p.recs[w]
      OBVIOUS
    <3>1. w \in DOMAIN p.recs /\ H!bucketOf(w, p.buckets) = n
      BY <2>6
    <3>2. p.recs[w] = LiveAt(holders, bucket, H!bucketOf(w, holders.buckets))[w]
      BY <1>1, <3>1, RecsByBucket
    <3> QED BY <2>2, <2>5, <3>1, <3>2
  <2> HIDE DEF L
  <2>8. \A w : w \in DOMAIN L <=> w \in DOMAIN F /\ H!bucketOf(w, p.buckets) = n
    <3>1. ASSUME NEW w \in DOMAIN L PROVE w \in DOMAIN F
      <4>1. w \in DOMAIN p.recs /\ H!bucketOf(w, p.buckets) = n
        BY <2>6
      <4>2. w \in RestIn(p, todo_)
        BY <2>1, <4>1 DEF RestIn
      <4>3. w \in DOMAIN Merged(p, todo_)
        BY <1>1, <4>2, MergedAre, Zenon
      <4>4. w \notin DroppedOut(p, todo_)
        BY <1>6, <4>1 DEF WrittenIn
      <4> QED BY <1>1, <4>3, <4>4, LastAre, Zenon
    <3>2. ASSUME NEW w \in DOMAIN F, H!bucketOf(w, p.buckets) = n PROVE w \in DOMAIN L
      <4>1. w \in DOMAIN p.recs
        BY <1>1, <2>1, <3>2, LastIs
      <4> QED BY <2>6, <3>2, <4>1
    <3> QED BY <2>6, <3>1, <3>2
  <2>9. \A w \in DOMAIN L : L[w] = F[w]
    <3> SUFFICES ASSUME NEW w \in DOMAIN L PROVE L[w] = F[w]
      OBVIOUS
    <3>1. w \in DOMAIN F /\ H!bucketOf(w, p.buckets) \notin todo_
      BY <2>1, <2>8
    <3>2. F[w] = p.recs[w]
      BY <1>1, <3>1, LastIs
    <3> QED BY <2>7, <3>2
  <2>10. DOMAIN L = {w \in DOMAIN F : H!bucketOf(w, p.buckets) = n}
    BY <2>8
  <2> QED BY <1>6, <2>3, <2>5, <2>9, <2>10 DEF L
<1> QED BY <1>5, <1>6

\* The records on file after the sample are the ones it left.
LEMMA RecsOut ==
    ASSUME NEW p, NEW todo_, NEW balances, NEW step, NEW l, NEW e, NEW g,
           SampleOf(p, todo_, balances, step, l, e, g), NEW listed \in SUBSET Vault,
           NEW h, h = HeaderOut(p, todo_, listed)
    PROVE  /\ DOMAIN RecsAt(h, StoreOut(p, todo_)) = DOMAIN LastRecs(p, todo_)
           /\ \A w \in DOMAIN LastRecs(p, todo_) :
                 RecsAt(h, StoreOut(p, todo_))[w] = LastRecs(p, todo_)[w]
<1> DEFINE F == LastRecs(p, todo_)
           S == StoreOut(p, todo_)
           B == p.buckets
<1>1. DOMAIN h.meta = 0..(B - 1) /\ h.buckets = B
  BY HeaderKept, HeaderTypes
<1>2. DOMAIN p.recs \subseteq Wallet /\ p.tracked \subseteq H!Owner /\ B \in Nat \ {0}
  BY SampleFacts DEF PlanTrue
<1>3. DOMAIN F \subseteq Wallet
  BY <1>2, LastAre, Zenon
<1>4. \A w \in DOMAIN F : H!bucketOf(w, B) \in 0..(B - 1)
  BY <1>2, <1>3, BucketIn
<1>5. \A n \in 0..(B - 1) :
         /\ DOMAIN LiveAt(h, S, n) = {w \in DOMAIN F : H!bucketOf(w, B) = n}
         /\ \A w \in DOMAIN LiveAt(h, S, n) : LiveAt(h, S, n)[w] = F[w]
  BY LiveOut
<1>6. DOMAIN RecsAt(h, S) = UNION {DOMAIN LiveAt(h, S, n) : n \in 0..(B - 1)}
      /\ \A w \in DOMAIN RecsAt(h, S) : RecsAt(h, S)[w] = LiveAt(h, S, H!bucketOf(w, B))[w]
  BY <1>1 DEF RecsAt
<1> HIDE DEF F, S, B
<1>7. \A w : w \in DOMAIN RecsAt(h, S) <=> w \in DOMAIN F
  <2>1. ASSUME NEW w \in DOMAIN F PROVE w \in DOMAIN RecsAt(h, S)
    <3>1. w \in DOMAIN LiveAt(h, S, H!bucketOf(w, B))
      BY <1>4, <1>5
    <3> QED BY <1>4, <1>6, <3>1
  <2>2. ASSUME NEW w \in DOMAIN RecsAt(h, S) PROVE w \in DOMAIN F
    BY <1>5, <1>6
  <2> QED BY <2>1, <2>2
<1>8. \A w \in DOMAIN F : RecsAt(h, S)[w] = F[w]
  <2> SUFFICES ASSUME NEW w \in DOMAIN F PROVE RecsAt(h, S)[w] = F[w]
    OBVIOUS
  <2>1. w \in DOMAIN LiveAt(h, S, H!bucketOf(w, B))
    BY <1>4, <1>5
  <2>2. LiveAt(h, S, H!bucketOf(w, B))[w] = F[w]
    BY <1>4, <1>5, <2>1
  <2> QED BY <1>6, <1>7, <2>2
<1> QED BY <1>7, <1>8 DEF F, S

-----------------------------------------------------------------------------
(* The bounds.                                                             *)

LEMMA SubsetCounts ==
    ASSUME NEW S \in SUBSET Wallet, NEW T \in SUBSET S
    PROVE  Cardinality(T) \in Nat /\ Cardinality(S) \in Nat /\ Cardinality(T) <= Cardinality(S)
           /\ IsFiniteSet(S) /\ IsFiniteSet(T)
BY WalletsFinite, FS_Subset

LEMMA RecordTypes ==
    ASSUME NEW p, NEW todo_, NEW balances, NEW step, NEW l, NEW e, NEW g,
           SampleOf(p, todo_, balances, step, l, e, g)
    PROVE  /\ \A w \in KeptIn(p, todo_) : Dated(RecAfter(p, w), holders.gen, p.to)
           /\ \A w \in RestIn(p, todo_) : Dated(p.recs[w], holders.gen, p.to)
           /\ holders.gen \in Nat /\ p.to \in Nat
<1>1. /\ HeaderTyped(holders) /\ DOMAIN p.recs \subseteq Wallet /\ p.tracked \subseteq H!Owner
      /\ balances \in [Wallet \cup Vault -> Nat] /\ step \in Nat
      /\ PlanTrue(p, balances, step)
      /\ \A w \in DOMAIN p.recs : Dated(p.recs[w], holders.gen, holders.covered)
  BY SampleFacts
<1>2. holders.gen \in Nat /\ holders.covered \in Nat /\ p.to = holders.covered + step
  BY <1>1, HeaderTypes DEF PlanTrue
<1>3. ASSUME NEW w \in KeptIn(p, todo_) PROVE Dated(RecAfter(p, w), holders.gen, p.to)
  <2>1. w \in Wallet
    BY <1>1, KeptAre, Zenon
  <2> QED BY <1>1, <2>1, AfterWeighs
<1>4. ASSUME NEW w \in RestIn(p, todo_) PROVE Dated(p.recs[w], holders.gen, p.to)
  <2>1. w \in DOMAIN p.recs
    BY DEF RestIn
  <2>2. PICK gen \in Nat : gen = holders.gen
    BY <1>2
  <2>3. PICK covered \in Nat : covered = holders.covered
    BY <1>2
  <2>4. PICK r : r = p.recs[w]
    OBVIOUS
  <2>5. Dated(r, gen, covered)
    BY <1>1, <2>1, <2>2, <2>3, <2>4
  <2>6. Dated(r, gen, covered + step)
    BY <1>1, <2>2, <2>3, <2>5, WeightGrows
  <2> QED BY <1>2, <2>2, <2>3, <2>4, <2>6
<1> QED BY <1>1, <1>2, <1>3, <1>4

LEMMA BucketKept ==
    ASSUME NEW p, NEW todo_, NEW balances, NEW step, NEW l, NEW e, NEW g,
           SampleOf(p, todo_, balances, step, l, e, g), NEW n \in 0..(p.buckets - 1)
    PROVE  Cardinality({w \in DOMAIN LastRecs(p, todo_) : H!bucketOf(w, p.buckets) = n}) <= bucketMax
<1> DEFINE F == LastRecs(p, todo_)
           K == KeptIn(p, todo_)
           T == {w \in DOMAIN F : H!bucketOf(w, p.buckets) = n}
           part_ == PartOf(p, Built(p, todo_), n)
           count == H!Cardinality(DOMAIN part_) - bucketMax
           low == H!Lowest(part_, count, p.to)
           rest == DOMAIN part_ \ low
<1>1. /\ HeaderTyped(holders) /\ DOMAIN p.recs \subseteq Wallet /\ p.tracked \subseteq H!Owner
      /\ PlanTrue(p, balances, step) /\ TodoTrue(p, todo_)
      /\ BucketsTrue(holders, bucket) /\ p.recs = RecsAt(holders, bucket)
  BY SampleFacts
<1>2. DOMAIN F \subseteq Wallet /\ bucketMax \in Nat
  BY <1>1, LastAre, HoldersAssumption
<1>3. CASE n \in todo_
  <2>1. K \subseteq Wallet
    BY <1>1, KeptAre, Zenon
  <2>2. DOMAIN part_ = K \cap H!In(n, p) /\ \A w \in DOMAIN part_ : part_[w] = RecAfter(p, w)
    <3>1. DOMAIN Built(p, todo_) = K /\ \A w \in K : Built(p, todo_)[w] = RecAfter(p, w)
      BY DEF Built
    <3>2. DOMAIN part_ = DOMAIN Built(p, todo_) \cap H!In(n, p)
          /\ \A w \in DOMAIN part_ : part_[w] = Built(p, todo_)[w]
      BY RestrictIs DEF PartOf
    <3> HIDE DEF part_, K
    <3> QED BY <3>1, <3>2
  <2>3. DOMAIN part_ \subseteq Wallet
    BY <2>1, <2>2
  <2>4. Cardinality(DOMAIN part_) \in Nat /\ count = Cardinality(DOMAIN part_) - bucketMax
    BY <2>3, WalletsFinite, CountIs
  <2>5. \A w \in DOMAIN part_ : Dated(part_[w], holders.gen, p.to)
    BY <2>2, RecordTypes
  <2>6. DOMAIN part_ \subseteq H!Owner
    BY <2>3 DEF H!Owner
  <2>7. holders.gen \in Nat /\ p.to \in Nat
    BY RecordTypes
  <2> HIDE DEF part_
  <2>8. count \in Int
    BY <1>2, <2>4
  <2> HIDE DEF count
  <2>9. rest = {} \/ Cardinality(rest) + count <= Cardinality(DOMAIN part_)
    BY <2>5, <2>6, <2>7, <2>8, LowestLeaves
  <2>10. T \subseteq rest
    <3> SUFFICES ASSUME NEW w \in T PROVE w \in rest
      OBVIOUS
    <3>1. w \in DOMAIN F /\ H!bucketOf(w, p.buckets) = n
      OBVIOUS
    <3>2. w \in K
      BY <1>1, <1>3, <3>1, LastIs
    <3>3. w \in DOMAIN part_
      BY <1>2, <2>2, <3>1, <3>2 DEF H!In, H!Owner
    <3>4. w \notin CrowdedOut(p, todo_)
      BY <1>1, <3>1, LastAre DEF GoneOut
    <3>5. low \subseteq CrowdedOut(p, todo_)
      BY <1>3 DEF CrowdedOut, Crowded, part_, count
    <3> QED BY <3>3, <3>4, <3>5
  <2>11. Cardinality(T) <= Cardinality(rest) /\ Cardinality(T) \in Nat /\ Cardinality(rest) \in Nat
    BY <2>3, <2>10, SubsetCounts
  <2>12. rest = {} => Cardinality(rest) = 0
    BY FS_EmptySet
  <2> HIDE DEF T, rest, low
  <2>13. Cardinality(T) <= bucketMax
    BY <1>2, <2>4, <2>9, <2>11, <2>12
  <2> QED BY <2>13 DEF T
<1>4. CASE n \notin todo_
  <2>1. p.buckets = holders.buckets /\ n \in 0..(holders.buckets - 1)
    BY <1>1, <1>4, UnwrittenIs
  <2> DEFINE L == LiveAt(holders, bucket, n)
  <2>2. DOMAIN L = {w \in DOMAIN p.recs : H!bucketOf(w, p.buckets) = n}
    BY <1>1, <2>1, RecsByBucket
  <2>3. Cardinality(DOMAIN L) <= bucketMax
    BY <2>1, <1>1 DEF BucketsTrue
  <2> HIDE DEF L
  <2>4. T \subseteq DOMAIN L
    <3> SUFFICES ASSUME NEW w \in T PROVE w \in DOMAIN L
      OBVIOUS
    <3>1. w \in DOMAIN F /\ H!bucketOf(w, p.buckets) = n
      OBVIOUS
    <3>2. w \in DOMAIN p.recs
      BY <1>1, <1>4, <3>1, LastIs
    <3> QED BY <2>2, <3>1, <3>2
  <2>5. DOMAIN L \subseteq Wallet
    BY <1>1, <2>2
  <2>6. Cardinality(T) <= Cardinality(DOMAIN L) /\ Cardinality(T) \in Nat /\ Cardinality(DOMAIN L) \in Nat
    BY <2>4, <2>5, SubsetCounts
  <2> HIDE DEF T
  <2>7. Cardinality(T) <= bucketMax
    BY <1>2, <2>3, <2>6
  <2> QED BY <2>7 DEF T
<1> QED BY <1>3, <1>4

LEMMA AllKept ==
    ASSUME NEW p, NEW todo_, NEW balances, NEW step, NEW l, NEW e, NEW g,
           SampleOf(p, todo_, balances, step, l, e, g)
    PROVE  Cardinality(DOMAIN LastRecs(p, todo_)) <= maxRecords
<1> DEFINE F == LastRecs(p, todo_)
           M == Merged(p, todo_)
           K == KeptIn(p, todo_) \ CrowdedOut(p, todo_)
           rest == RestIn(p, todo_)
           skipped == (0..(p.buckets - 1)) \ todo_
           counted == H!Counted(holders.meta, skipped)
           total == TotalOf(p, todo_, Built(p, todo_), CrowdedOut(p, todo_))
           drop == DroppedOut(p, todo_)
           D == [n \in skipped |-> DOMAIN LiveAt(holders, bucket, n)]
<1>1. /\ HeaderTyped(holders) /\ DOMAIN p.recs \subseteq Wallet /\ p.tracked \subseteq H!Owner
      /\ PlanTrue(p, balances, step) /\ TodoTrue(p, todo_)
      /\ BucketsTrue(holders, bucket) /\ p.recs = RecsAt(holders, bucket)
  BY SampleFacts
<1>2. K \subseteq Wallet /\ rest \subseteq Wallet
  BY <1>1, KeptAre, Zenon
<1>3. DOMAIN M = K \cup rest
  BY <1>1, MergedAre, Zenon
<1>4. skipped # {} => p.buckets = holders.buckets
  BY <1>1, UnwrittenIs
<1>5. \A n \in skipped :
         /\ DOMAIN LiveAt(holders, bucket, n) = {w \in DOMAIN p.recs : H!bucketOf(w, p.buckets) = n}
         /\ Cardinality(DOMAIN LiveAt(holders, bucket, n)) <= holders.meta[n].count
         /\ holders.meta[n].count \in Nat
  <2> SUFFICES ASSUME NEW n \in skipped
               PROVE  /\ DOMAIN LiveAt(holders, bucket, n)
                            = {w \in DOMAIN p.recs : H!bucketOf(w, p.buckets) = n}
                      /\ Cardinality(DOMAIN LiveAt(holders, bucket, n)) <= holders.meta[n].count
                      /\ holders.meta[n].count \in Nat
    OBVIOUS
  <2>1. p.buckets = holders.buckets /\ n \in 0..(holders.buckets - 1)
    BY <1>1, UnwrittenIs
  <2>2. DOMAIN LiveAt(holders, bucket, n) = {w \in DOMAIN p.recs : H!bucketOf(w, p.buckets) = n}
    BY <1>1, <2>1, RecsByBucket
  <2>3. Cardinality(DOMAIN LiveAt(holders, bucket, n)) <= holders.meta[n].count
    BY <1>1, <2>1 DEF BucketsTrue
  <2> QED BY <1>1, <2>1, <2>2, <2>3, HeaderTypes
<1>6. rest \subseteq UNION {D[n] : n \in skipped}
  <2> SUFFICES ASSUME NEW w \in rest PROVE \E n \in skipped : w \in D[n]
    OBVIOUS
  <2>1. w \in DOMAIN p.recs /\ w \in Wallet /\ H!bucketOf(w, p.buckets) \notin todo_
    BY <1>1 DEF RestIn
  <2>2. p.buckets \in Nat \ {0}
    BY <1>1 DEF PlanTrue
  <2>3. H!bucketOf(w, p.buckets) \in skipped
    BY <2>1, <2>2, BucketIn
  <2> HIDE DEF skipped
  <2> QED BY <1>5, <2>1, <2>3
<1>7. IsFiniteSet(skipped)
  <2>1. p.buckets \in Nat \ {0}
    BY <1>1 DEF PlanTrue
  <2>2. IsFiniteSet(0..(p.buckets - 1))
    BY <2>1, FS_Interval
  <2> QED BY <2>2, FS_Subset
<1>8. \A n \in skipped : IsFiniteSet(D[n]) /\ holders.meta[n].count \in Nat
                         /\ Cardinality(D[n]) <= holders.meta[n].count
  <2> SUFFICES ASSUME NEW n \in skipped
               PROVE  IsFiniteSet(D[n]) /\ holders.meta[n].count \in Nat
                      /\ Cardinality(D[n]) <= holders.meta[n].count
    OBVIOUS
  <2>1. D[n] = DOMAIN LiveAt(holders, bucket, n)
    OBVIOUS
  <2>2. D[n] \subseteq Wallet
    BY <1>1, <1>5, <2>1
  <2> HIDE DEF D, skipped
  <2> QED BY <1>5, <2>1, <2>2, WalletsFinite
<1> HIDE DEF D, skipped
<1>9. IsFiniteSet(UNION {D[n] : n \in skipped}) /\ counted \in Nat
      /\ Cardinality(UNION {D[n] : n \in skipped}) <= counted
  BY <1>7, <1>8, CountedCovers
<1>10. Cardinality(rest) \in Nat /\ Cardinality(rest) <= counted
  <2>1. Cardinality(UNION {D[n] : n \in skipped}) \in Nat
        /\ Cardinality(rest) <= Cardinality(UNION {D[n] : n \in skipped})
    BY <1>6, <1>9, FS_Subset, FS_CardinalityType
  <2> QED BY <1>2, <1>9, <2>1, WalletsFinite
<1>11. total = Cardinality(K) + counted
  BY CountIs DEF TotalOf, Built, skipped
<1> HIDE DEF counted, total, K, rest
<1>12. Cardinality(K) \in Nat /\ Cardinality(DOMAIN M) \in Nat
       /\ Cardinality(DOMAIN M) <= Cardinality(K) + Cardinality(rest)
  <2>1. IsFiniteSet(K) /\ IsFiniteSet(rest)
    BY <1>2, WalletsFinite
  <2>2. Cardinality(K \cup rest) = Cardinality(K) + Cardinality(rest) - Cardinality(K \cap rest)
    BY <2>1, FS_Union
  <2>3. Cardinality(K \cap rest) \in Nat /\ Cardinality(K \cup rest) \in Nat /\ Cardinality(K) \in Nat
    BY <1>2, WalletsFinite
  <2> QED BY <1>3, <1>10, <2>2, <2>3
<1>13. Cardinality(DOMAIN M) <= total /\ total \in Nat
  BY <1>9, <1>10, <1>11, <1>12
<1>14. DOMAIN F = DOMAIN M \ drop
  BY <1>1, LastAre, Zenon
<1>15. maxRecords \in Nat
  BY HoldersAssumption
<1>16. CASE total <= maxRecords
  <2>1. DOMAIN M \subseteq Wallet
    BY <1>2, <1>3
  <2>2. Cardinality(DOMAIN F) \in Nat /\ Cardinality(DOMAIN F) <= Cardinality(DOMAIN M)
    BY <1>14, <2>1, SubsetCounts
  <2> QED BY <1>12, <1>13, <1>15, <1>16, <2>2
<1>17. CASE total > maxRecords
  <2>1. drop = H!Lowest(M, total - H!keepRecords, p.to)
    BY <1>17 DEF DroppedOut, Dropped, total
  <2>2. H!keepRecords \in Int /\ H!keepRecords <= maxRecords /\ H!keepRecords >= 0
    <3>1. maxRecords \div 8 \in 0..maxRecords
      BY <1>15
    <3> QED BY <1>15, <3>1 DEF H!keepRecords
  <2>3. DOMAIN M \subseteq H!Owner
    BY <1>2, <1>3 DEF H!Owner
  <2>4. \A w \in DOMAIN M : Dated(M[w], holders.gen, p.to)
    <3>1. \A w : w \in K => M[w] = RecAfter(p, w) /\ Dated(RecAfter(p, w), holders.gen, p.to)
      <4> SUFFICES ASSUME NEW w \in K
                   PROVE  M[w] = RecAfter(p, w) /\ Dated(RecAfter(p, w), holders.gen, p.to)
        OBVIOUS
      <4>1. w \in KeptIn(p, todo_) \ CrowdedOut(p, todo_)
        BY DEF K
      <4>2. M[w] = RecAfter(p, w)
        BY <1>1, <4>1, MergedAre, Zenon
      <4> QED BY <4>1, <4>2, RecordTypes
    <3>2. \A w : w \in rest => M[w] = p.recs[w] /\ Dated(p.recs[w], holders.gen, p.to)
      <4> SUFFICES ASSUME NEW w \in rest
                   PROVE  M[w] = p.recs[w] /\ Dated(p.recs[w], holders.gen, p.to)
        OBVIOUS
      <4>1. w \in RestIn(p, todo_)
        BY DEF rest
      <4>2. M[w] = p.recs[w]
        BY <1>1, <4>1, MergedAre, ZenonT(60)
      <4> QED BY <4>1, <4>2, RecordTypes
    <3> HIDE DEF M
    <3> QED BY <1>3, <3>1, <3>2
  <2>5. total - H!keepRecords \in Int
    BY <1>13, <2>2
  <2>6. holders.gen \in Nat /\ p.to \in Nat
    BY RecordTypes
  <2>7. LET left == DOMAIN M \ H!Lowest(M, total - H!keepRecords, p.to)
        IN left = {} \/ Cardinality(left) + (total - H!keepRecords) <= Cardinality(DOMAIN M)
    <3> HIDE DEF M
    <3> QED BY <2>3, <2>4, <2>5, <2>6, LowestLeaves
  <2>8. DOMAIN F = {} \/ Cardinality(DOMAIN F) + (total - H!keepRecords) <= Cardinality(DOMAIN M)
    BY <1>14, <2>1, <2>7
  <2>9. Cardinality(DOMAIN F) \in Nat
    BY <1>1, LastAre, WalletsFinite
  <2>10. DOMAIN F = {} => Cardinality(DOMAIN F) = 0
    BY FS_EmptySet
  <2> HIDE DEF F, M, drop
  <2>11. Cardinality(DOMAIN F) <= maxRecords
    BY <1>12, <1>13, <1>15, <2>2, <2>8, <2>9, <2>10
  <2> QED BY <2>11 DEF F
<1> QED BY <1>13, <1>15, <1>16, <1>17

-----------------------------------------------------------------------------
(* A sample keeps the invariant.                                           *)

LEMMA TimesGrows ==
    ASSUME NEW x \in Nat, NEW y \in Nat, NEW z \in Nat, x <= y
    PROVE  x * z \in Nat /\ y * z \in Nat /\ x * z <= y * z
<1>1. PICK d \in Nat : y = x + d
  <2>1. y - x \in Nat /\ y = x + (y - x)
    OBVIOUS
  <2> QED BY <2>1
<1>2. \A i, j, k \in Int : (i + j) * k = i * k + j * k
  OBVIOUS
<1>3. y * z = x * z + d * z
  BY <1>1, <1>2
<1>4. x * z \in Nat /\ d * z \in Nat /\ y * z \in Nat
  BY <1>1, TimesNat
<1> QED BY <1>3, <1>4

\* The digests a sample leaves are of the balances found, but of the owners that were left out.
LEMMA NotedOut ==
    ASSUME NEW p, NEW todo_, NEW balances, NEW step, NEW l, NEW e, NEW g,
           SampleOf(p, todo_, balances, step, l, e, g), NEW listed \in SUBSET Vault,
           NEW h, h = HeaderOut(p, todo_, listed), NEW w \in Wallet
    PROVE  /\ Noted(h, w) \in {0, H!Held(w, p)}
           /\ w \in DOMAIN LastRecs(p, todo_) => Noted(h, w) = H!Held(w, p)
<1> DEFINE n == H!bucketOf(w, p.buckets)
           out == listed \cup CrowdedOut(p, todo_) \cup DroppedOut(p, todo_)
<1>1. /\ HeaderTyped(holders) /\ DOMAIN p.recs \subseteq Wallet /\ p.tracked \subseteq H!Owner
      /\ balances \in [Wallet \cup Vault -> Nat]
      /\ PlanTrue(p, balances, step) /\ TodoTrue(p, todo_)
  BY SampleFacts
<1>2. h.buckets = p.buckets /\ h.meta = MetaOut(p, todo_, listed) /\ n \in 0..(p.buckets - 1)
  BY <1>1, HeaderKept, BucketIn DEF PlanTrue
<1>3. Noted(h, w) = IF w \in DOMAIN h.meta[n].digest THEN h.meta[n].digest[w] ELSE 0
  BY <1>2 DEF Noted
<1>4. CASE n \in WrittenIn(p, todo_)
  <2>1. h.meta[n] = NewMeta(p, todo_, listed, n)
    BY <1>1, <1>2, <1>4, MetaIs
  <2>2. h.meta[n].digest = H!Found(n, out, p)
    BY <2>1 DEF NewMeta
  <2>3. w \in DOMAIN H!Found(n, out, p) <=> w \in p.tracked /\ w \notin out
    <3>1. w \in H!Owner
      BY DEF H!Owner
    <3> HIDE DEF out
    <3> QED BY <3>1, FoundIs
  <2>4. w \in DOMAIN H!Found(n, out, p) => H!Found(n, out, p)[w] = p.balances[w]
    <3> HIDE DEF out
    <3> QED BY FoundIs
  <2>5. w \in p.tracked => H!Held(w, p) = p.balances[w]
    BY DEF H!Held
  <2>6. w \notin p.tracked => H!Held(w, p) = 0
    BY DEF H!Held
  <2>7. w \in DOMAIN LastRecs(p, todo_) => w \notin out
    <3>1. w \notin listed
      BY HoldersAssumption
    <3>2. w \in DOMAIN LastRecs(p, todo_) => w \notin GoneOut(p, todo_)
      BY <1>1, LastAre, Zenon
    <3> QED BY <3>1, <3>2 DEF GoneOut
  <2> HIDE DEF out, n
  <2> QED BY <1>3, <2>2, <2>3, <2>4, <2>5, <2>6, <2>7
<1>5. CASE n \notin WrittenIn(p, todo_)
  <2>1. n \notin todo_
    BY <1>5 DEF WrittenIn
  <2>2. p.buckets = holders.buckets
    BY <1>1, <1>2, <2>1, UnwrittenIs
  <2>3. h.meta[n] = holders.meta[n]
    BY <1>1, <1>2, <1>5, MetaIs
  <2>4. Noted(h, w) = Noted(holders, w)
    BY <1>3, <2>2, <2>3 DEF Noted
  <2>5. Noted(holders, w) = H!Held(w, p)
    BY <1>1, <2>1, NotedIsHeld
  <2> QED BY <2>4, <2>5
<1> QED BY <1>4, <1>5

LEMMA BucketsOut ==
    ASSUME NEW p, NEW todo_, NEW balances, NEW step, NEW l, NEW e, NEW g,
           SampleOf(p, todo_, balances, step, l, e, g), NEW listed \in SUBSET Vault,
           NEW h, h = HeaderOut(p, todo_, listed)
    PROVE  BucketsTrue(h, StoreOut(p, todo_))
<1>1. /\ HeaderTyped(holders) /\ DOMAIN p.recs \subseteq Wallet /\ p.tracked \subseteq H!Owner
      /\ PlanTrue(p, balances, step) /\ TodoTrue(p, todo_) /\ BucketsTrue(holders, bucket)
  BY SampleFacts
<1>2. h.buckets = p.buckets
  BY HeaderKept
<1>3. ASSUME NEW n \in 0..(p.buckets - 1)
      PROVE  LET L == LiveAt(h, StoreOut(p, todo_), n)
             IN  /\ DOMAIN L \subseteq {w \in Wallet : H!bucketOf(w, p.buckets) = n}
                 /\ Cardinality(DOMAIN L) <= h.meta[n].count
                 /\ Cardinality(DOMAIN L) <= bucketMax
  <2> DEFINE F == LastRecs(p, todo_)
             T == {w \in DOMAIN F : H!bucketOf(w, p.buckets) = n}
  <2>1. PICK L : L = LiveAt(h, StoreOut(p, todo_), n)
    OBVIOUS
  <2>2. /\ DOMAIN L = T
        /\ n \in WrittenIn(p, todo_) => Cardinality(DOMAIN L) = h.meta[n].count
        /\ n \notin WrittenIn(p, todo_) =>
              L = LiveAt(holders, bucket, n) /\ h.meta[n] = holders.meta[n]
    BY <2>1, LiveOut
  <2>3. DOMAIN F \subseteq Wallet
    BY <1>1, LastAre, Zenon
  <2>4. Cardinality(T) <= bucketMax
    BY BucketKept
  <2>5. DOMAIN L \subseteq {w \in Wallet : H!bucketOf(w, p.buckets) = n}
    BY <2>2, <2>3
  <2>6. Cardinality(DOMAIN L) \in Nat
    BY <2>5, WalletsFinite
  <2>7. Cardinality(DOMAIN L) <= h.meta[n].count
    <3>1. CASE n \in WrittenIn(p, todo_)
      BY <2>2, <2>6, <3>1
    <3>2. CASE n \notin WrittenIn(p, todo_)
      <4>1. n \in 0..(holders.buckets - 1)
        BY <1>1, <3>2, UnwrittenIs DEF WrittenIn
      <4>2. Cardinality(DOMAIN LiveAt(holders, bucket, n)) <= holders.meta[n].count
        BY <1>1, <4>1 DEF BucketsTrue
      <4> QED BY <2>2, <3>2, <4>2
    <3> QED BY <3>1, <3>2
  <2>8. Cardinality(DOMAIN L) <= bucketMax
    BY <2>2, <2>4
  <2> QED BY <2>1, <2>5, <2>7, <2>8
<1> QED BY <1>2, <1>3 DEF BucketsTrue

\* Whether some of a wallet's time is not on record, after the sample.
GapOut(p, todo_, balances, g) ==
    [w \in Wallet |->
        IF w \in LeftOut(p, todo_) THEN "open"
        ELSE IF g[w] = "open" /\ BalanceIn(LastRecs(p, todo_), w) = balances[w] THEN "mended"
        ELSE g[w]]

LEMMA LeftIs ==
    ASSUME NEW p, NEW todo_, NEW balances, NEW step, NEW l, NEW e, NEW g,
           SampleOf(p, todo_, balances, step, l, e, g), NEW w \in Wallet
    PROVE  /\ w \in GoneOut(p, todo_) => w \in LeftOut(p, todo_)
           /\ w \notin LeftOut(p, todo_) => H!Held(w, p) = balances[w]
           /\ H!Held(w, p) \in Nat /\ H!Held(w, p) <= balances[w] /\ balances[w] \in Nat
<1>1. PlanTrue(p, balances, step) /\ balances \in [Wallet \cup Vault -> Nat]
  BY SampleFacts
<1>2. p.balances = balances /\ w \in H!Owner
  BY <1>1 DEF PlanTrue, H!Owner
<1>3. w \in GoneOut(p, todo_) => w \in LeftOut(p, todo_)
  BY DEF GoneOut, LeftOut
<1>4. H!Held(w, p) \in Nat /\ H!Held(w, p) <= balances[w] /\ balances[w] \in Nat
  BY <1>1, HeldFound
<1>5. w \in p.tracked => H!Held(w, p) = balances[w]
  BY <1>1, HeldFound
<1>6. w \notin p.tracked => H!Held(w, p) = 0
  BY <1>1, HeldFound
<1>7. w \notin LeftOut(p, todo_) => ~(balances[w] > 0) \/ w \in p.tracked
  BY <1>2 DEF LeftOut
<1> QED BY <1>3, <1>4, <1>5, <1>6, <1>7

LEMMA RecsTrueOut ==
    ASSUME NEW p, NEW todo_, NEW balances, NEW step, NEW l, NEW e, NEW g,
           SampleOf(p, todo_, balances, step, l, e, g), NEW listed \in SUBSET Vault,
           NEW h, h = HeaderOut(p, todo_, listed),
           NEW recs, recs = RecsAt(h, StoreOut(p, todo_)),
           NEW g2, g2 = GapOut(p, todo_, balances, g)
    PROVE  RecsTrue(h, recs, g2)
<1> DEFINE F == LastRecs(p, todo_)
<1>1. DOMAIN recs = DOMAIN F /\ \A w \in DOMAIN F : recs[w] = F[w]
  BY RecsOut
<1>2. DOMAIN p.recs \subseteq Wallet /\ p.tracked \subseteq H!Owner
  BY SampleFacts
<1>3. DOMAIN F \subseteq Wallet
  BY <1>2, LastAre, Zenon
<1>4. Cardinality(DOMAIN F) <= maxRecords
  BY AllKept
<1>5. h.gen = holders.gen /\ h.covered = p.to
  BY HeaderKept
<1>6. ASSUME NEW w \in DOMAIN F
      PROVE  Dated(recs[w], h.gen, h.covered) /\ recs[w].balance = Noted(h, w)
  <2>1. recs[w] = F[w] /\ w \in Wallet
    BY <1>1, <1>3
  <2>2. Dated(F[w], holders.gen, p.to) /\ F[w].balance = H!Held(w, p)
    BY LastWeighs
  <2>3. Noted(h, w) = H!Held(w, p)
    BY <2>1, NotedOut
  <2> HIDE DEF F
  <2> QED BY <1>5, <2>1, <2>2, <2>3
<1>7. ASSUME NEW w \in Wallet \ DOMAIN F
      PROVE  Noted(h, w) = 0 \/ g2[w] = "open"
  <2>1. CASE w \in LeftOut(p, todo_)
    BY <2>1 DEF GapOut
  <2>2. CASE w \notin LeftOut(p, todo_)
    <3>1. H!Held(w, p) = balances[w] /\ w \notin GoneOut(p, todo_)
      BY <2>2, LeftIs
    <3>2. H!Held(w, p) = 0 \/ g[w] = "open"
      BY <3>1, LeftOutWeighs
    <3>3. Noted(h, w) \in {0, H!Held(w, p)}
      BY NotedOut
    <3>4. BalanceIn(F, w) = 0
      BY DEF BalanceIn
    <3>5. g2[w] = IF g[w] = "open" /\ BalanceIn(F, w) = balances[w] THEN "mended" ELSE g[w]
      BY <2>2 DEF GapOut
    <3> QED BY <3>1, <3>2, <3>3, <3>4, <3>5
  <2> QED BY <2>1, <2>2
<1> HIDE DEF F
<1> QED BY <1>1, <1>3, <1>4, <1>6, <1>7 DEF RecsTrue

EarnedOut(l, balances, e, step) ==
    [w \in Wallet |-> e[w] + H!LesserOf(l[w], balances[w]) * step]

LEMMA WalletOut ==
    ASSUME NEW p, NEW todo_, NEW balances, NEW step, NEW l, NEW e, NEW g,
           SampleOf(p, todo_, balances, step, l, e, g), NEW listed \in SUBSET Vault,
           NEW h, h = HeaderOut(p, todo_, listed),
           NEW recs, recs = RecsAt(h, StoreOut(p, todo_)),
           NEW g2, g2 = GapOut(p, todo_, balances, g),
           NEW e2, e2 = EarnedOut(l, balances, e, step), NEW w \in Wallet
    PROVE  WalletTrue(h, recs, balances, e2, g2, w) /\ e2[w] \in Nat
           /\ g2[w] \in {"none", "open", "mended"}
<1> DEFINE F == LastRecs(p, todo_)
<1>1. DOMAIN recs = DOMAIN F /\ \A v \in DOMAIN F : recs[v] = F[v]
  BY RecsOut
<1>2. /\ step \in Nat /\ WalletTrue(holders, p.recs, l, e, g, w)
      /\ l[w] \in Nat /\ e[w] \in Nat /\ g[w] \in {"none", "open", "mended"}
      /\ \A v \in DOMAIN p.recs : Dated(p.recs[v], holders.gen, holders.covered)
      /\ HeaderTyped(holders)
  <2>1. WalletsTrue(holders, p.recs, l, e, g)
    BY SampleFacts
  <2> QED BY <2>1, SampleFacts DEF WalletsTrue
<1>3. h.gen = holders.gen /\ h.covered = p.to
  BY HeaderKept
<1>4. PICK held : held = H!Held(w, p)
  OBVIOUS
<1>5. held \in Nat /\ held <= balances[w] /\ balances[w] \in Nat
      /\ (w \notin LeftOut(p, todo_) => held = balances[w])
  BY <1>4, LeftIs
<1>6. PICK was : was = BalanceIn(p.recs, w)
  OBVIOUS
<1>7. PICK weighed : weighed = WeightIn(holders, p.recs, w)
  OBVIOUS
<1>8. /\ was <= l[w] /\ (g[w] # "open" => was = l[w])
      /\ weighed <= e[w] /\ (g[w] = "none" => weighed = e[w])
  BY <1>2, <1>6, <1>7 DEF WalletTrue
<1>9. was \in Nat /\ weighed \in Nat
  <2>1. CASE w \in DOMAIN p.recs
    <3>1. Dated(p.recs[w], holders.gen, holders.covered)
      BY <1>2, <2>1
    <3>2. holders.gen \in Nat /\ holders.covered \in Nat
      BY <1>2, HeaderTypes
    <3>3. WeightAt(p.recs[w], holders.gen, holders.covered) \in Nat
      BY <3>1, <3>2, WeightNat
    <3>4. p.recs[w].balance \in Nat
      BY <3>1, TypedRec DEF Dated
    <3> QED BY <1>6, <1>7, <2>1, <3>3, <3>4 DEF WeightIn, BalanceIn
  <2>2. CASE w \notin DOMAIN p.recs
    BY <1>6, <1>7, <2>2 DEF WeightIn, BalanceIn
  <2> QED BY <2>1, <2>2
<1>10. PICK least : least = H!LesserOf(l[w], balances[w])
  OBVIOUS
<1>11. least \in Nat /\ least <= l[w] /\ least <= balances[w]
       /\ (l[w] <= balances[w] => least = l[w]) /\ (balances[w] <= l[w] => least = balances[w])
  BY <1>2, <1>5, <1>10, LesserIs
<1>12. e2[w] = e[w] + least * step /\ least * step \in Nat
  BY <1>2, <1>10, <1>11, TimesNat DEF EarnedOut
<1>13. g2[w] = IF w \in LeftOut(p, todo_) THEN "open"
               ELSE IF g[w] = "open" /\ BalanceIn(F, w) = balances[w] THEN "mended" ELSE g[w]
  BY DEF GapOut
<1>14. g2[w] \in {"none", "open", "mended"}
  BY <1>2, <1>13
<1>15. CASE w \in DOMAIN F
  <2>1. PICK r : r = F[w]
    OBVIOUS
  <2>2. PICK lesser : lesser = H!LesserOf(was, held)
    OBVIOUS
  <2>3. r.balance = held /\ WeightAt(r, h.gen, h.covered) = weighed + lesser * step
    BY <1>3, <1>4, <1>6, <1>7, <1>15, <2>1, <2>2, LastWeighs
  <2>4. BalanceIn(recs, w) = held /\ BalanceIn(F, w) = held
        /\ WeightIn(h, recs, w) = weighed + lesser * step
    BY <1>1, <1>15, <2>1, <2>3 DEF BalanceIn, WeightIn
  <2>5. lesser \in Nat /\ lesser <= was /\ lesser <= held
        /\ (was <= held => lesser = was) /\ (held <= was => lesser = held)
    BY <1>5, <1>9, <2>2, LesserIs
  <2>6. lesser <= least
    BY <1>2, <1>5, <1>8, <1>9, <1>11, <2>5
  <2>7. lesser * step <= least * step /\ lesser * step \in Nat
    BY <1>2, <1>11, <2>5, <2>6, TimesGrows
  <2>8. g2[w] # "open" => w \notin LeftOut(p, todo_) /\ held = balances[w]
    BY <1>5, <1>13
  <2>9. g2[w] = "none" => g[w] = "none" /\ lesser = least
    BY <1>2, <1>5, <1>8, <1>9, <1>11, <1>13, <2>5
  <2>10. WeightIn(h, recs, w) <= e2[w] /\ (g2[w] = "none" => WeightIn(h, recs, w) = e2[w])
    <3>1. weighed + lesser * step <= e[w] + least * step
      BY <1>2, <1>8, <1>9, <1>12, <2>7
    <3>2. g2[w] = "none" => weighed + lesser * step = e[w] + least * step
      BY <1>8, <2>9
    <3> QED BY <1>12, <2>4, <3>1, <3>2
  <2> QED BY <1>2, <1>5, <1>12, <1>14, <2>4, <2>8, <2>10 DEF WalletTrue
<1>16. CASE w \notin DOMAIN F
  <2>1. BalanceIn(recs, w) = 0 /\ BalanceIn(F, w) = 0 /\ WeightIn(h, recs, w) = 0
    BY <1>1, <1>16 DEF BalanceIn, WeightIn
  <2>2. w \notin LeftOut(p, todo_) => weighed = 0 /\ (held = 0 \/ g[w] = "open")
    <3> SUFFICES ASSUME w \notin LeftOut(p, todo_) PROVE weighed = 0 /\ (held = 0 \/ g[w] = "open")
      OBVIOUS
    <3>1. w \notin GoneOut(p, todo_)
      BY LeftIs
    <3> QED BY <1>4, <1>7, <1>16, <3>1, LeftOutWeighs
  <2> HIDE DEF F
  <2>3. g2[w] # "open" => balances[w] = 0
    BY <1>5, <1>13, <2>1, <2>2
  <2>4. g2[w] = "none" => e2[w] = 0
    <3> SUFFICES ASSUME g2[w] = "none" PROVE e2[w] = 0
      OBVIOUS
    <3>1. w \notin LeftOut(p, todo_) /\ g[w] = "none"
      BY <1>2, <1>13
    <3>2. e[w] = 0 /\ balances[w] = 0
      BY <1>8, <2>2, <2>3, <3>1
    <3>3. least = 0
      BY <1>5, <1>11, <3>2
    <3>4. least * step = 0
      <4>1. 0 * step = 0
        BY <1>2
      <4> QED BY <3>3, <4>1
    <3> QED BY <1>12, <3>2, <3>4
  <2> QED BY <1>2, <1>5, <1>12, <1>14, <2>1, <2>3, <2>4 DEF WalletTrue
<1> QED BY <1>15, <1>16

LEMMA SampledStays ==
    ASSUME NEW p, NEW todo_, NEW balances, NEW step, NEW l, NEW e, NEW g,
           SampleOf(p, todo_, balances, step, l, e, g), NEW listed \in SUBSET Vault
    PROVE  HoldersTrue(HeaderOut(p, todo_, listed), StoreOut(p, todo_), balances,
                       EarnedOut(l, balances, e, step), GapOut(p, todo_, balances, g))
<1>1. PICK h : h = HeaderOut(p, todo_, listed)
  OBVIOUS
<1>2. PICK recs : recs = RecsAt(h, StoreOut(p, todo_))
  OBVIOUS
<1>3. PICK g2 : g2 = GapOut(p, todo_, balances, g)
  OBVIOUS
<1>4. PICK e2 : e2 = EarnedOut(l, balances, e, step)
  OBVIOUS
<1>5. HeaderTyped(h)
  BY <1>1, HeaderKept
<1>6. BucketsTrue(h, StoreOut(p, todo_))
  BY <1>1, BucketsOut
<1>7. RecsTrue(h, recs, g2)
  BY <1>1, <1>2, <1>3, RecsTrueOut
<1>8. \A w \in Wallet : /\ WalletTrue(h, recs, balances, e2, g2, w) /\ e2[w] \in Nat
                        /\ g2[w] \in {"none", "open", "mended"}
  BY <1>1, <1>2, <1>3, <1>4, WalletOut
<1>9. e2 \in [Wallet -> Nat] /\ g2 \in [Wallet -> {"none", "open", "mended"}]
  <2>1. e2 = [w \in Wallet |-> e2[w]] /\ g2 = [w \in Wallet |-> g2[w]]
    BY <1>3, <1>4 DEF EarnedOut, GapOut
  <2> QED BY <1>8, <2>1
<1>10. balances \in [Wallet \cup Vault -> Nat]
  BY SampleFacts
<1>11. HoldersTrue(h, StoreOut(p, todo_), balances, e2, g2)
  BY <1>2, <1>5, <1>6, <1>7, <1>8, <1>9, <1>10 DEF HoldersTrue, WalletsTrue
<1> QED BY <1>1, <1>3, <1>4, <1>11

-----------------------------------------------------------------------------
(* Every step keeps the invariant.                                         *)

LEMMA CreditIs ==
    ASSUME NEW seconds \in Nat
    PROVE  H!Credit(seconds) \in Nat
<1>1. MAX_STEP \in Nat
  BY HoldersAssumption
<1> QED BY <1>1, LesserIs DEF H!Credit

PlannedAs(s, p, todo_, listed, balances, step) ==
    /\ SampleOf(p, todo_, balances, step, last, earned, gap)
    /\ listed \in SUBSET Vault /\ s.header = HeaderOut(p, todo_, listed)
    /\ s.writes = WritesOut(p, todo_)
    /\ s.held = [w \in Wallet |-> BalanceIn(LastRecs(p, todo_), w)]
    /\ s.left = LeftOut(p, todo_)

\* A sample is of the records, balances and buckets it plans for.
LEMMA SamplePlans ==
    ASSUME HoldersInv, NEW balances \in Holdings, NEW seconds \in Gaps, NEW step, NEW old, NEW s,
           step = H!Credit(seconds), s = H!Sampled(balances, step, old)
    PROVE  \E p, todo_, listed : PlannedAs(s, p, todo_, listed, balances, step)
<1>2. step \in Nat /\ balances \in [Wallet \cup Vault -> Nat]
  BY CreditIs, HoldersAssumption
<1>3. PICK p : p = H!Planned(balances, step, H!Records, H!Tracked(balances))
  OBVIOUS
<1>4. PICK todo_ : todo_ = H!Todo(p, old)
  OBVIOUS
<1>5. HeaderTyped(holders)
  BY DEF HoldersInv, HoldersTrue
<1>6. PlanTrue(p, balances, step)
  BY <1>3, <1>5, PlanIs
<1>7. TodoTrue(p, todo_)
  BY <1>4, <1>6, TodoIs DEF PlanTrue
<1>8. SampleOf(p, todo_, balances, step, last, earned, gap)
  BY <1>2, <1>6, <1>7 DEF SampleOf, HoldersInv
<1>9. s = H!Rebuilt(p, todo_)
  BY <1>3, <1>4, SampledIs
<1>10. PICK listed \in SUBSET Vault :
          s = H!Written(p, todo_, listed, Merged(p, todo_), CrowdedOut(p, todo_), DroppedOut(p, todo_))
  BY <1>9, SampledAs
<1>11. /\ s.header = HeaderOut(p, todo_, listed) /\ s.writes = WritesOut(p, todo_)
       /\ s.held = [w \in Wallet |-> BalanceIn(LastRecs(p, todo_), w)]
       /\ s.left = LeftOut(p, todo_)
  BY <1>10, WrittenIs
<1> QED BY <1>8, <1>10, <1>11 DEF PlannedAs

LEMMA SampleStep ==
    ASSUME HoldersInv, NEW balances \in Holdings, NEW seconds \in Gaps, NEW old \in BOOLEAN,
           H!Sample(balances, seconds, old)
    PROVE  HoldersInv'
<1>1. PICK step : step = H!Credit(seconds)
  OBVIOUS
<1>2. PICK s : s = H!Sampled(balances, step, old)
  OBVIOUS
<1>0. PICK p, todo_, listed : PlannedAs(s, p, todo_, listed, balances, step)
  BY <1>1, <1>2, SamplePlans
<1>3. /\ SampleOf(p, todo_, balances, step, last, earned, gap)
      /\ listed \in SUBSET Vault /\ s.header = HeaderOut(p, todo_, listed)
      /\ s.writes = WritesOut(p, todo_)
      /\ s.held = [w \in Wallet |-> BalanceIn(LastRecs(p, todo_), w)]
      /\ s.left = LeftOut(p, todo_)
  BY <1>0 DEF PlannedAs
<1>4. holders' = HeaderOut(p, todo_, listed)
  BY <1>1, <1>2, <1>3 DEF H!Sample
<1>5. s.header.buckets = p.buckets
  <2>1. PICK h : h = HeaderOut(p, todo_, listed)
    OBVIOUS
  <2>2. h.buckets = p.buckets
    BY <1>3, <2>1, HeaderKept
  <2> QED BY <1>3, <2>1, <2>2
<1>6. bucket' = StoreOut(p, todo_)
  <2>1. bucket' = LET all == H!Over(s.writes, bucket)
                  IN H!Restrict(all, {k \in DOMAIN all : k[1] = s.header.buckets})
    BY <1>1, <1>2, Zenon DEF H!Sample
  <2> QED BY <1>3, <1>5, <2>1 DEF StoreOut
<1>7. last' = balances
  BY DEF H!Sample
<1>8. earned' = EarnedOut(last, balances, earned, step)
  BY <1>1, Zenon DEF H!Sample, EarnedOut
<1>9. gap' = GapOut(p, todo_, balances, gap)
  <2>1. gap' = [w \in Wallet |->
                   IF w \in s.left THEN "open"
                   ELSE IF gap[w] = "open" /\ s.held[w] = balances[w] THEN "mended"
                   ELSE gap[w]]
    BY <1>1, <1>2, Zenon DEF H!Sample
  <2>2. \A w \in Wallet : s.held[w] = BalanceIn(LastRecs(p, todo_), w)
    BY <1>3
  <2> QED BY <1>3, <2>1, <2>2 DEF GapOut
<1>10. HoldersTrue(HeaderOut(p, todo_, listed), StoreOut(p, todo_), balances,
                   EarnedOut(last, balances, earned, step), GapOut(p, todo_, balances, gap))
  <2>1. PICK l : l = last
    OBVIOUS
  <2>2. PICK e : e = earned
    OBVIOUS
  <2>3. PICK g : g = gap
    OBVIOUS
  <2> QED BY <1>3, <2>1, <2>2, <2>3, SampledStays
<1> QED BY <1>4, <1>6, <1>7, <1>8, <1>9, <1>10 DEF HoldersInv

\* A sample that stops part way has written no bucket the header points at.
LEMMA FailStep ==
    ASSUME HoldersInv, NEW balances \in Holdings, NEW seconds \in Gaps,
           H!SampleFails(balances, seconds)
    PROVE  HoldersInv'
<1>1. PICK step : step = H!Credit(seconds)
  OBVIOUS
<1>2. PICK s : s = H!Sampled(balances, step, FALSE)
  OBVIOUS
<1>0. PICK p, todo_, listed : PlannedAs(s, p, todo_, listed, balances, step)
  BY <1>1, <1>2, SamplePlans
<1>3. /\ SampleOf(p, todo_, balances, step, last, earned, gap)
      /\ listed \in SUBSET Vault /\ s.header = HeaderOut(p, todo_, listed)
      /\ s.writes = WritesOut(p, todo_)
  BY <1>0 DEF PlannedAs
<1>4. PICK done \in SUBSET DOMAIN s.writes : bucket' = H!Over(H!Restrict(s.writes, done), bucket)
  BY <1>1, <1>2, Zenon DEF H!SampleFails
<1>5. UNCHANGED <<holders, last, earned, gap>>
  BY DEF H!SampleFails
<1>6. PICK h : h = holders
  OBVIOUS
<1>7. PICK b : b = bucket
  OBVIOUS
<1>8. PICK c : c = H!Over(H!Restrict(s.writes, done), bucket)
  OBVIOUS
<1>9. HeaderTyped(h) /\ PlanTrue(p, balances, step) /\ TodoTrue(p, todo_)
  BY <1>3, <1>6 DEF SampleOf, HoldersTrue
<1>10. ASSUME NEW n \in 0..(h.buckets - 1)
       PROVE  LiveAt(h, c, n) = LiveAt(h, b, n)
  <2>1. PICK k : k = <<h.buckets, n, h.meta[n].slot>>
    OBVIOUS
  <2>2. k[1] = h.buckets /\ k[2] = n /\ k[3] = h.meta[n].slot
    BY <2>1
  <2>3. k \notin DOMAIN s.writes
    <3> SUFFICES ASSUME k \in DOMAIN s.writes PROVE FALSE
      OBVIOUS
    <3>1. PICK i \in WrittenIn(p, todo_) : k = <<p.buckets, i, H!Slot(i, p.regrow)>>
      BY <1>3 DEF WritesOut
    <3>2. p.buckets = h.buckets /\ i = n /\ H!Slot(n, p.regrow) = h.meta[n].slot
      BY <2>2, <3>1
    <3>3. ~p.regrow
      BY <1>6, <1>9, <3>2 DEF PlanTrue
    <3>4. H!Slot(n, p.regrow) = 1 - h.meta[n].slot
      BY <1>6, <3>3 DEF H!Slot
    <3>5. h.meta[n].slot \in {0, 1}
      BY <1>9, HeaderTypes
    <3> QED BY <3>2, <3>4, <3>5
  <2>4. (k \in DOMAIN c <=> k \in DOMAIN b) /\ (k \in DOMAIN b => c[k] = b[k])
    <3> DEFINE f == H!Restrict(s.writes, done)
    <3>1. DOMAIN f = done
      BY RestrictIs
    <3> HIDE DEF f
    <3>2. /\ DOMAIN H!Over(f, b) = DOMAIN f \cup DOMAIN b
          /\ \A x \in DOMAIN b \ DOMAIN f : H!Over(f, b)[x] = b[x]
      BY OverIs
    <3>3. c = H!Over(f, b)
      BY <1>7, <1>8 DEF f
    <3> QED BY <1>4, <2>3, <3>1, <3>2, <3>3
  <2> QED BY <2>1, <2>4 DEF LiveAt
<1>11. HoldersTrue(h, b, last, earned, gap)
  BY <1>6, <1>7 DEF HoldersInv
<1>12. HoldersTrue(h, c, last, earned, gap)
  <2>1. PICK l : l = last
    OBVIOUS
  <2>2. PICK e : e = earned
    OBVIOUS
  <2>3. PICK g : g = gap
    OBVIOUS
  <2> QED BY <1>9, <1>10, <1>11, <2>1, <2>2, <2>3, SameLives
<1> QED BY <1>4, <1>5, <1>6, <1>8, <1>12 DEF HoldersInv

\* Two headers that point at the same buckets have the same records.
LEMMA SameRecs ==
    ASSUME NEW h, NEW i, NEW b, HeaderTyped(h), HeaderTyped(i), i.buckets = h.buckets, BucketsTrue(h, b),
           \A n \in 0..(h.buckets - 1) : LiveAt(i, b, n) = LiveAt(h, b, n)
    PROVE  RecsAt(i, b) = RecsAt(h, b)
<1>1. DOMAIN h.meta = 0..(h.buckets - 1) /\ DOMAIN i.meta = 0..(h.buckets - 1)
  BY HeaderTypes
<1> DEFINE D(k) == UNION {DOMAIN LiveAt(k, b, n) : n \in DOMAIN k.meta}
<1>2. D(i) = D(h)
  BY <1>1
<1>3. \A w \in D(h) : H!bucketOf(w, h.buckets) \in 0..(h.buckets - 1)
  BY <1>1 DEF BucketsTrue
<1>4. RecsAt(i, b) = [w \in D(i) |-> LiveAt(i, b, H!bucketOf(w, h.buckets))[w]]
  BY DEF RecsAt
<1>5. RecsAt(h, b) = [w \in D(h) |-> LiveAt(h, b, H!bucketOf(w, h.buckets))[w]]
  BY DEF RecsAt
<1> HIDE DEF D
<1> QED BY <1>2, <1>3, <1>4, <1>5

LEMMA WeighStep ==
    ASSUME HoldersInv, H!Weigh
    PROVE  HoldersInv'
<1>1. PICK h : h = holders
  OBVIOUS
<1>2. PICK b : b = bucket
  OBVIOUS
<1>3. PICK g : g = gap
  OBVIOUS
<1>4. PICK l : l = last
  OBVIOUS
<1>5. PICK e : e = earned
  OBVIOUS
<1>6. /\ HeaderTyped(h) /\ BucketsTrue(h, b) /\ RecsTrue(h, RecsAt(h, b), g)
      /\ WalletsTrue(h, RecsAt(h, b), l, e, g)
  BY <1>1, <1>2, <1>3, <1>4, <1>5 DEF HoldersInv, HoldersTrue
<1> DEFINE Gone(n) == h.meta[n].count > 0 /\ <<h.buckets, n, h.meta[n].slot>> \notin DOMAIN b
           meta == [n \in DOMAIN h.meta |->
                       IF Gone(n) THEN [h.meta[n] EXCEPT !.digest = <<>>, !.count = 0] ELSE h.meta[n]]
<1>7. PICK i : i = [h EXCEPT !.meta = meta]
  OBVIOUS
<1>8. holders' = i /\ UNCHANGED <<bucket, last, earned, gap>>
  BY <1>1, <1>2, <1>7 DEF H!Weigh, H!Lost, H!Key, H!Empty
<1>9. /\ DOMAIN h.meta = 0..(h.buckets - 1)
      /\ \A n \in 0..(h.buckets - 1) :
            /\ h.meta[n].count \in Nat /\ h.meta[n].slot \in {0, 1} /\ h.meta[n] \in MetaType
  BY <1>6, HeaderTypes
<1>10. \A n \in 0..(h.buckets - 1) :
          /\ meta[n] \in MetaType /\ meta[n].slot = h.meta[n].slot
          /\ Gone(n) => meta[n].digest = <<>> /\ meta[n].count = 0
          /\ ~Gone(n) => meta[n] = h.meta[n]
  <2> SUFFICES ASSUME NEW n \in 0..(h.buckets - 1)
               PROVE  /\ meta[n] \in MetaType /\ meta[n].slot = h.meta[n].slot
                      /\ Gone(n) => meta[n].digest = <<>> /\ meta[n].count = 0
                      /\ ~Gone(n) => meta[n] = h.meta[n]
    OBVIOUS
  <2>1. meta[n] = IF Gone(n) THEN [h.meta[n] EXCEPT !.digest = <<>>, !.count = 0] ELSE h.meta[n]
    BY <1>9
  <2>2. h.meta[n] \in MetaType
    BY <1>9
  <2> HIDE DEF meta, Gone
  <2>3. CASE Gone(n)
    <3>1. PICK m : m = h.meta[n]
      OBVIOUS
    <3>2. PICK q : q = [m EXCEPT !.digest = <<>>, !.count = 0]
      OBVIOUS
    <3>3. <<>> \in Digests
      <4>1. <<>> \in [{} -> Nat]
        OBVIOUS
      <4> QED BY <4>1 DEF Digests
    <3>4. q \in MetaType /\ q.slot = m.slot /\ q.digest = <<>> /\ q.count = 0
      BY <2>2, <3>1, <3>2, <3>3 DEF MetaType
    <3>5. meta[n] = q
      BY <2>1, <2>3, <3>1, <3>2
    <3> QED BY <2>3, <3>1, <3>4, <3>5
  <2>4. CASE ~Gone(n)
    BY <2>1, <2>2, <2>4
  <2> QED BY <2>3, <2>4
<1>11. PICK m : m = meta
  OBVIOUS
<1>12. m \in [0..(h.buckets - 1) -> MetaType]
  <2>1. DOMAIN m = 0..(h.buckets - 1) /\ m = [n \in DOMAIN m |-> m[n]]
    BY <1>9, <1>11
  <2>2. \A n \in 0..(h.buckets - 1) : m[n] \in MetaType
    BY <1>10, <1>11
  <2> QED BY <2>1, <2>2
<1>13. /\ HeaderTyped(i) /\ i.gen = h.gen /\ i.covered = h.covered /\ i.buckets = h.buckets /\ i.meta = m
  <2>1. i = [h EXCEPT !.meta = m]
    BY <1>7, <1>11
  <2>2. h = [ gen |-> h.gen, first |-> h.first, covered |-> h.covered,
              buckets |-> h.buckets, offCurve |-> h.offCurve, meta |-> h.meta ]
    BY <1>6 DEF HeaderTyped
  <2>3. i = [ gen |-> h.gen, first |-> h.first, covered |-> h.covered,
              buckets |-> h.buckets, offCurve |-> h.offCurve, meta |-> m ]
    BY <2>1, <2>2
  <2>4. i.gen = h.gen /\ i.covered = h.covered /\ i.buckets = h.buckets /\ i.meta = m
    BY <2>3
  <2>5. HeaderTyped(i)
    BY <1>6, <1>12, <2>3, HeaderTypes DEF HeaderTyped
  <2> QED BY <2>4, <2>5
<1>14. \A n \in 0..(h.buckets - 1) :
          /\ m[n].slot = h.meta[n].slot
          /\ Gone(n) => m[n].digest = <<>> /\ m[n].count = 0
          /\ ~Gone(n) => m[n] = h.meta[n]
  BY <1>10, <1>11
<1> HIDE DEF meta
<1>15. \A n \in 0..(h.buckets - 1) : Gone(n) => LiveAt(h, b, n) = <<>>
  BY DEF LiveAt
<1>16. \A n \in 0..(h.buckets - 1) : LiveAt(i, b, n) = LiveAt(h, b, n)
  <2> SUFFICES ASSUME NEW n \in 0..(h.buckets - 1) PROVE LiveAt(i, b, n) = LiveAt(h, b, n)
    OBVIOUS
  <2>1. CASE Gone(n)
    <3>1. i.meta[n].count = 0
      BY <1>13, <1>14, <2>1
    <3>2. LiveAt(i, b, n) = <<>>
      BY <3>1 DEF LiveAt
    <3> QED BY <1>15, <2>1, <3>2
  <2>2. CASE ~Gone(n)
    <3>1. i.meta[n] = h.meta[n]
      BY <1>13, <1>14, <2>2
    <3> QED BY <1>13, <3>1 DEF LiveAt
  <2> QED BY <2>1, <2>2
<1>17. RecsAt(i, b) = RecsAt(h, b)
  BY <1>6, <1>13, <1>16, SameRecs
<1>18. BucketsTrue(i, b)
  <2> SUFFICES ASSUME NEW n \in 0..(h.buckets - 1)
               PROVE  /\ DOMAIN LiveAt(i, b, n) \subseteq {w \in Wallet : H!bucketOf(w, h.buckets) = n}
                      /\ Cardinality(DOMAIN LiveAt(i, b, n)) <= i.meta[n].count
                      /\ Cardinality(DOMAIN LiveAt(i, b, n)) <= bucketMax
    BY <1>13 DEF BucketsTrue
  <2>1. PICK L : L = LiveAt(h, b, n)
    OBVIOUS
  <2>2. LiveAt(i, b, n) = L
    BY <1>16, <2>1
  <2>3. /\ DOMAIN L \subseteq {w \in Wallet : H!bucketOf(w, h.buckets) = n}
        /\ Cardinality(DOMAIN L) <= h.meta[n].count /\ Cardinality(DOMAIN L) <= bucketMax
    BY <1>6, <2>1 DEF BucketsTrue
  <2>4. Cardinality(DOMAIN L) <= i.meta[n].count
    <3>1. CASE Gone(n)
      <4>1. L = <<>> /\ i.meta[n].count = 0
        BY <1>13, <1>14, <1>15, <2>1, <3>1
      <4>2. DOMAIN L = {}
        BY <4>1
      <4> QED BY <4>1, <4>2, FS_EmptySet
    <3>2. CASE ~Gone(n)
      BY <1>13, <1>14, <2>3, <3>2
    <3> QED BY <3>1, <3>2
  <2> QED BY <2>2, <2>3, <2>4
<1>19. PICK recs : recs = RecsAt(h, b)
  OBVIOUS
<1>20. \A w \in Wallet : /\ Noted(i, w) \in {0, Noted(h, w)}
                         /\ w \in DOMAIN recs => Noted(i, w) = Noted(h, w)
  <2> SUFFICES ASSUME NEW w \in Wallet
               PROVE  /\ Noted(i, w) \in {0, Noted(h, w)}
                      /\ w \in DOMAIN recs => Noted(i, w) = Noted(h, w)
    OBVIOUS
  <2>1. PICK n : n = H!bucketOf(w, h.buckets)
    OBVIOUS
  <2>2. n \in 0..(h.buckets - 1)
    BY <1>6, <2>1, BucketIn, HeaderTypes
  <2>3. CASE Gone(n)
    <3>1. i.meta[n].digest = <<>>
      BY <1>13, <1>14, <2>2, <2>3
    <3>2. Noted(i, w) = 0
      <4>1. w \notin DOMAIN <<>>
        OBVIOUS
      <4> QED BY <1>13, <2>1, <3>1, <4>1 DEF Noted
    <3>3. DOMAIN LiveAt(h, b, n) = {v \in DOMAIN recs : H!bucketOf(v, h.buckets) = n}
      BY <1>6, <1>19, <2>2, RecsByBucket
    <3>4. DOMAIN LiveAt(h, b, n) = {}
      BY <1>15, <2>2, <2>3
    <3> QED BY <2>1, <3>2, <3>3, <3>4
  <2>4. CASE ~Gone(n)
    <3>1. i.meta[n] = h.meta[n]
      BY <1>13, <1>14, <2>2, <2>4
    <3> QED BY <1>13, <2>1, <3>1 DEF Noted
  <2> QED BY <2>3, <2>4
<1>21. RecsTrue(i, recs, g)
  <2>1. RecsTrue(h, recs, g)
    BY <1>6, <1>19
  <2> QED BY <1>13, <1>20, <2>1 DEF RecsTrue
<1>22. WalletsTrue(i, recs, l, e, g)
  BY <1>6, <1>13, <1>19 DEF WalletsTrue, WalletTrue, WeightIn
<1>23. HoldersTrue(i, b, l, e, g)
  BY <1>13, <1>17, <1>18, <1>19, <1>21, <1>22 DEF HoldersTrue
<1> QED BY <1>2, <1>3, <1>4, <1>5, <1>8, <1>23 DEF HoldersInv

LEMMA NewWindowStep ==
    ASSUME HoldersInv, H!NewWindow
    PROVE  HoldersInv'
<1>1. PICK h : h = holders
  OBVIOUS
<1>2. PICK b : b = bucket
  OBVIOUS
<1>3. PICK g : g = gap
  OBVIOUS
<1>4. PICK l : l = last
  OBVIOUS
<1>5. PICK e : e = earned
  OBVIOUS
<1>6. /\ HeaderTyped(h) /\ BucketsTrue(h, b) /\ RecsTrue(h, RecsAt(h, b), g)
      /\ WalletsTrue(h, RecsAt(h, b), l, e, g)
  BY <1>1, <1>2, <1>3, <1>4, <1>5 DEF HoldersInv, HoldersTrue
<1>7. PICK i : i = [h EXCEPT !.gen = @ + 1, !.covered = 0]
  OBVIOUS
<1>8. PICK g2 : g2 = [w \in Wallet |-> IF g[w] = "mended" THEN "none" ELSE g[w]]
  OBVIOUS
<1>9. PICK e2 : e2 = [w \in Wallet |-> 0]
  OBVIOUS
<1>10. holders' = i /\ earned' = e2 /\ gap' = g2 /\ UNCHANGED <<bucket, last>>
  BY <1>1, <1>3, <1>7, <1>8, <1>9 DEF H!NewWindow
<1>11. /\ HeaderTyped(i) /\ i.gen = h.gen + 1 /\ i.covered = 0 /\ i.buckets = h.buckets
       /\ i.meta = h.meta /\ h.gen \in Nat /\ h.covered \in Nat
  <2>1. h = [ gen |-> h.gen, first |-> h.first, covered |-> h.covered,
              buckets |-> h.buckets, offCurve |-> h.offCurve, meta |-> h.meta ]
    BY <1>6 DEF HeaderTyped
  <2>2. i = [ gen |-> h.gen + 1, first |-> h.first, covered |-> 0,
              buckets |-> h.buckets, offCurve |-> h.offCurve, meta |-> h.meta ]
    BY <1>7, <2>1
  <2>3. i.gen = h.gen + 1 /\ i.covered = 0 /\ i.buckets = h.buckets /\ i.meta = h.meta
    BY <2>2
  <2>4. HeaderTyped(i)
    BY <1>6, <2>2, HeaderTypes DEF HeaderTyped
  <2> QED BY <1>6, <2>3, <2>4, HeaderTypes
<1>12. \A n : LiveAt(i, b, n) = LiveAt(h, b, n)
  BY <1>11 DEF LiveAt
<1>13. RecsAt(i, b) = RecsAt(h, b)
  BY <1>6, <1>11, <1>12, SameRecs
<1>14. BucketsTrue(i, b)
  BY <1>6, <1>11, <1>12 DEF BucketsTrue
<1>15. PICK recs : recs = RecsAt(h, b)
  OBVIOUS
<1>16. RecsTrue(h, recs, g) /\ WalletsTrue(h, recs, l, e, g)
  BY <1>6, <1>15
<1>17. \A w : Noted(i, w) = Noted(h, w)
  BY <1>11 DEF Noted
<1>18. \A w \in DOMAIN recs : /\ Dated(recs[w], h.gen + 1, 0)
                              /\ WeightAt(recs[w], h.gen + 1, 0) = 0
  <2> SUFFICES ASSUME NEW w \in DOMAIN recs
               PROVE  Dated(recs[w], h.gen + 1, 0) /\ WeightAt(recs[w], h.gen + 1, 0) = 0
    OBVIOUS
  <2>1. Dated(recs[w], h.gen, h.covered)
    BY <1>16 DEF RecsTrue
  <2> QED BY <1>11, <2>1, WeightBegins
<1>19. \A w \in Wallet : g2[w] = IF g[w] = "mended" THEN "none" ELSE g[w]
  BY <1>8
<1>20. RecsTrue(i, recs, g2)
  <2>1. /\ DOMAIN recs \subseteq Wallet /\ Cardinality(DOMAIN recs) <= maxRecords
        /\ \A w \in DOMAIN recs : recs[w].balance = Noted(h, w)
        /\ \A w \in Wallet \ DOMAIN recs : Noted(h, w) = 0 \/ g[w] = "open"
    BY <1>16 DEF RecsTrue
  <2>2. \A w \in DOMAIN recs : Dated(recs[w], i.gen, i.covered) /\ recs[w].balance = Noted(i, w)
    BY <1>11, <1>17, <1>18, <2>1
  <2>3. \A w \in Wallet \ DOMAIN recs : Noted(i, w) = 0 \/ g2[w] = "open"
    BY <1>17, <1>19, <2>1
  <2> QED BY <2>1, <2>2, <2>3 DEF RecsTrue
<1>21. WalletsTrue(i, recs, l, e2, g2)
  <2>1. /\ l \in [Wallet \cup Vault -> Nat] /\ g \in [Wallet -> {"none", "open", "mended"}]
        /\ \A w \in Wallet : BalanceIn(recs, w) <= l[w] /\ (g[w] # "open" => BalanceIn(recs, w) = l[w])
    BY <1>16 DEF WalletsTrue, WalletTrue
  <2>2. e2 \in [Wallet -> Nat] /\ \A w \in Wallet : e2[w] = 0
    BY <1>9
  <2>3. g2 \in [Wallet -> {"none", "open", "mended"}]
    BY <1>8, <2>1
  <2>4. \A w \in Wallet : WeightIn(i, recs, w) = 0
    BY <1>11, <1>18 DEF WeightIn
  <2>5. \A w \in Wallet : g2[w] # "open" => g[w] # "open"
    BY <1>19
  <2>6. \A w \in Wallet : WalletTrue(i, recs, l, e2, g2, w)
    BY <2>1, <2>2, <2>4, <2>5 DEF WalletTrue
  <2> QED BY <2>1, <2>2, <2>3, <2>6 DEF WalletsTrue
<1>22. HoldersTrue(i, b, l, e2, g2)
  BY <1>11, <1>13, <1>14, <1>15, <1>20, <1>21 DEF HoldersTrue
<1> QED BY <1>2, <1>4, <1>10, <1>22 DEF HoldersInv

LEMMA RecInBucket ==
    ASSUME NEW h, NEW b, HeaderTyped(h), BucketsTrue(h, b), NEW n \in 0..(h.buckets - 1), NEW w
    PROVE  w \in DOMAIN LiveAt(h, b, n) <=>
              w \in DOMAIN RecsAt(h, b) /\ H!bucketOf(w, h.buckets) = n
<1>1. \A i \in 0..(h.buckets - 1) :
         DOMAIN LiveAt(h, b, i) = {v \in DOMAIN RecsAt(h, b) : H!bucketOf(v, h.buckets) = i}
  BY RecsByBucket, Zenon
<1>2. DOMAIN LiveAt(h, b, n) = {v \in DOMAIN RecsAt(h, b) : H!bucketOf(v, h.buckets) = n}
  BY <1>1, Zenon
<1> QED BY <1>2, Zenon

\* The invariant allows for buckets that are gone, if it is known whose time is no longer on record.
LEMMA LostKeeps ==
    ASSUME NEW h, NEW b, NEW c, NEW l, NEW e, NEW g, NEW D, NEW g2, HoldersTrue(h, b, l, e, g),
           \A n \in 0..(h.buckets - 1) :
              \/ LiveAt(h, c, n) = LiveAt(h, b, n)
              \/ LiveAt(h, c, n) = <<>> /\ DOMAIN LiveAt(h, b, n) \subseteq D,
           g2 = [w \in Wallet |-> IF w \in D THEN "open" ELSE g[w]]
    PROVE  HoldersTrue(h, c, l, e, g2)
<1>1. PICK recs : recs = RecsAt(h, b)
  OBVIOUS
<1>2. PICK left : left = RecsAt(h, c)
  OBVIOUS
<1>3. HeaderTyped(h) /\ BucketsTrue(h, b) /\ RecsTrue(h, recs, g) /\ WalletsTrue(h, recs, l, e, g)
  BY <1>1 DEF HoldersTrue
<1>4. DOMAIN <<>> = {} /\ Cardinality({}) = 0
  BY FS_EmptySet
<1>5. BucketsTrue(h, c)
  <2> SUFFICES ASSUME NEW n \in 0..(h.buckets - 1)
               PROVE  /\ DOMAIN LiveAt(h, c, n) \subseteq {w \in Wallet : H!bucketOf(w, h.buckets) = n}
                      /\ Cardinality(DOMAIN LiveAt(h, c, n)) <= h.meta[n].count
                      /\ Cardinality(DOMAIN LiveAt(h, c, n)) <= bucketMax
    BY DEF BucketsTrue
  <2>1. CASE LiveAt(h, c, n) = LiveAt(h, b, n)
    BY <1>3, <2>1 DEF BucketsTrue
  <2>2. CASE LiveAt(h, c, n) = <<>>
    <3>1. h.meta[n].count \in Nat /\ bucketMax \in Nat
      BY <1>3, HeaderTypes, HoldersAssumption
    <3> QED BY <1>4, <2>2, <3>1
  <2> QED BY <2>1, <2>2
<1>6. h.buckets \in Nat \ {0}
  BY <1>3, HeaderTypes
<1>7. DOMAIN recs \subseteq Wallet /\ DOMAIN left \subseteq Wallet
  BY <1>1, <1>2, <1>3, <1>5, RecsByBucket
<1>8. \A w \in Wallet :
         /\ w \in DOMAIN left => w \in DOMAIN recs /\ left[w] = recs[w]
         /\ w \in DOMAIN recs /\ w \notin DOMAIN left => w \in D
  <2> SUFFICES ASSUME NEW w \in Wallet
               PROVE  /\ w \in DOMAIN left => w \in DOMAIN recs /\ left[w] = recs[w]
                      /\ w \in DOMAIN recs /\ w \notin DOMAIN left => w \in D
    OBVIOUS
  <2>1. PICK n : n = H!bucketOf(w, h.buckets)
    OBVIOUS
  <2>2. n \in 0..(h.buckets - 1)
    BY <1>6, <2>1, BucketIn
  <2>3. w \in DOMAIN left <=> w \in DOMAIN LiveAt(h, c, n)
    BY <1>2, <1>3, <1>5, <2>1, <2>2, RecInBucket
  <2>4. w \in DOMAIN recs <=> w \in DOMAIN LiveAt(h, b, n)
    BY <1>1, <1>3, <2>1, <2>2, RecInBucket
  <2>5. w \in DOMAIN left => left[w] = LiveAt(h, c, n)[w]
    BY <1>2, <1>3, <1>5, <2>1, RecsByBucket
  <2>6. w \in DOMAIN recs => recs[w] = LiveAt(h, b, n)[w]
    BY <1>1, <1>3, <2>1, RecsByBucket
  <2>7. CASE LiveAt(h, c, n) = LiveAt(h, b, n)
    BY <2>3, <2>4, <2>5, <2>6, <2>7
  <2>8. CASE LiveAt(h, c, n) = <<>> /\ DOMAIN LiveAt(h, b, n) \subseteq D
    BY <1>4, <2>3, <2>4, <2>8
  <2> QED BY <2>2, <2>7, <2>8
<1>9. \A w \in Wallet : g2[w] = IF w \in D THEN "open" ELSE g[w]
  OBVIOUS
<1>10. DOMAIN left \subseteq DOMAIN recs
  BY <1>7, <1>8
<1>11. RecsTrue(h, left, g2)
  <2>1. /\ Cardinality(DOMAIN recs) <= maxRecords
        /\ \A w \in DOMAIN recs : Dated(recs[w], h.gen, h.covered) /\ recs[w].balance = Noted(h, w)
        /\ \A w \in Wallet \ DOMAIN recs : Noted(h, w) = 0 \/ g[w] = "open"
    BY <1>3 DEF RecsTrue
  <2>2. /\ Cardinality(DOMAIN left) \in Nat /\ Cardinality(DOMAIN recs) \in Nat
        /\ Cardinality(DOMAIN left) <= Cardinality(DOMAIN recs) /\ maxRecords \in Nat
    BY <1>7, <1>10, SubsetCounts, HoldersAssumption
  <2>3. Cardinality(DOMAIN left) <= maxRecords
    BY <2>1, <2>2
  <2>4. \A w \in DOMAIN left : Dated(left[w], h.gen, h.covered) /\ left[w].balance = Noted(h, w)
    BY <1>7, <1>8, <2>1
  <2>5. \A w \in Wallet \ DOMAIN left : Noted(h, w) = 0 \/ g2[w] = "open"
    BY <1>8, <1>9, <2>1
  <2> QED BY <1>7, <2>3, <2>4, <2>5 DEF RecsTrue
<1>12. WalletsTrue(h, left, l, e, g2)
  <2>1. /\ l \in [Wallet \cup Vault -> Nat] /\ e \in [Wallet -> Nat]
        /\ g \in [Wallet -> {"none", "open", "mended"}]
        /\ \A w \in Wallet : WalletTrue(h, recs, l, e, g, w)
    BY <1>3 DEF WalletsTrue
  <2>2. g2 \in [Wallet -> {"none", "open", "mended"}]
    BY <2>1
  <2>3. ASSUME NEW w \in Wallet PROVE WalletTrue(h, left, l, e, g2, w)
    <3>1. WalletTrue(h, recs, l, e, g, w) /\ l[w] \in Nat /\ e[w] \in Nat
      BY <2>1
    <3>2. CASE w \in DOMAIN left
      <4>1. BalanceIn(left, w) = BalanceIn(recs, w) /\ WeightIn(h, left, w) = WeightIn(h, recs, w)
        BY <1>8, <3>2 DEF BalanceIn, WeightIn
      <4> QED BY <1>9, <3>1, <4>1 DEF WalletTrue
    <3>3. CASE w \notin DOMAIN left
      <4>1. BalanceIn(left, w) = 0 /\ WeightIn(h, left, w) = 0
        BY <3>3 DEF BalanceIn, WeightIn
      <4>2. g2[w] # "open" => w \notin DOMAIN recs /\ g[w] = g2[w]
        BY <1>8, <1>9, <3>3
      <4>3. w \notin DOMAIN recs => BalanceIn(recs, w) = 0 /\ WeightIn(h, recs, w) = 0
        BY DEF BalanceIn, WeightIn
      <4>4. g2[w] # "open" => l[w] = 0
        BY <3>1, <4>2, <4>3 DEF WalletTrue
      <4>5. g2[w] = "none" => e[w] = 0
        BY <3>1, <4>2, <4>3 DEF WalletTrue
      <4> QED BY <3>1, <4>1, <4>4, <4>5 DEF WalletTrue
    <3> QED BY <3>2, <3>3
  <2> QED BY <2>1, <2>2, <2>3 DEF WalletsTrue
<1> QED BY <1>2, <1>3, <1>5, <1>11, <1>12 DEF HoldersTrue

LEMMA LoseStep ==
    ASSUME HoldersInv, H!Lose
    PROVE  HoldersInv'
<1>1. PICK h : h = holders
  OBVIOUS
<1>2. PICK b : b = bucket
  OBVIOUS
<1>3. PICK g : g = gap
  OBVIOUS
<1>4. PICK l : l = last
  OBVIOUS
<1>5. PICK e : e = earned
  OBVIOUS
<1>6. HoldersTrue(h, b, l, e, g)
  BY <1>1, <1>2, <1>3, <1>4, <1>5 DEF HoldersInv
<1>7. PICK k \in DOMAIN bucket :
         /\ bucket' = H!Restrict(bucket, DOMAIN bucket \ {k})
         /\ gap' = [w \in Wallet |->
                       IF \E n \in DOMAIN holders.meta : k = H!Key(n) /\ w \in DOMAIN H!Live(n)
                       THEN "open" ELSE gap[w]]
  BY DEF H!Lose
<1>8. UNCHANGED <<holders, last, earned>>
  BY DEF H!Lose
<1> DEFINE D == UNION {DOMAIN LiveAt(h, b, n) :
                          n \in {i \in DOMAIN h.meta : k = <<h.buckets, i, h.meta[i].slot>>}}
<1>9. PICK c : c = H!Restrict(b, DOMAIN b \ {k})
  OBVIOUS
<1>10. DOMAIN c = DOMAIN b \ {k} /\ \A x \in DOMAIN c : c[x] = b[x]
  BY <1>9, RestrictIs
<1>11. PICK g2 : g2 = [w \in Wallet |-> IF w \in D THEN "open" ELSE g[w]]
  OBVIOUS
<1>12. gap' = g2
  <2>1. \A w : w \in D <=> \E n \in DOMAIN holders.meta : k = H!Key(n) /\ w \in DOMAIN H!Live(n)
    BY <1>1, <1>2, LiveIs DEF H!Key
  <2> HIDE DEF D
  <2> QED BY <1>3, <1>7, <1>11, <2>1
<1>13. DOMAIN h.meta = 0..(h.buckets - 1)
  BY <1>6, HeaderTypes DEF HoldersTrue
<1>14. ASSUME NEW n \in 0..(h.buckets - 1)
       PROVE  \/ LiveAt(h, c, n) = LiveAt(h, b, n)
              \/ LiveAt(h, c, n) = <<>> /\ DOMAIN LiveAt(h, b, n) \subseteq D
  <2>1. PICK j : j = <<h.buckets, n, h.meta[n].slot>>
    OBVIOUS
  <2>2. CASE j = k
    <3>1. LiveAt(h, c, n) = <<>>
      BY <1>10, <2>1, <2>2 DEF LiveAt
    <3>2. DOMAIN LiveAt(h, b, n) \subseteq D
      BY <1>13, <2>1, <2>2
    <3> QED BY <3>1, <3>2
  <2>3. CASE j # k
    <3>1. (j \in DOMAIN c <=> j \in DOMAIN b) /\ (j \in DOMAIN b => c[j] = b[j])
      BY <1>10, <2>3
    <3> QED BY <2>1, <3>1 DEF LiveAt
  <2> QED BY <2>2, <2>3
<1> HIDE DEF D
<1>15. HoldersTrue(h, c, l, e, g2)
  BY <1>6, <1>11, <1>14, LostKeeps
<1> QED BY <1>1, <1>2, <1>4, <1>5, <1>7, <1>8, <1>9, <1>12, <1>15 DEF HoldersInv

LEMMA HoldersBegin == H!Init => HoldersInv
<1> SUFFICES ASSUME H!Init PROVE HoldersInv
  OBVIOUS
<1>1. PICK h : h = holders
  OBVIOUS
<1>2. PICK m : m = h.meta
  OBVIOUS
<1>3. PICK q : q = [digest |-> <<>>, count |-> 0, slot |-> 1]
  OBVIOUS
<1>4. m = [n \in {0} |-> q]
  BY <1>1, <1>2, <1>3 DEF H!Init, H!Empty
<1>5. h = [ gen |-> 0, first |-> TRUE, covered |-> 0, buckets |-> 1, offCurve |-> {}, meta |-> m ]
  BY <1>1, <1>2 DEF H!Init
<1>6. h.gen = 0 /\ h.covered = 0 /\ h.buckets = 1 /\ h.meta = m
  BY <1>5
<1>7. 0..(h.buckets - 1) = {0}
  BY <1>6
<1>8. q \in MetaType /\ q.count = 0 /\ q.digest = <<>>
  <2>1. <<>> \in [{} -> Nat]
    OBVIOUS
  <2>2. <<>> \in Digests
    BY <2>1 DEF Digests
  <2> QED BY <1>3, <2>2 DEF MetaType
<1>9. m \in [0..(h.buckets - 1) -> MetaType] /\ DOMAIN m = {0} /\ m[0] = q
  BY <1>4, <1>7, <1>8
<1>10. HeaderTyped(h)
  BY <1>5, <1>9 DEF HeaderTyped
<1>11. PICK b : b = bucket
  OBVIOUS
<1>12. \A n \in {0} : LiveAt(h, b, n) = <<>>
  BY <1>6, <1>8, <1>9 DEF LiveAt
<1>13. DOMAIN <<>> = {} /\ Cardinality({}) = 0
  BY FS_EmptySet
<1>14. bucketMax \in Nat /\ maxRecords \in Nat
  BY HoldersAssumption
<1>15. BucketsTrue(h, b)
  BY <1>6, <1>7, <1>8, <1>9, <1>12, <1>13, <1>14 DEF BucketsTrue
<1>16. PICK recs : recs = RecsAt(h, b)
  OBVIOUS
<1>17. DOMAIN recs = {}
  <2>1. DOMAIN recs = UNION {DOMAIN LiveAt(h, b, n) : n \in {0}}
    BY <1>6, <1>9, <1>16 DEF RecsAt
  <2> QED BY <1>12, <1>13, <2>1
<1>18. \A w \in Wallet : Noted(h, w) = 0
  <2> SUFFICES ASSUME NEW w \in Wallet PROVE Noted(h, w) = 0
    OBVIOUS
  <2>1. 1 \in Nat \ {0}
    OBVIOUS
  <2>2. H!bucketOf(w, 1) \in 0..(1 - 1)
    BY <2>1, BucketIn
  <2>3. H!bucketOf(w, h.buckets) = 0
    BY <1>6, <2>2
  <2>4. w \notin DOMAIN <<>>
    BY <1>13
  <2> QED BY <1>6, <1>8, <1>9, <2>3, <2>4 DEF Noted
<1>19. PICK g : g = gap
  OBVIOUS
<1>20. PICK l : l = last
  OBVIOUS
<1>21. PICK e : e = earned
  OBVIOUS
<1>22. RecsTrue(h, recs, g)
  BY <1>13, <1>14, <1>17, <1>18 DEF RecsTrue
<1>23. /\ l = [w \in Wallet \cup Vault |-> 0] /\ e = [w \in Wallet |-> 0]
       /\ g = [w \in Wallet |-> "none"]
  BY <1>19, <1>20, <1>21 DEF H!Init, H!Owner
<1>24. WalletsTrue(h, recs, l, e, g)
  BY <1>17, <1>23 DEF WalletsTrue, WalletTrue, BalanceIn, WeightIn
<1>25. HoldersTrue(h, b, l, e, g)
  BY <1>10, <1>15, <1>16, <1>22, <1>24 DEF HoldersTrue
<1> QED BY <1>1, <1>11, <1>19, <1>20, <1>21, <1>25 DEF HoldersInv

LEMMA HoldersStep ==
    ASSUME HoldersInv, [PartsNext]_<<part, vars, holderVars>>
    PROVE  HoldersInv'
<1>1. CASE UNCHANGED holderVars
  BY <1>1 DEF holderVars, HoldersInv
<1>2. CASE H!Next
  <2>1. CASE \E balances \in Holdings, seconds \in Gaps, old \in BOOLEAN :
                H!Sample(balances, seconds, old)
    BY <2>1, SampleStep
  <2>2. CASE \E balances \in Holdings, seconds \in Gaps : H!SampleFails(balances, seconds)
    BY <2>2, FailStep
  <2>3. CASE H!Weigh
    BY <2>3, WeighStep
  <2>4. CASE H!NewWindow
    BY <2>4, NewWindowStep
  <2>5. CASE H!Lose
    BY <2>5, LoseStep
  <2> QED BY <1>2, <2>1, <2>2, <2>3, <2>4, <2>5 DEF H!Next
<1> QED BY <1>1, <1>2 DEF PartsNext

LEMMA HoldersMeans == HoldersInv => WeightsEarned
<1> SUFFICES ASSUME HoldersInv PROVE WeightsEarned
  OBVIOUS
<1>1. PICK h : h = holders
  OBVIOUS
<1>2. PICK b : b = bucket
  OBVIOUS
<1>3. PICK recs : recs = RecsAt(h, b)
  OBVIOUS
<1>4. /\ HeaderTyped(h) /\ BucketsTrue(h, b) /\ RecsTrue(h, recs, gap)
      /\ WalletsTrue(h, recs, last, earned, gap)
  BY <1>1, <1>2, <1>3 DEF HoldersInv, HoldersTrue
<1>5. H!Records = recs
  BY <1>1, <1>2, <1>3, RecordsAre
<1>6. DOMAIN recs \subseteq Wallet
  BY <1>4 DEF RecsTrue
<1>7. ASSUME NEW w \in Wallet
      PROVE  LET got == IF w \in DOMAIN recs THEN H!weight(recs[w], holders.covered) ELSE 0
             IN got <= earned[w] /\ (gap[w] = "none" => got = earned[w])
  <2>1. WalletTrue(h, recs, last, earned, gap, w)
    BY <1>4 DEF WalletsTrue
  <2>2. WeightIn(h, recs, w) = IF w \in DOMAIN recs THEN H!weight(recs[w], holders.covered) ELSE 0
    BY <1>1, WeightIs DEF WeightIn
  <2> QED BY <2>1, <2>2 DEF WalletTrue
<1>8. H!WeightsEarned
  BY <1>5, <1>6, <1>7 DEF H!WeightsEarned
<1>9. H!Cardinality(DOMAIN recs) <= maxRecords
  BY <1>4, CountIs DEF RecsTrue
<1>10. \A n \in DOMAIN holders.meta : H!Cardinality(DOMAIN H!Live(n)) <= bucketMax
  <2>1. DOMAIN holders.meta = 0..(h.buckets - 1)
    BY <1>1, <1>4, HeaderTypes
  <2> QED BY <1>1, <1>2, <1>4, <2>1, CountIs, LiveIs DEF BucketsTrue
<1>11. H!RecordsBounded
  BY <1>5, <1>9, <1>10 DEF H!RecordsBounded
<1> QED BY <1>8, <1>11 DEF WeightsEarned

\* Whatever the samples do, lose or leave half done, each record is of the balance its bucket was last
\* read with, and weighs what its wallet has earned.
THEOREM HoldersAccounted == PartsSpec => []HoldersInv
<1>1. PartsInit => HoldersInv
  BY HoldersBegin DEF PartsInit
<1>2. HoldersInv /\ [PartsNext]_<<part, vars, holderVars>> => HoldersInv'
  BY HoldersStep
<1> QED BY <1>1, <1>2, PTL DEF PartsSpec

\* An epoch is weighed by exactly what each wallet earned, and by less only after its record was lost
\* or gave way to larger ones; the records stay within their bounds.
THEOREM WeightsStayEarned == PartsSpec => []WeightsEarned
<1>1. PartsSpec => []HoldersInv
  BY HoldersAccounted
<1> QED BY <1>1, HoldersMeans, PTL
=============================================================================
