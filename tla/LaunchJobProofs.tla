-------------------------- MODULE LaunchJobProofs --------------------------
(***************************************************************************)
(* A launch does no stage twice and claims nothing that did not land, for  *)
(* every set of plans and any number of attempts, transactions, faults and *)
(* visits: for every value of the constants of LaunchJob.  And the $QUANTP *)
(* ledger, listed and read in parts, says nothing of its wallets that is   *)
(* not so: for every history and all limits of QuantpLedger.               *)
(***************************************************************************)
EXTENDS MCWork, TLAPS, FiniteSetTheorems, SequenceTheorems, WellFoundedInduction

\* The coin's creation and its dev buy go together: in a transaction, in an attempt, in a job.
Whole(stages) ==
    /\ stages \subseteq plan
    /\ "launch" \in stages => plan \cap {"buy"} \subseteq stages
    /\ "buy" \in stages => "launch" \in stages

Wholes == {stages \in SUBSET plan : Whole(stages)}
Loads  == Wholes \ {{}}      \* no transaction without instructions

Outcome == {"free", "signed", "live", "landed", "failed", "expired"}

PagePc == {"idle", "open", "build", "check", "sign", "send", "confirm", "failed", "settle",
           "progress", "register", "live", "left"}

PageRec ==
    [ pc : PagePc, pass : 0..Passes, todo : Seq(Loads), cur : Tx \cup {None}, conf : Wholes,
      verdict : Outcome \cup {"none"}, again : BOOLEAN ]

TxRec    == [stages : Wholes, st : Outcome, seen : BOOLEAN]
JobRec   == [done : Wholes, pending : Tx \cup {None}, registered : BOOLEAN]
SavedRec == [done : Wholes, registered : BOOLEAN]

\* What the chain holds, and the transactions that are on their way to it.
ChainShape ==
    /\ plan \in Plans /\ times \in [Stage -> Nat] /\ paused \in BOOLEAN
    /\ tx \in [Tx -> TxRec]

\* What the page, its job and the registration keep.
PageShape ==
    /\ page \in PageRec
    /\ job \in JobRec \cup {None} /\ (job = None <=> page.pc \in {"idle", "left", "live"})
    /\ store \in SavedRec \cup {None}
    /\ page.pc \in {"send", "confirm"} => page.cur \in Tx
    /\ page.pc \in {"check", "sign", "send", "confirm"} => page.todo # <<>> /\ page.pass < Passes

ServerShape ==
    /\ reg \in [left : 0..Attempts, own : BOOLEAN]
    /\ server \in {"none", "native", "external"}
    /\ faults \in 0..MaxFaults

\* What a transaction that landed carried, has landed; so did what the attempt saw confirmed, and
\* what it looked up.
SeenTrue ==
    /\ \A t \in Tx : tx[t].st = "landed" => tx[t].stages \subseteq Landed
    /\ page.conf \subseteq Landed
    /\ page.pc = "progress" /\ page.verdict = "landed" =>
          job.pending \in Tx /\ tx[job.pending].st = "landed"

\* A job with something done is saved, until the server lists the coin; a launch waits for its
\* registration only with everything done.
Remembered ==
    /\ job # None /\ job.done # {} => server = "native" \/ store # None
    /\ page.pc = "register" => plan \subseteq job.done

LaunchInv ==
    /\ ChainShape /\ PageShape /\ ServerShape
    /\ SeenTrue /\ Remembered
    /\ StagesOnce /\ SaysWhatLanded

-----------------------------------------------------------------------------
(* What the page builds.                                                   *)

LEMMA WholesJoin ==
    ASSUME NEW S \in SUBSET Wholes
    PROVE  UNION S \in Wholes
BY DEF Wholes, Whole

LEMMA JoinWhole ==
    ASSUME NEW a \in Wholes, NEW b \in Wholes
    PROVE  a \cup b \in Wholes
BY DEF Wholes, Whole

LEMMA UnlessWhole ==
    ASSUME NEW group \in Wholes, NEW done
    PROVE  Unless(group, done) \in Seq(Loads)
<1>1. CASE group \subseteq done
  BY <1>1 DEF Unless
<1>2. CASE ~(group \subseteq done)
  <2>1. group \in Loads
    BY <1>2 DEF Loads
  <2> QED BY <2>1, <1>2 DEF Unless
<1> QED BY <1>1, <1>2

\* The groups of the stages of a launch that are all there, or of its lock.
LEMMA GroupedWhole ==
    ASSUME plan \in Plans, NEW stages \in SUBSET plan, NEW done,
           "launch" \in stages => plan \cap {"buy"} \subseteq stages,
           "buy" \in stages => "launch" \in stages
    PROVE  Grouped(stages, done) \in Seq(Loads)
<1>1. /\ stages \cap {"register"} \in Wholes
      /\ stages \cap {"launch", "buy"} \in Wholes
      /\ stages \cap {"lock"} \in Wholes
  BY DEF Wholes, Whole
<1>2. /\ Unless(stages \cap {"register"}, done) \in Seq(Loads)
      /\ Unless(stages \cap {"launch", "buy"}, done) \in Seq(Loads)
      /\ Unless(stages \cap {"lock"}, done) \in Seq(Loads)
  BY <1>1, UnlessWhole
<1> QED BY <1>2 DEF Grouped

\* What is left of a launch is built of whole groups: a dev buy is never sent without its coin,
\* since no job has the one without the other.
LEMMA RemainingWhole ==
    ASSUME plan \in Plans, NEW j \in JobRec
    PROVE  Remaining(j) \in Seq(Loads)
<1>1. "launch" \in plan
  BY LaunchAssumption
<1>2. Whole(j.done)
  BY DEF JobRec, Wholes
<1>3. CASE "launch" \notin j.done
  <2>1. Grouped(plan, j.done) \in Seq(Loads)
    BY <1>1, GroupedWhole
  <2> QED BY <2>1, <1>3 DEF Remaining, Kept
<1>4. CASE "launch" \in j.done
  <2>1. "buy" \notin plan \ j.done
    BY <1>2, <1>4 DEF Whole
  <2>2. Grouped(plan \cap {"lock"}, j.done) \in Seq(Loads)
    BY GroupedWhole
  <2> QED BY <2>1, <2>2, <1>4 DEF Remaining
<1> QED BY <1>3, <1>4

LEMMA LeastNatural ==
    ASSUME NEW S \in SUBSET Nat, S # {}
    PROVE  \E m \in S : \A k \in S : m <= k
<1> DEFINE less == OpToRel(<, Nat)
<1>1. IsWellFoundedOn(less, Nat)
  BY NatLessThanWellFounded
<1>2. \A x, y \in Nat : x < y => <<x, y>> \in less
  BY DEF OpToRel
<1> HIDE DEF less
<1>3. PICK m \in S : \A y \in S : <<y, m>> \notin less
  BY <1>1, WFMin
<1>4. \A k \in S : ~(k < m)
  BY <1>2, <1>3
<1> QED BY <1>4

Before(cut, k) == Cardinality({c \in cut : c < k})

LEMMA BeforeGrows ==
    ASSUME NEW cut, IsFiniteSet(cut), cut \subseteq Nat, NEW k \in Nat
    PROVE  /\ Before(cut, k) \in Nat
           /\ Before(cut, k + 1) \in {Before(cut, k), Before(cut, k) + 1}
<1> DEFINE S == {c \in cut : c < k}
<1>1. IsFiniteSet(S) /\ Cardinality(S) \in Nat
  BY FS_Subset, FS_CardinalityType
<1>2. {c \in cut : c < k + 1} = IF k \in cut THEN S \cup {k} ELSE S
  <2>1. \A c \in cut : c < k + 1 <=> c < k \/ c = k
    OBVIOUS
  <2> QED BY <2>1
<1>3. k \notin S
  OBVIOUS
<1>4. Cardinality(S \cup {k}) = Cardinality(S) + 1
  <2> HIDE DEF S
  <2> QED BY <1>1, <1>3, FS_AddElement
<1> QED BY <1>1, <1>2, <1>4 DEF Before

\* Of n groups, the last goes into the last transaction, and no transaction is left out.
LEMMA EveryPlaceTaken ==
    ASSUME NEW n \in Nat \ {0}, NEW cut \in SUBSET (1..(n - 1)),
           NEW i \in 1..(1 + Cardinality(cut))
    PROVE  \E k \in 1..n : 1 + Before(cut, k) = i
<1> DEFINE S == {k \in 1..n : 1 + Before(cut, k) >= i}
<1>1. IsFiniteSet(cut) /\ cut \subseteq Nat /\ Cardinality(cut) \in Nat
  <2>1. IsFiniteSet(1..(n - 1))
    BY FS_Interval
  <2>2. IsFiniteSet(cut)
    BY <2>1, FS_Subset
  <2>3. cut \subseteq Nat
    OBVIOUS
  <2> QED BY <2>2, <2>3, FS_CardinalityType
<1>2. \A k \in Nat : Before(cut, k) \in Nat
                     /\ Before(cut, k + 1) \in {Before(cut, k), Before(cut, k) + 1}
  BY <1>1, BeforeGrows
<1>3. Before(cut, n) = Cardinality(cut) /\ Before(cut, 1) = 0
  <2>1. {c \in cut : c < n} = cut /\ {c \in cut : c < 1} = {}
    <3>1. \A c \in cut : c < n /\ ~(c < 1)
      OBVIOUS
    <3> QED BY <3>1
  <2> QED BY <2>1, FS_EmptySet DEF Before
<1>4. n \in S
  BY <1>1, <1>3
<1>5. PICK m \in S : \A k \in S : m <= k
  <2>1. S \in SUBSET Nat /\ S # {}
    BY <1>4
  <2> HIDE DEF S
  <2> QED BY <2>1, LeastNatural
<1>6. CASE m = 1
  BY <1>3, <1>5, <1>6
<1>7. CASE m # 1
  <2>1. m - 1 \in 1..n /\ m - 1 \in Nat
    BY <1>7
  <2>2. m - 1 \notin S
    BY <1>5, <2>1
  <2>3. 1 + Before(cut, m - 1) < i
    BY <1>2, <2>1, <2>2
  <2>4. Before(cut, m) \in {Before(cut, m - 1), Before(cut, m - 1) + 1}
    BY <1>2, <2>1
  <2> QED BY <1>2, <1>5, <2>1, <2>3, <2>4
<1> QED BY <1>6, <1>7

\* However the packer joins groups, each transaction carries whole ones and is not empty, and
\* there is one.
LEMMA PackingsWhole ==
    ASSUME NEW groups \in Seq(Loads), groups # <<>>, NEW txs \in Packings(groups)
    PROVE  txs \in Seq(Loads) /\ txs # <<>>
<1> DEFINE n == Len(groups)
           Carried(cut, i) == UNION {groups[k] : k \in {m \in DOMAIN groups : 1 + Before(cut, m) = i}}
<1>1. PICK cut \in SUBSET (1..(n - 1)) :
         txs = [i \in 1..(1 + Cardinality(cut)) |-> Carried(cut, i)]
  BY DEF Packings, Before
<1>2. Cardinality(cut) \in Nat /\ n \in Nat \ {0} /\ DOMAIN groups = 1..n
  <2>1. IsFiniteSet(1..(n - 1)) /\ n \in Nat
    BY FS_Interval
  <2>2. IsFiniteSet(cut)
    BY <2>1, FS_Subset
  <2>3. n # 0
    OBVIOUS
  <2> QED BY <2>1, <2>2, <2>3, FS_CardinalityType
<1>3. \A i \in 1..(1 + Cardinality(cut)) : Carried(cut, i) \in Loads
  <2> SUFFICES ASSUME NEW i \in 1..(1 + Cardinality(cut)) PROVE Carried(cut, i) \in Loads
    OBVIOUS
  <2> DEFINE S == {groups[k] : k \in {m \in DOMAIN groups : 1 + Before(cut, m) = i}}
  <2>1. S \subseteq Loads
    OBVIOUS
  <2>2. S # {}
    <3>1. PICK k \in 1..n : 1 + Before(cut, k) = i
      <4> HIDE DEF n
      <4> QED BY <1>2, EveryPlaceTaken
    <3> QED BY <3>1, <1>2
  <2> HIDE DEF S
  <2>3. UNION S \in Wholes
    BY <2>1, WholesJoin DEF Loads
  <2>4. UNION S # {}
    BY <2>1, <2>2 DEF Loads
  <2> QED BY <2>3, <2>4 DEF S, Loads
<1> HIDE DEF Carried
<1>4. txs \in [1..(1 + Cardinality(cut)) -> Loads]
  BY <1>1, <1>3
<1>5. 1 + Cardinality(cut) \in Nat /\ 1 + Cardinality(cut) >= 1
  BY <1>2
<1>6. txs \in Seq(Loads) /\ Len(txs) >= 1
  BY <1>4, <1>5
<1> QED BY <1>6

LEMMA TailLeft ==
    ASSUME NEW S, NEW s \in Seq(S), Len(s) > 1
    PROVE  Tail(s) \in Seq(S) /\ Tail(s) # <<>>
<1>1. s # <<>> /\ Tail(s) \in Seq(S) /\ Len(Tail(s)) = Len(s) - 1 /\ Len(s) \in Nat
  OBVIOUS
<1>2. Len(Tail(s)) # 0
  BY <1>1
<1>3. Tail(s) # <<>>
  <2> SUFFICES ASSUME Tail(s) = <<>> PROVE FALSE
    OBVIOUS
  <2>1. Len(Tail(s)) = Len(<<>>)
    OBVIOUS
  <2> QED BY <2>1, <1>2
<1> QED BY <1>1, <1>3

LEMMA AtTyped ==
    ASSUME NEW pc \in PagePc
    PROVE  At(pc) \in PageRec /\ At(pc).pc = pc /\ At(pc).conf = {} /\ At(pc).verdict = "none"
<1>1. {} \in Wholes
  BY DEF Wholes, Whole
<1>2. 0 \in 0..Passes
  BY LaunchAssumption
<1>3. <<>> \in Seq(Loads)
  OBVIOUS
<1> QED BY <1>1, <1>2, <1>3 DEF At, PageRec

-----------------------------------------------------------------------------
(* What a step of the page must show.                                      *)

\* The transactions keep what they carry, and none lands.
TxKeeps ==
    /\ tx' \in [Tx -> TxRec]
    /\ \A t \in Tx : tx'[t].st = "landed" => tx[t].st = "landed" /\ tx'[t].stages = tx[t].stages

\* A job, or a saved one, that claims nothing it may not.
GoodJob(j) == j \in JobRec /\ j.done \subseteq Landed /\ (j.registered => server = "native")

LEMMA PlanShape ==
    ASSUME ChainShape
    PROVE  "launch" \in plan /\ plan \subseteq Stage
BY LaunchAssumption DEF ChainShape

LEMMA ViewLanded == View \subseteq Landed
BY DEF View

LEMMA LandedStays ==
    ASSUME UNCHANGED <<plan, times>>
    PROVE  Landed' = Landed /\ Wholes' = Wholes /\ JobRec' = JobRec /\ SavedRec' = SavedRec
           /\ PageRec' = PageRec /\ TxRec' = TxRec
BY DEF Landed, Wholes, Whole, Loads, JobRec, SavedRec, PageRec, TxRec

LEMMA JobsAreJobs ==
    ASSUME ChainShape
    PROVE  None \notin JobRec /\ None \notin SavedRec
<1>1. plan \subseteq Stage
  BY PlanShape
<1>2. JobRec \subseteq [done : SUBSET Stage, pending : Tx \cup {None}, registered : BOOLEAN]
  BY <1>1 DEF JobRec, Wholes
<1>3. SavedRec \subseteq [done : SUBSET Stage, registered : BOOLEAN]
  BY <1>1 DEF SavedRec, Wholes
<1> QED BY <1>2, <1>3, LaunchAssumption

LEMMA SavedGood ==
    ASSUME ChainShape, NEW j, GoodJob(j)
    PROVE  /\ Saved(j) \in SavedRec /\ Saved(j) # None
           /\ Saved(j).done = j.done /\ Saved(j).registered = j.registered
BY JobsAreJobs DEF GoodJob, Saved, SavedRec, JobRec

LEMMA OffChain ==
    ASSUME LaunchInv, UNCHANGED chain, TxKeeps, PageShape', ServerShape',
           page'.conf \subseteq Landed,
           page'.pc = "progress" /\ page'.verdict = "landed" =>
               job'.pending \in Tx /\ tx'[job'.pending].st = "landed",
           Remembered', SaysWhatLanded'
    PROVE  LaunchInv'
<1>1. UNCHANGED <<plan, times, paused>>
  BY DEF chain
<1>2. /\ Landed' = Landed /\ TxRec' = TxRec
  BY <1>1, LandedStays
<1>3. ChainShape'
  BY <1>1, <1>2 DEF LaunchInv, ChainShape, TxKeeps
<1>4. SeenTrue'
  BY <1>2 DEF LaunchInv, SeenTrue, TxKeeps
<1>5. StagesOnce'
  BY <1>1, <1>2 DEF LaunchInv, StagesOnce
<1> QED BY <1>3, <1>4, <1>5 DEF LaunchInv

LEMMA JobGood ==
    ASSUME LaunchInv, job # None
    PROVE  GoodJob(job)
BY DEF LaunchInv, PageShape, SaysWhatLanded, GoodJob

LEMMA RegisterOnceTyped ==
    ASSUME LaunchInv, NEW j, NEW own \in BOOLEAN, RegisterOnce(j, own)
    PROVE  reg' \in [left : 0..Attempts, own : BOOLEAN]
<1>1. Attempts \in 0..Attempts
  BY LaunchAssumption
<1> QED BY <1>1 DEF LaunchInv, ServerShape, RegisterOnce

\* However an attempt ends, what it leaves behind is true.
LEMMA Failing ==
    ASSUME LaunchInv, UNCHANGED outside, TxKeeps, faults' \in 0..MaxFaults,
           NEW j, GoodJob(j), NEW retryable \in BOOLEAN, Ends(j, retryable),
           store' = Saved(j) \/ (store' = store /\ j = job)
    PROVE  LaunchInv'
<1> USE LaunchInv DEF LaunchInv
<1>1. UNCHANGED <<plan, times, paused, server>>
  BY DEF outside, chain
<1>2. /\ Landed' = Landed /\ Wholes' = Wholes /\ JobRec' = JobRec /\ SavedRec' = SavedRec
      /\ PageRec' = PageRec
  BY <1>1, LandedStays
<1>3. job' = j /\ j \in JobRec /\ j # None /\ j.done \subseteq Landed
      /\ (j.registered => server = "native")
  BY JobsAreJobs DEF Ends, GoodJob
<1>4. /\ page' \in PageRec /\ page'.pc = "failed" /\ page'.conf = {}
  <2>1. At("failed") \in PageRec /\ At("failed").pc = "failed" /\ At("failed").conf = {}
    BY AtTyped DEF PagePc
  <2>2. HasProgress(j) \/ retryable \in BOOLEAN
    BY DEF HasProgress
  <2> QED BY <2>1, <2>2 DEF Ends, PageRec
<1>5. store' \in SavedRec \cup {None} /\ (store' = None => store = None /\ j = job)
      /\ (store' # None => store'.done \subseteq Landed /\ (store'.registered => server = "native"))
  BY <1>3, SavedGood DEF PageShape, SaysWhatLanded
<1>6. PageShape'
  BY <1>2, <1>3, <1>4, <1>5 DEF PageShape
<1>7. ServerShape'
  <2>1. reg' \in [left : 0..Attempts, own : BOOLEAN]
    BY RegisterOnceTyped DEF Ends, ServerShape
  <2> QED BY <2>1, <1>1 DEF ServerShape
<1>8. Remembered'
  BY <1>1, <1>3, <1>4, <1>5 DEF Remembered
<1>9. SaysWhatLanded'
  BY <1>1, <1>2, <1>3, <1>4, <1>5 DEF SaysWhatLanded
<1>10. UNCHANGED chain
  BY DEF outside
<1> QED BY <1>4, <1>6, <1>7, <1>8, <1>9, <1>10, OffChain

LEMMA TxStays ==
    ASSUME LaunchInv, UNCHANGED tx
    PROVE  TxKeeps
BY DEF LaunchInv, ChainShape, TxKeeps

LEMMA FaultsTyped ==
    ASSUME LaunchInv, UNCHANGED faults \/ Fault
    PROVE  faults' \in 0..MaxFaults
BY LaunchAssumption DEF LaunchInv, ServerShape, Fault

LEMMA FailingBefore ==
    ASSUME LaunchInv, job # None, UNCHANGED outside, UNCHANGED faults \/ Fault,
           NEW retryable \in BOOLEAN, FailsBefore(retryable)
    PROVE  LaunchInv'
BY JobGood, TxStays, FaultsTyped, Failing DEF FailsBefore

LEMMA RecordedGood ==
    ASSUME LaunchInv, NEW j, GoodJob(j), NEW stages \in Wholes, stages \subseteq Landed
    PROVE  GoodJob(Recorded(j, stages))
<1>1. j.done \cup stages \in Wholes
  BY JoinWhole DEF GoodJob, JobRec
<1> QED BY <1>1 DEF GoodJob, Recorded, JobRec

LEMMA FailingSending ==
    ASSUME LaunchInv, job # None, UNCHANGED outside, UNCHANGED faults \/ Fault, TxKeeps,
           NEW unknown \in BOOLEAN, NEW retryable \in BOOLEAN, FailsSending(unknown, retryable)
    PROVE  LaunchInv'
<1> DEFINE k == Recorded(job, page.conf)
           j == RecordPending(k, unknown)
<1>1. page.conf \in Wholes /\ page.conf \subseteq Landed /\ page.cur \in Tx \cup {None}
  BY DEF LaunchInv, SeenTrue, PageShape, PageRec
<1>2. GoodJob(k)
  BY <1>1, JobGood, RecordedGood
<1>3. GoodJob(j)
  <2> HIDE DEF k
  <2> QED BY <1>1, <1>2 DEF GoodJob, RecordPending, JobRec
<1>4. Ends(j, retryable) /\ store' = Saved(j)
  BY DEF FailsSending
<1>5. faults' \in 0..MaxFaults
  BY FaultsTyped
<1> HIDE DEF j
<1> QED BY <1>3, <1>4, <1>5, Failing

-----------------------------------------------------------------------------
(* The steps of an attempt.                                                *)

LEMMA StartKeeps ==
    ASSUME LaunchInv, Start
    PROVE  LaunchInv'
<1> USE DEF LaunchInv
<1>1. UNCHANGED <<plan, times, paused, server, tx, store, reg>> /\ UNCHANGED chain
  BY DEF Start, outside, chain
<1>2. /\ Landed' = Landed /\ Wholes' = Wholes /\ JobRec' = JobRec /\ SavedRec' = SavedRec
      /\ PageRec' = PageRec
  BY <1>1, LandedStays
<1>3. job' = NewJob /\ NewJob \in JobRec /\ NewJob.done = {} /\ ~NewJob.registered /\ NewJob # None
  <2>1. {} \in Wholes
    BY DEF Wholes, Whole
  <2>2. NewJob \in JobRec /\ NewJob.done = {} /\ ~NewJob.registered
    BY <2>1 DEF NewJob, JobRec
  <2> QED BY <2>2, JobsAreJobs DEF Start
<1>4. page' \in PageRec /\ page'.pc = "open" /\ page'.conf = page.conf
  BY DEF Start, Goes, PageShape, PageRec, PagePc
<1>5. PageShape'
  BY <1>1, <1>2, <1>3, <1>4 DEF PageShape
<1>6. ServerShape'
  <2>1. UNCHANGED faults \/ Fault
    BY DEF Start, Open
  <2> QED BY <2>1, <1>1, FaultsTyped DEF ServerShape
<1>7. Remembered'
  BY <1>3, <1>4 DEF Remembered
<1>8. SaysWhatLanded'
  BY <1>1, <1>2, <1>3, <1>4 DEF SaysWhatLanded
<1>9. page'.conf \subseteq Landed
  BY <1>4 DEF SeenTrue
<1> QED BY <1>1, <1>4, <1>5, <1>6, <1>7, <1>8, <1>9, TxStays, OffChain

\* The page goes on with its attempt, and nothing is recorded yet.
LEMMA PageMoves ==
    ASSUME LaunchInv, UNCHANGED outside, UNCHANGED <<job, store, reg>>,
           UNCHANGED faults \/ Fault, TxKeeps, job # None,
           page' \in PageRec, page'.pc \notin {"idle", "left", "live", "register"},
           page'.pc \in {"send", "confirm"} => page'.cur \in Tx,
           page'.pc \in {"check", "sign", "send", "confirm"} =>
               page'.todo # <<>> /\ page'.pass < Passes,
           page'.conf \subseteq Landed,
           page'.pc = "progress" /\ page'.verdict = "landed" =>
               job.pending \in Tx /\ tx'[job.pending].st = "landed"
    PROVE  LaunchInv'
<1> USE DEF LaunchInv
<1>1. UNCHANGED <<plan, times, paused, server>> /\ UNCHANGED chain
  BY DEF outside, chain
<1>2. /\ Landed' = Landed /\ Wholes' = Wholes /\ JobRec' = JobRec /\ SavedRec' = SavedRec
      /\ PageRec' = PageRec
  BY <1>1, LandedStays
<1>3. PageShape'
  BY <1>1, <1>2 DEF PageShape
<1>4. ServerShape'
  BY <1>1, FaultsTyped DEF ServerShape
<1>5. Remembered'
  BY <1>1 DEF Remembered
<1>6. SaysWhatLanded'
  BY <1>1, <1>2 DEF SaysWhatLanded
<1> QED BY <1>1, <1>3, <1>4, <1>5, <1>6, OffChain

LEMMA FinishKeeps ==
    ASSUME LaunchInv, Finish
    PROVE  LaunchInv'
<1>1. UNCHANGED outside /\ page.pc = "failed" /\ job # None
  BY DEF Finish, LaunchInv, PageShape
<1>2. CASE page' = At("settle") /\ UNCHANGED <<tx, job, store, reg, faults>>
  <2>1. /\ page' \in PageRec' /\ page'.pc = "settle" /\ page'.conf = {}
    BY <1>2, <1>1, AtTyped, LandedStays DEF PagePc, outside, chain
  <2>2. PageRec' = PageRec
    BY <1>1, LandedStays DEF outside, chain
  <2> QED BY <2>1, <2>2, <1>1, <1>2, TxStays, PageMoves
<1>3. CASE Fault /\ FailsBefore(FALSE)
  BY <1>1, <1>3, FailingBefore
<1> QED BY <1>2, <1>3 DEF Finish

LEMMA ReadPendingKeeps ==
    ASSUME LaunchInv, ReadPending
    PROVE  LaunchInv'
<1>1. UNCHANGED outside /\ page.pc = "settle" /\ job # None
  BY DEF ReadPending, LaunchInv, PageShape
<1>2. CASE /\ page' = [page EXCEPT !.pc = "progress",
                         !.verdict = IF job.pending # None /\ tx[job.pending].seen
                                     THEN tx[job.pending].st ELSE "none"]
           /\ UNCHANGED <<tx, job, store, reg, faults>>
  <2>1. page \in PageRec /\ job \in JobRec /\ tx \in [Tx -> TxRec] /\ page.conf \subseteq Landed
    BY <1>1 DEF LaunchInv, PageShape, ChainShape, SeenTrue
  <2>2. page'.verdict \in Outcome \cup {"none"}
        /\ (page'.verdict = "landed" => job.pending \in Tx /\ tx[job.pending].st = "landed")
    BY <2>1, <1>2 DEF PageRec, JobRec, TxRec, Outcome
  <2>3. page' \in PageRec /\ page'.pc = "progress" /\ page'.conf = page.conf
    BY <2>1, <2>2, <1>2 DEF PageRec, PagePc
  <2> QED BY <2>1, <2>2, <2>3, <1>1, <1>2, TxStays, PageMoves
<1>3. CASE Fault /\ \E transient \in BOOLEAN : FailsBefore(transient)
  BY <1>1, <1>3, FailingBefore
<1> QED BY <1>2, <1>3 DEF ReadPending

\* What landed is recorded in the job, and saved.
LEMMA Recording ==
    ASSUME LaunchInv, UNCHANGED outside, UNCHANGED <<tx, reg, faults>>,
           NEW j, GoodJob(j), job' = j, store' = Saved(j),
           page' \in PageRec, page'.pc \in {"open", "build"}, page'.conf = {}
    PROVE  LaunchInv'
<1> USE DEF LaunchInv
<1>1. UNCHANGED <<plan, times, paused, server>> /\ UNCHANGED chain
  BY DEF outside, chain
<1>2. /\ Landed' = Landed /\ Wholes' = Wholes /\ JobRec' = JobRec /\ SavedRec' = SavedRec
      /\ PageRec' = PageRec
  BY <1>1, LandedStays
<1>3. j \in JobRec /\ j # None /\ j.done \subseteq Landed /\ (j.registered => server = "native")
  BY JobsAreJobs DEF GoodJob
<1>4. /\ store' \in SavedRec /\ store' # None
      /\ store'.done \subseteq Landed /\ (store'.registered => server = "native")
  BY <1>3, SavedGood
<1>5. PageShape'
  BY <1>1, <1>2, <1>3, <1>4 DEF PageShape
<1>6. ServerShape'
  BY <1>1 DEF ServerShape
<1>7. Remembered'
  BY <1>4 DEF Remembered
<1>8. SaysWhatLanded'
  BY <1>1, <1>2, <1>3, <1>4 DEF SaysWhatLanded
<1> QED BY <1>1, <1>5, <1>6, <1>7, <1>8, TxStays, OffChain

\* The chain shows the create and, since they are one transaction, its dev buy.
LEMMA ReconciledGood ==
    ASSUME LaunchInv, job # None, page.pc = "progress"
    PROVE  GoodJob(Reconciled(job, page.verdict))
<1> DEFINE looked == IF page.verdict = "landed" THEN tx[job.pending].stages ELSE {}
           shown  == plan \cap ((View \ {"buy"}) \cup (IF "launch" \in View THEN {"buy"} ELSE {}))
<1>1. GoodJob(job)
  BY JobGood
<1>2. looked \in Wholes /\ looked \subseteq Landed
  <2>1. {} \in Wholes
    BY DEF Wholes, Whole
  <2> QED BY <2>1 DEF LaunchInv, SeenTrue, ChainShape, TxRec
<1>3. shown \in Wholes /\ shown \subseteq Landed
  <2>1. "launch" \in Landed => plan \cap {"buy"} \subseteq Landed
    BY DEF LaunchInv, StagesOnce
  <2>2. "launch" \in plan
    BY PlanShape DEF LaunchInv
  <2> QED BY <2>1, <2>2, ViewLanded DEF Wholes, Whole
<1>4. looked \cup shown \in Wholes /\ looked \cup shown \subseteq Landed
  <2> HIDE DEF looked, shown
  <2> QED BY <1>2, <1>3, JoinWhole
<1>5. GoodJob(Recorded(job, looked \cup shown))
  <2> HIDE DEF looked, shown
  <2> QED BY <1>1, <1>4, RecordedGood
<1>6. Reconciled(job, page.verdict) = [Recorded(job, looked \cup shown) EXCEPT !.pending = None]
  BY DEF Reconciled
<1> HIDE DEF looked, shown
<1> QED BY <1>5, <1>6 DEF GoodJob, JobRec

LEMMA ReadProgressKeeps ==
    ASSUME LaunchInv, ReadProgress
    PROVE  LaunchInv'
<1>1. UNCHANGED outside /\ page.pc = "progress" /\ job # None
  BY DEF ReadProgress, LaunchInv, PageShape
<1>2. CASE /\ job' = Reconciled(job, page.verdict)
           /\ store' = Saved(job')
           /\ page' = At("open")
           /\ UNCHANGED <<tx, reg, faults>>
  <2>1. GoodJob(Reconciled(job, page.verdict))
    BY <1>1, ReconciledGood
  <2>2. page' \in PageRec /\ page'.pc = "open" /\ page'.conf = {}
    BY <1>2, AtTyped DEF PagePc
  <2>3. store' = Saved(Reconciled(job, page.verdict))
    BY <1>2
  <2> QED BY <2>1, <2>2, <2>3, <1>1, <1>2, Recording
<1>3. CASE Fault /\ \E transient \in BOOLEAN : FailsBefore(transient)
  BY <1>1, <1>3, FailingBefore
<1> QED BY <1>2, <1>3 DEF ReadProgress

LEMMA CheckOpenKeeps ==
    ASSUME LaunchInv, CheckOpen
    PROVE  LaunchInv'
<1>1. UNCHANGED outside /\ page.pc = "open" /\ job # None
  BY DEF CheckOpen, LaunchInv, PageShape
<1>2. UNCHANGED faults \/ Fault
  BY DEF CheckOpen, Open
<1>3. CASE Goes("build") /\ UNCHANGED <<tx, job, store, reg>>
  <2>1. page \in PageRec /\ page.conf \subseteq Landed
    BY DEF LaunchInv, PageShape, SeenTrue
  <2>2. page' \in PageRec /\ page'.pc = "build" /\ page'.conf = page.conf
    BY <2>1, <1>3 DEF Goes, PageRec, PagePc
  <2> QED BY <2>1, <2>2, <1>1, <1>2, <1>3, TxStays, PageMoves
<1>4. CASE FailsBefore(TRUE)
  BY <1>1, <1>2, <1>4, FailingBefore
<1> QED BY <1>3, <1>4 DEF CheckOpen

LEMMA BuildKeeps ==
    ASSUME LaunchInv, Build
    PROVE  LaunchInv'
<1>1. UNCHANGED outside /\ page.pc = "build" /\ job # None
  BY DEF Build, LaunchInv, PageShape
<1>2. CASE /\ \E txs \in Packings(Remaining(job)) :
                page' = [At("check") EXCEPT !.pass = page.pass, !.todo = txs]
           /\ UNCHANGED <<tx, job, store, reg, faults>>
  <2>1. PICK txs \in Packings(Remaining(job)) :
           page' = [At("check") EXCEPT !.pass = page.pass, !.todo = txs]
    BY <1>2
  <2>2. page \in PageRec /\ job \in JobRec /\ plan \in Plans
    BY <1>1 DEF LaunchInv, PageShape, ChainShape
  <2>3. txs \in Seq(Loads) /\ txs # <<>>
    BY <2>2, RemainingWhole, PackingsWhole DEF Build, MorePasses
  <2>4. At("check") \in PageRec /\ At("check").pc = "check" /\ At("check").conf = {}
    BY AtTyped DEF PagePc
  <2>5. page.pass < Passes
    BY DEF Build, MorePasses
  <2>6. page' \in PageRec /\ page'.pc = "check" /\ page'.conf = {} /\ page'.todo # <<>>
        /\ page'.pass < Passes
    BY <2>1, <2>2, <2>3, <2>4, <2>5 DEF PageRec
  <2> QED BY <2>6, <1>1, <1>2, TxStays, PageMoves
<1>3. CASE Fault /\ \E retryable \in BOOLEAN : FailsBefore(retryable)
  BY <1>1, <1>3, FailingBefore
<1> QED BY <1>2, <1>3 DEF Build

LEMMA BuiltAllKeeps ==
    ASSUME LaunchInv, BuiltAll
    PROVE  LaunchInv'
<1> USE DEF LaunchInv
<1>1. UNCHANGED outside /\ UNCHANGED faults /\ page.pc = "build" /\ job # None
  BY DEF BuiltAll, PageShape
<1>2. CASE /\ Complete(job)
           /\ page' = At("register") /\ RegisterOnce(job, TRUE)
           /\ UNCHANGED <<tx, job, store>>
  <2>1. UNCHANGED <<plan, times, paused, server>> /\ UNCHANGED chain
    BY <1>1 DEF outside, chain
  <2>2. /\ Landed' = Landed /\ Wholes' = Wholes /\ JobRec' = JobRec /\ SavedRec' = SavedRec
        /\ PageRec' = PageRec
    BY <2>1, LandedStays
  <2>3. page' \in PageRec /\ page'.pc = "register" /\ page'.conf = {}
    BY <1>2, AtTyped DEF PagePc
  <2>4. plan \subseteq job.done /\ job.done \subseteq Landed
    BY <1>1, <1>2, JobGood DEF Complete, GoodJob
  <2>5. PageShape'
    BY <1>1, <1>2, <2>2, <2>3 DEF PageShape
  <2>6. ServerShape'
    BY <1>1, <1>2, <2>1, RegisterOnceTyped DEF ServerShape
  <2>7. Remembered'
    BY <1>2, <2>1, <2>4 DEF Remembered
  <2>8. SaysWhatLanded'
    BY <1>2, <2>1, <2>2, <2>3, <2>4 DEF SaysWhatLanded
  <2> QED BY <1>2, <2>1, <2>3, <2>5, <2>6, <2>7, <2>8, TxStays, OffChain
<1>3. CASE FailsBefore(FALSE)
  BY <1>1, <1>3, FailingBefore
<1> QED BY <1>2, <1>3 DEF BuiltAll

LEMMA CheckKeeps ==
    ASSUME LaunchInv, Check
    PROVE  LaunchInv'
<1>1. UNCHANGED outside /\ page.pc = "check" /\ job # None
  BY DEF Check, LaunchInv, PageShape
<1>2. CASE Goes("sign") /\ UNCHANGED <<tx, job, store, reg, faults>>
  <2>1. page \in PageRec /\ page.conf \subseteq Landed /\ page.todo # <<>> /\ page.pass < Passes
    BY <1>1 DEF LaunchInv, PageShape, SeenTrue
  <2>2. page' \in PageRec /\ page'.pc = "sign" /\ page'.conf = page.conf /\ page'.todo = page.todo /\ page'.pass = page.pass
    BY <2>1, <1>2 DEF Goes, PageRec, PagePc
  <2> QED BY <2>1, <2>2, <1>1, <1>2, TxStays, PageMoves
<1>3. CASE FailsSending(FALSE, FALSE) /\ UNCHANGED <<tx, faults>>
  BY <1>1, <1>3, TxStays, FailingSending
<1>4. CASE Fault /\ FailsSending(FALSE, TRUE) /\ UNCHANGED tx
  BY <1>1, <1>4, TxStays, FailingSending
<1> QED BY <1>2, <1>3, <1>4 DEF Check

\* What is signed is a transaction of the plan, and has not landed.
LEMMA SignedKeeps ==
    ASSUME LaunchInv, page.pc = "sign", NEW t \in Tx, NEW st \in {"signed", "live"}, Signed(t, st)
    PROVE  TxKeeps
<1>1. page.todo \in Seq(Loads) /\ page.todo # <<>> /\ tx \in [Tx -> TxRec]
  BY DEF LaunchInv, PageShape, ChainShape, PageRec
<1>2. Head(page.todo) \in Wholes
  BY <1>1 DEF Loads
<1>3. [stages |-> Head(page.todo), st |-> st, seen |-> TRUE] \in TxRec
  BY <1>2 DEF TxRec, Outcome
<1> QED BY <1>1, <1>3 DEF Signed, TxKeeps

LEMMA SignKeeps ==
    ASSUME LaunchInv, Sign
    PROVE  LaunchInv'
<1>1. UNCHANGED outside /\ page.pc = "sign" /\ job # None
  BY DEF Sign, LaunchInv, PageShape
<1>2. page \in PageRec /\ page.conf \subseteq Landed /\ page.todo # <<>> /\ page.pass < Passes
  BY <1>1 DEF LaunchInv, PageShape, SeenTrue
<1>3. PICK t \in Tx :
       \/ /\ page' = [page EXCEPT !.pc = "send", !.cur = t] /\ Signed(t, "signed")
          /\ UNCHANGED <<job, store, reg, faults>>
       \/ /\ page' = [page EXCEPT !.pc = "confirm", !.cur = t] /\ Signed(t, "live")
          /\ UNCHANGED <<job, store, reg, faults>>
       \/ /\ Fault /\ FailsSending(FALSE, FALSE)
          /\ Signed(t, "live") \/ UNCHANGED tx
  BY DEF Sign
<1>4. CASE /\ page' = [page EXCEPT !.pc = "send", !.cur = t] /\ Signed(t, "signed")
           /\ UNCHANGED <<job, store, reg, faults>>
  <2>1. TxKeeps
    BY <1>1, <1>4, SignedKeeps
  <2>2. /\ page' \in PageRec /\ page'.pc = "send" /\ page'.conf = page.conf
        /\ page'.todo = page.todo /\ page'.pass = page.pass /\ page'.cur \in Tx
    BY <1>2, <1>4 DEF PageRec, PagePc
  <2> QED BY <2>1, <2>2, <1>1, <1>2, <1>4, PageMoves
<1>5. CASE /\ page' = [page EXCEPT !.pc = "confirm", !.cur = t] /\ Signed(t, "live")
           /\ UNCHANGED <<job, store, reg, faults>>
  <2>1. TxKeeps
    BY <1>1, <1>5, SignedKeeps
  <2>2. /\ page' \in PageRec /\ page'.pc = "confirm" /\ page'.conf = page.conf
        /\ page'.todo = page.todo /\ page'.pass = page.pass /\ page'.cur \in Tx
    BY <1>2, <1>5 DEF PageRec, PagePc
  <2> QED BY <2>1, <2>2, <1>1, <1>2, <1>5, PageMoves
<1>6. CASE /\ Fault /\ FailsSending(FALSE, FALSE)
           /\ Signed(t, "live") \/ UNCHANGED tx
  <2>1. TxKeeps
    BY <1>1, <1>6, SignedKeeps, TxStays
  <2> QED BY <2>1, <1>1, <1>6, FailingSending
<1> QED BY <1>3, <1>4, <1>5, <1>6

LEMMA BecomesKeeps ==
    ASSUME LaunchInv, page.cur \in Tx, NEW st \in Outcome, st # "landed" \/ st = Cur.st, Becomes(st)
    PROVE  TxKeeps
BY DEF LaunchInv, ChainShape, Becomes, Cur, TxKeeps, TxRec

LEMMA UnsentKeeps ==
    ASSUME LaunchInv, page.cur \in Tx, Unsent
    PROVE  TxKeeps
<1> DEFINE st == IF Cur.st = "signed" THEN "expired" ELSE Cur.st
<1>1. tx[page.cur] \in TxRec
  BY DEF LaunchInv, ChainShape
<1>2. st \in Outcome /\ (st # "landed" \/ st = Cur.st)
  BY <1>1 DEF TxRec, Outcome, Cur
<1>3. Becomes(st)
  BY DEF Unsent
<1> HIDE DEF st
<1> QED BY <1>2, <1>3, BecomesKeeps

LEMMA SendKeeps ==
    ASSUME LaunchInv, Send
    PROVE  LaunchInv'
<1>1. UNCHANGED outside /\ UNCHANGED <<job, store, reg, faults>> /\ page.pc = "send" /\ job # None
      /\ Goes("confirm")
  BY DEF Send, LaunchInv, PageShape
<1>2. page \in PageRec /\ page.conf \subseteq Landed /\ page.todo # <<>> /\ page.pass < Passes /\ page.cur \in Tx
  BY <1>1 DEF LaunchInv, PageShape, SeenTrue
<1>3. TxKeeps
  <2>1. CASE Becomes("live")
    BY <2>1, <1>2, BecomesKeeps DEF Outcome
  <2>2. CASE UNCHANGED tx
    BY <2>2, TxStays
  <2> QED BY <2>1, <2>2 DEF Send
<1>4. /\ page' \in PageRec /\ page'.pc = "confirm" /\ page'.conf = page.conf
      /\ page'.todo = page.todo /\ page'.pass = page.pass /\ page'.cur \in Tx
  BY <1>1, <1>2 DEF Goes, PageRec, PagePc
<1> QED BY <1>1, <1>2, <1>3, <1>4, PageMoves

LEMMA SendBusyKeeps ==
    ASSUME LaunchInv, SendBusy
    PROVE  LaunchInv'
<1>1. UNCHANGED outside /\ Fault /\ page.pc = "send" /\ job # None
  BY DEF SendBusy, LaunchInv, PageShape
<1>2. page \in PageRec /\ page.conf \subseteq Landed /\ page.todo # <<>> /\ page.pass < Passes /\ page.cur \in Tx
  BY <1>1 DEF LaunchInv, PageShape, SeenTrue
<1>3. TxKeeps
  <2>1. CASE Becomes("live")
    BY <2>1, <1>2, BecomesKeeps DEF Outcome
  <2>2. CASE UNCHANGED tx
    BY <2>2, TxStays
  <2>3. CASE Unsent
    BY <2>3, <1>2, UnsentKeeps
  <2> QED BY <2>1, <2>2, <2>3 DEF SendBusy
<1>4. CASE UNCHANGED <<page, job, store, reg>>
  BY <1>1, <1>2, <1>3, <1>4, PageMoves
<1>5. CASE FailsSending(TRUE, FALSE)
  BY <1>1, <1>3, <1>5, FailingSending
<1> QED BY <1>4, <1>5 DEF SendBusy

LEMMA SendRefusedKeeps ==
    ASSUME LaunchInv, SendRefused
    PROVE  LaunchInv'
<1>1. UNCHANGED outside /\ page.pc = "send" /\ job # None /\ (UNCHANGED faults \/ Fault)
      /\ Unsent /\ FailsSending(FALSE, FALSE)
  BY DEF SendRefused, LaunchInv, PageShape
<1>2. page.cur \in Tx
  BY <1>1 DEF LaunchInv, PageShape
<1>3. TxKeeps
  BY <1>1, <1>2, UnsentKeeps
<1> QED BY <1>1, <1>3, FailingSending

LEMMA ConfirmedKeeps ==
    ASSUME LaunchInv, Confirmed
    PROVE  LaunchInv'
<1> DEFINE conf == page.conf \cup Cur.stages
<1>1. UNCHANGED outside /\ UNCHANGED <<tx, reg, faults>> /\ page.pc = "confirm" /\ job # None
      /\ Cur.st = "landed"
  BY DEF Confirmed, LaunchInv, PageShape
<1>2. page \in PageRec /\ page.conf \subseteq Landed /\ page.todo # <<>> /\ page.pass < Passes /\ page.cur \in Tx
      /\ tx \in [Tx -> TxRec]
  BY <1>1 DEF LaunchInv, PageShape, SeenTrue, ChainShape
<1>3. Cur.stages \in Wholes /\ Cur.stages \subseteq Landed
  BY <1>1, <1>2 DEF Cur, TxRec, LaunchInv, SeenTrue
<1>4. conf \in Wholes /\ conf \subseteq Landed
  <2>1. page.conf \in Wholes
    BY <1>2 DEF PageRec
  <2> QED BY <2>1, <1>2, <1>3, JoinWhole
<1>5. CASE Len(page.todo) > 1
  <2>1. page' = [page EXCEPT !.pc = "check", !.todo = Tail(@), !.cur = None, !.conf = conf]
        /\ UNCHANGED <<job, store>>
    BY <1>5 DEF Confirmed
  <2>2. Tail(page.todo) \in Seq(Loads) /\ Tail(page.todo) # <<>>
    <3>1. page.todo \in Seq(Loads)
      BY <1>2 DEF PageRec
    <3> QED BY <3>1, <1>5, TailLeft
  <2> HIDE DEF conf
  <2>3. /\ page' \in PageRec /\ page'.pc = "check" /\ page'.conf = conf
        /\ page'.todo # <<>> /\ page'.pass < Passes
    BY <1>2, <1>4, <2>1, <2>2 DEF PageRec, PagePc
  <2> QED BY <1>1, <1>4, <2>1, <2>3, TxStays, PageMoves
<1>6. CASE ~(Len(page.todo) > 1)
  <2>1. /\ page' = [At("build") EXCEPT !.pass = page.pass + 1]
        /\ job' = Recorded(job, conf) /\ store' = Saved(job')
    BY <1>6 DEF Confirmed
  <2>2. GoodJob(Recorded(job, conf))
    <3> HIDE DEF conf
    <3> QED BY <1>1, <1>4, JobGood, RecordedGood
  <2>3. At("build") \in PageRec /\ At("build").pc = "build" /\ At("build").conf = {}
    BY AtTyped DEF PagePc
  <2>4. page.pass + 1 \in 0..Passes
    BY <1>2, LaunchAssumption DEF PageRec
  <2>5. page' \in PageRec /\ page'.pc = "build" /\ page'.conf = {}
    BY <2>1, <2>3, <2>4 DEF PageRec
  <2> HIDE DEF conf
  <2> QED BY <1>1, <2>1, <2>2, <2>5, Recording
<1> QED BY <1>5, <1>6

LEMMA NotConfirmedKeeps ==
    ASSUME LaunchInv, NotConfirmed
    PROVE  LaunchInv'
<1>1. UNCHANGED outside /\ UNCHANGED tx /\ page.pc = "confirm" /\ job # None
      /\ (UNCHANGED faults \/ Fault)
      /\ (FailsSending(FALSE, FALSE) \/ FailsSending(TRUE, FALSE))
  BY DEF NotConfirmed, LaunchInv, PageShape
<1> QED BY <1>1, TxStays, FailingSending

LEMMA LeaveKeeps ==
    ASSUME LaunchInv, Leave
    PROVE  LaunchInv'
<1> USE DEF LaunchInv
<1>1. UNCHANGED outside /\ UNCHANGED <<store, faults>> /\ page' = At("left") /\ job' = None
      /\ reg' \in {NoReg, reg}
  BY DEF Leave
<1>2. UNCHANGED <<plan, times, paused, server>> /\ UNCHANGED chain
  BY <1>1 DEF outside, chain
<1>3. /\ Landed' = Landed /\ Wholes' = Wholes /\ JobRec' = JobRec /\ SavedRec' = SavedRec
      /\ PageRec' = PageRec
  BY <1>2, LandedStays
<1>4. TxKeeps
  <2>1. CASE page.pc = "send" /\ Unsent
    BY <2>1, UnsentKeeps DEF PageShape
  <2>2. CASE UNCHANGED tx
    BY <2>2, TxStays
  <2> QED BY <2>1, <2>2 DEF Leave
<1>5. page' \in PageRec /\ page'.pc = "left" /\ page'.conf = {}
  BY <1>1, AtTyped DEF PagePc
<1>6. PageShape'
  BY <1>1, <1>3, <1>5 DEF PageShape
<1>7. ServerShape'
  <2>1. NoReg \in [left : 0..Attempts, own : BOOLEAN]
    BY LaunchAssumption DEF NoReg
  <2> QED BY <1>1, <1>2, <2>1 DEF ServerShape
<1>8. Remembered'
  BY <1>1, <1>5 DEF Remembered
<1>9. SaysWhatLanded'
  BY <1>1, <1>2, <1>3, <1>5 DEF SaysWhatLanded
<1> QED BY <1>2, <1>4, <1>5, <1>6, <1>7, <1>8, <1>9, OffChain

-----------------------------------------------------------------------------
(* The steps of the registration, of the coin's page, and of the chain.    *)

\* What the server lists, it lists for good.
ServerKeeps == server' \in {"none", "native", "external"} /\ (server = "native" => server' = "native")

LEMMA RegisterEndsKeeps ==
    ASSUME LaunchInv, UNCHANGED chain, UNCHANGED tx, UNCHANGED faults \/ Fault, ServerKeeps,
           NEW registered \in BOOLEAN, registered => server' = "native", RegisterEnds(registered)
    PROVE  LaunchInv'
<1> USE DEF LaunchInv
<1>1. UNCHANGED <<plan, times, paused>>
  BY DEF chain
<1>2. /\ Landed' = Landed /\ Wholes' = Wholes /\ JobRec' = JobRec /\ SavedRec' = SavedRec
      /\ PageRec' = PageRec
  BY <1>1, LandedStays
<1>3. None \notin SavedRec /\ None \notin JobRec
  BY JobsAreJobs
<1>4. store' \in SavedRec \cup {None}
      /\ (store' = None => store = None \/ server' = "native")
      /\ (store' # None => store'.done \subseteq Landed /\ (store'.registered => server' = "native"))
  <2>1. CASE registered /\ store # None
    <3>1. store \in SavedRec /\ store.done \subseteq Landed
      BY <2>1 DEF PageShape, SaysWhatLanded
    <3>2. store' \in {None, [store EXCEPT !.registered = TRUE]}
      BY <2>1 DEF RegisterEnds, MarkRegistered
    <3>3. [store EXCEPT !.registered = TRUE] \in SavedRec
          /\ [store EXCEPT !.registered = TRUE].done = store.done
      BY <3>1 DEF SavedRec
    <3> QED BY <2>1, <3>1, <3>2, <3>3
  <2>2. CASE registered /\ store = None
    BY <2>2 DEF RegisterEnds, MarkRegistered
  <2>3. CASE ~registered
    BY <2>3 DEF RegisterEnds, PageShape, SaysWhatLanded, ServerKeeps
  <2> QED BY <2>1, <2>2, <2>3
<1>5. reg' = NoReg /\ NoReg \in [left : 0..Attempts, own : BOOLEAN]
  BY LaunchAssumption DEF RegisterEnds, NoReg
<1>6. ServerShape'
  BY <1>5, FaultsTyped DEF ServerShape, ServerKeeps
<1>7. CASE page.pc = "register"
  <2>1. page' = At("live") /\ job' = None
    BY <1>7 DEF RegisterEnds
  <2>2. page' \in PageRec /\ page'.pc = "live" /\ page'.conf = {}
    BY <2>1, AtTyped DEF PagePc
  <2>3. PageShape'
    BY <1>2, <1>4, <2>1, <2>2 DEF PageShape
  <2>4. Remembered'
    BY <2>1, <2>2 DEF Remembered
  <2>5. SaysWhatLanded'
    <3>1. plan' \subseteq Landed'
      BY <1>1, <1>2, <1>7 DEF SaysWhatLanded
    <3>2. server' = "native" \/ (store' # None /\ ~store'.registered)
      <4>1. CASE server' = "native"
        BY <4>1
      <4>2. CASE server' # "native"
        <5>1. server # "native" /\ ~registered /\ store' = store
          BY <4>2 DEF ServerKeeps, RegisterEnds
        <5>2. job # None /\ job.done # {}
          <6>1. plan \subseteq job.done /\ job # None
            BY <1>7 DEF Remembered, PageShape
          <6> QED BY <6>1, PlanShape
        <5>3. store # None
          BY <5>1, <5>2 DEF Remembered
        <5> QED BY <5>1, <5>3 DEF SaysWhatLanded
      <4> QED BY <4>1, <4>2
    <3> QED BY <1>2, <1>4, <2>1, <2>2, <3>1, <3>2 DEF SaysWhatLanded
  <2> QED BY <1>6, <2>2, <2>3, <2>4, <2>5, TxStays, OffChain
<1>8. CASE page.pc # "register"
  <2>1. UNCHANGED page
        /\ job' = IF registered /\ reg.own /\ job # None THEN [job EXCEPT !.registered = TRUE] ELSE job
    BY <1>8 DEF RegisterEnds
  <2>2. /\ job' \in JobRec \cup {None} /\ (job' = None <=> job = None)
        /\ (job' # None => job'.done = job.done /\ job'.pending = job.pending
                           /\ (job'.registered => job.registered \/ server' = "native"))
    <3>1. CASE registered /\ reg.own /\ job # None
      <4>1. job \in JobRec /\ job' = [job EXCEPT !.registered = TRUE]
        BY <2>1, <3>1 DEF PageShape
      <4>2. job' \in JobRec /\ job'.done = job.done /\ job'.pending = job.pending
        BY <4>1 DEF JobRec
      <4> QED BY <1>3, <3>1, <4>2
    <3>2. CASE ~(registered /\ reg.own /\ job # None)
      BY <2>1, <3>2 DEF PageShape
    <3> QED BY <3>1, <3>2
  <2>3. PageShape'
    BY <1>2, <1>4, <2>1, <2>2 DEF PageShape
  <2>4. Remembered'
    BY <1>4, <1>8, <2>1, <2>2 DEF Remembered, ServerKeeps
  <2>5. SaysWhatLanded'
    <3>1. page.pc = "live" => server' = "native" \/ (store' # None /\ ~store'.registered)
      <4>1. CASE registered
        BY <4>1
      <4>2. CASE ~registered
        BY <4>2 DEF RegisterEnds, SaysWhatLanded, ServerKeeps
      <4> QED BY <4>1, <4>2
    <3> QED BY <1>1, <1>2, <1>4, <2>1, <2>2, <3>1 DEF SaysWhatLanded, ServerKeeps
  <2>6. page'.conf \subseteq Landed
    BY <2>1 DEF SeenTrue
  <2>7. page'.pc = "progress" /\ page'.verdict = "landed" =>
               job'.pending \in Tx /\ tx'[job'.pending].st = "landed"
    BY <2>1, <2>2 DEF SeenTrue, PageShape
  <2> QED BY <1>6, <2>3, <2>4, <2>5, <2>6, <2>7, TxStays, OffChain
<1> QED BY <1>7, <1>8

\* The server and the registration in flight move, the page and the jobs do not.
LEMMA ServerMoves ==
    ASSUME LaunchInv, UNCHANGED chain, UNCHANGED <<tx, page, job, store>>,
           UNCHANGED faults \/ Fault, ServerKeeps, reg' \in [left : 0..Attempts, own : BOOLEAN]
    PROVE  LaunchInv'
<1> USE DEF LaunchInv
<1>1. UNCHANGED <<plan, times, paused>>
  BY DEF chain
<1>2. /\ Landed' = Landed /\ Wholes' = Wholes /\ JobRec' = JobRec /\ SavedRec' = SavedRec
      /\ PageRec' = PageRec
  BY <1>1, LandedStays
<1>3. PageShape'
  BY <1>2 DEF PageShape
<1>4. ServerShape'
  BY FaultsTyped DEF ServerShape, ServerKeeps
<1>5. Remembered'
  BY <1>1 DEF Remembered, ServerKeeps
<1>6. SaysWhatLanded'
  BY <1>1, <1>2 DEF SaysWhatLanded, ServerKeeps
<1>7. page'.conf \subseteq Landed /\
      (page'.pc = "progress" /\ page'.verdict = "landed" =>
               job'.pending \in Tx /\ tx'[job'.pending].st = "landed")
  BY DEF SeenTrue
<1> QED BY <1>3, <1>4, <1>5, <1>6, <1>7, TxStays, OffChain

LEMMA RegistersKeeps ==
    ASSUME LaunchInv, Registers
    PROVE  LaunchInv'
BY RegisterEndsKeeps DEF Registers, ServerKeeps

LEMMA RegisterAgainKeeps ==
    ASSUME LaunchInv, RegisterAgain
    PROVE  LaunchInv'
<1>1. /\ UNCHANGED chain /\ UNCHANGED tx /\ (UNCHANGED faults \/ Fault) /\ ServerKeeps
      /\ reg \in [left : 0..Attempts, own : BOOLEAN]
  BY DEF RegisterAgain, ServerKeeps, LaunchInv, ServerShape
<1>2. CASE reg.left > 1
  <2>1. reg' = [reg EXCEPT !.left = @ - 1] /\ UNCHANGED <<page, job, store>>
    BY <1>2 DEF RegisterAgain
  <2>2. reg.left - 1 \in 0..Attempts
    BY <1>1, <1>2, LaunchAssumption
  <2>3. reg' \in [left : 0..Attempts, own : BOOLEAN]
    BY <1>1, <2>1, <2>2
  <2> QED BY <1>1, <2>1, <2>3, ServerMoves
<1>3. CASE ~(reg.left > 1)
  <2>1. RegisterEnds(FALSE)
    BY <1>3 DEF RegisterAgain
  <2> QED BY <1>1, <2>1, RegisterEndsKeeps
<1> QED BY <1>2, <1>3

LEMMA RegisterRefusedKeeps ==
    ASSUME LaunchInv, RegisterRefused
    PROVE  LaunchInv'
<1>1. ServerKeeps
  BY DEF RegisterRefused, Tracked, ServerKeeps, LaunchInv, ServerShape
<1> QED BY <1>1, RegisterEndsKeeps DEF RegisterRefused

LEMMA AlreadyRegisteredKeeps ==
    ASSUME LaunchInv, AlreadyRegistered
    PROVE  LaunchInv'
<1> USE DEF LaunchInv
<1>1. UNCHANGED outside /\ UNCHANGED <<tx, store, reg, faults>>
      /\ page.pc = "register" /\ page' = At("live") /\ job' = None /\ job.registered /\ job # None
  BY DEF AlreadyRegistered, PageShape
<1>2. UNCHANGED <<plan, times, paused, server>> /\ UNCHANGED chain
  BY <1>1 DEF outside, chain
<1>3. /\ Landed' = Landed /\ Wholes' = Wholes /\ JobRec' = JobRec /\ SavedRec' = SavedRec
      /\ PageRec' = PageRec
  BY <1>2, LandedStays
<1>4. page' \in PageRec /\ page'.pc = "live" /\ page'.conf = {}
  BY <1>1, AtTyped DEF PagePc
<1>5. PageShape'
  BY <1>1, <1>3, <1>4 DEF PageShape
<1>6. ServerShape'
  BY <1>1, <1>2 DEF ServerShape
<1>7. Remembered'
  BY <1>1, <1>4 DEF Remembered
<1>8. SaysWhatLanded'
  <2>1. server = "native" /\ plan \subseteq Landed
    BY <1>1 DEF SaysWhatLanded
  <2> QED BY <1>1, <1>2, <1>3, <1>4, <2>1 DEF SaysWhatLanded
<1> QED BY <1>1, <1>2, <1>4, <1>5, <1>6, <1>7, <1>8, TxStays, OffChain

LEMMA VisitCoinKeeps ==
    ASSUME LaunchInv, VisitCoin
    PROVE  LaunchInv'
<1>1. UNCHANGED chain /\ UNCHANGED <<tx, page, job, store, faults>>
  BY DEF VisitCoin
<1>2. ServerKeeps
  BY DEF VisitCoin, Tracked, ServerKeeps, LaunchInv, ServerShape
<1>3. reg' \in [left : 0..Attempts, own : BOOLEAN]
  BY RegisterOnceTyped DEF VisitCoin, LaunchInv, ServerShape
<1> QED BY <1>1, <1>2, <1>3, ServerMoves

LEMMA PruneKeeps ==
    ASSUME LaunchInv, Prune
    PROVE  LaunchInv'
<1> USE DEF LaunchInv
<1>1. UNCHANGED outside /\ UNCHANGED <<tx, page, job, reg, faults>> /\ store' = None
      /\ server = "native"
  BY DEF Prune, SaysWhatLanded
<1>2. UNCHANGED <<plan, times, paused, server>> /\ UNCHANGED chain
  BY <1>1 DEF outside, chain
<1>3. /\ Landed' = Landed /\ Wholes' = Wholes /\ JobRec' = JobRec /\ SavedRec' = SavedRec
      /\ PageRec' = PageRec
  BY <1>2, LandedStays
<1>4. PageShape'
  BY <1>1, <1>3 DEF PageShape
<1>5. ServerShape'
  BY <1>1, <1>2 DEF ServerShape
<1>6. Remembered'
  BY <1>1, <1>2 DEF Remembered
<1>7. SaysWhatLanded'
  BY <1>1, <1>2, <1>3 DEF SaysWhatLanded
<1>8. page'.conf \subseteq Landed /\
      (page'.pc = "progress" /\ page'.verdict = "landed" =>
               job'.pending \in Tx /\ tx'[job'.pending].st = "landed")
  BY <1>1 DEF SeenTrue
<1> QED BY <1>1, <1>2, <1>4, <1>5, <1>6, <1>7, <1>8, TxStays, OffChain

\* The chain moves, and the page has not looked yet.
LEMMA ChainMoves ==
    ASSUME LaunchInv, UNCHANGED <<plan, page, job, store, reg, server>>,
           UNCHANGED faults \/ Fault, paused' \in BOOLEAN, times' \in [Stage -> Nat],
           Landed \subseteq Landed', tx' \in [Tx -> TxRec],
           \A t \in Tx : tx'[t].st = "landed" => tx'[t].stages \subseteq Landed',
           \A t \in Tx : tx[t].st = "landed" => tx'[t].st = "landed",
           StagesOnce'
    PROVE  LaunchInv'
<1> USE DEF LaunchInv
<1>1. /\ Wholes' = Wholes /\ JobRec' = JobRec /\ SavedRec' = SavedRec
      /\ PageRec' = PageRec /\ TxRec' = TxRec
  BY DEF Wholes, Whole, Loads, JobRec, SavedRec, PageRec, TxRec
<1>2. ChainShape'
  BY <1>1 DEF ChainShape
<1>3. PageShape'
  BY <1>1 DEF PageShape
<1>4. ServerShape'
  BY FaultsTyped DEF ServerShape
<1>5. SeenTrue'
  BY DEF SeenTrue
<1>6. Remembered'
  BY DEF Remembered
<1>7. SaysWhatLanded'
  BY DEF SaysWhatLanded
<1> QED BY <1>2, <1>3, <1>4, <1>5, <1>6, <1>7

\* What lands is whole, and nothing of it was there before: but for its dev buy, which is there
\* only with the coin.
LEMMA LandKeeps ==
    ASSUME LaunchInv, NEW t \in Tx, Land(t)
    PROVE  LaunchInv'
<1> USE DEF LaunchInv
<1>1. /\ UNCHANGED <<plan, paused, page, job, store, reg, server, faults>> /\ tx[t].st = "live"
      /\ tx \in [Tx -> TxRec] /\ times \in [Stage -> Nat] /\ paused \in BOOLEAN
      /\ tx[t].stages \in Wholes /\ plan \subseteq Stage
  BY PlanShape DEF Land, ChainShape, TxRec
<1>2. CASE Executes(tx[t].stages, Landed)
  <2> DEFINE new == tx[t].stages
  <2>1. /\ times' = [s \in Stage |-> IF s \in new THEN times[s] + 1 ELSE times[s]]
        /\ tx' = [tx EXCEPT ![t].st = "landed", ![t].seen = FALSE]
    BY <1>2 DEF Land
  <2>2. new \subseteq Stage /\ Whole(new)
    BY <1>1 DEF Wholes
  <2>3. times' \in [Stage -> Nat]
    BY <1>1, <2>1
  <2>4. Landed' = Landed \cup new
    <3> HIDE DEF new
    <3> QED BY <1>1, <2>1, <2>2 DEF Landed
  <2>5. tx' \in [Tx -> TxRec] /\ tx'[t].stages = new
        /\ \A u \in Tx : u # t => tx'[u] = tx[u]
    BY <1>1, <2>1 DEF TxRec, Outcome
  <2>6. \A u \in Tx : tx'[u].st = "landed" => tx'[u].stages \subseteq Landed'
    BY <2>4, <2>5 DEF SeenTrue
  <2>7. \A u \in Tx : tx[u].st = "landed" => tx'[u].st = "landed"
    BY <1>1, <2>5
  <2>8. new \cap Landed = {}
    BY <1>2, <2>2 DEF Executes, Whole, StagesOnce
  <2>9. StagesOnce'
    <3>1. \A s \in Stage : times'[s] <= 1
      <4> SUFFICES ASSUME NEW s \in Stage PROVE times'[s] <= 1
        OBVIOUS
      <4>1. CASE s \in new
        <5>1. times[s] = 0
          BY <2>8, <4>1, <1>1 DEF Landed
        <5> QED BY <2>1, <4>1, <5>1
      <4>2. CASE s \notin new
        BY <2>1, <4>2 DEF StagesOnce
      <4> QED BY <4>1, <4>2
    <3>2. "launch" \in Landed' => plan \ {"lock"} \subseteq Landed'
      <4>1. CASE "launch" \in Landed
        BY <2>4, <4>1 DEF StagesOnce
      <4>2. CASE "launch" \in new
        BY <1>1, <1>2, <2>2, <2>4, <4>2 DEF Executes, Whole, Stage
      <4> QED BY <2>4, <4>1, <4>2
    <3>3. Landed' \cap {"buy", "lock"} # {} => "launch" \in Landed'
      BY <1>2, <2>4 DEF Executes, StagesOnce
    <3> QED BY <1>1, <3>1, <3>2, <3>3 DEF StagesOnce
  <2> QED BY <1>1, <2>3, <2>4, <2>5, <2>6, <2>7, <2>9, ChainMoves
<1>3. CASE ~Executes(tx[t].stages, Landed)
  <2>1. tx' = [tx EXCEPT ![t].st = "failed", ![t].seen = FALSE] /\ UNCHANGED times
    BY <1>3 DEF Land
  <2>2. tx' \in [Tx -> TxRec] /\ tx'[t].st = "failed" /\ \A u \in Tx : u # t => tx'[u] = tx[u]
    BY <1>1, <2>1 DEF TxRec, Outcome
  <2>3. Landed' = Landed /\ StagesOnce'
    BY <1>1, <2>1 DEF Landed, StagesOnce
  <2> QED BY <1>1, <2>1, <2>2, <2>3, ChainMoves DEF SeenTrue
<1> QED BY <1>2, <1>3

LEMMA SeeKeeps ==
    ASSUME LaunchInv, NEW t \in Tx, See(t)
    PROVE  LaunchInv'
<1> USE DEF LaunchInv
<1>1. /\ UNCHANGED <<plan, times, paused, page, job, store, reg, server, faults>>
      /\ tx \in [Tx -> TxRec] /\ times \in [Stage -> Nat] /\ paused \in BOOLEAN
      /\ tx' = [tx EXCEPT ![t].seen = TRUE]
  BY DEF See, ChainShape
<1>2. tx' \in [Tx -> TxRec] /\ \A u \in Tx : tx'[u].st = tx[u].st /\ tx'[u].stages = tx[u].stages
  BY <1>1 DEF TxRec
<1>3. Landed' = Landed /\ StagesOnce'
  BY <1>1 DEF Landed, StagesOnce
<1> QED BY <1>1, <1>2, <1>3, ChainMoves DEF SeenTrue

LEMMA ExpireKeeps ==
    ASSUME LaunchInv, NEW t \in Tx, Expire(t)
    PROVE  LaunchInv'
<1> USE DEF LaunchInv
<1>1. /\ UNCHANGED <<plan, times, paused, page, job, store, reg, server>> /\ Fault
      /\ tx \in [Tx -> TxRec] /\ times \in [Stage -> Nat] /\ paused \in BOOLEAN
      /\ tx[t].st \in {"signed", "live"} /\ tx' = [tx EXCEPT ![t].st = "expired"]
  BY DEF Expire, ChainShape
<1>2. tx' \in [Tx -> TxRec] /\ tx'[t].st = "expired" /\ \A u \in Tx : u # t => tx'[u] = tx[u]
  BY <1>1 DEF TxRec, Outcome
<1>3. Landed' = Landed /\ StagesOnce'
  BY <1>1 DEF Landed, StagesOnce
<1> QED BY <1>1, <1>2, <1>3, ChainMoves DEF SeenTrue

LEMMA PausesKeep ==
    ASSUME LaunchInv, Pause \/ Unpause
    PROVE  LaunchInv'
<1> USE DEF LaunchInv
<1>1. /\ UNCHANGED <<plan, times, tx, page, job, store, reg, server>>
      /\ (UNCHANGED faults \/ Fault) /\ paused' \in BOOLEAN
      /\ tx \in [Tx -> TxRec] /\ times \in [Stage -> Nat]
  BY DEF Pause, Unpause, ChainShape
<1>2. Landed' = Landed /\ StagesOnce' /\ TxRec' = TxRec
  BY <1>1, LandedStays DEF Landed, StagesOnce
<1> QED BY <1>1, <1>2, ChainMoves DEF SeenTrue

LEMMA InitAccounted == Init => LaunchInv
<1> SUFFICES ASSUME Init PROVE LaunchInv
  OBVIOUS
<1>1. Landed = {} /\ plan \in Plans
  BY DEF Init, Landed
<1>2. {} \in Wholes
  BY DEF Wholes, Whole
<1>3. ChainShape
  <2>1. Free \in TxRec
    BY <1>2 DEF Free, TxRec, Outcome
  <2> QED BY <2>1 DEF Init, ChainShape
<1>4. page \in PageRec /\ page.pc = "idle" /\ page.conf = {} /\ job = None /\ store = None
  BY AtTyped DEF Init, PagePc
<1>5. PageShape
  BY <1>4 DEF PageShape
<1>6. ServerShape
  BY LaunchAssumption DEF Init, ServerShape, NoReg
<1>7. SeenTrue
  BY <1>4 DEF SeenTrue, Init, Free
<1>8. Remembered
  BY <1>4 DEF Remembered
<1>9. StagesOnce
  BY <1>1 DEF StagesOnce, Init
<1>10. SaysWhatLanded
  BY <1>4 DEF SaysWhatLanded
<1> QED BY <1>3, <1>5, <1>6, <1>7, <1>8, <1>9, <1>10 DEF LaunchInv

-----------------------------------------------------------------------------
(* The theorems.                                                           *)

LEMMA StutterAccounted ==
    ASSUME LaunchInv, UNCHANGED vars
    PROVE  LaunchInv'
<1>1. UNCHANGED <<plan, times, tx, paused, page, job, store, reg, server, faults>>
  BY DEF vars
<1>2. /\ Landed' = Landed /\ Wholes' = Wholes /\ JobRec' = JobRec /\ SavedRec' = SavedRec
      /\ PageRec' = PageRec /\ TxRec' = TxRec
  BY <1>1, LandedStays
<1> QED BY <1>1, <1>2 DEF LaunchInv, ChainShape, PageShape, ServerShape, SeenTrue, Remembered,
                        StagesOnce, SaysWhatLanded

\* The inductive invariant of a launch, whatever fails and however often it is finished: what
\* it carries is whole, what it claims has landed, and what landed is saved or listed.
THEOREM LaunchAccounted == Spec => []LaunchInv
<1>1. LaunchInv /\ [Next]_vars => LaunchInv'
  <2> SUFFICES ASSUME LaunchInv, [Next]_vars PROVE LaunchInv'
    OBVIOUS
  <2>1. CASE Attempt
    BY <2>1, StartKeeps, FinishKeeps, ReadPendingKeeps, ReadProgressKeeps, CheckOpenKeeps,
       BuildKeeps, BuiltAllKeeps, CheckKeeps, SignKeeps, SendKeeps, SendBusyKeeps,
       SendRefusedKeeps, ConfirmedKeeps, NotConfirmedKeeps DEF Attempt
  <2>2. CASE Registration
    BY <2>2, RegistersKeeps, RegisterAgainKeeps, RegisterRefusedKeeps, AlreadyRegisteredKeeps
       DEF Registration
  <2>3. CASE Leave \/ VisitCoin \/ Prune \/ Pause \/ Unpause
    BY <2>3, LeaveKeeps, VisitCoinKeeps, PruneKeeps, PausesKeep
  <2>4. CASE \E t \in Tx : Land(t) \/ See(t) \/ Expire(t)
    BY <2>4, LandKeeps, SeeKeeps, ExpireKeeps
  <2>5. CASE UNCHANGED vars
    BY <2>5, StutterAccounted
  <2> QED BY <2>1, <2>2, <2>3, <2>4, <2>5 DEF Next
<1> QED BY <1>1, InitAccounted, PTL DEF Spec

\* However often transactions fail, expire, land unseen and are sent anew, no stage of a launch
\* is executed twice, and none out of order.
THEOREM NoStageTwice == Spec => []StagesOnce
<1>1. LaunchInv => StagesOnce
  BY DEF LaunchInv
<1> QED BY <1>1, LaunchAccounted, PTL

\* The page, the saved job and the site never claim of a launch what is not so.
THEOREM ClaimsAreTrue == Spec => []SaysWhatLanded
<1>1. LaunchInv => SaysWhatLanded
  BY DEF LaunchInv
<1> QED BY <1>1, LaunchAccounted, PTL

\* Every variable keeps its type, and no transaction is built without instructions, however the
\* packer joins what is left.
THEOREM TypeCorrect == Spec => []TypeOK
<1>1. LaunchInv => TypeOK
  <2> SUFFICES ASSUME LaunchInv PROVE TypeOK
    OBVIOUS
  <2>1. Wholes \subseteq SUBSET plan
    BY DEF Wholes
  <2>2. plan \in Plans /\ times \in [Stage -> Nat] /\ paused \in BOOLEAN
        /\ tx \in [Tx -> TxRec]
    BY DEF LaunchInv, ChainShape
  <2>3. TxRec \subseteq [stages : SUBSET plan, seen : BOOLEAN,
                         st : {"free", "signed", "live", "landed", "failed", "expired"}]
    BY <2>1 DEF TxRec, Outcome
  <2>4. page \in PageRec
    BY DEF LaunchInv, PageShape
  <2>5. \A i \in DOMAIN page.todo : page.todo[i] # {} /\ page.todo[i] \subseteq plan
    <3>1. page.todo \in Seq(Loads)
      BY <2>4 DEF PageRec
    <3>2. \A i \in DOMAIN page.todo : page.todo[i] \in Loads
      BY <3>1
    <3> QED BY <2>1, <3>2 DEF Loads
  <2>6. /\ page.pc \in PagePc /\ page.pass \in 0..Passes /\ page.cur \in Tx \cup {None}
        /\ page.again \in BOOLEAN /\ page.conf \subseteq plan
    BY <2>1, <2>4 DEF PageRec
  <2>7. /\ job = None \/ job \in [done : SUBSET plan, pending : Tx \cup {None}, registered : BOOLEAN]
        /\ store = None \/ store \in [done : SUBSET plan, registered : BOOLEAN]
    BY <2>1 DEF LaunchInv, PageShape, JobRec, SavedRec
  <2>8. tx \in [Tx -> [stages : SUBSET plan, seen : BOOLEAN,
                       st : {"free", "signed", "live", "landed", "failed", "expired"}]]
    <3> HIDE DEF TxRec
    <3> QED BY <2>2, <2>3
  <2> QED BY <2>2, <2>5, <2>6, <2>7, <2>8 DEF TypeOK, PagePc, LaunchInv, ServerShape
<1> QED BY <1>1, LaunchAccounted, PTL

-----------------------------------------------------------------------------
(* The figures of the ledger: more transactions never lower one.           *)

TxType  == [dust : BOOLEAN, paid : Nat, spent : Nat, bought : Nat, burned : Nat]
SumType == [paid : Nat, burned : Nat, buyback : Int, lamports : Int, amount : Nat]
ZeroSum == [paid |-> 0, burned |-> 0, buyback |-> 0, lamports |-> 0, amount |-> 0]

\* What is bought back, burned or not yet.
BoughtOf(sum) == sum.buyback + sum.lamports

StepOf(txs, places, sum, n) == IF n \in places THEN Q!Entry(sum, txs[n]) ELSE sum

\* The first n sums of the ledger.
SumsUpTo(txs, places, n, g) ==
    g = [k \in 0..n |-> IF k = 0 THEN ZeroSum ELSE StepOf(txs, places, g[k - 1], k)]

LEMMA SumsExist ==
    ASSUME NEW txs, NEW places, NEW n \in Nat
    PROVE  \E g : SumsUpTo(txs, places, n, g)
<1> DEFINE Bad == {k \in Nat : ~\E g : SumsUpTo(txs, places, k, g)}
<1> SUFFICES ASSUME Bad # {} PROVE FALSE
  OBVIOUS
<1>1. PICK m \in Bad : \A k \in Bad : m <= k
  BY LeastNatural
<1>2. CASE m = 0
  <2> DEFINE g == [k \in 0..0 |-> ZeroSum]
  <2>1. SumsUpTo(txs, places, 0, g)
    BY DEF SumsUpTo
  <2> QED BY <2>1, <1>2
<1>3. CASE m # 0
  <2>1. m - 1 \in Nat /\ m - 1 \notin Bad
    BY <1>1, <1>3
  <2>2. PICK g : SumsUpTo(txs, places, m - 1, g)
    BY <2>1
  <2> DEFINE h == [k \in 0..m |-> IF k = m THEN StepOf(txs, places, g[m - 1], m) ELSE g[k]]
  <2>3. ASSUME NEW k \in 0..m
        PROVE  h[k] = IF k = 0 THEN ZeroSum ELSE StepOf(txs, places, h[k - 1], k)
    <3>1. CASE k = m
      BY <3>1, <1>3
    <3>2. CASE k # m
      <4>1. k \in 0..(m - 1) /\ (k # 0 => k - 1 \in 0..m /\ k - 1 # m)
        BY <3>2
      <4>2. h[k] = g[k] /\ (k # 0 => h[k - 1] = g[k - 1])
        BY <4>1, <3>2
      <4>3. g[k] = IF k = 0 THEN ZeroSum ELSE StepOf(txs, places, g[k - 1], k)
        BY <4>1, <2>2 DEF SumsUpTo
      <4> QED BY <4>2, <4>3
    <3> QED BY <3>1, <3>2
  <2>4. SumsUpTo(txs, places, m, h)
    <3>1. h = [k \in 0..m |-> h[k]]
      OBVIOUS
    <3> HIDE DEF h
    <3> QED BY <3>1, <2>3 DEF SumsUpTo
  <2> QED BY <2>4
<1> QED BY <1>2, <1>3

LEMMA SumsAre ==
    ASSUME NEW txs, NEW places, Len(txs) \in Nat
    PROVE  SumsUpTo(txs, places, Len(txs), Q!Sums(txs, places))
<1>1. \E g : SumsUpTo(txs, places, Len(txs), g)
  BY SumsExist
<1>2. Q!Sums(txs, places) = CHOOSE g : SumsUpTo(txs, places, Len(txs), g)
  BY DEF Q!Sums, SumsUpTo, StepOf, ZeroSum
<1> QED BY <1>1, <1>2

LEMMA EntryAdds ==
    ASSUME NEW sum \in SumType, NEW t \in TxType
    PROVE  /\ Q!Entry(sum, t) \in SumType
           /\ Q!Entry(sum, t).paid = sum.paid + t.paid
           /\ Q!Entry(sum, t).burned = sum.burned + t.burned
           /\ BoughtOf(Q!Entry(sum, t)) = BoughtOf(sum) + t.spent
<1> DEFINE lamports == sum.lamports + t.spent
           amount   == sum.amount + t.bought
           take     == IF t.burned < amount THEN t.burned ELSE amount
           spent    == IF take > 0 THEN (lamports * take) \div amount ELSE 0
<1>1. /\ sum.paid \in Nat /\ sum.burned \in Nat /\ sum.buyback \in Int /\ sum.lamports \in Int
      /\ sum.amount \in Nat
      /\ t.paid \in Nat /\ t.burned \in Nat /\ t.spent \in Nat /\ t.bought \in Nat
  BY DEF SumType, TxType
<1>2. lamports \in Int /\ amount \in Nat
  BY <1>1
<1> HIDE DEF lamports, amount
<1>3. take \in Nat /\ take <= amount
  BY <1>1, <1>2
<1> HIDE DEF take
<1>4. spent \in Int
  <2>1. CASE take > 0
    <3>1. lamports * take \in Int
      BY <1>2, <1>3
    <3>2. amount \in Int /\ amount > 0
      BY <1>2, <1>3, <2>1
    <3>3. \A x, y \in Int : y > 0 => x \div y \in Int
      OBVIOUS
    <3> QED BY <3>1, <3>2, <3>3, <2>1
  <2>2. CASE ~(take > 0)
    BY <2>2
  <2> QED BY <2>1, <2>2
<1>5. Q!Entry(sum, t) = [paid |-> sum.paid + t.paid, burned |-> sum.burned + t.burned,
                         buyback |-> sum.buyback + spent, lamports |-> lamports - spent,
                         amount |-> amount - take]
  BY DEF Q!Entry, lamports, amount, take
<1> HIDE DEF spent
<1>6. lamports - spent \in Int /\ amount - take \in Nat /\ sum.buyback + spent \in Int
      /\ sum.paid + t.paid \in Nat /\ sum.burned + t.burned \in Nat
  BY <1>1, <1>2, <1>3, <1>4
<1>7. Q!Entry(sum, t) \in SumType
  BY <1>5, <1>6 DEF SumType
<1>8. BoughtOf(Q!Entry(sum, t)) = (sum.buyback + spent) + (lamports - spent)
  BY <1>5 DEF BoughtOf
<1>9. BoughtOf(Q!Entry(sum, t)) = sum.buyback + lamports
  BY <1>8, <1>1, <1>2, <1>4
<1>10. lamports = sum.lamports + t.spent
  BY DEF lamports
<1>11. BoughtOf(Q!Entry(sum, t)) = BoughtOf(sum) + t.spent
  BY <1>9, <1>10, <1>1 DEF BoughtOf
<1> QED BY <1>5, <1>7, <1>11

\* One sum is within another: nothing more is paid, burned or bought.
SumWithin(s, t) ==
    /\ s \in SumType /\ t \in SumType
    /\ s.paid <= t.paid /\ s.burned <= t.burned /\ BoughtOf(s) <= BoughtOf(t)

LEMMA SumsGrow ==
    ASSUME NEW txs \in Seq(TxType), NEW A, NEW B, A \subseteq B
    PROVE  SumWithin(Q!Sums(txs, A)[Len(txs)], Q!Sums(txs, B)[Len(txs)])
<1> DEFINE a == Q!Sums(txs, A)
           b == Q!Sums(txs, B)
           len == Len(txs)
<1>1. len \in Nat /\ \A k \in 1..len : txs[k] \in TxType
  OBVIOUS
<1>2. SumsUpTo(txs, A, len, a) /\ SumsUpTo(txs, B, len, b)
  BY <1>1, SumsAre
<1>3. \A k \in 0..len : /\ a[k] = IF k = 0 THEN ZeroSum ELSE StepOf(txs, A, a[k - 1], k)
                        /\ b[k] = IF k = 0 THEN ZeroSum ELSE StepOf(txs, B, b[k - 1], k)
  <2> HIDE DEF a, b, len
  <2> QED BY <1>2 DEF SumsUpTo
<1> HIDE DEF a, b, len
<1> DEFINE Bad == {k \in 0..len : ~SumWithin(a[k], b[k])}
<1>4. Bad = {}
  <2> SUFFICES ASSUME Bad # {} PROVE FALSE
    OBVIOUS
  <2>1. Bad \subseteq Nat
    OBVIOUS
  <2>2. PICK m \in Bad : \A k \in Bad : m <= k
    <3> HIDE DEF Bad
    <3> QED BY <2>1, LeastNatural
  <2>3. m \in 0..len /\ ~SumWithin(a[m], b[m])
    BY <2>2
  <2>4. m # 0
    <3>1. SumWithin(ZeroSum, ZeroSum)
      BY DEF SumWithin, ZeroSum, SumType, BoughtOf
    <3>2. m = 0 => a[m] = ZeroSum /\ b[m] = ZeroSum
      BY <1>3, <2>3
    <3> QED BY <3>1, <3>2, <2>3
  <2>5. m - 1 \in 0..len /\ m - 1 \notin Bad
    BY <2>2, <2>3, <2>4, <1>1
  <2>6. SumWithin(a[m - 1], b[m - 1])
    BY <2>5
  <2>7. a[m] = StepOf(txs, A, a[m - 1], m) /\ b[m] = StepOf(txs, B, b[m - 1], m)
    BY <1>3, <2>3, <2>4
  <2>8. txs[m] \in TxType
    BY <1>1, <2>3, <2>4
  <2> DEFINE s == a[m - 1]
             t == b[m - 1]
             x == txs[m]
  <2>9. SumWithin(StepOf(txs, A, s, m), StepOf(txs, B, t, m))
    <3>1. s \in SumType /\ t \in SumType /\ x \in TxType /\ SumWithin(s, t)
      BY <2>6, <2>8 DEF SumWithin
    <3>2. /\ StepOf(txs, A, s, m) = IF m \in A THEN Q!Entry(s, x) ELSE s
          /\ StepOf(txs, B, t, m) = IF m \in B THEN Q!Entry(t, x) ELSE t
      BY DEF StepOf
    <3> HIDE DEF s, t, x
    <3>3. /\ s.paid \in Nat /\ t.paid \in Nat /\ x.paid \in Nat
          /\ s.burned \in Nat /\ t.burned \in Nat /\ x.burned \in Nat
          /\ BoughtOf(s) \in Int /\ BoughtOf(t) \in Int /\ x.spent \in Nat
      BY <3>1, SMTT(30) DEF SumType, TxType, BoughtOf
    <3>4. s.paid <= t.paid /\ s.burned <= t.burned /\ BoughtOf(s) <= BoughtOf(t)
      BY <3>1 DEF SumWithin
    <3>5. /\ Q!Entry(s, x) \in SumType
          /\ Q!Entry(s, x).paid = s.paid + x.paid /\ Q!Entry(s, x).burned = s.burned + x.burned
          /\ BoughtOf(Q!Entry(s, x)) = BoughtOf(s) + x.spent
      BY <3>1, EntryAdds
    <3>6. /\ Q!Entry(t, x) \in SumType
          /\ Q!Entry(t, x).paid = t.paid + x.paid /\ Q!Entry(t, x).burned = t.burned + x.burned
          /\ BoughtOf(Q!Entry(t, x)) = BoughtOf(t) + x.spent
      BY <3>1, EntryAdds
    <3>0. \A p, q \in Int : \A r \in Nat : p <= q => p + r <= q + r /\ p <= q + r
      OBVIOUS
    <3>a. Nat \subseteq Int
      OBVIOUS
    <3>7. SumWithin(Q!Entry(s, x), Q!Entry(t, x))
      <4>1. /\ s.paid + x.paid <= t.paid + x.paid /\ s.burned + x.burned <= t.burned + x.burned
            /\ BoughtOf(s) + x.spent <= BoughtOf(t) + x.spent
        BY <3>0, <3>a, <3>3, <3>4, Zenon
      <4> QED BY <4>1, <3>5, <3>6 DEF SumWithin
    <3>8. SumWithin(s, Q!Entry(t, x))
      <4>1. /\ s.paid <= t.paid + x.paid /\ s.burned <= t.burned + x.burned
            /\ BoughtOf(s) <= BoughtOf(t) + x.spent
        BY <3>0, <3>a, <3>3, <3>4, Zenon
      <4> QED BY <4>1, <3>1, <3>6 DEF SumWithin
    <3> QED BY <3>1, <3>2, <3>7, <3>8
  <2> QED BY <2>3, <2>7, <2>9
<1>5. SumWithin(a[len], b[len])
  <2>1. len \in 0..len
    BY <1>1
  <2> QED BY <2>1, <1>4
<1> QED BY <1>5 DEF a, b, len

-----------------------------------------------------------------------------
(* A page of the ledger's listing.                                         *)

LEMMA LeastOf ==
    ASSUME NEW S \in SUBSET Nat, S # {}
    PROVE  Q!Min(S) \in S /\ \A k \in S : Q!Min(S) <= k
<1>1. \E m \in S : \A k \in S : m <= k
  BY LeastNatural
<1> QED BY <1>1 DEF Q!Min

LEMMA GreatestOf ==
    ASSUME NEW n \in Nat, NEW S \in SUBSET (0..n), S # {}
    PROVE  Q!Max(S) \in S /\ \A k \in S : k <= Q!Max(S)
<1> DEFINE Above == {m \in Nat : \A k \in S : k <= m}
<1>1. n \in Above
  OBVIOUS
<1>2. PICK m \in Above : \A k \in Above : m <= k
  <2>1. Above \in SUBSET Nat /\ Above # {}
    BY <1>1
  <2> HIDE DEF Above
  <2> QED BY <2>1, LeastNatural
<1>3. m \in S
  <2> SUFFICES ASSUME m \notin S PROVE FALSE
    OBVIOUS
  <2>1. \A k \in S : k \in Nat /\ k <= m /\ k # m
    BY <1>2
  <2>2. PICK k \in S : TRUE
    OBVIOUS
  <2>3. m - 1 \in Nat /\ \A i \in S : i <= m - 1
    BY <2>1, <2>2, <1>2
  <2>4. m - 1 \in Above
    BY <2>3
  <2> QED BY <2>4, <1>2
<1>4. \E x \in S : \A k \in S : x >= k
  BY <1>2, <1>3
<1>5. Q!Max(S) = CHOOSE x \in S : \A k \in S : x >= k
  BY DEF Q!Max
<1>6. Q!Max(S) \in S /\ \A k \in S : Q!Max(S) >= k
  BY <1>4, <1>5, Zenon
<1>7. \A k \in S : k \in Int
  OBVIOUS
<1> QED BY <1>6, <1>7

\* What there is to list between two places.
There(before, until) == {i \in 1..tip : until < i /\ i < before}

LEMMA CountIs == \A S : Q!Cardinality(S) = Cardinality(S)
BY DEF Q!Cardinality, Cardinality

LEMMA PageIs ==
    ASSUME tip \in Nat, NEW before \in Nat, NEW until \in Nat
    PROVE  LET got == Q!Page(before, until)
           IN /\ got \subseteq There(before, until)
              /\ \A i \in got : \A j \in There(before, until) : i <= j => j \in got
              /\ Q!Full(got) => got # {}
              /\ ~Q!Full(got) => got = There(before, until)
<1> DEFINE got == Q!Page(before, until)
           there == There(before, until)
           Over(i) == {j \in there : j > i}
<1>1. IsFiniteSet(there) /\ there \subseteq 1..tip /\ there \subseteq Nat /\ there \subseteq 0..tip
  <2>1. there \subseteq 1..tip /\ there \subseteq Nat /\ there \subseteq 0..tip
    BY DEF There
  <2>2. IsFiniteSet(1..tip)
    BY FS_Interval
  <2> QED BY <2>1, <2>2, FS_Subset
<1>2. got = {i \in there : Cardinality(Over(i)) < pageLimit}
  <2>1. got = IF there = {} THEN {} ELSE {i \in there : Q!Cardinality(Over(i)) < pageLimit}
    BY DEF Q!Page, There
  <2> HIDE DEF got, there
  <2> QED BY <2>1, CountIs
<1>3. pageLimit \in Nat /\ pageLimit > 0
  BY LedgerAssumption
<1> HIDE DEF there
<1>4. \A i : IsFiniteSet(Over(i)) /\ Cardinality(Over(i)) \in Nat
  <2> TAKE i
  <2>1. Over(i) \in SUBSET there
    OBVIOUS
  <2> HIDE DEF Over
  <2> QED BY <1>1, <2>1, FS_Subset, FS_CardinalityType
<1>5. ASSUME NEW i \in got, NEW j \in there, i <= j PROVE j \in got
  <2>1. i \in there /\ i \in Nat /\ j \in Nat /\ Cardinality(Over(i)) < pageLimit
    BY <1>1, <1>2, <1>5
  <2>2. Over(j) \in SUBSET Over(i)
    <3> SUFFICES ASSUME NEW k \in there, k > j PROVE k > i
      OBVIOUS
    <3>1. k \in Nat /\ i <= j
      BY <1>1, <1>5
    <3> QED BY <3>1, <2>1
  <2> HIDE DEF Over, got
  <2>3. Cardinality(Over(j)) <= Cardinality(Over(i))
    BY <2>2, <1>4, FS_Subset
  <2>4. Cardinality(Over(j)) < pageLimit
    BY <2>1, <2>3, <1>4, <1>3
  <2> QED BY <2>4, <1>2
<1>6. Q!Full(got) <=> Cardinality(got) = pageLimit
  BY CountIs DEF Q!Full
<1>7. Q!Full(got) => got # {}
  BY <1>3, <1>6, FS_EmptySet
<1>8. got \subseteq there
  BY <1>2
<1> HIDE DEF got
<1>9. ASSUME got # there PROVE Q!Full(got)
  <2> DEFINE rest == there \ got
  <2>1. rest # {} /\ rest \in SUBSET (0..tip) /\ rest \subseteq there
    BY <1>1, <1>8, <1>9
  <2> DEFINE m == Q!Max(rest)
  <2>2. m \in rest /\ \A k \in rest : k <= m
    <3> HIDE DEF rest
    <3> QED BY <2>1, GreatestOf
  <2> HIDE DEF m
  <2>3. m \in there /\ m \notin got /\ m \in Nat
    BY <2>2, <1>1
  <2>4. ~(Cardinality(Over(m)) < pageLimit)
    BY <2>3, <1>2
  <2>5. Over(m) \in SUBSET got
    <3> SUFFICES ASSUME NEW j \in there, j > m, j \notin got PROVE FALSE
      OBVIOUS
    <3>1. j \in rest /\ j \in Nat
      BY <1>1
    <3> QED BY <3>1, <2>2, <2>3
  <2>6. IsFiniteSet(got) /\ Cardinality(got) \in Nat
    BY <1>1, <1>8, FS_Subset, FS_CardinalityType
  <2>7. Cardinality(Over(m)) <= Cardinality(got)
    <3> HIDE DEF Over
    <3> QED BY <2>5, <2>6, FS_Subset
  <2>8. got # {}
    <3>1. Cardinality(got) # 0
      BY <2>4, <2>6, <2>7, <1>3, <1>4
    <3> QED BY <3>1, FS_EmptySet
  <2>9. PICK i \in got : \A k \in got : i <= k
    <3>1. got \in SUBSET Nat
      BY <1>1, <1>8
    <3> QED BY <3>1, <2>8, LeastNatural
  <2>10. got \ {i} \in SUBSET Over(i)
    <3> SUFFICES ASSUME NEW j \in got, j # i PROVE j \in there /\ j > i
      OBVIOUS
    <3> QED BY <1>1, <1>8, <2>9
  <2>11. Cardinality(got \ {i}) = Cardinality(got) - 1
    BY <2>6, <2>9, FS_RemoveElement
  <2>12. Cardinality(got \ {i}) <= Cardinality(Over(i))
    <3>1. IsFiniteSet(Over(i))
      BY <1>4
    <3> HIDE DEF Over
    <3> QED BY <2>10, <3>1, FS_Subset
  <2>13. Cardinality(Over(i)) < pageLimit
    BY <2>9, <1>2, <1>8
  <2>14. Cardinality(Over(i)) \in Nat /\ Cardinality(Over(m)) \in Nat
    BY <1>4
  <2> HIDE DEF Over
  <2>15. Cardinality(got) = pageLimit
    BY <2>4, <2>6, <2>7, <2>11, <2>12, <2>13, <2>14, <1>3
  <2> QED BY <2>15, <1>6
<1> QED BY <1>5, <1>7, <1>8, <1>9 DEF got, there

-----------------------------------------------------------------------------
(* Ranges that are not listed yet.                                         *)

RangeType == [before : Nat, until : Nat]

Lies(range, i)    == range.until < i /\ i < range.before
InSome(ranges, i) == \E k \in DOMAIN ranges : Lies(ranges[k], i)

LEMMA NoRanges == \A i : ~InSome(<<>>, i)
BY DEF InSome

LEMMA OneRange ==
    ASSUME NEW range, NEW i
    PROVE  InSome(<<range>>, i) <=> Lies(range, i)
<1> DEFINE s == <<range>>
<1>1. DOMAIN s = {1} /\ s[1] = range
  OBVIOUS
<1> HIDE DEF s
<1>2. InSome(s, i) <=> Lies(range, i)
  BY <1>1 DEF InSome
<1> QED BY <1>2 DEF s

LEMMA RangesJoin ==
    ASSUME NEW s \in Seq(RangeType), NEW t \in Seq(RangeType), NEW i
    PROVE  /\ s \o t \in Seq(RangeType)
           /\ InSome(s \o t, i) <=> InSome(s, i) \/ InSome(t, i)
<1> DEFINE u == s \o t
<1>1. /\ u \in Seq(RangeType) /\ Len(u) = Len(s) + Len(t)
      /\ \A k \in 1..Len(s) : u[k] = s[k]
      /\ \A k \in 1..Len(t) : u[Len(s) + k] = t[k]
  BY ConcatProperties, Z3T(20)
<1>2. /\ DOMAIN s = 1..Len(s) /\ Len(s) \in Nat
      /\ DOMAIN t = 1..Len(t) /\ Len(t) \in Nat
      /\ DOMAIN u = 1..Len(u)
  BY <1>1
<1> HIDE DEF u
<1>3. ASSUME InSome(s, i) PROVE InSome(u, i)
  <2>1. PICK k \in 1..Len(s) : Lies(s[k], i)
    BY <1>2, <1>3 DEF InSome
  <2>2. k \in 1..Len(u) /\ u[k] = s[k]
    BY <1>1, <1>2
  <2> QED BY <2>1, <2>2, <1>2 DEF InSome
<1>4. ASSUME InSome(t, i) PROVE InSome(u, i)
  <2>1. PICK k \in 1..Len(t) : Lies(t[k], i)
    BY <1>2, <1>4 DEF InSome
  <2>2. Len(s) + k \in 1..Len(u) /\ u[Len(s) + k] = t[k]
    BY <1>1, <1>2
  <2> QED BY <2>1, <2>2, <1>2 DEF InSome
<1>5. ASSUME InSome(u, i) PROVE InSome(s, i) \/ InSome(t, i)
  <2>1. PICK k \in 1..Len(u) : Lies(u[k], i)
    BY <1>2, <1>5 DEF InSome
  <2>2. CASE k \in 1..Len(s)
    <3>1. Lies(s[k], i)
      BY <2>1, <2>2, <1>1
    <3> QED BY <3>1, <2>2, <1>2 DEF InSome
  <2>3. CASE k \notin 1..Len(s)
    <3>1. k - Len(s) \in 1..Len(t) /\ Len(s) + (k - Len(s)) = k
      BY <2>3, <1>1, <1>2
    <3>2. u[k] = t[k - Len(s)]
      BY <3>1, <1>1
    <3> QED BY <2>1, <3>1, <3>2, <1>2 DEF InSome
  <2> QED BY <2>2, <2>3
<1> QED BY <1>1, <1>3, <1>4, <1>5 DEF u

LEMMA RangeAdded ==
    ASSUME NEW s \in Seq(RangeType), NEW range \in RangeType, NEW i
    PROVE  /\ Append(s, range) \in Seq(RangeType)
           /\ InSome(Append(s, range), i) <=> InSome(s, i) \/ Lies(range, i)
<1>1. Append(s, range) = s \o <<range>> /\ <<range>> \in Seq(RangeType)
  OBVIOUS
<1> QED BY <1>1, RangesJoin, OneRange, ZenonT(60)

LEMMA FirstRange ==
    ASSUME NEW s \in Seq(RangeType), s # <<>>, NEW i
    PROVE  /\ Head(s) \in RangeType /\ Tail(s) \in Seq(RangeType)
           /\ InSome(s, i) => Lies(Head(s), i) \/ InSome(Tail(s), i)
<1>1. /\ Head(s) \in RangeType /\ Tail(s) \in Seq(RangeType)
      /\ Head(s) = s[1] /\ Len(Tail(s)) = Len(s) - 1 /\ Len(s) \in Nat
      /\ \A k \in 1..Len(Tail(s)) : Tail(s)[k] = s[k + 1]
      /\ DOMAIN s = 1..Len(s) /\ DOMAIN Tail(s) = 1..Len(Tail(s))
  BY HeadTailProperties
<1> DEFINE t == Tail(s)
<1> HIDE DEF t
<1>2. ASSUME InSome(s, i) PROVE Lies(Head(s), i) \/ InSome(t, i)
  <2>1. PICK k \in 1..Len(s) : Lies(s[k], i)
    BY <1>1, <1>2 DEF InSome
  <2>2. CASE k = 1
    BY <2>1, <2>2, <1>1
  <2>3. CASE k # 1
    <3>1. k - 1 \in 1..Len(t) /\ (k - 1) + 1 = k
      BY <2>3, <1>1 DEF t
    <3>2. t[k - 1] = s[k]
      BY <3>1, <1>1 DEF t
    <3>3. DOMAIN t = 1..Len(t)
      BY <1>1 DEF t
    <3> QED BY <2>1, <3>1, <3>2, <3>3 DEF InSome
  <2> QED BY <2>2, <2>3
<1> QED BY <1>1, <1>2 DEF t

-----------------------------------------------------------------------------
(* The inductive invariant of the ledger.                                  *)

Listings == {"tip", "cut", "reached"}

ListRec ==
    [ pc : Listings, until : Nat, before : Nat, pages : Nat, list : SUBSET Nat, older : SUBSET Nat,
      todo : Seq(RangeType), open : Seq(RangeType), upto : Nat ]

\* Where a listing of the tip has left nothing out above.
Floor(c) == IF c.pc = "reached" THEN c.until + 1 ELSE c.before

\* A listing under way: what it has is what is there, from its floor up to the tip it began at or
\* to the newest place it has; and it forgets no range below.
ListsOn(c) ==
    /\ c \in ListRec /\ c.until = newest /\ c.upto <= tip
    /\ c.list \subseteq 1..tip /\ c.older \subseteq 1..tip
    /\ c.pc = "tip" => c.todo = <<>> /\ c.open = <<>> /\ c.older = {}
    /\ \A j \in 1..tip : j >= Floor(c) /\ (j <= c.upto \/ \E i \in c.list : j <= i) => j \in c.list
    /\ c.pc # "tip" =>
          \A j \in 1..newest : j \in listed \cup c.older \/ InSome(c.open, j) \/ InSome(c.todo, j)

\* A load that reads: up to the tip it began at, everything is listed or in a range still open.
Reads(c) ==
    /\ c \in [pc : {"reading"}, upto : Nat, begun : BOOLEAN] /\ c.upto <= tip
    /\ \A j \in 1..c.upto : j \in listed \/ InSome(cursors, j)

\* What is read was listed, what is listed has landed, and below the newest place nothing is
\* forgotten.
WalletTrue ==
    /\ tip \in 0..Len(history) /\ newest \in 0..tip
    /\ listed \subseteq 1..tip /\ read \subseteq listed /\ pending \in Seq(listed)
    /\ cursors \in Seq(RangeType)
    /\ \A j \in 1..newest : j \in listed \/ InSome(cursors, j)

\* A load that lists knows of all that was written, or is known to be overtaken.
ListingTrue ==
    /\ listing.pc \in Listings \cup {"reading", "none"}
    /\ listing.pc \in Listings =>
          /\ listing \in ListRec /\ ~Q!Ended(listing)
          /\ "load" \notin overtaken => ListsOn(listing)
    /\ listing.pc = "reading" => Reads(listing)

\* A listing left behind knows of all that was written, or is known to be overtaken.
StrayTrue ==
    stray # Q!NoPage /\ "stray" \notin overtaken =>
        /\ stray.pc \in Listings /\ ListsOn(stray) /\ ~Q!Ended(stray)
        /\ listing.pc # "reading"

FigureType == [paid : Nat, burned : Nat, bought : Int]

Within(f, g) ==
    /\ f \in FigureType /\ g \in FigureType
    /\ f.paid <= g.paid /\ f.burned <= g.burned /\ f.bought <= g.bought

FiguresOf(txs, places) ==
    LET sum == Q!Sums(txs, places)[Len(txs)]
    IN [paid |-> sum.paid, burned |-> sum.burned, bought |-> BoughtOf(sum)]

LastTrue ==
    last.pc = "loaded" =>
        /\ Within(last.figures, FiguresOf(history, 1..tip))
        /\ last.complete => Within(FiguresOf(history, 1..last.upto), last.figures)

\* No listing has written its ranges over those another one wrote since it began.
LedgerInv ==
    /\ history \in Histories
    /\ ~overwritten => WalletTrue /\ ListingTrue /\ StrayTrue /\ LastTrue

-----------------------------------------------------------------------------

LEMMA FiguresGrow ==
    ASSUME NEW txs \in Histories, NEW A, NEW B, A \subseteq B
    PROVE  Within(FiguresOf(txs, A), FiguresOf(txs, B))
<1>1. txs \in Seq(TxType)
  BY LedgerAssumption DEF TxType
<1> DEFINE s == Q!Sums(txs, A)[Len(txs)]
           t == Q!Sums(txs, B)[Len(txs)]
<1>2. SumWithin(s, t)
  BY <1>1, SumsGrow
<1>3. /\ FiguresOf(txs, A) = [paid |-> s.paid, burned |-> s.burned, bought |-> BoughtOf(s)]
      /\ FiguresOf(txs, B) = [paid |-> t.paid, burned |-> t.burned, bought |-> BoughtOf(t)]
  BY DEF FiguresOf
<1> HIDE DEF s, t
<1>4. /\ s.paid \in Nat /\ s.burned \in Nat /\ BoughtOf(s) \in Int
      /\ t.paid \in Nat /\ t.burned \in Nat /\ BoughtOf(t) \in Int
  BY <1>2 DEF SumWithin, SumType, BoughtOf
<1> QED BY <1>2, <1>3, <1>4 DEF Within, FigureType, SumWithin

LEMMA WithinWithin ==
    ASSUME NEW f, NEW g, NEW h, Within(f, g), Within(g, h)
    PROVE  Within(f, h)
<1>1. /\ f.paid \in Int /\ f.burned \in Int /\ f.bought \in Int
      /\ g.paid \in Int /\ g.burned \in Int /\ g.bought \in Int
      /\ h.paid \in Int /\ h.burned \in Int /\ h.bought \in Int
  BY DEF Within, FigureType
<1> QED BY <1>1 DEF Within

LEMMA SummaryIs == \A places : Q!Summary(places) = FiguresOf(history, places)
BY DEF Q!Summary, Q!Figures, FiguresOf, BoughtOf

-----------------------------------------------------------------------------
(* Pages of a listing under way.                                           *)

LEMMA TipPageLists ==
    ASSUME WalletTrue, NEW c, ListsOn(c), c.pc = "tip"
    PROVE  ListsOn(Q!TipPage(c))
<1>1. /\ tip \in Nat /\ newest \in Nat /\ cursors \in Seq(RangeType)
      /\ \A j \in 1..newest : j \in listed \/ InSome(cursors, j)
  BY DEF WalletTrue
<1>2. /\ c \in ListRec /\ c.until = newest /\ c.upto <= tip
      /\ c.list \subseteq 1..tip /\ c.todo = <<>> /\ c.open = <<>> /\ c.older = {}
      /\ \A j \in 1..tip :
            j >= c.before /\ (j <= c.upto \/ \E i \in c.list : j <= i) => j \in c.list
  BY DEF ListsOn, Floor
<1>3. /\ c.before \in Nat /\ c.until \in Nat /\ c.pages \in Nat /\ c.upto \in Nat
      /\ c.list \in SUBSET Nat /\ c.older \in SUBSET Nat
      /\ c.todo \in Seq(RangeType) /\ c.open \in Seq(RangeType)
  BY <1>2 DEF ListRec
<1> DEFINE got == Q!Page(c.before, c.until)
           low == IF got = {} THEN c.before ELSE Q!Min(got)
           next == [c EXCEPT !.list = c.list \cup got, !.pages = c.pages + 1, !.before = low]
           cut == [next EXCEPT !.pc = IF Q!Full(got) THEN "cut" ELSE "reached", !.todo = cursors]
<1>4. /\ got \subseteq There(c.before, c.until)
      /\ \A i \in got : \A j \in There(c.before, c.until) : i <= j => j \in got
      /\ Q!Full(got) => got # {}
      /\ ~Q!Full(got) => got = There(c.before, c.until)
  BY <1>1, <1>3, PageIs
<1>5. Q!TipPage(c) = IF Q!Full(got) /\ next.pages < maxPages THEN next ELSE cut
  BY DEF Q!TipPage
<1>6. There(c.before, c.until) \subseteq 1..tip
  BY DEF There
<1> HIDE DEF got
<1>7. got # {} => low \in got /\ \A k \in got : low <= k
  <2>1. got \in SUBSET Nat
    BY <1>1, <1>4, <1>6
  <2> QED BY <2>1, LeastOf
<1>8. low \in Nat
  BY <1>1, <1>3, <1>4, <1>6, <1>7
<1> HIDE DEF low
<1>9. /\ next \in ListRec /\ next.pc = "tip" /\ next.until = newest /\ next.upto = c.upto
      /\ next.list = c.list \cup got /\ next.older = {} /\ next.todo = <<>> /\ next.open = <<>>
      /\ next.before = low
  <2>1. c.list \cup got \in SUBSET Nat /\ c.pages + 1 \in Nat
    BY <1>1, <1>3, <1>4, <1>6
  <2> QED BY <1>2, <1>8, <2>1 DEF ListRec
<1>10. /\ cut \in ListRec /\ cut.pc = (IF Q!Full(got) THEN "cut" ELSE "reached")
       /\ cut.until = newest /\ cut.upto = c.upto
       /\ cut.list = c.list \cup got /\ cut.older = {} /\ cut.todo = cursors /\ cut.open = <<>>
       /\ cut.before = low
  <2> HIDE DEF next
  <2>1. cut.pc \in Listings
    BY <1>9 DEF ListRec, Listings
  <2> QED BY <1>1, <1>9, <2>1 DEF ListRec, Listings
<1> HIDE DEF next, cut
<1>11. c.list \cup got \subseteq 1..tip
  BY <1>2, <1>4, <1>6
<1>12. ASSUME NEW j \in 1..tip, j > newest, Q!Full(got) => j >= low,
              j <= c.upto \/ \E i \in c.list \cup got : j <= i
       PROVE  j \in c.list \cup got
  <2>1. CASE j < c.before
    <3>1. j \in There(c.before, c.until)
      BY <2>1, <1>2, <1>12 DEF There
    <3>2. CASE Q!Full(got)
      <4>1. low \in got /\ low <= j
        BY <3>2, <1>4, <1>7, <1>12
      <4> QED BY <4>1, <3>1, <1>4
    <3>3. CASE ~Q!Full(got)
      BY <3>1, <3>3, <1>4
    <3> QED BY <3>2, <3>3
  <2>2. CASE ~(j < c.before)
    <3>1. j >= c.before /\ j \in Nat
      BY <2>2, <1>1, <1>3
    <3>2. \A i \in got : ~(j <= i)
      <4> SUFFICES ASSUME NEW i \in got, j <= i PROVE FALSE
        OBVIOUS
      <4>1. i < c.before /\ i \in Nat
        BY <1>4, <1>1 DEF There
      <4> QED BY <4>1, <3>1, <1>3
    <3>3. j <= c.upto \/ \E i \in c.list : j <= i
      BY <3>2, <1>12
    <3> QED BY <3>1, <3>3, <1>2
  <2> QED BY <2>1, <2>2
<1>13. got # {} => low > newest
  <2>1. got # {} => low \in There(c.before, c.until)
    BY <1>4, <1>7
  <2> QED BY <2>1, <1>2 DEF There
<1>14. CASE Q!Full(got) /\ next.pages < maxPages
  <2>1. ASSUME NEW j \in 1..tip, j >= low, j <= c.upto \/ \E i \in c.list \cup got : j <= i
        PROVE  j \in c.list \cup got
    <3>1. j > newest
      BY <2>1, <1>1, <1>4, <1>8, <1>13, <1>14
    <3> QED BY <3>1, <2>1, <1>12
  <2> QED BY <1>2, <1>5, <1>9, <1>11, <1>14, <2>1 DEF ListsOn, Floor
<1>15. CASE ~(Q!Full(got) /\ next.pages < maxPages)
  <2>1. ASSUME NEW j \in 1..tip, j >= Floor(cut),
               j <= c.upto \/ \E i \in c.list \cup got : j <= i
        PROVE  j \in c.list \cup got
    <3>1. CASE Q!Full(got)
      <4>1. j >= low
        BY <3>1, <2>1, <1>10 DEF Floor
      <4>2. j > newest
        BY <4>1, <3>1, <1>1, <1>4, <1>8, <1>13
      <4> QED BY <4>1, <4>2, <2>1, <1>12
    <3>2. CASE ~Q!Full(got)
      <4>1. j >= newest + 1
        BY <3>2, <2>1, <1>10 DEF Floor
      <4>2. j > newest
        BY <4>1, <1>1
      <4> QED BY <4>2, <3>2, <2>1, <1>12
    <3> QED BY <3>1, <3>2
  <2>2. \A j \in 1..newest : j \in listed \cup cut.older \/ InSome(cut.open, j) \/ InSome(cut.todo, j)
    BY <1>1, <1>10
  <2>3. cut.pc # "tip"
    BY <1>10
  <2>4. cut.list \subseteq 1..tip /\ cut.older \subseteq 1..tip /\ cut.upto <= tip
    BY <1>2, <1>10, <1>11
  <2> QED BY <1>5, <1>10, <1>15, <2>1, <2>2, <2>3, <2>4 DEF ListsOn
<1> QED BY <1>14, <1>15

LEMMA RangePageLists ==
    ASSUME WalletTrue, NEW c, ListsOn(c), c.pc \in {"cut", "reached"}, c.todo # <<>>
    PROVE  ListsOn(Q!RangePage(c))
<1>1. tip \in Nat /\ newest \in 0..tip
  BY DEF WalletTrue
<1>2. /\ c \in ListRec /\ c.until = newest /\ c.upto <= tip
      /\ c.list \subseteq 1..tip /\ c.older \subseteq 1..tip
      /\ \A j \in 1..tip : j >= Floor(c) /\ (j <= c.upto \/ \E i \in c.list : j <= i) => j \in c.list
      /\ \A j \in 1..newest : j \in listed \cup c.older \/ InSome(c.open, j) \/ InSome(c.todo, j)
  BY DEF ListsOn
<1>3. c.todo \in Seq(RangeType) /\ c.open \in Seq(RangeType) /\ c.older \in SUBSET Nat
  BY <1>2 DEF ListRec
<1> DEFINE range == Head(c.todo)
           got == Q!Page(range.before, range.until)
           left == [range EXCEPT !.before = Q!Min(got)]
           open == IF Q!Full(got) THEN Append(c.open, left) ELSE c.open
           d == [c EXCEPT !.older = c.older \cup got, !.todo = Tail(c.todo), !.open = open]
<1>4. /\ range \in RangeType /\ Tail(c.todo) \in Seq(RangeType)
      /\ \A j : InSome(c.todo, j) => Lies(range, j) \/ InSome(Tail(c.todo), j)
  BY <1>3, FirstRange
<1>5. Q!RangePage(c) = d
  BY DEF Q!RangePage
<1> HIDE DEF range
<1>6. /\ got \subseteq There(range.before, range.until)
      /\ \A i \in got : \A j \in There(range.before, range.until) : i <= j => j \in got
      /\ Q!Full(got) => got # {}
      /\ ~Q!Full(got) => got = There(range.before, range.until)
  <2>1. range.before \in Nat /\ range.until \in Nat
    BY <1>4 DEF RangeType
  <2> QED BY <2>1, <1>1, PageIs
<1>7. There(range.before, range.until) \subseteq 1..tip
  BY DEF There
<1> HIDE DEF got
<1>8. got \in SUBSET Nat /\ got \subseteq 1..tip
  BY <1>1, <1>6, <1>7
<1>9. got # {} => /\ Q!Min(got) \in got /\ Q!Min(got) \in Nat
                  /\ left \in RangeType /\ left.before = Q!Min(got) /\ left.until = range.until
  <2>1. got # {} => Q!Min(got) \in got
    BY <1>8, LeastOf
  <2> QED BY <2>1, <1>4, <1>8 DEF RangeType
<1> HIDE DEF left
<1>10. /\ open \in Seq(RangeType)
       /\ \A j : InSome(c.open, j) => InSome(open, j)
       /\ \A j : Q!Full(got) /\ Lies(left, j) => InSome(open, j)
  BY <1>3, <1>6, <1>9, RangeAdded
<1> HIDE DEF open
<1>11. /\ d \in ListRec /\ d.pc = c.pc /\ d.until = c.until /\ d.upto = c.upto /\ d.list = c.list
       /\ d.before = c.before /\ d.older = c.older \cup got /\ d.todo = Tail(c.todo) /\ d.open = open
  BY <1>2, <1>3, <1>4, <1>8, <1>10 DEF ListRec
<1> HIDE DEF d
<1>12. ASSUME NEW j \in 1..newest
       PROVE  j \in listed \cup d.older \/ InSome(d.open, j) \/ InSome(d.todo, j)
  <2>1. j \in 1..tip /\ j \in Nat
    BY <1>1
  <2>2. CASE j \in listed \cup c.older \/ InSome(c.open, j) \/ InSome(Tail(c.todo), j)
    BY <2>2, <1>10, <1>11
  <2>3. CASE Lies(range, j)
    <3>1. j \in There(range.before, range.until)
      BY <2>1, <2>3 DEF There, Lies
    <3>2. CASE j \in got
      BY <3>2, <1>11
    <3>3. CASE j \notin got
      <4>1. Q!Full(got)
        BY <3>1, <3>3, <1>6
      <4>2. Q!Min(got) \in got /\ Q!Min(got) \in Nat
        BY <4>1, <1>6, <1>9
      <4>3. j < Q!Min(got)
        BY <3>1, <3>3, <4>2, <2>1, <1>6
      <4>4. Lies(left, j)
        BY <4>1, <4>3, <2>3, <1>6, <1>9 DEF Lies
      <4> QED BY <4>1, <4>4, <1>10, <1>11
    <3> QED BY <3>2, <3>3
  <2> QED BY <2>2, <2>3, <1>2, <1>4
<1>13. Floor(d) = Floor(c) /\ d.pc # "tip"
  BY <1>11 DEF Floor
<1>14. d.older \subseteq 1..tip
  BY <1>2, <1>8, <1>11
<1>15. ListsOn(d)
  BY <1>2, <1>11, <1>12, <1>13, <1>14 DEF ListsOn
<1> QED BY <1>5, <1>15

-----------------------------------------------------------------------------
(* A listing that is complete.                                             *)

LEMMA ListedKeeps ==
    ASSUME WalletTrue, NEW c, ListsOn(c), Q!Ended(c), Q!Listed(c),
           UNCHANGED <<history, tip, read>>, pending' \in Q!ToRead(listed') \/ pending' = pending
    PROVE  WalletTrue' /\ Reads([pc |-> "reading", upto |-> c.upto, begun |-> FALSE])'
<1>1. /\ tip \in 0..Len(history) /\ tip \in Nat /\ newest \in 0..tip
      /\ listed \subseteq 1..tip /\ read \subseteq listed
      /\ \A j \in 1..newest : j \in listed \/ InSome(cursors, j)
  BY DEF WalletTrue
<1>2. /\ c \in ListRec /\ c.until = newest /\ c.upto <= tip /\ c.pc # "tip" /\ c.todo = <<>>
      /\ c.list \subseteq 1..tip /\ c.older \subseteq 1..tip
      /\ \A j \in 1..tip : j >= Floor(c) /\ (j <= c.upto \/ \E i \in c.list : j <= i) => j \in c.list
      /\ \A j \in 1..newest : j \in listed \cup c.older \/ InSome(c.open, j)
  BY NoRanges DEF ListsOn, Q!Ended
<1>3. /\ c.pc \in Listings /\ c.before \in Nat /\ c.until \in Nat /\ c.upto \in Nat
      /\ c.open \in Seq(RangeType)
  BY <1>2 DEF ListRec
<1> DEFINE gap == [before |-> c.before, until |-> c.until]
           gaps == IF c.pc = "cut" THEN <<gap>> ELSE <<>>
<1>4. /\ cursors' = c.open \o gaps
      /\ newest' = IF c.list = {} THEN newest ELSE Q!Max(c.list)
      /\ listed' = listed \cup c.list \cup c.older
  BY DEF Q!Listed, Q!CutLeft
<1>5. gaps \in Seq(RangeType) /\ (c.pc = "cut" => \A j : Lies(gap, j) => InSome(gaps, j))
  <2>1. gap \in RangeType
    BY <1>3 DEF RangeType
  <2> HIDE DEF gap
  <2> QED BY <2>1, OneRange
<1>6. \A j : Lies(gap, j) <=> c.until < j /\ j < c.before
  BY DEF Lies
<1> HIDE DEF gaps, gap
<1>7. /\ cursors' \in Seq(RangeType)
      /\ \A j : InSome(cursors', j) <=> InSome(c.open, j) \/ InSome(gaps, j)
  BY <1>3, <1>4, <1>5, RangesJoin
<1>8. listed' \subseteq 1..tip /\ read \subseteq listed'
  BY <1>1, <1>2, <1>4
<1>9. newest' \in 0..tip /\ (newest' = newest \/ newest' \in c.list)
  <2>1. c.list \in SUBSET (0..tip)
    BY <1>1, <1>2
  <2>2. c.list # {} => Q!Max(c.list) \in c.list
    BY <1>1, <2>1, GreatestOf
  <2> QED BY <1>1, <1>4, <2>1, <2>2
<1>10. ASSUME NEW j \in 1..tip, j <= newest \/ j <= c.upto \/ \E i \in c.list : j <= i
       PROVE  j \in listed' \/ InSome(cursors', j)
  <2>1. CASE j <= newest
    <3>1. j \in 1..newest
      BY <2>1, <1>1
    <3> QED BY <3>1, <1>2, <1>4, <1>7
  <2>2. CASE ~(j <= newest) /\ j >= Floor(c)
    <3>1. j <= c.upto \/ \E i \in c.list : j <= i
      BY <2>2, <1>10
    <3> QED BY <3>1, <2>2, <1>2, <1>4
  <2>3. CASE ~(j <= newest) /\ ~(j >= Floor(c))
    <3>1. j > c.until /\ j \in Nat
      BY <2>3, <1>1, <1>2
    <3>2. c.pc # "reached"
      BY <2>3, <3>1, <1>3 DEF Floor
    <3>3. c.pc = "cut"
      BY <3>2, <1>2, <1>3 DEF Listings
    <3>4. j < c.before
      BY <2>3, <3>1, <3>3, <1>3 DEF Floor
    <3> QED BY <3>1, <3>3, <3>4, <1>5, <1>6, <1>7
  <2> QED BY <2>1, <2>2, <2>3
<1>11. \A j \in 1..newest' : j \in listed' \/ InSome(cursors', j)
  <2> SUFFICES ASSUME NEW j \in 1..newest' PROVE j \in listed' \/ InSome(cursors', j)
    OBVIOUS
  <2>1. j \in 1..tip /\ j <= newest'
    BY <1>1, <1>9
  <2>2. j <= newest \/ \E i \in c.list : j <= i
    BY <2>1, <1>9
  <2> QED BY <2>1, <2>2, <1>10
<1>12. \A j \in 1..c.upto : j \in listed' \/ InSome(cursors', j)
  <2> SUFFICES ASSUME NEW j \in 1..c.upto PROVE j \in listed' \/ InSome(cursors', j)
    OBVIOUS
  <2>1. j \in 1..tip /\ j <= c.upto
    BY <1>1, <1>2, <1>3
  <2> QED BY <2>1, <1>10
<1>13. ASSUME pending' \in Q!ToRead(listed') PROVE pending' \in Seq(listed')
  <2> DEFINE S == listed' \ read
  <2>1. PICK s \in Q!SetToSeqs(S) : pending' = SubSeq(s, 1, Q!Min({maxReads, Len(s)}))
    BY <1>13 DEF Q!ToRead
  <2> HIDE DEF S
  <2>2. s \in [1..Q!Cardinality(S) -> S]
    BY <2>1 DEF Q!SetToSeqs
  <2>3. IsFiniteSet(S) /\ Q!Cardinality(S) \in Nat
    <3>1. IsFiniteSet(1..tip) /\ S \in SUBSET (1..tip)
      BY <1>1, <1>8, FS_Interval DEF S
    <3>2. IsFiniteSet(S)
      BY <3>1, FS_Subset
    <3> QED BY <3>2, FS_CardinalityType, CountIs
  <2>4. s \in Seq(S) /\ Len(s) \in Nat
    BY <2>2, <2>3
  <2>5. Q!Min({maxReads, Len(s)}) \in Nat /\ Q!Min({maxReads, Len(s)}) <= Len(s)
    <3>1. maxReads \in Nat
      BY LedgerAssumption
    <3>2. {maxReads, Len(s)} \in SUBSET Nat /\ {maxReads, Len(s)} # {}
      BY <3>1, <2>4
    <3>3. \A k \in {maxReads, Len(s)} : Q!Min({maxReads, Len(s)}) <= k
      BY <3>2, LeastOf
    <3>4. Q!Min({maxReads, Len(s)}) \in {maxReads, Len(s)}
      BY <3>2, LeastOf
    <3> QED BY <3>2, <3>3, <3>4
  <2>6. pending' \in Seq(S)
    <3> DEFINE m == Q!Min({maxReads, Len(s)})
    <3> HIDE DEF m
    <3>1. m \in Nat /\ m <= Len(s) /\ pending' = SubSeq(s, 1, m)
      BY <2>1, <2>5 DEF m
    <3> QED BY <3>1, <2>4, SubSeqProperties
  <2>7. S \subseteq listed'
    BY DEF S
  <2> QED BY <2>6, <2>7
<1>14. WalletTrue'
  <2>1. pending' = pending => pending' \in Seq(listed')
    BY <1>4 DEF WalletTrue
  <2>2. pending' \in Seq(listed')
    BY <2>1, <1>13
  <2> QED BY <2>2, <1>1, <1>7, <1>8, <1>9, <1>11 DEF WalletTrue
<1>15. Reads([pc |-> "reading", upto |-> c.upto, begun |-> FALSE])'
  <2> DEFINE r == [pc |-> "reading", upto |-> c.upto, begun |-> FALSE]
  <2>1. r \in [pc : {"reading"}, upto : Nat, begun : BOOLEAN] /\ r.upto = c.upto
    BY <1>3
  <2> HIDE DEF r
  <2>2. Reads(r)'
    BY <2>1, <1>2, <1>12 DEF Reads
  <2> QED BY <2>2 DEF r
<1> QED BY <1>14, <1>15

-----------------------------------------------------------------------------
(* The steps.                                                              *)

LEMMA LedgerStarts == Q!Init => LedgerInv
<1> SUFFICES ASSUME Q!Init PROVE LedgerInv
  OBVIOUS
<1>1. /\ history \in Histories /\ tip \in 0..Len(history) /\ listed = {} /\ read = {}
      /\ newest = 0 /\ cursors = <<>> /\ listing = Q!NoPage /\ stray = Q!NoPage /\ pending = <<>>
      /\ last = Q!NoPage
  BY DEF Q!Init
<1>2. Q!NoPage.pc = "none"
  BY DEF Q!NoPage
<1>3. tip \in Nat
  BY <1>1
<1> QED BY <1>1, <1>2, <1>3 DEF LedgerInv, WalletTrue, ListingTrue, StrayTrue, LastTrue, Listings

\* One more page of a listing that knows of all that was written, or of one that is overtaken.
LEMMA NextPageLists ==
    ASSUME WalletTrue, NEW c, ListsOn(c), c.pc \in Listings, ~Q!Ended(c)
    PROVE  ListsOn(Q!NextPage(c)) /\ Q!NextPage(c).pc \in Listings /\ Q!NextPage(c) \in ListRec
<1>1. c.pc = "tip" => ListsOn(Q!NextPage(c))
  BY TipPageLists DEF Q!NextPage
<1>2. c.pc # "tip" => ListsOn(Q!NextPage(c))
  BY RangePageLists DEF Q!NextPage, Q!Ended, Listings
<1> HIDE DEF Q!NextPage
<1> QED BY <1>1, <1>2 DEF ListsOn, ListRec

LEMMA NextPageRec ==
    ASSUME WalletTrue, NEW c \in ListRec, ~Q!Ended(c)
    PROVE  Q!NextPage(c) \in ListRec
<1>1. /\ tip \in Nat /\ cursors \in Seq(RangeType)
      /\ c.pc \in Listings /\ c.before \in Nat /\ c.until \in Nat /\ c.pages \in Nat /\ c.upto \in Nat
      /\ c.list \in SUBSET Nat /\ c.older \in SUBSET Nat
      /\ c.todo \in Seq(RangeType) /\ c.open \in Seq(RangeType)
  BY DEF WalletTrue, ListRec
<1>2. CASE c.pc = "tip"
  <2> DEFINE got == Q!Page(c.before, c.until)
             low == IF got = {} THEN c.before ELSE Q!Min(got)
             next == [c EXCEPT !.list = c.list \cup got, !.pages = c.pages + 1, !.before = low]
             cut == [next EXCEPT !.pc = IF Q!Full(got) THEN "cut" ELSE "reached", !.todo = cursors]
  <2>1. got \in SUBSET Nat
    BY <1>1, PageIs DEF There
  <2>2. Q!NextPage(c) = IF Q!Full(got) /\ next.pages < maxPages THEN next ELSE cut
    BY <1>2 DEF Q!NextPage, Q!TipPage
  <2> HIDE DEF got
  <2>3. low \in Nat
    BY <1>1, <2>1, LeastOf
  <2> HIDE DEF low
  <2>4. next \in ListRec
    <3>1. c.list \cup got \in SUBSET Nat /\ c.pages + 1 \in Nat
      BY <1>1, <2>1
    <3> QED BY <2>3, <3>1 DEF ListRec
  <2> HIDE DEF next
  <2>5. cut \in ListRec
    BY <1>1, <2>4 DEF ListRec, Listings
  <2> QED BY <2>2, <2>4, <2>5
<1>3. CASE c.pc # "tip"
  <2> DEFINE range == Head(c.todo)
             got == Q!Page(range.before, range.until)
             left == [range EXCEPT !.before = Q!Min(got)]
             open == IF Q!Full(got) THEN Append(c.open, left) ELSE c.open
             d == [c EXCEPT !.older = c.older \cup got, !.todo = Tail(c.todo), !.open = open]
  <2>1. range \in RangeType /\ Tail(c.todo) \in Seq(RangeType)
    BY <1>1, <1>3, FirstRange DEF Q!Ended
  <2>2. Q!NextPage(c) = d
    BY <1>3 DEF Q!NextPage, Q!RangePage
  <2> HIDE DEF range
  <2>3. got \in SUBSET Nat /\ (Q!Full(got) => got # {})
    <3>1. range.before \in Nat /\ range.until \in Nat
      BY <2>1 DEF RangeType
    <3> QED BY <3>1, <1>1, PageIs DEF There
  <2> HIDE DEF got
  <2>4. got # {} => Q!Min(got) \in Nat
    BY <2>3, LeastOf
  <2>5. got # {} => left \in RangeType
    BY <2>1, <2>4 DEF RangeType
  <2> HIDE DEF left
  <2>6. open \in Seq(RangeType)
    BY <1>1, <2>3, <2>5
  <2> HIDE DEF open
  <2> QED BY <1>1, <2>1, <2>2, <2>3, <2>6 DEF ListRec
<1> QED BY <1>2, <1>3

LEMMA BeginLoadKeeps ==
    ASSUME LedgerInv, ~overwritten, Q!BeginLoad
    PROVE  LedgerInv'
<1> USE DEF LedgerInv
<1>1. /\ UNCHANGED <<history, tip, listed, read, newest, cursors, stray, pending, last, overtaken>>
      /\ listing' = Q!BeginListing
  BY DEF Q!BeginLoad, Q!wallet, Q!overlap
<1>2. WalletTrue /\ tip \in Nat /\ newest \in Nat /\ Len(history) \in Nat
  <2>1. history \in Seq(TxType)
    BY LedgerAssumption DEF TxType
  <2>2. Len(history) \in Nat
    BY <2>1
  <2> QED BY <2>2 DEF WalletTrue
<1> DEFINE c == Q!BeginListing
<1>3. /\ c \in ListRec /\ c.pc = "tip" /\ c.until = newest /\ c.upto = tip /\ c.list = {}
      /\ c.older = {} /\ c.todo = <<>> /\ c.open = <<>> /\ c.before = Len(history) + 1
  BY <1>2 DEF Q!BeginListing, ListRec, Listings
<1> HIDE DEF c
<1>4. \A j \in 1..tip : ~(j >= c.before)
  BY <1>2, <1>3 DEF WalletTrue
<1>5. ListsOn(c)
  BY <1>2, <1>3, <1>4 DEF ListsOn, Floor
<1>6. ListsOn(listing)' /\ ~Q!Ended(listing)' /\ listing' \in ListRec
  BY <1>1, <1>3, <1>5 DEF ListsOn, c, Q!Ended
<1>7. ListingTrue'
  BY <1>1, <1>3, <1>6 DEF ListingTrue, Listings, c
<1>8. StrayTrue'
  BY <1>1, <1>3 DEF StrayTrue, ListsOn, Q!Ended, c
<1> QED BY <1>1, <1>7, <1>8 DEF WalletTrue, LastTrue

LEMMA ListPageKeeps ==
    ASSUME LedgerInv, ~overwritten, Q!ListPage
    PROVE  LedgerInv'
<1> USE DEF LedgerInv
<1>0. PICK c : c = Q!NextPage(listing)
  OBVIOUS
<1>1. /\ UNCHANGED <<history, tip, read, stray, last>>
      /\ listing.pc \in Listings
      /\ \/ /\ Q!Ended(c) /\ Q!Listed(c) /\ pending' \in Q!ToRead(listed')
            /\ overtaken' = (IF stray = Q!NoPage THEN {} ELSE {"stray"})
            /\ overwritten' = ("load" \in overtaken)
            /\ listing' = [pc |-> "reading", upto |-> c.upto, begun |-> FALSE]
         \/ /\ listing' = c /\ UNCHANGED <<listed, newest, cursors, pending, overtaken>>
            /\ ~Q!Ended(c)
  BY <1>0 DEF Q!ListPage, Q!Lists, Q!Overtakes, Q!overlap, Q!wallet, Listings
<1>2. /\ WalletTrue /\ listing \in ListRec /\ ~Q!Ended(listing)
      /\ "load" \notin overtaken => ListsOn(listing)
  BY <1>1 DEF ListingTrue
<1>3. c \in ListRec /\ c.pc \in Listings /\ ("load" \notin overtaken => ListsOn(c))
  <2>1. c \in ListRec
    BY <1>0, <1>2, NextPageRec
  <2>2. "load" \notin overtaken => ListsOn(c)
    BY <1>0, <1>1, <1>2, NextPageLists
  <2> QED BY <2>1, <2>2 DEF ListRec
<1>4. LastTrue'
  BY <1>1 DEF LastTrue
<1>5. CASE /\ Q!Ended(c) /\ Q!Listed(c) /\ pending' \in Q!ToRead(listed')
           /\ overtaken' = (IF stray = Q!NoPage THEN {} ELSE {"stray"})
           /\ overwritten' = ("load" \in overtaken)
           /\ listing' = [pc |-> "reading", upto |-> c.upto, begun |-> FALSE]
  <2> SUFFICES ASSUME ~overwritten' PROVE LedgerInv'
    BY <1>1
  <2>1. WalletTrue' /\ Reads([pc |-> "reading", upto |-> c.upto, begun |-> FALSE])'
    BY <1>1, <1>2, <1>3, <1>5, ListedKeeps
  <2>2. listing'.pc = "reading" /\ Reads(listing)'
    BY <1>5, <2>1 DEF Reads
  <2>3. ListingTrue'
    BY <2>2 DEF ListingTrue, Listings
  <2>4. StrayTrue'
    BY <1>1, <1>5 DEF StrayTrue
  <2> QED BY <1>1, <1>4, <2>1, <2>3, <2>4
<1>6. CASE /\ listing' = c /\ UNCHANGED <<listed, newest, cursors, pending, overtaken>>
           /\ ~Q!Ended(c)
  <2>1. WalletTrue'
    BY <1>1, <1>2, <1>6 DEF WalletTrue
  <2>2. listing' \in ListRec /\ ~Q!Ended(listing)'
    BY <1>3, <1>6 DEF Q!Ended
  <2>3. "load" \notin overtaken => ListsOn(listing)'
    BY <1>1, <1>3, <1>6 DEF ListsOn
  <2>4. ListingTrue'
    BY <2>2, <2>3, <1>3, <1>6 DEF ListingTrue, Listings
  <2>5. StrayTrue'
    BY <1>1, <1>3, <1>6 DEF StrayTrue, ListsOn, Q!Ended, Listings
  <2> QED BY <1>1, <1>4, <2>1, <2>4, <2>5
<1> QED BY <1>1, <1>5, <1>6

LEMMA StrayPageKeeps ==
    ASSUME LedgerInv, ~overwritten, Q!StrayPage
    PROVE  LedgerInv'
<1> USE DEF LedgerInv
<1>0. PICK c : c = Q!NextPage(stray)
  OBVIOUS
<1>1. /\ UNCHANGED <<history, tip, read, listing, pending, last>> /\ stray # Q!NoPage
      /\ \/ /\ Q!Ended(c) /\ Q!Listed(c) /\ stray' = Q!NoPage
            /\ overtaken' = (IF Q!Lists(listing) THEN {"load"} ELSE {})
            /\ overwritten' = ("stray" \in overtaken)
         \/ ~Q!Ended(c) /\ stray' = c /\ UNCHANGED <<listed, newest, cursors, overtaken>>
         \/ /\ stray' = Q!NoPage /\ overtaken' = overtaken \ {"stray"}
            /\ UNCHANGED <<listed, newest, cursors>>
  BY <1>0 DEF Q!StrayPage, Q!Overtakes, Q!overlap, Q!wallet
<1>2. WalletTrue /\ ListingTrue /\ StrayTrue
  OBVIOUS
<1>3. "stray" \notin overtaken => ListsOn(c) /\ c.pc \in Listings
  BY <1>0, <1>1, <1>2, NextPageLists DEF StrayTrue
<1>4. LastTrue'
  BY <1>1 DEF LastTrue
<1>5. CASE /\ Q!Ended(c) /\ Q!Listed(c) /\ stray' = Q!NoPage
           /\ overtaken' = (IF Q!Lists(listing) THEN {"load"} ELSE {})
           /\ overwritten' = ("stray" \in overtaken)
  <2> SUFFICES ASSUME ~overwritten' PROVE LedgerInv'
    BY <1>1
  <2>1. WalletTrue'
    BY <1>1, <1>2, <1>3, <1>5, ListedKeeps
  <2>2. listing.pc # "reading"
    BY <1>1, <1>2, <1>5 DEF StrayTrue
  <2>3. listing.pc \in Listings => "load" \in overtaken'
    BY <1>5 DEF Q!Lists, Listings
  <2>4. ListingTrue'
    BY <1>1, <1>2, <2>2, <2>3 DEF ListingTrue, Q!Ended
  <2> QED BY <1>1, <1>4, <1>5, <2>1, <2>4 DEF StrayTrue
<1>6. CASE ~Q!Ended(c) /\ stray' = c /\ UNCHANGED <<listed, newest, cursors, overtaken>>
  <2>1. WalletTrue' /\ ListingTrue'
    BY <1>1, <1>2, <1>6 DEF WalletTrue, ListingTrue, ListsOn, Reads, Q!Ended
  <2>2. "stray" \notin overtaken => ListsOn(stray)' /\ ~Q!Ended(stray)' /\ stray'.pc \in Listings
    BY <1>1, <1>3, <1>6 DEF ListsOn, Q!Ended
  <2>3. StrayTrue'
    BY <1>1, <1>2, <1>6, <2>2 DEF StrayTrue
  <2> QED BY <1>1, <1>4, <2>1, <2>3
<1>7. CASE /\ stray' = Q!NoPage /\ overtaken' = overtaken \ {"stray"}
           /\ UNCHANGED <<listed, newest, cursors>>
  <2>1. "load" \in overtaken' <=> "load" \in overtaken
    BY <1>7
  <2>2. WalletTrue' /\ ListingTrue'
    BY <1>1, <1>2, <1>7, <2>1 DEF WalletTrue, ListingTrue, ListsOn, Reads, Q!Ended
  <2> QED BY <1>1, <1>4, <1>7, <2>2 DEF StrayTrue
<1> QED BY <1>1, <1>5, <1>6, <1>7

LEMMA ListFailsKeeps ==
    ASSUME LedgerInv, ~overwritten, Q!ListFails
    PROVE  LedgerInv'
<1> USE DEF LedgerInv
<1>1. /\ UNCHANGED <<history, tip, listed, read, newest, cursors, last>>
      /\ listing' = Q!NoPage /\ pending' = <<>>
      /\ \/ overtaken' = overtaken \ {"load"} /\ stray' = stray
         \/ /\ listing.pc \in Listings /\ stray' = listing
            /\ overtaken' = (IF "load" \in overtaken THEN {"stray"} ELSE {})
  BY DEF Q!ListFails, Q!Lists, Q!wallet, Listings
<1>2. Q!NoPage.pc = "none"
  BY DEF Q!NoPage
<1>3. WalletTrue' /\ LastTrue' /\ ListingTrue'
  BY <1>1, <1>2 DEF WalletTrue, LastTrue, ListingTrue, Listings
<1>4. CASE overtaken' = overtaken \ {"load"} /\ stray' = stray
  <2>1. "stray" \in overtaken' <=> "stray" \in overtaken
    BY <1>4
  <2>2. StrayTrue'
    BY <1>1, <1>2, <1>4, <2>1 DEF StrayTrue, ListsOn, Q!Ended
  <2> QED BY <1>1, <1>3, <2>2
<1>5. CASE /\ listing.pc \in Listings /\ stray' = listing
           /\ overtaken' = (IF "load" \in overtaken THEN {"stray"} ELSE {})
  <2>1. "stray" \notin overtaken' => ListsOn(listing) /\ ~Q!Ended(listing)
    BY <1>5 DEF ListingTrue
  <2>2. StrayTrue'
    BY <1>1, <1>2, <1>5, <2>1 DEF StrayTrue, ListsOn, Q!Ended
  <2> QED BY <1>1, <1>3, <2>2
<1> QED BY <1>1, <1>4, <1>5

LEMMA ReadOneKeeps ==
    ASSUME LedgerInv, ~overwritten, Q!ReadOne
    PROVE  LedgerInv'
<1> USE DEF LedgerInv
<1>1. /\ UNCHANGED <<history, tip, listed, newest, cursors, stray, last, overtaken>>
      /\ listing.pc = "reading" /\ pending # <<>> /\ pending' = Tail(pending)
      /\ read' \in {read, read \cup {Head(pending)}}
      /\ listing' = [listing EXCEPT !.begun = TRUE]
  BY DEF Q!ReadOne, Q!wallet, Q!overlap
<1>2. WalletTrue /\ Reads(listing) /\ pending \in Seq(listed)
  BY <1>1 DEF ListingTrue, WalletTrue
<1>3. Head(pending) \in listed /\ Tail(pending) \in Seq(listed)
  BY <1>1, <1>2, HeadTailProperties
<1>4. WalletTrue'
  BY <1>1, <1>2, <1>3 DEF WalletTrue
<1>5. listing'.pc = "reading" /\ Reads(listing)'
  <2>1. /\ listing' \in [pc : {"reading"}, upto : Nat, begun : BOOLEAN]
        /\ listing'.upto = listing.upto /\ listing'.pc = "reading"
    BY <1>1, <1>2 DEF Reads
  <2> QED BY <2>1, <1>1, <1>2 DEF Reads
<1>6. ListingTrue' /\ LastTrue'
  BY <1>1, <1>5 DEF ListingTrue, LastTrue, Listings
<1>7. StrayTrue'
  BY <1>1 DEF StrayTrue
<1> QED BY <1>1, <1>4, <1>6, <1>7

LEMMA EndLoadKeeps ==
    ASSUME LedgerInv, ~overwritten, Q!EndLoad
    PROVE  LedgerInv'
<1> USE DEF LedgerInv
<1>1. /\ UNCHANGED <<history, tip, listed, read, newest, cursors, stray, overtaken>>
      /\ listing.pc = "reading" /\ listing' = Q!NoPage /\ pending' = <<>>
  BY DEF Q!EndLoad, Q!wallet, Q!overlap
<1>2. WalletTrue /\ Reads(listing) /\ read \subseteq 1..tip
  BY <1>1 DEF ListingTrue, WalletTrue
<1>3. WalletTrue'
  BY <1>1, <1>2 DEF WalletTrue
<1>4. ListingTrue' /\ StrayTrue'
  BY <1>1 DEF ListingTrue, StrayTrue, Listings, Q!NoPage
<1>5. /\ last'.figures = FiguresOf(history, read) /\ last'.upto = listing.upto
      /\ last'.complete = (listed \ read = {} /\ cursors = <<>>)
  BY SummaryIs DEF Q!EndLoad, Q!Unread
<1>6. Within(FiguresOf(history, read), FiguresOf(history, 1..tip))
  BY <1>2, FiguresGrow
<1>7. ASSUME listed \ read = {}, cursors = <<>>
      PROVE  Within(FiguresOf(history, 1..listing.upto), FiguresOf(history, read))
  <2>1. \A j \in 1..listing.upto : j \in listed
    BY <1>2, <1>7, NoRanges DEF Reads
  <2>2. 1..listing.upto \subseteq read
    BY <2>1, <1>7
  <2> QED BY <2>2, FiguresGrow
<1>8. LastTrue'
  BY <1>1, <1>5, <1>6, <1>7 DEF LastTrue
<1> QED BY <1>1, <1>3, <1>4, <1>8

LEMMA LedgerLandKeeps ==
    ASSUME LedgerInv, ~overwritten, Q!Land
    PROVE  LedgerInv'
<1> USE DEF LedgerInv
<1>1. /\ UNCHANGED <<history, listed, read, newest, cursors, listing, stray, pending, last, overtaken>>
      /\ tip < Len(history) /\ tip' = tip + 1
  BY DEF Q!Land, Q!wallet, Q!overlap
<1>2. WalletTrue /\ tip \in Nat /\ Len(history) \in Nat
  <2>1. history \in Seq(TxType)
    BY LedgerAssumption DEF TxType
  <2>2. Len(history) \in Nat
    BY <2>1
  <2> QED BY <2>2 DEF WalletTrue
<1>3. 1..tip \subseteq 1..tip' /\ \A j \in 1..tip' : j \in 1..tip \/ j = tip + 1
  BY <1>1, <1>2
<1>4. WalletTrue'
  <2>1. tip' \in 0..Len(history) /\ newest \in 0..tip' /\ listed \subseteq 1..tip'
    BY <1>1, <1>2, <1>3 DEF WalletTrue
  <2> QED BY <2>1, <1>1, <1>2 DEF WalletTrue
<1>5. ASSUME NEW c, ListsOn(c), c \in {listing, stray}
      PROVE  /\ c \in ListRec /\ c.until = newest' /\ c.upto <= tip'
             /\ c.list \subseteq 1..tip' /\ c.older \subseteq 1..tip'
             /\ c.pc = "tip" => c.todo = <<>> /\ c.open = <<>> /\ c.older = {}
             /\ \A j \in 1..tip' :
                   j >= Floor(c) /\ (j <= c.upto \/ \E i \in c.list : j <= i) => j \in c.list
             /\ c.pc # "tip" => \A j \in 1..newest' :
                   j \in listed' \cup c.older \/ InSome(c.open, j) \/ InSome(c.todo, j)
  <2>1. /\ c.upto \in Nat /\ c.upto <= tip /\ c.list \subseteq 1..tip /\ c.older \subseteq 1..tip
    BY <1>5 DEF ListsOn, ListRec
  <2>2. \A j \in 1..tip' : j <= c.upto \/ (\E i \in c.list : j <= i) => j \in 1..tip
    BY <2>1, <1>2, <1>3
  <2>3. c.upto <= tip' /\ c.list \subseteq 1..tip' /\ c.older \subseteq 1..tip'
    BY <2>1, <1>1, <1>2, <1>3
  <2> QED BY <2>2, <2>3, <1>1, <1>5 DEF ListsOn
<1>6. Reads(listing) => Reads(listing)'
  BY <1>1, <1>2 DEF Reads
<1>7. ListingTrue' /\ StrayTrue'
  <2>1. ListsOn(listing) => ListsOn(listing)'
    BY <1>1, <1>5 DEF ListsOn, Floor
  <2>2. ListsOn(stray) => ListsOn(stray)'
    BY <1>1, <1>5 DEF ListsOn, Floor
  <2> QED BY <2>1, <2>2, <1>1, <1>6 DEF ListingTrue, StrayTrue, Q!Ended
<1>8. LastTrue'
  <2>1. Within(FiguresOf(history, 1..tip), FiguresOf(history, 1..tip'))
    BY <1>3, FiguresGrow
  <2> QED BY <2>1, <1>1, WithinWithin DEF LastTrue
<1> QED BY <1>1, <1>4, <1>7, <1>8

LEMMA LedgerStep ==
    ASSUME LedgerInv, [Q!Next]_listVars
    PROVE  LedgerInv'
<1>1. CASE UNCHANGED listVars
  <2>1. UNCHANGED <<history, tip, listed, read, newest, cursors, listing, stray, pending, last,
                    overtaken, overwritten>>
    BY <1>1 DEF listVars
  <2> QED BY <2>1 DEF LedgerInv, WalletTrue, ListingTrue, StrayTrue, LastTrue, ListsOn, Reads, Q!Ended
\* Once an overtaken listing has ended, nothing is claimed any more.
<1>2. CASE Q!Next /\ overwritten
  <2>1. history' = history /\ overwritten'
    BY <1>2 DEF Q!Next, Q!Load, Q!BeginLoad, Q!ListPage, Q!ReadOne, Q!EndLoad, Q!StrayPage,
                Q!ListFails, Q!Land, Q!Overtakes, Q!overlap
  <2> QED BY <2>1 DEF LedgerInv
<1>3. CASE Q!Next /\ ~overwritten
  BY <1>3, BeginLoadKeeps, ListPageKeeps, StrayPageKeeps, ListFailsKeeps, ReadOneKeeps, EndLoadKeeps,
     LedgerLandKeeps DEF Q!Next, Q!Load
<1> QED BY <1>1, <1>2, <1>3

-----------------------------------------------------------------------------
(* The theorems about the ledger.                                          *)

\* However a wallet's listings are cut off, fail, are left behind and are resumed, and whatever lands
\* meanwhile: nothing read was not listed and nothing below the newest place listed is forgotten,
\* until a listing writes its ranges over those another one wrote since it began (quantp.mjs:880).
THEOREM LedgerAccounted == PartsSpec => []LedgerInv
<1>1. PartsInit => LedgerInv
  BY LedgerStarts DEF PartsInit
<1>2. LedgerInv /\ [PartsNext]_<<part, vars, readVars, listVars>> => LedgerInv'
  <2> SUFFICES ASSUME LedgerInv, [PartsNext]_<<part, vars, readVars, listVars>> PROVE LedgerInv'
    OBVIOUS
  <2>1. [Q!Next]_listVars
    BY DEF PartsNext
  <2> QED BY <2>1, LedgerStep
<1> QED BY <1>1, <1>2, PTL DEF PartsSpec

\* The lists of payouts, buybacks and burns never claim too much, and complete they claim all that
\* had landed when their listing began: for every history, page size, cut of pages and of reads,
\* until a listing writes its ranges over those another one wrote since it began (quantp.mjs:880).
THEOREM FiguresStayTrue == PartsSpec => []FiguresTrue
<1>1. LedgerInv => FiguresTrue
  <2> SUFFICES ASSUME LedgerInv, last.pc = "loaded", ~overwritten
               PROVE  /\ LET f == last.figures  g == Q!Summary(1..tip)
                         IN f.paid <= g.paid /\ f.burned <= g.burned /\ f.bought <= g.bought
                      /\ last.complete =>
                            LET f == Q!Summary(1..last.upto)  g == last.figures
                            IN f.paid <= g.paid /\ f.burned <= g.burned /\ f.bought <= g.bought
    BY DEF FiguresTrue, Q!FiguresTrue
  <2>1. LastTrue
    BY DEF LedgerInv
  <2> QED BY <2>1, SummaryIs DEF LastTrue, Within
<1> QED BY <1>1, LedgerAccounted, PTL

=============================================================================
