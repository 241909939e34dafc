---------------------------- MODULE ServerProofs ----------------------------
(***************************************************************************)
(* What requests may store, spend and read, for any number of visitors,    *)
(* instances, requests, blobs and keys and any limits: the properties of   *)
(* MCServer, each from an inductive invariant of the part it is about.     *)
(***************************************************************************)
EXTENDS MCServer, Sequences, FiniteSetTheorems, TLAPS

-----------------------------------------------------------------------------
(* A sum over a finite set, as the number of its units.                    *)

Units(S, f) == UNION {{x} \X (1..f[x]) : x \in S}
Total(S, f) == Cardinality(Units(S, f))

LEMMA UpTo ==
    ASSUME NEW n \in Nat
    PROVE  IsFiniteSet(1..n) /\ Cardinality(1..n) = n
<1>1. IsFiniteSet(1..n) /\ Cardinality(1..n) = IF 1 > n THEN 0 ELSE n - 1 + 1
  BY FS_Interval
<1> QED BY <1>1

LEMMA UnitsFinite ==
    ASSUME NEW S, IsFiniteSet(S), NEW f, \A x \in S : f[x] \in Nat
    PROVE  IsFiniteSet(Units(S, f)) /\ Total(S, f) \in Nat
<1> DEFINE g == [x \in S |-> {x} \X (1..f[x])]
           T == {{x} \X (1..f[x]) : x \in S}
<1>1. g \in Surjection(S, T)
  BY DEF Surjection
<1>2. IsFiniteSet(T)
  BY <1>1, FS_Surjection
<1>3. \A U \in T : IsFiniteSet(U)
  <2> TAKE U \in T
  <2>1. PICK x \in S : U = {x} \X (1..f[x])
    OBVIOUS
  <2>2. IsFiniteSet({x}) /\ IsFiniteSet(1..f[x])
    BY FS_Singleton, UpTo
  <2> QED BY <2>1, <2>2, FS_Product
<1> QED BY <1>2, <1>3, FS_UNION, FS_CardinalityType DEF Units, Total

LEMMA UnitsOf ==
    ASSUME NEW S, NEW f, NEW p
    PROVE  p \in Units(S, f) <=> \E x \in S : \E n \in 1..f[x] : p = <<x, n>>
  BY DEF Units

LEMMA TotalSame ==
    ASSUME NEW S, NEW f, NEW g, \A x \in S : f[x] = g[x]
    PROVE  Total(S, f) = Total(S, g)
<1>1. \A p : p \in Units(S, f) <=> p \in Units(S, g)
  BY UnitsOf
<1> QED BY <1>1 DEF Total

LEMMA TotalUnion ==
    ASSUME NEW S, NEW T, IsFiniteSet(S), IsFiniteSet(T), S \cap T = {},
           NEW f, \A x \in S \cup T : f[x] \in Nat
    PROVE  Total(S \cup T, f) = Total(S, f) + Total(T, f)
<1>1. Units(S \cup T, f) = Units(S, f) \cup Units(T, f)
  <2>1. \A p : p \in Units(S \cup T, f) <=> p \in Units(S, f) \/ p \in Units(T, f)
    BY UnitsOf
  <2> QED BY <2>1
<1>2. Units(S, f) \cap Units(T, f) = {}
  <2>1. ASSUME NEW p, p \in Units(S, f), p \in Units(T, f) PROVE FALSE
    <3>1. PICK x \in S : \E n \in 1..f[x] : p = <<x, n>>
      BY <2>1, UnitsOf
    <3>2. PICK y \in T : \E n \in 1..f[y] : p = <<y, n>>
      BY <2>1, UnitsOf
    <3>3. x = y
      BY <3>1, <3>2
    <3> QED BY <3>3
  <2> QED BY <2>1
<1>3. IsFiniteSet(Units(S, f)) /\ IsFiniteSet(Units(T, f))
      /\ Total(S, f) \in Nat /\ Total(T, f) \in Nat
  BY UnitsFinite
<1>4. Cardinality(Units(S, f) \cup Units(T, f))
        = Cardinality(Units(S, f)) + Cardinality(Units(T, f)) - Cardinality({})
  BY <1>2, <1>3, FS_Union
<1>5. Cardinality({}) = 0
  BY FS_EmptySet
<1>6. Cardinality(Units(S, f)) \in Nat /\ Cardinality(Units(T, f)) \in Nat
  BY <1>3 DEF Total
<1>7. Cardinality(Units(S \cup T, f)) = Cardinality(Units(S, f) \cup Units(T, f))
  BY <1>1, Zenon
<1> QED BY <1>4, <1>5, <1>6, <1>7 DEF Total

LEMMA TotalOne ==
    ASSUME NEW x, NEW f, f[x] \in Nat
    PROVE  Total({x}, f) = f[x]
<1>1. Units({x}, f) = {x} \X (1..f[x])
  BY DEF Units
<1>2. IsFiniteSet({x}) /\ Cardinality({x}) = 1
  BY FS_Singleton
<1>3. IsFiniteSet(1..f[x]) /\ Cardinality(1..f[x]) = f[x]
  BY UpTo
<1>4. Cardinality({x} \X (1..f[x])) = Cardinality({x}) * Cardinality(1..f[x])
  BY <1>2, <1>3, FS_Product
<1>5. 1 * f[x] = f[x]
  OBVIOUS
<1> QED BY <1>1, <1>2, <1>3, <1>4, <1>5 DEF Total

LEMMA TotalEmpty == ASSUME NEW f PROVE Total({}, f) = 0
  BY FS_EmptySet DEF Total, Units

LEMMA TotalZero ==
    ASSUME NEW S, IsFiniteSet(S), NEW f, \A x \in S : f[x] = 0
    PROVE  Total(S, f) = 0
<1>1. \A p : p \notin Units(S, f)
  BY UnitsOf
<1>2. Units(S, f) = {}
  BY <1>1
<1> QED BY <1>2, FS_EmptySet DEF Total

\* One summand apart.
LEMMA TotalSplit ==
    ASSUME NEW S, IsFiniteSet(S), NEW f, \A y \in S : f[y] \in Nat, NEW x \in S
    PROVE  Total(S, f) = Total(S \ {x}, f) + f[x] /\ Total(S \ {x}, f) \in Nat
<1>1. IsFiniteSet(S \ {x}) /\ IsFiniteSet({x})
  BY FS_Difference, FS_Singleton
<1>2. (S \ {x}) \cup {x} = S /\ (S \ {x}) \cap {x} = {}
  OBVIOUS
<1>3. Total((S \ {x}) \cup {x}, f) = Total(S \ {x}, f) + Total({x}, f)
  BY <1>1, <1>2, TotalUnion
<1>4. Total({x}, f) = f[x]
  BY TotalOne
<1>5. Total(S \ {x}, f) \in Nat
  BY <1>1, UnitsFinite
<1> QED BY <1>2, <1>3, <1>4, <1>5

\* One summand changes: so does the sum, by as much.
LEMMA TotalChanges ==
    ASSUME NEW S, IsFiniteSet(S), NEW f, NEW g, NEW x \in S,
           \A y \in S : f[y] \in Nat /\ g[y] \in Nat,
           \A y \in S \ {x} : f[y] = g[y]
    PROVE  Total(S, g) = Total(S, f) - f[x] + g[x] /\ f[x] <= Total(S, f)
<1>1. Total(S, f) = Total(S \ {x}, f) + f[x] /\ Total(S \ {x}, f) \in Nat
  BY TotalSplit
<1>2. Total(S, g) = Total(S \ {x}, g) + g[x]
  BY TotalSplit
<1>3. Total(S \ {x}, f) = Total(S \ {x}, g)
  BY TotalSame
<1> QED BY <1>1, <1>2, <1>3

\* A part is no more than the whole.
-----------------------------------------------------------------------------
(* Request limits: what an instance knows of a bucket was charged to it.   *)

Entry  == [total : Nat, unsent : Nat]
Cmd    == [key : L!Bucket, had : Nat, sent : Nat, reply : Nat]
ReqRec == [ id : L!Requests, by : Visitor, at : Instance, cost : Cost,
            pc : {"own", "all", "out", "done", "refused"},
            sending : SUBSET Cmd, over : SUBSET L!Bucket, relayed : BOOLEAN ]

LimitsType ==
    /\ local \in [Instance -> [L!Bucket -> Entry]]
    /\ stored \in [L!Bucket -> Nat] /\ real \in [L!Bucket -> Nat] /\ doubled \in [L!Bucket -> Nat]
    /\ DOMAIN req = L!Requests
    /\ \A r \in L!Requests : req[r] = L!Unborn \/ (req[r] \in ReqRec /\ req[r].id = r)

\* A request sends one command per bucket, and its own buckets' before the shared one's.
SendingOK ==
    \A r \in L!Requests :
        /\ req[r].sending # {} => req[r].pc \in {"own", "all"}
        /\ \A s, t \in req[r].sending : s.key = t.key => s = t
        /\ req[r].pc = "own" => \A s \in req[r].sending : s.key # AllKey

UnsentOf(k) == [i \in Instance |-> local[i][k].unsent]

\* What a request's commands still have to add to a bucket.
Flies(sending, k) ==
    LET asked == {s \in sending : s.key = k /\ s.reply = 0}
    IN IF asked = {} THEN 0 ELSE (CHOOSE s \in asked : TRUE).sent

FlyingOf(k) == [r \in L!Requests |-> Flies(req[r].sending, k)]

\* Whatever was charged is in the store, unsent, or on its way.
Counts ==
    \A k \in L!Bucket :
        stored[k] + Total(Instance, UnsentOf(k)) + Total(L!Requests, FlyingOf(k))
            = real[k] + doubled[k]

\* Nobody heard of more than the store holds, nor had when it sent a command.
Heard ==
    /\ \A i \in Instance, k \in L!Bucket : local[i][k].total <= stored[k]
    /\ \A r \in L!Requests : \A s \in req[r].sending :
          s.reply <= stored[s.key] /\ s.had <= stored[s.key]

LimitsInv == LimitsType /\ SendingOK /\ Counts /\ Heard /\ L!RefusalEarned

LEMMA RequestsFinite == IsFiniteSet(L!Requests)
<1>1. MaxRequests \in Nat
  BY LimitsAssumption
<1> QED BY <1>1, UpTo DEF L!Requests

LEMMA BucketFacts ==
    /\ \A v \in Visitor : L!OwnBuckets(v) \subseteq L!Bucket /\ AllKey \notin L!OwnBuckets(v)
    /\ AllKey \in L!Bucket
    /\ \A k : L!LimitOf(k) \in Nat
<1>1. \A v \in Visitor : PrefixOf[v] \in Prefix
  BY LimitsAssumption
<1>2. \A v \in Visitor : L!OwnBuckets(v) \subseteq L!Bucket /\ AllKey \notin L!OwnBuckets(v)
  BY <1>1, LimitsAssumption DEF L!OwnBuckets, L!Bucket
<1>3. \A k : L!LimitOf(k) \in Nat
  BY LimitsAssumption DEF L!LimitOf
<1> QED BY <1>2, <1>3 DEF L!Bucket

LEMMA FliesOne ==
    ASSUME NEW sending, NEW s \in sending, \A t \in sending : t.key = s.key => t = s
    PROVE  Flies(sending, s.key) = IF s.reply = 0 THEN s.sent ELSE 0
<1> DEFINE asked == {t \in sending : t.key = s.key /\ t.reply = 0}
<1>1. asked = IF s.reply = 0 THEN {s} ELSE {}
  OBVIOUS
<1>2. Flies(sending, s.key) = IF asked = {} THEN 0 ELSE (CHOOSE t \in asked : TRUE).sent
  BY DEF Flies
<1> HIDE DEF asked
<1> QED BY <1>1, <1>2

LEMMA FliesNone ==
    ASSUME NEW sending, NEW k, \A t \in sending : t.key # k
    PROVE  Flies(sending, k) = 0
  BY DEF Flies

LEMMA FliesSame ==
    ASSUME NEW A, NEW B, NEW k, \A t : t.key = k => (t \in A <=> t \in B)
    PROVE  Flies(A, k) = Flies(B, k)
<1> DEFINE Of(S) == {t \in S : t.key = k /\ t.reply = 0}
           F(asked) == IF asked = {} THEN 0 ELSE (CHOOSE s \in asked : TRUE).sent
<1>1. Of(A) = Of(B)
  OBVIOUS
<1>2. Flies(A, k) = F(Of(A)) /\ Flies(B, k) = F(Of(B))
  BY DEF Flies
<1> HIDE DEF Of, F
<1> QED BY <1>1, <1>2, Zenon

LEMMA FliesNat ==
    ASSUME NEW sending \in SUBSET Cmd, NEW k
    PROVE  Flies(sending, k) \in Nat
<1> DEFINE asked == {t \in sending : t.key = k /\ t.reply = 0}
<1>1. Flies(sending, k) = IF asked = {} THEN 0 ELSE (CHOOSE t \in asked : TRUE).sent
  BY DEF Flies
<1>2. \A t \in asked : t.sent \in Nat
  BY DEF Cmd
<1> HIDE DEF asked
<1> QED BY <1>1, <1>2

LEMMA SummandsAreNat ==
    ASSUME LimitsType, NEW k \in L!Bucket
    PROVE  /\ \A i \in Instance : UnsentOf(k)[i] = local[i][k].unsent /\ UnsentOf(k)[i] \in Nat
           /\ \A r \in L!Requests : FlyingOf(k)[r] \in Nat
<1>1. \A i \in Instance : UnsentOf(k)[i] = local[i][k].unsent /\ UnsentOf(k)[i] \in Nat
  BY DEF LimitsType, UnsentOf, Entry
<1>2. \A r \in L!Requests : req[r].sending \in SUBSET Cmd
  BY DEF LimitsType, L!Unborn, ReqRec
<1>3. \A r \in L!Requests : FlyingOf(k)[r] \in Nat
  BY <1>2, FliesNat DEF FlyingOf
<1> QED BY <1>1, <1>3

\* What an instance counts of a bucket is no more than was charged to it.
LEMMA KnownIsReal ==
    ASSUME LimitsType, Counts, NEW k \in L!Bucket, NEW i \in Instance
    PROVE  /\ stored[k] + local[i][k].unsent <= real[k] + doubled[k]
           /\ \A r \in L!Requests :
                 stored[k] + local[i][k].unsent + FlyingOf(k)[r] <= real[k] + doubled[k]
<1>1. IsFiniteSet(Instance) /\ IsFiniteSet(L!Requests)
  BY LimitsAssumption, RequestsFinite
<1>2. /\ \A j \in Instance : UnsentOf(k)[j] = local[j][k].unsent /\ UnsentOf(k)[j] \in Nat
      /\ \A r \in L!Requests : FlyingOf(k)[r] \in Nat
  BY SummandsAreNat
<1>3. Total(Instance, UnsentOf(k)) \in Nat /\ Total(L!Requests, FlyingOf(k)) \in Nat
  BY <1>1, <1>2, UnitsFinite
<1>4. UnsentOf(k)[i] <= Total(Instance, UnsentOf(k))
  BY <1>1, <1>2, TotalChanges
<1>5. \A r \in L!Requests : FlyingOf(k)[r] <= Total(L!Requests, FlyingOf(k))
  BY <1>1, <1>2, TotalChanges
<1>6. stored[k] \in Nat /\ real[k] \in Nat /\ doubled[k] \in Nat
  BY DEF LimitsType
<1>7. stored[k] + Total(Instance, UnsentOf(k)) + Total(L!Requests, FlyingOf(k))
        = real[k] + doubled[k]
  BY DEF Counts
<1> QED BY <1>2, <1>3, <1>4, <1>5, <1>6, <1>7

\* One instance and one request change what they hold of a bucket.
LEMMA CountMoves ==
    ASSUME LimitsType, LimitsType', NEW k \in L!Bucket, NEW i \in Instance, NEW r \in L!Requests,
           \A j \in Instance \ {i} : local'[j][k] = local[j][k],
           \A p \in L!Requests \ {r} : req'[p] = req[p]
    PROVE  /\ Total(Instance, UnsentOf(k)') + Total(L!Requests, FlyingOf(k)')
                  = Total(Instance, UnsentOf(k)) + Total(L!Requests, FlyingOf(k))
                    - local[i][k].unsent + local'[i][k].unsent - FlyingOf(k)[r] + FlyingOf(k)'[r]
           /\ Total(Instance, UnsentOf(k)) \in Nat /\ Total(L!Requests, FlyingOf(k)) \in Nat
           /\ Total(Instance, UnsentOf(k)') \in Nat /\ Total(L!Requests, FlyingOf(k)') \in Nat
           /\ FlyingOf(k)[r] \in Nat /\ FlyingOf(k)'[r] \in Nat
<1>1. IsFiniteSet(Instance) /\ IsFiniteSet(L!Requests)
  BY LimitsAssumption, RequestsFinite
<1>2. /\ \A j \in Instance : UnsentOf(k)[j] = local[j][k].unsent /\ UnsentOf(k)[j] \in Nat
      /\ \A p \in L!Requests : FlyingOf(k)[p] \in Nat
  BY SummandsAreNat
<1>3. \A j \in Instance : UnsentOf(k)'[j] = local'[j][k].unsent /\ UnsentOf(k)'[j] \in Nat
  BY DEF LimitsType, UnsentOf, Entry
<1>4a. ASSUME NEW p \in L!Requests PROVE req'[p].sending \in SUBSET Cmd
  <2>1. req'[p] = L!Unborn \/ req'[p] \in ReqRec
    BY DEF LimitsType
  <2> QED BY <2>1 DEF L!Unborn, ReqRec
<1>4. \A p \in L!Requests : FlyingOf(k)'[p] \in Nat
  BY <1>4a, FliesNat DEF FlyingOf
<1>5. \A p \in L!Requests \ {r} : FlyingOf(k)'[p] = FlyingOf(k)[p]
  BY DEF FlyingOf
<1>6. \A j \in Instance \ {i} : UnsentOf(k)'[j] = UnsentOf(k)[j]
  BY DEF UnsentOf
<1>7. Total(Instance, UnsentOf(k)')
        = Total(Instance, UnsentOf(k)) - UnsentOf(k)[i] + UnsentOf(k)'[i]
  BY <1>1, <1>2, <1>3, <1>6, TotalChanges
<1>8. Total(L!Requests, FlyingOf(k)')
        = Total(L!Requests, FlyingOf(k)) - FlyingOf(k)[r] + FlyingOf(k)'[r]
  <2> DEFINE f == FlyingOf(k)
             g == FlyingOf(k)'
  <2>1. \A p \in L!Requests : f[p] \in Nat /\ g[p] \in Nat
    BY <1>2, <1>4
  <2>2. \A p \in L!Requests \ {r} : f[p] = g[p]
    BY <1>5
  <2> HIDE DEF f, g
  <2>3. Total(L!Requests, g) = Total(L!Requests, f) - f[r] + g[r]
    BY <1>1, <2>1, <2>2, TotalChanges
  <2> QED BY <2>3 DEF f, g
<1>9. Total(Instance, UnsentOf(k)) \in Nat /\ Total(L!Requests, FlyingOf(k)) \in Nat
  BY <1>1, <1>2, UnitsFinite
<1>10. Total(Instance, UnsentOf(k)') \in Nat
  <2> DEFINE f == UnsentOf(k)'
  <2>1. \A j \in Instance : f[j] \in Nat
    BY <1>3
  <2> HIDE DEF f
  <2>2. Total(Instance, f) \in Nat
    BY <1>1, <2>1, UnitsFinite
  <2> QED BY <2>2 DEF f
<1>11. Total(L!Requests, FlyingOf(k)') \in Nat
  <2> DEFINE f == FlyingOf(k)'
  <2>1. \A p \in L!Requests : f[p] \in Nat
    BY <1>4
  <2> HIDE DEF f
  <2>2. Total(L!Requests, f) \in Nat
    BY <1>1, <2>1, UnitsFinite
  <2> QED BY <2>2 DEF f
<1> QED BY <1>2, <1>3, <1>4, <1>7, <1>8, <1>9, <1>10, <1>11

\* A charge counts what it adds, and sends what is due.
LEMMA ChargeKeeps ==
    ASSUME LimitsInv, NEW q \in ReqRec, req[q.id].sending = {},
           NEW keys \in SUBSET L!Bucket, NEW cost \in Cost, NEW pc \in {"own", "all"},
           pc = "own" => AllKey \notin keys,
           L!Charge(q, keys, cost, pc), UNCHANGED <<stored, doubled>>
    PROVE  LimitsInv'
<1> DEFINE i == q.at
           r == q.id
           out == {k \in keys : L!Sends(i, k, cost)}
           sending == {[key |-> k, had |-> local[i][k].total,
                        sent |-> local[i][k].unsent + cost, reply |-> 0] : k \in out}
           over == {k \in keys \ out :
                       local[i][k].total + local[i][k].unsent + cost > L!LimitOf(k)}
<1>1. /\ i \in Instance /\ r \in L!Requests /\ cost \in Nat
      /\ DOMAIN req = L!Requests /\ local \in [Instance -> [L!Bucket -> Entry]]
      /\ stored \in [L!Bucket -> Nat] /\ real \in [L!Bucket -> Nat] /\ doubled \in [L!Bucket -> Nat]
  BY LimitsAssumption DEF LimitsInv, LimitsType, ReqRec
<1>2. local' = [local EXCEPT ![i] = [k \in L!Bucket |->
                     IF k \notin keys THEN local[i][k]
                     ELSE [local[i][k] EXCEPT !.unsent = IF k \in out THEN 0 ELSE @ + cost]]]
  BY DEF L!Charge
<1>2q. req' = [req EXCEPT ![r] = [q EXCEPT !.pc = pc, !.cost = cost, !.sending = sending,
                                           !.over = over]]
  BY DEF L!Charge
<1>2r. real' = [k \in L!Bucket |-> IF k \in keys THEN real[k] + cost ELSE real[k]]
  BY DEF L!Charge
<1>3. \A k \in L!Bucket : local[i][k] \in Entry /\ local[i][k].total \in Nat
                          /\ local[i][k].unsent \in Nat
  BY <1>1 DEF Entry
<1>3a. /\ sending \subseteq Cmd /\ over \subseteq L!Bucket /\ out \subseteq keys /\ over \subseteq keys
       /\ \A s \in sending : s.reply = 0 /\ s.key \in keys /\ s.had = local[i][s.key].total
       /\ \A s, t \in sending : s.key = t.key => s = t
       /\ \A k \in over : local[i][k].total + local[i][k].unsent + cost > L!LimitOf(k)
  BY <1>1, <1>3 DEF Cmd
<1>3c. q.id = r /\ q.at = i
  OBVIOUS
<1> HIDE DEF i, r, out, sending, over
<1>4. /\ \A j \in Instance \ {i} : local'[j] = local[j]
      /\ \A k \in L!Bucket \ keys : local'[i][k] = local[i][k]
      /\ \A k \in keys : local'[i][k] = [total |-> local[i][k].total,
                                unsent |-> IF k \in out THEN 0 ELSE local[i][k].unsent + cost]
      /\ local' \in [Instance -> [L!Bucket -> Entry]]
  <2>1. \A k \in L!Bucket :
           [local[i][k] EXCEPT !.unsent = IF k \in out THEN 0 ELSE @ + cost]
             = [total |-> local[i][k].total,
                unsent |-> IF k \in out THEN 0 ELSE local[i][k].unsent + cost]
    BY <1>3 DEF Entry
  <2>2. \A k \in L!Bucket : (IF k \in out THEN 0 ELSE local[i][k].unsent + cost) \in Nat
    BY <1>1, <1>3
  <2> DEFINE row == [k \in L!Bucket |->
                        IF k \notin keys THEN local[i][k]
                        ELSE [local[i][k] EXCEPT !.unsent = IF k \in out THEN 0 ELSE @ + cost]]
  <2>0. local' = [local EXCEPT ![i] = row]
    BY <1>2
  <2> HIDE DEF row
  <2>3a. /\ \A j \in Instance \ {i} : local'[j] = local[j]
         /\ local'[i] = row
         /\ DOMAIN local' = Instance /\ local' = [j \in Instance |-> local'[j]]
    BY <1>1, <2>0
  <2>3. local'[i] = [k \in L!Bucket |->
                            IF k \notin keys THEN local[i][k]
                            ELSE [local[i][k] EXCEPT !.unsent = IF k \in out THEN 0 ELSE @ + cost]]
    BY <2>3a DEF row
  <2>4. /\ \A k \in L!Bucket \ keys : local'[i][k] = local[i][k]
        /\ \A k \in keys : local'[i][k] = [total |-> local[i][k].total,
                                unsent |-> IF k \in out THEN 0 ELSE local[i][k].unsent + cost]
    BY <2>1, <2>3
  <2>5. ASSUME NEW k \in L!Bucket PROVE local'[i][k] \in Entry
    <3>1. CASE k \in keys
      <4>1. local'[i][k] = [total |-> local[i][k].total,
                            unsent |-> IF k \in out THEN 0 ELSE local[i][k].unsent + cost]
        BY <2>4, <3>1
      <4>2. (IF k \in out THEN 0 ELSE local[i][k].unsent + cost) \in Nat
        BY <2>2
      <4> QED BY <1>3, <4>1, <4>2 DEF Entry
    <3>2. CASE k \notin keys
      BY <1>3, <2>4, <3>2
    <3> QED BY <3>1, <3>2
  <2>6. local'[i] \in [L!Bucket -> Entry]
    BY <2>3, <2>5
  <2>7. \A j \in Instance : local'[j] \in [L!Bucket -> Entry]
    BY <1>1, <2>3a, <2>6
  <2> QED BY <2>3a, <2>4, <2>7
<1>5. /\ DOMAIN req' = L!Requests /\ \A p \in L!Requests \ {r} : req'[p] = req[p]
      /\ req'[r] = [q EXCEPT !.pc = pc, !.cost = cost, !.sending = sending, !.over = over]
  BY <1>1, <1>2q
<1>7. /\ req'[r] \in ReqRec /\ req'[r].id = r /\ req'[r].pc = pc
      /\ req'[r].sending = sending /\ req'[r].over = over
  <2> DEFINE then == [q EXCEPT !.pc = pc, !.cost = cost, !.sending = sending, !.over = over]
  <2>1. sending \in SUBSET Cmd /\ over \in SUBSET L!Bucket
    BY <1>3a
  <2>2. then \in ReqRec /\ then.id = q.id /\ then.pc = pc /\ then.sending = sending /\ then.over = over
    BY <2>1 DEF ReqRec
  <2>3. req'[r] = then
    BY <1>5
  <2> HIDE DEF then
  <2> QED BY <1>3c, <2>2, <2>3
<1>8. \A k \in L!Bucket : real'[k] = IF k \in keys THEN real[k] + cost ELSE real[k]
  BY <1>2r
<1>9. \A k \in L!Bucket : real'[k] \in Nat /\ real[k] <= real'[k]
  BY <1>1, <1>8
<1>10. LimitsType'
  <2>1. real' \in [L!Bucket -> Nat]
    BY <1>1, <1>2r
  <2>2. \A p \in L!Requests : req'[p] = L!Unborn \/ (req'[p] \in ReqRec /\ req'[p].id = p)
    BY <1>5, <1>7 DEF LimitsInv, LimitsType
  <2> QED BY <1>1, <1>4, <1>5, <2>1, <2>2 DEF LimitsType
<1>11. SendingOK'
  <2> SUFFICES ASSUME NEW p \in L!Requests
               PROVE  /\ req'[p].sending # {} => req'[p].pc \in {"own", "all"}
                      /\ \A s, t \in req'[p].sending : s.key = t.key => s = t
                      /\ req'[p].pc = "own" => \A s \in req'[p].sending : s.key # AllKey
    BY DEF SendingOK
  <2>1. CASE p = r
    BY <1>3a, <1>7, <2>1
  <2>2. CASE p # r
    BY <1>5, <2>2 DEF SendingOK, LimitsInv
  <2> QED BY <2>1, <2>2
<1>12. Counts'
  <2> SUFFICES ASSUME NEW k \in L!Bucket
               PROVE  stored[k] + Total(Instance, UnsentOf(k)') + Total(L!Requests, FlyingOf(k)')
                          = real'[k] + doubled[k]
    BY DEF Counts
  <2>1. FlyingOf(k)[r] = 0
    <3>1. Flies({}, k) = 0
      BY FliesNone
    <3> QED BY <1>1, <1>3c, <3>1 DEF FlyingOf
  <2>2. FlyingOf(k)'[r] = IF k \in out THEN local[i][k].unsent + cost ELSE 0
    <3>1. FlyingOf(k)'[r] = Flies(sending, k)
      BY <1>1, <1>7 DEF FlyingOf
    <3>2. CASE k \in out
      <4> DEFINE s == [key |-> k, had |-> local[i][k].total,
                    sent |-> local[i][k].unsent + cost, reply |-> 0]
      <4>1. s \in sending
        BY <3>2 DEF sending
      <4>2. s.key = k /\ s.sent = local[i][k].unsent + cost /\ s.reply = 0
        OBVIOUS
      <4> HIDE DEF s
      <4>3. \A t \in sending : t.key = s.key => t = s
        BY <1>3a, <4>1
      <4>4. Flies(sending, s.key) = IF s.reply = 0 THEN s.sent ELSE 0
        BY <4>1, <4>3, FliesOne
      <4> QED BY <3>1, <3>2, <4>2, <4>4
    <3>3. CASE k \notin out
      <4>1. \A t \in sending : t.key # k
        BY <3>3 DEF sending
      <4> QED BY <3>1, <3>3, <4>1, FliesNone
    <3> QED BY <3>2, <3>3
  <2>3. /\ Total(Instance, UnsentOf(k)') + Total(L!Requests, FlyingOf(k)')
             = Total(Instance, UnsentOf(k)) + Total(L!Requests, FlyingOf(k))
               - local[i][k].unsent + local'[i][k].unsent - FlyingOf(k)[r] + FlyingOf(k)'[r]
        /\ Total(Instance, UnsentOf(k)) \in Nat /\ Total(L!Requests, FlyingOf(k)) \in Nat
        /\ Total(Instance, UnsentOf(k)') \in Nat /\ Total(L!Requests, FlyingOf(k)') \in Nat
    BY <1>1, <1>4, <1>5, <1>10, CountMoves DEF LimitsInv
  <2>4. stored[k] + Total(Instance, UnsentOf(k)) + Total(L!Requests, FlyingOf(k))
            = real[k] + doubled[k]
    BY DEF LimitsInv, Counts
  <2>6. local'[i][k].unsent = IF k \in keys
                              THEN IF k \in out THEN 0 ELSE local[i][k].unsent + cost
                              ELSE local[i][k].unsent
    <3>1. CASE k \in keys
      <4>1. local'[i][k] = [total |-> local[i][k].total,
                            unsent |-> IF k \in out THEN 0 ELSE local[i][k].unsent + cost]
        BY <1>4, <3>1
      <4> QED BY <3>1, <4>1
    <3>2. CASE k \notin keys
      BY <1>4, <3>2
    <3> QED BY <3>1, <3>2
  <2>7. stored[k] \in Nat /\ real[k] \in Nat /\ doubled[k] \in Nat /\ local[i][k].unsent \in Nat
    BY <1>1, <1>3
  <2>8. k \in out => k \in keys
    BY <1>3a
  <2> QED BY <1>1, <1>8, <2>1, <2>2, <2>3, <2>4, <2>6, <2>7, <2>8
<1>13. Heard'
  <2>1. \A j \in Instance, k \in L!Bucket : local'[j][k].total <= stored[k]
    <3> TAKE j \in Instance, k \in L!Bucket
    <3>1. CASE j = i /\ k \in keys
      <4>1. local'[i][k] = [total |-> local[i][k].total,
                            unsent |-> IF k \in out THEN 0 ELSE local[i][k].unsent + cost]
        BY <1>4, <3>1
      <4>2. local'[i][k].total = local[i][k].total
        BY <4>1
      <4> QED BY <3>1, <4>2 DEF LimitsInv, Heard
    <3>2. CASE j = i /\ k \notin keys
      BY <1>4, <3>2 DEF LimitsInv, Heard
    <3>3. CASE j # i
      BY <1>4, <3>3 DEF LimitsInv, Heard
    <3> QED BY <3>1, <3>2, <3>3
  <2>2. ASSUME NEW p \in L!Requests, NEW s \in req'[p].sending
               PROVE  s.reply <= stored[s.key] /\ s.had <= stored[s.key]
    <3>1. CASE p = r
      <4>1. s.reply = 0 /\ s.key \in L!Bucket /\ s.had = local[i][s.key].total
        BY <1>3a, <1>7, <2>2, <3>1
      <4>2. local[i][s.key].total <= stored[s.key] /\ stored[s.key] \in Nat
        BY <1>1, <4>1 DEF LimitsInv, Heard
      <4> QED BY <4>1, <4>2
    <3>2. CASE p # r
      BY <1>5, <2>2, <3>2 DEF LimitsInv, Heard
    <3> QED BY <3>1, <3>2
  <2> QED BY <2>1, <2>2 DEF Heard
<1>14. (L!RefusalEarned)'
  <2> SUFFICES ASSUME NEW p \in L!Requests, NEW k \in req'[p].over
               PROVE  /\ real'[k] + doubled[k] > L!LimitOf(k)
                      /\ k = AllKey => req'[p].pc # "own"
    BY DEF L!RefusalEarned
  <2>1. CASE p = r
    <3>1. k \in L!Bucket /\ k \in keys
          /\ local[i][k].total + local[i][k].unsent + cost > L!LimitOf(k)
      BY <1>3a, <1>7, <2>1
    <3>2. stored[k] + local[i][k].unsent <= real[k] + doubled[k] /\ local[i][k].total <= stored[k]
      BY <1>1, <3>1, KnownIsReal DEF LimitsInv, Heard
    <3>3. real'[k] = real[k] + cost
      BY <1>8, <3>1
    <3>4. /\ stored[k] \in Nat /\ real[k] \in Nat /\ doubled[k] \in Nat /\ L!LimitOf(k) \in Nat
          /\ local[i][k].unsent \in Nat /\ local[i][k].total \in Nat
      BY <1>1, <1>3, <3>1, BucketFacts
    <3>5. real'[k] + doubled[k] > L!LimitOf(k)
      BY <1>1, <3>1, <3>2, <3>3, <3>4
    <3> QED BY <1>7, <2>1, <3>1, <3>5
  <2>2. CASE p # r
    <3>1. req'[p] = req[p] /\ k \in req[p].over
      BY <1>5, <2>2
    <3>2. k \in L!Bucket
      BY <3>1 DEF LimitsInv, LimitsType, ReqRec, L!Unborn
    <3>3. real[k] + doubled[k] > L!LimitOf(k) /\ (k = AllKey => req[p].pc # "own")
      BY <3>1 DEF LimitsInv, L!RefusalEarned
    <3>4. real[k] \in Nat /\ doubled[k] \in Nat /\ L!LimitOf(k) \in Nat
      BY <1>1, <3>2, BucketFacts
    <3>5. real[k] <= real'[k] /\ real'[k] \in Nat
      BY <1>9, <3>2
    <3> QED BY <3>1, <3>3, <3>4, <3>5
  <2> QED BY <2>1, <2>2
<1> QED BY <1>10, <1>11, <1>12, <1>13, <1>14 DEF LimitsInv

\* A request that decides, or is answered, changes nothing but where it stands.
LEMMA StandsKeep ==
    ASSUME LimitsInv, NEW r \in L!Requests, req[r] \in ReqRec, req[r].sending = {},
           NEW pc \in {"out", "done", "refused"}, req' = [req EXCEPT ![r].pc = pc],
           UNCHANGED <<local, stored, real, doubled>>
    PROVE  LimitsInv'
<1>1. DOMAIN req = L!Requests
  BY DEF LimitsInv, LimitsType
<1>2. /\ DOMAIN req' = L!Requests /\ \A p \in L!Requests \ {r} : req'[p] = req[p]
      /\ req'[r] = [req[r] EXCEPT !.pc = pc]
  BY <1>1
<1>3. /\ req'[r] \in ReqRec /\ req'[r].id = req[r].id /\ req'[r].pc = pc
      /\ req'[r].sending = {} /\ req'[r].over = req[r].over
  BY <1>2 DEF ReqRec
<1>4. req[r].id = r
  BY DEF LimitsInv, LimitsType, ReqRec, L!Unborn
<1>5. LimitsType'
  <2>1. \A p \in L!Requests : req'[p] = L!Unborn \/ (req'[p] \in ReqRec /\ req'[p].id = p)
    BY <1>2, <1>3, <1>4 DEF LimitsInv, LimitsType
  <2> QED BY <1>2, <2>1 DEF LimitsInv, LimitsType
<1>6. \A p \in L!Requests : req'[p].sending = req[p].sending /\ req'[p].over = req[p].over
  BY <1>2, <1>3
<1>7. SendingOK'
  <2> SUFFICES ASSUME NEW p \in L!Requests
               PROVE  /\ req'[p].sending # {} => req'[p].pc \in {"own", "all"}
                      /\ \A s, t \in req'[p].sending : s.key = t.key => s = t
                      /\ req'[p].pc = "own" => \A s \in req'[p].sending : s.key # AllKey
    BY DEF SendingOK
  <2>1. CASE p = r
    BY <1>3, <2>1
  <2>2. CASE p # r
    BY <1>2, <2>2 DEF LimitsInv, SendingOK
  <2> QED BY <2>1, <2>2
<1>8. Counts'
  <2> SUFFICES ASSUME NEW k \in L!Bucket
               PROVE  stored[k] + Total(Instance, UnsentOf(k)') + Total(L!Requests, FlyingOf(k)')
                          = real[k] + doubled[k]
    BY DEF Counts
  <2>1. UnsentOf(k)' = UnsentOf(k) /\ FlyingOf(k)' = FlyingOf(k)
    BY <1>6 DEF UnsentOf, FlyingOf
  <2> QED BY <2>1 DEF LimitsInv, Counts
<1>9. Heard'
  BY <1>6 DEF LimitsInv, Heard
<1>10. (L!RefusalEarned)'
  <2> SUFFICES ASSUME NEW p \in L!Requests, NEW k \in req'[p].over
               PROVE  /\ real[k] + doubled[k] > L!LimitOf(k)
                      /\ k = AllKey => req'[p].pc # "own"
    BY DEF L!RefusalEarned
  <2>1. k \in req[p].over
    BY <1>6
  <2>2. CASE p = r
    BY <1>3, <2>1, <2>2 DEF LimitsInv, L!RefusalEarned
  <2>3. CASE p # r
    BY <1>2, <2>1, <2>3 DEF LimitsInv, L!RefusalEarned
  <2> QED BY <2>2, <2>3
<1> QED BY <1>5, <1>7, <1>8, <1>9, <1>10 DEF LimitsInv

\* A command leaves room for another one or none; its entry changes, its bucket may be over.
Moves(r, s, T, entry, over) ==
    /\ over # {} => entry.total + entry.unsent > L!LimitOf(s.key)
    /\ DOMAIN req' = L!Requests /\ \A p \in L!Requests \ {r} : req'[p] = req[p]
    /\ req'[r] = [req[r] EXCEPT !.sending = (req[r].sending \ {s}) \cup T,
                                !.over = req[r].over \cup over]
    /\ local' = [local EXCEPT ![req[r].at][s.key] = entry]

\* A command is applied or ends: what its bucket holds moves, and the sum stays.
LEMMA CommandKeeps ==
    ASSUME LimitsInv, NEW r \in L!Requests, NEW s \in req[r].sending,
           NEW T \in SUBSET Cmd, NEW over \in SUBSET {s.key}, NEW entry \in Entry,
           \A t, u \in T : t.key = s.key /\ t = u,
           Moves(r, s, T, entry, over), real' = real,
           stored' \in [L!Bucket -> Nat], stored[s.key] <= stored'[s.key],
           doubled' \in [L!Bucket -> Nat], doubled[s.key] <= doubled'[s.key],
           \A k \in L!Bucket \ {s.key} : stored'[k] = stored[k] /\ doubled'[k] = doubled[k],
           entry.total <= stored'[s.key], \A t \in T : t.reply <= stored'[s.key] /\ t.had <= stored'[s.key],
           stored'[s.key] + entry.unsent + Flies(T, s.key) + doubled[s.key]
             = stored[s.key] + local[req[r].at][s.key].unsent
                 + (IF s.reply = 0 THEN s.sent ELSE 0) + doubled'[s.key]
    PROVE  LimitsInv'
<1>0. /\ over # {} => entry.total + entry.unsent > L!LimitOf(s.key)
      /\ DOMAIN req' = L!Requests /\ \A p \in L!Requests \ {r} : req'[p] = req[p]
      /\ req'[r] = [req[r] EXCEPT !.sending = (req[r].sending \ {s}) \cup T,
                                  !.over = req[r].over \cup over]
      /\ local' = [local EXCEPT ![req[r].at][s.key] = entry]
  BY DEF Moves
<1> USE <1>0
<1> DEFINE i == req[r].at
           key == s.key
           sending == (req[r].sending \ {s}) \cup T
           fly == IF s.reply = 0 THEN s.sent ELSE 0
<1>1. req[r] \in ReqRec /\ req[r].id = r /\ req[r].pc \in {"own", "all"}
  BY DEF LimitsInv, LimitsType, SendingOK, L!Unborn
<1>2. i \in Instance /\ s \in Cmd /\ key \in L!Bucket /\ sending \in SUBSET Cmd
  BY <1>1 DEF ReqRec, Cmd
<1>3. /\ local \in [Instance -> [L!Bucket -> Entry]]
      /\ stored \in [L!Bucket -> Nat] /\ real \in [L!Bucket -> Nat] /\ doubled \in [L!Bucket -> Nat]
      /\ entry.total \in Nat /\ entry.unsent \in Nat
  BY DEF LimitsInv, LimitsType, Entry
<1>4. /\ req'[r] \in ReqRec /\ req'[r].id = r /\ req'[r].pc = req[r].pc
      /\ req'[r].sending = sending /\ req'[r].over = req[r].over \cup over
  <2> DEFINE all == req[r].over \cup over
  <2>1. all \in SUBSET L!Bucket
    BY <1>1, <1>2 DEF ReqRec
  <2>2. req'[r] = [req[r] EXCEPT !.sending = sending, !.over = all]
    OBVIOUS
  <2> HIDE DEF sending, all
  <2>3. /\ req'[r] \in ReqRec /\ req'[r].id = r /\ req'[r].pc = req[r].pc
        /\ req'[r].sending = sending /\ req'[r].over = all
    BY <1>1, <1>2, <2>1, <2>2 DEF ReqRec
  <2> QED BY <2>3 DEF all
<1>5. \A t \in sending : t.key = key => t \in T
  BY DEF LimitsInv, SendingOK
<1> HIDE DEF i, sending
<1>6. /\ local' \in [Instance -> [L!Bucket -> Entry]]
      /\ \A j \in Instance \ {i} : local'[j] = local[j]
      /\ \A k \in L!Bucket \ {key} : local'[i][k] = local[i][k]
      /\ local'[i][key] = entry
  BY <1>2, <1>3 DEF i
<1>7. LimitsType'
  <2>1. \A p \in L!Requests : req'[p] = L!Unborn \/ (req'[p] \in ReqRec /\ req'[p].id = p)
    BY <1>4 DEF LimitsInv, LimitsType
  <2> QED BY <1>3, <1>6, <2>1 DEF LimitsType
<1>8. SendingOK'
  <2> SUFFICES ASSUME NEW p \in L!Requests
               PROVE  /\ req'[p].sending # {} => req'[p].pc \in {"own", "all"}
                      /\ \A t, u \in req'[p].sending : t.key = u.key => t = u
                      /\ req'[p].pc = "own" => \A t \in req'[p].sending : t.key # AllKey
    BY DEF SendingOK
  <2>1. CASE p = r
    <3>1. \A t \in sending : t \in T \/ (t \in req[r].sending /\ t.key # key)
      BY <1>5 DEF sending
    <3>2. \A t, u \in sending : t.key = u.key => t = u
      BY <3>1 DEF LimitsInv, SendingOK
    <3>3. req[r].pc = "own" => \A t \in sending : t.key # AllKey
      BY <3>1 DEF LimitsInv, SendingOK
    <3> QED BY <1>1, <1>4, <2>1, <3>2, <3>3
  <2>2. CASE p # r
    BY <2>2 DEF LimitsInv, SendingOK
  <2> QED BY <2>1, <2>2
<1>9. stored[key] + local[i][key].unsent + fly <= real[key] + doubled[key]
  <2>1. Flies(req[r].sending, key) = fly
    BY FliesOne DEF LimitsInv, SendingOK
  <2>2. FlyingOf(key)[r] = fly
    BY <2>1 DEF FlyingOf
  <2> QED BY <1>2, <2>2, KnownIsReal DEF LimitsInv
<1>10. Counts'
  <2> SUFFICES ASSUME NEW k \in L!Bucket
               PROVE  stored'[k] + Total(Instance, UnsentOf(k)') + Total(L!Requests, FlyingOf(k)')
                          = real[k] + doubled'[k]
    BY DEF Counts
  <2>1. \A j \in Instance \ {i} : local'[j][k] = local[j][k]
    BY <1>6
  <2>2. /\ Total(Instance, UnsentOf(k)') + Total(L!Requests, FlyingOf(k)')
             = Total(Instance, UnsentOf(k)) + Total(L!Requests, FlyingOf(k))
               - local[i][k].unsent + local'[i][k].unsent - FlyingOf(k)[r] + FlyingOf(k)'[r]
        /\ Total(Instance, UnsentOf(k)) \in Nat /\ Total(L!Requests, FlyingOf(k)) \in Nat
        /\ Total(Instance, UnsentOf(k)') \in Nat /\ Total(L!Requests, FlyingOf(k)') \in Nat
        /\ FlyingOf(k)[r] \in Nat /\ FlyingOf(k)'[r] \in Nat
    BY <1>2, <1>7, <2>1, CountMoves DEF LimitsInv
  <2>3. stored[k] + Total(Instance, UnsentOf(k)) + Total(L!Requests, FlyingOf(k))
            = real[k] + doubled[k]
    BY DEF LimitsInv, Counts
  <2>4. /\ FlyingOf(k)[r] = Flies(req[r].sending, k)
        /\ FlyingOf(k)'[r] = Flies(sending, k)
    BY <1>4 DEF FlyingOf
  <2>5. /\ stored[k] \in Nat /\ stored'[k] \in Nat /\ real[k] \in Nat
        /\ doubled[k] \in Nat /\ doubled'[k] \in Nat
        /\ local[i][k].unsent \in Nat /\ local'[i][k].unsent \in Nat
    BY <1>2, <1>3, <1>6 DEF Entry
  <2>6. CASE k = key
    <3>1. Flies(sending, key) = Flies(T, key)
      <4>1. \A t : t.key = key => (t \in sending <=> t \in T)
        BY <1>5 DEF sending
      <4> QED BY <4>1, FliesSame
    <3>2. Flies(req[r].sending, key) = fly
      BY FliesOne DEF LimitsInv, SendingOK
    <3>3. stored'[k] + local'[i][k].unsent + FlyingOf(k)'[r] + doubled[k]
             = stored[k] + local[i][k].unsent + FlyingOf(k)[r] + doubled'[k]
      BY <1>6, <2>4, <2>6, <3>1, <3>2 DEF i
    <3> DEFINE U1 == Total(Instance, UnsentOf(k))
               U2 == Total(Instance, UnsentOf(k)')
               F1 == Total(L!Requests, FlyingOf(k))
               F2 == Total(L!Requests, FlyingOf(k)')
               f1 == FlyingOf(k)[r]
               f2 == FlyingOf(k)'[r]
               u1 == local[i][k].unsent
               u2 == local'[i][k].unsent
    <3>4. /\ U1 \in Nat /\ U2 \in Nat /\ F1 \in Nat /\ F2 \in Nat /\ f1 \in Nat /\ f2 \in Nat
          /\ u1 \in Nat /\ u2 \in Nat
          /\ U2 + F2 = U1 + F1 - u1 + u2 - f1 + f2
          /\ stored[k] + U1 + F1 = real[k] + doubled[k]
          /\ stored'[k] + u2 + f2 + doubled[k] = stored[k] + u1 + f1 + doubled'[k]
      BY <2>2, <2>3, <2>5, <3>3
    <3> HIDE DEF U1, U2, F1, F2, f1, f2, u1, u2
    <3>5. stored'[k] + U2 + F2 = real[k] + doubled'[k]
      BY <2>5, <3>4
    <3> QED BY <3>5 DEF U2, F2
  <2>7. CASE k # key
    <3>1. Flies(sending, k) = Flies(req[r].sending, k)
      <4>1. \A t : t.key = k => (t \in sending <=> t \in req[r].sending)
        BY <2>7 DEF sending
      <4> QED BY <4>1, FliesSame
    <3>2. local'[i][k] = local[i][k] /\ stored'[k] = stored[k] /\ doubled'[k] = doubled[k]
      BY <1>6, <2>7
    <3>3. Total(Instance, UnsentOf(k)') + Total(L!Requests, FlyingOf(k)')
            = Total(Instance, UnsentOf(k)) + Total(L!Requests, FlyingOf(k))
      BY <2>2, <2>4, <2>5, <3>1, <3>2
    <3> QED BY <2>2, <2>3, <2>5, <3>2, <3>3
  <2> QED BY <2>6, <2>7
<1>11. \A k \in L!Bucket : stored[k] <= stored'[k] /\ doubled[k] <= doubled'[k]
  BY <1>3
<1>12. Heard'
  <2>1. ASSUME NEW j \in Instance, NEW k \in L!Bucket PROVE local'[j][k].total <= stored'[k]
    <3>1. CASE j = i /\ k = key
      BY <1>6, <3>1
    <3>2. CASE ~(j = i /\ k = key)
      <4>1. local'[j][k] = local[j][k]
        BY <1>6, <3>2
      <4>2. local[j][k].total <= stored[k] /\ local[j][k].total \in Nat
        BY <1>3 DEF LimitsInv, Heard, Entry
      <4> QED BY <1>3, <1>11, <4>1, <4>2
    <3> QED BY <3>1, <3>2
  <2>2. ASSUME NEW p \in L!Requests, NEW t \in req'[p].sending
               PROVE  t.reply <= stored'[t.key] /\ t.had <= stored'[t.key]
    <3>1. CASE p = r /\ t \in T
      BY <3>1
    <3>2. CASE ~(p = r /\ t \in T)
      <4>1. t \in req[p].sending
        BY <1>4, <2>2, <3>2 DEF sending
      <4>2. t \in Cmd
        BY <4>1 DEF LimitsInv, LimitsType, ReqRec, L!Unborn
      <4>3. /\ t.reply <= stored[t.key] /\ t.reply \in Nat /\ t.key \in L!Bucket
            /\ t.had <= stored[t.key] /\ t.had \in Nat
        BY <4>1, <4>2 DEF LimitsInv, Heard, Cmd
      <4> QED BY <1>3, <1>11, <4>3
    <3> QED BY <3>1, <3>2
  <2> QED BY <2>1, <2>2 DEF Heard
<1>13. (L!RefusalEarned)'
  <2> SUFFICES ASSUME NEW p \in L!Requests, NEW k \in req'[p].over
               PROVE  /\ real[k] + doubled'[k] > L!LimitOf(k)
                      /\ k = AllKey => req'[p].pc # "own"
    BY DEF L!RefusalEarned
  <2>1. CASE k \in req[p].over
    <3>1. k \in L!Bucket
      BY <2>1 DEF LimitsInv, LimitsType, ReqRec, L!Unborn
    <3>2. real[k] + doubled[k] > L!LimitOf(k) /\ (k = AllKey => req[p].pc # "own")
      BY <2>1 DEF LimitsInv, L!RefusalEarned
    <3>3. req'[p].pc = req[p].pc
      BY <1>4
    <3> QED BY <1>3, <1>11, <3>1, <3>2, <3>3, BucketFacts
  <2>2. CASE k \notin req[p].over
    <3>1. p = r /\ k = key /\ over # {}
      BY <1>4, <2>2
    <3>2. req[r].pc = "own" => key # AllKey
      BY DEF LimitsInv, SendingOK
    <3>3. entry.total + entry.unsent > L!LimitOf(key) /\ entry.total <= stored'[key]
      BY <3>1
    <3>4. T \in SUBSET Cmd /\ Flies(T, key) \in Nat
      BY FliesNat
    <3>5. fly \in Nat
      BY <1>2 DEF Cmd
    <3>6. stored'[key] + entry.unsent + Flies(T, key) + doubled[key]
             = stored[key] + local[i][key].unsent + fly + doubled'[key]
      BY DEF i
    <3>7. /\ stored[key] \in Nat /\ stored'[key] \in Nat /\ real[key] \in Nat
          /\ doubled[key] \in Nat /\ doubled'[key] \in Nat
          /\ local[i][key].unsent \in Nat /\ L!LimitOf(key) \in Nat
      BY <1>2, <1>3, BucketFacts DEF Entry
    <3> HIDE DEF fly, key
    <3>8. real[key] + doubled'[key] > L!LimitOf(key)
      BY <1>3, <1>9, <3>3, <3>4, <3>5, <3>6, <3>7
    <3> QED BY <1>4, <3>1, <3>2, <3>8
  <2> QED BY <2>1, <2>2
<1> QED BY <1>7, <1>8, <1>10, <1>12, <1>13 DEF LimitsInv

LEMMA StoreAddsKeeps ==
    ASSUME LimitsInv, NEW r \in L!Requests, NEW s \in req[r].sending, L!StoreAdds(r, s)
    PROVE  LimitsInv'
<1> DEFINE key == s.key
           sum == stored[key] + s.sent
           t == [s EXCEPT !.reply = sum]
           entry == local[req[r].at][key]
<1>1. req[r] \in ReqRec /\ s \in Cmd /\ req[r].at \in Instance /\ key \in L!Bucket
  BY DEF LimitsInv, LimitsType, L!Unborn, ReqRec, Cmd
<1>2. /\ local \in [Instance -> [L!Bucket -> Entry]] /\ stored \in [L!Bucket -> Nat]
      /\ doubled \in [L!Bucket -> Nat] /\ real \in [L!Bucket -> Nat] /\ DOMAIN req = L!Requests
  BY DEF LimitsInv, LimitsType
<1>3. /\ s.reply = 0 /\ stored' = [stored EXCEPT ![key] = sum]
      /\ req' = [req EXCEPT ![r].sending = (req[r].sending \ {s}) \cup {t}]
      /\ local' = local /\ real' = real /\ doubled' = doubled
  BY DEF L!StoreAdds
<1>4. sum \in Nat /\ stored[key] <= sum /\ stored[key] \in Nat /\ s.sent \in Nat
  BY <1>1, <1>2 DEF Cmd
<1>5. t \in Cmd /\ t.key = key /\ t.reply = sum /\ t.sent = s.sent
      /\ t.had = s.had /\ s.had \in Nat /\ s.had <= stored[key]
  BY <1>1, <1>4 DEF Cmd, LimitsInv, Heard
<1>6. entry \in Entry /\ entry.total <= stored[key] /\ entry.total \in Nat /\ entry.unsent \in Nat
  BY <1>1, <1>2 DEF LimitsInv, Heard, Entry
<1>7. Flies({t}, key) = IF sum = 0 THEN s.sent ELSE 0
  <2> HIDE DEF t, key, sum
  <2>1. \A u \in {t} : u.key = t.key => u = t
    OBVIOUS
  <2>2. Flies({t}, t.key) = IF t.reply = 0 THEN t.sent ELSE 0
    BY <2>1, FliesOne
  <2> QED BY <1>5, <2>2
<1>8. req'[r] = [req[r] EXCEPT !.sending = (req[r].sending \ {s}) \cup {t},
                               !.over = req[r].over \cup {}]
  <2> DEFINE sending == (req[r].sending \ {s}) \cup {t}
             all == req[r].over \cup {}
  <2>1. req'[r] = [req[r] EXCEPT !.sending = sending] /\ all = req[r].over
    BY <1>2, <1>3
  <2> HIDE DEF sending, all
  <2>2. [req[r] EXCEPT !.sending = sending] = [req[r] EXCEPT !.sending = sending, !.over = all]
    BY <1>1, <2>1 DEF ReqRec
  <2> QED BY <2>1, <2>2 DEF sending, all
<1>9. local' = [local EXCEPT ![req[r].at][key] = entry]
  BY <1>1, <1>2, <1>3
<1>10. /\ stored' \in [L!Bucket -> Nat] /\ stored'[key] = sum
       /\ \A k \in L!Bucket \ {key} : stored'[k] = stored[k]
  BY <1>1, <1>2, <1>3, <1>4
<1>11. DOMAIN req' = L!Requests /\ \A p \in L!Requests \ {r} : req'[p] = req[p]
  BY <1>2, <1>3
<1>12. doubled[key] \in Nat
  BY <1>1, <1>2
<1> HIDE DEF t, entry, sum
<1>13. sum + entry.unsent + Flies({t}, key) + doubled[key]
          = stored[key] + entry.unsent + s.sent + doubled[key]
  BY <1>4, <1>6, <1>7, <1>12 DEF sum
<1>14. /\ {t} \in SUBSET Cmd /\ {} \in SUBSET {s.key} /\ \A u, w \in {t} : u.key = s.key /\ u = w
       /\ \A u \in {t} : u.reply <= stored'[s.key] /\ u.had <= stored'[s.key]
  BY <1>4, <1>5, <1>10
<1>15. entry.total <= stored'[s.key] /\ stored[s.key] <= stored'[s.key]
       /\ doubled[s.key] <= doubled'[s.key]
  BY <1>3, <1>4, <1>6, <1>10, <1>12
<1>17. Moves(r, s, {t}, entry, {})
  BY <1>8, <1>9, <1>11 DEF Moves
<1>16. stored'[s.key] + entry.unsent + Flies({t}, s.key) + doubled[s.key]
         = stored[s.key] + local[req[r].at][s.key].unsent
             + (IF s.reply = 0 THEN s.sent ELSE 0) + doubled'[s.key]
  BY <1>3, <1>10, <1>13 DEF entry
<1> QED BY <1>2, <1>3, <1>6, <1>10, <1>14, <1>15, <1>16, <1>17, CommandKeeps

\* A command that ends is no longer sent, and its request sees whether the bucket is over.
LEMMA CountedIs ==
    ASSUME LimitsType, NEW r \in L!Requests, NEW s \in req[r].sending, NEW entry,
           L!Counted(r, s, entry)
    PROVE  \E over \in SUBSET {s.key} : Moves(r, s, {}, entry, over)
<1> DEFINE past == entry.total + entry.unsent > L!LimitOf(s.key)
           over == IF past THEN {s.key} ELSE {}
           left == req[r].sending \ {s}
           all == IF past THEN req[r].over \cup {s.key} ELSE req[r].over
<1>1. DOMAIN req = L!Requests /\ req[r] \in ReqRec
  BY DEF LimitsType, L!Unborn
<1>2. req' = [req EXCEPT ![r].sending = left, ![r].over = all]
  BY DEF L!Counted
<1>3. local' = [local EXCEPT ![req[r].at][s.key] = entry]
  BY DEF L!Counted
<1>4. over \in SUBSET {s.key} /\ (over # {} => past) /\ all = req[r].over \cup over
  OBVIOUS
<1>5. left = left \cup {}
  OBVIOUS
<1>6. past <=> entry.total + entry.unsent > L!LimitOf(s.key)
  OBVIOUS
<1>7. left = req[r].sending \ {s}
  OBVIOUS
<1> HIDE DEF past, over, left, all
<1>8. DOMAIN req' = L!Requests /\ \A p \in L!Requests \ {r} : req'[p] = req[p]
  BY <1>1, <1>2
<1>9. req'[r] = [req[r] EXCEPT !.sending = left, !.over = all]
  BY <1>1, <1>2 DEF ReqRec
<1>10. req'[r] = [req[r] EXCEPT !.sending = (req[r].sending \ {s}) \cup {},
                                !.over = req[r].over \cup over]
  BY <1>4, <1>5, <1>7, <1>9
<1>11. Moves(r, s, {}, entry, over)
  BY <1>3, <1>4, <1>6, <1>8, <1>10 DEF Moves
<1> QED BY <1>4, <1>11

LEMMA AnswersKeeps ==
    ASSUME LimitsInv, NEW r \in L!Requests, NEW s \in req[r].sending, L!Answers(r, s)
    PROVE  LimitsInv'
<1> DEFINE key == s.key
           old == local[req[r].at][key]
           entry == L!WithTotal(old, s)
<1>1. req[r] \in ReqRec /\ s \in Cmd /\ req[r].at \in Instance /\ key \in L!Bucket
  BY DEF LimitsInv, LimitsType, L!Unborn, ReqRec, Cmd
<1>2. /\ local \in [Instance -> [L!Bucket -> Entry]] /\ stored \in [L!Bucket -> Nat]
      /\ doubled \in [L!Bucket -> Nat]
  BY DEF LimitsInv, LimitsType
<1>3. s.reply > 0 /\ L!Counted(r, s, entry) /\ stored' = stored /\ real' = real /\ doubled' = doubled
  BY DEF L!Answers
<1>4. /\ old \in Entry /\ old.total \in Nat /\ old.unsent \in Nat /\ old.total <= stored[key]
      /\ s.reply \in Nat /\ s.reply <= stored[key] /\ s.had \in Nat /\ s.had <= stored[key]
  BY <1>1, <1>2 DEF LimitsInv, Heard, Entry, Cmd
<1>5. entry \in Entry /\ entry.total <= stored[key] /\ entry.unsent = old.unsent
  <2> HIDE DEF old, key
  <2>1. entry = [total |-> IF s.reply > s.had THEN s.reply ELSE s.had, unsent |-> old.unsent]
    BY <1>4 DEF L!WithTotal, Entry
  <2>2. (IF s.reply > s.had THEN s.reply ELSE s.had) \in Nat
        /\ (IF s.reply > s.had THEN s.reply ELSE s.had) <= stored[key]
    BY <1>4
  <2> HIDE DEF entry
  <2> QED BY <1>4, <2>1, <2>2 DEF Entry
<1>6. PICK over \in SUBSET {s.key} : Moves(r, s, {}, entry, over)
  <2> HIDE DEF entry, key
  <2> QED BY <1>3, CountedIs DEF LimitsInv
<1>7. Flies({}, key) = 0
  BY FliesNone
<1>8. stored[key] \in Nat /\ doubled[key] \in Nat
  BY <1>1, <1>2
<1>9. stored'[s.key] + entry.unsent + Flies({}, s.key) + doubled[s.key]
        = stored[s.key] + local[req[r].at][s.key].unsent
            + (IF s.reply = 0 THEN s.sent ELSE 0) + doubled'[s.key]
  BY <1>3, <1>4, <1>5, <1>7, <1>8
<1>10. /\ stored[s.key] <= stored'[s.key] /\ doubled[s.key] <= doubled'[s.key]
       /\ entry.total <= stored'[s.key]
       /\ \A k \in L!Bucket \ {s.key} : stored'[k] = stored[k] /\ doubled'[k] = doubled[k]
       /\ stored' \in [L!Bucket -> Nat] /\ doubled' \in [L!Bucket -> Nat]
  BY <1>2, <1>3, <1>5, <1>8
<1>11. {} \in SUBSET Cmd
  OBVIOUS
<1> HIDE DEF entry, old, key
<1> QED BY <1>3, <1>5, <1>6, <1>9, <1>10, <1>11, CommandKeeps

LEMMA StoreFailsKeeps ==
    ASSUME LimitsInv, NEW r \in L!Requests, NEW s \in req[r].sending, L!StoreFails(r, s)
    PROVE  LimitsInv'
<1> DEFINE key == s.key
           old == local[req[r].at][key]
           entry == [old EXCEPT !.unsent = @ + s.sent]
<1>1. req[r] \in ReqRec /\ s \in Cmd /\ req[r].at \in Instance /\ key \in L!Bucket
  BY DEF LimitsInv, LimitsType, L!Unborn, ReqRec, Cmd
<1>2. /\ local \in [Instance -> [L!Bucket -> Entry]] /\ stored \in [L!Bucket -> Nat]
      /\ doubled \in [L!Bucket -> Nat]
  BY DEF LimitsInv, LimitsType
<1>3. /\ L!Counted(r, s, entry) /\ stored' = stored /\ real' = real
      /\ doubled' = IF s.reply > 0 THEN [doubled EXCEPT ![s.key] = @ + s.sent] ELSE doubled
  BY DEF L!StoreFails
<1>4. /\ old \in Entry /\ old.total \in Nat /\ old.unsent \in Nat /\ old.total <= stored[key]
      /\ s.reply \in Nat /\ s.sent \in Nat
  BY <1>1, <1>2 DEF LimitsInv, Heard, Entry, Cmd
<1>5. entry \in Entry /\ entry.total = old.total /\ entry.unsent = old.unsent + s.sent
  BY <1>4 DEF Entry
<1>6. PICK over \in SUBSET {s.key} : Moves(r, s, {}, entry, over)
  <2> HIDE DEF entry, key
  <2> QED BY <1>3, CountedIs DEF LimitsInv
<1>7. Flies({}, key) = 0
  BY FliesNone
<1>8. stored[key] \in Nat /\ doubled[key] \in Nat
  BY <1>1, <1>2
<1>9. /\ doubled' \in [L!Bucket -> Nat]
      /\ \A k \in L!Bucket \ {key} : doubled'[k] = doubled[k]
      /\ doubled'[key] = IF s.reply > 0 THEN doubled[key] + s.sent ELSE doubled[key]
  BY <1>1, <1>2, <1>3, <1>4, <1>8
<1>10. stored'[s.key] + entry.unsent + Flies({}, s.key) + doubled[s.key]
        = stored[s.key] + local[req[r].at][s.key].unsent
            + (IF s.reply = 0 THEN s.sent ELSE 0) + doubled'[s.key]
  BY <1>3, <1>4, <1>5, <1>7, <1>8, <1>9
<1>11. /\ stored[s.key] <= stored'[s.key] /\ doubled[s.key] <= doubled'[s.key]
       /\ entry.total <= stored'[s.key]
       /\ \A k \in L!Bucket \ {s.key} : stored'[k] = stored[k] /\ doubled'[k] = doubled[k]
       /\ stored' \in [L!Bucket -> Nat] /\ doubled' \in [L!Bucket -> Nat]
  <2>1. stored'[key] = stored[key] /\ doubled[key] <= doubled'[key]
    BY <1>3, <1>4, <1>8, <1>9
  <2>2. entry.total <= stored'[key]
    BY <1>4, <1>5, <2>1
  <2>3. \A k \in L!Bucket \ {key} : stored'[k] = stored[k] /\ doubled'[k] = doubled[k]
    BY <1>3, <1>9
  <2>4. stored' \in [L!Bucket -> Nat] /\ doubled' \in [L!Bucket -> Nat]
    BY <1>2, <1>3, <1>9
  <2> HIDE DEF entry
  <2> QED BY <1>8, <2>1, <2>2, <2>3, <2>4
<1>12. {} \in SUBSET Cmd
  OBVIOUS
<1> HIDE DEF entry, old, key
<1> QED BY <1>3, <1>5, <1>6, <1>10, <1>11, <1>12, CommandKeeps

LEMMA AskKeeps ==
    ASSUME LimitsInv, NEW r \in L!Requests, L!Ask(r)
    PROVE  LimitsInv'
<1>1. PICK v \in Visitor, i \in Instance, cost \in Cost :
          L!Charge([id |-> r, by |-> v, at |-> i, cost |-> cost, pc |-> "own", sending |-> {},
                    over |-> {}, relayed |-> FALSE], L!OwnBuckets(v), cost, "own")
  BY DEF L!Ask
<1> DEFINE q == [id |-> r, by |-> v, at |-> i, cost |-> cost, pc |-> "own", sending |-> {},
                 over |-> {}, relayed |-> FALSE]
<1>2. q \in ReqRec /\ q.id = r
  BY DEF ReqRec
<1>3. req[r].sending = {}
  BY DEF L!Ask, LimitsInv, SendingOK
<1>4. L!OwnBuckets(v) \in SUBSET L!Bucket /\ AllKey \notin L!OwnBuckets(v)
  BY BucketFacts
<1>5. UNCHANGED <<stored, doubled>>
  BY DEF L!Ask
<1>6. L!Charge(q, L!OwnBuckets(v), cost, "own")
  BY <1>1
<1> HIDE DEF q
<1>7. req[q.id].sending = {}
  BY <1>2, <1>3
<1> QED BY <1>2, <1>4, <1>5, <1>6, <1>7, ChargeKeeps

LEMMA DecideKeeps ==
    ASSUME LimitsInv, NEW r \in L!Requests, L!Decide(r)
    PROVE  LimitsInv'
<1>1. /\ req[r].pc \in {"own", "all"} /\ req[r].sending = {}
      /\ UNCHANGED <<stored, doubled>>
  BY DEF L!Decide
<1>2. req[r] \in ReqRec /\ req[r].id = r /\ req[r].cost \in Cost
  BY <1>1 DEF LimitsInv, LimitsType, L!Unborn, ReqRec
<1>3. CASE L!Charge(req[r], {AllKey}, req[r].cost, "all")
  <2>1. {AllKey} \in SUBSET L!Bucket
    BY BucketFacts
  <2> QED BY <1>1, <1>2, <1>3, <2>1, ChargeKeeps
<1>4. CASE ~L!Charge(req[r], {AllKey}, req[r].cost, "all")
  <2>1. PICK pc \in {"out", "done", "refused"} : req' = [req EXCEPT ![r].pc = pc] /\ UNCHANGED <<local, real>>
    <3>1. \/ /\ req' = [req EXCEPT ![r].pc = IF req[r].relayed THEN "done" ELSE "refused"]
             /\ UNCHANGED <<local, real>>
          \/ /\ req' = [req EXCEPT ![r].pc = IF req[r].relayed THEN "done" ELSE "out"]
             /\ UNCHANGED <<local, real>>
      BY <1>4 DEF L!Decide
    <3> QED BY <3>1
  <2> QED BY <1>1, <1>2, <2>1, StandsKeep
<1> QED BY <1>3, <1>4

LEMMA RelayKeeps ==
    ASSUME LimitsInv, NEW r \in L!Requests, L!Relay(r)
    PROVE  LimitsInv'
<1>1. /\ req[r].pc = "out" /\ UNCHANGED <<stored, doubled>>
  BY DEF L!Relay
<1>2. req[r] \in ReqRec /\ req[r].id = r /\ req[r].by \in Visitor /\ req[r].sending = {}
  BY <1>1 DEF LimitsInv, LimitsType, L!Unborn, ReqRec, SendingOK
<1>3. CASE req' = [req EXCEPT ![r].pc = "done"] /\ UNCHANGED <<local, real>>
  BY <1>1, <1>2, <1>3, StandsKeep
<1>4. ASSUME NEW cost \in Cost,
             L!Charge([req[r] EXCEPT !.relayed = TRUE], L!OwnBuckets(req[r].by), cost, "own")
      PROVE  LimitsInv'
  <2> DEFINE q == [req[r] EXCEPT !.relayed = TRUE]
  <2>1. q \in ReqRec /\ q.id = r
    BY <1>2 DEF ReqRec
  <2>2. L!OwnBuckets(req[r].by) \in SUBSET L!Bucket /\ AllKey \notin L!OwnBuckets(req[r].by)
    BY <1>2, BucketFacts
  <2>3. L!Charge(q, L!OwnBuckets(req[r].by), cost, "own")
    BY <1>4
  <2> HIDE DEF q
  <2>4. req[q.id].sending = {}
    BY <1>2, <2>1
  <2> QED BY <1>1, <2>1, <2>2, <2>3, <2>4, ChargeKeeps
<1> QED BY <1>3, <1>4 DEF L!Relay

LEMMA LimitsInit == L!Init => LimitsInv
<1> SUFFICES ASSUME L!Init PROVE LimitsInv
  OBVIOUS
<1>1. /\ local = [i \in Instance |-> [k \in L!Bucket |-> [total |-> 0, unsent |-> 0]]]
      /\ stored = [k \in L!Bucket |-> 0] /\ req = [r \in L!Requests |-> L!Unborn]
      /\ real = [k \in L!Bucket |-> 0] /\ doubled = [k \in L!Bucket |-> 0]
  BY DEF L!Init
<1>2. LimitsType
  BY <1>1 DEF LimitsType, Entry
<1>3. SendingOK
  BY <1>1 DEF SendingOK, L!Unborn
<1>4. Counts
  <2> SUFFICES ASSUME NEW k \in L!Bucket
               PROVE  stored[k] + Total(Instance, UnsentOf(k)) + Total(L!Requests, FlyingOf(k))
                          = real[k] + doubled[k]
    BY DEF Counts
  <2> DEFINE U == UnsentOf(k)
             F == FlyingOf(k)
  <2>1. \A i \in Instance : U[i] = 0
    BY <1>1 DEF UnsentOf
  <2>2. \A r \in L!Requests : F[r] = 0
    <3>1. Flies({}, k) = 0
      BY FliesNone
    <3> QED BY <1>1, <3>1 DEF FlyingOf, L!Unborn
  <2> HIDE DEF U, F
  <2>3. Total(Instance, U) = 0 /\ Total(L!Requests, F) = 0
    BY <2>1, <2>2, LimitsAssumption, RequestsFinite, TotalZero
  <2> QED BY <1>1, <2>3 DEF U, F
<1>5. Heard
  BY <1>1 DEF Heard, L!Unborn
<1>6. L!RefusalEarned
  BY <1>1 DEF L!RefusalEarned, L!Unborn
<1> QED BY <1>2, <1>3, <1>4, <1>5, <1>6 DEF LimitsInv

LEMMA LimitsStep == LimitsInv /\ [L!Next]_limitVars => LimitsInv'
<1> SUFFICES ASSUME LimitsInv, [L!Next]_limitVars PROVE LimitsInv'
  OBVIOUS
<1>1. ASSUME NEW r \in L!Requests, L!Ask(r) PROVE LimitsInv'
  BY <1>1, AskKeeps
<1>2. ASSUME NEW r \in L!Requests, L!Decide(r) PROVE LimitsInv'
  BY <1>2, DecideKeeps
<1>3. ASSUME NEW r \in L!Requests, L!Relay(r) PROVE LimitsInv'
  BY <1>3, RelayKeeps
<1>4. ASSUME NEW r \in L!Requests, NEW s \in req[r].sending, L!StoreAdds(r, s) PROVE LimitsInv'
  BY <1>4, StoreAddsKeeps
<1>5. ASSUME NEW r \in L!Requests, NEW s \in req[r].sending, L!Answers(r, s) PROVE LimitsInv'
  BY <1>5, AnswersKeeps
<1>6. ASSUME NEW r \in L!Requests, NEW s \in req[r].sending, L!StoreFails(r, s) PROVE LimitsInv'
  BY <1>6, StoreFailsKeeps
<1>7. CASE UNCHANGED limitVars
  <2>1. \A k : UnsentOf(k)' = UnsentOf(k) /\ FlyingOf(k)' = FlyingOf(k)
    BY <1>7 DEF UnsentOf, FlyingOf, limitVars
  <2> QED BY <1>7, <2>1
       DEF LimitsInv, LimitsType, SendingOK, Counts, Heard, L!RefusalEarned, limitVars
<1> QED BY <1>1, <1>2, <1>3, <1>4, <1>5, <1>6, <1>7 DEF L!Next

\* Whatever an instance believes of a bucket was charged to it, or counted twice when an answer
\* was lost: so nobody is refused for what others spent, for any limits, costs, number of
\* instances and requests, and any order of the store's answers (rate-limit.mjs).
THEOREM LimitsAccounted == L!Spec => []LimitsInv
<1>1. LimitsInv /\ UNCHANGED L!vars => LimitsInv'
  BY LimitsStep DEF L!vars, limitVars
<1> QED BY <1>1, LimitsInit, LimitsStep, PTL DEF L!Spec, L!vars, limitVars

-----------------------------------------------------------------------------
(* Public reads: whose charge a read waits for, and how new its value is.  *)

Read   == [ key : Key, by : Request, pc : {"charging", "refused", "read", "failed", "done"},
            expires : Nat, value : Nat ]
Wait   == [entry : Nat, joined : BOOLEAN, least : Nat]
Reader == [ pc : {"open", "failed", "refused", "done"}, asks : Nat,
            paid : {"no", "asked", "ok", "over"}, charges : Nat,
            seen : SUBSET Key, waits : SUBSET Wait ]

ReadsType ==
    /\ readNow \in Nat /\ value \in [Key -> Nat]
    /\ entries \in Seq(Read) /\ request \in [Request -> Reader]

\* One charge a request, and a read goes by the answer about the request that started it.
PaidFor ==
    /\ \A r \in Request :
          /\ request[r].charges = IF request[r].paid = "no" THEN 0 ELSE 1
          /\ request[r].pc = "refused" => request[r].paid = "over"
    /\ \A e \in DOMAIN entries :
          /\ entries[e].pc = "refused" => request[entries[e].by].paid = "over"
          /\ entries[e].pc \in {"read", "done", "failed"} => request[entries[e].by].paid = "ok"

\* Only a request's own reads owe it a value as new as what it asked after.
Owed(r, w) ==
    /\ w.entry \in DOMAIN entries
    /\ w.joined => w.least = 0
    /\ ~w.joined => entries[w.entry].by = r
    /\ w.least <= value[entries[w.entry].key]
    /\ entries[w.entry].pc \in {"read", "done"} => w.least <= entries[w.entry].value

ReadsInv == ReadsType /\ PaidFor /\ \A r \in Request : \A w \in request[r].waits : Owed(r, w)

\* A read goes on; nobody's charge and no request changes.
LEMMA EntryKeeps ==
    ASSUME ReadsInv, NEW e \in DOMAIN entries, NEW x \in Read,
           entries' = [entries EXCEPT ![e] = x],
           x.key = entries[e].key, x.by = entries[e].by,
           x.pc = "refused" => request[x.by].paid = "over",
           x.pc \in {"read", "done", "failed"} => request[x.by].paid = "ok",
           x.pc \in {"read", "done"} =>
              x.value = value[x.key] \/ (entries[e].pc = "read" /\ x.value = entries[e].value),
           UNCHANGED <<readNow, value, request>>
    PROVE  ReadsInv'
<1>1. entries \in Seq(Read) /\ value \in [Key -> Nat] /\ request \in [Request -> Reader]
  BY DEF ReadsInv, ReadsType
<1>2. /\ entries' \in Seq(Read) /\ DOMAIN entries' = DOMAIN entries /\ entries'[e] = x
      /\ \A f \in DOMAIN entries \ {e} : entries'[f] = entries[f]
  BY <1>1
<1>3. ReadsType'
  BY <1>2 DEF ReadsInv, ReadsType
<1>4. PaidFor'
  <2>1. ASSUME NEW f \in DOMAIN entries
        PROVE  /\ entries'[f].pc = "refused" => request[entries'[f].by].paid = "over"
               /\ entries'[f].pc \in {"read", "done", "failed"} => request[entries'[f].by].paid = "ok"
    <3>1. CASE f = e
      BY <1>2, <3>1
    <3>2. CASE f # e
      BY <1>2, <3>2 DEF ReadsInv, PaidFor
    <3> QED BY <3>1, <3>2
  <2> QED BY <1>2, <2>1 DEF ReadsInv, PaidFor
<1>5. ASSUME NEW r \in Request, NEW w \in request[r].waits PROVE Owed(r, w)'
  <2>1. Owed(r, w)
    BY DEF ReadsInv
  <2>2. CASE w.entry = e
    <3>1. w.least <= value[x.key] /\ (entries[e].pc = "read" => w.least <= entries[e].value)
      BY <2>1, <2>2 DEF Owed
    <3> QED BY <1>2, <2>1, <2>2, <3>1 DEF Owed
  <2>3. CASE w.entry # e
    BY <1>2, <2>1, <2>3 DEF Owed
  <2> QED BY <2>2, <2>3
<1> QED BY <1>3, <1>4, <1>5 DEF ReadsInv

\* A request goes on without a read: it may wait for fewer of them, and hear of its charge.
LEMMA ReaderKeeps ==
    ASSUME ReadsInv, NEW r \in Request, NEW q \in Reader, request' = [request EXCEPT ![r] = q],
           q.waits \subseteq request[r].waits, q.charges = request[r].charges,
           q.paid # request[r].paid => request[r].paid = "asked" /\ q.paid # "no",
           q.pc = "refused" => q.paid = "over",
           UNCHANGED <<readNow, value, entries>>
    PROVE  ReadsInv'
<1>1. request \in [Request -> Reader]
  BY DEF ReadsInv, ReadsType
<1>2. /\ request' \in [Request -> Reader] /\ request'[r] = q
      /\ \A p \in Request \ {r} : request'[p] = request[p]
  BY <1>1
<1>3. ReadsType'
  BY <1>2 DEF ReadsInv, ReadsType
<1>4. PaidFor'
  <2>1. ASSUME NEW p \in Request
        PROVE  /\ request'[p].charges = IF request'[p].paid = "no" THEN 0 ELSE 1
               /\ request'[p].pc = "refused" => request'[p].paid = "over"
    <3>1. request[p].charges = IF request[p].paid = "no" THEN 0 ELSE 1
      BY DEF ReadsInv, PaidFor
    <3>2. CASE p = r
      BY <1>2, <3>1, <3>2
    <3>3. CASE p # r
      BY <1>2, <3>3 DEF ReadsInv, PaidFor
    <3> QED BY <3>2, <3>3
  <2>2. ASSUME NEW e \in DOMAIN entries
        PROVE  /\ entries[e].pc = "refused" => request'[entries[e].by].paid = "over"
               /\ entries[e].pc \in {"read", "done", "failed"} => request'[entries[e].by].paid = "ok"
    <3>0. entries[e] \in Read
      BY DEF ReadsInv, ReadsType
    <3>1. entries[e].by \in Request
      BY <3>0 DEF Read
    <3>2. /\ entries[e].pc = "refused" => request[entries[e].by].paid = "over"
          /\ entries[e].pc \in {"read", "done", "failed"} => request[entries[e].by].paid = "ok"
      BY DEF ReadsInv, PaidFor
    <3>3. CASE entries[e].by = r
      BY <1>2, <3>2, <3>3
    <3>4. CASE entries[e].by # r
      BY <1>2, <3>1, <3>2, <3>4
    <3> QED BY <3>3, <3>4
  <2> QED BY <2>1, <2>2 DEF PaidFor
<1>5. ASSUME NEW p \in Request, NEW w \in request'[p].waits PROVE Owed(p, w)'
  <2>1. w \in request[p].waits
    BY <1>2
  <2> QED BY <2>1 DEF ReadsInv, Owed
<1> QED BY <1>3, <1>4, <1>5 DEF ReadsInv

\* What a request brings to a read: itself, with fewer waits perhaps.
Asking(r, q, key, least) ==
    /\ q \in Reader /\ q.waits \subseteq request[r].waits /\ q.pc = "open"
    /\ q.paid = request[r].paid /\ q.charges = request[r].charges
    /\ key \in Key /\ least \in Nat /\ least <= value[key] /\ (key \notin q.seen => least = 0)

LEMMA JoinKeeps ==
    ASSUME ReadsInv, NEW r \in Request, NEW q, NEW key, NEW least, Asking(r, q, key, least),
           key \notin q.seen, NEW e \in R!Fresh(key),
           request' = [request EXCEPT ![r] =
                          [q EXCEPT !.seen = @ \cup {key},
                                    !.waits = @ \cup {[entry |-> e, joined |-> TRUE, least |-> least]}]],
           UNCHANGED <<readNow, value, entries>>
    PROVE  ReadsInv'
<1> DEFINE w0 == [entry |-> e, joined |-> TRUE, least |-> least]
           seen == q.seen \cup {key}
           waits == q.waits \cup {w0}
           q2 == [q EXCEPT !.seen = seen, !.waits = waits]
<1>1. /\ q \in Reader /\ q.waits \subseteq request[r].waits /\ q.pc = "open"
      /\ q.paid = request[r].paid /\ q.charges = request[r].charges
      /\ key \in Key /\ least = 0
  BY DEF Asking
<1>2. /\ request \in [Request -> Reader] /\ entries \in Seq(Read) /\ value \in [Key -> Nat]
      /\ e \in DOMAIN entries
  BY DEF ReadsInv, ReadsType, R!Fresh
<1>3. w0 \in Wait /\ w0.entry = e /\ w0.joined /\ w0.least = 0
  BY <1>1, <1>2 DEF Wait
<1>4. request' = [request EXCEPT ![r] = q2]
  OBVIOUS
<1>5. waits \in SUBSET Wait /\ seen \in SUBSET Key
  BY <1>1, <1>3 DEF Reader
<1> HIDE DEF w0
<1>6. /\ q2 \in Reader /\ q2.waits = waits /\ q2.pc = "open" /\ q2.paid = request[r].paid
      /\ q2.charges = request[r].charges
  <2> HIDE DEF waits, seen
  <2> QED BY <1>1, <1>5 DEF Reader
<1> HIDE DEF q2
<1>7. /\ request' \in [Request -> Reader] /\ request'[r] = q2
      /\ \A p \in Request \ {r} : request'[p] = request[p]
  BY <1>2, <1>4, <1>6
<1>8. ReadsType'
  BY <1>7 DEF ReadsInv, ReadsType
<1>9. \A p \in Request : /\ request'[p].paid = request[p].paid
                         /\ request'[p].charges = request[p].charges
                         /\ request'[p].pc = "refused" => request[p].pc = "refused"
  BY <1>6, <1>7
<1>10. PaidFor'
  <2>1. ASSUME NEW f \in DOMAIN entries PROVE entries[f].by \in Request
    <3>1. entries[f] \in Read
      BY <1>2
    <3> QED BY <3>1 DEF Read
  <2> QED BY <1>9, <2>1 DEF ReadsInv, PaidFor
<1>11. ASSUME NEW p \in Request, NEW w \in request'[p].waits PROVE Owed(p, w)'
  <2>1. CASE w \in request[p].waits
    BY <2>1 DEF ReadsInv, Owed
  <2>2. CASE w \notin request[p].waits
    <3>1. w = w0
      BY <1>1, <1>6, <1>7, <2>2
    <3>2. entries[e] \in Read
      BY <1>2
    <3>3. entries[e].key \in Key /\ entries[e].value \in Nat
      BY <3>2 DEF Read
    <3>4. value[entries[e].key] \in Nat
      BY <1>2, <3>3
    <3> QED BY <1>2, <1>3, <3>1, <3>3, <3>4 DEF Owed
  <2> QED BY <2>1, <2>2
<1> QED BY <1>8, <1>10, <1>11 DEF ReadsInv

LEMMA StartKeeps ==
    ASSUME ReadsInv, NEW r \in Request, NEW q, NEW key, NEW least, Asking(r, q, key, least),
           R!Start(r, q, key, least), UNCHANGED <<readNow, value>>
    PROVE  ReadsInv'
<1> DEFINE e == Len(entries) + 1
           x == [key |-> key, by |-> r, pc |-> "charging", expires |-> 0, value |-> 0]
           w0 == [entry |-> e, joined |-> FALSE, least |-> least]
           seen == q.seen \cup {key}
           waits == q.waits \cup {w0}
           charges == IF q.paid = "no" THEN q.charges + 1 ELSE q.charges
           paid == IF q.paid = "no" THEN "asked" ELSE q.paid
           q2 == [q EXCEPT !.seen = seen, !.waits = waits, !.charges = charges, !.paid = paid]
<1>1. /\ q \in Reader /\ q.waits \subseteq request[r].waits /\ q.pc = "open"
      /\ q.paid = request[r].paid /\ q.charges = request[r].charges
      /\ key \in Key /\ least \in Nat /\ least <= value[key]
  BY DEF Asking
<1>2. /\ request \in [Request -> Reader] /\ entries \in Seq(Read) /\ value \in [Key -> Nat]
      /\ e \in Nat
  BY DEF ReadsInv, ReadsType
<1>3. w0 \in Wait /\ w0.entry = e /\ ~w0.joined /\ w0.least = least
  BY <1>1, <1>2 DEF Wait
<1>4. request' = [request EXCEPT ![r] = q2] /\ entries' = Append(entries, x)
  BY DEF R!Start
<1>5. waits \in SUBSET Wait /\ seen \in SUBSET Key /\ x \in Read
  BY <1>1, <1>3 DEF Reader, Read
<1>6. /\ charges \in Nat /\ paid \in {"no", "asked", "ok", "over"} /\ paid # "no"
      /\ charges = IF paid = "no" THEN 0 ELSE 1
      /\ paid = request[r].paid \/ (request[r].paid = "no" /\ paid = "asked")
  BY <1>1 DEF Reader, ReadsInv, PaidFor
<1>7. x.key = key /\ x.by = r /\ x.pc = "charging"
  OBVIOUS
<1> HIDE DEF w0, x, charges, paid
<1>8. /\ q2 \in Reader /\ q2.waits = waits /\ q2.pc = "open" /\ q2.paid = paid
      /\ q2.charges = charges
  <2> HIDE DEF waits, seen
  <2> QED BY <1>1, <1>5, <1>6 DEF Reader
<1> HIDE DEF q2
<1>9. /\ request' \in [Request -> Reader] /\ request'[r] = q2
      /\ \A p \in Request \ {r} : request'[p] = request[p]
  BY <1>2, <1>4, <1>8
<1>10. /\ entries' \in Seq(Read) /\ DOMAIN entries' = DOMAIN entries \cup {e}
       /\ entries'[e] = x /\ \A f \in DOMAIN entries : entries'[f] = entries[f] /\ f # e
  BY <1>2, <1>4, <1>5
<1>11. ReadsType'
  BY <1>9, <1>10 DEF ReadsInv, ReadsType
<1>12. PaidFor'
  <2>1. ASSUME NEW p \in Request
        PROVE  /\ request'[p].charges = IF request'[p].paid = "no" THEN 0 ELSE 1
               /\ request'[p].pc = "refused" => request'[p].paid = "over"
    <3>1. CASE p = r
      BY <1>6, <1>8, <1>9, <3>1
    <3>2. CASE p # r
      BY <1>9, <3>2 DEF ReadsInv, PaidFor
    <3> QED BY <3>1, <3>2
  <2>2. ASSUME NEW f \in DOMAIN entries'
        PROVE  /\ entries'[f].pc = "refused" => request'[entries'[f].by].paid = "over"
               /\ entries'[f].pc \in {"read", "done", "failed"}
                     => request'[entries'[f].by].paid = "ok"
    <3>1. CASE f = e
      BY <1>7, <1>10, <3>1
    <3>2. CASE f # e
      <4>1. f \in DOMAIN entries /\ entries'[f] = entries[f]
        BY <1>10, <3>2
      <4>2. entries[f] \in Read
        BY <1>2, <4>1
      <4>3. entries[f].by \in Request
        BY <4>2 DEF Read
      <4>4. /\ entries[f].pc = "refused" => request[entries[f].by].paid = "over"
            /\ entries[f].pc \in {"read", "done", "failed"} => request[entries[f].by].paid = "ok"
        BY <4>1 DEF ReadsInv, PaidFor
      <4>5. CASE entries[f].by = r
        BY <1>6, <1>8, <1>9, <4>1, <4>4, <4>5
      <4>6. CASE entries[f].by # r
        BY <1>9, <4>1, <4>3, <4>4, <4>6
      <4> QED BY <4>5, <4>6
    <3> QED BY <3>1, <3>2
  <2> QED BY <2>1, <2>2 DEF PaidFor
<1>13. ASSUME NEW p \in Request, NEW w \in request'[p].waits PROVE Owed(p, w)'
  <2>1. CASE w \in request[p].waits
    <3>1. Owed(p, w)
      BY <2>1 DEF ReadsInv
    <3> QED BY <1>10, <3>1 DEF Owed
  <2>2. CASE w \notin request[p].waits
    <3>1. w = w0 /\ p = r
      BY <1>1, <1>8, <1>9, <2>2
    <3>2. w.entry = e /\ ~w.joined /\ w.least = least
      BY <1>3, <3>1
    <3>3. e \in DOMAIN entries' /\ entries'[e].by = r /\ entries'[e].key = key
          /\ entries'[e].pc = "charging"
      BY <1>7, <1>10
    <3> QED BY <1>1, <3>1, <3>2, <3>3 DEF Owed
  <2> QED BY <2>1, <2>2
<1> QED BY <1>11, <1>12, <1>13 DEF ReadsInv

LEMMA SharedGetKeeps ==
    ASSUME ReadsInv, NEW r \in Request, NEW q, NEW key, NEW least, Asking(r, q, key, least),
           R!SharedGet(r, q, key, least), UNCHANGED <<readNow, value>>
    PROVE  ReadsInv'
<1>1. CASE R!Shares(q, key) /\ R!Fresh(key) # {}
  <2>1. PICK e \in R!Fresh(key) :
           request' = [request EXCEPT ![r] =
                          [q EXCEPT !.seen = @ \cup {key},
                                    !.waits = @ \cup {[entry |-> e, joined |-> TRUE, least |-> least]}]]
    BY <1>1 DEF R!SharedGet
  <2>2. key \notin q.seen /\ UNCHANGED <<readNow, value, entries>>
    BY <1>1 DEF R!SharedGet, R!Shares
  <2> QED BY <2>1, <2>2, JoinKeeps
<1>2. CASE ~(R!Shares(q, key) /\ R!Fresh(key) # {})
  <2>1. R!Start(r, q, key, least)
    BY <1>2 DEF R!SharedGet
  <2> QED BY <2>1, StartKeeps
<1> QED BY <1>1, <1>2

LEMMA EntriesStep ==
    ASSUME ReadsInv, NEW e \in DOMAIN entries,
           R!Refused(e) \/ R!StoreServes(e) \/ R!Settles(e) \/ R!StoreFails(e)
    PROVE  ReadsInv'
<1> DEFINE old == entries[e]
<1>1. old \in Read /\ readNow \in Nat /\ value \in [Key -> Nat] /\ READ_CACHE_MS \in Nat
  BY ReadsAssumption DEF ReadsInv, ReadsType
<1>2. old.key \in Key /\ value[old.key] \in Nat /\ readNow + READ_CACHE_MS \in Nat
  BY <1>1 DEF Read
<1>3. /\ old.pc = "refused" => request[old.by].paid = "over"
      /\ old.pc \in {"read", "done", "failed"} => request[old.by].paid = "ok"
  BY DEF ReadsInv, PaidFor
<1>4. entries \in Seq(Read)
  BY DEF ReadsInv, ReadsType
<1>5. CASE R!Refused(e)
  <2> DEFINE x == [old EXCEPT !.pc = "refused"]
  <2>1. entries' = [entries EXCEPT ![e] = x] /\ request[old.by].paid = "over"
        /\ UNCHANGED <<readNow, value, request>>
    BY <1>4, <1>5 DEF R!Refused
  <2>2. x \in Read /\ x.key = old.key /\ x.by = old.by /\ x.pc = "refused"
    BY <1>1 DEF Read
  <2> HIDE DEF x
  <2> QED BY <2>1, <2>2, EntryKeeps
<1>6. CASE R!StoreServes(e)
  <2> DEFINE x == [old EXCEPT !.pc = "read", !.value = value[old.key]]
  <2>1. entries' = [entries EXCEPT ![e] = x] /\ request[old.by].paid = "ok"
        /\ UNCHANGED <<readNow, value, request>>
    BY <1>4, <1>6 DEF R!StoreServes
  <2>2. x \in Read /\ x.key = old.key /\ x.by = old.by /\ x.pc = "read" /\ x.value = value[old.key]
    BY <1>1, <1>2 DEF Read
  <2> HIDE DEF x
  <2> QED BY <2>1, <2>2, EntryKeeps
<1>7. CASE R!Settles(e)
  <2> DEFINE x == [old EXCEPT !.pc = "done", !.expires = readNow + READ_CACHE_MS]
  <2>1. entries' = [entries EXCEPT ![e] = x] /\ old.pc = "read"
        /\ UNCHANGED <<readNow, value, request>>
    BY <1>4, <1>7 DEF R!Settles
  <2>2. x \in Read /\ x.key = old.key /\ x.by = old.by /\ x.pc = "done" /\ x.value = old.value
    BY <1>1, <1>2 DEF Read
  <2> HIDE DEF x
  <2> QED BY <1>3, <2>1, <2>2, EntryKeeps
<1>8. CASE R!StoreFails(e)
  <2> DEFINE x == [old EXCEPT !.pc = "failed"]
  <2>1. entries' = [entries EXCEPT ![e] = x] /\ old.pc = "read"
        /\ UNCHANGED <<readNow, value, request>>
    BY <1>4, <1>8 DEF R!StoreFails
  <2>2. x \in Read /\ x.key = old.key /\ x.by = old.by /\ x.pc = "failed"
    BY <1>1 DEF Read
  <2> HIDE DEF x
  <2> QED BY <1>3, <2>1, <2>2, EntryKeeps
<1> QED BY <1>5, <1>6, <1>7, <1>8

LEMMA ReaderFacts ==
    ASSUME ReadsInv, NEW r \in Request
    PROVE  /\ request \in [Request -> Reader] /\ request[r] \in Reader
           /\ request[r].waits \in SUBSET Wait
  BY DEF ReadsInv, ReadsType, Reader

LEMMA ReadersStep ==
    ASSUME ReadsInv, NEW r \in Request,
           R!ChargeAnswers(r) \/ R!Finish(r)
           \/ \E w \in request[r].waits : R!Receive(r, w) \/ R!Fails(r, w)
    PROVE  ReadsInv'
<1> DEFINE old == request[r]
<1>1. request \in [Request -> Reader] /\ old \in Reader
  BY ReaderFacts
<1>2. old.pc = "refused" => old.paid = "over"
  BY DEF ReadsInv, PaidFor
<1>3. CASE R!ChargeAnswers(r)
  <2>1. PICK answer \in {"ok", "over"} : request' = [request EXCEPT ![r].paid = answer]
    BY <1>3 DEF R!ChargeAnswers
  <2> DEFINE q == [old EXCEPT !.paid = answer]
  <2>2. request' = [request EXCEPT ![r] = q] /\ old.paid = "asked"
        /\ UNCHANGED <<readNow, value, entries>>
    BY <1>1, <1>3, <2>1 DEF R!ChargeAnswers
  <2>3. q \in Reader /\ q.waits = old.waits /\ q.charges = old.charges /\ q.pc = old.pc
        /\ q.paid = answer
    BY <1>1 DEF Reader
  <2> HIDE DEF q
  <2> QED BY <1>2, <2>2, <2>3, ReaderKeeps
<1>4. CASE R!Finish(r)
  <2> DEFINE q == [old EXCEPT !.pc = "done"]
  <2>1. request' = [request EXCEPT ![r] = q] /\ UNCHANGED <<readNow, value, entries>>
    BY <1>1, <1>4 DEF R!Finish
  <2>2. q \in Reader /\ q.waits = old.waits /\ q.charges = old.charges /\ q.pc = "done"
        /\ q.paid = old.paid
    BY <1>1 DEF Reader
  <2> HIDE DEF q
  <2> QED BY <2>1, <2>2, ReaderKeeps
<1>5. ASSUME NEW w \in request[r].waits, R!Receive(r, w) PROVE ReadsInv'
  <2> DEFINE waits == old.waits \ {w}
             q == [old EXCEPT !.waits = waits]
  <2>1. request' = [request EXCEPT ![r] = q] /\ UNCHANGED <<readNow, value, entries>>
    BY <1>1, <1>5 DEF R!Receive
  <2>2. waits \subseteq old.waits /\ waits \in SUBSET Wait
    BY <1>1 DEF Reader
  <2> HIDE DEF waits
  <2>3. q \in Reader /\ q.waits = waits /\ q.charges = old.charges /\ q.pc = old.pc
        /\ q.paid = old.paid
    BY <1>1, <2>2 DEF Reader
  <2> HIDE DEF q
  <2> QED BY <1>2, <2>1, <2>2, <2>3, ReaderKeeps
<1>6. ASSUME NEW w \in request[r].waits, R!Fails(r, w) PROVE ReadsInv'
  <2>1. PICK pc \in {"failed", "refused"} :
           /\ request' = [request EXCEPT ![r].pc = pc]
           /\ pc = "refused" => entries[w.entry].pc = "refused" /\ ~w.joined
    BY <1>6 DEF R!Fails, R!RefusesOwn
  <2> DEFINE q == [old EXCEPT !.pc = pc]
  <2>2. request' = [request EXCEPT ![r] = q] /\ UNCHANGED <<readNow, value, entries>>
    BY <1>1, <1>6, <2>1 DEF R!Fails
  <2>3. q \in Reader /\ q.waits = old.waits /\ q.charges = old.charges /\ q.pc = pc
        /\ q.paid = old.paid
    BY <1>1 DEF Reader
  <2>4. pc = "refused" => old.paid = "over"
    <3>1. Owed(r, w)
      BY DEF ReadsInv
    <3> QED BY <2>1, <3>1 DEF Owed, ReadsInv, PaidFor
  <2> HIDE DEF q
  <2> QED BY <2>2, <2>3, <2>4, ReaderKeeps
<1> QED BY <1>3, <1>4, <1>5, <1>6

LEMMA AsksStep ==
    ASSUME ReadsInv, NEW r \in Request,
           R!Ask(r) \/ \E w \in request[r].waits : R!ReadAgain(r, w)
    PROVE  ReadsInv'
<1> DEFINE old == request[r]
<1>1. request \in [Request -> Reader] /\ old \in Reader /\ value \in [Key -> Nat]
  BY ReaderFacts DEF ReadsInv, ReadsType
<1>2. CASE R!Ask(r)
  <2> DEFINE q == [old EXCEPT !.asks = @ + 1]
  <2>1. PICK key \in Key : R!SharedGet(r, q, key, IF key \in old.seen THEN value[key] ELSE 0)
    BY <1>2 DEF R!Ask
  <2> DEFINE least == IF key \in old.seen THEN value[key] ELSE 0
  <2>2. old.pc = "open" /\ UNCHANGED <<readNow, value>>
    BY <1>2 DEF R!Ask
  <2>3. q \in Reader /\ q.waits = old.waits /\ q.pc = old.pc /\ q.paid = old.paid
        /\ q.charges = old.charges /\ q.seen = old.seen
    BY <1>1 DEF Reader
  <2>4. R!SharedGet(r, q, key, least)
    BY <2>1
  <2>5. least \in Nat /\ least <= value[key] /\ (key \notin old.seen => least = 0)
    <3>1. value[key] \in Nat
      BY <1>1
    <3> QED BY <3>1
  <2> HIDE DEF q, least
  <2>6. Asking(r, q, key, least)
    BY <2>2, <2>3, <2>5 DEF Asking
  <2> QED BY <2>2, <2>4, <2>6, SharedGetKeeps
<1>3. ASSUME NEW w \in request[r].waits, R!ReadAgain(r, w) PROVE ReadsInv'
  <2> DEFINE key == entries[w.entry].key
             waits == old.waits \ {w}
             seen == old.seen \ {key}
             q == [old EXCEPT !.waits = waits, !.seen = seen]
  <2>1. R!SharedGet(r, q, key, w.least) /\ old.pc = "open" /\ w.joined /\ UNCHANGED <<readNow, value>>
    BY <1>3 DEF R!ReadAgain, R!Waiting, R!RefusesOwn
  <2>2. waits \subseteq old.waits /\ waits \in SUBSET Wait /\ seen \in SUBSET Key
    BY <1>1 DEF Reader
  <2>3. w.least = 0 /\ key \in Key
    <3>1. Owed(r, w)
      BY DEF ReadsInv
    <3>2. entries[w.entry] \in Read
      BY <3>1 DEF Owed, ReadsInv, ReadsType
    <3> QED BY <2>1, <3>1, <3>2 DEF Owed, Read
  <2>4. value[key] \in Nat
    BY <1>1, <2>3
  <2> HIDE DEF waits, seen, key
  <2>5. q \in Reader /\ q.waits = waits /\ q.pc = old.pc /\ q.paid = old.paid
        /\ q.charges = old.charges
    BY <1>1, <2>2 DEF Reader
  <2> HIDE DEF q
  <2>6. Asking(r, q, key, w.least)
    BY <2>1, <2>2, <2>3, <2>4, <2>5 DEF Asking
  <2> QED BY <2>1, <2>6, SharedGetKeeps
<1> QED BY <1>2, <1>3

LEMMA ReadsInit == R!Init => ReadsInv
<1> SUFFICES ASSUME R!Init PROVE ReadsInv
  OBVIOUS
<1>1. /\ readNow = 0 /\ value = [k \in Key |-> 0] /\ entries = <<>>
      /\ request = [r \in Request |-> [pc |-> "open", asks |-> 0, paid |-> "no", charges |-> 0,
                                       seen |-> {}, waits |-> {}]]
  BY DEF R!Init
<1>2. ReadsType
  BY <1>1 DEF ReadsType, Reader
<1> QED BY <1>1, <1>2 DEF ReadsInv, PaidFor

LEMMA ReadsStep == ReadsInv /\ [R!Next]_readVars => ReadsInv'
<1> SUFFICES ASSUME ReadsInv, [R!Next]_readVars PROVE ReadsInv'
  OBVIOUS
<1>1. CASE R!Reads
  BY <1>1, EntriesStep, ReadersStep, AsksStep DEF R!Reads
<1>2. ASSUME NEW r \in Request, R!Ask(r) PROVE ReadsInv'
  BY <1>2, AsksStep
<1>3. CASE R!Write
  <2>1. PICK k \in Key : value' = [value EXCEPT ![k] = @ + 1]
    BY <1>3 DEF R!Write
  <2>2. UNCHANGED <<readNow, entries, request>>
    BY <1>3 DEF R!Write
  <2>3. value \in [Key -> Nat] /\ entries \in Seq(Read) /\ request \in [Request -> Reader]
    BY DEF ReadsInv, ReadsType
  <2>4. value' \in [Key -> Nat] /\ \A y \in Key : value[y] <= value'[y]
    BY <2>1, <2>3
  <2>5. ReadsType' /\ PaidFor'
    BY <2>2, <2>4 DEF ReadsInv, ReadsType, PaidFor
  <2>6. ASSUME NEW r \in Request, NEW w \in request[r].waits PROVE Owed(r, w)'
    <3>1. Owed(r, w)
      BY DEF ReadsInv
    <3>2. w \in Wait /\ entries[w.entry] \in Read
      BY <2>3, <3>1, ReaderFacts DEF Owed
    <3>3. w.least \in Nat /\ entries[w.entry].key \in Key
      BY <3>2 DEF Wait, Read
    <3>4. w.least <= value'[entries[w.entry].key]
      <4> DEFINE y == entries[w.entry].key
      <4>1. w.least <= value[y] /\ value[y] \in Nat /\ value'[y] \in Nat /\ value[y] <= value'[y]
        BY <2>3, <2>4, <3>1, <3>3 DEF Owed
      <4> QED BY <3>3, <4>1
    <3> QED BY <2>2, <3>1, <3>4 DEF Owed
  <2> QED BY <2>2, <2>5, <2>6 DEF ReadsInv
<1>4. CASE R!Tick
  <2>1. readNow' = readNow + 1 /\ UNCHANGED <<value, entries, request>>
    BY <1>4 DEF R!Tick
  <2> QED BY <2>1 DEF ReadsInv, ReadsType, PaidFor, Owed
<1>5. CASE UNCHANGED readVars
  BY <1>5 DEF ReadsInv, ReadsType, PaidFor, Owed, readVars
<1> QED BY <1>1, <1>2, <1>3, <1>4, <1>5 DEF R!Next

\* A read waits for the charge of the request that started it, which is charged once, and a
\* request that asks after a value waits for a read of its own, made since: for any requests and
\* keys and any lifetime and size of the shared map (application.mjs: sharedGet, startValue).
THEOREM ReadsAccounted == R!Spec => []ReadsInv
<1>1. ReadsInv /\ UNCHANGED R!vars => ReadsInv'
  BY ReadsStep DEF R!vars, readVars
<1> QED BY <1>1, ReadsInit, ReadsStep, PTL DEF R!Spec, R!vars, readVars

\* What the properties say of the reads follows.
LEMMA ReadsFollow == ReadsInv => R!OwnCharge /\ R!RecheckIsNew
<1> SUFFICES ASSUME ReadsInv PROVE R!OwnCharge /\ R!RecheckIsNew
  OBVIOUS
<1>1. R!OwnCharge
  BY DEF ReadsInv, PaidFor, R!OwnCharge
<1>2. R!RecheckIsNew
  BY DEF ReadsInv, Owed, R!RecheckIsNew
<1> QED BY <1>1, <1>2

-----------------------------------------------------------------------------
(* Media of launches: two stores that keep their books differently, alike. *)

\* What takes the Redis store's bytes, and what either store serves.
Taken(s)      == {x \in Blob : s.pending[x] # 0 \/ s.key[x] = Forever}
FileLive(s)   == s.kept \cup {x \in Blob : s.held[x] > now}

RedisOK(s) ==
    /\ s \in [key : [Blob -> Nat], pending : [Blob -> Nat], bytes : Nat]
    /\ \A x \in Blob :
          /\ s.key[x] <= now + PENDING \/ s.key[x] = Forever
          /\ s.pending[x] # 0 => s.pending[x] = s.key[x] /\ s.pending[x] <= now + PENDING
          /\ s.pending[x] = 0 => s.key[x] <= now \/ s.key[x] = Forever
    /\ s.bytes = Bytes(Taken(s)) /\ s.bytes <= LIMIT

FileOK(s) ==
    /\ s \in [kept : SUBSET Blob, held : [Blob -> Nat], bytes : Nat \cup {-1}, swept : Nat]
    /\ \A x \in s.kept : s.held[x] = 0
    /\ s.bytes # -1 => s.bytes = Bytes(Files(s)) /\ s.bytes <= LIMIT

\* The two hold the same for good, and until the same time.
Agree(r, f) ==
    \A x \in Blob :
        /\ x \in f.kept <=> r.key[x] = Forever
        /\ f.held[x] > now \/ r.pending[x] > now => f.held[x] = r.pending[x]

\* A document that is served has its artwork at least as long.
Covered ==
    /\ \A doc \in Doc : redis.key[doc] > now => redis.key[doc] <= redis.key[ArtOf[doc]]
    /\ issue.pc = "doc" => now + PENDING <= redis.key[ArtOf[issue.doc]]
    /\ keep.pc = "art" => now < redis.key[keep.doc]
    /\ keep.pc = "doc" => redis.key[ArtOf[keep.doc]] = Forever
    /\ \A doc \in Doc : doc \in pinned => ArtOf[doc] \in pinned
    /\ issue.pc = "pinDoc" => ArtOf[issue.doc] \in pinned

MediaType ==
    /\ now \in 1..MaxNow
    /\ issue \in [pc : {"idle", "read", "art", "doc", "pinArt", "pinDoc"}, doc : Doc]
    /\ keep \in [pc : {"idle", "art", "doc"}, doc : Doc]
    /\ issued \subseteq Doc /\ coins \subseteq Doc

MediaInv ==
    /\ MediaType /\ RedisOK(redis) /\ FileOK(file) /\ Agree(redis, file)
    /\ answers.redis = answers.file /\ Covered

LEMMA BytesAre ==
    ASSUME NEW S \in SUBSET Blob
    PROVE  /\ IsFiniteSet(S) /\ Bytes(S) = Total(S, Size) /\ Bytes(S) \in Nat
           /\ \A T \in SUBSET S : /\ Bytes(T) \in Nat /\ Bytes(T) <= Bytes(S)
                                  /\ Bytes(S \ T) = Bytes(S) - Bytes(T)
           /\ \A x \in Blob \ S : Bytes(S \cup {x}) = Bytes(S) + Size[x]
<1>1. IsFiniteSet(Blob) /\ \A x \in Blob : Size[x] \in Nat
  BY MediaAssumption, FS_Union DEF Blob
<1>2. \A T \in SUBSET Blob : /\ IsFiniteSet(T) /\ Bytes(T) = Total(T, Size) /\ Bytes(T) \in Nat
  <2> TAKE T \in SUBSET Blob
  <2>1. IsFiniteSet(T)
    BY <1>1, FS_Subset
  <2>2. Bytes(T) = Total(T, Size)
    BY DEF Bytes, Total, Units
  <2>3. Total(T, Size) \in Nat
    BY <1>1, <2>1, UnitsFinite
  <2> QED BY <2>1, <2>2, <2>3
<1>3. ASSUME NEW T \in SUBSET S
      PROVE  Bytes(T) \in Nat /\ Bytes(T) <= Bytes(S) /\ Bytes(S \ T) = Bytes(S) - Bytes(T)
  <2>1. (S \ T) \cup T = S /\ (S \ T) \cap T = {} /\ T \in SUBSET Blob /\ S \ T \in SUBSET Blob
    OBVIOUS
  <2>2. Total((S \ T) \cup T, Size) = Total(S \ T, Size) + Total(T, Size)
    BY <1>1, <1>2, <2>1, TotalUnion
  <2>3. Total((S \ T) \cup T, Size) = Total(S, Size)
    BY <2>1, Zenon
  <2>4. Bytes(S) = Bytes(S \ T) + Bytes(T)
    BY <1>2, <2>1, <2>2, <2>3
  <2> QED BY <1>2, <2>1, <2>4
<1>4. ASSUME NEW x \in Blob \ S
      PROVE  Bytes(S \cup {x}) = Bytes(S) + Size[x]
  <2>1. S \cap {x} = {} /\ S \cup {x} \in SUBSET Blob /\ {x} \in SUBSET Blob
    OBVIOUS
  <2>2. Total(S \cup {x}, Size) = Total(S, Size) + Total({x}, Size)
    BY <1>1, <1>2, <2>1, TotalUnion
  <2>3. Total({x}, Size) = Size[x]
    BY <1>1, TotalOne
  <2> QED BY <1>2, <2>1, <2>2, <2>3
<1> QED BY <1>2, <1>3, <1>4

LEMMA MediaNumbers ==
    ASSUME now \in 1..MaxNow
    PROVE  /\ now \in Nat /\ now > 0 /\ PENDING \in Nat /\ PENDING > 0 /\ Forever \in Nat
           /\ now + PENDING \in Nat /\ now + PENDING < Forever /\ now < now + PENDING
           /\ LIMIT \in Nat /\ \A x \in Blob : Size[x] \in Nat
           /\ \A doc \in Doc : doc \in Blob /\ ArtOf[doc] \in Art /\ ArtOf[doc] \in Blob
           /\ Art \cap Doc = {} /\ Art \subseteq Blob
  BY MediaAssumption DEF Forever, Blob

-----------------------------------------------------------------------------
(* The Redis store.                                                        *)

\* What expired takes no room any more once it is given back.
LEMMA GiveBackKeeps ==
    ASSUME now \in 1..MaxNow, NEW s, RedisOK(s), NEW blobs \in SUBSET ExpiredIn(s),
           NEW room, room = GiveBack(s, blobs)
    PROVE  /\ RedisOK(room) /\ room.key = s.key
           /\ \A x \in Blob : room.pending[x] = IF x \in blobs THEN 0 ELSE s.pending[x]
           /\ Taken(room) = Taken(s) \ blobs
<1>1. /\ s \in [key : [Blob -> Nat], pending : [Blob -> Nat], bytes : Nat]
      /\ s.bytes = Bytes(Taken(s)) /\ s.bytes <= LIMIT
  BY DEF RedisOK
<1>2. blobs \subseteq Taken(s) /\ blobs \in SUBSET Blob /\ Taken(s) \in SUBSET Blob
  BY DEF ExpiredIn, Taken
<1>3. Bytes(blobs) \in Nat /\ Bytes(blobs) <= Bytes(Taken(s)) /\ Bytes(Taken(s)) \in Nat
      /\ Bytes(Taken(s) \ blobs) = Bytes(Taken(s)) - Bytes(blobs)
  BY <1>2, BytesAre
<1>4. /\ room.key = s.key /\ room.bytes = s.bytes - Bytes(blobs)
      /\ room.pending = [x \in Blob |-> IF x \in blobs THEN 0 ELSE s.pending[x]]
      /\ room = [key |-> room.key, pending |-> room.pending, bytes |-> room.bytes]
  <2> DEFINE pending == [x \in Blob |-> IF x \in blobs THEN 0 ELSE s.pending[x]]
             bytes == s.bytes - Bytes(blobs)
  <2>1. room = [s EXCEPT !.bytes = bytes, !.pending = pending]
    BY DEF GiveBack
  <2> HIDE DEF pending, bytes
  <2>2. room = [key |-> s.key, pending |-> pending, bytes |-> bytes]
    BY <1>1, <2>1
  <2> QED BY <2>2 DEF pending, bytes
<1>5. \A x \in Blob : room.pending[x] = IF x \in blobs THEN 0 ELSE s.pending[x]
  BY <1>4
<1>6. \A x \in blobs : s.pending[x] # 0 /\ s.pending[x] = s.key[x] /\ s.pending[x] <= now
  BY <1>1, <1>2 DEF ExpiredIn, RedisOK
<1>7. Taken(room) = Taken(s) \ blobs
  <2>1. ASSUME NEW x \in Blob PROVE x \in Taken(room) <=> x \in Taken(s) /\ x \notin blobs
    <3>1. CASE x \in blobs
      <4>1. s.key[x] # Forever
        BY <1>1, <1>6, <3>1, MediaNumbers
      <4> QED BY <1>4, <1>5, <3>1, <4>1 DEF Taken
    <3>2. CASE x \notin blobs
      BY <1>4, <1>5, <3>2 DEF Taken
    <3> QED BY <3>1, <3>2
  <2> QED BY <2>1 DEF Taken
<1>8. room \in [key : [Blob -> Nat], pending : [Blob -> Nat], bytes : Nat]
  <2>1. room.pending \in [Blob -> Nat]
    BY <1>1, <1>4
  <2>2. room.bytes \in Nat
    BY <1>1, <1>3, <1>4
  <2> QED BY <1>1, <1>4, <2>1, <2>2
<1>9. ASSUME NEW x \in Blob
      PROVE  /\ room.key[x] <= now + PENDING \/ room.key[x] = Forever
             /\ room.pending[x] # 0 => room.pending[x] = room.key[x] /\ room.pending[x] <= now + PENDING
             /\ room.pending[x] = 0 => room.key[x] <= now \/ room.key[x] = Forever
  <2>1. CASE x \in blobs
    BY <1>4, <1>5, <1>6, <2>1 DEF RedisOK
  <2>2. CASE x \notin blobs
    BY <1>4, <1>5, <2>2 DEF RedisOK
  <2> QED BY <2>1, <2>2
<1>10. room.bytes = Bytes(Taken(room))
  <2>1. Bytes(Taken(room)) = Bytes(Taken(s) \ blobs)
    BY <1>7, Zenon
  <2> QED BY <1>1, <1>3, <1>4, <2>1
<1>11. room.bytes <= LIMIT
  BY <1>1, <1>3, <1>4, MediaNumbers
<1> QED BY <1>4, <1>5, <1>7, <1>8, <1>9, <1>10, <1>11 DEF RedisOK

LEMMA SetBoth ==
    ASSUME NEW s \in [key : [Blob -> Nat], pending : [Blob -> Nat], bytes : Nat], NEW x,
           NEW t, t = [s EXCEPT !.key[x] = now + PENDING, !.pending[x] = now + PENDING]
    PROVE  t = [key |-> [s.key EXCEPT ![x] = now + PENDING],
                pending |-> [s.pending EXCEPT ![x] = now + PENDING], bytes |-> s.bytes]
<1> DEFINE k2 == [s.key EXCEPT ![x] = now + PENDING]
           p2 == [s.pending EXCEPT ![x] = now + PENDING]
<1>1. t = [s EXCEPT !.key = k2, !.pending = p2]
  OBVIOUS
<1> HIDE DEF k2, p2
<1>2. t = [key |-> k2, pending |-> p2, bytes |-> s.bytes]
  BY <1>1
<1> QED BY <1>2 DEF k2, p2

LEMMA SetAll ==
    ASSUME NEW s \in [key : [Blob -> Nat], pending : [Blob -> Nat], bytes : Nat], NEW x,
           NEW t, t = [s EXCEPT !.key[x] = now + PENDING, !.pending[x] = now + PENDING,
                                !.bytes = @ + Size[x]]
    PROVE  t = [key |-> [s.key EXCEPT ![x] = now + PENDING],
                pending |-> [s.pending EXCEPT ![x] = now + PENDING], bytes |-> s.bytes + Size[x]]
<1> DEFINE k2 == [s.key EXCEPT ![x] = now + PENDING]
           p2 == [s.pending EXCEPT ![x] = now + PENDING]
           n2 == s.bytes + Size[x]
<1>1. t = [s EXCEPT !.key = k2, !.pending = p2, !.bytes = n2]
  OBVIOUS
<1> HIDE DEF k2, p2, n2
<1>2. t = [key |-> k2, pending |-> p2, bytes |-> n2]
  BY <1>1
<1> QED BY <1>2 DEF k2, p2, n2

\* A blob is put, or put off: it takes its bytes once.
LEMMA PutKeeps ==
    ASSUME now \in 1..MaxNow, NEW s, RedisOK(s), NEW x \in Blob, s.key[x] # Forever,
           NEW key, key = [s.key EXCEPT ![x] = now + PENDING],
           NEW pending, pending = [s.pending EXCEPT ![x] = now + PENDING],
           NEW bytes, bytes = IF x \in Taken(s) THEN s.bytes ELSE s.bytes + Size[x], bytes <= LIMIT
    PROVE  RedisOK([key |-> key, pending |-> pending, bytes |-> bytes])
<1> DEFINE t == [key |-> key, pending |-> pending, bytes |-> bytes]
<1>1. /\ s.key \in [Blob -> Nat] /\ s.pending \in [Blob -> Nat] /\ s.bytes \in Nat
      /\ s.bytes = Bytes(Taken(s))
  BY DEF RedisOK
<1>2. /\ key \in [Blob -> Nat] /\ pending \in [Blob -> Nat] /\ bytes \in Nat
  BY <1>1, MediaNumbers
<1>3. \A y \in Blob : key[y] = IF y = x THEN now + PENDING ELSE s.key[y]
  BY <1>1
<1>4. \A y \in Blob : pending[y] = IF y = x THEN now + PENDING ELSE s.pending[y]
  BY <1>1
<1>5. t.key = key /\ t.pending = pending /\ t.bytes = bytes
      /\ t \in [key : [Blob -> Nat], pending : [Blob -> Nat], bytes : Nat]
  BY <1>2
<1> HIDE DEF t
<1>6. ASSUME NEW y \in Blob
      PROVE  /\ t.key[y] <= now + PENDING \/ t.key[y] = Forever
             /\ t.pending[y] # 0 => t.pending[y] = t.key[y] /\ t.pending[y] <= now + PENDING
             /\ t.pending[y] = 0 => t.key[y] <= now \/ t.key[y] = Forever
  <2>1. CASE y = x
    BY <1>3, <1>4, <1>5, <2>1, MediaNumbers
  <2>2. CASE y # x
    BY <1>3, <1>4, <1>5, <2>2 DEF RedisOK
  <2> QED BY <2>1, <2>2
<1>7. Taken(t) = Taken(s) \cup {x}
  <2>1. ASSUME NEW y \in Blob PROVE y \in Taken(t) <=> y \in Taken(s) \/ y = x
    <3>1. CASE y = x
      BY <1>4, <1>5, <3>1, MediaNumbers DEF Taken
    <3>2. CASE y # x
      BY <1>3, <1>4, <1>5, <3>2 DEF Taken
    <3> QED BY <3>1, <3>2
  <2> QED BY <2>1 DEF Taken
<1>8. Taken(s) \in SUBSET Blob
  BY DEF Taken
<1>9. t.bytes = Bytes(Taken(t))
  <2>1. CASE x \in Taken(s)
    <3>1. Taken(t) = Taken(s)
      BY <1>7, <2>1
    <3> QED BY <1>1, <1>5, <2>1, <3>1
  <2>2. CASE x \notin Taken(s)
    <3>1. Bytes(Taken(s) \cup {x}) = Bytes(Taken(s)) + Size[x]
      BY <1>8, <2>2, BytesAre
    <3> QED BY <1>1, <1>5, <1>7, <2>2, <3>1
  <2> QED BY <2>1, <2>2
<1>10. RedisOK(t)
  BY <1>5, <1>6, <1>9 DEF RedisOK
<1> QED BY <1>10 DEF t

RedisLive(s) == {y \in Blob : s.key[y] > now}

\* Nothing is shortened, and a put is answered from what is live.
LEMMA RedisPutIs ==
    ASSUME now \in 1..MaxNow, NEW s, RedisOK(s), NEW x \in Blob,
           NEW reply, reply = RedisPut(s, x)
    PROVE  /\ RedisOK(reply.store)
           /\ \A y \in Blob \ {x} :
                 /\ reply.store.key[y] = s.key[y]
                 /\ \/ reply.store.pending[y] = s.pending[y]
                    \/ reply.store.pending[y] = 0 /\ s.pending[y] <= now
           /\ reply.answer = IF s.key[x] > now THEN "had"
                             ELSE IF Bytes(RedisLive(s)) + Size[x] > LIMIT THEN "full" ELSE "stored"
           /\ reply.store.key[x] = IF s.key[x] = Forever \/ reply.answer = "full"
                                   THEN s.key[x] ELSE now + PENDING
           /\ s.key[x] = Forever => reply.store.pending[x] = 0
<1> DEFINE t == reply.store
           put == now + PENDING
           room == GiveBack(s, ExpiredIn(s))
<1>1. /\ s.key \in [Blob -> Nat] /\ s.pending \in [Blob -> Nat] /\ s.bytes \in Nat
      /\ s.bytes = Bytes(Taken(s)) /\ s.bytes <= LIMIT
      /\ s \in [key : [Blob -> Nat], pending : [Blob -> Nat], bytes : Nat]
  BY DEF RedisOK
<1>2. /\ s.key[x] \in Nat /\ s.pending[x] \in Nat
      /\ s.key[x] <= put \/ s.key[x] = Forever
      /\ s.pending[x] # 0 => s.pending[x] = s.key[x] /\ s.pending[x] <= put
      /\ s.pending[x] = 0 => s.key[x] <= now \/ s.key[x] = Forever
  BY <1>1 DEF RedisOK
<1>3. CASE s.key[x] > now /\ s.key[x] # Forever
  <2> DEFINE key == [s.key EXCEPT ![x] = put]
             pending == [s.pending EXCEPT ![x] = put]
  <2>1. s.pending[x] # 0 /\ Exists(s, x)
    BY <1>2, <1>3 DEF Exists
  <2>2. reply = Reply([s EXCEPT !.key[x] = now + PENDING, !.pending[x] = now + PENDING], "had")
    BY <2>1 DEF RedisPut
  <2>3. t = [s EXCEPT !.key[x] = now + PENDING, !.pending[x] = now + PENDING]
        /\ reply.answer = "had"
    BY <2>2 DEF Reply
  <2>4. t = [key |-> key, pending |-> pending, bytes |-> s.bytes]
    <3> HIDE DEF t
    <3> QED BY <1>1, <2>3, SetBoth
  <2>4a. t.key = key /\ t.pending = pending
    BY <2>4
  <2>5. x \in Taken(s)
    BY <2>1 DEF Taken
  <2>6. RedisOK(t)
    <3> HIDE DEF t
    <3> QED BY <1>1, <1>3, <2>4, <2>5, PutKeeps
  <2>7. key[x] = put /\ \A y \in Blob \ {x} : key[y] = s.key[y] /\ pending[y] = s.pending[y]
    BY <1>1
  <2> HIDE DEF key, pending
  <2> QED BY <1>3, <2>3, <2>4a, <2>6, <2>7
<1>4. CASE s.key[x] = Forever
  <2>1. s.pending[x] = 0 /\ s.key[x] > now
    BY <1>2, <1>4, MediaNumbers
  <2>2. reply = Reply(s, "had")
    BY <1>4, <2>1 DEF RedisPut
  <2>3. t = s /\ reply.answer = "had"
    BY <2>2 DEF Reply
  <2> QED BY <1>4, <2>1, <2>3
<1>5. CASE ~(s.key[x] > now)
  <2>1. ~(s.pending[x] # 0 /\ Exists(s, x)) /\ s.key[x] # Forever
    BY <1>2, <1>5, MediaNumbers DEF Exists
  <2>2. reply = IF room.bytes + Size[x] > LIMIT THEN Reply(room, "full")
                ELSE Reply([room EXCEPT !.key[x] = now + PENDING, !.pending[x] = now + PENDING,
                                        !.bytes = @ + Size[x]], "stored")
    BY <2>1 DEF RedisPut
  <2>3. /\ RedisOK(room) /\ room.key = s.key
        /\ \A y \in Blob : room.pending[y] = IF y \in ExpiredIn(s) THEN 0 ELSE s.pending[y]
        /\ Taken(room) = Taken(s) \ ExpiredIn(s)
    BY GiveBackKeeps
  <2> HIDE DEF room
  <2>4. \A y \in Blob : \/ room.pending[y] = s.pending[y]
                        \/ room.pending[y] = 0 /\ s.pending[y] <= now
    BY <1>1, <2>3 DEF ExpiredIn
  <2>5. RedisLive(s) = Taken(room)
    <3>1. ASSUME NEW y \in Blob
          PROVE  y \in RedisLive(s) <=> y \in Taken(s) /\ y \notin ExpiredIn(s)
      <4>1. /\ s.key[y] \in Nat /\ s.pending[y] \in Nat
            /\ s.key[y] <= put \/ s.key[y] = Forever
            /\ s.pending[y] # 0 => s.pending[y] = s.key[y] /\ s.pending[y] <= put
            /\ s.pending[y] = 0 => s.key[y] <= now \/ s.key[y] = Forever
        BY <1>1 DEF RedisOK
      <4> QED BY <4>1, MediaNumbers DEF RedisLive, Taken, ExpiredIn
    <3> QED BY <2>3, <3>1 DEF RedisLive, Taken
  <2>6. room.bytes = Bytes(RedisLive(s)) /\ room.bytes \in Nat
    BY <2>3, <2>5 DEF RedisOK
  <2>7. CASE room.bytes + Size[x] > LIMIT
    <3>1. t = room /\ reply.answer = "full"
      BY <2>2, <2>7 DEF Reply
    <3> QED BY <1>5, <2>1, <2>3, <2>4, <2>6, <2>7, <3>1
  <2>8. CASE ~(room.bytes + Size[x] > LIMIT)
    <3> DEFINE key == [room.key EXCEPT ![x] = put]
               pending == [room.pending EXCEPT ![x] = put]
               bytes == room.bytes + Size[x]
    <3>1. /\ room.key \in [Blob -> Nat] /\ room.pending \in [Blob -> Nat]
          /\ room \in [key : [Blob -> Nat], pending : [Blob -> Nat], bytes : Nat]
      BY <2>3 DEF RedisOK
    <3>2. reply.answer = "stored"
          /\ t = [room EXCEPT !.key[x] = now + PENDING, !.pending[x] = now + PENDING,
                               !.bytes = @ + Size[x]]
      BY <2>2, <2>8 DEF Reply
    <3>3. t = [key |-> key, pending |-> pending, bytes |-> bytes]
      <4> HIDE DEF t
      <4> QED BY <3>1, <3>2, SetAll
    <3>3a. t.key = key /\ t.pending = pending
      BY <3>3
    <3>4. x \notin Taken(room)
      BY <1>5, <2>5 DEF RedisLive
    <3>5. bytes <= LIMIT
      BY <2>6, <2>8, MediaNumbers
    <3>6. RedisOK(t)
      <4> HIDE DEF t
      <4> QED BY <2>1, <2>3, <3>3, <3>4, <3>5, PutKeeps
    <3>7. key[x] = put /\ \A y \in Blob \ {x} : key[y] = s.key[y] /\ pending[y] = room.pending[y]
      BY <2>3, <3>1
    <3> HIDE DEF key, pending, bytes
    <3> QED BY <1>5, <2>1, <2>4, <2>6, <2>8, <3>2, <3>3a, <3>6, <3>7
  <2> QED BY <2>7, <2>8
<1> QED BY <1>3, <1>4, <1>5

\* Only what is live is made permanent.
LEMMA RedisPromoteIs ==
    ASSUME now \in 1..MaxNow, NEW s, RedisOK(s), NEW x \in Blob,
           NEW reply, reply = RedisPromote(s, x)
    PROVE  /\ RedisOK(reply.store)
           /\ \A y \in Blob \ {x} : /\ reply.store.key[y] = s.key[y]
                                    /\ reply.store.pending[y] = s.pending[y]
           /\ reply.answer = IF s.key[x] > now THEN "kept" ELSE "gone"
           /\ reply.store.key[x] = IF s.key[x] > now THEN Forever ELSE s.key[x]
           /\ reply.store.pending[x] <= now
<1> DEFINE t == reply.store
<1>1. /\ s.key \in [Blob -> Nat] /\ s.pending \in [Blob -> Nat] /\ s.bytes \in Nat
      /\ s.bytes = Bytes(Taken(s)) /\ s.bytes <= LIMIT
      /\ s \in [key : [Blob -> Nat], pending : [Blob -> Nat], bytes : Nat]
  BY DEF RedisOK
<1>2. /\ s.key[x] \in Nat /\ s.pending[x] \in Nat
      /\ s.key[x] <= now + PENDING \/ s.key[x] = Forever
      /\ s.pending[x] # 0 => s.pending[x] = s.key[x] /\ s.pending[x] <= now + PENDING
      /\ s.pending[x] = 0 => s.key[x] <= now \/ s.key[x] = Forever
  BY <1>1 DEF RedisOK
<1>3. CASE s.pending[x] # 0 /\ s.key[x] > now
  <2> DEFINE k2 == [s.key EXCEPT ![x] = Forever]
             p2 == [s.pending EXCEPT ![x] = 0]
  <2>1. reply = Reply([s EXCEPT !.key[x] = Forever, !.pending[x] = 0], "kept")
    BY <1>3 DEF RedisPromote, Exists
  <2>2. t = [s EXCEPT !.key = k2, !.pending = p2] /\ reply.answer = "kept"
    BY <2>1 DEF Reply
  <2>3. /\ k2 \in [Blob -> Nat] /\ p2 \in [Blob -> Nat] /\ k2[x] = Forever /\ p2[x] = 0
        /\ \A y \in Blob \ {x} : k2[y] = s.key[y] /\ p2[y] = s.pending[y]
    BY <1>1, MediaNumbers
  <2> HIDE DEF k2, p2, t
  <2>4. t.key = k2 /\ t.pending = p2 /\ t.bytes = s.bytes
        /\ t \in [key : [Blob -> Nat], pending : [Blob -> Nat], bytes : Nat]
    BY <1>1, <2>2, <2>3
  <2>5. Taken(t) = Taken(s)
    <3>1. ASSUME NEW y \in Blob PROVE y \in Taken(t) <=> y \in Taken(s)
      <4>1. CASE y = x
        BY <1>3, <2>3, <2>4, <4>1 DEF Taken
      <4>2. CASE y # x
        BY <2>3, <2>4, <4>2 DEF Taken
      <4> QED BY <4>1, <4>2
    <3> QED BY <3>1 DEF Taken
  <2>6. ASSUME NEW y \in Blob
        PROVE  /\ t.key[y] <= now + PENDING \/ t.key[y] = Forever
               /\ t.pending[y] # 0 => t.pending[y] = t.key[y] /\ t.pending[y] <= now + PENDING
               /\ t.pending[y] = 0 => t.key[y] <= now \/ t.key[y] = Forever
    <3>1. CASE y = x
      BY <2>3, <2>4, <3>1
    <3>2. CASE y # x
      BY <2>3, <2>4, <3>2 DEF RedisOK
    <3> QED BY <3>1, <3>2
  <2>7. t.bytes = Bytes(Taken(t))
    BY <1>1, <2>4, <2>5
  <2>8. RedisOK(t)
    BY <1>1, <2>4, <2>6, <2>7 DEF RedisOK
  <2>9. t.pending[x] <= now
    BY <2>3, <2>4, MediaNumbers
  <2> QED BY <1>3, <2>2, <2>3, <2>4, <2>8, <2>9 DEF t
<1>4. CASE s.pending[x] = 0
  <2>1. reply = Reply(s, IF s.key[x] = Forever THEN "kept" ELSE "gone")
    BY <1>4 DEF RedisPromote
  <2>2. t = s /\ reply.answer = IF s.key[x] = Forever THEN "kept" ELSE "gone"
    BY <2>1 DEF Reply
  <2>3. s.key[x] > now <=> s.key[x] = Forever
    BY <1>2, <1>4, MediaNumbers
  <2>4. t.pending[x] <= now
    BY <1>4, <2>2, MediaNumbers
  <2> QED BY <2>2, <2>3, <2>4
<1>5. CASE s.pending[x] # 0 /\ ~(s.key[x] > now)
  <2>1. reply = Reply(GiveBack(s, {x}), "gone")
    BY <1>5 DEF RedisPromote, Exists
  <2>2. t = GiveBack(s, {x}) /\ reply.answer = "gone"
    BY <2>1 DEF Reply
  <2>3. {x} \in SUBSET ExpiredIn(s)
    BY <1>2, <1>5, MediaNumbers DEF ExpiredIn
  <2> HIDE DEF t
  <2>4. /\ RedisOK(t) /\ t.key = s.key
        /\ \A y \in Blob : t.pending[y] = IF y \in {x} THEN 0 ELSE s.pending[y]
    BY <2>2, <2>3, GiveBackKeeps
  <2>5. t.pending[x] <= now
    BY <2>4, MediaNumbers
  <2> QED BY <1>5, <2>2, <2>4, <2>5 DEF t
<1> QED BY <1>3, <1>4, <1>5

-----------------------------------------------------------------------------
(* The file store.                                                         *)

FileRec == [kept : SUBSET Blob, held : [Blob -> Nat], bytes : Nat \cup {-1}, swept : Nat]

\* Stale files may be gone; all else stays.
Trims(s, t) ==
    /\ t.kept = s.kept
    /\ \A x \in Blob : t.held[x] = s.held[x] \/ (t.held[x] = 0 /\ s.held[x] <= now)

LEMMA TrimsLive ==
    ASSUME now \in 1..MaxNow, NEW s, FileOK(s), NEW t, FileOK(t), Trims(s, t)
    PROVE  FileLive(t) = FileLive(s)
<1>1. ASSUME NEW x \in Blob PROVE t.held[x] > now <=> s.held[x] > now
  <2>1. s.held[x] \in Nat /\ t.held[x] \in Nat
    BY DEF FileOK
  <2> QED BY <2>1, MediaNumbers DEF Trims
<1> QED BY <1>1 DEF FileLive, Trims

LEMMA UnlinkIs ==
    ASSUME now \in 1..MaxNow, NEW s, FileOK(s), NEW blobs \in SUBSET StaleIn(s),
           NEW t, t = Unlink(s, blobs)
    PROVE  /\ FileOK(t) /\ Trims(s, t) /\ t.swept = s.swept /\ (t.bytes = -1 <=> s.bytes = -1)
           /\ \A x \in Blob : t.held[x] = IF x \in blobs THEN 0 ELSE s.held[x]
<1> DEFINE held == [x \in Blob |-> IF x \in blobs THEN 0 ELSE s.held[x]]
           bytes == IF s.bytes = -1 THEN s.bytes ELSE s.bytes - Bytes(blobs)
<1>1. /\ s \in FileRec /\ s.held \in [Blob -> Nat] /\ s.kept \in SUBSET Blob
      /\ s.bytes # -1 => s.bytes = Bytes(Files(s)) /\ s.bytes <= LIMIT
  BY DEF FileOK, FileRec
<1>2. t = [s EXCEPT !.held = held, !.bytes = bytes]
  BY DEF Unlink
<1>3. /\ \A x \in Blob : held[x] = IF x \in blobs THEN 0 ELSE s.held[x]
      /\ held \in [Blob -> Nat]
  BY <1>1
<1>4. \A x \in blobs : x \in Blob /\ s.held[x] # 0 /\ s.held[x] <= now /\ x \notin s.kept
  BY <1>1 DEF StaleIn, FileOK
<1>5. blobs \in SUBSET Files(s) /\ Files(s) \in SUBSET Blob
  BY <1>1, <1>4 DEF Files
<1>6. Bytes(blobs) \in Nat /\ Bytes(blobs) <= Bytes(Files(s)) /\ Bytes(Files(s)) \in Nat
      /\ Bytes(Files(s) \ blobs) = Bytes(Files(s)) - Bytes(blobs)
  BY <1>5, BytesAre
<1>7. /\ bytes \in Nat \cup {-1} /\ (bytes = -1 <=> s.bytes = -1)
      /\ bytes # -1 => bytes = Bytes(Files(s) \ blobs) /\ bytes <= LIMIT
  <2>1. CASE s.bytes = -1
    BY <2>1
  <2>2. CASE s.bytes # -1
    BY <1>1, <1>6, <2>2, MediaAssumption
  <2> QED BY <2>1, <2>2
<1> HIDE DEF held, bytes
<1>8. t.kept = s.kept /\ t.held = held /\ t.bytes = bytes /\ t.swept = s.swept /\ t \in FileRec
  BY <1>1, <1>2, <1>3, <1>7 DEF FileRec
<1>9. Files(t) = Files(s) \ blobs
  <2>1. ASSUME NEW x \in Blob PROVE x \in Files(t) <=> x \in Files(s) /\ x \notin blobs
    BY <1>3, <1>4, <1>8 DEF Files
  <2> QED BY <1>1, <1>8, <2>1 DEF Files
<1>10. FileOK(t)
  <2>1. \A x \in t.kept : t.held[x] = 0
    BY <1>1, <1>3, <1>8 DEF FileOK
  <2>2. t.bytes # -1 => t.bytes = Bytes(Files(t)) /\ t.bytes <= LIMIT
    BY <1>7, <1>8, <1>9
  <2> QED BY <1>8, <2>1, <2>2 DEF FileOK, FileRec
<1>11. Trims(s, t)
  BY <1>3, <1>4, <1>8 DEF Trims
<1> QED BY <1>3, <1>7, <1>8, <1>10, <1>11

LEMMA SweepPendingIs ==
    ASSUME now \in 1..MaxNow, NEW s, FileOK(s), NEW t, t = SweepPending(s)
    PROVE  /\ FileOK(t) /\ Trims(s, t) /\ (t.bytes = -1 <=> s.bytes = -1)
           /\ \A x \in Blob : t.held[x] # 0 => t.held[x] > now
           /\ Files(t) = FileLive(s)
<1> DEFINE u == Unlink(s, StaleIn(s))
<1>1. /\ FileOK(u) /\ Trims(s, u) /\ u.swept = s.swept /\ (u.bytes = -1 <=> s.bytes = -1)
      /\ \A x \in Blob : u.held[x] = IF x \in StaleIn(s) THEN 0 ELSE s.held[x]
  BY UnlinkIs
<1>2. t = [u EXCEPT !.swept = now]
  BY DEF SweepPending
<1> HIDE DEF u
<1>3. t.kept = u.kept /\ t.held = u.held /\ t.bytes = u.bytes /\ t \in FileRec
  BY <1>1, <1>2, MediaNumbers DEF FileOK, FileRec
<1>4. Files(t) = Files(u)
  BY <1>3 DEF Files
<1>5. FileOK(t)
  BY <1>1, <1>3, <1>4 DEF FileOK, FileRec
<1>6. \A x \in Blob : s.held[x] \in Nat
  BY DEF FileOK
<1>7. \A x \in Blob : t.held[x] # 0 => t.held[x] > now
  BY <1>1, <1>3, <1>6, MediaNumbers DEF StaleIn
<1>8. Trims(s, t)
  BY <1>1, <1>3 DEF Trims
<1>9. Files(t) = FileLive(t)
  <2>1. \A x \in Blob : t.held[x] # 0 <=> t.held[x] > now
    BY <1>7, MediaNumbers
  <2> QED BY <2>1 DEF Files, FileLive
<1> QED BY <1>1, <1>3, <1>5, <1>7, <1>8, <1>9, TrimsLive

LEMMA LiveOrDropIs ==
    ASSUME now \in 1..MaxNow, NEW s, FileOK(s), NEW x \in Blob, NEW t, t = LiveOrDrop(s, x)
    PROVE  /\ FileOK(t) /\ Trims(s, t) /\ (t.bytes = -1 <=> s.bytes = -1)
           /\ t.held[x] # 0 <=> s.held[x] > now
           /\ t.held[x] # 0 => t.held[x] = s.held[x]
<1> DEFINE blobs == StaleIn(s) \cap {x}
<1>1. t = Unlink(s, blobs) /\ blobs \in SUBSET StaleIn(s)
  BY DEF LiveOrDrop
<1>2. /\ FileOK(t) /\ Trims(s, t) /\ (t.bytes = -1 <=> s.bytes = -1)
      /\ \A y \in Blob : t.held[y] = IF y \in blobs THEN 0 ELSE s.held[y]
  <2> HIDE DEF blobs
  <2> QED BY <1>1, UnlinkIs
<1>3. s.held[x] \in Nat
  BY DEF FileOK
<1>4. x \in blobs <=> s.held[x] \in 1..now
  BY DEF StaleIn
<1> QED BY <1>2, <1>3, <1>4, MediaNumbers

LEMMA MediaUsageIs ==
    ASSUME now \in 1..MaxNow, NEW s, FileOK(s), Bytes(FileLive(s)) <= LIMIT,
           NEW t, t = MediaUsage(s)
    PROVE  FileOK(t) /\ Trims(s, t) /\ t.bytes # -1
<1>1. CASE s.bytes # -1
  BY <1>1 DEF MediaUsage, Trims
<1>2. CASE s.bytes = -1
  <2> DEFINE live == SweepPending(s)
  <2>1. FileOK(live) /\ Trims(s, live) /\ Files(live) = FileLive(s)
    BY SweepPendingIs
  <2>2. t = [live EXCEPT !.bytes = Bytes(Files(live))]
    BY <1>2 DEF MediaUsage
  <2> HIDE DEF live
  <2>3. FileLive(s) \in SUBSET Blob
    BY DEF FileLive, FileOK
  <2>4. Bytes(FileLive(s)) \in Nat
    BY <2>3, BytesAre
  <2>5. live \in FileRec
    BY <2>1 DEF FileOK, FileRec
  <2>6. t.kept = live.kept /\ t.held = live.held /\ t.bytes = Bytes(FileLive(s)) /\ t \in FileRec
    <3> DEFINE n == Bytes(FileLive(s))
    <3>1. t = [live EXCEPT !.bytes = n] /\ n \in Nat
      BY <2>1, <2>2, <2>4
    <3> HIDE DEF n
    <3>2. t.kept = live.kept /\ t.held = live.held /\ t.bytes = n /\ t \in FileRec
      BY <2>5, <3>1 DEF FileRec
    <3> QED BY <3>2 DEF n
  <2>7. Files(t) = Files(live)
    BY <2>6 DEF Files
  <2>8. t.bytes = Bytes(Files(t))
    BY <2>1, <2>6, <2>7
  <2>9. FileOK(t)
    BY <2>1, <2>6, <2>8 DEF FileOK, FileRec
  <2> QED BY <2>1, <2>4, <2>6, <2>9 DEF Trims
<1> QED BY <1>1, <1>2

\* A put is answered from what is live, whether or not the stale files were swept by then.
LEMMA FilePutIs ==
    ASSUME now \in 1..MaxNow, NEW s, FileOK(s), Bytes(FileLive(s)) <= LIMIT, NEW x \in Blob,
           NEW reply, reply = FilePut(s, x)
    PROVE  /\ FileOK(reply.store) /\ reply.store.kept = s.kept
           /\ \A y \in Blob \ {x} : \/ reply.store.held[y] = s.held[y]
                                    \/ reply.store.held[y] = 0 /\ s.held[y] <= now
           /\ reply.answer = IF x \in FileLive(s) THEN "had"
                             ELSE IF Bytes(FileLive(s)) + Size[x] > LIMIT THEN "full" ELSE "stored"
           /\ IF x \in s.kept THEN reply.store.held[x] = 0
              ELSE IF reply.answer = "full" THEN reply.store.held[x] <= now
              ELSE reply.store.held[x] = now + PENDING
<1> DEFINE counted == MediaUsage(s)
           own == LiveOrDrop(counted, x)
           cleaned == SweepPending(own)
           room == IF own.bytes + Size[x] > LIMIT \/ now - own.swept > SWEEP_MS THEN cleaned ELSE own
           t == reply.store
           put == now + PENDING
<1>1. /\ reply = CASE x \in s.kept -> Reply(counted, "had")
                   [] x \notin s.kept /\ own.held[x] # 0 ->
                         Reply([own EXCEPT !.held[x] = now + PENDING], "had")
                   [] x \notin s.kept /\ own.held[x] = 0 /\ room.bytes + Size[x] > LIMIT ->
                         Reply(room, "full")
                   [] OTHER -> Reply([room EXCEPT !.held[x] = now + PENDING,
                                                  !.bytes = @ + Size[x]], "stored")
  BY DEF FilePut
<1>2. FileOK(counted) /\ Trims(s, counted) /\ counted.bytes # -1
  BY MediaUsageIs
<1> HIDE DEF counted
<1>3. /\ FileOK(own) /\ Trims(counted, own) /\ own.bytes # -1
      /\ own.held[x] # 0 <=> counted.held[x] > now
      /\ own.held[x] # 0 => own.held[x] = counted.held[x]
  BY <1>2, LiveOrDropIs
<1> HIDE DEF own
<1>4. FileOK(cleaned) /\ Trims(own, cleaned) /\ cleaned.bytes # -1 /\ Files(cleaned) = FileLive(own)
  BY <1>3, SweepPendingIs
<1> HIDE DEF cleaned
<1>5. FileLive(own) = FileLive(s) /\ FileLive(counted) = FileLive(s)
  BY <1>2, <1>3, TrimsLive
<1>6. /\ \A y \in Blob : /\ s.held[y] \in Nat /\ counted.held[y] \in Nat /\ own.held[y] \in Nat
                         /\ cleaned.held[y] \in Nat
      /\ \A y \in s.kept : y \in Blob /\ s.held[y] = 0
  BY <1>2, <1>3, <1>4 DEF FileOK
<1>7. Trims(s, counted) /\ Trims(s, own) /\ Trims(s, cleaned)
  BY <1>2, <1>3, <1>4, <1>6, MediaNumbers DEF Trims
<1>8. FileOK(room) /\ Trims(s, room) /\ room.bytes # -1 /\ room.bytes = Bytes(Files(room))
      /\ room.bytes \in Nat
  <2>1. room = cleaned \/ room = own
    OBVIOUS
  <2>2. room.bytes # -1 => room.bytes = Bytes(Files(room)) /\ room.bytes \in Nat
    BY <1>3, <1>4, <2>1 DEF FileOK
  <2> HIDE DEF room
  <2> QED BY <1>3, <1>4, <1>7, <2>1, <2>2
<1>9. FileLive(s) \in SUBSET Blob /\ Bytes(FileLive(s)) \in Nat /\ Size[x] \in Nat /\ LIMIT \in Nat
  <2>1. FileLive(s) \in SUBSET Blob
    BY DEF FileLive, FileOK
  <2> QED BY <2>1, BytesAre, MediaNumbers
<1>10. room.bytes + Size[x] > LIMIT <=> Bytes(FileLive(s)) + Size[x] > LIMIT
  <2>1. CASE room = cleaned
    <3>1. room.bytes = Bytes(FileLive(s))
      BY <1>4, <1>5, <1>8, <2>1
    <3> QED BY <3>1
  <2>2. CASE room # cleaned
    <3>1. room = own /\ ~(own.bytes + Size[x] > LIMIT)
      BY <2>2
    <3>2. own.bytes = Bytes(Files(own)) /\ own.bytes \in Nat
      BY <1>3 DEF FileOK
    <3>3. FileLive(own) \in SUBSET Files(own) /\ Files(own) \in SUBSET Blob
      <4>1. \A y \in Blob : own.held[y] > now => own.held[y] # 0
        BY <1>6, MediaNumbers
      <4> QED BY <1>3, <4>1 DEF FileLive, Files, FileOK
    <3>4. Bytes(FileLive(s)) <= own.bytes
      BY <1>5, <3>2, <3>3, BytesAre
    <3> HIDE DEF room
    <3> QED BY <1>9, <3>1, <3>2, <3>4
  <2> QED BY <2>1, <2>2
<1> HIDE DEF room
<1>11. own.held[x] # 0 <=> s.held[x] > now
  BY <1>3, <1>6, <1>7, MediaNumbers DEF Trims
<1>12. CASE x \in s.kept
  <2>1. reply = Reply(counted, "had")
    BY <1>1, <1>12
  <2>2. t = counted /\ reply.answer = "had" /\ x \in FileLive(s)
    BY <1>12, <2>1 DEF Reply, FileLive
  <2>3. counted.held[x] = 0 /\ counted.kept = s.kept
    BY <1>6, <1>7, <1>12 DEF Trims
  <2> QED BY <1>2, <1>7, <1>12, <2>2, <2>3 DEF Trims
<1>13. CASE x \notin s.kept /\ own.held[x] # 0
  <2> DEFINE held == [own.held EXCEPT ![x] = put]
  <2>1. reply = Reply([own EXCEPT !.held[x] = now + PENDING], "had")
    BY <1>1, <1>13
  <2>2. t = [own EXCEPT !.held = held] /\ reply.answer = "had"
    BY <2>1 DEF Reply
  <2>3. /\ held \in [Blob -> Nat] /\ held[x] = put
        /\ \A y \in Blob \ {x} : held[y] = own.held[y]
    BY <1>3, MediaNumbers DEF FileOK
  <2> HIDE DEF held, t
  <2>4. t.kept = own.kept /\ t.held = held /\ t.bytes = own.bytes /\ t \in FileRec
    BY <1>3, <2>2, <2>3 DEF FileOK, FileRec
  <2>5. Files(t) = Files(own)
    <3>1. \A y \in Blob : held[y] # 0 <=> own.held[y] # 0
      BY <1>13, <2>3, MediaNumbers
    <3> QED BY <2>4, <3>1 DEF Files
  <2>6. own.kept = s.kept
    BY <1>7 DEF Trims
  <2>7. FileOK(t)
    <3>1. \A y \in t.kept : t.held[y] = 0
      BY <1>3, <1>13, <2>3, <2>4, <2>6 DEF FileOK
    <3>2. t.bytes # -1 => t.bytes = Bytes(Files(t)) /\ t.bytes <= LIMIT
      BY <1>3, <2>4, <2>5 DEF FileOK
    <3> QED BY <2>4, <3>1, <3>2 DEF FileOK, FileRec
  <2>8. x \in FileLive(s)
    BY <1>11, <1>13 DEF FileLive
  <2> QED BY <1>7, <1>13, <2>2, <2>3, <2>4, <2>6, <2>7, <2>8 DEF t, Trims
<1>14. CASE x \notin s.kept /\ own.held[x] = 0 /\ room.bytes + Size[x] > LIMIT
  <2>1. reply = Reply(room, "full")
    BY <1>1, <1>14
  <2>2. t = room /\ reply.answer = "full"
    BY <2>1 DEF Reply
  <2>3. x \notin FileLive(s) /\ s.held[x] <= now
    BY <1>6, <1>11, <1>14, MediaNumbers DEF FileLive
  <2>4. room.held[x] <= now
    BY <1>8, <2>3, MediaNumbers DEF Trims
  <2> QED BY <1>8, <1>10, <1>14, <2>2, <2>3, <2>4 DEF Trims
<1>15. CASE x \notin s.kept /\ own.held[x] = 0 /\ ~(room.bytes + Size[x] > LIMIT)
  <2> DEFINE held == [room.held EXCEPT ![x] = put]
             bytes == room.bytes + Size[x]
  <2>1. reply = Reply([room EXCEPT !.held[x] = now + PENDING, !.bytes = @ + Size[x]], "stored")
    BY <1>1, <1>15
  <2>2. t = [room EXCEPT !.held = held, !.bytes = bytes] /\ reply.answer = "stored"
    BY <2>1 DEF Reply
  <2>3. /\ held \in [Blob -> Nat] /\ held[x] = put /\ bytes \in Nat /\ bytes <= LIMIT
        /\ \A y \in Blob \ {x} : held[y] = room.held[y]
    BY <1>8, <1>9, <1>15, MediaNumbers DEF FileOK
  <2>4. x \notin FileLive(s) /\ s.held[x] <= now
    BY <1>6, <1>11, <1>15, MediaNumbers DEF FileLive
  <2>5. room.held[x] = 0
    <3>1. CASE room = cleaned
      <4>1. \A y \in Blob : cleaned.held[y] # 0 => cleaned.held[y] > now
        BY <1>3, SweepPendingIs DEF cleaned
      <4>2. ~(room.held[x] > now)
        <5>1. room.held[x] \in Nat
          BY <1>8 DEF FileOK
        <5> QED BY <1>6, <1>8, <2>4, <5>1, MediaNumbers DEF Trims
      <4> QED BY <3>1, <4>1, <4>2
    <3>2. CASE room # cleaned
      BY <1>15, <3>2 DEF room
    <3> QED BY <3>1, <3>2
  <2>6. room.kept = s.kept
    BY <1>8 DEF Trims
  <2>7. bytes = Bytes(Files(room) \cup {x}) /\ x \notin Files(room)
    <3>1. x \notin Files(room) /\ Files(room) \in SUBSET Blob
      BY <1>8, <1>15, <2>5, <2>6 DEF Files, FileOK
    <3>2. Bytes(Files(room) \cup {x}) = Bytes(Files(room)) + Size[x]
      BY <3>1, BytesAre
    <3> QED BY <1>8, <3>1, <3>2
  <2> HIDE DEF held, bytes, t
  <2>8. t.kept = room.kept /\ t.held = held /\ t.bytes = bytes /\ t \in FileRec
    BY <1>8, <2>2, <2>3 DEF FileOK, FileRec
  <2>9. Files(t) = Files(room) \cup {x}
    <3>1. \A y \in Blob : held[y] # 0 <=> room.held[y] # 0 \/ y = x
      BY <2>3, MediaNumbers
    <3> QED BY <2>8, <3>1 DEF Files
  <2>10. FileOK(t)
    <3>1. \A y \in t.kept : t.held[y] = 0
      BY <1>8, <1>15, <2>3, <2>6, <2>8 DEF FileOK
    <3>2. t.bytes = Bytes(Files(t)) /\ t.bytes <= LIMIT
      BY <2>3, <2>7, <2>8, <2>9
    <3> QED BY <2>8, <3>1, <3>2 DEF FileOK, FileRec
  <2> QED BY <1>8, <1>10, <1>15, <2>2, <2>3, <2>4, <2>6, <2>8, <2>10 DEF t, Trims
<1> QED BY <1>12, <1>13, <1>14, <1>15

LEMMA FilePromoteIs ==
    ASSUME now \in 1..MaxNow, NEW s, FileOK(s), NEW x \in Blob, NEW reply, reply = FilePromote(s, x)
    PROVE  /\ FileOK(reply.store)
           /\ \A y \in Blob \ {x} :
                 /\ y \in reply.store.kept <=> y \in s.kept
                 /\ \/ reply.store.held[y] = s.held[y]
                    \/ reply.store.held[y] = 0 /\ s.held[y] <= now
           /\ reply.answer = IF x \in FileLive(s) THEN "kept" ELSE "gone"
           /\ x \in reply.store.kept <=> x \in FileLive(s)
           /\ reply.store.held[x] = 0
<1> DEFINE own == LiveOrDrop(s, x)
           t == reply.store
<1>1. reply = IF own.held[x] # 0
              THEN Reply([own EXCEPT !.held[x] = 0, !.kept = @ \cup {x}], "kept")
              ELSE Reply(own, IF x \in own.kept THEN "kept" ELSE "gone")
  BY DEF FilePromote
<1>2. /\ FileOK(own) /\ Trims(s, own) /\ (own.held[x] # 0 <=> s.held[x] > now)
  BY LiveOrDropIs
<1> HIDE DEF own
<1>3. own \in FileRec /\ own.kept = s.kept /\ (x \in FileLive(s) <=> x \in s.kept \/ own.held[x] # 0)
  BY <1>2 DEF FileOK, FileRec, FileLive, Trims
<1>4. CASE own.held[x] # 0
  <2> DEFINE held == [own.held EXCEPT ![x] = 0]
             kept == own.kept \cup {x}
  <2>1. t = [own EXCEPT !.held = held, !.kept = kept] /\ reply.answer = "kept"
    BY <1>1, <1>4 DEF Reply
  <2>2. /\ held \in [Blob -> Nat] /\ held[x] = 0 /\ kept \in SUBSET Blob
        /\ \A y \in Blob \ {x} : held[y] = own.held[y]
        /\ x \in kept /\ \A y \in Blob \ {x} : y \in kept <=> y \in own.kept
    BY <1>2 DEF FileOK
  <2> HIDE DEF held, kept, t
  <2>3. t.kept = kept /\ t.held = held /\ t.bytes = own.bytes /\ t \in FileRec
    BY <1>3, <2>1, <2>2 DEF FileRec
  <2>4. Files(t) = Files(own)
    <3>1. ASSUME NEW y \in Blob PROVE y \in Files(t) <=> y \in Files(own)
      <4>1. CASE y = x
        BY <1>4, <2>2, <2>3, <4>1 DEF Files
      <4>2. CASE y # x
        BY <2>2, <2>3, <4>2 DEF Files
      <4> QED BY <4>1, <4>2
    <3>2. Files(t) \subseteq Blob /\ Files(own) \subseteq Blob
      BY <1>3, <2>2, <2>3 DEF Files, FileRec
    <3> QED BY <3>1, <3>2
  <2>5. \A y \in t.kept : t.held[y] = 0
    BY <1>2, <2>2, <2>3 DEF FileOK
  <2>6. t.bytes # -1 => t.bytes = Bytes(Files(t)) /\ t.bytes <= LIMIT
    BY <1>2, <2>3, <2>4 DEF FileOK
  <2>7. FileOK(t)
    BY <2>3, <2>5, <2>6 DEF FileOK, FileRec
  <2> QED BY <1>2, <1>3, <1>4, <2>1, <2>2, <2>3, <2>7 DEF t, Trims
<1>5. CASE own.held[x] = 0
  <2>1. t = own /\ reply.answer = IF x \in own.kept THEN "kept" ELSE "gone"
    BY <1>1, <1>5 DEF Reply
  <2> QED BY <1>2, <1>3, <1>5, <2>1 DEF Trims
<1> QED BY <1>4, <1>5

-----------------------------------------------------------------------------
(* Both stores together.                                                   *)

LEMMA SameLive ==
    ASSUME now \in 1..MaxNow, RedisOK(redis), FileOK(file), Agree(redis, file)
    PROVE  /\ RedisLive(redis) = FileLive(file) /\ Bytes(FileLive(file)) <= LIMIT
           /\ RedisLive(redis) = RedisServes /\ FileLive(file) = FileServes
<1>1. ASSUME NEW x \in Blob PROVE redis.key[x] > now <=> x \in file.kept \/ file.held[x] > now
  <2>1. /\ redis.key[x] \in Nat /\ redis.pending[x] \in Nat /\ file.held[x] \in Nat
        /\ redis.pending[x] # 0 => redis.pending[x] = redis.key[x]
        /\ redis.pending[x] = 0 => redis.key[x] <= now \/ redis.key[x] = Forever
    BY DEF RedisOK, FileOK
  <2>2. /\ x \in file.kept <=> redis.key[x] = Forever
        /\ file.held[x] > now \/ redis.pending[x] > now => file.held[x] = redis.pending[x]
    BY DEF Agree
  <2> QED BY <2>1, <2>2, MediaNumbers
<1>2. file.kept \subseteq Blob
  BY DEF FileOK
<1>3. RedisLive(redis) = FileLive(file)
  BY <1>1, <1>2 DEF RedisLive, FileLive
<1>4. RedisLive(redis) \in SUBSET Taken(redis) /\ Taken(redis) \in SUBSET Blob
  <2>1. ASSUME NEW x \in Blob, redis.key[x] > now
        PROVE  redis.pending[x] # 0 \/ redis.key[x] = Forever
    <3>1. redis.key[x] \in Nat /\ (redis.pending[x] = 0 => redis.key[x] <= now \/ redis.key[x] = Forever)
      BY DEF RedisOK
    <3> QED BY <2>1, <3>1, MediaNumbers
  <2> QED BY <2>1 DEF RedisLive, Taken
<1>5. Bytes(FileLive(file)) <= LIMIT
  <2>1. Bytes(RedisLive(redis)) \in Nat /\ Bytes(RedisLive(redis)) <= Bytes(Taken(redis))
        /\ Bytes(Taken(redis)) \in Nat
    BY <1>4, BytesAre
  <2>2. Bytes(Taken(redis)) <= LIMIT
    BY DEF RedisOK
  <2>3. Bytes(FileLive(file)) = Bytes(RedisLive(redis))
    BY <1>3, Zenon
  <2> QED BY <2>1, <2>2, <2>3, MediaNumbers
<1> QED BY <1>3, <1>5 DEF RedisLive, RedisServes, Exists, FileLive, FileServes

\* What a put does to both stores: the same.
LEMMA PutTogether ==
    ASSUME MediaInv, NEW x \in Blob, Put(x), now' = now
    PROVE  /\ RedisOK(redis') /\ FileOK(file') /\ Agree(redis', file')
           /\ answers'.redis = answers'.file
           /\ \A y \in Blob \ {x} : redis'.key[y] = redis.key[y]
           /\ redis'.key[x] = IF redis.key[x] = Forever \/ answers'.redis = "full"
                              THEN redis.key[x] ELSE now + PENDING
<1> DEFINE ofRedis == RedisPut(redis, x)
           ofFile == FilePut(file, x)
<1>1. /\ now \in 1..MaxNow /\ RedisOK(redis) /\ FileOK(file) /\ Agree(redis, file)
  BY DEF MediaInv, MediaType
<1>2. /\ redis' = ofRedis.store /\ file' = ofFile.store
      /\ answers'.redis = ofRedis.answer /\ answers'.file = ofFile.answer
  BY DEF Put, Calls
<1>3. /\ RedisLive(redis) = FileLive(file) /\ Bytes(FileLive(file)) <= LIMIT
  BY <1>1, SameLive
<1>4. /\ RedisOK(ofRedis.store)
      /\ \A y \in Blob \ {x} :
            /\ ofRedis.store.key[y] = redis.key[y]
            /\ \/ ofRedis.store.pending[y] = redis.pending[y]
               \/ ofRedis.store.pending[y] = 0 /\ redis.pending[y] <= now
      /\ ofRedis.answer = IF redis.key[x] > now THEN "had"
                          ELSE IF Bytes(RedisLive(redis)) + Size[x] > LIMIT THEN "full" ELSE "stored"
      /\ ofRedis.store.key[x] = IF redis.key[x] = Forever \/ ofRedis.answer = "full"
                                THEN redis.key[x] ELSE now + PENDING
      /\ redis.key[x] = Forever => ofRedis.store.pending[x] = 0
  BY <1>1, RedisPutIs
<1>5. /\ FileOK(ofFile.store) /\ ofFile.store.kept = file.kept
      /\ \A y \in Blob \ {x} : \/ ofFile.store.held[y] = file.held[y]
                               \/ ofFile.store.held[y] = 0 /\ file.held[y] <= now
      /\ ofFile.answer = IF x \in FileLive(file) THEN "had"
                         ELSE IF Bytes(FileLive(file)) + Size[x] > LIMIT THEN "full" ELSE "stored"
      /\ IF x \in file.kept THEN ofFile.store.held[x] = 0
         ELSE IF ofFile.answer = "full" THEN ofFile.store.held[x] <= now
         ELSE ofFile.store.held[x] = now + PENDING
  BY <1>1, <1>3, FilePutIs
<1> HIDE DEF ofRedis, ofFile
<1>6. x \in FileLive(file) <=> redis.key[x] > now
  BY <1>3 DEF RedisLive
<1>7. ofRedis.answer = ofFile.answer
  BY <1>3, <1>4, <1>5, <1>6
<1>8. Agree(redis', file')
  <2>1. \A y \in Blob :
           /\ redis.key[y] \in Nat /\ redis.pending[y] \in Nat /\ file.held[y] \in Nat
           /\ ofRedis.store.key[y] \in Nat /\ ofRedis.store.pending[y] \in Nat
           /\ ofFile.store.held[y] \in Nat
    BY <1>1, <1>4, <1>5 DEF RedisOK, FileOK
  <2>2. \A y \in Blob :
           /\ y \in file.kept <=> redis.key[y] = Forever
           /\ file.held[y] > now \/ redis.pending[y] > now => file.held[y] = redis.pending[y]
    BY <1>1 DEF Agree
  <2>3. \A y \in Blob \ {x} :
           /\ y \in file'.kept <=> redis'.key[y] = Forever
           /\ file'.held[y] > now \/ redis'.pending[y] > now => file'.held[y] = redis'.pending[y]
    <3> TAKE y \in Blob \ {x}
    <3>1. y \in file'.kept <=> redis'.key[y] = Forever
      BY <1>2, <1>4, <1>5, <2>2
    <3>2. file'.held[y] = file.held[y] \/ (file'.held[y] = 0 /\ file.held[y] <= now)
      BY <1>2, <1>5
    <3>3. redis'.pending[y] = redis.pending[y] \/ (redis'.pending[y] = 0 /\ redis.pending[y] <= now)
      BY <1>2, <1>4
    <3> DEFINE h0 == file.held[y]
               n0 == redis.pending[y]
               h1 == file'.held[y]
               n1 == redis'.pending[y]
    <3>4. /\ h0 \in Nat /\ n0 \in Nat /\ (h0 > now \/ n0 > now => h0 = n0)
          /\ h1 = h0 \/ (h1 = 0 /\ h0 <= now)
          /\ n1 = n0 \/ (n1 = 0 /\ n0 <= now)
      BY <2>1, <2>2, <3>2, <3>3
    <3> HIDE DEF h0, n0, h1, n1
    <3>5. h1 > now \/ n1 > now => h1 = n1
      BY <1>1, <3>4, MediaNumbers
    <3> QED BY <3>1, <3>5 DEF h1, n1
  <2>4. /\ x \in file'.kept <=> redis'.key[x] = Forever
        /\ file'.held[x] > now \/ redis'.pending[x] > now => file'.held[x] = redis'.pending[x]
    <3> DEFINE k == redis'.key[x]
               n == redis'.pending[x]
               h == file'.held[x]
    <3>0. /\ k \in Nat /\ n \in Nat /\ h \in Nat /\ redis.key[x] \in Nat
          /\ n # 0 => n = k
          /\ n = 0 => k <= now \/ k = Forever
      BY <1>2, <1>4, <2>1 DEF RedisOK
    <3>1. x \in file'.kept <=> redis.key[x] = Forever
      BY <1>2, <1>5, <2>2
    <3>2. k = IF redis.key[x] = Forever \/ ofRedis.answer = "full" THEN redis.key[x] ELSE now + PENDING
      BY <1>2, <1>4
    <3>3. IF redis.key[x] = Forever THEN h = 0
          ELSE IF ofRedis.answer = "full" THEN h <= now ELSE h = now + PENDING
      BY <1>2, <1>5, <1>7, <2>2
    <3>4. redis.key[x] = Forever => n = 0
      BY <1>2, <1>4
    <3>5. ofRedis.answer = "full" => redis.key[x] <= now
      <4>1. ofRedis.answer = "full" => ~(redis.key[x] > now)
        BY <1>4
      <4> QED BY <3>0, <4>1, MediaNumbers, <1>1
    <3> HIDE DEF k, n, h
    <3>6. x \in file'.kept <=> k = Forever
      BY <1>1, <3>1, <3>2, MediaNumbers
    <3>7. h > now \/ n > now => h = n
      BY <1>1, <3>0, <3>2, <3>3, <3>4, <3>5, MediaNumbers
    <3> QED BY <3>6, <3>7 DEF k, n, h
  <2> QED BY <2>3, <2>4 DEF Agree
<1>9. RedisOK(redis') /\ FileOK(file')
  BY <1>2, <1>4, <1>5
<1> QED BY <1>2, <1>4, <1>7, <1>8, <1>9

LEMMA PromoteTogether ==
    ASSUME MediaInv, NEW x \in Blob, Promote(x), now' = now
    PROVE  /\ RedisOK(redis') /\ FileOK(file') /\ Agree(redis', file')
           /\ answers'.redis = answers'.file
           /\ \A y \in Blob \ {x} : redis'.key[y] = redis.key[y]
           /\ redis'.key[x] = IF redis.key[x] > now THEN Forever ELSE redis.key[x]
<1> DEFINE ofRedis == RedisPromote(redis, x)
           ofFile == FilePromote(file, x)
<1>1. /\ now \in 1..MaxNow /\ RedisOK(redis) /\ FileOK(file) /\ Agree(redis, file)
  BY DEF MediaInv, MediaType
<1>2. /\ redis' = ofRedis.store /\ file' = ofFile.store
      /\ answers'.redis = ofRedis.answer /\ answers'.file = ofFile.answer
  BY DEF Promote, Calls
<1>3. RedisLive(redis) = FileLive(file)
  BY <1>1, SameLive
<1>4. /\ RedisOK(ofRedis.store)
      /\ \A y \in Blob \ {x} : /\ ofRedis.store.key[y] = redis.key[y]
                               /\ ofRedis.store.pending[y] = redis.pending[y]
      /\ ofRedis.answer = IF redis.key[x] > now THEN "kept" ELSE "gone"
      /\ ofRedis.store.key[x] = IF redis.key[x] > now THEN Forever ELSE redis.key[x]
      /\ ofRedis.store.pending[x] <= now
  BY <1>1, RedisPromoteIs
<1>5. /\ FileOK(ofFile.store)
      /\ \A y \in Blob \ {x} :
            /\ y \in ofFile.store.kept <=> y \in file.kept
            /\ \/ ofFile.store.held[y] = file.held[y]
               \/ ofFile.store.held[y] = 0 /\ file.held[y] <= now
      /\ ofFile.answer = IF x \in FileLive(file) THEN "kept" ELSE "gone"
      /\ x \in ofFile.store.kept <=> x \in FileLive(file)
      /\ ofFile.store.held[x] = 0
  BY <1>1, FilePromoteIs
<1> HIDE DEF ofRedis, ofFile
<1>6. x \in FileLive(file) <=> redis.key[x] > now
  BY <1>3 DEF RedisLive
<1>7. ofRedis.answer = ofFile.answer
  BY <1>4, <1>5, <1>6
<1>8. Agree(redis', file')
  <2>1. \A y \in Blob : /\ y \in file.kept <=> redis.key[y] = Forever
                        /\ file.held[y] > now \/ redis.pending[y] > now => file.held[y] = redis.pending[y]
    BY <1>1 DEF Agree
  <2>2. \A y \in Blob \ {x} :
           /\ y \in file'.kept <=> redis'.key[y] = Forever
           /\ file'.held[y] > now \/ redis'.pending[y] > now => file'.held[y] = redis'.pending[y]
    <3> TAKE y \in Blob \ {x}
    <3>1. y \in file'.kept <=> redis'.key[y] = Forever
      BY <1>2, <1>4, <1>5, <2>1
    <3> DEFINE h0 == file.held[y]
               n0 == redis.pending[y]
               h1 == file'.held[y]
               n1 == redis'.pending[y]
    <3>2. /\ h0 \in Nat /\ n0 \in Nat /\ (h0 > now \/ n0 > now => h0 = n0)
          /\ h1 = h0 \/ (h1 = 0 /\ h0 <= now)
          /\ n1 = n0
      BY <1>1, <1>2, <1>4, <1>5, <2>1 DEF RedisOK, FileOK
    <3> HIDE DEF h0, n0, h1, n1
    <3>3. h1 > now \/ n1 > now => h1 = n1
      BY <1>1, <3>2, MediaNumbers
    <3> QED BY <3>1, <3>3 DEF h1, n1
  <2>3. /\ x \in file'.kept <=> redis'.key[x] = Forever
        /\ file'.held[x] > now \/ redis'.pending[x] > now => file'.held[x] = redis'.pending[x]
    <3> DEFINE n1 == redis'.pending[x]
               h1 == file'.held[x]
    <3>1. /\ n1 \in Nat /\ n1 <= now /\ h1 = 0 /\ redis.key[x] \in Nat
      BY <1>1, <1>2, <1>4, <1>5 DEF RedisOK
    <3> HIDE DEF h1, n1
    <3>2. ~(h1 > now) /\ ~(n1 > now)
      BY <1>1, <3>1, MediaNumbers
    <3>3. x \in file'.kept <=> redis'.key[x] = Forever
      BY <1>1, <1>2, <1>4, <1>5, <1>6, <3>1, MediaNumbers
    <3> QED BY <3>2, <3>3 DEF h1, n1
  <2> QED BY <2>2, <2>3 DEF Agree
<1>9. RedisOK(redis') /\ FileOK(file')
  BY <1>2, <1>4, <1>5
<1> QED BY <1>2, <1>4, <1>7, <1>8, <1>9

\* Neither shortens what a blob has: keys only grow.
LEMMA KeysGrow ==
    ASSUME MediaInv, NEW x \in Blob, Put(x) \/ Promote(x), now' = now
    PROVE  \A y \in Blob : redis.key[y] <= redis'.key[y]
<1>1. now \in 1..MaxNow /\ RedisOK(redis)
  BY DEF MediaInv, MediaType
<1>2. \A y \in Blob : redis.key[y] \in Nat /\ (redis.key[y] <= now + PENDING \/ redis.key[y] = Forever)
  BY <1>1 DEF RedisOK
<1>3. CASE Put(x)
  <2>1. /\ \A y \in Blob \ {x} : redis'.key[y] = redis.key[y]
        /\ redis'.key[x] = IF redis.key[x] = Forever \/ answers'.redis = "full"
                           THEN redis.key[x] ELSE now + PENDING
    BY <1>3, PutTogether
  <2>2. redis.key[x] <= redis'.key[x]
    BY <1>2, <2>1, MediaNumbers
  <2> QED BY <1>2, <2>1, <2>2
<1>4. CASE Promote(x)
  <2>1. /\ \A y \in Blob \ {x} : redis'.key[y] = redis.key[y]
        /\ redis'.key[x] = IF redis.key[x] > now THEN Forever ELSE redis.key[x]
    BY <1>4, PromoteTogether
  <2>2. redis.key[x] <= redis'.key[x]
    BY <1>1, <1>2, <2>1, MediaNumbers
  <2> QED BY <1>2, <2>1, <2>2
<1> QED BY <1>3, <1>4

\* What is common to all calls of the stores.
LEMMA StoresMove ==
    ASSUME MediaInv, NEW x \in Blob, Put(x) \/ Promote(x), now' = now
    PROVE  /\ RedisOK(redis)' /\ FileOK(file)' /\ Agree(redis, file)'
           /\ answers'.redis = answers'.file
           /\ \A y \in Blob : redis.key[y] <= redis'.key[y] /\ redis'.key[y] <= Forever
           /\ \A y \in Blob \ {x} : redis'.key[y] = redis.key[y]
           /\ \A y \in Blob : redis.key[y] \in Nat /\ redis'.key[y] \in Nat
           /\ \A y \in Blob : redis.key[y] = Forever => redis'.key[y] = Forever
<1>1. now \in 1..MaxNow /\ RedisOK(redis)
  BY DEF MediaInv, MediaType
<1>2. /\ RedisOK(redis') /\ FileOK(file') /\ Agree(redis', file')
      /\ answers'.redis = answers'.file
      /\ \A y \in Blob \ {x} : redis'.key[y] = redis.key[y]
  BY PutTogether, PromoteTogether
<1>3. \A y \in Blob : redis.key[y] <= redis'.key[y]
  BY KeysGrow
<1>4. \A y \in Blob : /\ redis.key[y] \in Nat /\ redis'.key[y] \in Nat
                      /\ redis'.key[y] <= now + PENDING \/ redis'.key[y] = Forever
  BY <1>1, <1>2 DEF RedisOK
<1>5. \A y \in Blob : redis'.key[y] <= Forever
  BY <1>1, <1>4, MediaNumbers
<1>6. \A y \in Blob : redis.key[y] = Forever => redis'.key[y] = Forever
  BY <1>1, <1>3, <1>4, <1>5, MediaNumbers
<1>7. RedisOK(redis)'
  BY <1>2 DEF RedisOK
<1>8. FileOK(file)'
  BY <1>2 DEF FileOK
<1>9. Agree(redis, file)'
  BY <1>2 DEF Agree
<1> QED BY <1>2, <1>3, <1>4, <1>5, <1>6, <1>7, <1>8, <1>9

LEMMA StoresRest ==
    ASSUME MediaInv, UNCHANGED <<now, redis, file, answers>>
    PROVE  RedisOK(redis)' /\ FileOK(file)' /\ Agree(redis, file)' /\ answers'.redis = answers'.file
<1>1. RedisOK(redis) /\ FileOK(file) /\ Agree(redis, file) /\ answers.redis = answers.file
  BY DEF MediaInv
<1>2. RedisOK(redis)'
  BY <1>1 DEF RedisOK
<1>3. FileOK(file)' /\ Agree(redis, file)'
  BY <1>1 DEF FileOK, Agree
<1> QED BY <1>1, <1>2, <1>3

\* The calls: an upload, the two puts of a metadata request, the two promotions of a notice.
LEMMA UploadKeeps == ASSUME MediaInv, Upload PROVE MediaInv'
<1>1. PICK x \in Art : Put(x)
  BY DEF Upload
<1>2. UNCHANGED <<now, pinned, issue, issued, coins, keep>>
  BY DEF Upload
<1>3. MediaType /\ Covered /\ now \in 1..MaxNow
  BY DEF MediaInv, MediaType
<1>4. x \in Blob /\ \A doc \in Doc : doc \in Blob \ {x} /\ ArtOf[doc] \in Blob
  BY <1>3, MediaNumbers
<1>5. /\ RedisOK(redis)' /\ FileOK(file)' /\ Agree(redis, file)' /\ answers'.redis = answers'.file
      /\ \A y \in Blob : redis.key[y] <= redis'.key[y] /\ redis'.key[y] <= Forever
      /\ \A y \in Blob \ {x} : redis'.key[y] = redis.key[y]
      /\ \A y \in Blob : redis.key[y] \in Nat /\ redis'.key[y] \in Nat
      /\ \A y \in Blob : redis.key[y] = Forever => redis'.key[y] = Forever
  BY <1>1, <1>2, <1>4, StoresMove
<1>6. issue.doc \in Doc /\ keep.doc \in Doc
  BY <1>3 DEF MediaType
<1>7. Covered'
  <2>1. ASSUME NEW doc \in Doc, redis'.key[doc] > now PROVE redis'.key[doc] <= redis'.key[ArtOf[doc]]
    <3>1. redis'.key[doc] = redis.key[doc]
      BY <1>4, <1>5
    <3>2. redis.key[doc] <= redis.key[ArtOf[doc]]
      BY <1>3, <2>1, <3>1 DEF Covered
    <3> QED BY <1>4, <1>5, <3>1, <3>2
  <2>2. issue.pc = "doc" => now + PENDING <= redis'.key[ArtOf[issue.doc]]
    BY <1>3, <1>4, <1>5, <1>6, MediaNumbers DEF Covered
  <2>3. keep.pc = "art" => now < redis'.key[keep.doc]
    BY <1>3, <1>4, <1>5, <1>6 DEF Covered
  <2>4. keep.pc = "doc" => redis'.key[ArtOf[keep.doc]] = Forever
    BY <1>3, <1>4, <1>5, <1>6 DEF Covered
  <2> QED BY <1>2, <1>3, <2>1, <2>2, <2>3, <2>4 DEF Covered
<1>8. MediaType'
  BY <1>2, <1>3 DEF MediaType
<1> QED BY <1>5, <1>7, <1>8 DEF MediaInv

LEMMA IssueArtKeeps == ASSUME MediaInv, IssueArt PROVE MediaInv'
<1> DEFINE x == ArtOf[issue.doc]
<1>1. /\ issue.pc = "art" /\ Put(x)
      /\ issue' = IF answers'.redis = "full" THEN Idle ELSE [issue EXCEPT !.pc = "doc"]
      /\ UNCHANGED <<now, pinned, issued, coins, keep>>
  BY DEF IssueArt, PutArt
<1>2. MediaType /\ Covered /\ now \in 1..MaxNow
  BY DEF MediaInv, MediaType
<1>3. issue.doc \in Doc /\ keep.doc \in Doc
  BY <1>2 DEF MediaType
<1>4. x \in Blob /\ \A doc \in Doc : doc \in Blob \ {x} /\ ArtOf[doc] \in Blob
  BY <1>2, <1>3, MediaNumbers
<1>5. /\ RedisOK(redis)' /\ FileOK(file)' /\ Agree(redis, file)' /\ answers'.redis = answers'.file
      /\ \A y \in Blob : redis.key[y] <= redis'.key[y] /\ redis'.key[y] <= Forever
      /\ \A y \in Blob \ {x} : redis'.key[y] = redis.key[y]
      /\ \A y \in Blob : redis.key[y] \in Nat /\ redis'.key[y] \in Nat
      /\ \A y \in Blob : redis.key[y] = Forever => redis'.key[y] = Forever
  BY <1>1, <1>4, StoresMove
<1>6. answers'.redis # "full" => now + PENDING <= redis'.key[x]
  <2>1. redis'.key[x] = IF redis.key[x] = Forever \/ answers'.redis = "full"
                        THEN redis.key[x] ELSE now + PENDING
    BY <1>1, <1>4, PutTogether
  <2> QED BY <1>2, <2>1, MediaNumbers
<1> HIDE DEF x
<1>7. /\ issue' \in [pc : {"idle", "read", "art", "doc", "pinArt", "pinDoc"}, doc : Doc]
      /\ issue'.pc \in {"idle", "doc"}
      /\ issue'.pc = "doc" => answers'.redis # "full" /\ issue'.doc = issue.doc
  BY <1>1, <1>2, MediaAssumption DEF MediaType, Idle
<1>8. Covered'
  <2>1. ASSUME NEW doc \in Doc, redis'.key[doc] > now PROVE redis'.key[doc] <= redis'.key[ArtOf[doc]]
    <3>1. redis'.key[doc] = redis.key[doc]
      BY <1>4, <1>5
    <3>2. redis.key[doc] <= redis.key[ArtOf[doc]]
      BY <1>2, <2>1, <3>1 DEF Covered
    <3> QED BY <1>4, <1>5, <3>1, <3>2
  <2>2. issue'.pc = "doc" => now + PENDING <= redis'.key[ArtOf[issue'.doc]]
    BY <1>6, <1>7 DEF x
  <2>3. keep.pc = "art" => now < redis'.key[keep.doc]
    BY <1>2, <1>3, <1>4, <1>5 DEF Covered
  <2>4. keep.pc = "doc" => redis'.key[ArtOf[keep.doc]] = Forever
    BY <1>2, <1>3, <1>4, <1>5 DEF Covered
  <2> QED BY <1>1, <1>2, <1>7, <2>1, <2>2, <2>3, <2>4 DEF Covered
<1>9. MediaType'
  BY <1>1, <1>2, <1>7 DEF MediaType
<1> QED BY <1>5, <1>8, <1>9 DEF MediaInv

LEMMA IssueDocKeeps == ASSUME MediaInv, IssueDoc PROVE MediaInv'
<1> DEFINE x == issue.doc
<1>1. /\ issue.pc = "doc" /\ Put(x) /\ issue' = Idle
      /\ issued' = IF answers'.redis = "full" THEN issued ELSE issued \cup {x}
      /\ UNCHANGED <<now, pinned, coins, keep>>
  BY DEF IssueDoc
<1>2. MediaType /\ Covered /\ now \in 1..MaxNow
  BY DEF MediaInv, MediaType
<1>3. x \in Doc /\ keep.doc \in Doc
  BY <1>2 DEF MediaType
<1>4. x \in Blob /\ \A doc \in Doc : doc \in Blob /\ ArtOf[doc] \in Blob /\ ArtOf[doc] # x
  BY <1>2, <1>3, MediaNumbers
<1>5. /\ RedisOK(redis)' /\ FileOK(file)' /\ Agree(redis, file)' /\ answers'.redis = answers'.file
      /\ \A y \in Blob : redis.key[y] <= redis'.key[y] /\ redis'.key[y] <= Forever
      /\ \A y \in Blob \ {x} : redis'.key[y] = redis.key[y]
      /\ \A y \in Blob : redis.key[y] \in Nat /\ redis'.key[y] \in Nat
      /\ \A y \in Blob : redis.key[y] = Forever => redis'.key[y] = Forever
  BY <1>1, <1>4, StoresMove
<1>6. redis'.key[x] = redis.key[x] \/ redis'.key[x] = now + PENDING
  BY <1>1, <1>4, PutTogether
<1>7. now + PENDING <= redis.key[ArtOf[x]]
  BY <1>1, <1>2 DEF Covered
<1> HIDE DEF x
<1>8. issue' \in [pc : {"idle", "read", "art", "doc", "pinArt", "pinDoc"}, doc : Doc]
      /\ issue'.pc = "idle"
  BY <1>1, MediaAssumption DEF Idle
<1>9. Covered'
  <2>1. ASSUME NEW doc \in Doc, redis'.key[doc] > now PROVE redis'.key[doc] <= redis'.key[ArtOf[doc]]
    <3>1. redis'.key[ArtOf[doc]] = redis.key[ArtOf[doc]]
      BY <1>4, <1>5
    <3>2. CASE redis'.key[doc] = redis.key[doc]
      BY <1>2, <2>1, <3>1, <3>2 DEF Covered
    <3>3. CASE redis'.key[doc] # redis.key[doc]
      <4>1. doc = x /\ redis'.key[doc] = now + PENDING
        BY <1>4, <1>5, <1>6, <3>3
      <4> QED BY <1>7, <3>1, <4>1
    <3> QED BY <3>2, <3>3
  <2>2. keep.pc = "art" => now < redis'.key[keep.doc]
    BY <1>2, <1>3, <1>4, <1>5 DEF Covered
  <2>3. keep.pc = "doc" => redis'.key[ArtOf[keep.doc]] = Forever
    BY <1>2, <1>3, <1>4, <1>5 DEF Covered
  <2> QED BY <1>1, <1>2, <1>8, <2>1, <2>2, <2>3 DEF Covered
<1>10. MediaType'
  BY <1>1, <1>2, <1>3, <1>8 DEF MediaType
<1> QED BY <1>5, <1>9, <1>10 DEF MediaInv

LEMMA KeepArtKeeps == ASSUME MediaInv, KeepArt PROVE MediaInv'
<1> DEFINE x == ArtOf[keep.doc]
<1>1. /\ keep.pc = "art" /\ Promote(x) /\ keep' = [keep EXCEPT !.pc = "doc"]
      /\ UNCHANGED <<now, pinned, issue, issued, coins>>
  BY DEF KeepArt
<1>2. MediaType /\ Covered /\ now \in 1..MaxNow
  BY DEF MediaInv, MediaType
<1>3. issue.doc \in Doc /\ keep.doc \in Doc
  BY <1>2 DEF MediaType
<1>4. x \in Blob /\ \A doc \in Doc : doc \in Blob \ {x} /\ ArtOf[doc] \in Blob
  BY <1>2, <1>3, MediaNumbers
<1>5. /\ RedisOK(redis)' /\ FileOK(file)' /\ Agree(redis, file)' /\ answers'.redis = answers'.file
      /\ \A y \in Blob : redis.key[y] <= redis'.key[y] /\ redis'.key[y] <= Forever
      /\ \A y \in Blob \ {x} : redis'.key[y] = redis.key[y]
      /\ \A y \in Blob : redis.key[y] \in Nat /\ redis'.key[y] \in Nat
      /\ \A y \in Blob : redis.key[y] = Forever => redis'.key[y] = Forever
  BY <1>1, <1>4, StoresMove
<1>6. redis'.key[x] = Forever
  <2>1. now < redis.key[keep.doc]
    BY <1>1, <1>2 DEF Covered
  <2>2. redis.key[keep.doc] <= redis.key[x]
    BY <1>2, <1>3, <2>1 DEF Covered
  <2>3. redis.key[x] > now
    BY <1>2, <1>3, <1>4, <1>5, <2>1, <2>2, MediaNumbers
  <2> QED BY <1>1, <1>4, <2>3, PromoteTogether
<1> HIDE DEF x
<1>7. keep' \in [pc : {"idle", "art", "doc"}, doc : Doc] /\ keep'.pc = "doc" /\ keep'.doc = keep.doc
  BY <1>1, <1>2 DEF MediaType
<1>8. Covered'
  <2>1. ASSUME NEW doc \in Doc, redis'.key[doc] > now PROVE redis'.key[doc] <= redis'.key[ArtOf[doc]]
    <3>1. redis'.key[doc] = redis.key[doc]
      BY <1>4, <1>5
    <3>2. redis.key[doc] <= redis.key[ArtOf[doc]]
      BY <1>2, <2>1, <3>1 DEF Covered
    <3> QED BY <1>4, <1>5, <3>1, <3>2
  <2>2. issue.pc = "doc" => now + PENDING <= redis'.key[ArtOf[issue.doc]]
    BY <1>2, <1>3, <1>4, <1>5, MediaNumbers DEF Covered
  <2>3. redis'.key[ArtOf[keep'.doc]] = Forever
    BY <1>6, <1>7 DEF x
  <2> QED BY <1>1, <1>2, <1>7, <2>1, <2>2, <2>3 DEF Covered
<1>9. MediaType'
  BY <1>1, <1>2, <1>7 DEF MediaType
<1> QED BY <1>5, <1>8, <1>9 DEF MediaInv

LEMMA KeepDocKeeps == ASSUME MediaInv, KeepDoc PROVE MediaInv'
<1> DEFINE x == keep.doc
<1>1. /\ keep.pc = "doc" /\ Promote(x) /\ keep' = Idle
      /\ UNCHANGED <<now, pinned, issue, issued, coins>>
  BY DEF KeepDoc
<1>2. MediaType /\ Covered /\ now \in 1..MaxNow
  BY DEF MediaInv, MediaType
<1>3. issue.doc \in Doc /\ x \in Doc
  BY <1>2 DEF MediaType
<1>4. x \in Blob /\ \A doc \in Doc : doc \in Blob /\ ArtOf[doc] \in Blob /\ ArtOf[doc] # x
  BY <1>2, <1>3, MediaNumbers
<1>5. /\ RedisOK(redis)' /\ FileOK(file)' /\ Agree(redis, file)' /\ answers'.redis = answers'.file
      /\ \A y \in Blob : redis.key[y] <= redis'.key[y] /\ redis'.key[y] <= Forever
      /\ \A y \in Blob \ {x} : redis'.key[y] = redis.key[y]
      /\ \A y \in Blob : redis.key[y] \in Nat /\ redis'.key[y] \in Nat
      /\ \A y \in Blob : redis.key[y] = Forever => redis'.key[y] = Forever
  BY <1>1, <1>4, StoresMove
<1>6. redis'.key[ArtOf[x]] = Forever
  BY <1>1, <1>2, <1>3, <1>4, <1>5 DEF Covered
<1> HIDE DEF x
<1>7. keep' \in [pc : {"idle", "art", "doc"}, doc : Doc] /\ keep'.pc = "idle"
  BY <1>1, MediaAssumption DEF Idle
<1>8. Covered'
  <2>1. ASSUME NEW doc \in Doc, redis'.key[doc] > now PROVE redis'.key[doc] <= redis'.key[ArtOf[doc]]
    <3>1. CASE doc = x
      BY <1>4, <1>5, <1>6, <3>1
    <3>2. CASE doc # x
      <4>1. /\ redis'.key[doc] = redis.key[doc]
            /\ redis'.key[ArtOf[doc]] = redis.key[ArtOf[doc]]
        BY <1>4, <1>5, <3>2
      <4> QED BY <1>2, <2>1, <4>1 DEF Covered
    <3> QED BY <3>1, <3>2
  <2>2. issue.pc = "doc" => now + PENDING <= redis'.key[ArtOf[issue.doc]]
    BY <1>2, <1>3, <1>4, <1>5, MediaNumbers DEF Covered
  <2> QED BY <1>1, <1>2, <1>7, <2>1, <2>2 DEF Covered
<1>9. MediaType'
  BY <1>1, <1>2, <1>7 DEF MediaType
<1> QED BY <1>5, <1>8, <1>9 DEF MediaInv

LEMMA RestartKeeps == ASSUME MediaInv, Restart PROVE MediaInv'
<1>1. UNCHANGED <<now, redis, answers, pinned, issue, issued, coins, keep>>
  BY DEF Restart
<1>2. /\ MediaType /\ Covered /\ RedisOK(redis) /\ FileOK(file) /\ Agree(redis, file)
      /\ now \in 1..MaxNow /\ answers.redis = answers.file /\ file \in FileRec
  BY DEF MediaInv, MediaType, FileOK, FileRec
<1>3. PICK held : /\ file' = [file EXCEPT !.bytes = -1, !.swept = 0, !.held = held]
                  /\ \/ held = file.held
                     \/ \E x \in Art \ Files(file) : held = [file.held EXCEPT ![x] = now]
  <2>1. CASE file' = [file EXCEPT !.bytes = -1, !.swept = 0]
    <3> DEFINE held == file.held
    <3>1. [file EXCEPT !.bytes = -1, !.swept = 0]
             = [file EXCEPT !.bytes = -1, !.swept = 0, !.held = held]
      BY <1>2 DEF FileRec
    <3> QED BY <2>1, <3>1
  <2>2. CASE \E x \in Art \ Files(file) : file' = [file EXCEPT !.bytes = -1, !.swept = 0, !.held[x] = now]
    BY <2>2
  <2> QED BY <2>1, <2>2 DEF Restart
<1>4. /\ held \in [Blob -> Nat]
      /\ \A y \in Blob : held[y] = file.held[y] \/ (held[y] = now /\ y \notin Files(file))
  <2>1. CASE held = file.held
    BY <1>2, <2>1 DEF FileRec
  <2>2. ASSUME NEW x \in Art \ Files(file), held = [file.held EXCEPT ![x] = now]
        PROVE  <1>4!1 /\ <1>4!2
    BY <1>2, <2>2, MediaNumbers DEF FileRec
  <2> QED BY <1>3, <2>1, <2>2
<1>5. /\ file'.kept = file.kept /\ file'.held = held /\ file'.bytes = -1 /\ file' \in FileRec
  BY <1>2, <1>3, <1>4 DEF FileRec
<1>6. FileOK(file)'
  <2>1. \A y \in file.kept : y \in Files(file) /\ y \in Blob /\ file.held[y] = 0
    BY <1>2 DEF Files, FileOK
  <2> QED BY <1>4, <1>5, <2>1 DEF FileOK, FileRec
<1>7. Agree(redis, file)'
  <2>1. ASSUME NEW y \in Blob
        PROVE  held[y] > now \/ redis.pending[y] > now => held[y] = redis.pending[y]
    <3>1. file.held[y] > now \/ redis.pending[y] > now => file.held[y] = redis.pending[y]
      BY <1>2 DEF Agree
    <3>2. CASE held[y] = file.held[y]
      BY <3>1, <3>2
    <3>3. CASE held[y] # file.held[y]
      <4>1. held[y] = now /\ file.held[y] = 0
        BY <1>4, <3>3 DEF Files
      <4>2. redis.pending[y] \in Nat
        BY <1>2 DEF RedisOK
      <4> QED BY <1>2, <3>1, <4>1, <4>2, MediaNumbers
    <3> QED BY <3>2, <3>3
  <2> QED BY <1>1, <1>2, <1>5, <2>1 DEF Agree
<1>8. RedisOK(redis)' /\ Covered' /\ MediaType'
  BY <1>1, <1>2 DEF RedisOK, Covered, MediaType
<1> QED BY <1>1, <1>2, <1>6, <1>7, <1>8 DEF MediaInv

LEMMA TickKeeps == ASSUME MediaInv, Tick PROVE MediaInv'
<1>1. /\ now' = now + 1 /\ now < MaxNow /\ issue.pc # "doc" /\ keep.pc = "idle"
      /\ UNCHANGED <<redis, file, answers, pinned, issue, issued, coins, keep>>
  BY DEF Tick, stores
<1>2. /\ MediaType /\ Covered /\ RedisOK(redis) /\ FileOK(file) /\ Agree(redis, file)
      /\ now \in 1..MaxNow /\ answers.redis = answers.file
  BY DEF MediaInv, MediaType
<1>3. now' \in 1..MaxNow
  BY <1>1, <1>2, MediaAssumption
<1>4. RedisOK(redis)'
  <2>1. ASSUME NEW y \in Blob
        PROVE  /\ redis.key[y] <= now' + PENDING \/ redis.key[y] = Forever
               /\ redis.pending[y] # 0 =>
                     redis.pending[y] = redis.key[y] /\ redis.pending[y] <= now' + PENDING
               /\ redis.pending[y] = 0 => redis.key[y] <= now' \/ redis.key[y] = Forever
    <3>1. /\ redis.key[y] \in Nat /\ redis.pending[y] \in Nat
          /\ redis.key[y] <= now + PENDING \/ redis.key[y] = Forever
          /\ redis.pending[y] # 0 =>
                redis.pending[y] = redis.key[y] /\ redis.pending[y] <= now + PENDING
          /\ redis.pending[y] = 0 => redis.key[y] <= now \/ redis.key[y] = Forever
      BY <1>2 DEF RedisOK
    <3> QED BY <1>1, <1>2, <3>1, MediaNumbers
  <2> QED BY <1>1, <1>2, <2>1 DEF RedisOK, Taken
<1>5. FileOK(file)'
  BY <1>1, <1>2 DEF FileOK
<1>6. Agree(redis, file)'
  <2>1. ASSUME NEW y \in Blob
        PROVE  /\ y \in file.kept <=> redis.key[y] = Forever
               /\ file.held[y] > now' \/ redis.pending[y] > now' => file.held[y] = redis.pending[y]
    <3>1. file.held[y] \in Nat /\ redis.pending[y] \in Nat
      BY <1>2 DEF RedisOK, FileOK
    <3> QED BY <1>1, <1>2, <3>1, MediaNumbers DEF Agree
  <2> QED BY <1>1, <2>1 DEF Agree
<1>7. Covered'
  <2>1. ASSUME NEW doc \in Doc, redis.key[doc] > now' PROVE redis.key[doc] <= redis.key[ArtOf[doc]]
    <3>1. redis.key[doc] \in Nat
      BY <1>2, MediaNumbers DEF RedisOK
    <3>2. redis.key[doc] > now
      BY <1>1, <1>2, <2>1, <3>1, MediaNumbers
    <3> QED BY <1>2, <3>2 DEF Covered
  <2> QED BY <1>1, <1>2, <2>1 DEF Covered
<1>8. MediaType'
  BY <1>1, <1>2, <1>3 DEF MediaType
<1> QED BY <1>1, <1>2, <1>4, <1>5, <1>6, <1>7, <1>8 DEF MediaInv

\* What changes neither store nor the clock keeps the invariant when it keeps its own part.
LEMMA ElseKeeps ==
    ASSUME MediaInv, UNCHANGED <<now, redis, file, answers>>, MediaType', Covered'
    PROVE  MediaInv'
  BY StoresRest DEF MediaInv

LEMMA IdleIs == Idle \in [pc : {"idle"}, doc : Doc] /\ Idle.pc = "idle"
  BY MediaAssumption DEF Idle

\* The steps of a metadata request that call no store.
LEMMA IssueMovesKeep ==
    ASSUME MediaInv, BeginIssue \/ ReadArtwork \/ IssueFails \/ PinArt \/ PinDoc
    PROVE  MediaInv'
<1>1. /\ MediaType /\ Covered /\ issue.doc \in Doc
      /\ UNCHANGED <<now, redis, file, answers, coins, keep>>
  BY DEF MediaInv, MediaType, stores, BeginIssue, ReadArtwork, IssueFails, PinArt, PinDoc
<1>2. CASE BeginIssue \/ ReadArtwork \/ IssueFails
  <2>1. /\ issue' \in [pc : {"idle", "read", "art", "doc", "pinArt", "pinDoc"}, doc : Doc]
        /\ issue'.pc \in {"idle", "read", "pinArt", "art"} /\ UNCHANGED <<pinned, issued>>
    <3>1. CASE BeginIssue
      BY <3>1 DEF BeginIssue
    <3>2. CASE ReadArtwork
      BY <1>1, <3>2, IdleIs DEF ReadArtwork, MediaType
    <3>3. CASE IssueFails
      BY <3>3, IdleIs DEF IssueFails
    <3> QED BY <1>2, <3>1, <3>2, <3>3
  <2>2. MediaType'
    BY <1>1, <2>1 DEF MediaType
  <2>3. Covered'
    BY <1>1, <2>1 DEF Covered
  <2> QED BY <1>1, <2>2, <2>3, ElseKeeps
<1>3. CASE PinArt
  <2>1. /\ issue.pc = "pinArt" /\ pinned' = pinned \cup {ArtOf[issue.doc]}
        /\ issue' = [issue EXCEPT !.pc = "pinDoc"] /\ UNCHANGED issued
    BY <1>3 DEF PinArt
  <2>2. /\ issue' \in [pc : {"idle", "read", "art", "doc", "pinArt", "pinDoc"}, doc : Doc]
        /\ issue'.pc = "pinDoc" /\ issue'.doc = issue.doc
    BY <1>1, <2>1 DEF MediaType
  <2>3. MediaType'
    BY <1>1, <2>1, <2>2 DEF MediaType
  <2>4. \A doc \in Doc : doc \in pinned' => ArtOf[doc] \in pinned'
    <3>1. \A doc \in Doc : doc # ArtOf[issue.doc]
      BY <1>1, MediaAssumption
    <3> QED BY <1>1, <2>1, <3>1 DEF Covered
  <2>5. Covered'
    BY <1>1, <2>1, <2>2, <2>4 DEF Covered
  <2> QED BY <1>1, <2>3, <2>5, ElseKeeps
<1>4. CASE PinDoc
  <2>1. /\ issue.pc = "pinDoc" /\ pinned' = pinned \cup {issue.doc} /\ issue' = Idle
        /\ issued' \subseteq issued \cup {issue.doc}
    BY <1>4 DEF PinDoc
  <2>2. /\ issue' \in [pc : {"idle", "read", "art", "doc", "pinArt", "pinDoc"}, doc : Doc]
        /\ issue'.pc = "idle"
    BY <2>1, IdleIs
  <2>3. MediaType'
    BY <1>1, <2>1, <2>2 DEF MediaType
  <2>4. \A doc \in Doc : doc \in pinned' => ArtOf[doc] \in pinned'
    BY <1>1, <2>1 DEF Covered
  <2>5. Covered'
    BY <1>1, <2>1, <2>2, <2>4 DEF Covered
  <2> QED BY <1>1, <2>3, <2>5, ElseKeeps
<1> QED BY <1>2, <1>3, <1>4

\* A coin is created and registered; a notice begins with a document that is served, or fails.
LEMMA CoinMovesKeep ==
    ASSUME MediaInv, CreateCoin \/ RegisterCoin \/ BeginKeep \/ KeepFails
    PROVE  MediaInv'
<1>1. MediaType /\ Covered /\ UNCHANGED <<now, redis, file, answers, pinned, issue, issued>>
  BY DEF MediaInv, stores, CreateCoin, RegisterCoin, BeginKeep, KeepFails
<1>2. CASE CreateCoin \/ RegisterCoin
  <2>1. coins' \subseteq Doc /\ UNCHANGED keep
    BY <1>1, <1>2 DEF CreateCoin, RegisterCoin, MediaType
  <2>2. MediaType' /\ Covered'
    BY <1>1, <2>1 DEF MediaType, Covered
  <2> QED BY <1>1, <2>2, ElseKeeps
<1>3. CASE BeginKeep \/ KeepFails
  <2>1. /\ keep' \in [pc : {"idle", "art", "doc"}, doc : Doc] /\ UNCHANGED coins
        /\ keep'.pc # "doc" /\ (keep'.pc = "art" => redis.key[keep'.doc] > now)
    <3>1. CASE BeginKeep
      <4>1. PICK doc \in coins \cap RedisServes : keep' = [pc |-> "art", doc |-> doc]
        BY <3>1 DEF BeginKeep
      <4>2. doc \in Doc /\ redis.key[doc] > now
        BY <1>1 DEF MediaType, RedisServes, Exists
      <4> QED BY <3>1, <4>1, <4>2 DEF BeginKeep
    <3>2. CASE KeepFails
      BY <3>2, IdleIs DEF KeepFails
    <3> QED BY <1>3, <3>1, <3>2
  <2>2. MediaType'
    BY <1>1, <2>1 DEF MediaType
  <2>3. now < redis.key[keep'.doc] \/ keep'.pc # "art"
    <3>1. now \in Nat /\ redis.key[keep'.doc] \in Nat
      BY <1>1, <2>1, MediaNumbers DEF MediaInv, MediaType, RedisOK
    <3> QED BY <2>1, <3>1
  <2>4. Covered'
    BY <1>1, <2>1, <2>3 DEF Covered
  <2> QED BY <1>1, <2>2, <2>4, ElseKeeps
<1> QED BY <1>2, <1>3

LEMMA MediaInit == Init => MediaInv
<1> SUFFICES ASSUME Init PROVE MediaInv
  OBVIOUS
<1>1. now = 1 /\ now \in 1..MaxNow
  BY MediaAssumption DEF Init
<1>2. MediaType
  BY <1>1, IdleIs DEF Init, MediaType
<1>3. /\ redis = [key |-> [x \in Blob |-> 0], pending |-> [x \in Blob |-> 0], bytes |-> 0]
      /\ file = [kept |-> {}, held |-> [x \in Blob |-> 0], bytes |-> -1, swept |-> 0]
  BY DEF Init
<1>4. RedisOK(redis)
  <2>1. redis \in [key : [Blob -> Nat], pending : [Blob -> Nat], bytes : Nat]
    BY <1>3
  <2>2. /\ \A x \in Blob : redis.key[x] = 0 /\ redis.pending[x] = 0
        /\ redis.bytes = 0
    BY <1>3
  <2>3. Bytes(Taken(redis)) = 0
    <3>1. Taken(redis) = {}
      BY <1>1, <2>2, MediaNumbers DEF Taken
    <3>2. Bytes(Taken(redis)) = Total({}, Size)
      BY <3>1, BytesAre
    <3> QED BY <3>2, TotalEmpty
  <2> QED BY <1>1, <2>1, <2>2, <2>3, MediaNumbers DEF RedisOK
<1>5. FileOK(file)
  BY <1>3 DEF FileOK
<1>6. Agree(redis, file)
  BY <1>1, <1>3, MediaNumbers DEF Agree
<1>7. Covered
  <2>1. issue.pc = "idle" /\ keep.pc = "idle" /\ pinned = {}
    BY IdleIs DEF Init
  <2>2. \A doc \in Doc : ~(redis.key[doc] > now)
    BY <1>1, <1>3, MediaNumbers
  <2> QED BY <2>1, <2>2 DEF Covered
<1> QED BY <1>2, <1>4, <1>5, <1>6, <1>7 DEF Init, MediaInv

LEMMA MediaStep == MediaInv /\ [Next]_vars => MediaInv'
<1> SUFFICES ASSUME MediaInv, [Next]_vars PROVE MediaInv'
  OBVIOUS
<1>1. CASE BeginIssue \/ ReadArtwork \/ IssueFails \/ PinArt \/ PinDoc
  BY <1>1, IssueMovesKeep
<1>2. CASE CreateCoin \/ RegisterCoin \/ BeginKeep \/ KeepFails
  BY <1>2, CoinMovesKeep
<1>3. CASE Upload
  BY <1>3, UploadKeeps
<1>4. CASE IssueArt
  BY <1>4, IssueArtKeeps
<1>5. CASE IssueDoc
  BY <1>5, IssueDocKeeps
<1>6. CASE KeepArt
  BY <1>6, KeepArtKeeps
<1>7. CASE KeepDoc
  BY <1>7, KeepDocKeeps
<1>8. CASE Restart
  BY <1>8, RestartKeeps
<1>9. CASE Tick
  BY <1>9, TickKeeps
<1>10. CASE UNCHANGED vars
  <2>1. UNCHANGED <<now, redis, file, answers, pinned, issue, issued, coins, keep>>
    BY <1>10 DEF vars, stores
  <2>2. MediaType' /\ Covered'
    BY <2>1 DEF MediaInv, MediaType, Covered
  <2> QED BY <2>1, <2>2, ElseKeeps
<1> QED
  BY <1>1, <1>2, <1>3, <1>4, <1>5, <1>6, <1>7, <1>8, <1>9, <1>10 DEF Next

\* Every behaviour of the media keeps both stores' books, and keeps them in step: what one holds
\* for good the other does, and what one serves for a while the other serves as long.
THEOREM MediaAccounted == Spec => []MediaInv
<1> QED BY MediaInit, MediaStep, PTL DEF Spec

LEMMA MediaFollows == MediaInv => StoresTrue /\ KeptWhole
<1> SUFFICES ASSUME MediaInv PROVE StoresTrue /\ KeptWhole
  OBVIOUS
<1>1. /\ now \in 1..MaxNow /\ RedisOK(redis) /\ FileOK(file) /\ Agree(redis, file)
      /\ answers.redis = answers.file /\ Covered
  BY DEF MediaInv, MediaType
<1>2. OnePath
  <2>1. RedisServes = FileServes
    BY <1>1, SameLive, Zenon
  <2> QED BY <1>1, <2>1 DEF OnePath
<1>3. QuotaExact
  BY <1>1 DEF RedisOK, FileOK, QuotaExact, Taken
<1>4. ASSUME NEW doc \in Doc, redis.key[doc] = Forever, keep.pc = "idle"
      PROVE  redis.key[ArtOf[doc]] = Forever
  <2>1. now < Forever /\ ArtOf[doc] \in Blob
    BY <1>1, MediaNumbers
  <2>2. redis.key[doc] <= redis.key[ArtOf[doc]]
    BY <1>1, <1>4, <2>1 DEF Covered
  <2>3. /\ redis.key[ArtOf[doc]] \in Nat
        /\ redis.key[ArtOf[doc]] <= now + PENDING \/ redis.key[ArtOf[doc]] = Forever
    BY <1>1, <2>1 DEF RedisOK
  <2> QED BY <1>1, <1>4, <2>2, <2>3, MediaNumbers
<1>5. ASSUME NEW doc \in Doc, doc \in file.kept, keep.pc = "idle" PROVE ArtOf[doc] \in file.kept
  <2>1. doc \in Blob /\ ArtOf[doc] \in Blob
    BY <1>1, MediaNumbers
  <2>2. redis.key[doc] = Forever
    BY <1>1, <1>5, <2>1 DEF Agree
  <2>3. redis.key[ArtOf[doc]] = Forever
    BY <1>4, <1>5, <2>2
  <2> QED BY <1>1, <2>1, <2>3 DEF Agree
<1>6. \A doc \in Doc : doc \in pinned => ArtOf[doc] \in pinned
  BY <1>1 DEF Covered
<1> QED BY <1>2, <1>3, <1>4, <1>5, <1>6 DEF StoresTrue, KeptWhole

-----------------------------------------------------------------------------
(* The server: whichever part moves, the others rest.                      *)

ServerInv == MediaInv /\ LimitsInv /\ ReadsInv

\* All parts at once: what storage holds, what requests are charged and what readers are told
\* stays accounted for, in every behaviour of the server.
THEOREM ServerAccounted == PartsSpec => []ServerInv
<1>1. PartsInit => ServerInv
  BY MediaInit, LimitsInit, ReadsInit DEF PartsInit, ServerInv
<1>2. ServerInv /\ [PartsNext]_<<part, vars, limitVars, readVars>> => ServerInv'
  <2> SUFFICES ASSUME ServerInv, [PartsNext]_<<part, vars, limitVars, readVars>> PROVE ServerInv'
    OBVIOUS
  <2>1. /\ [Next]_vars /\ [L!Next]_limitVars /\ [R!Next]_readVars
    BY DEF PartsNext
  <2> QED BY <2>1, MediaStep, LimitsStep, ReadsStep DEF ServerInv
<1> QED BY <1>1, <1>2, PTL DEF PartsSpec

\* Whatever expires, is promoted or is left behind by a restart, the Redis store and the file store
\* (storage.mjs) answer alike, serve the same blobs, and count exactly the bytes they hold, never
\* more than the quota.
THEOREM StoresStayTrue == PartsSpec => []StoresTrue
<1>1. ServerInv => StoresTrue
  BY MediaFollows DEF ServerInv
<1> QED BY <1>1, ServerAccounted, PTL

\* A metadata document that stays (promoted by keepLaunchMedia or resolveMetadata, or pinned) has
\* its artwork, in either store: a coin never shows a document whose picture expired.
THEOREM MediaStaysWhole == PartsSpec => []KeptWhole
<1>1. ServerInv => KeptWhole
  BY MediaFollows DEF ServerInv
<1> QED BY <1>1, ServerAccounted, PTL

\* However instances of the limiter (createLimiter) batch, fail and answer out of order, a visitor
\* is refused only for what was charged to a bucket of theirs; and no shared read (readCached)
\* passes a refusal on to a reader who did not earn it.
THEOREM RefusalsStayEarned == PartsSpec => []RefusalsEarned
<1>1. ServerInv => RefusalsEarned
  BY ReadsFollow DEF ServerInv, LimitsInv, RefusalsEarned
<1> QED BY <1>1, ServerAccounted, PTL

\* A re-check of the cached reads never gets a value older than what was stored when it asked.
THEOREM RechecksStayNew == PartsSpec => []RecheckIsNew
<1>1. ServerInv => RecheckIsNew
  BY ReadsFollow DEF ServerInv, RecheckIsNew
<1> QED BY <1>1, ServerAccounted, PTL

=============================================================================
