---------------------------- MODULE LaunchMedia ----------------------------
(***************************************************************************)
(* The artwork and metadata documents of launches: the upload and metadata *)
(* routes of application.mjs, the notice that makes the media of a created *)
(* coin permanent, and the two stores of storage.mjs that hold them under  *)
(* one byte quota.                                                         *)
(*                                                                         *)
(* "Both expose the same interface so application code has one path": the  *)
(* Redis store and the file store are driven here by the same calls, side  *)
(* by side.                                                                *)
(*                                                                         *)
(* A blob's time of expiry is 0 when it is not there and Forever when it   *)
(* is permanent.  Sizes and the quota are in the units of each store       *)
(* (base64 in Redis, bytes on disk).  Outside the model: image checks,     *)
(* per-visitor charges, and file stores shared by several processes.       *)
(***************************************************************************)
EXTENDS Integers, FiniteSets

CONSTANTS
    Art, Doc,     \* artwork and metadata documents, by content
    ArtOf,        \* the artwork a document references
    Size, LIMIT,  \* of a blob; the quota
    PENDING,      \* pendingMediaMs
    SWEEP_MS,     \* how often the file store looks for expired uploads unasked
    MaxNow

ASSUME MediaAssumption ==
    /\ IsFiniteSet(Art) /\ IsFiniteSet(Doc) /\ Doc # {}
    /\ Art \cap Doc = {} /\ ArtOf \in [Doc -> Art]
    /\ Size \in [Art \cup Doc -> Nat] /\ LIMIT \in Nat
    /\ PENDING \in Nat \ {0} /\ SWEEP_MS \in Nat /\ MaxNow \in Nat \ {0}

Blob    == Art \cup Doc
Forever == MaxNow + PENDING + 1

VARIABLES
    now,
    ipfs,      \* whether metadata is pinned (PINATA_JWT) instead of served from here
    redis,     \* blob keys with their expiry, the sorted set of pending ones, the byte counter
    file,      \* media/, media/pending/ with expiries, the byte count in memory, the last sweep
    answers,   \* what each store answered last
    pinned,    \* blobs with a recorded pin
    issue,     \* a metadata request under way
    issued,    \* documents whose uri a launcher was given
    coins,     \* documents with a coin on-chain
    claimed,   \* issued uris bound to a registered coin
    keep       \* a notice (or a view) of a coin's document under way

stores == <<redis, file, answers>>
vars == <<now, ipfs, stores, pinned, issue, issued, coins, claimed, keep>>

Idle == [pc |-> "idle", doc |-> CHOOSE d \in Doc : TRUE]

Init ==
    /\ now = 1
    /\ ipfs \in BOOLEAN
    /\ redis = [key |-> [b \in Blob |-> 0], pending |-> [b \in Blob |-> 0], bytes |-> 0]
    /\ file = [kept |-> {}, held |-> [b \in Blob |-> 0], bytes |-> -1, swept |-> 0]
    /\ answers = [redis |-> "none", file |-> "none"]
    /\ pinned = {} /\ issued = {} /\ coins = {} /\ claimed = {}
    /\ issue = Idle /\ keep = Idle

\* The bytes of some blobs, counted one by one.
Bytes(blobs) == Cardinality(UNION {{b} \X (1..Size[b]) : b \in blobs})
Reply(s, a)  == [store |-> s, answer |-> a]

-----------------------------------------------------------------------------
(* The Redis store: each call is one script.                               *)

Exists(s, b) == s.key[b] > now

\* Mutant: an expired upload gives its bytes back each time it is met.
GiveBackTwice(s, blobs) == [s EXCEPT !.bytes = @ - Bytes(blobs)]

\* Entries of the sorted set are dropped and their bytes given back.
GiveBack(s, blobs) ==
    [s EXCEPT !.bytes = @ - Bytes(blobs),
              !.pending = [b \in Blob |-> IF b \in blobs THEN 0 ELSE @[b]]]

ExpiredIn(s) == {b \in Blob : s.pending[b] \in 1..now}

RedisPut(s, b) ==
    LET held == s.pending[b] # 0 /\ Exists(s, b)
        kept == s.pending[b] = 0 /\ s.key[b] = Forever
        room == GiveBack(s, ExpiredIn(s))
        full == room.bytes + Size[b] > LIMIT
    IN CASE held -> Reply([s EXCEPT !.key[b] = now + PENDING, !.pending[b] = now + PENDING], "had")
         [] kept -> Reply(s, "had")
         [] ~held /\ ~kept /\ full -> Reply(room, "full")
         [] OTHER -> Reply([room EXCEPT !.key[b] = now + PENDING, !.pending[b] = now + PENDING,
                                        !.bytes = @ + Size[b]], "stored")

RedisPromote(s, b) ==
    CASE s.pending[b] # 0 /\ Exists(s, b) ->
            Reply([s EXCEPT !.key[b] = Forever, !.pending[b] = 0], "kept")
      [] s.pending[b] # 0 /\ ~Exists(s, b) -> Reply(GiveBack(s, {b}), "gone")
      [] OTHER -> Reply(s, IF s.key[b] = Forever THEN "kept" ELSE "gone")

-----------------------------------------------------------------------------
(* The file store: calls run one at a time in the process.                 *)

Files(s) == s.kept \cup {b \in Blob : s.held[b] # 0}

\* Files deleted; their bytes are given back when they were counted (-1: not since the start).
Unlink(s, blobs) ==
    [s EXCEPT !.held = [b \in Blob |-> IF b \in blobs THEN 0 ELSE @[b]],
              !.bytes = IF @ = -1 THEN @ ELSE @ - Bytes(blobs)]

StaleIn(s)       == {b \in Blob : s.held[b] \in 1..now}
LiveOrDrop(s, b) == Unlink(s, StaleIn(s) \cap {b})
SweepPending(s)  == [Unlink(s, StaleIn(s)) EXCEPT !.swept = now]

MediaUsage(s) ==
    IF s.bytes # -1 THEN s
    ELSE LET live == SweepPending(s) IN [live EXCEPT !.bytes = Bytes(Files(live))]

FilePut(s, b) ==
    LET counted == MediaUsage(s)
        own     == LiveOrDrop(counted, b)
        room    == IF own.bytes + Size[b] > LIMIT \/ now - own.swept > SWEEP_MS
                   THEN SweepPending(own) ELSE own
    IN CASE b \in s.kept -> Reply(counted, "had")
         [] b \notin s.kept /\ own.held[b] # 0 -> Reply([own EXCEPT !.held[b] = now + PENDING], "had")
         [] b \notin s.kept /\ own.held[b] = 0 /\ room.bytes + Size[b] > LIMIT -> Reply(room, "full")
         [] OTHER -> Reply([room EXCEPT !.held[b] = now + PENDING, !.bytes = @ + Size[b]], "stored")

FilePromote(s, b) ==
    LET own == LiveOrDrop(s, b)
    IN IF own.held[b] # 0
       THEN Reply([own EXCEPT !.held[b] = 0, !.kept = @ \cup {b}], "kept")
       ELSE Reply(own, IF b \in own.kept THEN "kept" ELSE "gone")

-----------------------------------------------------------------------------
(* Calls of the application.                                               *)

Calls(ofRedis, ofFile) ==
    /\ redis' = ofRedis.store /\ file' = ofFile.store
    /\ answers' = [redis |-> ofRedis.answer, file |-> ofFile.answer]

Put(b)     == Calls(RedisPut(redis, b), FilePut(file, b))
Promote(b) == Calls(RedisPromote(redis, b), FilePromote(file, b))

\* getMedia.
RedisServes == {b \in Blob : Exists(redis, b)}
FileServes  == file.kept \cup {b \in Blob : file.held[b] > now}

\* POST /api/media
Upload ==
    /\ \E a \in Art : Put(a)
    /\ UNCHANGED <<now, ipfs, pinned, issue, issued, coins, claimed, keep>>

\* POST /api/metadata: a document of which no coin was registered.  Pinned ones are looked up last.
BeginIssue ==
    /\ issue.pc = "idle"
    /\ \E d \in Doc \ (IF ipfs THEN {} ELSE claimed) : issue' = [pc |-> "read", doc |-> d]
    /\ UNCHANGED <<now, ipfs, stores, pinned, issued, coins, claimed, keep>>

\* The artwork's bytes, or an error when they are gone.
ReadArtwork ==
    /\ issue.pc = "read"
    /\ issue' = IF ArtOf[issue.doc] \in RedisServes
                THEN [issue EXCEPT !.pc = IF ipfs THEN "pinArt" ELSE "art"] ELSE Idle
    /\ UNCHANGED <<now, ipfs, stores, pinned, issued, coins, claimed, keep>>

\* Mutant: artwork that is still stored keeps the expiry of its upload.
PutArtUnlessHeld(b) == IF b \in RedisServes THEN UNCHANGED stores ELSE Put(b)

\* The artwork is kept for another period, or stored again when it expired since.
PutArt(b) == Put(b)

IssueArt ==
    /\ issue.pc = "art"
    /\ PutArt(ArtOf[issue.doc])
    /\ issue' = IF answers'.redis = "full" THEN Idle ELSE [issue EXCEPT !.pc = "doc"]
    /\ UNCHANGED <<now, ipfs, pinned, issued, coins, claimed, keep>>

IssueDoc ==
    /\ issue.pc = "doc"
    /\ Put(issue.doc)
    /\ issue' = Idle
    /\ issued' = IF answers'.redis = "full" THEN issued ELSE issued \cup {issue.doc}
    /\ UNCHANGED <<now, ipfs, pinned, coins, claimed, keep>>

\* pinOnce of the artwork and of the document.
PinArt ==
    /\ issue.pc = "pinArt"
    /\ pinned' = pinned \cup {ArtOf[issue.doc]}
    /\ issue' = [issue EXCEPT !.pc = "pinDoc"]
    /\ UNCHANGED <<now, ipfs, stores, issued, coins, claimed, keep>>

PinDoc ==
    /\ issue.pc = "pinDoc"
    /\ pinned' = pinned \cup {issue.doc}
    /\ issued' = IF issue.doc \in claimed THEN issued ELSE issued \cup {issue.doc}
    /\ issue' = Idle
    /\ UNCHANGED <<now, ipfs, stores, coins, claimed, keep>>

\* A request stops at an error of the store, of Pinata or of a budget, or dies.
IssueFails ==
    /\ issue.pc # "idle"
    /\ issue' = Idle
    /\ UNCHANGED <<now, ipfs, stores, pinned, issued, coins, claimed, keep>>

\* A launcher creates a coin with the uri, at once or much later.
CreateCoin ==
    /\ \E d \in issued \ coins : coins' = coins \cup {d}
    /\ UNCHANGED <<now, ipfs, stores, pinned, issue, issued, claimed, keep>>

RegisterCoin ==
    /\ \E d \in coins \ claimed : claimed' = claimed \cup {d}
    /\ UNCHANGED <<now, ipfs, stores, pinned, issue, issued, coins, keep>>

\* keepLaunchMedia of a registered launch, or resolveMetadata of a coin that is looked at: reads
\* the document; one that has expired leaves nothing to keep.
BeginKeep ==
    /\ ~ipfs /\ keep.pc = "idle"
    /\ \E d \in coins \cap RedisServes : keep' = [pc |-> "art", doc |-> d]
    /\ UNCHANGED <<now, ipfs, stores, pinned, issue, issued, coins, claimed>>

KeepArt ==
    /\ keep.pc = "art"
    /\ Promote(ArtOf[keep.doc])
    /\ keep' = [keep EXCEPT !.pc = "doc"]
    /\ UNCHANGED <<now, ipfs, pinned, issue, issued, coins, claimed>>

KeepDoc ==
    /\ keep.pc = "doc"
    /\ Promote(keep.doc)
    /\ keep' = Idle
    /\ UNCHANGED <<now, ipfs, pinned, issue, issued, coins, claimed>>

\* Storage fails on the way; the notice is sent again by a later pass.
KeepFails ==
    /\ keep.pc # "idle"
    /\ keep' = Idle
    /\ UNCHANGED <<now, ipfs, stores, pinned, issue, issued, coins, claimed>>

\* The server with the file store starts again, perhaps after it wrote an upload's file and before
\* it set the expiry: the file's time is then that of the write.
Restart ==
    /\ issue.pc = "idle" /\ keep.pc = "idle"
    /\ \/ file' = [file EXCEPT !.bytes = -1, !.swept = 0]
       \/ \E a \in Art \ Files(file) : file' = [file EXCEPT !.bytes = -1, !.swept = 0, !.held[a] = now]
    /\ UNCHANGED <<now, ipfs, redis, answers, pinned, issue, issued, coins, claimed, keep>>

\* A tick is hours: none passes between two puts or two promotions of one request.
Tick ==
    /\ now < MaxNow
    /\ issue.pc # "doc" /\ keep.pc = "idle"
    /\ now' = now + 1
    /\ UNCHANGED <<ipfs, stores, pinned, issue, issued, coins, claimed, keep>>

Next ==
    \/ Upload \/ BeginIssue \/ ReadArtwork \/ IssueArt \/ IssueDoc \/ PinArt \/ PinDoc \/ IssueFails
    \/ CreateCoin \/ RegisterCoin \/ BeginKeep \/ KeepArt \/ KeepDoc \/ KeepFails \/ Restart \/ Tick

Spec == Init /\ [][Next]_vars

-----------------------------------------------------------------------------
(* Properties.                                                             *)

\* The application has one path: the two stores answer every call alike and serve the same blobs,
\* though one gives space back when a put meets expired uploads and the other sweeps files.
OnePath == answers.redis = answers.file /\ RedisServes = FileServes

\* The byte counters are what is stored, expired uploads that still take space included, and never
\* pass the quota: whatever expired, was promoted, or was left behind by a restart.
QuotaExact ==
    /\ redis.bytes = Bytes({b \in Blob : redis.pending[b] # 0 \/ redis.key[b] = Forever})
    /\ redis.bytes <= LIMIT
    /\ file.bytes # -1 => file.bytes = Bytes(Files(file)) /\ file.bytes <= LIMIT

\* Both at once: a put is answered from the bytes the store really has room for, by either store.
StoresTrue == OnePath /\ QuotaExact

\* A document that stays has its artwork: permanent with permanent, pinned with pinned.  A coin
\* never shows a document whose picture expired.
KeptWhole ==
    \A d \in Doc :
        /\ redis.key[d] = Forever /\ keep.pc = "idle" => redis.key[ArtOf[d]] = Forever
        /\ d \in file.kept /\ keep.pc = "idle" => ArtOf[d] \in file.kept
        /\ d \in pinned => ArtOf[d] \in pinned
=============================================================================
