--------------------------- MODULE AcceptanceProofs ---------------------------
(***************************************************************************)
(* Theorems about the seeder, for any number of runs, kills and lost        *)
(* answers, and about make acceptance, for any number of earlier runs of    *)
(* the seeder and any time limit; both over any API that implements         *)
(* AtomicIngest.                                                            *)
(***************************************************************************)
EXTENDS Acceptance, TLAPS, SequenceTheorems

-----------------------------------------------------------------------------
(* The seeder. *)

(* The initial states satisfy the inductive invariant.                       *)
LEMMA SeederInitInv == SeederInit => SeederInv
<1> SUFFICES ASSUME SeederInit PROVE SeederInv
  OBVIOUS
<1>1. /\ answer = [b \in Batches |-> "none"] /\ spc = [r \in Batches |-> "idle"]
      /\ sent = {} /\ sentinel = FALSE
  BY DEF SeederInit, AtomicInit
<1>2. rows = <<>>
  BY DEF SeederInit, AtomicInit
<1>3. \A r \in Batches : ~Has(r)
  BY <1>2 DEF Has
<1>4. SeederTypeOK
  <2>1. rows \in Seq([req : Batches, n : Nat])
    BY <1>2
  <2> QED
    BY <1>1, <2>1 DEF SeederTypeOK
<1> QED
  BY <1>1, <1>3, <1>4 DEF SeederInv, Unfailed, Running

(* The steps of a run leave the database alone.                              *)
LEMMA SeederStepKeepsInv ==
  ASSUME SeederInv, NEW r \in Batches, SeederStep(r)
  PROVE  SeederInv'
<1> USE DEF SeederInv, SeederTypeOK
<1>1. rows' = rows /\ answer' = answer
  BY DEF SeederStep, StartRun, Post, FilesFail, PostBreaks, PostReturns, WriteSentinel,
         SentinelFails, Kill, atomicVars
<1>2. (\A s \in Batches : Has(s)' <=> Has(s)) /\ Stored' = Stored
  BY <1>1 DEF Has, Stored
<1>3. /\ \A s \in Batches \ {r} : spc'[s] = spc[s] /\ (s \in sent' <=> s \in sent)
      /\ SeederTypeOK'
      /\ \/ /\ spc[r] = "idle" /\ (\A s \in Batches : ~Running(s))
            /\ spc'[r] = (IF sentinel THEN "exit0" ELSE "files")
            /\ sent' = sent /\ sentinel' = sentinel
         \/ spc[r] = "files" /\ spc'[r] = "posting" /\ r \in sent' /\ sentinel' = sentinel
         \/ /\ spc[r] = "posting" /\ spc'[r] = "ingested" /\ answer[r] = "created"
            /\ sent' = sent /\ sentinel' = sentinel
         \/ spc[r] = "ingested" /\ spc'[r] = "exit0" /\ sent' = sent /\ sentinel' = TRUE
         \/ /\ Running(r) /\ spc'[r] \in {"exit1", "killed"} /\ sent' = sent
            /\ \/ sentinel' = sentinel
               \/ spc[r] = "ingested" /\ sentinel' = TRUE
  <2> USE DEF SGoto
  <2>1. CASE StartRun(r)
    BY <1>1, <2>1 DEF StartRun
  <2>2. CASE Post(r)
    BY <1>1, <2>2 DEF Post
  <2>3. CASE FilesFail(r) \/ PostBreaks(r) \/ Kill(r)
    BY <1>1, <2>3 DEF FilesFail, PostBreaks, Kill, Running
  <2>4. CASE PostReturns(r)
    BY <1>1, <2>4 DEF PostReturns, Running
  <2>5. CASE WriteSentinel(r)
    BY <1>1, <2>5 DEF WriteSentinel
  <2>6. CASE SentinelFails(r)
    BY <1>1, <2>6 DEF SentinelFails, Running
  <2> QED
    BY <2>1, <2>2, <2>3, <2>4, <2>5, <2>6 DEF SeederStep
<1>4. \A s \in Batches : Has(s)' => s \in sent'
  BY <1>2, <1>3 DEF Running
<1>5. /\ \A s \in Batches : spc'[s] \in {"idle", "files"} => s \notin sent'
      /\ \A s \in Batches : spc'[s] \in {"posting", "ingested"} => s \in sent'
  BY <1>3
<1>6. /\ \A s \in Batches : answer'[s] = "created" => Has(s)'
      /\ \A s \in Batches : spc'[s] = "ingested" => answer'[s] = "created"
  BY <1>1, <1>2, <1>3
<1>7. /\ \A s \in Batches : spc'[s] = "exit0" => sentinel'
      /\ sentinel' => Stored' # {}
  <2>1. spc[r] = "ingested" => Stored # {}
    BY DEF Stored
  <2> QED
    BY <1>2, <1>3, <2>1
<1>8. \A s, t \in Batches : Unfailed(s)' /\ Unfailed(t)' => s = t
  <2>1. \A s \in Batches \ {r} : Unfailed(s)' <=> Unfailed(s)
    BY <1>3 DEF Unfailed, Running
  <2>2. \/ ~Unfailed(r)'
        \/ Unfailed(r)
        \/ \A s \in Batches : ~Unfailed(s)
    BY <1>3 DEF Unfailed, Running
  <2> QED
    BY <2>1, <2>2
<1>9. SeederTypeOK'
  BY <1>3
<1> HIDE DEF SeederTypeOK
<1> QED
  BY <1>4, <1>5, <1>6, <1>7, <1>8, <1>9

(* A function on 1..n is a sequence.                                         *)
LEMMA FunctionIsSeq ==
  ASSUME NEW S, NEW n \in Nat, NEW f \in [1..n -> S]
  PROVE  f \in Seq(S)
BY SeqDef

(* A batch that is stored is in the table, and moves no other out of it.     *)
LEMMA StoreStores ==
  ASSUME SeederTypeOK, NEW r \in Batches, StoreBatch(r)
  PROVE  /\ rows' \in Seq([req : Batches, n : Nat])
         /\ Has(r)'
         /\ \A s \in Batches \ {r} : Has(s)' <=> Has(s)
<1> DEFINE L == Len(rows)
           new == RowsOf(r)
<1>1. Size[r] \in Nat \ {0} /\ L \in Nat
  BY SeedAssumption DEF SeederTypeOK
<1>2. /\ new \in Seq([req : Batches, n : Nat]) /\ Len(new) = Size[r]
      /\ \A i \in 1..Size[r] : new[i] = [req |-> r, n |-> i]
  <2>1. \A i \in 1..Size[r] : [req |-> r, n |-> i] \in [req : Batches, n : Nat]
    BY <1>1
  <2>2. new = [i \in 1..Size[r] |-> [req |-> r, n |-> i]]
    BY DEF RowsOf
  <2> HIDE DEF new
  <2>3. new \in [1..Size[r] -> [req : Batches, n : Nat]]
    BY <2>1, <2>2
  <2>4. \A i \in 1..Size[r] : new[i] = [req |-> r, n |-> i]
    BY <2>2
  <2>5. new \in Seq([req : Batches, n : Nat])
    BY <1>1, <2>3, FunctionIsSeq
  <2>6. Len(new) = Size[r]
    BY <1>1, <2>2
  <2> QED
    BY <2>4, <2>5, <2>6
<1>3. rows' = rows \o new
  BY DEF StoreBatch
<1> HIDE DEF new, L
<1>4. /\ rows' \in Seq([req : Batches, n : Nat])
      /\ DOMAIN rows = 1..L /\ DOMAIN rows' = 1..(L + Size[r])
      /\ \A i \in 1..L : rows'[i] = rows[i]
      /\ \A i \in (L + 1)..(L + Size[r]) : rows'[i] = new[i - L]
  BY <1>1, <1>2, <1>3 DEF SeederTypeOK, L
<1>5. \A i \in (L + 1)..(L + Size[r]) : rows'[i].req = r
  <2> SUFFICES ASSUME NEW i \in (L + 1)..(L + Size[r]) PROVE rows'[i].req = r
    OBVIOUS
  <2>1. i - L \in 1..Size[r]
    BY <1>1
  <2>2. rows'[i] = [req |-> r, n |-> i - L]
    BY <1>2, <1>4, <2>1
  <2> QED
    BY ONLY <2>2
<1>6. Has(r)'
  <2>1. L + 1 \in DOMAIN rows' /\ L + 1 \in (L + 1)..(L + Size[r])
    BY <1>1, <1>4
  <2> QED
    BY <1>5, <2>1 DEF Has
<1>7. \A s \in Batches \ {r} : Has(s)' <=> Has(s)
  <2>1. \A i \in 1..(L + Size[r]) : i \in 1..L \/ i \in (L + 1)..(L + Size[r])
    BY <1>1
  <2>2. \A i \in 1..L : i \in 1..(L + Size[r])
    BY <1>1
  <2> QED
    BY <1>4, <1>5, <2>1, <2>2 DEF Has
<1> QED
  BY <1>4, <1>6, <1>7

(* The steps of the API: nothing is stored or answered for a run that did    *)
(* not post, and "created" is answered for a stored batch only.              *)
LEMMA ApiStepKeepsInv ==
  ASSUME SeederInv, NEW r \in Batches, ApiStep(r)
  PROVE  SeederInv'
<1> USE DEF SeederInv
<1>1. r \in sent /\ spc' = spc /\ sent' = sent /\ sentinel' = sentinel
  BY DEF ApiStep, seederVars
<1>2. \A s \in Batches : Unfailed(s)' <=> Unfailed(s)
  BY <1>1 DEF Unfailed, Running
<1>3. CASE StoreBatch(r)
  <2>1. answer' = answer
    BY <1>3 DEF StoreBatch
  <2>2. /\ rows' \in Seq([req : Batches, n : Nat]) /\ Has(r)'
        /\ \A s \in Batches \ {r} : Has(s)' <=> Has(s)
    BY <1>3, StoreStores
  <2>3. SeederTypeOK'
    BY <1>1, <2>1, <2>2 DEF SeederTypeOK
  <2>4. Stored' # {}
    BY <2>2 DEF Stored
  <2> QED
    BY <1>1, <1>2, <2>1, <2>2, <2>3, <2>4
<1>4. CASE Accept(r) \/ Refuse(r) \/ Lose({r})
  <2>1. /\ rows' = rows /\ answer[r] = "none"
        /\ answer' \in [Batches -> {"none", "created", "bad_request", "server_error", "lost"}]
        /\ \A s \in Batches \ {r} : answer'[s] = answer[s]
        /\ answer'[r] = "created" => Has(r)
    <3>1. CASE Accept(r)
      BY <3>1, SeedAssumption DEF Accept, SeederTypeOK
    <3>2. CASE Refuse(r)
      BY <3>2 DEF Refuse, SeederTypeOK
    <3>3. CASE Lose({r})
      BY <3>3 DEF Lose, SeederTypeOK
    <3> QED
      BY <1>4, <3>1, <3>2, <3>3
  <2>2. (\A s \in Batches : Has(s)' <=> Has(s)) /\ Stored' = Stored
    BY <2>1 DEF Has, Stored
  <2>3. SeederTypeOK'
    BY <1>1, <2>1 DEF SeederTypeOK
  <2>4. \A s \in Batches : /\ answer'[s] = "created" => Has(s)'
                           /\ spc'[s] = "ingested" => answer'[s] = "created"
    BY <1>1, <2>1, <2>2
  <2> QED
    BY <1>1, <1>2, <2>2, <2>3, <2>4
<1> QED
  BY <1>3, <1>4 DEF ApiStep

(* The inductive invariant of the seeder.                                    *)
THEOREM SeederInvariant == SeederSpec => []SeederInv
<1>1. SeederInit => SeederInv
  BY SeederInitInv
<1>2. SeederInv /\ [SeederNext]_<<atomicVars, seederVars>> => SeederInv'
  <2> SUFFICES ASSUME SeederInv, [SeederNext]_<<atomicVars, seederVars>> PROVE SeederInv'
    OBVIOUS
  <2>1. CASE UNCHANGED <<atomicVars, seederVars>>
    BY <2>1 DEF atomicVars, seederVars, SeederInv, SeederTypeOK, Stored, Has, Unfailed, Running
  <2>2. ASSUME NEW r \in Batches, SeederStep(r) \/ ApiStep(r) PROVE SeederInv'
    BY <2>2, SeederStepKeepsInv, ApiStepKeepsInv
  <2> QED
    BY <2>1, <2>2 DEF SeederNext
<1> QED
  BY <1>1, <1>2, PTL DEF SeederSpec

(* A volume marked as seeded holds a seed.                                   *)
THEOREM SentinelIsTrue == SeederSpec => []SentinelMeansSeeded
<1>1. SeederInv => SentinelMeansSeeded
  BY DEF SeederInv, SentinelMeansSeeded
<1> QED
  BY <1>1, SeederInvariant, PTL

(* Who waits for an exit code of 0 finds the seed in the database.           *)
THEOREM GoodExitIsSeeded == SeederSpec => []ExitZeroMeansSeeded
<1>1. SeederInv => ExitZeroMeansSeeded
  BY DEF SeederInv, ExitZeroMeansSeeded
<1> QED
  BY <1>1, SeederInvariant, PTL

(* Of the copies of the seed at most one is that of a run that did not fail. *)
LEMMA ExtraCopiesFailed == SeederInv => ExtraCopiesAreFailures
<1> SUFFICES ASSUME SeederInv, NEW r \in Stored, NEW s \in Stored, r # s
             PROVE  \E f \in {r, s} : spc[f] \in {"exit1", "killed"}
  BY DEF ExtraCopiesAreFailures
<1>1. \A t \in Stored : t \in Batches /\ (spc[t] \in {"exit1", "killed"} \/ Unfailed(t))
  BY DEF SeederInv, SeederTypeOK, Stored, Unfailed, Running
<1> QED
  BY <1>1 DEF SeederInv

(* Every copy of the seed beyond the first is that of a failed run.          *)
THEOREM GoodRunsSeedOnce == SeederSpec => []ExtraCopiesAreFailures
BY ExtraCopiesFailed, SeederInvariant, PTL

-----------------------------------------------------------------------------
(* make acceptance. *)

(* The target starts beside demos of which nothing is known but SeederInv.   *)
LEMMA AcceptanceInitInv == AcceptanceInit => AcceptanceInv
<1> SUFFICES ASSUME AcceptanceInit PROVE AcceptanceInv
  OBVIOUS
<1>1. SeederInv
  BY SeederInitInv DEF AcceptanceInit
<1>2. step = "demo" /\ current = {} /\ answer = [b \in Batches |-> "none"]
  BY DEF AcceptanceInit, SeederInit, AtomicInit
<1> QED
  BY <1>1, <1>2 DEF AcceptanceInv, EarlierRunsAreOver, OnlyCurrentStores, Waited

(* A batch appended to an empty table is the whole table.                    *)
LEMMA StoreIntoEmpty ==
  ASSUME NEW r \in Batches, rows = <<>>, StoreBatch(r)
  PROVE  rows' = RowsOf(r)
<1> DEFINE new == RowsOf(r)
<1>1. new \in Seq([req : {r}, n : Nat])
  <2>1. new = [i \in 1..Size[r] |-> [req |-> r, n |-> i]]
    BY DEF RowsOf
  <2>2. Size[r] \in Nat /\ \A i \in 1..Size[r] : [req |-> r, n |-> i] \in [req : {r}, n : Nat]
    BY SeedAssumption
  <2> HIDE DEF new
  <2>3. new \in [1..Size[r] -> [req : {r}, n : Nat]]
    BY <2>1, <2>2
  <2> QED
    BY <2>2, <2>3, FunctionIsSeq
<1>2. rows' = <<>> \o new
  BY DEF StoreBatch
<1> HIDE DEF new
<1>3. rows' = new
  BY <1>1, <1>2, ConcatEmptySeq
<1> QED
  BY <1>3 DEF new

(* A table that holds one batch, or nothing, holds rows of that batch only.  *)
LEMMA HasOnlyCurrent ==
  ASSUME NEW r \in Batches, NEW s \in Batches, rows = RowsOf(r)
  PROVE  Has(s) <=> s = r
<1>1. /\ Size[r] \in Nat \ {0}
      /\ DOMAIN rows = 1..Size[r] /\ \A i \in DOMAIN rows : rows[i] = [req |-> r, n |-> i]
  BY SeedAssumption DEF RowsOf
<1>2. \A i \in DOMAIN rows : rows[i].req = r
  <2> SUFFICES ASSUME NEW i \in DOMAIN rows PROVE rows[i].req = r
    OBVIOUS
  <2>1. rows[i] = [req |-> r, n |-> i]
    BY <1>1
  <2> QED
    BY ONLY <2>1
<1>3. 1 \in DOMAIN rows
  BY ONLY <1>1
<1> QED
  BY ONLY <1>2, <1>3 DEF Has

(* A step of a container keeps what the target relies on: only the run it    *)
(* started still moves, and that run posts once.                             *)
LEMMA ContainersKeepInv ==
  ASSUME AcceptanceInv, Containers
  PROVE  AcceptanceInv'
<1> USE DEF AcceptanceInv
<1>1. PICK r \in Batches :
        /\ SeederStep(r) \/ ApiStep(r)
        /\ spc[r] = "idle" => step = "demo"
        /\ current' = IF spc[r] = "idle" THEN {r} ELSE current
        /\ step' = step
  BY DEF Containers
<1>2. SeederInv'
  BY <1>1, SeederStepKeepsInv, ApiStepKeepsInv
<1>3. \A s \in Batches : answer'[s] # "none" => s \in sent'
  <2>1. CASE SeederStep(r)
    BY <2>1 DEF SeederStep, StartRun, Post, FilesFail, PostBreaks, PostReturns, WriteSentinel,
                SentinelFails, Kill, atomicVars
  <2>2. CASE ApiStep(r)
    BY <2>2 DEF ApiStep, StoreBatch, Accept, Refuse, Lose, seederVars, SeederInv, SeederTypeOK
  <2> QED
    BY <1>1, <2>1, <2>2
<1>4. CASE step = "demo"
  BY <1>1, <1>2, <1>3, <1>4 DEF EarlierRunsAreOver, OnlyCurrentStores, Waited
<1>5. CASE step # "demo"
  <2>1. spc[r] # "idle" /\ current' = current
    BY <1>1, <1>5
  <2>2. r \in current
    <3>1. SUFFICES ASSUME r \notin current PROVE FALSE
      OBVIOUS
    <3>2. spc[r] = "killed" /\ (r \in sent => answer[r] # "none")
      BY <1>5, <2>1, <3>1 DEF EarlierRunsAreOver
    <3>3. ~SeederStep(r)
      BY <3>2 DEF SeederStep, StartRun, Post, FilesFail, PostBreaks, PostReturns, WriteSentinel,
                  SentinelFails, Kill, Running
    <3>4. ~ApiStep(r)
      BY <3>2 DEF ApiStep, StoreBatch, Accept, Refuse, Lose
    <3> QED
      BY <1>1, <3>3, <3>4
  <2>3. step # "up" /\ \A s \in current : s = r
    BY <2>2
  <2>4. CASE SeederStep(r)
    <3>1. rows' = rows /\ answer' = answer
      BY <2>4 DEF SeederStep, StartRun, Post, FilesFail, PostBreaks, PostReturns, WriteSentinel,
                  SentinelFails, Kill, atomicVars
    <3>2. /\ \A s \in Batches \ {r} : spc'[s] = spc[s] /\ (s \in sent' <=> s \in sent)
          /\ spc'[r] = "exit0" => answer[r] = "created"
          /\ spc[r] # "exit0"
      BY <2>1, <2>4 DEF SeederStep, StartRun, Post, FilesFail, PostBreaks, PostReturns,
           WriteSentinel, SentinelFails, Kill, SGoto, Running, SeederInv, SeederTypeOK
    <3>3. EarlierRunsAreOver'
      BY <1>1, <1>5, <2>1, <2>2, <3>1, <3>2 DEF EarlierRunsAreOver
    <3>4. OnlyCurrentStores'
      <4>1. \A s \in current : RowsOf(s)' = RowsOf(s)
        BY DEF RowsOf
      <4> QED
        BY <1>1, <1>5, <2>1, <3>1, <4>1 DEF OnlyCurrentStores
    <3>5. step # "verify"
      BY <2>2, <3>2
    <3> QED
      BY <1>1, <1>2, <1>3, <2>1, <2>3, <3>1, <3>2, <3>3, <3>4, <3>5
  <2>5. CASE ApiStep(r)
    <3>1. spc' = spc /\ sent' = sent /\ r \in sent /\ answer[r] = "none"
      BY <2>5 DEF ApiStep, seederVars, StoreBatch, Accept, Refuse, Lose
    <3>2. \A s \in Batches \ {r} : answer'[s] = answer[s]
      BY <2>5 DEF ApiStep, StoreBatch, Accept, Refuse, Lose, SeederInv, SeederTypeOK
    <3>3. spc[r] # "exit0"
      BY <1>5, <2>2, <3>1
    <3>4. EarlierRunsAreOver'
      BY <1>1, <1>5, <2>1, <2>2, <3>1, <3>2 DEF EarlierRunsAreOver
    <3>5. OnlyCurrentStores'
      <4>1. RowsOf(r)' = RowsOf(r)
        BY DEF RowsOf
      <4>2. rows' = rows \/ (rows = <<>> /\ StoreBatch(r))
        <5>1. CASE StoreBatch(r)
          <6>1. ~Has(r)
            BY <5>1 DEF StoreBatch
          <6>2. rows # RowsOf(r)
            BY <6>1, HasOnlyCurrent
          <6> QED
            BY <1>5, <2>3, <5>1, <6>2 DEF OnlyCurrentStores
        <5> QED
          BY <2>5, <5>1 DEF ApiStep, Accept, Refuse, Lose
      <4>3. CASE rows = <<>> /\ StoreBatch(r)
        <5>1. rows' = RowsOf(r)
          BY <4>3, StoreIntoEmpty
        <5> QED
          BY <2>1, <2>2, <4>1, <5>1 DEF OnlyCurrentStores
      <4>4. CASE rows' = rows
        <5>1. rows = <<>> \/ rows = RowsOf(r)
          BY <1>5, <2>3 DEF OnlyCurrentStores
        <5> QED
          BY <2>1, <2>2, <4>1, <4>4, <5>1 DEF OnlyCurrentStores
      <4> QED
        BY <4>2, <4>3, <4>4
    <3>6. step # "verify"
      BY <2>2, <3>3
    <3> QED
      BY <1>1, <1>2, <1>3, <2>1, <2>3, <3>1, <3>2, <3>3, <3>4, <3>5, <3>6
  <2> QED
    BY <1>1, <2>4, <2>5
<1> QED
  BY <1>4, <1>5

(* Dropping the containers and the volume leaves nothing that could store or *)
(* answer anything.                                                          *)
LEMMA ResetKeepsInv ==
  ASSUME AcceptanceInv, Reset
  PROVE  AcceptanceInv'
<1> USE DEF AcceptanceInv
<1>1. /\ step' = "up" /\ current' = {} /\ rows' = <<>> /\ sentinel' = FALSE /\ sent' = sent
      /\ spc' = [r \in Batches |-> IF spc[r] = "idle" THEN "idle" ELSE "killed"]
      /\ answer' = [r \in Batches |-> IF r \in sent THEN "lost" ELSE answer[r]]
  BY DEF Reset, StopContainers
<1>2. \A r \in Batches : /\ ~Has(r)'
                         /\ spc'[r] \in {"idle", "killed"}
                         /\ answer'[r] \in {"none", "lost"} /\ (answer'[r] # "none" <=> r \in sent)
                         /\ spc'[r] = "idle" => r \notin sent
  <2>1. \A r \in Batches : ~Has(r)'
    BY <1>1 DEF Has
  <2> QED
    BY <1>1, <2>1 DEF SeederInv, SeederTypeOK
<1>3. SeederTypeOK'
  <2>1. rows' \in Seq([req : Batches, n : Nat])
    BY <1>1
  <2>2. /\ spc' \in [Batches -> {"idle", "files", "posting", "ingested", "exit0", "exit1", "killed"}]
        /\ answer' \in [Batches -> {"none", "created", "bad_request", "server_error", "lost"}]
    BY <1>1, <1>2
  <2> QED
    BY <1>1, <2>1, <2>2 DEF SeederInv, SeederTypeOK
<1>4. SeederInv'
  BY <1>1, <1>2, <1>3 DEF SeederInv, Unfailed, Running
<1> QED
  BY <1>1, <1>2, <1>4 DEF EarlierRunsAreOver, OnlyCurrentStores, Waited

(* The container of the target starts over an empty volume, so it posts.     *)
LEMMA UpReturnsKeepsInv ==
  ASSUME AcceptanceInv, UpReturns
  PROVE  AcceptanceInv'
<1> USE DEF AcceptanceInv
<1>1. step = "up" /\ current = {} /\ sentinel = FALSE
  BY DEF UpReturns, SeederInv, SeederTypeOK
<1>2. CASE step' = "failed" /\ UNCHANGED <<current, atomicVars, seederVars>>
  <2>1. SeederInv' /\ EarlierRunsAreOver' /\ OnlyCurrentStores'
    BY <1>1, <1>2 DEF atomicVars, seederVars, SeederInv, SeederTypeOK, Stored, Has, Unfailed,
         Running, EarlierRunsAreOver, OnlyCurrentStores
  <2> QED
    BY <1>1, <1>2, <2>1 DEF atomicVars, seederVars, Waited, Over
<1>3. ASSUME NEW r \in Batches, StartRun(r), current' = {r}, step' = "wait_healthy"
      PROVE  AcceptanceInv'
  <2>1. SeederInv'
    BY <1>3, SeederStepKeepsInv DEF SeederStep
  <2>2. /\ spc[r] = "idle" /\ rows' = rows /\ answer' = answer /\ sent' = sent
        /\ spc' = [spc EXCEPT ![r] = "files"]
    BY <1>1, <1>3 DEF StartRun, SGoto, atomicVars
  <2>3. EarlierRunsAreOver'
    BY <1>1, <1>3, <2>2 DEF EarlierRunsAreOver, SeederInv, SeederTypeOK
  <2>4. rows' = <<>>
    BY <1>1, <2>2 DEF OnlyCurrentStores
  <2>5. spc'[r] = "files"
    BY <2>2 DEF SeederInv, SeederTypeOK
  <2> QED
    BY <1>3, <2>1, <2>2, <2>3, <2>4, <2>5 DEF OnlyCurrentStores, Waited
<1> QED
  BY <1>2, <1>3 DEF UpReturns

(* The target only looks in its other steps; it goes on to verify when it    *)
(* read the exit code 0.                                                     *)
LEMMA LookingKeepsInv ==
  ASSUME AcceptanceInv, UNCHANGED <<current, atomicVars, seederVars>>,
         \/ step' = step
         \/ step' = "failed" /\ step # "demo"
         \/ step = "wait_healthy" /\ step' = "wait_seeder"
         \/ step = "wait_seeder" /\ step' = "exit_code"
         \/ step = "exit_code" /\ step' = "verify" /\ \A r \in current : spc[r] = "exit0"
  PROVE  AcceptanceInv'
<1> USE DEF AcceptanceInv
<1>1. /\ rows' = rows /\ answer' = answer /\ spc' = spc /\ sent' = sent /\ sentinel' = sentinel
      /\ current' = current
  BY DEF atomicVars, seederVars
<1>2. SeederInv'
  BY <1>1 DEF SeederInv, SeederTypeOK, Stored, Has, Unfailed, Running
<1>3. step' # "demo" => step # "demo"
  OBVIOUS
<1>4. EarlierRunsAreOver' /\ OnlyCurrentStores'
  BY <1>1, <1>3 DEF EarlierRunsAreOver, OnlyCurrentStores, RowsOf
<1> QED
  BY <1>1, <1>2, <1>3, <1>4 DEF Waited, Over

(* Every step of the target and of the containers keeps the invariant.       *)
LEMMA AcceptanceNextKeepsInv ==
  ASSUME AcceptanceInv, [AcceptanceNext]_vars
  PROVE  AcceptanceInv'
<1>1. CASE UNCHANGED vars
  BY <1>1, LookingKeepsInv DEF vars, acceptanceVars
<1>2. CASE Containers
  BY <1>2, ContainersKeepInv
<1>3. CASE Reset
  BY <1>3, ResetKeepsInv
<1>4. CASE UpReturns
  BY <1>4, UpReturnsKeepsInv
<1>5. CASE Up \/ ProbeSucceeds \/ ProbesFail
  BY <1>5, LookingKeepsInv DEF Up, ProbeSucceeds, ProbesFail
<1>6. CASE WaitHealthy
  BY <1>6, LookingKeepsInv DEF WaitHealthy
<1>7. CASE Poll
  BY <1>7, LookingKeepsInv DEF Poll
<1>8. CASE ExitCode
  BY <1>8, LookingKeepsInv DEF ExitCode
<1> QED
  BY <1>1, <1>2, <1>3, <1>4, <1>5, <1>6, <1>7, <1>8 DEF AcceptanceNext, Target

(* The inductive invariant of make acceptance.                               *)
THEOREM AcceptanceInvariant == AcceptanceSafety => []AcceptanceInv
<1>1. AcceptanceInit => AcceptanceInv
  BY AcceptanceInitInv
<1>2. AcceptanceInv /\ [AcceptanceNext]_vars => AcceptanceInv'
  BY AcceptanceNextKeepsInv
<1> QED
  BY <1>1, <1>2, PTL DEF AcceptanceSafety

(* verify.sh meets one copy of the seed, all of it, and the POST is over.    *)
THEOREM VerifyMeetsOneSeed == AcceptanceSafety => []VerifySeesOneSeed
<1>1. AcceptanceInv => VerifySeesOneSeed
  <2> SUFFICES ASSUME AcceptanceInv, step = "verify"
               PROVE  \E r \in current : answer[r] = "created" /\ rows = RowsOf(r)
    BY DEF VerifySeesOneSeed
  <2>1. PICK r \in current : \A s \in current : s = r
    BY DEF AcceptanceInv, Waited
  <2>2. r \in Batches /\ answer[r] = "created"
    BY <2>1 DEF AcceptanceInv
  <2>3. Has(r)
    BY <2>2 DEF AcceptanceInv, SeederInv
  <2>4. rows # <<>>
    BY <2>3 DEF Has
  <2>5. rows = RowsOf(r)
    BY <2>1, <2>4 DEF AcceptanceInv, OnlyCurrentStores
  <2> QED
    BY <2>1, <2>2, <2>5
<1> QED
  BY <1>1, AcceptanceInvariant, PTL

(* What the seeder promises holds all along, down -v included: a marked      *)
(* volume holds a seed, an exit code of 0 means a seed is there, and the     *)
(* copies beyond the first are those of failed runs.                         *)
THEOREM AcceptanceKeepsSeederPromises ==
  AcceptanceSafety => [](SentinelMeansSeeded /\ ExitZeroMeansSeeded /\ ExtraCopiesAreFailures)
<1>1. AcceptanceInv => SentinelMeansSeeded /\ ExitZeroMeansSeeded
  BY DEF AcceptanceInv, SeederInv, SentinelMeansSeeded, ExitZeroMeansSeeded
<1>2. AcceptanceInv => ExtraCopiesAreFailures
  BY ExtraCopiesFailed DEF AcceptanceInv
<1> QED
  BY <1>1, <1>2, AcceptanceInvariant, PTL
=============================================================================
