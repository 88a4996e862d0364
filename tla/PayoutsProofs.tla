--------------------------- MODULE PayoutsProofs ---------------------------
(***************************************************************************)
(* Proofs about Payouts, for every set of rows, number of workers, amount, *)
(* and limit of attempts and of runs of a job.                             *)
(***************************************************************************)
EXTENDS Payouts, FiniteSetTheorems, SequenceTheorems, TLAPS

RowType == [status : {"NONE", "PENDING", "HELD", "PAID"},
            attempts : 0 .. AttemptCap + Cardinality(Workers),
            payout : Int]

JobType == [st : {"none", "waiting", "active", "kept"},
            runs : 0 .. JobRuns, stalled : BOOLEAN]

-----------------------------------------------------------------------------
(* Counting the calls that failed *)

\* The number of failed calls of a row is at most the number of workers.
LEMMA FailedFinite ==
    ASSUME NEW r \in Rows
    PROVE  /\ IsFiniteSet(Failed(r))
           /\ Cardinality(Failed(r)) \in Nat
           /\ Cardinality(Workers) \in Nat
           /\ Cardinality(Failed(r)) <= Cardinality(Workers)
<1>1. Failed(r) \subseteq Workers /\ IsFiniteSet(Workers)
    BY PayoutsAssumption DEF Failed
<1> QED BY <1>1, FS_Subset, FS_CardinalityType

\* The same after a step.
LEMMA FailedFiniteNext ==
    ASSUME NEW r \in Rows
    PROVE  /\ IsFiniteSet(Failed(r)')
           /\ Cardinality(Failed(r)') \in Nat
           /\ Cardinality(Failed(r)') <= Cardinality(Workers)
<1>1. Failed(r)' \subseteq Workers /\ IsFiniteSet(Workers)
    BY PayoutsAssumption DEF Failed
<1> QED BY <1>1, FS_Subset, FS_CardinalityType

\* No call of a row fails in a step: their number does not grow.
LEMMA FailedShrinks ==
    ASSUME NEW r \in Rows, Failed(r)' \subseteq Failed(r)
    PROVE  Cardinality(Failed(r)') <= Cardinality(Failed(r))
BY FailedFinite, FS_Subset

\* A failed call of a row ends: their number goes down by one.
LEMMA FailedEnds ==
    ASSUME NEW r \in Rows, NEW c \in Failed(r), Failed(r)' = Failed(r) \ {c}
    PROVE  Cardinality(Failed(r)') = Cardinality(Failed(r)) - 1
BY FailedFinite, FS_RemoveElement

-----------------------------------------------------------------------------
(* The invariant, opened for one row and one call *)

\* What IInv says of one row.
LEMMA RowKnown ==
    ASSUME IInv, NEW r \in Rows
    PROVE  /\ rows = [s \in Rows |-> rows[s]] /\ rows[r] \in RowType
           /\ job = [s \in Rows |-> job[s]] /\ job[r] \in JobType
           /\ credits = [s \in Rows |-> credits[s]] /\ credits[r] \in Seq(Nat \ {0})
           /\ fails = [s \in Rows |-> fails[s]] /\ fails[r] \in Nat
           /\ rows[r].payout >= LowestPayout
           /\ rows[r].attempts \in Nat
           /\ rows[r].attempts + Cardinality(Failed(r)) <= AttemptCap + Cardinality(Workers)
BY FailedFinite, PayoutsAssumption
   DEF IInv, TypeOK, FailuresCounted, RowType, JobType

\* What IInv says of one call that runs.
LEMMA CallKnown ==
    ASSUME IInv, NEW c \in Workers
    PROVE  /\ call = [d \in Workers |-> call[d]] /\ call[c] \in Call \cup {NoCall}
           /\ call[c].pc # "idle" => /\ call[c] \in Call
                                     /\ call[c].row \in Rows
                                     /\ call[c].owns \in BOOLEAN
BY DEF IInv, TypeOK, Call, NoCall

-----------------------------------------------------------------------------
\* The initial state has no row, no job and no call.
LEMMA InvInit == Init => IInv
<1> SUFFICES ASSUME Init PROVE IInv
    OBVIOUS
<1>1. Cardinality(Workers) \in Nat
    BY PayoutsAssumption, FS_CardinalityType
<1>2. TypeOK
    <2>1. NoRow \in RowType /\ NoJob \in JobType
        BY <1>1, PayoutsAssumption DEF NoRow, NoJob, RowType, JobType
    <2>2. NoRow.payout >= LowestPayout
        BY PayoutsAssumption DEF NoRow
    <2> QED BY <2>1, <2>2, PayoutsAssumption DEF Init, TypeOK, RowType, JobType
<1>3. CallsKnown /\ RowHeldByOne
    BY DEF Init, CallsKnown, RowHeldByOne, NoCall
<1>4. JobsKnown /\ RetriesBounded /\ PaidOnce
    BY PayoutsAssumption DEF Init, JobsKnown, RetriesBounded, PaidOnce, NoJob, NoRow
<1>5. FailuresCounted
    <2> USE DEF FailuresCounted
    <2> TAKE r \in Rows
    <2>1. rows[r].attempts = 0 /\ rows[r].status = "NONE" /\ fails[r] = 0
        BY DEF Init, NoRow
    <2>2. 0 + Cardinality(Failed(r)) <= AttemptCap + Cardinality(Workers)
        BY FailedFinite, PayoutsAssumption
    <2> QED BY <2>1, <2>2, PayoutsAssumption
<1> QED BY <1>2, <1>3, <1>4, <1>5 DEF IInv

-----------------------------------------------------------------------------
(* The steps *)

\* A step that writes one row, which no payout has locked: what has to be seen
\* of the new row and of its number of failures.
LEMMA RowWrites ==
    ASSUME IInv, NEW r \in Rows, ~Locked(r), NEW row \in RowType, NEW f \in Nat,
           rows' = [rows EXCEPT ![r] = row],
           fails' = [fails EXCEPT ![r] = f],
           UNCHANGED <<job, call, credits, troubles>>,
           row.status # "NONE",
           row.status = "PAID" <=> rows[r].status = "PAID",
           row.payout >= LowestPayout,
           row.attempts \in {rows[r].attempts} \cup 0 .. AttemptCap,
           f <= row.attempts,
           row.status = "PENDING" => row.attempts <= AttemptCap /\ f < MaxAttempts
    PROVE  IInv'
<1>1. /\ \A s \in Rows : rows'[s] = IF s = r THEN row ELSE rows[s]
      /\ \A s \in Rows : fails'[s] = IF s = r THEN f ELSE fails[s]
      /\ rows' = [s \in Rows |-> rows'[s]]
      /\ fails' = [s \in Rows |-> fails'[s]]
    BY RowKnown
<1>2. TypeOK'
    BY <1>1, RowKnown DEF IInv, TypeOK, RowType, JobType
<1>3. \A c \in Workers : call[c].pc # "idle" => call[c].row \in Rows
    BY CallKnown
<1>4. CallsKnown'
    BY <1>1, <1>3 DEF IInv, CallsKnown
<1>5. RowHeldByOne'
    <2>1. \A c \in Workers : call[c].pc \in {"sending", "sent"} =>
             rows'[call[c].row] = rows[call[c].row]
        BY <1>1, <1>3 DEF Locked
    <2> QED BY <2>1 DEF IInv, RowHeldByOne
<1>6. JobsKnown'
    BY <1>1 DEF IInv, JobsKnown
<1>7. FailuresCounted'
    <2> SUFFICES ASSUME NEW s \in Rows
                 PROVE  /\ fails'[s] <= rows'[s].attempts
                        /\ rows'[s].status = "NONE" => rows'[s].attempts = 0
                        /\ rows'[s].status = "PENDING" => rows'[s].attempts <= AttemptCap
                        /\ rows'[s].attempts + Cardinality(Failed(s)')
                              <= AttemptCap + Cardinality(Workers)
        BY DEF FailuresCounted
    <2>1. Failed(s)' = Failed(s)
        BY DEF Failed
    <2>2. CASE s # r
        BY <1>1, <2>1, <2>2 DEF IInv, FailuresCounted
    <2>3. CASE s = r
        <3>1. row.attempts + Cardinality(Failed(r)) <= AttemptCap + Cardinality(Workers)
            <4>1. CASE row.attempts = rows[r].attempts
                BY <4>1, RowKnown
            <4>2. CASE row.attempts \in 0 .. AttemptCap
                <5>1. row.attempts \in Nat /\ row.attempts <= AttemptCap /\ AttemptCap \in Nat
                    BY <4>2, PayoutsAssumption
                <5> QED BY <5>1, FailedFinite
            <4> QED BY <4>1, <4>2
        <3> QED BY <1>1, <2>1, <2>3, <3>1
    <2> QED BY <2>2, <2>3
<1>8. PaidOnce' /\ RetriesBounded'
    BY <1>1 DEF IInv, PaidOnce, RetriesBounded
<1> QED BY <1>2, <1>4, <1>5, <1>6, <1>7, <1>8 DEF IInv

\* A settlement, a settlement that failed, a late refund, a hold and a release.
LEMMA StepRow ==
    ASSUME IInv, NEW r \in Rows,
           \/ LateRefund(r)
           \/ \E net \in Nets : Settle(r, net)
           \/ SettlementFails(r) \/ SetHold(r) \/ ReleaseHold(r)
    PROVE  IInv'
<1>1. /\ rows[r] \in RowType /\ rows[r].payout \in Int /\ rows[r].payout >= LowestPayout
      /\ rows[r].attempts \in Nat
      /\ rows[r].attempts \in 0 .. AttemptCap + Cardinality(Workers)
      /\ fails[r] \in Nat
      /\ fails = [fails EXCEPT ![r] = fails[r]]
      /\ fails[r] <= rows[r].attempts
      /\ rows[r].status = "NONE" => rows[r].attempts = 0
      /\ rows[r].status = "PENDING" => rows[r].attempts <= AttemptCap /\ fails[r] < MaxAttempts
      /\ Cardinality(Workers) \in Nat
    BY RowKnown, FailedFinite DEF IInv, RowType, FailuresCounted, RetriesBounded
<1> USE PayoutsAssumption
<1>2. ASSUME NEW net \in Nets, Settle(r, net) PROVE IInv'
    <2> DEFINE row == Upsert(rows[r], net)
    <2>1. net \in Int /\ net >= LowestPayout
        OBVIOUS
    <2>2. /\ row \in RowType /\ row.payout = net /\ row.attempts = rows[r].attempts
          /\ row.status = IF rows[r].status = "NONE" THEN "PENDING" ELSE rows[r].status
        BY <1>1, <2>1 DEF Upsert, RowType
    <2>3. /\ rows' = [rows EXCEPT ![r] = row]
          /\ fails' = [fails EXCEPT ![r] = fails[r]]
          /\ ~Locked(r)
          /\ UNCHANGED <<job, call, credits, troubles>>
        BY <1>1, <1>2 DEF Settle
    <2> HIDE DEF row
    <2>4. CASE rows[r].status = "NONE"
        <3>1. /\ row.status = "PENDING" /\ row.attempts = rows[r].attempts
              /\ row.attempts <= AttemptCap /\ fails[r] <= row.attempts
              /\ fails[r] < MaxAttempts
            BY <1>1, <2>2, <2>4
        <3> QED BY <1>1, <2>1, <2>2, <2>3, <2>4, <3>1, RowWrites
    <2>5. CASE rows[r].status # "NONE"
        BY <1>1, <2>1, <2>2, <2>3, <2>5, RowWrites
    <2> QED BY <2>4, <2>5
<1>3. CASE SettlementFails(r)
    <2> DEFINE row == [rows[r] EXCEPT !.attempts = @ + 1]
    <2>1. rows[r].attempts + 1 \in 0 .. AttemptCap
        BY <1>1, <1>3 DEF SettlementFails
    <2>2. /\ row \in RowType /\ row.payout = rows[r].payout
          /\ row.attempts = rows[r].attempts + 1 /\ row.status = rows[r].status
        BY <1>1, <2>1 DEF RowType
    <2>3. /\ rows' = [rows EXCEPT ![r] = row]
          /\ fails' = [fails EXCEPT ![r] = fails[r]]
          /\ ~Locked(r) /\ rows[r].status # "NONE"
          /\ UNCHANGED <<job, call, credits, troubles>>
        BY <1>1, <1>3, RowKnown DEF SettlementFails
    <2> HIDE DEF row
    <2>4. /\ row.attempts \in 0 .. AttemptCap /\ row.attempts <= AttemptCap
          /\ fails[r] <= row.attempts
          /\ row.payout >= LowestPayout
          /\ row.status = "PENDING" => fails[r] < MaxAttempts
        BY <1>1, <2>1, <2>2
    <2> QED BY <1>1, <2>2, <2>3, <2>4, RowWrites
<1>4. CASE LateRefund(r)
    <2> DEFINE row == [rows[r] EXCEPT !.payout = @ - 1]
    <2>1. rows[r].payout - 1 \in Int /\ rows[r].payout - 1 >= LowestPayout
        BY <1>1, <1>4 DEF LateRefund
    <2>2. /\ row \in RowType /\ row.payout = rows[r].payout - 1
          /\ row.attempts = rows[r].attempts /\ row.status = rows[r].status
        BY <1>1, <2>1 DEF RowType
    <2>3. /\ rows' = [rows EXCEPT ![r] = row]
          /\ fails' = [fails EXCEPT ![r] = fails[r]]
          /\ ~Locked(r) /\ rows[r].status # "NONE"
          /\ UNCHANGED <<job, call, credits, troubles>>
        BY <1>1, <1>4, RowKnown DEF LateRefund
    <2> HIDE DEF row
    <2> QED BY <1>1, <2>1, <2>2, <2>3, RowWrites
<1>5. CASE SetHold(r)
    <2> DEFINE row == [rows[r] EXCEPT !.status = "HELD"]
    <2>1. /\ row \in RowType /\ row.payout = rows[r].payout
          /\ row.attempts = rows[r].attempts /\ row.status = "HELD"
        BY <1>1 DEF RowType
    <2>2. /\ rows' = [rows EXCEPT ![r] = row]
          /\ fails' = [fails EXCEPT ![r] = fails[r]]
          /\ ~Locked(r) /\ rows[r].status = "PENDING"
          /\ UNCHANGED <<job, call, credits, troubles>>
        BY <1>1, <1>5, RowKnown DEF SetHold
    <2> HIDE DEF row
    <2> QED BY <1>1, <2>1, <2>2, RowWrites
<1>6. CASE ReleaseHold(r)
    <2> DEFINE row == [rows[r] EXCEPT !.status = "PENDING"]
    <2>1. /\ row \in RowType /\ row.payout = rows[r].payout
          /\ row.attempts = rows[r].attempts /\ row.status = "PENDING"
        BY <1>1 DEF RowType
    <2>2. /\ rows' = [rows EXCEPT ![r] = row]
          /\ fails' = [fails EXCEPT ![r] = 0]
          /\ ~Locked(r) /\ rows[r].status = "HELD" /\ rows[r].attempts < AttemptCap
          /\ UNCHANGED <<job, call, credits, troubles>>
        BY <1>1, <1>6, RowKnown DEF ReleaseHold
    <2> HIDE DEF row
    <2>3. rows[r].attempts <= AttemptCap /\ 0 < MaxAttempts /\ 0 <= rows[r].attempts
        BY <1>1, <2>2
    <2> QED BY <1>1, <2>1, <2>2, <2>3, RowWrites
<1> QED BY <1>2, <1>3, <1>4, <1>5, <1>6

\* The queue: a job is queued for a row that is PENDING, forgotten when it is
\* done, and taken by one call.
LEMMA StepQueue ==
    ASSUME IInv, NEW r \in Rows, QueueStep(r)
    PROVE  IInv'
<1> USE PayoutsAssumption
<1>1. /\ job[r] \in JobType /\ rows[r] \in RowType
      /\ UNCHANGED <<rows, credits, fails, troubles>>
    BY RowKnown DEF QueueStep, Enqueue, ForgetJob, Take
<1>2. /\ job' \in [Rows -> JobType]
      /\ \A s \in Rows : s # r => job'[s] = job[s]
      /\ job'[r].st # "none" => rows[r].status # "NONE"
      /\ job'[r].st # "kept" => job'[r].runs < JobRuns
    <2>1. CASE Enqueue(r)
        <3> DEFINE j == [job[r] EXCEPT !.st = "waiting"]
        <3>1. j \in JobType /\ j.st = "waiting" /\ j.runs = job[r].runs
            BY <1>1 DEF JobType
        <3>2. job' = [job EXCEPT ![r] = j] /\ job[r].st = "none" /\ rows[r].status = "PENDING"
            BY <2>1, RowKnown DEF Enqueue
        <3> HIDE DEF j
        <3>3. job[r].runs < JobRuns
            BY <3>2 DEF IInv, JobsKnown
        <3> QED BY <3>1, <3>2, <3>3, RowKnown
    <2>2. CASE ForgetJob(r)
        BY <1>1, <2>2, RowKnown DEF ForgetJob, JobType, NoJob
    <2>3. CASE \E c \in Workers : Take(c, r)
        <3> DEFINE j == [job[r] EXCEPT !.st = "active"]
        <3>1. j \in JobType /\ j.st = "active" /\ j.runs = job[r].runs
            BY <1>1 DEF JobType
        <3>2. job' = [job EXCEPT ![r] = j] /\ job[r].st = "waiting"
            BY <2>3, RowKnown DEF Take
        <3> HIDE DEF j
        <3>3. job[r].runs < JobRuns /\ rows[r].status # "NONE"
            BY <3>2 DEF IInv, JobsKnown
        <3> QED BY <3>1, <3>2, <3>3, RowKnown
    <2> QED BY <2>1, <2>2, <2>3 DEF QueueStep
<1>3. JobsKnown'
    BY <1>1, <1>2 DEF IInv, JobsKnown
<1>4. /\ call' \in [Workers -> Call \cup {NoCall}]
      /\ \A c \in Workers : \/ call'[c] = call[c]
                            \/ /\ call[c].pc = "idle" /\ Take(c, r)
                               /\ call'[c] = [pc |-> "begun", row |-> r, owns |-> TRUE,
                                              amount |-> 0]
    <2>1. call \in [Workers -> Call \cup {NoCall}]
        BY DEF IInv, TypeOK
    <2>2. CASE UNCHANGED call
        BY <2>1, <2>2
    <2>3. ASSUME NEW c \in Workers, Take(c, r) PROVE <1>4
        <3>1. [pc |-> "begun", row |-> r, owns |-> TRUE, amount |-> 0] \in Call
            BY DEF Call
        <3> QED BY <2>1, <2>3, <3>1 DEF Take
    <2> QED BY <2>2, <2>3 DEF QueueStep, Enqueue, ForgetJob
<1>5. CallsKnown'
    <2>1. \A c \in Workers : call[c].pc # "idle" /\ call[c].owns => call[c].row # r
        BY CallKnown
           DEF IInv, CallsKnown, QueueStep, Enqueue, ForgetJob, Take
    <2>2. \A c, d \in Workers : Take(c, r) /\ d # c => call'[d] = call[d]
        BY CallKnown DEF Take
    <2> SUFFICES ASSUME NEW c \in Workers, call'[c].pc # "idle"
                 PROVE  /\ rows'[call'[c].row].status # "NONE"
                        /\ call'[c].owns =>
                              /\ job'[call'[c].row].st = "active"
                              /\ \A d \in Workers : call'[d].pc # "idle" =>
                                    (call'[d].owns /\ call'[d].row = call'[c].row => d = c)
        BY DEF CallsKnown
    <2>3. CASE Take(c, r)
        <3>1. /\ job'[r].st = "active" /\ job[r].st = "waiting"
              /\ call'[c] = [pc |-> "begun", row |-> r, owns |-> TRUE, amount |-> 0]
            BY <1>1, <2>3, RowKnown, CallKnown DEF Take, JobType
        <3>2. rows'[r].status # "NONE"
            BY <1>1, <3>1 DEF IInv, JobsKnown
        <3> QED BY <2>1, <2>2, <2>3, <3>1, <3>2
    <2>4. CASE call'[c] = call[c]
        <3>1. rows'[call[c].row].status # "NONE"
            BY <1>1, <2>4 DEF IInv, CallsKnown
        <3>2. call[c].row \in Rows
            BY <2>4, CallKnown
        <3>3. call[c].owns => call[c].row # r /\ job'[call[c].row].st = "active"
            BY <1>2, <2>1, <2>4, <3>2 DEF IInv, CallsKnown
        <3>4. ASSUME NEW d \in Workers, call'[d].pc # "idle", call[c].owns,
                     call'[d].owns, call'[d].row = call[c].row
              PROVE  d = c
            <4>1. call'[d] = call[d]
                BY <1>4, <3>3, <3>4
            <4> QED BY <2>4, <3>4, <4>1 DEF IInv, CallsKnown
        <3> QED BY <2>4, <3>1, <3>3, <3>4
    <2> QED BY <1>4, <2>3, <2>4
<1>6. RowHeldByOne'
    <2>1. \A c \in Workers : call'[c].pc \in {"sending", "sent"} => call'[c] = call[c]
        BY <1>4
    <2> QED BY <1>1, <2>1 DEF IInv, RowHeldByOne
<1>7. FailuresCounted'
    <2> SUFFICES ASSUME NEW s \in Rows
                 PROVE  rows[s].attempts + Cardinality(Failed(s)')
                           <= AttemptCap + Cardinality(Workers)
        BY <1>1 DEF IInv, FailuresCounted
    <2>1. Failed(s)' \subseteq Failed(s)
        BY <1>4 DEF Failed
    <2>2. Cardinality(Failed(s)') <= Cardinality(Failed(s))
        BY <2>1, FailedShrinks
    <2>3. /\ rows[s].attempts \in Nat
          /\ rows[s].attempts + Cardinality(Failed(s)) <= AttemptCap + Cardinality(Workers)
        BY RowKnown
    <2>4. /\ Cardinality(Failed(s)) \in Nat /\ Cardinality(Failed(s)') \in Nat
          /\ Cardinality(Workers) \in Nat
        BY FailedFinite, FailedFiniteNext
    <2> QED BY <2>2, <2>3, <2>4
<1>8. TypeOK'
    BY <1>1, <1>2, <1>4 DEF IInv, TypeOK, JobType
<1>9. PaidOnce' /\ RetriesBounded'
    BY <1>1 DEF IInv, PaidOnce, RetriesBounded
<1> QED BY <1>3, <1>5, <1>6, <1>7, <1>8, <1>9 DEF IInv

\* A step of one call, seen from the queue: the call ends or stays on its row,
\* and writes the job only if it owns it and then does not any more.
LEMMA QueueFrame ==
    ASSUME IInv, NEW c \in Workers, call[c].pc # "idle",
           NEW k \in Call \cup {NoCall}, call' = [call EXCEPT ![c] = k],
           k.pc # "idle" => k.row = call[c].row /\ (k.owns => call[c].owns),
           \/ job' = job
           \/ \E j \in JobType : /\ call[c].owns
                                 /\ k.pc # "idle" => ~ k.owns
                                 /\ job' = [job EXCEPT ![call[c].row] = j]
                                 /\ j.st \in {"waiting", "kept"}
                                 /\ j.st = "waiting" => j.runs < JobRuns,
           \A r \in Rows : rows[r].status # "NONE" => rows'[r].status # "NONE"
    PROVE  /\ CallsKnown' /\ JobsKnown'
           /\ job' \in [Rows -> JobType] /\ call' \in [Workers -> Call \cup {NoCall}]
<1> DEFINE r == call[c].row
<1>1. r \in Rows /\ rows[r].status # "NONE"
    BY CallKnown DEF IInv, CallsKnown
<1>2. /\ job \in [Rows -> JobType]
      /\ call \in [Workers -> Call \cup {NoCall}]
    BY DEF IInv, TypeOK, JobType
<1>3. /\ call' \in [Workers -> Call \cup {NoCall}]
      /\ \A d \in Workers : call'[d] = IF d = c THEN k ELSE call[d]
    BY <1>2
<1>4. /\ job' \in [Rows -> JobType]
      /\ \A s \in Rows : s # r => job'[s] = job[s]
      /\ job'[r] # job[r] => call[c].owns /\ (k.pc # "idle" => ~ k.owns)
      /\ job'[r].st # "kept" => job'[r].runs < JobRuns
    <2>1. CASE job' = job
        BY <1>1, <1>2, <2>1 DEF IInv, JobsKnown
    <2>2. ASSUME NEW j \in JobType, call[c].owns, k.pc # "idle" => ~ k.owns,
                 job' = [job EXCEPT ![r] = j],
                 j.st \in {"waiting", "kept"}, j.st = "waiting" => j.runs < JobRuns
          PROVE  <1>4
        BY <1>1, <1>2, <2>2
    <2> QED BY <2>1, <2>2
<1>5. JobsKnown'
    BY <1>1, <1>4 DEF IInv, JobsKnown
<1>6. ASSUME NEW d \in Workers, call'[d].pc # "idle"
      PROVE  /\ call[d].pc # "idle" /\ call[d].row \in Rows
             /\ call'[d].row = call[d].row
             /\ call'[d].owns => call[d].owns
    <2>1. call[d].pc # "idle" => call[d].row \in Rows
        BY CallKnown
    <2> QED BY <1>3, <1>6, <2>1
<1>7. CallsKnown'
    <2> SUFFICES ASSUME NEW d \in Workers, call'[d].pc # "idle"
                 PROVE  /\ rows'[call'[d].row].status # "NONE"
                        /\ call'[d].owns =>
                              /\ job'[call'[d].row].st = "active"
                              /\ \A e \in Workers : call'[e].pc # "idle" =>
                                    (call'[e].owns /\ call'[e].row = call'[d].row => e = d)
        BY DEF CallsKnown
    <2>1. rows'[call'[d].row].status # "NONE"
        BY <1>6 DEF IInv, CallsKnown
    <2>2. ASSUME call'[d].owns PROVE job'[call'[d].row].st = "active"
        <3>1. job[call[d].row].st = "active"
            BY <1>6, <2>2 DEF IInv, CallsKnown
        <3>2. CASE job'[call[d].row] = job[call[d].row]
            BY <1>6, <3>1, <3>2
        <3>3. CASE job'[call[d].row] # job[call[d].row]
            <4>1. call[d].row = r /\ call[c].owns
                BY <1>4, <1>6, <3>3
            <4>2. d = c
                BY <1>6, <2>2, <4>1 DEF IInv, CallsKnown
            <4> QED BY <1>3, <1>4, <2>2, <3>3, <4>1, <4>2
        <3> QED BY <3>2, <3>3
    <2>3. ASSUME call'[d].owns, NEW e \in Workers, call'[e].pc # "idle", call'[e].owns,
                 call'[e].row = call'[d].row
          PROVE  e = d
        BY <1>6, <2>3 DEF IInv, CallsKnown
    <2> QED BY <2>1, <2>2, <2>3
<1> QED BY <1>3, <1>4, <1>5, <1>7

\* A step of one call, seen from the row locks: it takes a lock only when the
\* row has none, and leaves the rows that others have locked alone.
LEMMA LockFrame ==
    ASSUME IInv, NEW c \in Workers, NEW k, call' = [call EXCEPT ![c] = k],
           k.pc \in {"sending", "sent"} =>
              /\ k.row = call[c].row
              /\ call[c].pc \in {"sending", "sent"} \/ ~Locked(k.row)
              /\ rows'[k.row].status = "PENDING"
              /\ rows'[k.row].payout = k.amount,
           \A d \in Workers : d # c /\ call[d].pc \in {"sending", "sent"} =>
              rows'[call[d].row] = rows[call[d].row]
    PROVE  RowHeldByOne'
<1>1. \A d \in Workers : call'[d] = IF d = c THEN k ELSE call[d]
    BY CallKnown
<1>2. SUFFICES ASSUME NEW d \in Workers, call'[d].pc \in {"sending", "sent"}
               PROVE  /\ rows'[call'[d].row].status = "PENDING"
                      /\ rows'[call'[d].row].payout = call'[d].amount
                      /\ \A e \in Workers : call'[e].pc \in {"sending", "sent"} =>
                            (call'[e].row = call'[d].row => e = d)
    BY DEF RowHeldByOne
<1>3. CASE d = c
    BY <1>1, <1>2, <1>3 DEF IInv, RowHeldByOne, Locked
<1>4. CASE d # c
    BY <1>1, <1>2, <1>4 DEF IInv, RowHeldByOne, Locked
<1> QED BY <1>3, <1>4

\* No row is written and no call fails: the counts are kept.
LEMMA CountsKept ==
    ASSUME IInv, UNCHANGED <<rows, fails>>,
           \A c \in Workers : call'[c].pc = "failed" =>
              call[c].pc = "failed" /\ call'[c].row = call[c].row
    PROVE  FailuresCounted'
<1> SUFFICES ASSUME NEW s \in Rows
             PROVE  rows[s].attempts + Cardinality(Failed(s)')
                       <= AttemptCap + Cardinality(Workers)
    BY DEF IInv, FailuresCounted
<1>1. Failed(s)' \subseteq Failed(s)
    BY DEF Failed
<1>2. Cardinality(Failed(s)') <= Cardinality(Failed(s))
    BY <1>1, FailedShrinks
<1>3. /\ rows[s].attempts \in Nat
      /\ rows[s].attempts + Cardinality(Failed(s)) <= AttemptCap + Cardinality(Workers)
    BY RowKnown
<1>4. /\ Cardinality(Failed(s)) \in Nat /\ Cardinality(Failed(s)') \in Nat
      /\ Cardinality(Workers) \in Nat
    BY FailedFinite, FailedFiniteNext
<1> QED BY <1>2, <1>3, <1>4, PayoutsAssumption

\* A call locks its row, or the bank answers it.
LEMMA StepBank ==
    ASSUME IInv, NEW c \in Workers, Start(c) \/ \E accepted \in BOOLEAN : Disburse(c, accepted)
    PROVE  IInv'
<1>1. /\ call[c].pc # "idle" /\ call[c] \in Call /\ call[c].row \in Rows
      /\ UNCHANGED <<rows, job, credits, fails, troubles>>
      /\ rows[call[c].row].payout \in Int
    BY CallKnown, RowKnown DEF Start, Disburse, RowType
<1>0. \E k \in Call :
         /\ call' = [call EXCEPT ![c] = k]
         /\ k.row = call[c].row /\ k.owns = call[c].owns
         /\ \/ /\ k.pc = "sending" /\ ~Locked(k.row) /\ rows[k.row].status = "PENDING"
               /\ k.amount = rows[k.row].payout
            \/ /\ k.pc \in {"sent", "failed"} /\ call[c].pc = "sending"
               /\ k.amount = call[c].amount
    <2>1. CASE Start(c)
        <3> DEFINE k == [call[c] EXCEPT !.pc = "sending", !.amount = rows[call[c].row].payout]
        <3>1. /\ k \in Call /\ k.pc = "sending" /\ k.amount = rows[call[c].row].payout
              /\ k.row = call[c].row /\ k.owns = call[c].owns
            BY <1>1 DEF Call
        <3>2. call' = [call EXCEPT ![c] = k]
            BY <2>1, CallKnown DEF Start
        <3>3. ~Locked(call[c].row) /\ rows[call[c].row].status = "PENDING"
            BY <2>1 DEF Start
        <3> HIDE DEF k
        <3> QED BY <3>1, <3>2, <3>3
    <2>2. ASSUME NEW accepted \in BOOLEAN, Disburse(c, accepted) PROVE <1>0
        <3> DEFINE pc == IF accepted THEN "sent" ELSE "failed"
                   k == [call[c] EXCEPT !.pc = pc]
        <3>0. pc \in {"sent", "failed"}
            OBVIOUS
        <3> HIDE DEF pc
        <3>1. /\ k \in Call /\ k.pc = pc /\ k.amount = call[c].amount
              /\ k.row = call[c].row /\ k.owns = call[c].owns
            BY <1>1, <3>0 DEF Call
        <3>2. call' = [call EXCEPT ![c] = k] /\ call[c].pc = "sending"
            BY <2>2, CallKnown DEF Disburse, pc
        <3> HIDE DEF k
        <3> QED BY <3>0, <3>1, <3>2
    <2> QED BY <2>1, <2>2
<1>2. PICK k \in Call :
         /\ call' = [call EXCEPT ![c] = k]
         /\ k.row = call[c].row /\ k.owns = call[c].owns
         /\ \/ /\ k.pc = "sending" /\ ~Locked(k.row) /\ rows[k.row].status = "PENDING"
               /\ k.amount = rows[k.row].payout
            \/ /\ k.pc \in {"sent", "failed"} /\ call[c].pc = "sending"
               /\ k.amount = call[c].amount
    BY <1>0
<1>3. /\ CallsKnown' /\ JobsKnown'
      /\ job' \in [Rows -> JobType] /\ call' \in [Workers -> Call \cup {NoCall}]
    BY <1>1, <1>2, QueueFrame
<1>4. RowHeldByOne'
    <2>1. call[c].pc = "sending" => /\ rows[call[c].row].status = "PENDING"
                                    /\ rows[call[c].row].payout = call[c].amount
        BY DEF IInv, RowHeldByOne
    <2> QED BY <1>1, <1>2, <2>1, LockFrame
<1>5. TypeOK'
    BY <1>1, <1>3 DEF IInv, TypeOK, JobType
<1>6. FailuresCounted'
    <2>1. CASE k.pc # "failed"
        <3>1. \A d \in Workers : call'[d].pc = "failed" =>
                 call[d].pc = "failed" /\ call'[d].row = call[d].row
            BY <1>2, <2>1, CallKnown
        <3> QED BY <1>1, <3>1, CountsKept
    <2>2. CASE k.pc = "failed"
        <3> SUFFICES ASSUME NEW s \in Rows
                     PROVE  rows[s].attempts + Cardinality(Failed(s)')
                               <= AttemptCap + Cardinality(Workers)
            BY <1>1 DEF IInv, FailuresCounted
        <3>1. CASE s = call[c].row
            <4>1. rows[s].status = "PENDING" /\ rows[s].attempts <= AttemptCap
                BY <1>2, <2>2, <3>1 DEF IInv, RowHeldByOne, FailuresCounted
            <4> QED BY <4>1, FailedFiniteNext, FailedFinite, RowKnown, PayoutsAssumption
        <3>2. CASE s # call[c].row
            <4>1. Failed(s)' = Failed(s)
                BY <1>2, <3>2, CallKnown DEF Failed
            <4> QED BY <4>1, RowKnown
        <3> QED BY <3>1, <3>2
    <2> QED BY <2>1, <2>2
<1>7. PaidOnce' /\ RetriesBounded'
    BY <1>1 DEF IInv, PaidOnce, RetriesBounded
<1> QED BY <1>3, <1>4, <1>5, <1>6, <1>7 DEF IInv

\* A call dies or its job stalls.
LEMMA StepTrouble ==
    ASSUME IInv, NEW c \in Workers, Die(c) \/ Stall(c)
    PROVE  IInv'
<1> USE PayoutsAssumption
<1> DEFINE r == call[c].row
<1>1. /\ call[c].pc # "idle" /\ call[c] \in Call /\ r \in Rows
      /\ UNCHANGED <<rows, credits, fails>>
      /\ troubles' \in 0 .. MaxTroubles
      /\ job[r] \in JobType
      /\ call[c].owns => job[r].st = "active" /\ job[r].runs < JobRuns
    <2>1. call[c].pc # "idle" /\ UNCHANGED <<rows, credits, fails>>
        BY DEF Die, Stall
    <2>2. call[c] \in Call /\ r \in Rows
        BY <2>1, CallKnown
    <2>3. troubles' \in 0 .. MaxTroubles
        <3>1. MaxTroubles \in Nat /\ troubles \in 0 .. MaxTroubles
            BY DEF IInv, TypeOK
        <3>2. troubles < MaxTroubles /\ troubles' = troubles + 1
            BY DEF Die, Stall
        <3> QED BY <3>1, <3>2
    <2>4. job[r] \in JobType
        BY <2>2, RowKnown
    <2>5. call[c].owns => job[r].st = "active" /\ job[r].runs < JobRuns
        BY <2>1, <2>2 DEF IInv, CallsKnown, JobsKnown
    <2> QED BY <2>1, <2>2, <2>3, <2>4, <2>5
<1>2. PICK k \in Call \cup {NoCall} :
         /\ call' = [call EXCEPT ![c] = k]
         /\ \/ k = NoCall
            \/ /\ k \in Call /\ k.row = r /\ k.owns = FALSE
               /\ k.pc = call[c].pc /\ k.amount = call[c].amount
    <2>1. CASE Die(c)
        BY <2>1 DEF Die
    <2>2. CASE Stall(c)
        <3> DEFINE k == [call[c] EXCEPT !.owns = FALSE]
        <3>1. /\ k \in Call /\ k.pc = call[c].pc /\ k.amount = call[c].amount
              /\ k.row = r /\ k.owns = FALSE
            BY <1>1 DEF Call
        <3>2. call' = [call EXCEPT ![c] = k]
            BY <2>2, CallKnown DEF Stall
        <3> HIDE DEF k
        <3> QED BY <3>1, <3>2
    <2> QED BY <2>1, <2>2
<1>3. \/ job' = job
      \/ \E j \in JobType : /\ call[c].owns
                            /\ job' = [job EXCEPT ![r] = j]
                            /\ j.st \in {"waiting", "kept"}
                            /\ j.st = "waiting" => j.runs < JobRuns
    <2>1. CASE Die(c) /\ ~call[c].owns
        BY <2>1 DEF Die
    <2>2. CASE Die(c) /\ call[c].owns
        <3> DEFINE n == job[r].runs + 1
                   st == IF n < JobRuns THEN "waiting" ELSE "kept"
                   j == [job[r] EXCEPT !.runs = n, !.st = st]
        <3>1. n \in 0 .. JobRuns
            BY <1>1, <2>2 DEF JobType
        <3>2. st \in {"waiting", "kept"} /\ (st = "waiting" => n < JobRuns)
            OBVIOUS
        <3>3. job' = [job EXCEPT ![r] = j]
            BY <1>1, <2>2, RowKnown DEF Die
        <3> HIDE DEF n, st
        <3>4. j \in JobType /\ j.st = st /\ j.runs = n
            BY <1>1, <3>1, <3>2 DEF JobType
        <3> HIDE DEF j
        <3> QED BY <2>2, <3>2, <3>3, <3>4
    <2>3. CASE Stall(c)
        <3> DEFINE st == IF job[r].stalled THEN "kept" ELSE "waiting"
                   j == [job[r] EXCEPT !.st = st, !.stalled = TRUE]
        <3>1. st \in {"waiting", "kept"}
            OBVIOUS
        <3>2. job' = [job EXCEPT ![r] = j] /\ call[c].owns
            BY <1>1, <2>3, RowKnown DEF Stall
        <3> HIDE DEF st
        <3>3. j \in JobType /\ j.st = st /\ j.runs = job[r].runs
            BY <1>1, <3>1 DEF JobType
        <3> HIDE DEF j
        <3> QED BY <1>1, <3>1, <3>2, <3>3
    <2> QED BY <2>1, <2>2, <2>3
<1>4. NoCall.pc = "idle"
    BY DEF NoCall
<1>5. /\ CallsKnown' /\ JobsKnown'
      /\ job' \in [Rows -> JobType] /\ call' \in [Workers -> Call \cup {NoCall}]
    BY <1>1, <1>2, <1>3, <1>4, QueueFrame
<1>6. RowHeldByOne'
    <2>1. call[c].pc \in {"sending", "sent"} =>
             rows[r].status = "PENDING" /\ rows[r].payout = call[c].amount
        BY DEF IInv, RowHeldByOne
    <2> QED BY <1>1, <1>2, <1>4, <2>1, LockFrame
<1>7. FailuresCounted'
    <2>1. \A d \in Workers : call'[d].pc = "failed" =>
             call[d].pc = "failed" /\ call'[d].row = call[d].row
        BY <1>2, <1>4, CallKnown
    <2> QED BY <1>1, <2>1, CountsKept
<1>8. TypeOK'
    BY <1>1, <1>5 DEF IInv, TypeOK, JobType
<1>9. PaidOnce' /\ RetriesBounded'
    BY <1>1 DEF IInv, PaidOnce, RetriesBounded
<1> QED BY <1>5, <1>6, <1>7, <1>8, <1>9 DEF IInv

\* A call answers: what has to be seen of the row it leaves and of the row's
\* credits.
LEMMA AnswerFrame ==
    ASSUME IInv, NEW c \in Workers, call[c].pc # "idle",
           NEW row \in RowType, NEW f \in Nat, NEW crs \in Seq(Nat \ {0}),
           Answer(c, row),
           fails' = [fails EXCEPT ![call[c].row] = f],
           credits' = [credits EXCEPT ![call[c].row] = crs],
           UNCHANGED troubles,
           call[c].pc = "sent" \/ ~Locked(call[c].row),
           row.status # "NONE",
           row.payout >= LowestPayout,
           f <= row.attempts,
           row.status = "PENDING" => row.attempts <= AttemptCap /\ f < MaxAttempts,
           \/ row.attempts = rows[call[c].row].attempts
           \/ call[c].pc = "failed" /\ row.attempts = rows[call[c].row].attempts + 1,
           Len(crs) <= 1,
           crs # <<>> => row.status = "PAID"
    PROVE  IInv'
<1> DEFINE r == call[c].row
<1>1. /\ r \in Rows /\ call[c] \in Call /\ job[r] \in JobType
      /\ rows[r] \in RowType
    BY CallKnown, RowKnown
<1>2. /\ \A s \in Rows : rows'[s] = IF s = r THEN row ELSE rows[s]
      /\ \A s \in Rows : fails'[s] = IF s = r THEN f ELSE fails[s]
      /\ \A s \in Rows : credits'[s] = IF s = r THEN crs ELSE credits[s]
      /\ rows' = [s \in Rows |-> rows'[s]]
      /\ fails' = [s \in Rows |-> fails'[s]]
      /\ credits' = [s \in Rows |-> credits'[s]]
    BY <1>1, RowKnown DEF Answer
<1>3. call' = [call EXCEPT ![c] = NoCall] /\ NoCall.pc = "idle"
    BY DEF Answer, NoCall
<1>4. \/ job' = job
      \/ \E j \in JobType : /\ call[c].owns
                            /\ job' = [job EXCEPT ![r] = j]
                            /\ j.st = "kept"
    <2>1. CASE ~call[c].owns
        BY <2>1 DEF Answer, JobAfter
    <2>2. CASE call[c].owns
        <3> DEFINE j == [job[r] EXCEPT !.st = "kept"]
        <3>1. j \in JobType /\ j.st = "kept"
            BY <1>1 DEF JobType
        <3>2. job' = [job EXCEPT ![r] = j]
            BY <1>1, <2>2, RowKnown DEF Answer, JobAfter
        <3> HIDE DEF j
        <3> QED BY <2>2, <3>1, <3>2
    <2> QED BY <2>1, <2>2
<1>5. /\ CallsKnown' /\ JobsKnown'
      /\ job' \in [Rows -> JobType] /\ call' \in [Workers -> Call \cup {NoCall}]
    <2>1. \A s \in Rows : rows[s].status # "NONE" => rows'[s].status # "NONE"
        BY <1>2
    <2> QED BY <1>1, <1>3, <1>4, <2>1, QueueFrame
<1>6. RowHeldByOne'
    <2>1. \A d \in Workers : d # c /\ call[d].pc \in {"sending", "sent"} =>
             call[d].row \in Rows /\ call[d].row # r
        BY CallKnown DEF Locked, IInv, RowHeldByOne
    <2>2. \A d \in Workers : d # c /\ call[d].pc \in {"sending", "sent"} =>
             rows'[call[d].row] = rows[call[d].row]
        BY <1>2, <2>1
    <2> QED BY <1>3, <2>2, LockFrame
<1>7. TypeOK'
    <2>1. \A s \in Rows : /\ rows'[s] \in RowType /\ rows'[s].payout >= LowestPayout
                          /\ fails'[s] \in Nat
                          /\ credits'[s] \in Seq(Nat \ {0})
        <3> TAKE s \in Rows
        <3>1. /\ rows[s] \in RowType /\ rows[s].payout >= LowestPayout
              /\ fails[s] \in Nat
              /\ credits[s] \in Seq(Nat \ {0})
            BY RowKnown
        <3> QED BY <1>2, <3>1
    <2>2. /\ rows' \in [Rows -> RowType]
          /\ fails' \in [Rows -> Nat]
          /\ credits' \in [Rows -> Seq(Nat \ {0})]
        BY <1>2, <2>1
    <2>3. troubles' \in 0 .. MaxTroubles
        BY DEF IInv, TypeOK
    <2> QED BY <1>5, <2>1, <2>2, <2>3 DEF TypeOK, JobType, RowType
<1>8. FailuresCounted'
    <2> SUFFICES ASSUME NEW s \in Rows
                 PROVE  /\ fails'[s] <= rows'[s].attempts
                        /\ rows'[s].status = "NONE" => rows'[s].attempts = 0
                        /\ rows'[s].status = "PENDING" => rows'[s].attempts <= AttemptCap
                        /\ rows'[s].attempts + Cardinality(Failed(s)')
                              <= AttemptCap + Cardinality(Workers)
        BY DEF FailuresCounted
    <2>1. Failed(s)' \subseteq Failed(s)
        BY <1>3, CallKnown DEF Failed
    <2>2. Cardinality(Failed(s)') <= Cardinality(Failed(s))
        BY <2>1, FailedShrinks
    <2>3. /\ Cardinality(Failed(s)) \in Nat /\ Cardinality(Failed(s)') \in Nat
          /\ Cardinality(Workers) \in Nat /\ AttemptCap \in Nat
          /\ rows[s].attempts \in Nat
          /\ rows[s].attempts + Cardinality(Failed(s)) <= AttemptCap + Cardinality(Workers)
        BY FailedFinite, FailedFiniteNext, RowKnown, PayoutsAssumption
    <2>4. rows'[s].attempts + Cardinality(Failed(s)') <= AttemptCap + Cardinality(Workers)
        <3>1. CASE rows'[s].attempts = rows[s].attempts
            BY <2>2, <2>3, <3>1
        <3>2. CASE s = r /\ call[c].pc = "failed" /\ row.attempts = rows[r].attempts + 1
            <4>1. c \in Failed(s) /\ Failed(s)' = Failed(s) \ {c}
                BY <1>3, <3>2, CallKnown DEF Failed
            <4>2. Cardinality(Failed(s)') = Cardinality(Failed(s)) - 1
                BY <4>1, FailedEnds
            <4>3. rows'[s].attempts = rows[s].attempts + 1
                BY <1>2, <3>2
            <4> QED BY <2>3, <4>2, <4>3
        <3> QED BY <1>2, <3>1, <3>2
    <2> QED BY <1>2, <2>4 DEF IInv, FailuresCounted
<1>9. PaidOnce' /\ RetriesBounded'
    BY <1>2 DEF IInv, PaidOnce, RetriesBounded
<1> QED BY <1>5, <1>6, <1>7, <1>8, <1>9 DEF IInv

\* The four ways a call answers: not to be paid, no bank details, paid, failed.
LEMMA StepAnswer ==
    ASSUME IInv, NEW c \in Workers,
           NotEligible(c) \/ BankMissing(c) \/ Pay(c) \/ RecordFailure(c)
    PROVE  IInv'
<1> USE PayoutsAssumption
<1> DEFINE r == call[c].row
<1>1. /\ call[c].pc # "idle" /\ call[c] \in Call /\ r \in Rows /\ UNCHANGED troubles
    BY CallKnown DEF NotEligible, BankMissing, Pay, RecordFailure
<1>2. /\ rows[r] \in RowType /\ rows[r].payout >= LowestPayout
      /\ rows[r].attempts \in Nat
      /\ rows[r].attempts + Cardinality(Failed(r)) <= AttemptCap + Cardinality(Workers)
      /\ fails[r] \in Nat /\ fails[r] <= rows[r].attempts
      /\ fails = [fails EXCEPT ![r] = fails[r]]
      /\ credits[r] \in Seq(Nat \ {0})
      /\ credits = [credits EXCEPT ![r] = credits[r]]
      /\ Len(credits[r]) <= 1
      /\ credits[r] # <<>> => rows[r].status = "PAID"
      /\ rows[r].status # "NONE"
      /\ rows[r].status = "PENDING" => rows[r].attempts <= AttemptCap /\ fails[r] < MaxAttempts
    BY <1>1, RowKnown DEF IInv, CallsKnown, PaidOnce, FailuresCounted, RetriesBounded
<1>3. CASE NotEligible(c)
    <2>1. /\ Answer(c, rows[r]) /\ ~Locked(r)
          /\ fails' = [fails EXCEPT ![r] = fails[r]]
          /\ credits' = [credits EXCEPT ![r] = credits[r]]
        BY <1>2, <1>3 DEF NotEligible
    <2> QED BY <1>1, <1>2, <2>1, AnswerFrame
<1>4. CASE BankMissing(c)
    <2> DEFINE row == [rows[r] EXCEPT !.status = "HELD"]
    <2>1. /\ row \in RowType /\ row.payout = rows[r].payout
          /\ row.attempts = rows[r].attempts /\ row.status = "HELD"
        BY <1>2 DEF RowType
    <2>2. /\ Answer(c, row) /\ ~Locked(r) /\ rows[r].status = "PENDING"
          /\ fails' = [fails EXCEPT ![r] = fails[r]]
          /\ credits' = [credits EXCEPT ![r] = credits[r]]
        BY <1>2, <1>4 DEF BankMissing
    <2> HIDE DEF row
    <2> QED BY <1>1, <1>2, <2>1, <2>2, AnswerFrame
<1>5. CASE Pay(c)
    <2> DEFINE row == [rows[r] EXCEPT !.status = "PAID"]
               crs == IF call[c].amount > 0 THEN Append(credits[r], call[c].amount)
                      ELSE credits[r]
    <2>1. /\ row \in RowType /\ row.payout = rows[r].payout
          /\ row.attempts = rows[r].attempts /\ row.status = "PAID"
        BY <1>2 DEF RowType
    <2>2. call[c].pc = "sent" /\ rows[r].status = "PENDING" /\ credits[r] = <<>>
        BY <1>2, <1>5 DEF Pay, IInv, RowHeldByOne
    <2>3. crs \in Seq(Nat \ {0}) /\ Len(crs) <= 1
        <3>1. call[c].amount \in Int
            BY <1>1 DEF Call
        <3>2. CASE call[c].amount > 0
            <4>1. crs = Append(<<>>, call[c].amount) /\ call[c].amount \in Nat \ {0}
                BY <2>2, <3>1, <3>2
            <4>2. <<>> \in Seq(Nat \ {0}) /\ Len(<<>>) = 0
                OBVIOUS
            <4> HIDE DEF crs
            <4>3. crs \in Seq(Nat \ {0}) /\ Len(crs) = Len(<<>>) + 1
                BY <4>1, <4>2, AppendProperties
            <4> QED BY <4>2, <4>3
        <3>3. CASE ~(call[c].amount > 0)
            BY <2>2, <3>3
        <3> QED BY <3>2, <3>3
    <2>4. /\ Answer(c, row)
          /\ fails' = [fails EXCEPT ![r] = fails[r]]
          /\ credits' = [credits EXCEPT ![r] = crs]
        BY <1>2, <1>5 DEF Pay
    <2> HIDE DEF row, crs
    <2> QED BY <1>1, <1>2, <2>1, <2>2, <2>3, <2>4, AnswerFrame
<1>6. CASE RecordFailure(c)
    <2> DEFINE n == rows[r].attempts + 1
               st == IF n >= MaxAttempts /\ rows[r].status = "PENDING" THEN "HELD"
                     ELSE rows[r].status
               row == [rows[r] EXCEPT !.attempts = n, !.status = st]
    <2>1. call[c].pc = "failed" /\ ~Locked(r)
        BY <1>6 DEF RecordFailure
    <2>2. n \in 0 .. (AttemptCap + Cardinality(Workers))
        <3>1. c \in Failed(r)
            BY <2>1 DEF Failed
        <3>2. Cardinality(Failed(r) \ {c}) = Cardinality(Failed(r)) - 1
              /\ Cardinality(Failed(r) \ {c}) \in Nat
            BY <1>1, <3>1, FailedFinite, FS_RemoveElement, FS_CardinalityType
        <3>3. Cardinality(Failed(r)) \in Nat /\ Cardinality(Workers) \in Nat
            BY <1>1, FailedFinite
        <3>4. AttemptCap \in Nat
            OBVIOUS
        <3>5. /\ rows[r].attempts \in Nat
              /\ rows[r].attempts + Cardinality(Failed(r)) <= AttemptCap + Cardinality(Workers)
            BY <1>2
        <3>6. Cardinality(Failed(r)) >= 1
            BY <3>2, <3>3
        <3> HIDE DEF r
        <3>7. rows[r].attempts + 1 \in Nat
              /\ rows[r].attempts + 1 <= AttemptCap + Cardinality(Workers)
            BY <3>3, <3>4, <3>5, <3>6
        <3> QED BY <3>3, <3>4, <3>7
    <2>3. /\ st \in {"NONE", "PENDING", "HELD", "PAID"} /\ st # "NONE"
          /\ st = "PENDING" => n < MaxAttempts
          /\ st = "PAID" <=> rows[r].status = "PAID"
        BY <1>2 DEF RowType
    <2>4. Answer(c, row) /\ fails' = [fails EXCEPT ![r] = fails[r] + 1]
          /\ credits' = [credits EXCEPT ![r] = credits[r]]
        BY <1>2, <1>6 DEF RecordFailure
    <2> HIDE DEF st
    <2>5. row \in RowType /\ row.payout = rows[r].payout /\ row.attempts = n /\ row.status = st
        BY <1>2, <2>2, <2>3 DEF RowType
    <2> HIDE DEF row
    <2>6. /\ fails[r] + 1 \in Nat /\ fails[r] + 1 <= row.attempts
          /\ row.status = "PENDING" => row.attempts <= AttemptCap /\ fails[r] + 1 < MaxAttempts
        BY <1>2, <2>3, <2>5
    <2> QED BY <1>1, <1>2, <2>1, <2>3, <2>4, <2>5, <2>6, AnswerFrame
<1> QED BY <1>3, <1>4, <1>5, <1>6

-----------------------------------------------------------------------------
(* The theorems *)

\* A step that changes nothing keeps the invariant.
LEMMA StepStutter ==
    ASSUME IInv, UNCHANGED vars
    PROVE  IInv'
<1>1. \A r \in Rows : Failed(r)' = Failed(r)
    BY DEF vars, Failed
<1>2. FailuresCounted'
    BY <1>1 DEF vars, IInv, FailuresCounted
<1> QED BY <1>2 DEF vars, IInv, TypeOK, CallsKnown, RowHeldByOne, JobsKnown, PaidOnce,
                   RetriesBounded

\* Every step keeps the invariant.
LEMMA InvStep == IInv /\ [Next]_vars => IInv'
<1> SUFFICES ASSUME IInv, [Next]_vars PROVE IInv'
    OBVIOUS
<1>1. CASE UNCHANGED vars
    BY <1>1, StepStutter
<1>2. ASSUME NEW d \in DailyRows, LateRefund(d) PROVE IInv'
    BY <1>2, StepRow, PayoutsAssumption
<1>3. ASSUME NEW r \in Rows,
             \/ \E net \in Nets : Settle(r, net)
             \/ SettlementFails(r) \/ SetHold(r) \/ ReleaseHold(r)
      PROVE  IInv'
    BY <1>3, StepRow
<1>4. ASSUME NEW r \in Rows, QueueStep(r) PROVE IInv'
    BY <1>4, StepQueue
<1>5. ASSUME NEW c \in Workers, CallStep(c) PROVE IInv'
    BY <1>5, StepBank, StepAnswer DEF CallStep
<1>6. ASSUME NEW c \in Workers, Die(c) \/ Stall(c) PROVE IInv'
    BY <1>6, StepTrouble
<1> QED BY <1>1, <1>2, <1>3, <1>4, <1>5, <1>6 DEF Next

\* The strengthened invariant of the rows, the queue and the running calls.
THEOREM StrengthenedInvariant == Spec => []IInv
BY InvInit, InvStep, PTL DEF Spec

\* Every variable keeps its type; attempt_count leaves its bound only by the
\* calls that had failed when the bound was reached.
THEOREM TypeCorrect == Spec => []TypeOK
<1>1. IInv => TypeOK
    BY DEF IInv
<1> QED BY <1>1, StrengthenedInvariant, PTL

\* No row is credited twice, and only a PAID one is credited, however its job
\* is queued, retried, given out twice or cut short.
THEOREM CreditedOnce == Spec => []PaidOnce
<1>1. IInv => PaidOnce
    BY DEF IInv
<1> QED BY <1>1, StrengthenedInvariant, PTL

\* A row that failed MaxAttempts times since its last release is not PENDING.
THEOREM AttemptsBounded == Spec => []RetriesBounded
<1>1. IInv => RetriesBounded
    BY DEF IInv
<1> QED BY <1>1, StrengthenedInvariant, PTL

\* What a step does to the status of a row and to its credits: a row becomes
\* PAID with the amount it owes credited, PENDING is the only status a payout,
\* a missing bank account or a hold takes it from, and HELD only a release.
LEMMA StatusStep ==
    ASSUME IInv, Next, NEW r \in Rows
    PROVE  \/ rows'[r].status = rows[r].status
           \/ rows[r].status = "NONE" /\ rows'[r].status = "PENDING"
           \/ rows[r].status = "HELD" /\ ReleaseHold(r) /\ rows'[r].status = "PENDING"
           \/ rows[r].status = "PENDING" /\ rows'[r].status = "HELD"
           \/ /\ rows[r].status = "PENDING" /\ rows'[r].status = "PAID"
              /\ credits'[r] = IF rows[r].payout > 0 THEN <<rows[r].payout>> ELSE <<>>
<1>0. /\ rows = [s \in Rows |-> rows[s]] /\ \A s \in Rows : rows[s] \in RowType
    BY RowKnown
<1>1. ASSUME NEW d \in Rows, LateRefund(d) \/ SettlementFails(d) PROVE rows'[r].status = rows[r].status
    BY <1>0, <1>1 DEF LateRefund, SettlementFails, RowType
<1>2. ASSUME NEW d \in Rows, NEW net \in Nets, Settle(d, net)
      PROVE  \/ rows'[r].status = rows[r].status
             \/ rows[r].status = "NONE" /\ rows'[r].status = "PENDING"
    BY <1>0, <1>2 DEF Settle, Upsert, RowType
<1>3. ASSUME NEW d \in Rows, SetHold(d)
      PROVE  \/ rows'[r].status = rows[r].status
             \/ rows[r].status = "PENDING" /\ rows'[r].status = "HELD"
    BY <1>0, <1>3 DEF SetHold, RowType
<1>4. ASSUME NEW d \in Rows, ReleaseHold(d)
      PROVE  \/ rows'[r].status = rows[r].status
             \/ rows[r].status = "HELD" /\ ReleaseHold(r) /\ rows'[r].status = "PENDING"
    <2>1. CASE d = r
        BY <1>0, <1>4, <2>1 DEF ReleaseHold, RowType
    <2>2. CASE d # r
        BY <1>0, <1>4, <2>2 DEF ReleaseHold
    <2> QED BY <2>1, <2>2
<1>5. ASSUME NEW c \in Workers,
             \/ Start(c) \/ Die(c) \/ Stall(c)
             \/ \E accepted \in BOOLEAN : Disburse(c, accepted)
      PROVE  rows' = rows
    BY <1>5 DEF Start, Die, Stall, Disburse
<1>6. ASSUME NEW d \in Rows, QueueStep(d) PROVE rows' = rows
    BY <1>6 DEF QueueStep, Enqueue, ForgetJob, Take
<1>7. ASSUME NEW c \in Workers, NotEligible(c) PROVE rows'[r].status = rows[r].status
    BY <1>0, <1>7 DEF NotEligible, Answer
<1>8. ASSUME NEW c \in Workers, BankMissing(c)
      PROVE  \/ rows'[r].status = rows[r].status
             \/ rows[r].status = "PENDING" /\ rows'[r].status = "HELD"
    <2>1. call[c].row \in Rows
        BY <1>8, CallKnown DEF BankMissing
    <2> QED BY <1>0, <1>8, <2>1 DEF BankMissing, Answer, RowType
<1>9. ASSUME NEW c \in Workers, RecordFailure(c)
      PROVE  \/ rows'[r].status = rows[r].status
             \/ rows[r].status = "PENDING" /\ rows'[r].status = "HELD"
    <2>1. call[c].row \in Rows
        BY <1>9, CallKnown DEF RecordFailure
    <2> QED BY <1>0, <1>9, <2>1 DEF RecordFailure, Answer, RowType
<1>10. ASSUME NEW c \in Workers, Pay(c)
       PROVE  \/ rows'[r].status = rows[r].status
              \/ /\ rows[r].status = "PENDING" /\ rows'[r].status = "PAID"
                 /\ credits'[r] = IF rows[r].payout > 0 THEN <<rows[r].payout>> ELSE <<>>
    <2>1. /\ call[c].row \in Rows /\ call[c].pc = "sent"
          /\ rows' = [rows EXCEPT ![call[c].row] = [rows[call[c].row] EXCEPT !.status = "PAID"]]
        BY <1>10, CallKnown DEF Pay, Answer
    <2>2. CASE call[c].row # r
        BY <1>0, <2>1, <2>2
    <2>3. CASE call[c].row = r
        <3>1. /\ rows[r].status = "PENDING" /\ call[c].amount = rows[r].payout
              /\ credits[r] = <<>>
            BY <2>1, <2>3 DEF IInv, RowHeldByOne, PaidOnce
        <3>2. rows'[r].status = "PAID"
            BY <1>0, <2>1, <2>3 DEF RowType
        <3>3. credits'[r] = IF rows[r].payout > 0 THEN Append(<<>>, rows[r].payout) ELSE <<>>
            BY <1>10, <2>3, <3>1, RowKnown DEF Pay
        <3>4. rows[r].payout > 0 => Append(<<>>, rows[r].payout) = <<rows[r].payout>>
            OBVIOUS
        <3> QED BY <3>1, <3>2, <3>3, <3>4
    <2> QED BY <2>2, <2>3
<1> QED BY <1>1, <1>2, <1>3, <1>4, <1>5, <1>6, <1>7, <1>8, <1>9, <1>10, PayoutsAssumption
        DEF Next, CallStep

\* What is credited is what the row owes when it becomes PAID, and a PAID row
\* stays PAID.
THEOREM CreditsWhatIsOwed == Spec => PaidWhatIsOwed
<1>1. IInv /\ [Next]_vars =>
         [\A r \in Rows :
             /\ rows[r].status = "PAID" => rows'[r].status = "PAID"
             /\ rows[r].status # "PAID" /\ rows'[r].status = "PAID" =>
                   credits'[r] = IF rows[r].payout > 0 THEN <<rows[r].payout>> ELSE <<>>]_vars
    BY StatusStep
<1> QED BY <1>1, StrengthenedInvariant, PTL DEF Spec, PaidWhatIsOwed

\* Only a release moves a row that is on hold.
THEOREM HoldIsKept == Spec => HeldUntilReleased
<1>1. IInv /\ [Next]_vars =>
         [\A r \in Rows : rows[r].status = "HELD" =>
             rows'[r].status = "HELD" \/ ReleaseHold(r)]_vars
    BY StatusStep
<1> QED BY <1>1, StrengthenedInvariant, PTL DEF Spec, HeldUntilReleased

=============================================================================
