------------------------------ MODULE Payouts ------------------------------
(***************************************************************************)
(* The payouts of one shop: the settlement that writes its shop_financials *)
(* rows, the weekly run that queues a job per pending row, the job that    *)
(* pays one row, the administrator's hold and release, and late refunds.   *)
(*                                                                         *)
(* processPayout keeps the row locked from its check to its COMMIT, so a   *)
(* PROCESSING status is seen by its own transaction only and is no status  *)
(* of a row here.  The disbursement goes to a bank, which may accept or    *)
(* refuse it; a call may stop anywhere, which rolls its transaction back.  *)
(***************************************************************************)
EXTENDS Integers, Sequences, FiniteSets

CONSTANTS Rows,        \* the shop's rows: a day's, a week's or a month's
          DailyRows,   \* those of a day
          Workers,     \* processPayout calls that can run at the same time
          Nets,        \* what the delivered orders of a period can come to
          MaxAttempts, \* PAYOUT_MAX_ATTEMPTS (3 in the code)
          JobRuns,     \* attempts of a job (3 in the code)
          AttemptCap,  \* bound on attempt_count, for model checking
          LowestPayout, \* bound on what late refunds leave of a row
          MaxTroubles  \* bound on the calls that die and the jobs that stall

ASSUME PayoutsAssumption ==
    /\ DailyRows \subseteq Rows
    /\ Nets \subseteq Nat
    /\ {MaxAttempts, JobRuns} \subseteq Nat \ {0}
    /\ {AttemptCap, MaxTroubles} \subseteq Nat
    /\ LowestPayout \in Int /\ LowestPayout <= 0
    /\ IsFiniteSet(Workers)
    /\ MaxAttempts <= AttemptCap + 1 \* the bound stops no payout short of its last attempt

VARIABLES rows,     \* the shop_financials rows
          job,      \* the job process-payout:<row> of the payouts queue
          call,     \* the processPayout calls
          credits,  \* the PAYOUT_CREDIT entries of the ledger, for each row
          fails,    \* history: failures recorded since the last release
          troubles  \* bound counter

vars == <<rows, job, call, credits, fails, troubles>>

NoRow == [status |-> "NONE", attempts |-> 0, payout |-> 0]
NoJob == [st |-> "none", runs |-> 0, stalled |-> FALSE]
NoCall == [pc |-> "idle"]

Call == [pc : {"begun", "sending", "sent", "failed"}, row : Rows,
         owns : BOOLEAN, amount : Int]

TypeOK ==
    /\ rows \in [Rows -> [status : {"NONE", "PENDING", "HELD", "PAID"},
                          attempts : 0 .. AttemptCap + Cardinality(Workers),
                          payout : Int]]
    /\ \A r \in Rows : rows[r].payout >= LowestPayout
    /\ job \in [Rows -> [st : {"none", "waiting", "active", "kept"},
                         runs : 0 .. JobRuns, stalled : BOOLEAN]]
    /\ call \in [Workers -> Call \cup {NoCall}]
    /\ credits \in [Rows -> Seq(Nat \ {0})]
    /\ fails \in [Rows -> Nat]
    /\ troubles \in 0 .. MaxTroubles

Init ==
    /\ rows = [r \in Rows |-> NoRow]
    /\ job = [r \in Rows |-> NoJob]
    /\ call = [c \in Workers |-> NoCall]
    /\ credits = [r \in Rows |-> <<>>]
    /\ fails = [r \in Rows |-> 0]
    /\ troubles = 0

\* a payout transaction has the row FOR UPDATE
Locked(r) == \E c \in Workers : call[c].pc \in {"sending", "sent"} /\ call[c].row = r

-----------------------------------------------------------------------------
(* Settlement *)

\* ON CONFLICT: the amounts are replaced, the payout's own columns are kept
Upsert(row, payout) ==
    [row EXCEPT !.status = IF @ = "NONE" THEN "PENDING" ELSE @, !.payout = payout]

\* settleShopForPeriod, for the first time or again: a day's amounts are those of
\* its delivered orders with no refund, a week's and a month's the sums of what
\* the daily rows were when they were read
Settle(r, net) ==
    /\ ~Locked(r)
    /\ rows' = [rows EXCEPT ![r] = Upsert(@, net)]
    /\ UNCHANGED <<job, call, credits, fails, troubles>>

\* recordFailureReason after a settlement threw counts with the payout's failures
SettlementFails(r) ==
    /\ ~Locked(r)
    /\ rows[r].status # "NONE"
    /\ rows[r].attempts < AttemptCap
    /\ rows' = [rows EXCEPT ![r].attempts = @ + 1]
    /\ UNCHANGED <<job, call, credits, fails, troubles>>

\* mutant: the row is read without a lock
LateRefundUnlocked(d) ==
    /\ rows[d].status \notin {"NONE", "PAID"}
    /\ rows[d].payout > LowestPayout
    /\ rows' = [rows EXCEPT ![d].payout = @ - 1]
    /\ UNCHANGED <<job, call, credits, fails, troubles>>

\* applyLateRefund; a missing or paid row answers without a change
LateRefund(d) ==
    /\ ~Locked(d)
    /\ rows[d].status \notin {"NONE", "PAID"}
    /\ rows[d].payout > LowestPayout
    /\ rows' = [rows EXCEPT ![d].payout = @ - 1]
    /\ UNCHANGED <<job, call, credits, fails, troubles>>

-----------------------------------------------------------------------------
(* The weekly run *)

\* findPendingPayouts finds rows of every period type; queue.add does nothing
\* when the queue still knows the id.  A row that changes between the two could
\* as well change after the second: the job looks at it again.
Enqueue(r) ==
    /\ rows[r].status = "PENDING"
    /\ job[r].st = "none"
    /\ job' = [job EXCEPT ![r].st = "waiting"]
    /\ UNCHANGED <<rows, call, credits, fails, troubles>>

\* mutant: a finished job is kept for ever
ForgetFailedJob(r) ==
    /\ job[r].st = "kept"
    /\ job[r].runs = JobRuns
    /\ job' = [job EXCEPT ![r] = NoJob]
    /\ UNCHANGED <<rows, call, credits, fails, troubles>>

\* a finished job is removed days later, when another one finishes
ForgetJob(r) ==
    /\ job[r].st = "kept"
    /\ job' = [job EXCEPT ![r] = NoJob]
    /\ UNCHANGED <<rows, call, credits, fails, troubles>>

-----------------------------------------------------------------------------
(* processPayout *)

\* the job of a call that answers, unless the job stalled and is no longer its own
JobAfter(c) ==
    IF call[c].owns THEN [job EXCEPT ![call[c].row].st = "kept"] ELSE job

\* the call ends with status and attempts for its row
Answer(c, row) ==
    /\ rows' = [rows EXCEPT ![call[c].row] = row]
    /\ call' = [call EXCEPT ![c] = NoCall]
    /\ job' = JobAfter(c)

Take(c, r) ==
    /\ call[c].pc = "idle"
    /\ job[r].st = "waiting"
    /\ job' = [job EXCEPT ![r].st = "active"]
    /\ call' = [call EXCEPT ![c] = [pc |-> "begun", row |-> r, owns |-> TRUE, amount |-> 0]]
    /\ UNCHANGED <<rows, credits, fails, troubles>>

\* lockFinancialById found a row that is not to be paid
NotEligible(c) ==
    /\ call[c].pc = "begun"
    /\ ~Locked(call[c].row)
    /\ rows[call[c].row].status # "PENDING"
    /\ Answer(c, rows[call[c].row])
    /\ UNCHANGED <<credits, fails, troubles>>

\* the shop's bank details are not complete
BankMissing(c) ==
    /\ call[c].pc = "begun"
    /\ ~Locked(call[c].row)
    /\ rows[call[c].row].status = "PENDING"
    /\ Answer(c, [rows[call[c].row] EXCEPT !.status = "HELD"])
    /\ UNCHANGED <<credits, fails, troubles>>

\* mutant: a row that is paid or held is paid
StartAny(c) ==
    LET r == call[c].row IN
    /\ call[c].pc = "begun"
    /\ ~Locked(r)
    /\ call' = [call EXCEPT ![c].pc = "sending", ![c].amount = rows[r].payout]
    /\ UNCHANGED <<rows, job, credits, fails, troubles>>

\* PENDING to PROCESSING, inside the transaction
Start(c) ==
    LET r == call[c].row IN
    /\ call[c].pc = "begun"
    /\ ~Locked(r)
    /\ rows[r].status = "PENDING"
    /\ call' = [call EXCEPT ![c].pc = "sending", ![c].amount = rows[r].payout]
    /\ UNCHANGED <<rows, job, credits, fails, troubles>>

\* the bank answers; a refusal rolls back
Disburse(c, accepted) ==
    /\ call[c].pc = "sending"
    /\ call' = [call EXCEPT ![c].pc = IF accepted THEN "sent" ELSE "failed"]
    /\ UNCHANGED <<rows, job, credits, fails, troubles>>

\* PAID and the ledger entry, in one COMMIT; no entry below 0.01
Pay(c) ==
    LET r == call[c].row IN
    /\ call[c].pc = "sent"
    /\ Answer(c, [rows[r] EXCEPT !.status = "PAID"])
    /\ credits' = IF call[c].amount > 0 THEN [credits EXCEPT ![r] = Append(@, call[c].amount)]
                  ELSE credits
    /\ UNCHANGED <<fails, troubles>>

\* mutant: a hold that came in between is not looked at
RecordFailureBlind(c) ==
    LET r == call[c].row
        n == rows[r].attempts + 1
    IN
    /\ call[c].pc = "failed"
    /\ ~Locked(r)
    /\ Answer(c, [rows[r] EXCEPT !.attempts = n,
                                 !.status = IF n >= MaxAttempts THEN "HELD" ELSE "PENDING"])
    /\ fails' = [fails EXCEPT ![r] = @ + 1]
    /\ UNCHANGED <<credits, troubles>>

\* mutant: one failure more before HELD
RecordFailureLate(c) ==
    LET r == call[c].row
        n == rows[r].attempts + 1
    IN
    /\ call[c].pc = "failed"
    /\ ~Locked(r)
    /\ Answer(c, [rows[r] EXCEPT !.attempts = n,
                                 !.status = IF n > MaxAttempts /\ @ = "PENDING" THEN "HELD" ELSE @])
    /\ fails' = [fails EXCEPT ![r] = @ + 1]
    /\ UNCHANGED <<credits, troubles>>

\* mutant: the row is never given up
RecordFailureForever(c) ==
    LET r == call[c].row IN
    /\ call[c].pc = "failed"
    /\ ~Locked(r)
    /\ Answer(c, [rows[r] EXCEPT !.attempts = @ + 1])
    /\ fails' = [fails EXCEPT ![r] = @ + 1]
    /\ UNCHANGED <<credits, troubles>>

\* _handleDisbursementFailure, in a transaction of its own: the row may be
\* another one by now, its status is changed from PENDING only
RecordFailure(c) ==
    LET r == call[c].row
        n == rows[r].attempts + 1
    IN
    /\ call[c].pc = "failed"
    /\ ~Locked(r)
    /\ Answer(c, [rows[r] EXCEPT !.attempts = n,
                                 !.status = IF n >= MaxAttempts /\ @ = "PENDING" THEN "HELD" ELSE @])
    /\ fails' = [fails EXCEPT ![r] = @ + 1]
    /\ UNCHANGED <<credits, troubles>>

\* the call throws or its process dies: BullMQ runs the job again, JobRuns times
Die(c) ==
    LET r == call[c].row
        n == job[r].runs + 1
    IN
    /\ call[c].pc # "idle"
    /\ troubles < MaxTroubles
    /\ troubles' = troubles + 1
    /\ call' = [call EXCEPT ![c] = NoCall]
    /\ job' = IF call[c].owns
              THEN [job EXCEPT ![r].runs = n, ![r].st = IF n < JobRuns THEN "waiting" ELSE "kept"]
              ELSE job
    /\ UNCHANGED <<rows, credits, fails>>

\* the worker is late to renew its lock: the job is given out again, once,
\* while the call still runs
Stall(c) ==
    LET r == call[c].row IN
    /\ call[c].pc # "idle" /\ call[c].owns
    /\ troubles < MaxTroubles
    /\ troubles' = troubles + 1
    /\ call' = [call EXCEPT ![c].owns = FALSE]
    /\ job' = [job EXCEPT ![r].st = IF job[r].stalled THEN "kept" ELSE "waiting",
                          ![r].stalled = TRUE]
    /\ UNCHANGED <<rows, credits, fails>>

-----------------------------------------------------------------------------
(* The administrator *)

SetHold(r) ==
    /\ ~Locked(r)
    /\ rows[r].status = "PENDING"
    /\ rows' = [rows EXCEPT ![r].status = "HELD"]
    /\ UNCHANGED <<job, call, credits, fails, troubles>>

\* attempt_count keeps its value
ReleaseHold(r) ==
    /\ ~Locked(r)
    /\ rows[r].status = "HELD"
    /\ rows[r].attempts < AttemptCap
    /\ rows' = [rows EXCEPT ![r].status = "PENDING"]
    /\ fails' = [fails EXCEPT ![r] = 0]
    /\ UNCHANGED <<job, call, credits, troubles>>

-----------------------------------------------------------------------------
CallStep(c) ==
    \/ NotEligible(c) \/ BankMissing(c) \/ Start(c) \/ Pay(c) \/ RecordFailure(c)
    \/ \E accepted \in BOOLEAN : Disburse(c, accepted)

QueueStep(r) == Enqueue(r) \/ ForgetJob(r) \/ \E c \in Workers : Take(c, r)

Next ==
    \/ \E d \in DailyRows : LateRefund(d)
    \/ \E r \in Rows : \/ \E net \in Nets : Settle(r, net)
                       \/ SettlementFails(r) \/ QueueStep(r)
                       \/ SetHold(r) \/ ReleaseHold(r)
    \/ \E c \in Workers : CallStep(c) \/ Die(c) \/ Stall(c)

Spec == Init /\ [][Next]_vars

\* the cron fires every week and queues what is pending, a worker takes the jobs
\* that wait and runs what it took to its end, other jobs finish now and then
Fairness ==
    /\ \A r \in Rows : /\ WF_vars(Enqueue(r))
                       /\ WF_vars(ForgetJob(r))
                       /\ SF_vars(\E c \in Workers : Take(c, r))
    /\ \A c \in Workers : SF_vars(CallStep(c))

FairSpec == Spec /\ Fairness

-----------------------------------------------------------------------------
(* Properties *)

\* However often a job is queued, given out twice, retried or cut short, a row
\* has at most one PAYOUT_CREDIT entry, and only a PAID row has one.
PaidOnce ==
    \A r \in Rows : /\ Len(credits[r]) <= 1
                    /\ credits[r] # <<>> => rows[r].status = "PAID"

\* What the ledger is credited with, after the bank was waited for, is what the
\* row owes at that moment, refunds that came late and settlements that ran
\* again included; a PAID row stays PAID.
PaidWhatIsOwed ==
    [][\A r \in Rows :
          /\ rows[r].status = "PAID" => rows'[r].status = "PAID"
          /\ rows[r].status # "PAID" /\ rows'[r].status = "PAID" =>
                credits'[r] = IF rows[r].payout > 0 THEN <<rows[r].payout>> ELSE <<>>]_vars

\* A row that an administrator, a missing bank account or its failures put on
\* hold is moved by a release only, whatever payout of it was under way.
HeldUntilReleased ==
    [][\A r \in Rows : rows[r].status = "HELD" =>
          rows'[r].status = "HELD" \/ ReleaseHold(r)]_vars

\* No row is tried again after MaxAttempts recorded failures, unless it was
\* released in between; settlements that fail can only make it fewer.
RetriesBounded ==
    \A r \in Rows : rows[r].status = "PENDING" => fails[r] < MaxAttempts

\* What the proofs carry from state to state.  A call works on a row that was
\* settled; a job that is active has one call, the one that owns it, and a run
\* left; the lock keeps one call between Start and Pay, and the row PENDING and
\* at the amount it read; every failure of a payout is an attempt of its row.
CallsKnown ==
    \A c \in Workers : call[c].pc # "idle" =>
        /\ rows[call[c].row].status # "NONE"
        /\ call[c].owns =>
              /\ job[call[c].row].st = "active"
              /\ \A d \in Workers : call[d].pc # "idle" =>
                    (call[d].owns /\ call[d].row = call[c].row => d = c)

RowHeldByOne ==
    \A c \in Workers : call[c].pc \in {"sending", "sent"} =>
        /\ rows[call[c].row].status = "PENDING"
        /\ rows[call[c].row].payout = call[c].amount
        /\ \A d \in Workers : call[d].pc \in {"sending", "sent"} =>
              (call[d].row = call[c].row => d = c)

JobsKnown ==
    \A r \in Rows : /\ job[r].st # "none" => rows[r].status # "NONE"
                    /\ job[r].st # "kept" => job[r].runs < JobRuns

Failed(r) == {c \in Workers : call[c].pc = "failed" /\ call[c].row = r}

FailuresCounted ==
    \A r \in Rows : /\ fails[r] <= rows[r].attempts
                    /\ rows[r].status = "NONE" => rows[r].attempts = 0
                    /\ rows[r].status = "PENDING" => rows[r].attempts <= AttemptCap
                    /\ rows[r].attempts + Cardinality(Failed(r))
                          <= AttemptCap + Cardinality(Workers)

IInv ==
    /\ TypeOK
    /\ CallsKnown
    /\ RowHeldByOne
    /\ JobsKnown
    /\ FailuresCounted
    /\ PaidOnce
    /\ RetriesBounded

\* Under the weekly cron, a worker that runs its jobs and a queue that forgets
\* finished ones, no row stays PENDING for ever.
PayoutDecided ==
    \A r \in Rows : rows[r].status = "PENDING" ~> rows[r].status \in {"PAID", "HELD"}

=============================================================================
