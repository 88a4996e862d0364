----------------------------- MODULE Fulfilment -----------------------------
(***************************************************************************)
(* One order after it was paid: the vendor's stages, the order's only row  *)
(* of order_assignments, the auto-assign job that offers the order to a    *)
(* rider, the rider's handlers, and what administrators and the customer   *)
(* write over all of them.                                                 *)
(*                                                                         *)
(* A handler that reads, and writes later, is a call with a program        *)
(* counter, cut before each of its writes; it may stop at any of them.     *)
(* A transaction that locks the orders row and checks again under the lock *)
(* is one step.  UNIQUE (order_id, assignment_type), with assignment_type  *)
(* never given, leaves one assignment row per order.                       *)
(*                                                                         *)
(* The shop has coordinates and staff: the job always finds a candidate.   *)
(* PaymentFlow has what takes a waiting order away from its vendor.        *)
(***************************************************************************)
EXTENDS Naturals

CONSTANTS Riders,     \* vendor staff the job can offer the order to
          Calls,      \* handlers that can run at the same time
          Attempts,   \* attempts of a job of the orders queue (3 in the code)
          MaxCredits, \* bound on the wallet credits, for model checking
          Nobody      \* no rider

ASSUME FulfilmentAssumption ==
    /\ Attempts \in Nat \ {0}
    /\ MaxCredits \in Nat
    /\ Nobody \notin Riders

VARIABLES status,  \* orders.status
          rider,   \* orders.rider_id
          row,     \* the order_assignments row
          job,     \* the auto-assign job of this order
          codes,   \* purposes with an active one-time code (see OrderOtp)
          prover,  \* history: the rider whose pickup code was accepted
          credits, \* times the order's total was credited to the wallet
          bare,    \* history: updateStatus wrote REFUNDED, which credits nothing
          call     \* the running handlers

office == <<credits, bare>>

vars == <<status, rider, row, job, codes, prover, credits, bare, call>>

\* WASHING, DRYING and IRONING are no members of the order_status enum, and
\* nothing that runs writes IN_TRANSIT to an assignment, so no rider reaches
\* DELIVERY_OTP_VERIFIED.
Status == {"WAITING_VENDOR_CONFIRMATION", "CONFIRMED", "PREPARING",
           "PACKED", "OUT_FOR_DELIVERY", "DELIVERED", "CANCELLED", "REFUNDED",
           "VENDOR_ACCEPTED", "PICKUP_ASSIGNED", "PICKUP_OTP_VERIFIED",
           "PICKED_UP", "RECEIVED_AT_VENDOR", "DELIVERY_ASSIGNED"}

Row == [st : {"none", "ASSIGNED", "ACCEPTED", "PICKED_UP", "CANCELLED"},
        rider : Riders \cup {Nobody}]

Job == [st   : {"none", "queued", "read", "sending", "failed"},
        cand : Riders \cup {Nobody},
        left : 0 .. Attempts]

NoJob == [st |-> "none", cand |-> Nobody, left |-> 0]

Call == [pc : {"idle", "chooseCode", "makeCode", "requeue", "consume", "verified",
               "pickup", "setRider", "setStatus", "cancel", "creditCancelled",
               "creditRefund", "refunded"},
         to : Status \cup Riders \cup {"", "PICKUP", "DELIVERY"},
         flag : BOOLEAN]

Idle == [pc |-> "idle", to |-> "", flag |-> FALSE]

TypeOK ==
    /\ status \in Status
    /\ rider \in Riders \cup {Nobody}
    /\ row \in Row
    /\ job \in Job
    /\ codes \in SUBSET {"PICKUP", "DELIVERY"}
    /\ prover \in Riders \cup {Nobody}
    /\ credits \in 0 .. MaxCredits
    /\ bare \in BOOLEAN
    /\ call \in [Calls -> Call]

Claimed == {"ACCEPTED", "PICKED_UP"}

\* what the job offers, and what the riders' and the administrators' code
\* takes for assignable
Offerable == {"VENDOR_ACCEPTED", "CONFIRMED", "PREPARING", "PACKED"}
Assignable == {"CONFIRMED", "PREPARING", "PACKED"}

\* TRANSITION_RULES for the two statuses a vendor's stage handler can write;
\* writing a status again is allowed
VendorMay(to) ==
    CASE to = "RECEIVED_AT_VENDOR" ->
            {"VENDOR_ACCEPTED", "PICKUP_ASSIGNED", "PICKUP_OTP_VERIFIED",
             "PICKED_UP", "RECEIVED_AT_VENDOR"}
      [] to = "PACKED" -> {"RECEIVED_AT_VENDOR", "PACKED"}

\* the administrators' ALLOWED_TRANSITIONS; no entry for any other status
AdminMay(from) ==
    CASE from = "CONFIRMED" -> {"PREPARING", "CANCELLED"}
      [] from = "PREPARING" -> {"PACKED", "CANCELLED"}
      [] from = "PACKED" -> {"OUT_FOR_DELIVERY"}
      [] from = "OUT_FOR_DELIVERY" -> {"DELIVERED", "CANCELLED"}
      [] from = "CANCELLED" -> {"REFUNDED"}
      [] OTHER -> {}

\* the statuses PUT /orders/admin/:id/status accepts
Overrides == {"WAITING_VENDOR_CONFIRMATION", "CONFIRMED", "PREPARING", "PACKED",
              "OUT_FOR_DELIVERY", "DELIVERED", "CANCELLED"}

Init ==
    /\ status = "WAITING_VENDOR_CONFIRMATION"
    /\ rider = Nobody
    /\ row = [st |-> "none", rider |-> Nobody]
    /\ job = NoJob
    /\ codes = {}
    /\ prover = Nobody
    /\ credits = 0
    /\ bare = FALSE
    /\ call = [c \in Calls |-> Idle]

-----------------------------------------------------------------------------
(* The handlers' calls *)

Start(c, pc, to, flag) ==
    /\ call[c] = Idle
    /\ call' = [call EXCEPT ![c] = [pc |-> pc, to |-> to, flag |-> flag]]

Continue(c, pc) == call' = [call EXCEPT ![c].pc = pc]

End(c) == call' = [call EXCEPT ![c] = Idle]

\* a statement fails or the process dies between two writes of a handler
Stop(c) ==
    /\ call[c] # Idle
    /\ End(c)
    /\ UNCHANGED <<status, rider, row, job, codes, prover, office>>

\* orderQueue.add with the order's own jobId: a job of that id, be it
\* waiting, running or failed, makes the call do nothing
QueueAutoAssign ==
    job' = IF job.st = "none" THEN [NoJob EXCEPT !.st = "queued", !.left = Attempts]
                              ELSE job

Requeue(c) ==
    /\ call[c].pc = "requeue"
    /\ QueueAutoAssign
    /\ End(c)
    /\ UNCHANGED <<status, rider, row, codes, prover, office>>

\* generateOtp, after the commit of the handler that wants the code; a rider
\* whose code is being compared will consume the row of the old one (flag)
MakeCode(c) ==
    /\ call[c].pc = "makeCode"
    /\ codes' = codes \cup {call[c].to}
    /\ call' = [d \in Calls |->
                  IF d = c THEN Idle
                  ELSE IF call[d].pc = "consume" /\ call[c].to = "PICKUP"
                         THEN [call[d] EXCEPT !.flag = TRUE]
                  ELSE call[d]]
    /\ UNCHANGED <<status, rider, row, job, prover, office>>

-----------------------------------------------------------------------------
(* The vendor *)

VendorAccept(c) ==
    /\ status \in {"WAITING_VENDOR_CONFIRMATION", "VENDOR_ACCEPTED"}
    /\ status' = "VENDOR_ACCEPTED"
    /\ Start(c, "makeCode", "PICKUP", FALSE)
    /\ UNCHANGED <<rider, row, job, codes, prover, office>>

VendorReceives ==
    /\ status \in VendorMay("RECEIVED_AT_VENDOR")
    /\ status' = "RECEIVED_AT_VENDOR"
    /\ UNCHANGED <<rider, row, job, codes, prover, office, call>>

VendorPacks(c) ==
    /\ status \in VendorMay("PACKED")
    /\ status' = "PACKED"
    /\ Start(c, "makeCode", "DELIVERY", FALSE)
    /\ UNCHANGED <<rider, row, job, codes, prover, office>>

-----------------------------------------------------------------------------
(* The auto-assign job *)

\* the scan at start-up and when a rider goes online, signs in or is approved
BacklogScan ==
    /\ status \in Offerable
    /\ rider = Nobody
    /\ QueueAutoAssign
    /\ UNCHANGED <<status, rider, row, codes, prover, office, call>>

\* the read with no lock, and the candidate with the least work
JobReads(r) ==
    /\ job.st = "queued"
    /\ job' = IF status \in Offerable /\ rider = Nobody
                THEN [job EXCEPT !.st = "read", !.cand = r]
                ELSE NoJob
    /\ UNCHANGED <<status, rider, row, codes, prover, office, call>>

\* mutant: a job whose attempt fails is removed
FailDrops == job' = NoJob

FailAttempt ==
    job' = IF job.left > 1 THEN [st |-> "queued", cand |-> Nobody, left |-> job.left - 1]
                           ELSE [st |-> "failed", cand |-> Nobody, left |-> 0]

\* mutant: the transaction trusts what was read before the lock
ReadBeforeLock == TRUE

\* what the transaction checks again under the row lock
StillOfferable == status \in Offerable /\ rider = Nobody

\* the transaction makes the offer and moves the order on with it
JobOffers ==
    /\ job.st = "read"
    /\ StillOfferable
    /\ row.st = "none"
    /\ row' = [st |-> "ASSIGNED", rider |-> job.cand]
    /\ status' = CASE status = "VENDOR_ACCEPTED" -> "PICKUP_ASSIGNED"
                   [] status = "PACKED" -> "DELIVERY_ASSIGNED"
                   [] OTHER -> status
    /\ job' = [job EXCEPT !.st = "sending", !.cand = Nobody]
    /\ UNCHANGED <<rider, codes, prover, office, call>>

\* the transaction finds nothing to do: a claimed row, a row of the candidate
\* (open, or declined), an order that is not offerable any more
JobSkips ==
    /\ job.st = "read"
    /\ \/ ~StillOfferable
       \/ row.st \in Claimed
       \/ row.st \in {"ASSIGNED", "CANCELLED"} /\ row.rider = job.cand
    /\ job' = NoJob
    /\ UNCHANGED <<status, rider, row, codes, prover, office, call>>

\* mutant: the order may have a row for every rider
NoSecondRow == FALSE

\* the row is another rider's: the INSERT violates the unique constraint
SecondRow == row.st \in {"ASSIGNED", "CANCELLED"} /\ row.rider # job.cand

JobInsertFails ==
    /\ job.st = "read"
    /\ StillOfferable
    /\ SecondRow
    /\ FailAttempt
    /\ UNCHANGED <<status, rider, row, codes, prover, office, call>>

\* a statement or the connection fails, or the worker dies
JobFails ==
    /\ job.st \in {"read", "sending"}
    /\ FailAttempt
    /\ UNCHANGED <<status, rider, row, codes, prover, office, call>>

\* the rider was told; removeOnComplete
JobCompletes ==
    /\ job.st = "sending"
    /\ job' = NoJob
    /\ UNCHANGED <<status, rider, row, codes, prover, office, call>>

\* removeOnFail: seven days later
FailedJobRemoved ==
    /\ job.st = "failed"
    /\ job' = NoJob
    /\ UNCHANGED <<status, rider, row, codes, prover, office, call>>

-----------------------------------------------------------------------------
(* The rider *)

RiderAccepts(c, r) ==
    /\ row = [st |-> "ASSIGNED", rider |-> r]
    /\ status \in Assignable
    /\ rider \in {Nobody, r}
    /\ row' = [row EXCEPT !.st = "ACCEPTED"]
    /\ rider' = r
    /\ Start(c, "chooseCode", "", FALSE)
    /\ UNCHANGED <<status, job, codes, prover, office>>

\* the order is read again after the commit
ChooseCode(c) ==
    /\ call[c].pc = "chooseCode"
    /\ call' = [call EXCEPT ![c].pc = "makeCode",
                            ![c].to = IF status \in {"VENDOR_ACCEPTED", "PICKUP_ASSIGNED"}
                                        THEN "PICKUP" ELSE "DELIVERY"]
    /\ UNCHANGED <<status, rider, row, job, codes, prover, office>>

RiderRejects(c, r) ==
    /\ row = [st |-> "ASSIGNED", rider |-> r]
    /\ row' = [row EXCEPT !.st = "CANCELLED"]
    /\ IF status \in Assignable /\ rider = Nobody
         THEN Start(c, "requeue", "", FALSE)
         ELSE UNCHANGED call
    /\ UNCHANGED <<status, rider, job, codes, prover, office>>

\* verifyOtp reads the active code and compares; before it consumes it, another
\* call of the rider may do the same
VerifyPickup(c, r) ==
    /\ row = [st |-> "ACCEPTED", rider |-> r]
    /\ "PICKUP" \in codes
    /\ prover' = r
    /\ Start(c, "consume", "", FALSE)
    /\ UNCHANGED <<status, rider, row, job, codes, office>>

ConsumeCode(c) ==
    /\ call[c].pc = "consume"
    /\ codes' = IF call[c].flag THEN codes ELSE codes \ {"PICKUP"}
    /\ Continue(c, "verified")
    /\ UNCHANGED <<status, rider, row, job, prover, office>>

VerifyPickupWrites(c) ==
    /\ call[c].pc = "verified"
    /\ status' = "PICKUP_OTP_VERIFIED"
    /\ End(c)
    /\ UNCHANGED <<rider, row, job, codes, prover, office>>

\* mutant: the status of the order is not looked at
PickupAnyStatus == TRUE

PickupMay == status \in {"PICKUP_OTP_VERIFIED", "PICKED_UP"}

MarkPickedUp(c, r) ==
    /\ row = [st |-> "ACCEPTED", rider |-> r]
    /\ PickupMay
    /\ Start(c, "pickup", "", FALSE)
    /\ UNCHANGED <<status, rider, row, job, codes, prover, office>>

MarkPickedUpWrites(c) ==
    /\ call[c].pc = "pickup"
    /\ status' = "PICKED_UP"
    /\ row' = IF row.st = "ACCEPTED" THEN [row EXCEPT !.st = "PICKED_UP"] ELSE row
    /\ End(c)
    /\ UNCHANGED <<rider, job, codes, prover, office>>

-----------------------------------------------------------------------------
(* Administrators and the customer *)

\* updateStatus: the transition is checked on a read with no lock
AdminUpdatesStatus(c, to) ==
    /\ to \in AdminMay(status)
    /\ Start(c, "setStatus", to, to \in Assignable /\ rider = Nobody)
    /\ UNCHANGED <<status, rider, row, job, codes, prover, office>>

CustomerCancels(c) ==
    /\ status = "CONFIRMED"
    /\ Start(c, "setStatus", "CANCELLED", FALSE)
    /\ UNCHANGED <<status, rider, row, job, codes, prover, office>>

SetStatus(c) ==
    /\ call[c].pc = "setStatus"
    /\ status' = call[c].to
    /\ IF call[c].flag THEN Continue(c, "requeue") ELSE End(c)
    /\ bare' = (call[c].to = "REFUNDED" \/ bare)
    /\ UNCHANGED <<rider, row, job, codes, prover, credits>>

\* flag: the refund goes to the wallet
AdminCancels(c, toWallet) ==
    /\ "CANCELLED" \in AdminMay(status)
    /\ Start(c, "cancel", "", toWallet)
    /\ UNCHANGED <<status, rider, row, job, codes, prover, office>>

CancelWrites(c) ==
    /\ call[c].pc = "cancel"
    /\ status' = "CANCELLED"
    /\ IF call[c].flag THEN Continue(c, "creditCancelled") ELSE End(c)
    /\ UNCHANGED <<rider, row, job, codes, prover, office>>

\* mutant: REFUNDED is written before the wallet is credited
AdminRefundsLate(c) ==
    /\ status \in {"DELIVERED", "CANCELLED"}
    /\ Start(c, "refunded", "", FALSE)
    /\ UNCHANGED <<status, rider, row, job, codes, prover, office>>

AdminRefunds(c) ==
    /\ status \in {"DELIVERED", "CANCELLED"}
    /\ Start(c, "creditRefund", "", FALSE)
    /\ UNCHANGED <<status, rider, row, job, codes, prover, office>>

CreditWallet(c) ==
    /\ call[c].pc \in {"creditCancelled", "creditRefund"}
    /\ credits < MaxCredits
    /\ credits' = credits + 1
    /\ IF call[c].pc = "creditRefund" THEN Continue(c, "refunded") ELSE End(c)
    /\ UNCHANGED <<status, rider, row, job, codes, prover, bare>>

RefundWrites(c) ==
    /\ call[c].pc = "refunded"
    /\ status' = "REFUNDED"
    /\ End(c)
    /\ UNCHANGED <<rider, row, job, codes, prover, office>>

\* PUT /orders/admin/:id/status writes whatever it is given
AdminOverrides(to) ==
    /\ to \in Overrides
    /\ status' = to
    /\ UNCHANGED <<rider, row, job, codes, prover, office, call>>

\* PUT /orders/admin/:id/rider
AdminSetsRider(c, r) ==
    /\ status \notin {"DELIVERED", "CANCELLED"}
    /\ Start(c, "setRider", r, FALSE)
    /\ UNCHANGED <<status, rider, row, job, codes, prover, office>>

SetRider(c) ==
    /\ call[c].pc = "setRider"
    /\ rider' = call[c].to
    /\ End(c)
    /\ UNCHANGED <<status, row, job, codes, prover, office>>

\* mutant: the row of an assignment that failed to be inserted is overwritten
AdminReplaces(r) ==
    /\ row' = [st |-> "ASSIGNED", rider |-> r]
    /\ rider' = r
    /\ UNCHANGED <<status, job, codes, prover, office, call>>

\* assignRider and bulkAssign: with a row there already, the INSERT fails and
\* the transaction takes the cancellation of that row back with it
AdminAssigns(r) ==
    /\ row.st = "none"
    /\ row' = [st |-> "ASSIGNED", rider |-> r]
    /\ rider' = r
    /\ UNCHANGED <<status, job, codes, prover, office, call>>

-----------------------------------------------------------------------------
VendorNext ==
    \/ VendorReceives
    \/ \E c \in Calls : VendorAccept(c) \/ VendorPacks(c)

JobNext ==
    \/ BacklogScan
    \/ \E r \in Riders : JobReads(r)
    \/ JobOffers \/ JobSkips \/ JobInsertFails \/ JobFails \/ JobCompletes
    \/ FailedJobRemoved

RiderNext ==
    \E c \in Calls :
        \/ \E r \in Riders : \/ RiderAccepts(c, r) \/ RiderRejects(c, r)
                             \/ VerifyPickup(c, r) \/ MarkPickedUp(c, r)
        \/ ChooseCode(c) \/ ConsumeCode(c) \/ VerifyPickupWrites(c) \/ MarkPickedUpWrites(c)

OfficeNext ==
    \/ \E to \in Status : AdminOverrides(to)
    \/ \E r \in Riders : AdminAssigns(r)
    \/ \E c \in Calls :
        \/ \E to \in Status : AdminUpdatesStatus(c, to)
        \/ \E toWallet \in BOOLEAN : AdminCancels(c, toWallet)
        \/ \E r \in Riders : AdminSetsRider(c, r)
        \/ CustomerCancels(c) \/ SetStatus(c) \/ CancelWrites(c)
        \/ AdminRefunds(c) \/ CreditWallet(c) \/ RefundWrites(c) \/ SetRider(c)

Next ==
    \/ VendorNext \/ JobNext \/ RiderNext \/ OfficeNext
    \/ \E c \in Calls : Requeue(c) \/ MakeCode(c) \/ Stop(c)

Spec == Init /\ [][Next]_vars

\* the orders worker takes its jobs and runs them to an end
WorkerFairness ==
    /\ WF_vars(\E r \in Riders : JobReads(r))
    /\ WF_vars(JobOffers \/ JobSkips \/ JobInsertFails \/ JobFails)
    /\ WF_vars(JobCompletes)

FairSpec == Spec /\ WorkerFairness

-----------------------------------------------------------------------------
(* Properties *)

\* Nothing is picked up from a customer, nor said to be, before the rider of
\* the order's assignment has shown the customer's pickup code: neither the
\* stale reads of verifyPickupOtp and markPickedUp nor what administrators
\* write in between get round the code.
CodeBeforePickup ==
    status \in {"PICKUP_OTP_VERIFIED", "PICKED_UP"} \/ row.st = "PICKED_UP" =>
        /\ row.st \in Claimed
        /\ prover = row.rider

\* A claimed assignment goes with a rider on the order, so that the job and
\* the backlog scan leave the order alone.
ClaimedHasRider == row.st \in Claimed => rider # Nobody

\* refundOrder credits before it writes: wherever it stops, no order it left
\* as REFUNDED went without its credit.
RefundedWasCredited == status = "REFUNDED" => credits > 0 \/ bare

\* what a running handler relies on
CallInv ==
    \A c \in Calls :
        /\ call[c].pc \in {"consume", "verified", "pickup"} =>
              row.st \in Claimed /\ prover = row.rider
        /\ call[c].pc = "refunded" => credits > 0
        /\ call[c].pc = "setStatus" => call[c].to \in Overrides \cup {"REFUNDED"}
        /\ call[c].pc = "setRider" => call[c].to \in Riders
        /\ call[c].pc = "makeCode" => call[c].to \in {"PICKUP", "DELIVERY"}

RowInv ==
    /\ row.st = "none" <=> row.rider = Nobody
    /\ prover # Nobody => row.st \in Claimed /\ prover = row.rider
    /\ job.st = "read" => job.cand \in Riders
    /\ job.st \in {"queued", "read", "sending"} => job.left > 0

IInv ==
    /\ TypeOK
    /\ RowInv
    /\ CallInv
    /\ CodeBeforePickup
    /\ ClaimedHasRider
    /\ RefundedWasCredited

\* The job moves an order only while it may be offered: what changed between
\* its read and its lock (a cancellation, an administrator's rider) is seen.
OffersOnlyFree ==
    [][job' # job /\ row' # row => status \in Offerable /\ rider = Nobody]_vars

\* Once queued, the job ends in an offer, or the order is not to be offered
\* any more, or all its attempts failed: no failed attempt loses the order.
OfferHappens ==
    job.st = "queued" /\ row.st = "none" ~>
        \/ row.st # "none"
        \/ status \notin Offerable
        \/ rider # Nobody
        \/ job.st = "failed"

=============================================================================
