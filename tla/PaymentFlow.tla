---------------------------- MODULE PaymentFlow ----------------------------
(***************************************************************************)
(* The money of one order draft: its payments rows, the gateway behind     *)
(* them, the order placed from the draft and the auto-reject job.          *)
(*                                                                         *)
(* verifyPayment, the webhook, refund and createPaymentOrder are handlers  *)
(* of autocommitted statements: each reads the payments row once, keeps    *)
(* what it read, and writes later.  A handler is a call with a program     *)
(* counter, cut before each of its writes; it may stop at any of them      *)
(* (a statement fails, the process dies).  handleAutoReject is a           *)
(* transaction that has the orders row locked while it talks to the        *)
(* gateway.  placeOrderFromDraft is one step here: SlotBooking has its     *)
(* locks and its capacity check.                                           *)
(*                                                                         *)
(* Razorpay is external: it captures a payment once, gives back at most    *)
(* what it captured, signs for captured payments only, and delivers its    *)
(* events late, twice, in any order or never.                              *)
(***************************************************************************)
EXTENDS Naturals, FiniteSets

CONSTANTS NPayments, \* bound on the payments created, for model checking
          Amount,    \* what each payment is for, in units a refund can split
          Calls,     \* handlers that can run at the same time
          Attempts   \* attempts of a job of the orders queue (3 in the code)

ASSUME PaymentFlowAssumption ==
    /\ NPayments \in Nat
    /\ Amount \in Nat \ {0}
    /\ Attempts \in Nat \ {0}

Payments == 1 .. NPayments  \* in the order of created_at

VARIABLES captured, \* gateway: payments it has captured
          returned, \* gateway: how much of each it has given back
          row,      \* payments rows
          order,    \* orders.status
          orderPay, \* orders.payment_status
          held,     \* the draft's slot hold is live
          job,      \* the auto-reject job of this order
          call      \* the running handlers

vars == <<captured, returned, row, order, orderPay, held, job, call>>

NoRow == [status |-> "NONE", draft |-> FALSE, linked |-> FALSE,
          refund |-> "none", refundAmt |-> 0]

\* draft: order_draft_id is set; linked: order_id is set
Row == [status    : {"NONE", "PENDING", "PAID", "FAILED", "REFUNDED", "EXPIRED"},
        draft     : BOOLEAN,
        linked    : BOOLEAN,
        refund    : {"none", "PROCESSED", "FAILED"},
        refundAmt : 0 .. Amount]

\* ACCEPTED stands for VENDOR_ACCEPTED and all that follows it, UNSET for NULL
OrderStatus == {"NONE", "WAITING", "ACCEPTED", "VENDOR_REJECTED",
                "AUTO_REJECTED", "PAYMENT_FAILED", "REFUNDED", "UNSET"}

Job == [st     : {"none", "queued", "locked", "refunded", "committed", "dead"},
        p      : 0 .. NPayments,
        result : {"none", "PROCESSED", "FAILED"},
        left   : 0 .. Attempts]

NoJob == [st |-> "none", p |-> 0, result |-> "none", left |-> 0]

Call == [pc     : {"idle", "paid", "reopen", "arm", "finalize",
                   "fail", "failOrder", "dropHold",
                   "refundGateway", "refundRow", "refundOrder",
                   "repayInsert", "repayOrder", "removeJob"},
         by     : {"nobody", "verify", "captured", "failed", "place", "refund", "repay"},
         p      : 0 .. NPayments,
         linked : BOOLEAN,
         amt    : 0 .. Amount]

Idle == [pc |-> "idle", by |-> "nobody", p |-> 0, linked |-> FALSE, amt |-> 0]

TypeOK ==
    /\ captured \in SUBSET Payments
    /\ returned \in [Payments -> 0 .. Amount]
    /\ row \in [Payments -> Row]
    /\ order \in OrderStatus
    /\ orderPay \in {"NONE", "PAID", "FAILED", "REFUNDED"}
    /\ held \in BOOLEAN
    /\ job \in Job
    /\ call \in [Calls -> Call]

-----------------------------------------------------------------------------
Linked == {p \in Payments : row[p].status # "NONE" /\ row[p].linked}

\* findByOrderId: the linked payment created last
Latest(p) == p \in Linked /\ \A q \in Linked : q <= p

NextPayment(p) ==
    /\ row[p].status = "NONE"
    /\ \A q \in Payments : q < p => row[q].status # "NONE"

\* mutant: the auto-reject transaction reads the order without FOR UPDATE
OrderUnlocked == TRUE

\* nobody has the orders row locked
OrderFree == job.st \notin {"locked", "refunded"}

Init ==
    /\ captured = {}
    /\ returned = [p \in Payments |-> 0]
    /\ row = [p \in Payments |-> NoRow]
    /\ order = "NONE"
    /\ orderPay = "NONE"
    /\ held = TRUE
    /\ job = NoJob
    /\ call = [c \in Calls |-> Idle]

-----------------------------------------------------------------------------
(* The gateway and the hold's clock *)

Capture(p) ==
    /\ row[p].status # "NONE"
    /\ p \notin captured
    /\ captured' = captured \cup {p}
    /\ UNCHANGED <<returned, row, order, orderPay, held, job, call>>

\* the hold expires, is released, or goes with another order's rejection
HoldEnds ==
    /\ held
    /\ held' = FALSE
    /\ UNCHANGED <<captured, returned, row, order, orderPay, job, call>>

-----------------------------------------------------------------------------
(* Handlers *)

Begin(c, rec) ==
    /\ call[c].pc = "idle"
    /\ call' = [call EXCEPT ![c] = rec]
    /\ UNCHANGED <<captured, returned, row, order, orderPay, held, job>>

\* go on with the payment of the call
Goto(c, pc) == call' = [call EXCEPT ![c].pc = pc]

\* go on past the test of payment.orderId, which no later statement reads
GotoTested(c, pc) == call' = [call EXCEPT ![c].pc = pc, ![c].linked = FALSE]

\* go on to a statement that needs nothing the call has read
GotoLast(c, pc) == call' = [call EXCEPT ![c] = [Idle EXCEPT !.pc = pc]]

\* the call answers, or it stops: a statement fails or the process dies
Stop(c) ==
    /\ call[c].pc # "idle"
    /\ GotoLast(c, "idle")
    /\ UNCHANGED <<captured, returned, row, order, orderPay, held, job>>

\* createPaymentOrder for the draft
CreatePayment(p) ==
    /\ NextPayment(p)
    /\ row' = [row EXCEPT ![p] = [NoRow EXCEPT !.status = "PENDING", !.draft = TRUE]]
    /\ UNCHANGED <<captured, returned, order, orderPay, held, job, call>>

\* createPaymentOrder for the order: it is read once, before the gateway call
RepayBegin(c) ==
    /\ order # "NONE"
    /\ orderPay # "PAID"
    /\ \A p \in Payments : Latest(p) => row[p].status # "PAID"
    /\ Begin(c, [Idle EXCEPT !.pc = "repayInsert", !.by = "repay"])

RepayInsert(c, p) ==
    /\ call[c].pc = "repayInsert"
    /\ NextPayment(p)
    /\ row' = [row EXCEPT ![p] = [NoRow EXCEPT !.status = "PENDING", !.linked = TRUE]]
    /\ GotoLast(c, "repayOrder")
    /\ UNCHANGED <<captured, returned, order, orderPay, held, job>>

\* updateStatus(orderId, undefined, ...)
RepayOrder(c) ==
    /\ call[c].pc = "repayOrder"
    /\ OrderFree
    /\ order' = "UNSET"
    /\ GotoLast(c, "idle")
    /\ UNCHANGED <<captured, returned, row, orderPay, held, job>>

\* mutant: the signature is not compared
VerifyAny(c, p) ==
    /\ row[p].status # "NONE"
    /\ Begin(c, [pc |-> "paid", by |-> "verify", p |-> p,
                 linked |-> row[p].linked, amt |-> 0])

\* verifyPayment: the signature is right only if the gateway captured p
VerifyBegin(c, p) ==
    /\ row[p].status # "NONE"
    /\ \E good \in BOOLEAN :
          /\ good => p \in captured
          /\ Begin(c, [pc |-> IF good THEN "paid" ELSE "fail", by |-> "verify",
                       p |-> p, linked |-> row[p].linked, amt |-> 0])

\* payment.captured: nothing is done for a payment that is PAID already
CapturedBegin(c, p) ==
    /\ p \in captured
    /\ row[p].status # "PAID"
    /\ Begin(c, [pc |-> "paid", by |-> "captured", p |-> p,
                 linked |-> row[p].linked, amt |-> 0])

\* payment.failed: an attempt to pay p failed, before or after another succeeded
FailedBegin(c, p) ==
    /\ row[p].status # "NONE"
    /\ Begin(c, [pc |-> "fail", by |-> "failed", p |-> p,
                 linked |-> row[p].linked, amt |-> 0])

MarkPaid(c) ==
    LET k == call[c]
    IN  /\ k.pc = "paid"
        /\ row' = [row EXCEPT ![k.p].status = "PAID"]
        /\ IF k.by = "captured"
           THEN GotoTested(c, "finalize")
           ELSE GotoLast(c, IF k.linked THEN "reopen" ELSE "idle")
        /\ UNCHANGED <<captured, returned, order, orderPay, held, job>>

\* the order goes to WAITING_VENDOR_CONFIRMATION, whatever its status is
ReopenOrder(c) ==
    /\ call[c].pc = "reopen"
    /\ OrderFree
    /\ order' = "WAITING"
    /\ orderPay' = "PAID"
    /\ GotoLast(c, "arm")
    /\ UNCHANGED <<captured, returned, row, held, job>>

\* orderQueue.add: a job with this id that is still known makes it a no-op
ArmAutoReject(c) ==
    /\ call[c].pc = "arm"
    /\ job' = IF job.st = "none"
              THEN [NoJob EXCEPT !.st = "queued", !.left = Attempts - 1]
              ELSE job
    /\ GotoLast(c, "idle")
    /\ UNCHANGED <<captured, returned, row, order, orderPay, held>>

MarkFailed(c) ==
    LET k == call[c]
    IN  /\ k.pc = "fail"
        /\ row' = [row EXCEPT ![k.p].status = "FAILED"]
        /\ IF k.linked
           THEN GotoTested(c, "failOrder")
           ELSE GotoLast(c, IF row[k.p].draft THEN "dropHold" ELSE "idle")
        /\ UNCHANGED <<captured, returned, order, orderPay, held, job>>

FailOrder(c) ==
    /\ call[c].pc = "failOrder"
    /\ OrderFree
    /\ order' = "PAYMENT_FAILED"
    /\ orderPay' = "FAILED"
    /\ GotoLast(c, IF row[call[c].p].draft THEN "dropHold" ELSE "idle")
    /\ UNCHANGED <<captured, returned, row, held, job>>

\* _releaseSlotHold
DropHold(c) ==
    /\ call[c].pc = "dropHold"
    /\ held' = FALSE
    /\ GotoLast(c, "idle")
    /\ UNCHANGED <<captured, returned, row, order, orderPay, job>>

-----------------------------------------------------------------------------
(* placeOrderFromDraft, called by the customer or by payment.captured *)

\* mutant: the placement does not look for a PAID payment
PaidForDraftAny == {p \in Payments : row[p].status # "NONE" /\ row[p].draft}

PaidForDraft == {p \in Payments : row[p].status = "PAID" /\ row[p].draft}

PlaceBegin(c) ==
    /\ order = "NONE"
    /\ Begin(c, [Idle EXCEPT !.pc = "finalize", !.by = "place"])

\* mutant: neither the primary key nor the used hold stops a second placement
CanPlaceAgain(c) ==
    /\ call[c].by = "captured" => row[call[c].p].draft
    /\ PaidForDraft # {}

\* the webhook of a payment made for the order passes no draft id
CanPlace(c) ==
    /\ call[c].by = "captured" => row[call[c].p].draft
    /\ order = "NONE"
    /\ held
    /\ PaidForDraft # {}

Place(c, p) ==
    /\ call[c].pc = "finalize"
    /\ CanPlace(c)
    /\ p \in PaidForDraft
    /\ order' = "WAITING"
    /\ orderPay' = "PAID"
    /\ row' = [row EXCEPT ![p].linked = TRUE]
    /\ held' = FALSE
    /\ GotoLast(c, "idle")
    /\ UNCHANGED <<captured, returned, job>>

\* PAYMENT_PENDING, HOLD_EXPIRED or the order exists; the webhook only logs it
PlaceRefuse(c) ==
    /\ call[c].pc = "finalize"
    /\ ~ CanPlace(c)
    /\ GotoLast(c, "idle")
    /\ UNCHANGED <<captured, returned, row, order, orderPay, held, job>>

-----------------------------------------------------------------------------
(* PaymentsService.refund, by an administrator *)

RefundBegin(c, p, amt) ==
    /\ row[p].status = "PAID"
    /\ amt \in 1 .. Amount
    /\ Begin(c, [pc |-> "refundGateway", by |-> "refund", p |-> p,
                 linked |-> row[p].linked, amt |-> amt])

\* the gateway gives the money back; its answer may be lost, which the caller
\* cannot tell from a refusal
RefundGateway(c) ==
    LET k == call[c]
    IN  /\ k.pc = "refundGateway"
        /\ returned[k.p] + k.amt <= Amount
        /\ returned' = [returned EXCEPT ![k.p] = @ + k.amt]
        /\ \/ Goto(c, "refundRow")
           \/ GotoLast(c, "idle")
        /\ UNCHANGED <<captured, row, order, orderPay, held, job>>

RefundRow(c) ==
    LET k == call[c]
    IN  /\ k.pc = "refundRow"
        /\ row' = [row EXCEPT ![k.p].status = "REFUNDED",
                              ![k.p].refund = "PROCESSED",
                              ![k.p].refundAmt = k.amt]
        /\ GotoLast(c, IF k.linked THEN "refundOrder" ELSE "idle")
        /\ UNCHANGED <<captured, returned, order, orderPay, held, job>>

RefundOrder(c) ==
    /\ call[c].pc = "refundOrder"
    /\ OrderFree
    /\ order' = "REFUNDED"
    /\ orderPay' = "REFUNDED"
    /\ GotoLast(c, "idle")
    /\ UNCHANGED <<captured, returned, row, held, job>>

-----------------------------------------------------------------------------
(* The vendor *)

VendorAccept(c) ==
    /\ call[c].pc = "idle"
    /\ order \in {"WAITING", "ACCEPTED"}
    /\ OrderFree
    /\ order' = "ACCEPTED"
    /\ GotoLast(c, "removeJob")
    /\ UNCHANGED <<captured, returned, row, orderPay, held, job>>

VendorReject(c) ==
    /\ call[c].pc = "idle"
    /\ order \in {"WAITING", "VENDOR_REJECTED"}
    /\ OrderFree
    /\ order' = "VENDOR_REJECTED"
    /\ held' = FALSE
    /\ GotoLast(c, "removeJob")
    /\ UNCHANGED <<captured, returned, row, orderPay, job>>

\* after COMMIT; a job that is running cannot be removed
RemoveJob(c) ==
    /\ call[c].pc = "removeJob"
    /\ job' = IF job.st \in {"queued", "dead"} THEN NoJob ELSE job
    /\ GotoLast(c, "idle")
    /\ UNCHANGED <<captured, returned, row, order, orderPay, held>>

-----------------------------------------------------------------------------
(* handleAutoReject *)

SetJob(rec) ==
    /\ job' = rec
    /\ UNCHANGED <<captured, row, order, orderPay, held, call>>

\* the order is no longer waiting: the job completes
JobSkip ==
    /\ job.st = "queued"
    /\ order # "WAITING"
    /\ SetJob(NoJob)
    /\ UNCHANGED returned

\* BEGIN; lock the order; find its PAID payment, if there is one
JobLock ==
    LET paid == {p \in Linked : row[p].status = "PAID"}
    IN  /\ job.st = "queued"
        /\ order = "WAITING"
        /\ \E p \in IF paid = {} THEN {0} ELSE paid :
              SetJob([job EXCEPT !.st = IF p = 0 THEN "refunded" ELSE "locked",
                                 !.p = p, !.result = "none"])
        /\ UNCHANGED returned

\* mutant: a refund that the gateway refused is recorded as PROCESSED
JobRefundAlways ==
    /\ job.st = "locked"
    /\ SetJob([job EXCEPT !.st = "refunded", !.result = "PROCESSED"])
    /\ UNCHANGED returned

\* the external refund of the whole payment, inside the transaction: given
\* back, refused (some of it has been given back before), or no answer
JobRefund ==
    /\ job.st = "locked"
    /\ \/ /\ returned[job.p] = 0
          /\ returned' = [returned EXCEPT ![job.p] = Amount]
          /\ \E r \in {"PROCESSED", "FAILED"} :
                SetJob([job EXCEPT !.st = "refunded", !.result = r])
       \/ /\ SetJob([job EXCEPT !.st = "refunded", !.result = "FAILED"])
          /\ UNCHANGED returned

\* COMMIT
JobCommit ==
    /\ job.st = "refunded"
    /\ order' = "AUTO_REJECTED"
    /\ orderPay' = "REFUNDED"
    /\ row' = IF job.p = 0 THEN row
              ELSE [row EXCEPT ![job.p].status = "REFUNDED",
                               ![job.p].refund = job.result,
                               ![job.p].refundAmt = Amount]
    /\ job' = [NoJob EXCEPT !.st = "committed", !.left = job.left]
    /\ UNCHANGED <<captured, returned, held, call>>

\* the job completes and its id is free again
JobFinish ==
    /\ job.st = "committed"
    /\ SetJob(NoJob)
    /\ UNCHANGED returned

\* mutant: a job that fails is dropped
JobFailDropped ==
    /\ job.st \in {"locked", "refunded", "committed"}
    /\ SetJob(NoJob)
    /\ UNCHANGED returned

\* ROLLBACK (unless committed) and try again, while there are attempts left
JobFail ==
    /\ job.st \in {"locked", "refunded", "committed"}
    /\ SetJob(IF job.left > 0
              THEN [NoJob EXCEPT !.st = "queued", !.left = job.left - 1]
              ELSE [NoJob EXCEPT !.st = "dead"])
    /\ UNCHANGED returned

-----------------------------------------------------------------------------
(* The payment-expiry worker.  It takes up to twenty payments in one        *)
(* transaction; here each is a step, which allows more interleavings.  It   *)
(* finds no order for a payment that is not linked and leaves the row as it *)
(* is; it cancels orders in status PENDING only, and an order placed from a *)
(* draft is never PENDING.                                                  *)

ExpirePayment(p) ==
    /\ row[p].status = "PENDING"
    /\ row[p].linked
    /\ OrderFree
    /\ row' = [row EXCEPT ![p].status = "EXPIRED"]
    /\ UNCHANGED <<captured, returned, order, orderPay, held, job, call>>

-----------------------------------------------------------------------------
CallStep(c) ==
    \/ MarkPaid(c)
    \/ ReopenOrder(c)
    \/ ArmAutoReject(c)
    \/ MarkFailed(c)
    \/ FailOrder(c)
    \/ DropHold(c)
    \/ RefundGateway(c)
    \/ RefundRow(c)
    \/ RefundOrder(c)
    \/ RepayOrder(c)
    \/ RemoveJob(c)
    \/ PlaceRefuse(c)
    \/ \E p \in Payments : RepayInsert(c, p) \/ Place(c, p)

JobStep == JobSkip \/ JobLock \/ JobRefund \/ JobCommit \/ JobFinish

Next ==
    \/ HoldEnds
    \/ \E c \in Calls :
          \/ CallStep(c)
          \/ Stop(c)
          \/ PlaceBegin(c)
          \/ RepayBegin(c)
          \/ VendorAccept(c)
          \/ VendorReject(c)
          \/ \E p \in Payments :
                \/ VerifyBegin(c, p)
                \/ CapturedBegin(c, p)
                \/ FailedBegin(c, p)
                \/ \E amt \in 1 .. Amount : RefundBegin(c, p, amt)
    \/ \E p \in Payments :
          \/ Capture(p)
          \/ CreatePayment(p)
          \/ ExpirePayment(p)
    \/ JobStep
    \/ JobFail

Spec == Init /\ [][Next]_vars

\* the orders worker has a process of its own and a delayed job comes due; a
\* handler goes on until it answers or stops
Fairness == /\ WF_vars(JobStep)
            /\ \A c \in Calls : WF_vars(CallStep(c))

FairSpec == Spec /\ Fairness

-----------------------------------------------------------------------------
(* Properties *)

\* Whoever is told that a payment is good, or that it can be refunded, is told
\* so of money the gateway has: what is PAID or REFUNDED was captured, and so
\* was whatever a call or the job is about to mark so.
PaidIsCaptured ==
    /\ \A p \in Payments : row[p].status \in {"PAID", "REFUNDED"} => p \in captured
    /\ \A c \in Calls :
          call[c].pc \in {"paid", "refundGateway", "refundRow"} => call[c].p \in captured
    /\ job.p # 0 => job.p \in captured

\* There is an order only if a payment linked to it was captured, whichever of
\* the customer and the webhook placed it and whatever failed afterwards.
OrderPaidFor ==
    order # "NONE" => \E p \in Linked : p \in captured

\* A draft's order has one of the draft's payments, however many were made and
\* captured and whoever placed it.
OneDraftPaymentLinked ==
    /\ \A p, q \in Linked : row[p].draft /\ row[q].draft => p = q
    /\ order = "NONE" => Linked = {}

\* refund_status PROCESSED is never a lie: the gateway gave back at least the
\* amount the row shows, with two administrators and the job refunding at
\* the same time, retries and lost answers.
RefundReal ==
    /\ \A p \in Payments : row[p].refund = "PROCESSED" => returned[p] >= row[p].refundAmt
    /\ \A c \in Calls : call[c].pc = "refundRow" => returned[call[c].p] >= call[c].amt
    /\ job.result = "PROCESSED" => job.p # 0 /\ returned[job.p] >= Amount

\* What the proofs carry from state to state: the properties above, and where
\* the payments of the running calls and of the job come from.
KnownPayments ==
    /\ \A p \in captured : row[p].status # "NONE"
    /\ \A c \in Calls :
          /\ call[c].pc \in {"paid", "fail", "failOrder", "refundGateway", "refundRow"} =>
                call[c].p \in Payments /\ row[call[c].p].status # "NONE"
          /\ call[c].by = "captured" => call[c].p \in Payments
          /\ call[c].linked => order # "NONE"
          /\ call[c].pc \in {"repayInsert", "repayOrder", "reopen", "failOrder",
                             "refundOrder"} => order # "NONE"
    /\ job.st \in {"locked", "refunded"} => order = "WAITING"
    /\ job.st = "locked" => job.p \in Payments
    /\ job.p # 0 => row[job.p].status # "NONE"

IInv ==
    /\ TypeOK
    /\ KnownPayments
    /\ PaidIsCaptured
    /\ OrderPaidFor
    /\ OneDraftPaymentLinked
    /\ RefundReal

\* The auto-reject job never takes an order that the vendor has accepted,
\* however late the acceptance comes.
AcceptedNotRejected ==
    [][order = "ACCEPTED" => order' \notin {"AUTO_REJECTED", "VENDOR_REJECTED"}]_vars

\* An order that waits for its vendor with the timer armed does not wait
\* forever, if the job has attempts left when it comes through and no vendor's
\* answer is about to remove the timer.
AutoRejectHappens ==
    /\ order = "WAITING"
    /\ job.st = "queued"
    /\ \A c \in Calls : call[c].pc # "removeJob"
    ~> order # "WAITING" \/ job.st = "dead"

-----------------------------------------------------------------------------
(* A claim of the code's comments that its steps do not keep. *)

\* "Auto-reject WAITING_VENDOR_CONFIRMATION orders after 15 minutes": when no
\* handler has anything left to do, an order that waits has a timer running.
WaitingHasTimer ==
    order = "WAITING" /\ (\A c \in Calls : call[c].pc = "idle") => job.st # "none"

=============================================================================
