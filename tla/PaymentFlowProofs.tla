------------------------- MODULE PaymentFlowProofs -------------------------
(***************************************************************************)
(* Proofs about PaymentFlow, for every number of payments, amount, set of  *)
(* concurrent handlers and number of attempts of the auto-reject job.      *)
(*                                                                         *)
(* IInv is cut into what it says of a payments row, of a running call, of  *)
(* the job and of the order.  The first three are stable: they survive     *)
(* every step in which rows, captures and refunds only grow, so a step has *)
(* to be looked at only for the record it writes.                          *)
(***************************************************************************)
EXTENDS PaymentFlow, TLAPS

-----------------------------------------------------------------------------
(* The parts of the invariant *)

GatewayTyped(cap, ret) == cap \in SUBSET Payments /\ ret \in [Payments -> 0 .. Amount]

OrderTyped == /\ order \in OrderStatus
              /\ orderPay \in {"NONE", "PAID", "FAILED", "REFUNDED"}
              /\ held \in BOOLEAN

\* what IInv says of the row r of payment p
RowGood(p, r, cap, ret) ==
    /\ r \in Row
    /\ p \in cap => r.status # "NONE"
    /\ r.status \in {"PAID", "REFUNDED"} => p \in cap
    /\ r.refund = "PROCESSED" => ret[p] >= r.refundAmt

\* what IInv says of a call whose record is k
CallGood(k, rows, ord, cap, ret) ==
    /\ k \in Call
    /\ k.pc \in {"paid", "fail", "failOrder", "refundGateway", "refundRow"} =>
          k.p \in Payments /\ rows[k.p].status # "NONE"
    /\ k.by = "captured" => k.p \in Payments
    /\ k.linked => ord # "NONE"
    /\ k.pc \in {"repayInsert", "repayOrder", "reopen", "failOrder", "refundOrder"} =>
          ord # "NONE"
    /\ k.pc \in {"paid", "refundGateway", "refundRow"} => k.p \in cap
    /\ k.pc = "refundRow" => ret[k.p] >= k.amt

\* what IInv says of the job's record j
JobGood(j, rows, ord, cap, ret) ==
    /\ j \in Job
    /\ j.st \in {"locked", "refunded"} => ord = "WAITING"
    /\ j.st = "locked" => j.p \in Payments
    /\ j.p # 0 => rows[j.p].status # "NONE" /\ j.p \in cap
    /\ j.result = "PROCESSED" => j.p # 0 /\ ret[j.p] >= Amount

\* IInv is the conjunction of its parts.
LEMMA Parts ==
    IInv <=> /\ GatewayTyped(captured, returned)
             /\ OrderTyped
             /\ row = [p \in Payments |-> row[p]]
             /\ \A p \in Payments : RowGood(p, row[p], captured, returned)
             /\ call = [c \in Calls |-> call[c]]
             /\ \A c \in Calls : CallGood(call[c], row, order, captured, returned)
             /\ JobGood(job, row, order, captured, returned)
             /\ OrderPaidFor
             /\ OneDraftPaymentLinked
BY DEF IInv, TypeOK, KnownPayments, PaidIsCaptured, RefundReal,
       GatewayTyped, OrderTyped, RowGood, CallGood, JobGood

-----------------------------------------------------------------------------
(* Stability *)

\* Rows are not deleted, an order is not deleted, captures are made of existing
\* payments and not undone, and what was given back is not taken again.
Grows ==
    /\ \A p \in Payments : row[p].status # "NONE" => row'[p].status # "NONE"
    /\ order # "NONE" => order' # "NONE"
    /\ captured \subseteq captured'
    /\ \A p \in captured' : p \in captured \/ row[p].status # "NONE"
    /\ \A p \in Payments : returned'[p] \in Nat /\ returned'[p] >= returned[p]

\* What was true of a call stays true of it.
LEMMA CallStable ==
    ASSUME GatewayTyped(captured, returned), Grows, NEW k,
           CallGood(k, row, order, captured, returned)
    PROVE  CallGood(k, row', order', captured', returned')
<1>1. k.pc = "refundRow" => returned'[k.p] >= k.amt
    <2> SUFFICES ASSUME k.pc = "refundRow" PROVE returned'[k.p] >= k.amt
        OBVIOUS
    <2>1. k.p \in Payments /\ returned[k.p] >= k.amt /\ k.amt \in Nat
        BY DEF CallGood, Call
    <2>2. returned'[k.p] >= returned[k.p] /\ returned[k.p] \in Nat /\ returned'[k.p] \in Nat
        BY <2>1 DEF Grows, GatewayTyped
    <2> QED BY <2>1, <2>2
<1> QED BY <1>1 DEF CallGood, Grows

\* What was true of a row stays true of it.
LEMMA RowStable ==
    ASSUME GatewayTyped(captured, returned), Grows, NEW p \in Payments,
           RowGood(p, row[p], captured, returned)
    PROVE  RowGood(p, row[p], captured', returned')
<1>1. returned'[p] >= returned[p] /\ returned[p] \in Nat /\ returned'[p] \in Nat
    BY DEF Grows, GatewayTyped
<1>2. row[p] \in Row /\ row[p].refundAmt \in Nat
    BY DEF RowGood, Row
<1> QED BY <1>1, <1>2 DEF RowGood, Grows

\* What was true of the job stays true of it, if the order it has locked is
\* left alone.
LEMMA JobStable ==
    ASSUME GatewayTyped(captured, returned), Grows, PaymentFlowAssumption, NEW j,
           JobGood(j, row, order, captured, returned),
           j.st \in {"locked", "refunded"} => order' = order
    PROVE  JobGood(j, row', order', captured', returned')
<1>1. j \in Job /\ j.p \in 0 .. NPayments
    BY DEF JobGood, Job
<1>2. ASSUME j.p # 0
      PROVE  /\ j.p \in Payments
             /\ returned'[j.p] >= returned[j.p]
             /\ returned[j.p] \in Nat
             /\ returned'[j.p] \in Nat
             /\ Amount \in Nat
    <2>1. j.p \in Payments
        BY <1>1, <1>2, PaymentFlowAssumption DEF Payments
    <2> QED BY <2>1, PaymentFlowAssumption DEF Grows, GatewayTyped
<1>3. j.result = "PROCESSED" => j.p # 0 /\ returned'[j.p] >= Amount
    BY <1>2 DEF JobGood
<1>4. j.p # 0 => row'[j.p].status # "NONE" /\ j.p \in captured'
    BY <1>2 DEF JobGood, Grows
<1> QED BY <1>1, <1>3, <1>4 DEF JobGood

-----------------------------------------------------------------------------
(* Frames: what is left to show of a step, by what it writes *)

\* The parts, all true after a step, make the invariant true after it.
LEMMA PartsNext ==
    ASSUME GatewayTyped(captured', returned'),
           OrderTyped',
           row' = [p \in Payments |-> row'[p]],
           \A p \in Payments : RowGood(p, row'[p], captured', returned'),
           call' = [c \in Calls |-> call'[c]],
           \A c \in Calls : CallGood(call'[c], row', order', captured', returned'),
           JobGood(job', row', order', captured', returned'),
           OrderPaidFor',
           OneDraftPaymentLinked'
    PROVE  IInv'
BY DEF IInv, TypeOK, KnownPayments, PaidIsCaptured, RefundReal,
       GatewayTyped, OrderTyped, RowGood, CallGood, JobGood

\* A step that leaves every row's link as it is, and the order placed or not
\* placed as it was, keeps what is said of the order's payments.
LEMMA LinksKept ==
    ASSUME IInv,
           \A p \in Payments : /\ row'[p].linked = row[p].linked
                               /\ row'[p].draft = row[p].draft
                               /\ row'[p].status = "NONE" <=> row[p].status = "NONE",
           order' = "NONE" <=> order = "NONE",
           captured \subseteq captured'
    PROVE  OrderPaidFor' /\ OneDraftPaymentLinked'
<1>1. Linked' = Linked
    BY DEF Linked
<1>2. Linked \subseteq Payments
    BY DEF Linked
<1>3. OrderPaidFor'
    BY <1>1 DEF IInv, OrderPaidFor
<1>4. \A p, q \in Linked' : row'[p].draft /\ row'[q].draft => p = q
    BY <1>1, <1>2 DEF IInv, OneDraftPaymentLinked
<1> QED BY <1>1, <1>3, <1>4 DEF IInv, OneDraftPaymentLinked

\* A step of one call that writes no row, capture or refund: the call's new
\* record has to be good, and the order's new status must not fall back to
\* "no order" nor change while the job has the order locked.
LEMMA CallWrites ==
    ASSUME PaymentFlowAssumption, IInv, NEW c \in Calls, NEW k,
           call' = [call EXCEPT ![c] = k],
           CallGood(k, row, order', captured, returned),
           OrderTyped',
           order' = "NONE" <=> order = "NONE",
           order' = order \/ OrderFree,
           UNCHANGED <<captured, returned, row, job>>
    PROVE  IInv'
<1>1. /\ GatewayTyped(captured, returned)
      /\ GatewayTyped(captured', returned')
      /\ row' = [p \in Payments |-> row'[p]]
      /\ \A p \in Payments : RowGood(p, row'[p], captured', returned')
      /\ call = [d \in Calls |-> call[d]]
      /\ \A d \in Calls : CallGood(call[d], row, order, captured, returned)
      /\ JobGood(job, row, order, captured, returned)
    BY Parts
<1>2. Grows
    BY <1>1, PaymentFlowAssumption DEF Grows, GatewayTyped
<1>3. \A d \in Calls : CallGood(call'[d], row', order', captured', returned')
    <2> TAKE d \in Calls
    <2>1. CASE d = c
        BY <2>1, <1>1
    <2>2. CASE d # c
        BY <2>2, <1>1, <1>2, CallStable
    <2> QED BY <2>1, <2>2
<1>4. call' = [d \in Calls |-> call'[d]]
    BY <1>1
<1>5. JobGood(job', row', order', captured', returned')
    BY <1>1, <1>2, JobStable DEF OrderFree
<1>6. OrderPaidFor' /\ OneDraftPaymentLinked'
    BY LinksKept
<1> QED BY <1>1, <1>3, <1>4, <1>5, <1>6, PartsNext

\* A step of one call that rewrites one payments row and neither links nor
\* unlinks it: the new row and the new record have to be good.
LEMMA CallWritesRow ==
    ASSUME PaymentFlowAssumption, IInv, NEW c \in Calls, NEW k, NEW p \in Payments, NEW r,
           call' = [call EXCEPT ![c] = k],
           row' = [row EXCEPT ![p] = r],
           row[p].status # "NONE", r.status # "NONE",
           r.linked = row[p].linked, r.draft = row[p].draft,
           CallGood(k, row', order, captured, returned),
           RowGood(p, r, captured, returned),
           UNCHANGED <<captured, returned, order, orderPay, held, job>>
    PROVE  IInv'
<1>1. /\ GatewayTyped(captured, returned)
      /\ GatewayTyped(captured', returned')
      /\ row = [q \in Payments |-> row[q]]
      /\ \A q \in Payments : RowGood(q, row[q], captured, returned)
      /\ call = [d \in Calls |-> call[d]]
      /\ \A d \in Calls : CallGood(call[d], row, order, captured, returned)
      /\ JobGood(job, row, order, captured, returned)
      /\ OrderTyped
    BY Parts
<1>2. \A q \in Payments : row'[q] = IF q = p THEN r ELSE row[q]
    BY <1>1
<1>3. Grows
    BY <1>1, <1>2, PaymentFlowAssumption DEF Grows, GatewayTyped
<1>4. \A d \in Calls : CallGood(call'[d], row', order', captured', returned')
    <2> TAKE d \in Calls
    <2>1. CASE d = c
        BY <2>1, <1>1
    <2>2. CASE d # c
        BY <2>2, <1>1, <1>3, CallStable
    <2> QED BY <2>1, <2>2
<1>5. /\ call' = [d \in Calls |-> call'[d]]
      /\ row' = [q \in Payments |-> row'[q]]
    BY <1>1
<1>6. \A q \in Payments : RowGood(q, row'[q], captured', returned')
    BY <1>1, <1>2
<1>7. JobGood(job', row', order', captured', returned')
    BY <1>1, <1>3, JobStable
<1>8. OrderPaidFor' /\ OneDraftPaymentLinked'
    BY <1>2, LinksKept
<1>9. OrderTyped'
    BY <1>1 DEF OrderTyped
<1> QED BY <1>1, <1>4, <1>5, <1>6, <1>7, <1>8, <1>9, PartsNext

-----------------------------------------------------------------------------
(* The steps *)

\* The initial state has no row, no order and no call.
LEMMA InvInit == Init => IInv
<1> SUFFICES ASSUME Init PROVE IInv
    OBVIOUS
<1>1. Linked = {}
    BY DEF Init, Linked, NoRow
<1>2. /\ GatewayTyped(captured, returned)
      /\ \A p \in Payments : RowGood(p, row[p], captured, returned)
    BY PaymentFlowAssumption DEF Init, GatewayTyped, RowGood, Row, NoRow
<1>3. /\ OrderTyped
      /\ \A c \in Calls : CallGood(call[c], row, order, captured, returned)
      /\ JobGood(job, row, order, captured, returned)
    BY PaymentFlowAssumption
       DEF Init, OrderTyped, OrderStatus, CallGood, Call, Idle, JobGood, Job, NoJob
<1>4. OrderPaidFor /\ OneDraftPaymentLinked
    BY <1>1 DEF Init, OrderPaidFor, OneDraftPaymentLinked
<1> QED BY <1>1, <1>2, <1>3, <1>4, Parts DEF Init

\* An idle call is a well-typed call.
LEMMA IdleCall ==
    ASSUME PaymentFlowAssumption
    PROVE  Idle \in Call /\ Idle.by = "nobody" /\ Idle.linked = FALSE
BY DEF PaymentFlowAssumption, Call, Idle

\* The record of a call that needs nothing the call has read is good, if there
\* is an order where the statement it goes to writes one.
LEMMA LastGood ==
    ASSUME PaymentFlowAssumption, NEW rows, NEW ord, NEW cap, NEW ret,
           NEW pc \in {"idle", "reopen", "arm", "finalize", "dropHold", "refundOrder",
                       "repayInsert", "repayOrder", "removeJob"},
           pc \in {"reopen", "refundOrder", "repayInsert", "repayOrder"} => ord # "NONE"
    PROVE  CallGood([Idle EXCEPT !.pc = pc], rows, ord, cap, ret)
<1> DEFINE k == [Idle EXCEPT !.pc = pc]
<1>1. k \in Call /\ k.pc = pc /\ k.by = Idle.by /\ k.linked = Idle.linked
    BY IdleCall DEF Call
<1> HIDE DEF k
<1>2. CallGood(k, rows, ord, cap, ret)
    BY <1>1, IdleCall DEF CallGood
<1> QED BY <1>2 DEF k

\* A payment's row says that it is linked only once there is an order.
LEMMA LinkedHasOrder ==
    ASSUME IInv, NEW p \in Payments, row[p].status # "NONE", row[p].linked
    PROVE  order # "NONE"
BY DEF IInv, OneDraftPaymentLinked, Linked

\* A handler that begins has read a row that exists, and takes a payment for
\* captured only if the gateway or the row says so.
LEMMA StepBegin ==
    ASSUME PaymentFlowAssumption, IInv, NEW c \in Calls,
           \/ Stop(c)
           \/ PlaceBegin(c)
           \/ RepayBegin(c)
           \/ \E p \in Payments :
                 \/ VerifyBegin(c, p)
                 \/ CapturedBegin(c, p)
                 \/ FailedBegin(c, p)
                 \/ \E amt \in 1 .. Amount : RefundBegin(c, p, amt)
    PROVE  IInv'
<1>1. OrderTyped /\ \A p \in Payments : RowGood(p, row[p], captured, returned)
    BY Parts
<1>w. ASSUME NEW k, CallGood(k, row, order, captured, returned),
             call' = [call EXCEPT ![c] = k],
             UNCHANGED <<captured, returned, row, order, orderPay, held, job>>
      PROVE  IInv'
    <2>1. OrderTyped'
        BY <1>1, <1>w DEF OrderTyped
    <2>2. CallGood(k, row, order', captured, returned)
        BY <1>w
    <2> QED BY <1>w, <2>1, <2>2, CallWrites
<1>2. CASE Stop(c)
    <2>1. CallGood([Idle EXCEPT !.pc = "idle"], row, order, captured, returned)
        BY LastGood
    <2> QED BY <1>2, <1>w, <2>1 DEF Stop, GotoLast
<1>3. CASE PlaceBegin(c)
    <2> DEFINE k == [Idle EXCEPT !.pc = "finalize", !.by = "place"]
    <2>1. k \in Call /\ k.pc = "finalize" /\ k.by = "place" /\ k.linked = FALSE
        BY IdleCall DEF Call
    <2> HIDE DEF k
    <2>2. CallGood(k, row, order, captured, returned)
        BY <2>1 DEF CallGood
    <2> QED BY <1>3, <1>w, <2>2 DEF PlaceBegin, Begin, k
<1>4. CASE RepayBegin(c)
    <2> DEFINE k == [Idle EXCEPT !.pc = "repayInsert", !.by = "repay"]
    <2>1. k \in Call /\ k.pc = "repayInsert" /\ k.by = "repay" /\ k.linked = FALSE
        BY IdleCall DEF Call
    <2> HIDE DEF k
    <2>2. CallGood(k, row, order, captured, returned)
        BY <1>4, <2>1 DEF RepayBegin, CallGood
    <2> QED BY <1>4, <1>w, <2>2 DEF RepayBegin, Begin, k
<1>5. ASSUME NEW p \in Payments, NEW pc, NEW by, NEW amt \in 0 .. Amount,
             pc \in {"paid", "fail", "refundGateway"},
             by \in {"verify", "captured", "failed", "refund"},
             row[p].status # "NONE",
             pc # "fail" => p \in captured,
             Begin(c, [pc |-> pc, by |-> by, p |-> p, linked |-> row[p].linked,
                       amt |-> amt])
      PROVE  IInv'
    <2> DEFINE k == [pc |-> pc, by |-> by, p |-> p, linked |-> row[p].linked, amt |-> amt]
    <2>1. row[p].linked \in BOOLEAN /\ p \in 0 .. NPayments
        BY <1>1, PaymentFlowAssumption DEF RowGood, Row, Payments
    <2>2. k \in Call
        BY <1>5, <2>1 DEF Call
    <2>3. CallGood(k, row, order, captured, returned)
        BY <1>5, <2>2, LinkedHasOrder DEF CallGood
    <2> QED BY <1>5, <1>w, <2>3 DEF Begin
<1>6. ASSUME NEW p \in Payments, VerifyBegin(c, p) PROVE IInv'
    <2>1. PICK good \in BOOLEAN :
             /\ good => p \in captured
             /\ Begin(c, [pc |-> IF good THEN "paid" ELSE "fail", by |-> "verify",
                          p |-> p, linked |-> row[p].linked, amt |-> 0])
        BY <1>6 DEF VerifyBegin
    <2>2. row[p].status # "NONE" /\ 0 \in 0 .. Amount
        BY <1>6, PaymentFlowAssumption DEF VerifyBegin
    <2>3. CASE good
        BY <1>5, <2>1, <2>2, <2>3
    <2>4. CASE ~ good
        BY <1>5, <2>1, <2>2, <2>4
    <2> QED BY <2>3, <2>4
<1>7. ASSUME NEW p \in Payments, CapturedBegin(c, p) \/ FailedBegin(c, p) PROVE IInv'
    <2>1. 0 \in 0 .. Amount
        BY PaymentFlowAssumption
    <2>2. CASE FailedBegin(c, p)
        BY <2>1, <2>2, <1>5 DEF FailedBegin
    <2>3. CASE CapturedBegin(c, p)
        <3>1. row[p].status # "NONE"
            BY <2>3, <1>1 DEF CapturedBegin, RowGood
        <3> QED BY <2>1, <2>3, <3>1, <1>5 DEF CapturedBegin
    <2> QED BY <1>7, <2>2, <2>3
<1>8. ASSUME NEW p \in Payments, NEW amt \in 1 .. Amount, RefundBegin(c, p, amt)
      PROVE  IInv'
    <2>1. row[p].status = "PAID" /\ p \in captured
        BY <1>1, <1>8 DEF RefundBegin, RowGood
    <2>2. amt \in 0 .. Amount
        BY PaymentFlowAssumption
    <2> QED BY <1>5, <1>8, <2>1, <2>2 DEF RefundBegin
<1> QED BY <1>2, <1>3, <1>4, <1>6, <1>7, <1>8

\* What a call's record is after Goto and after GotoTested.
LEMMA GotoRecord ==
    ASSUME IInv, NEW c \in Calls,
           NEW pc \in {"finalize", "failOrder", "refundRow"},
           NEW tested \in BOOLEAN,
           IF tested THEN GotoTested(c, pc) ELSE Goto(c, pc)
    PROVE  \E k \in Call : /\ call' = [call EXCEPT ![c] = k]
                           /\ k.pc = pc
                           /\ k.by = call[c].by
                           /\ k.p = call[c].p
                           /\ k.amt = call[c].amt
                           /\ k.linked => call[c].linked
<1>1. call[c] \in Call /\ call = [d \in Calls |-> call[d]]
    BY Parts DEF CallGood
<1>2. CASE tested
    <2> DEFINE k == [call[c] EXCEPT !.pc = pc, !.linked = FALSE]
    <2>1. /\ k \in Call
          /\ k.pc = pc /\ k.by = call[c].by /\ k.p = call[c].p /\ k.amt = call[c].amt
          /\ k.linked = FALSE
        BY <1>1 DEF Call
    <2>2. call' = [call EXCEPT ![c] = k]
        BY <1>1, <1>2 DEF GotoTested
    <2> HIDE DEF k
    <2> QED BY <2>1, <2>2
<1>3. CASE ~ tested
    <2> DEFINE k == [call[c] EXCEPT !.pc = pc]
    <2>1. /\ k \in Call
          /\ k.pc = pc /\ k.by = call[c].by /\ k.p = call[c].p /\ k.amt = call[c].amt
          /\ k.linked = call[c].linked
        BY <1>1 DEF Call
    <2>2. call' = [call EXCEPT ![c] = k]
        BY <1>1, <1>3 DEF Goto
    <2> HIDE DEF k
    <2> QED BY <2>1, <2>2
<1> QED BY <1>2, <1>3

\* The statements of a handler on the payments row: the row it wrote is good.
LEMMA StepRow ==
    ASSUME PaymentFlowAssumption, IInv, NEW c \in Calls,
           MarkPaid(c) \/ MarkFailed(c) \/ RefundRow(c)
    PROVE  IInv'
<1> DEFINE p == call[c].p
<1>1. /\ row = [q \in Payments |-> row[q]]
      /\ \A q \in Payments : RowGood(q, row[q], captured, returned)
      /\ CallGood(call[c], row, order, captured, returned)
      /\ captured' = captured /\ returned' = returned /\ order' = order
      /\ UNCHANGED <<captured, returned, order, orderPay, held, job>>
    BY Parts DEF MarkPaid, MarkFailed, RefundRow
<1>2. p \in Payments /\ row[p] \in Row /\ row[p].status # "NONE"
    BY <1>1 DEF MarkPaid, MarkFailed, RefundRow, CallGood, RowGood
<1>w. ASSUME NEW k, CallGood(k, row', order, captured, returned),
             call' = [call EXCEPT ![c] = k],
             NEW r, RowGood(p, r, captured, returned),
             row' = [row EXCEPT ![p] = r],
             r.status # "NONE", r.linked = row[p].linked, r.draft = row[p].draft
      PROVE  IInv'
    BY <1>1, <1>2, <1>w, CallWritesRow
<1>3. CASE MarkPaid(c)
    <2> DEFINE r == [row[p] EXCEPT !.status = "PAID"]
    <2>1. /\ r \in Row /\ r.status = "PAID" /\ r.linked = row[p].linked
          /\ r.draft = row[p].draft /\ r.refund = row[p].refund
          /\ r.refundAmt = row[p].refundAmt
        BY <1>2 DEF Row
    <2>2. row' = [row EXCEPT ![p] = r] /\ call[c].pc = "paid"
        BY <1>1, <1>3 DEF MarkPaid
    <2> HIDE DEF r
    <2>3. RowGood(p, r, captured, returned)
        BY <1>1, <1>2, <2>1, <2>2 DEF RowGood, CallGood
    <2>4. CASE call[c].by = "captured"
        <3>1. GotoTested(c, "finalize")
            BY <1>3, <2>4 DEF MarkPaid
        <3>2. PICK k \in Call : /\ call' = [call EXCEPT ![c] = k]
                                /\ k.pc = "finalize" /\ k.p = p /\ k.by = call[c].by
                                /\ k.linked => call[c].linked
            BY <3>1, GotoRecord
        <3>3. CallGood(k, row', order, captured, returned)
            BY <1>1, <3>2 DEF CallGood
        <3> QED BY <1>w, <2>1, <2>2, <2>3, <3>2, <3>3
    <2>5. CASE call[c].by # "captured"
        <3> DEFINE pc == IF call[c].linked THEN "reopen" ELSE "idle"
        <3>1. pc \in {"idle", "reopen"} /\ (pc = "reopen" => order # "NONE")
            BY <1>1 DEF CallGood
        <3>2. call' = [call EXCEPT ![c] = [Idle EXCEPT !.pc = pc]]
            BY <1>3, <2>5 DEF MarkPaid, GotoLast
        <3> HIDE DEF pc
        <3>3. CallGood([Idle EXCEPT !.pc = pc], row', order, captured, returned)
            BY <3>1, LastGood
        <3> QED BY <1>w, <2>1, <2>2, <2>3, <3>2, <3>3
    <2> QED BY <2>4, <2>5
<1>4. CASE MarkFailed(c)
    <2> DEFINE r == [row[p] EXCEPT !.status = "FAILED"]
    <2>1. /\ r \in Row /\ r.status = "FAILED" /\ r.linked = row[p].linked
          /\ r.draft = row[p].draft /\ r.refund = row[p].refund
          /\ r.refundAmt = row[p].refundAmt
        BY <1>2 DEF Row
    <2>2. row' = [row EXCEPT ![p] = r]
        BY <1>1, <1>4 DEF MarkFailed
    <2> HIDE DEF r
    <2>3. RowGood(p, r, captured, returned)
        BY <1>1, <1>2, <2>1 DEF RowGood
    <2>4. CASE call[c].linked
        <3>1. GotoTested(c, "failOrder")
            BY <1>4, <2>4 DEF MarkFailed
        <3>2. PICK k \in Call : /\ call' = [call EXCEPT ![c] = k]
                                /\ k.pc = "failOrder" /\ k.p = p /\ k.by = call[c].by
                                /\ k.linked => call[c].linked
            BY <3>1, GotoRecord
        <3>3. row'[p].status # "NONE"
            BY <1>1, <1>2, <2>1, <2>2
        <3>4. CallGood(k, row', order, captured, returned)
            BY <1>1, <1>2, <2>4, <3>2, <3>3 DEF CallGood
        <3> QED BY <1>w, <2>1, <2>2, <2>3, <3>2, <3>4
    <2>5. CASE ~ call[c].linked
        <3> DEFINE pc == IF row[p].draft THEN "dropHold" ELSE "idle"
        <3>1. pc \in {"idle", "dropHold"}
            OBVIOUS
        <3>2. call' = [call EXCEPT ![c] = [Idle EXCEPT !.pc = pc]]
            BY <1>4, <2>5 DEF MarkFailed, GotoLast
        <3> HIDE DEF pc
        <3>3. CallGood([Idle EXCEPT !.pc = pc], row', order, captured, returned)
            BY <3>1, LastGood
        <3> QED BY <1>w, <2>1, <2>2, <2>3, <3>2, <3>3
    <2> QED BY <2>4, <2>5
<1>5. CASE RefundRow(c)
    <2> DEFINE r == [row[p] EXCEPT !.status = "REFUNDED", !.refund = "PROCESSED",
                                   !.refundAmt = call[c].amt]
               pc == IF call[c].linked THEN "refundOrder" ELSE "idle"
    <2>1. call[c].amt \in 0 .. Amount /\ call[c].pc = "refundRow"
        BY <1>1, <1>5 DEF CallGood, Call, RefundRow
    <2>2. /\ r \in Row /\ r.status = "REFUNDED" /\ r.linked = row[p].linked
          /\ r.draft = row[p].draft /\ r.refundAmt = call[c].amt
        BY <1>2, <2>1 DEF Row
    <2>3. row' = [row EXCEPT ![p] = r]
        BY <1>1, <1>2, <1>5 DEF RefundRow
    <2> HIDE DEF r
    <2>4. RowGood(p, r, captured, returned)
        BY <1>1, <2>1, <2>2 DEF RowGood, CallGood
    <2>5. pc \in {"idle", "refundOrder"} /\ (pc = "refundOrder" => order # "NONE")
        BY <1>1 DEF CallGood
    <2>6. call' = [call EXCEPT ![c] = [Idle EXCEPT !.pc = pc]]
        BY <1>5 DEF RefundRow, GotoLast
    <2> HIDE DEF pc
    <2>7. CallGood([Idle EXCEPT !.pc = pc], row', order, captured, returned)
        BY <2>5, LastGood
    <2> QED BY <1>w, <2>2, <2>3, <2>4, <2>6, <2>7
<1> QED BY <1>3, <1>4, <1>5

\* The statements of the handlers and of the vendor on the orders row, and the
\* deletion of the hold: none runs while the job has the order locked.
LEMMA StepOrder ==
    ASSUME PaymentFlowAssumption, IInv, NEW c \in Calls,
           \/ ReopenOrder(c) \/ FailOrder(c) \/ RefundOrder(c) \/ RepayOrder(c)
           \/ VendorAccept(c) \/ VendorReject(c) \/ DropHold(c) \/ PlaceRefuse(c)
    PROVE  IInv'
<1>1. OrderTyped /\ CallGood(call[c], row, order, captured, returned)
    BY Parts
<1>2. PICK pc \in {"idle", "arm", "dropHold", "removeJob"} : GotoLast(c, pc)
    <2>1. CASE FailOrder(c)
        <3>1. CASE row[call[c].p].draft
            BY <2>1, <3>1 DEF FailOrder
        <3>2. CASE ~ row[call[c].p].draft
            BY <2>1, <3>2 DEF FailOrder
        <3> QED BY <3>1, <3>2
    <2>2. CASE ~ FailOrder(c)
        BY <2>2 DEF ReopenOrder, RefundOrder, RepayOrder, VendorAccept, VendorReject,
                    DropHold, PlaceRefuse
    <2> QED BY <2>1, <2>2
<1>3. CallGood([Idle EXCEPT !.pc = pc], row, order', captured, returned)
    BY LastGood
<1>4. OrderTyped'
    BY <1>1
       DEF ReopenOrder, FailOrder, RefundOrder, RepayOrder, VendorAccept, VendorReject,
           DropHold, PlaceRefuse, OrderTyped, OrderStatus
<1>5. /\ order' = "NONE" <=> order = "NONE"
      /\ order' = order \/ OrderFree
    BY <1>1
       DEF ReopenOrder, FailOrder, RefundOrder, RepayOrder, VendorAccept, VendorReject,
           DropHold, PlaceRefuse, CallGood
<1>6. UNCHANGED <<captured, returned, row, job>>
    BY DEF ReopenOrder, FailOrder, RefundOrder, RepayOrder, VendorAccept, VendorReject,
           DropHold, PlaceRefuse
<1> QED BY <1>2, <1>3, <1>4, <1>5, <1>6, CallWrites DEF GotoLast

\* A step that writes the job and leaves rows, captures and the order alone,
\* and gives back more, not less.
LEMMA JobWrites ==
    ASSUME PaymentFlowAssumption, IInv,
           \A c \in Calls : CallGood(call'[c], row, order, captured, returned),
           call' = [c \in Calls |-> call'[c]],
           GatewayTyped(captured, returned'),
           \A p \in Payments : returned'[p] >= returned[p],
           JobGood(job', row, order, captured, returned'),
           UNCHANGED <<captured, row, order, orderPay, held>>
    PROVE  IInv'
<1>1. /\ GatewayTyped(captured, returned)
      /\ OrderTyped
      /\ row = [p \in Payments |-> row[p]]
      /\ \A p \in Payments : RowGood(p, row[p], captured, returned)
    BY Parts
<1>2. Grows
    BY <1>1, PaymentFlowAssumption DEF Grows, GatewayTyped
<1>3. /\ GatewayTyped(captured', returned')
      /\ OrderTyped'
      /\ row' = [p \in Payments |-> row'[p]]
      /\ JobGood(job', row', order', captured', returned')
    BY <1>1 DEF OrderTyped
<1>4. \A p \in Payments : RowGood(p, row'[p], captured', returned')
    <2> TAKE p \in Payments
    <2>1. row'[p] = row[p]
        OBVIOUS
    <2> QED BY <1>1, <1>2, <2>1, RowStable
<1>5. \A c \in Calls : CallGood(call'[c], row', order', captured', returned')
    <2> TAKE c \in Calls
    <2> DEFINE k == call'[c]
    <2>1. CallGood(k, row, order, captured, returned)
        OBVIOUS
    <2> HIDE DEF k
    <2>2. CallGood(k, row', order', captured', returned')
        <3>1. k.pc = "refundRow" => returned'[k.p] >= k.amt
            <4> SUFFICES ASSUME k.pc = "refundRow" PROVE returned'[k.p] >= k.amt
                OBVIOUS
            <4>1. k.p \in Payments /\ returned[k.p] >= k.amt /\ k.amt \in Nat
                BY <2>1 DEF CallGood, Call
            <4>2. /\ returned'[k.p] >= returned[k.p]
                  /\ returned[k.p] \in Nat /\ returned'[k.p] \in Nat
                BY <1>1, <4>1, PaymentFlowAssumption DEF GatewayTyped
            <4> QED BY <4>1, <4>2
        <3> QED BY <2>1, <3>1 DEF CallGood
    <2> QED BY <2>2 DEF k
<1>6. OrderPaidFor' /\ OneDraftPaymentLinked'
    BY LinksKept
<1> QED BY <1>3, <1>4, <1>5, <1>6, PartsNext

\* A job that is not running holds no lock, no payment and no answer.
LEMMA FreshJob ==
    ASSUME PaymentFlowAssumption, NEW rows, NEW ord, NEW cap, NEW ret,
           NEW st \in {"none", "queued", "committed", "dead"}, NEW left \in 0 .. Attempts
    PROVE  /\ JobGood(NoJob, rows, ord, cap, ret)
           /\ JobGood([NoJob EXCEPT !.st = st], rows, ord, cap, ret)
           /\ JobGood([NoJob EXCEPT !.st = st, !.left = left], rows, ord, cap, ret)
<1> DEFINE j == [NoJob EXCEPT !.st = st]
           k == [NoJob EXCEPT !.st = st, !.left = left]
<1>1. NoJob \in Job /\ NoJob.st = "none" /\ NoJob.p = 0 /\ NoJob.result = "none"
    BY PaymentFlowAssumption DEF Job, NoJob
<1>2. /\ j \in Job /\ j.st = st /\ j.p = 0 /\ j.result = "none"
      /\ k \in Job /\ k.st = st /\ k.p = 0 /\ k.result = "none"
    BY <1>1 DEF Job
<1> HIDE DEF j, k
<1>3. JobGood(j, rows, ord, cap, ret) /\ JobGood(k, rows, ord, cap, ret)
    BY <1>2 DEF JobGood
<1> QED BY <1>1, <1>3 DEF JobGood, j, k

\* Adding the job and removing it: it has no lock and no payment.
LEMMA StepTimer ==
    ASSUME PaymentFlowAssumption, IInv, NEW c \in Calls,
           ArmAutoReject(c) \/ RemoveJob(c)
    PROVE  IInv'
<1>1. /\ GatewayTyped(captured, returned)
      /\ call = [d \in Calls |-> call[d]]
      /\ \A d \in Calls : CallGood(call[d], row, order, captured, returned)
      /\ JobGood(job, row, order, captured, returned)
    BY Parts
<1>2. CallGood([Idle EXCEPT !.pc = "idle"], row, order, captured, returned)
    BY LastGood
<1>3. call' = [call EXCEPT ![c] = [Idle EXCEPT !.pc = "idle"]]
    BY DEF ArmAutoReject, RemoveJob, GotoLast
<1>4. /\ \A d \in Calls : CallGood(call'[d], row, order, captured, returned)
      /\ call' = [d \in Calls |-> call'[d]]
    BY <1>1, <1>2, <1>3
<1>5. JobGood(job', row, order, captured, returned)
    <2>1. Attempts - 1 \in 0 .. Attempts
        BY PaymentFlowAssumption
    <2>2. \/ job' = job
          \/ job' = NoJob
          \/ job' = [NoJob EXCEPT !.st = "queued", !.left = Attempts - 1]
        BY DEF ArmAutoReject, RemoveJob
    <2>3. CASE job' = job
        BY <1>1, <2>3
    <2>4. CASE job' = NoJob
        BY <2>1, <2>4, FreshJob
    <2>5. CASE job' = [NoJob EXCEPT !.st = "queued", !.left = Attempts - 1]
        BY <2>1, <2>5, FreshJob
    <2> QED BY <2>2, <2>3, <2>4, <2>5
<1>6. UNCHANGED <<captured, returned, row, order, orderPay, held>>
    BY DEF ArmAutoReject, RemoveJob
<1>7. \A p \in Payments : returned'[p] >= returned[p]
    BY <1>1, <1>6, PaymentFlowAssumption DEF GatewayTyped
<1> QED BY <1>1, <1>4, <1>5, <1>6, <1>7, JobWrites

\* The job up to its commit: what it has read, and what the gateway answered.
LEMMA StepJob ==
    ASSUME PaymentFlowAssumption, IInv,
           JobSkip \/ JobLock \/ JobRefund \/ JobFinish \/ JobFail
    PROVE  IInv'
<1>1. /\ GatewayTyped(captured, returned)
      /\ call = [c \in Calls |-> call[c]]
      /\ \A c \in Calls : CallGood(call[c], row, order, captured, returned)
      /\ \A p \in Payments : RowGood(p, row[p], captured, returned)
      /\ JobGood(job, row, order, captured, returned)
    BY Parts
<1>2. UNCHANGED <<captured, row, order, orderPay, held, call>>
    BY DEF JobSkip, JobLock, JobRefund, JobFinish, JobFail, SetJob
<1>3. \A p \in Payments : returned[p] \in Nat
    BY <1>1, PaymentFlowAssumption DEF GatewayTyped
<1>w. ASSUME UNCHANGED returned, JobGood(job', row, order, captured, returned)
      PROVE  IInv'
    BY <1>1, <1>2, <1>3, <1>w, JobWrites
<1>4. CASE JobSkip \/ JobFinish
    <2>1. 0 \in 0 .. Attempts
        BY PaymentFlowAssumption
    <2>2. JobGood(NoJob, row, order, captured, returned)
        BY <2>1, FreshJob
    <2> QED BY <1>4, <1>w, <2>2 DEF JobSkip, JobFinish, SetJob
<1>5. CASE JobLock
    <2> DEFINE paid == {p \in Linked : row[p].status = "PAID"}
    <2>1. PICK p \in IF paid = {} THEN {0} ELSE paid :
             job' = [job EXCEPT !.st = IF p = 0 THEN "refunded" ELSE "locked",
                                !.p = p, !.result = "none"]
        BY <1>5 DEF JobLock, SetJob
    <2>2. p = 0 \/ (p \in Payments /\ p \in captured /\ row[p].status # "NONE")
        BY <1>1 DEF Linked, RowGood
    <2>3. p \in 0 .. NPayments
        BY <2>2, PaymentFlowAssumption DEF Payments
    <2> HIDE DEF paid
    <2> DEFINE j == [job EXCEPT !.st = IF p = 0 THEN "refunded" ELSE "locked",
                                !.p = p, !.result = "none"]
    <2>4. /\ j \in Job /\ j.p = p /\ j.result = "none"
          /\ j.st = IF p = 0 THEN "refunded" ELSE "locked"
        BY <1>1, <2>3 DEF JobGood, Job
    <2> HIDE DEF j
    <2>5. order = "WAITING" /\ UNCHANGED returned
        BY <1>5 DEF JobLock
    <2>6. JobGood(j, row, order, captured, returned)
        BY <2>2, <2>4, <2>5 DEF JobGood
    <2> QED BY <1>w, <2>1, <2>5, <2>6 DEF j
<1>6. CASE JobRefund
    <2>1. /\ job \in Job /\ job.st = "locked" /\ job.p \in Payments /\ job.p # 0
          /\ order = "WAITING" /\ row[job.p].status # "NONE" /\ job.p \in captured
        BY <1>1, <1>6 DEF JobRefund, JobGood, Payments
    <2>2. ASSUME NEW res \in {"PROCESSED", "FAILED"},
                 job' = [job EXCEPT !.st = "refunded", !.result = res],
                 NEW ret, res = "PROCESSED" => ret[job.p] >= Amount
          PROVE  JobGood(job', row, order, captured, ret)
        <3> DEFINE j == [job EXCEPT !.st = "refunded", !.result = res]
        <3>1. j \in Job /\ j.p = job.p /\ j.result = res /\ j.st = "refunded"
            BY <2>1 DEF Job
        <3> HIDE DEF j
        <3>2. JobGood(j, row, order, captured, ret)
            BY <2>1, <2>2, <3>1 DEF JobGood
        <3> QED BY <2>2, <3>2 DEF j
    <2>3. CASE /\ returned' = [returned EXCEPT ![job.p] = Amount]
               /\ \E r \in {"PROCESSED", "FAILED"} :
                     SetJob([job EXCEPT !.st = "refunded", !.result = r])
        <3>1. PICK r \in {"PROCESSED", "FAILED"} :
                 job' = [job EXCEPT !.st = "refunded", !.result = r]
            BY <2>3 DEF SetJob
        <3>2. GatewayTyped(captured, returned')
            BY <1>1, <2>1, <2>3, PaymentFlowAssumption DEF GatewayTyped
        <3>3. \A p \in Payments : returned'[p] >= returned[p]
            BY <1>1, <2>1, <2>3, PaymentFlowAssumption DEF GatewayTyped
        <3>4. returned'[job.p] = Amount /\ Amount >= Amount
            BY <1>1, <2>1, <2>3, PaymentFlowAssumption DEF GatewayTyped
        <3>5. JobGood(job', row, order, captured, returned')
            BY <2>2, <3>1, <3>4
        <3> QED BY <1>1, <1>2, <3>2, <3>3, <3>5, JobWrites
    <2>4. CASE /\ SetJob([job EXCEPT !.st = "refunded", !.result = "FAILED"])
               /\ UNCHANGED returned
        <3>1. JobGood(job', row, order, captured, returned)
            BY <2>2, <2>4 DEF SetJob
        <3> QED BY <1>w, <2>4, <3>1
    <2> QED BY <1>6, <2>3, <2>4 DEF JobRefund
<1>7. CASE JobFail
    <2>1. job.left \in 0 .. Attempts
        BY <1>1 DEF JobGood, Job
    <2>2. CASE job.left > 0
        <3>1. job.left - 1 \in 0 .. Attempts
            BY <2>1, <2>2, PaymentFlowAssumption
        <3>2. JobGood([NoJob EXCEPT !.st = "queued", !.left = job.left - 1],
                      row, order, captured, returned)
            BY <3>1, FreshJob, PaymentFlowAssumption
        <3>3. job' = [NoJob EXCEPT !.st = "queued", !.left = job.left - 1]
            BY <1>7, <2>2 DEF JobFail, SetJob
        <3> QED BY <1>7, <1>w, <3>2, <3>3 DEF JobFail
    <2>3. CASE ~ (job.left > 0)
        <3>1. JobGood([NoJob EXCEPT !.st = "dead"], row, order, captured, returned)
            BY <2>1, FreshJob, PaymentFlowAssumption
        <3>2. job' = [NoJob EXCEPT !.st = "dead"]
            BY <1>7, <2>3 DEF JobFail, SetJob
        <3> QED BY <1>7, <1>w, <3>1, <3>2 DEF JobFail
    <2> QED BY <2>2, <2>3
<1> QED BY <1>4, <1>5, <1>6, <1>7

\* COMMIT of the auto-reject: the row shows a refund as PROCESSED only if the
\* gateway gave the whole payment back.
LEMMA StepJobCommit ==
    ASSUME PaymentFlowAssumption, IInv, JobCommit
    PROVE  IInv'
<1>1. /\ GatewayTyped(captured, returned)
      /\ OrderTyped
      /\ row = [p \in Payments |-> row[p]]
      /\ \A p \in Payments : RowGood(p, row[p], captured, returned)
      /\ call = [c \in Calls |-> call[c]]
      /\ \A c \in Calls : CallGood(call[c], row, order, captured, returned)
      /\ JobGood(job, row, order, captured, returned)
    BY Parts
<1>2. UNCHANGED <<captured, returned, held, call>> /\ order = "WAITING"
      /\ order' = "AUTO_REJECTED" /\ orderPay' = "REFUNDED"
    BY <1>1 DEF JobCommit, JobGood
<1>3. \A p \in Payments :
         /\ RowGood(p, row'[p], captured, returned)
         /\ row'[p].linked = row[p].linked
         /\ row'[p].draft = row[p].draft
         /\ row'[p].status = "NONE" <=> row[p].status = "NONE"
    <2> TAKE p \in Payments
    <2>1. CASE p # job.p \/ job.p = 0
        <3>1. p # 0
            BY DEF Payments
        <3>2. row'[p] = row[p]
            BY <1>1, <2>1, <3>1 DEF JobCommit
        <3> QED BY <1>1, <3>2
    <2>2. CASE p = job.p /\ job.p # 0
        <3> DEFINE r == [row[p] EXCEPT !.status = "REFUNDED", !.refund = job.result,
                                       !.refundAmt = Amount]
        <3>1. row[p] \in Row /\ row[p].status # "NONE" /\ p \in captured
            BY <1>1, <2>2 DEF RowGood, JobGood
        <3>2. /\ job.result \in {"none", "PROCESSED", "FAILED"}
              /\ job.result = "PROCESSED" => returned[p] >= Amount
            BY <1>1, <2>2 DEF JobGood, Job
        <3>3. Amount \in 0 .. Amount
            BY PaymentFlowAssumption
        <3>4. /\ r \in Row /\ r.status = "REFUNDED" /\ r.refund = job.result
              /\ r.refundAmt = Amount /\ r.linked = row[p].linked /\ r.draft = row[p].draft
            BY <3>1, <3>2, <3>3 DEF Row
        <3>5. row'[p] = r
            BY <1>1, <2>2 DEF JobCommit
        <3> HIDE DEF r
        <3>6. RowGood(p, r, captured, returned)
            BY <3>1, <3>2, <3>4 DEF RowGood
        <3> QED BY <3>1, <3>4, <3>5, <3>6
    <2> QED BY <2>1, <2>2
<1>4. row' = [p \in Payments |-> row'[p]]
    BY <1>1 DEF JobCommit
<1>5. Grows
    BY <1>1, <1>2, <1>3, PaymentFlowAssumption DEF Grows, GatewayTyped
<1>6. \A c \in Calls : CallGood(call'[c], row', order', captured', returned')
    BY <1>1, <1>2, <1>5, CallStable
<1>7. JobGood(job', row', order', captured', returned')
    <2>1. job.left \in 0 .. Attempts
        BY <1>1 DEF JobGood, Job
    <2>2. job' = [NoJob EXCEPT !.st = "committed", !.left = job.left]
        BY DEF JobCommit
    <2>3. JobGood([NoJob EXCEPT !.st = "committed", !.left = job.left],
                  row', order', captured', returned')
        BY <2>1, FreshJob
    <2> QED BY <2>2, <2>3
<1>8. OrderPaidFor' /\ OneDraftPaymentLinked'
    BY <1>2, <1>3, LinksKept
<1>9. OrderTyped'
    BY <1>1, <1>2 DEF OrderTyped, OrderStatus
<1> QED BY <1>1, <1>2, <1>3, <1>4, <1>6, <1>7, <1>8, <1>9, PartsNext

\* The gateway gives money back for an administrator: a call that knows of it
\* goes on to write the amount.
LEMMA StepRefundGateway ==
    ASSUME PaymentFlowAssumption, IInv, NEW c \in Calls, RefundGateway(c)
    PROVE  IInv'
<1> DEFINE p == call[c].p
           amt == call[c].amt
<1>1. /\ GatewayTyped(captured, returned)
      /\ OrderTyped
      /\ row = [q \in Payments |-> row[q]]
      /\ \A q \in Payments : RowGood(q, row[q], captured, returned)
      /\ call = [d \in Calls |-> call[d]]
      /\ \A d \in Calls : CallGood(call[d], row, order, captured, returned)
      /\ JobGood(job, row, order, captured, returned)
    BY Parts
<1>2. /\ p \in Payments /\ row[p].status # "NONE" /\ p \in captured /\ amt \in 0 .. Amount
      /\ call[c].pc = "refundGateway"
      /\ returned[p] \in 0 .. Amount
    BY <1>1 DEF RefundGateway, CallGood, Call, GatewayTyped
<1>3. /\ returned[p] + amt <= Amount
      /\ returned' = [returned EXCEPT ![p] = returned[p] + amt]
      /\ UNCHANGED <<captured, row, order, orderPay, held, job>>
    BY DEF RefundGateway
<1>4. returned[p] + amt \in 0 .. Amount
    BY <1>2, <1>3, PaymentFlowAssumption
<1>5. GatewayTyped(captured', returned')
    BY <1>1, <1>3, <1>4 DEF GatewayTyped
<1>6. returned'[p] = returned[p] + amt /\ returned'[p] >= amt
    BY <1>1, <1>2, <1>3, PaymentFlowAssumption DEF GatewayTyped
<1>7. Grows
    <2> SUFFICES ASSUME NEW q \in Payments
                 PROVE  returned'[q] \in Nat /\ returned'[q] >= returned[q]
        BY <1>3 DEF Grows
    <2>1. CASE q = p
        BY <1>2, <1>6, <2>1, PaymentFlowAssumption
    <2>2. CASE q # p
        BY <1>1, <1>3, <2>2, PaymentFlowAssumption DEF GatewayTyped
    <2> QED BY <2>1, <2>2
<1>8. \E k : /\ call' = [call EXCEPT ![c] = k]
             /\ CallGood(k, row', order', captured', returned')
    <2>1. CASE GotoLast(c, "idle")
        <3>1. CallGood([Idle EXCEPT !.pc = "idle"], row', order', captured', returned')
            BY LastGood
        <3> QED BY <2>1, <3>1 DEF GotoLast
    <2>2. CASE Goto(c, "refundRow")
        <3>1. PICK k \in Call : /\ call' = [call EXCEPT ![c] = k]
                                /\ k.pc = "refundRow" /\ k.p = p /\ k.by = call[c].by
                                /\ k.amt = amt
                                /\ k.linked => call[c].linked
            BY <2>2, GotoRecord
        <3>2. CallGood(call[c], row, order, captured, returned)
            BY <1>1
        <3>3. k.p \in Payments /\ row'[k.p].status # "NONE" /\ k.p \in captured'
            BY <1>2, <1>3, <3>1
        <3>4. k.linked => order' # "NONE"
            BY <1>3, <3>1, <3>2 DEF CallGood
        <3>5. returned'[k.p] >= k.amt
            BY <1>6, <3>1
        <3>6. CallGood(k, row', order', captured', returned')
            BY <3>1, <3>3, <3>4, <3>5 DEF CallGood
        <3> QED BY <3>1, <3>6
    <2> QED BY <2>1, <2>2 DEF RefundGateway
<1>9. /\ \A d \in Calls : CallGood(call'[d], row', order', captured', returned')
      /\ call' = [d \in Calls |-> call'[d]]
    <2>1. PICK k : /\ call' = [call EXCEPT ![c] = k]
                   /\ CallGood(k, row', order', captured', returned')
        BY <1>8
    <2>2. \A d \in Calls : CallGood(call'[d], row', order', captured', returned')
        <3> TAKE d \in Calls
        <3>1. CASE d = c
            BY <1>1, <2>1, <3>1
        <3>2. CASE d # c
            BY <1>1, <1>7, <2>1, <3>2, CallStable
        <3> QED BY <3>1, <3>2
    <2> QED BY <1>1, <2>1, <2>2
<1>10. \A q \in Payments : RowGood(q, row'[q], captured', returned')
    <2> TAKE q \in Payments
    <2>1. row'[q] = row[q]
        BY <1>3
    <2> QED BY <1>1, <1>7, <2>1, RowStable
<1>11. JobGood(job', row', order', captured', returned')
    <2>1. JobGood(job, row', order', captured', returned')
        BY <1>1, <1>3, <1>7, JobStable
    <2> QED BY <1>3, <2>1
<1>12. OrderPaidFor' /\ OneDraftPaymentLinked'
    BY <1>3, LinksKept
<1>13. OrderTyped' /\ row' = [q \in Payments |-> row'[q]]
    BY <1>1, <1>3 DEF OrderTyped
<1> QED BY <1>5, <1>9, <1>10, <1>11, <1>12, <1>13, PartsNext

\* The gateway captures, a hold ends, a link expires: no call and no job moves.
LEMMA StepOutside ==
    ASSUME PaymentFlowAssumption, IInv,
           HoldEnds \/ \E p \in Payments : Capture(p) \/ ExpirePayment(p)
    PROVE  IInv'
<1>1. /\ GatewayTyped(captured, returned)
      /\ OrderTyped
      /\ row = [q \in Payments |-> row[q]]
      /\ \A q \in Payments : RowGood(q, row[q], captured, returned)
      /\ call = [d \in Calls |-> call[d]]
      /\ \A d \in Calls : CallGood(call[d], row, order, captured, returned)
      /\ JobGood(job, row, order, captured, returned)
    BY Parts
<1>2. UNCHANGED <<returned, order, orderPay, job, call>> /\ held' \in {held, FALSE}
    BY DEF HoldEnds, Capture, ExpirePayment
<1>3. /\ \A q \in Payments : /\ row'[q] \in Row
                             /\ row'[q].status # "NONE" <=> row[q].status # "NONE"
                             /\ row'[q].linked = row[q].linked
                             /\ row'[q].draft = row[q].draft
                             /\ row'[q].refund = row[q].refund
                             /\ row'[q].refundAmt = row[q].refundAmt
                             /\ row'[q].status \in {"PAID", "REFUNDED"} =>
                                   row'[q].status = row[q].status
      /\ row' = [q \in Payments |-> row'[q]]
    <2>1. CASE row' = row
        BY <1>1, <2>1 DEF RowGood
    <2>2. ASSUME NEW p \in Payments, ExpirePayment(p) PROVE <1>3
        <3> DEFINE r == [row[p] EXCEPT !.status = "EXPIRED"]
        <3>1. row[p] \in Row
            BY <1>1 DEF RowGood
        <3>2. /\ r \in Row /\ r.status = "EXPIRED" /\ r.linked = row[p].linked
              /\ r.draft = row[p].draft /\ r.refund = row[p].refund
              /\ r.refundAmt = row[p].refundAmt
            BY <3>1 DEF Row
        <3>3. row' = [row EXCEPT ![p] = r] /\ row[p].status = "PENDING"
            BY <1>1, <2>2 DEF ExpirePayment
        <3> HIDE DEF r
        <3>4. \A q \in Payments : row'[q] = IF q = p THEN r ELSE row[q]
            BY <1>1, <3>3
        <3> QED BY <1>1, <3>2, <3>3, <3>4 DEF RowGood
    <2> QED BY <2>1, <2>2 DEF HoldEnds, Capture
<1>4. /\ captured' \in SUBSET Payments
      /\ captured \subseteq captured'
      /\ \A q \in captured' : q \in captured \/ row[q].status # "NONE"
    BY <1>1 DEF HoldEnds, Capture, ExpirePayment, GatewayTyped
<1>5. Grows
    <2>1. \A q \in Payments : returned[q] \in Nat /\ returned[q] >= returned[q]
        BY <1>1, PaymentFlowAssumption DEF GatewayTyped
    <2> QED BY <1>2, <1>3, <1>4, <2>1 DEF Grows
<1>6. \A q \in Payments : RowGood(q, row'[q], captured', returned')
    <2> TAKE q \in Payments
    <2>1. RowGood(q, row[q], captured', returned')
        BY <1>1, <1>5, RowStable
    <2> QED BY <1>3, <2>1 DEF RowGood
<1>7. \A d \in Calls : CallGood(call'[d], row', order', captured', returned')
    BY <1>1, <1>2, <1>5, CallStable
<1>8. JobGood(job', row', order', captured', returned')
    <2>1. JobGood(job, row', order', captured', returned')
        BY <1>1, <1>2, <1>5, JobStable
    <2> QED BY <1>2, <2>1
<1>9. OrderPaidFor' /\ OneDraftPaymentLinked'
    BY <1>2, <1>3, <1>4, LinksKept
<1>10. OrderTyped' /\ GatewayTyped(captured', returned')
    BY <1>1, <1>2, <1>4 DEF OrderTyped, GatewayTyped
<1> QED BY <1>1, <1>2, <1>3, <1>6, <1>7, <1>8, <1>9, <1>10, PartsNext

\* A new payments row keeps everything, if it is linked only to an order that
\* exists and belongs to no draft then.
LEMMA RowInserted ==
    ASSUME PaymentFlowAssumption, IInv, NEW p \in Payments, row[p].status = "NONE",
           NEW r \in Row, r.status = "PENDING", r.refund = "none",
           r.linked => order # "NONE" /\ ~ r.draft,
           row' = [row EXCEPT ![p] = r],
           \/ UNCHANGED call
           \/ \E c \in Calls : /\ order # "NONE"
                               /\ call' = [call EXCEPT ![c] = [Idle EXCEPT !.pc = "repayOrder"]],
           UNCHANGED <<captured, returned, order, orderPay, held, job>>
    PROVE  IInv'
<1>1. /\ GatewayTyped(captured, returned)
      /\ OrderTyped
      /\ row = [q \in Payments |-> row[q]]
      /\ \A q \in Payments : RowGood(q, row[q], captured, returned)
      /\ call = [d \in Calls |-> call[d]]
      /\ \A d \in Calls : CallGood(call[d], row, order, captured, returned)
      /\ JobGood(job, row, order, captured, returned)
    BY Parts
<1>4. \A q \in Payments : row'[q] = IF q = p THEN r ELSE row[q]
    BY <1>1
<1>5. \A q \in Payments : returned[q] \in Nat /\ returned[q] >= returned[q]
    BY <1>1, PaymentFlowAssumption DEF GatewayTyped
<1>6. Grows
    BY <1>4, <1>5, <1>1 DEF Grows, RowGood
<1>7. \A q \in Payments : RowGood(q, row'[q], captured', returned')
    BY <1>1, <1>4 DEF RowGood
<1>8. /\ \A d \in Calls : CallGood(call'[d], row', order', captured', returned')
      /\ call' = [d \in Calls |-> call'[d]]
    <2>1. \A d \in Calls : CallGood(call[d], row', order', captured', returned')
        BY <1>1, <1>6, CallStable
    <2>2. CASE UNCHANGED call
        BY <1>1, <2>1, <2>2
    <2>3. ASSUME NEW c \in Calls, order # "NONE",
                 call' = [call EXCEPT ![c] = [Idle EXCEPT !.pc = "repayOrder"]]
          PROVE  <1>8
        <3>1. CallGood([Idle EXCEPT !.pc = "repayOrder"], row', order', captured', returned')
            BY <2>3, LastGood
        <3> QED BY <1>1, <2>1, <2>3, <3>1
    <2> QED BY <2>2, <2>3
<1>9. JobGood(job', row', order', captured', returned')
    <2>1. JobGood(job, row', order', captured', returned')
        BY <1>1, <1>6, JobStable
    <2> QED BY <2>1
<1>10. Linked' = IF r.linked THEN Linked \cup {p} ELSE Linked
    BY <1>4 DEF Linked, Row
<1>11. OrderPaidFor'
    BY <1>10 DEF IInv, OrderPaidFor
<1>12. OneDraftPaymentLinked'
    <2>1. p \notin Linked /\ Linked \subseteq Payments
        BY DEF Linked
    <2>2. \A q \in Linked' : \/ q \in Linked /\ row'[q] = row[q]
                             \/ ~ row'[q].draft
        BY <1>4, <1>10, <2>1
    <2>3. \A q, u \in Linked' : row'[q].draft /\ row'[u].draft => q = u
        BY <2>2 DEF IInv, OneDraftPaymentLinked
    <2>4. order' = "NONE" => Linked' = {}
        BY <1>10 DEF IInv, OneDraftPaymentLinked
    <2> QED BY <2>3, <2>4 DEF OneDraftPaymentLinked
<1>13. /\ OrderTyped'
       /\ GatewayTyped(captured', returned')
       /\ row' = [q \in Payments |-> row'[q]]
    BY <1>1 DEF OrderTyped
<1> QED BY <1>7, <1>8, <1>9, <1>11, <1>12, <1>13, PartsNext

\* createPaymentOrder, for the draft and for the order.
LEMMA StepInsert ==
    ASSUME PaymentFlowAssumption, IInv,
           NEW p \in Payments, CreatePayment(p) \/ \E c \in Calls : RepayInsert(c, p)
    PROVE  IInv'
<1>0. NoRow \in Row /\ NoRow.linked = FALSE /\ NoRow.draft = FALSE /\ NoRow.refund = "none"
    BY PaymentFlowAssumption DEF NoRow, Row
<1>1. CASE CreatePayment(p)
    <2> DEFINE r == [NoRow EXCEPT !.status = "PENDING", !.draft = TRUE]
    <2>1. /\ r \in Row /\ r.status = "PENDING" /\ r.linked = FALSE
          /\ r.refund = "none"
        BY <1>0 DEF Row
    <2>2. /\ row[p].status = "NONE"
          /\ row' = [row EXCEPT ![p] = r]
          /\ UNCHANGED <<captured, returned, order, orderPay, held, job, call>>
        BY <1>1 DEF CreatePayment, NextPayment
    <2> HIDE DEF r
    <2> QED BY <2>1, <2>2, RowInserted
<1>2. ASSUME NEW c \in Calls, RepayInsert(c, p) PROVE IInv'
    <2> DEFINE r == [NoRow EXCEPT !.status = "PENDING", !.linked = TRUE]
    <2>1. /\ r \in Row /\ r.status = "PENDING" /\ r.draft = FALSE
          /\ r.refund = "none"
        BY <1>0 DEF Row
    <2>2. /\ row[p].status = "NONE"
          /\ row' = [row EXCEPT ![p] = r]
          /\ call' = [call EXCEPT ![c] = [Idle EXCEPT !.pc = "repayOrder"]]
          /\ UNCHANGED <<captured, returned, order, orderPay, held, job>>
        BY <1>2 DEF RepayInsert, NextPayment, GotoLast
    <2> HIDE DEF r
    <2>3. order # "NONE"
        BY <1>2 DEF RepayInsert, IInv, KnownPayments
    <2> QED BY <2>1, <2>2, <2>3, RowInserted
<1> QED BY <1>1, <1>2

\* The placement links one PAID payment of the draft, and there was no order
\* before it.
LEMMA StepPlace ==
    ASSUME PaymentFlowAssumption, IInv, NEW c \in Calls, NEW p \in Payments, Place(c, p)
    PROVE  IInv'
<1> DEFINE r == [row[p] EXCEPT !.linked = TRUE]
<1>1. /\ GatewayTyped(captured, returned)
      /\ OrderTyped
      /\ row = [q \in Payments |-> row[q]]
      /\ \A q \in Payments : RowGood(q, row[q], captured, returned)
      /\ call = [d \in Calls |-> call[d]]
      /\ \A d \in Calls : CallGood(call[d], row, order, captured, returned)
      /\ JobGood(job, row, order, captured, returned)
    BY Parts
<1>2. /\ order = "NONE" /\ order' = "WAITING" /\ orderPay' = "PAID" /\ held' = FALSE
      /\ row[p].status = "PAID" /\ row[p].draft
      /\ UNCHANGED <<captured, returned, job>>
      /\ call' = [call EXCEPT ![c] = [Idle EXCEPT !.pc = "idle"]]
    BY DEF Place, CanPlace, PaidForDraft, GotoLast
<1>3. /\ r \in Row /\ r.status = "PAID" /\ r.linked = TRUE /\ r.draft = row[p].draft
      /\ r.refund = row[p].refund /\ r.refundAmt = row[p].refundAmt
    BY <1>1, <1>2 DEF RowGood, Row
<1>4. row' = [row EXCEPT ![p] = r]
    BY <1>1 DEF Place
<1> HIDE DEF r
<1>5. \A q \in Payments : row'[q] = IF q = p THEN r ELSE row[q]
    BY <1>1, <1>4
<1>6. \A q \in Payments : returned[q] \in Nat /\ returned[q] >= returned[q]
    BY <1>1, PaymentFlowAssumption DEF GatewayTyped
<1>7. Grows
    BY <1>1, <1>2, <1>3, <1>5, <1>6 DEF Grows, RowGood
<1>8. \A q \in Payments : RowGood(q, row'[q], captured', returned')
    BY <1>1, <1>2, <1>3, <1>5 DEF RowGood
<1>9. /\ \A d \in Calls : CallGood(call'[d], row', order', captured', returned')
      /\ call' = [d \in Calls |-> call'[d]]
    <2>1. \A d \in Calls : CallGood(call[d], row', order', captured', returned')
        BY <1>1, <1>7, CallStable
    <2>2. CallGood([Idle EXCEPT !.pc = "idle"], row', order', captured', returned')
        BY LastGood
    <2> QED BY <1>1, <1>2, <2>1, <2>2
<1>10. JobGood(job', row', order', captured', returned')
    <2>1. job.st \notin {"locked", "refunded"}
        BY <1>1, <1>2 DEF JobGood
    <2>2. JobGood(job, row', order', captured', returned')
        BY <1>1, <1>7, <2>1, JobStable
    <2> QED BY <1>2, <2>2
<1>11. Linked' = {p}
    <2>1. Linked = {}
        BY <1>2 DEF IInv, OneDraftPaymentLinked
    <2> QED BY <1>3, <1>5, <2>1 DEF Linked
<1>12. OrderPaidFor' /\ OneDraftPaymentLinked'
    <2>1. p \in captured'
        BY <1>1, <1>2 DEF RowGood
    <2> QED BY <1>2, <1>11, <2>1 DEF OrderPaidFor, OneDraftPaymentLinked
<1>13. /\ OrderTyped'
       /\ GatewayTyped(captured', returned')
       /\ row' = [q \in Payments |-> row'[q]]
    BY <1>1, <1>2, <1>4 DEF OrderTyped, OrderStatus
<1> QED BY <1>8, <1>9, <1>10, <1>12, <1>13, PartsNext

-----------------------------------------------------------------------------
(* The theorems *)

\* A step that changes nothing keeps the invariant.
LEMMA StepStutter ==
    ASSUME IInv, UNCHANGED vars
    PROVE  IInv'
BY DEF vars, IInv, TypeOK, KnownPayments, PaidIsCaptured, OrderPaidFor,
       OneDraftPaymentLinked, RefundReal, Linked

\* Every step keeps the invariant.
LEMMA InvStep == IInv /\ [Next]_vars => IInv'
<1> SUFFICES ASSUME IInv, [Next]_vars PROVE IInv'
    OBVIOUS
<1> USE PaymentFlowAssumption
<1>1. CASE UNCHANGED vars
    BY <1>1, StepStutter
<1>2. CASE HoldEnds \/ \E p \in Payments : Capture(p) \/ ExpirePayment(p)
    BY <1>2, StepOutside
<1>3. ASSUME NEW p \in Payments, CreatePayment(p) PROVE IInv'
    BY <1>3, StepInsert
<1>4. ASSUME NEW c \in Calls, CallStep(c) PROVE IInv'
    <2>1. CASE MarkPaid(c) \/ MarkFailed(c) \/ RefundRow(c)
        BY <2>1, StepRow
    <2>2. CASE \/ ReopenOrder(c) \/ FailOrder(c) \/ RefundOrder(c) \/ RepayOrder(c)
               \/ DropHold(c) \/ PlaceRefuse(c)
        BY <2>2, StepOrder
    <2>3. CASE ArmAutoReject(c) \/ RemoveJob(c)
        BY <2>3, StepTimer
    <2>4. CASE RefundGateway(c)
        BY <2>4, StepRefundGateway
    <2>5. CASE \E p \in Payments : RepayInsert(c, p)
        BY <2>5, StepInsert
    <2>6. CASE \E p \in Payments : Place(c, p)
        BY <2>6, StepPlace
    <2> QED BY <1>4, <2>1, <2>2, <2>3, <2>4, <2>5, <2>6 DEF CallStep
<1>5. ASSUME NEW c \in Calls,
             \/ Stop(c) \/ PlaceBegin(c) \/ RepayBegin(c)
             \/ \E p \in Payments :
                   \/ VerifyBegin(c, p) \/ CapturedBegin(c, p) \/ FailedBegin(c, p)
                   \/ \E amt \in 1 .. Amount : RefundBegin(c, p, amt)
      PROVE  IInv'
    BY <1>5, StepBegin
<1>6. ASSUME NEW c \in Calls, VendorAccept(c) \/ VendorReject(c) PROVE IInv'
    BY <1>6, StepOrder
<1>7. CASE JobStep \/ JobFail
    BY <1>7, StepJob, StepJobCommit DEF JobStep
<1> QED BY <1>1, <1>2, <1>3, <1>4, <1>5, <1>6, <1>7 DEF Next

\* The strengthened invariant of the payment handlers and the auto-reject job.
THEOREM StrengthenedInvariant == Spec => []IInv
BY InvInit, InvStep, PTL DEF Spec

\* Every variable keeps its type.
THEOREM TypeCorrect == Spec => []TypeOK
<1>1. IInv => TypeOK
    BY DEF IInv
<1> QED BY <1>1, StrengthenedInvariant, PTL

\* A refund the database shows as PROCESSED was given back by the gateway, in
\* full, however the administrators, the job and lost answers interleave.
THEOREM RefundsAreReal == Spec => []RefundReal
<1>1. IInv => RefundReal
    BY DEF IInv
<1> QED BY <1>1, StrengthenedInvariant, PTL

\* Whatever is PAID or REFUNDED, or is about to be marked so, is a payment that
\* the gateway captured: no forged or early confirmation is believed.
THEOREM PaidWasCaptured == Spec => []PaidIsCaptured
<1>1. IInv => PaidIsCaptured
    BY DEF IInv
<1> QED BY <1>1, StrengthenedInvariant, PTL

\* An order that exists has a linked payment that the gateway captured.
THEOREM OrdersArePaidFor == Spec => []OrderPaidFor
<1>1. IInv => OrderPaidFor
    BY DEF IInv
<1> QED BY <1>1, StrengthenedInvariant, PTL

\* At most one of a draft's payments is linked to its order, and none before
\* there is an order.
THEOREM OnePaymentPerDraft == Spec => []OneDraftPaymentLinked
<1>1. IInv => OneDraftPaymentLinked
    BY DEF IInv
<1> QED BY <1>1, StrengthenedInvariant, PTL

\* An accepted order is rejected neither by the auto-reject job nor by the
\* vendor: the job has the order locked from the moment it read it as waiting.
THEOREM AcceptedStays == Spec => AcceptedNotRejected
<1>1. IInv /\ [Next]_vars =>
         [order = "ACCEPTED" => order' \notin {"AUTO_REJECTED", "VENDOR_REJECTED"}]_vars
    <2> SUFFICES ASSUME IInv, Next, order = "ACCEPTED"
                 PROVE  order' \notin {"AUTO_REJECTED", "VENDOR_REJECTED"}
        BY DEF vars
    <2>1. ~ JobCommit
        BY DEF JobCommit, IInv, KnownPayments
    <2>2. CASE HoldEnds \/ \E p \in Payments : Capture(p) \/ CreatePayment(p) \/ ExpirePayment(p)
        BY <2>2 DEF HoldEnds, Capture, CreatePayment, ExpirePayment
    <2>3. CASE JobStep \/ JobFail
        BY <2>1, <2>3 DEF JobStep, JobSkip, JobLock, JobRefund, JobFinish, JobFail, SetJob
    <2>4. ASSUME NEW c \in Calls, CallStep(c)
          PROVE  order' \notin {"AUTO_REJECTED", "VENDOR_REJECTED"}
        BY <2>4 DEF CallStep, MarkPaid, ReopenOrder, ArmAutoReject, MarkFailed, FailOrder,
                    DropHold, RefundGateway, RefundRow, RefundOrder, RepayOrder, RemoveJob,
                    PlaceRefuse, RepayInsert, Place
    <2>5. ASSUME NEW c \in Calls,
                 \/ Stop(c) \/ PlaceBegin(c) \/ RepayBegin(c)
                 \/ VendorAccept(c) \/ VendorReject(c)
                 \/ \E p \in Payments :
                       \/ VerifyBegin(c, p) \/ CapturedBegin(c, p) \/ FailedBegin(c, p)
                       \/ \E amt \in 1 .. Amount : RefundBegin(c, p, amt)
          PROVE  order' \notin {"AUTO_REJECTED", "VENDOR_REJECTED"}
        BY <2>5 DEF Stop, PlaceBegin, RepayBegin, VendorAccept, VendorReject, VerifyBegin,
                    CapturedBegin, FailedBegin, RefundBegin, Begin
    <2> QED BY <2>2, <2>3, <2>4, <2>5 DEF Next
<1> QED BY <1>1, StrengthenedInvariant, PTL DEF Spec, AcceptedNotRejected

=============================================================================
