---------------------------- MODULE SlotBooking ----------------------------
(***************************************************************************)
(* Pickup-slot capacity: POST /slot-holds, DELETE /slot-holds/:id,         *)
(* POST /orders/prepare and POST /orders with an order_draft_id, as        *)
(* transactions over PostgreSQL, together with everything else that takes  *)
(* a hold or an order out of a slot's count or puts it back.               *)
(*                                                                         *)
(* A transaction is cut where another session can come between: at BEGIN   *)
(* (where PostgreSQL freezes NOW()), at the row locks it may wait for, and *)
(* at COMMIT (where its writes become visible).  A row lock is the state   *)
(* of the transaction that has it, so there is no lock table: see SlotFree, *)
(* DraftFree and RowsFree.                                                 *)
(*                                                                         *)
(* A quote stands for the customer who owns it: no statement of this code  *)
(* relates two quotes of one customer.                                     *)
(***************************************************************************)
EXTENDS Naturals, FiniteSets

CONSTANTS Quotes,     \* quotations (quotes.id)
          Slots,      \* vendor_slots.id
          Days,       \* booking dates
          Holds,      \* slot_holds.id, one for each holdSlot call
          Drafts,     \* order_drafts.id, also the id of the order placed from it
          Attempts,   \* calls of placeOrderFromDraft (client and webhook)
          MaxOrders,  \* vendor_slots.max_orders of each slot when it is created
          Limits,     \* values a vendor changes max_orders to
          SnapshotDay,\* the day a draft's snapshot records for a hold's day
          HoldTTL,    \* life of a hold (10 minutes in the code), in clock ticks
          MaxClock,   \* bound on the clock, for model checking
          Nil         \* no row, no draft, no hold

DraftRow == [quote : Quotes, slot : Slots, day : Days]

ASSUME SlotBookingAssumption ==
    /\ IsFiniteSet(Holds)
    /\ IsFiniteSet(Drafts)
    /\ Holds \cap Drafts = {}
    /\ MaxOrders \in [Slots -> Nat]
    /\ Limits \subseteq Nat
    /\ SnapshotDay \in [Days -> Days]
    /\ HoldTTL \in Nat
    /\ MaxClock \in Nat
    /\ Nil \notin Holds \cup Drafts
    /\ Nil \notin DraftRow

VARIABLES now,        \* the database clock
          limit,      \* vendor_slots.max_orders
          phase,      \* of a hold: its holdSlot call, then its row's status
          row,        \* of a hold: what its call asked for, and its NOW()
          draft,      \* order_drafts rows, immutable once inserted
          pay,        \* status of the payment of each draft
          order,      \* orders rows: does the slot count see the order?
          att,        \* the placeOrderFromDraft calls
          used,       \* history: the hold each order consumed
          unchecked   \* history: orders put back in a slot with no check

vars == <<now, limit, phase, row, draft, pay, order, att, used, unchecked>>

Clock == 0 .. MaxClock

HoldRow == [quote : Quotes, slot : Slots, day : Days, began : Clock]

HoldPhase == {"idle", "begun", "counted",                  \* the call
              "ACTIVE", "RELEASED", "CONSUMED", "DELETED", \* the row
              "refused"}                                   \* no row: 409, rollback

Running == {"ready", "begun", "locked", "counted"}

Outcomes == {"placed", "existing", "PAYMENT_PENDING", "HOLD_EXPIRED",
             "SLOT_FULL", "failed"}

Attempt == [pc    : {"idle"} \cup Running \cup Outcomes,
            draft : Drafts \cup {Nil},
            began : Clock,
            rows  : SUBSET Holds,
            hold  : Holds \cup {Nil}]

\* A draft's order is "OPEN" while its status is one the capacity queries
\* count and "CLOSED" in PAYMENT_FAILED, VENDOR_REJECTED, AUTO_REJECTED,
\* CUSTOMER_CANCELLED, ADMIN_CANCELLED, REFUNDED (and in NULL, which
\* NOT IN does not select either).
OrderState == {"NONE", "OPEN", "CLOSED"}

TypeOK ==
    /\ now \in Clock
    /\ limit \in [Slots -> Nat]
    /\ phase \in [Holds -> HoldPhase]
    /\ row \in [Holds -> HoldRow \cup {Nil}]
    /\ draft \in [Drafts -> DraftRow \cup {Nil}]
    /\ pay \in [Drafts -> {"PENDING", "PAID", "FAILED"}]
    /\ order \in [Drafts -> OrderState]
    /\ att \in [Attempts -> Attempt]
    /\ used \in [Drafts -> Holds \cup {Nil}]
    /\ unchecked \in SUBSET Drafts

-----------------------------------------------------------------------------
(* What the queries see. *)

Expires(h) == row[h].began + HoldTTL

\* slot_holds that are ACTIVE and unexpired at time t, for a slot and a day
ActiveHolds(s, day, t) ==
    {h \in Holds : /\ phase[h] = "ACTIVE"
                   /\ row[h].slot = s
                   /\ row[h].day = day
                   /\ Expires(h) > t}

\* orders the capacity queries count for a slot and a day
CountedOrders(s, day) ==
    {d \in Drafts : /\ order[d] = "OPEN"
                    /\ draft[d].slot = s
                    /\ draft[d].day = day}

\* the two COUNT(*) queries added up, leaving out the hold `own`
Booked(s, day, t, own) ==
    Cardinality(ActiveHolds(s, day, t) \ {own}) + Cardinality(CountedOrders(s, day))

\* mutant: the quote is left out of the WHERE clause
MatchingAnyQuote(d, t) ==
    {h \in Holds : phase[h] = "ACTIVE" /\ row[h].slot = draft[d].slot /\ Expires(h) > t}

\* the holds placeOrderFromDraft selects FOR UPDATE for draft d: any day
Matching(d, t) ==
    {h \in Holds : /\ phase[h] = "ACTIVE"
                   /\ row[h].quote = draft[d].quote
                   /\ row[h].slot = draft[d].slot
                   /\ Expires(h) > t}

(* Who holds a row lock. *)

\* nobody has the vendor_slots row of s locked
SlotFree(s) ==
    /\ \A h \in Holds : phase[h] = "counted" => row[h].slot # s
    /\ \A a \in Attempts : att[a].pc = "counted" => draft[att[a].draft].slot # s

InTxn(a) == att[a].pc \in {"locked", "counted"}

\* nobody has the order_drafts row (and so the payments row) of d locked
DraftFree(d) == \A a \in Attempts : InTxn(a) => att[a].draft # d

\* mutant: SELECT without FOR UPDATE on slot_holds
RowsNotLocked(R) == R \subseteq Holds

\* nobody has one of these slot_holds rows locked
RowsFree(R) == \A a \in Attempts : InTxn(a) => att[a].rows \cap R = {}

-----------------------------------------------------------------------------
Init ==
    /\ now = 0
    /\ limit = MaxOrders
    /\ phase = [h \in Holds |-> "idle"]
    /\ row = [h \in Holds |-> Nil]
    /\ draft = [d \in Drafts |-> Nil]
    /\ pay = [d \in Drafts |-> "PENDING"]
    /\ order = [d \in Drafts |-> "NONE"]
    /\ att = [a \in Attempts |->
                [pc |-> "idle", draft |-> Nil, began |-> 0, rows |-> {}, hold |-> Nil]]
    /\ used = [d \in Drafts |-> Nil]
    /\ unchecked = {}

Tick ==
    /\ now < MaxClock
    /\ now' = now + 1
    /\ UNCHANGED <<limit, phase, row, draft, pay, order, att, used, unchecked>>

SetPhase(h, p) ==
    /\ phase' = [phase EXCEPT ![h] = p]
    /\ UNCHANGED <<now, limit, draft, pay, order, att, used, unchecked>>

-----------------------------------------------------------------------------
(* SlotsService.holdSlot and releaseHold *)

\* the quote is this customer's: BEGIN
HoldBegin(h, q, s, day) ==
    /\ phase[h] = "idle"
    /\ row' = [row EXCEPT ![h] = [quote |-> q, slot |-> s, day |-> day, began |-> now]]
    /\ SetPhase(h, "begun")

\* mutant: SELECT without FOR UPDATE on vendor_slots
HoldCountUnlocked(h) ==
    /\ phase[h] = "begun"
    /\ Booked(row[h].slot, row[h].day, row[h].began, Nil) < limit[row[h].slot]
    /\ SetPhase(h, "counted")
    /\ UNCHANGED row

\* mutant: > for >= in the capacity check
HoldCountOneMore(h) ==
    /\ phase[h] = "begun"
    /\ SlotFree(row[h].slot)
    /\ Booked(row[h].slot, row[h].day, row[h].began, Nil) <= limit[row[h].slot]
    /\ SetPhase(h, "counted")
    /\ UNCHANGED row

\* the slot row is ours and there is room: go on to the INSERT, still locked
HoldCount(h) ==
    /\ phase[h] = "begun"
    /\ SlotFree(row[h].slot)
    /\ Booked(row[h].slot, row[h].day, row[h].began, Nil) < limit[row[h].slot]
    /\ SetPhase(h, "counted")
    /\ UNCHANGED row

\* 'Pickup slot is fully booked'
HoldRefuse(h) ==
    /\ phase[h] = "begun"
    /\ SlotFree(row[h].slot)
    /\ Booked(row[h].slot, row[h].day, row[h].began, Nil) >= limit[row[h].slot]
    /\ SetPhase(h, "refused")
    /\ UNCHANGED row

\* INSERT and COMMIT
HoldCommit(h) ==
    /\ phase[h] = "counted"
    /\ SetPhase(h, "ACTIVE")
    /\ UNCHANGED row

\* any statement fails, or the process dies: ROLLBACK
HoldFail(h) ==
    /\ phase[h] \in {"begun", "counted"}
    /\ SetPhase(h, "refused")
    /\ UNCHANGED row

\* mutant: a status the CHECK constraint does not list
ReleaseHoldBadStatus(h) ==
    /\ phase[h] = "ACTIVE"
    /\ RowsFree({h})
    /\ SetPhase(h, "CANCELLED")
    /\ UNCHANGED row

\* mutant: read the status, then write without rechecking it
ReleaseHoldUnlocked(h) ==
    /\ phase[h] = "ACTIVE"
    /\ SetPhase(h, "RELEASED")
    /\ UNCHANGED row

\* one UPDATE ... WHERE status = 'ACTIVE': waits for the row, then rechecks
ReleaseHold(h) ==
    /\ phase[h] = "ACTIVE"
    /\ RowsFree({h})
    /\ SetPhase(h, "RELEASED")
    /\ UNCHANGED row

-----------------------------------------------------------------------------
(* OrdersService.prepareOrder: the hold must be unexpired, not ACTIVE.       *)
(* booking_date, a DATE, is read as local midnight and goes into the         *)
(* snapshot as a UTC string: SnapshotDay is the identity in a process whose  *)
(* time zone is UTC or west of it, and the day before in one east of it.     *)

Prepare(d, h) ==
    /\ draft[d] = Nil
    /\ phase[h] \in {"ACTIVE", "RELEASED", "CONSUMED"}
    /\ Expires(h) > now
    /\ draft' = [draft EXCEPT ![d] = [quote |-> row[h].quote,
                                      slot  |-> row[h].slot,
                                      day   |-> SnapshotDay[row[h].day]]]
    /\ UNCHANGED <<now, limit, phase, row, pay, order, att, used, unchecked>>

-----------------------------------------------------------------------------
(* OrdersService.placeOrderFromDraft *)

SetAttempt(a, rec) ==
    /\ att' = [att EXCEPT ![a] = rec]
    /\ UNCHANGED <<now, limit, phase, row, draft, pay, order, used, unchecked>>

\* the unlocked idempotency read
PlaceRead(a, d) ==
    /\ att[a].pc = "idle"
    /\ draft[d] # Nil
    /\ SetAttempt(a, [att[a] EXCEPT !.pc = IF order[d] = "NONE" THEN "ready" ELSE "existing",
                                    !.draft = d])

PlaceBegin(a) ==
    /\ att[a].pc = "ready"
    /\ SetAttempt(a, [att[a] EXCEPT !.pc = "begun", !.began = now])

\* draft, payment and hold rows locked, rows[0] is the hold to consume
PlaceLock(a, h) ==
    LET d == att[a].draft
        R == Matching(d, att[a].began)
    IN  /\ att[a].pc = "begun"
        /\ DraftFree(d)
        /\ pay[d] = "PAID"
        /\ h \in R
        /\ RowsFree(R)
        /\ SetAttempt(a, [att[a] EXCEPT !.pc = "locked", !.rows = R, !.hold = h])

\* mutant: no answer when no hold is left
PlaceRefuseUnpaidOnly(a) ==
    /\ att[a].pc = "begun"
    /\ DraftFree(att[a].draft)
    /\ pay[att[a].draft] # "PAID"
    /\ SetAttempt(a, [att[a] EXCEPT !.pc = "PAYMENT_PENDING"])

\* PAYMENT_PENDING or HOLD_EXPIRED: ROLLBACK
PlaceRefuse(a) ==
    LET d == att[a].draft
    IN  /\ att[a].pc = "begun"
        /\ DraftFree(d)
        /\ \/ /\ pay[d] # "PAID"
              /\ SetAttempt(a, [att[a] EXCEPT !.pc = "PAYMENT_PENDING"])
           \/ /\ pay[d] = "PAID"
              /\ Matching(d, att[a].began) = {}
              /\ SetAttempt(a, [att[a] EXCEPT !.pc = "HOLD_EXPIRED"])

\* the slot row is ours: count everybody but our own hold
PlaceCount(a) ==
    LET d == att[a].draft
        n == Booked(draft[d].slot, draft[d].day, att[a].began, att[a].hold)
    IN  /\ att[a].pc = "locked"
        /\ SlotFree(draft[d].slot)
        /\ SetAttempt(a, [att[a] EXCEPT !.pc = IF n < limit[draft[d].slot]
                                               THEN "counted" ELSE "SLOT_FULL"])

\* INSERT the order under the draft's id, link the payment, consume the hold
PlaceCommit(a) ==
    LET d == att[a].draft
        h == att[a].hold
    IN  /\ att[a].pc = "counted"
        /\ order[d] = "NONE"
        /\ order' = [order EXCEPT ![d] = "OPEN"]
        /\ phase' = [phase EXCEPT ![h] = "CONSUMED"]
        /\ used' = [used EXCEPT ![d] = h]
        /\ att' = [att EXCEPT ![a].pc = "placed"]
        /\ UNCHANGED <<now, limit, row, draft, pay, unchecked>>

\* the order of this draft is already there: duplicate key, ROLLBACK
PlaceDuplicate(a) ==
    /\ att[a].pc = "counted"
    /\ order[att[a].draft] # "NONE"
    /\ SetAttempt(a, [att[a] EXCEPT !.pc = "failed"])

\* any statement fails, or the process dies: ROLLBACK
PlaceFail(a) ==
    /\ att[a].pc \in Running
    /\ SetAttempt(a, [att[a] EXCEPT !.pc = "failed"])

-----------------------------------------------------------------------------
(* What else moves holds and orders in and out of the count.  Each is one  *)
(* autocommitted statement or one short transaction: verifyPayment and the *)
(* webhook write payments, orders and slot_holds one after the other, with *)
(* nothing between them, so each write is an action.                       *)

\* verifyPayment or the payment.captured webhook
Capture(d) ==
    /\ draft[d] # Nil
    /\ pay[d] # "PAID"
    /\ DraftFree(d)
    /\ pay' = [pay EXCEPT ![d] = "PAID"]
    /\ UNCHANGED <<now, limit, phase, row, draft, order, att, used, unchecked>>

\* mutant: the payments row is not locked by the placement
PaymentFailedUnlocked(d) ==
    /\ draft[d] # Nil
    /\ pay' = [pay EXCEPT ![d] = "FAILED"]
    /\ UNCHANGED <<now, limit, phase, row, draft, order, att, used, unchecked>>

\* payment.failed, or a bad signature: the payments row
PaymentFailed(d) ==
    /\ draft[d] # Nil
    /\ DraftFree(d)
    /\ pay' = [pay EXCEPT ![d] = "FAILED"]
    /\ UNCHANGED <<now, limit, phase, row, draft, order, att, used, unchecked>>

Existing == {h \in Holds : phase[h] \in {"ACTIVE", "RELEASED", "CONSUMED"}}

Delete(R) ==
    /\ RowsFree(R)
    /\ phase' = [h \in Holds |-> IF h \in R THEN "DELETED" ELSE phase[h]]

\* _releaseSlotHold, of this payment or of another payment of the draft, whose
\* status no placement looks at
DropHolds(d) ==
    /\ draft[d] # Nil
    /\ Delete({h \in Existing : row[h].quote = draft[d].quote})
    /\ UNCHANGED <<now, limit, row, draft, pay, order, att, used, unchecked>>

\* VendorOrdersService.rejectOrder deletes the holds of the slot and day, and
\* again when it is repeated on a rejected order
VendorReject(d) ==
    /\ order[d] # "NONE"
    /\ order' = [order EXCEPT ![d] = "CLOSED"]
    /\ Delete({h \in Existing : row[h].slot = draft[d].slot /\ row[h].day = draft[d].day})
    /\ UNCHANGED <<now, limit, row, draft, pay, att, used, unchecked>>

\* payment.failed of a linked payment, handleAutoReject, PaymentsService.refund
CloseOrder(d) ==
    /\ order[d] = "OPEN"
    /\ order' = [order EXCEPT ![d] = "CLOSED"]
    /\ UNCHANGED <<now, limit, phase, row, draft, pay, att, used, unchecked>>

\* verifyPayment of a linked payment sets WAITING_VENDOR_CONFIRMATION and
\* markPickedUp sets PICKED_UP, whatever the status has become, and neither
\* looks at the slot
Reopen(d) ==
    /\ order[d] = "CLOSED"
    /\ order' = [order EXCEPT ![d] = "OPEN"]
    /\ unchecked' = unchecked \cup {d}
    /\ UNCHANGED <<now, limit, phase, row, draft, pay, att, used>>

-----------------------------------------------------------------------------
(* VendorsService.updatePickupSlot: one UPDATE, which waits for the slot's *)
(* row, and looks at no hold and no order.                                 *)

\* mutant: max_orders is not under the lock a transaction counts with
SetMaxOrdersUnlocked(s, n) ==
    /\ limit' = [limit EXCEPT ![s] = n]
    /\ UNCHANGED <<now, phase, row, draft, pay, order, att, used, unchecked>>

SetMaxOrders(s, n) ==
    /\ SlotFree(s)
    /\ limit' = [limit EXCEPT ![s] = n]
    /\ UNCHANGED <<now, phase, row, draft, pay, order, att, used, unchecked>>

-----------------------------------------------------------------------------
HoldStep(h) == HoldCount(h) \/ HoldRefuse(h) \/ HoldCommit(h)

PlaceStep(a) ==
    \/ PlaceBegin(a)
    \/ \E h \in Holds : PlaceLock(a, h)
    \/ PlaceRefuse(a)
    \/ PlaceCount(a)
    \/ PlaceCommit(a)
    \/ PlaceDuplicate(a)

Next ==
    \/ Tick
    \/ \E h \in Holds :
          \/ \E q \in Quotes, s \in Slots, day \in Days : HoldBegin(h, q, s, day)
          \/ HoldStep(h)
          \/ HoldFail(h)
          \/ ReleaseHold(h)
          \/ \E d \in Drafts : Prepare(d, h)
    \/ \E a \in Attempts :
          \/ \E d \in Drafts : PlaceRead(a, d)
          \/ PlaceStep(a)
          \/ PlaceFail(a)
    \/ \E d \in Drafts :
          \/ Capture(d)
          \/ PaymentFailed(d)
          \/ DropHolds(d)
          \/ VendorReject(d)
          \/ CloseOrder(d)
          \/ Reopen(d)
    \/ \E s \in Slots, n \in Limits : SetMaxOrders(s, n)

Spec == Init /\ [][Next]_vars

\* A call that was begun is driven on by its request handler.  No fairness
\* of HoldFail and PlaceFail: nothing has to go wrong for a lock to come free.
Fairness == /\ \A h \in Holds : WF_vars(HoldStep(h))
            /\ \A a \in Attempts : WF_vars(PlaceStep(a))

FairSpec == Spec /\ Fairness

-----------------------------------------------------------------------------
(* Properties *)

\* everybody who has a place of slot s on a day: live holds, and the orders
\* that got their place by a capacity check
Claims(s, day) ==
    ActiveHolds(s, day, now) \cup (CountedOrders(s, day) \ unchecked)

\* The checks of holdSlot and placeOrderFromDraft, each over counts that
\* other sessions are changing, with a NOW() that lock waits made stale and a
\* max_orders the vendor may change, never give out a place of a slot beyond
\* the max_orders of that moment.  (Lowering max_orders takes no place back.)
AdmissionCapacity ==
    [][\A s \in Slots, day \in Days :
          \/ Claims(s, day)' \subseteq Claims(s, day)
          \/ Cardinality(Claims(s, day)') <= limit[s]]_vars

\* AdmissionCapacity needs an invariant: between the count and the commit a
\* transaction relies on its slot lock.  The invariant says what the lock
\* gives (one counted transaction per slot), what it is for (there is still
\* room when the transaction commits), that NOW() of a transaction is never
\* ahead of the clock, and that rows exist before they are used.
RowsKnown ==
    /\ \A h \in Holds : phase[h] # "idle" => row[h] \in HoldRow /\ row[h].began <= now
    /\ \A d \in Drafts : order[d] # "NONE" => draft[d] \in DraftRow
    /\ \A a \in Attempts :
          /\ att[a].began <= now
          /\ att[a].hold \in Holds => phase[att[a].hold] # "idle"
          /\ att[a].pc \in Running => /\ att[a].draft \in Drafts
                                     /\ draft[att[a].draft] \in DraftRow

SlotExclusive ==
    /\ \A h, i \in Holds :
          phase[h] = "counted" /\ phase[i] = "counted" /\ row[h].slot = row[i].slot => h = i
    /\ \A h \in Holds, a \in Attempts :
          phase[h] = "counted" /\ att[a].pc = "counted"
              => row[h].slot # draft[att[a].draft].slot
    /\ \A a, b \in Attempts :
          /\ att[a].pc = "counted"
          /\ att[b].pc = "counted"
          /\ draft[att[a].draft].slot = draft[att[b].draft].slot
          => a = b

RoomKept ==
    /\ \A h \in Holds : phase[h] = "counted" =>
          Cardinality(Claims(row[h].slot, row[h].day)) < limit[row[h].slot]
    /\ \A a \in Attempts : att[a].pc = "counted" =>
          LET d == draft[att[a].draft]
          IN  Cardinality(Claims(d.slot, d.day) \ {att[a].hold}) < limit[d.slot]

IInv ==
    /\ TypeOK
    /\ RowsKnown
    /\ SlotExclusive
    /\ RoomKept

\* The other row locks of a placement.  Between PlaceLock and its end nobody
\* else has its draft, its payment or one of its holds: the payment stays PAID
\* and the holds ACTIVE, so the one it consumes was no other order's.
LocksKept ==
    \A a \in Attempts : InTxn(a) =>
        /\ pay[att[a].draft] = "PAID"
        /\ att[a].hold \in att[a].rows
        /\ \A h \in att[a].rows : /\ phase[h] = "ACTIVE"
                                  /\ row[h].quote = draft[att[a].draft].quote
                                  /\ row[h].slot = draft[att[a].draft].slot
        /\ \A b \in Attempts \ {a} : InTxn(b) => /\ att[b].draft # att[a].draft
                                               /\ att[b].rows \cap att[a].rows = {}

UsedKnown ==
    \A d \in Drafts : used[d] # Nil =>
        /\ order[d] # "NONE"
        /\ phase[used[d]] \in {"CONSUMED", "DELETED"}

\* An order takes the place of one hold, of its own quote and slot, and no
\* two orders take the place of the same hold, even when one quote has
\* several drafts that are placed at the same time.
HoldUsedOnce ==
    \A d \in Drafts : used[d] # Nil =>
        /\ row[used[d]].quote = draft[d].quote
        /\ row[used[d]].slot = draft[d].slot
        /\ \A e \in Drafts \ {d} : used[e] # used[d]

LockInv == LocksKept /\ UsedKnown /\ HoldUsedOnce

\* An order appears only while its draft's payment is PAID: a payment that
\* fails between the check and the commit waits for the payment's row lock.
PlacedOnlyWhenPaid ==
    [][\A d \in Drafts : order[d] = "NONE" /\ order'[d] # "NONE" => pay[d] = "PAID"]_vars

\* A hold given up (DELETE /slot-holds answered 200) or used stays so: the
\* customer's release and a placement never both win.
HoldEndsOnce ==
    [][\A h \in Holds :
          phase[h] \in {"RELEASED", "CONSUMED", "DELETED", "refused"} =>
              phase'[h] \in {phase[h], "DELETED"}]_vars

\* The transactions implement the atomic admission of SlotAdmission.
Admission == INSTANCE SlotAdmission WITH
    Keys      <- Slots \X Days,
    Claimants <- Holds \cup Drafts,
    claims    <- [k \in Slots \X Days |-> Claims(k[1], k[2])],
    limit     <- [k \in Slots \X Days |-> limit[k[1]]]

AdmissionSpec == Admission!Spec

\* Every call that began a transaction answers: the lock orders draft, hold,
\* slot (placement) and slot (hold) leave nobody waiting forever.
CallsAnswer ==
    /\ \A h \in Holds : phase[h] = "begun" ~> phase[h] \notin {"begun", "counted"}
    /\ \A a \in Attempts : att[a].pc = "ready" ~> att[a].pc \in Outcomes

-----------------------------------------------------------------------------
(* A claim of the code's comments that its steps do not keep. *)

\* "5. Enforce slot capacity under lock": the orders and live holds of a slot
\* never exceed max_orders, even where no vendor changes it.  Reopen puts an
\* order back with no check.
SlotCapacity ==
    \A s \in Slots, day \in Days :
        Cardinality(ActiveHolds(s, day, now)) + Cardinality(CountedOrders(s, day))
            <= MaxOrders[s]

=============================================================================
