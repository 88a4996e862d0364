------------------------- MODULE SlotBookingProofs -------------------------
(***************************************************************************)
(* Proofs about SlotBooking, for every number of customers, slots, days,   *)
(* holds, drafts and concurrent calls, and every max_orders.               *)
(***************************************************************************)
EXTENDS SlotBooking, FiniteSetTheorems, TLAPS

-----------------------------------------------------------------------------
(* Typing *)

Typing == TypeOK /\ RowsKnown

\* The initial state is well typed and has no rows.
LEMMA TypingInit == Init => Typing
BY SlotBookingAssumption
   DEF Init, Typing, TypeOK, RowsKnown, Clock, HoldPhase, OrderState, Attempt, Running,
       Outcomes

\* A step of holdSlot or releaseHold keeps the typing: a hold that has left
\* idle has its row, and its NOW() is not ahead of the clock.
LEMMA TypingHold ==
    ASSUME Typing, NEW h \in Holds,
           \/ \E q \in Quotes, s \in Slots, day \in Days : HoldBegin(h, q, s, day)
           \/ HoldStep(h)
           \/ HoldFail(h)
           \/ ReleaseHold(h)
    PROVE  Typing'
<1>1. CASE \E q \in Quotes, s \in Slots, day \in Days : HoldBegin(h, q, s, day)
    BY <1>1, SlotBookingAssumption
       DEF HoldBegin, SetPhase, Typing, TypeOK, RowsKnown, HoldPhase, HoldRow, Clock
<1>2. CASE HoldStep(h) \/ HoldFail(h) \/ ReleaseHold(h)
    BY <1>2
       DEF HoldStep, HoldCount, HoldRefuse, HoldCommit, HoldFail, ReleaseHold, SetPhase,
           Typing, TypeOK, RowsKnown, HoldPhase
<1> QED BY <1>1, <1>2

\* A step that only rewrites one placement call keeps the typing, when the
\* new record refers to rows that exist.
LEMMA TypingSetAttempt ==
    ASSUME Typing, NEW a \in Attempts, NEW r \in Attempt,
           r.began <= now,
           r.hold \in Holds => phase[r.hold] # "idle",
           r.pc \in Running => r.draft \in Drafts /\ draft[r.draft] \in DraftRow,
           SetAttempt(a, r)
    PROVE  Typing'
BY DEF Typing, TypeOK, RowsKnown, SetAttempt

\* Every step of placeOrderFromDraft keeps the typing.
LEMMA TypingPlace ==
    ASSUME Typing, NEW a \in Attempts,
           \/ \E d \in Drafts : PlaceRead(a, d)
           \/ PlaceStep(a)
           \/ PlaceFail(a)
    PROVE  Typing'
<1>a. /\ att[a] \in Attempt
      /\ att[a].began <= now
      /\ att[a].hold \in Holds => phase[att[a].hold] # "idle"
      /\ now \in Clock
      /\ att[a].pc \in Running => /\ att[a].draft \in Drafts
                                 /\ draft[att[a].draft] \in DraftRow
    BY DEF Typing, TypeOK, RowsKnown
<1>r. ASSUME NEW p \in Running \cup Outcomes, att[a].pc \in Running,
             SetAttempt(a, [att[a] EXCEPT !.pc = p])
      PROVE  Typing'
    <2> DEFINE r == [att[a] EXCEPT !.pc = p]
    <2>1. r \in Attempt /\ r.began = att[a].began /\ r.draft = att[a].draft
                         /\ r.hold = att[a].hold
        BY <1>a DEF Attempt
    <2> HIDE DEF r
    <2>2. SetAttempt(a, r)
        BY <1>r DEF r
    <2> QED BY <1>a, <1>r, <2>1, <2>2, TypingSetAttempt
<1>1. ASSUME NEW d \in Drafts, PlaceRead(a, d) PROVE Typing'
    <2> DEFINE r == [att[a] EXCEPT !.pc = IF order[d] = "NONE" THEN "ready" ELSE "existing",
                                   !.draft = d]
    <2>1. r \in Attempt /\ r.began = att[a].began /\ r.draft = d /\ r.hold = att[a].hold
        BY <1>a DEF Attempt, Running, Outcomes
    <2>2. draft[d] \in DraftRow
        BY <1>1 DEF PlaceRead, Typing, TypeOK
    <2> HIDE DEF r
    <2>3. SetAttempt(a, r)
        BY <1>1 DEF PlaceRead, r
    <2> QED BY <1>a, <2>1, <2>2, <2>3, TypingSetAttempt
<1>2. CASE PlaceBegin(a)
    <2> DEFINE r == [att[a] EXCEPT !.pc = "begun", !.began = now]
    <2>1. r \in Attempt /\ r.began = now /\ r.draft = att[a].draft /\ r.hold = att[a].hold
        BY <1>a DEF Attempt, Running
    <2>2. att[a].pc \in Running /\ now <= now
        BY <1>2, <1>a, SlotBookingAssumption DEF PlaceBegin, Running, Clock
    <2> HIDE DEF r
    <2>3. SetAttempt(a, r)
        BY <1>2 DEF PlaceBegin, r
    <2> QED BY <1>a, <2>1, <2>2, <2>3, TypingSetAttempt
<1>3. ASSUME NEW h \in Holds, PlaceLock(a, h) PROVE Typing'
    <2> DEFINE R == Matching(att[a].draft, att[a].began)
               r == [att[a] EXCEPT !.pc = "locked", !.rows = R, !.hold = h]
    <2>1. R \in SUBSET Holds
        BY DEF Matching
    <2>2. SetAttempt(a, r) /\ att[a].pc \in Running
        BY <1>3 DEF PlaceLock, Running
    <2>4. phase[h] # "idle"
        BY <1>3 DEF PlaceLock, Matching
    <2> HIDE DEF R
    <2>3. r \in Attempt /\ r.began = att[a].began /\ r.draft = att[a].draft /\ r.hold = h
        BY <1>a, <2>1 DEF Attempt, Running
    <2> HIDE DEF r
    <2> QED BY <1>a, <2>2, <2>3, <2>4, TypingSetAttempt
<1>4. CASE PlaceRefuse(a) \/ PlaceDuplicate(a) \/ PlaceFail(a)
    BY <1>4, <1>r DEF PlaceRefuse, PlaceDuplicate, PlaceFail, Running, Outcomes
<1>5. CASE PlaceCount(a)
    <2> DEFINE p == IF Booked(draft[att[a].draft].slot, draft[att[a].draft].day,
                              att[a].began, att[a].hold)
                         < limit[draft[att[a].draft].slot]
                    THEN "counted" ELSE "SLOT_FULL"
    <2>1. SetAttempt(a, [att[a] EXCEPT !.pc = p]) /\ att[a].pc \in Running
        BY <1>5 DEF PlaceCount, Running
    <2>2. p \in Running \cup Outcomes
        BY DEF Running, Outcomes
    <2> HIDE DEF p
    <2> QED BY <1>r, <2>1, <2>2
<1>6. CASE PlaceCommit(a)
    <2>1. att[a].pc = "counted" /\ att[a].pc \in Running
        BY <1>6 DEF PlaceCommit, Running
    <2>2. [att[a] EXCEPT !.pc = "placed"] \in Attempt
        BY <1>a DEF Attempt, Outcomes
    <2>3. att' = [att EXCEPT ![a] = [att[a] EXCEPT !.pc = "placed"]]
        BY <1>6 DEF PlaceCommit, Typing, TypeOK
    <2>4. \A b \in Attempts : /\ att'[b] \in Attempt
                              /\ att'[b].began = att[b].began
                              /\ att'[b].draft = att[b].draft
                              /\ att'[b].hold = att[b].hold
                              /\ att'[b].pc \in Running => att[b].pc \in Running
        BY <1>a, <2>1, <2>2, <2>3 DEF Typing, TypeOK, Attempt
    <2>5. order' \in [Drafts -> OrderState] /\ phase' \in [Holds -> HoldPhase]
          /\ used' \in [Drafts -> Holds \cup {Nil}]
        BY <1>6, <1>a, <2>1 DEF PlaceCommit, Typing, TypeOK, OrderState, HoldPhase, Attempt
    <2>6. \A e \in Drafts : order'[e] # "NONE" => draft[e] \in DraftRow
        BY <1>6, <1>a, <2>1 DEF PlaceCommit, Typing, TypeOK, RowsKnown
    <2>7. \A h \in Holds : phase'[h] # "idle" <=> phase[h] # "idle"
        BY <1>6, <1>a DEF PlaceCommit, Typing, TypeOK
    <2> QED BY <1>6, <2>3, <2>4, <2>5, <2>6, <2>7 DEF PlaceCommit, Typing, TypeOK, RowsKnown
<1> QED BY <1>1, <1>2, <1>3, <1>4, <1>5, <1>6 DEF PlaceStep

\* The clock, prepareOrder and the statements of the other services keep the
\* typing.
LEMMA TypingOther ==
    ASSUME Typing,
           \/ Tick
           \/ \E h \in Holds, d \in Drafts : Prepare(d, h)
           \/ \E d \in Drafts : \/ Capture(d) \/ PaymentFailed(d) \/ DropHolds(d)
                                \/ VendorReject(d) \/ CloseOrder(d) \/ Reopen(d)
           \/ \E s \in Slots, n \in Limits : SetMaxOrders(s, n)
           \/ UNCHANGED vars
    PROVE  Typing'
<1> USE DEF Typing, TypeOK, RowsKnown
<1>1. CASE Tick
    <2>1. now' \in Clock /\ \A t \in Clock : t <= now => t <= now'
        BY <1>1, SlotBookingAssumption DEF Tick, Clock
    <2>2. \A h \in Holds : phase[h] # "idle" => row[h].began \in Clock
        BY DEF HoldRow
    <2>3. \A a \in Attempts : att[a].began \in Clock
        BY DEF Attempt
    <2> QED BY <1>1, <2>1, <2>2, <2>3 DEF Tick
<1>2. CASE \E h \in Holds, d \in Drafts : Prepare(d, h)
    BY <1>2, SlotBookingAssumption DEF Prepare, HoldRow, DraftRow
<1>3. ASSUME NEW d \in Drafts, Capture(d) \/ PaymentFailed(d) \/ CloseOrder(d) \/ Reopen(d)
      PROVE  Typing'
    BY <1>3 DEF Capture, PaymentFailed, CloseOrder, Reopen, OrderState
<1>4. ASSUME NEW d \in Drafts, DropHolds(d) \/ VendorReject(d)
      PROVE  Typing'
    <2>1. phase' \in [Holds -> HoldPhase]
        BY <1>4 DEF DropHolds, VendorReject, Delete, HoldPhase
    <2>2. \A h \in Holds : phase'[h] # "idle" => phase[h] # "idle"
        BY <1>4 DEF DropHolds, VendorReject, Delete, Existing
    <2>5. \A h \in Holds : phase[h] # "idle" => phase'[h] # "idle"
        BY <1>4 DEF DropHolds, VendorReject, Delete
    <2>3. \A e \in Drafts : order'[e] # "NONE" => order[e] # "NONE"
        BY <1>4 DEF DropHolds, VendorReject
    <2>4. order' \in [Drafts -> OrderState] /\ pay' \in [Drafts -> {"PENDING", "PAID", "FAILED"}]
        BY <1>4 DEF DropHolds, VendorReject, OrderState
    <2> QED
        BY <1>4, <2>1, <2>2, <2>3, <2>4, <2>5 DEF DropHolds, VendorReject
<1>5. CASE UNCHANGED vars
    BY <1>5 DEF vars
<1>6. CASE \E s \in Slots, n \in Limits : SetMaxOrders(s, n)
    BY <1>6, SlotBookingAssumption DEF SetMaxOrders
<1> QED BY <1>1, <1>2, <1>3, <1>4, <1>5, <1>6

\* Typing is inductive.
LEMMA TypingStep == Typing /\ [Next]_vars => Typing'
<1> SUFFICES ASSUME Typing, [Next]_vars PROVE Typing'
    OBVIOUS
<1>1. CASE Tick \/ UNCHANGED vars \/ \E s \in Slots, n \in Limits : SetMaxOrders(s, n)
    BY <1>1, TypingOther
<1>2. ASSUME NEW h \in Holds,
             \/ \E q \in Quotes, s \in Slots, day \in Days : HoldBegin(h, q, s, day)
             \/ HoldStep(h)
             \/ HoldFail(h)
             \/ ReleaseHold(h)
             \/ \E d \in Drafts : Prepare(d, h)
      PROVE  Typing'
    BY <1>2, TypingHold, TypingOther
<1>3. ASSUME NEW a \in Attempts,
             (\E d \in Drafts : PlaceRead(a, d)) \/ PlaceStep(a) \/ PlaceFail(a)
      PROVE  Typing'
    BY <1>3, TypingPlace
<1>4. ASSUME NEW d \in Drafts,
             \/ Capture(d) \/ PaymentFailed(d) \/ DropHolds(d)
             \/ VendorReject(d) \/ CloseOrder(d) \/ Reopen(d)
      PROVE  Typing'
    BY <1>4, TypingOther
<1> QED BY <1>1, <1>2, <1>3, <1>4 DEF Next

\* Every variable keeps its type, and rows exist before a transaction or an
\* order refers to them.
THEOREM TypeCorrect == Spec => []TypeOK
<1>1. Typing => TypeOK
    BY DEF Typing
<1> QED BY TypingInit, TypingStep, <1>1, PTL DEF Spec

-----------------------------------------------------------------------------
(* Capacity *)

\* The claimants of a key are finitely many, so the counts below are numbers.
LEMMA ClaimsFinite ==
    ASSUME NEW s, NEW day
    PROVE  /\ Claims(s, day) \subseteq Holds \cup Drafts
           /\ IsFiniteSet(Claims(s, day))
           /\ Cardinality(Claims(s, day)) \in Nat
<1>1. IsFiniteSet(Holds \cup Drafts)
    BY SlotBookingAssumption, FS_Union
<1>2. Claims(s, day) \subseteq Holds \cup Drafts
    BY DEF Claims, ActiveHolds, CountedOrders
<1> QED BY <1>1, <1>2, FS_Subset, FS_CardinalityType

\* One claimant more is at most one place more.
LEMMA OneMore ==
    ASSUME NEW S, IsFiniteSet(S), NEW x
    PROVE  /\ IsFiniteSet(S \cup {x})
           /\ Cardinality(S \cup {x}) \in Nat
           /\ Cardinality(S \cup {x}) <= Cardinality(S) + 1
<1>1. /\ IsFiniteSet(S \cup {x})
      /\ Cardinality(S \cup {x}) = IF x \in S THEN Cardinality(S) ELSE Cardinality(S) + 1
    BY FS_AddElement, Zenon
<1>2. Cardinality(S) \in Nat
    BY FS_CardinalityType, Zenon
<1> QED BY <1>1, <1>2

\* Fewer claimants take no more places.
LEMMA FewerClaims ==
    ASSUME NEW s, NEW day, NEW S \in SUBSET Claims(s, day)
    PROVE  /\ IsFiniteSet(S)
           /\ Cardinality(S) \in Nat
           /\ Cardinality(S) <= Cardinality(Claims(s, day))
BY ClaimsFinite, FS_Subset, FS_CardinalityType

\* What the two COUNT queries add up to, with a NOW() that may be stale, is
\* never less than the number of the other claimants.
LEMMA BookedBounds ==
    ASSUME Typing, NEW s, NEW day, NEW t \in Clock, t <= now, NEW own
    PROVE  /\ Booked(s, day, t, own) \in Nat
           /\ Cardinality(Claims(s, day) \ {own}) <= Booked(s, day, t, own)
<1> DEFINE A == ActiveHolds(s, day, t) \ {own}
           O == CountedOrders(s, day)
<1>1. A \in SUBSET Holds /\ O \in SUBSET Drafts
    BY DEF ActiveHolds, CountedOrders
<1>2. IsFiniteSet(A) /\ IsFiniteSet(O) /\ A \cap O = {}
    BY <1>1, SlotBookingAssumption, FS_Subset
<1>3. Claims(s, day) \ {own} \subseteq A \cup O
    <2> SUFFICES ASSUME NEW x \in ActiveHolds(s, day, now), x # own
                 PROVE  x \in ActiveHolds(s, day, t)
        BY DEF Claims
    <2>1. x \in Holds /\ row[x].began \in Nat /\ now \in Nat /\ t \in Nat
        BY SlotBookingAssumption
           DEF Typing, TypeOK, RowsKnown, ActiveHolds, HoldRow, Clock
    <2> QED BY <2>1, SlotBookingAssumption DEF ActiveHolds, Expires
<1> HIDE DEF A, O
<1>4. /\ IsFiniteSet(A \cup O)
      /\ Cardinality(A \cup O) = Cardinality(A) + Cardinality(O)
    <2>1. /\ IsFiniteSet(A \cup O)
          /\ Cardinality(A \cup O) = Cardinality(A) + Cardinality(O) - Cardinality(A \cap O)
        BY <1>2, FS_Union
    <2>2. Cardinality(A \cap O) = 0
        BY <1>2, FS_EmptySet
    <2>3. Cardinality(A) \in Nat /\ Cardinality(O) \in Nat
        BY <1>2, FS_CardinalityType
    <2> QED BY <2>1, <2>2, <2>3
<1>5. Cardinality(Claims(s, day) \ {own}) <= Cardinality(A \cup O)
    BY <1>3, <1>4, FS_Subset
<1>6. Cardinality(A) \in Nat /\ Cardinality(O) \in Nat
    BY <1>2, FS_CardinalityType
<1> QED BY <1>4, <1>5, <1>6 DEF Booked, A, O

\* no hold becomes active, no order becomes counted and checked
Quiet ==
    /\ now <= now'
    /\ \A h \in Holds : phase'[h] = "ACTIVE" => phase[h] = "ACTIVE" /\ row'[h] = row[h]
    /\ \A d \in Drafts : order'[d] = "OPEN" /\ d \notin unchecked' =>
          order[d] = "OPEN" /\ d \notin unchecked /\ draft'[d] = draft[d]

\* no transaction passes its capacity check, and max_orders does not change
\* for one that has
NoCount ==
    /\ \A h \in Holds : phase'[h] = "counted" =>
          /\ phase[h] = "counted"
          /\ row'[h] = row[h]
          /\ limit'[row[h].slot] = limit[row[h].slot]
    /\ \A a \in Attempts : att'[a].pc = "counted" =>
          /\ att[a].pc = "counted"
          /\ att'[a].draft = att[a].draft
          /\ att'[a].hold = att[a].hold
          /\ draft'[att[a].draft] = draft[att[a].draft]
          /\ limit'[draft[att[a].draft].slot] = limit[draft[att[a].draft].slot]

\* In a quiet step the claimants of every key can only leave.
LEMMA QuietClaims ==
    ASSUME Typing, Typing', Quiet, NEW s, NEW day
    PROVE  Claims(s, day)' \subseteq Claims(s, day)
<1>1. now \in Nat /\ now' \in Nat
    BY SlotBookingAssumption DEF Typing, TypeOK, Clock
<1>2. ASSUME NEW h \in ActiveHolds(s, day, now)'
      PROVE  h \in ActiveHolds(s, day, now)
    <2>1. h \in Holds /\ phase'[h] = "ACTIVE" /\ phase[h] = "ACTIVE" /\ row'[h] = row[h]
        BY <1>2 DEF ActiveHolds, Quiet
    <2>2. row[h].began \in Nat
        BY <2>1, SlotBookingAssumption DEF Typing, RowsKnown, HoldRow, Clock
    <2> QED BY <1>1, <1>2, <2>1, <2>2, SlotBookingAssumption DEF ActiveHolds, Expires, Quiet
<1>3. ASSUME NEW d \in (CountedOrders(s, day) \ unchecked)'
      PROVE  d \in CountedOrders(s, day) \ unchecked
    BY <1>3 DEF CountedOrders, Quiet
<1> QED BY <1>2, <1>3 DEF Claims

\* Where the claimants of a key only leave and max_orders is the same, the
\* room of a counted holdSlot is kept ...
LEMMA HoldRoomKept ==
    ASSUME IInv, NEW h \in Holds, phase[h] = "counted",
           NEW s, NEW day, s = row[h].slot, day = row[h].day,
           Claims(s, day)' \subseteq Claims(s, day), limit'[s] = limit[s]
    PROVE  Cardinality(Claims(s, day)') < limit'[s]
<1>1. Cardinality(Claims(s, day)) < limit[s] /\ limit[s] \in Nat
    BY DEF IInv, TypeOK, RoomKept, RowsKnown, HoldRow
<1>2. Claims(s, day)' \in SUBSET Claims(s, day)
    OBVIOUS
<1> QED BY <1>1, <1>2, FewerClaims, ClaimsFinite

\* ... and the room of a counted placement.
LEMMA PlaceRoomKept ==
    ASSUME IInv, NEW a \in Attempts, att[a].pc = "counted",
           NEW s, NEW day, NEW h,
           s = draft[att[a].draft].slot, day = draft[att[a].draft].day,
           h = att[a].hold,
           Claims(s, day)' \subseteq Claims(s, day), limit'[s] = limit[s]
    PROVE  Cardinality(Claims(s, day)' \ {h}) < limit'[s]
<1>1. draft[att[a].draft] \in DraftRow
    BY DEF IInv, RowsKnown, Running
<1>2. Cardinality(Claims(s, day) \ {h}) < limit[s] /\ limit[s] \in Nat
    BY <1>1 DEF IInv, TypeOK, RoomKept, DraftRow
<1>3. /\ IsFiniteSet(Claims(s, day) \ {h})
      /\ Cardinality(Claims(s, day) \ {h}) \in Nat
    BY FewerClaims
<1>4. /\ Cardinality(Claims(s, day)' \ {h}) <= Cardinality(Claims(s, day) \ {h})
      /\ Cardinality(Claims(s, day)' \ {h}) \in Nat
    BY <1>3, FS_Subset, FS_CardinalityType
<1> QED BY <1>2, <1>3, <1>4

\* A quiet step in which no transaction passes its check keeps the invariant.
LEMMA QuietStep ==
    ASSUME IInv, Typing', Quiet, NoCount
    PROVE  IInv'
<1>1. Typing
    BY DEF IInv, Typing
<1>2. SlotExclusive'
    BY DEF IInv, SlotExclusive, NoCount
<1>3. ASSUME NEW s, NEW day PROVE Claims(s, day)' \subseteq Claims(s, day)
    BY <1>1, QuietClaims
<1>5. ASSUME NEW h \in Holds, phase'[h] = "counted",
             NEW s, NEW day, s = row'[h].slot, day = row'[h].day
      PROVE  Cardinality(Claims(s, day)') < limit'[s]
    <2>1. phase[h] = "counted" /\ row'[h] = row[h] /\ limit'[s] = limit[s]
        BY <1>5 DEF NoCount
    <2> QED BY <1>3, <1>5, <2>1, HoldRoomKept
<1>6. ASSUME NEW a \in Attempts, att'[a].pc = "counted", NEW s, NEW day, NEW h,
             s = draft'[att'[a].draft].slot, day = draft'[att'[a].draft].day,
             h = att'[a].hold
      PROVE  Cardinality(Claims(s, day)' \ {h}) < limit'[s]
    <2>1. /\ att[a].pc = "counted"
          /\ h = att[a].hold
          /\ s = draft[att[a].draft].slot
          /\ day = draft[att[a].draft].day
          /\ limit'[s] = limit[s]
        BY <1>6 DEF NoCount
    <2> QED BY <1>3, <2>1, PlaceRoomKept
<1>7. RoomKept'
    BY <1>5, <1>6 DEF RoomKept
<1> QED BY <1>2, <1>7 DEF IInv, Typing

\* Everything but the two capacity checks and the two commits is quiet.
LEMMA QuietActions ==
    ASSUME Typing,
           \/ Tick
           \/ UNCHANGED vars
           \/ \E h \in Holds, q \in Quotes, s \in Slots, day \in Days :
                 HoldBegin(h, q, s, day)
           \/ \E h \in Holds : HoldRefuse(h) \/ HoldFail(h) \/ ReleaseHold(h)
           \/ \E h \in Holds, d \in Drafts : Prepare(d, h)
           \/ \E a \in Attempts, d \in Drafts : PlaceRead(a, d)
           \/ \E a \in Attempts, h \in Holds : PlaceLock(a, h)
           \/ \E a \in Attempts : \/ PlaceBegin(a) \/ PlaceRefuse(a)
                                  \/ PlaceDuplicate(a) \/ PlaceFail(a)
           \/ \E a \in Attempts : PlaceCount(a) /\ att'[a].pc # "counted"
           \/ \E d \in Drafts : \/ Capture(d) \/ PaymentFailed(d) \/ DropHolds(d)
                                \/ VendorReject(d) \/ CloseOrder(d) \/ Reopen(d)
           \/ \E s \in Slots, n \in Limits : SetMaxOrders(s, n)
    PROVE  Quiet /\ NoCount
<1> USE DEF Typing, TypeOK, RowsKnown, Quiet, NoCount
<1>n. now \in Nat /\ now <= now
    BY SlotBookingAssumption DEF Clock
<1>1. CASE Tick
    BY <1>1, <1>n DEF Tick
<1>2. CASE UNCHANGED vars
    BY <1>2, <1>n DEF vars
<1>3. ASSUME NEW h \in Holds,
             \/ \E q \in Quotes, s \in Slots, day \in Days : HoldBegin(h, q, s, day)
             \/ HoldRefuse(h) \/ HoldFail(h) \/ ReleaseHold(h)
      PROVE  Quiet /\ NoCount
    BY <1>3, <1>n DEF HoldBegin, HoldRefuse, HoldFail, ReleaseHold, SetPhase
<1>4. ASSUME NEW h \in Holds, NEW d \in Drafts, Prepare(d, h)
      PROVE  Quiet /\ NoCount
    <2>1. draft[d] \notin DraftRow /\ \A e \in Drafts \ {d} : draft'[e] = draft[e]
        BY <1>4, SlotBookingAssumption DEF Prepare
    <2>2. /\ order[d] # "OPEN"
          /\ \A a \in Attempts : att[a].pc = "counted" => att[a].draft \in Drafts \ {d}
        BY <2>1 DEF Running
    <2> QED BY <1>4, <1>n, <2>1, <2>2 DEF Prepare
<1>5. ASSUME NEW a \in Attempts,
             \/ \E d \in Drafts : PlaceRead(a, d)
             \/ \E h \in Holds : PlaceLock(a, h)
             \/ PlaceBegin(a) \/ PlaceRefuse(a) \/ PlaceDuplicate(a) \/ PlaceFail(a)
             \/ PlaceCount(a) /\ att'[a].pc # "counted"
      PROVE  Quiet /\ NoCount
    <2>1. ASSUME NEW r, r.pc # "counted", SetAttempt(a, r)
          PROVE  Quiet /\ NoCount
        BY <2>1, <1>n DEF SetAttempt
    <2>2. ASSUME NEW p, p # "counted", SetAttempt(a, [att[a] EXCEPT !.pc = p])
          PROVE  Quiet /\ NoCount
        BY <2>1, <2>2 DEF Attempt
    <2>3. ASSUME NEW d \in Drafts, PlaceRead(a, d) PROVE Quiet /\ NoCount
        BY <2>1, <2>3 DEF PlaceRead, Attempt
    <2>4. ASSUME NEW h \in Holds, PlaceLock(a, h) PROVE Quiet /\ NoCount
        BY <2>1, <2>4 DEF PlaceLock, Attempt
    <2>5. CASE PlaceBegin(a)
        BY <2>1, <2>5 DEF PlaceBegin, Attempt
    <2>6. CASE PlaceRefuse(a) \/ PlaceDuplicate(a) \/ PlaceFail(a)
        BY <2>2, <2>6 DEF PlaceRefuse, PlaceDuplicate, PlaceFail
    <2>7. CASE PlaceCount(a) /\ att'[a].pc # "counted"
        BY <2>7, <1>n DEF PlaceCount, SetAttempt
    <2> QED BY <1>5, <2>3, <2>4, <2>5, <2>6, <2>7
<1>6. ASSUME NEW d \in Drafts,
             \/ Capture(d) \/ PaymentFailed(d) \/ DropHolds(d)
             \/ VendorReject(d) \/ CloseOrder(d) \/ Reopen(d)
      PROVE  Quiet /\ NoCount
    BY <1>6, <1>n DEF Capture, PaymentFailed, DropHolds, VendorReject, CloseOrder, Reopen, Delete
<1>7. ASSUME NEW s \in Slots, NEW n \in Limits, SetMaxOrders(s, n)
      PROVE  Quiet /\ NoCount
    <2>1. \A t \in Slots \ {s} : limit'[t] = limit[t]
        BY <1>7 DEF SetMaxOrders
    <2>2. \A h \in Holds : phase[h] = "counted" => row[h].slot \in Slots \ {s}
        BY <1>7 DEF SetMaxOrders, SlotFree, HoldRow
    <2>3. \A a \in Attempts : att[a].pc = "counted" =>
             draft[att[a].draft].slot \in Slots \ {s}
        BY <1>7 DEF SetMaxOrders, SlotFree, DraftRow, Running
    <2> QED BY <1>7, <1>n, <2>1, <2>2, <2>3 DEF SetMaxOrders
<1> QED BY <1>1, <1>2, <1>3, <1>4, <1>5, <1>6, <1>7

\* holdSlot passes its check: its slot was free, and Booked bounds the claims.
LEMMA HoldCountStep ==
    ASSUME IInv, Typing', NEW h \in Holds, HoldCount(h)
    PROVE  IInv'
<1>1. Typing /\ TypeOK /\ RowsKnown
    BY DEF IInv, Typing
<1>2. Quiet
    <2>1. now \in Nat /\ now <= now
        BY <1>1, SlotBookingAssumption DEF TypeOK, Clock
    <2> QED BY <1>1, <2>1 DEF HoldCount, SetPhase, Quiet, TypeOK
<1>3. ASSUME NEW s, NEW day PROVE Claims(s, day)' \subseteq Claims(s, day)
    BY <1>1, <1>2, QuietClaims
<1>4. /\ phase[h] = "begun" /\ SlotFree(row[h].slot)
      /\ \A i \in Holds : phase'[i] = "counted" => i = h \/ phase[i] = "counted"
      /\ row' = row /\ att' = att /\ draft' = draft /\ limit' = limit
    BY <1>1 DEF HoldCount, SetPhase, TypeOK
<1>5. SlotExclusive'
    BY <1>4 DEF IInv, SlotExclusive, SlotFree
<1>7. ASSUME NEW s, NEW day, s = row[h].slot, day = row[h].day
      PROVE  Cardinality(Claims(s, day)') < limit'[s]
    <2>1. row[h].began \in Clock /\ row[h].began <= now /\ s \in Slots
        BY <1>1, <1>4, <1>7 DEF RowsKnown, HoldRow
    <2>2. /\ Booked(s, day, row[h].began, Nil) \in Nat
          /\ Cardinality(Claims(s, day) \ {Nil}) <= Booked(s, day, row[h].began, Nil)
        BY <1>1, <2>1, BookedBounds
    <2>3. Booked(s, day, row[h].began, Nil) < limit[s]
        BY <1>7 DEF HoldCount
    <2>4. Claims(s, day) \ {Nil} = Claims(s, day)
        BY ClaimsFinite, SlotBookingAssumption
    <2>5. /\ Cardinality(Claims(s, day)') <= Cardinality(Claims(s, day))
          /\ Cardinality(Claims(s, day)') \in Nat
        <3>1. Claims(s, day)' \in SUBSET Claims(s, day)
            BY <1>3
        <3> QED BY <3>1, FewerClaims
    <2>6. limit[s] \in Nat /\ Cardinality(Claims(s, day)) \in Nat
        BY <1>1, <2>1, ClaimsFinite DEF TypeOK
    <2> QED BY <1>4, <2>2, <2>3, <2>4, <2>5, <2>6
<1>8. ASSUME NEW i \in Holds, phase'[i] = "counted",
             NEW s, NEW day, s = row'[i].slot, day = row'[i].day
      PROVE  Cardinality(Claims(s, day)') < limit'[s]
    BY <1>3, <1>4, <1>7, <1>8, HoldRoomKept
<1>9. ASSUME NEW a \in Attempts, att'[a].pc = "counted", NEW s, NEW day, NEW g,
             s = draft'[att'[a].draft].slot, day = draft'[att'[a].draft].day,
             g = att'[a].hold
      PROVE  Cardinality(Claims(s, day)' \ {g}) < limit'[s]
    BY <1>3, <1>4, <1>9, PlaceRoomKept
<1>10. RoomKept'
    BY <1>8, <1>9 DEF RoomKept
<1> QED BY <1>5, <1>10 DEF IInv, Typing

\* placeOrderFromDraft passes its check: the same, but for its own hold.
LEMMA PlaceCountStep ==
    ASSUME IInv, Typing', NEW a \in Attempts, PlaceCount(a), att'[a].pc = "counted"
    PROVE  IInv'
<1>1. Typing /\ TypeOK /\ RowsKnown
    BY DEF IInv, Typing
<1>2. Quiet
    <2>1. now \in Nat /\ now <= now
        BY <1>1, SlotBookingAssumption DEF TypeOK, Clock
    <2> QED BY <1>1, <2>1 DEF PlaceCount, SetAttempt, Quiet
<1>3. ASSUME NEW s, NEW day PROVE Claims(s, day)' \subseteq Claims(s, day)
    BY <1>1, <1>2, QuietClaims
<1>4. /\ att[a].pc = "locked" /\ SlotFree(draft[att[a].draft].slot)
      /\ att'[a].draft = att[a].draft /\ att'[a].hold = att[a].hold
      /\ \A b \in Attempts \ {a} : att'[b] = att[b]
      /\ row' = row /\ phase' = phase /\ draft' = draft /\ limit' = limit
    BY <1>1 DEF PlaceCount, SetAttempt, TypeOK, Attempt
<1>5. SlotExclusive'
    BY <1>4 DEF IInv, SlotExclusive, SlotFree
<1>7. ASSUME NEW s, NEW day, NEW g,
             s = draft[att[a].draft].slot, day = draft[att[a].draft].day, g = att[a].hold
      PROVE  Cardinality(Claims(s, day)' \ {g}) < limit'[s]
    <2>1. att[a].began \in Clock /\ att[a].began <= now /\ s \in Slots
        BY <1>1, <1>4, <1>7 DEF TypeOK, Attempt, RowsKnown, DraftRow, Running
    <2>2. /\ Booked(s, day, att[a].began, g) \in Nat
          /\ Cardinality(Claims(s, day) \ {g}) <= Booked(s, day, att[a].began, g)
        BY <1>1, <2>1, BookedBounds
    <2>3. Booked(s, day, att[a].began, g) < limit[s]
        BY <1>1, <1>7 DEF PlaceCount, SetAttempt, TypeOK, Attempt
    <2>4. /\ IsFiniteSet(Claims(s, day) \ {g})
          /\ Cardinality(Claims(s, day) \ {g}) \in Nat
        BY FewerClaims
    <2>5. /\ Cardinality(Claims(s, day)' \ {g}) <= Cardinality(Claims(s, day) \ {g})
          /\ Cardinality(Claims(s, day)' \ {g}) \in Nat
        <3>1. Claims(s, day)' \ {g} \subseteq Claims(s, day) \ {g}
            BY <1>3
        <3> QED BY <3>1, <2>4, FS_Subset, FS_CardinalityType
    <2>6. limit[s] \in Nat
        BY <1>1, <2>1 DEF TypeOK
    <2> QED BY <1>4, <2>2, <2>3, <2>4, <2>5, <2>6
<1>8. ASSUME NEW i \in Holds, phase'[i] = "counted",
             NEW s, NEW day, s = row'[i].slot, day = row'[i].day
      PROVE  Cardinality(Claims(s, day)') < limit'[s]
    BY <1>3, <1>4, <1>8, HoldRoomKept
<1>9. ASSUME NEW b \in Attempts, att'[b].pc = "counted", NEW s, NEW day, NEW g,
             s = draft'[att'[b].draft].slot, day = draft'[att'[b].draft].day,
             g = att'[b].hold
      PROVE  Cardinality(Claims(s, day)' \ {g}) < limit'[s]
    <2>1. CASE b = a
        BY <1>4, <1>7, <1>9, <2>1
    <2>2. CASE b # a
        BY <1>3, <1>4, <1>9, <2>2, PlaceRoomKept
    <2> QED BY <2>1, <2>2
<1>10. RoomKept'
    BY <1>8, <1>9 DEF RoomKept
<1> QED BY <1>5, <1>10 DEF IInv, Typing

\* The INSERT of holdSlot adds its hold to the claims of its key, and to no
\* other.
LEMMA HoldCommitClaims ==
    ASSUME Typing, NEW h \in Holds, HoldCommit(h), NEW s, NEW day
    PROVE  /\ Claims(s, day)' \subseteq Claims(s, day) \cup {h}
           /\ h \in Claims(s, day)' => s = row[h].slot /\ day = row[h].day
<1>1. /\ phase[h] = "counted"
      /\ \A i \in Holds \ {h} : phase'[i] = phase[i]
      /\ UNCHANGED <<now, limit, row, draft, order, unchecked>>
    BY DEF HoldCommit, SetPhase, Typing, TypeOK
<1>2. h \notin Drafts
    BY SlotBookingAssumption
<1> QED BY <1>1, <1>2 DEF Claims, ActiveHolds, CountedOrders, Expires

\* The commit of a placement adds its order to the claims of its key; the
\* hold it consumes leaves, and nobody else comes.
LEMMA PlaceCommitClaims ==
    ASSUME Typing, NEW a \in Attempts, PlaceCommit(a), NEW s, NEW day
    PROVE  /\ Claims(s, day)' \subseteq (Claims(s, day) \ {att[a].hold}) \cup {att[a].draft}
           /\ att[a].draft \in Claims(s, day)' =>
                 s = draft[att[a].draft].slot /\ day = draft[att[a].draft].day
<1> DEFINE d == att[a].draft
           h == att[a].hold
<1>1. /\ d \in Drafts
      /\ \A i \in Holds : phase'[i] = IF i = h THEN "CONSUMED" ELSE phase[i]
      /\ \A e \in Drafts : order'[e] = IF e = d THEN "OPEN" ELSE order[e]
      /\ UNCHANGED <<now, limit, row, draft, unchecked>>
    BY DEF PlaceCommit, Typing, TypeOK, RowsKnown, Running, Attempt
<1>2. h # d /\ d \notin Holds /\ h \notin Drafts
    BY <1>1, SlotBookingAssumption DEF Typing, TypeOK, Attempt
<1>3. ActiveHolds(s, day, now)' \subseteq ActiveHolds(s, day, now) \ {h}
    BY <1>1 DEF ActiveHolds, Expires
<1>4. /\ CountedOrders(s, day)' \subseteq CountedOrders(s, day) \cup {d}
      /\ d \in CountedOrders(s, day)' => s = draft[d].slot /\ day = draft[d].day
      /\ CountedOrders(s, day) \subseteq Drafts
      /\ ActiveHolds(s, day, now)' \subseteq Holds
    BY <1>1 DEF CountedOrders, ActiveHolds
<1> QED BY <1>1, <1>2, <1>3, <1>4 DEF Claims

\* holdSlot commits: one claim more in its own slot, where it kept room, and
\* nobody else is past a check there.
LEMMA HoldCommitStep ==
    ASSUME IInv, Typing', NEW h \in Holds, HoldCommit(h)
    PROVE  IInv'
<1> DEFINE s0 == row[h].slot  day0 == row[h].day
<1>1. Typing /\ TypeOK /\ RowsKnown
    BY DEF IInv, Typing
<1>2. /\ phase[h] = "counted" /\ phase'[h] = "ACTIVE"
      /\ \A i \in Holds \ {h} : phase'[i] = phase[i]
      /\ UNCHANGED <<now, limit, row, draft, order, att, unchecked>>
    BY <1>1 DEF HoldCommit, SetPhase, TypeOK
<1>3. ASSUME NEW s, NEW day
      PROVE  /\ Claims(s, day)' \subseteq Claims(s, day) \cup {h}
             /\ h \in Claims(s, day)' => s = s0 /\ day = day0
    BY <1>1, HoldCommitClaims
<1>4. SlotExclusive'
    BY <1>2 DEF IInv, SlotExclusive
<1>8. ASSUME NEW i \in Holds, phase'[i] = "counted",
             NEW s, NEW day, s = row'[i].slot, day = row'[i].day
      PROVE  Cardinality(Claims(s, day)') < limit'[s]
    <2>1. phase[i] = "counted" /\ i # h /\ s # s0
        BY <1>2, <1>8 DEF IInv, SlotExclusive
    <2>2. Claims(s, day)' \subseteq Claims(s, day)
        BY <1>3, <2>1
    <2> QED BY <1>2, <1>8, <2>1, <2>2, HoldRoomKept
<1>9. ASSUME NEW b \in Attempts, att'[b].pc = "counted", NEW s, NEW day, NEW g,
             s = draft'[att'[b].draft].slot, day = draft'[att'[b].draft].day,
             g = att'[b].hold
      PROVE  Cardinality(Claims(s, day)' \ {g}) < limit'[s]
    <2>1. att[b].pc = "counted" /\ s # s0
        BY <1>2, <1>9 DEF IInv, SlotExclusive
    <2>2. Claims(s, day)' \subseteq Claims(s, day)
        BY <1>3, <2>1
    <2> QED BY <1>2, <1>9, <2>1, <2>2, PlaceRoomKept
<1>10. RoomKept'
    BY <1>8, <1>9 DEF RoomKept
<1> QED BY <1>4, <1>10 DEF IInv, Typing

\* placeOrderFromDraft commits: the order takes the place its hold leaves.
LEMMA PlaceCommitStep ==
    ASSUME IInv, Typing', NEW a \in Attempts, PlaceCommit(a)
    PROVE  IInv'
<1> DEFINE d == att[a].draft
           h == att[a].hold
           s0 == draft[d].slot
           day0 == draft[d].day
<1>1. Typing /\ TypeOK /\ RowsKnown
    BY DEF IInv, Typing
<1>2. /\ att[a].pc = "counted" /\ att'[a].pc = "placed"
      /\ \A b \in Attempts \ {a} : att'[b] = att[b]
      /\ d \in Drafts /\ draft[d] \in DraftRow
      /\ \A i \in Holds : phase'[i] = IF i = h THEN "CONSUMED" ELSE phase[i]
      /\ \A e \in Drafts : order'[e] = IF e = d THEN "OPEN" ELSE order[e]
      /\ UNCHANGED <<now, limit, row, draft, unchecked>>
    BY <1>1 DEF PlaceCommit, TypeOK, RowsKnown, Running, Attempt
<1>3. ASSUME NEW s, NEW day
      PROVE  /\ Claims(s, day)' \subseteq (Claims(s, day) \ {h}) \cup {d}
             /\ d \in Claims(s, day)' => s = s0 /\ day = day0
    BY <1>1, PlaceCommitClaims
<1>4. SlotExclusive'
    BY <1>2 DEF IInv, SlotExclusive
<1> HIDE DEF d, h, s0, day0
<1>8. ASSUME NEW i \in Holds, phase'[i] = "counted",
             NEW s, NEW day, s = row'[i].slot, day = row'[i].day
      PROVE  Cardinality(Claims(s, day)') < limit'[s]
    <2>1. phase[i] = "counted" /\ s # s0
        BY <1>2, <1>8 DEF IInv, SlotExclusive, s0, d
    <2>2. Claims(s, day)' \subseteq Claims(s, day)
        BY <1>3, <2>1
    <2> QED BY <1>2, <1>8, <2>1, <2>2, HoldRoomKept
<1>9. ASSUME NEW b \in Attempts, att'[b].pc = "counted", NEW s, NEW day, NEW g,
             s = draft'[att'[b].draft].slot, day = draft'[att'[b].draft].day,
             g = att'[b].hold
      PROVE  Cardinality(Claims(s, day)' \ {g}) < limit'[s]
    <2>1. att[b].pc = "counted" /\ b # a /\ s # s0
        BY <1>2, <1>9 DEF IInv, SlotExclusive, s0, d
    <2>2. Claims(s, day)' \subseteq Claims(s, day)
        BY <1>3, <2>1
    <2> QED BY <1>2, <1>9, <2>1, <2>2, PlaceRoomKept
<1>10. RoomKept'
    BY <1>8, <1>9 DEF RoomKept
<1> QED BY <1>4, <1>10 DEF IInv, Typing

\* The invariant holds initially.
LEMMA InvInit == Init => IInv
<1> SUFFICES ASSUME Init PROVE IInv
    OBVIOUS
<1>1. Typing
    BY TypingInit
<1>2. SlotExclusive /\ RoomKept
    BY DEF Init, SlotExclusive, RoomKept
<1> QED BY <1>1, <1>2 DEF IInv, Typing

\* The invariant is inductive.
LEMMA InvStep == IInv /\ [Next]_vars => IInv'
<1> SUFFICES ASSUME IInv, [Next]_vars PROVE IInv'
    OBVIOUS
<1>1. Typing /\ Typing'
    BY TypingStep DEF IInv, Typing
<1>2. ASSUME Quiet, NoCount PROVE IInv'
    BY <1>1, <1>2, QuietStep
<1>3. CASE Tick \/ UNCHANGED vars \/ \E s \in Slots, n \in Limits : SetMaxOrders(s, n)
    BY <1>1, <1>2, <1>3, QuietActions
<1>4. ASSUME NEW h \in Holds,
             \/ \E q \in Quotes, s \in Slots, day \in Days : HoldBegin(h, q, s, day)
             \/ HoldStep(h)
             \/ HoldFail(h)
             \/ ReleaseHold(h)
             \/ \E d \in Drafts : Prepare(d, h)
      PROVE  IInv'
    <2>1. CASE HoldCount(h)
        BY <1>1, <2>1, HoldCountStep
    <2>2. CASE HoldCommit(h)
        BY <1>1, <2>2, HoldCommitStep
    <2>3. CASE \/ \E q \in Quotes, s \in Slots, day \in Days : HoldBegin(h, q, s, day)
               \/ HoldRefuse(h) \/ HoldFail(h) \/ ReleaseHold(h)
               \/ \E d \in Drafts : Prepare(d, h)
        BY <1>1, <1>2, <2>3, QuietActions
    <2> QED BY <1>4, <2>1, <2>2, <2>3 DEF HoldStep
<1>5. ASSUME NEW a \in Attempts,
             (\E d \in Drafts : PlaceRead(a, d)) \/ PlaceStep(a) \/ PlaceFail(a)
      PROVE  IInv'
    <2>1. CASE PlaceCount(a) /\ att'[a].pc = "counted"
        BY <1>1, <2>1, PlaceCountStep
    <2>2. CASE PlaceCommit(a)
        BY <1>1, <2>2, PlaceCommitStep
    <2>3. CASE \/ \E d \in Drafts : PlaceRead(a, d)
               \/ \E h \in Holds : PlaceLock(a, h)
               \/ PlaceBegin(a) \/ PlaceRefuse(a) \/ PlaceDuplicate(a) \/ PlaceFail(a)
               \/ PlaceCount(a) /\ att'[a].pc # "counted"
        BY <1>1, <1>2, <2>3, QuietActions
    <2> QED BY <1>5, <2>1, <2>2, <2>3 DEF PlaceStep
<1>6. ASSUME NEW d \in Drafts,
             \/ Capture(d) \/ PaymentFailed(d) \/ DropHolds(d)
             \/ VendorReject(d) \/ CloseOrder(d) \/ Reopen(d)
      PROVE  IInv'
    BY <1>1, <1>2, <1>6, QuietActions
<1> QED BY <1>3, <1>4, <1>5, <1>6 DEF Next

\* The invariant holds: slot locks exclude each other, and a transaction past
\* its check still has room when it commits.
THEOREM StrengthenedInvariant == Spec => []IInv
BY InvInit, InvStep, PTL DEF Spec

\* When holdSlot commits, the hold it inserts is within max_orders.
LEMMA HoldCommitRoom ==
    ASSUME IInv, NEW h \in Holds, HoldCommit(h),
           NEW s, NEW day, s = row[h].slot, day = row[h].day
    PROVE  Cardinality(Claims(s, day)') <= limit[s]
<1>1. Typing
    BY DEF IInv, Typing
<1>2. Cardinality(Claims(s, day)) < limit[s]
    BY DEF IInv, RoomKept, HoldCommit
<1>3. s \in Slots /\ limit[s] \in Nat
    BY <1>1 DEF Typing, TypeOK, RowsKnown, HoldRow, HoldCommit
<1>4. /\ IsFiniteSet(Claims(s, day) \cup {h})
      /\ Cardinality(Claims(s, day) \cup {h}) <= Cardinality(Claims(s, day)) + 1
      /\ Cardinality(Claims(s, day) \cup {h}) \in Nat
    BY ClaimsFinite, OneMore
<1>5. Claims(s, day)' \subseteq Claims(s, day) \cup {h}
    BY <1>1, HoldCommitClaims
<1>6. /\ Cardinality(Claims(s, day)') <= Cardinality(Claims(s, day) \cup {h})
      /\ Cardinality(Claims(s, day)') \in Nat
    BY <1>4, <1>5, FS_Subset, FS_CardinalityType
<1> QED BY <1>2, <1>3, <1>4, <1>6, ClaimsFinite

\* When placeOrderFromDraft commits, the order it inserts is within max_orders.
LEMMA PlaceCommitRoom ==
    ASSUME IInv, NEW a \in Attempts, PlaceCommit(a),
           NEW s, NEW day, NEW d, NEW h,
           d = att[a].draft, s = draft[d].slot, day = draft[d].day, h = att[a].hold
    PROVE  Cardinality(Claims(s, day)') <= limit[s]
<1> DEFINE C == Claims(s, day) \ {h}
<1>1. Typing
    BY DEF IInv, Typing
<1>2. Cardinality(C) < limit[s]
    BY DEF IInv, RoomKept, PlaceCommit
<1>3. s \in Slots /\ limit[s] \in Nat
    BY <1>1 DEF Typing, TypeOK, RowsKnown, DraftRow, PlaceCommit, Running
<1>4. Claims(s, day)' \subseteq C \cup {d}
    BY <1>1, PlaceCommitClaims
<1>5. IsFiniteSet(C) /\ Cardinality(C) \in Nat
    BY FewerClaims
<1> HIDE DEF C
<1>6. /\ IsFiniteSet(C \cup {d})
      /\ Cardinality(C \cup {d}) <= Cardinality(C) + 1
      /\ Cardinality(C \cup {d}) \in Nat
    BY <1>5, OneMore
<1>7. /\ Cardinality(Claims(s, day)') <= Cardinality(C \cup {d})
      /\ Cardinality(Claims(s, day)') \in Nat
    BY <1>4, <1>6, FS_Subset, FS_CardinalityType
<1> QED BY <1>2, <1>3, <1>5, <1>6, <1>7

\* A step gives places back, or lets one claimant take a place of one key
\* that has one left.
LEMMA StepClaims ==
    ASSUME IInv, Typing', [Next]_vars
    PROVE  \/ \A s, day : Claims(s, day)' \subseteq Claims(s, day)
           \/ \E s0 \in Slots, day0 \in Days, x \in Holds \cup Drafts :
                 /\ Cardinality(Claims(s0, day0)') <= limit[s0]
                 /\ \A s, day : /\ Claims(s, day)' \subseteq Claims(s, day) \cup {x}
                                /\ x \in Claims(s, day)' => s = s0 /\ day = day0
<1> DEFINE Goal == \/ \A s, day : Claims(s, day)' \subseteq Claims(s, day)
                   \/ \E s0 \in Slots, day0 \in Days, x \in Holds \cup Drafts :
                         /\ Cardinality(Claims(s0, day0)') <= limit[s0]
                         /\ \A s, day : /\ Claims(s, day)' \subseteq Claims(s, day) \cup {x}
                                        /\ x \in Claims(s, day)' => s = s0 /\ day = day0
<1>t. Typing
    BY DEF IInv, Typing
<1>1. ASSUME Quiet PROVE Goal
    BY <1>t, <1>1, QuietClaims
<1>2. ASSUME NEW h \in Holds, HoldCommit(h) PROVE Goal
    <2>1. row[h].slot \in Slots /\ row[h].day \in Days
        BY <1>t, <1>2 DEF HoldCommit, Typing, RowsKnown, HoldRow
    <2>2. ASSUME NEW s, NEW day, s = row[h].slot, day = row[h].day
          PROVE  Cardinality(Claims(s, day)') <= limit[s]
        BY <1>2, <2>2, HoldCommitRoom
    <2> QED BY <1>t, <1>2, <2>1, <2>2, HoldCommitClaims
<1>3. ASSUME NEW a \in Attempts, PlaceCommit(a) PROVE Goal
    <2>1. /\ att[a].draft \in Drafts
          /\ draft[att[a].draft].slot \in Slots /\ draft[att[a].draft].day \in Days
        BY <1>t, <1>3 DEF PlaceCommit, Typing, RowsKnown, DraftRow, Running
    <2>2. ASSUME NEW s, NEW day
          PROVE  /\ Claims(s, day)' \subseteq Claims(s, day) \cup {att[a].draft}
                 /\ att[a].draft \in Claims(s, day)' =>
                       s = draft[att[a].draft].slot /\ day = draft[att[a].draft].day
        BY <1>t, <1>3, PlaceCommitClaims
    <2>3. ASSUME NEW s, NEW day,
                 s = draft[att[a].draft].slot, day = draft[att[a].draft].day
          PROVE  Cardinality(Claims(s, day)') <= limit[s]
        BY <1>3, <2>3, PlaceCommitRoom
    <2> QED BY <2>1, <2>2, <2>3
<1>4. now \in Nat /\ now <= now
    BY <1>t, SlotBookingAssumption DEF Typing, TypeOK, Clock
<1>5. ASSUME NEW h \in Holds, HoldCount(h) PROVE Quiet
    BY <1>t, <1>4, <1>5 DEF HoldCount, SetPhase, Quiet, Typing, TypeOK
<1>6. ASSUME NEW a \in Attempts, PlaceCount(a) PROVE Quiet
    BY <1>4, <1>6 DEF PlaceCount, SetAttempt, Quiet
<1> HIDE DEF Goal
<1>7. Goal
    BY <1>t, <1>1, <1>2, <1>3, <1>5, <1>6, QuietActions DEF Next, HoldStep, PlaceStep
<1> QED BY <1>7 DEF Goal

\* holdSlot and placeOrderFromDraft never give out a place of a slot beyond the
\* max_orders of that moment, whatever the number of concurrent calls and
\* whenever the vendor changes it.
THEOREM CapacityRespected == Spec => AdmissionCapacity
<1> DEFINE Within == \A s \in Slots, day \in Days :
                        \/ Claims(s, day)' \subseteq Claims(s, day)
                        \/ Cardinality(Claims(s, day)') <= limit[s]
<1>1. IInv /\ [Next]_vars => [Within]_vars
    <2> SUFFICES ASSUME IInv, [Next]_vars PROVE Within
        OBVIOUS
    <2>1. Typing'
        BY TypingStep DEF IInv, Typing
    <2>2. CASE \A s, day : Claims(s, day)' \subseteq Claims(s, day)
        BY <2>2
    <2>3. CASE \E s0 \in Slots, day0 \in Days, x \in Holds \cup Drafts :
                  /\ Cardinality(Claims(s0, day0)') <= limit[s0]
                  /\ \A s, day : /\ Claims(s, day)' \subseteq Claims(s, day) \cup {x}
                                 /\ x \in Claims(s, day)' => s = s0 /\ day = day0
        <3>1. PICK s0 \in Slots, day0 \in Days, x \in Holds \cup Drafts :
                  /\ Cardinality(Claims(s0, day0)') <= limit[s0]
                  /\ \A s, day : /\ Claims(s, day)' \subseteq Claims(s, day) \cup {x}
                                 /\ x \in Claims(s, day)' => s = s0 /\ day = day0
            BY <2>3
        <3>2. ASSUME NEW s \in Slots, NEW day \in Days, ~(s = s0 /\ day = day0)
              PROVE  Claims(s, day)' \subseteq Claims(s, day)
            BY <3>1, <3>2
        <3> QED BY <3>1, <3>2
    <2> QED BY <2>1, <2>2, <2>3, StepClaims
<1> QED BY StrengthenedInvariant, <1>1, PTL DEF Spec, AdmissionCapacity

-----------------------------------------------------------------------------
(* Row locks of a placement *)

\* A draft or the row of a hold is not written again once it is there.
LEMMA RowsImmutable ==
    ASSUME Typing, [Next]_vars
    PROVE  /\ \A d \in Drafts : draft[d] # Nil => draft'[d] = draft[d]
           /\ \A h \in Holds : phase[h] # "idle" => row'[h] = row[h]
<1>1. CASE \E h \in Holds, q \in Quotes, s \in Slots, day \in Days : HoldBegin(h, q, s, day)
    BY <1>1 DEF HoldBegin, SetPhase, Typing, TypeOK
<1>2. CASE \E h \in Holds, d \in Drafts : Prepare(d, h)
    BY <1>2 DEF Prepare, Typing, TypeOK
<1>3. CASE UNCHANGED <<row, draft>>
    BY <1>3
<1>4. [Next]_vars => \/ UNCHANGED <<row, draft>>
                     \/ \E h \in Holds, d \in Drafts : Prepare(d, h)
                     \/ \E h \in Holds, q \in Quotes, s \in Slots, day \in Days :
                            HoldBegin(h, q, s, day)
    BY DEF Next, vars, Tick, HoldStep, HoldCount, HoldRefuse, HoldCommit,
           HoldFail, ReleaseHold, SetPhase, PlaceRead, PlaceStep, PlaceBegin,
           PlaceLock, PlaceRefuse, PlaceCount, PlaceCommit, PlaceDuplicate, PlaceFail,
           SetAttempt, Capture, PaymentFailed, DropHolds, VendorReject, CloseOrder,
           Reopen, SetMaxOrders
<1> QED BY <1>1, <1>2, <1>3, <1>4

\* what a step that no placement takes part in leaves to the placements
LocksSpared ==
    /\ \A a \in Attempts : InTxn(a)' =>
          /\ InTxn(a)
          /\ att'[a].draft = att[a].draft
          /\ att'[a].rows = att[a].rows
          /\ att'[a].hold = att[a].hold
          /\ pay[att[a].draft] = "PAID" => pay'[att[a].draft] = "PAID"
          /\ \A h \in att[a].rows : phase[h] = "ACTIVE" => phase'[h] = "ACTIVE"
    /\ used' = used
    /\ \A d \in Drafts : order[d] # "NONE" => order'[d] # "NONE"
    /\ \A h \in Holds : phase[h] \in {"CONSUMED", "DELETED"} => phase'[h] \in {"CONSUMED", "DELETED"}

\* Such a step keeps the invariant.
LEMMA SparedStep ==
    ASSUME Typing, LockInv, LocksSpared,
           \A d \in Drafts : draft[d] # Nil => draft'[d] = draft[d],
           \A h \in Holds : phase[h] # "idle" => row'[h] = row[h]
    PROVE  LockInv'
<1>1. \A a \in Attempts : InTxn(a) => /\ att[a].draft \in Drafts
                                      /\ draft'[att[a].draft] = draft[att[a].draft]
                                      /\ att[a].rows \subseteq Holds
    BY SlotBookingAssumption DEF Typing, TypeOK, RowsKnown, InTxn, Running, Attempt
<1>2. \A a \in Attempts : InTxn(a) => \A h \in att[a].rows : row'[h] = row[h]
    BY <1>1 DEF LockInv, LocksKept
<1>3. LocksKept'
    <2> SUFFICES ASSUME NEW a \in Attempts, InTxn(a)'
                 PROVE  /\ pay'[att'[a].draft] = "PAID"
                        /\ att'[a].hold \in att'[a].rows
                        /\ \A h \in att'[a].rows : /\ phase'[h] = "ACTIVE"
                                                   /\ row'[h].quote = draft'[att'[a].draft].quote
                                                   /\ row'[h].slot = draft'[att'[a].draft].slot
                        /\ \A b \in Attempts \ {a} : InTxn(b)' =>
                               /\ att'[b].draft # att'[a].draft
                               /\ att'[b].rows \cap att'[a].rows = {}
        BY DEF LocksKept
    <2>1. /\ InTxn(a)
          /\ att'[a].draft = att[a].draft /\ att'[a].rows = att[a].rows /\ att'[a].hold = att[a].hold
          /\ pay[att[a].draft] = "PAID" => pay'[att[a].draft] = "PAID"
          /\ \A h \in att[a].rows : phase[h] = "ACTIVE" => phase'[h] = "ACTIVE"
        BY DEF LocksSpared
    <2>2. \A b \in Attempts \ {a} : InTxn(b)' =>
              InTxn(b) /\ att'[b].draft = att[b].draft /\ att'[b].rows = att[b].rows
        BY DEF LocksSpared
    <2> QED BY <1>1, <1>2, <2>1, <2>2 DEF LockInv, LocksKept
<1>4. ASSUME NEW d \in Drafts, used[d] # Nil
      PROVE  /\ used[d] \in Holds
             /\ order'[d] # "NONE"
             /\ phase'[used[d]] \in {"CONSUMED", "DELETED"}
             /\ row'[used[d]] = row[used[d]] /\ draft'[d] = draft[d]
    <2>1. used[d] \in Holds /\ order[d] # "NONE" /\ phase[used[d]] \in {"CONSUMED", "DELETED"}
        BY <1>4 DEF LockInv, UsedKnown, Typing, TypeOK
    <2>2. draft[d] \in DraftRow
        BY <2>1 DEF Typing, RowsKnown
    <2> QED BY <2>1, <2>2, SlotBookingAssumption DEF LocksSpared
<1>5. UsedKnown' /\ HoldUsedOnce'
    BY <1>4 DEF LocksSpared, LockInv, UsedKnown, HoldUsedOnce
<1> QED BY <1>3, <1>5 DEF LockInv

\* holdSlot, releaseHold and the statements of the other services wait for the
\* rows a placement has locked.
LEMMA OthersSpare ==
    ASSUME Typing, LockInv,
           \/ Tick \/ UNCHANGED vars
           \/ \E h \in Holds : \/ \E q \in Quotes, s \in Slots, day \in Days : HoldBegin(h, q, s, day)
                               \/ HoldStep(h) \/ HoldFail(h) \/ ReleaseHold(h)
                               \/ \E d \in Drafts : Prepare(d, h)
           \/ \E d \in Drafts : \/ Capture(d) \/ PaymentFailed(d) \/ DropHolds(d)
                                \/ VendorReject(d) \/ CloseOrder(d) \/ Reopen(d)
           \/ \E s \in Slots, n \in Limits : SetMaxOrders(s, n)
    PROVE  LocksSpared
<1>t. TypeOK
    BY DEF Typing
<1>1. ASSUME NEW h \in Holds,
             \/ \E q \in Quotes, s \in Slots, day \in Days : HoldBegin(h, q, s, day)
             \/ HoldStep(h) \/ HoldFail(h) \/ ReleaseHold(h)
      PROVE  LocksSpared
    <2>1. /\ UNCHANGED <<pay, order, att, used>>
          /\ \E p \in HoldPhase : phase' = [phase EXCEPT ![h] = p]
          /\ phase[h] # "CONSUMED" /\ phase[h] # "DELETED"
          /\ phase[h] = "ACTIVE" => RowsFree({h})
        BY <1>1 DEF HoldBegin, HoldStep, HoldCount, HoldRefuse, HoldCommit, HoldFail,
                    ReleaseHold, SetPhase, HoldPhase
    <2>2. \A i \in Holds : i # h => phase'[i] = phase[i]
        BY <1>t, <2>1 DEF TypeOK
    <2>3. \A a \in Attempts : InTxn(a) => h \notin att[a].rows
        BY <2>1 DEF RowsFree, LockInv, LocksKept
    <2>4. \A a \in Attempts : att[a].rows \subseteq Holds
        BY <1>t DEF TypeOK, Attempt
    <2> QED BY <2>1, <2>2, <2>3, <2>4 DEF LocksSpared, InTxn
<1>2. ASSUME NEW d \in Drafts, Capture(d) \/ PaymentFailed(d)
      PROVE  LocksSpared
    <2>1. \A a \in Attempts : InTxn(a) => pay'[att[a].draft] = pay[att[a].draft]
        <3>1. \E v : pay' = [pay EXCEPT ![d] = v]
            BY <1>2 DEF Capture, PaymentFailed
        <3>2. \A a \in Attempts : InTxn(a) => att[a].draft # d /\ att[a].draft \in Drafts
            BY <1>2 DEF Capture, PaymentFailed, DraftFree, Typing, RowsKnown, InTxn, Running
        <3> QED BY <1>t, <3>1, <3>2 DEF TypeOK
    <2> QED BY <1>2, <2>1 DEF Capture, PaymentFailed, LocksSpared, InTxn
<1>3. ASSUME NEW d \in Drafts, DropHolds(d) \/ VendorReject(d)
      PROVE  LocksSpared
    <2>1. PICK R \in SUBSET Existing : Delete(R)
        BY <1>3 DEF DropHolds, VendorReject
    <2>2. /\ UNCHANGED <<pay, att, used>>
          /\ \A e \in Drafts : order[e] # "NONE" => order'[e] # "NONE"
        BY <1>t, <1>3 DEF DropHolds, VendorReject, TypeOK
    <2>3. \A a \in Attempts : att[a].rows \subseteq Holds
        BY <1>t DEF TypeOK, Attempt
    <2> QED BY <2>1, <2>2, <2>3 DEF Delete, RowsFree, LocksSpared, InTxn
<1>4. ASSUME NEW d \in Drafts, CloseOrder(d) \/ Reopen(d)
      PROVE  LocksSpared
    BY <1>t, <1>4 DEF CloseOrder, Reopen, LocksSpared, InTxn, TypeOK
<1>5. ASSUME \/ Tick \/ UNCHANGED vars
             \/ \E h \in Holds, d \in Drafts : Prepare(d, h)
             \/ \E s \in Slots, n \in Limits : SetMaxOrders(s, n)
      PROVE  LocksSpared
    BY <1>5 DEF Tick, vars, Prepare, SetMaxOrders, LocksSpared, InTxn
<1> QED BY <1>1, <1>2, <1>3, <1>4, <1>5

\* A placement that goes on without locking or writing rows, or ends.
LEMMA PlacementSpares ==
    ASSUME Typing, NEW a \in Attempts,
           \/ \E d \in Drafts : PlaceRead(a, d)
           \/ PlaceBegin(a) \/ PlaceRefuse(a) \/ PlaceCount(a)
           \/ PlaceDuplicate(a) \/ PlaceFail(a)
    PROVE  LocksSpared
<1>1. att[a] \in Attempt
    BY DEF Typing, TypeOK
<1>2. /\ UNCHANGED <<pay, order, phase, used>>
      /\ \A b \in Attempts \ {a} : att'[b] = att[b]
    BY DEF PlaceRead, PlaceBegin, PlaceRefuse, PlaceCount, PlaceDuplicate, PlaceFail,
           SetAttempt, Typing, TypeOK
<1>3. InTxn(a)' => /\ InTxn(a)
                   /\ att'[a].draft = att[a].draft
                   /\ att'[a].rows = att[a].rows
                   /\ att'[a].hold = att[a].hold
    <2>1. ASSUME NEW p, att' = [att EXCEPT ![a] = [att[a] EXCEPT !.pc = p]],
                 InTxn(a) \/ p \notin {"locked", "counted"}
          PROVE  InTxn(a)' => /\ InTxn(a)
                              /\ att'[a].draft = att[a].draft
                              /\ att'[a].rows = att[a].rows
                              /\ att'[a].hold = att[a].hold
        <3> DEFINE k == [att[a] EXCEPT !.pc = p]
        <3>1. k.pc = p /\ k.draft = att[a].draft /\ k.rows = att[a].rows /\ k.hold = att[a].hold
            BY <1>1 DEF Attempt
        <3> HIDE DEF k
        <3>2. att'[a] = k
            BY <2>1 DEF Typing, TypeOK, k
        <3> QED BY <2>1, <3>1, <3>2 DEF InTxn
    <2>2. CASE PlaceRefuse(a) \/ PlaceDuplicate(a) \/ PlaceFail(a)
        BY <2>1, <2>2 DEF PlaceRefuse, PlaceDuplicate, PlaceFail, SetAttempt
    <2>3. CASE PlaceCount(a)
        BY <2>1, <2>3 DEF PlaceCount, SetAttempt, InTxn
    <2>4. CASE PlaceBegin(a)
        BY <1>1, <2>4 DEF PlaceBegin, SetAttempt, InTxn, Typing, TypeOK, Attempt
    <2>5. CASE \E d \in Drafts : PlaceRead(a, d)
        <3>1. PICK d \in Drafts : PlaceRead(a, d)
            BY <2>5
        <3> DEFINE k == [att[a] EXCEPT !.pc = IF order[d] = "NONE" THEN "ready" ELSE "existing",
                                       !.draft = d]
        <3>2. k.pc \in {"ready", "existing"}
            BY <1>1 DEF Attempt
        <3> HIDE DEF k
        <3>3. att'[a] = k
            BY <3>1 DEF PlaceRead, SetAttempt, Typing, TypeOK, k
        <3> QED BY <3>2, <3>3 DEF InTxn
    <2> QED BY <2>2, <2>3, <2>4, <2>5
<1> QED BY <1>2, <1>3 DEF LocksSpared, InTxn

\* The rows a placement locks are ACTIVE holds of its draft's quote and slot,
\* and nobody else's.
LEMMA PlaceLockStep ==
    ASSUME Typing, LockInv, NEW a \in Attempts, NEW h \in Holds, PlaceLock(a, h)
    PROVE  LockInv'
<1> DEFINE d == att[a].draft
           R == Matching(d, att[a].began)
<1>1. /\ att[a].pc = "begun" /\ DraftFree(d) /\ pay[d] = "PAID" /\ h \in R /\ RowsFree(R)
      /\ UNCHANGED <<phase, row, draft, pay, order, used>>
    BY DEF PlaceLock, SetAttempt
<1>2. /\ att'[a].pc = "locked" /\ att'[a].draft = d /\ att'[a].rows = R /\ att'[a].hold = h
      /\ \A b \in Attempts \ {a} : att'[b] = att[b]
    BY DEF PlaceLock, SetAttempt, Typing, TypeOK, Attempt
<1>3. \A i \in R : phase[i] = "ACTIVE" /\ row[i].quote = draft[d].quote /\ row[i].slot = draft[d].slot
    BY DEF Matching
<1> HIDE DEF R
<1>4. LocksKept'
    BY <1>1, <1>2, <1>3 DEF LockInv, LocksKept, InTxn, DraftFree, RowsFree
<1>5. UsedKnown' /\ HoldUsedOnce'
    BY <1>1 DEF LockInv, UsedKnown, HoldUsedOnce
<1> QED BY <1>4, <1>5 DEF LockInv

\* The hold a placement consumes was ACTIVE under its lock: no order had it.
LEMMA PlaceConsumeStep ==
    ASSUME Typing, LockInv, NEW a \in Attempts, PlaceCommit(a)
    PROVE  LockInv'
<1> DEFINE d == att[a].draft
           h == att[a].hold
<1>1. /\ InTxn(a) /\ d \in Drafts /\ h \in att[a].rows /\ att[a].rows \subseteq Holds
      /\ phase[h] = "ACTIVE"
      /\ row[h].quote = draft[d].quote /\ row[h].slot = draft[d].slot
    BY DEF PlaceCommit, InTxn, LockInv, LocksKept, Typing, TypeOK, RowsKnown, Running, Attempt
<1>2. /\ order[d] = "NONE"
      /\ \A e \in Drafts : order'[e] = IF e = d THEN "OPEN" ELSE order[e]
      /\ \A i \in Holds : phase'[i] = IF i = h THEN "CONSUMED" ELSE phase[i]
      /\ \A e \in Drafts : used'[e] = IF e = d THEN h ELSE used[e]
      /\ ~InTxn(a)'
      /\ \A b \in Attempts \ {a} : att'[b] = att[b]
      /\ UNCHANGED <<row, draft, pay>>
    BY <1>1 DEF PlaceCommit, InTxn, Typing, TypeOK, Attempt
<1> HIDE DEF d, h
<1>3. \A e \in Drafts : used[e] # h
    BY <1>1, SlotBookingAssumption DEF LockInv, UsedKnown
<1>4. \A b \in Attempts \ {a} : InTxn(b) => h \notin att[b].rows /\ att[b].rows \subseteq Holds
    BY <1>1 DEF LockInv, LocksKept, Typing, TypeOK, Attempt
<1>5. LocksKept'
    BY <1>2, <1>4 DEF LockInv, LocksKept, InTxn
<1>6. used[d] = Nil
    BY <1>1, <1>2 DEF LockInv, UsedKnown
<1>7. UsedKnown'
    BY <1>1, <1>2, <1>3 DEF LockInv, UsedKnown, Typing, TypeOK
<1>8. HoldUsedOnce'
    BY <1>1, <1>2, <1>3 DEF LockInv, HoldUsedOnce
<1> QED BY <1>5, <1>7, <1>8 DEF LockInv

\* Locks are kept in every step.
LEMMA LockStep == Typing /\ LockInv /\ [Next]_vars => LockInv'
<1> SUFFICES ASSUME Typing, LockInv, [Next]_vars PROVE LockInv'
    OBVIOUS
<1>1. ASSUME LocksSpared PROVE LockInv'
    BY <1>1, RowsImmutable, SparedStep
<1>2. ASSUME NEW a \in Attempts, PlaceStep(a)
      PROVE  LockInv'
    BY <1>1, <1>2, PlacementSpares, PlaceLockStep, PlaceConsumeStep DEF PlaceStep
<1>3. ASSUME NEW a \in Attempts, (\E d \in Drafts : PlaceRead(a, d)) \/ PlaceFail(a)
      PROVE  LockInv'
    BY <1>1, <1>3, PlacementSpares
<1>4. CASE ~ \E a \in Attempts :
                (\E d \in Drafts : PlaceRead(a, d)) \/ PlaceStep(a) \/ PlaceFail(a)
    BY <1>1, <1>4, OthersSpare DEF Next
<1> QED BY <1>2, <1>3, <1>4

LEMMA LockInit == Init => LockInv
BY SlotBookingAssumption DEF Init, LockInv, LocksKept, InTxn, UsedKnown, HoldUsedOnce

\* A placement has its draft, its payment and its holds to itself until it ends.
THEOREM LocksHold == Spec => [](Typing /\ LockInv)
BY TypingInit, TypingStep, LockInit, LockStep, PTL DEF Spec

\* However many drafts of one quote are placed at a time, no hold is used by
\* two orders, and none by an order of another quote or slot.
THEOREM OneOrderPerHold == Spec => []HoldUsedOnce
<1>1. LockInv => HoldUsedOnce
    BY DEF LockInv
<1> QED BY <1>1, LocksHold, PTL

\* No order is placed on a payment that is not PAID when it commits.
THEOREM OrdersAppearPaid == Spec => PlacedOnlyWhenPaid
<1>1. Typing /\ LockInv /\ [Next]_vars =>
         [\A d \in Drafts : order[d] = "NONE" /\ order'[d] # "NONE" => pay[d] = "PAID"]_vars
    <2> SUFFICES ASSUME Typing, LockInv, [Next]_vars, NEW d \in Drafts,
                        order[d] = "NONE", order'[d] # "NONE"
                 PROVE  pay[d] = "PAID"
        OBVIOUS
    <2>1. PICK a \in Attempts : PlaceCommit(a)
        BY DEF Next, vars, Tick, HoldBegin, HoldStep, HoldCount, HoldRefuse, HoldCommit,
               HoldFail, ReleaseHold, SetPhase, Prepare, PlaceRead, PlaceStep, PlaceBegin,
               PlaceLock, PlaceRefuse, PlaceCount, PlaceDuplicate, PlaceFail,
               SetAttempt, Capture, PaymentFailed, DropHolds, VendorReject, CloseOrder,
               Reopen, SetMaxOrders, Typing, TypeOK
    <2>2. d = att[a].draft
        BY <2>1 DEF PlaceCommit, Typing, TypeOK
    <2>3. InTxn(a)
        BY <2>1 DEF PlaceCommit, InTxn
    <2> QED BY <2>2, <2>3 DEF LockInv, LocksKept
<1> QED BY <1>1, LocksHold, PTL DEF Spec, PlacedOnlyWhenPaid

\* A hold that was released, used or refused never comes back: the customer's
\* release and a placement do not both win.
THEOREM EndedHoldsStay == Spec => HoldEndsOnce
<1> DEFINE Ended == {"RELEASED", "CONSUMED", "DELETED", "refused"}
<1>1. Typing /\ LockInv /\ [Next]_vars =>
         [\A h \in Holds : phase[h] \in Ended => phase'[h] \in {phase[h], "DELETED"}]_vars
    <2> SUFFICES ASSUME Typing, LockInv, [Next]_vars, NEW i \in Holds, phase[i] \in Ended
                 PROVE  phase'[i] \in {phase[i], "DELETED"}
        OBVIOUS
    <2>1. ASSUME NEW h \in Holds,
                 \/ \E q \in Quotes, s \in Slots, day \in Days : HoldBegin(h, q, s, day)
                 \/ HoldStep(h) \/ HoldFail(h) \/ ReleaseHold(h)
          PROVE  phase'[i] = phase[i]
        BY <2>1 DEF HoldBegin, HoldStep, HoldCount, HoldRefuse, HoldCommit, HoldFail,
                    ReleaseHold, SetPhase, Typing, TypeOK
    <2>2. ASSUME NEW d \in Drafts, DropHolds(d) \/ VendorReject(d)
          PROVE  phase'[i] \in {phase[i], "DELETED"}
        BY <2>2 DEF DropHolds, VendorReject, Delete
    <2>3. ASSUME NEW a \in Attempts, PlaceCommit(a)
          PROVE  phase'[i] = phase[i]
        <3>1. InTxn(a)
            BY <2>3 DEF PlaceCommit, InTxn
        <3>2. phase[att[a].hold] = "ACTIVE"
            BY <3>1 DEF LockInv, LocksKept
        <3> QED BY <2>3, <3>2 DEF PlaceCommit, Typing, TypeOK
    <2>4. CASE UNCHANGED phase
        BY <2>4
    <2> QED BY <2>1, <2>2, <2>3, <2>4
            DEF Next, vars, Tick, Prepare, PlaceRead, PlaceStep, PlaceBegin, PlaceLock,
                PlaceRefuse, PlaceCount, PlaceDuplicate, PlaceFail, SetAttempt, Capture,
                PaymentFailed, CloseOrder, Reopen, SetMaxOrders
<1> QED BY <1>1, LocksHold, PTL DEF Spec, HoldEndsOnce

-----------------------------------------------------------------------------
(* Refinement *)

\* max_orders changes in a step of its own.
LEMMA LimitStep ==
    ASSUME [Next]_vars
    PROVE  \/ limit' = limit
           \/ \A s, day : Claims(s, day)' = Claims(s, day)
<1>1. CASE \E s \in Slots, n \in Limits : SetMaxOrders(s, n)
    BY <1>1 DEF SetMaxOrders, Claims, ActiveHolds, CountedOrders, Expires
<1>2. CASE ~ \E s \in Slots, n \in Limits : SetMaxOrders(s, n)
    BY <1>2 DEF Next, vars, Tick, HoldStep, HoldBegin, HoldCount, HoldRefuse, HoldCommit,
                HoldFail, ReleaseHold, SetPhase, Prepare, PlaceRead, PlaceStep, PlaceBegin,
                PlaceLock, PlaceRefuse, PlaceCount, PlaceCommit, PlaceDuplicate, PlaceFail,
                SetAttempt, Capture, PaymentFailed, DropHolds, VendorReject, CloseOrder,
                Reopen
<1> QED BY <1>1, <1>2

\* Initial states map to initial states of SlotAdmission.
LEMMA AdmissionInit == Init => Admission!Init
BY SlotBookingAssumption
   DEF Init, Admission!Init, Claims, ActiveHolds, CountedOrders

\* Every step maps to a step of SlotAdmission or to a stutter.
LEMMA AdmissionStep ==
    IInv /\ IInv' /\ [Next]_vars =>
        [Admission!Next]_(<<[k \in Slots \X Days |-> Claims(k[1], k[2])],
                            [k \in Slots \X Days |-> limit[k[1]]]>>)
<1> SUFFICES ASSUME IInv, IInv', [Next]_vars
             PROVE  Admission!Next
    OBVIOUS
<1> DEFINE Keys == Slots \X Days
           C == [k \in Keys |-> Claims(k[1], k[2])]
           D == [k \in Keys |-> Claims(k[1], k[2])']
<1>1. Typing'
    BY DEF IInv, Typing
<1>2. D \in [Keys -> SUBSET (Holds \cup Drafts)]
    BY DEF Claims, ActiveHolds, CountedOrders
<1>3. CASE limit' # limit
    <2>1. \A s, day : Claims(s, day)' = Claims(s, day)
        BY <1>3, LimitStep
    <2>2. [k \in Keys |-> limit[k[1]]]' \in [Keys -> Nat]
        BY <1>1 DEF Typing, TypeOK
    <2> QED BY <2>1, <2>2 DEF Admission!Next, Admission!SetLimit
<1>4. CASE limit' = limit /\ \A s, day : Claims(s, day)' \subseteq Claims(s, day)
    BY <1>2, <1>4 DEF Admission!Next, Admission!GiveBack
<1>5. CASE /\ limit' = limit
           /\ \E s0 \in Slots, day0 \in Days, x \in Holds \cup Drafts :
                 /\ Cardinality(Claims(s0, day0)') <= limit[s0]
                 /\ \A s, day : /\ Claims(s, day)' \subseteq Claims(s, day) \cup {x}
                                /\ x \in Claims(s, day)' => s = s0 /\ day = day0
    <2>1. PICK s0 \in Slots, day0 \in Days, x \in Holds \cup Drafts :
              /\ Cardinality(Claims(s0, day0)') <= limit[s0]
              /\ \A s, day : /\ Claims(s, day)' \subseteq Claims(s, day) \cup {x}
                             /\ x \in Claims(s, day)' => s = s0 /\ day = day0
        BY <1>5
    <2>3. \A j \in Keys \ {<<s0, day0>>} : Claims(j[1], j[2])' \subseteq Claims(j[1], j[2])
        BY <2>1
    <2>4. Admission!Admit(<<s0, day0>>, x)
        <3> DEFINE k == <<s0, day0>>
        <3>1. /\ k \in Keys /\ k[1] = s0 /\ k[2] = day0
              /\ C[k] = Claims(s0, day0) /\ D[k] = Claims(s0, day0)'
            OBVIOUS
        <3>2. D[k] \subseteq C[k] \cup {x}
            BY <2>1, <3>1
        <3>3. Cardinality(D[k]) <= [j \in Keys |-> limit[j[1]]][k]
            BY <2>1, <3>1
        <3>4. \A j \in Keys \ {k} : D[j] \subseteq C[j]
            BY <2>3
        <3>5. Admission!Cardinality(D[k]) = Cardinality(D[k])
            BY DEF Cardinality, Admission!Cardinality
        <3> QED BY <1>2, <1>5, <3>2, <3>3, <3>4, <3>5 DEF Admission!Admit
    <2> QED BY <2>4 DEF Admission!Next
<1> QED BY <1>1, <1>3, <1>4, <1>5, StepClaims

\* The transactions of SlotBooking implement the atomic admission of
\* SlotAdmission, for every instance.
THEOREM ImplementsAdmission == Spec => AdmissionSpec
BY StrengthenedInvariant, AdmissionInit, AdmissionStep, PTL
   DEF Spec, AdmissionSpec, Admission!Spec

=============================================================================
