-------------------------- MODULE FulfilmentProofs --------------------------
(***************************************************************************)
(* Proofs about Fulfilment, for every set of riders and of concurrent      *)
(* handlers, and every number of attempts of the auto-assign job.          *)
(***************************************************************************)
EXTENDS Fulfilment, TLAPS

-----------------------------------------------------------------------------
(* The parts of the invariant *)

\* what IInv says of a call whose record is k
CallGood(k, assignment, proof, paid) ==
    /\ k \in Call
    /\ k.pc \in {"consume", "verified", "pickup"} =>
          assignment.st \in Claimed /\ proof = assignment.rider
    /\ k.pc = "refunded" => paid > 0
    /\ k.pc = "setStatus" => k.to \in Overrides \cup {"REFUNDED"}
    /\ k.pc = "setRider" => k.to \in Riders
    /\ k.pc = "makeCode" => k.to \in {"PICKUP", "DELIVERY"}

\* what IInv says of the order, its assignment and the money
OrderGood ==
    /\ status \in Status
    /\ rider \in Riders \cup {Nobody}
    /\ row \in Row
    /\ codes \in SUBSET {"PICKUP", "DELIVERY"}
    /\ prover \in Riders \cup {Nobody}
    /\ credits \in 0 .. MaxCredits
    /\ bare \in BOOLEAN
    /\ row.st = "none" <=> row.rider = Nobody
    /\ prover # Nobody => row.st \in Claimed /\ prover = row.rider
    /\ CodeBeforePickup
    /\ ClaimedHasRider
    /\ RefundedWasCredited

\* what IInv says of the auto-assign job
JobGood ==
    /\ job \in Job
    /\ job.st = "read" => job.cand \in Riders
    /\ job.st \in {"queued", "read", "sending"} => job.left > 0

\* IInv is the conjunction of its parts.
LEMMA Parts ==
    IInv <=> /\ OrderGood
             /\ JobGood
             /\ call = [c \in Calls |-> call[c]]
             /\ \A c \in Calls : CallGood(call[c], row, prover, credits)
BY DEF IInv, TypeOK, RowInv, CallInv, OrderGood, JobGood, CallGood

\* The parts, true after a step, make the invariant true after it.
LEMMA PartsNext ==
    ASSUME OrderGood', JobGood',
           call' = [c \in Calls |-> call'[c]],
           \A c \in Calls : CallGood(call'[c], row', prover', credits')
    PROVE  IInv'
BY DEF IInv, TypeOK, RowInv, CallInv, OrderGood, JobGood, CallGood

\* A call that another handler or the job leaves alone stays good: a claimed
\* assignment whose rider showed the code keeps both, and credits only grow.
LEMMA CallStable ==
    ASSUME NEW k, CallGood(k, row, prover, credits),
           credits \in Nat, credits' \in Nat, credits' >= credits,
           row.st \in Claimed /\ prover = row.rider =>
              row'.st \in Claimed /\ prover' = row'.rider
    PROVE  CallGood(k, row', prover', credits')
BY DEF CallGood

\* A step of one call: the call's new record has to be good.
LEMMA CallWrites ==
    ASSUME IInv, NEW c \in Calls, NEW k, call' = [call EXCEPT ![c] = k],
           CallGood(k, row', prover', credits'),
           credits' >= credits,
           row.st \in Claimed /\ prover = row.rider =>
              row'.st \in Claimed /\ prover' = row'.rider,
           OrderGood', JobGood'
    PROVE  IInv'
<1>1. /\ call = [d \in Calls |-> call[d]]
      /\ \A d \in Calls : CallGood(call[d], row, prover, credits)
      /\ credits \in Nat /\ credits' \in Nat
    BY Parts, FulfilmentAssumption DEF OrderGood
<1>2. \A d \in Calls : CallGood(call'[d], row', prover', credits')
    <2> TAKE d \in Calls
    <2>1. CASE d = c
        BY <1>1, <2>1
    <2>2. CASE d # c
        BY <1>1, <2>2, CallStable
    <2> QED BY <2>1, <2>2
<1>3. call' = [d \in Calls |-> call'[d]]
    BY <1>1
<1> QED BY <1>2, <1>3, PartsNext

\* A step of no call.
LEMMA CallsKept ==
    ASSUME IInv, UNCHANGED call, credits' >= credits,
           row.st \in Claimed /\ prover = row.rider =>
              row'.st \in Claimed /\ prover' = row'.rider,
           OrderGood', JobGood'
    PROVE  IInv'
<1>1. /\ call = [d \in Calls |-> call[d]]
      /\ \A d \in Calls : CallGood(call[d], row, prover, credits)
      /\ credits \in Nat /\ credits' \in Nat
    BY Parts, FulfilmentAssumption DEF OrderGood
<1>2. \A d \in Calls : CallGood(call'[d], row', prover', credits')
    BY <1>1, CallStable
<1> QED BY <1>1, <1>2, PartsNext

\* The records that Start, Continue and End write.
LEMMA IdleGood ==
    ASSUME NEW assignment, NEW proof, NEW paid
    PROVE  CallGood(Idle, assignment, proof, paid)
BY DEF CallGood, Idle, Call

-----------------------------------------------------------------------------
(* The steps *)

\* The initial state: no assignment, no job, no call.
LEMMA InvInit == Init => IInv
<1> SUFFICES ASSUME Init PROVE IInv
    OBVIOUS
<1> USE FulfilmentAssumption
<1>0. 0 \in 0 .. MaxCredits /\ row \in Row /\ row.st = "none" /\ row.rider = Nobody
    BY DEF Init, Row
<1>1. OrderGood
    BY <1>0 DEF Init, OrderGood, Status, Row, CodeBeforePickup, ClaimedHasRider,
           RefundedWasCredited, Claimed
<1>2. JobGood
    BY DEF Init, JobGood, Job, NoJob
<1>3. \A c \in Calls : CallGood(call[c], row, prover, credits)
    BY IdleGood DEF Init
<1> QED BY <1>1, <1>2, <1>3, Parts DEF Init

\* What no step of the job or of a status touches stays good.
LEMMA OrderKept ==
    ASSUME OrderGood, UNCHANGED <<status, rider, row, codes, prover, credits, bare>>
    PROVE  OrderGood' /\ credits' >= credits
<1>1. credits \in Nat
    BY FulfilmentAssumption DEF OrderGood
<1>2. credits' >= credits
    BY <1>1
<1> QED BY <1>2 DEF OrderGood, CodeBeforePickup, ClaimedHasRider, RefundedWasCredited

\* A new status, other than the ones a pickup or a refund is told by, keeps the
\* order good.
LEMMA StatusWritten ==
    ASSUME OrderGood, status' \in Status,
           status' \notin {"PICKUP_OTP_VERIFIED", "PICKED_UP", "REFUNDED"},
           UNCHANGED <<rider, row, codes, prover, credits>>, bare' \in BOOLEAN
    PROVE  OrderGood' /\ credits' >= credits
<1>1. credits \in Nat
    BY FulfilmentAssumption DEF OrderGood
<1>2. credits' >= credits
    BY <1>1
<1> QED BY <1>2 DEF OrderGood, CodeBeforePickup, ClaimedHasRider, RefundedWasCredited

\* The records of the job that its steps write.
LEMMA JobRecords ==
    ASSUME JobGood
    PROVE  /\ QueueAutoAssign => JobGood'
           /\ job.left > 0 /\ FailAttempt => JobGood'
           /\ job' = NoJob => JobGood'
           /\ job' = job => JobGood'
<1> USE FulfilmentAssumption
<1>1. NoJob \in Job /\ NoJob.st = "none"
    BY DEF NoJob, Job
<1>2. ASSUME QueueAutoAssign PROVE JobGood'
    <2> DEFINE j == [NoJob EXCEPT !.st = "queued", !.left = Attempts]
    <2>0. Attempts \in 0 .. Attempts /\ Attempts > 0
        OBVIOUS
    <2>1. j \in Job /\ j.st = "queued" /\ j.left = Attempts
        BY <1>1, <2>0 DEF Job
    <2>2. job' = j \/ job' = job
        BY <1>2 DEF QueueAutoAssign
    <2> HIDE DEF j
    <2> QED BY <2>0, <2>1, <2>2 DEF JobGood
<1>3. ASSUME job.left > 0, FailAttempt PROVE JobGood'
    <2>1. job.left \in 0 .. Attempts
        BY DEF JobGood, Job
    <2>2. CASE job.left > 1
        <3>1. job' = [st |-> "queued", cand |-> Nobody, left |-> job.left - 1]
            BY <1>3, <2>2 DEF FailAttempt
        <3>2. job.left - 1 \in 0 .. Attempts /\ job.left - 1 > 0
            BY <2>1, <2>2
        <3> QED BY <3>1, <3>2 DEF JobGood, Job
    <2>3. CASE ~(job.left > 1)
        BY <1>3, <2>3 DEF FailAttempt, JobGood, Job
    <2> QED BY <2>2, <2>3
<1>4. job' = NoJob => JobGood'
    BY <1>1 DEF JobGood
<1>5. job' = job => JobGood'
    BY DEF JobGood
<1> QED BY <1>2, <1>3, <1>4, <1>5

\* The auto-assign job: it writes the assignment only where there is none.
LEMMA StepJob ==
    ASSUME IInv, JobNext
    PROVE  IInv'
<1>1. /\ OrderGood /\ JobGood /\ job \in Job
      /\ row \in Row /\ status \in Status
    BY Parts DEF JobGood, OrderGood
<1>2. CASE BacklogScan
    BY <1>1, <1>2, CallsKept, OrderKept, JobRecords DEF BacklogScan, office
<1>3. ASSUME NEW r \in Riders, JobReads(r) PROVE IInv'
    <2> DEFINE j == [job EXCEPT !.st = "read", !.cand = r]
    <2>1. j \in Job /\ j.st = "read" /\ j.cand = r /\ j.left = job.left
        BY <1>1 DEF Job
    <2>2. job.st = "queued" /\ (job' = j \/ job' = NoJob)
        BY <1>3 DEF JobReads
    <2> HIDE DEF j
    <2>3. job' = j => JobGood'
        BY <1>1, <2>1, <2>2 DEF JobGood
    <2>4. JobGood'
        BY <1>1, <2>2, <2>3, JobRecords
    <2> QED BY <1>1, <1>3, <2>4, CallsKept, OrderKept DEF JobReads, office
<1>4. CASE JobOffers
    <2> DEFINE j == [job EXCEPT !.st = "sending", !.cand = Nobody]
    <2>1. j \in Job /\ j.st = "sending" /\ j.left = job.left
        BY <1>1 DEF Job
    <2>2. /\ job.st = "read" /\ job.cand \in Riders /\ job.left > 0 /\ job' = j
          /\ row.st = "none" /\ row' = [st |-> "ASSIGNED", rider |-> job.cand]
          /\ status \in Offerable
          /\ UNCHANGED <<rider, codes, prover, credits, bare, call>>
        BY <1>1, <1>4 DEF JobOffers, JobGood, StillOfferable, office
    <2> HIDE DEF j
    <2>3. JobGood'
        BY <2>1, <2>2 DEF JobGood
    <2>4. status' \in Status /\ status' \notin {"PICKUP_OTP_VERIFIED", "PICKED_UP", "REFUNDED"}
        BY <1>4, <2>2 DEF JobOffers, Offerable, Status
    <2>5. row' \in Row /\ row'.st = "ASSIGNED" /\ row'.rider = job.cand
        BY <2>2 DEF Row
    <2>6. prover = Nobody
        BY <1>1, <2>2 DEF OrderGood, Claimed
    <2>7. OrderGood'
        BY <1>1, <2>2, <2>4, <2>5, <2>6, FulfilmentAssumption
           DEF OrderGood, CodeBeforePickup, ClaimedHasRider, RefundedWasCredited, Claimed
    <2>8. credits' >= credits
        BY <1>1, <2>2, FulfilmentAssumption DEF OrderGood
    <2> QED BY <2>2, <2>3, <2>7, <2>8, CallsKept DEF Claimed
<1>5. CASE JobSkips \/ JobCompletes \/ FailedJobRemoved
    BY <1>1, <1>5, CallsKept, OrderKept, JobRecords
       DEF JobSkips, JobCompletes, FailedJobRemoved, office
<1>6. CASE JobInsertFails \/ JobFails
    <2>1. job.left > 0 /\ FailAttempt
        BY <1>1, <1>6 DEF JobInsertFails, JobFails, JobGood
    <2> QED BY <1>1, <1>6, <2>1, CallsKept, OrderKept, JobRecords
            DEF JobInsertFails, JobFails, office
<1> QED BY <1>2, <1>3, <1>4, <1>5, <1>6 DEF JobNext

\* What is written with no call: a stage of the vendor, an administrator's
\* status, an administrator's assignment where there is none.
LEMMA StepPlain ==
    ASSUME IInv,
           \/ VendorReceives
           \/ \E to \in Status : AdminOverrides(to)
           \/ \E r \in Riders : AdminAssigns(r)
    PROVE  IInv'
<1>1. OrderGood /\ JobGood
    BY Parts
<1>2. CASE VendorReceives \/ \E to \in Status : AdminOverrides(to)
    <2>1. /\ status' \in Status
          /\ status' \notin {"PICKUP_OTP_VERIFIED", "PICKED_UP", "REFUNDED"}
        BY <1>2 DEF VendorReceives, AdminOverrides, Status, Overrides
    <2>2. UNCHANGED <<rider, row, job, codes, prover, credits, bare, call>>
        BY <1>2 DEF VendorReceives, AdminOverrides, office
    <2>3. OrderGood' /\ credits' >= credits
        BY <1>1, <2>1, <2>2, StatusWritten DEF OrderGood
    <2> QED BY <1>1, <2>2, <2>3, CallsKept, JobRecords
<1>3. ASSUME NEW r \in Riders, AdminAssigns(r) PROVE IInv'
    <2>1. /\ row.st = "none" /\ row' = [st |-> "ASSIGNED", rider |-> r] /\ rider' = r
          /\ UNCHANGED <<status, job, codes, prover, credits, bare, call>>
        BY <1>3 DEF AdminAssigns, office
    <2>2. row' \in Row /\ row'.st = "ASSIGNED" /\ row'.rider = r
        BY <2>1 DEF Row
    <2>3. prover = Nobody /\ status \notin {"PICKUP_OTP_VERIFIED", "PICKED_UP"}
        BY <1>1, <2>1 DEF OrderGood, Claimed, CodeBeforePickup
    <2>4. OrderGood'
        BY <1>1, <2>1, <2>2, <2>3, FulfilmentAssumption
           DEF OrderGood, CodeBeforePickup, ClaimedHasRider, RefundedWasCredited, Claimed
    <2>5. credits' >= credits
        BY <1>1, <2>1, FulfilmentAssumption DEF OrderGood
    <2> QED BY <1>1, <2>1, <2>4, <2>5, CallsKept, JobRecords DEF Claimed
<1> QED BY <1>2, <1>3

\* A handler that begins and leaves the order as it is: it begins with what it
\* has just seen.
LEMMA StepBegins ==
    ASSUME IInv, NEW c \in Calls,
           \/ \E r \in Riders : MarkPickedUp(c, r) \/ AdminSetsRider(c, r)
           \/ \E to \in Status : AdminUpdatesStatus(c, to)
           \/ \E toWallet \in BOOLEAN : AdminCancels(c, toWallet)
           \/ CustomerCancels(c) \/ AdminRefunds(c)
    PROVE  IInv'
<1>1. OrderGood /\ JobGood
    BY Parts
<1>2. UNCHANGED <<status, rider, row, job, codes, prover, credits, bare>>
    BY DEF MarkPickedUp, AdminSetsRider, AdminUpdatesStatus, AdminCancels, CustomerCancels,
           AdminRefunds, office
<1>3. ASSUME NEW k, CallGood(k, row, prover, credits), call' = [call EXCEPT ![c] = k]
      PROVE  IInv'
    <2>1. CallGood(k, row', prover', credits')
        BY <1>2, <1>3
    <2>2. OrderGood' /\ JobGood' /\ credits' >= credits
        BY <1>1, <1>2, OrderKept, JobRecords
    <2> QED BY <1>2, <1>3, <2>1, <2>2, CallWrites
<1>4. ASSUME NEW r \in Riders, MarkPickedUp(c, r) PROVE IInv'
    <2>1. row.st = "ACCEPTED" /\ row.rider = r /\ status \in {"PICKUP_OTP_VERIFIED", "PICKED_UP"}
        BY <1>4 DEF MarkPickedUp, PickupMay
    <2>2. row.st \in Claimed /\ prover = row.rider
        BY <1>1, <2>1 DEF OrderGood, CodeBeforePickup
    <2>3. CallGood([pc |-> "pickup", to |-> "", flag |-> FALSE], row, prover, credits)
        BY <2>2 DEF CallGood, Call
    <2> QED BY <1>3, <1>4, <2>3 DEF MarkPickedUp, Start
<1>5. ASSUME NEW r \in Riders, AdminSetsRider(c, r) PROVE IInv'
    <2>1. CallGood([pc |-> "setRider", to |-> r, flag |-> FALSE], row, prover, credits)
        BY DEF CallGood, Call
    <2> QED BY <1>3, <1>5, <2>1 DEF AdminSetsRider, Start
<1>6. ASSUME NEW to \in Status, AdminUpdatesStatus(c, to) PROVE IInv'
    <2> DEFINE k == [pc |-> "setStatus", to |-> to, flag |-> to \in Assignable /\ rider = Nobody]
    <2>1. to \in Overrides \cup {"REFUNDED"}
        BY <1>6 DEF AdminUpdatesStatus, AdminMay, Overrides
    <2>2. k \in Call /\ k.pc = "setStatus" /\ k.to = to
        BY DEF Call
    <2>3. call' = [call EXCEPT ![c] = k]
        BY <1>6 DEF AdminUpdatesStatus, Start
    <2> HIDE DEF k
    <2>4. CallGood(k, row, prover, credits)
        BY <2>1, <2>2 DEF CallGood
    <2> QED BY <1>3, <2>3, <2>4
<1>7. ASSUME NEW toWallet \in BOOLEAN, AdminCancels(c, toWallet) PROVE IInv'
    <2>1. CallGood([pc |-> "cancel", to |-> "", flag |-> toWallet], row, prover, credits)
        BY DEF CallGood, Call
    <2> QED BY <1>3, <1>7, <2>1 DEF AdminCancels, Start
<1>8. CASE CustomerCancels(c)
    <2>1. CallGood([pc |-> "setStatus", to |-> "CANCELLED", flag |-> FALSE], row, prover, credits)
        BY DEF CallGood, Call, Status, Overrides
    <2> QED BY <1>3, <1>8, <2>1 DEF CustomerCancels, Start
<1>9. CASE AdminRefunds(c)
    <2>1. CallGood([pc |-> "creditRefund", to |-> "", flag |-> FALSE], row, prover, credits)
        BY DEF CallGood, Call
    <2> QED BY <1>3, <1>9, <2>1 DEF AdminRefunds, Start
<1> QED BY <1>4, <1>5, <1>6, <1>7, <1>8, <1>9

\* A handler that begins with a transaction of its own: the vendor's stages, the
\* rider's answers and the comparison of the pickup code.
LEMMA StepTransaction ==
    ASSUME IInv, NEW c \in Calls,
           \/ VendorAccept(c) \/ VendorPacks(c)
           \/ \E r \in Riders : RiderAccepts(c, r) \/ RiderRejects(c, r) \/ VerifyPickup(c, r)
    PROVE  IInv'
<1>1. OrderGood /\ JobGood /\ credits \in Nat /\ credits >= credits
    BY Parts, FulfilmentAssumption DEF OrderGood
<1>2. CASE VendorAccept(c) \/ VendorPacks(c)
    <2>1. /\ status' \in Status
          /\ status' \notin {"PICKUP_OTP_VERIFIED", "PICKED_UP", "REFUNDED"}
          /\ UNCHANGED <<rider, row, job, codes, prover, credits, bare>>
        BY <1>2 DEF VendorAccept, VendorPacks, Status, office
    <2>2. OrderGood' /\ JobGood' /\ credits' >= credits
        BY <1>1, <2>1, StatusWritten, JobRecords DEF OrderGood
    <2>3. PICK code \in {"PICKUP", "DELIVERY"} :
             call' = [call EXCEPT ![c] = [pc |-> "makeCode", to |-> code, flag |-> FALSE]]
        BY <1>2 DEF VendorAccept, VendorPacks, Start
    <2>4. CallGood([pc |-> "makeCode", to |-> code, flag |-> FALSE], row', prover', credits')
        BY DEF CallGood, Call
    <2> QED BY <2>1, <2>2, <2>3, <2>4, CallWrites
<1>3. ASSUME NEW r \in Riders, RiderAccepts(c, r) PROVE IInv'
    <2>1. /\ row.st = "ASSIGNED" /\ row.rider = r /\ status \in Assignable /\ rider' = r
          /\ row' = [row EXCEPT !.st = "ACCEPTED"]
          /\ call' = [call EXCEPT ![c] = [pc |-> "chooseCode", to |-> "", flag |-> FALSE]]
          /\ UNCHANGED <<status, job, codes, prover, credits, bare>>
        BY <1>3 DEF RiderAccepts, Start, office
    <2>2. row' \in Row /\ row'.st = "ACCEPTED" /\ row'.rider = r
        BY <1>1, <2>1 DEF OrderGood, Row
    <2>3. prover = Nobody /\ status \notin {"PICKUP_OTP_VERIFIED", "PICKED_UP"}
        BY <1>1, <2>1 DEF OrderGood, Claimed, Assignable
    <2>4. OrderGood'
        BY <1>1, <2>1, <2>2, <2>3, FulfilmentAssumption
           DEF OrderGood, CodeBeforePickup, ClaimedHasRider, RefundedWasCredited
    <2>5. CallGood([pc |-> "chooseCode", to |-> "", flag |-> FALSE], row', prover', credits')
        BY DEF CallGood, Call
    <2> QED BY <1>1, <2>1, <2>4, <2>5, CallWrites, JobRecords DEF Claimed
<1>4. ASSUME NEW r \in Riders, RiderRejects(c, r) PROVE IInv'
    <2>1. /\ row.st = "ASSIGNED" /\ row.rider = r
          /\ row' = [row EXCEPT !.st = "CANCELLED"]
          /\ UNCHANGED <<status, rider, job, codes, prover, credits, bare>>
        BY <1>4 DEF RiderRejects, office
    <2>2. row' \in Row /\ row'.st = "CANCELLED" /\ row'.rider = r
        BY <1>1, <2>1 DEF OrderGood, Row
    <2>3. prover = Nobody /\ status \notin {"PICKUP_OTP_VERIFIED", "PICKED_UP"}
        BY <1>1, <2>1 DEF OrderGood, Claimed, CodeBeforePickup
    <2>4. OrderGood' /\ JobGood'
        BY <1>1, <2>1, <2>2, <2>3, FulfilmentAssumption, JobRecords
           DEF OrderGood, CodeBeforePickup, ClaimedHasRider, RefundedWasCredited, Claimed
    <2>5. CASE UNCHANGED call
        BY <1>1, <2>1, <2>4, <2>5, CallsKept DEF Claimed
    <2>6. CASE Start(c, "requeue", "", FALSE)
        <3>1. CallGood([pc |-> "requeue", to |-> "", flag |-> FALSE], row', prover', credits')
            BY DEF CallGood, Call
        <3> QED BY <1>1, <2>1, <2>4, <2>6, <3>1, CallWrites DEF Start, Claimed
    <2> QED BY <1>4, <2>5, <2>6 DEF RiderRejects
<1>5. ASSUME NEW r \in Riders, VerifyPickup(c, r) PROVE IInv'
    <2>1. /\ row.st = "ACCEPTED" /\ row.rider = r /\ prover' = r
          /\ call' = [call EXCEPT ![c] = [pc |-> "consume", to |-> "", flag |-> FALSE]]
          /\ UNCHANGED <<status, rider, row, job, codes, credits, bare>>
        BY <1>5 DEF VerifyPickup, Start, office
    <2>2. OrderGood'
        BY <1>1, <2>1
           DEF OrderGood, CodeBeforePickup, ClaimedHasRider, RefundedWasCredited, Claimed
    <2>3. CallGood([pc |-> "consume", to |-> "", flag |-> FALSE], row', prover', credits')
        BY <2>1 DEF CallGood, Call, Claimed
    <2> QED BY <1>1, <2>1, <2>2, <2>3, CallWrites, JobRecords
<1> QED BY <1>2, <1>3, <1>4, <1>5

\* A handler that goes on keeps the rest of its record.
LEMMA Continued ==
    ASSUME IInv, NEW c \in Calls,
           NEW pc \in {"requeue", "verified", "creditCancelled", "refunded"},
           Continue(c, pc)
    PROVE  \E k \in Call : k.pc = pc /\ k.to = call[c].to /\ call' = [call EXCEPT ![c] = k]
<1> DEFINE k == [call[c] EXCEPT !.pc = pc]
<1>1. call[c] \in Call /\ call = [d \in Calls |-> call[d]]
    BY Parts DEF CallGood
<1>2. k \in Call /\ k.pc = pc /\ k.to = call[c].to
    BY <1>1 DEF Call
<1>3. call' = [call EXCEPT ![c] = k]
    BY <1>1 DEF Continue
<1> HIDE DEF k
<1> QED BY <1>2, <1>3

\* The later statements of the vendor's and the riders' handlers.
LEMMA StepRiderWrites ==
    ASSUME IInv, NEW c \in Calls,
           \/ ChooseCode(c) \/ ConsumeCode(c) \/ VerifyPickupWrites(c)
           \/ MarkPickedUpWrites(c) \/ Requeue(c) \/ Stop(c)
    PROVE  IInv'
<1>1. /\ OrderGood /\ JobGood /\ credits \in Nat /\ credits >= credits
      /\ call = [d \in Calls |-> call[d]]
      /\ CallGood(call[c], row, prover, credits)
    BY Parts, FulfilmentAssumption DEF OrderGood
<1>2. CASE Requeue(c) \/ Stop(c)
    <2>1. /\ call' = [call EXCEPT ![c] = Idle]
          /\ UNCHANGED <<status, rider, row, codes, prover, credits, bare>>
        BY <1>2 DEF Requeue, Stop, End, office
    <2>2. OrderGood' /\ JobGood' /\ credits' >= credits
        BY <1>1, <1>2, <2>1, OrderKept, JobRecords DEF Requeue, Stop
    <2> QED BY <2>1, <2>2, IdleGood, CallWrites
<1>3. CASE ChooseCode(c)
    <2> DEFINE to == IF status \in {"VENDOR_ACCEPTED", "PICKUP_ASSIGNED"}
                     THEN "PICKUP" ELSE "DELIVERY"
               k == [call[c] EXCEPT !.pc = "makeCode", !.to = to]
    <2>1. to \in {"PICKUP", "DELIVERY"}
        OBVIOUS
    <2>2. call' = [call EXCEPT ![c] = k]
        BY <1>1, <1>3 DEF ChooseCode
    <2> HIDE DEF to
    <2>3. k \in Call /\ k.pc = "makeCode" /\ k.to = to
        BY <1>1, <2>1 DEF CallGood, Call
    <2> HIDE DEF k
    <2>4. UNCHANGED <<status, rider, row, job, codes, prover, credits, bare>>
        BY <1>3 DEF ChooseCode, office
    <2>5. OrderGood' /\ JobGood' /\ credits' >= credits
        BY <1>1, <2>4, OrderKept, JobRecords
    <2>6. CallGood(k, row', prover', credits')
        BY <2>1, <2>3 DEF CallGood
    <2> QED BY <2>2, <2>4, <2>5, <2>6, CallWrites
<1>4. CASE ConsumeCode(c)
    <2>1. /\ call[c].pc = "consume" /\ Continue(c, "verified")
          /\ codes' \in {codes, codes \ {"PICKUP"}}
          /\ UNCHANGED <<status, rider, row, job, prover, credits, bare>>
        BY <1>4 DEF ConsumeCode, office
    <2>2. PICK k \in Call : k.pc = "verified" /\ call' = [call EXCEPT ![c] = k]
        BY <2>1, Continued
    <2>3. OrderGood' /\ JobGood'
        BY <1>1, <2>1, JobRecords
           DEF OrderGood, CodeBeforePickup, ClaimedHasRider, RefundedWasCredited
    <2>4. CallGood(k, row', prover', credits')
        BY <1>1, <2>1, <2>2 DEF CallGood
    <2> QED BY <1>1, <2>1, <2>2, <2>3, <2>4, CallWrites
<1>5. CASE VerifyPickupWrites(c)
    <2>1. /\ call' = [call EXCEPT ![c] = Idle] /\ status' = "PICKUP_OTP_VERIFIED"
          /\ UNCHANGED <<rider, row, job, codes, prover, credits, bare>>
          /\ call[c].pc = "verified"
        BY <1>5 DEF VerifyPickupWrites, End, office
    <2>2. row.st \in Claimed /\ prover = row.rider
        BY <1>1, <2>1 DEF CallGood
    <2>3. OrderGood'
        BY <1>1, <2>1, <2>2
           DEF OrderGood, CodeBeforePickup, ClaimedHasRider, RefundedWasCredited, Status
    <2> QED BY <1>1, <2>1, <2>3, IdleGood, CallWrites, JobRecords
<1>6. CASE MarkPickedUpWrites(c)
    <2>1. /\ call' = [call EXCEPT ![c] = Idle] /\ status' = "PICKED_UP"
          /\ row' = IF row.st = "ACCEPTED" THEN [row EXCEPT !.st = "PICKED_UP"] ELSE row
          /\ UNCHANGED <<rider, job, codes, prover, credits, bare>>
          /\ call[c].pc = "pickup"
        BY <1>6 DEF MarkPickedUpWrites, End, office
    <2>2. row.st \in Claimed /\ prover = row.rider
        BY <1>1, <2>1 DEF CallGood
    <2>3. row' \in Row /\ row'.st = "PICKED_UP" /\ row'.rider = row.rider
        BY <1>1, <2>1, <2>2 DEF OrderGood, Row, Claimed
    <2>4. OrderGood'
        BY <1>1, <2>1, <2>2, <2>3
           DEF OrderGood, CodeBeforePickup, ClaimedHasRider, RefundedWasCredited, Status,
               Claimed
    <2> QED BY <1>1, <2>1, <2>2, <2>3, <2>4, IdleGood, CallWrites, JobRecords DEF Claimed
<1> QED BY <1>2, <1>3, <1>4, <1>5, <1>6

\* generateOtp: it also tells the calls that are comparing the old code.
LEMMA StepMakeCode ==
    ASSUME IInv, NEW c \in Calls, MakeCode(c)
    PROVE  IInv'
<1>1. /\ OrderGood /\ JobGood /\ credits \in Nat
      /\ \A d \in Calls : CallGood(call[d], row, prover, credits)
    BY Parts, FulfilmentAssumption DEF OrderGood
<1>2. /\ codes' = codes \cup {call[c].to} /\ call[c].to \in {"PICKUP", "DELIVERY"}
      /\ UNCHANGED <<status, rider, row, job, prover, credits, bare>>
    BY <1>1 DEF MakeCode, CallGood, office
<1>3. OrderGood' /\ JobGood'
    BY <1>1, <1>2, JobRecords
       DEF OrderGood, CodeBeforePickup, ClaimedHasRider, RefundedWasCredited
<1>4. call' = [d \in Calls |-> call'[d]]
    BY DEF MakeCode
<1>5. \A d \in Calls : CallGood(call'[d], row', prover', credits')
    <2> TAKE d \in Calls
    <2> DEFINE k == [call[d] EXCEPT !.flag = TRUE]
    <2>1. call'[d] = Idle \/ call'[d] = k \/ call'[d] = call[d]
        BY DEF MakeCode
    <2>2. call[d] \in Call
        BY <1>1 DEF CallGood
    <2>3. k \in Call /\ k.pc = call[d].pc /\ k.to = call[d].to
        BY <2>2 DEF Call
    <2> HIDE DEF k
    <2>4. CallGood(k, row, prover, credits)
        BY <1>1, <2>3 DEF CallGood
    <2>5. CallGood(call'[d], row, prover, credits)
        BY <1>1, <2>1, <2>4, IdleGood
    <2> QED BY <1>2, <2>5
<1> QED BY <1>3, <1>4, <1>5, PartsNext

\* The later statements of the administrators' and the customer's handlers.
LEMMA StepOfficeWrites ==
    ASSUME IInv, NEW c \in Calls,
           \/ SetStatus(c) \/ CancelWrites(c) \/ CreditWallet(c) \/ RefundWrites(c)
           \/ SetRider(c)
    PROVE  IInv'
<1>1. /\ OrderGood /\ JobGood /\ credits \in Nat /\ credits >= credits
      /\ CallGood(call[c], row, prover, credits)
    BY Parts, FulfilmentAssumption DEF OrderGood
<1>2. CASE SetStatus(c)
    <2>1. /\ call[c].pc = "setStatus" /\ status' = call[c].to
          /\ call[c].to \in Overrides \cup {"REFUNDED"}
          /\ bare' = (call[c].to = "REFUNDED" \/ bare)
          /\ UNCHANGED <<rider, row, job, codes, prover, credits>>
        BY <1>1, <1>2 DEF SetStatus, CallGood
    <2>2. status' \in Status /\ status' \notin {"PICKUP_OTP_VERIFIED", "PICKED_UP"}
        BY <2>1 DEF Overrides, Status
    <2>3. OrderGood' /\ JobGood'
        BY <1>1, <2>1, <2>2, JobRecords
           DEF OrderGood, CodeBeforePickup, ClaimedHasRider, RefundedWasCredited
    <2>4. CASE Continue(c, "requeue")
        <3>1. PICK k \in Call : k.pc = "requeue" /\ call' = [call EXCEPT ![c] = k]
            BY <2>4, Continued
        <3>2. CallGood(k, row', prover', credits')
            BY <3>1 DEF CallGood
        <3> QED BY <1>1, <2>1, <2>3, <3>1, <3>2, CallWrites
    <2>5. CASE End(c)
        BY <1>1, <2>1, <2>3, <2>5, IdleGood, CallWrites DEF End
    <2> QED BY <1>2, <2>4, <2>5 DEF SetStatus
<1>3. CASE CancelWrites(c)
    <2>1. /\ status' = "CANCELLED"
          /\ UNCHANGED <<rider, row, job, codes, prover, credits, bare>>
        BY <1>3 DEF CancelWrites, office
    <2>2. OrderGood' /\ JobGood'
        BY <1>1, <2>1, StatusWritten, JobRecords DEF OrderGood, Status
    <2>3. CASE Continue(c, "creditCancelled")
        <3>1. PICK k \in Call : k.pc = "creditCancelled" /\ call' = [call EXCEPT ![c] = k]
            BY <2>3, Continued
        <3>2. CallGood(k, row', prover', credits')
            BY <3>1 DEF CallGood
        <3> QED BY <1>1, <2>1, <2>2, <3>1, <3>2, CallWrites
    <2>4. CASE End(c)
        BY <1>1, <2>1, <2>2, <2>4, IdleGood, CallWrites DEF End
    <2> QED BY <1>3, <2>3, <2>4 DEF CancelWrites
<1>4. CASE CreditWallet(c)
    <2>1. /\ credits < MaxCredits /\ credits' = credits + 1
          /\ UNCHANGED <<status, rider, row, job, codes, prover, bare>>
        BY <1>4 DEF CreditWallet
    <2>2. credits' \in 0 .. MaxCredits /\ credits' > 0 /\ credits' >= credits
        BY <1>1, <2>1, FulfilmentAssumption
    <2>3. OrderGood' /\ JobGood'
        BY <1>1, <2>1, <2>2, JobRecords
           DEF OrderGood, CodeBeforePickup, ClaimedHasRider, RefundedWasCredited
    <2>4. CASE Continue(c, "refunded")
        <3>1. PICK k \in Call : k.pc = "refunded" /\ call' = [call EXCEPT ![c] = k]
            BY <2>4, Continued
        <3>2. CallGood(k, row', prover', credits')
            BY <2>2, <3>1 DEF CallGood
        <3> QED BY <2>1, <2>2, <2>3, <3>1, <3>2, CallWrites
    <2>5. CASE End(c)
        BY <2>1, <2>2, <2>3, <2>5, IdleGood, CallWrites DEF End
    <2> QED BY <1>4, <2>4, <2>5 DEF CreditWallet
<1>5. CASE RefundWrites(c)
    <2>1. /\ call[c].pc = "refunded" /\ status' = "REFUNDED"
          /\ call' = [call EXCEPT ![c] = Idle]
          /\ UNCHANGED <<rider, row, job, codes, prover, credits, bare>>
        BY <1>5 DEF RefundWrites, End, office
    <2>2. credits > 0
        BY <1>1, <2>1 DEF CallGood
    <2>3. OrderGood' /\ JobGood'
        BY <1>1, <2>1, <2>2, JobRecords
           DEF OrderGood, CodeBeforePickup, ClaimedHasRider, RefundedWasCredited, Status
    <2> QED BY <1>1, <2>1, <2>3, IdleGood, CallWrites
<1>6. CASE SetRider(c)
    <2>1. /\ call[c].pc = "setRider" /\ rider' = call[c].to
          /\ call' = [call EXCEPT ![c] = Idle]
          /\ UNCHANGED <<status, row, job, codes, prover, credits, bare>>
        BY <1>6 DEF SetRider, End, office
    <2>2. rider' \in Riders
        BY <1>1, <2>1 DEF CallGood
    <2>3. OrderGood' /\ JobGood'
        BY <1>1, <2>1, <2>2, JobRecords, FulfilmentAssumption
           DEF OrderGood, CodeBeforePickup, ClaimedHasRider, RefundedWasCredited
    <2> QED BY <1>1, <2>1, <2>3, IdleGood, CallWrites
<1> QED BY <1>2, <1>3, <1>4, <1>5, <1>6

-----------------------------------------------------------------------------
(* The theorems *)

\* A step that changes nothing keeps the invariant.
LEMMA StepStutter ==
    ASSUME IInv, UNCHANGED vars
    PROVE  IInv'
BY DEF vars, office, IInv, TypeOK, RowInv, CallInv, CodeBeforePickup, ClaimedHasRider,
       RefundedWasCredited

\* Every step keeps the invariant.
LEMMA InvStep == IInv /\ [Next]_vars => IInv'
<1> SUFFICES ASSUME IInv, [Next]_vars PROVE IInv'
    OBVIOUS
<1>1. CASE UNCHANGED vars
    BY <1>1, StepStutter
<1>2. CASE VendorNext
    BY <1>2, StepPlain, StepTransaction DEF VendorNext
<1>3. CASE JobNext
    BY <1>3, StepJob
<1>4. CASE RiderNext
    BY <1>4, StepBegins, StepTransaction, StepRiderWrites DEF RiderNext
<1>5. CASE OfficeNext
    BY <1>5, StepPlain, StepBegins, StepOfficeWrites DEF OfficeNext
<1>6. ASSUME NEW c \in Calls, Requeue(c) \/ MakeCode(c) \/ Stop(c) PROVE IInv'
    BY <1>6, StepRiderWrites, StepMakeCode
<1> QED BY <1>1, <1>2, <1>3, <1>4, <1>5, <1>6 DEF Next

\* The strengthened invariant of the order, its assignment, the job and the calls.
THEOREM StrengthenedInvariant == Spec => []IInv
BY InvInit, InvStep, PTL DEF Spec

\* Every variable keeps its type.
THEOREM TypeCorrect == Spec => []TypeOK
<1>1. IInv => TypeOK
    BY DEF IInv
<1> QED BY <1>1, StrengthenedInvariant, PTL

\* An order is picked up, or shown as picked up, only after the rider of its
\* assignment had the customer's code accepted.
THEOREM PickupNeedsCode == Spec => []CodeBeforePickup
<1>1. IInv => CodeBeforePickup
    BY DEF IInv
<1> QED BY <1>1, StrengthenedInvariant, PTL

\* A claimed assignment has a rider on the order.
THEOREM ClaimedIsManned == Spec => []ClaimedHasRider
<1>1. IInv => ClaimedHasRider
    BY DEF IInv
<1> QED BY <1>1, StrengthenedInvariant, PTL

\* An order that refundOrder left as REFUNDED was credited.
THEOREM RefundsAreCredited == Spec => []RefundedWasCredited
<1>1. IInv => RefundedWasCredited
    BY DEF IInv
<1> QED BY <1>1, StrengthenedInvariant, PTL

\* The job writes an assignment only on an order that is offerable and free.
THEOREM OffersAreFree == Spec => OffersOnlyFree
<1>1. [Next]_vars =>
         [job' # job /\ row' # row => status \in Offerable /\ rider = Nobody]_vars
    <2> SUFFICES ASSUME Next, job' # job, row' # row
                 PROVE  status \in Offerable /\ rider = Nobody
        BY DEF vars
    <2>1. ~VendorNext
        BY DEF VendorNext, VendorReceives, VendorAccept, VendorPacks
    <2>2. ~RiderNext
        BY DEF RiderNext, RiderAccepts, RiderRejects, VerifyPickup, MarkPickedUp, ChooseCode,
               ConsumeCode, VerifyPickupWrites, MarkPickedUpWrites
    <2>3. ~OfficeNext
        BY DEF OfficeNext, AdminOverrides, AdminAssigns, AdminUpdatesStatus, AdminCancels,
               AdminSetsRider, CustomerCancels, SetStatus, CancelWrites, AdminRefunds,
               CreditWallet, RefundWrites, SetRider
    <2>4. \A c \in Calls : ~Requeue(c) /\ ~MakeCode(c) /\ ~Stop(c)
        BY DEF Requeue, MakeCode, Stop
    <2>5. JobNext
        BY <2>1, <2>2, <2>3, <2>4 DEF Next
    <2>6. JobOffers
        BY <2>5 DEF JobNext, BacklogScan, JobReads, JobSkips, JobInsertFails, JobFails,
                    JobCompletes, FailedJobRemoved
    <2> QED BY <2>6 DEF JobOffers, StillOfferable
<1> QED BY <1>1, PTL DEF Spec, OffersOnlyFree

=============================================================================
