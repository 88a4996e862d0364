------------------------------ MODULE Checkout ------------------------------
(***************************************************************************)
(* POST /orders for a cart, and what puts its stock back: placeOrder with  *)
(* the orders of the cart's shops, the customer's and the administrator's  *)
(* cancellation, the auto-reject job.                                      *)
(*                                                                         *)
(* Every item is one unit of one vendor_services row, locked row by row    *)
(* until the transaction ends.  PostgreSQL ends a circle of waiting        *)
(* transactions by aborting one of them.  A row that is not available and  *)
(* a quantity above max_order_qty are refused like a coupon or an address  *)
(* is: no state of the model says when.                                    *)
(***************************************************************************)
EXTENDS Integers, Sequences, FiniteSets, Functions

CONSTANTS NRequests,  \* checkouts that can run
          NUndos,     \* cancellations and jobs that can run
          Customers,
          Cod,        \* the customers who pay on delivery
          Cart,       \* of a customer: the rows, in the order of the cart, which has
                      \* each of them once
          ShopOf,     \* of a row: its shop, numbered in the order of the shops' ids
          SlotOf,     \* the pickup slot a customer asks for
          MaxOrders,  \* of a slot
          Written,    \* what the administrator writes, besides CANCELLED
          Entered,    \* the rows whose stock a vendor enters meanwhile: a bound
          MaxStock,   \* bound on what is entered
          MaxUpdates  \* bound on how often

Requests == 1 .. NRequests
Undos == NRequests + 1 .. NRequests + NUndos
Rows == DOMAIN ShopOf
Shops == Range(ShopOf)
Orders == Requests \X Shops
Procs == Requests \cup Undos

ASSUME CheckoutAssumption ==
    /\ NRequests \in Nat \ {0} /\ NUndos \in Nat
    /\ Customers # {}
    /\ \A c \in Customers : /\ Cart[c] \in Seq(Rows) /\ Cart[c] # <<>>
                            /\ IsInjective(Cart[c])
    /\ ShopOf \in [Rows -> Nat] /\ IsFiniteSet(Rows)
    /\ Written \subseteq {"WAITING_VENDOR_CONFIRMATION", "CONFIRMED"}
    /\ Entered \subseteq Rows
    /\ MaxStock \in Nat /\ MaxUpdates \in Nat

VARIABLES full,     \* the customers with something in their cart
          req,      \* the requests
          stock,    \* stock_quantity of each row
          order,    \* the order a request placed with a shop
          timer,    \* the orders with an auto-reject job
          undo,     \* the cancellations and jobs
          supplied, \* history: what the vendors put into each row
          updates   \* bound counter

vars == <<full, req, stock, order, timer, undo, supplied, updates>>

\* splitCart: the rows of a cart that are of one shop
Items == [c \in Customers |-> [shop \in Shops |-> {p \in Range(Cart[c]) : ShopOf[p] = shop}]]

Wanted == [c \in Customers |-> Range(Cart[c])]

\* mutant: the rows in the order of the cart
CartOrder ==
    {e \in Customers \X Rows \X Rows : \E i, j \in DOMAIN Cart[e[1]] :
        i < j /\ Cart[e[1]][i] = e[2] /\ Cart[e[1]][j] = e[3]}

\* <<c, p, n>>: in the cart of c, p is locked before n.  The shops are taken in the
\* order of their ids, the rows of each as in the cart.
LockOrder ==
    {e \in Customers \X Rows \X Rows : \E i, j \in DOMAIN Cart[e[1]] :
        /\ Cart[e[1]][i] = e[2] /\ Cart[e[1]][j] = e[3]
        /\ \/ ShopOf[e[2]] < ShopOf[e[3]]
           \/ ShopOf[e[2]] = ShopOf[e[3]] /\ i < j}

\* no row was read
Nothing == [p \in Rows |-> 0]

NoRequest == [pc |-> "new", who |-> CHOOSE c \in Customers : TRUE, got |-> {}, seen |-> Nothing]
NoOrder == [status |-> "NONE", restored |-> 0]
NoUndo == [pc |-> "idle", kind |-> "cancel", order |-> CHOOSE o \in Orders : TRUE, got |-> {}]

Done == [NoUndo EXCEPT !.pc = "done"]

TypeOK ==
    /\ full \subseteq Customers
    /\ req \in [Requests -> [pc : {"new", "valid", "locking", "placed", "done"},
                             who : Customers, got : SUBSET Rows, seen : [Rows -> Nat]]]
    /\ stock \in [Rows -> Nat]
    /\ order \in [Orders -> [status : {"NONE", "WAITING_VENDOR_CONFIRMATION", "CONFIRMED",
                                       "CANCELLED", "AUTO_REJECTED"},
                             restored : Nat]]
    /\ timer \subseteq Orders
    /\ undo \in [Undos -> [pc : {"idle", "restoring", "closing", "done"},
                           kind : {"cancel", "job"}, order : Orders, got : SUBSET Rows]]
    /\ supplied \in [Rows -> Int]
    /\ updates \in 0 .. MaxUpdates

Init ==
    /\ full = Customers
    /\ req = [r \in Requests |-> NoRequest]
    /\ stock = [p \in Rows |-> 1]
    /\ order = [o \in Orders |-> NoOrder]
    /\ timer = {}
    /\ undo = [x \in Undos |-> NoUndo]
    /\ supplied = stock
    /\ updates = 0

-----------------------------------------------------------------------------
(* Locks *)

\* whose cart a transaction is about, the rows it will lock and those it has
Buyer(q) == IF q \in Requests THEN req[q].who ELSE req[undo[q].order[1]].who
Plan(q) == IF q \in Requests THEN Wanted[Buyer(q)] ELSE Items[Buyer(q)][undo[q].order[2]]
Holds(q) == IF q \in Requests THEN req[q].got ELSE undo[q].got
Rest(q) == Plan(q) \ Holds(q)

\* the next row, a set of one: the first of those that are left
Locking(q) == IF q \in Requests THEN req[q].pc = "locking" ELSE undo[q].pc = "restoring"
First(c, S) == {p \in S : \A n \in S \ {p} : <<c, p, n>> \in LockOrder}
Wants(q) == IF Locking(q) THEN First(Buyer(q), Rest(q)) ELSE {}
Free(p) == \A q \in Procs : p \notin Holds(q)

WaitsFor(q, h) == q # h /\ Wants(q) \cap Holds(h) # {}

\* transactions each of which waits for the next
Circle(S) == S # {} /\ {h \in Procs : \E q \in S : WaitsFor(q, h)} = S

\* the transactions that wait, and whether one of them waits in a circle
Blocked(q) == \E p \in Wants(q) : ~Free(p)
Waiting == {q \in Procs : Blocked(q)}
Stuck(q) == Blocked(q) /\ \E S \in SUBSET Waiting : q \in S /\ Circle(S)

\* the job has its order's row FOR UPDATE
OrderLocked(o) == \E x \in Undos : undo[x].pc = "restoring" /\ undo[x].kind = "job"
                                   /\ undo[x].order = o

-----------------------------------------------------------------------------
(* placeOrder *)

Goto(r, pc) == req' = [req EXCEPT ![r].pc = pc, ![r].got = {}, ![r].seen = Nothing]

\* validateCart, the address and the coupon: nothing is locked; a request that
\* fails here has changed nothing and may as well not have come
Validate(r, c) ==
    /\ req[r].pc = "new" /\ \A q \in 1 .. r - 1 : req[q].pc # "new"
    /\ c \in full /\ \A p \in Wanted[c] : stock[p] > 0
    /\ req' = [req EXCEPT ![r].pc = "valid", ![r].who = c]
    /\ UNCHANGED <<full, stock, order, timer, undo, supplied, updates>>

\* the orders the count leaves out; CANCELLED is not among them
Closed == {"NONE", "AUTO_REJECTED"}
Booked(s) == {o \in Orders : SlotOf[req[o[1]].who] = s /\ order[o].status \notin Closed}

\* BEGIN, the slot FOR UPDATE, and a place in it
Begin(r) ==
    LET s == SlotOf[req[r].who] IN
    /\ req[r].pc = "valid"
    /\ \A q \in Requests : req[q].pc = "locking" => SlotOf[req[q].who] # s
    /\ Goto(r, IF Cardinality(Booked(s)) < MaxOrders[s] THEN "locking" ELSE "done")
    /\ UNCHANGED <<full, stock, order, timer, undo, supplied, updates>>

\* the rows of the shop last begun are all locked
ShopDone(r) == Holds(r) # {} /\ \A p \in Holds(r), n \in Rest(r) : ShopOf[n] # ShopOf[p]

\* mutant: nothing is too little
NeverShort(r) == FALSE

\* a locked row has too little
Short(r) == \E p \in Holds(r) : req[r].seen[p] < 1

SeeRow(r, p) ==
    req' = [req EXCEPT ![r] = [@ EXCEPT !.got = Holds(r) \cup {p}, !.seen[p] = stock[p]]]

\* mutant: findByIdForUpdate without FOR UPDATE
ReadRow(r) ==
    /\ \E p \in Wants(r) : SeeRow(r, p)
    /\ ~(ShopDone(r) /\ Short(r))
    /\ UNCHANGED <<full, stock, order, timer, undo, supplied, updates>>

\* findByIdForUpdate
LockRow(r) ==
    /\ \E p \in Wants(r) : Free(p) /\ SeeRow(r, p)
    /\ ~(ShopDone(r) /\ Short(r))
    /\ UNCHANGED <<full, stock, order, timer, undo, supplied, updates>>

\* mutant: the transaction of a refused cart is left open
RefuseOpen(r) ==
    /\ req[r].pc = "locking" /\ ShopDone(r)
    /\ req' = [req EXCEPT ![r].pc = "done"]
    /\ UNCHANGED <<full, stock, order, timer, undo, supplied, updates>>

\* a shop's items failed: ROLLBACK, for the shops before it too
Refuse(r) ==
    /\ req[r].pc = "locking" /\ ShopDone(r)
    /\ Goto(r, "done")
    /\ UNCHANGED <<full, stock, order, timer, undo, supplied, updates>>

\* applyStockUpdate of every row with what it was when it was locked, an order
\* for every shop, COMMIT
Place(r) ==
    LET c == req[r].who IN
    /\ req[r].pc = "locking" /\ Rest(r) = {} /\ ~Short(r)
    /\ stock' = [p \in Rows |-> IF p \in Holds(r) THEN req[r].seen[p] - 1 ELSE stock[p]]
    /\ order' = [o \in Orders |-> IF o[1] = r /\ Items[c][o[2]] # {}
                                  THEN [NoOrder EXCEPT !.status = "WAITING_VENDOR_CONFIRMATION"]
                                  ELSE order[o]]
    /\ Goto(r, IF c \in Cod THEN "placed" ELSE "done")
    /\ UNCHANGED <<full, timer, undo, supplied, updates>>

\* the cart of a customer who pays on delivery is cleared, then _queueAutoReject of
\* every order; the errors of each are logged
Finish(r) ==
    /\ req[r].pc = "placed"
    /\ full' \in {full, full \ {req[r].who}}
    /\ \E queued \in BOOLEAN :
           timer' = timer \cup {o \in Orders : queued /\ o[1] = r /\ order[o].status # "NONE"}
    /\ Goto(r, "done")
    /\ UNCHANGED <<stock, order, undo, supplied, updates>>

\* the process dies, or an error is thrown; an open transaction is rolled back
Die(r) ==
    /\ req[r].pc \notin {"new", "done"}
    /\ Goto(r, "done")
    /\ UNCHANGED <<full, stock, order, timer, undo, supplied, updates>>

-----------------------------------------------------------------------------
(* Stock comes back *)

Idle(x) == undo[x].pc = "idle" /\ \A y \in NRequests + 1 .. x - 1 : undo[y].pc # "idle"

StartUndo(x, kind, o) ==
    undo' = [undo EXCEPT ![x] = [pc |-> "restoring", kind |-> kind, order |-> o, got |-> {}]]

\* the customer's cancel of a CONFIRMED order, or the administrator's of any; the
\* status was read without a lock
StartCancel(x, o, byAdmin) ==
    /\ Idle(x)
    /\ order[o].status # "NONE"
    /\ byAdmin \/ order[o].status = "CONFIRMED"
    /\ StartUndo(x, "cancel", o)
    /\ UNCHANGED <<full, req, stock, order, timer, supplied, updates>>

\* handleAutoReject has its order FOR UPDATE
StartAutoReject(x, o) ==
    /\ Idle(x)
    /\ o \in timer
    /\ timer' = timer \ {o}
    /\ ~OrderLocked(o)
    /\ IF order[o].status = "WAITING_VENDOR_CONFIRMATION" THEN StartUndo(x, "job", o)
       ELSE UNCHANGED undo
    /\ UNCHANGED <<full, req, stock, order, supplied, updates>>

RestoreRow(x) ==
    /\ \E p \in Wants(x) : Free(p) /\ undo' = [undo EXCEPT ![x].got = @ \cup {p}]
    /\ UNCHANGED <<full, req, stock, order, timer, supplied, updates>>

\* COMMIT of restoreStock, which adds; the job's sets the status with it
CommitRestore(x) ==
    LET job == undo[x].kind = "job"
        o   == undo[x].order
    IN
    /\ undo[x].pc = "restoring" /\ Rest(x) = {}
    /\ stock' = [p \in Rows |-> IF p \in Holds(x) THEN stock[p] + 1 ELSE stock[p]]
    /\ order' = [order EXCEPT ![o].restored = @ + 1,
                              ![o].status = IF job THEN "AUTO_REJECTED" ELSE @]
    /\ undo' = [undo EXCEPT ![x] = IF job THEN Done ELSE [@ EXCEPT !.pc = "closing", !.got = {}]]
    /\ UNCHANGED <<full, req, timer, supplied, updates>>

\* updateStatus, whatever the status is by now
Cancelled(x) ==
    /\ undo[x].pc = "closing"
    /\ ~OrderLocked(undo[x].order)
    /\ order' = [order EXCEPT ![undo[x].order].status = "CANCELLED"]
    /\ undo' = [undo EXCEPT ![x] = Done]
    /\ UNCHANGED <<full, req, stock, timer, supplied, updates>>

\* the process dies: an open transaction is rolled back, a job is run again
DieUndoing(x) ==
    /\ undo[x].pc \in {"restoring", "closing"}
    /\ undo' = [undo EXCEPT ![x] = Done]
    /\ timer' = IF undo[x].kind = "job" THEN timer \cup {undo[x].order} ELSE timer
    /\ UNCHANGED <<full, req, stock, order, supplied, updates>>

\* adminUpdateStatus, whatever the status was
SetStatus(o, status) ==
    /\ order[o].status \notin {"NONE", status}
    /\ ~OrderLocked(o)
    /\ order' = [order EXCEPT ![o].status = status]
    /\ UNCHANGED <<full, req, stock, timer, undo, supplied, updates>>

\* a vendor's updateStock, in a transaction of one row
UpdateStock(p, n) ==
    /\ Free(p)
    /\ updates < MaxUpdates /\ n # stock[p]
    /\ updates' = updates + 1
    /\ stock' = [stock EXCEPT ![p] = n]
    /\ supplied' = [supplied EXCEPT ![p] = @ + n - stock[p]]
    /\ UNCHANGED <<full, req, order, timer, undo>>

\* mutant: as the log line has it, the stock is skipped and the rejection kept
AbortJobCommits(q) ==
    /\ Stuck(q)
    /\ IF q \in Requests
       THEN Goto(q, "done") /\ UNCHANGED <<undo, order>>
       ELSE /\ undo' = [undo EXCEPT ![q] = Done]
            /\ order' = IF undo[q].kind = "job"
                        THEN [order EXCEPT ![undo[q].order].status = "AUTO_REJECTED"]
                        ELSE order
            /\ UNCHANGED req
    /\ UNCHANGED <<full, stock, timer, supplied, updates>>

\* deadlock detected: placeOrder answers ORDER_FAILED, a cancellation logs it and
\* closes the order all the same, the job's COMMIT is a rollback and it answers
Abort(q) ==
    /\ Stuck(q)
    /\ IF q \in Requests
       THEN Goto(q, "done") /\ UNCHANGED undo
       ELSE /\ undo' = [undo EXCEPT ![q] = IF @.kind = "job" THEN Done
                                           ELSE [@ EXCEPT !.pc = "closing", !.got = {}]]
            /\ UNCHANGED req
    /\ UNCHANGED <<full, stock, order, timer, supplied, updates>>

-----------------------------------------------------------------------------
RequestStep(r) ==
    \/ Begin(r) \/ LockRow(r) \/ Refuse(r) \/ Place(r) \/ Finish(r)

UndoStep(x) == RestoreRow(x) \/ CommitRestore(x) \/ Cancelled(x)

\* requests and cancellations that can go on do, and PostgreSQL finds deadlocks
Work == \/ \E r \in Requests : RequestStep(r)
        \/ \E x \in Undos : UndoStep(x)
        \/ \E q \in Procs : Abort(q)

Next ==
    \/ Work
    \/ \E r \in Requests : Die(r) \/ \E c \in Customers : Validate(r, c)
    \/ \E x \in Undos, o \in Orders : \/ StartAutoReject(x, o)
                                      \/ \E byAdmin \in BOOLEAN : StartCancel(x, o, byAdmin)
    \/ \E x \in Undos : DieUndoing(x)
    \/ \E o \in Orders, status \in Written : SetStatus(o, status)
    \/ \E p \in Entered, n \in 0 .. MaxStock : UpdateStock(p, n)

Spec == Init /\ [][Next]_vars

Fairness == WF_vars(Work)

FairSpec == Spec /\ Fairness

-----------------------------------------------------------------------------
(* Properties *)

\* the orders of a row
OrdersOf(p) == {o \in Orders : /\ order[o].status # "NONE"
                               /\ p \in Items[req[o[1]].who][o[2]]}

\* a row is locked by one transaction
LocksExclusive == \A q, h \in Procs : Holds(q) \cap Holds(h) # {} => q = h

\* locks are of open transactions and of what these are about
LocksKnown ==
    /\ \A r \in Requests : req[r].pc # "locking" => req[r].got = {}
    /\ \A x \in Undos : undo[x].pc # "restoring" => undo[x].got = {}
    /\ \A q \in Procs : Holds(q) \subseteq Plan(q)

\* what a checkout read of a row it has locked is what the row has
SeenIsCurrent == \A r \in Requests : \A p \in Holds(r) : req[r].seen[p] = stock[p]

\* no transaction goes back to a shop before the one it is at
ShopsInOrder ==
    \A q \in Procs : \A p \in Holds(q), n \in Rest(q) : Locking(q) => ShopOf[p] <= ShopOf[n]

\* orders are of checkouts that committed, and cancellations of orders
OrdersKnown ==
    /\ \A o \in Orders : order[o].status # "NONE" =>
           req[o[1]].pc \in {"placed", "done"} /\ Items[req[o[1]].who][o[2]] # {}
    /\ \A x \in Undos : undo[x].pc \in {"restoring", "closing"} =>
           order[undo[x].order].status # "NONE"

\* No unit is lost or made up between checkouts that write what they computed
\* and cancellations that add: what is on the shelf is what the vendors put
\* there, less one for every order of it, plus one for every time its stock was
\* restored.
StockConserved ==
    \A p \in Rows :
        stock[p] = supplied[p] + SumFunctionOnSet([o \in Orders |-> order[o].restored - 1],
                                                  OrdersOf(p))

\* Shops are locked in one order: transactions that wait for each other in a
\* circle all wait for rows of one shop.
CircleInOneShop ==
    \A S \in SUBSET Waiting : Circle(S) =>
        \A q, h \in S : WaitsFor(q, h) =>
            \A p \in Wants(q), n \in Wants(h) : ShopOf[p] = ShopOf[n]

\* The job gives the stock back with the rejection or does neither, although it
\* catches the errors of restoreStock and goes on to COMMIT.
AutoRejectedRestored ==
    \A o \in Orders : order[o].status = "AUTO_REJECTED" => order[o].restored > 0

\* The inductive invariant.
IInv == /\ TypeOK /\ LocksExclusive /\ LocksKnown /\ SeenIsCurrent /\ ShopsInOrder
        /\ OrdersKnown /\ StockConserved /\ AutoRejectedRestored

\* Every checkout is answered, refused rows, full slots and deadlocks included,
\* or its process dies; every cancellation and every job comes to its end.
CallsAnswer ==
    /\ \A r \in Requests : req[r].pc = "valid" ~> req[r].pc = "done"
    /\ \A x \in Undos : undo[x].pc = "restoring" ~> undo[x].pc = "done"

=============================================================================
