------------------------------- MODULE Ledger -------------------------------
(***************************************************************************)
(* The ledger of one shop: shop_transactions and the transactions that     *)
(* append to it.  The settlement of an order appends its revenue and its   *)
(* commission, a payout its credit; they are jobs of two queues.           *)
(*                                                                         *)
(* created_at is NOW(), the time a transaction began, and the same for all *)
(* its entries; id is a random UUID.  SELECT ... FOR UPDATE chooses its    *)
(* row when the statement starts; when it had to wait for the lock it gets *)
(* the row it chose, for an entry never changes.                           *)
(***************************************************************************)
EXTENDS Integers, Sequences, SequencesExt

CONSTANTS Writers, \* the jobs that append
          Amounts, \* for each of them, the signed amounts of one transaction
          MaxTxs   \* bound on the transactions, for model checking

VARIABLES log,    \* the committed entries, in the order they were committed
          tx,     \* the transaction of each writer
          begun   \* the transactions begun so far: the clock

vars == <<log, tx, begun>>

\* as many ids as a transaction has entries
Longest == Max({Len(Amounts[w]) : w \in Writers})

\* saw is a sequence of at most one entry: what the SELECT chose
NoTx == [open |-> FALSE, at |-> 0, own |-> <<>>, looked |-> FALSE, saw |-> <<>>, locks |-> {}]

Init ==
    /\ log = <<>>
    /\ tx = [w \in Writers |-> NoTx]
    /\ begun = 0

Begin(w) ==
    /\ ~tx[w].open
    /\ begun < MaxTxs
    /\ begun' = begun + 1
    /\ tx' = [tx EXCEPT ![w] = [NoTx EXCEPT !.open = TRUE, !.at = begun + 1]]
    /\ UNCHANGED log

\* the entries that a statement of the transaction sees
Visible(w) == ToSet(log) \cup ToSet(tx[w].own)

\* ORDER BY created_at DESC, id DESC
Later(e, f) == e.at > f.at \/ (e.at = f.at /\ e.id >= f.id)

\* LIMIT 1
Latest(S) == IF S = {} THEN <<>> ELSE <<CHOOSE e \in S : \A f \in S : Later(e, f)>>

\* lockLatestForShop starts
Look(w) ==
    /\ tx[w].open
    /\ ~tx[w].looked
    /\ Len(tx[w].own) < Len(Amounts[w])
    /\ tx' = [tx EXCEPT ![w].looked = TRUE, ![w].saw = Latest(Visible(w))]
    /\ UNCHANGED <<log, begun>>

\* it has its lock, if there was a row to lock, and the entry is inserted
Insert(w, id) ==
    LET balance == IF tx[w].saw = <<>> THEN 0 ELSE tx[w].saw[1].balance
        amount  == Amounts[w][Len(tx[w].own) + 1]
    IN
    /\ tx[w].looked
    /\ \A v \in Writers \ {w} : ToSet(tx[w].saw) \cap tx[v].locks = {}
    /\ \A e \in ToSet(tx[w].own) : e.id # id
    /\ tx' = [tx EXCEPT ![w].looked = FALSE,
                        ![w].saw = <<>>,
                        ![w].locks = @ \cup (ToSet(tx[w].saw) \cap ToSet(log)),
                        ![w].own = Append(@, [at |-> tx[w].at, id |-> id, amount |-> amount,
                                              balance |-> balance + amount])]
    /\ UNCHANGED <<log, begun>>

Commit(w) ==
    /\ tx[w].open
    /\ Len(tx[w].own) = Len(Amounts[w])
    /\ log' = log \o tx[w].own
    /\ tx' = [tx EXCEPT ![w] = NoTx]
    /\ UNCHANGED begun

Rollback(w) ==
    /\ tx[w].open
    /\ tx' = [tx EXCEPT ![w] = NoTx]
    /\ UNCHANGED <<log, begun>>

Next ==
    \E w \in Writers : \/ Begin(w) \/ Look(w) \/ Commit(w) \/ Rollback(w)
                       \/ \E id \in 1 .. Longest : Insert(w, id)

Spec == Init /\ [][Next]_vars

-----------------------------------------------------------------------------
(* Properties *)

SumOf(entries) == FoldSeq(LAMBDA e, sum : e.amount + sum, 0, entries)

\* 035_shop_transactions.sql on balance_after: "the sum of all preceding entries
\* for the Shop", computed under SELECT FOR UPDATE "to prevent concurrent races".
BalanceIsSum ==
    \A i \in DOMAIN log : log[i].balance = SumOf(SubSeq(log, 1, i))

=============================================================================
