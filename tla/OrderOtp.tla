------------------------------ MODULE OrderOtp ------------------------------
(***************************************************************************)
(* The one-time codes of one order and one purpose: generateOtp, verifyOtp *)
(* and what getActiveOtpForCustomer shows.                                 *)
(*                                                                         *)
(* No transaction is around any of them: every statement commits by        *)
(* itself, the plain code is kept in Redis beside the rows, and the vendor *)
(* and the rider may both cause a generation.  A call is cut between its   *)
(* statements and may stop at each of them.  Codes are numbered in the     *)
(* order of their rows.                                                    *)
(***************************************************************************)
EXTENDS Naturals, Sequences

CONSTANTS Generators,  \* generateOtp calls that can run at the same time
          Checkers,    \* verifyOtp calls that can run at the same time
          MaxAttempts, \* failures after which a code is locked (5 in the code)
          MaxCodes     \* bound on the rows, for model checking

ASSUME OrderOtpAssumption ==
    /\ MaxAttempts \in Nat \ {0}
    /\ MaxCodes \in Nat

VARIABLES rows,     \* the order_otps rows, oldest first
          shown,    \* the code in Redis, 0 if there is none
          gen,      \* the generateOtp calls
          check,    \* the verifyOtp calls
          genRaced,   \* history: a generation met another one, or stopped half-way
          checkRaced  \* history: two verifications of one row met

vars == <<rows, shown, gen, check, genRaced, checkRaced>>

Ids == 1 .. MaxCodes

\* history: failed and accepted count the answers, before the rows there were
\* when this code's generation retired the old ones
Row == [used : BOOLEAN, expired : BOOLEAN, attempts : 0 .. MaxAttempts,
        failed : Nat, accepted : Nat, before : 0 .. MaxCodes]

Gen == [pc : {"idle", "insert", "show"}, n : 0 .. MaxCodes]

Check == [pc : {"idle", "right", "wrong", "clear"},
          code : 0 .. MaxCodes, attempts : 0 .. MaxAttempts]

NoGen == [pc |-> "idle", n |-> 0]
NoCheck == [pc |-> "idle", code |-> 0, attempts |-> 0]

TypeOK ==
    /\ rows \in Seq(Row) /\ Len(rows) <= MaxCodes
    /\ shown \in 0 .. Len(rows)
    /\ gen \in [Generators -> Gen]
    /\ check \in [Checkers -> Check]
    /\ genRaced \in BOOLEAN
    /\ checkRaced \in BOOLEAN

Init ==
    /\ rows = <<>>
    /\ shown = 0
    /\ gen = [g \in Generators |-> NoGen]
    /\ check = [v \in Checkers |-> NoCheck]
    /\ genRaced = FALSE
    /\ checkRaced = FALSE

Unused == {i \in DOMAIN rows : ~rows[i].used}

\* ORDER BY created_at DESC LIMIT 1; 0 if there is none
Newest == IF Unused = {} THEN 0
          ELSE CHOOSE i \in Unused : \A j \in Unused : j <= i

-----------------------------------------------------------------------------
(* generateOtp *)

\* mutant: the code that Redis has is retired
RetireShown(g) ==
    /\ gen[g] = NoGen
    /\ gen' = [gen EXCEPT ![g] = [pc |-> "insert", n |-> Len(rows)]]
    /\ rows' = [i \in DOMAIN rows |->
                  [rows[i] EXCEPT !.used = (i = shown) \/ rows[i].used]]
    /\ genRaced' = (genRaced \/ \E h \in Generators : gen[h] # NoGen)
    /\ UNCHANGED <<shown, check, checkRaced>>

RetireCodes(g) ==
    /\ gen[g] = NoGen
    /\ gen' = [gen EXCEPT ![g] = [pc |-> "insert", n |-> Len(rows)]]
    /\ rows' = [i \in DOMAIN rows |-> [rows[i] EXCEPT !.used = TRUE]]
    /\ genRaced' = (genRaced \/ \E h \in Generators : gen[h] # NoGen)
    /\ UNCHANGED <<shown, check, checkRaced>>

InsertCode(g) ==
    /\ gen[g].pc = "insert"
    /\ Len(rows) < MaxCodes
    /\ rows' = Append(rows, [used |-> FALSE, expired |-> FALSE, attempts |-> 0,
                             failed |-> 0, accepted |-> 0, before |-> gen[g].n])
    /\ gen' = [gen EXCEPT ![g] = [pc |-> "show", n |-> Len(rows) + 1]]
    /\ UNCHANGED <<shown, check, genRaced, checkRaced>>

\* mutant: SET with NX, an older code stays
ShowOnce(g) ==
    /\ gen[g].pc = "show"
    /\ shown' = IF shown = 0 THEN gen[g].n ELSE shown
    /\ gen' = [gen EXCEPT ![g] = NoGen]
    /\ UNCHANGED <<rows, check, genRaced, checkRaced>>

ShowCode(g) ==
    /\ gen[g].pc = "show"
    /\ shown' = gen[g].n
    /\ gen' = [gen EXCEPT ![g] = NoGen]
    /\ UNCHANGED <<rows, check, genRaced, checkRaced>>

StopGenerating(g) ==
    /\ gen[g] # NoGen
    /\ gen' = [gen EXCEPT ![g] = NoGen]
    /\ genRaced' = TRUE
    /\ UNCHANGED <<rows, shown, check, checkRaced>>

-----------------------------------------------------------------------------
(* verifyOtp *)

\* mutant: a locked row is compared with
CheckCodeLocked(v, right) ==
    LET i == Newest IN
    /\ check[v] = NoCheck
    /\ i # 0
    /\ ~rows[i].expired
    /\ check' = [check EXCEPT ![v] = [pc |-> IF right THEN "right" ELSE "wrong",
                                      code |-> i, attempts |-> rows[i].attempts]]
    /\ checkRaced' = (checkRaced \/ \E w \in Checkers : check[w].code = i)
    /\ UNCHANGED <<rows, shown, gen, genRaced>>

\* the newest row is read and the rider's code compared with it; a missing,
\* expired or locked row ends the call here
CheckCode(v, right) ==
    LET i == Newest IN
    /\ check[v] = NoCheck
    /\ i # 0
    /\ ~rows[i].expired
    /\ rows[i].attempts < MaxAttempts
    /\ check' = [check EXCEPT ![v] = [pc |-> IF right THEN "right" ELSE "wrong",
                                      code |-> i, attempts |-> rows[i].attempts]]
    /\ checkRaced' = (checkRaced \/ \E w \in Checkers : check[w].code = i)
    /\ UNCHANGED <<rows, shown, gen, genRaced>>

UseCode(v) ==
    /\ check[v].pc = "right"
    /\ rows' = [rows EXCEPT ![check[v].code].used = TRUE, ![check[v].code].accepted = @ + 1]
    /\ check' = [check EXCEPT ![v].pc = "clear"]
    /\ UNCHANGED <<shown, gen, genRaced, checkRaced>>

\* mutant: only a locked row gets its count
CountFailureOnLock(v) ==
    LET n == check[v].attempts + 1 IN
    /\ check[v].pc = "wrong"
    /\ rows' = [rows EXCEPT ![check[v].code].attempts = IF n = MaxAttempts THEN n ELSE @,
                            ![check[v].code].failed = @ + 1]
    /\ check' = [check EXCEPT ![v] = IF n = MaxAttempts THEN [@ EXCEPT !.pc = "clear"] ELSE NoCheck]
    /\ UNCHANGED <<shown, gen, genRaced, checkRaced>>

\* the count that was read, and one
CountFailure(v) ==
    LET n == check[v].attempts + 1 IN
    /\ check[v].pc = "wrong"
    /\ rows' = [rows EXCEPT ![check[v].code].attempts = n, ![check[v].code].failed = @ + 1]
    /\ check' = [check EXCEPT ![v] = IF n = MaxAttempts THEN [@ EXCEPT !.pc = "clear"] ELSE NoCheck]
    /\ UNCHANGED <<shown, gen, genRaced, checkRaced>>

\* redis.del after a code was accepted or locked
ClearShown(v) ==
    /\ check[v].pc = "clear"
    /\ shown' = 0
    /\ check' = [check EXCEPT ![v] = NoCheck]
    /\ UNCHANGED <<rows, gen, genRaced, checkRaced>>

StopChecking(v) ==
    /\ check[v] # NoCheck
    /\ check' = [check EXCEPT ![v] = NoCheck]
    /\ UNCHANGED <<rows, shown, gen, genRaced, checkRaced>>

-----------------------------------------------------------------------------
(* Twenty-four hours *)

RowExpires(i) ==
    /\ ~rows[i].expired
    /\ rows' = [rows EXCEPT ![i].expired = TRUE]
    /\ UNCHANGED <<shown, gen, check, genRaced, checkRaced>>

\* the plain code was set after expires_at was computed, and lasts longer
ShownExpires ==
    /\ shown # 0
    /\ rows[shown].expired
    /\ shown' = 0
    /\ UNCHANGED <<rows, gen, check, genRaced, checkRaced>>

-----------------------------------------------------------------------------
Next ==
    \/ \E g \in Generators : RetireCodes(g) \/ InsertCode(g) \/ ShowCode(g) \/ StopGenerating(g)
    \/ \E v \in Checkers : \/ \E right \in BOOLEAN : CheckCode(v, right)
                           \/ UseCode(v) \/ CountFailure(v) \/ ClearShown(v) \/ StopChecking(v)
    \/ \E i \in DOMAIN rows : RowExpires(i)
    \/ ShownExpires

Spec == Init /\ [][Next]_vars

-----------------------------------------------------------------------------
(* Properties *)

\* what getActiveOtpForCustomer answers
CustomerSees == IF Newest = 0 \/ rows[Newest].expired THEN 0 ELSE shown

\* However calls meet, a code that was there when a generation began is never
\* active beside the generation's own: a rider cannot use it by the newer one
\* being consumed first.
OldCodesRetired ==
    \A j \in DOMAIN rows : \A i \in 1 .. rows[j].before : rows[i].used

\* Generations that ran to their end one after the other leave the customer
\* with the very code that verifyOtp compares with, or with none, whatever
\* verifications ran in between; a code that expired or was used is not shown.
ShownCodeWorks ==
    ~genRaced /\ (\A g \in Generators : gen[g] = NoGen) => CustomerSees \in {0, Newest}

\* While no two verifications of a row met, every failure of it was counted,
\* no code was accepted twice, and none after its last attempt.
AnswersCounted ==
    ~checkRaced =>
        \A i \in DOMAIN rows :
            /\ rows[i].failed = rows[i].attempts
            /\ rows[i].accepted <= 1

-----------------------------------------------------------------------------
(* The inductive invariant: what the calls under way know of the rows *)

\* A generation read rows that were all there and retired those it counted; a
\* code was inserted after the ones it retired.
RetiredAreUsed ==
    /\ \A g \in Generators :
          /\ gen[g].n <= Len(rows)
          /\ gen[g].pc = "insert" => \A i \in 1 .. gen[g].n : rows[i].used
    /\ \A j \in DOMAIN rows :
          /\ rows[j].before < j
          /\ \A i \in 1 .. rows[j].before : rows[i].used

\* A verification under way has read a row, and a failing one had an attempt left.
ChecksKnown ==
    \A v \in Checkers :
        /\ check[v].code <= Len(rows)
        /\ check[v].pc # "idle" => check[v].code # 0
        /\ check[v].pc = "wrong" => check[v].attempts < MaxAttempts

\* While generations come one after the other, only the last row can be
\* unused, and what is shown between two of them is that row's code or none.
GeneratedAlone ==
    ~genRaced =>
        /\ \A g, h \in Generators : gen[g] # NoGen /\ gen[h] # NoGen => g = h
        /\ \A g \in Generators :
              /\ gen[g] # NoGen => gen[g].n = Len(rows)
              /\ gen[g].pc = "insert" => \A i \in DOMAIN rows : rows[i].used
        /\ \A i \in DOMAIN rows : ~rows[i].used => i = Len(rows)
        /\ (\A g \in Generators : gen[g] = NoGen) => shown \in {0, Len(rows)}

\* While verifications of a row come one after the other, the one under way
\* knows its row's count, and the row was not accepted yet.
CheckedAlone ==
    ~checkRaced =>
        /\ \A v, w \in Checkers : check[v].code # 0 /\ check[v].code = check[w].code => v = w
        /\ \A v \in Checkers :
              check[v].pc \in {"right", "wrong"} =>
                  /\ rows[check[v].code].attempts = check[v].attempts
                  /\ rows[check[v].code].accepted = 0
        /\ \A i \in DOMAIN rows :
              /\ rows[i].failed = rows[i].attempts
              /\ rows[i].accepted <= 1
              /\ ~rows[i].used => rows[i].accepted = 0

IInv == TypeOK /\ RetiredAreUsed /\ ChecksKnown /\ GeneratedAlone /\ CheckedAlone

=============================================================================
