-------------------------- MODULE OrderOtpProofs --------------------------
(***************************************************************************)
(* Proofs about OrderOtp, for every set of calls, limit of attempts and    *)
(* number of codes.                                                        *)
(***************************************************************************)
EXTENDS OrderOtp, SequenceTheorems, WellFoundedInduction, TLAPS

-----------------------------------------------------------------------------
(* Rows as a sequence *)

\* What the type of the rows says of each of them.
LEMMA RowKnown ==
    ASSUME TypeOK
    PROVE  /\ Len(rows) \in Nat /\ Len(rows) <= MaxCodes
           /\ DOMAIN rows = 1 .. Len(rows)
           /\ rows = [i \in 1 .. Len(rows) |-> rows[i]]
           /\ \A i \in 1 .. Len(rows) :
                 /\ rows[i] \in Row
                 /\ rows[i].used \in BOOLEAN
                 /\ rows[i].attempts \in 0 .. MaxAttempts
                 /\ rows[i].failed \in Nat
                 /\ rows[i].accepted \in Nat
                 /\ rows[i].before \in 0 .. MaxCodes
<1>1. rows \in [1 .. Len(rows) -> Row] /\ Len(rows) \in Nat /\ DOMAIN rows = 1 .. Len(rows)
    BY LenProperties DEF TypeOK
<1> QED BY <1>1 DEF TypeOK, Row

\* What the types of the calls say of each of them.
LEMMA CallKnown ==
    ASSUME TypeOK
    PROVE  /\ gen = [g \in Generators |-> gen[g]]
           /\ check = [v \in Checkers |-> check[v]]
           /\ \A g \in Generators : gen[g] \in Gen /\ gen[g].n \in 0 .. MaxCodes
           /\ \A v \in Checkers : /\ check[v] \in Check
                                  /\ check[v].code \in 0 .. MaxCodes
                                  /\ check[v].attempts \in 0 .. MaxAttempts
BY DEF TypeOK, Gen, Check

LEMMA NoCalls ==
    /\ NoGen \in Gen /\ NoGen.pc = "idle" /\ NoGen.n = 0
    /\ NoCheck \in Check /\ NoCheck.pc = "idle" /\ NoCheck.code = 0
<1>1. 0 \in 0 .. MaxCodes /\ 0 \in 0 .. MaxAttempts
    BY OrderOtpAssumption
<1> QED BY <1>1 DEF NoGen, NoCheck, Gen, Check

\* A set of naturals that has an element has a least one.
LEMMA LeastNatural ==
    ASSUME NEW T, T \subseteq Nat, T # {}
    PROVE  \E x \in T : \A y \in T : x <= y
<1> DEFINE R == {ss \in Nat \X Nat : ss[1] < ss[2]}
<1>1. R = OpToRel(<, Nat)
    BY DEF OpToRel
<1>2. IsWellFoundedOn(R, Nat)
    BY <1>1, NatLessThanWellFounded
<1>3. \A y, x \in Nat : y < x => <<y, x>> \in R
    OBVIOUS
<1> HIDE DEF R
<1>4. \E x \in T : \A y \in T : ~(<<y, x>> \in R)
    BY <1>2, WFMin
<1>5. \A y, x \in T : y < x \/ x <= y
    OBVIOUS
<1> QED BY <1>3, <1>4, <1>5

\* The newest unused row is an unused row, and no unused row is after it.
LEMMA NewestIsLast ==
    ASSUME TypeOK
    PROVE  \/ Newest = 0 /\ \A j \in 1 .. Len(rows) : rows[j].used
           \/ /\ Newest \in 1 .. Len(rows)
              /\ ~rows[Newest].used
              /\ \A j \in 1 .. Len(rows) : ~rows[j].used => j <= Newest
<1>1. CASE Unused = {}
    BY <1>1, RowKnown DEF Newest, Unused
<1>2. CASE Unused # {}
    <2> DEFINE T == {d \in Nat : \E i \in Unused : d = Len(rows) - i}
    <2>1. Len(rows) \in Nat /\ Unused \subseteq 1 .. Len(rows)
        BY RowKnown DEF Unused
    <2>2. T # {}
        <3>1. PICK i \in Unused : TRUE
            BY <1>2
        <3>2. Len(rows) - i \in Nat
            BY <2>1
        <3>3. Len(rows) - i \in T
            BY <3>2
        <3> QED BY <3>3
    <2>a. \A i \in Unused : Len(rows) - i \in T
        BY <2>1
    <2>b. \A x \in T : \E i \in Unused : x = Len(rows) - i
        OBVIOUS
    <2>c. T \subseteq Nat
        OBVIOUS
    <2> HIDE DEF T
    <2>3. \E x \in T : \A y \in T : x <= y
        BY <2>2, <2>c, LeastNatural
    <2>4. \E i \in Unused : \A j \in Unused : Len(rows) - i <= Len(rows) - j
        BY <2>3, <2>a, <2>b
    <2>5. \E i \in Unused : \A j \in Unused : j <= i
        BY <2>1, <2>4
    <2>6. Newest \in Unused /\ \A j \in Unused : j <= Newest
        BY <1>2, <2>5 DEF Newest
    <2> QED BY <2>6, RowKnown DEF Unused
<1> QED BY <1>1, <1>2

\* One row is written: it stays a sequence of rows, as long as before.
LEMMA RowWritten ==
    ASSUME TypeOK, NEW c \in 1 .. Len(rows), NEW row \in Row,
           rows' = [rows EXCEPT ![c] = row]
    PROVE  /\ rows' \in Seq(Row) /\ Len(rows') = Len(rows)
           /\ DOMAIN rows' = 1 .. Len(rows)
           /\ \A j \in 1 .. Len(rows) : rows'[j] = IF j = c THEN row ELSE rows[j]
<1>1. rows \in Seq(Row)
    BY DEF TypeOK
<1> QED BY <1>1, ExceptSeq, LenProperties

\* What an answer does to a row.
LEMMA RowAnswered ==
    ASSUME NEW r \in Row
    PROVE  /\ LET s == [r EXCEPT !.used = TRUE, !.accepted = @ + 1]
              IN  /\ s \in Row /\ s.used /\ s.before = r.before
                  /\ s.accepted = r.accepted + 1
                  /\ s.failed = r.failed /\ s.attempts = r.attempts
           /\ \A n \in 0 .. MaxAttempts :
                 LET s == [r EXCEPT !.attempts = n, !.failed = @ + 1]
                 IN  /\ s \in Row /\ s.used = r.used /\ s.before = r.before
                     /\ s.accepted = r.accepted
                     /\ s.failed = r.failed + 1 /\ s.attempts = n
<1>1. r.accepted + 1 \in Nat /\ r.failed + 1 \in Nat
    BY DEF Row
<1> QED BY <1>1 DEF Row

\* Every row is marked used: only that changes.
LEMMA RowsRetired ==
    ASSUME TypeOK, rows' = [i \in DOMAIN rows |-> [rows[i] EXCEPT !.used = TRUE]]
    PROVE  /\ rows' \in Seq(Row) /\ Len(rows') = Len(rows)
           /\ DOMAIN rows' = 1 .. Len(rows)
           /\ \A j \in 1 .. Len(rows) :
                 /\ rows'[j].used
                 /\ rows'[j].attempts = rows[j].attempts
                 /\ rows'[j].failed = rows[j].failed
                 /\ rows'[j].accepted = rows[j].accepted
                 /\ rows'[j].before = rows[j].before
<1>1. \A j \in 1 .. Len(rows) :
         /\ rows'[j] = [rows[j] EXCEPT !.used = TRUE]
         /\ rows[j] \in Row
    BY RowKnown
<1>2. \A r \in Row : /\ [r EXCEPT !.used = TRUE] \in Row
                     /\ [r EXCEPT !.used = TRUE].used
                     /\ [r EXCEPT !.used = TRUE].attempts = r.attempts
                     /\ [r EXCEPT !.used = TRUE].failed = r.failed
                     /\ [r EXCEPT !.used = TRUE].accepted = r.accepted
                     /\ [r EXCEPT !.used = TRUE].before = r.before
    BY DEF Row
<1>3. rows' \in [1 .. Len(rows) -> Row] /\ Len(rows) \in Nat
    BY <1>1, <1>2, RowKnown
<1>4. rows' \in Seq(Row)
    BY <1>3, SeqDef
<1>5. DOMAIN rows' = 1 .. Len(rows) /\ Len(rows') \in Nat /\ DOMAIN rows' = 1 .. Len(rows')
    BY <1>3, <1>4, LenProperties
<1>6. Len(rows') = Len(rows)
    BY <1>3, <1>5
<1> QED BY <1>1, <1>2, <1>4, <1>5, <1>6

-----------------------------------------------------------------------------
\* The initial state has no row and no call.
LEMMA InvInit == Init => IInv
<1> SUFFICES ASSUME Init PROVE IInv
    OBVIOUS
<1>1. rows = <<>> /\ rows \in Seq(Row) /\ Len(rows) = 0 /\ DOMAIN rows = {}
    BY EmptySeq DEF Init
<1>2. TypeOK
    <2>1. shown \in 0 .. Len(rows) /\ Len(rows) <= MaxCodes
        BY <1>1, OrderOtpAssumption DEF Init
    <2> QED BY <1>1, <2>1, NoCalls DEF Init, TypeOK
<1>3. RetiredAreUsed /\ ChecksKnown
    BY <1>1, NoCalls DEF Init, RetiredAreUsed, ChecksKnown
<1>4. GeneratedAlone /\ CheckedAlone
    BY <1>1, NoCalls DEF Init, GeneratedAlone, CheckedAlone
<1> QED BY <1>2, <1>3, <1>4 DEF IInv

-----------------------------------------------------------------------------
(* The steps of generateOtp *)

\* All rows become used: what was retired stays so, and a generation that is
\* alone has counted every row.
LEMMA RetireStep ==
    ASSUME IInv, NEW g \in Generators, RetireCodes(g)
    PROVE  IInv'
<1> DEFINE k == [pc |-> "insert", n |-> Len(rows)]
<1>1. k \in Gen /\ k.pc = "insert" /\ k.n = Len(rows)
    BY RowKnown DEF IInv, Gen
<1>2. gen' = [gen EXCEPT ![g] = k] /\ gen[g] = NoGen /\ k # NoGen
    BY NoCalls DEF RetireCodes
<1>3. genRaced' = (genRaced \/ \E h \in Generators : gen[h] # NoGen)
    BY DEF RetireCodes
<1>4. UNCHANGED <<shown, check, checkRaced>>
    BY DEF RetireCodes
<1>5. /\ rows' \in Seq(Row) /\ Len(rows') = Len(rows)
      /\ DOMAIN rows' = 1 .. Len(rows)
      /\ \A j \in 1 .. Len(rows) :
            /\ rows'[j].used
            /\ rows'[j].attempts = rows[j].attempts
            /\ rows'[j].failed = rows[j].failed
            /\ rows'[j].accepted = rows[j].accepted
            /\ rows'[j].before = rows[j].before
    BY RowsRetired DEF RetireCodes, IInv
<1>6. \A h \in Generators : gen'[h] = IF h = g THEN k ELSE gen[h]
    BY <1>2, CallKnown DEF IInv
<1> HIDE DEF k
<1>7. TypeOK'
    BY <1>1, <1>2, <1>3, <1>4, <1>5 DEF IInv, TypeOK
<1>8. RetiredAreUsed'
    BY <1>1, <1>5, <1>6, RowKnown, CallKnown DEF IInv, RetiredAreUsed
<1>9. ChecksKnown'
    BY <1>4, <1>5 DEF IInv, ChecksKnown
<1>10. GeneratedAlone'
    <2> SUFFICES ASSUME ~genRaced, \A h \in Generators : gen[h] = NoGen
                 PROVE  GeneratedAlone'
        BY <1>3 DEF GeneratedAlone
    <2>1. \A h \in Generators : h # g => gen'[h] = NoGen /\ NoGen.pc # "insert"
        BY <1>6, NoCalls
    <2>2. gen'[g] # NoGen /\ gen'[g].n = Len(rows') /\ \A i \in DOMAIN rows' : rows'[i].used
        BY <1>1, <1>2, <1>5, <1>6
    <2> QED BY <2>1, <2>2 DEF GeneratedAlone
<1>11. CheckedAlone'
    BY <1>4, <1>5, RowKnown, CallKnown DEF IInv, CheckedAlone, ChecksKnown
<1> QED BY <1>7, <1>8, <1>9, <1>10, <1>11 DEF IInv

\* The new row is the last one, and the rows its generation counted are used.
LEMMA InsertStep ==
    ASSUME IInv, NEW g \in Generators, InsertCode(g)
    PROVE  IInv'
<1> DEFINE k == [pc |-> "show", n |-> Len(rows) + 1]
<1> DEFINE row == [used |-> FALSE, expired |-> FALSE, attempts |-> 0,
                   failed |-> 0, accepted |-> 0, before |-> gen[g].n]
<1>1. /\ k \in Gen /\ k.pc = "show" /\ k.n = Len(rows) + 1
      /\ Len(rows) + 1 \in 1 .. MaxCodes
    BY RowKnown, OrderOtpAssumption DEF IInv, InsertCode, Gen
<1>2. /\ row \in Row /\ ~row.used /\ row.attempts = 0 /\ row.failed = 0
      /\ row.accepted = 0 /\ row.before = gen[g].n
    BY CallKnown, OrderOtpAssumption DEF IInv, Row
<1>3. /\ gen' = [gen EXCEPT ![g] = k] /\ gen[g].pc = "insert" /\ k # NoGen /\ gen[g] # NoGen
      /\ rows' = Append(rows, row)
      /\ UNCHANGED <<shown, check, genRaced, checkRaced>>
    BY NoCalls DEF InsertCode
<1>4. \A h \in Generators : gen'[h] = IF h = g THEN k ELSE gen[h]
    BY <1>3, CallKnown DEF IInv
<1> HIDE DEF k, row
<1>5. /\ rows' \in Seq(Row) /\ Len(rows') = Len(rows) + 1
      /\ \A j \in 1 .. Len(rows) : rows'[j] = rows[j]
      /\ rows'[Len(rows) + 1] = row
    BY <1>2, <1>3, AppendProperties DEF IInv, TypeOK
<1>6. DOMAIN rows' = 1 .. Len(rows) + 1 /\ Len(rows) \in Nat
    BY <1>5, LenProperties, RowKnown DEF IInv
<1>7. \A j \in 1 .. Len(rows) + 1 : j \in 1 .. Len(rows) \/ j = Len(rows) + 1
    BY <1>6
<1>8. TypeOK'
    <2>1. shown' \in 0 .. Len(rows')
        BY <1>3, <1>5, <1>6 DEF IInv, TypeOK
    <2> QED BY <1>1, <1>3, <1>5, <2>1 DEF IInv, TypeOK
<1>9. RetiredAreUsed'
    <2>1. \A h \in Generators : gen[h].n \in 0 .. Len(rows)
        BY <1>6, CallKnown DEF IInv, RetiredAreUsed
    <2>2. \A h \in Generators : /\ gen'[h].n <= Len(rows')
                                /\ gen'[h].pc = "insert" => \A i \in 1 .. gen'[h].n : rows'[i].used
        BY <1>1, <1>4, <1>5, <1>6, <2>1 DEF IInv, RetiredAreUsed
    <2>3. \A i \in 1 .. gen[g].n : i \in 1 .. Len(rows) /\ rows[i].used
        BY <1>3, <1>6, <2>1 DEF IInv, RetiredAreUsed
    <2>4. \A j \in DOMAIN rows' : rows'[j].before < j
        BY <1>2, <1>5, <1>6, <1>7, <2>1, RowKnown DEF IInv, RetiredAreUsed
    <2>5. \A j \in 1 .. Len(rows) : \A i \in 1 .. rows[j].before : i \in 1 .. Len(rows) /\ rows[i].used
        BY RowKnown DEF IInv, RetiredAreUsed
    <2>6. \A j \in DOMAIN rows' : \A i \in 1 .. rows'[j].before : rows'[i].used
        BY <1>2, <1>5, <1>6, <1>7, <2>3, <2>5
    <2> QED BY <2>2, <2>4, <2>6 DEF RetiredAreUsed
<1>10. ChecksKnown'
    BY <1>3, <1>5, <1>6, CallKnown DEF IInv, ChecksKnown
<1>11. GeneratedAlone'
    <2> SUFFICES ASSUME ~genRaced
                 PROVE  /\ \A h, i \in Generators : gen'[h] # NoGen /\ gen'[i] # NoGen => h = i
                        /\ \A h \in Generators :
                              /\ gen'[h] # NoGen => gen'[h].n = Len(rows')
                              /\ gen'[h].pc = "insert" => \A i \in DOMAIN rows' : rows'[i].used
                        /\ \A i \in DOMAIN rows' : ~rows'[i].used => i = Len(rows')
                        /\ (\A h \in Generators : gen'[h] = NoGen) => shown' \in {0, Len(rows')}
        BY <1>3 DEF GeneratedAlone
    <2>1. \A h \in Generators : gen[h] # NoGen => h = g
        BY <1>3 DEF IInv, GeneratedAlone
    <2>2. \A i \in 1 .. Len(rows) : rows[i].used
        BY <1>3, RowKnown DEF IInv, GeneratedAlone
    <2>3. \A h \in Generators : gen'[h] # NoGen => h = g
        BY <1>4, <2>1
    <2>4. gen'[g] # NoGen /\ gen'[g].n = Len(rows') /\ gen'[g].pc # "insert"
        BY <1>1, <1>3, <1>4, <1>5
    <2>5. \A h \in Generators : gen'[h].pc = "insert" => gen'[h] # NoGen
        BY NoCalls
    <2> QED BY <1>5, <1>6, <1>7, <2>2, <2>3, <2>4, <2>5
<1>12. CheckedAlone'
    <2>1. \A v \in Checkers : check[v].pc \in {"right", "wrong"} => check[v].code \in 1 .. Len(rows)
        BY <1>6, CallKnown DEF IInv, ChecksKnown
    <2> QED BY <1>2, <1>3, <1>5, <1>6, <1>7, <2>1, RowKnown DEF IInv, CheckedAlone
<1> QED BY <1>8, <1>9, <1>10, <1>11, <1>12 DEF IInv

\* A generation ends, with its code shown or not.
LEMMA EndStep ==
    ASSUME IInv, NEW g \in Generators, ShowCode(g) \/ StopGenerating(g)
    PROVE  IInv'
<1>1. /\ gen' = [gen EXCEPT ![g] = NoGen]
      /\ UNCHANGED <<rows, check, checkRaced>>
      /\ genRaced' = genRaced \/ genRaced' = TRUE
    BY DEF ShowCode, StopGenerating
<1>2. \/ /\ shown' = gen[g].n
         /\ genRaced' = genRaced
         /\ gen[g].pc = "show"
      \/ /\ shown' = shown
         /\ genRaced' = TRUE
    BY DEF ShowCode, StopGenerating
<1>3. \A h \in Generators : gen'[h] = IF h = g THEN NoGen ELSE gen[h]
    BY <1>1, CallKnown DEF IInv
<1>4. TypeOK'
    <2>1. shown' \in 0 .. Len(rows)
        BY <1>2, RowKnown, CallKnown DEF IInv, TypeOK, RetiredAreUsed
    <2> QED BY <1>1, <2>1, NoCalls DEF IInv, TypeOK
<1>5. RetiredAreUsed'
    BY <1>1, <1>3, NoCalls, RowKnown DEF IInv, RetiredAreUsed
<1>6. ChecksKnown' /\ CheckedAlone'
    BY <1>1 DEF IInv, ChecksKnown, CheckedAlone
<1>7. GeneratedAlone'
    BY <1>1, <1>2, <1>3, NoCalls DEF IInv, GeneratedAlone
<1> QED BY <1>4, <1>5, <1>6, <1>7 DEF IInv

-----------------------------------------------------------------------------
(* The steps of verifyOtp *)

\* A verification reads the newest row, which is unused: nothing accepted it.
LEMMA CheckStep ==
    ASSUME IInv, NEW v \in Checkers, NEW right \in BOOLEAN, CheckCode(v, right)
    PROVE  IInv'
<1> DEFINE k == [pc |-> IF right THEN "right" ELSE "wrong",
                 code |-> Newest, attempts |-> rows[Newest].attempts]
<1>1. /\ Newest \in 1 .. Len(rows) /\ ~rows[Newest].used
      /\ rows[Newest].attempts < MaxAttempts
    BY NewestIsLast DEF CheckCode, IInv
<1>2. /\ check' = [check EXCEPT ![v] = k]
      /\ checkRaced' = (checkRaced \/ \E w \in Checkers : check[w].code = Newest)
      /\ UNCHANGED <<rows, shown, gen, genRaced>>
    BY DEF CheckCode
<1>3. /\ k \in Check /\ k.code = Newest /\ k.pc # "idle"
      /\ k.attempts = rows[Newest].attempts
    <2>1. Newest \in 0 .. MaxCodes /\ rows[Newest].attempts \in 0 .. MaxAttempts
        BY <1>1, RowKnown, OrderOtpAssumption DEF IInv
    <2> QED BY <2>1 DEF Check
<1>4. \A w \in Checkers : check'[w] = IF w = v THEN k ELSE check[w]
    BY <1>2, CallKnown DEF IInv
<1> HIDE DEF k
<1>5. TypeOK'
    BY <1>2, <1>3 DEF IInv, TypeOK
<1>6. RetiredAreUsed' /\ GeneratedAlone'
    BY <1>2 DEF IInv, RetiredAreUsed, GeneratedAlone
<1>7. ChecksKnown'
    BY <1>1, <1>2, <1>3, <1>4, RowKnown DEF IInv, ChecksKnown
<1>8. CheckedAlone'
    <2> SUFFICES ASSUME ~checkRaced, \A w \in Checkers : check[w].code # Newest
                 PROVE  CheckedAlone'
        BY <1>2 DEF CheckedAlone
    <2>1. /\ \A w, x \in Checkers : check[w].code # 0 /\ check[w].code = check[x].code => w = x
          /\ \A w \in Checkers :
                check[w].pc \in {"right", "wrong"} =>
                    /\ rows[check[w].code].attempts = check[w].attempts
                    /\ rows[check[w].code].accepted = 0
          /\ \A j \in DOMAIN rows :
                /\ rows[j].failed = rows[j].attempts
                /\ rows[j].accepted <= 1
                /\ ~rows[j].used => rows[j].accepted = 0
        BY DEF IInv, CheckedAlone
    <2>2. rows[Newest].accepted = 0
        BY <1>1, <2>1, RowKnown DEF IInv
    <2>3. /\ \A w, x \in Checkers : check'[w].code # 0 /\ check'[w].code = check'[x].code => w = x
          /\ \A w \in Checkers :
                check'[w].pc \in {"right", "wrong"} =>
                    /\ rows[check'[w].code].attempts = check'[w].attempts
                    /\ rows[check'[w].code].accepted = 0
        BY <1>3, <1>4, <2>1, <2>2
    <2> QED BY <1>2, <2>1, <2>3 DEF CheckedAlone
<1> QED BY <1>5, <1>6, <1>7, <1>8 DEF IInv

\* A verification ends or goes on to clear what is shown; no row is written.
LEMMA CheckEndStep ==
    ASSUME IInv, NEW v \in Checkers, ClearShown(v) \/ StopChecking(v)
    PROVE  IInv'
<1>1. /\ check' = [check EXCEPT ![v] = NoCheck]
      /\ shown' \in {0, shown}
      /\ UNCHANGED <<rows, gen, genRaced, checkRaced>>
    BY DEF ClearShown, StopChecking
<1>2. \A w \in Checkers : check'[w] = IF w = v THEN NoCheck ELSE check[w]
    BY <1>1, CallKnown DEF IInv
<1>3. TypeOK'
    <2>1. shown' \in 0 .. Len(rows)
        BY <1>1, RowKnown DEF IInv, TypeOK
    <2> QED BY <1>1, <2>1, NoCalls DEF IInv, TypeOK
<1>4. RetiredAreUsed'
    BY <1>1 DEF IInv, RetiredAreUsed
<1>5. GeneratedAlone'
    BY <1>1 DEF IInv, GeneratedAlone
<1>6. ChecksKnown'
    BY <1>1, <1>2, NoCalls, RowKnown DEF IInv, ChecksKnown
<1>7. CheckedAlone'
    BY <1>1, <1>2, NoCalls DEF IInv, CheckedAlone
<1> QED BY <1>3, <1>4, <1>5, <1>6, <1>7 DEF IInv

\* An answer is written to the row that was read: what has to be seen of the
\* new row and of the call after it.
LEMMA AnswerStep ==
    ASSUME IInv, NEW v \in Checkers, check[v].pc \in {"right", "wrong"},
           NEW row \in Row, NEW k \in Check,
           rows' = [rows EXCEPT ![check[v].code] = row],
           check' = [check EXCEPT ![v] = k],
           UNCHANGED <<shown, gen, genRaced, checkRaced>>,
           row.before = rows[check[v].code].before,
           rows[check[v].code].used => row.used,
           k.pc \in {"idle", "clear"},
           k.pc = "clear" => k.code = check[v].code,
           k.pc = "idle" => k.code = 0,
           ~checkRaced => /\ row.failed = row.attempts
                          /\ row.accepted <= 1
                          /\ ~row.used => row.accepted = 0
    PROVE  IInv'
<1> DEFINE c == check[v].code
<1>1. c \in 1 .. Len(rows)
    BY RowKnown, CallKnown DEF IInv, ChecksKnown
<1>2. /\ rows' \in Seq(Row) /\ Len(rows') = Len(rows)
      /\ DOMAIN rows' = 1 .. Len(rows)
      /\ \A j \in 1 .. Len(rows) : rows'[j] = IF j = c THEN row ELSE rows[j]
    BY <1>1, RowWritten DEF IInv
<1>3. \A w \in Checkers : check'[w] = IF w = v THEN k ELSE check[w]
    BY CallKnown DEF IInv
<1> HIDE DEF c
<1>4. \A j \in 1 .. Len(rows) : /\ rows'[j].before = rows[j].before
                                /\ rows[j].used => rows'[j].used
    BY <1>2 DEF c
<1>5. TypeOK'
    BY <1>2 DEF IInv, TypeOK
<1>6. RetiredAreUsed'
    <2>1. \A g \in Generators : gen[g].n \in 0 .. Len(rows)
        BY RowKnown, CallKnown DEF IInv, RetiredAreUsed
    <2> QED BY <1>2, <1>4, <2>1, RowKnown DEF IInv, RetiredAreUsed
<1>7. GeneratedAlone'
    BY <1>2, <1>4, RowKnown DEF IInv, GeneratedAlone
<1>8. ChecksKnown'
    BY <1>1, <1>2, <1>3, RowKnown DEF IInv, ChecksKnown, c
<1>9. CheckedAlone'
    <2> SUFFICES ASSUME ~checkRaced PROVE CheckedAlone'
        BY DEF CheckedAlone
    <2>1. \A w, x \in Checkers : check[w].code # 0 /\ check[w].code = check[x].code => w = x
        BY DEF IInv, CheckedAlone
    <2>2. \A w \in Checkers : w # v => check[w].code # c
        BY <1>1, <2>1 DEF c
    <2>3. \A w \in Checkers : w # v /\ check[w].pc \in {"right", "wrong"} =>
              /\ check[w].code \in 1 .. Len(rows)
              /\ rows[check[w].code].attempts = check[w].attempts
              /\ rows[check[w].code].accepted = 0
        BY RowKnown, CallKnown DEF IInv, CheckedAlone, ChecksKnown
    <2>4. \A w \in Checkers : check'[w].pc \in {"right", "wrong"} =>
              /\ rows'[check'[w].code].attempts = check'[w].attempts
              /\ rows'[check'[w].code].accepted = 0
        BY <1>2, <1>3, <2>2, <2>3
    <2>5. \A w, x \in Checkers : check'[w].code # 0 /\ check'[w].code = check'[x].code => w = x
        BY <1>3, <2>1 DEF c
    <2>6. \A j \in 1 .. Len(rows) :
              /\ rows'[j].failed = rows'[j].attempts
              /\ rows'[j].accepted <= 1
              /\ ~rows'[j].used => rows'[j].accepted = 0
        BY <1>2, RowKnown DEF IInv, CheckedAlone
    <2> QED BY <1>2, <2>4, <2>5, <2>6 DEF CheckedAlone
<1> QED BY <1>5, <1>6, <1>7, <1>8, <1>9 DEF IInv

\* The right code: its row is used, once more accepted.
LEMMA UseStep ==
    ASSUME IInv, NEW v \in Checkers, UseCode(v)
    PROVE  IInv'
<1> DEFINE c == check[v].code
<1> DEFINE row == [rows[c] EXCEPT !.used = TRUE, !.accepted = @ + 1]
<1> DEFINE k == [check[v] EXCEPT !.pc = "clear"]
<1>1. c \in 1 .. Len(rows) /\ rows[c] \in Row /\ check[v] \in Check /\ check[v].pc = "right"
    BY RowKnown, CallKnown DEF IInv, ChecksKnown, UseCode
<1>2. /\ row \in Row /\ row.used /\ row.before = rows[c].before
      /\ row.accepted = rows[c].accepted + 1
      /\ row.failed = rows[c].failed /\ row.attempts = rows[c].attempts
    BY <1>1, RowAnswered
<1>3. k \in Check /\ k.pc = "clear" /\ k.code = c
    BY <1>1 DEF Check
<1>4. rows' = [rows EXCEPT ![c] = row] /\ check' = [check EXCEPT ![v] = k]
    BY DEF UseCode
<1>5. UNCHANGED <<shown, gen, genRaced, checkRaced>>
    BY DEF UseCode
<1>6. ~checkRaced => rows[c].failed = rows[c].attempts /\ rows[c].accepted = 0
    BY <1>1, RowKnown DEF IInv, CheckedAlone
<1> HIDE DEF row, k
<1>7. ~checkRaced => /\ row.failed = row.attempts
                     /\ row.accepted <= 1
                     /\ ~row.used => row.accepted = 0
    BY <1>2, <1>6
<1> QED BY <1>1, <1>2, <1>3, <1>4, <1>5, <1>7, AnswerStep

\* A wrong code: the count that was read is still the row's, unless it raced.
LEMMA FailStep ==
    ASSUME IInv, NEW v \in Checkers, CountFailure(v)
    PROVE  IInv'
<1> DEFINE c == check[v].code
<1> DEFINE n == check[v].attempts + 1
<1> DEFINE row == [rows[c] EXCEPT !.attempts = n, !.failed = @ + 1]
<1> DEFINE k == IF n = MaxAttempts THEN [check[v] EXCEPT !.pc = "clear"] ELSE NoCheck
<1>1. c \in 1 .. Len(rows) /\ rows[c] \in Row /\ check[v] \in Check /\ check[v].pc = "wrong"
    BY RowKnown, CallKnown DEF IInv, ChecksKnown, CountFailure
<1>2. n \in 0 .. MaxAttempts
    BY <1>1, CallKnown, OrderOtpAssumption DEF IInv, ChecksKnown
<1>3. /\ row \in Row /\ row.used = rows[c].used /\ row.before = rows[c].before
      /\ row.accepted = rows[c].accepted
      /\ row.failed = rows[c].failed + 1 /\ row.attempts = n
    <2> HIDE DEF n
    <2> QED BY <1>1, <1>2, RowAnswered
<1>4. /\ k \in Check /\ k.pc \in {"idle", "clear"}
      /\ k.pc = "clear" => k.code = c
      /\ k.pc = "idle" => k.code = 0
    BY <1>1, NoCalls DEF Check
<1>5. rows' = [rows EXCEPT ![c] = row] /\ check' = [check EXCEPT ![v] = k]
    BY DEF CountFailure
<1>6. UNCHANGED <<shown, gen, genRaced, checkRaced>>
    BY DEF CountFailure
<1>7. ~checkRaced => /\ rows[c].failed + 1 = n
                     /\ rows[c].accepted = 0
    BY <1>1, RowKnown DEF IInv, CheckedAlone
<1> HIDE DEF row, k
<1>8. ~checkRaced => /\ row.failed = row.attempts
                     /\ row.accepted <= 1
                     /\ ~row.used => row.accepted = 0
    BY <1>3, <1>7
<1> QED BY <1>1, <1>3, <1>4, <1>5, <1>6, <1>8, AnswerStep

-----------------------------------------------------------------------------
(* Time *)

\* A row expires: nothing else of it changes.
LEMMA ExpireStep ==
    ASSUME IInv, NEW c \in 1 .. Len(rows), RowExpires(c)
    PROVE  IInv'
<1> DEFINE row == [rows[c] EXCEPT !.expired = TRUE]
<1>1. c \in 1 .. Len(rows) /\ rows[c] \in Row
    BY RowKnown DEF IInv
<1>2. /\ row \in Row /\ row.used = rows[c].used /\ row.before = rows[c].before
      /\ row.accepted = rows[c].accepted
      /\ row.failed = rows[c].failed /\ row.attempts = rows[c].attempts
    BY <1>1 DEF Row
<1>3. rows' = [rows EXCEPT ![c] = row] /\ UNCHANGED <<shown, gen, check, genRaced, checkRaced>>
    BY DEF RowExpires
<1> HIDE DEF row
<1>4. /\ rows' \in Seq(Row) /\ Len(rows') = Len(rows)
      /\ DOMAIN rows' = 1 .. Len(rows)
      /\ \A j \in 1 .. Len(rows) : rows'[j] = IF j = c THEN row ELSE rows[j]
    BY <1>1, <1>2, <1>3, RowWritten DEF IInv
<1>5. \A j \in 1 .. Len(rows) :
         /\ rows'[j].used = rows[j].used /\ rows'[j].before = rows[j].before
         /\ rows'[j].accepted = rows[j].accepted
         /\ rows'[j].failed = rows[j].failed /\ rows'[j].attempts = rows[j].attempts
    BY <1>2, <1>4
<1>6. TypeOK'
    BY <1>3, <1>4 DEF IInv, TypeOK
<1>7. RetiredAreUsed'
    <2>1. TypeOK /\ \A g \in Generators : gen[g].n <= Len(rows)
        BY DEF IInv, RetiredAreUsed
    <2>2. ASSUME NEW g \in Generators PROVE gen[g].n \in 0 .. Len(rows)
        <3>1. gen[g].n \in Nat /\ gen[g].n <= Len(rows) /\ Len(rows) \in Nat
            BY <2>1, RowKnown, CallKnown, OrderOtpAssumption
        <3> QED BY <3>1
    <2> QED BY <1>3, <1>4, <1>5, <2>2, RowKnown DEF IInv, RetiredAreUsed
<1>8. GeneratedAlone'
    BY <1>3, <1>4, <1>5, RowKnown DEF IInv, GeneratedAlone
<1>9. ChecksKnown'
    BY <1>3, <1>4 DEF IInv, ChecksKnown
<1>10. CheckedAlone'
    BY <1>3, <1>4, <1>5, RowKnown, CallKnown DEF IInv, CheckedAlone, ChecksKnown
<1> QED BY <1>6, <1>7, <1>8, <1>9, <1>10 DEF IInv

\* What is shown goes, or nothing changes.
LEMMA QuietStep ==
    ASSUME IInv, ShownExpires \/ UNCHANGED vars
    PROVE  IInv'
<1>1. shown' \in {0, shown} /\ UNCHANGED <<rows, gen, check, genRaced, checkRaced>>
    BY DEF ShownExpires, vars
<1>2. TypeOK'
    <2>1. shown' \in 0 .. Len(rows)
        BY <1>1, RowKnown DEF IInv, TypeOK
    <2> QED BY <1>1, <2>1 DEF IInv, TypeOK
<1>3. RetiredAreUsed' /\ ChecksKnown' /\ CheckedAlone'
    BY <1>1 DEF IInv, RetiredAreUsed, ChecksKnown, CheckedAlone
<1>4. GeneratedAlone'
    BY <1>1 DEF IInv, GeneratedAlone
<1> QED BY <1>2, <1>3, <1>4 DEF IInv

-----------------------------------------------------------------------------
(* The theorems *)

LEMMA InvStep == IInv /\ [Next]_vars => IInv'
<1>1. IInv => DOMAIN rows = 1 .. Len(rows)
    BY RowKnown DEF IInv
<1> QED BY <1>1, RetireStep, InsertStep, EndStep, CheckStep, CheckEndStep, UseStep,
           FailStep, ExpireStep, QuietStep DEF Next

\* In every behaviour of generateOtp and verifyOtp, what a call under way knows
\* of the rows holds of them.
THEOREM StrengthenedInvariant == Spec => []IInv
BY InvInit, InvStep, PTL DEF Spec

\* The variables keep their types: no code counts more failures than the limit.
THEOREM TypeCorrect == Spec => []TypeOK
<1>1. IInv => TypeOK
    BY DEF IInv
<1> QED BY <1>1, StrengthenedInvariant, PTL

\* Whatever generations meet, the codes that were there when one of them began
\* are used by the time its own is inserted.
THEOREM OldCodesStayRetired == Spec => []OldCodesRetired
<1>1. IInv => OldCodesRetired
    BY DEF IInv, RetiredAreUsed, OldCodesRetired
<1> QED BY <1>1, StrengthenedInvariant, PTL

\* If no generation met another one or stopped half-way, the customer is shown
\* the code that verifyOtp compares with, or none.
THEOREM CustomerSeesTheCode == Spec => []ShownCodeWorks
<1>1. IInv => ShownCodeWorks
    <2> SUFFICES ASSUME IInv, ~genRaced, \A g \in Generators : gen[g] = NoGen
                 PROVE  CustomerSees \in {0, Newest}
        BY DEF ShownCodeWorks
    <2>1. shown \in {0, Len(rows)} /\ \A j \in DOMAIN rows : ~rows[j].used => j = Len(rows)
        BY DEF IInv, GeneratedAlone
    <2>2. Newest = 0 \/ Newest = Len(rows)
        BY <2>1, NewestIsLast, RowKnown DEF IInv
    <2> QED BY <2>1, <2>2 DEF CustomerSees
<1> QED BY <1>1, StrengthenedInvariant, PTL

\* If no two verifications of a row met, each of its failures was counted and
\* it was accepted at most once.
THEOREM EveryAnswerCounted == Spec => []AnswersCounted
<1>1. IInv => AnswersCounted
    BY DEF IInv, CheckedAlone, AnswersCounted
<1> QED BY <1>1, StrengthenedInvariant, PTL

=============================================================================
