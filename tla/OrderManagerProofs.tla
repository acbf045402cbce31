-------------------------- MODULE OrderManagerProofs --------------------------
(***************************************************************************)
(* What the order manager keeps, for any set of intents, any number of     *)
(* calls, crashes and attempts.                                            *)
(***************************************************************************)
EXTENDS OrderManager, TLAPS

----------------------------------------------------------------------------
(* Types. *)

LEMMA CidType ==
  ASSUME NEW i \in Intents
  PROVE  CidOf(i) \in Cids
BY DEF Cids

LEMMA AppendRowType ==
  ASSUME TypeOK, cid \in Cids, NEW s \in {"pending"} \cup Retired, AppendRow(s)
  PROVE  /\ pend' \in [Cids -> {"none", "pending"} \cup Retired]
         /\ solid' \in [Cids -> {"none", "pending"} \cup Retired]
         /\ cut' \in BOOLEAN /\ lost' \in BOOLEAN
BY DEF TypeOK, AppendRow

LEMMA CrashFileType ==
  ASSUME TypeOK, pc # "idle", Crash
  PROVE  /\ pend' \in [Cids -> {"none", "pending"} \cup Retired]
         /\ solid' \in [Cids -> {"none", "pending"} \cup Retired]
         /\ cut' \in BOOLEAN /\ lost' \in BOOLEAN
<1>1. CASE UNCHANGED fileVars
  BY <1>1 DEF TypeOK, fileVars
<1>2. CASE CutShort
  BY <1>2 DEF TypeOK, CutShort
<1>3. ASSUME NEW s \in {"pending"} \cup Retired, CutBeforeNewline(s)
      PROVE  /\ pend' \in [Cids -> {"none", "pending"} \cup Retired]
             /\ solid' \in [Cids -> {"none", "pending"} \cup Retired]
             /\ cut' \in BOOLEAN /\ lost' \in BOOLEAN
  BY <1>3 DEF TypeOK, CutBeforeNewline
<1>4. ending \in Retired
  BY DEF TypeOK
<1>5. QED BY <1>1, <1>2, <1>3, <1>4 DEF Crash

LEMMA NoCallType ==
  ASSUME NoCall
  PROVE  /\ pc' = "idle" /\ method' \in Methods /\ intent' \in Intents \cup {None}
         /\ cid' \in Cids \cup {None} /\ asked' \in BOOLEAN
         /\ reply' \in Answers \cup {None} /\ ending' \in Retired
         /\ tries' \in Nat /\ owed' \in Int
<1>1. asked' \in BOOLEAN
  BY DEF NoCall
<1>2. tries' \in Nat /\ owed' \in Int
  BY DEF NoCall
<1>3. QED BY <1>1, <1>2 DEF NoCall, Methods, Retired

LEMMA ReturnType ==
  ASSUME TypeOK, NEW s \in Statuses, Return(s)
  PROVE  result' \in [Intents -> Statuses \cup {None}]
BY DEF TypeOK, Return

LEMMA AskType ==
  ASSUME TypeOK, pc # "idle", NEW m \in {"submit", "query"},
         NEW first \in {"row", "send"}, Ask(m, first)
  PROVE  /\ pc' = first /\ method' \in Methods /\ intent' \in Intents \cup {None}
         /\ cid' \in Cids /\ asked' \in BOOLEAN
         /\ reply' \in Answers \cup {None} /\ ending' \in Retired
         /\ result' \in [Intents -> Statuses \cup {None}]
BY DEF TypeOK, Ask, Methods

LEMMA RetireType ==
  ASSUME TypeOK, pc # "idle", NEW s \in Retired, Retire(s)
  PROVE  /\ pc' = "resolve" /\ method' \in Methods /\ intent' \in Intents \cup {None}
         /\ cid' \in Cids /\ asked' \in BOOLEAN
         /\ reply' \in Answers \cup {None} /\ ending' \in Retired
         /\ result' \in [Intents -> Statuses \cup {None}]
         /\ tries' \in Nat /\ owed' \in Int
BY DEF TypeOK, Retire

\* What the branches of RetryOrReturn, and of the answers, make of the call.
CallType ==
  /\ pc \in {"idle", "row", "send", "wait", "resolve"} /\ method \in Methods
  /\ intent \in Intents \cup {None} /\ cid \in Cids \cup {None}
  /\ pc # "idle" => cid \in Cids
  /\ asked \in BOOLEAN /\ reply \in Answers \cup {None}
  /\ ending \in Retired /\ tries \in Nat /\ owed \in Int
  /\ result \in [Intents -> Statuses \cup {None}]

LEMMA ReturnCall ==
  ASSUME TypeOK, NEW s \in Statuses, Return(s)
  PROVE  CallType'
BY ReturnType, NoCallType DEF CallType, Return

LEMMA RetireCall ==
  ASSUME TypeOK, pc # "idle", NEW s \in Retired, Retire(s)
  PROVE  CallType'
BY RetireType DEF CallType

LEMMA AskCall ==
  ASSUME TypeOK, pc # "idle", NEW m \in {"submit", "query"},
         NEW first \in {"row", "send"}, Ask(m, first), tries' \in Nat, owed' \in Int
  PROVE  CallType'
BY AskType DEF CallType

LEMMA RetryCall ==
  ASSUME TypeOK, pc # "idle", NEW s \in Statuses, RetryOrReturn(s)
  PROVE  CallType'
<1>1. CASE tries > 0 /\ Ask("query", "send") /\ tries' = tries - 1 /\ UNCHANGED owed
  <2>1. tries' \in Nat /\ owed' \in Int
    BY <1>1 DEF TypeOK
  <2>2. QED BY <1>1, <2>1, AskCall
<1>2. CASE tries = 0 /\ Return(s)
  BY <1>2, ReturnCall
<1>3. QED BY <1>1, <1>2 DEF RetryOrReturn

LEMMA StatusSet ==
  /\ {"submitted", "duplicate", "replaced", "timeout", "unavailable", "rejected",
      "canceled", "not_found"} \subseteq Statuses
  /\ {"rejected", "canceled", "not_found"} \subseteq Retired
BY DEF Statuses, Retired

LEMMA AnswerCall ==
  ASSUME TypeOK, Answered
  PROVE  CallType'
<1>1. pc = "wait" /\ pc # "idle"
  BY DEF Answered
<1>2. CASE SubmitAnswered
  BY <1>1, <1>2, ReturnCall, RetireCall, RetryCall, StatusSet DEF SubmitAnswered
<1>3. CASE QueryAnswered
  <2>1. CASE Ask("submit", "row") /\ owed' = owed - 1 /\ UNCHANGED tries
    <3>1. tries' \in Nat /\ owed' \in Int
      BY <2>1 DEF TypeOK
    <3>2. QED BY <1>1, <2>1, <3>1, AskCall
  <2>2. CASE Return("submitted")
    BY <2>2, ReturnCall, StatusSet
  <2>3. QED BY <1>3, <2>1, <2>2 DEF QueryAnswered
<1>4. CASE CancelAnswered
  BY <1>1, <1>4, ReturnCall, RetireCall, StatusSet DEF CancelAnswered
<1>5. CASE ReplaceAnswered
  BY <1>5, ReturnCall, StatusSet DEF ReplaceAnswered
<1>6. QED BY <1>2, <1>3, <1>4, <1>5 DEF Answered

LEMMA TypeFromParts ==
  ASSUME CallType', 
         pend' \in [Cids -> {"none", "pending"} \cup Retired],
         solid' \in [Cids -> {"none", "pending"} \cup Retired],
         cut' \in BOOLEAN, lost' \in BOOLEAN,
         book' \in [Cids -> Order],
         stray' \in SUBSET Requests,
         calls' \in Nat, crashes' \in Nat,
         hasty' \in SUBSET Cids, vague' \in SUBSET (Intents \cup {None})
  PROVE  TypeOK'
BY DEF CallType, TypeOK

LEMMA GiveUpType ==
  ASSUME TypeOK, pc # "idle", GiveUp
  PROVE  stray' \in SUBSET Requests
<1>1. CASE stray' = stray
  BY <1>1 DEF TypeOK
<1>2. CASE /\ method \in {"submit", "cancel"}
           /\ stray' = stray \cup {[method |-> method, cid |-> cid, by |-> intent]}
  <2>1. [method |-> method, cid |-> cid, by |-> intent] \in Requests
    BY <1>2 DEF TypeOK, Requests
  <2>2. QED BY <1>2, <2>1 DEF TypeOK
<1>3. QED BY <1>1, <1>2 DEF GiveUp

LEMMA TypeStep == TypeOK /\ [Next]_vars => TypeOK'
<1>1. SUFFICES ASSUME TypeOK, [Next]_vars PROVE TypeOK'
  OBVIOUS
<1>2. CASE UNCHANGED vars
  BY <1>1, <1>2 DEF TypeOK, vars, fileVars, netVars, callVars, histVars
<1>3. CASE \E i \in Intents, n \in {1, Attempts} : Submit(i, n)
  <2>1. PICK i \in Intents, n \in {1, Attempts} : Submit(i, n)
    BY <1>3
  <2>2. CidOf(i) \in Cids /\ n - 1 \in Nat
    BY CidType, ManagerAssumption
  <2>3. QED BY <1>1, <2>1, <2>2
    DEF Submit, Call, TypeOK, Methods, fileVars, netVars, histVars
<1>4. CASE \E c \in Cids : Cancel(c) \/ Replace(c)
  BY <1>1, <1>4 DEF Cancel, Replace, Call, TypeOK, Methods, fileVars, netVars, histVars
<1>5. CASE WritePending
  <2>1. AppendRow("pending") /\ cid \in Cids
    BY <1>1, <1>5 DEF WritePending, TypeOK
  <2>2. QED BY <1>1, <1>5, <2>1, AppendRowType DEF WritePending, TypeOK, netVars, histVars
<1>6. CASE Send
  BY <1>1, <1>6 DEF Send, TypeOK, fileVars, netVars
<1>7. CASE NoAnswer
  <2>1. pc # "idle" /\ GiveUp
    BY <1>7 DEF NoAnswer
  <2>2. CallType'
    BY <1>1, <1>7, <2>1, RetryCall, ReturnCall, StatusSet DEF NoAnswer, AfterSilence
  <2>3. QED BY <1>1, <1>7, <2>1, <2>2, GiveUpType, TypeFromParts
    DEF NoAnswer, TypeOK, fileVars
<1>8. CASE Answered
  <2>1. CallType'
    BY <1>1, <1>8, AnswerCall
  <2>2. vague' \in SUBSET (Intents \cup {None})
    BY <1>1, <1>8 DEF Answered, TypeOK
  <2>3. QED BY <1>1, <1>8, <2>1, <2>2, TypeFromParts DEF Answered, TypeOK, fileVars, netVars
<1>9. CASE WriteResolution
  <2>1. AppendRow(ending) /\ ending \in Retired /\ cid \in Cids /\ ending \in Statuses
    BY <1>1, <1>9 DEF WriteResolution, TypeOK, Statuses
  <2>2. CallType'
    BY <1>1, <1>9, <2>1, ReturnCall DEF WriteResolution
  <2>3. QED BY <1>1, <1>9, <2>1, <2>2, AppendRowType, TypeFromParts
    DEF WriteResolution, TypeOK, netVars
<1>10. CASE Crash
  <2>1. CallType'
    BY <1>1, <1>10, NoCallType DEF Crash, CallType, TypeOK
  <2>2. pc # "idle" /\ GiveUp
    BY <1>1, <1>10 DEF Crash, TypeOK
  <2>3. QED BY <1>1, <1>10, <2>1, <2>2, GiveUpType, CrashFileType, TypeFromParts
    DEF Crash, TypeOK
<1>11. CASE Arrives
  <2>1. cid \in Cids /\ method \in Methods /\ intent \in Intents \cup {None}
    BY <1>1, <1>11 DEF Arrives, TypeOK
  <2>2. PICK o \in Order, a \in Answers :
          /\ book' = [book EXCEPT ![cid] = o] /\ reply' = a
          /\ hasty' = IF Hastily(cid, o, a) THEN hasty \cup {cid} ELSE hasty
    BY <1>11 DEF Arrives
  <2>4. hasty' \in SUBSET Cids
    BY <1>1, <2>1, <2>2 DEF TypeOK
  <2>5. book' \in [Cids -> Order]
    BY <1>1, <2>1, <2>2 DEF TypeOK
  <2>6. QED BY <1>1, <1>11, <2>1, <2>2, <2>4, <2>5 DEF Arrives, TypeOK, fileVars
<1>12. CASE \E r \in stray : ArrivesLate(r)
  <2>1. PICK r \in stray : ArrivesLate(r)
    BY <1>12
  <2>2. r \in Requests /\ r.method \in Methods /\ r.cid \in Cids
          /\ r.by \in Intents \cup {None}
    BY <1>1, <2>1 DEF TypeOK, Requests, Methods
  <2>3. PICK o \in Order : book' = [book EXCEPT ![r.cid] = o]
    BY <2>1 DEF ArrivesLate
  <2>5. QED BY <1>1, <2>1, <2>2, <2>3
    DEF ArrivesLate, TypeOK, fileVars, callVars, histVars
<1>13. CASE \E r \in stray : Lose(r)
  BY <1>1, <1>13 DEF Lose, TypeOK, fileVars, callVars, histVars
<1>14. CASE \E c \in Cids, st \in {"filled", "canceled"} : Ends(c, st)
  BY <1>1, <1>14 DEF Ends, TypeOK, Order, OrderSt, fileVars, callVars, histVars
<1>15. QED BY <1>1, <1>2, <1>3, <1>4, <1>5, <1>6, <1>7, <1>8, <1>9, <1>10, <1>11,
              <1>12, <1>13, <1>14 DEF Next, Manager, Caller, Broker

LEMMA InitType == Init => TypeOK
<1>1. SUFFICES ASSUME Init PROVE TypeOK
  OBVIOUS
<1>2. cut \in BOOLEAN /\ lost \in BOOLEAN /\ asked \in BOOLEAN
  BY <1>1 DEF Init
<1>3. tries \in Nat /\ calls \in Nat /\ crashes \in Nat /\ owed \in Int
  BY <1>1 DEF Init
<1>4. book \in [Cids -> Order]
  BY <1>1 DEF Init, Order, OrderSt
<1>5. QED BY <1>1, <1>2, <1>3, <1>4 DEF Init, TypeOK, Methods, Retired

\* Every variable of the manager and of the broker keeps its type.
THEOREM TypeCorrect == Spec => []TypeOK
BY InitType, TypeStep, PTL DEF Spec

----------------------------------------------------------------------------
(* The call in hand.                                                       *)
(*                                                                         *)
(* What the other invariants rest on: whose order the call is about, and   *)
(* that an answer is there only while it is waited for.  How many of its   *)
(* submits the broker has not denied follows from where the call is.       *)

Owes == IF \/ method = "submit" /\ pc \in {"wait", "resolve"}
           \/ method = "query" /\ pc # "idle"
          THEN 1 ELSE 0

CallInv ==
  /\ (pc # "idle" /\ method \in {"submit", "query"}) => intent # None
  /\ intent # None => cid = CidOf(intent)
  /\ pc = "row" => method = "submit"
  /\ pc \in {"idle", "row", "send"} => reply = None
  /\ asked => pc = "wait"
  /\ owed = Owes

LEMMA ReturnCallInv ==
  ASSUME NoCall PROVE CallInv'
BY DEF NoCall, CallInv, Owes

LEMMA RetireCallInv ==
  ASSUME CallInv, pc = "wait", method \in {"submit", "cancel"}, NEW s, Retire(s)
  PROVE  CallInv'
BY DEF Retire, CallInv, Owes

LEMMA RetryCallInv ==
  ASSUME CallInv, pc = "wait", method = "submit", NEW s, RetryOrReturn(s)
  PROVE  CallInv'
<1>1. CASE Ask("query", "send") /\ UNCHANGED owed
  BY <1>1 DEF Ask, CallInv, Owes
<1>2. CASE Return(s)
  BY <1>2, ReturnCallInv DEF Return
<1>3. QED BY <1>1, <1>2 DEF RetryOrReturn

LEMMA CallStep == TypeOK /\ CallInv /\ [Next]_vars => CallInv'
<1>1. SUFFICES ASSUME TypeOK, CallInv, [Next]_vars PROVE CallInv'
  OBVIOUS
<1>2. CASE UNCHANGED <<callVars, owed>>
  BY <1>1, <1>2 DEF CallInv, Owes, callVars
<1>3. CASE \E i \in Intents, n \in {1, Attempts} : Submit(i, n)
  BY <1>1, <1>3, ManagerAssumption DEF Submit, Call, CallInv, Owes, histVars
<1>4. CASE \E c \in Cids : Cancel(c) \/ Replace(c)
  BY <1>1, <1>4 DEF Cancel, Replace, Call, CallInv, Owes, histVars
<1>5. CASE WritePending
  BY <1>1, <1>5 DEF WritePending, CallInv, Owes, histVars
<1>6. CASE Send
  BY <1>1, <1>6 DEF Send, CallInv, Owes, TypeOK, Methods
<1>7. CASE NoAnswer
  <2>1. CASE method = "submit" /\ \E s \in {"timeout", "unavailable"} : RetryOrReturn(s)
    BY <1>1, <1>7, <2>1, RetryCallInv DEF NoAnswer
  <2>2. CASE Return("unavailable")
    BY <2>2, ReturnCallInv DEF Return
  <2>3. QED BY <1>7, <2>1, <2>2 DEF NoAnswer, AfterSilence
<1>8. CASE Answered
  <2>1. pc = "wait"
    BY <1>8 DEF Answered
  <2>2. ASSUME NEW s, Return(s) PROVE CallInv'
    BY <2>2, ReturnCallInv DEF Return
  <2>3. CASE SubmitAnswered
    BY <1>1, <2>1, <2>2, <2>3, RetireCallInv, RetryCallInv DEF SubmitAnswered
  <2>4. CASE QueryAnswered
    <3>1. CASE Ask("submit", "row") /\ owed' = owed - 1
      BY <1>1, <2>1, <2>4, <3>1 DEF QueryAnswered, Ask, CallInv, Owes
    <3>2. QED BY <2>2, <2>4, <3>1 DEF QueryAnswered
  <2>5. CASE CancelAnswered
    BY <1>1, <2>1, <2>2, <2>5, RetireCallInv DEF CancelAnswered
  <2>6. CASE ReplaceAnswered
    BY <2>2, <2>6 DEF ReplaceAnswered
  <2>7. QED BY <1>8, <2>3, <2>4, <2>5, <2>6 DEF Answered
<1>9. CASE WriteResolution
  BY <1>9, ReturnCallInv DEF WriteResolution, Return
<1>10. CASE Crash
  BY <1>10, ReturnCallInv DEF Crash
<1>11. CASE Arrives
  BY <1>1, <1>11 DEF Arrives, CallInv, Owes
<1>12. CASE \E r \in stray : ArrivesLate(r) \/ Lose(r)
  BY <1>2, <1>12 DEF ArrivesLate, Lose, histVars
<1>13. CASE \E c \in Cids, st \in {"filled", "canceled"} : Ends(c, st)
  BY <1>2, <1>13 DEF Ends, histVars
<1>14. CASE UNCHANGED vars
  BY <1>2, <1>14 DEF vars, histVars
<1>15. QED BY <1>1, <1>3, <1>4, <1>5, <1>6, <1>7, <1>8, <1>9, <1>10, <1>11, <1>12,
              <1>13, <1>14 DEF Next, Manager, Caller, Broker

LEMMA CallInvariant == Spec => [](TypeOK /\ CallInv)
<1>1. Init => TypeOK /\ CallInv
  BY InitType DEF Init, CallInv, Owes
<1>2. TypeOK /\ CallInv /\ [Next]_vars => (TypeOK /\ CallInv)'
  BY TypeStep, CallStep
<1>3. QED BY <1>1, <1>2, PTL DEF Spec

\* "Never a blind resend": within a call, a submit is repeated only after the
\* broker has answered a query with not_found.
THEOREM ResendIsAsked == Spec => []NoBlindResend
<1>1. TypeOK /\ CallInv => NoBlindResend
  BY DEF CallInv, Owes, NoBlindResend
<1>2. QED BY <1>1, CallInvariant, PTL

----------------------------------------------------------------------------
(* The pending rows.                                                       *)
(*                                                                         *)
(* That a live order has its row is a matter of what is still on its way:  *)
(* an order not there yet may arrive from a submit given up on, so such a  *)
(* submit needs the row as well; and a row may be retired only when        *)
(* nothing can make its order live any more.                               *)

Live          == {"working", "filled"}
Underway(c)   == \E r \in stray : r.method = "submit" /\ r.cid = c
Settled(c)    == \/ c \in hasty
                 \/ book[c].st \notin Live /\ (book[c].st = "none" => ~Underway(c))
Retiring      == \/ pc = "resolve"
                 \/ /\ pc = "wait"
                    /\ \/ method = "submit" /\ reply \in {"rejected", "canceled"}
                       \/ method = "cancel" /\ reply \in {"not_found", "canceled"}

CallOwned     == (intent # None /\ pc \in {"send", "wait", "resolve"} /\ ~lost)
                   => pend[cid] = "pending"
StrayPending  == ~lost => \A c \in Cids \ hasty :
                   (book[c].st = "none" /\ Underway(c)) => pend[c] = "pending"
RetireSettled == Retiring => Settled(cid)

RowsInv ==
  /\ TypeOK /\ CallInv /\ OwnBeforeWrite /\ LiveIsPending
  /\ CallOwned /\ StrayPending /\ RetireSettled

\* A step that writes no row and leaves the broker and the net alone.
LEMMA RowsCall ==
  ASSUME RowsInv, UNCHANGED <<pend, lost, book, stray, hasty>>,
         CallOwned', RetireSettled', TypeOK', CallInv'
  PROVE  RowsInv'
<1>1. OwnBeforeWrite'
  BY DEF RowsInv, OwnBeforeWrite
<1>2. LiveIsPending' /\ StrayPending'
  BY DEF RowsInv, LiveIsPending, StrayPending, Underway
<1>3. QED BY <1>1, <1>2 DEF RowsInv

\* A request given up on: if it may still arrive, its row is there.
LEMMA RowsGiveUp ==
  ASSUME RowsInv, pc # "idle", GiveUp, UNCHANGED <<book, hasty>>,
         lost' \/ UNCHANGED <<pend, lost>>,
         CallOwned', RetireSettled', TypeOK', CallInv'
  PROVE  RowsInv'
<1>0. CASE lost'
  BY <1>0 DEF RowsInv, OwnBeforeWrite, LiveIsPending, StrayPending
<1>1. CASE stray' = stray /\ UNCHANGED <<pend, lost>>
  BY <1>1, RowsCall
<1>2. CASE /\ ~lost' /\ UNCHANGED <<pend, lost>>
           /\ asked /\ method \in {"submit", "cancel"}
           /\ stray' = stray \cup {[method |-> method, cid |-> cid, by |-> intent]}
  <2>1. (method = "submit" /\ ~lost) => pend[cid] = "pending"
    BY <1>2 DEF RowsInv, CallInv, CallOwned
  <2>2. ASSUME NEW c \in Cids, Underway(c)', ~lost
        PROVE  Underway(c) \/ pend[c] = "pending"
    <3>1. PICK r \in stray' : r.method = "submit" /\ r.cid = c
      BY <2>2 DEF Underway
    <3>2. CASE r \in stray
      BY <3>1, <3>2 DEF Underway
    <3>3. CASE r = [method |-> method, cid |-> cid, by |-> intent]
      BY <2>1, <2>2, <3>1, <3>3
    <3>4. QED BY <1>2, <3>1, <3>2, <3>3
  <2>3. OwnBeforeWrite'
    <3>1. SUFFICES ASSUME ~lost', NEW c \in Cids, book'[c].st # "none" \/ Underway(c)'
                   PROVE  pend'[c] # "none"
      BY DEF OwnBeforeWrite, Underway
    <3>2. CASE pend[c] = "pending"
      BY <1>2, <3>2
    <3>3. CASE book[c].st # "none" \/ Underway(c)
      BY <1>2, <3>1, <3>3 DEF RowsInv, OwnBeforeWrite, Underway
    <3>4. QED BY <1>2, <2>2, <3>1, <3>2, <3>3
  <2>4. LiveIsPending'
    BY <1>2 DEF RowsInv, LiveIsPending
  <2>5. StrayPending'
    <3>1. SUFFICES ASSUME ~lost', NEW c \in Cids \ hasty', book'[c].st = "none", Underway(c)'
                   PROVE  pend'[c] = "pending"
      BY DEF StrayPending
    <3>2. CASE pend[c] = "pending"
      BY <1>2, <3>2
    <3>3. CASE Underway(c)
      BY <1>2, <3>1, <3>3 DEF RowsInv, StrayPending
    <3>4. QED BY <1>2, <2>2, <3>1, <3>2, <3>3
  <2>6. QED BY <2>3, <2>4, <2>5 DEF RowsInv
<1>3. QED BY <1>0, <1>1, <1>2 DEF GiveUp

\* What _atomic_append makes of the rows.
LEMMA RowsAppend ==
  ASSUME RowsInv, cid \in Cids, NEW s \in {"pending"} \cup Retired,
         AppendRow(s) \/ CutBeforeNewline(s),
         s = "pending" \/ Settled(cid), UNCHANGED <<book, stray, hasty>>
  PROVE  OwnBeforeWrite' /\ LiveIsPending' /\ StrayPending'
<1>1. CASE lost'
  BY <1>1 DEF OwnBeforeWrite, LiveIsPending, StrayPending
<1>2. CASE ~lost'
  <2>1. ~lost /\ pend' = [pend EXCEPT ![cid] = s] /\ s # "none"
    <3>1. CASE AppendRow(s)
      BY <1>2, <3>1 DEF AppendRow, Retired
    <3>2. CASE CutBeforeNewline(s)
      BY <1>2, <3>2 DEF CutBeforeNewline, Retired
    <3>3. QED BY <3>1, <3>2
  <2>2. ASSUME NEW c \in Cids PROVE pend'[c] = IF c = cid THEN s ELSE pend[c]
    BY <2>1 DEF RowsInv, TypeOK
  <2>3. OwnBeforeWrite'
    BY <2>1, <2>2 DEF RowsInv, OwnBeforeWrite
  <2>4. LiveIsPending' /\ StrayPending'
    <3>1. CASE s = "pending"
      BY <2>1, <2>2, <3>1 DEF RowsInv, LiveIsPending, StrayPending, Underway
    <3>2. CASE Settled(cid)
      <4>1. LiveIsPending'
        BY <2>1, <2>2, <3>2 DEF RowsInv, LiveIsPending, Settled, Live
      <4>2. StrayPending'
        BY <2>1, <2>2, <3>2 DEF RowsInv, StrayPending, Settled, Underway, Live
      <4>3. QED BY <4>1, <4>2
    <3>3. QED BY <3>1, <3>2
  <2>5. QED BY <2>3, <2>4
<1>3. QED BY <1>1, <1>2

\* The broker acts on a request made with the row of its order in place.
LEMMA RowsOutcome ==
  ASSUME RowsInv, NEW m, NEW c \in Cids, NEW i, NEW o \in Order, NEW a,
         Outcome(m, c, i, o, a), book' = [book EXCEPT ![c] = o],
         stray' \subseteq stray, UNCHANGED <<pend, lost>>, hasty \subseteq hasty',
         (m = "submit" /\ ~lost) => pend[c] # "none",
         (m = "submit" /\ ~lost /\ c \notin hasty /\ book[c].st = "none")
            => pend[c] = "pending"
  PROVE  OwnBeforeWrite' /\ LiveIsPending' /\ StrayPending'
<1>1. ASSUME NEW d \in Cids PROVE book'[d] = IF d = c THEN o ELSE book[d]
  BY DEF RowsInv, TypeOK
<1>2. \/ o = book[c]
      \/ m = "submit" /\ book[c].st = "none"
      \/ book[c].st = "working" /\ o = [book[c] EXCEPT !.st = "canceled"]
  BY DEF Outcome, Plainly
<1>3. book[c] \in Order
  BY DEF RowsInv, TypeOK
<1>4. o.st # "none" => book[c].st # "none" \/ m = "submit"
  BY <1>2
<1>5. o.st \in Live => o = book[c] \/ (m = "submit" /\ book[c].st = "none")
  BY <1>2, <1>3 DEF Live, Order
<1>6. o.st = "none" => book[c].st = "none"
  BY <1>2, <1>3 DEF Order
<1>7. ASSUME NEW d \in Cids, Underway(d)' PROVE Underway(d)
  BY <1>7 DEF Underway
<1>8. OwnBeforeWrite'
  <2>1. SUFFICES ASSUME ~lost', NEW d \in Cids, book'[d].st # "none" \/ Underway(d)'
                 PROVE  pend'[d] # "none"
    BY DEF OwnBeforeWrite, Underway
  <2>2. CASE book[d].st # "none" \/ Underway(d)
    BY <2>1, <2>2 DEF RowsInv, OwnBeforeWrite, Underway
  <2>3. QED BY <1>1, <1>4, <1>7, <2>1, <2>2
<1>9. LiveIsPending'
  <2>1. SUFFICES ASSUME ~lost', NEW d \in Cids \ hasty', book'[d].st \in Live
                 PROVE  pend'[d] = "pending"
    BY DEF LiveIsPending, Live
  <2>2. CASE book[d].st \in Live
    BY <2>1, <2>2 DEF RowsInv, LiveIsPending, Live
  <2>3. QED BY <1>1, <1>5, <2>1, <2>2
<1>10. StrayPending'
  BY <1>1, <1>6, <1>7 DEF RowsInv, StrayPending
<1>11. QED BY <1>8, <1>9, <1>10

LEMMA RowsStep == RowsInv /\ [Next]_vars => RowsInv'
<1>1. SUFFICES ASSUME RowsInv, [Next]_vars PROVE RowsInv'
  OBVIOUS
<1>2. TypeOK' /\ CallInv'
  BY <1>1, TypeStep, CallStep DEF RowsInv
<1>3. CASE UNCHANGED vars
  BY <1>1, <1>2, <1>3, RowsCall
    DEF vars, fileVars, netVars, callVars, histVars, RowsInv, CallOwned, RetireSettled,
        Retiring, Settled, Underway
<1>4. CASE \E i \in Intents, n \in {1, Attempts} : Submit(i, n)
  BY <1>1, <1>2, <1>4, RowsCall
    DEF Submit, Call, fileVars, netVars, histVars, CallOwned, RetireSettled, Retiring
<1>5. CASE \E c \in Cids : Cancel(c) \/ Replace(c)
  BY <1>1, <1>2, <1>5, RowsCall
    DEF Cancel, Replace, Call, fileVars, netVars, histVars, CallOwned, RetireSettled, Retiring
<1>6. CASE WritePending
  <2>1. AppendRow("pending") /\ cid \in Cids /\ UNCHANGED <<book, stray, hasty, cid>> /\ pc' = "send"
    BY <1>1, <1>6 DEF WritePending, RowsInv, TypeOK, netVars, histVars
  <2>2. OwnBeforeWrite' /\ LiveIsPending' /\ StrayPending'
    BY <1>1, <2>1, RowsAppend
  <2>3. CallOwned'
    BY <1>1, <2>1 DEF CallOwned, AppendRow, RowsInv, TypeOK
  <2>4. RetireSettled'
    BY <2>1 DEF RetireSettled, Retiring
  <2>5. QED BY <1>2, <2>2, <2>3, <2>4 DEF RowsInv
<1>7. CASE Send
  <2>1. CallOwned'
    BY <1>1, <1>7 DEF Send, RowsInv, CallOwned, fileVars
  <2>2. RetireSettled'
    <3>1. reply' = None /\ pc' = "wait"
      BY <1>1, <1>7 DEF Send, RowsInv, CallInv
    <3>2. None \notin {"rejected", "canceled", "not_found"}
      BY ManagerAssumption, StatusSet
    <3>3. ~Retiring'
      BY <3>1, <3>2 DEF Retiring
    <3>4. QED BY <3>3 DEF RetireSettled
  <2>3. QED BY <1>1, <1>2, <1>7, <2>1, <2>2, RowsCall DEF Send, fileVars, netVars
<1>8. CASE NoAnswer
  <2>1. /\ pc = "wait" /\ GiveUp /\ UNCHANGED <<pend, lost, book, hasty>>
    BY <1>8 DEF NoAnswer, fileVars
  <2>2. pc' = "idle" \/ (pc' = "send" /\ UNCHANGED <<cid, intent>>)
    BY <1>8 DEF NoAnswer, AfterSilence, RetryOrReturn, Return, NoCall, Ask
  <2>3. CallOwned' /\ RetireSettled'
    BY <1>1, <2>1, <2>2 DEF RowsInv, CallOwned, RetireSettled, Retiring
  <2>4. QED BY <1>1, <1>2, <2>1, <2>3, RowsGiveUp
<1>9. CASE Answered
  <2>1. pc = "wait" /\ UNCHANGED <<pend, lost, book, stray, hasty>>
    BY <1>9 DEF Answered, fileVars, netVars
  <2>2. \/ pc' = "idle"
        \/ pc' \in {"row", "send"} /\ UNCHANGED <<cid, intent>>
        \/ pc' = "resolve" /\ Retiring /\ UNCHANGED <<cid, intent>>
    BY <1>9 DEF Answered, SubmitAnswered, QueryAnswered, CancelAnswered, ReplaceAnswered,
                RetryOrReturn, Return, NoCall, Ask, Retire, Retiring
  <2>3. CallOwned'
    BY <1>1, <2>1, <2>2 DEF RowsInv, CallOwned
  <2>4. RetireSettled'
    BY <1>1, <2>1, <2>2 DEF RowsInv, RetireSettled, Retiring, Settled, Underway
  <2>5. QED BY <1>1, <1>2, <2>1, <2>3, <2>4, RowsCall
<1>10. CASE WriteResolution
  <2>1. /\ AppendRow(ending) /\ cid \in Cids /\ ending \in Retired
        /\ UNCHANGED <<book, stray, hasty>> /\ pc' = "idle"
    BY <1>1, <1>10 DEF WriteResolution, Return, NoCall, RowsInv, TypeOK, netVars
  <2>2. Settled(cid)
    BY <1>1, <1>10 DEF WriteResolution, RowsInv, RetireSettled, Retiring
  <2>3. OwnBeforeWrite' /\ LiveIsPending' /\ StrayPending'
    BY <1>1, <2>1, <2>2, RowsAppend
  <2>4. CallOwned' /\ RetireSettled'
    BY <2>1 DEF CallOwned, RetireSettled, Retiring
  <2>5. QED BY <1>2, <2>3, <2>4 DEF RowsInv
<1>11. CASE Crash
  <2>1. /\ pc # "idle" /\ GiveUp /\ UNCHANGED <<book, hasty>> /\ pc' = "idle"
    BY <1>11 DEF Crash, NoCall
  <2>2. CallOwned' /\ RetireSettled'
    BY <2>1 DEF CallOwned, RetireSettled, Retiring
  <2>3. CASE UNCHANGED fileVars \/ CutShort
    <3>1. lost' \/ UNCHANGED <<pend, lost>>
      <4>1. CASE UNCHANGED fileVars
        BY <4>1 DEF fileVars
      <4>2. CASE CutShort /\ pend = solid /\ ~lost
        <5>1. ~lost' /\ UNCHANGED pend
          BY <4>2 DEF CutShort
        <5>2. lost \in BOOLEAN /\ lost' \in BOOLEAN
          BY <1>1, <1>2 DEF RowsInv, TypeOK
        <5>3. QED BY <4>2, <5>1, <5>2
      <4>3. CASE CutShort /\ (pend # solid \/ lost)
        BY <4>3 DEF CutShort
      <4>4. QED BY <2>3, <4>1, <4>2, <4>3
    <3>2. QED BY <1>1, <1>2, <2>1, <2>2, <3>1, RowsGiveUp
  <2>4. CASE \/ pc = "row" /\ CutBeforeNewline("pending")
             \/ pc = "resolve" /\ CutBeforeNewline(ending)
    <3>1. UNCHANGED stray /\ cid \in Cids /\ ending \in Retired
      BY <1>1, <2>1, <2>4 DEF GiveUp, RowsInv, CallInv, TypeOK
    <3>2. pc = "resolve" => Settled(cid)
      BY <1>1 DEF RowsInv, RetireSettled, Retiring
    <3>3. OwnBeforeWrite' /\ LiveIsPending' /\ StrayPending'
      BY <1>1, <2>1, <2>4, <3>1, <3>2, RowsAppend
    <3>4. QED BY <1>2, <2>2, <3>3 DEF RowsInv
  <2>5. QED BY <1>11, <2>3, <2>4 DEF Crash
<1>12. CASE Arrives
  <2>1. /\ pc = "wait" /\ pc' = "wait" /\ cid \in Cids
        /\ UNCHANGED <<pend, lost, stray, method, intent, cid>>
    BY <1>1, <1>12 DEF Arrives, fileVars, RowsInv, TypeOK
  <2>2. PICK o \in Order, a \in Answers :
          /\ Outcome(method, cid, intent, o, a)
          /\ book' = [book EXCEPT ![cid] = o] /\ reply' = a
          /\ hasty' = IF Hastily(cid, o, a) THEN hasty \cup {cid} ELSE hasty
    BY <1>12 DEF Arrives
  <2>3. (method = "submit" /\ ~lost) => pend[cid] = "pending"
    BY <1>1, <2>1 DEF RowsInv, CallInv, CallOwned
  <2>4. OwnBeforeWrite' /\ LiveIsPending' /\ StrayPending'
    <3>1. hasty \subseteq hasty'
      BY <2>2
    <3>2. (method = "submit" /\ ~lost) => pend[cid] # "none"
      BY <2>3
    <3>3. QED BY <1>1, <2>1, <2>2, <2>3, <3>1, <3>2, RowsOutcome
  <2>5. CallOwned'
    BY <1>1, <2>1 DEF RowsInv, CallOwned
  <2>6. RetireSettled'
    <3>1. SUFFICES ASSUME Retiring' PROVE Settled(cid)'
      BY DEF RetireSettled
    <3>2. book'[cid] = o
      BY <1>1, <2>1, <2>2 DEF RowsInv, TypeOK
    <3>3. \/ method = "submit" /\ a \in {"rejected", "canceled"}
          \/ method = "cancel" /\ a \in {"not_found", "canceled"}
      BY <2>1, <2>2, <3>1 DEF Retiring
    <3>4. o.st \notin Live
      BY <1>1, <2>1, <2>2, <3>3 DEF Outcome, Plainly, Live, RowsInv, TypeOK, Order
    <3>5. CASE o.st = "none" /\ Underway(cid)
      <4>1. a \in {"not_found", "rejected"}
        BY <1>1, <2>1, <2>2, <3>3, <3>5 DEF Outcome, Plainly, RowsInv, TypeOK, Order
      <4>2. cid \in hasty'
        BY <2>2, <3>5, <4>1 DEF Hastily, Underway
      <4>3. QED BY <2>1, <4>2 DEF Settled
    <3>6. CASE ~(o.st = "none" /\ Underway(cid))
      BY <2>1, <3>2, <3>4, <3>6 DEF Settled, Underway
    <3>7. QED BY <3>5, <3>6
  <2>7. QED BY <1>2, <2>4, <2>5, <2>6 DEF RowsInv
<1>13. CASE \E r \in stray : ArrivesLate(r)
  <2>1. PICK r \in stray : ArrivesLate(r)
    BY <1>13
  <2>2. r.cid \in Cids /\ stray' \subseteq stray /\ UNCHANGED <<pend, lost, hasty>>
    BY <1>1, <2>1 DEF RowsInv, TypeOK, Requests, ArrivesLate, fileVars, histVars
  <2>3. PICK o \in Order, a \in Answers :
          Outcome(r.method, r.cid, r.by, o, a) /\ book' = [book EXCEPT ![r.cid] = o]
    BY <2>1 DEF ArrivesLate
  <2>4. OwnBeforeWrite' /\ LiveIsPending' /\ StrayPending'
    <3>1. r.method = "submit" => Underway(r.cid)
      BY DEF Underway
    <3>2. (r.method = "submit" /\ ~lost) => pend[r.cid] # "none"
      BY <1>1, <2>2, <3>1 DEF RowsInv, OwnBeforeWrite, Underway
    <3>3. (r.method = "submit" /\ ~lost /\ r.cid \notin hasty /\ book[r.cid].st = "none")
             => pend[r.cid] = "pending"
      BY <1>1, <2>2, <3>1 DEF RowsInv, StrayPending
    <3>4. QED BY <1>1, <2>2, <2>3, <3>2, <3>3, RowsOutcome
  <2>5. CallOwned'
    BY <1>1, <2>1 DEF RowsInv, CallOwned, ArrivesLate, fileVars, callVars
  <2>6. RetireSettled'
    <3>1. UNCHANGED <<pc, method, reply, cid>>
      BY <2>1 DEF ArrivesLate, callVars
    <3>2. SUFFICES ASSUME Retiring PROVE Settled(cid)'
      BY <3>1 DEF RetireSettled, Retiring
    <3>3. Settled(cid) /\ cid \in Cids /\ TypeOK
      BY <1>1, <3>2 DEF RowsInv, RetireSettled, TypeOK, Retiring
    <3>4. r.cid = cid => \/ o.st = book[cid].st
                         \/ o.st \notin Live \cup {"none"}
                         \/ book[cid].st = "none" /\ Underway(cid)
      BY <1>1, <2>2, <2>3 DEF Outcome, Plainly, Live, Underway, RowsInv, TypeOK, Order
    <3>5. book'[cid] = IF r.cid = cid THEN o ELSE book[cid]
      BY <2>2, <2>3, <3>3 DEF TypeOK
    <3>6. Underway(cid)' => Underway(cid)
      BY <2>2, <3>1 DEF Underway
    <3>7. QED BY <2>2, <3>1, <3>3, <3>4, <3>5, <3>6 DEF Settled, Live
  <2>7. QED BY <1>2, <2>4, <2>5, <2>6 DEF RowsInv
<1>14. CASE \E r \in stray : Lose(r)
  <2>1. /\ stray' \subseteq stray
        /\ UNCHANGED <<pend, lost, book, hasty, pc, method, reply, cid, intent>>
    BY <1>14 DEF Lose, fileVars, callVars, histVars
  <2>2. ASSUME NEW c, Underway(c)' PROVE Underway(c)
    BY <2>1, <2>2 DEF Underway
  <2>3. OwnBeforeWrite'
    BY <1>1, <2>1 DEF RowsInv, OwnBeforeWrite
  <2>4. LiveIsPending' /\ StrayPending' /\ CallOwned'
    BY <1>1, <2>1, <2>2 DEF RowsInv, LiveIsPending, StrayPending, CallOwned
  <2>5. RetireSettled'
    BY <1>1, <2>1, <2>2 DEF RowsInv, RetireSettled, Retiring, Settled
  <2>6. QED BY <1>2, <2>3, <2>4, <2>5 DEF RowsInv
<1>15. CASE \E c \in Cids, st \in {"filled", "canceled"} : Ends(c, st)
  <2>1. PICK c \in Cids, st \in {"filled", "canceled"} : Ends(c, st)
    BY <1>15
  <2>2. /\ book[c].st = "working" /\ book' = [book EXCEPT ![c] = [book[c] EXCEPT !.st = st]]
        /\ UNCHANGED <<pend, lost, stray, hasty, pc, method, reply, cid, intent>>
    BY <1>1, <2>1 DEF Ends, fileVars, callVars, histVars, RowsInv, TypeOK
  <2>3. ASSUME NEW d \in Cids
        PROVE  /\ d # c => book'[d] = book[d]
               /\ d = c => book'[d].st = st
    BY <1>1, <2>2 DEF RowsInv, TypeOK, Order
  <2>4. OwnBeforeWrite'
    BY <1>1, <2>2, <2>3 DEF RowsInv, OwnBeforeWrite
  <2>5. LiveIsPending'
    BY <1>1, <2>2, <2>3 DEF RowsInv, LiveIsPending
  <2>6. StrayPending' /\ CallOwned'
    BY <1>1, <2>1, <2>2, <2>3 DEF RowsInv, StrayPending, CallOwned, Underway
  <2>7. RetireSettled'
    <3>1. SUFFICES ASSUME Retiring PROVE Settled(cid)'
      BY <2>2 DEF RetireSettled, Retiring
    <3>2. Settled(cid) /\ cid \in Cids
      BY <1>1, <3>1 DEF RowsInv, RetireSettled, TypeOK, Retiring
    <3>3. CASE cid = c
      BY <2>2, <3>2, <3>3 DEF Settled, Live
    <3>4. CASE cid # c
      BY <2>2, <2>3, <3>2, <3>4 DEF Settled, Underway
    <3>5. QED BY <3>3, <3>4
  <2>8. QED BY <1>2, <2>4, <2>5, <2>6, <2>7 DEF RowsInv
<1>16. QED BY <1>1, <1>3, <1>4, <1>5, <1>6, <1>7, <1>8, <1>9, <1>10, <1>11, <1>12,
              <1>13, <1>14, <1>15 DEF Next, Manager, Caller, Broker

LEMMA RowsInvariant == Spec => []RowsInv
<1>1. Init => RowsInv
  BY InitType DEF Init, RowsInv, CallInv, Owes, OwnBeforeWrite, LiveIsPending, CallOwned,
                  StrayPending, RetireSettled, Retiring, Underway
<1>2. QED BY <1>1, RowsStep, PTL DEF Spec

\* "Own-before-write": whatever the broker has, or may still be handed, has had
\* its row on disk, as long as no row was lost behind a line cut short.
THEOREM RowBeforeOrder == Spec => []OwnBeforeWrite
BY RowsInvariant, PTL DEF RowsInv

\* An order that works, or has been filled, has a row that is not retired,
\* unless the broker denied it while one of its submits was still on its way.
THEOREM LiveOrderHasRow == Spec => []LiveIsPending
BY RowsInvariant, PTL DEF RowsInv

----------------------------------------------------------------------------
(* Whose order an answer is about.                                         *)
(*                                                                         *)
(* The broker knows an order by its id alone, so "submitted" and           *)
(* "duplicate" tell of the caller's own order only if no two intents share *)
(* an id.  The code does not see to that: here it is an assumption.        *)

DistinctIds == \A i, j \in Intents : CidOf(i) = CidOf(j) => i = j

Acknowledged == \/ method = "submit" /\ reply \in {"working", "duplicate"}
                \/ method = "query" /\ reply \notin {None, "not_found", "odd"}

BookMine    == \A c \in Cids :
                 book[c].st # "none" => book[c].by \in Intents /\ CidOf(book[c].by) = c
StrayMine   == \A r \in stray :
                 r.method = "submit" => r.by \in Intents /\ CidOf(r.by) = r.cid
ReplyBacked == (pc = "wait" /\ Acknowledged) => book[cid].st # "none"
ResultBacked == \A i \in Intents \ vague :
                 result[i] \in {"submitted", "duplicate"} => book[CidOf(i)].st # "none"

MineInv == /\ TypeOK /\ CallInv
           /\ BookMine /\ StrayMine /\ ReplyBacked /\ ResultBacked

\* A step of the manager that leaves the broker alone.
LEMMA MineCall ==
  ASSUME MineInv, TypeOK', CallInv', UNCHANGED book, StrayMine', ReplyBacked',
         ResultBacked'
  PROVE  MineInv'
<1>1. BookMine'
  BY DEF MineInv, BookMine
<1>2. QED BY <1>1 DEF MineInv

\* The broker acts on a request for one of the intents.
LEMMA MineOutcome ==
  ASSUME MineInv, NEW m, NEW c \in Cids, NEW i, NEW o \in Order, NEW a,
         Outcome(m, c, i, o, a), book' = [book EXCEPT ![c] = o], UNCHANGED <<result, vague>>,
         m = "submit" => i \in Intents /\ CidOf(i) = c
  PROVE  /\ BookMine' /\ ResultBacked'
         /\ \A d \in Cids : book[d].st # "none" => book'[d].st # "none"
<1>1. ASSUME NEW d \in Cids PROVE book'[d] = IF d = c THEN o ELSE book[d]
  BY DEF MineInv, TypeOK
<1>2. \/ o = book[c]
      \/ m = "submit" /\ book[c].st = "none" /\ o.by = i
      \/ book[c].st = "working" /\ o = [book[c] EXCEPT !.st = "canceled"]
  BY DEF Outcome, Plainly
<1>3. book[c] \in Order
  BY DEF MineInv, TypeOK
<1>4. book[c].st # "none" => o.st # "none" /\ o.by = book[c].by
  BY <1>2, <1>3 DEF Order
<1>5. o.st # "none" => book[c].st # "none" \/ (m = "submit" /\ o.by = i)
  BY <1>2, <1>3 DEF Order
<1>6. BookMine'
  BY <1>1, <1>4, <1>5 DEF MineInv, BookMine
<1>7. \A d \in Cids : book[d].st # "none" => book'[d].st # "none"
  BY <1>1, <1>4
<1>8. ResultBacked'
  BY <1>7, CidType DEF MineInv, ResultBacked
<1>9. QED BY <1>6, <1>7, <1>8

\* A request given up on goes on naming the intent it was made from.
LEMMA MineGiveUp ==
  ASSUME MineInv, pc # "idle", GiveUp
  PROVE  StrayMine'
<1>1. CASE stray' = stray
  BY <1>1 DEF MineInv, StrayMine
<1>2. CASE stray' = stray \cup {[method |-> method, cid |-> cid, by |-> intent]}
  <2>1. method = "submit" => intent \in Intents /\ CidOf(intent) = cid
    BY DEF MineInv, CallInv, TypeOK
  <2>2. QED BY <1>2, <2>1 DEF MineInv, StrayMine
<1>3. QED BY <1>1, <1>2 DEF GiveUp

\* The results stay, but for the one the call returns.
LEMMA MineReturn ==
  ASSUME MineInv, pc # "idle", UNCHANGED book, vague \subseteq vague', NEW s, Return(s),
         (s \in {"submitted", "duplicate"} /\ intent # None)
           => book[cid].st # "none" \/ intent \in vague'
  PROVE  ResultBacked' /\ ReplyBacked'
<1>1. ReplyBacked'
  BY DEF Return, NoCall, ReplyBacked
<1>2. CASE intent = None
  BY <1>1, <1>2 DEF MineInv, Return, ResultBacked
<1>3. CASE intent # None
  <2>1. cid = CidOf(intent) /\ intent \in Intents
    BY <1>3 DEF MineInv, CallInv, TypeOK
  <2>2. ASSUME NEW i \in Intents PROVE result'[i] = IF i = intent THEN s ELSE result[i]
    BY <1>3, <2>1 DEF Return, MineInv, TypeOK
  <2>3. QED BY <1>1, <1>3, <2>1, <2>2 DEF MineInv, ResultBacked
<1>4. QED BY <1>1, <1>2, <1>3

LEMMA MineRetry ==
  ASSUME MineInv, pc # "idle", UNCHANGED book, vague \subseteq vague',
         NEW s \in {"timeout", "unavailable"}, RetryOrReturn(s)
  PROVE  ResultBacked' /\ ReplyBacked'
<1>1. CASE Ask("query", "send")
  BY <1>1 DEF Ask, MineInv, ResultBacked, ReplyBacked
<1>2. CASE Return(s)
  BY <1>2, MineReturn
<1>3. QED BY <1>1, <1>2 DEF RetryOrReturn

LEMMA MineStep == MineInv /\ [Next]_vars => MineInv'
<1>1. SUFFICES ASSUME MineInv, [Next]_vars PROVE MineInv'
  OBVIOUS
<1>2. TypeOK' /\ CallInv'
  BY <1>1, TypeStep, CallStep DEF MineInv
<1>3. CASE UNCHANGED <<book, stray, pc, method, cid, reply, result, vague>>
  BY <1>1, <1>2, <1>3, MineCall
    DEF MineInv, StrayMine, ReplyBacked, ResultBacked, Acknowledged
<1>4. CASE \E i \in Intents, c \in Cids \cup {None}, m \in Methods, f \in {"row", "send"},
              n \in Nat : Call(i, c, m, f, n) \/ Call(None, c, m, f, n)
  <2>1. ReplyBacked' /\ StrayMine' /\ UNCHANGED book
    BY <1>1, <1>4 DEF Call, netVars, ReplyBacked, MineInv, StrayMine
  <2>2. ResultBacked'
    <3>1. ASSUME NEW i \in Intents
          PROVE  result'[i] = None \/ (result'[i] = result[i] /\ (i \in vague => i \in vague'))
      <4>1. \E j \in Intents \cup {None} :
              /\ result' = IF j = None THEN result ELSE [result EXCEPT ![j] = None]
              /\ vague' = vague \ {j}
        BY <1>4 DEF Call
      <4>2. PICK j \in Intents \cup {None} :
              /\ result' = IF j = None THEN result ELSE [result EXCEPT ![j] = None]
              /\ vague' = vague \ {j}
        BY <4>1
      <4>3. result \in [Intents -> Statuses \cup {None}] /\ None \notin Intents
        BY <1>1, ManagerAssumption DEF MineInv, TypeOK
      <4>4. QED BY <4>2, <4>3
    <3>2. None \notin {"submitted", "duplicate"}
      BY ManagerAssumption, StatusSet
    <3>3. QED BY <1>1, <2>1, <3>1, <3>2 DEF MineInv, ResultBacked
  <2>3. QED BY <1>1, <1>2, <2>1, <2>2, MineCall
<1>5. CASE WritePending \/ Send
  <2>1. UNCHANGED <<netVars, result, vague, cid, method, reply>> /\ (pc' = "wait" => pc = "send")
    BY <1>5 DEF WritePending, Send, histVars
  <2>2. pc = "send" => reply = None
    BY <1>1 DEF MineInv, CallInv
  <2>3. None \notin {"working", "duplicate"}
    BY ManagerAssumption DEF Answers, OrderSt
  <2>4. ReplyBacked'
    BY <2>1, <2>2, <2>3 DEF ReplyBacked, Acknowledged
  <2>5. StrayMine' /\ ResultBacked' /\ UNCHANGED book
    BY <1>1, <2>1 DEF netVars, MineInv, StrayMine, ResultBacked
  <2>6. QED BY <1>1, <1>2, <2>4, <2>5, MineCall
<1>6. CASE NoAnswer
  <2>1. pc = "wait" /\ pc # "idle" /\ GiveUp /\ UNCHANGED <<book, vague>> /\ AfterSilence
    BY <1>6 DEF NoAnswer
  <2>2. ResultBacked' /\ ReplyBacked'
    BY <1>1, <2>1, MineReturn, MineRetry DEF AfterSilence
  <2>3. QED BY <1>1, <1>2, <2>1, <2>2, MineGiveUp, MineCall
<1>7. CASE Answered
  <2>1. /\ pc = "wait" /\ pc # "idle" /\ reply # None /\ UNCHANGED <<book, stray>>
        /\ vague \subseteq vague'
    BY <1>7 DEF Answered, netVars
  <2>2. ASSUME NEW s, Return(s), s \notin {"submitted", "duplicate"}
        PROVE  ResultBacked' /\ ReplyBacked'
    BY <1>1, <2>1, <2>2, MineReturn
  <2>3. ASSUME NEW s, Return(s), Acknowledged PROVE ResultBacked' /\ ReplyBacked'
    BY <1>1, <2>1, <2>3, MineReturn DEF MineInv, ReplyBacked
  <2>4. ASSUME pc' # "wait", UNCHANGED result PROVE ResultBacked' /\ ReplyBacked'
    BY <1>1, <2>1, <2>4 DEF MineInv, ResultBacked, ReplyBacked
  <2>5. ASSUME NEW s, Retire(s) PROVE ResultBacked' /\ ReplyBacked'
    BY <2>4, <2>5 DEF Retire
  <2>6. ASSUME SubmitAnswered PROVE ResultBacked' /\ ReplyBacked'
    BY <1>1, <2>1, <2>2, <2>3, <2>5, <2>6, MineRetry DEF SubmitAnswered, Acknowledged
  <2>7. ASSUME QueryAnswered PROVE ResultBacked' /\ ReplyBacked'
    <3>1. CASE reply = "odd"
      <4>1. intent \in vague' /\ Return("submitted")
        BY <1>7, <2>7, <3>1 DEF Answered, QueryAnswered
      <4>2. QED BY <1>1, <2>1, <4>1, MineReturn
    <3>2. CASE reply # "odd"
      BY <2>1, <2>3, <2>4, <2>7, <3>2 DEF QueryAnswered, Ask, Acknowledged
    <3>3. QED BY <3>1, <3>2
  <2>8. ASSUME CancelAnswered PROVE ResultBacked' /\ ReplyBacked'
    BY <2>2, <2>5, <2>8 DEF CancelAnswered
  <2>9. ASSUME ReplaceAnswered PROVE ResultBacked' /\ ReplyBacked'
    BY <2>2, <2>9 DEF ReplaceAnswered
  <2>10. ResultBacked' /\ ReplyBacked'
    BY <1>7, <2>6, <2>7, <2>8, <2>9 DEF Answered
  <2>11. StrayMine'
    BY <1>1, <2>1 DEF MineInv, StrayMine
  <2>12. QED BY <1>1, <1>2, <2>1, <2>10, <2>11, MineCall
<1>8. CASE WriteResolution
  <2>1. pc # "idle" /\ UNCHANGED <<book, stray, vague>> /\ Return(ending)
    BY <1>8 DEF WriteResolution, netVars
  <2>2. ending \notin {"submitted", "duplicate"}
    BY <1>1 DEF MineInv, TypeOK, Retired
  <2>3. ResultBacked' /\ ReplyBacked'
    BY <1>1, <2>1, <2>2, MineReturn
  <2>4. StrayMine'
    BY <1>1, <2>1 DEF MineInv, StrayMine
  <2>5. QED BY <1>1, <1>2, <2>1, <2>3, <2>4, MineCall
<1>9. CASE Crash
  <2>1. pc # "idle" /\ GiveUp /\ UNCHANGED <<book, result, vague>> /\ pc' = "idle"
    BY <1>9 DEF Crash, NoCall
  <2>2. ResultBacked' /\ ReplyBacked'
    BY <1>1, <2>1 DEF MineInv, ResultBacked, ReplyBacked
  <2>3. QED BY <1>1, <1>2, <2>1, <2>2, MineGiveUp, MineCall
<1>10. CASE Arrives
  <2>1. /\ pc = "wait" /\ cid \in Cids
        /\ UNCHANGED <<stray, method, intent, cid, result, vague>>
    BY <1>1, <1>10 DEF Arrives, MineInv, TypeOK
  <2>2. PICK o \in Order, a \in Answers :
          /\ Outcome(method, cid, intent, o, a)
          /\ book' = [book EXCEPT ![cid] = o] /\ reply' = a
    BY <1>10 DEF Arrives
  <2>3. method = "submit" => intent \in Intents /\ CidOf(intent) = cid
    BY <1>1, <2>1 DEF MineInv, CallInv, TypeOK
  <2>4. BookMine' /\ ResultBacked'
    BY <1>1, <2>1, <2>2, <2>3, MineOutcome
  <2>5. ReplyBacked'
    <3>1. book'[cid] = o
      BY <1>1, <2>1, <2>2 DEF MineInv, TypeOK
    <3>2. SUFFICES ASSUME Acknowledged' PROVE o.st # "none"
      BY <2>1, <3>1 DEF ReplyBacked
    <3>3. QED BY <2>1, <2>2, <3>2 DEF Acknowledged, Outcome, Plainly, Answers
  <2>6. StrayMine'
    BY <1>1, <2>1 DEF MineInv, StrayMine
  <2>7. QED BY <1>2, <2>4, <2>5, <2>6 DEF MineInv
<1>11. CASE \E r \in stray : ArrivesLate(r)
  <2>1. PICK r \in stray : ArrivesLate(r)
    BY <1>11
  <2>2. /\ r.cid \in Cids /\ stray' \subseteq stray
        /\ UNCHANGED <<pc, method, cid, reply, result, vague>>
    BY <1>1, <2>1 DEF MineInv, TypeOK, Requests, ArrivesLate, callVars, histVars
  <2>3. PICK o \in Order, a \in Answers :
          Outcome(r.method, r.cid, r.by, o, a) /\ book' = [book EXCEPT ![r.cid] = o]
    BY <2>1 DEF ArrivesLate
  <2>4. r.method = "submit" => r.by \in Intents /\ CidOf(r.by) = r.cid
    BY <1>1 DEF MineInv, StrayMine
  <2>5. /\ BookMine' /\ ResultBacked'
        /\ \A d \in Cids : book[d].st # "none" => book'[d].st # "none"
    BY <1>1, <2>2, <2>3, <2>4, MineOutcome
  <2>6. StrayMine'
    BY <1>1, <2>2 DEF MineInv, StrayMine
  <2>7. ReplyBacked'
    BY <1>1, <2>2, <2>5 DEF MineInv, ReplyBacked, Acknowledged, TypeOK
  <2>8. QED BY <1>2, <2>5, <2>6, <2>7 DEF MineInv
<1>12. CASE \E r \in stray : Lose(r)
  <2>1. stray' \subseteq stray /\ UNCHANGED <<book, pc, method, cid, reply, result, vague>>
    BY <1>12 DEF Lose, callVars, histVars
  <2>2. StrayMine' /\ ResultBacked' /\ ReplyBacked'
    BY <1>1, <2>1 DEF MineInv, StrayMine, ResultBacked, ReplyBacked, Acknowledged
  <2>3. QED BY <1>1, <1>2, <2>1, <2>2, MineCall
<1>13. CASE \E c \in Cids, st \in {"filled", "canceled"} : Ends(c, st)
  <2>1. PICK c \in Cids, st \in {"filled", "canceled"} : Ends(c, st)
    BY <1>13
  <2>2. /\ book[c].st = "working" /\ book' = [book EXCEPT ![c] = [book[c] EXCEPT !.st = st]]
        /\ UNCHANGED <<stray, pc, method, cid, reply, result, vague>>
    BY <1>1, <2>1 DEF Ends, callVars, histVars, MineInv, TypeOK
  <2>3. ASSUME NEW d \in Cids
        PROVE  book'[d].by = book[d].by /\ (book'[d].st # "none" <=> book[d].st # "none")
    BY <1>1, <2>2 DEF MineInv, TypeOK, Order
  <2>4. BookMine' /\ StrayMine'
    BY <1>1, <2>2, <2>3 DEF MineInv, BookMine, StrayMine
  <2>5. ResultBacked'
    BY <1>1, <2>2, <2>3, CidType DEF MineInv, ResultBacked
  <2>6. ReplyBacked'
    BY <1>1, <2>2, <2>3 DEF MineInv, ReplyBacked, Acknowledged, TypeOK
  <2>7. QED BY <1>2, <2>4, <2>5, <2>6 DEF MineInv
<1>14. CASE Caller
  <2>1. ASSUME NEW i \in Intents, NEW n \in {1, Attempts}, Submit(i, n)
        PROVE  \E k \in Nat : Call(i, CidOf(i), "submit", "row", k)
    <3>1. n - 1 \in Nat
      BY ManagerAssumption
    <3>2. QED BY <2>1, <3>1 DEF Submit
  <2>2. ASSUME NEW c \in Cids, Cancel(c) \/ Replace(c)
        PROVE  \E m \in Methods : Call(None, c, m, "send", 0)
    BY <2>2 DEF Cancel, Replace, Methods
  <2>3. Cids # {} => Intents # {}
    BY DEF Cids
  <2>4. "submit" \in Methods
    BY DEF Methods
  <2>5. QED BY <1>4, <1>14, <2>1, <2>2, <2>3, <2>4, CidType DEF Caller
<1>15. CASE UNCHANGED vars
  BY <1>3, <1>15 DEF vars, netVars, callVars, histVars
<1>16. QED BY <1>1, <1>5, <1>6, <1>7, <1>8, <1>9, <1>10, <1>11, <1>12, <1>13, <1>14,
              <1>15 DEF Next, Manager, Broker

\* A result of "submitted" or "duplicate" tells of this intent's own order, if
\* no two intents share a client_order_id, and no query behind it was answered
\* without a status the code knows.
THEOREM AnswersTellOfOwnOrder ==
  ASSUME DistinctIds
  PROVE  Spec => []AnswersAreMine
<1>1. Init => MineInv
  <2>1. None \notin {"submitted", "duplicate"}
    BY ManagerAssumption, StatusSet
  <2>2. QED BY <2>1, InitType DEF Init, MineInv, CallInv, Owes, BookMine, StrayMine, ReplyBacked,
                  ResultBacked
<1>2. MineInv => AnswersAreMine
  BY DistinctIds, CidType DEF MineInv, BookMine, ResultBacked, AnswersAreMine, DistinctIds
<1>3. QED BY <1>1, <1>2, MineStep, PTL DEF Spec

===============================================================================
