----------------------------- MODULE OrderManager -----------------------------
(***************************************************************************)
(* OrderManager (order/manager.py): one caller submits, cancels and        *)
(* replaces orders at a broker that may lose a request, answer nothing, or *)
(* act on a request long after its caller has given it up.  What survives  *)
(* a crash is pending.jsonl: a row before every submission, and a second   *)
(* row that retires it.  A crash may cut a row short, where it is not read, *)
(* or before its newline, where it is, until the next row continues it.    *)
(*                                                                         *)
(* The broker is outside the repository; it is modelled from how the code  *)
(* talks to it: a client_order_id is taken once (422 on the second), a     *)
(* refusal may leave no order behind, a query tells what there is; any     *)
(* answer may come without a status the code knows, as {} or an error body. *)
(***************************************************************************)
EXTENDS Integers

CONSTANTS
  Intents,      \* [origin, key, leg]: what the session engine wants to send
  None,         \* "no intent", "no answer"
  Attempts,     \* the `attempts` of submit_with_retry
  TearsLines,   \* a crash may cut the line being appended short
  MaxCalls, MaxCrashes     \* bounds of the model

CidWithoutLeg(i) == <<i.key>>

\* client_order_id(sleeve, key, leg): the key is the setup of an entry, the
\* symbol of a stop or of a flatten order; the origin is what it leaves out.
CidOf(i) == <<i.key, i.leg>>
Cids     == {CidOf(i) : i \in Intents}

Methods  == {"submit", "query", "cancel", "replace"}
OrderSt  == {"none", "working", "filled", "rejected", "canceled"}
Order    == [st: OrderSt, by: Intents \cup {None}]
Answers  == (OrderSt \ {"none"}) \cup {"duplicate", "not_found", "odd"}
Retired  == {"rejected", "canceled", "not_found"}
Statuses == {"submitted", "duplicate", "replaced", "timeout", "unavailable"} \cup Retired

ASSUME ManagerAssumption ==
  /\ None \notin Intents /\ None \notin Answers \cup Statuses
  /\ Attempts \in Nat \ {0} /\ TearsLines \in BOOLEAN
  /\ MaxCalls \in Nat /\ MaxCrashes \in Nat

VARIABLES
  pend,       \* pending.jsonl: the status of the last readable row of each id
  solid,      \* the same, by the rows that end in a newline
  cut,        \* its last line has no newline
  lost,       \* a row was lost behind such a line
  book,       \* the broker: each id's order, and the intent it was made from
  stray,      \* submits and cancels given up on that may still arrive
  pc, method, intent, cid,    \* the call in hand, and its current request
  asked,      \* that request is on its way
  reply,      \* the broker's answer to it
  ending,     \* the status the resolution row will carry
  tries,      \* queries submit_with_retry may still make
  result,     \* the last SubmitResult of each intent
  calls, crashes,    \* how much of each bound is used
  owed,       \* history: submits of this call the broker has not denied
  hasty,      \* history: ids denied while a submit was still on its way
  vague       \* history: intents whose result rests on a query answered oddly

fileVars == <<pend, solid, cut, lost>>
netVars  == <<book, stray>>
callVars == <<pc, method, intent, cid, asked, reply, ending, tries>>
histVars == <<owed, hasty, vague>>
vars == <<fileVars, netVars, callVars, result, calls, crashes, histVars>>

----------------------------------------------------------------------------
Init ==
  /\ pend = [c \in Cids |-> "none"] /\ solid = pend /\ cut = FALSE /\ lost = FALSE
  /\ book = [c \in Cids |-> [st |-> "none", by |-> None]] /\ stray = {}
  /\ pc = "idle" /\ method = "query" /\ intent = None /\ cid = None
  /\ asked = FALSE /\ reply = None /\ ending = "rejected" /\ tries = 0
  /\ result = [i \in Intents |-> None]
  /\ calls = 0 /\ crashes = 0
  /\ owed = 0 /\ hasty = {} /\ vague = {}

\* _atomic_append: behind a line without newline the row becomes part of that
\* line, and a row that was read there is read no more.
AppendRow(status) ==
  /\ cut' = FALSE /\ lost' = (lost \/ cut)
  /\ pend' = IF cut THEN solid ELSE [pend EXCEPT ![cid] = status]
  /\ solid' = pend'

CutShort ==
  /\ cut' = TRUE /\ lost' = (lost \/ pend # solid)
  /\ pend' = solid /\ UNCHANGED solid

CutBeforeNewline(status) ==
  /\ ~cut /\ cut' = TRUE
  /\ pend' = [pend EXCEPT ![cid] = status]
  /\ UNCHANGED <<solid, lost>>

NoCall ==
  /\ pc' = "idle" /\ method' = "query" /\ intent' = None /\ cid' = None
  /\ asked' = FALSE /\ reply' = None /\ ending' = "rejected" /\ tries' = 0
  /\ owed' = 0

\* The call returns: what a submission came to is kept for the properties.
Return(status) ==
  /\ NoCall
  /\ result' = IF intent = None THEN result ELSE [result EXCEPT ![intent] = status]

----------------------------------------------------------------------------
(* The caller. *)

Call(i, c, m, first, queries) ==
  /\ pc = "idle" /\ calls < MaxCalls
  /\ calls' = calls + 1
  /\ pc' = first /\ method' = m /\ intent' = i /\ cid' = c /\ tries' = queries
  /\ result' = IF i = None THEN result ELSE [result EXCEPT ![i] = None]
  /\ vague' = vague \ {i}
  /\ UNCHANGED <<fileVars, netVars, asked, reply, ending, crashes, owed, hasty>>

\* submit is submit_with_retry with one attempt.
Submit(i, attempts) == Call(i, CidOf(i), "submit", "row", attempts - 1)
Cancel(c)           == Call(None, c, "cancel", "send", 0)
Replace(c)          == Call(None, c, "replace", "send", 0)

----------------------------------------------------------------------------
(* The manager. *)

SkipPending ==
  /\ pc = "row"
  /\ pc' = "send"
  /\ UNCHANGED <<fileVars, netVars, method, intent, cid, asked, reply, ending,
                 tries, result, calls, crashes, histVars>>

\* Own-before-write.
WritePending ==
  /\ pc = "row"
  /\ AppendRow("pending")
  /\ pc' = "send"
  /\ UNCHANGED <<netVars, method, intent, cid, asked, reply, ending, tries,
                 result, calls, crashes, histVars>>

Send ==
  /\ pc = "send"
  /\ pc' = "wait" /\ asked' = TRUE
  /\ owed' = IF method = "submit" THEN owed + 1 ELSE owed
  /\ UNCHANGED <<fileVars, netVars, method, intent, cid, reply, ending, tries,
                 result, calls, crashes, hasty, vague>>

\* _call gives up: a timeout, another exception, no body.  The request may be
\* lost, or still be on its way.
GiveUp ==
  LET request == [method |-> method, cid |-> cid, by |-> intent]
  IN  stray' \in {stray} \cup
        (IF asked /\ method \in {"submit", "cancel"} THEN {stray \cup {request}}
                                                     ELSE {})

Ask(m, first) ==
  /\ pc' = first /\ method' = m /\ asked' = FALSE /\ reply' = None
  /\ UNCHANGED <<intent, cid, ending, result>>

RetryOrReturnNever(status) ==
  /\ Ask("query", "send")
  /\ UNCHANGED <<tries, owed>>

\* submit_with_retry: an uncertain outcome is queried, while attempts are left.
RetryOrReturn(status) ==
  \/ /\ tries > 0
     /\ Ask("query", "send") /\ tries' = tries - 1
     /\ UNCHANGED owed
  \/ tries = 0 /\ Return(status)

AfterSilenceResend ==
  \/ method = "submit" /\ \E s \in {"timeout", "unavailable"} : RetryOrReturn(s)
  \/ method = "query" /\ Ask("submit", "row") /\ UNCHANGED <<tries, owed>>
  \/ method \in {"cancel", "replace"} /\ Return("unavailable")

\* A query without an answer ends the call: no resend on ignorance.
AfterSilence ==
  \/ method = "submit" /\ \E s \in {"timeout", "unavailable"} : RetryOrReturn(s)
  \/ method \in {"query", "cancel", "replace"} /\ Return("unavailable")

NoAnswer ==
  /\ pc = "wait"
  /\ GiveUp /\ AfterSilence
  /\ UNCHANGED <<fileVars, book, calls, crashes, hasty, vague>>

\* The resolution row comes first, then the result.
Retire(status) ==
  /\ pc' = "resolve" /\ ending' = status
  /\ asked' = FALSE /\ reply' = None
  /\ UNCHANGED <<method, intent, cid, tries, result, owed>>

SubmitRetiresDuplicate ==
  /\ method = "submit"
  /\ \/ reply = "working" /\ Return("submitted")
     \/ reply = "not_found" /\ Return(reply)
     \/ reply \in {"rejected", "canceled", "duplicate"} /\ Retire("rejected")
     \/ reply \in {"filled", "odd"} /\ RetryOrReturn("unavailable")

\* A status submit does not know, "filled" among them, is no answer.
SubmitAnswered ==
  /\ method = "submit"
  /\ \/ reply = "working" /\ Return("submitted")
     \/ reply \in {"duplicate", "not_found"} /\ Return(reply)
     \/ reply \in {"rejected", "canceled"} /\ Retire("rejected")
     \/ reply \in {"filled", "odd"} /\ RetryOrReturn("unavailable")

\* Whatever the query yields but not_found is "submitted": a refused order,
\* and a body that tells of no order at all.
QueryAnswered ==
  /\ method = "query"
  /\ \/ /\ reply = "not_found"
        /\ Ask("submit", "row")
        /\ owed' = owed - 1 /\ UNCHANGED tries
     \/ reply # "not_found" /\ Return("submitted")

\* A refusal to cancel leaves the row; so does a status cancel does not know.
CancelAnswered ==
  /\ method = "cancel"
  /\ \/ reply \in {"not_found", "canceled"} /\ Retire(reply)
     \/ reply = "rejected" /\ Return("rejected")
     \/ reply \in {"filled", "odd"} /\ Return("unavailable")

ReplaceAnswered ==
  /\ method = "replace"
  /\ \/ reply = "working" /\ Return("replaced")
     \/ reply \in {"rejected", "canceled"} /\ Return("rejected")
     \/ reply = "not_found" /\ Return("not_found")
     \/ reply \in {"filled", "odd"} /\ Return("unavailable")

Answered ==
  /\ pc = "wait" /\ reply # None
  /\ SubmitAnswered \/ QueryAnswered \/ CancelAnswered \/ ReplaceAnswered
  /\ vague' = IF method = "query" /\ reply = "odd" THEN vague \cup {intent} ELSE vague
  /\ UNCHANGED <<fileVars, netVars, calls, crashes, hasty>>

WriteResolution ==
  /\ pc = "resolve"
  /\ AppendRow(ending)
  /\ Return(ending)
  /\ UNCHANGED <<netVars, calls, crashes, hasty, vague>>

\* The process dies: the request it was waiting on may still be on its way, and
\* the row it was writing may be cut.
Crash ==
  /\ pc # "idle" /\ crashes < MaxCrashes
  /\ crashes' = crashes + 1
  /\ GiveUp /\ NoCall
  /\ \/ UNCHANGED fileVars
     \/ TearsLines /\ pc \in {"row", "resolve"} /\ CutShort
     \/ TearsLines /\ pc = "row" /\ CutBeforeNewline("pending")
     \/ TearsLines /\ pc = "resolve" /\ CutBeforeNewline(ending)
  /\ UNCHANGED <<book, result, calls, hasty, vague>>

----------------------------------------------------------------------------
(* The broker. *)

\* The order o and the answer a the broker may make of a request.
Plainly(m, c, i, o, a) ==
  LET had == book[c]
  IN  \/ /\ m = "submit" /\ had.st = "none"
         /\ \/ a \in {"working", "filled", "rejected"} /\ o = [st |-> a, by |-> i]
            \/ a \in {"rejected", "not_found"} /\ o = had
      \/ m = "cancel" /\ had.st = "working" /\ a = "canceled" /\ o = [had EXCEPT !.st = a]
      \/ /\ o = had
         /\ \/ m = "submit" /\ had.st # "none" /\ a = "duplicate"
            \/ m # "submit" /\ had.st = "none" /\ a = "not_found"
            \/ m = "query" /\ a = had.st
            \/ m = "replace" /\ had.st = "working" /\ a = "working"
            \/ /\ m \in {"cancel", "replace"} /\ had.st \notin {"none", "working"}
               /\ a \in {"rejected", had.st}

\* Or it acts on it, or does nothing, and answers without a status one knows.
Outcome(m, c, i, o, a) ==
  \/ Plainly(m, c, i, o, a)
  \/ a = "odd" /\ (o = book[c] \/ \E b \in Answers : Plainly(m, c, i, o, b))

\* The broker says there is no order, and one is on its way.
Hastily(c, o, a) ==
  /\ a \in {"not_found", "rejected"} /\ o.st = "none"
  /\ \E r \in stray : r.method = "submit" /\ r.cid = c

Arrives ==
  /\ pc = "wait" /\ asked
  /\ \E o \in Order, a \in Answers :
       /\ Outcome(method, cid, intent, o, a)
       /\ book' = [book EXCEPT ![cid] = o] /\ reply' = a
       /\ hasty' = IF Hastily(cid, o, a) THEN hasty \cup {cid} ELSE hasty
  /\ asked' = FALSE
  /\ UNCHANGED <<fileVars, stray, pc, method, intent, cid, ending, tries,
                 result, calls, crashes, owed, vague>>

\* A request nobody waits for any more; it stands for every copy of it.
ArrivesLate(r) ==
  /\ \E o \in Order, a \in Answers :
       Outcome(r.method, r.cid, r.by, o, a) /\ book' = [book EXCEPT ![r.cid] = o]
  /\ stray' \in {stray, stray \ {r}}
  /\ UNCHANGED <<fileVars, callVars, result, calls, crashes, histVars>>

Lose(r) ==
  /\ stray' = stray \ {r}
  /\ UNCHANGED <<fileVars, book, callVars, result, calls, crashes, histVars>>

\* A working order is filled, or ends unfilled: expired, or canceled by hand.
Ends(c, st) ==
  /\ book[c].st = "working"
  /\ book' = [book EXCEPT ![c].st = st]
  /\ UNCHANGED <<fileVars, stray, callVars, result, calls, crashes, histVars>>

----------------------------------------------------------------------------
Manager == WritePending \/ Send \/ Answered \/ WriteResolution

Caller ==
  \/ \E i \in Intents, n \in {1, Attempts} : Submit(i, n)
  \/ \E c \in Cids : Cancel(c) \/ Replace(c)

Broker ==
  \/ Arrives
  \/ \E r \in stray : ArrivesLate(r) \/ Lose(r)
  \/ \E c \in Cids, st \in {"filled", "canceled"} : Ends(c, st)

Next == Manager \/ NoAnswer \/ Caller \/ Broker \/ Crash

Spec == Init /\ [][Next]_vars

\* The manager does not stall.  That the transport answers, or gives up, is not
\* the manager's to promise: _call waits as long as the transport does.
FairSpec == Spec /\ WF_vars(Manager)

----------------------------------------------------------------------------
Requests == [method: {"submit", "cancel"}, cid: Cids, by: Intents \cup {None}]

TypeOK ==
  /\ pend \in [Cids -> {"none", "pending"} \cup Retired]
  /\ solid \in [Cids -> {"none", "pending"} \cup Retired]
  /\ cut \in BOOLEAN /\ lost \in BOOLEAN
  /\ book \in [Cids -> Order]
  /\ stray \in SUBSET Requests
  /\ pc \in {"idle", "row", "send", "wait", "resolve"} /\ method \in Methods
  /\ intent \in Intents \cup {None} /\ cid \in Cids \cup {None}
  /\ pc # "idle" => cid \in Cids
  /\ asked \in BOOLEAN /\ reply \in Answers \cup {None}
  /\ ending \in Retired /\ tries \in Nat
  /\ result \in [Intents -> Statuses \cup {None}]
  /\ calls \in Nat /\ crashes \in Nat
  /\ owed \in Int /\ hasty \in SUBSET Cids /\ vague \in SUBSET (Intents \cup {None})

\* "The pending row is on disk before the broker is called, so a crash between
\* the two leaves a recoverable record": whatever the broker has, or may still
\* be handed, has had its row.
OwnBeforeWrite ==
  ~lost => \A c \in Cids :
    (book[c].st # "none" \/ \E r \in stray : r.method = "submit" /\ r.cid = c)
      => pend[c] # "none"

\* What the recovery sweep rests on: an order that works, or has been filled,
\* has a row that is not retired - unless the broker denied it while a submit
\* the manager had given up on was still on its way.
LiveIsPending ==
  ~lost => \A c \in Cids \ hasty :
    book[c].st \in {"working", "filled"} => pend[c] = "pending"

\* "Never a blind resend": within one call, a submit is repeated only when the
\* broker has answered that it has no such order.
NoBlindResend == owed <= 1

\* "submitted" and "duplicate" tell of this intent's own order, unless the
\* query behind it was answered without a status the code knows: that answer,
\* "a failure, never a pass" by manager.py:7-9, passes for an order.
AnswersAreMine ==
  \A i \in Intents \ vague :
    result[i] \in {"submitted", "duplicate"} => book[CidOf(i)].by = i

\* A call comes to an end, however often it asks and is not answered, unless
\* the transport keeps it waiting for ever.
CallsEnd == (pc # "idle") ~> (pc = "idle" \/ [](pc = "wait"))

============================================================================
