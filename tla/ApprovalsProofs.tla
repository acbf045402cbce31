---------------------------- MODULE ApprovalsProofs ----------------------------
(* Theorems about Approvals, for every set of payloads, people and threads *)
(* and every number of calls, crashes and seconds.                         *)
EXTENDS Approvals, TLAPS

Using(c)   == c.pc \in {"claiming", "burning", "effect"}
BurntLost(a) == [kind |-> "consumed", of |-> a] \in lost
OnRecord(a)  == [kind |-> "consumed", of |-> a] \in disk \cup lost

Types ==
  /\ now \in Seconds /\ calls \in 0..MaxCalls /\ crashes \in 0..MaxCrashes
  /\ proposals \subseteq Proposals /\ approvals \subseteq Approvals
  /\ consumed \subseteq Approvals
  /\ disk \subseteq Rows /\ lost \subseteq Rows /\ bare \subseteq disk
  /\ cut \subseteq {"proposals", "approvals"}
  /\ call \in [Threads -> Calls]
  /\ answered \subseteq Approvals /\ effects \in Seq(Calls)

WritesWhole == \A t \in Threads :
  /\ call[t].pc = "storing" => call[t].proposal \in Proposals
  /\ call[t].pc = "granting" => call[t].approval \in approvals
  /\ Using(call[t]) => call[t].approval \in Approvals

(* What a restart reads is what the process knew; what was answered is     *)
(* there to be read.                                                       *)
Known ==
  /\ \A r \in disk : r.kind = "approvals" => r.of \in approvals
  /\ \A a \in answered : [kind |-> "approvals", of |-> a] \in disk \cup lost

(* A use is burnt in memory before its row is written, and its row is      *)
(* written before its effect; two uses at once raced.                      *)
Burnt ==
  /\ \A r \in disk : r.kind = "consumed" => r.of \in consumed
  /\ \A t \in Threads : call[t].pc \in {"burning", "effect"} => call[t].approval \in consumed
  /\ \A t \in Threads : call[t].pc = "effect" => OnRecord(call[t].approval)
  /\ \A i \in DOMAIN effects : OnRecord(effects[i].approval)

Apart ==
  /\ \A t, u \in Threads :
        t # u /\ Using(call[t]) /\ Using(call[u]) /\ call[t].approval = call[u].approval =>
          call[t].raced \/ call[u].raced
  /\ \A t \in Threads, i \in DOMAIN effects :
        Using(call[t]) /\ call[t].approval = effects[i].approval =>
          call[t].raced \/ effects[i].raced \/ BurntLost(effects[i].approval)

IInv == Types /\ WritesWhole /\ Known /\ Burnt /\ Apart /\ UsedOnce

(* What any append, whole or not, of a row of R does to the files: nothing *)
(* read is forgotten but what is counted as lost.                          *)
Grown(R) ==
  /\ disk \cup lost \subseteq disk' \cup lost' /\ lost \subseteq lost'
  /\ disk' \subseteq disk \cup R /\ lost' \subseteq disk \cup lost \cup R
  /\ bare' \subseteq disk' /\ cut' \subseteq {"proposals", "approvals"}

(* The rows a thread may write: what they say the process knows.           *)
Backed(r) ==
  /\ r \in Rows
  /\ r.kind = "approvals" => r.of \in approvals
  /\ r.kind = "consumed" => r.of \in consumed

LEMMA FilesKept ==
  ASSUME Types, NEW row, Whole(row) \/ CutShort(row) \/ CutBeforeNewline(row)
  PROVE  Grown({row})
<1>1. File(row.kind) \in {"proposals", "approvals"}
  BY DEF File
<1>2. Bare(File(row.kind)) \subseteq disk
  BY DEF Bare, Types
<1>3. CASE Whole(row)
  <2> DEFINE f == File(row.kind)
  <2>1. CASE f \in cut
    BY <1>1, <1>2, <1>3, <2>1 DEF Grown, Whole, Types
  <2>2. CASE f \notin cut
    BY <1>1, <1>2, <1>3, <2>2 DEF Grown, Whole, Types
  <2> QED BY <2>1, <2>2
<1>4. CASE CutShort(row)
  BY <1>1, <1>2, <1>4 DEF Grown, CutShort, Types
<1>5. CASE CutBeforeNewline(row)
  BY <1>1, <1>5 DEF Grown, CutBeforeNewline, Types
<1> QED BY <1>3, <1>4, <1>5

LEMMA FilesSame ==
  ASSUME Types, UNCHANGED files
  PROVE  Grown({})
  BY DEF Grown, Types, files

LEMMA WholeIsRead ==
  ASSUME NEW row, Whole(row)
  PROVE  row \in disk' \cup lost'
  BY DEF Whole

LEMMA RowIsBacked ==
  ASSUME IInv, NEW t \in Threads, Writing(t)
  PROVE  Backed(Row(call[t]))
<1>1. CASE call[t].pc = "storing"
  BY <1>1 DEF IInv, WritesWhole, Row, Backed, Rows
<1>2. CASE call[t].pc = "granting"
  BY <1>2 DEF IInv, WritesWhole, Types, Row, Backed, Rows
<1>3. CASE call[t].pc = "burning"
  BY <1>3 DEF IInv, WritesWhole, Burnt, Using, Row, Backed, Rows
<1> QED BY <1>1, <1>2, <1>3 DEF Writing

LEMMA InitHolds == Init => IInv
<1> SUFFICES ASSUME Init PROVE IInv
  OBVIOUS
<1>1. Types
  BY ApprovalsAssumption DEF Init, Types, Seconds, Idle, Calls
<1>2. WritesWhole /\ Known /\ Burnt /\ Apart /\ UsedOnce
  BY DEF Init, WritesWhole, Known, Burnt, Apart, UsedOnce, Using, Idle
<1> QED BY <1>1, <1>2 DEF IInv

LEMMA IdleIsACall == Idle \in Calls /\ ~Using(Idle) /\ Idle.pc = "idle"
  BY ApprovalsAssumption DEF Idle, Calls, Seconds, Using

(* A thread that takes up a call, or ends one, leaves the others.          *)
LEMMA CallChanges ==
  ASSUME Types, NEW t \in Threads, NEW c \in Calls, call' = [call EXCEPT ![t] = c]
  PROVE  /\ call' \in [Threads -> Calls] /\ call'[t] = c
         /\ \A u \in Threads : u # t => call'[u] = call[u]
  BY DEF Types

LEMMA ProposeKeeps ==
  ASSUME IInv, NEW t \in Threads, NEW payload \in Payloads, Propose(t, payload)
  PROVE  IInv'
<1> DEFINE q == [payload |-> payload, at |-> now]
           c == [Idle EXCEPT !.pc = "storing", !.proposal = q]
<1> USE DEF IInv
<1>1. q \in Proposals /\ c \in Calls /\ c.pc = "storing" /\ c.proposal = q
  BY IdleIsACall DEF Types, Proposals, Calls, Idle
<1>2. /\ call[t] = Idle /\ call' = [call EXCEPT ![t] = c] /\ calls < MaxCalls /\ calls' = calls + 1
      /\ proposals' = proposals \cup {q}
      /\ UNCHANGED <<now, approvals, consumed, disk, cut, bare, lost, crashes, answered, effects>>
  BY DEF Propose, Called, files
<1> HIDE DEF c, q
<1>3. /\ call' \in [Threads -> Calls] /\ call'[t] = c
      /\ \A u \in Threads : u # t => call'[u] = call[u]
  BY <1>1, <1>2, CallChanges
<1>4. Types'
  BY <1>1, <1>2, <1>3, ApprovalsAssumption DEF Types
<1>5. ~Using(c)
  BY <1>1 DEF Using
<1>6. WritesWhole'
  BY <1>1, <1>2, <1>3, <1>5 DEF WritesWhole, Using
<1>7. Known' /\ Burnt'
  BY <1>1, <1>2, <1>3 DEF Known, Burnt, OnRecord
<1>8. Apart' /\ UsedOnce'
  BY <1>2, <1>3, <1>5 DEF Apart, UsedOnce, Using, BurntLost
<1> QED BY <1>4, <1>6, <1>7, <1>8

LEMMA ApproveKeeps ==
  ASSUME IInv, NEW t \in Threads, NEW q \in proposals, NEW who \in People, Approve(t, q, who)
  PROVE  IInv'
<1> DEFINE a == [proposal |-> q, by |-> who, at |-> now]
           c == [Idle EXCEPT !.pc = "granting", !.approval = a]
<1> USE DEF IInv
<1>1. a \in Approvals /\ c \in Calls /\ c.pc = "granting" /\ c.approval = a
  BY IdleIsACall DEF Types, Approvals, Calls, Idle
<1>2. /\ call[t] = Idle /\ call' = [call EXCEPT ![t] = c] /\ calls < MaxCalls /\ calls' = calls + 1
      /\ approvals' = approvals \cup {a}
      /\ UNCHANGED <<now, proposals, consumed, disk, cut, bare, lost, crashes, answered, effects>>
  BY DEF Approve, Called, files
<1> HIDE DEF c, a
<1>3. /\ call' \in [Threads -> Calls] /\ call'[t] = c
      /\ \A u \in Threads : u # t => call'[u] = call[u]
  BY <1>1, <1>2, CallChanges
<1>4. Types'
  BY <1>1, <1>2, <1>3, ApprovalsAssumption DEF Types
<1>5. ~Using(c)
  BY <1>1 DEF Using
<1>6. WritesWhole'
  BY <1>1, <1>2, <1>3, <1>5 DEF WritesWhole, Using
<1>7. Known' /\ Burnt'
  BY <1>1, <1>2, <1>3 DEF Known, Burnt, OnRecord
<1>8. Apart' /\ UsedOnce'
  BY <1>2, <1>3, <1>5 DEF Apart, UsedOnce, Using, BurntLost
<1> QED BY <1>4, <1>6, <1>7, <1>8

LEMMA CheckKeeps ==
  ASSUME IInv, NEW t \in Threads, NEW tool \in Tools, NEW a \in approvals,
         NEW q \in proposals \cup {None}, Check(t, tool, q, a)
  PROVE  IInv'
<1> DEFINE raced == \E u \in Threads : call[u].pc = "claiming" /\ call[u].approval = a
           c == [pc |-> "claiming", tool |-> tool, proposal |-> q, approval |-> a,
                 checked |-> now, raced |-> raced]
<1> USE DEF IInv
<1>1. /\ c \in Calls /\ c.pc = "claiming" /\ c.approval = a /\ c.raced = raced
      /\ a \in Approvals
  BY DEF Types, Calls
<1>2. /\ call[t] = Idle /\ call' = [call EXCEPT ![t] = c] /\ calls < MaxCalls /\ calls' = calls + 1
      /\ a \notin consumed
      /\ UNCHANGED <<now, proposals, approvals, consumed, disk, cut, bare, lost, crashes, answered, effects>>
  BY DEF Check, Called, files, memory
<1> HIDE DEF c
<1>3. /\ call' \in [Threads -> Calls] /\ call'[t] = c
      /\ \A u \in Threads : u # t => call'[u] = call[u]
  BY <1>1, <1>2, CallChanges
<1>4. Types'
  BY <1>1, <1>2, <1>3, ApprovalsAssumption DEF Types
<1>5. WritesWhole'
  BY <1>1, <1>2, <1>3 DEF WritesWhole, Using
<1>6. Known' /\ Burnt'
  BY <1>1, <1>2, <1>3 DEF Known, Burnt, OnRecord
<1>7. \A u \in Threads : Using(call[u]) /\ call[u].approval = a => c.raced
  BY <1>1, <1>2 DEF Using, Burnt
<1>8. \A i \in DOMAIN effects : effects[i].approval = a => BurntLost(a)
  <2> SUFFICES ASSUME NEW i \in DOMAIN effects, effects[i].approval = a PROVE BurntLost(a)
    OBVIOUS
  <2> DEFINE r == [kind |-> "consumed", of |-> a]
  <2>1. r \in disk \cup lost
    BY DEF Burnt, OnRecord
  <2>2. r \notin disk
    BY <1>2 DEF Burnt
  <2> QED BY <2>1, <2>2 DEF BurntLost
<1>9. Apart'
  BY <1>1, <1>2, <1>3, <1>7, <1>8 DEF Apart, Using, BurntLost
<1>10. UsedOnce'
  BY <1>2 DEF UsedOnce
<1> QED BY <1>4, <1>5, <1>6, <1>9, <1>10

LEMMA ClaimKeeps ==
  ASSUME IInv, NEW t \in Threads, Claim(t)
  PROVE  IInv'
<1> DEFINE c == [call[t] EXCEPT !.pc = "burning"]
<1> USE DEF IInv
<1>1. /\ call[t].pc = "claiming" /\ call' = [call EXCEPT ![t] = c]
      /\ consumed' = consumed \cup {call[t].approval}
      /\ UNCHANGED <<now, proposals, approvals, disk, cut, bare, lost, calls, crashes, answered, effects>>
  BY DEF Claim, Goes, files
<1>2. /\ c \in Calls /\ c.pc = "burning" /\ c.approval = call[t].approval
      /\ c.raced = call[t].raced
  BY DEF Types, Calls
<1> HIDE DEF c
<1>3. /\ call' \in [Threads -> Calls] /\ call'[t] = c
      /\ \A u \in Threads : u # t => call'[u] = call[u]
  BY <1>1, <1>2, CallChanges
<1>4. Using(call[t]) /\ Using(c) /\ call[t].approval \in Approvals
  BY <1>1, <1>2 DEF Using, WritesWhole
<1>5. Types'
  BY <1>1, <1>3, <1>4 DEF Types
<1>6. WritesWhole'
  BY <1>1, <1>2, <1>3, <1>4 DEF WritesWhole, Using
<1>7. Known' /\ Burnt'
  BY <1>1, <1>2, <1>3 DEF Known, Burnt, OnRecord
<1>8. Apart'
  BY <1>1, <1>2, <1>3, <1>4 DEF Apart, Using, BurntLost
<1>9. UsedOnce'
  BY <1>1 DEF UsedOnce
<1> QED BY <1>5, <1>6, <1>7, <1>8, <1>9

(* A call that ends without an effect or an answer, its row written or not. *)
LEMMA EndKeeps ==
  ASSUME IInv, NEW t \in Threads, call' = [call EXCEPT ![t] = Idle],
         NEW R, \A r \in R : Backed(r), Grown(R),
         UNCHANGED <<now, proposals, approvals, consumed, calls, crashes, answered, effects>>
  PROVE  IInv'
<1> USE DEF IInv
<1>1. /\ call' \in [Threads -> Calls] /\ call'[t] = Idle
      /\ \A u \in Threads : u # t => call'[u] = call[u]
  BY IdleIsACall, CallChanges
<1>2. Types'
  BY <1>1 DEF Types, Grown, Backed
<1>3. WritesWhole'
  BY <1>1, IdleIsACall DEF WritesWhole, Using
<1>4. Known'
  BY DEF Known, Grown, Backed
<1>5. Burnt'
  BY <1>1, IdleIsACall DEF Burnt, OnRecord, Grown, Backed
<1>6. Apart' /\ UsedOnce'
  BY <1>1, IdleIsACall DEF Apart, UsedOnce, Using, BurntLost, Grown
<1> QED BY <1>2, <1>3, <1>4, <1>5, <1>6

LEMMA WriteFailsKeeps ==
  ASSUME IInv, NEW t \in Threads, WriteFails(t)
  PROVE  IInv'
<1> DEFINE row == Row(call[t])
<1>1. /\ Writing(t) /\ call' = [call EXCEPT ![t] = Idle]
      /\ UNCHANGED files \/ CutShort(row) \/ CutBeforeNewline(row)
      /\ UNCHANGED <<now, proposals, approvals, consumed, calls, crashes, answered, effects>>
  BY DEF WriteFails, Ends, memory
<1>2. Types /\ Backed(row)
  BY <1>1, RowIsBacked DEF IInv
<1> HIDE DEF row
<1>3. CASE UNCHANGED files
  BY <1>1, <1>2, <1>3, FilesSame, EndKeeps
<1>4. CASE CutShort(row) \/ CutBeforeNewline(row)
  <2>1. Grown({row})
    BY <1>2, <1>4, FilesKept
  <2> QED BY <1>1, <1>2, <2>1, EndKeeps
<1> QED BY <1>1, <1>3, <1>4

LEMMA CallbackRaisesKeeps ==
  ASSUME IInv, NEW t \in Threads, CallbackRaises(t)
  PROVE  IInv'
<1>1. /\ call' = [call EXCEPT ![t] = Idle] /\ UNCHANGED files
      /\ UNCHANGED <<now, proposals, approvals, consumed, calls, crashes, answered, effects>>
  BY DEF CallbackRaises, Ends, memory
<1>2. Grown({})
  BY <1>1, FilesSame DEF IInv
<1> QED BY <1>1, <1>2, EndKeeps

LEMMA WriteKeeps ==
  ASSUME IInv, NEW t \in Threads, Write(t)
  PROVE  IInv'
<1> USE DEF IInv
<1> DEFINE row == Row(call[t])
<1>1. /\ Writing(t) /\ Whole(row)
      /\ UNCHANGED <<now, proposals, approvals, consumed, calls, crashes, effects>>
  BY DEF Write, memory, Ends, Goes
<1>2. Backed(row) /\ Grown({row}) /\ row \in disk' \cup lost'
  BY <1>1, RowIsBacked, FilesKept, WholeIsRead
<1>3. CASE call[t].pc = "storing"
  <2>1. call' = [call EXCEPT ![t] = Idle] /\ answered' = answered
    BY <1>3 DEF Write, Ends
  <2> HIDE DEF row
  <2> QED BY <1>1, <1>2, <2>1, EndKeeps
<1>4. CASE call[t].pc = "granting"
  <2> DEFINE x == call[t].approval
  <2>1. /\ row = [kind |-> "approvals", of |-> x]
        /\ call' = [call EXCEPT ![t] = Idle] /\ answered' = answered \cup {x}
    BY <1>4 DEF Row, Write, Ends
  <2>2. x \in approvals
    BY <1>4 DEF WritesWhole
  <2> HIDE DEF x, row
  <2>3. /\ call' \in [Threads -> Calls] /\ call'[t] = Idle
        /\ \A u \in Threads : u # t => call'[u] = call[u]
    BY <2>1, IdleIsACall, CallChanges
  <2>4. Types'
    BY <1>1, <1>2, <2>1, <2>2, <2>3 DEF Types, Grown, Backed
  <2>5. WritesWhole'
    BY <1>1, <2>3, IdleIsACall DEF WritesWhole, Using
  <2>6. Known'
    BY <1>1, <1>2, <2>1, <2>2 DEF Known, Grown
  <2>7. Burnt'
    BY <1>1, <1>2, <2>1, <2>3, IdleIsACall DEF Burnt, OnRecord, Grown
  <2>8. Apart' /\ UsedOnce'
    BY <1>1, <1>2, <2>3, IdleIsACall DEF Apart, UsedOnce, Using, BurntLost, Grown
  <2> QED BY <2>4, <2>5, <2>6, <2>7, <2>8
<1>5. CASE call[t].pc = "burning"
  <2> DEFINE x == call[t].approval
             c == [call[t] EXCEPT !.pc = "effect"]
  <2>1. /\ row = [kind |-> "consumed", of |-> x]
        /\ call' = [call EXCEPT ![t] = c] /\ answered' = answered
    BY <1>5 DEF Row, Write, Goes
  <2>2. /\ c \in Calls /\ c.pc = "effect" /\ c.approval = x /\ c.raced = call[t].raced
    BY DEF Types, Calls
  <2>3. Using(call[t]) /\ x \in consumed /\ x = call[t].approval /\ x \in Approvals
    BY <1>5 DEF WritesWhole, Using, Burnt
  <2> HIDE DEF x, c, row
  <2>4. /\ call' \in [Threads -> Calls] /\ call'[t] = c
        /\ \A u \in Threads : u # t => call'[u] = call[u]
    BY <2>1, <2>2, CallChanges
  <2>5. Types'
    BY <1>1, <1>2, <2>1, <2>4 DEF Types, Grown, Backed
  <2>6. WritesWhole'
    BY <1>1, <2>2, <2>3, <2>4 DEF WritesWhole, Using
  <2>7. Known'
    BY <1>1, <1>2, <2>1 DEF Known, Grown
  <2>8. Burnt'
    <3>1. \A r \in disk' : r.kind = "consumed" => r.of \in consumed'
      BY <1>1, <1>2, <2>1, <2>3 DEF Burnt, Grown
    <3>2. [kind |-> "consumed", of |-> x] \in disk' \cup lost'
      BY <1>2, <2>1
    <3>3. \A a : OnRecord(a) => [kind |-> "consumed", of |-> a] \in disk' \cup lost'
      BY <1>2 DEF OnRecord, Grown
    <3>4. \A u \in Threads : call'[u].pc \in {"burning", "effect"} => call'[u].approval \in consumed'
      BY <1>1, <2>2, <2>3, <2>4 DEF Burnt
    <3>5. \A u \in Threads : call'[u].pc = "effect" =>
            [kind |-> "consumed", of |-> call'[u].approval] \in disk' \cup lost'
      BY <2>2, <2>4, <3>2, <3>3 DEF Burnt
    <3>6. \A i \in DOMAIN effects' :
            [kind |-> "consumed", of |-> effects'[i].approval] \in disk' \cup lost'
      BY <1>1, <3>3 DEF Burnt
    <3> QED BY <3>1, <3>4, <3>5, <3>6 DEF Burnt, OnRecord
  <2>9. Apart'
    BY <1>1, <1>2, <2>2, <2>3, <2>4 DEF Apart, Using, BurntLost, Grown
  <2>10. UsedOnce'
    BY <1>1, <1>2 DEF UsedOnce, Grown
  <2> QED BY <2>5, <2>6, <2>7, <2>8, <2>9, <2>10
<1> QED BY <1>1, <1>3, <1>4, <1>5 DEF Writing

LEMMA EffectKeeps ==
  ASSUME IInv, NEW t \in Threads, Effect(t)
  PROVE  IInv'
<1> USE DEF IInv
<1>1. /\ call[t].pc = "effect" /\ call' = [call EXCEPT ![t] = Idle]
      /\ effects' = Append(effects, call[t])
      /\ UNCHANGED <<now, proposals, approvals, consumed, disk, cut, bare, lost, calls, crashes, answered>>
  BY DEF Effect, Ends, files, memory
<1>2. /\ call' \in [Threads -> Calls] /\ call'[t] = Idle
      /\ \A u \in Threads : u # t => call'[u] = call[u]
  BY <1>1, IdleIsACall, CallChanges
<1>3. /\ effects' \in Seq(Calls) /\ DOMAIN effects' = 1..(Len(effects) + 1)
      /\ DOMAIN effects = 1..Len(effects) /\ Len(effects) \in Nat
      /\ \A i \in DOMAIN effects : effects'[i] = effects[i]
      /\ effects'[Len(effects) + 1] = call[t]
  BY <1>1 DEF Types
<1>4. Using(call[t]) /\ OnRecord(call[t].approval)
  BY <1>1 DEF Using, Burnt
<1>5. Types' /\ WritesWhole' /\ Known'
  BY <1>1, <1>2, <1>3, IdleIsACall DEF Types, WritesWhole, Known, Using
<1>6. \A i \in DOMAIN effects' :
        \/ i \in DOMAIN effects /\ effects'[i] = effects[i]
        \/ effects'[i] = call[t]
  BY <1>3
<1>7. Burnt'
  BY <1>1, <1>2, <1>4, <1>6, IdleIsACall DEF Burnt, OnRecord
<1>8. Apart'
  BY <1>1, <1>2, <1>4, <1>6, IdleIsACall DEF Apart, Using, BurntLost
<1>9. UsedOnce'
  <2> SUFFICES ASSUME NEW i \in DOMAIN effects', NEW j \in DOMAIN effects', i < j,
                      effects'[i].approval = effects'[j].approval
               PROVE  \/ effects'[i].raced \/ effects'[j].raced
                      \/ [kind |-> "consumed", of |-> effects'[i].approval] \in lost'
    BY DEF UsedOnce
  <2>1. i \in DOMAIN effects /\ effects'[i] = effects[i]
    BY <1>3
  <2>2. CASE j \in DOMAIN effects
    BY <1>1, <1>3, <2>1, <2>2 DEF UsedOnce
  <2>3. CASE effects'[j] = call[t]
    BY <1>1, <1>4, <2>1, <2>3 DEF Apart, BurntLost
  <2> QED BY <1>6, <2>2, <2>3
<1> QED BY <1>5, <1>7, <1>8, <1>9

LEMMA TickKeeps ==
  ASSUME IInv, Tick
  PROVE  IInv'
<1> USE DEF IInv
<1>1. /\ now' = now + 1 /\ now < MaxTime
      /\ UNCHANGED <<proposals, approvals, consumed, disk, cut, bare, lost, call, calls, crashes, answered, effects>>
  BY DEF Tick, files, memory
<1>2. Types'
  BY <1>1, ApprovalsAssumption DEF Types, Seconds
<1>3. WritesWhole' /\ Known' /\ Burnt' /\ Apart' /\ UsedOnce'
  BY <1>1 DEF WritesWhole, Using, Known, Burnt, OnRecord, Apart, BurntLost, UsedOnce
<1> QED BY <1>2, <1>3

LEMMA CrashKeeps ==
  ASSUME IInv, Crash
  PROVE  IInv'
<1> USE DEF IInv
<1>1. \E R : (\A r \in R : Backed(r)) /\ Grown(R)
  <2>1. CASE UNCHANGED files
    BY <2>1, FilesSame
  <2>2. CASE \E t \in Threads :
               Writing(t) /\ (CutShort(Row(call[t])) \/ CutBeforeNewline(Row(call[t])))
    <3>1. PICK t \in Threads :
                 Writing(t) /\ (CutShort(Row(call[t])) \/ CutBeforeNewline(Row(call[t])))
      BY <2>2
    <3>2. Backed(Row(call[t])) /\ Grown({Row(call[t])})
      BY <3>1, RowIsBacked, FilesKept
    <3> QED BY <3>2
  <2> QED BY <2>1, <2>2 DEF Crash
<1>2. PICK R : (\A r \in R : Backed(r)) /\ Grown(R)
  BY <1>1
<1>3. /\ crashes < MaxCrashes /\ crashes' = crashes + 1
      /\ proposals' = Read("proposals") /\ approvals' = Read("approvals")
      /\ consumed' = Read("consumed")
      /\ call' = [t \in Threads |-> Idle]
      /\ UNCHANGED <<now, calls, answered, effects>>
  BY DEF Crash
<1>4. call' \in [Threads -> Calls] /\ \A t \in Threads : call'[t] = Idle
  BY <1>3, IdleIsACall
<1>5. disk' \subseteq Rows /\ lost' \subseteq Rows
  BY <1>2 DEF Grown, Backed, Types
<1>6. /\ Read("proposals") \subseteq Proposals /\ Read("approvals") \subseteq Approvals
      /\ Read("consumed") \subseteq Approvals
  BY <1>5 DEF Read, Rows
<1>7. Types'
  BY <1>2, <1>3, <1>4, <1>5, <1>6, ApprovalsAssumption DEF Types, Grown
<1>8. WritesWhole'
  BY <1>4, IdleIsACall DEF WritesWhole, Using
<1>9. Known'
  BY <1>2, <1>3 DEF Known, Read, Grown
<1>10. Burnt'
  BY <1>2, <1>3, <1>4, IdleIsACall DEF Burnt, OnRecord, Read, Grown
<1>11. Apart' /\ UsedOnce'
  BY <1>2, <1>3, <1>4, IdleIsACall DEF Apart, UsedOnce, Using, BurntLost, Grown
<1> QED BY <1>7, <1>8, <1>9, <1>10, <1>11

LEMMA StepKeeps == IInv /\ [Next]_vars => IInv'
<1> SUFFICES ASSUME IInv, [Next]_vars PROVE IInv'
  OBVIOUS
<1>1. CASE Tick
  BY <1>1, TickKeeps
<1>2. CASE Crash
  BY <1>2, CrashKeeps
<1>3. ASSUME NEW t \in Threads, Claim(t) \/ Write(t) \/ WriteFails(t) \/ Effect(t) \/ CallbackRaises(t)
      PROVE  IInv'
  BY <1>3, ClaimKeeps, WriteKeeps, WriteFailsKeeps, EffectKeeps, CallbackRaisesKeeps
<1>4. ASSUME NEW t \in Threads, NEW payload \in Payloads, Propose(t, payload)
      PROVE  IInv'
  BY <1>4, ProposeKeeps
<1>5. ASSUME NEW t \in Threads, NEW q \in proposals, NEW who \in People, Approve(t, q, who)
      PROVE  IInv'
  BY <1>5, ApproveKeeps
<1>6. ASSUME NEW t \in Threads, NEW tool \in Tools, NEW a \in approvals,
             NEW q \in proposals \cup {None}, Check(t, tool, q, a)
      PROVE  IInv'
  BY <1>6, CheckKeeps
<1>7. CASE UNCHANGED vars
  <2>1. UNCHANGED <<now, proposals, approvals, consumed, disk, cut, bare, lost, call, calls,
                    crashes, answered, effects>>
    BY <1>7 DEF vars, memory, files
  <2>2. Types' /\ WritesWhole' /\ Known'
    BY <2>1 DEF IInv, Types, WritesWhole, Using, Known
  <2>3. Burnt' /\ Apart' /\ UsedOnce'
    BY <2>1 DEF IInv, Burnt, OnRecord, Apart, Using, BurntLost, UsedOnce
  <2> QED BY <2>2, <2>3 DEF IInv
<1> QED BY <1>1, <1>2, <1>3, <1>4, <1>5, <1>6, <1>7 DEF Next

LEMMA Invariance == Spec => []IInv
<1>1. Init => IInv
  BY InitHolds
<1>2. IInv /\ [Next]_vars => IInv'
  BY StepKeeps
<1> QED BY <1>1, <1>2, PTL DEF Spec

(* The tool server keeps its types through crashes and restarts.           *)
THEOREM TypeCorrect == Spec => []TypeOK
<1>1. IInv => TypeOK
  BY DEF IInv, Types, TypeOK
<1> QED BY <1>1, Invariance, PTL

(* An approval stands for one effect (mcp/server.py:465-490): it is burnt  *)
(* in memory and on disk before the callback runs.                         *)
THEOREM ApprovalUsedOnce == Spec => []UsedOnce
<1>1. IInv => UsedOnce
  BY DEF IInv
<1> QED BY <1>1, Invariance, PTL

(* The row that burns an approval is appended before the callback is called *)
(* (mcp/server.py:488-490, 425-426), and stays through crashes, failed      *)
(* appends and the cancel or allocation an approval of any proposal pays for. *)
THEOREM EffectsStayOnRecord == Spec => []EffectsAreOnRecord
<1>1. IInv => EffectsAreOnRecord
  BY DEF IInv, Burnt, OnRecord, EffectsAreOnRecord
<1> QED BY <1>1, Invariance, PTL

(* approve() answers after its row is written (mcp/server.py:360-362).     *)
THEOREM AnswersAreKnown == Spec => []AnsweredIsKnown
<1>1. IInv => AnsweredIsKnown
  <2> SUFFICES ASSUME IInv, NEW a \in answered
               PROVE  a \in approvals \/ [kind |-> "approvals", of |-> a] \in lost
    BY DEF AnsweredIsKnown
  <2> DEFINE r == [kind |-> "approvals", of |-> a]
  <2>1. r \in disk \cup lost
    BY DEF IInv, Known
  <2>2. r \in disk => a \in approvals
    BY DEF IInv, Known
  <2> QED BY <2>1, <2>2
<1> QED BY <1>1, Invariance, PTL

=============================================================================
