------------------------------- MODULE Approvals -------------------------------
(***************************************************************************)
(* Proposals and single-use approvals of the tool server (mcp/server.py).  *)
(* A threading server runs each call in a thread; proposals and approvals  *)
(* live in memory and in two append-only files, which a restart reads      *)
(* back.  A crash or a full disk may cut the line being appended short,    *)
(* where it is not read, or before its newline, where it is; the next line *)
(* continues either, and then neither of the two is read.                  *)
(* The id of a proposal is the hash of its payload and second, that of an  *)
(* approval the hash of its proposal, person and second: here the records. *)
(***************************************************************************)
EXTENDS Integers, Sequences

CONSTANTS
  Payloads, People, Operators,   \* what is proposed; who approves; OPERATOR_ROLES
  Threads,
  Ttl,                           \* approval_ttl_s
  MaxTime, MaxCalls, MaxCrashes, \* bounds
  None

ASSUME ApprovalsAssumption ==
  /\ Operators \subseteq People /\ Ttl \in Nat
  /\ MaxTime \in Nat /\ MaxCalls \in Nat /\ MaxCrashes \in Nat

Seconds   == 0..MaxTime
Proposals == [payload : Payloads, at : Seconds]
Approvals == [proposal : Proposals, by : People, at : Seconds]
Tools     == {"submit", "cancel", "allocate"}
Rows      == [kind : {"proposals"}, of : Proposals]
             \cup [kind : {"approvals", "consumed"}, of : Approvals]

VARIABLES
  now,
  proposals, approvals, consumed,    \* the server's memory
  disk,                              \* the rows a restart can read
  cut,                               \* files whose last line has no newline
  bare,                              \* the rows of disk that have no newline
  lost,                              \* rows that are unreadable, one line with another
  call,                              \* what each thread is doing
  calls, crashes,
  answered,                          \* approvals whose approve() has returned
  effects                            \* what the callbacks were called for, in order

memory == <<proposals, approvals, consumed>>
files  == <<disk, cut, bare, lost>>
vars   == <<now, memory, files, call, calls, crashes, answered, effects>>

Idle == [pc |-> "idle", tool |-> None, proposal |-> None, approval |-> None,
         checked |-> 0, raced |-> FALSE]

Init ==
  /\ now = 0
  /\ proposals = {} /\ approvals = {} /\ consumed = {}
  /\ disk = {} /\ cut = {} /\ bare = {} /\ lost = {}
  /\ call = [t \in Threads |-> Idle]
  /\ calls = 0 /\ crashes = 0 /\ answered = {} /\ effects = <<>>

Called(t, c) == calls < MaxCalls /\ calls' = calls + 1
                /\ call[t] = Idle /\ call' = [call EXCEPT ![t] = c]
Goes(t, pc)  == call' = [call EXCEPT ![t].pc = pc] /\ UNCHANGED calls
Ends(t)      == call' = [call EXCEPT ![t] = Idle] /\ UNCHANGED calls

-----------------------------------------------------------------------------
(* propose_order, its payload and verdict accepted: memory, then the file. *)
Propose(t, payload) ==
  LET q == [payload |-> payload, at |-> now]
  IN /\ Called(t, [Idle EXCEPT !.pc = "storing", !.proposal = q])
     /\ proposals' = proposals \cup {q}
     /\ UNCHANGED <<now, approvals, consumed, files, crashes, answered, effects>>

(* approve: a second call of the same person in the same second returns    *)
(* the same approval.                                                      *)
Approve(t, q, who) ==
  LET a == [proposal |-> q, by |-> who, at |-> now]
  IN /\ Called(t, [Idle EXCEPT !.pc = "granting", !.approval = a])
     /\ approvals' = approvals \cup {a}
     /\ UNCHANGED <<now, proposals, consumed, files, crashes, answered, effects>>

(* _consume_approval up to the claim.  submit_order names its proposal;    *)
(* cancel_order and set_sleeve_allocation take an approval of any proposal *)
(* and the latter wants an operator's.  A call refused changes nothing.    *)
(* raced: a call of the same approval stands at the claim too.             *)
Matches(tool, q, a) ==
  /\ tool = "submit" => q \in proposals /\ a.proposal = q
  /\ tool # "submit" => q = None
  /\ tool = "allocate" => a.by \in Operators

Check(t, tool, q, a) ==
  /\ a \in approvals /\ a \notin consumed
  /\ now < a.at + Ttl
  /\ Matches(tool, q, a)
  /\ Called(t, [pc |-> "claiming", tool |-> tool, proposal |-> q, approval |-> a, checked |-> now,
                raced |-> \E u \in Threads : call[u].pc = "claiming" /\ call[u].approval = a])
  /\ UNCHANGED <<now, memory, files, crashes, answered, effects>>

Claim(t) ==
  /\ call[t].pc = "claiming" /\ Goes(t, "burning")
  /\ consumed' = consumed \cup {call[t].approval}
  /\ UNCHANGED <<now, proposals, approvals, files, crashes, answered, effects>>

-----------------------------------------------------------------------------
(* The row a thread is about to append, and its file.                      *)
Row(c) ==
  CASE c.pc = "storing"  -> [kind |-> "proposals", of |-> c.proposal]
    [] c.pc = "granting" -> [kind |-> "approvals", of |-> c.approval]
    [] c.pc = "burning"  -> [kind |-> "consumed",  of |-> c.approval]
File(kind) == IF kind = "proposals" THEN "proposals" ELSE "approvals"
Writing(t) == call[t].pc \in {"storing", "granting", "burning"}

Bare(f) == {r \in bare : File(r.kind) = f}

(* What an append leaves: a line, a row without its newline, or a piece of *)
(* one.  In a file cut short it continues the last line, and a row that    *)
(* was read there is read no more.                                         *)
Whole(row) ==
  LET f == File(row.kind)
  IN /\ disk' = IF f \in cut THEN disk \ Bare(f) ELSE disk \cup {row}
     /\ lost' = IF f \in cut THEN lost \cup Bare(f) \cup {row} ELSE lost
     /\ cut'  = cut \ {f}
     /\ bare' = bare \ Bare(f)

CutBeforeNewline(row) ==
  LET f == File(row.kind)
  IN /\ f \notin cut /\ cut' = cut \cup {f}
     /\ disk' = disk \cup {row}
     /\ bare' = bare \cup ({row} \ disk)
     /\ UNCHANGED lost

CutShort(row) ==
  LET f == File(row.kind)
  IN /\ cut'  = cut \cup {f}
     /\ disk' = disk \ Bare(f) /\ lost' = lost \cup Bare(f)
     /\ bare' = bare \ Bare(f)

WriteLate(t) ==                    \* the callback runs before its row is written
  /\ Writing(t)
  /\ IF call[t].pc = "burning"
     THEN /\ effects' = Append(effects, call[t]) /\ UNCHANGED <<files, answered>>
          /\ Ends(t)
     ELSE /\ Whole(Row(call[t])) /\ Ends(t) /\ UNCHANGED effects
          /\ answered' = IF call[t].pc = "granting" THEN answered \cup {call[t].approval}
                                                    ELSE answered
  /\ UNCHANGED <<now, memory, crashes>>

Write(t) ==
  /\ Writing(t) /\ Whole(Row(call[t]))
  /\ IF call[t].pc = "burning" THEN Goes(t, "effect") ELSE Ends(t)
  /\ answered' = IF call[t].pc = "granting" THEN answered \cup {call[t].approval} ELSE answered
  /\ UNCHANGED <<now, memory, crashes, effects>>

WriteFailsUnseen(t) ==             \* an append that failed is passed over
  /\ Writing(t)
  /\ IF call[t].pc = "burning" THEN Goes(t, "effect") ELSE Ends(t)
  /\ answered' = IF call[t].pc = "granting" THEN answered \cup {call[t].approval} ELSE answered
  /\ UNCHANGED <<now, memory, files, crashes, effects>>

(* The append fails (a full disk), perhaps half-way: the call ends with an *)
(* error, its memory stays.                                                *)
WriteFails(t) ==
  /\ Writing(t) /\ Ends(t)
  /\ \/ UNCHANGED files
     \/ CutShort(Row(call[t]))
     \/ CutBeforeNewline(Row(call[t]))
  /\ UNCHANGED <<now, memory, crashes, answered, effects>>

(* The callback acts, or raises before it acts: the approval is burnt.     *)
Effect(t) ==
  /\ call[t].pc = "effect" /\ Ends(t)
  /\ effects' = Append(effects, call[t])
  /\ UNCHANGED <<now, memory, files, crashes, answered>>

CallbackRaises(t) ==
  /\ call[t].pc = "effect" /\ Ends(t)
  /\ UNCHANGED <<now, memory, files, crashes, answered, effects>>

Tick == now < MaxTime /\ now' = now + 1
        /\ UNCHANGED <<memory, files, call, calls, crashes, answered, effects>>

(* The process stops, perhaps within one append; the next one starts from  *)
(* the files.                                                              *)
Read(kind) == {r.of : r \in {d \in disk' : d.kind = kind}}

Crash ==
  /\ crashes < MaxCrashes /\ crashes' = crashes + 1
  /\ \/ UNCHANGED files
     \/ \E t \in Threads :
          Writing(t) /\ (CutShort(Row(call[t])) \/ CutBeforeNewline(Row(call[t])))
  /\ proposals' = Read("proposals") /\ approvals' = Read("approvals")
  /\ consumed'  = Read("consumed")
  /\ call' = [t \in Threads |-> Idle]
  /\ UNCHANGED <<now, calls, answered, effects>>

Next ==
  \/ Tick \/ Crash
  \/ \E t \in Threads :
       \/ Claim(t) \/ Write(t) \/ WriteFails(t) \/ Effect(t) \/ CallbackRaises(t)
       \/ \E payload \in Payloads : Propose(t, payload)
       \/ \E q \in proposals, who \in People : Approve(t, q, who)
       \/ \E tool \in Tools, a \in approvals, q \in proposals \cup {None} : Check(t, tool, q, a)

Spec == Init /\ [][Next]_vars

-----------------------------------------------------------------------------
Calls ==
  [pc : {"idle", "storing", "granting", "claiming", "burning", "effect"},
   tool : Tools \cup {None}, proposal : Proposals \cup {None},
   approval : Approvals \cup {None}, checked : Seconds, raced : BOOLEAN]

TypeOK ==
  /\ now \in Seconds /\ calls \in 0..MaxCalls /\ crashes \in 0..MaxCrashes
  /\ proposals \subseteq Proposals /\ approvals \subseteq Approvals
  /\ consumed \subseteq Approvals
  /\ disk \subseteq Rows /\ lost \subseteq Rows /\ bare \subseteq disk
  /\ cut \subseteq {"proposals", "approvals"}
  /\ call \in [Threads -> Calls]
  /\ answered \subseteq Approvals /\ effects \in Seq(Calls)

(* mcp/server.py:5 "single-use": an approval stands for one effect, over   *)
(* crashes and restarts, unless two calls passed the check before either   *)
(* claimed it, or the row that burnt it became one line with another.      *)
UsedOnce ==
  \A i, j \in DOMAIN effects :
     i < j /\ effects[i].approval = effects[j].approval =>
       \/ effects[i].raced \/ effects[j].raced
       \/ [kind |-> "consumed", of |-> effects[i].approval] \in lost

(* mcp/server.py:488-490, 425-426: what was done can be told from the      *)
(* files, at every moment and whatever failed since, so that no restart    *)
(* forgets that its approval is spent, unless that row became one line     *)
(* with another.                                                           *)
EffectsAreOnRecord ==
  \A i \in DOMAIN effects :
     [kind |-> "consumed", of |-> effects[i].approval] \in disk \cup lost

(* An approval a person was given is known, now and after a restart, unless *)
(* its row became one line with another.                                   *)
AnsweredIsKnown ==
  \A a \in answered : a \in approvals \/ [kind |-> "approvals", of |-> a] \in lost

=============================================================================
