-------------------------- MODULE DaemonLockProofs --------------------------
(***************************************************************************)
(* The ledger's rows stay linked, and one daemon runs, for any number of   *)
(* processes, appends, kills and deadlines, unless a lock or the pid file  *)
(* is removed from under its creator.                                      *)
(***************************************************************************)
EXTENDS DaemonLock, SequenceTheorems, TLAPS

----------------------------------------------------------------------------
(* The ledger. *)

CriticalOwns == \A p \in Procs : pc[p] \in Critical => lock.by = p

WriterHasTail ==
  \A p \in Procs : pc[p] = "write" =>
    tail[p] = Len(rows) /\ (rows = <<>> \/ rows[Len(rows)].ok)

RowsLink ==
  \A i \in DOMAIN rows : rows[i].link = i - 1 /\ (i = Len(rows) \/ rows[i].ok)

\* Serialized is not inductive: that nobody else is in the critical section
\* rests on the lock naming its creator, and that a row links to the one before
\* on what the writer has read.
LedgerInv ==
  /\ LedgerTypeOK
  /\ torn => rows # <<>>
  /\ ~stolen => CriticalOwns /\ WriterHasTail /\ RowsLink

LEMMA LineType ==
  ASSUME NEW n \in Nat, NEW ok \in BOOLEAN
  PROVE  Line(n, ok) \in [link: Nat, ok: BOOLEAN]
BY DEF Line

LEMMA GluedType ==
  ASSUME rows \in Seq([link: Nat, ok: BOOLEAN])
  PROVE  LET glued == [rows EXCEPT ![Len(rows)].ok = FALSE]
         IN  /\ glued \in Seq([link: Nat, ok: BOOLEAN])
             /\ DOMAIN glued = DOMAIN rows /\ Len(glued) = Len(rows)
             /\ \A i \in DOMAIN rows :
                  /\ glued[i].link = rows[i].link
                  /\ i # Len(rows) => glued[i].ok = rows[i].ok
<1> DEFINE S == [link: Nat, ok: BOOLEAN]
           glued == [rows EXCEPT ![Len(rows)].ok = FALSE]
<1>1. rows \in [1..Len(rows) -> S] /\ Len(rows) \in Nat
  BY LenProperties
<1>2. glued \in [1..Len(rows) -> S]
  <2>1. ASSUME NEW i \in 1..Len(rows) PROVE glued[i] \in S
    <3>1. CASE i = Len(rows)
      <4>1. rows[i] \in S
        BY <1>1
      <4>2. glued[i] = [rows[i] EXCEPT !.ok = FALSE]
        BY <1>1, <3>1
      <4>3. QED BY <4>1, <4>2
    <3>2. CASE i # Len(rows)
      BY <1>1, <3>2
    <3>3. QED BY <3>1, <3>2
  <2>2. QED BY <1>1, <2>1
<1>3. glued \in Seq(S)
  BY <1>1, <1>2, SeqDef
<1>4. DOMAIN glued = DOMAIN rows /\ Len(glued) = Len(rows)
  BY <1>1, <1>2, <1>3, LenProperties
<1>5. ASSUME NEW i \in DOMAIN rows
      PROVE  /\ glued[i].link = rows[i].link
             /\ i # Len(rows) => glued[i].ok = rows[i].ok
  <2>1. CASE i = Len(rows)
    <3>1. glued[i] = [rows[i] EXCEPT !.ok = FALSE] /\ rows[i] \in S
      BY <1>1, <1>5, <2>1
    <3>2. QED BY <2>1, <3>1
  <2>2. CASE i # Len(rows)
    BY <1>1, <1>5, <2>2
  <2>3. QED BY <2>1, <2>2
<1>6. QED BY <1>3, <1>4, <1>5

LEMMA LedgerTypeInit == LedgerInit => LedgerTypeOK
<1> SUFFICES ASSUME LedgerInit PROVE LedgerTypeOK
  OBVIOUS
<1>1. lock \in [by: Procs \cup {None}, pid: Procs \cup {None}]
  BY DEF LedgerInit, Free
<1>2. left \in [Procs -> Nat]
  BY LedgerAssumption DEF LedgerInit
<1>3. rows \in Seq([link: Nat, ok: BOOLEAN])
  BY DEF LedgerInit
<1>4. tail \in [Procs -> Nat] /\ kills \in Nat
  BY DEF LedgerInit
<1>5. QED BY <1>1, <1>2, <1>3, <1>4, Zenon DEF LedgerInit, LedgerTypeOK

LEMMA LedgerTypeStep == LedgerTypeOK /\ [LedgerNext]_ledgerVars => LedgerTypeOK'
<1> SUFFICES ASSUME LedgerTypeOK, [LedgerNext]_ledgerVars PROVE LedgerTypeOK'
  OBVIOUS
<1> USE DEF LedgerTypeOK, Goto, Waiting, Critical, fileVars, readVars
<1>1. ASSUME NEW p \in Procs, Append_(p) PROVE LedgerTypeOK'
  <2>1. left' \in [Procs -> Nat]
    BY <1>1 DEF Append_
  <2>2. QED BY <1>1, <2>1 DEF Append_
<1>2. ASSUME NEW p \in Procs, Open(p) PROVE LedgerTypeOK'
  <2>1. lock' \in [by: Procs \cup {None}, pid: Procs \cup {None}]
    BY <1>2 DEF Open
  <2>2. QED BY <1>2, <2>1 DEF Open
<1>3. ASSUME NEW p \in Procs, Look(p) PROVE LedgerTypeOK'
  BY <1>3 DEF Look
<1>4. ASSUME NEW p \in Procs, Check(p) PROVE LedgerTypeOK'
  BY <1>4 DEF Check
<1>5. ASSUME NEW p \in Procs, Unlink(p) PROVE LedgerTypeOK'
  <2>1. lock' \in [by: Procs \cup {None}, pid: Procs \cup {None}]
    BY <1>5 DEF Unlink, Free
  <2>2. stolen' \in BOOLEAN
    BY <1>5, Zenon DEF Unlink, RobsHolder
  <2>3. QED BY <1>5, <2>1, <2>2 DEF Unlink
<1>6. ASSUME NEW p \in Procs, Sign(p) PROVE LedgerTypeOK'
  <2>1. lock' \in [by: Procs \cup {None}, pid: Procs \cup {None}]
    BY <1>6 DEF Sign
  <2>2. QED BY <1>6, <2>1 DEF Sign
<1>7. ASSUME NEW p \in Procs, Read(p) PROVE LedgerTypeOK'
  <2>1. tail' \in [Procs -> Nat]
    BY <1>7 DEF Read
  <2>2. QED BY <1>7, <2>1 DEF Read
<1>8. ASSUME NEW p \in Procs, Write(p) PROVE LedgerTypeOK'
  <2>1. rows' \in Seq([link: Nat, ok: BOOLEAN])
    <3>1. CASE torn
      BY <1>8, <3>1, GluedType DEF Write
    <3>2. CASE ~torn
      <4>1. tail[p] \in Nat
        OBVIOUS
      <4>2. Line(tail[p], TRUE) \in [link: Nat, ok: BOOLEAN]
        BY <4>1, LineType
      <4>3. rows' = Append(rows, Line(tail[p], TRUE))
        BY <1>8, <3>2 DEF Write
      <4>4. QED BY <4>2, <4>3, AppendProperties
    <3>3. QED BY <3>1, <3>2
  <2>2. QED BY <1>8, <2>1 DEF Write
<1>9. ASSUME NEW p \in Procs, DropLock(p) PROVE LedgerTypeOK'
  <2>1. lock' \in [by: Procs \cup {None}, pid: Procs \cup {None}]
    BY <1>9 DEF DropLock, Free
  <2>2. stolen' \in BOOLEAN
    BY <1>9, Zenon DEF DropLock, RobsHolder
  <2>3. QED BY <1>9, <2>1, <2>2 DEF DropLock
<1>10. ASSUME NEW p \in Procs, Deadline(p) PROVE LedgerTypeOK'
  BY <1>10 DEF Deadline
<1>11. ASSUME NEW p \in Procs, Kill(p) PROVE LedgerTypeOK'
  <2>1. rows' \in Seq([link: Nat, ok: BOOLEAN]) /\ torn' \in BOOLEAN
    <3>1. CASE UNCHANGED <<rows, torn>>
      BY <3>1
    <3>2. CASE torn' = TRUE /\ \E ok \in BOOLEAN :
                 rows' = Append(rows, Line(tail[p], ok))
      <4>1. PICK ok \in BOOLEAN : rows' = Append(rows, Line(tail[p], ok))
        BY <3>2
      <4>2. Line(tail[p], ok) \in [link: Nat, ok: BOOLEAN]
        BY LineType
      <4>3. QED BY <3>2, <4>1, <4>2
    <3>3. QED BY <1>11, <3>1, <3>2 DEF Kill
  <2>2. kills' \in Nat
    BY <1>11 DEF Kill
  <2>3. QED BY <1>11, <2>1, <2>2 DEF Kill
<1>12. ASSUME NEW p \in Procs, Exit(p) PROVE LedgerTypeOK'
  BY <1>12 DEF Exit
<1>13. CASE UNCHANGED ledgerVars
  BY <1>13 DEF ledgerVars
<1>14. QED
  BY <1>1, <1>2, <1>3, <1>4, <1>5, <1>6, <1>7, <1>8, <1>9, <1>10, <1>11, <1>12,
     <1>13 DEF LedgerNext, Step


\* The steps that touch neither the lock nor the ledger, and leave nobody in
\* the critical section who was not there.
LEMMA InvFrame ==
  ASSUME LedgerInv, LedgerTypeOK', UNCHANGED <<lock, rows, torn>>,
         stolen' = stolen,
         \A p \in Procs :
           /\ pc'[p] \in Critical => pc[p] \in Critical
           /\ pc'[p] = "write" => pc[p] = "write" /\ tail'[p] = tail[p]
  PROVE  LedgerInv'
BY DEF LedgerInv, CriticalOwns, WriterHasTail, RowsLink

\* Removing the lock when that robs nobody.
LEMMA InvRemove ==
  ASSUME LedgerInv, LedgerTypeOK', NEW p \in Procs, lock' = Free,
         UNCHANGED <<rows, torn>>,
         stolen' = (stolen \/ RobsHolder(p)),
         pc' = [pc EXCEPT ![p] = "open"] \/ pc' = [pc EXCEPT ![p] = "idle"],
         \A q \in Procs \ {p} : tail'[q] = tail[q]
  PROVE  LedgerInv'
<1>1. ASSUME ~stolen' PROVE CriticalOwns' /\ WriterHasTail' /\ RowsLink'
  <2>1. ~stolen /\ ~RobsHolder(p)
    BY <1>1, Zenon
  <2>2. CriticalOwns /\ WriterHasTail /\ RowsLink
    BY <2>1 DEF LedgerInv
  <2>3. \A q \in Procs : pc'[q] \notin Critical
    <3>1. TAKE q \in Procs
    <3>2. pc \in [Procs -> {"idle", "dead"} \cup Waiting \cup Critical]
      BY DEF LedgerInv, LedgerTypeOK
    <3>3. CASE q = p
      BY <3>2, <3>3 DEF Critical
    <3>4. CASE q # p
      <4>1. pc'[q] = pc[q]
        BY <3>2, <3>4
      <4>2. pc[q] \in Critical => lock.by = q
        BY <2>2 DEF CriticalOwns
      <4>3. q # None
        BY LedgerAssumption
      <4>4. QED BY <2>1, <3>4, <4>1, <4>2, <4>3 DEF RobsHolder
    <3>5. QED BY <3>3, <3>4
  <2>4. WriterHasTail'
    BY <2>3 DEF WriterHasTail, Critical
  <2>5. QED BY <2>2, <2>3, <2>4 DEF CriticalOwns, RowsLink
<1>2. QED BY <1>1 DEF LedgerInv

\* A row linked to the last line extends the chain, when that line parses.
LEMMA AppendLinks ==
  ASSUME LedgerTypeOK, RowsLink, NEW p \in Procs, NEW ok \in BOOLEAN,
         tail[p] = Len(rows), rows = <<>> \/ rows[Len(rows)].ok,
         rows' = Append(rows, Line(tail[p], ok))
  PROVE  RowsLink'
<1>1. rows \in Seq([link: Nat, ok: BOOLEAN]) /\ tail[p] \in Nat
  BY DEF LedgerTypeOK
<1>2. Line(tail[p], ok) \in [link: Nat, ok: BOOLEAN]
  BY <1>1, LineType
<1>3. /\ Len(rows) \in Nat /\ DOMAIN rows = 1..Len(rows)
      /\ Len(rows') = Len(rows) + 1 /\ DOMAIN rows' = 1..(Len(rows) + 1)
      /\ \A i \in 1..Len(rows) : rows'[i] = rows[i]
      /\ rows'[Len(rows) + 1].link = Len(rows)
  <2>1. rows' \in Seq([link: Nat, ok: BOOLEAN])
    BY <1>1, <1>2, AppendProperties
  <2>2. QED BY <1>1, <1>2, <2>1, AppendProperties, LenProperties DEF Line
<1>4. rows = <<>> => Len(rows) = 0
  OBVIOUS
<1>5. ASSUME NEW i \in DOMAIN rows'
      PROVE  rows'[i].link = i - 1 /\ (i = Len(rows') \/ rows'[i].ok)
  <2>1. CASE i = Len(rows) + 1
    BY <1>3, <2>1
  <2>2. CASE i \in 1..Len(rows)
    BY <1>3, <1>4, <2>2 DEF RowsLink
  <2>3. QED BY <1>3, <1>5, <2>1, <2>2
<1>6. QED BY <1>5 DEF RowsLink

LEMMA LedgerInvStep == LedgerInv /\ [LedgerNext]_ledgerVars => LedgerInv'
<1> SUFFICES ASSUME LedgerInv, [LedgerNext]_ledgerVars PROVE LedgerInv'
  OBVIOUS
<1>1. LedgerTypeOK /\ LedgerTypeOK'
  BY LedgerTypeStep DEF LedgerInv
<1>2. pc \in [Procs -> {"idle", "dead"} \cup Waiting \cup Critical]
  BY <1>1 DEF LedgerTypeOK
<1>3. tail \in [Procs -> Nat] /\ rows \in Seq([link: Nat, ok: BOOLEAN])
  BY <1>1 DEF LedgerTypeOK
<1>4. ASSUME NEW p \in Procs,
             Append_(p) \/ Look(p) \/ Check(p) \/ Deadline(p) \/ Exit(p)
      PROVE  LedgerInv'
  BY <1>1, <1>2, <1>4, InvFrame
     DEF Append_, Look, Check, Deadline, Exit, Goto, Critical, fileVars, readVars
<1>5. ASSUME NEW p \in Procs, Open(p) PROVE LedgerInv'
  <2>1. CASE lock = Free
    <3>1. ASSUME ~stolen' PROVE CriticalOwns' /\ WriterHasTail' /\ RowsLink'
      <4>1. CriticalOwns /\ WriterHasTail /\ RowsLink
        BY <1>5, <3>1 DEF Open, LedgerInv
      <4>2. \A q \in Procs : pc[q] \notin Critical
        BY <2>1, <4>1, LedgerAssumption DEF CriticalOwns, Free
      <4>3. \A q \in Procs : pc'[q] \in Critical => q = p
        BY <1>2, <1>5, <2>1, <4>2 DEF Open, Goto
      <4>4. lock'.by = p /\ pc'[p] = "sign"
        BY <1>2, <1>5, <2>1 DEF Open, Goto
      <4>5. CriticalOwns' /\ WriterHasTail'
        BY <4>3, <4>4 DEF CriticalOwns, WriterHasTail, Critical
      <4>6. QED BY <1>5, <4>1, <4>5 DEF Open, RowsLink
    <3>2. QED BY <1>1, <1>5, <3>1 DEF Open, LedgerInv
  <2>2. CASE lock # Free
    BY <1>1, <1>2, <1>5, <2>2, InvFrame DEF Open, Goto, Critical, readVars
  <2>3. QED BY <2>1, <2>2
<1>6. ASSUME NEW p \in Procs, Unlink(p) PROVE LedgerInv'
  BY <1>1, <1>6, InvRemove DEF Unlink, Goto, readVars
<1>7. ASSUME NEW p \in Procs, DropLock(p) PROVE LedgerInv'
  BY <1>1, <1>3, <1>7, InvRemove DEF DropLock, Goto
<1>8. ASSUME NEW p \in Procs, Sign(p) PROVE LedgerInv'
  <2>1. lock'.by = lock.by
    BY <1>1, <1>8 DEF Sign, LedgerTypeOK
  <2>2. CriticalOwns => CriticalOwns'
    BY <1>2, <1>8, <2>1 DEF Sign, Goto, CriticalOwns, Critical
  <2>3. WriterHasTail => WriterHasTail'
    BY <1>2, <1>8 DEF Sign, Goto, WriterHasTail, readVars
  <2>4. QED
    BY <1>1, <1>8, <2>2, <2>3 DEF Sign, LedgerInv, RowsLink, readVars
<1>9. ASSUME NEW p \in Procs, Read(p) PROVE LedgerInv'
  <2>1. CriticalOwns => CriticalOwns'
    BY <1>2, <1>9 DEF Read, Goto, CriticalOwns, Critical, fileVars
  <2>2. WriterHasTail => WriterHasTail'
    BY <1>2, <1>3, <1>9 DEF Read, Goto, WriterHasTail, fileVars
  <2>3. QED
    BY <1>1, <1>9, <2>1, <2>2 DEF Read, LedgerInv, RowsLink, fileVars
<1>10. ASSUME NEW p \in Procs, Write(p) PROVE LedgerInv'
  <2>1. torn' = FALSE /\ stolen' = stolen /\ lock' = lock /\ tail' = tail
    BY <1>10 DEF Write, readVars
  <2>2. ASSUME ~stolen PROVE CriticalOwns' /\ WriterHasTail' /\ RowsLink'
    <3>1. CriticalOwns /\ WriterHasTail /\ RowsLink
      BY <2>2 DEF LedgerInv
    <3>2. \A q \in Procs : pc'[q] = IF q = p THEN "drop" ELSE pc[q]
      BY <1>2, <1>10 DEF Write, Goto
    <3>3. lock.by = p
      BY <1>10, <3>1 DEF Write, CriticalOwns, Critical
    <3>4. CriticalOwns'
      BY <2>1, <3>1, <3>2, <3>3 DEF CriticalOwns
    <3>5. WriterHasTail'
      BY <3>1, <3>2, <3>3 DEF CriticalOwns, WriterHasTail, Critical
    <3>6. tail[p] = Len(rows) /\ (rows = <<>> \/ rows[Len(rows)].ok)
      BY <1>10, <3>1 DEF Write, WriterHasTail
    <3>7. CASE torn
      <4>1. rows' = [rows EXCEPT ![Len(rows)].ok = FALSE] /\ rows # <<>>
        BY <1>10, <3>7 DEF Write, LedgerInv
      <4>2. DOMAIN rows' = DOMAIN rows /\ Len(rows') = Len(rows)
        BY <1>3, <4>1, GluedType
      <4>3. \A i \in DOMAIN rows :
              rows'[i].link = rows[i].link
                /\ (i # Len(rows) => rows'[i].ok = rows[i].ok)
        BY <1>3, <4>1, GluedType
      <4>4. RowsLink'
        BY <3>1, <4>2, <4>3 DEF RowsLink
      <4>5. QED BY <3>4, <3>5, <4>4
    <3>8. CASE ~torn
      BY <1>10, <3>1, <3>4, <3>5, <3>6, <3>8, <1>1, AppendLinks DEF Write
    <3>9. QED BY <3>7, <3>8
  <2>3. QED BY <1>1, <2>1, <2>2 DEF LedgerInv
<1>11. ASSUME NEW p \in Procs, Kill(p) PROVE LedgerInv'
  <2>1. stolen' = stolen /\ lock' = lock
    BY <1>11 DEF Kill
  <2>2. \A q \in Procs : pc'[q] = IF q = p THEN "dead" ELSE pc[q]
    BY <1>2, <1>11 DEF Kill, Goto
  <2>3. \A q \in Procs : q # p => tail'[q] = tail[q]
    BY <1>3, <1>11 DEF Kill
  <2>4. CASE UNCHANGED <<rows, torn>>
    BY <1>1, <2>1, <2>2, <2>3, <2>4, InvFrame DEF Critical
  <2>5. CASE /\ pc[p] = "write" /\ ~torn
             /\ \E ok \in BOOLEAN : rows' = Append(rows, Line(tail[p], ok))
             /\ torn' = TRUE
    <3>1. PICK ok \in BOOLEAN : rows' = Append(rows, Line(tail[p], ok))
      BY <2>5
    <3>2. rows' # <<>>
      <4>1. Line(tail[p], ok) \in [link: Nat, ok: BOOLEAN]
        BY <1>3, LineType
      <4>2. QED BY <1>3, <3>1, <4>1, AppendProperties
    <3>3. ASSUME ~stolen PROVE CriticalOwns' /\ WriterHasTail' /\ RowsLink'
      <4>1. CriticalOwns /\ WriterHasTail /\ RowsLink
        BY <3>3 DEF LedgerInv
      <4>2. CriticalOwns'
        BY <2>1, <2>2, <4>1 DEF CriticalOwns, Critical
      <4>3. lock.by = p
        BY <2>5, <4>1 DEF CriticalOwns, Critical
      <4>4. WriterHasTail'
        BY <2>2, <4>1, <4>3 DEF CriticalOwns, WriterHasTail, Critical
      <4>5. tail[p] = Len(rows) /\ (rows = <<>> \/ rows[Len(rows)].ok)
        BY <2>5, <4>1 DEF WriterHasTail
      <4>6. RowsLink'
        BY <1>1, <3>1, <4>1, <4>5, AppendLinks
      <4>7. QED BY <4>2, <4>4, <4>6
    <3>4. QED BY <1>1, <2>1, <3>2, <3>3 DEF LedgerInv
  <2>6. QED BY <1>11, <2>4, <2>5 DEF Kill
<1>12. CASE UNCHANGED ledgerVars
  BY <1>1, <1>12, InvFrame DEF ledgerVars, fileVars, readVars
<1>13. QED
  BY <1>4, <1>5, <1>6, <1>7, <1>8, <1>9, <1>10, <1>11, <1>12
     DEF LedgerNext, Step

LEMMA LedgerInvInit == LedgerInit => LedgerInv
BY LedgerTypeInit
   DEF LedgerInit, LedgerInv, CriticalOwns, WriterHasTail, RowsLink, Critical

LEMMA LedgerInvImplies == LedgerInv => Serialized
<1> SUFFICES ASSUME LedgerInv, ~stolen
             PROVE  /\ \A p, q \in Procs : {pc[p], pc[q]} \subseteq Critical => p = q
                    /\ RowsLink
  BY DEF Serialized, RowsLink
<1>1. CriticalOwns /\ RowsLink
  BY DEF LedgerInv
<1>2. ASSUME NEW p \in Procs, NEW q \in Procs, {pc[p], pc[q]} \subseteq Critical
      PROVE  p = q
  BY <1>1, <1>2 DEF CriticalOwns
<1>3. QED BY <1>1, <1>2

\* A row that does not fit stays where it is: rows are only appended, and a
\* line can only stop parsing.
LEMMA HiddenStep ==
  LedgerInv /\ [LedgerNext]_ledgerVars => (~Verifies => ~Verifies')
<1> SUFFICES ASSUME LedgerInv, [LedgerNext]_ledgerVars, Verifies'
             PROVE  Verifies
  OBVIOUS
<1>1. LedgerTypeOK /\ rows \in Seq([link: Nat, ok: BOOLEAN])
  BY DEF LedgerInv, LedgerTypeOK
<1>2. CASE UNCHANGED rows
  BY <1>2 DEF Verifies
<1>3. ASSUME NEW p \in Procs, NEW ok \in BOOLEAN,
             rows' = Append(rows, Line(tail[p], ok))
      PROVE  Verifies
  <2>1. Line(tail[p], ok) \in [link: Nat, ok: BOOLEAN]
    BY <1>1, LineType DEF LedgerTypeOK
  <2>2. \A i \in DOMAIN rows : i \in DOMAIN rows' /\ rows'[i] = rows[i]
    <3>1. rows' \in Seq([link: Nat, ok: BOOLEAN])
      BY <1>1, <1>3, <2>1, AppendProperties
    <3>2. QED BY <1>1, <1>3, <2>1, <3>1, AppendProperties, LenProperties
  <2>3. QED BY <2>2 DEF Verifies
<1>4. ASSUME NEW p \in Procs, Write(p), torn PROVE Verifies
  <2>1. rows' = [rows EXCEPT ![Len(rows)].ok = FALSE] /\ rows # <<>>
    BY <1>4 DEF Write, LedgerInv
  <2>2. Len(rows) \in DOMAIN rows /\ DOMAIN rows' = DOMAIN rows
    BY <1>1, <2>1, GluedType, EmptySeq, LenProperties
  <2>3. ~rows'[Len(rows)].ok
    <3>1. rows[Len(rows)] \in [link: Nat, ok: BOOLEAN]
      BY <1>1, <2>2, ElementOfSeq, LenProperties
    <3>2. rows'[Len(rows)] = [rows[Len(rows)] EXCEPT !.ok = FALSE]
      BY <1>1, <2>1, <2>2
    <3>3. QED BY <3>1, <3>2
  <2>4. QED BY <2>2, <2>3 DEF Verifies
<1>5. ASSUME NEW p \in Procs, Write(p), ~torn PROVE Verifies
  BY <1>3, <1>5 DEF Write
<1>6. ASSUME NEW p \in Procs, Kill(p) PROVE Verifies
  BY <1>2, <1>3, <1>6 DEF Kill
<1>7. CASE UNCHANGED ledgerVars
  BY <1>2, <1>7 DEF ledgerVars, fileVars
<1>8. QED
  BY <1>2, <1>4, <1>5, <1>6, <1>7
     DEF LedgerNext, Step, Append_, Open, Look, Check, Unlink, Sign, Read,
         DropLock, Deadline, Exit, fileVars

----------------------------------------------------------------------------
(* The daemons. *)

Holding == {"sign", "running"}

\* While nobody is robbed, the file names the daemon that holds it.
HolderNamed ==
  \A d \in Daemons :
    /\ dpc[d] \in Holding => pidfile.by = d
    /\ dpc[d] = "running" => pidfile.pid = d

DaemonInv ==
  /\ LedgerInv
  /\ DaemonTypeOK
  /\ ~contested => HolderNamed

\* What a daemon does to the ledger is a step of the ledger's specification.
LEMMA DaemonStepsLedger ==
  [DaemonNext]_allVars => [LedgerNext]_ledgerVars
<1> SUFFICES ASSUME [DaemonNext]_allVars PROVE [LedgerNext]_ledgerVars
  OBVIOUS
<1>1. ASSUME NEW d \in Daemons, Acquire(d) \/ Release(d)
      PROVE  [LedgerNext]_ledgerVars
  BY <1>1, DaemonsAssumption
     DEF Acquire, Create, ReadPid, Refuse, TakeOver, RemoveStale, Recreate,
         SignPid, Release, LedgerNext
<1>2. ASSUME NEW p \in Procs,
             Appends(p) \/ LedgerStep(p) \/ LedgerWait(p) \/ Killed(p)
      PROVE  [LedgerNext]_ledgerVars
  BY <1>2 DEF Appends, LedgerStep, LedgerWait, Killed, LedgerNext
<1>3. CASE UNCHANGED allVars
  BY <1>3 DEF allVars
<1>4. QED BY <1>1, <1>2, <1>3 DEF DaemonNext

LEMMA DaemonInvInit == DaemonInit => DaemonInv
<1> SUFFICES ASSUME DaemonInit PROVE DaemonInv
  OBVIOUS
<1>1. LedgerInv /\ LedgerTypeOK
  BY LedgerInvInit DEF DaemonInit, LedgerInv
<1>2. pidfile \in [by: Daemons \cup {None}, pid: Daemons \cup {None}]
  BY DEF DaemonInit, Free
<1>3. DaemonTypeOK
  BY <1>1, <1>2 DEF DaemonInit, DaemonTypeOK
<1>4. HolderNamed
  BY DEF DaemonInit, HolderNamed, Holding
<1>5. QED BY <1>1, <1>3, <1>4 DEF DaemonInv

LEMMA DaemonInvStep == DaemonInv /\ [DaemonNext]_allVars => DaemonInv'
<1> SUFFICES ASSUME DaemonInv, [DaemonNext]_allVars PROVE DaemonInv'
  OBVIOUS
<1>1. LedgerInv' /\ LedgerTypeOK'
  BY LedgerInvStep, DaemonStepsLedger DEF DaemonInv, LedgerInv
<1>2. /\ dpc \in [Daemons -> {"create", "read", "check", "remove", "recreate",
                              "sign", "running", "gone"}]
      /\ pidfile \in [by: Daemons \cup {None}, pid: Daemons \cup {None}]
      /\ dseen \in [Daemons -> Daemons \cup {None}] /\ contested \in BOOLEAN
  BY DEF DaemonInv, DaemonTypeOK
<1> DEFINE Named == [by: Daemons \cup {None}, pid: Daemons \cup {None}]
\* A step that leaves the pid file alone, and lets nobody hold it who did not.
<1>3. ASSUME pidfile' = pidfile, contested' = contested,
             NEW d \in Daemons, NEW step \in {"read", "check", "remove", "gone"},
             dpc' = [dpc EXCEPT ![d] = step],
             dseen' \in [Daemons -> Daemons \cup {None}]
      PROVE  DaemonInv'
  <2>1. DaemonTypeOK'
    BY <1>1, <1>2, <1>3 DEF DaemonTypeOK
  <2>2. HolderNamed => HolderNamed'
    BY <1>2, <1>3 DEF HolderNamed, Holding
  <2>3. QED BY <1>1, <1>3, <2>1, <2>2 DEF DaemonInv
\* A file created where there was none.
<1>4. ASSUME NEW d \in Daemons, pidfile = Free, contested' = contested,
             pidfile' = [by |-> d, pid |-> None],
             dpc' = [dpc EXCEPT ![d] = "sign"], dseen' = dseen
      PROVE  DaemonInv'
  <2>1. DaemonTypeOK'
    BY <1>1, <1>2, <1>4 DEF DaemonTypeOK
  <2>2. ASSUME ~contested PROVE HolderNamed'
    <3>1. \A c \in Daemons : dpc[c] \notin Holding
      BY <1>4, <2>2, LedgerAssumption, DaemonsAssumption
         DEF DaemonInv, HolderNamed, Free
    <3>2. QED BY <1>2, <1>4, <3>1 DEF HolderNamed, Holding
  <2>3. QED BY <1>1, <1>4, <2>1, <2>2 DEF DaemonInv
\* A file removed, when that robs nobody.
<1>5. ASSUME NEW d \in Daemons, NEW step \in {"recreate", "gone"},
             pidfile' = Free, contested' = (contested \/ RobsDaemon(d)),
             dpc' = [dpc EXCEPT ![d] = step], dseen' = dseen
      PROVE  DaemonInv'
  <2>1. DaemonTypeOK'
    <3>1. contested' \in BOOLEAN
      BY <1>5, Zenon DEF RobsDaemon
    <3>2. pidfile' \in Named
      BY <1>5 DEF Free
    <3>3. QED BY <1>1, <1>2, <1>5, <3>1, <3>2 DEF DaemonTypeOK
  <2>2. ASSUME ~contested' PROVE HolderNamed'
    <3>1. ~contested /\ ~RobsDaemon(d)
      BY <1>5, <2>2, Zenon
    <3>2. HolderNamed
      BY <3>1 DEF DaemonInv
    <3>3. \A c \in Daemons : dpc'[c] \notin Holding
      BY <1>2, <1>5, <3>1, <3>2, LedgerAssumption, DaemonsAssumption
         DEF HolderNamed, Holding, RobsDaemon
    <3>4. QED BY <3>3 DEF HolderNamed, Holding
  <2>3. QED BY <1>1, <2>1, <2>2 DEF DaemonInv
<1>6. ASSUME NEW d \in Daemons, Create(d) PROVE DaemonInv'
  BY <1>2, <1>3, <1>4, <1>6 DEF Create, DGoto
<1>7. ASSUME NEW d \in Daemons, ReadPid(d) PROVE DaemonInv'
  <2>1. dseen' \in [Daemons -> Daemons \cup {None}]
    BY <1>2, <1>7 DEF ReadPid
  <2>2. QED BY <1>3, <1>7, <2>1 DEF ReadPid, DGoto
<1>8. ASSUME NEW d \in Daemons, Refuse(d) \/ TakeOver(d) PROVE DaemonInv'
  <2>1. dseen' \in [Daemons -> Daemons \cup {None}]
    BY <1>2, <1>8 DEF Refuse, TakeOver
  <2>2. QED BY <1>3, <1>8, <2>1 DEF Refuse, TakeOver, DGoto
<1>9. ASSUME NEW d \in Daemons, RemoveStale(d) \/ Release(d) PROVE DaemonInv'
  BY <1>5, <1>9 DEF RemoveStale, Release, DGoto
<1>10. ASSUME NEW d \in Daemons, Recreate(d) PROVE DaemonInv'
  BY <1>2, <1>3, <1>4, <1>10 DEF Recreate, DGoto
<1>11. ASSUME NEW d \in Daemons, SignPid(d) PROVE DaemonInv'
  <2>1. pidfile' \in Named /\ pidfile'.by = pidfile.by
    BY <1>2, <1>11 DEF SignPid
  <2>2. DaemonTypeOK'
    BY <1>1, <1>2, <1>11, <2>1 DEF SignPid, DGoto, DaemonTypeOK
  <2>3. ASSUME ~contested PROVE HolderNamed'
    <3>1. HolderNamed /\ pidfile.by = d
      BY <1>11, <2>3 DEF DaemonInv, HolderNamed, Holding, SignPid
    <3>2. pidfile'.pid = d
      BY <1>2, <1>11, <3>1 DEF SignPid
    <3>3. \A c \in Daemons : dpc'[c] \in Holding => c = d
      BY <1>2, <1>11, <3>1 DEF SignPid, DGoto, HolderNamed, Holding
    <3>4. QED BY <2>1, <3>1, <3>2, <3>3 DEF HolderNamed, Holding
  <2>4. QED BY <1>1, <1>11, <2>2, <2>3 DEF SignPid, DaemonInv
<1>12. ASSUME UNCHANGED daemonVars PROVE DaemonInv'
  <2>1. DaemonTypeOK'
    BY <1>1, <1>2, <1>12 DEF daemonVars, DaemonTypeOK
  <2>2. QED BY <1>1, <1>12, <2>1 DEF daemonVars, DaemonInv, HolderNamed
<1>13. ASSUME NEW p \in Procs, Killed(p) PROVE DaemonInv'
  <2>1. CASE p \in Daemons
    <3>1. dseen' \in [Daemons -> Daemons \cup {None}]
      BY <1>2, <1>13, <2>1 DEF Killed
    <3>2. QED BY <1>3, <1>13, <2>1, <3>1 DEF Killed, DGoto
  <2>2. CASE p \notin Daemons
    BY <1>12, <1>13, <2>2 DEF Killed, daemonVars
  <2>3. QED BY <2>1, <2>2
<1>14. ASSUME NEW p \in Procs, Appends(p) \/ LedgerStep(p) \/ LedgerWait(p)
       PROVE  DaemonInv'
  BY <1>12, <1>14 DEF Appends, LedgerStep, LedgerWait
<1>15. CASE UNCHANGED allVars
  BY <1>12, <1>15 DEF allVars
<1>16. QED
  BY <1>6, <1>7, <1>8, <1>9, <1>10, <1>11, <1>13, <1>14, <1>15
     DEF DaemonNext, Acquire

LEMMA DaemonInvariant == DaemonSpec => []DaemonInv
BY DaemonInvInit, DaemonInvStep, PTL DEF DaemonSpec

----------------------------------------------------------------------------
(* The theorems. *)

\* The stores of every process have the types they are written with.
THEOREM DaemonTypeCorrect == DaemonSpec => []DaemonTypeOK
<1>1. DaemonInv => DaemonTypeOK
  BY DEF DaemonInv
<1>2. QED BY <1>1, DaemonInvariant, PTL

\* Appends of the daemons and of the operator's commands are serialized, however
\* many there are, unless a lock is removed under its creator.
THEOREM LedgerSerialized == DaemonSpec => []Serialized
<1>1. DaemonInv => Serialized
  BY LedgerInvImplies DEF DaemonInv
<1>2. QED BY <1>1, DaemonInvariant, PTL

\* What a fork has broken no later append mends.
THEOREM ForkStaysVisible == DaemonSpec => NeverHidden
<1>1. DaemonInv /\ [DaemonNext]_allVars => [~Verifies => ~Verifies']_ledgerVars
  BY HiddenStep, DaemonStepsLedger DEF DaemonInv
<1>2. QED BY <1>1, DaemonInvariant, PTL DEF DaemonSpec, NeverHidden

\* At most one daemon runs, and the pid file names it, unless the file is
\* removed from under a daemon that is starting or running.
THEOREM OneDaemonRuns == DaemonSpec => []OneDaemonUnlessContested
<1>1. DaemonInv => OneDaemonUnlessContested
  <2> SUFFICES ASSUME DaemonInv, ~contested
               PROVE  OneDaemonUnlessContested
    BY DEF OneDaemonUnlessContested
  <2>1. HolderNamed
    BY DEF DaemonInv
  <2>2. ASSUME NEW c \in Daemons, NEW d \in Daemons,
               {dpc[c], dpc[d]} \subseteq Holding
        PROVE  c = d
    BY <2>1, <2>2 DEF HolderNamed
  <2>3. ASSUME NEW d \in Daemons, Running(d)
        PROVE  pidfile = [by |-> d, pid |-> d]
    BY <2>1, <2>3 DEF HolderNamed, Holding, Running, DaemonInv, DaemonTypeOK
  <2>4. QED BY <2>2, <2>3 DEF OneDaemonUnlessContested, Holding
<1>2. QED BY <1>1, DaemonInvariant, PTL

----------------------------------------------------------------------------
(* Who is to blame for a stolen lock.                                      *)

Failed == waited \/ \E p \in Procs : ~alive[p]

\* A waiter about to remove the lock has found its holder gone, or has waited
\* beyond its deadline.
Blamed ==
  /\ stolen => Failed
  /\ \A p \in Procs : late[p] => waited
  /\ \A p \in Procs : pc[p] = "unlink" => Failed

LEMMA FailedStays ==
  ASSUME LedgerTypeOK, [LedgerNext]_ledgerVars, Failed
  PROVE  Failed'
<1> USE DEF ledgerVars, Failed, LedgerTypeOK
<1>1. ASSUME NEW p \in Procs, Append_(p) \/ Step(p) \/ Deadline(p) PROVE Failed'
  BY <1>1 DEF Append_, Step, Deadline, Open, Look, Check, Unlink, Sign, Read, Write, DropLock
<1>2. ASSUME NEW p \in Procs, Kill(p) \/ Exit(p) PROVE Failed'
  BY <1>2 DEF Kill, Exit
<1> QED BY <1>1, <1>2 DEF LedgerNext

LEMMA BlamedStep == LedgerInv /\ Blamed /\ [LedgerNext]_ledgerVars => Blamed'
<1> SUFFICES ASSUME LedgerInv, Blamed, [LedgerNext]_ledgerVars PROVE Blamed'
  OBVIOUS
<1>1. LedgerTypeOK /\ (Failed => Failed')
  BY FailedStays DEF LedgerInv
<1>2. /\ pc \in [Procs -> {"idle", "dead"} \cup Waiting \cup Critical]
      /\ late \in [Procs -> BOOLEAN] /\ alive \in [Procs -> BOOLEAN]
      /\ seen \in [Procs -> Procs \cup {None}]
  BY <1>1 DEF LedgerTypeOK
<1>3. ASSUME NEW p \in Procs, Append_(p) PROVE Blamed'
  BY <1>1, <1>2, <1>3 DEF Append_, Goto, Blamed
<1>4. ASSUME NEW p \in Procs, Open(p) \/ Look(p) \/ Sign(p) \/ Read(p) \/ Write(p)
      PROVE  Blamed'
  <2>1. /\ UNCHANGED <<late, waited, stolen>>
        /\ \A q \in Procs : pc'[q] = "unlink" => pc[q] = "unlink"
    <3>1. CASE Open(p)
      BY <1>2, <3>1 DEF Open, Goto
    <3>2. CASE Look(p) \/ Sign(p)
      BY <1>2, <3>2 DEF Look, Sign, Goto
    <3>3. CASE Read(p) \/ Write(p)
      BY <1>2, <3>3 DEF Read, Write, Goto
    <3> QED BY <1>4, <3>1, <3>2, <3>3
  <2> QED BY <1>1, <2>1 DEF Blamed
<1>5. ASSUME NEW p \in Procs, Check(p) PROVE Blamed'
  <2>1. pc'[p] = "unlink" => Failed
    BY <1>2, <1>5 DEF Check, Goto, Blamed, Failed
  <2> QED BY <1>1, <1>2, <1>5, <2>1 DEF Check, Goto, Blamed
<1>6. ASSUME NEW p \in Procs, Unlink(p) PROVE Blamed'
  BY <1>1, <1>2, <1>6 DEF Unlink, Goto, Blamed
<1>7. ASSUME NEW p \in Procs, DropLock(p) PROVE Blamed'
  <2>1. ~stolen => ~RobsHolder(p)
    BY <1>7 DEF DropLock, LedgerInv, CriticalOwns, Critical, RobsHolder
  <2>2. stolen' => stolen
    BY <1>7, <2>1, Zenon DEF DropLock
  <2> QED BY <1>1, <1>2, <1>7, <2>2 DEF DropLock, Goto, Blamed
<1>8. ASSUME NEW p \in Procs, Deadline(p) PROVE Blamed'
  <2>1. waited' /\ Failed'
    BY <1>8 DEF Deadline, Failed
  <2> QED BY <2>1 DEF Blamed
<1>9. ASSUME NEW p \in Procs, Kill(p) \/ Exit(p) PROVE Blamed'
  <2>1. ~alive'[p]
    BY <1>2, <1>9 DEF Kill, Exit
  <2>2. Failed'
    BY <2>1 DEF Failed
  <2>3. UNCHANGED <<late, waited>>
    BY <1>9 DEF Kill, Exit
  <2> QED BY <2>2, <2>3 DEF Blamed
<1>10. CASE UNCHANGED ledgerVars
  BY <1>1, <1>10 DEF ledgerVars, Blamed
<1> QED BY <1>3, <1>4, <1>5, <1>6, <1>7, <1>8, <1>9, <1>10 DEF LedgerNext, Step

\* Nobody loses the lock it holds unless some process has died or has waited
\* beyond its deadline.
THEOREM TheftHasCause == DaemonSpec => []StolenOnlyAfterFailure
<1>1. DaemonInit => Blamed
  BY DEF DaemonInit, LedgerInit, Blamed
<1>2. DaemonInv /\ Blamed /\ [DaemonNext]_allVars => Blamed'
  BY BlamedStep, DaemonStepsLedger DEF DaemonInv
<1>3. Blamed => StolenOnlyAfterFailure
  BY DEF Blamed, StolenOnlyAfterFailure, Failed
<1> QED BY <1>1, <1>2, <1>3, DaemonInvariant, PTL DEF DaemonSpec

=============================================================================
