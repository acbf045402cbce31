----------------------------- MODULE AuditLedger -----------------------------
(***************************************************************************)
(* AuditChain.append (stores.py): several processes - the daemon, the      *)
(* operator's commands - append to one hash-chained ledger.  Each append   *)
(* reads the tail, links to it and writes, between taking and dropping a   *)
(* sidecar lock file whose text is the holder's pid.  A waiter removes the *)
(* lock of a holder that is gone, and any lock once its deadline is past.  *)
(*                                                                         *)
(* Every call of the operating system is a step; a process may be killed   *)
(* between any two of them.  Calls behave as on POSIX: a file can be       *)
(* unlinked while it is open, and its holder then writes to nothing.       *)
(***************************************************************************)
EXTENDS Naturals, Sequences, FiniteSets

CONSTANTS
  Procs,        \* processes that append to the ledger, each with its own pid
  None,         \* "no process"
  MaxAppends,   \* appends of one process
  MaxKills,     \* processes killed
  Deadlines,    \* whether a wait may outlast _LOCK_TIMEOUT_S
  Prompt        \* processes whose steps and clock do not stop

ASSUME LedgerAssumption ==
  /\ None \notin Procs /\ Prompt \subseteq Procs
  /\ MaxAppends \in Nat /\ MaxKills \in Nat /\ Deadlines \in BOOLEAN

VARIABLES
  lock,     \* the sidecar file: who created it (None: no file), and its text
  rows,     \* the ledger: of each line, the line it links to
  torn,     \* the last line has no newline: a kill cut it short
  pc,       \* the step of each process
  tail, seen,   \* what it has read: the tail, the pid in the lock file
  late,     \* its deadline is past
  left,     \* appends it may still start
  alive, kills,
  waited,   \* history: some deadline has passed
  stolen    \* history: a lock was removed while its creator was using it

fileVars   == <<lock, rows, torn>>
readVars   == <<tail, seen>>
ledgerVars == <<fileVars, pc, readVars, late, left, alive, kills, waited, stolen>>

Free == [by |-> None, pid |-> None]
\* A row linked to line n; ok: the line parses, as a cut or a glued one does not.
Line(n, ok) == [link |-> n, ok |-> ok]

Waiting  == {"open", "look", "check", "unlink"}
Critical == {"sign", "read", "write", "drop"}

\* AuditChain.verify: every row parses and links to the row before it.
Verifies == \A i \in DOMAIN rows : rows[i].ok /\ rows[i].link = i - 1

\* Removing the lock while its creator is between open and unlink.
RobsHolder(p) == lock.by \notin {None, p} /\ pc[lock.by] \in Critical

----------------------------------------------------------------------------
LedgerInit ==
  /\ lock = Free /\ rows = <<>> /\ torn = FALSE
  /\ pc = [p \in Procs |-> "idle"] /\ tail = [p \in Procs |-> 0]
  /\ seen = [p \in Procs |-> None]
  /\ late = [p \in Procs |-> FALSE] /\ left = [p \in Procs |-> MaxAppends]
  /\ alive = [p \in Procs |-> TRUE] /\ kills = 0
  /\ waited = FALSE /\ stolen = FALSE

Goto(p, step) == pc' = [pc EXCEPT ![p] = step]

Append_(p) ==
  /\ pc[p] = "idle" /\ left[p] > 0
  /\ Goto(p, "open")
  /\ left' = [left EXCEPT ![p] = @ - 1]
  /\ late' = [late EXCEPT ![p] = FALSE]
  /\ UNCHANGED <<fileVars, readVars, alive, kills, waited, stolen>>

OpenShared(p) ==
  /\ pc[p] = "open"
  /\ lock' = [by |-> p, pid |-> None] /\ Goto(p, "sign")
  /\ UNCHANGED <<rows, torn, readVars, late, left, alive, kills, waited, stolen>>

\* os.open with O_CREAT | O_EXCL: one winner, the others look at the file.
Open(p) ==
  /\ pc[p] = "open"
  /\ IF lock = Free THEN lock' = [by |-> p, pid |-> None] /\ Goto(p, "sign")
                    ELSE Goto(p, "look") /\ UNCHANGED lock
  /\ UNCHANGED <<rows, torn, readVars, late, left, alive, kills, waited, stolen>>

\* The pid in the file: None for a file that is gone or still empty.
Look(p) ==
  /\ pc[p] = "look"
  /\ Goto(p, "check")
  /\ seen' = [seen EXCEPT ![p] = lock.pid]
  /\ UNCHANGED <<fileVars, tail, late, left, alive, kills, waited, stolen>>

CheckEmptyIsGone(p) ==
  /\ pc[p] = "check"
  /\ Goto(p, IF seen[p] = None \/ ~alive[seen[p]] \/ late[p]
               THEN "unlink" ELSE "open")
  /\ seen' = [seen EXCEPT ![p] = None]
  /\ UNCHANGED <<fileVars, tail, late, left, alive, kills, waited, stolen>>

CheckHolderOnly(p) ==
  /\ pc[p] = "check"
  /\ Goto(p, IF seen[p] # None /\ ~alive[seen[p]] THEN "unlink" ELSE "open")
  /\ seen' = [seen EXCEPT ![p] = None]
  /\ UNCHANGED <<fileVars, tail, late, left, alive, kills, waited, stolen>>

\* A holder that is gone or a deadline that is past makes the waiter remove the
\* file; otherwise it sleeps.
Check(p) ==
  /\ pc[p] = "check"
  /\ Goto(p, IF (seen[p] # None /\ ~alive[seen[p]]) \/ late[p]
               THEN "unlink" ELSE "open")
  /\ seen' = [seen EXCEPT ![p] = None]
  /\ UNCHANGED <<fileVars, tail, late, left, alive, kills, waited, stolen>>

\* The file removed is the one there is now, not the one looked at.
Unlink(p) ==
  /\ pc[p] = "unlink"
  /\ Goto(p, "open")
  /\ lock' = Free
  /\ stolen' = (stolen \/ RobsHolder(p))
  /\ UNCHANGED <<rows, torn, readVars, late, left, alive, kills, waited>>

\* os.write of the pid, to the file this process created.
Sign(p) ==
  /\ pc[p] = "sign"
  /\ Goto(p, "read")
  /\ lock' = IF lock.by = p THEN [lock EXCEPT !.pid = p] ELSE lock
  /\ UNCHANGED <<rows, torn, readVars, late, left, alive, kills, waited, stolen>>

\* The tail to link to; a last line that does not parse has no hash, and the
\* KeyError leaves through the finally clause.
Read(p) ==
  /\ pc[p] = "read"
  /\ tail' = [tail EXCEPT ![p] = Len(rows)]
  /\ Goto(p, IF rows # <<>> /\ ~rows[Len(rows)].ok THEN "drop" ELSE "write")
  /\ UNCHANGED <<fileVars, seen, late, left, alive, kills, waited, stolen>>

WriteOverTornLine(p) ==
  /\ pc[p] = "write"
  /\ Goto(p, "drop")
  /\ rows' = IF torn THEN [rows EXCEPT ![Len(rows)] = Line(Len(rows) - 1, TRUE)]
                     ELSE Append(rows, Line(tail[p], TRUE))
  /\ torn' = FALSE
  /\ UNCHANGED <<lock, readVars, late, left, alive, kills, waited, stolen>>

\* Behind a line cut short, the row becomes part of that line, which does not
\* parse any more.
Write(p) ==
  /\ pc[p] = "write"
  /\ Goto(p, "drop")
  /\ rows' = IF torn THEN [rows EXCEPT ![Len(rows)].ok = FALSE]
                     ELSE Append(rows, Line(tail[p], TRUE))
  /\ torn' = FALSE
  /\ UNCHANGED <<lock, readVars, late, left, alive, kills, waited, stolen>>

\* The finally clause unlinks the path, whoever created what is there now.
DropLock(p) ==
  /\ pc[p] = "drop"
  /\ Goto(p, "idle")
  /\ lock' = Free
  /\ stolen' = (stolen \/ RobsHolder(p))
  /\ tail' = [tail EXCEPT ![p] = 0]
  /\ UNCHANGED <<rows, torn, seen, late, left, alive, kills, waited>>

Deadline(p) ==
  /\ Deadlines /\ pc[p] \in Waiting /\ ~late[p]
  /\ late' = [late EXCEPT ![p] = TRUE] /\ waited' = TRUE
  /\ UNCHANGED <<fileVars, pc, readVars, left, alive, kills, stolen>>

\* A kill leaves the lock where it is, and may cut a line short: somewhere in
\* the row, or just before its newline.
Kill(p) ==
  /\ alive[p] /\ kills < MaxKills
  /\ kills' = kills + 1
  /\ alive' = [alive EXCEPT ![p] = FALSE] /\ Goto(p, "dead")
  /\ tail' = [tail EXCEPT ![p] = 0] /\ seen' = [seen EXCEPT ![p] = None]
  /\ \/ UNCHANGED <<rows, torn>>
     \/ /\ pc[p] = "write" /\ ~torn
        /\ \E ok \in BOOLEAN : rows' = Append(rows, Line(tail[p], ok))
        /\ torn' = TRUE
  /\ UNCHANGED <<lock, late, left, waited, stolen>>

\* A process ends of itself between two appends.
Exit(p) ==
  /\ pc[p] = "idle"
  /\ alive' = [alive EXCEPT ![p] = FALSE] /\ Goto(p, "dead")
  /\ UNCHANGED <<fileVars, readVars, late, left, kills, waited, stolen>>

Step(p) ==
  \/ Open(p) \/ Look(p) \/ Check(p) \/ Unlink(p) \/ Sign(p) \/ Read(p)
  \/ Write(p) \/ DropLock(p)

LedgerNext == \E p \in Procs : Append_(p) \/ Step(p) \/ Deadline(p) \/ Kill(p)
                             \/ Exit(p)

LedgerSpec == LedgerInit /\ [][LedgerNext]_ledgerVars

----------------------------------------------------------------------------
LedgerTypeOK ==
  /\ lock \in [by: Procs \cup {None}, pid: Procs \cup {None}]
  /\ rows \in Seq([link: Nat, ok: BOOLEAN]) /\ torn \in BOOLEAN
  /\ pc \in [Procs -> {"idle", "dead"} \cup Waiting \cup Critical]
  /\ tail \in [Procs -> Nat] /\ seen \in [Procs -> Procs \cup {None}]
  /\ late \in [Procs -> BOOLEAN] /\ left \in [Procs -> Nat]
  /\ alive \in [Procs -> BOOLEAN] /\ kills \in Nat
  /\ waited \in BOOLEAN /\ stolen \in BOOLEAN

\* "Ledger appends are serialized across processes": unless a lock is removed
\* under its creator, and whoever is killed wherever, no two processes are
\* between taking and dropping it, the rows link one after the other, and
\* nothing is written any more behind a line that does not parse.
Serialized ==
  ~stolen =>
    /\ \A p, q \in Procs : {pc[p], pc[q]} \subseteq Critical => p = q
    /\ \A i \in DOMAIN rows : rows[i].link = i - 1 /\ (i = Len(rows) \/ rows[i].ok)

\* A lock is removed under its creator only in the wake of a process that is
\* gone, or of a wait beyond the deadline.
StolenOnlyAfterFailure == stolen => waited \/ \E p \in Procs : ~alive[p]

\* What a fork or a line cut short has broken stays broken: "a raced append is
\* still reported by verify rather than hidden".
NeverHidden == [][~Verifies => ~Verifies']_ledgerVars

\* "The audit write must never be able to stall the daemon": an append ends,
\* although another process holds the lock and does not move.
NeverStalls ==
  \A p \in Prompt : (pc[p] # "idle") ~> (pc[p] \in {"idle", "dead"})

============================================================================
