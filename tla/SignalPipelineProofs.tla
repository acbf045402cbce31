------------------------ MODULE SignalPipelineProofs ------------------------
(***************************************************************************)
(* Proofs about SignalPipeline, for every tree of artifacts, every mandate *)
(* and every number of crashes, restarts, edits and halts.                 *)
(***************************************************************************)
EXTENDS SignalPipeline, FiniteSetTheorems, TLAPS

----------------------------------------------------------------------------
(* What the plan of each verdict writes. *)

\* The verdicts, and the writes of each.
LEMMA VerdictSet ==
  /\ Verdicts = {"dead_lettered", "invalid", "future", "skip", "no_reference",
                 "unroutable", "blocked", "dry_run", "emitted"}
  /\ Plan["dead_lettered"] = DeadLetterWrites
  /\ Plan["invalid"] = <<"journal", "settle", "audit">>
  /\ Plan["future"] = <<"settle", "audit">>
  /\ Plan["skip"] = <<"settle">>
  /\ Plan["no_reference"] = <<"settle", "audit">>
  /\ Plan["unroutable"] = <<"settle", "audit", "quarantine">>
  /\ Plan["blocked"] = BlockedWrites
  /\ Plan["dry_run"] = <<"monitor", "settle", "audit">>
  /\ Plan["emitted"] = EmittedWrites
BY DEF Verdicts, Plan

LEMMA PlanLength ==
  /\ Len(Plan["dead_lettered"]) = 3 /\ Len(Plan["invalid"]) = 3
  /\ Len(Plan["future"]) = 2 /\ Len(Plan["skip"]) = 1
  /\ Len(Plan["no_reference"]) = 2 /\ Len(Plan["unroutable"]) = 3
  /\ Len(Plan["blocked"]) = 6 /\ Len(Plan["dry_run"]) = 3
  /\ Len(Plan["emitted"]) = 8
BY VerdictSet DEF DeadLetterWrites, BlockedWrites, EmittedWrites

\* Every verdict has at least one write to perform.
LEMMA PlanNonempty ==
  ASSUME NEW v \in Verdicts
  PROVE  Len(Plan[v]) \in Nat \ {0}
<1>1. Len(Plan[v]) \in {1, 2, 3, 6, 8}
  BY VerdictSet, PlanLength
<1>2. \A n \in {1, 2, 3, 6, 8} : n \in Nat \ {0}
  OBVIOUS
<1>3. QED BY <1>1, <1>2

\* Three verdicts write the journal, and each has an outcome name of its own.
LEMMA JournalledVerdicts ==
  ASSUME NEW v \in Verdicts, NEW i \in 1..Len(Plan[v]), Plan[v][i] = "journal"
  PROVE  v \in {"invalid", "blocked", "emitted"}
<1>1. v # "dead_lettered"
  BY VerdictSet, PlanLength DEF DeadLetterWrites
<1>2. v # "future" BY VerdictSet, PlanLength
<1>3. v # "skip" BY VerdictSet, PlanLength
<1>4. v # "no_reference" BY VerdictSet, PlanLength
<1>5. v # "unroutable" BY VerdictSet, PlanLength
<1>6. v # "dry_run" BY VerdictSet, PlanLength
<1>7. QED BY <1>1, <1>2, <1>3, <1>4, <1>5, <1>6, VerdictSet

\* An emission writes its journal row second, counts the signal third and
\* stores it fourth; no other verdict counts or stores.
LEMMA EmissionOrder ==
  ASSUME NEW v \in Verdicts, NEW i \in 1..Len(Plan[v])
  PROVE  /\ Plan[v][i] = "signal" => v = "emitted" /\ i = 3
         /\ Plan[v][i] = "store" => v = "emitted" /\ i = 4
         /\ v = "emitted" => /\ i = 2 => Plan[v][i] = "journal"
                             /\ i = 3 => Plan[v][i] = "signal"
                             /\ i = 4 => Plan[v][i] = "store"
<1>1. CASE v = "emitted"
  BY <1>1, VerdictSet, PlanLength DEF EmittedWrites
<1>2. CASE v = "dead_lettered"
  BY <1>2, VerdictSet, PlanLength DEF DeadLetterWrites
<1>3. CASE v = "future" BY <1>3, VerdictSet, PlanLength
<1>4. CASE v = "skip" BY <1>4, VerdictSet, PlanLength
<1>5. CASE v = "no_reference" BY <1>5, VerdictSet, PlanLength
<1>6. CASE v = "unroutable" BY <1>6, VerdictSet, PlanLength
<1>7. CASE v = "dry_run" BY <1>7, VerdictSet, PlanLength
<1>8. CASE v = "blocked"
  BY <1>8, VerdictSet, PlanLength DEF BlockedWrites
<1>9. CASE v = "invalid" BY <1>9, VerdictSet, PlanLength
<1>10. QED
  BY <1>1, <1>2, <1>3, <1>4, <1>5, <1>6, <1>7, <1>8, <1>9, VerdictSet

\* Past admission a decision ends in a verdict that has a plan.
LEMMA VerdictOfType ==
  ASSUME NEW a, NEW refOk, NEW held, NEW others
  PROVE  VerdictOf(a, refOk, held, others) \in Verdicts \ {"dead_lettered"}
BY VerdictSet DEF VerdictOf

----------------------------------------------------------------------------
(* Types. *)

\* What an artifact says is of the declared types.
LEMMA MetaFacts ==
  ASSUME NEW a \in Artifacts
  PROVE  /\ Key(a) \in Keys /\ DeadKey(a) \in Keys
         /\ Hash(a) \in Hashes /\ Ticker(a) \in Tickers
BY ConstantsAssumption DEF MetaType, Key, DeadKey, Hash, Ticker

KeyStates == {"none", "admitted", "committed", "dead_lettered"}

\* The tables, each by itself.
LEMMA TableTypes ==
  ASSUME TypeOK
  PROVE  /\ inbox \in [Keys -> KeyStates] /\ processed \in SUBSET JournalRow
         /\ jsignals \in Seq(FeedRow) /\ store \in Seq(FeedRow)
         /\ terminated.inbox \in [Keys -> KeyStates]
         /\ terminated.processed \in SUBSET JournalRow
         /\ terminated.jsignals \in Seq(FeedRow) /\ terminated.store \in Seq(FeedRow)
<1>1. Tables \in TablesType /\ terminated \in TablesType
  BY DEF TypeOK
<1> QED BY <1>1 DEF Tables, TablesType, KeyStates

\* One write moves the process to the next write, or back to the scan.
LEMMA WritesType ==
  ASSUME TypeOK, NEW w, Writes(w)
  PROVE  /\ cur \in Artifacts /\ verdict \in Verdicts
         /\ at \in 1..Len(Plan[verdict]) /\ Plan[verdict][at] = w
         /\ pc' \in {"scan", "write"} /\ cur' \in Artifacts \cup {None}
         /\ now' \in Days /\ verdict' \in Verdicts
         /\ at' \in 1..Len(Plan[verdict']) /\ offer' \in BOOLEAN
         /\ pc' = "write" => cur' \in Artifacts
<1>1. /\ at \in 1..Len(Plan[verdict]) /\ verdict \in Verdicts
      /\ cur \in Artifacts /\ Plan[verdict][at] = w
  BY DEF TypeOK, Writes
<1>2. Len(Plan[verdict]) \in Nat
  BY <1>1, PlanNonempty
<1>3. CASE at = Len(Plan[verdict])
  <2>1. pc' = "scan" /\ NoLocals
    BY <1>3 DEF Writes
  <2>2. "skip" \in Verdicts /\ 1 \in 1..Len(Plan["skip"]) /\ 0 \in Days
    BY VerdictSet, PlanLength, ConstantsAssumption DEF Days
  <2>3. QED BY <1>1, <2>1, <2>2 DEF NoLocals
<1>4. CASE at # Len(Plan[verdict])
  <2>1. /\ at' = at + 1
        /\ pc' = "write" /\ cur' = cur /\ now' = now
        /\ verdict' = verdict /\ offer' = offer
    BY <1>4 DEF Writes
  <2>2. at + 1 \in 1..Len(Plan[verdict])
    BY <1>1, <1>2, <1>4
  <2>3. QED BY <1>1, <2>1, <2>2 DEF TypeOK
<1>5. QED BY <1>3, <1>4

\* A table of each file makes tables.
LEMMA Mixed ==
  ASSUME NEW x \in TablesType, NEW y \in TablesType, NEW T
  PROVE  [t \in DOMAIN Tables |-> IF t \in T THEN x[t] ELSE y[t]] \in TablesType
<1>1. DOMAIN Tables = {"inbox", "processed", "jsignals", "store"}
  BY DEF Tables
<1> QED BY <1>1 DEF TablesType

\* What is read is a table of each file.
LEMMA ReadType ==
  ASSUME NEW after \in TablesType, Read(after)
  PROVE  Tables' \in TablesType
<1>1. Tables' = [inbox |-> after.inbox, processed |-> after.processed,
                 jsignals |-> after.jsignals, store |-> after.store]
  BY DEF Tables, Read
<1> QED BY <1>1 DEF TablesType

LEMMA GluedType ==
  ASSUME TypeOK, NEW f
  PROVE  Glued(f) \in TablesType
BY Mixed DEF Glued, TypeOK

\* The row in hand is of its table.
LEMMA GrownType ==
  ASSUME TypeOK, pc \in {"admit", "write"}
  PROVE  Grown \in TablesType
<1> DEFINE w == IF pc = "admit" THEN "admit" ELSE Plan[verdict][at]
<1>1. /\ cur \in Artifacts /\ verdict \in Verdicts /\ at \in 1..Len(Plan[verdict])
      /\ mandate \in SUBSET Tickers /\ now \in Days
  BY DEF TypeOK
<1>2. /\ Key(cur) \in Keys /\ DeadKey(cur) \in Keys
      /\ Hash(cur) \in Hashes /\ Ticker(cur) \in Tickers
  BY <1>1, MetaFacts
<1>3. \A k \in Keys, s \in KeyStates : InboxWith(k, s) \in [Keys -> KeyStates]
  BY TableTypes DEF InboxWith
<1>4. w = "journal" => ProcessedRow \in JournalRow
  <2>1. SUFFICES ASSUME w = "journal" PROVE ProcessedRow \in JournalRow
    OBVIOUS
  <2>2. verdict \in {"invalid", "blocked", "emitted"}
    BY <1>1, <2>1, JournalledVerdicts
  <2> QED BY <1>1, <1>2, <2>2 DEF ProcessedRow, JournalRow
<1>5. Row(cur) \in FeedRow
  BY <1>1, <1>2 DEF Row, FeedRow
<1>6. Grown.inbox \in [Keys -> KeyStates]
  BY <1>2, <1>3, TableTypes DEF Grown, KeyStates
<1>7. Grown.processed \in SUBSET JournalRow
  BY <1>4, TableTypes DEF Grown
<1>8. Grown.jsignals \in Seq(FeedRow) /\ Grown.store \in Seq(FeedRow)
  BY <1>5, TableTypes DEF Grown
<1> QED BY <1>6, <1>7, <1>8 DEF Grown, TablesType, KeyStates

\* An append leaves the tables and the ends of the files within their type.
LEMMA AppendType ==
  ASSUME TypeOK, NEW f \in Files, AppendTo(f), pc \in {"admit", "write"}
  PROVE  /\ Tables' \in TablesType /\ terminated' \in TablesType
         /\ cut' \in SUBSET Files /\ lost' \in SUBSET Files
<1> DEFINE after == IF f \in cut THEN Glued(f) ELSE Grown
<1>1. after \in TablesType
  BY GluedType, GrownType
<1>2. /\ Read(after)
      /\ terminated' = [t \in DOMAIN Tables |->
                          IF t \in TablesOf[f] THEN after[t] ELSE terminated[t]]
  BY DEF AppendTo
<1>3. cut' \in SUBSET Files /\ lost' \in SUBSET Files
  BY DEF AppendTo, TypeOK
<1> HIDE DEF after
<1>4. terminated' \in TablesType
  BY <1>1, <1>2, Mixed DEF TypeOK
<1>5. Tables' \in TablesType
  BY <1>1, <1>2, ReadType
<1> QED BY <1>3, <1>4, <1>5

\* So does a crash in the middle of one.
LEMMA CutType ==
  ASSUME TypeOK, NEW f \in Files, CutShort(f) \/ CutBeforeNewline(f),
         pc \in {"admit", "write"}
  PROVE  /\ Tables' \in TablesType /\ terminated' \in TablesType
         /\ cut' \in SUBSET Files /\ lost' \in SUBSET Files
<1>1. /\ terminated' \in TablesType
      /\ cut' \in SUBSET Files /\ lost' \in SUBSET Files
  BY DEF CutShort, CutBeforeNewline, TypeOK
<1>2. Tables \in TablesType
  BY DEF TypeOK
<1>3. Tables' \in TablesType
  <2>1. CASE CutShort(f)
    <3>1. CASE f \in cut
      BY <2>1, <3>1, GluedType, ReadType DEF CutShort
    <3>2. CASE f \notin cut
      BY <1>2, <2>1, <3>2, ReadType DEF CutShort
    <3> QED BY <3>1, <3>2
  <2>2. CASE CutBeforeNewline(f)
    BY <2>2, GrownType, ReadType DEF CutBeforeNewline
  <2> QED BY <2>1, <2>2
<1> QED BY <1>1, <1>3

\* Every step keeps every variable within its type.
LEMMA TypeStep == TypeOK /\ [Next]_vars => TypeOK'
<1> SUFFICES ASSUME TypeOK, [Next]_vars PROVE TypeOK'
  OBVIOUS
<1> USE DEF vars, envVars, tables, tails, ledgers, deadLetters, sideFiles, locals,
            procVars, boundVars, historyVars
<1>0. "skip" \in Verdicts /\ 1 \in 1..Len(Plan["skip"]) /\ 0 \in Days
  BY VerdictSet, PlanLength, ConstantsAssumption DEF Days
<1>t. UNCHANGED tables => Tables' = Tables
  BY DEF Tables
<1>1. CASE Poll
  BY <1>1, <1>t DEF Poll, TypeOK, Discover
<1>1p. CASE PollFails
  BY <1>0, <1>1p, <1>t DEF PollFails, Down, NoLocals, TypeOK
<1>2. CASE EndOfScan
  BY <1>2, <1>t DEF EndOfScan, TypeOK
<1>3. ASSUME NEW a \in Artifacts, Suppress(a) PROVE TypeOK'
  BY <1>3, <1>t DEF Suppress, TypeOK
<1>4. ASSUME NEW a \in Artifacts, Take(a) PROVE TypeOK'
  BY <1>4, <1>t DEF Take, TypeOK
<1>5. CASE Dedupe
  BY <1>0, <1>5, <1>t DEF Dedupe, NoLocals, TypeOK
<1>6. CASE DeadLetter
  <2>1. "dead_lettered" \in Verdicts /\ 1 \in 1..Len(Plan["dead_lettered"])
    BY VerdictSet, PlanLength
  <2>2. QED BY <1>6, <1>t, <2>1 DEF DeadLetter, TypeOK
<1>7. CASE Admit \/ SkipInvalid
  <2>1. CASE Admit
    <3>1. /\ Tables' \in TablesType /\ terminated' \in TablesType
          /\ cut' \in SUBSET Files /\ lost' \in SUBSET Files
      BY <2>1, AppendType DEF Admit, Files
    <3>2. /\ UNCHANGED <<envVars, latest, audit, sideFiles, work, locals, mandate,
                         dry, boundVars, historyVars>>
          /\ pc = "admit" /\ pc' = "decide"
      BY <2>1 DEF Admit
    <3>3. QED BY <3>1, <3>2 DEF TypeOK
  <2>2. CASE SkipInvalid
    BY <1>0, <1>t, <2>2 DEF SkipInvalid, NoLocals, TypeOK
  <2>3. QED BY <1>7, <2>1, <2>2
<1>8. ASSUME NEW refOk \in BOOLEAN, NEW held, NEW others \in BOOLEAN,
             Decide(refOk, held, others)
      PROVE  TypeOK'
  <2>1. verdict' \in Verdicts
    BY <1>8, VerdictOfType DEF Decide
  <2>2. at' \in 1..Len(Plan[verdict'])
    BY <1>8, <2>1, PlanNonempty DEF Decide
  <2>3. offer' \in BOOLEAN
    BY <1>8 DEF Decide
  <2>4. QED BY <1>8, <1>t, <2>1, <2>2, <2>3 DEF Decide, TypeOK
<1>9. ASSUME NEW w, NEW f \in Files, Writes(w), AppendTo(f), late' \in Nat,
             UNCHANGED <<latest, audit, sideFiles>>
      PROVE  TypeOK'
  <2>1. /\ Tables' \in TablesType /\ terminated' \in TablesType
        /\ cut' \in SUBSET Files /\ lost' \in SUBSET Files
    BY <1>9, AppendType DEF Writes
  <2>2. UNCHANGED <<envVars, work, mandate, dry, boundVars, edited, latest, audit,
                    sideFiles>>
    BY <1>9 DEF Writes
  <2>3. QED BY <1>9, <2>1, <2>2, WritesType DEF TypeOK
<1>10. ASSUME NEW w, Writes(w)
       PROVE  /\ Key(cur) \in Keys /\ Hash(cur) \in Hashes
              /\ Ticker(cur) \in Tickers /\ cur \in Artifacts
  BY <1>10, WritesType, MetaFacts
<1>11. CASE WriteJournal \/ WriteSignalRow \/ WriteDeadRow \/ Settle
  <2>1. late' \in Nat /\ "journal" \in Files /\ "inbox" \in Files
    BY <1>11 DEF WriteJournal, WriteSignalRow, WriteDeadRow, Settle, TypeOK, Files
  <2>2. UNCHANGED <<latest, audit, sideFiles>>
    BY <1>11 DEF WriteJournal, WriteSignalRow, WriteDeadRow, Settle
  <2>3. QED BY <1>9, <1>11, <2>1, <2>2
           DEF WriteJournal, WriteSignalRow, WriteDeadRow, Settle
<1>12. CASE WriteStore
  <2>1. late' \in Nat
    BY <1>12 DEF WriteStore, CountLate, TypeOK
  <2>2. QED BY <1>9, <1>12, <2>1 DEF WriteStore, Files
<1>13. CASE WriteLatest
  <2>1. latest' \in [Tickers -> Hashes \cup {None}]
    BY <1>13, <1>10 DEF WriteLatest, TypeOK
  <2>2. QED BY <1>13, <1>t, <2>1, WritesType DEF WriteLatest, Writes, TypeOK
<1>14. CASE WriteAudit
  <2>1. audit[cur] \in Seq(Verdicts) /\ verdict \in Verdicts
    BY <1>14, WritesType DEF WriteAudit, TypeOK
  <2>2. Append(audit[cur], verdict) \in Seq(Verdicts)
    BY <2>1
  <2>3. audit' \in [Artifacts -> Seq(Verdicts)]
    BY <1>14, <2>2 DEF WriteAudit, TypeOK
  <2>4. QED BY <1>14, <1>t, <2>3, WritesType DEF WriteAudit, Writes, TypeOK
<1>15. CASE Announce
  BY <1>15, <1>10, <1>t, WritesType DEF Announce, Writes, TypeOK
<1>16. CASE WriteMonitor
  BY <1>16, <1>10, <1>t, WritesType DEF WriteMonitor, Writes, TypeOK
<1>17. CASE WriteCandidate
  BY <1>17, <1>10, <1>t, WritesType DEF WriteCandidate, Writes, TypeOK
<1>18. CASE WriteQuarantine
  BY <1>18, <1>10, <1>t, WritesType DEF WriteQuarantine, Writes, TypeOK
<1>19. ASSUME NEW tick \in BOOLEAN, WriteDeadFile(tick) PROVE TypeOK'
  <2>1. /\ deadFiles' \in SUBSET Artifacts /\ fresh' \in SUBSET Artifacts
        /\ buried' \in SUBSET Artifacts
    BY <1>19, <1>10 DEF WriteDeadFile, TypeOK
  <2>2. UNCHANGED <<ledgers, monitors, candidates, quarantined, announced, late>>
    BY <1>19 DEF WriteDeadFile
  <2>3. UNCHANGED <<envVars, work, mandate, dry, boundVars, edited>>
    BY <1>19 DEF WriteDeadFile, Writes
  <2>4. QED BY <1>19, <1>t, <2>1, <2>2, <2>3, WritesType DEF WriteDeadFile, TypeOK
<1>22. CASE Daemon
  BY <1>1, <1>1p, <1>2, <1>3, <1>4, <1>5, <1>6, <1>7, <1>8, <1>11, <1>12,
     <1>13, <1>14, <1>15, <1>16, <1>17, <1>18, <1>19, <1>22 DEF Daemon
<1>23. ASSUME NEW a \in Artifacts, Drop(a) PROVE TypeOK'
  BY <1>23, <1>t DEF Drop, TypeOK
<1>23p. ASSUME NEW count \in 0..MaxPoison, Poison(count) PROVE TypeOK'
  <2>1. poison' \in Nat
    BY <1>23p, ConstantsAssumption DEF Poison
  <2>2. QED BY <1>23p, <1>t, <2>1 DEF Poison, TypeOK
<1>24. CASE NextDay
  <2>1. day' \in Days
    BY <1>24, ConstantsAssumption DEF NextDay, TypeOK, Days
  <2>2. QED BY <1>24, <1>t, <2>1 DEF NextDay, TypeOK
<1>25. ASSUME NEW allowed \in SUBSET Tickers, NEW valid \in BOOLEAN,
              EditMandate(allowed, valid)
       PROVE  TypeOK'
  <2>1. /\ mfile' \in SUBSET Tickers /\ mvalid' \in BOOLEAN
        /\ edited' \in BOOLEAN /\ edits' \in Nat
    BY <1>25 DEF EditMandate, TypeOK
  <2>2. QED BY <1>25, <1>t, <2>1 DEF EditMandate, TypeOK
<1>26. ASSUME NEW t \in Tickers, MandateAdd(t) \/ MandateRemove(t) PROVE TypeOK'
  <2>1. mfile \cup {t} \in SUBSET Tickers /\ mfile \ {t} \in SUBSET Tickers
    BY DEF TypeOK
  <2>2. CASE MandateAdd(t)
    <3>1. EditMandate(mfile \cup {t}, TRUE)
      BY <2>2 DEF MandateAdd
    <3>2. QED BY <1>25, <2>1, <3>1, Zenon
  <2>3. CASE MandateRemove(t)
    <3>1. EditMandate(mfile \ {t}, TRUE)
      BY <2>3 DEF MandateRemove
    <3>2. QED BY <1>25, <2>1, <3>1, Zenon
  <2>4. QED BY <1>26, <2>2, <2>3
<1>27. CASE MandateTorn \/ MandateRepaired
  <2>1. CASE MandateTorn
    <3>1. mfile \in SUBSET Tickers /\ EditMandate(mfile, FALSE)
      BY <2>1 DEF MandateTorn, TypeOK
    <3>2. QED BY <1>25, <3>1, Zenon
  <2>2. CASE MandateRepaired
    <3>1. mvalid' \in BOOLEAN /\ edited' \in BOOLEAN
      BY <2>2 DEF MandateRepaired
    <3>2. QED BY <2>2, <1>t, <3>1 DEF MandateRepaired, TypeOK
  <2>3. QED BY <1>27, <2>1, <2>2
<1>28. CASE Halt \/ Resume
  <2>1. halted' \in BOOLEAN /\ latched' \in BOOLEAN
    BY <1>28, Zenon DEF Halt, Resume, TypeOK
  <2>2. late' \in Nat /\ halts' \in Nat
    BY <1>28 DEF Halt, Resume, TypeOK
  <2>3. UNCHANGED <<tree, poison, mfile, mvalid, day, ledgers, sideFiles, procVars,
                    crashes, stops, edits, edited>>
    BY <1>28 DEF Halt, Resume
  <2>4. QED BY <1>t, <2>1, <2>2, <2>3 DEF TypeOK
<1>29. CASE World
  BY <1>23, <1>23p, <1>24, <1>26, <1>27, <1>28, <1>29 DEF World
<1>30. ASSUME NEW mode \in BOOLEAN, Start(mode) PROVE TypeOK'
  <2>1. dry' \in BOOLEAN /\ edited' \in BOOLEAN
    BY <1>30 DEF Start
  <2>2. /\ pc' = "sleep" /\ mandate' = mfile
        /\ UNCHANGED <<envVars, ledgers, sideFiles, work, locals, boundVars,
                       late>>
    BY <1>30 DEF Start
  <2>3. mandate' \in SUBSET Tickers
    BY <2>2 DEF TypeOK
  <2>4. QED BY <1>t, <2>1, <2>2, <2>3 DEF TypeOK
<1>31. CASE Stop
  <2>1. /\ Down /\ UNCHANGED <<envVars, ledgers, sideFiles, edits, halts, late>>
        /\ crashes' \in Nat /\ stops' \in Nat
    BY <1>31 DEF Stop, TypeOK
  <2>2. QED BY <1>0, <1>t, <2>1 DEF Down, NoLocals, TypeOK
<1>32. CASE Crash
  <2>1. /\ Down /\ UNCHANGED <<envVars, latest, audit, sideFiles, stops, edits, halts>>
        /\ crashes' \in Nat /\ late' \in Nat
    BY <1>32 DEF Crash, CountLate, TypeOK
  <2>2. /\ Tables' \in TablesType /\ terminated' \in TablesType
        /\ cut' \in SUBSET Files /\ lost' \in SUBSET Files
    <3>1. CASE UNCHANGED <<tables, tails>>
      BY <1>t, <3>1 DEF TypeOK
    <3>2. ASSUME NEW f \in Torn, Appending(f), CutShort(f) \/ CutBeforeNewline(f)
          PROVE  /\ Tables' \in TablesType /\ terminated' \in TablesType
                 /\ cut' \in SUBSET Files /\ lost' \in SUBSET Files
      <4>1. f \in Files /\ pc \in {"admit", "write"}
        BY <3>2, ConstantsAssumption DEF Appending
      <4>2. QED BY <3>2, <4>1, CutType
    <3>3. QED BY <1>32, <3>1, <3>2 DEF Crash
  <2>3. QED BY <1>0, <2>1, <2>2 DEF Down, NoLocals, TypeOK
<1>33. CASE UNCHANGED vars
  BY <1>33, <1>t DEF TypeOK
<1>34. QED
  BY <1>22, <1>29, <1>30, <1>31, <1>32, <1>33 DEF Next

\* The initial state is of the declared types.
LEMMA InitType == Init => TypeOK
<1>1. "skip" \in Verdicts /\ 1 \in 1..Len(Plan["skip"]) /\ 0 \in Days
  BY VerdictSet, PlanLength, ConstantsAssumption DEF Days
<1>2. InitMandate \in SUBSET Tickers
  BY ConstantsAssumption
<1>3. SUFFICES ASSUME Init PROVE TypeOK
  OBVIOUS
<1>4. /\ tree \in Seq(Artifacts)
      /\ audit \in [Artifacts -> Seq(Verdicts)]
  BY <1>3 DEF Init
<1>5. Tables \in TablesType /\ terminated \in TablesType
  <2>1. /\ inbox \in [Keys -> KeyStates] /\ processed \in SUBSET JournalRow
        /\ jsignals \in Seq(FeedRow) /\ store \in Seq(FeedRow)
    BY <1>3 DEF Init, KeyStates
  <2>2. Tables \in TablesType
    BY <2>1 DEF Tables, TablesType, KeyStates
  <2>3. QED BY <1>3, <2>2 DEF Init
<1>6. QED BY <1>1, <1>2, <1>3, <1>4, <1>5 DEF Init, TypeOK

\* Type correctness: the type of every variable, in every reachable state.
THEOREM TypeCorrect == Spec => []TypeOK
BY InitType, TypeStep, PTL DEF Spec

----------------------------------------------------------------------------
(* The steps, by what they do to the artifact in hand and to the files.    *)
(*                                                                         *)
(* A row lands in its table, or the crashed line before it takes it along: *)
(* then the table is back at what was there before that line, and the file *)
(* counts as one a row was lost from.  The step that writes the row goes   *)
(* on with the plan, or is the crash that left it without its newline.     *)

InboxCutOff   == "inbox" \in cut /\ "inbox" \in lost' /\ inbox' = terminated.inbox
JournalCutOff == /\ "journal" \in cut /\ "journal" \in lost'
                 /\ processed' = terminated.processed
                 /\ jsignals' = terminated.jsignals
FeedCutOff    == "feed" \in cut /\ "feed" \in lost' /\ store' = terminated.store

InboxTakes(key, state) ==
  /\ \/ "inbox" \notin cut /\ inbox' = InboxWith(key, state)
     \/ InboxCutOff
  /\ UNCHANGED <<processed, jsignals, store>>

\* A write at its place in the plan, performed or crashed in.
Turn(w) ==
  /\ pc = "write" /\ Plan[verdict][at] = w
  /\ Writes(w) \/ pc' = "down"
  /\ UNCHANGED <<latest, audit, sideFiles>> /\ lost \subseteq lost'

Settles == Turn("settle") /\ InboxTakes(Key(cur), "committed")
Buries  == Turn("dead_row") /\ InboxTakes(DeadKey(cur), "dead_lettered")
Admits ==
  /\ pc = "admit" /\ inbox[Key(cur)] = "none" /\ ~BadEnvelope(cur)
  /\ \/ pc' = "decide" /\ UNCHANGED <<cur, verdict, at>> /\ "inbox" \notin cut'
     \/ pc' = "down"
  /\ UNCHANGED <<latest, audit, sideFiles>> /\ lost \subseteq lost'
  /\ InboxTakes(Key(cur), "admitted")
Journals ==
  /\ Turn("journal") /\ UNCHANGED <<inbox, store>>
  /\ \/ /\ "journal" \notin cut
        /\ processed' = processed \cup {ProcessedRow} /\ jsignals' = jsignals
     \/ JournalCutOff
Counts ==
  /\ Turn("signal") /\ UNCHANGED <<inbox, store>>
  /\ \/ /\ "journal" \notin cut
        /\ jsignals' = Append(jsignals, Row(cur)) /\ processed' = processed
     \/ JournalCutOff
Stores ==
  /\ Turn("store") /\ UNCHANGED <<inbox, processed, jsignals>>
  /\ \/ "feed" \notin cut /\ store' = Append(store, Row(cur))
     \/ FeedCutOff

\* The writes to no table.
Notes == /\ \/ WriteLatest \/ WriteAudit \/ Announce \/ WriteMonitor \/ WriteCandidate
            \/ WriteQuarantine \/ \E tick \in BOOLEAN : WriteDeadFile(tick)
FileWrite == Notes \/ Settles \/ Buries \/ Journals \/ Counts \/ Stores

\* The world moves on, the second of the last dead letters included.
Still == /\ UNCHANGED <<tables, latest, audit, tails, monitors, candidates,
                        quarantined, announced, buried>>
         /\ UNCHANGED <<pc, cur, now, verdict, at, crashes>>
         /\ deadFiles' \cup fresh' = deadFiles \cup fresh /\ fresh' \subseteq fresh
Rests == /\ pc' \in {"down", "sleep", "scan"}
         /\ UNCHANGED <<tables, latest, audit, sideFiles, terminated, lost>>
Decides == \E refOk, others \in BOOLEAN, held \in {"yes", "no", "unknown"} :
             Decide(refOk, held, others)

\* What a table holds once the row in hand has landed.
LEMMA GrownBy ==
  /\ pc = "admit" =>
       /\ Grown.inbox = InboxWith(Key(cur), "admitted")
       /\ Grown.processed = processed /\ Grown.jsignals = jsignals
       /\ Grown.store = store
  /\ \A w : pc = "write" /\ Plan[verdict][at] = w =>
       /\ Grown.inbox = CASE w = "dead_row" -> InboxWith(DeadKey(cur), "dead_lettered")
                          [] w = "settle"   -> InboxWith(Key(cur), "committed")
                          [] w = "admit"    -> InboxWith(Key(cur), "admitted")
                          [] OTHER          -> inbox
       /\ Grown.processed = IF w = "journal" THEN processed \cup {ProcessedRow}
                                             ELSE processed
       /\ Grown.jsignals = IF w = "signal" THEN Append(jsignals, Row(cur)) ELSE jsignals
       /\ Grown.store = IF w = "store" THEN Append(store, Row(cur)) ELSE store
BY DEF Grown

LEMMA GluedBy ==
  /\ LET g == Glued("inbox")
     IN  /\ g.inbox = terminated.inbox /\ g.processed = processed
         /\ g.jsignals = jsignals /\ g.store = store
  /\ LET g == Glued("journal")
     IN  /\ g.inbox = inbox /\ g.processed = terminated.processed
         /\ g.jsignals = terminated.jsignals /\ g.store = store
  /\ LET g == Glued("feed")
     IN  /\ g.inbox = inbox /\ g.processed = processed
         /\ g.jsignals = jsignals /\ g.store = terminated.store
BY DEF Glued, Tables, TablesOf

\* The row lands in its file, or is lost with the line before it.
Lands(f) == \/ f \notin cut /\ Read(Grown)
            \/ f \in cut /\ Read(Glued(f)) /\ f \in lost'

LEMMA Landed ==
  ASSUME NEW f \in Files, Lands(f), Appending(f)
  PROVE  /\ f = "inbox" /\ pc = "admit" => InboxTakes(Key(cur), "admitted")
         /\ pc = "write" =>
              /\ Plan[verdict][at] \in {"settle", "dead_row", "journal", "signal", "store"}
              /\ Plan[verdict][at] = "settle" => InboxTakes(Key(cur), "committed")
              /\ Plan[verdict][at] = "dead_row" =>
                   InboxTakes(DeadKey(cur), "dead_lettered")
              /\ Plan[verdict][at] = "journal" =>
                   /\ UNCHANGED <<inbox, store>>
                   /\ \/ /\ "journal" \notin cut /\ jsignals' = jsignals
                         /\ processed' = processed \cup {ProcessedRow}
                      \/ JournalCutOff
              /\ Plan[verdict][at] = "signal" =>
                   /\ UNCHANGED <<inbox, store>>
                   /\ \/ /\ "journal" \notin cut /\ processed' = processed
                         /\ jsignals' = Append(jsignals, Row(cur))
                      \/ JournalCutOff
              /\ Plan[verdict][at] = "store" =>
                   /\ UNCHANGED <<inbox, processed, jsignals>>
                   /\ \/ "feed" \notin cut /\ store' = Append(store, Row(cur))
                      \/ FeedCutOff
<1>1. CASE f = "inbox"
  <2>1. pc = "admit" \/ (pc = "write" /\ Plan[verdict][at] \in {"settle", "dead_row"})
    BY <1>1 DEF Appending, RowsOf
  <2>2. CASE "inbox" \notin cut
    <3>1. Read(Grown)
      BY <1>1, <2>2 DEF Lands
    <3>2. CASE pc = "admit"
      BY <1>1, <2>2, <3>1, <3>2, GrownBy DEF Read, InboxTakes
    <3>3. CASE pc = "write" /\ Plan[verdict][at] = "settle"
      BY <1>1, <2>2, <3>1, <3>3, GrownBy DEF Read, InboxTakes
    <3>4. CASE pc = "write" /\ Plan[verdict][at] = "dead_row"
      BY <1>1, <2>2, <3>1, <3>4, GrownBy DEF Read, InboxTakes
    <3>5. QED BY <2>1, <3>2, <3>3, <3>4
  <2>3. CASE "inbox" \in cut
    BY <1>1, <2>1, <2>3, GluedBy DEF Lands, Read, InboxTakes, InboxCutOff
  <2>4. QED BY <2>2, <2>3
<1>2. CASE f = "journal"
  <2>1. pc = "write" /\ Plan[verdict][at] \in {"journal", "signal"}
    BY <1>2 DEF Appending, RowsOf
  <2>2. CASE "journal" \notin cut
    <3>1. Read(Grown)
      BY <1>2, <2>2 DEF Lands
    <3>2. CASE Plan[verdict][at] = "journal"
      BY <1>2, <2>1, <2>2, <3>1, <3>2, GrownBy DEF Read
    <3>3. CASE Plan[verdict][at] = "signal"
      BY <1>2, <2>1, <2>2, <3>1, <3>3, GrownBy DEF Read
    <3>4. QED BY <2>1, <3>2, <3>3
  <2>3. CASE "journal" \in cut
    BY <1>2, <2>1, <2>3, GluedBy DEF Lands, Read, JournalCutOff
  <2>4. QED BY <2>2, <2>3
<1>3. CASE f = "feed"
  <2>1. pc = "write" /\ Plan[verdict][at] = "store"
    BY <1>3 DEF Appending, RowsOf
  <2>2. CASE "feed" \notin cut
    <3>1. Read(Grown)
      BY <1>3, <2>2 DEF Lands
    <3>2. QED BY <1>3, <2>1, <2>2, <3>1, GrownBy DEF Read
  <2>3. CASE "feed" \in cut
    BY <1>3, <2>1, <2>3, GluedBy DEF Lands, Read, FeedCutOff
  <2>4. QED BY <2>2, <2>3
<1>4. QED BY <1>1, <1>2, <1>3 DEF Files

\* An append lands its row.
LEMMA AppendLands ==
  ASSUME NEW f, AppendTo(f)
  PROVE  Lands(f) /\ lost \subseteq lost'
BY DEF AppendTo, Lands

LEMMA WriteKinds ==
  /\ WriteJournal => Journals
  /\ WriteSignalRow => Counts
  /\ WriteStore => Stores
  /\ WriteDeadRow => Buries
  /\ Settle => Settles
  /\ Admit => Admits
<1> USE DEF Files, RowsOf, Appending
<1>1. ASSUME WriteJournal PROVE Journals
  <2>1. /\ pc = "write" /\ Plan[verdict][at] = "journal" /\ Turn("journal")
        /\ Lands("journal")
    BY <1>1, AppendLands DEF WriteJournal, Writes, Turn
  <2>2. QED BY <2>1, Landed DEF Journals
<1>2. ASSUME WriteSignalRow PROVE Counts
  <2>1. /\ pc = "write" /\ Plan[verdict][at] = "signal" /\ Turn("signal")
        /\ Lands("journal")
    BY <1>2, AppendLands DEF WriteSignalRow, Writes, Turn
  <2>2. QED BY <2>1, Landed DEF Counts
<1>3. ASSUME WriteStore PROVE Stores
  <2>1. /\ pc = "write" /\ Plan[verdict][at] = "store" /\ Turn("store")
        /\ Lands("feed")
    BY <1>3, AppendLands DEF WriteStore, Writes, Turn
  <2>2. QED BY <2>1, Landed DEF Stores
<1>4. ASSUME WriteDeadRow PROVE Buries
  <2>1. /\ pc = "write" /\ Plan[verdict][at] = "dead_row" /\ Turn("dead_row")
        /\ Lands("inbox")
    BY <1>4, AppendLands DEF WriteDeadRow, Writes, Turn
  <2>2. QED BY <2>1, Landed DEF Buries
<1>5. ASSUME Settle PROVE Settles
  <2>1. /\ pc = "write" /\ Plan[verdict][at] = "settle" /\ Turn("settle")
        /\ Lands("inbox")
    BY <1>5, AppendLands DEF Settle, Writes, Turn
  <2>2. QED BY <2>1, Landed DEF Settles
<1>6. ASSUME Admit PROVE Admits
  <2>1. /\ pc = "admit" /\ inbox[Key(cur)] = "none" /\ ~BadEnvelope(cur)
        /\ Lands("inbox") /\ lost \subseteq lost'
        /\ pc' = "decide" /\ UNCHANGED <<cur, verdict, at>>
        /\ UNCHANGED <<latest, audit, sideFiles>>
    BY <1>6, AppendLands DEF Admit, locals
  <2>2. "inbox" \notin cut'
    BY <1>6 DEF Admit, AppendTo
  <2>3. InboxTakes(Key(cur), "admitted")
    BY <2>1, Landed
  <2>4. QED BY <2>1, <2>2, <2>3 DEF Admits
<1>7. QED BY <1>1, <1>2, <1>3, <1>4, <1>5, <1>6

\* A crash lays everything down; the row it left may be read all the same.
LEMMA CrashKinds ==
  ASSUME Crash
  PROVE  /\ pc' = "down"
         /\ Rests \/ Admits \/ Settles \/ Buries \/ Journals \/ Counts \/ Stores
<1>1. pc' = "down" /\ UNCHANGED <<latest, audit, sideFiles>>
  BY DEF Crash, Down
<1>2. CASE UNCHANGED <<tables, tails>>
  BY <1>1, <1>2 DEF Rests, tails
<1>3. ASSUME NEW f \in Torn, Appending(f), CutShort(f) \/ CutBeforeNewline(f)
      PROVE  Rests \/ Admits \/ Settles \/ Buries \/ Journals \/ Counts \/ Stores
  <2>1. f \in Files
    BY ConstantsAssumption
  <2>2. lost \subseteq lost'
    BY <1>3 DEF CutShort, CutBeforeNewline
  <2>3. (UNCHANGED tables /\ UNCHANGED <<terminated, lost>>) \/ Lands(f)
    <3>1. CASE CutBeforeNewline(f)
      BY <3>1 DEF CutBeforeNewline, Lands
    <3>2. CASE CutShort(f) /\ f \in cut
      <4>1. CASE Tables' # Tables
        BY <3>2, <4>1 DEF CutShort, Lands
      <4>2. CASE Tables' = Tables
        BY <3>2, <4>2 DEF CutShort, Tables, tables
      <4>3. QED BY <4>1, <4>2
    <3>3. CASE CutShort(f) /\ f \notin cut
      <4>1. UNCHANGED <<inbox, processed, jsignals, store>>
        BY <3>3 DEF CutShort, Read, Tables
      <4>2. Tables' = Tables
        BY <4>1 DEF Tables
      <4>3. QED BY <3>3, <4>1, <4>2 DEF CutShort, tables
    <3>4. QED BY <1>3, <3>1, <3>2, <3>3
  <2>4. CASE Lands(f)
    <3>1. CASE pc = "admit"
      <4>1. f = "inbox" /\ inbox[Key(cur)] = "none" /\ ~BadEnvelope(cur)
        BY <1>3, <3>1 DEF Appending
      <4>2. QED BY <1>1, <1>3, <2>1, <2>2, <2>4, <3>1, <4>1, Landed DEF Admits
    <3>2. CASE pc = "write"
      <4>1. \A w : Plan[verdict][at] = w => Turn(w)
        BY <1>1, <2>2, <3>2 DEF Turn
      <4>2. Plan[verdict][at] \in {"settle", "dead_row", "journal", "signal", "store"}
        BY <1>3, <2>1, <2>4, <3>2, Landed
      <4>3. CASE Plan[verdict][at] = "settle"
        BY <1>3, <2>1, <2>4, <3>2, <4>1, <4>3, Landed DEF Settles
      <4>4. CASE Plan[verdict][at] = "dead_row"
        BY <1>3, <2>1, <2>4, <3>2, <4>1, <4>4, Landed DEF Buries
      <4>5. CASE Plan[verdict][at] = "journal"
        BY <1>3, <2>1, <2>4, <3>2, <4>1, <4>5, Landed DEF Journals
      <4>6. CASE Plan[verdict][at] = "signal"
        BY <1>3, <2>1, <2>4, <3>2, <4>1, <4>6, Landed DEF Counts
      <4>7. CASE Plan[verdict][at] = "store"
        BY <1>3, <2>1, <2>4, <3>2, <4>1, <4>7, Landed DEF Stores
      <4>8. QED BY <4>2, <4>3, <4>4, <4>5, <4>6, <4>7
    <3>3. QED BY <1>3, <3>1, <3>2 DEF Appending
  <2>5. QED BY <1>1, <2>3, <2>4 DEF Rests
<1>4. QED BY <1>1, <1>2, <1>3 DEF Crash

LEMMA StepKinds ==
  ASSUME [Next]_vars
  PROVE  \/ Still \/ Rests \/ (\E a \in Artifacts : Take(a)) \/ DeadLetter \/ Admits
         \/ Decides \/ FileWrite
<1> USE DEF vars, envVars, tails, ledgers, deadLetters, sideFiles, locals, procVars,
            boundVars, historyVars
<1>1. CASE Poll \/ EndOfScan \/ Dedupe \/ SkipInvalid \/ PollFails
  BY <1>1 DEF Poll, EndOfScan, Dedupe, SkipInvalid, PollFails, Down, Rests
<1>2. ASSUME NEW a \in Artifacts, Suppress(a) PROVE Still
  BY <1>2 DEF Suppress, Still
<1>3. CASE Daemon
  BY <1>1, <1>2, <1>3, WriteKinds DEF Daemon, Decides, FileWrite, Notes
<1>4. CASE World
  <2>1. CASE NextDay
    BY <2>1 DEF NextDay, Still
  <2>2. CASE World /\ ~NextDay
    BY <2>2 DEF World, Drop, Poison, MandateAdd, MandateRemove, MandateTorn,
       MandateRepaired, EditMandate, Halt, Resume, Still
  <2>3. QED BY <1>4, <2>1, <2>2
<1>5. CASE (\E mode \in BOOLEAN : Start(mode)) \/ Stop
  BY <1>5 DEF Start, Stop, Down, Rests
<1>6. CASE Crash
  BY <1>6, CrashKinds DEF FileWrite
<1>7. CASE UNCHANGED vars
  BY <1>7 DEF Still
<1>8. QED BY <1>3, <1>4, <1>5, <1>6, <1>7 DEF Next

\* A write is at its place in the plan; it goes on to the next, or ends.
LEMMA WriteMoves ==
  ASSUME TypeOK, NEW w, Writes(w) \/ Turn(w)
  PROVE  /\ pc = "write" /\ cur \in Artifacts /\ verdict \in Verdicts
         /\ at \in 1..Len(Plan[verdict]) /\ Plan[verdict][at] = w /\ at \in Nat
         /\ \/ pc' = "down"
            \/ pc' = "scan" /\ at = Len(Plan[verdict])
            \/ /\ pc' = "write" /\ at' = at + 1
               /\ cur' = cur /\ now' = now /\ verdict' = verdict
<1>1. /\ pc = "write" /\ Plan[verdict][at] = w
      /\ Writes(w) \/ pc' = "down"
  BY DEF Turn, Writes
<1>2. cur \in Artifacts /\ verdict \in Verdicts /\ at \in 1..Len(Plan[verdict])
  BY <1>1 DEF TypeOK
<1>3. at \in Nat
  BY <1>2
<1>4. QED BY <1>1, <1>2, <1>3 DEF Writes

\* The steps leave what they do not write: a note no table, and no write but
\* that of the dead file, the quarantine and the ledgers beside them.
LEMMA NotesTables ==
  ASSUME Notes
  PROVE  UNCHANGED <<inbox, processed, jsignals, store, terminated, cut, lost>>
<1> USE DEF ledgers, tables, tails
<1>1. CASE WriteLatest \/ WriteAudit \/ Announce \/ WriteMonitor
  BY <1>1 DEF WriteLatest, WriteAudit, Announce, WriteMonitor
<1>2. CASE WriteCandidate \/ WriteQuarantine
  BY <1>2 DEF WriteCandidate, WriteQuarantine
<1>3. CASE \E tick \in BOOLEAN : WriteDeadFile(tick)
  BY <1>3 DEF WriteDeadFile
<1>4. QED BY <1>1, <1>2, <1>3 DEF Notes

\* Every write has its turn.
LEMMA FileWriteMoves ==
  ASSUME FileWrite
  PROVE  \E w : Writes(w) \/ Turn(w)
<1>1. CASE Settles \/ Buries \/ Journals \/ Counts \/ Stores
  BY <1>1 DEF Settles, Buries, Journals, Counts, Stores
<1>2. CASE WriteLatest \/ WriteAudit \/ Announce \/ WriteMonitor
  BY <1>2 DEF WriteLatest, WriteAudit, Announce, WriteMonitor
<1>3. CASE WriteCandidate \/ WriteQuarantine \/ \E tick \in BOOLEAN : WriteDeadFile(tick)
  BY <1>3 DEF WriteCandidate, WriteQuarantine, WriteDeadFile
<1>4. QED BY <1>1, <1>2, <1>3 DEF FileWrite, Notes

\* The action is the one the plan has at this place.
LEMMA WriteByName ==
  ASSUME FileWrite
  PROVE  /\ Plan[verdict][at] = "dead_row" => Buries
         /\ Plan[verdict][at] = "settle" => Settles
         /\ Plan[verdict][at] = "audit" => WriteAudit
         /\ Plan[verdict][at] = "quarantine" => WriteQuarantine
         /\ Plan[verdict][at] = "dead_file" => \E tick \in BOOLEAN : WriteDeadFile(tick)
         /\ Plan[verdict][at] = "store" => Stores
         /\ Plan[verdict][at] = "journal" => Journals
         /\ Plan[verdict][at] = "signal" => Counts
<1>1. CASE Settles \/ Buries \/ Journals \/ Counts \/ Stores
  BY <1>1 DEF Settles, Buries, Journals, Counts, Stores, Turn
<1>2. CASE WriteLatest \/ WriteAudit \/ Announce \/ WriteMonitor
  BY <1>2 DEF WriteLatest, WriteAudit, Announce, WriteMonitor, Writes
<1>3. CASE WriteCandidate \/ WriteQuarantine \/ \E tick \in BOOLEAN : WriteDeadFile(tick)
  BY <1>3 DEF WriteCandidate, WriteQuarantine, WriteDeadFile, Writes
<1>4. QED BY <1>1, <1>2, <1>3 DEF FileWrite, Notes

\* A lost row stays lost.
LEMMA LostGrows ==
  ASSUME [Next]_vars
  PROVE  lost \subseteq lost'
<1> USE DEF tails, ledgers
<1>1. CASE Still \/ Rests \/ (\E a \in Artifacts : Take(a)) \/ DeadLetter
  BY <1>1 DEF Still, Rests, Take, DeadLetter
<1>2. CASE Admits \/ Decides
  BY <1>2 DEF Admits, Decides, Decide
<1>3. CASE Notes
  BY <1>3, NotesTables
<1>4. CASE Settles \/ Buries \/ Journals \/ Counts \/ Stores
  BY <1>4 DEF Settles, Buries, Journals, Counts, Stores, Turn
<1>5. QED BY <1>1, <1>2, <1>3, <1>4, StepKinds DEF FileWrite

----------------------------------------------------------------------------
(* What is read again once the unterminated line is gone.                  *)

PartOf(s, t) == \A i \in DOMAIN s : i \in DOMAIN t /\ t[i] = s[i]

Tailed ==
  /\ "inbox" \notin cut => terminated.inbox = inbox
  /\ "journal" \notin cut => /\ terminated.processed = processed
                             /\ terminated.jsignals = jsignals
  /\ "feed" \notin cut => terminated.store = store
  /\ terminated.processed \subseteq processed
  /\ PartOf(terminated.jsignals, jsignals)
  /\ PartOf(terminated.store, store)

\* A row behind the others.
LEMMA Appended ==
  ASSUME NEW s \in Seq(FeedRow), NEW r \in FeedRow
  PROVE  /\ Len(s) \in Nat /\ DOMAIN s = 1..Len(s)
         /\ DOMAIN Append(s, r) = DOMAIN s \cup {Len(s) + 1}
         /\ Append(s, r)[Len(s) + 1] = r /\ Len(s) + 1 \notin DOMAIN s
         /\ \A i \in DOMAIN s : Append(s, r)[i] = s[i]
         /\ PartOf(s, Append(s, r))
BY DEF PartOf

LEMMA RowType ==
  ASSUME TypeOK, cur \in Artifacts
  PROVE  Row(cur) \in FeedRow /\ Row(cur).hash = Hash(cur) /\ Row(cur).day = now
BY MetaFacts DEF TypeOK, Row, FeedRow

\* How the tables of one file move, while those of the others do not.
LEMMA OneFile ==
  ASSUME TypeOK, Tailed, NEW f \in Files, Lands(f), Appending(f)
  PROVE  /\ f # "inbox" => inbox' = inbox
         /\ f # "journal" => processed' = processed /\ jsignals' = jsignals
         /\ f # "feed" => store' = store
         /\ f = "journal" /\ f \notin cut =>
              processed \subseteq processed' /\ PartOf(jsignals, jsignals')
         /\ f = "feed" /\ f \notin cut => PartOf(store, store')
         /\ f = "inbox" /\ f \in cut => inbox' = terminated.inbox
         /\ f = "journal" /\ f \in cut =>
              processed' = terminated.processed /\ jsignals' = terminated.jsignals
         /\ f = "feed" /\ f \in cut => store' = terminated.store
<1>1. /\ pc = "admit" \/ (pc = "write" /\ cur \in Artifacts)
      /\ pc = "admit" => f = "inbox"
      /\ pc = "write" => Plan[verdict][at] \in RowsOf[f]
  BY DEF Appending, TypeOK
<1>2. cur \in Artifacts => /\ PartOf(jsignals, Append(jsignals, Row(cur)))
                           /\ PartOf(store, Append(store, Row(cur)))
  BY Appended, RowType, TableTypes
<1>3. PartOf(jsignals, jsignals) /\ PartOf(store, store)
  BY DEF PartOf
<1>4. CASE f = "inbox"
  BY <1>1, <1>4, Landed DEF InboxTakes, InboxCutOff, RowsOf
<1>5. CASE f = "journal"
  BY <1>1, <1>2, <1>3, <1>5, Landed DEF JournalCutOff, RowsOf
<1>6. CASE f = "feed"
  BY <1>1, <1>2, <1>3, <1>6, Landed DEF FeedCutOff, RowsOf
<1> QED BY <1>4, <1>5, <1>6 DEF Files

LEMMA TailedStep == TypeOK /\ Tailed /\ [Next]_vars => Tailed'
<1> SUFFICES ASSUME TypeOK, Tailed, [Next]_vars PROVE Tailed'
  OBVIOUS
<1> USE DEF vars, envVars, tables, tails, ledgers, deadLetters, sideFiles, locals,
            procVars, boundVars, historyVars
<1>0. PartOf(jsignals', jsignals') /\ PartOf(store', store')
  BY DEF PartOf
<1>1. CASE UNCHANGED <<tables, tails>>
  BY <1>1 DEF Tailed
<1>2. ASSUME NEW f \in Files, AppendTo(f), Appending(f) PROVE Tailed'
  <2>1. Lands(f)
    BY <1>2, AppendLands
  <2>2. cut' = cut \ {f}
    BY <1>2 DEF AppendTo
  <2>3. /\ DOMAIN Tables = {"inbox", "processed", "jsignals", "store"}
        /\ Tables' = [inbox |-> inbox', processed |-> processed',
                      jsignals |-> jsignals', store |-> store']
    BY DEF Tables
  <2>4. \A t \in DOMAIN Tables :
          terminated'[t] = IF t \in TablesOf[f] THEN Tables'[t] ELSE terminated[t]
    <3> DEFINE after == IF f \in cut THEN Glued(f) ELSE Grown
    <3>1. /\ Read(after)
          /\ terminated' = [t \in DOMAIN Tables |->
                              IF t \in TablesOf[f] THEN after[t] ELSE terminated[t]]
      BY <1>2 DEF AppendTo
    <3> HIDE DEF after
    <3>2. \A t \in DOMAIN Tables : Tables'[t] = after[t]
      BY <2>3, <3>1 DEF Read
    <3> QED BY <3>1, <3>2
  <2>5. CASE f = "inbox"
    <3>1. /\ terminated'.inbox = inbox' /\ terminated'.store = terminated.store
          /\ terminated'.processed = terminated.processed
          /\ terminated'.jsignals = terminated.jsignals
      BY <2>3, <2>4, <2>5 DEF TablesOf
    <3> QED BY <1>2, <2>1, <2>2, <2>5, <3>1, OneFile DEF Tailed
  <2>6. CASE f = "journal"
    <3>1. /\ terminated'.inbox = terminated.inbox /\ terminated'.store = terminated.store
          /\ terminated'.processed = processed'
          /\ terminated'.jsignals = jsignals'
      BY <2>3, <2>4, <2>6 DEF TablesOf
    <3> QED BY <1>0, <1>2, <2>1, <2>2, <2>6, <3>1, OneFile DEF Tailed
  <2>7. CASE f = "feed"
    <3>1. /\ terminated'.inbox = terminated.inbox /\ terminated'.store = store'
          /\ terminated'.processed = terminated.processed
          /\ terminated'.jsignals = terminated.jsignals
      BY <2>3, <2>4, <2>7 DEF TablesOf
    <3> QED BY <1>0, <1>2, <2>1, <2>2, <2>7, <3>1, OneFile DEF Tailed
  <2> QED BY <2>5, <2>6, <2>7 DEF Files
<1>3. ASSUME NEW f \in Files, Appending(f), CutShort(f) \/ CutBeforeNewline(f)
      PROVE  Tailed'
  <2>1. cut' = cut \cup {f} /\ terminated' = terminated
    BY <1>3 DEF CutShort, CutBeforeNewline
  <2>2. CASE UNCHANGED tables
    BY <2>1, <2>2 DEF Tailed
  <2>3. CASE Lands(f)
    <3>1. CASE f = "inbox"
      BY <1>3, <2>1, <2>3, <3>1, OneFile DEF Tailed
    <3>2. CASE f = "journal"
      BY <1>0, <1>3, <2>1, <2>3, <3>2, OneFile DEF Tailed
    <3>3. CASE f = "feed"
      BY <1>0, <1>3, <2>1, <2>3, <3>3, OneFile DEF Tailed
    <3> QED BY <3>1, <3>2, <3>3 DEF Files
  <2>4. UNCHANGED tables \/ Lands(f)
    <3>1. CASE CutBeforeNewline(f)
      BY <3>1 DEF CutBeforeNewline, Lands
    <3>2. CASE CutShort(f) /\ f \in cut
      <4>1. CASE Tables' # Tables
        BY <3>2, <4>1 DEF CutShort, Lands
      <4>2. CASE Tables' = Tables
        BY <4>2 DEF Tables
      <4>3. QED BY <4>1, <4>2
    <3>3. CASE CutShort(f) /\ f \notin cut
      BY <3>3 DEF CutShort, Read, Tables
    <3> QED BY <1>3, <3>1, <3>2, <3>3
  <2> QED BY <2>2, <2>3, <2>4
<1>4. CASE Admit
  BY <1>2, <1>4 DEF Admit, Appending, Files
<1>5. CASE WriteJournal \/ WriteSignalRow \/ WriteStore \/ WriteDeadRow \/ Settle
  BY <1>2, <1>5 DEF WriteJournal, WriteSignalRow, WriteStore, WriteDeadRow, Settle,
     Writes, Appending, Files, RowsOf
<1>6. CASE Crash
  <2>1. Torn \subseteq Files
    BY ConstantsAssumption
  <2> QED BY <1>1, <1>3, <1>6, <2>1 DEF Crash
<1>7. CASE Daemon
  <2>1. CASE Poll \/ PollFails \/ EndOfScan \/ (\E a \in Artifacts : Suppress(a) \/ Take(a))
    BY <1>1, <2>1 DEF Poll, PollFails, EndOfScan, Suppress, Take
  <2>2. CASE Dedupe \/ DeadLetter \/ SkipInvalid \/ Decides
    BY <1>1, <2>2 DEF Dedupe, DeadLetter, SkipInvalid, Decides, Decide
  <2>3. CASE WriteLatest \/ WriteAudit \/ Announce \/ WriteMonitor
    BY <1>1, <2>3 DEF WriteLatest, WriteAudit, Announce, WriteMonitor
  <2>4. CASE WriteCandidate \/ WriteQuarantine \/ \E tick \in BOOLEAN : WriteDeadFile(tick)
    BY <1>1, <2>4 DEF WriteCandidate, WriteQuarantine, WriteDeadFile
  <2> QED BY <1>4, <1>5, <1>7, <2>1, <2>2, <2>3, <2>4 DEF Daemon, Decides
<1>8. CASE World
  BY <1>1, <1>8 DEF World, Drop, Poison, NextDay, MandateAdd, MandateRemove,
     MandateTorn, MandateRepaired, EditMandate, Halt, Resume
<1>9. CASE (\E mode \in BOOLEAN : Start(mode)) \/ Stop
  BY <1>1, <1>9 DEF Start, Stop
<1>10. CASE UNCHANGED vars
  BY <1>1, <1>10
<1> QED BY <1>6, <1>7, <1>8, <1>9, <1>10 DEF Next

LEMMA InitTailed == Init => Tailed
BY DEF Init, Tailed, Tables, PartOf

----------------------------------------------------------------------------
(* A decision is signalled at most once.                                   *)
(*                                                                         *)
(* The feed alone does not say why: what keeps a decision from a second    *)
(* emission is its journal row, and what keeps the row ahead of the feed   *)
(* is the order of the writes.  So the invariant also tells, of an emission*)
(* in flight, which of its writes are already on disk.  Where the journal  *)
(* lost a row the dedupe table still knows the key of every stored         *)
(* decision, and an artifact past admission has a key that was not in it.  *)

NotStored(h) == \A i \in DOMAIN store : store[i].hash # h
BothLost     == {"inbox", "journal"} \subseteq lost

EmissionInFlight ==
  (pc = "write" /\ verdict = "emitted") =>
    /\ at <= 4 => BothLost \/ NotStored(Hash(cur))
    /\ "journal" \notin lost =>
         /\ at >= 3 => \E r \in processed :
                         r.hash = Hash(cur) /\ r.outcome = "emitted"
         /\ at >= 4 => \E j \in DOMAIN jsignals : jsignals[j] = Row(cur)

Deduped ==
  "inbox" \notin lost =>
    /\ \A i \in DOMAIN store : \E a \in Artifacts :
         Hash(a) = store[i].hash /\ inbox[Key(a)] # "none"
    /\ pc = "decide" => inbox[Key(cur)] # "none" /\ NotStored(Hash(cur))
    /\ (pc = "write" /\ verdict = "emitted") => inbox[Key(cur)] # "none"

EmissionInv ==
  /\ TypeOK /\ Tailed /\ AtMostOnceEmission /\ EmissionsAreJournaled
  /\ EmissionInFlight /\ Deduped

\* The dedupe table forgets no key unless it loses a row, and a lost row stays
\* lost.
Remembers ==
  /\ \A k \in Keys : inbox[k] # "none" => inbox'[k] # "none" \/ "inbox" \in lost'
  /\ lost \subseteq lost'

\* A step that leaves the feed and the journal alone, and the artifact in hand,
\* or drops it, or begins another verdict, keeps the invariant.
LEMMA EmissionFrame ==
  ASSUME EmissionInv, TypeOK', Tailed', Remembers,
         UNCHANGED <<store, processed, jsignals>>,
         \/ UNCHANGED <<pc, cur, now, verdict, at>>
         \/ pc' \notin {"decide", "write"}
         \/ pc' = "write" /\ verdict' # "emitted"
  PROVE  EmissionInv'
<1>1. /\ AtMostOnceEmission' /\ EmissionsAreJournaled'
  BY DEF EmissionInv, AtMostOnceEmission, EmissionsAreJournaled, Remembers
<1>2. EmissionInFlight'
  BY DEF EmissionInv, EmissionInFlight, Remembers, BothLost, NotStored, Row
<1>3. Deduped'
  <2>1. SUFFICES ASSUME "inbox" \notin lost' PROVE Deduped'
    BY DEF Deduped
  <2>2. "inbox" \notin lost
    BY <2>1 DEF Remembers
  <2>3. \A i \in DOMAIN store' : \E a \in Artifacts :
          Hash(a) = store'[i].hash /\ inbox'[Key(a)] # "none"
    BY <2>1, <2>2, MetaFacts DEF EmissionInv, Deduped, Remembers
  <2>4. CASE UNCHANGED <<pc, cur, now, verdict, at>>
    <3>1. pc \in {"decide", "write"} => Key(cur) \in Keys
      BY MetaFacts DEF EmissionInv, TypeOK
    <3>2. QED
      BY <2>1, <2>2, <2>3, <2>4, <3>1
         DEF EmissionInv, Deduped, Remembers, NotStored
  <2>5. CASE pc' \notin {"decide", "write"} \/ (pc' = "write" /\ verdict' # "emitted")
    BY <2>3, <2>5 DEF Deduped
  <2>6. QED BY <2>4, <2>5
<1>4. QED BY <1>1, <1>2, <1>3 DEF EmissionInv

\* What the writes of a verdict do to the artifact in hand.
LEMMA EmissionGoesOn ==
  ASSUME EmissionInv, NEW w, Writes(w) \/ Turn(w)
  PROVE  \/ pc' \notin {"decide", "write"}
         \/ pc' = "write" /\ verdict' # "emitted"
         \/ /\ pc = "write" /\ verdict = "emitted" /\ at' = at + 1
            /\ pc' = pc /\ cur' = cur /\ now' = now /\ verdict' = verdict
BY WriteMoves DEF EmissionInv

\* Nor do the writes of a verdict that are neither the journal row, nor the
\* count, nor the feed disturb it.
LEMMA EmissionOtherWrites ==
  ASSUME EmissionInv, TypeOK', Tailed', Remembers, NEW w, Writes(w) \/ Turn(w),
         w \notin {"journal", "signal", "store"},
         UNCHANGED <<store, processed, jsignals>>
  PROVE  EmissionInv'
<1>1. /\ cur \in Artifacts /\ verdict \in Verdicts
      /\ at \in 1..Len(Plan[verdict]) /\ Plan[verdict][at] = w
  BY WriteMoves DEF EmissionInv
<1>2. CASE pc' \notin {"decide", "write"} \/ (pc' = "write" /\ verdict' # "emitted")
  BY <1>2, EmissionFrame
<1>3. CASE /\ pc = "write" /\ verdict = "emitted" /\ at' = at + 1
           /\ pc' = pc /\ cur' = cur /\ now' = now /\ verdict' = verdict
  <2>1. at # 2 /\ at # 3 /\ at # 4
    BY <1>1, <1>3, EmissionOrder
  <2>2. at \in Nat
    BY DEF EmissionInv, TypeOK
  <2>3. EmissionInFlight'
    BY <1>3, <2>1, <2>2
       DEF EmissionInv, EmissionInFlight, Remembers, BothLost, NotStored, Row
  <2>4. AtMostOnceEmission' /\ EmissionsAreJournaled'
    BY DEF EmissionInv, AtMostOnceEmission, EmissionsAreJournaled, Remembers
  <2>5. Deduped'
    BY <1>1, <1>3, MetaFacts DEF EmissionInv, Deduped, Remembers
  <2>6. QED BY <2>3, <2>4, <2>5 DEF EmissionInv
<1>4. QED BY <1>2, <1>3, EmissionGoesOn

\* A write to the journal leaves the dedupe table and the feed as they are.
LEMMA InboxUntouched ==
  ASSUME EmissionInv, TypeOK', NEW w, Turn(w), UNCHANGED <<inbox, store>>
  PROVE  Deduped' /\ Remembers
<1>0. lost \subseteq lost'
  BY DEF Turn
<1>1. Remembers
  BY <1>0 DEF Remembers
<1>2. Deduped'
  <2>1. CASE pc' \notin {"decide", "write"} \/ (pc' = "write" /\ verdict' # "emitted")
    BY <1>0, <2>1 DEF EmissionInv, Deduped
  <2>2. CASE /\ pc = "write" /\ verdict = "emitted"
             /\ pc' = pc /\ cur' = cur /\ verdict' = verdict
    BY <1>0, <2>2 DEF EmissionInv, Deduped
  <2>3. QED BY <2>1, <2>2, EmissionGoesOn
<1>3. QED BY <1>1, <1>2

\* The journal row of an emission is what its third write finds on disk.
LEMMA EmissionJournal ==
  ASSUME EmissionInv, TypeOK', Tailed', Journals
  PROVE  EmissionInv'
<1>1. /\ cur \in Artifacts /\ verdict \in Verdicts /\ Turn("journal")
      /\ at \in 1..Len(Plan[verdict]) /\ Plan[verdict][at] = "journal"
  BY WriteMoves DEF EmissionInv, Journals
<1>2. /\ UNCHANGED <<inbox, store>> /\ lost \subseteq lost'
      /\ \/ /\ processed \subseteq processed' /\ jsignals' = jsignals
            /\ ProcessedRow \in processed'
         \/ "journal" \in lost'
  BY DEF Journals, JournalCutOff, Turn
<1>3. EmissionsAreJournaled' /\ AtMostOnceEmission'
  BY <1>2 DEF EmissionInv, EmissionsAreJournaled, AtMostOnceEmission
<1>4. EmissionInFlight'
  <2>1. SUFFICES ASSUME pc' = "write", verdict' = "emitted"
                 PROVE  EmissionInFlight'
    BY DEF EmissionInFlight
  <2>2. /\ pc = "write" /\ verdict = "emitted"
        /\ at' = at + 1 /\ cur' = cur /\ now' = now
    BY <1>1, <2>1, EmissionGoesOn
  <2>3. at # 3 /\ at # 4 /\ at \in Nat
    BY <1>1, <2>2, EmissionOrder DEF EmissionInv, TypeOK
  <2>4. ProcessedRow.hash = Hash(cur) /\ ProcessedRow.outcome = "emitted"
    BY <2>2 DEF ProcessedRow
  <2>5. "journal" \notin lost' =>
          \E r \in processed' : r.hash = Hash(cur) /\ r.outcome = "emitted"
    BY <1>2, <2>4
  <2>6. at' <= 4 => (BothLost \/ NotStored(Hash(cur)))'
    BY <1>2, <2>2, <2>3
       DEF EmissionInv, EmissionInFlight, BothLost, NotStored
  <2>7. at' >= 4 /\ "journal" \notin lost' =>
          \E j \in DOMAIN jsignals' : jsignals'[j] = Row(cur)'
    BY <1>2, <2>2, <2>3 DEF EmissionInv, EmissionInFlight, Row
  <2>8. QED
    BY <2>2, <2>5, <2>6, <2>7 DEF EmissionInFlight
<1>5. Deduped'
  BY <1>1, <1>2, InboxUntouched
<1>6. QED
  BY <1>3, <1>4, <1>5 DEF EmissionInv

\* The count of an emission is what its fourth write finds on disk.
LEMMA EmissionCount ==
  ASSUME EmissionInv, TypeOK', Tailed', Counts
  PROVE  EmissionInv'
<1>1. /\ cur \in Artifacts /\ verdict \in Verdicts /\ Turn("signal")
      /\ at \in 1..Len(Plan[verdict]) /\ Plan[verdict][at] = "signal"
  BY WriteMoves DEF EmissionInv, Counts
<1>2. verdict = "emitted" /\ at = 3
  BY <1>1, EmissionOrder
<1>3. /\ lost \subseteq lost' /\ UNCHANGED <<inbox, store>>
      /\ \/ processed' = processed /\ jsignals' = Append(jsignals, Row(cur))
         \/ "journal" \in lost'
  BY DEF Counts, JournalCutOff, Turn
<1>4. Deduped'
  BY <1>1, <1>3, InboxUntouched
<1>5. "journal" \notin lost' =>
        /\ processed' = processed
        /\ PartOf(jsignals, jsignals')
        /\ \E j \in DOMAIN jsignals' : jsignals'[j] = Row(cur)
  <2>1. jsignals \in Seq(FeedRow) /\ Row(cur) \in FeedRow
    BY <1>1, RowType, TableTypes DEF EmissionInv
  <2>2. /\ PartOf(jsignals, Append(jsignals, Row(cur)))
        /\ Append(jsignals, Row(cur))[Len(jsignals) + 1] = Row(cur)
        /\ Len(jsignals) + 1 \in DOMAIN Append(jsignals, Row(cur))
    BY <2>1, Appended
  <2>3. QED BY <1>3, <2>2
<1>6. EmissionsAreJournaled' /\ AtMostOnceEmission'
  BY <1>3, <1>5 DEF EmissionInv, EmissionsAreJournaled, AtMostOnceEmission, PartOf
<1>7. EmissionInFlight'
  <2>1. CASE pc' # "write" \/ verdict' # "emitted"
    BY <2>1 DEF EmissionInFlight
  <2>2. CASE pc' = "write" /\ verdict' = "emitted"
    <3>1. at' = 4 /\ cur' = cur /\ now' = now /\ pc = "write"
      BY <1>1, <1>2, <2>2, EmissionGoesOn
    <3>2. Row(cur)' = Row(cur)
      BY <3>1 DEF Row
    <3>3. (BothLost \/ NotStored(Hash(cur)))'
      BY <1>2, <1>3, <3>1
         DEF EmissionInv, EmissionInFlight, BothLost, NotStored
    <3>4. "journal" \notin lost' =>
            \E r \in processed' : r.hash = Hash(cur') /\ r.outcome = "emitted"
      BY <1>2, <1>3, <1>5, <3>1 DEF EmissionInv, EmissionInFlight
    <3>5. QED
      BY <1>5, <3>1, <3>2, <3>3, <3>4 DEF EmissionInFlight
  <2>3. QED BY <2>1, <2>2
<1>8. QED
  BY <1>4, <1>6, <1>7 DEF EmissionInv

\* The feed takes a decision it does not hold, already journalled and counted.
LEMMA EmissionStore ==
  ASSUME EmissionInv, TypeOK', Tailed', Stores
  PROVE  EmissionInv'
<1>1. /\ cur \in Artifacts /\ verdict \in Verdicts /\ pc = "write" /\ Turn("store")
      /\ at \in 1..Len(Plan[verdict]) /\ Plan[verdict][at] = "store"
  BY WriteMoves DEF EmissionInv, Stores
<1>2. verdict = "emitted" /\ at = 4
  BY <1>1, EmissionOrder
<1>3. lost \subseteq lost' /\ UNCHANGED <<inbox, jsignals, processed>>
  BY DEF Stores, Turn
<1>4. store' = terminated.store \/ store' = Append(store, Row(cur))
  BY DEF Stores, FeedCutOff
<1>5. /\ BothLost \/ NotStored(Hash(cur))
      /\ "journal" \notin lost =>
           /\ \E r \in processed : r.hash = Hash(cur) /\ r.outcome = "emitted"
           /\ \E j \in DOMAIN jsignals : jsignals[j] = Row(cur)
      /\ "inbox" \notin lost => inbox[Key(cur)] # "none"
  BY <1>1, <1>2 DEF EmissionInv, EmissionInFlight, Deduped
<1>6. EmissionInFlight'
  <2>1. CASE pc' # "write" \/ verdict' # "emitted"
    BY <2>1 DEF EmissionInFlight
  <2>2. CASE pc' = "write" /\ verdict' = "emitted"
    <3>1. at' = 5 /\ cur' = cur /\ now' = now
      BY <1>1, <1>2, <2>2, EmissionGoesOn
    <3>2. QED
      BY <1>3, <1>5, <3>1 DEF EmissionInFlight, Row
  <2>3. QED BY <2>1, <2>2
<1>r. /\ pc' # "decide"
      /\ (pc' = "write" /\ verdict' = "emitted") => cur' = cur
  BY <1>1, EmissionGoesOn
<1>7. CASE store' = terminated.store
  <2>1. \A i \in DOMAIN store' : i \in DOMAIN store /\ store[i] = store'[i]
    BY <1>7 DEF EmissionInv, Tailed, PartOf
  <2>2. AtMostOnceEmission' /\ EmissionsAreJournaled'
    BY <1>3, <2>1 DEF EmissionInv, AtMostOnceEmission, EmissionsAreJournaled
  <2>3. Deduped'
    BY <1>3, <1>5, <1>r, <2>1 DEF EmissionInv, Deduped
  <2>4. QED BY <1>6, <2>2, <2>3 DEF EmissionInv
<1>8. CASE store' = Append(store, Row(cur))
  <2>1. store \in Seq(FeedRow) /\ Row(cur) \in FeedRow /\ Row(cur).hash = Hash(cur)
    BY <1>1, RowType, TableTypes DEF EmissionInv
  <2>2. /\ DOMAIN store' = DOMAIN store \cup {Len(store) + 1}
        /\ \A i \in DOMAIN store : store'[i] = store[i]
        /\ store'[Len(store) + 1] = Row(cur) /\ Row(cur).hash = Hash(cur)
    BY <1>8, <2>1, Appended
  <2>3. AtMostOnceEmission'
    BY <1>3, <1>5, <2>2 DEF EmissionInv, AtMostOnceEmission, BothLost, NotStored
  <2>4. EmissionsAreJournaled'
    BY <1>3, <1>5, <2>2 DEF EmissionInv, EmissionsAreJournaled
  <2>5. Deduped'
    <3>1. SUFFICES ASSUME "inbox" \notin lost' PROVE Deduped'
      BY DEF Deduped
    <3>2. "inbox" \notin lost /\ inbox' = inbox
      BY <1>3, <3>1
    <3>3. \A i \in DOMAIN store' : \E a \in Artifacts :
            Hash(a) = store'[i].hash /\ inbox'[Key(a)] # "none"
      BY <1>1, <1>5, <2>2, <3>2 DEF EmissionInv, Deduped
    <3>5. QED BY <1>5, <1>r, <3>2, <3>3 DEF Deduped
  <2>6. QED BY <1>6, <2>3, <2>4, <2>5 DEF EmissionInv
<1>9. QED BY <1>4, <1>7, <1>8

\* A row of the dedupe table is written over one that says less, or no row.
LEMMA InboxRemembers ==
  ASSUME TypeOK, NEW k \in Keys, NEW s \in KeyStates \ {"none"}, InboxTakes(k, s),
         lost \subseteq lost'
  PROVE  /\ Remembers
         /\ "inbox" \notin lost' =>
              /\ inbox'[k] = s /\ \A j \in Keys \ {k} : inbox'[j] = inbox[j]
<1>1. inbox \in [Keys -> KeyStates]
  BY TableTypes
<1>2. CASE "inbox" \in lost'
  BY <1>2 DEF Remembers
<1>3. CASE "inbox" \notin lost'
  <2>1. inbox' = [inbox EXCEPT ![k] = s]
    BY <1>3 DEF InboxTakes, InboxCutOff, InboxWith
  <2> QED BY <1>1, <2>1 DEF Remembers
<1> QED BY <1>2, <1>3

\* An artifact gets past admission only under a key that was not in the dedupe
\* table, so no copy of it was stored: unless the table lost a row.
LEMMA EmissionAdmit ==
  ASSUME EmissionInv, TypeOK', Tailed', Admits
  PROVE  EmissionInv'
<1>1. /\ cur \in Artifacts /\ inbox[Key(cur)] = "none" /\ Key(cur) \in Keys
      /\ pc' = "down" \/ (pc' = "decide" /\ cur' = cur)
      /\ UNCHANGED <<store, processed, jsignals>> /\ lost \subseteq lost'
      /\ InboxTakes(Key(cur), "admitted")
  BY MetaFacts DEF Admits, InboxTakes, EmissionInv, TypeOK
<1>2. /\ Remembers
      /\ "inbox" \notin lost' =>
           inbox'[Key(cur)] = "admitted"
  BY <1>1, InboxRemembers DEF EmissionInv, KeyStates
<1>3. /\ AtMostOnceEmission' /\ EmissionsAreJournaled' /\ EmissionInFlight'
  BY <1>1, <1>2 DEF EmissionInv, AtMostOnceEmission, EmissionsAreJournaled,
                    EmissionInFlight
<1>4. Deduped'
  <2>1. SUFFICES ASSUME "inbox" \notin lost' PROVE Deduped'
    BY DEF Deduped
  <2>2. inbox'[Key(cur)] = "admitted" /\ "inbox" \notin lost
    BY <1>1, <1>2, <2>1
  <2>4. \A k \in Keys : inbox[k] # "none" => inbox'[k] # "none"
    BY <1>2, <2>1 DEF Remembers
  <2>5. NotStored(Hash(cur))
    <3>1. SUFFICES ASSUME NEW i \in DOMAIN store, store[i].hash = Hash(cur)
                   PROVE  FALSE
      BY DEF NotStored
    <3>2. PICK a \in Artifacts : Hash(a) = Hash(cur) /\ inbox[Key(a)] # "none"
      BY <2>2, <3>1 DEF EmissionInv, Deduped
    <3>3. Key(a) = Key(cur)
      BY <1>1, <3>2, HashAssumption DEF Hash, Key
    <3>4. QED BY <1>1, <3>2, <3>3
  <2>6. QED
    BY <1>1, <2>2, <2>4, <2>5, MetaFacts
       DEF EmissionInv, Deduped, NotStored
<1>5. QED BY <1>3, <1>4 DEF EmissionInv

\* A decision is emitted only when no unconditional journal row bars it, or
\* when its key was new to a dedupe table that lost nothing.
LEMMA EmissionDecide ==
  ASSUME EmissionInv, TypeOK', Tailed', NEW refOk \in BOOLEAN, NEW held,
         NEW others \in BOOLEAN, Decide(refOk, held, others)
  PROVE  EmissionInv'
<1>1. /\ UNCHANGED <<store, processed, jsignals, inbox, lost, cur, mandate>>
      /\ at' = 1 /\ pc = "decide" /\ pc' = "write"
  BY DEF Decide, ledgers, tables, tails
<1>2. Remembers
  BY <1>1 DEF Remembers
<1>3. CASE verdict' # "emitted"
  BY <1>1, <1>2, <1>3, EmissionFrame
<1>4. CASE verdict' = "emitted"
  <2>1. ~Processed(Hash(cur), mandate)
    BY <1>4 DEF Decide, VerdictOf
  <2>2. "journal" \notin lost => NotStored(Hash(cur))
    BY <2>1 DEF Processed, NotStored, EmissionInv, EmissionsAreJournaled
  <2>3. "inbox" \notin lost => NotStored(Hash(cur))
    BY <1>1 DEF EmissionInv, Deduped
  <2>4. EmissionInFlight'
    BY <1>1, <2>2, <2>3 DEF EmissionInFlight, BothLost, NotStored
  <2>5. Deduped'
    BY <1>1 DEF EmissionInv, Deduped, NotStored
  <2>6. QED
    BY <1>1, <2>4, <2>5 DEF EmissionInv, AtMostOnceEmission, EmissionsAreJournaled
<1>5. QED BY <1>3, <1>4

\* Every step keeps the emission invariant.
LEMMA EmissionStep == EmissionInv /\ [Next]_vars => EmissionInv'
<1> SUFFICES ASSUME EmissionInv, [Next]_vars PROVE EmissionInv'
  OBVIOUS
<1> USE DEF tables, tails, ledgers
<1>1. TypeOK /\ TypeOK' /\ Tailed'
  BY TypeStep, TailedStep DEF EmissionInv
<1>2. lost \subseteq lost'
  BY LostGrows
<1>3. UNCHANGED inbox => Remembers
  BY <1>2 DEF Remembers
<1>4. CASE Still
  BY <1>1, <1>3, <1>4, EmissionFrame DEF Still
<1>5. CASE Rests \/ (\E a \in Artifacts : Take(a)) \/ DeadLetter
  BY <1>1, <1>3, <1>5, EmissionFrame DEF Rests, Take, DeadLetter
<1>6. CASE Admits
  BY <1>1, <1>6, EmissionAdmit
<1>7. CASE Decides
  BY <1>1, <1>7, EmissionDecide DEF Decides
<1>8. CASE Journals BY <1>1, <1>8, EmissionJournal
<1>9. CASE Counts BY <1>1, <1>9, EmissionCount
<1>10. CASE Stores BY <1>1, <1>10, EmissionStore
<1>11. CASE Notes
  <2>1. /\ UNCHANGED <<store, processed, jsignals, inbox>>
    BY <1>11, NotesTables
  <2>2. CASE WriteLatest \/ WriteAudit \/ Announce \/ WriteMonitor
    BY <1>1, <1>3, <2>1, <2>2, EmissionOtherWrites
       DEF WriteLatest, WriteAudit, Announce, WriteMonitor
  <2>3. CASE WriteCandidate \/ WriteQuarantine
    BY <1>1, <1>3, <2>1, <2>3, EmissionOtherWrites DEF WriteCandidate, WriteQuarantine
  <2>4. CASE \E tick \in BOOLEAN : WriteDeadFile(tick)
    BY <1>1, <1>3, <2>1, <2>4, EmissionOtherWrites DEF WriteDeadFile
  <2> QED BY <1>11, <2>2, <2>3, <2>4 DEF Notes
<1>12. ASSUME NEW w \in {"settle", "dead_row"}, NEW k \in Keys,
              NEW s \in KeyStates \ {"none"}, Turn(w), InboxTakes(k, s)
       PROVE  EmissionInv'
  <2>1. Remembers
    BY <1>1, <1>2, <1>12, InboxRemembers
  <2> QED BY <1>1, <1>12, <2>1, EmissionOtherWrites DEF InboxTakes
<1>13. CASE Settles \/ Buries
  <2>1. cur \in Artifacts
    BY <1>1, <1>13, WriteMoves DEF Settles, Buries
  <2>2. Key(cur) \in Keys /\ DeadKey(cur) \in Keys
    BY <2>1, MetaFacts
  <2> QED BY <1>12, <1>13, <2>2 DEF Settles, Buries, KeyStates
<1>14. QED
  BY <1>4, <1>5, <1>6, <1>7, <1>8, <1>9, <1>10, <1>11, <1>13, StepKinds DEF FileWrite

\* The invariant holds in every reachable state.
THEOREM EmissionInvariant == Spec => []EmissionInv
<1>1. Init => EmissionInv
  <2>1. Init => TypeOK /\ Tailed
    BY InitType, InitTailed
  <2>2. QED
    BY <2>1 DEF Init, EmissionInv, AtMostOnceEmission, EmissionsAreJournaled,
                EmissionInFlight, Deduped
<1>2. QED BY <1>1, EmissionStep, PTL DEF Spec

\* "Emitted signals never replay": whatever crashes, restarts, copies of the
\* artifact and mandate edits happen, signals.jsonl holds a decision once, while
\* the dedupe table and the journal have not both lost a row.
THEOREM EmittedOnce == Spec => []AtMostOnceEmission
<1>1. EmissionInv => AtMostOnceEmission
  BY DEF EmissionInv
<1>2. QED BY <1>1, EmissionInvariant, PTL

\* No entry of the feed is ahead of the row that bars its replay, or of the
\* row the daily cap counts.
THEOREM JournalAheadOfFeed == Spec => []EmissionsAreJournaled
<1>1. EmissionInv => EmissionsAreJournaled
  BY DEF EmissionInv
<1>2. QED BY <1>1, EmissionInvariant, PTL

----------------------------------------------------------------------------
(* The pipeline implements the feed of SignalFeed.                         *)
(*                                                                         *)
(* The cap is tested against the journal's signal rows, and the feed is    *)
(* written two rows later.  It holds of the feed because the rows counted  *)
(* on a day include an image of every entry of that day, one to one, and   *)
(* the row of the emission in flight besides.  All of it needs a journal   *)
(* and a feed that lose no row.                                            *)

CountedOn(d) == {j \in DOMAIN jsignals : jsignals[j].day = d}
StoredOn(d)  == {i \in DOMAIN store : store[i].day = d}

CapInv ==
  Cap > 0 =>
    /\ \A d \in Days : SignalsOn(d) <= Cap
    /\ (pc = "write" /\ verdict = "emitted" /\ at <= 3) => SignalsOn(now) < Cap

\* A journal and a feed no crash cuts short lose no row.
Whole(f)  == f \notin cut /\ f \notin lost
BothWhole == Whole("journal") /\ Whole("feed")

\* The rows of a day can be counted.
LEMMA CountedFinite ==
  ASSUME TypeOK, NEW d
  PROVE  /\ IsFiniteSet(CountedOn(d)) /\ SignalsOn(d) = Cardinality(CountedOn(d))
         /\ SignalsOn(d) \in Nat
<1>1. DOMAIN jsignals = 1..Len(jsignals) /\ Len(jsignals) \in Nat
  BY TableTypes
<1>2. IsFiniteSet(DOMAIN jsignals)
  BY <1>1, FS_Interval
<1>3. CountedOn(d) \in SUBSET DOMAIN jsignals
  BY DEF CountedOn
<1>4. IsFiniteSet(CountedOn(d))
  BY <1>2, <1>3, FS_Subset
<1>5. QED
  BY <1>4, FS_CardinalityType DEF SignalsOn, CountedOn

\* A step that leaves the journal's signal rows alone, and does not start an
\* emission, keeps the cap.
LEMMA CapFrame ==
  ASSUME TypeOK, TypeOK', CapInv, UNCHANGED jsignals,
         \/ now' = now /\ pc' = pc /\ verdict' = verdict /\ at' >= at
         \/ pc' # "write"
         \/ verdict' # "emitted"
  PROVE  CapInv'
<1>1. at \in Nat /\ at' \in Nat
  BY DEF TypeOK
<1>2. QED
  BY <1>1 DEF CapInv, SignalsOn

\* The count grows by the emission that passed the gate.
LEMMA CapCount ==
  ASSUME TypeOK, TypeOK', CapInv, Counts, "journal" \notin cut
  PROVE  CapInv'
<1>1. /\ cur \in Artifacts /\ verdict \in Verdicts /\ pc = "write"
      /\ at \in 1..Len(Plan[verdict]) /\ Plan[verdict][at] = "signal" /\ at \in Nat
      /\ \/ pc' # "write"
         \/ pc' = "write" /\ at' = at + 1 /\ cur' = cur /\ now' = now /\ verdict' = verdict
  BY WriteMoves DEF Counts
<1>2. verdict = "emitted" /\ at = 3
  BY <1>1, EmissionOrder
<1>3. /\ jsignals \in Seq(FeedRow) /\ Row(cur) \in FeedRow /\ now \in Days
      /\ jsignals' = Append(jsignals, Row(cur)) /\ Row(cur).day = now
  BY <1>1, RowType, TableTypes DEF Counts, JournalCutOff, TypeOK
<1>4. ASSUME NEW d \in Days, Cap > 0
      PROVE  SignalsOn(d)' <= Cap
  <2>1. /\ DOMAIN jsignals' = DOMAIN jsignals \cup {Len(jsignals) + 1}
        /\ \A j \in DOMAIN jsignals : jsignals'[j] = jsignals[j]
        /\ jsignals'[Len(jsignals) + 1].day = now
    BY <1>3, Appended
  <2>2. CASE d = now
    <3>1. CountedOn(d)' = CountedOn(d) \cup {Len(jsignals) + 1}
      BY <2>1, <2>2 DEF CountedOn
    <3>2. IsFiniteSet(CountedOn(d)) /\ Cardinality(CountedOn(d)) \in Nat
      BY CountedFinite
    <3>3. Cardinality(CountedOn(d)') <= Cardinality(CountedOn(d)) + 1
      <4>1. Cardinality(CountedOn(d) \cup {Len(jsignals) + 1})
              \in {Cardinality(CountedOn(d)), Cardinality(CountedOn(d)) + 1}
        BY <3>2, FS_AddElement
      <4>2. QED BY <3>1, <3>2, <4>1
    <3>4. SignalsOn(d)' = Cardinality(CountedOn(d)') /\ SignalsOn(d)' \in Nat
      <4>1. SignalsOn(d)' = Cardinality(CountedOn(d)')
        BY DEF CountedOn, SignalsOn
      <4>2. IsFiniteSet(CountedOn(d)')
        BY <3>1, <3>2, FS_AddElement
      <4>3. QED BY <4>1, <4>2, FS_CardinalityType
    <3>5. SignalsOn(d) < Cap /\ SignalsOn(d) = Cardinality(CountedOn(d))
      BY <1>1, <1>2, <1>4, <2>2, CountedFinite DEF CapInv
    <3>6. Cap \in Nat
      BY ConstantsAssumption
    <3>7. QED BY <3>2, <3>3, <3>4, <3>5, <3>6
  <2>3. CASE d # now
    <3>1. CountedOn(d)' = CountedOn(d)
      BY <2>1, <2>3 DEF CountedOn
    <3>2. SignalsOn(d)' = SignalsOn(d)
      BY <3>1 DEF CountedOn, SignalsOn
    <3>3. QED BY <1>4, <3>2 DEF CapInv
  <2>4. QED BY <2>2, <2>3
<1>5. ASSUME pc' = "write", verdict' = "emitted" PROVE at' > 3
  BY <1>1, <1>2, <1>5
<1>6. at' \in Nat
  BY DEF TypeOK
<1>7. QED BY <1>4, <1>5, <1>6 DEF CapInv

\* Every step keeps the cap on what a whole journal counts.
LEMMA CapStep ==
  TypeOK /\ TypeOK' /\ CapInv /\ "journal" \notin cut /\ [Next]_vars => CapInv'
<1> SUFFICES ASSUME TypeOK, TypeOK', CapInv, "journal" \notin cut, [Next]_vars
             PROVE  CapInv'
  OBVIOUS
<1> USE DEF tables, tails, ledgers
<1>1. at \in Nat
  BY DEF TypeOK
<1>2. CASE Still
  BY <1>1, <1>2, CapFrame DEF Still
<1>3. CASE Rests \/ (\E a \in Artifacts : Take(a)) \/ DeadLetter \/ Admits
  BY <1>3, CapFrame DEF Rests, Take, DeadLetter, Admits, InboxTakes
<1>4. ASSUME NEW refOk \in BOOLEAN, NEW others \in BOOLEAN,
             NEW held \in {"yes", "no", "unknown"}, Decide(refOk, held, others)
      PROVE  CapInv'
  <2>1. UNCHANGED <<jsignals, now>>
    BY <1>4 DEF Decide
  <2>2. CASE verdict' # "emitted"
    BY <2>1, <2>2, CapFrame
  <2>3. CASE verdict' = "emitted"
    <3>1. GatePasses(cur, held, others)
      BY <1>4, <2>3 DEF Decide, VerdictOf
    <3>2. QED BY <2>1, <3>1 DEF CapInv, GatePasses, SignalsOn
  <2>4. QED BY <2>2, <2>3
<1>5. ASSUME NEW w, Writes(w) \/ Turn(w), UNCHANGED jsignals PROVE CapInv'
  <2>1. \/ pc' # "write"
        \/ pc' = pc /\ now' = now /\ verdict' = verdict /\ at' = at + 1
    BY <1>5, WriteMoves
  <2>2. QED BY <1>1, <1>5, <2>1, CapFrame
<1>6. CASE Counts BY <1>6, CapCount
<1>7. CASE Journals \/ Stores \/ Settles \/ Buries
  <2>1. UNCHANGED jsignals
    BY <1>7 DEF Journals, JournalCutOff, Stores, Settles, Buries, InboxTakes
  <2>2. QED BY <1>5, <1>7, <2>1 DEF Journals, Stores, Settles, Buries
<1>8. CASE Notes
  <2>1. UNCHANGED jsignals
    BY <1>8, NotesTables
  <2>2. \E w : Writes(w) \/ Turn(w)
    BY <1>8, FileWriteMoves DEF FileWrite
  <2>3. QED BY <1>5, <2>1, <2>2
<1>9. QED
  BY <1>2, <1>3, <1>4, <1>6, <1>7, <1>8, StepKinds DEF FileWrite, Decides

\* With an emission in flight, the feed holds fewer entries of the day than
\* the journal counts.
LEMMA StoredBelowCounted ==
  ASSUME EmissionInv, "journal" \notin lost,
         pc = "write", verdict = "emitted", at = 4
  PROVE  /\ Cardinality(StoredOn(now)) \in Nat
         /\ Cardinality(StoredOn(now)) < SignalsOn(now)
<1> DEFINE T == CountedOn(now)
           f == [i \in StoredOn(now) |->
                   CHOOSE j \in DOMAIN jsignals : jsignals[j] = store[i]]
<1>1. PICK k \in DOMAIN jsignals : jsignals[k] = Row(cur)
  BY DEF EmissionInv, EmissionInFlight
<1>2. k \in T
  BY <1>1 DEF CountedOn, Row
<1>3. ASSUME NEW i \in StoredOn(now)
      PROVE  f[i] \in DOMAIN jsignals /\ jsignals[f[i]] = store[i]
  BY <1>3 DEF StoredOn, EmissionInv, EmissionsAreJournaled
<1>4. \A i \in StoredOn(now) : f[i] \in T \ {k}
  <2>1. ASSUME NEW i \in StoredOn(now) PROVE f[i] # k
    <3>1. store[i].hash # Hash(cur)
      BY DEF StoredOn, EmissionInv, EmissionInFlight, BothLost, NotStored
    <3>2. Row(cur).hash = Hash(cur)
      BY DEF Row
    <3>3. QED BY <1>1, <1>3, <3>1, <3>2
  <2>2. QED BY <1>3, <2>1 DEF StoredOn, CountedOn
<1>5. f \in [StoredOn(now) -> T \ {k}]
  BY <1>4
<1>6. \A a, b \in StoredOn(now) : f[a] = f[b] => a = b
  <2>1. SUFFICES ASSUME NEW a \in StoredOn(now), NEW b \in StoredOn(now),
                        f[a] = f[b]
                 PROVE  a = b
    OBVIOUS
  <2>2. store[a] = store[b]
    BY <1>3, <2>1
  <2>3. a \in DOMAIN store /\ b \in DOMAIN store
    BY DEF StoredOn
  <2>4. store[a].hash = store[b].hash
    BY <2>2
  <2>5. QED BY <2>3, <2>4 DEF EmissionInv, AtMostOnceEmission
<1>7. f \in Injection(StoredOn(now), T \ {k})
  BY <1>5, <1>6 DEF Injection, IsInjective
<1> HIDE DEF f
<1>8. IsFiniteSet(T) /\ Cardinality(T) = SignalsOn(now) /\ SignalsOn(now) \in Nat
  BY CountedFinite DEF EmissionInv
<1>9. IsFiniteSet(T \ {k}) /\ Cardinality(T \ {k}) = Cardinality(T) - 1
  BY <1>2, <1>8, FS_RemoveElement
<1>10. /\ IsFiniteSet(StoredOn(now))
       /\ Cardinality(StoredOn(now)) <= Cardinality(T \ {k})
  BY <1>7, <1>9, FS_Injection
<1>11. Cardinality(StoredOn(now)) \in Nat
  BY <1>10, FS_CardinalityType
<1>12. QED BY <1>8, <1>9, <1>10, <1>11

\* Nothing but an emission's own write moves the feed.
LEMMA StoreMoves ==
  ASSUME TypeOK, [Next]_vars, store' # store
  PROVE  /\ Stores /\ pc = "write" /\ verdict = "emitted" /\ at = 4
         /\ cur \in Artifacts /\ Row(cur) \in FeedRow
<1> USE DEF tables, ledgers, tails
<1>1. CASE Still \/ Rests \/ (\E a \in Artifacts : Take(a)) \/ DeadLetter
  BY <1>1 DEF Still, Rests, Take, DeadLetter
<1>2. CASE Admits \/ Decides
  BY <1>2 DEF Admits, InboxTakes, Decides, Decide
<1>3. CASE Notes \/ Settles \/ Buries \/ Journals \/ Counts
  BY <1>3, NotesTables DEF Settles, Buries, InboxTakes, Journals, Counts
<1>4. CASE Stores
  <2>1. /\ cur \in Artifacts /\ verdict \in Verdicts /\ pc = "write"
        /\ at \in 1..Len(Plan[verdict]) /\ Plan[verdict][at] = "store"
    BY <1>4, WriteMoves DEF Stores
  <2>2. QED BY <1>4, <2>1, EmissionOrder, RowType
<1> QED BY <1>1, <1>2, <1>3, <1>4, StepKinds DEF FileWrite

\* A step of the pipeline is a step of the feed, or leaves the feed alone.
LEMMA FeedStep ==
  ASSUME EmissionInv, CapInv, BothWhole, [Next]_vars
  PROVE  [Feed!Next]_store
<1>1. SUFFICES ASSUME store' # store PROVE Feed!Next
  OBVIOUS
<1>2. /\ Stores /\ pc = "write" /\ verdict = "emitted" /\ at = 4
      /\ cur \in Artifacts /\ Row(cur) \in FeedRow /\ now \in Days
  BY <1>1, StoreMoves DEF EmissionInv, TypeOK
<1>3. store' = Append(store, Row(cur))
  BY <1>2 DEF Stores, FeedCutOff, BothWhole, Whole
<1>4. Row(cur).hash = Hash(cur) /\ Row(cur).day = now
  BY DEF Row
<1>5. \A i \in DOMAIN store : store[i].hash # Row(cur).hash
  BY <1>2, <1>4 DEF EmissionInv, EmissionInFlight, BothLost, NotStored, BothWhole, Whole
<1>6. Cap > 0 => Cardinality(StoredOn(now)) < Cap
  <2>1. SUFFICES ASSUME Cap > 0 PROVE Cardinality(StoredOn(now)) < Cap
    OBVIOUS
  <2>2. SignalsOn(now) <= Cap
    BY <1>2, <2>1 DEF CapInv
  <2>3. SignalsOn(now) \in Nat /\ Cap \in Nat
    BY CountedFinite, ConstantsAssumption DEF EmissionInv
  <2>4. QED BY <1>2, <2>2, <2>3, StoredBelowCounted DEF BothWhole, Whole
<1>7. Feed!OnDay(now) = StoredOn(now)
  BY DEF Feed!OnDay, StoredOn
<1>8. Feed!Emit(Row(cur))
  <2>1. Cap > 0 => Feed!Cardinality(Feed!OnDay(Row(cur).day)) < Cap
    <3>1. Feed!Cardinality(StoredOn(now)) = Cardinality(StoredOn(now))
      BY DEF Feed!Cardinality, Cardinality
    <3>2. QED BY <1>4, <1>6, <1>7, <3>1
  <2>2. QED BY <1>3, <1>5, <2>1 DEF Feed!Emit
<1>9. Row(cur) \in Feed!Entry
  BY <1>2 DEF Feed!Entry, FeedRow
<1>10. QED BY <1>8, <1>9 DEF Feed!Next

LEMMA StaysWhole ==
  ASSUME NEW f, f \notin Torn
  PROVE  Whole(f) /\ [Next]_vars => Whole(f)'
<1> SUFFICES ASSUME Whole(f), [Next]_vars PROVE Whole(f)'
  OBVIOUS
<1> USE DEF vars, envVars, tables, tails, ledgers, deadLetters, sideFiles, locals,
            procVars, boundVars, historyVars
<1>1. CASE UNCHANGED tails
  BY <1>1 DEF Whole
<1>2. CASE Crash
  BY <1>1, <1>2 DEF Crash, CutShort, CutBeforeNewline, Whole
<1>3. ASSUME NEW g, AppendTo(g) PROVE Whole(f)'
  BY <1>3 DEF AppendTo, Whole
<1>4. CASE Admit \/ WriteJournal \/ WriteSignalRow \/ WriteStore \/ WriteDeadRow
             \/ Settle
  BY <1>3, <1>4 DEF Admit, WriteJournal, WriteSignalRow, WriteStore,
     WriteDeadRow, Settle
<1>5. CASE Daemon
  BY <1>1, <1>4, <1>5 DEF Daemon, Poll, PollFails, EndOfScan, Suppress, Take, Dedupe,
     DeadLetter, SkipInvalid, Decide, WriteLatest, WriteAudit, Announce,
     WriteMonitor, WriteCandidate, WriteQuarantine, WriteDeadFile
<1>6. CASE World
  BY <1>1, <1>6 DEF World, Drop, Poison, NextDay, MandateAdd, MandateRemove,
     MandateTorn, MandateRepaired, EditMandate, Halt, Resume
<1>7. CASE (\E mode \in BOOLEAN : Start(mode)) \/ Stop
  BY <1>1, <1>7 DEF Start, Stop
<1>8. QED BY <1>1, <1>2, <1>5, <1>6, <1>7 DEF Next

\* signals.jsonl is the feed SignalFeed specifies: append-only, a decision
\* once, and no day above the mandate's cap, unless a crash cuts the feed itself
\* or the journal the cap is counted from.
THEOREM PipelineImplementsFeed ==
  ASSUME "journal" \notin Torn, "feed" \notin Torn
  PROVE  Spec => FeedSpec
<1>1. Init => Feed!Init
  BY DEF Init, Feed!Init
<1>2. Init => CapInv /\ BothWhole
  <2>1. SUFFICES ASSUME Init, NEW d \in Days, Cap > 0
                 PROVE  SignalsOn(d) <= Cap
    BY DEF Init, CapInv, BothWhole, Whole
  <2>2. {i \in DOMAIN jsignals : jsignals[i].day = d} = {}
    BY <2>1 DEF Init
  <2>3. SignalsOn(d) = 0
    BY <2>2, FS_EmptySet DEF SignalsOn
  <2>4. QED BY <2>1, <2>3, ConstantsAssumption
<1>3. EmissionInv /\ EmissionInv' /\ CapInv /\ BothWhole /\ [Next]_vars => CapInv'
  BY CapStep DEF EmissionInv, BothWhole, Whole
<1>4. BothWhole /\ [Next]_vars => BothWhole'
  BY StaysWhole DEF BothWhole
<1>5. Spec => [](EmissionInv /\ CapInv /\ BothWhole)
  BY <1>2, <1>3, <1>4, EmissionInvariant, PTL DEF Spec
<1>6. EmissionInv /\ CapInv /\ BothWhole /\ [Next]_vars => [Feed!Next]_store
  BY FeedStep
<1>7. QED BY <1>1, <1>5, <1>6, PTL DEF Spec, FeedSpec, Feed!Spec

----------------------------------------------------------------------------
(* What the dedupe table, the ledgers and the audit chain hold in common.  *)
(*                                                                         *)
(* None of it is inductive by itself: it rests on where in its plan the    *)
(* verdict in hand is.  A key is settled once, at SettleAt, and has its    *)
(* verdict row once, at AuditAt.                                           *)

SettleAt == [invalid |-> 2, future |-> 1, skip |-> 1, no_reference |-> 1,
             unroutable |-> 1, blocked |-> 6, dry_run |-> 2, emitted |-> 8,
             dead_lettered |-> 0]
AuditAt  == [invalid |-> 3, future |-> 2, skip |-> 0, no_reference |-> 2,
             unroutable |-> 2, blocked |-> 2, dry_run |-> 3, emitted |-> 6,
             dead_lettered |-> 3]

LEMMA SettleOrder ==
  ASSUME NEW v \in Verdicts, NEW i \in 1..Len(Plan[v])
  PROVE  Plan[v][i] = "settle" <=> i = SettleAt[v]
<1>1. CASE v = "emitted"
  BY <1>1, VerdictSet, PlanLength DEF EmittedWrites, SettleAt
<1>2. CASE v = "dead_lettered"
  BY <1>2, VerdictSet, PlanLength DEF DeadLetterWrites, SettleAt
<1>3. CASE v = "blocked"
  BY <1>3, VerdictSet, PlanLength DEF BlockedWrites, SettleAt
<1>4. CASE v \in {"future", "skip", "no_reference"}
  BY <1>4, VerdictSet, PlanLength DEF SettleAt
<1>5. CASE v \in {"unroutable", "dry_run", "invalid"}
  BY <1>5, VerdictSet, PlanLength DEF SettleAt
<1>6. QED BY <1>1, <1>2, <1>3, <1>4, <1>5, VerdictSet

LEMMA AuditOrder ==
  ASSUME NEW v \in Verdicts, NEW i \in 1..Len(Plan[v])
  PROVE  Plan[v][i] = "audit" <=> i = AuditAt[v]
<1>1. CASE v = "emitted"
  BY <1>1, VerdictSet, PlanLength DEF EmittedWrites, AuditAt
<1>2. CASE v = "dead_lettered"
  BY <1>2, VerdictSet, PlanLength DEF DeadLetterWrites, AuditAt
<1>3. CASE v = "blocked"
  BY <1>3, VerdictSet, PlanLength DEF BlockedWrites, AuditAt
<1>4. CASE v \in {"future", "skip", "no_reference"}
  BY <1>4, VerdictSet, PlanLength DEF AuditAt
<1>5. CASE v \in {"unroutable", "dry_run", "invalid"}
  BY <1>5, VerdictSet, PlanLength DEF AuditAt
<1>6. QED BY <1>1, <1>2, <1>3, <1>4, <1>5, VerdictSet

\* A dead letter writes its file, its row, its verdict; only it does.
LEMMA DeadOrder ==
  ASSUME NEW v \in Verdicts, NEW i \in 1..Len(Plan[v])
  PROVE  /\ Plan[v][i] = "dead_file" <=> v = "dead_lettered" /\ i = 1
         /\ Plan[v][i] = "dead_row" <=> v = "dead_lettered" /\ i = 2
<1>1. CASE v = "emitted"
  BY <1>1, VerdictSet, PlanLength DEF EmittedWrites
<1>2. CASE v = "dead_lettered"
  BY <1>2, VerdictSet, PlanLength DEF DeadLetterWrites
<1>3. CASE v = "blocked"
  BY <1>3, VerdictSet, PlanLength DEF BlockedWrites
<1>4. CASE v \in {"future", "skip", "no_reference"}
  BY <1>4, VerdictSet, PlanLength
<1>5. CASE v \in {"unroutable", "dry_run", "invalid"}
  BY <1>5, VerdictSet, PlanLength
<1>6. QED BY <1>1, <1>2, <1>3, <1>4, <1>5, VerdictSet

\* A refusal by the gate is in quarantine before it is settled.
LEMMA QuarantineOrder ==
  ASSUME NEW i \in 1..Len(Plan["blocked"])
  PROVE  i = 5 => Plan["blocked"][i] = "quarantine"
BY VerdictSet, PlanLength DEF BlockedWrites


----------------------------------------------------------------------------
(* The last lines of the files.                                            *)

\* Only a crash leaves a line without its newline, and what was there before
\* that line stays what is read without it.
LEMMA TailMoves ==
  ASSUME [Next]_vars
  PROVE  /\ Crash \/ cut' \subseteq cut
         /\ "inbox" \in cut' => terminated'.inbox = terminated.inbox
         /\ crashes' = crashes \/ (Crash /\ crashes' = crashes + 1)
<1> USE DEF vars, envVars, tables, tails, ledgers, deadLetters, sideFiles, locals,
            procVars, boundVars, historyVars
<1>1. CASE UNCHANGED <<tails, crashes>>
  BY <1>1
<1>2. CASE Crash
  BY <1>2 DEF Crash, CutShort, CutBeforeNewline
<1>3. ASSUME NEW f \in Files, AppendTo(f), UNCHANGED crashes
      PROVE  /\ cut' \subseteq cut /\ crashes' = crashes
             /\ "inbox" \in cut' => terminated'.inbox = terminated.inbox
  <2>1. cut' = cut \ {f}
    BY <1>3 DEF AppendTo
  <2>2. f # "inbox" => terminated'.inbox = terminated.inbox
    <3> DEFINE after == IF f \in cut THEN Glued(f) ELSE Grown
    <3>1. terminated' = [t \in DOMAIN Tables |->
                           IF t \in TablesOf[f] THEN after[t] ELSE terminated[t]]
      BY <1>3 DEF AppendTo
    <3>2. "inbox" \in DOMAIN Tables
      BY DEF Tables
    <3>3. f # "inbox" => "inbox" \notin TablesOf[f]
      BY DEF TablesOf, Files
    <3> QED BY <3>1, <3>2, <3>3
  <2> QED BY <1>3, <2>1, <2>2
<1>4. CASE Admit
  BY <1>3, <1>4 DEF Admit, Files
<1>5. CASE WriteJournal \/ WriteSignalRow \/ WriteStore \/ WriteDeadRow \/ Settle
  BY <1>3, <1>5 DEF WriteJournal, WriteSignalRow, WriteStore, WriteDeadRow, Settle,
     Writes, Files
<1>6. CASE Daemon
  <2>1. CASE Poll \/ PollFails \/ EndOfScan \/ (\E a \in Artifacts : Suppress(a) \/ Take(a))
    BY <1>1, <2>1 DEF Poll, PollFails, EndOfScan, Suppress, Take
  <2>2. CASE Dedupe \/ DeadLetter \/ SkipInvalid \/ Decides
    BY <1>1, <2>2 DEF Dedupe, DeadLetter, SkipInvalid, Decides, Decide
  <2>3. CASE WriteLatest \/ WriteAudit \/ Announce \/ WriteMonitor
    BY <1>1, <2>3 DEF WriteLatest, WriteAudit, Announce, WriteMonitor, Writes
  <2>4. CASE WriteCandidate \/ WriteQuarantine \/ \E tick \in BOOLEAN : WriteDeadFile(tick)
    BY <1>1, <2>4 DEF WriteCandidate, WriteQuarantine, WriteDeadFile, Writes
  <2> QED BY <1>4, <1>5, <1>6, <2>1, <2>2, <2>3, <2>4 DEF Daemon, Decides
<1>7. CASE World
  BY <1>1, <1>7 DEF World, Drop, Poison, NextDay, MandateAdd, MandateRemove,
     MandateTorn, MandateRepaired, EditMandate, Halt, Resume
<1>8. CASE (\E mode \in BOOLEAN : Start(mode)) \/ Stop
  BY <1>1, <1>8 DEF Start, Stop
<1>9. QED BY <1>1, <1>2, <1>6, <1>7, <1>8 DEF Next

\* Without a crash no file loses a row.
Unbroken == crashes = 0 => cut = {} /\ lost = {}

LEMMA UnbrokenStep ==
  ASSUME TypeOK, Unbroken, [Next]_vars
  PROVE  Unbroken'
<1>1. crashes \in Nat
  BY DEF TypeOK
<1>2. SUFFICES ASSUME ~Crash, crashes = 0 PROVE Unbroken'
  BY <1>1, TailMoves DEF Unbroken, Crash
<1>3. cut' = {}
  BY <1>2, TailMoves DEF Unbroken
<1>4. lost' = lost
  <2> USE DEF vars, envVars, tables, tails, ledgers, deadLetters, sideFiles, locals,
              procVars, boundVars, historyVars
  <2>1. \A f : AppendTo(f) => lost' = lost
    BY <1>2 DEF AppendTo, Unbroken
  <2>2. CASE Admit \/ WriteJournal \/ WriteSignalRow \/ WriteStore \/ WriteDeadRow
             \/ Settle
    BY <2>1, <2>2 DEF Admit, WriteJournal, WriteSignalRow, WriteStore,
       WriteDeadRow, Settle
  <2>3. CASE Daemon
    BY <2>2, <2>3 DEF Daemon, Poll, PollFails, EndOfScan, Suppress, Take, Dedupe,
       DeadLetter, SkipInvalid, Decide, WriteLatest, WriteAudit, Announce,
       WriteMonitor, WriteCandidate, WriteQuarantine, WriteDeadFile
  <2>4. CASE World
    BY <2>4 DEF World, Drop, Poison, NextDay, MandateAdd, MandateRemove,
       MandateTorn, MandateRepaired, EditMandate, Halt, Resume
  <2>5. CASE (\E mode \in BOOLEAN : Start(mode)) \/ Stop
    BY <2>5 DEF Start, Stop
  <2> QED BY <1>2, <2>3, <2>4, <2>5 DEF Next
<1> QED BY <1>2, <1>3, <1>4 DEF Unbroken

----------------------------------------------------------------------------
(* The dedupe table: a key is written by the verdict that holds it, and    *)
(* what is read once an unterminated line is gone is no further on.        *)

InFlight     == pc = "decide" \/ (pc = "write" /\ verdict # "dead_lettered")
BeforeSettle == \/ pc = "decide"
                \/ pc = "write" /\ verdict # "dead_lettered" /\ at <= SettleAt[verdict]
Burying      == pc = "write" /\ verdict = "dead_lettered"
InboxLost    == "inbox" \in lost

NoFurther(s, t) == /\ s \in {"committed", "dead_lettered"} => t = s
                   /\ s = "admitted" => t \in {"admitted", "committed"}

OneRowAhead ==
  /\ \A k \in Keys : NoFurther(terminated.inbox[k], inbox[k])
  /\ \E k \in Keys : \A j \in Keys \ {k} : inbox[j] = terminated.inbox[j]

Keyed ==
  /\ OneRowAhead
  /\ BeforeSettle => inbox[Key(cur)] \in {"none", "admitted"}
  /\ InFlight => InboxLost \/ inbox[Key(cur)] \in {"admitted", "committed"}
  /\ InFlight => Key(cur) # FallbackKey /\ "inbox" \notin cut
  /\ Burying /\ at <= 2 => inbox[DeadKey(cur)] \in {"none", "dead_lettered"}
  /\ Burying /\ at > 2 => InboxLost \/ inbox[DeadKey(cur)] = "dead_lettered"
  /\ inbox[FallbackKey] \in {"none", "dead_lettered"}

\* A write of the dedupe table, or the loss of the line before it.
InboxGrows == /\ "inbox" \notin cut
              /\ \E k \in Keys, s \in KeyStates \ {"none"} :
                   inbox' = InboxWith(k, s) /\ NoFurther(inbox[k], s)

LEMMA SettleAtPlace ==
  ASSUME TypeOK, Settles
  PROVE  /\ at = SettleAt[verdict] /\ verdict # "dead_lettered" /\ pc = "write"
         /\ cur \in Artifacts /\ Key(cur) \in Keys
<1>1. /\ pc = "write" /\ verdict \in Verdicts /\ at \in 1..Len(Plan[verdict])
      /\ Plan[verdict][at] = "settle" /\ cur \in Artifacts /\ at \in Nat
  BY WriteMoves DEF Settles
<1>2. at = SettleAt[verdict]
  BY <1>1, SettleOrder
<1>3. verdict # "dead_lettered"
  BY <1>1, <1>2 DEF SettleAt
<1> QED BY <1>1, <1>2, <1>3, MetaFacts

LEMMA DeadRowAtPlace ==
  ASSUME TypeOK, Buries
  PROVE  at = 2 /\ Burying /\ cur \in Artifacts /\ DeadKey(cur) \in Keys
<1>1. /\ pc = "write" /\ verdict \in Verdicts /\ at \in 1..Len(Plan[verdict])
      /\ Plan[verdict][at] = "dead_row" /\ cur \in Artifacts
  BY WriteMoves DEF Buries
<1> QED BY <1>1, DeadOrder, MetaFacts DEF Burying

\* No other write touches the dedupe table.
LEMMA OtherWrites ==
  ASSUME FileWrite, ~Buries, ~Settles
  PROVE  UNCHANGED inbox
BY NotesTables DEF FileWrite, Journals, Counts, Stores

LEMMA InboxMoves ==
  ASSUME TypeOK, Keyed, [Next]_vars
  PROVE  UNCHANGED inbox \/ InboxCutOff \/ InboxGrows
<1>0. inbox \in [Keys -> KeyStates]
  BY TableTypes
<1>1. CASE Admits
  <2>1. cur \in Artifacts /\ Key(cur) \in Keys /\ "admitted" \in KeyStates \ {"none"}
    BY <1>1, MetaFacts DEF Admits, TypeOK, KeyStates
  <2>2. NoFurther(inbox[Key(cur)], "admitted")
    BY <1>1 DEF Admits, NoFurther
  <2> QED BY <1>1, <2>1, <2>2 DEF Admits, InboxTakes, InboxGrows
<1>2. CASE Settles
  <2>1. inbox[Key(cur)] \in {"none", "admitted"}
    BY <1>2, SettleAtPlace DEF Keyed, BeforeSettle, TypeOK
  <2>2. NoFurther(inbox[Key(cur)], "committed")
    BY <2>1 DEF NoFurther
  <2>3. "committed" \in KeyStates \ {"none"}
    BY DEF KeyStates
  <2> QED BY <1>2, <2>2, <2>3, SettleAtPlace DEF Settles, InboxTakes, InboxGrows
<1>3. CASE Buries
  <2>1. inbox[DeadKey(cur)] \in {"none", "dead_lettered"}
    BY <1>3, DeadRowAtPlace DEF Keyed
  <2>2. NoFurther(inbox[DeadKey(cur)], "dead_lettered")
    BY <2>1 DEF NoFurther
  <2>3. "dead_lettered" \in KeyStates \ {"none"}
    BY DEF KeyStates
  <2> QED BY <1>3, <2>2, <2>3, DeadRowAtPlace DEF Buries, InboxTakes, InboxGrows
<1>4. CASE FileWrite /\ ~Buries /\ ~Settles
  BY <1>4, OtherWrites
<1>5. CASE Still \/ Rests \/ (\E a \in Artifacts : Take(a)) \/ DeadLetter \/ Decides
  BY <1>5 DEF Still, Rests, Take, DeadLetter, Decides, Decide, ledgers, tables
<1> QED BY <1>1, <1>2, <1>3, <1>4, <1>5, StepKinds

\* What a write adds, key by key.
LEMMA InboxWithBy ==
  ASSUME TypeOK, NEW k \in Keys, NEW s
  PROVE  \A j \in Keys : InboxWith(k, s)[j] = IF j = k THEN s ELSE inbox[j]
BY TableTypes DEF InboxWith

\* InboxNeverReopens, of one step; and nothing is forgotten without a loss.
LEMMA Forward ==
  ASSUME TypeOK, Keyed, [Next]_vars
  PROVE  /\ (\A k \in Keys : Onward(k)) \/ InboxCutOff
         /\ Remembers
<1>0. inbox \in [Keys -> KeyStates]
  BY TableTypes
<1>1. lost \subseteq lost'
  BY LostGrows
<1>2. CASE UNCHANGED inbox
  BY <1>1, <1>2 DEF Onward, Remembers
<1>3. CASE InboxCutOff
  BY <1>1, <1>3 DEF InboxCutOff, Remembers
<1>4. CASE InboxGrows
  <2>1. PICK k \in Keys, s \in KeyStates \ {"none"} :
          inbox' = InboxWith(k, s) /\ NoFurther(inbox[k], s)
    BY <1>4 DEF InboxGrows
  <2>2. \A j \in Keys : inbox'[j] = IF j = k THEN s ELSE inbox[j]
    BY <2>1, InboxWithBy
  <2>3. \A j \in Keys : Onward(j)
    BY <2>1, <2>2 DEF Onward, NoFurther
  <2>4. s # "none"
    BY <2>1
  <2> QED BY <1>1, <2>2, <2>3, <2>4 DEF Remembers
<1> QED BY <1>2, <1>3, <1>4, InboxMoves

\* The rows read without the unterminated line.
LEMMA AheadStep ==
  ASSUME TypeOK, Keyed, Tailed, Tailed', [Next]_vars
  PROVE  OneRowAhead'
<1>0. FallbackKey \in Keys
  BY ConstantsAssumption
<1>1. CASE "inbox" \notin cut'
  <2>1. terminated'.inbox = inbox'
    BY <1>1 DEF Tailed
  <2> QED BY <1>0, <2>1 DEF OneRowAhead, NoFurther
<1>2. CASE "inbox" \in cut'
  <2>1. terminated'.inbox = terminated.inbox
    BY <1>2, TailMoves
  <2>2. CASE UNCHANGED inbox
    BY <2>1, <2>2 DEF Keyed, OneRowAhead
  <2>3. CASE InboxCutOff
    BY <1>0, <2>1, <2>3 DEF InboxCutOff, OneRowAhead, NoFurther
  <2>4. CASE InboxGrows
    <3>1. PICK k \in Keys, s \in KeyStates \ {"none"} :
            inbox' = InboxWith(k, s) /\ NoFurther(inbox[k], s)
      BY <2>4 DEF InboxGrows
    <3>2. \A j \in Keys : inbox'[j] = IF j = k THEN s ELSE inbox[j]
      BY <3>1, InboxWithBy
    <3>3. terminated'.inbox = inbox
      BY <2>1, <2>4 DEF InboxGrows, Tailed
    <3> QED BY <3>1, <3>2, <3>3 DEF OneRowAhead, NoFurther
  <2> QED BY <2>2, <2>3, <2>4, InboxMoves
<1> QED BY <1>1, <1>2

LEMMA KeyedStep ==
  ASSUME TypeOK, TypeOK', Tailed, Tailed', Keyed, [Next]_vars
  PROVE  Keyed'
<1>0. /\ inbox \in [Keys -> KeyStates] /\ FallbackKey \in Keys
      /\ inbox' \in [Keys -> KeyStates]
  BY ConstantsAssumption, TableTypes DEF TypeOK, Tables, TablesType, KeyStates
<1>1. /\ (\A k \in Keys : Onward(k)) \/ InboxCutOff
      /\ Remembers /\ OneRowAhead'
  BY Forward, AheadStep
<1>f. FallbackKey' = FallbackKey /\ inbox'[FallbackKey] \in {"none", "dead_lettered"}
  <2>1. CASE UNCHANGED inbox
    BY <2>1 DEF Keyed
  <2>2. CASE InboxCutOff
    <3>1. inbox' = terminated.inbox
      BY <2>2 DEF InboxCutOff
    <3>2. terminated.inbox[FallbackKey] \in KeyStates
      BY <1>0, TableTypes
    <3> QED BY <1>0, <3>1, <3>2 DEF Keyed, OneRowAhead, NoFurther, KeyStates
  <2>3. CASE Admits
    <3>1. /\ cur \in Artifacts /\ Key(cur) \in Keys /\ Key(cur) # FallbackKey
      BY <2>3, MetaFacts, KeyAssumption DEF Admits, TypeOK, Key, BadEnvelope
    <3> QED BY <1>0, <2>2, <2>3, <3>1, InboxWithBy DEF Admits, InboxTakes, Keyed
  <2>4. CASE Settles
    <3>1. Key(cur) # FallbackKey /\ Key(cur) \in Keys
      BY <2>4, SettleAtPlace DEF Keyed, InFlight
    <3> QED BY <1>0, <2>2, <2>4, <3>1, InboxWithBy DEF Settles, InboxTakes, Keyed
  <2>5. CASE Buries
    <3>1. DeadKey(cur) \in Keys
      BY <2>5, DeadRowAtPlace
    <3> QED BY <1>0, <2>2, <2>5, <3>1, InboxWithBy DEF Buries, InboxTakes, Keyed
  <2>6. CASE FileWrite /\ ~Buries /\ ~Settles
    BY <2>1, <2>6, OtherWrites
  <2>7. CASE Still \/ Rests \/ (\E a \in Artifacts : Take(a)) \/ DeadLetter \/ Decides
    BY <2>1, <2>7 DEF Still, Rests, Take, DeadLetter, Decides, Decide, ledgers, tables
  <2> QED BY <2>3, <2>4, <2>5, <2>6, <2>7, StepKinds
<1>g. pc' \notin {"decide", "write"} => Keyed'
  BY <1>1, <1>f DEF Keyed, BeforeSettle, InFlight, Burying
<1>2. CASE Still
  <2>1. UNCHANGED <<inbox, lost, cut, pc, cur, verdict, at>>
    BY <1>2 DEF Still, tables, tails
  <2> QED BY <1>1, <2>1 DEF Keyed, BeforeSettle, InFlight, Burying, InboxLost
<1>3. CASE Rests \/ \E a \in Artifacts : Take(a)
  BY <1>g, <1>3 DEF Rests, Take
<1>4. CASE DeadLetter
  <2>1. /\ cur' = cur /\ pc' = "write" /\ verdict' = "dead_lettered" /\ at' = 1
        /\ inbox' = inbox /\ inbox[Key(cur)] = "none"
    BY <1>4 DEF DeadLetter, ledgers, tables
  <2>2. DeadKey(cur) \in {Key(cur), FallbackKey}
    BY DEF DeadKey
  <2> QED BY <1>1, <1>f, <2>1, <2>2
          DEF Keyed, BeforeSettle, InFlight, Burying, InboxLost
<1>5. CASE Admits
  <2>1. /\ cur \in Artifacts /\ Key(cur) \in Keys
        /\ inbox[Key(cur)] = "none" /\ Key(cur) # FallbackKey
    BY <1>5, MetaFacts, KeyAssumption DEF Admits, TypeOK, Key, BadEnvelope
  <2>2. CASE pc' = "decide"
    <3>1. cur' = cur /\ "inbox" \notin cut'
      BY <1>5, <2>2 DEF Admits
    <3>2. \/ inbox'[Key(cur)] = "admitted"
          \/ inbox'[Key(cur)] = "none" /\ InboxLost'
      <4>1. CASE InboxCutOff
        <5>1. terminated.inbox[Key(cur)] \in KeyStates
          BY <2>1, TableTypes
        <5> QED BY <2>1, <4>1, <5>1
                DEF InboxCutOff, Keyed, OneRowAhead, NoFurther, KeyStates, InboxLost
      <4>2. CASE inbox' = InboxWith(Key(cur), "admitted")
        BY <2>1, <4>2, InboxWithBy
      <4> QED BY <1>5, <4>1, <4>2 DEF Admits, InboxTakes
    <3> QED BY <1>1, <1>f, <2>1, <2>2, <3>1, <3>2
            DEF Keyed, BeforeSettle, InFlight, Burying, InboxLost
  <2>3. CASE pc' = "down"
    BY <1>g, <2>3
  <2> QED BY <1>5, <2>2, <2>3 DEF Admits
<1>6. CASE Decides
  <2>1. /\ pc = "decide" /\ pc' = "write" /\ cur' = cur /\ verdict' # "dead_lettered"
        /\ UNCHANGED <<inbox, lost, cut>>
    BY <1>6, VerdictOfType DEF Decides, Decide, ledgers, tables, tails
  <2> QED BY <1>1, <1>f, <2>1 DEF Keyed, BeforeSettle, InFlight, Burying, InboxLost
<1>7. CASE FileWrite
  <2>1. PICK w : Writes(w) \/ Turn(w)
    BY <1>7, FileWriteMoves
  <2>2. /\ pc = "write" /\ cur \in Artifacts /\ verdict \in Verdicts
        /\ at \in 1..Len(Plan[verdict]) /\ Plan[verdict][at] = w /\ at \in Nat
        /\ \/ pc' \in {"down", "scan"}
           \/ pc' = "write" /\ cur' = cur /\ verdict' = verdict /\ at' = at + 1
    BY <2>1, WriteMoves
  <2>3. /\ Key(cur) \in Keys /\ DeadKey(cur) \in Keys
        /\ InFlight => Key(cur) # FallbackKey /\ "inbox" \notin cut
        /\ pc' = "write" => cut' \subseteq cut
    BY <2>2, MetaFacts, TailMoves DEF Keyed, Crash, Down
  <2>5. CASE pc' \in {"down", "scan"}
    BY <1>g, <2>5
  <2>6. CASE /\ pc' = "write" /\ cur' = cur /\ verdict' = verdict /\ at' = at + 1
             /\ verdict # "dead_lettered"
    <3>0. InFlight /\ "inbox" \notin cut' /\ \A k \in Keys : Onward(k)
      BY <1>1, <2>2, <2>3, <2>6 DEF InFlight, InboxCutOff
    <3>1. InboxLost' \/ inbox'[Key(cur)] \in {"admitted", "committed"}
      BY <1>1, <2>3, <3>0 DEF Keyed, Onward, InboxLost, Remembers
    <3>2. SettleAt[verdict] \in Nat
      BY <2>2, VerdictSet DEF SettleAt
    <3>3. at + 1 <= SettleAt[verdict] => inbox'[Key(cur)] \in {"none", "admitted"}
      <4>1. SUFFICES ASSUME at + 1 <= SettleAt[verdict]
                     PROVE  inbox'[Key(cur)] \in {"none", "admitted"}
        OBVIOUS
      <4>2. ~Settles /\ ~Buries
        BY <2>2, <2>6, <3>2, <4>1, SettleAtPlace, DeadRowAtPlace DEF Burying
      <4>3. UNCHANGED inbox /\ at <= SettleAt[verdict]
        BY <1>7, <2>2, <3>2, <4>1, <4>2, OtherWrites
      <4> QED BY <2>2, <2>6, <4>3 DEF Keyed, BeforeSettle
    <3>4. Key(cur) # FallbackKey
      BY <2>3, <3>0
    <3> QED BY <1>1, <1>f, <2>6, <3>0, <3>1, <3>3, <3>4
            DEF Keyed, BeforeSettle, InFlight, Burying, InboxLost
  <2>7. CASE /\ pc' = "write" /\ cur' = cur /\ verdict' = verdict /\ at' = at + 1
             /\ verdict = "dead_lettered"
    <3>1. ~Settles
      BY <2>7, SettleAtPlace
    <3>2. CASE Buries
      <4>1. at = 2
        BY <3>2, DeadRowAtPlace
      <4>2. InboxLost' \/ inbox'[DeadKey(cur)] = "dead_lettered"
        BY <2>3, <3>2, InboxWithBy DEF Buries, InboxTakes, InboxCutOff, InboxLost
      <4> QED BY <1>1, <1>f, <2>7, <4>1, <4>2
              DEF Keyed, BeforeSettle, InFlight, Burying, InboxLost
    <3>3. CASE ~Buries
      <4>1. UNCHANGED inbox /\ at # 2
        BY <1>7, <2>2, <2>7, <3>1, <3>3, OtherWrites, DeadOrder, WriteByName
      <4>2. InboxLost => InboxLost'
        BY <1>1 DEF Remembers, InboxLost
      <4>3. at <= 2 => at + 1 <= 2
        BY <2>2, <4>1
      <4>4. Burying
        BY <2>2, <2>7 DEF Burying
      <4>5. at' <= 2 => inbox'[DeadKey(cur')] \in {"none", "dead_lettered"}
        BY <2>2, <2>7, <4>1, <4>4 DEF Keyed
      <4>6. at' > 2 => InboxLost' \/ inbox'[DeadKey(cur')] = "dead_lettered"
        BY <2>2, <2>7, <4>1, <4>2, <4>4 DEF Keyed
      <4> QED BY <1>1, <1>f, <2>7, <4>5, <4>6
              DEF Keyed, BeforeSettle, InFlight, Burying
    <3> QED BY <3>2, <3>3
  <2> QED BY <2>2, <2>5, <2>6, <2>7
<1> QED BY <1>2, <1>3, <1>4, <1>5, <1>6, <1>7, StepKinds

----------------------------------------------------------------------------
(* The audit chain: the verdict of an artifact is written once.            *)

Unjudged == pc = "decide" \/ (pc = "write" /\ at <= AuditAt[verdict])

Audited ==
  /\ OneVerdictPerArtifact
  /\ \A a \in Artifacts : Meta[a].kind # "empty" /\ audit[a] # <<>> =>
       InboxLost \/ inbox[Key(a)] # "none"
  /\ Unjudged /\ Meta[cur].kind # "empty" => InboxLost \/ audit[cur] = <<>>

\* What the dedupe table remembers, and what it lost, stays.
LEMMA AuditBase ==
  ASSUME TypeOK, Audited, Remembers, UNCHANGED audit
  PROVE  /\ InboxLost => InboxLost'
         /\ OneVerdictPerArtifact'
         /\ \A a \in Artifacts : Meta[a].kind # "empty" /\ audit'[a] # <<>> =>
              InboxLost' \/ inbox'[Key(a)] # "none"
<1>1. InboxLost => InboxLost'
  BY DEF Remembers, InboxLost
<1>2. OneVerdictPerArtifact'
  BY <1>1 DEF Audited, OneVerdictPerArtifact, InboxLost
<1>3. \A a \in Artifacts : Key(a) \in Keys
  BY MetaFacts
<1> QED BY <1>1, <1>2, <1>3 DEF Audited, Remembers, InboxLost

\* A step that writes no verdict and leaves the artifact in hand, or drops it.
LEMMA AuditFrame ==
  ASSUME TypeOK, Audited, Remembers, UNCHANGED audit,
         \/ UNCHANGED <<pc, cur, verdict, at>>
         \/ pc' \notin {"decide", "write"}
         \/ /\ pc \in {"decide", "write"} /\ pc' = "write" /\ cur' = cur
            /\ at' <= AuditAt[verdict'] => Unjudged
  PROVE  Audited'
<1>1. Unjudged' => Unjudged /\ cur' = cur
  BY DEF Unjudged
<1>2. Unjudged' /\ Meta[cur'].kind # "empty" => InboxLost' \/ audit'[cur'] = <<>>
  BY <1>1, AuditBase DEF Audited
<1> QED BY <1>2, AuditBase DEF Audited

\* An artifact whose key is new has no verdict yet.
LEMMA NewIsUnjudged ==
  ASSUME TypeOK, Audited, Remembers, UNCHANGED audit, cur' = cur, cur \in Artifacts,
         inbox[Key(cur)] = "none"
  PROVE  Audited'
<1>1. Meta[cur].kind # "empty" => InboxLost \/ audit[cur] = <<>>
  BY DEF Audited
<1> QED BY <1>1, AuditBase DEF Audited

\* What one verdict row adds.
LEMMA AuditRow ==
  ASSUME TypeOK, WriteAudit
  PROVE  /\ cur \in Artifacts /\ verdict \in Verdicts /\ audit[cur] \in Seq(Verdicts)
         /\ \A a \in Artifacts : a # cur => audit'[a] = audit[a]
         /\ \/ Len(audit[cur]) >= MaxRows /\ audit'[cur] = audit[cur]
            \/ audit'[cur] = Append(audit[cur], verdict)
<1>1. /\ cur \in Artifacts /\ verdict \in Verdicts
      /\ audit \in [Artifacts -> Seq(Verdicts)]
  BY WriteMoves DEF WriteAudit, TypeOK
<1>2. Len(audit[cur]) \in Nat /\ MaxRows \in Nat
  BY <1>1, ConstantsAssumption
<1> QED BY <1>1, <1>2 DEF WriteAudit

\* The verdict is the first of an artifact whose key is in the dedupe table.
LEMMA AuditWrite ==
  ASSUME TypeOK, TypeOK', Keyed, Audited, WriteAudit
  PROVE  Audited'
<1>1. /\ pc = "write" /\ cur \in Artifacts /\ verdict \in Verdicts
      /\ at \in 1..Len(Plan[verdict]) /\ Plan[verdict][at] = "audit" /\ at \in Nat
      /\ \/ pc' \in {"down", "scan"}
         \/ pc' = "write" /\ cur' = cur /\ verdict' = verdict /\ at' = at + 1
  BY WriteMoves DEF WriteAudit
<1>2. at = AuditAt[verdict]
  BY <1>1, AuditOrder
<1>3. UNCHANGED <<inbox, lost>>
  BY DEF WriteAudit, tables, tails
<1>4. ~Unjudged'
  BY <1>1, <1>2 DEF Unjudged
<1>5. Meta[cur].kind # "empty" => InboxLost \/ Len(audit'[cur]) <= 1
  <2>1. SUFFICES ASSUME Meta[cur].kind # "empty", ~InboxLost PROVE Len(audit'[cur]) <= 1
    OBVIOUS
  <2>2. audit[cur] = <<>>
    BY <1>1, <1>2, <2>1 DEF Audited, Unjudged
  <2>3. audit[cur] \in Seq(Verdicts) /\ Len(audit[cur]) = 0
    BY <2>2, AuditRow
  <2>4. Len(Append(audit[cur], verdict)) = 1
    BY <1>1, <2>3
  <2> QED BY <2>3, <2>4, AuditRow
<1>6. Meta[cur].kind # "empty" => InboxLost \/ inbox[Key(cur)] # "none"
  <2>1. CASE verdict = "dead_lettered"
    <3>1. at = 3
      BY <1>2, <2>1 DEF AuditAt
    <3>2. Meta[cur].kind # "empty" => DeadKey(cur) = Key(cur)
      BY DEF DeadKey
    <3> QED BY <1>1, <2>1, <3>1, <3>2 DEF Keyed, Burying
  <2>2. CASE verdict # "dead_lettered"
    BY <1>1, <2>2 DEF Keyed, InFlight
  <2> QED BY <2>1, <2>2
<1>7. OneVerdictPerArtifact'
  BY <1>3, <1>5, AuditRow DEF Audited, OneVerdictPerArtifact, InboxLost
<1>8. \A a \in Artifacts : Meta[a].kind # "empty" /\ audit'[a] # <<>> =>
        InboxLost' \/ inbox'[Key(a)] # "none"
  BY <1>3, <1>6, AuditRow DEF Audited, InboxLost
<1> QED BY <1>4, <1>7, <1>8 DEF Audited

LEMMA AuditUntouched ==
  ASSUME FileWrite, ~WriteAudit
  PROVE  UNCHANGED audit
<1> USE DEF ledgers, tails
<1>1. CASE Settles \/ Buries \/ Journals \/ Counts \/ Stores
  BY <1>1 DEF Settles, Buries, Journals, Counts, Stores, Turn
<1>2. CASE WriteLatest \/ Announce \/ WriteMonitor \/ WriteCandidate \/ WriteQuarantine
  BY <1>2 DEF WriteLatest, Announce, WriteMonitor, WriteCandidate, WriteQuarantine
<1>3. CASE \E tick \in BOOLEAN : WriteDeadFile(tick)
  BY <1>3 DEF WriteDeadFile
<1> QED BY <1>1, <1>2, <1>3 DEF FileWrite, Notes

LEMMA AuditedStep ==
  ASSUME TypeOK, TypeOK', Keyed, Audited, [Next]_vars
  PROVE  Audited'
<1>1. Remembers
  BY Forward
<1>2. CASE Still \/ Rests \/ \E a \in Artifacts : Take(a)
  <2>1. /\ UNCHANGED audit
        /\ pc' \notin {"decide", "write"} \/ UNCHANGED <<pc, cur, verdict, at>>
    BY <1>2 DEF Still, Rests, Take, ledgers
  <2> QED BY <1>1, <2>1, AuditFrame
<1>3. CASE DeadLetter
  <2>1. /\ UNCHANGED audit /\ cur' = cur /\ cur \in Artifacts /\ inbox[Key(cur)] = "none"
    BY <1>3 DEF DeadLetter, ledgers, TypeOK
  <2> QED BY <1>1, <2>1, NewIsUnjudged
<1>4. CASE Admits
  <2>1. /\ UNCHANGED audit /\ cur \in Artifacts /\ inbox[Key(cur)] = "none"
        /\ pc' = "down" \/ cur' = cur
    BY <1>4 DEF Admits, TypeOK
  <2> QED BY <1>1, <2>1, NewIsUnjudged, AuditFrame
<1>5. CASE Decides
  <2>1. /\ UNCHANGED audit /\ pc = "decide" /\ pc' = "write" /\ cur' = cur
    BY <1>5 DEF Decides, Decide, ledgers
  <2> QED BY <1>1, <2>1, AuditFrame DEF Unjudged
<1>6. CASE FileWrite /\ ~WriteAudit
  <2>1. PICK w : Writes(w) \/ Turn(w)
    BY <1>6, FileWriteMoves
  <2>2. /\ pc = "write" /\ verdict \in Verdicts /\ at \in Nat
        /\ \/ pc' \in {"down", "scan"}
           \/ pc' = "write" /\ cur' = cur /\ verdict' = verdict /\ at' = at + 1
    BY <2>1, WriteMoves
  <2>3. AuditAt[verdict] \in Nat
    BY <2>2, VerdictSet DEF AuditAt
  <2> QED BY <1>1, <1>6, <2>2, <2>3, AuditFrame, AuditUntouched DEF Unjudged
<1>7. CASE WriteAudit
  BY <1>7, AuditWrite
<1> QED BY <1>2, <1>3, <1>4, <1>5, <1>6, <1>7, StepKinds

----------------------------------------------------------------------------
(* Refusals leave evidence.                                                *)
(*                                                                         *)
(* The dead letter of a refusal is on disk before its row, and stays until *)
(* another takes its name.  By then the audit row is written: the artifact *)
(* in hand is the only one whose dead letter is there and whose row is not.*)
(* Unless a crash came between the two, or a cut line took rows along.     *)

Evidence(b) == \/ b \in deadFiles \cup fresh
               \/ Recorded(b)
               \/ b \in buried /\ crashes > 0

Filed ==
  /\ \A a \in Artifacts : inbox[DeadKey(a)] = "dead_lettered" =>
       \E b \in Artifacts : DeadKey(b) = DeadKey(a) /\ Evidence(b)
  /\ Burying /\ at >= 2 => cur \in deadFiles \cup fresh
  /\ InFlight => Meta[cur].kind # "empty"
  /\ \A a \in Artifacts : Meta[a].kind = "empty" =>
       \A i \in DOMAIN audit[a] : audit[a][i] = "dead_lettered"
  /\ crashes = 0 =>
       \A a \in fresh : Recorded(a) \/ (a = cur /\ Burying /\ at >= 2)

\* Of a process at its writes, the world waits, a crash comes, or it writes.
LEMMA WhileWriting ==
  ASSUME [Next]_vars, pc = "write"
  PROVE  Crash \/ Still \/ (FileWrite /\ \E w : Writes(w))
<1> USE DEF vars, envVars, tables, tails, ledgers, deadLetters, sideFiles, locals,
            procVars, boundVars, historyVars
<1>1. CASE Poll \/ PollFails \/ EndOfScan \/ Dedupe \/ DeadLetter \/ Admit \/ SkipInvalid
  BY <1>1 DEF Poll, PollFails, EndOfScan, Dedupe, DeadLetter, Admit, SkipInvalid
<1>2. CASE (\E a \in Artifacts : Suppress(a) \/ Take(a)) \/ Decides
  BY <1>2 DEF Suppress, Take, Decides, Decide
<1>3. CASE WriteJournal \/ WriteSignalRow \/ WriteStore \/ WriteDeadRow \/ Settle
  BY <1>3, WriteKinds DEF FileWrite, WriteJournal, WriteSignalRow, WriteStore,
     WriteDeadRow, Settle
<1>4. CASE WriteLatest \/ WriteAudit \/ Announce \/ WriteMonitor
  BY <1>4 DEF FileWrite, Notes, WriteLatest, WriteAudit, Announce, WriteMonitor
<1>5. CASE WriteCandidate \/ WriteQuarantine \/ \E tick \in BOOLEAN : WriteDeadFile(tick)
  BY <1>5 DEF FileWrite, Notes, WriteCandidate, WriteQuarantine, WriteDeadFile
<1>6. CASE Daemon
  BY <1>1, <1>2, <1>3, <1>4, <1>5, <1>6 DEF Daemon, Decides
<1>7. CASE NextDay
  BY <1>7 DEF NextDay, Still
<1>8. CASE World /\ ~NextDay
  BY <1>8 DEF World, Drop, Poison, MandateAdd, MandateRemove, MandateTorn,
     MandateRepaired, EditMandate, Halt, Resume, Still
<1>9. CASE (\E mode \in BOOLEAN : Start(mode)) \/ Stop
  BY <1>9 DEF Start, Stop
<1>10. CASE UNCHANGED vars
  BY <1>10 DEF Still
<1> QED BY <1>6, <1>7, <1>8, <1>9, <1>10 DEF Next

\* The dead letters move when one is written, or the second passes.
LEMMA DeadFilesMove ==
  ASSUME [Next]_vars
  PROVE  \/ /\ deadFiles' \cup fresh' = deadFiles \cup fresh /\ fresh' \subseteq fresh
            /\ buried' = buried
         \/ \E tick \in BOOLEAN : WriteDeadFile(tick)
<1> USE DEF sideFiles, deadLetters
<1>1. CASE Still
  BY <1>1 DEF Still
<1>2. CASE Rests \/ (\E a \in Artifacts : Take(a)) \/ DeadLetter \/ Admits \/ Decides
  BY <1>2 DEF Rests, Take, DeadLetter, Admits, Decides, Decide
<1>3. CASE Settles \/ Buries \/ Journals \/ Counts \/ Stores
  BY <1>3 DEF Settles, Buries, Journals, Counts, Stores, Turn
<1>4. CASE WriteLatest \/ WriteAudit \/ Announce \/ WriteMonitor
  BY <1>4 DEF WriteLatest, WriteAudit, Announce, WriteMonitor
<1>5. CASE WriteCandidate \/ WriteQuarantine
  BY <1>5 DEF WriteCandidate, WriteQuarantine
<1> QED BY <1>1, <1>2, <1>3, <1>4, <1>5, StepKinds DEF FileWrite, Notes

\* The audit chain only grows.
LEMMA AuditMoves ==
  ASSUME [Next]_vars
  PROVE  UNCHANGED audit \/ WriteAudit
<1>1. CASE Still \/ Rests \/ (\E a \in Artifacts : Take(a)) \/ DeadLetter
  BY <1>1 DEF Still, Rests, Take, DeadLetter, ledgers
<1>2. CASE Admits \/ Decides
  BY <1>2 DEF Admits, Decides, Decide, ledgers
<1> QED BY <1>1, <1>2, StepKinds, AuditUntouched

LEMMA RecordedStays ==
  ASSUME TypeOK, [Next]_vars, NEW a \in Artifacts, Recorded(a)
  PROVE  Recorded(a)'
<1>1. CASE UNCHANGED audit
  BY <1>1 DEF Recorded
<1>2. CASE WriteAudit
  <2>1. CASE audit'[a] = audit[a]
    BY <2>1 DEF Recorded
  <2>2. CASE a = cur /\ audit'[cur] = Append(audit[cur], verdict)
    <3>1. /\ audit[a] \in Seq(Verdicts)
          /\ \A i \in DOMAIN audit[a] : i \in DOMAIN audit'[a] /\ audit'[a][i] = audit[a][i]
      BY <1>2, <2>2, AuditRow
    <3> QED BY <3>1 DEF Recorded
  <2> QED BY <1>2, <2>1, <2>2, AuditRow
<1> QED BY <1>1, <1>2, AuditMoves

\* A dead letter is written first, and its second write finds it there.
LEMMA DeadFileAtPlace ==
  ASSUME TypeOK, NEW tick \in BOOLEAN, WriteDeadFile(tick)
  PROVE  /\ cur \in Artifacts /\ verdict = "dead_lettered" /\ at = 1 /\ Burying
         /\ pc' = "write" /\ at' = 2 /\ cur' = cur /\ verdict' = verdict
         /\ crashes' = crashes
<1>1. /\ cur \in Artifacts /\ verdict \in Verdicts /\ at \in 1..Len(Plan[verdict])
      /\ Plan[verdict][at] = "dead_file" /\ Writes("dead_file") /\ pc = "write"
  BY WriteMoves DEF WriteDeadFile
<1>2. verdict = "dead_lettered" /\ at = 1
  BY <1>1, DeadOrder
<1>3. at # Len(Plan[verdict])
  BY <1>2, PlanLength
<1> QED BY <1>1, <1>2, <1>3 DEF Writes, Burying, boundVars

\* A second refusal for the same reason writes over a row already recorded.
LEMMA EvidenceStays ==
  ASSUME TypeOK, Filed, [Next]_vars, NEW b \in Artifacts, Evidence(b)
  PROVE  Evidence(b)'
<1>1. crashes \in Nat /\ (crashes > 0 => crashes' > 0)
  BY TailMoves DEF TypeOK
<1>2. CASE Recorded(b)
  BY <1>2, RecordedStays DEF Evidence
<1>3. CASE /\ deadFiles' \cup fresh' = deadFiles \cup fresh /\ buried' = buried
           /\ ~Recorded(b)
  BY <1>1, <1>3 DEF Evidence
<1>4. ASSUME NEW tick \in BOOLEAN, WriteDeadFile(tick), ~Recorded(b)
      PROVE  Evidence(b)'
  <2>1. buried \subseteq buried'
    BY <1>4 DEF WriteDeadFile
  <2>2. CASE b \in buried /\ crashes > 0
    BY <1>1, <2>1, <2>2 DEF Evidence
  <2>3. CASE b \in deadFiles
    BY <1>4, <2>3 DEF WriteDeadFile, Evidence
  <2>4. CASE b \in fresh
    <3>1. \/ b \in deadFiles' \cup fresh'
          \/ b \in buried' /\ b # cur
      BY <1>4, <2>4 DEF WriteDeadFile
    <3>2. b # cur => crashes > 0
      BY <1>1, <1>4, <2>4, DeadFileAtPlace DEF Filed
    <3> QED BY <1>1, <3>1, <3>2 DEF Evidence
  <2> QED BY <1>4, <2>2, <2>3, <2>4 DEF Evidence
<1> QED BY <1>2, <1>3, <1>4, DeadFilesMove

\* The row of a dead letter is not missing for lack of room.
LEMMA RecordsDeadLetter ==
  ASSUME TypeOK, Audited, Filed, Unbroken, WriteAudit, crashes = 0,
         verdict = "dead_lettered", NEW a \in Artifacts, a = cur
  PROVE  Recorded(a)'
<1>1. /\ cur \in Artifacts /\ audit[cur] \in Seq(Verdicts) /\ verdict \in Verdicts
      /\ \/ Len(audit[cur]) >= MaxRows /\ audit'[cur] = audit[cur]
         \/ audit'[cur] = Append(audit[cur], verdict)
      /\ Len(audit[cur]) \in Nat /\ MaxRows \in Nat \ {0}
  BY AuditRow, ConstantsAssumption
<1>2. \E i \in DOMAIN audit'[cur] : audit'[cur][i] = "dead_lettered"
  <2>1. CASE audit'[cur] = Append(audit[cur], verdict)
    <3>1. /\ Len(audit[cur]) + 1 \in DOMAIN Append(audit[cur], verdict)
          /\ Append(audit[cur], verdict)[Len(audit[cur]) + 1] = verdict
      BY <1>1
    <3> QED BY <2>1, <3>1
  <2>2. CASE Len(audit[cur]) >= MaxRows /\ audit'[cur] = audit[cur]
    <3>1. 1 \in DOMAIN audit[cur] /\ Len(audit[cur]) # 0
      BY <1>1, <2>2
    <3>2. audit[cur] # <<>>
      BY <3>1
    <3>3. at = 3 /\ Unjudged
      <4>1. /\ pc = "write" /\ verdict \in Verdicts /\ at \in 1..Len(Plan[verdict])
            /\ Plan[verdict][at] = "audit"
        BY WriteMoves DEF WriteAudit
      <4> QED BY <4>1, AuditOrder DEF AuditAt, Unjudged
    <3>4. ~InboxLost
      BY DEF Unbroken, InboxLost
    <3>5. Meta[cur].kind = "empty"
      BY <3>2, <3>3, <3>4 DEF Audited
    <3> QED BY <1>1, <2>2, <3>1, <3>5 DEF Filed
  <2> QED BY <1>1, <2>1, <2>2
<1>3. PICK i \in DOMAIN audit'[cur] : audit'[cur][i] = "dead_lettered"
  BY <1>2
<1> QED BY <1>3 DEF Recorded

LEMMA FiledStep ==
  ASSUME TypeOK, TypeOK', Tailed, Keyed, Audited, Filed, Unbroken, [Next]_vars
  PROVE  Filed'
<1>0. /\ crashes \in Nat /\ \A b \in Artifacts : Evidence(b) => Evidence(b)'
      /\ \A a \in Artifacts : Key(a) \in Keys /\ DeadKey(a) \in Keys
      /\ crashes' = 0 => crashes = 0 /\ ~Crash
  <2>1. crashes \in Nat
    BY DEF TypeOK
  <2>2. Crash => crashes' = crashes + 1
    BY DEF Crash
  <2>3. crashes' = 0 => crashes = 0 /\ ~Crash
    BY <2>1, <2>2, TailMoves
  <2> QED BY <2>1, <2>3, EvidenceStays, MetaFacts
<1>1. ASSUME NEW a \in Artifacts, inbox'[DeadKey(a)] = "dead_lettered"
      PROVE  \E b \in Artifacts : DeadKey(b) = DeadKey(a) /\ Evidence(b)'
  <2>1. CASE inbox[DeadKey(a)] = "dead_lettered"
    BY <1>0, <2>1 DEF Filed
  <2>2. CASE inbox[DeadKey(a)] # "dead_lettered"
    <3>1. ~InboxCutOff
      BY <1>0, <1>1, <2>2 DEF InboxCutOff, Keyed, OneRowAhead, NoFurther
    <3>2. CASE Buries
      <4>1. DeadKey(a) = DeadKey(cur)
        BY <1>0, <1>1, <2>2, <3>1, <3>2, DeadRowAtPlace, InboxWithBy
           DEF Buries, InboxTakes
      <4>2. cur \in Artifacts /\ Evidence(cur)
        BY <3>2, DeadRowAtPlace DEF Filed, Evidence
      <4> QED BY <1>0, <4>1, <4>2
    <3>3. CASE Settles
      BY <1>0, <1>1, <2>2, <3>1, <3>3, SettleAtPlace, InboxWithBy
         DEF Settles, InboxTakes
    <3>4. CASE Admits
      <4>1. cur \in Artifacts
        BY <3>4 DEF Admits, TypeOK
      <4> QED BY <1>0, <1>1, <2>2, <3>1, <3>4, <4>1, InboxWithBy
              DEF Admits, InboxTakes
    <3>5. CASE FileWrite /\ ~Buries /\ ~Settles
      BY <1>1, <2>2, <3>5, OtherWrites
    <3>6. CASE Still \/ Rests \/ (\E b \in Artifacts : Take(b)) \/ DeadLetter \/ Decides
      BY <1>1, <2>2, <3>6 DEF Still, Rests, Take, DeadLetter, Decides, Decide,
         ledgers, tables
    <3> QED BY <3>2, <3>3, <3>4, <3>5, <3>6, StepKinds
  <2> QED BY <2>1, <2>2
\* What becomes of a burial in hand.
<1>b. Burying' => \/ at' = 1
                  \/ Burying /\ cur' = cur /\ at' = at
                  \/ /\ Burying /\ FileWrite /\ cur' = cur /\ at' = at + 1
  <2>1. CASE pc = "write"
    <3>1. CASE Still
      BY <2>1, <3>1 DEF Still, Burying
    <3>2. ASSUME NEW w, Writes(w), Burying'
          PROVE  Burying /\ cur' = cur /\ at' = at + 1
      BY <2>1, <3>2, WriteMoves DEF Burying
    <3> QED BY <2>1, <3>1, <3>2, WhileWriting DEF Crash, Down, Burying
  <2>2. CASE pc # "write"
    <3>1. CASE FileWrite
      BY <2>2, <3>1, FileWriteMoves, WriteMoves
    <3>2. CASE Still \/ Rests \/ (\E a \in Artifacts : Take(a)) \/ DeadLetter
      BY <2>2, <3>2 DEF Still, Rests, Take, DeadLetter, Burying
    <3>3. CASE Admits \/ Decides
      BY <2>2, <3>3, VerdictOfType DEF Admits, Decides, Decide, Burying
    <3> QED BY <3>1, <3>2, <3>3, StepKinds
  <2> QED BY <2>1, <2>2
<1>n. at \in Nat /\ (Burying => cur \in Artifacts /\ at \in 1..3)
  <2>1. at \in Nat /\ at \in 1..Len(Plan[verdict])
    BY DEF TypeOK
  <2>2. Burying => cur \in Artifacts /\ Len(Plan[verdict]) = 3
    BY PlanLength DEF TypeOK, Burying
  <2> QED BY <2>1, <2>2
<1>2. Burying' /\ at' >= 2 => cur' \in deadFiles' \cup fresh'
  <2>1. CASE \E tick \in BOOLEAN : WriteDeadFile(tick)
    <3>1. PICK tick \in BOOLEAN : WriteDeadFile(tick)
      BY <2>1
    <3> QED BY <3>1, DeadFileAtPlace DEF WriteDeadFile
  <2>2. CASE ~ \E tick \in BOOLEAN : WriteDeadFile(tick)
    <3>1. deadFiles' \cup fresh' = deadFiles \cup fresh
      BY <2>2, DeadFilesMove
    <3>2. Burying /\ FileWrite => at # 1
      BY <2>2, WriteByName, VerdictSet, PlanLength DEF Burying, DeadLetterWrites
    <3>3. SUFFICES ASSUME Burying', at' >= 2 PROVE Burying /\ at >= 2 /\ cur' = cur
      BY <3>1 DEF Filed
    <3> QED BY <1>b, <1>n, <3>2, <3>3
  <2> QED BY <2>1, <2>2
<1>3. InFlight' => Meta[cur'].kind # "empty"
  <2>1. CASE Still
    BY <2>1 DEF Still, InFlight, Filed
  <2>2. CASE Rests \/ (\E a \in Artifacts : Take(a)) \/ DeadLetter
    BY <2>2 DEF Rests, Take, DeadLetter, InFlight
  <2>3. CASE Admits
    BY <2>3 DEF Admits, BadEnvelope, InFlight
  <2>4. CASE Decides
    BY <2>4 DEF Decides, Decide, InFlight, Filed
  <2>5. CASE FileWrite
    <3>1. PICK w : Writes(w) \/ Turn(w)
      BY <2>5, FileWriteMoves
    <3> QED BY <3>1, WriteMoves DEF InFlight, Filed
  <2> QED BY <2>1, <2>2, <2>3, <2>4, <2>5, StepKinds
<1>4. ASSUME NEW a \in Artifacts, Meta[a].kind = "empty", NEW i \in DOMAIN audit'[a]
      PROVE  audit'[a][i] = "dead_lettered"
  <2>1. CASE audit'[a] = audit[a]
    BY <1>4, <2>1 DEF Filed
  <2>2. CASE WriteAudit /\ a = cur /\ audit'[cur] = Append(audit[cur], verdict)
    <3>1. pc = "write" /\ audit[cur] \in Seq(Verdicts) /\ verdict \in Verdicts
      BY <2>2, AuditRow, WriteMoves DEF WriteAudit
    <3>2. verdict = "dead_lettered"
      BY <1>4, <2>2, <3>1 DEF Filed, InFlight
    <3>3. audit'[a][i] = verdict \/ (i \in DOMAIN audit[a] /\ audit'[a][i] = audit[a][i])
      BY <1>4, <2>2, <3>1
    <3> QED BY <1>4, <3>2, <3>3 DEF Filed
  <2> QED BY <2>1, <2>2, AuditMoves, AuditRow
<1>5. ASSUME crashes' = 0, NEW a \in fresh'
      PROVE  Recorded(a)' \/ (a = cur' /\ Burying' /\ at' >= 2)
  <2>0. a \in Artifacts /\ crashes = 0 /\ ~Crash
    BY <1>0, <1>5 DEF TypeOK
  <2>1. CASE \E tick \in BOOLEAN : WriteDeadFile(tick)
    <3>1. PICK tick \in BOOLEAN : WriteDeadFile(tick)
      BY <2>1
    <3>2. a = cur \/ a \in fresh
      BY <1>5, <3>1 DEF WriteDeadFile
    <3>3. /\ at = 1 /\ cur' = cur /\ at' = 2
          /\ Burying'
      BY <3>1, DeadFileAtPlace DEF Burying
    <3>4. a # cur => Recorded(a)
      BY <2>0, <3>2, <3>3 DEF Filed
    <3> QED BY <2>0, <3>3, <3>4, RecordedStays
  <2>2. CASE ~ \E tick \in BOOLEAN : WriteDeadFile(tick)
    <3>1. a \in fresh
      BY <1>5, <2>2, DeadFilesMove
    <3>2. CASE Recorded(a)
      BY <2>0, <3>2, RecordedStays
    <3>3. CASE a = cur /\ Burying /\ at >= 2 /\ Still
      BY <3>3 DEF Still, Burying
    <3>4. ASSUME NEW w, a = cur, Burying, at >= 2, FileWrite, Writes(w)
          PROVE  Recorded(a)' \/ (a = cur' /\ Burying' /\ at' >= 2)
      <4>1. at \in {2, 3} /\ Len(Plan[verdict]) = 3
        BY <1>n, <3>4, PlanLength DEF Burying
      <4>2. CASE at = 2
        BY <3>4, <4>1, <4>2 DEF Writes, Burying
      <4>3. CASE at = 3
        <5>1. WriteAudit /\ verdict = "dead_lettered"
          BY <3>4, <4>3, WriteByName, VerdictSet, PlanLength DEF Burying, DeadLetterWrites
        <5> QED BY <2>0, <3>4, <5>1, RecordsDeadLetter
      <4> QED BY <4>1, <4>2, <4>3
    <3> QED BY <2>0, <3>1, <3>2, <3>3, <3>4, WhileWriting DEF Filed, Burying
  <2> QED BY <2>1, <2>2
<1> QED BY <1>1, <1>2, <1>3, <1>4, <1>5 DEF Filed

----------------------------------------------------------------------------
(* A gate refusal is closed in the quarantine.                             *)

BlockedOnly(a) == audit[a] = <<"blocked">>

Quarantines ==
  /\ \A a \in Artifacts : BlockedOnly(a) /\ inbox[Key(a)] = "committed" =>
       Key(a) \in quarantined \/ InboxLost
  /\ \A a \in Artifacts : InFlight /\ BlockedOnly(a) /\ Key(a) = Key(cur) =>
       InboxLost \/ (pc = "write" /\ verdict = "blocked" /\ a = cur)
  /\ pc = "write" /\ verdict = "blocked" /\ at >= 6 => Key(cur) \in quarantined

\* A row of the quarantine stays.
LEMMA QuarantineGrows ==
  ASSUME [Next]_vars
  PROVE  quarantined \subseteq quarantined'
<1> USE DEF sideFiles, deadLetters
<1>1. CASE Still \/ Rests \/ (\E a \in Artifacts : Take(a)) \/ DeadLetter
  BY <1>1 DEF Still, Rests, Take, DeadLetter
<1>2. CASE Admits \/ Decides
  BY <1>2 DEF Admits, Decides, Decide
<1>3. CASE Settles \/ Buries \/ Journals \/ Counts \/ Stores
  BY <1>3 DEF Settles, Buries, Journals, Counts, Stores, Turn
<1>4. CASE WriteLatest \/ WriteAudit \/ Announce \/ WriteMonitor
  BY <1>4 DEF WriteLatest, WriteAudit, Announce, WriteMonitor
<1>5. CASE WriteCandidate \/ WriteQuarantine
  BY <1>5 DEF WriteCandidate, WriteQuarantine
<1>6. CASE \E tick \in BOOLEAN : WriteDeadFile(tick)
  BY <1>6 DEF WriteDeadFile
<1> QED BY <1>1, <1>2, <1>3, <1>4, <1>5, <1>6, StepKinds DEF FileWrite, Notes

\* An object without fields is never refused by the gate.
LEMMA BlockedHasFields ==
  ASSUME Filed, NEW a \in Artifacts, BlockedOnly(a)
  PROVE  Meta[a].kind # "empty" /\ audit[a] # <<>>
<1>1. 1 \in DOMAIN audit[a] /\ audit[a][1] = "blocked" /\ audit[a] # <<>>
  BY DEF BlockedOnly
<1> QED BY <1>1 DEF Filed

\* A step that leaves the dedupe table and the audit chain alone, and the
\* artifact in hand, or drops it.
LEMMA QuarantineFrame ==
  ASSUME Quarantines, UNCHANGED <<audit, inbox>>, Remembers,
         quarantined \subseteq quarantined',
         pc' \notin {"decide", "write"} \/ UNCHANGED <<pc, cur, verdict, at>>
  PROVE  Quarantines'
<1>1. InboxLost => InboxLost'
  BY DEF InboxLost, Remembers
<1>2. CASE pc' \notin {"decide", "write"}
  BY <1>1, <1>2 DEF Quarantines, InFlight, BlockedOnly
<1>3. CASE UNCHANGED <<pc, cur, verdict, at>>
  BY <1>1, <1>3 DEF Quarantines, InFlight, BlockedOnly
<1> QED BY <1>2, <1>3

LEMMA QuarantineAdmit ==
  ASSUME TypeOK, TypeOK', Audited, Filed, Quarantines, Remembers, Admits
  PROVE  Quarantines'
<1>1. /\ UNCHANGED <<audit, quarantined>>
      /\ pc' = "down" \/ (pc' = "decide" /\ cur' = cur)
      /\ cur \in Artifacts /\ inbox[Key(cur)] = "none" /\ Key(cur) \in Keys
  BY MetaFacts DEF Admits, sideFiles, TypeOK
<1>2. \A a \in Artifacts : Key(a) \in Keys
  BY MetaFacts
<1>3. InboxLost => InboxLost'
  BY DEF InboxLost, Remembers
<1>4. InboxLost' \/ \A k \in Keys :
        inbox'[k] = inbox[k] \/ (k = Key(cur) /\ inbox'[k] = "admitted")
  BY <1>1, InboxWithBy DEF Admits, InboxTakes, InboxCutOff, InboxLost
<1>5. \A a \in Artifacts : BlockedOnly(a) /\ inbox'[Key(a)] = "committed" =>
        Key(a) \in quarantined' \/ InboxLost'
  BY <1>1, <1>2, <1>3, <1>4 DEF Quarantines
<1>6. \A a \in Artifacts : BlockedOnly(a) /\ Key(a) = Key(cur) => InboxLost
  BY <1>1, BlockedHasFields DEF Audited
<1>7. InFlight' => cur' = cur
  BY <1>1 DEF InFlight
<1> QED BY <1>1, <1>3, <1>5, <1>6, <1>7 DEF Quarantines, BlockedOnly

LEMMA QuarantineWrite ==
  ASSUME TypeOK, TypeOK', Keyed, Quarantines, Remembers,
         quarantined \subseteq quarantined', FileWrite
  PROVE  Quarantines'
<1>1. PICK w : Writes(w) \/ Turn(w)
  BY FileWriteMoves
<1>2. /\ pc = "write" /\ cur \in Artifacts /\ verdict \in Verdicts
      /\ at \in 1..Len(Plan[verdict]) /\ Plan[verdict][at] = w /\ at \in Nat
      /\ \/ pc' \in {"down", "scan"}
         \/ pc' = "write" /\ cur' = cur /\ verdict' = verdict /\ at' = at + 1
  BY <1>1, WriteMoves
<1>3. Key(cur) \in Keys /\ DeadKey(cur) \in Keys
  BY <1>2, MetaFacts
<1>5. InboxLost => InboxLost'
  BY DEF InboxLost, Remembers
<1>6. pc' = "write" /\ verdict' = "blocked" /\ at' >= 6 => Key(cur') \in quarantined'
  <2>1. SUFFICES ASSUME pc' = "write", verdict' = "blocked", at' >= 6
                 PROVE  Key(cur') \in quarantined'
    OBVIOUS
  <2>2. cur' = cur /\ verdict = "blocked" /\ at >= 5
    BY <1>2, <2>1
  <2>3. CASE at = 5
    <3>1. WriteQuarantine
      BY <1>2, <2>2, <2>3, QuarantineOrder, WriteByName
    <3> QED BY <2>2, <3>1 DEF WriteQuarantine
  <2>4. CASE at # 5
    BY <1>2, <2>2, <2>4 DEF Quarantines
  <2> QED BY <2>3, <2>4
<1>8. InFlight' => InFlight /\ cur' = cur /\ verdict' = verdict
  BY <1>2 DEF InFlight
<1>9. \A a \in Artifacts : BlockedOnly(a)' =>
        BlockedOnly(a) \/ (WriteAudit /\ a = cur /\ verdict = "blocked")
  <2>1. CASE ~WriteAudit
    BY <2>1, AuditUntouched DEF BlockedOnly
  <2>2. CASE WriteAudit
    <3>1. Append(audit[cur], verdict) = <<"blocked">> => verdict = "blocked"
      <4>1. Append(audit[cur], verdict)[Len(audit[cur]) + 1] = verdict
        BY <2>2, AuditRow
      <4>2. Len(Append(audit[cur], verdict)) = Len(audit[cur]) + 1
        BY <2>2, AuditRow
      <4> QED BY <4>1, <4>2
    <3> QED BY <2>2, <3>1, AuditRow DEF BlockedOnly
  <2> QED BY <2>1, <2>2
<1>11. \A a \in Artifacts : InFlight' /\ BlockedOnly(a)' /\ Key(a) = Key(cur') =>
         InboxLost' \/ (pc' = "write" /\ verdict' = "blocked" /\ a = cur')
  BY <1>2, <1>5, <1>8, <1>9 DEF Quarantines, InFlight
<1>12. ASSUME NEW a \in Artifacts, BlockedOnly(a)', inbox'[Key(a)] = "committed",
              ~InboxLost'
       PROVE  Key(a) \in quarantined'
  <2>0. ~InboxCutOff /\ ~InboxLost /\ Key(a) \in Keys
    BY <1>5, <1>12, MetaFacts DEF InboxCutOff, InboxLost
  <2>2. CASE Settles
    <3>1. ~WriteAudit
      BY <2>2 DEF Settles, Turn, WriteAudit, Writes
    <3>2. BlockedOnly(a)
      BY <1>9, <1>12, <3>1
    <3>3. CASE Key(a) = Key(cur)
      <4>1. InFlight /\ at = SettleAt[verdict]
        BY <2>2, SettleAtPlace DEF InFlight
      <4>2. verdict = "blocked" /\ at = 6
        BY <2>0, <3>2, <3>3, <4>1 DEF Quarantines, SettleAt
      <4> QED BY <1>2, <3>3, <4>2 DEF Quarantines
    <3>4. CASE Key(a) # Key(cur)
      <4>1. inbox'[Key(a)] = inbox[Key(a)]
        BY <1>3, <2>0, <2>2, <3>4, InboxWithBy DEF Settles, InboxTakes
      <4> QED BY <1>12, <2>0, <3>2, <4>1 DEF Quarantines
    <3> QED BY <3>3, <3>4
  <2>3. CASE ~Settles
    <3>1. inbox[Key(a)] = "committed"
      <4>1. CASE Buries
        BY <1>3, <1>12, <2>0, <4>1, InboxWithBy DEF Buries, InboxTakes
      <4>2. CASE ~Buries
        BY <1>12, <2>3, <4>2, OtherWrites
      <4> QED BY <4>1, <4>2
    <3>2. CASE BlockedOnly(a)
      BY <2>0, <3>1, <3>2 DEF Quarantines
    <3>3. CASE WriteAudit /\ a = cur /\ verdict = "blocked"
      <4>1. at = 2
        BY <1>2, <3>3, AuditOrder DEF AuditAt, WriteAudit, Writes
      <4>2. BeforeSettle
        BY <1>2, <3>3, <4>1 DEF BeforeSettle, SettleAt
      <4> QED BY <3>1, <3>3, <4>2 DEF Keyed
    <3> QED BY <1>9, <1>12, <3>2, <3>3
  <2> QED BY <2>2, <2>3
<1> QED BY <1>6, <1>11, <1>12 DEF Quarantines

LEMMA QuarantinesStep ==
  ASSUME TypeOK, TypeOK', Keyed, Audited, Filed, Quarantines, [Next]_vars
  PROVE  Quarantines'
<1>0. Remembers /\ quarantined \subseteq quarantined'
  BY Forward, QuarantineGrows
<1>1. CASE Still \/ Rests \/ \E a \in Artifacts : Take(a)
  <2>1. /\ UNCHANGED <<audit, inbox>>
        /\ pc' \notin {"decide", "write"} \/ UNCHANGED <<pc, cur, verdict, at>>
    BY <1>1 DEF Still, Rests, Take, ledgers, tables
  <2> QED BY <1>0, <2>1, QuarantineFrame
<1>2. CASE DeadLetter
  <2>1. /\ UNCHANGED <<audit, inbox, lost, quarantined>>
        /\ pc' = "write" /\ verdict' = "dead_lettered" /\ at' = 1
    BY <1>2 DEF DeadLetter, ledgers, tables, tails, sideFiles
  <2> QED BY <2>1 DEF Quarantines, InFlight, BlockedOnly, InboxLost
<1>3. CASE Admits
  BY <1>0, <1>3, QuarantineAdmit
<1>4. CASE Decides
  <2>1. /\ UNCHANGED <<audit, inbox, lost, quarantined, cur>>
        /\ pc = "decide" /\ pc' = "write" /\ verdict' # "dead_lettered" /\ at' = 1
    BY <1>4, VerdictOfType DEF Decides, Decide, ledgers, tables, tails, sideFiles
  <2>3. \A a \in Artifacts : BlockedOnly(a) /\ Key(a) = Key(cur) => InboxLost
    BY <2>1 DEF Quarantines, InFlight
  <2> QED BY <2>1, <2>3 DEF Quarantines, InFlight, BlockedOnly, InboxLost
<1>5. CASE FileWrite
  BY <1>0, <1>5, QuarantineWrite
<1> QED BY <1>1, <1>2, <1>3, <1>4, <1>5, StepKinds

----------------------------------------------------------------------------
(* Own before write.                                                       *)

OwnedIn(table, gone, h) ==
  \/ "inbox" \in gone
  \/ \E a \in Artifacts : Hash(a) = h /\ table[Key(a)] \in {"admitted", "committed"}
Owned(h)     == OwnedIn(inbox, lost, h)
OwnedNext(h) == OwnedIn(inbox', lost', h)

LEMMA OwnedStays ==
  ASSUME TypeOK, Keyed, [Next]_vars, NEW h, Owned(h)
  PROVE  OwnedNext(h)
<1>1. \A a \in Artifacts : Key(a) \in Keys
  BY MetaFacts
<1>2. lost \subseteq lost' /\ ((\A k \in Keys : Onward(k)) \/ "inbox" \in lost')
  BY Forward DEF Remembers, InboxCutOff
<1> QED BY <1>1, <1>2 DEF Onward, Owned, OwnedNext, OwnedIn

\* A dead letter writes no ledger of decisions.
LEMMA LedgerVerdicts ==
  ASSUME TypeOK, NEW w, Writes(w) \/ Turn(w), w \notin {"dead_file", "dead_row", "audit"}
  PROVE  InFlight /\ cur \in Artifacts
<1>1. /\ pc = "write" /\ cur \in Artifacts /\ verdict \in Verdicts
      /\ at \in 1..Len(Plan[verdict]) /\ Plan[verdict][at] = w
  BY WriteMoves
<1>2. verdict # "dead_lettered"
  BY <1>1, VerdictSet, PlanLength DEF DeadLetterWrites
<1> QED BY <1>1, <1>2 DEF InFlight

LEMMA OwnedStep ==
  ASSUME TypeOK, Tailed, Keyed, OwnBeforeWrite, [Next]_vars
  PROVE  OwnBeforeWrite'
<1> USE DEF ledgers, sideFiles, deadLetters, tables, tails
<1>2. /\ \A r \in processed : OwnedNext(r.hash)
      /\ \A i \in DOMAIN jsignals : OwnedNext(jsignals[i].hash)
      /\ \A h \in monitors \cup candidates : OwnedNext(h)
  BY OwnedStays DEF OwnBeforeWrite, Owned, OwnedNext, OwnedIn
<1>3. CASE UNCHANGED <<processed, jsignals, monitors, candidates>>
  BY <1>2, <1>3 DEF OwnBeforeWrite, Owned, OwnedNext, OwnedIn
<1>4. ASSUME NEW w, Writes(w) \/ Turn(w), w \notin {"dead_file", "dead_row", "audit"}
      PROVE  OwnedNext(Hash(cur))
  <2>1. Owned(Hash(cur))
    BY <1>4, LedgerVerdicts DEF Keyed, Owned, OwnedIn, InboxLost
  <2> QED BY <2>1, OwnedStays
<1>s. CASE JournalCutOff /\ UNCHANGED <<monitors, candidates>>
  <2>1. processed' \subseteq processed
    BY <1>s DEF JournalCutOff, Tailed
  <2>2. \A i \in DOMAIN jsignals' : i \in DOMAIN jsignals /\ jsignals[i] = jsignals'[i]
    BY <1>s DEF JournalCutOff, Tailed, PartOf
  <2> QED BY <1>2, <1>s, <2>1, <2>2 DEF OwnBeforeWrite, Owned, OwnedNext, OwnedIn
<1>5. CASE Journals
  <2>1. OwnedNext(Hash(cur)) /\ UNCHANGED <<monitors, candidates>>
    BY <1>4, <1>5 DEF Journals, Turn
  <2>2. CASE processed' = processed \cup {ProcessedRow} /\ jsignals' = jsignals
    <3>1. ProcessedRow.hash = Hash(cur)
      BY DEF ProcessedRow
    <3>2. \A r \in processed' : OwnedNext(r.hash)
      BY <1>2, <2>1, <2>2, <3>1
    <3> QED BY <1>2, <2>1, <2>2, <3>2 DEF OwnBeforeWrite, Owned, OwnedNext, OwnedIn
  <2> QED BY <1>5, <1>s, <2>1, <2>2 DEF Journals
<1>6. CASE Counts
  <2>1. OwnedNext(Hash(cur)) /\ UNCHANGED <<monitors, candidates>>
    BY <1>4, <1>6 DEF Counts, Turn
  <2>2. CASE jsignals' = Append(jsignals, Row(cur)) /\ processed' = processed
    <3>1. jsignals \in Seq(FeedRow) /\ Row(cur) \in FeedRow /\ Row(cur).hash = Hash(cur)
      BY <1>6, LedgerVerdicts, RowType, TableTypes DEF Counts
    <3>2. \A i \in DOMAIN jsignals' :
            (i \in DOMAIN jsignals /\ jsignals'[i] = jsignals[i]) \/ jsignals'[i] = Row(cur)
      BY <2>2, <3>1, Appended
    <3>3. \A i \in DOMAIN jsignals' : OwnedNext(jsignals'[i].hash)
      BY <1>2, <2>1, <3>1, <3>2
    <3> QED BY <1>2, <2>1, <2>2, <3>3 DEF OwnBeforeWrite, Owned, OwnedNext, OwnedIn
  <2> QED BY <1>6, <1>s, <2>1, <2>2 DEF Counts
<1>7. CASE WriteMonitor \/ WriteCandidate
  <2>1. OwnedNext(Hash(cur))
    BY <1>4, <1>7 DEF WriteMonitor, WriteCandidate
  <2>2. /\ \A h \in monitors' \cup candidates' : h \in monitors \cup candidates \/ h = Hash(cur)
        /\ UNCHANGED <<processed, jsignals>>
    BY <1>7 DEF WriteMonitor, WriteCandidate
  <2>3. \A h \in monitors' \cup candidates' : OwnedNext(h)
    BY <1>2, <2>1, <2>2
  <2> QED BY <1>2, <2>2, <2>3 DEF OwnBeforeWrite, Owned, OwnedNext, OwnedIn
<1>8. CASE WriteLatest \/ WriteAudit \/ Announce \/ WriteQuarantine
  BY <1>3, <1>8 DEF WriteLatest, WriteAudit, Announce, WriteQuarantine
<1>9. CASE Settles \/ Buries \/ Stores
  BY <1>3, <1>9 DEF Settles, Buries, Stores, InboxTakes, Turn
<1>10. CASE \E tick \in BOOLEAN : WriteDeadFile(tick)
  BY <1>3, <1>10 DEF WriteDeadFile
<1>11. CASE Still \/ Rests \/ (\E a \in Artifacts : Take(a)) \/ DeadLetter
  BY <1>3, <1>11 DEF Still, Rests, Take, DeadLetter
<1>12. CASE Admits \/ Decides
  BY <1>3, <1>12 DEF Admits, InboxTakes, Decides, Decide
<1> QED BY <1>5, <1>6, <1>7, <1>8, <1>9, <1>10, <1>11, <1>12, StepKinds
       DEF FileWrite, Notes

----------------------------------------------------------------------------
(* Nothing is told of a signal before the feed has it.                     *)

InFeedOf(rows, gone, h) == "feed" \in gone \/ \E i \in DOMAIN rows : rows[i].hash = h
InFeed(h)     == InFeedOf(store, lost, h)
InFeedNext(h) == InFeedOf(store', lost', h)

FeedFirst ==
  /\ NothingAheadOfFeed
  /\ pc = "write" /\ verdict = "emitted" /\ at >= 5 => InFeed(Hash(cur))

\* Only an emission tells of a signal, and it does so past the feed.
LEMMA TellOrder ==
  ASSUME NEW v \in Verdicts, NEW i \in 1..Len(Plan[v])
  PROVE  Plan[v][i] \in {"latest", "announce"} => v = "emitted" /\ i >= 5
<1>1. CASE v = "emitted"
  BY <1>1, VerdictSet, PlanLength DEF EmittedWrites
<1>2. CASE v = "dead_lettered"
  BY <1>2, VerdictSet, PlanLength DEF DeadLetterWrites
<1>3. CASE v = "blocked"
  BY <1>3, VerdictSet, PlanLength DEF BlockedWrites
<1>4. CASE v \in {"future", "skip", "no_reference"}
  BY <1>4, VerdictSet, PlanLength
<1>5. CASE v \in {"unroutable", "dry_run", "invalid"}
  BY <1>5, VerdictSet, PlanLength
<1>6. QED BY <1>1, <1>2, <1>3, <1>4, <1>5, VerdictSet

\* The feed only grows, or has lost a row; what is stored is in it.
LEMMA FeedGrows ==
  ASSUME TypeOK, [Next]_vars
  PROVE  /\ \A h : InFeed(h) => InFeedNext(h)
         /\ Stores => InFeedNext(Hash(cur))
<1>0. lost \subseteq lost'
  BY LostGrows
<1>1. CASE UNCHANGED store /\ ~Stores
  BY <1>0, <1>1 DEF InFeed, InFeedNext, InFeedOf
<1>2. CASE Stores
  <2>1. CASE FeedCutOff
    BY <2>1 DEF FeedCutOff, InFeedNext, InFeedOf
  <2>2. CASE store' = Append(store, Row(cur))
    <3>1. cur \in Artifacts
      BY <1>2, WriteMoves DEF Stores
    <3>2. store \in Seq(FeedRow) /\ Row(cur) \in FeedRow /\ Row(cur).hash = Hash(cur)
      BY <3>1, RowType, TableTypes
    <3>3. /\ \A i \in DOMAIN store : i \in DOMAIN store' /\ store'[i] = store[i]
          /\ Len(store) + 1 \in DOMAIN store' /\ store'[Len(store) + 1] = Row(cur)
      BY <2>2, <3>2, Appended
    <3> QED BY <1>0, <3>2, <3>3 DEF InFeed, InFeedNext, InFeedOf
  <2> QED BY <1>2, <2>1, <2>2 DEF Stores
<1>3. store' # store => Stores
  BY StoreMoves
<1> QED BY <1>1, <1>2, <1>3

LEMMA FeedFirstStep ==
  ASSUME TypeOK, TypeOK', FeedFirst, [Next]_vars
  PROVE  FeedFirst'
<1> USE DEF ledgers, sideFiles, deadLetters, tables, tails
<1>1. /\ \A t \in Tickers : latest[t] # None => InFeedNext(latest[t])
      /\ \A h \in announced : InFeedNext(h)
      /\ \A a \in Artifacts : \A i \in DOMAIN audit[a] :
           audit[a][i] = "emitted" => InFeedNext(Hash(a))
  BY FeedGrows DEF FeedFirst, NothingAheadOfFeed, InFeed, InFeedNext, InFeedOf
<1>2. ASSUME UNCHANGED <<latest, announced, audit>>
      PROVE  NothingAheadOfFeed'
  BY <1>1, <1>2 DEF NothingAheadOfFeed, InFeed, InFeedNext, InFeedOf
<1>3. CASE FileWrite
  <2>1. PICK w : Writes(w) \/ Turn(w)
    BY <1>3, FileWriteMoves
  <2>2. /\ pc = "write" /\ cur \in Artifacts /\ verdict \in Verdicts
        /\ at \in 1..Len(Plan[verdict]) /\ Plan[verdict][at] = w /\ at \in Nat
        /\ \/ pc' \in {"down", "scan"}
           \/ pc' = "write" /\ cur' = cur /\ verdict' = verdict /\ at' = at + 1
    BY <2>1, WriteMoves
  <2>3. verdict = "emitted" /\ at >= 5 => InFeedNext(Hash(cur))
    BY <2>2, FeedGrows DEF FeedFirst
  <2>4. pc' = "write" /\ verdict' = "emitted" /\ at' >= 5 => InFeedNext(Hash(cur'))
    <3>1. SUFFICES ASSUME pc' = "write", verdict' = "emitted", at' >= 5, at = 4
                   PROVE  InFeedNext(Hash(cur'))
      BY <2>2, <2>3
    <3>2. Stores /\ cur' = cur
      BY <1>3, <2>2, <3>1, EmissionOrder, WriteByName
    <3> QED BY <3>2, FeedGrows
  <2>5. NothingAheadOfFeed'
    <3>1. CASE WriteLatest
      <4>1. InFeedNext(Hash(cur))
        BY <2>2, <2>3, <3>1, TellOrder DEF WriteLatest, Writes
      <4>2. UNCHANGED <<announced, audit>>
        BY <3>1 DEF WriteLatest
      <4>3. \A t \in Tickers : latest'[t] = latest[t] \/ latest'[t] = Hash(cur)
        BY <3>1 DEF WriteLatest, TypeOK
      <4> QED BY <1>1, <4>1, <4>2, <4>3
             DEF NothingAheadOfFeed, InFeed, InFeedNext, InFeedOf
    <3>2. CASE Announce
      <4>1. InFeedNext(Hash(cur))
        BY <2>2, <2>3, <3>2, TellOrder DEF Announce, Writes
      <4>2. UNCHANGED <<latest, audit>> /\ announced' \subseteq announced \cup {Hash(cur)}
        BY <3>2 DEF Announce
      <4> QED BY <1>1, <4>1, <4>2 DEF NothingAheadOfFeed, InFeed, InFeedNext, InFeedOf
    <3>3. CASE WriteAudit
      <4>1. UNCHANGED <<latest, announced>>
        BY <3>3 DEF WriteAudit
      <4>3. verdict = "emitted" => InFeedNext(Hash(cur))
        BY <2>2, <2>3, <3>3, AuditOrder DEF AuditAt, WriteAudit, Writes
      <4>4. ASSUME NEW a \in Artifacts, NEW i \in DOMAIN audit'[a], audit'[a][i] = "emitted"
            PROVE  InFeedNext(Hash(a))
        <5>1. CASE i \in DOMAIN audit[a] /\ audit'[a][i] = audit[a][i]
          BY <1>1, <4>4, <5>1
        <5>2. CASE a = cur /\ audit'[a][i] = verdict
          BY <4>3, <4>4, <5>2
        <5>3. CASE a = cur /\ audit'[cur] = Append(audit[cur], verdict)
          <6>1. audit[cur] \in Seq(Verdicts) /\ verdict \in Verdicts
            BY <3>3, AuditRow
          <6>2. (i \in DOMAIN audit[a] /\ audit'[a][i] = audit[a][i]) \/ audit'[a][i] = verdict
            BY <4>4, <5>3, <6>1
          <6> QED BY <5>1, <5>2, <5>3, <6>2
        <5> QED BY <3>3, <4>4, <5>1, <5>3, AuditRow
      <4> QED BY <1>1, <4>1, <4>4 DEF NothingAheadOfFeed, InFeed, InFeedNext, InFeedOf
    <3>4. CASE Settles \/ Buries \/ Journals \/ Counts \/ Stores
      BY <1>2, <3>4 DEF Settles, Buries, Journals, Counts, Stores, Turn
    <3>5. CASE WriteMonitor \/ WriteCandidate \/ WriteQuarantine
      BY <1>2, <3>5 DEF WriteMonitor, WriteCandidate, WriteQuarantine
    <3>6. CASE \E tick \in BOOLEAN : WriteDeadFile(tick)
      BY <1>2, <3>6 DEF WriteDeadFile
    <3> QED BY <1>3, <3>1, <3>2, <3>3, <3>4, <3>5, <3>6 DEF FileWrite, Notes
  <2> QED BY <2>4, <2>5 DEF FeedFirst, InFeed, InFeedNext, InFeedOf
<1>4. CASE Still
  BY <1>2, <1>4, FeedGrows DEF Still, FeedFirst, InFeed, InFeedNext, InFeedOf
<1>5. CASE Rests \/ (\E a \in Artifacts : Take(a)) \/ DeadLetter \/ Admits
  BY <1>2, <1>5 DEF Rests, Take, DeadLetter, Admits, FeedFirst
<1>6. CASE Decides
  BY <1>2, <1>6 DEF Decides, Decide, FeedFirst
<1> QED BY <1>3, <1>4, <1>5, <1>6, StepKinds

----------------------------------------------------------------------------
(* The mandate, and the switch, of the signal that is stored.              *)

\* The loaded mandate is the file's until the operator edits it, and what is
\* about to be stored was decided under the loaded one.
Mandated ==
  /\ pc # "down" /\ ~edited => mandate = mfile
  /\ pc = "write" /\ verdict = "emitted" /\ at <= 4 =>
       Ticker(cur) \in mandate \/ Meta[cur].action = "EXIT"

\* Past the switch: what may still reach the feed without reading it again.
Bound == \/ pc \in {"admit", "decide"}
         \/ pc = "write" /\ verdict = "emitted" /\ at <= 4

\* One artifact at a time is past the switch, and it is stored once.
Passed ==
  /\ late <= 1
  /\ halted /\ late >= 1 => ~Bound

LEMMA EmittedUnderMandate ==
  ASSUME TypeOK, NEW refOk, NEW held, NEW others, Decide(refOk, held, others),
         verdict' = "emitted"
  PROVE  Ticker(cur) \in mandate \/ Meta[cur].action = "EXIT"
BY DEF Decide, VerdictOf, GatePasses, SymbolAllowed

\* A write that does not end the process keeps the switch and both copies of the
\* mandate.
LEMMA WriteFrame ==
  ASSUME NEW w, Writes(w)
  PROVE  UNCHANGED <<mfile, mandate, halted, edited, crashes>>
BY DEF Writes, envVars, boundVars

\* The writes of a running daemon: each has its turn, and one counts as late.
RunningWrite == \/ WriteJournal \/ WriteSignalRow \/ WriteStore \/ WriteDeadRow
                \/ Settle \/ Notes

LEMMA RunningWrites ==
  ASSUME RunningWrite
  PROVE  /\ \E w : Writes(w)
         /\ ~WriteStore => late' = late
<1>1. CASE WriteJournal \/ WriteSignalRow \/ WriteStore \/ WriteDeadRow \/ Settle
  BY <1>1 DEF WriteJournal, WriteSignalRow, WriteStore, WriteDeadRow, Settle
<1>2. CASE WriteLatest \/ WriteAudit \/ Announce \/ WriteMonitor
  BY <1>2 DEF WriteLatest, WriteAudit, Announce, WriteMonitor, WriteStore, Writes
<1>3. CASE WriteCandidate \/ WriteQuarantine \/ \E tick \in BOOLEAN : WriteDeadFile(tick)
  BY <1>3 DEF WriteCandidate, WriteQuarantine, WriteDeadFile, WriteStore, Writes
<1> QED BY <1>1, <1>2, <1>3 DEF RunningWrite, Notes

LEMMA MandatedStep ==
  ASSUME TypeOK, TypeOK', Mandated, [Next]_vars
  PROVE  Mandated'
<1> USE DEF vars, envVars, tables, tails, ledgers, deadLetters, sideFiles, locals,
            procVars, boundVars, historyVars
<1>1. CASE Poll \/ PollFails \/ EndOfScan \/ Dedupe \/ SkipInvalid
  BY <1>1 DEF Poll, PollFails, Down, EndOfScan, Dedupe, SkipInvalid, Mandated
<1>2. CASE \E a \in Artifacts : Suppress(a) \/ Take(a)
  BY <1>2 DEF Suppress, Take, Mandated
<1>3. CASE DeadLetter \/ Admit
  BY <1>3 DEF DeadLetter, Admit, Mandated
<1>4. CASE Decides
  BY <1>4, EmittedUnderMandate DEF Decides, Decide, Mandated
<1>5. CASE RunningWrite
  <2>1. PICK w : Writes(w)
    BY <1>5, RunningWrites
  <2>2. /\ pc = "write" /\ at \in Nat
        /\ \/ pc' \in {"down", "scan"}
           \/ pc' = "write" /\ cur' = cur /\ verdict' = verdict /\ at' = at + 1
    BY <2>1, WriteMoves
  <2>3. UNCHANGED <<mfile, mandate, edited>>
    BY <2>1, WriteFrame
  <2> QED BY <2>2, <2>3 DEF Mandated
<1>6. CASE Daemon
  BY <1>1, <1>2, <1>3, <1>4, <1>5, <1>6 DEF Daemon, Decides, RunningWrite, Notes
<1>7. CASE World
  BY <1>7 DEF World, Drop, Poison, NextDay, MandateAdd, MandateRemove, MandateTorn,
     MandateRepaired, EditMandate, Halt, Resume, Mandated
<1>8. CASE (\E mode \in BOOLEAN : Start(mode)) \/ Stop \/ Crash
  BY <1>8 DEF Start, Stop, Crash, Down, NoLocals, Mandated
<1>9. CASE UNCHANGED vars
  BY <1>9 DEF Mandated
<1>10. QED BY <1>6, <1>7, <1>8, <1>9 DEF Next

\* The row a halt finds on its way, and the crash that leaves it without its
\* newline: either way the artifact is past the feed.
LEMMA PassedCount ==
  ASSUME TypeOK, Passed, [Next]_vars, CountLate, UNCHANGED halted,
         store' # store => ~Bound', Bound' => Bound
  PROVE  Passed'
<1>1. late \in Nat
  BY DEF TypeOK
<1>2. store' # store => Bound
  BY StoreMoves DEF Bound
<1>3. store' = store => late' = late
  BY DEF CountLate
<1>4. CASE store' = store
  BY <1>1, <1>3, <1>4 DEF Passed
<1>5. CASE store' # store
  BY <1>1, <1>2, <1>5 DEF Passed, CountLate
<1> QED BY <1>4, <1>5

LEMMA PassedStep ==
  ASSUME TypeOK, TypeOK', Passed, [Next]_vars
  PROVE  Passed'
<1> USE DEF vars, envVars, tables, tails, ledgers, deadLetters, sideFiles, locals,
            procVars, boundVars, historyVars
<1>1. CASE Poll \/ PollFails \/ EndOfScan \/ Dedupe \/ SkipInvalid
  BY <1>1 DEF Poll, PollFails, Down, EndOfScan, Dedupe, SkipInvalid, Passed, Bound
<1>2. CASE \E a \in Artifacts : Suppress(a) \/ Take(a)
  BY <1>2 DEF Suppress, Take, Suppressed, Passed, Bound
<1>3. CASE DeadLetter \/ Admit
  BY <1>3 DEF DeadLetter, Admit, Passed, Bound
<1>4. CASE Decides
  BY <1>4 DEF Decides, Decide, Passed, Bound
<1>5. CASE RunningWrite
  <2>1. PICK w : Writes(w)
    BY <1>5, RunningWrites
  <2>2. /\ pc = "write" /\ at \in Nat
        /\ \/ pc' \in {"down", "scan"}
           \/ pc' = "write" /\ cur' = cur /\ verdict' = verdict /\ at' = at + 1
    BY <2>1, WriteMoves
  <2>3. UNCHANGED halted
    BY <2>1, WriteFrame
  <2>4. Bound' => Bound
    BY <2>2 DEF Bound
  <2>5. CASE ~WriteStore
    BY <1>5, <2>3, <2>4, <2>5, RunningWrites DEF Passed
  <2>6. CASE WriteStore
    <3>1. at = 4
      <4>1. /\ verdict \in Verdicts /\ at \in 1..Len(Plan[verdict])
            /\ Plan[verdict][at] = "store"
        BY <2>6, WriteMoves DEF WriteStore
      <4> QED BY <4>1, EmissionOrder
    <3>2. ~Bound'
      BY <2>2, <3>1 DEF Bound
    <3>3. CountLate
      BY <2>6 DEF WriteStore
    <3> HIDE DEF vars
    <3> QED BY <2>3, <2>4, <3>2, <3>3, PassedCount
  <2> QED BY <2>5, <2>6
<1>6. CASE Daemon
  BY <1>1, <1>2, <1>3, <1>4, <1>5, <1>6 DEF Daemon, Decides, RunningWrite, Notes
<1>7. CASE Halt
  BY <1>7 DEF Halt, Passed
<1>8. CASE World /\ ~Halt
  BY <1>8 DEF World, Drop, Poison, NextDay, MandateAdd, MandateRemove, MandateTorn,
     MandateRepaired, EditMandate, Resume, Passed, Bound
<1>9. CASE (\E mode \in BOOLEAN : Start(mode)) \/ Stop
  BY <1>9 DEF Start, Stop, Down, NoLocals, Passed, Bound
<1>10. CASE Crash
  <2>1. pc' = "down" /\ UNCHANGED halted /\ CountLate
    BY <1>10 DEF Crash, Down
  <2>2. ~Bound'
    BY <2>1 DEF Bound
  <2> HIDE DEF vars
  <2> QED BY <2>1, <2>2, PassedCount
<1>11. CASE UNCHANGED vars
  BY <1>11 DEF Passed, Bound
<1>12. QED BY <1>6, <1>7, <1>8, <1>9, <1>10, <1>11 DEF Next

----------------------------------------------------------------------------
(* What stays admitted.  A key is held while its artifact is in hand, unless *)
(* the parser refused it before: then it is given up as it was found.  The   *)
(* loose keys are the ones nobody holds and no write will close, as the      *)
(* table reads or as it will read without its unterminated line.             *)

Held     == InFlight /\ ~(pc = "decide" /\ RefusedBefore(cur))
HeldKeys == IF Held THEN {Key(cur)} ELSE {}

\* Unrecorded, with a refusal in the journal: the next admission is given up.
LooseIn(k, s) ==
  \/ s = "admitted"
  \/ s = "none" /\ \E a \in Artifacts : Key(a) = k /\ RefusedBefore(a)
Open(k) == LooseIn(k, inbox[k]) \/ LooseIn(k, terminated.inbox[k])
Loose   == {k \in Keys : Open(k)} \ HeldKeys

Accounted ==
  /\ IsFiniteSet(Loose) /\ Cardinality(Loose) <= crashes
  /\ InFlight /\ pc = "write" /\ at > SettleAt[verdict] => inbox[Key(cur)] = "committed"

\* A refusal in the journal is of the artifact in hand or was there before.
LEMMA RefusedByStep ==
  ASSUME TypeOK, Tailed, [Next]_vars, NEW a \in Artifacts, RefusedBefore(a)',
         ~RefusedBefore(a)
  PROVE  /\ Key(a) = Key(cur) /\ InFlight /\ cur \in Artifacts
<1> USE DEF ledgers, tables
<1>1. CASE Journals
  <2>1. \A r \in processed' : r \in processed \/ r.hash = Hash(cur)
    BY <1>1 DEF Journals, JournalCutOff, Tailed, ProcessedRow
  <2>2. Hash(a) = Hash(cur)
    BY <2>1 DEF RefusedBefore
  <2>3. /\ pc = "write" /\ verdict \in Verdicts /\ at \in 1..Len(Plan[verdict])
        /\ Plan[verdict][at] = "journal" /\ cur \in Artifacts
    BY <1>1, WriteMoves DEF Journals
  <2> QED BY <2>2, <2>3, HashAssumption, JournalledVerdicts DEF Hash, Key, InFlight
<1>2. CASE processed' \subseteq processed
  BY <1>2 DEF RefusedBefore
<1>3. CASE Counts
  BY <1>2, <1>3 DEF Counts, JournalCutOff, Tailed
<1>4. CASE Settles \/ Buries \/ Stores \/ Notes
  BY <1>2, <1>4, NotesTables DEF Settles, Buries, InboxTakes, Stores
<1>5. CASE Still \/ Rests \/ (\E b \in Artifacts : Take(b)) \/ DeadLetter
  BY <1>2, <1>5 DEF Still, Rests, Take, DeadLetter
<1>6. CASE Admits \/ Decides
  BY <1>2, <1>6 DEF Admits, InboxTakes, Decides, Decide
<1> QED BY <1>1, <1>3, <1>4, <1>5, <1>6, StepKinds DEF FileWrite

\* Only the artifact in hand opens a key, and only under its own.
LEMMA OpensOwnKey ==
  ASSUME TypeOK, TypeOK', Tailed, Tailed', Keyed, [Next]_vars, NEW k \in Keys,
         Open(k)', ~Open(k)
  PROVE  /\ cur \in Artifacts /\ k = Key(cur) /\ (Admits \/ (InFlight /\ FileWrite))
<1>1. terminated'.inbox = inbox' \/ terminated'.inbox = terminated.inbox
  BY TailMoves DEF Tailed
<1>2. PICK s : /\ s \in {inbox'[k], terminated.inbox[k]}
               /\ LooseIn(k, s)'
  BY <1>1 DEF Open
<1>3. CASE LooseIn(k, s)
  <2>1. s = inbox'[k] /\ inbox'[k] # inbox[k] /\ inbox'[k] # terminated.inbox[k]
    BY <1>2, <1>3 DEF Open
  <2>2. ~InboxCutOff
    BY <2>1 DEF InboxCutOff
  <2>3. s \in {"none", "admitted"}
    BY <1>3 DEF LooseIn
  <2>4. CASE Admits
    <3>1. cur \in Artifacts /\ Key(cur) \in Keys
      BY <2>4, MetaFacts DEF Admits, TypeOK
    <3> QED BY <2>1, <2>2, <2>4, <3>1, InboxWithBy DEF Admits, InboxTakes
  <2>5. CASE Settles
    BY <2>1, <2>2, <2>3, <2>5, SettleAtPlace, InboxWithBy DEF Settles, InboxTakes
  <2>6. CASE Buries
    BY <2>1, <2>2, <2>3, <2>6, DeadRowAtPlace, InboxWithBy DEF Buries, InboxTakes
  <2>7. CASE FileWrite /\ ~Buries /\ ~Settles
    BY <2>1, <2>7, OtherWrites
  <2>8. CASE Still \/ Rests \/ (\E b \in Artifacts : Take(b)) \/ DeadLetter \/ Decides
    BY <2>1, <2>8 DEF Still, Rests, Take, DeadLetter, Decides, Decide, ledgers, tables
  <2> QED BY <2>4, <2>5, <2>6, <2>7, <2>8, StepKinds
<1>4. CASE ~LooseIn(k, s)
  <2>1. PICK a \in Artifacts : Key(a) = k /\ RefusedBefore(a)' /\ ~RefusedBefore(a)
    BY <1>2, <1>4 DEF LooseIn
  <2>2. k = Key(cur) /\ InFlight /\ cur \in Artifacts
    BY <2>1, RefusedByStep
  <2>3. FileWrite
    <3>1. processed' # processed
      BY <2>1 DEF RefusedBefore
    <3>2. CASE Still \/ Rests \/ (\E b \in Artifacts : Take(b)) \/ DeadLetter
      BY <3>1, <3>2 DEF Still, Rests, Take, DeadLetter, ledgers, tables
    <3>3. CASE Admits \/ Decides
      BY <3>1, <3>3 DEF Admits, InboxTakes, Decides, Decide, ledgers, tables
    <3> QED BY <3>2, <3>3, StepKinds
  <2> QED BY <2>2, <2>3
<1> QED BY <1>3, <1>4

\* Only a crash lays an artifact down unfinished.
LEMMA Falls ==
  ASSUME [Next]_vars, ~Crash, pc \in {"admit", "decide", "write"}
  PROVE  pc' # "down"
<1> USE DEF vars, procVars, locals
<1>1. CASE Poll \/ PollFails \/ EndOfScan \/ Dedupe \/ DeadLetter \/ Admit \/ SkipInvalid
  BY <1>1 DEF Poll, PollFails, EndOfScan, Dedupe, DeadLetter, Admit, SkipInvalid
<1>2. CASE (\E a \in Artifacts : Suppress(a) \/ Take(a)) \/ Decides
  BY <1>2 DEF Suppress, Take, Decides, Decide
<1>3. CASE \E w : Writes(w)
  BY <1>3 DEF Writes
<1>4. CASE Daemon
  BY <1>1, <1>2, <1>3, <1>4 DEF Daemon, Decides, WriteJournal, WriteSignalRow,
     WriteStore, WriteDeadRow, Settle, WriteLatest, WriteAudit, Announce,
     WriteMonitor, WriteCandidate, WriteQuarantine, WriteDeadFile
<1>5. CASE World
  BY <1>5 DEF World, Drop, Poison, NextDay, MandateAdd, MandateRemove,
     MandateTorn, MandateRepaired, EditMandate, Halt, Resume
<1>6. CASE (\E mode \in BOOLEAN : Start(mode)) \/ Stop
  BY <1>6 DEF Start, Stop
<1> QED BY <1>4, <1>5, <1>6 DEF Next

LEMMA WhileDeciding ==
  ASSUME [Next]_vars, ~Crash, pc = "decide", ~RefusedBefore(cur)
  PROVE  Still \/ Decides
<1> USE DEF vars, envVars, tables, tails, ledgers, deadLetters, sideFiles, locals,
            procVars, boundVars, historyVars
<1>1. CASE Poll \/ PollFails \/ EndOfScan \/ Dedupe \/ DeadLetter \/ Admit \/ SkipInvalid
  BY <1>1 DEF Poll, PollFails, EndOfScan, Dedupe, DeadLetter, Admit, SkipInvalid
<1>2. CASE (\E a \in Artifacts : Suppress(a) \/ Take(a)) \/ Decides
  BY <1>2 DEF Suppress, Take
<1>3. CASE \E w : Writes(w)
  BY <1>3 DEF Writes
<1>4. CASE Daemon
  BY <1>1, <1>2, <1>3, <1>4 DEF Daemon, Decides, WriteJournal, WriteSignalRow,
     WriteStore, WriteDeadRow, Settle, WriteLatest, WriteAudit, Announce,
     WriteMonitor, WriteCandidate, WriteQuarantine, WriteDeadFile
<1>5. CASE NextDay
  BY <1>5 DEF NextDay, Still
<1>6. CASE World /\ ~NextDay
  BY <1>6 DEF World, Drop, Poison, MandateAdd, MandateRemove,
     MandateTorn, MandateRepaired, EditMandate, Halt, Resume, Still
<1>7. CASE (\E mode \in BOOLEAN : Start(mode)) \/ Stop
  BY <1>7 DEF Start, Stop
<1>8. CASE UNCHANGED vars
  BY <1>8 DEF Still
<1> QED BY <1>4, <1>5, <1>6, <1>7, <1>8 DEF Next

\* Every plan but a dead letter's settles.
LEMMA PlanSettles ==
  ASSUME NEW v \in Verdicts, v # "dead_lettered"
  PROVE  /\ SettleAt[v] \in 1..Len(Plan[v]) /\ SettleAt[v] \in Nat
         /\ Plan[v][SettleAt[v]] = "settle"
<1>1. SettleAt[v] \in 1..Len(Plan[v])
  <2>1. CASE v = "blocked"
    BY <2>1, PlanLength DEF SettleAt
  <2>2. CASE v = "emitted"
    BY <2>2, PlanLength DEF SettleAt
  <2>3. CASE v = "invalid"
    BY <2>3, PlanLength DEF SettleAt
  <2>4. CASE v = "dry_run"
    BY <2>4, PlanLength DEF SettleAt
  <2>5. CASE v = "future"
    BY <2>5, PlanLength DEF SettleAt
  <2>6. CASE v = "skip"
    BY <2>6, PlanLength DEF SettleAt
  <2>7. CASE v = "no_reference"
    BY <2>7, PlanLength DEF SettleAt
  <2>8. CASE v = "unroutable"
    BY <2>8, PlanLength DEF SettleAt
  <2> QED BY <2>1, <2>2, <2>3, <2>4, <2>5, <2>6, <2>7, <2>8, VerdictSet
<1>2. SettleAt[v] \in Nat
  BY <1>1
<1> QED BY <1>1, <1>2, SettleOrder

\* From its settlement on a key is committed.
LEMMA SettledWrite ==
  ASSUME TypeOK, TypeOK', Keyed, Accounted, [Next]_vars, FileWrite, InFlight,
         at >= SettleAt[verdict]
  PROVE  inbox'[Key(cur)] = "committed"
<1>1. PICK w : Writes(w) \/ Turn(w)
  BY FileWriteMoves
<1>2. /\ pc = "write" /\ cur \in Artifacts /\ verdict \in Verdicts /\ at \in Nat
      /\ at \in 1..Len(Plan[verdict]) /\ Key(cur) \in Keys
  BY <1>1, WriteMoves, MetaFacts
<1>3. SettleAt[verdict] \in Nat /\ verdict # "dead_lettered" /\ "inbox" \notin cut
  BY <1>2, PlanSettles DEF InFlight, Keyed
<1>4. CASE at = SettleAt[verdict]
  <2>1. Settles
    BY <1>2, <1>3, <1>4, PlanSettles, WriteByName
  <2>2. inbox' = InboxWith(Key(cur), "committed")
    BY <1>3, <2>1 DEF Settles, InboxTakes, InboxCutOff
  <2> QED BY <1>2, <2>2, InboxWithBy
<1>5. CASE at > SettleAt[verdict]
  <2>1. inbox[Key(cur)] = "committed"
    BY <1>2, <1>5 DEF Accounted
  <2>2. Onward(Key(cur))
    BY <1>2, <1>3, Forward DEF InboxCutOff
  <2> QED BY <2>1, <2>2 DEF Onward
<1> QED BY <1>2, <1>3, <1>4, <1>5

\* A crash aside, a key in hand stays in hand until it is closed.
LEMMA HeldMoves ==
  ASSUME TypeOK, TypeOK', Tailed, Tailed', Keyed, Accounted, [Next]_vars, ~Crash,
         NEW k \in Keys, k \in HeldKeys, Open(k)'
  PROVE  k \in HeldKeys'
<1>0. Held /\ k = Key(cur)
  BY DEF HeldKeys
<1>1. CASE Still
  BY <1>0, <1>1 DEF Still, HeldKeys, Held, InFlight, RefusedBefore, tables
<1>2. CASE pc = "decide" /\ Decides
  <2>1. pc' = "write" /\ verdict' # "dead_lettered" /\ cur' = cur
    BY <1>0, <1>2, VerdictOfType DEF Decides, Decide, TypeOK
  <2> QED BY <1>0, <2>1 DEF HeldKeys, Held, InFlight
<1>3. CASE pc = "write" /\ FileWrite
  <2>1. PICK w : Writes(w) \/ Turn(w)
    BY <1>3, FileWriteMoves
  <2>2. /\ at \in Nat /\ verdict \in Verdicts /\ verdict # "dead_lettered" /\ InFlight
        /\ \/ pc' = "scan" /\ at = Len(Plan[verdict])
           \/ pc' = "write" /\ cur' = cur /\ verdict' = verdict
    BY <1>0, <1>3, <2>1, WriteMoves, Falls DEF Held, InFlight
  <2>3. CASE pc' = "write" /\ cur' = cur /\ verdict' = verdict
    BY <1>0, <2>2, <2>3 DEF HeldKeys, Held, InFlight
  <2>4. CASE at = Len(Plan[verdict])
    <3>1. at >= SettleAt[verdict]
      BY <2>2, <2>4, PlanSettles
    <3>2. inbox'[k] = "committed"
      BY <1>0, <1>3, <2>2, <3>1, SettledWrite
    <3>3. "inbox" \notin cut'
      BY <2>2, TailMoves DEF Keyed
    <3>4. terminated'.inbox[k] = "committed"
      BY <3>2, <3>3 DEF Tailed
    <3> QED BY <3>2, <3>4 DEF Open, LooseIn
  <2> QED BY <2>2, <2>3, <2>4
<1> QED BY <1>0, <1>1, <1>2, <1>3, WhileDeciding, WhileWriting DEF Held, InFlight

\* No step but a crash adds to the loose keys.
LEMMA LooseKept ==
  ASSUME TypeOK, TypeOK', Tailed, Tailed', Keyed, Accounted, [Next]_vars, ~Crash
  PROVE  Loose' \subseteq Loose
<1>1. SUFFICES ASSUME NEW k \in Keys, Open(k)', k \notin HeldKeys'
               PROVE  Open(k) /\ k \notin HeldKeys
  BY DEF Loose
<1>2. k \notin HeldKeys
  BY <1>1, HeldMoves
<1>3. SUFFICES ASSUME ~Open(k) PROVE FALSE
  BY <1>2
<1>4. cur \in Artifacts /\ k = Key(cur) /\ (Admits \/ (InFlight /\ FileWrite))
  BY <1>1, <1>3, OpensOwnKey
<1>5. CASE InFlight /\ FileWrite
  <2>1. pc = "write"
    BY <1>5, FileWriteMoves DEF Writes, Turn
  <2> QED BY <1>2, <1>4, <1>5, <2>1 DEF HeldKeys, Held
<1>6. CASE Admits
  <2>1. pc' = "decide" /\ cur' = cur /\ processed' = processed /\ inbox[k] = "none"
    BY <1>4, <1>6, Falls DEF Admits, InboxTakes
  <2>2. RefusedBefore(cur)'
    BY <1>1, <1>4, <2>1 DEF HeldKeys, Held, InFlight
  <2>3. RefusedBefore(cur)
    BY <2>1, <2>2 DEF RefusedBefore
  <2> QED BY <1>3, <1>4, <2>1, <2>3 DEF Open, LooseIn
<1> QED BY <1>4, <1>5, <1>6

\* A crash adds one at the most: the key of the artifact in hand.
LEMMA LooseByCrash ==
  ASSUME TypeOK, TypeOK', Tailed, Tailed', Keyed, [Next]_vars, Crash
  PROVE  Loose' \subseteq Loose \cup {Key(cur)}
<1>1. SUFFICES ASSUME NEW k \in Keys, Open(k)', k # Key(cur)
               PROVE  Open(k) /\ k \notin HeldKeys
  BY DEF Loose
<1> QED BY <1>1, OpensOwnKey DEF HeldKeys

LEMMA LooseBound ==
  ASSUME TypeOK, TypeOK', Tailed, Tailed', Keyed, Accounted, [Next]_vars
  PROVE  IsFiniteSet(Loose') /\ Cardinality(Loose') <= crashes'
<1>0. /\ IsFiniteSet(Loose) /\ Cardinality(Loose) <= crashes
      /\ Cardinality(Loose) \in Nat /\ crashes \in Nat
  BY FS_CardinalityType DEF Accounted, TypeOK
<1>1. CASE ~Crash
  <2>1. Loose' \subseteq Loose /\ crashes' = crashes
    BY <1>1, LooseKept, TailMoves
  <2>2. /\ IsFiniteSet(Loose') /\ Cardinality(Loose') <= Cardinality(Loose)
        /\ Cardinality(Loose') \in Nat
    BY <1>0, <2>1, FS_Subset, FS_CardinalityType
  <2> QED BY <1>0, <2>1, <2>2
<1>2. CASE Crash
  <2> DEFINE most == Loose \cup {Key(cur)}
  <2>1. Loose' \subseteq most /\ crashes' = crashes + 1
    BY <1>2, LooseByCrash DEF Crash
  <2>2. /\ IsFiniteSet(most)
        /\ Cardinality(most) = Cardinality(Loose) \/ Cardinality(most) = Cardinality(Loose) + 1
    <3> HIDE DEF Loose
    <3> QED BY <1>0, FS_AddElement, Zenon
  <2> HIDE DEF most
  <2>3. IsFiniteSet(Loose') /\ Cardinality(Loose') <= Cardinality(most)
    BY <2>1, <2>2, FS_Subset
  <2>4. Cardinality(Loose') \in Nat
    BY <2>3, FS_CardinalityType
  <2> QED BY <1>0, <2>1, <2>2, <2>3, <2>4
<1> QED BY <1>1, <1>2

LEMMA AccountedStep ==
  ASSUME TypeOK, TypeOK', Tailed, Tailed', Keyed, Accounted, [Next]_vars
  PROVE  Accounted'
<1>1. SUFFICES ASSUME InFlight', pc' = "write", at' > SettleAt[verdict']
               PROVE  inbox'[Key(cur')] = "committed"
  BY LooseBound DEF Accounted
<1>2. CASE Still
  BY <1>1, <1>2 DEF Still, InFlight, Accounted, tables
<1>3. CASE Decides
  <2>1. at' = 1 /\ verdict' \in Verdicts /\ verdict' # "dead_lettered"
    BY <1>1, <1>3 DEF Decides, Decide, InFlight, TypeOK
  <2>2. SettleAt[verdict'] \in 1..Len(Plan[verdict'])
    BY <2>1, PlanSettles
  <2> QED BY <1>1, <2>1, <2>2
<1>4. CASE FileWrite
  <2>1. PICK w : Writes(w) \/ Turn(w)
    BY <1>4, FileWriteMoves
  <2>2. /\ pc = "write" /\ at \in Nat /\ verdict \in Verdicts
        /\ at' = at + 1 /\ cur' = cur /\ verdict' = verdict
    BY <1>1, <2>1, WriteMoves
  <2>3. InFlight /\ SettleAt[verdict] \in Nat
    BY <1>1, <2>2, PlanSettles DEF InFlight
  <2>4. at >= SettleAt[verdict]
    BY <1>1, <2>2, <2>3
  <2> QED BY <1>4, <2>2, <2>3, <2>4, SettledWrite
<1>5. CASE Rests \/ (\E a \in Artifacts : Take(a)) \/ DeadLetter \/ Admits
  BY <1>1, <1>5 DEF Rests, Take, DeadLetter, Admits, InFlight
<1> QED BY <1>2, <1>3, <1>4, <1>5, StepKinds

----------------------------------------------------------------------------
(* The invariants together, and what they give.                            *)

LedgersInv ==
  /\ TypeOK /\ Tailed /\ Unbroken /\ Keyed /\ Audited /\ Filed /\ Quarantines
  /\ OwnBeforeWrite /\ FeedFirst

LEMMA InitLedgers == Init => LedgersInv
<1> SUFFICES ASSUME Init PROVE LedgersInv
  OBVIOUS
<1>1. TypeOK /\ Tailed
  BY InitType, InitTailed
<1>2. Unbroken
  BY DEF Init, Unbroken
<1>3. /\ \A a \in Artifacts : audit[a] = <<>>
      /\ \A a \in Artifacts : Key(a) \in Keys /\ DeadKey(a) \in Keys
      /\ pc = "down" /\ \A k \in Keys : inbox[k] = "none"
      /\ terminated.inbox = inbox /\ FallbackKey \in Keys
  BY MetaFacts, ConstantsAssumption DEF Init, Tables
<1>4. Keyed
  BY <1>3 DEF Keyed, OneRowAhead, NoFurther, BeforeSettle, InFlight, Burying
<1>5. Audited
  BY <1>3 DEF Audited, OneVerdictPerArtifact, Unjudged
<1>6. Filed
  <2>1. fresh = {}
    BY DEF Init
  <2> QED BY <1>3, <2>1 DEF Filed, InFlight, Burying
<1>7. Quarantines
  BY <1>3 DEF Quarantines, InFlight, BlockedOnly
<1>8. OwnBeforeWrite
  BY DEF Init, OwnBeforeWrite
<1>9. FeedFirst
  BY <1>3 DEF Init, FeedFirst, NothingAheadOfFeed
<1> QED BY <1>1, <1>2, <1>4, <1>5, <1>6, <1>7, <1>8, <1>9 DEF LedgersInv

LEMMA LedgersStep == LedgersInv /\ [Next]_vars => LedgersInv'
<1> SUFFICES ASSUME LedgersInv, [Next]_vars PROVE LedgersInv'
  OBVIOUS
<1>1. /\ TypeOK /\ Tailed /\ Unbroken /\ Keyed /\ Audited /\ Filed /\ Quarantines
      /\ OwnBeforeWrite /\ FeedFirst
  BY DEF LedgersInv
<1>2. TypeOK' /\ Tailed'
  BY <1>1, TypeStep, TailedStep
<1>3. Unbroken' /\ Keyed' /\ Audited'
  BY <1>1, <1>2, UnbrokenStep, KeyedStep, AuditedStep
<1>4. Filed' /\ Quarantines'
  BY <1>1, <1>2, FiledStep, QuarantinesStep
<1>5. OwnBeforeWrite' /\ FeedFirst'
  BY <1>1, <1>2, OwnedStep, FeedFirstStep
<1> QED BY <1>2, <1>3, <1>4, <1>5 DEF LedgersInv

\* The dedupe table, the ledgers and the audit chain agree in every reachable
\* state: every invariant named in LedgersInv holds.
THEOREM LedgersInvariant == Spec => []LedgersInv
BY InitLedgers, LedgersStep, PTL DEF Spec

\* A closed key of the dedupe table stays closed and a known one is never
\* forgotten, but for the one key whose row is read without its newline: the
\* next row of the file takes that row with it, and the key goes back to what
\* it was before.
THEOREM InboxOnlyForward == Spec => InboxNeverReopens
<1>1. TypeOK /\ Keyed /\ [Next]_vars =>
        [\/ \A k \in Keys : Onward(k)
         \/ "inbox" \in cut /\ \E k \in Keys : SetBack(k)]_vars
  <2>1. SUFFICES ASSUME TypeOK, Keyed, [Next]_vars
                 PROVE  \/ \A k \in Keys : Onward(k)
                        \/ "inbox" \in cut /\ \E k \in Keys : SetBack(k)
    OBVIOUS
  <2>2. CASE InboxCutOff
    <3>1. PICK k \in Keys : \A j \in Keys \ {k} : inbox[j] = terminated.inbox[j]
      BY <2>1 DEF Keyed, OneRowAhead
    <3>2. SetBack(k)
      BY <2>2, <3>1 DEF InboxCutOff, SetBack
    <3> QED BY <2>2, <3>2 DEF InboxCutOff
  <2> QED BY <2>1, <2>2, Forward
<1>2. LedgersInv => TypeOK /\ Keyed
  BY DEF LedgersInv
<1> QED BY <1>1, <1>2, LedgersInvariant, PTL DEF Spec, InboxNeverReopens

\* However often an artifact is polled, restarted on or handed in again, the
\* audit chain has one verdict of it.
THEOREM VerdictOnce == Spec => []OneVerdictPerArtifact
<1>1. LedgersInv => OneVerdictPerArtifact
  BY DEF LedgersInv, Audited
<1> QED BY <1>1, LedgersInvariant, PTL

\* Of a refusal there is the dead letter or the row in the audit chain, though
\* two refusals of one second and one reason share a name; both are gone only
\* where a crash fell between them.  A gate refusal is closed in quarantine.
THEOREM RefusalsLeaveEvidence == Spec => []NeverSilent
<1>1. LedgersInv => NeverSilent
  BY DEF LedgersInv, Filed, Quarantines, NeverSilent, Evidence, BlockedOnly, InboxLost
<1> QED BY <1>1, LedgersInvariant, PTL

\* No ledger holds a decision the dedupe table does not own.
THEOREM OwnedBeforeWritten == Spec => []OwnBeforeWrite
<1>1. LedgersInv => OwnBeforeWrite
  BY DEF LedgersInv
<1> QED BY <1>1, LedgersInvariant, PTL

\* latest.json, the webhook and the audit row follow the feed.
THEOREM FeedAheadOfNotice == Spec => []NothingAheadOfFeed
<1>1. LedgersInv => NothingAheadOfFeed
  BY DEF LedgersInv, FeedFirst
<1> QED BY <1>1, LedgersInvariant, PTL

\* A halt lets at most the artifact past the switch through.
THEOREM OneLateEmission == Spec => []AtMostOneLateEmission
<1>1. Init => Passed
  BY DEF Init, Passed
<1>2. TypeOK /\ TypeOK' /\ Passed /\ [Next]_vars => Passed'
  BY PassedStep
<1>3. Passed => AtMostOneLateEmission
  BY DEF Passed, AtMostOneLateEmission
<1> QED BY <1>1, <1>2, <1>3, TypeCorrect, PTL DEF Spec

\* Only an admission a crash interrupted stays pending.
THEOREM PendingAccounted == Spec => []PendingOnlyAfterCrash
<1>1. Init => Accounted
  <2>1. SUFFICES ASSUME Init PROVE Accounted
    OBVIOUS
  <2>2. Loose = {}
    BY <2>1 DEF Init, Tables, Loose, Open, LooseIn, RefusedBefore
  <2> QED BY <2>1, <2>2, FS_EmptySet DEF Init, Accounted, InFlight
<1>2. LedgersInv /\ LedgersInv' /\ Accounted /\ [Next]_vars => Accounted'
  BY AccountedStep DEF LedgersInv
<1>3. LedgersInv /\ Accounted => PendingOnlyAfterCrash
  <2> DEFINE hand == IF pc \in {"decide", "write"} THEN {Key(cur)} ELSE {}
             pending == {k \in Keys : inbox[k] = "admitted"} \ hand
  <2>1. SUFFICES ASSUME LedgersInv, Accounted PROVE Cardinality(pending) <= crashes
    BY DEF PendingOnlyAfterCrash
  <2>2. HeldKeys \subseteq hand
    BY DEF HeldKeys, Held, InFlight
  <2>3. pending \subseteq Loose
    BY <2>2 DEF Loose, Open, LooseIn
  <2> HIDE DEF pending
  <2>4. IsFiniteSet(Loose) /\ Cardinality(Loose) <= crashes /\ crashes \in Nat
    BY <2>1 DEF Accounted, LedgersInv, TypeOK
  <2>5. IsFiniteSet(pending) /\ Cardinality(pending) <= Cardinality(Loose)
    BY <2>3, <2>4, FS_Subset
  <2>6. Cardinality(pending) \in Nat /\ Cardinality(Loose) \in Nat
    BY <2>4, <2>5, FS_CardinalityType
  <2> QED BY <2>4, <2>5, <2>6
<1> QED BY <1>1, <1>2, <1>3, LedgersInvariant, PTL DEF Spec

\* What is stored, the file in force allows: the operator's edit takes effect at
\* the next poll.
THEOREM StoredUnderMandate == Spec => MandateInForce
<1>1. Init => Mandated
  BY DEF Init, Mandated
<1>2. TypeOK /\ TypeOK' /\ Mandated /\ [Next]_vars => Mandated'
  BY MandatedStep
<1>3. TypeOK /\ Mandated /\ [Next]_vars =>
        [store' # store =>
           \/ edited
           \/ Ticker(cur) \in mfile
           \/ Meta[cur].action = "EXIT"]_vars
  BY StoreMoves DEF Mandated
<1> QED BY <1>1, <1>2, <1>3, TypeCorrect, PTL DEF Spec, MandateInForce

=============================================================================
