--------------------------- MODULE SignalPipeline ---------------------------
(***************************************************************************)
(* The signal daemon of src/signald: WatchLoop (watch.py) polls the report *)
(* tree, SignalProcessor (processor.py) takes one artifact at a time       *)
(* through the ingest boundary (inbox.py), the idempotency journal, the    *)
(* gates and the stores (stores.py), under a mandate the operator may      *)
(* re-sign and a kill switch the operator may engage while it runs.        *)
(*                                                                         *)
(* Every durable write is a step of its own, so that the operator, the     *)
(* clock and a crash can fall between any two of them, and a crash may cut *)
(* short the line being appended.  Its readers skip it, unless nothing but *)
(* its newline is missing; the next row appended to the file is glued to   *)
(* it, and neither is read again.  One daemon runs at a time: DaemonLock   *)
(* (daemon.py) is the subject of the module DaemonLock.                    *)
(***************************************************************************)
EXTENDS Naturals, Sequences, FiniteSets

CONSTANTS
  Artifacts,     \* files the research producer may drop in the watch tree
  Tickers, Keys, Hashes,
  Meta,          \* what each artifact says: see MetaType
  FallbackKey,   \* "unreadable:<name>", the key of a body with no fields
  InitMandate,   \* symbols.allowed at the start
  Cap,           \* mandate.max_daily_trades; 0 is no cap
  ExpiresOn,     \* mandate.expires
  RefRequired,   \* Config.ref_required
  Torn,          \* files whose last line a crash may cut short
  None,          \* "no artifact", "no entry"
  MaxDay, MaxEnds, MaxEdits, MaxHalts, MaxPoison,   \* bounds of the model
  MaxRows        \* verdict rows kept per artifact; later ones are dropped

Files   == {"inbox", "journal", "feed"}
Kinds   == {"good", "unroutable", "bad_body", "bad_envelope", "empty"}
Actions == {"BUY", "HOLD", "EXIT"}
MetaType == [key: Keys, hash: Hashes, ticker: Tickers, action: Actions,
             kind: Kinds, from: Nat, until: Nat]

ASSUME ConstantsAssumption ==
  /\ Meta \in [Artifacts -> MetaType]
  /\ None \notin Artifacts /\ None \notin Hashes
  /\ FallbackKey \in Keys
  /\ InitMandate \in SUBSET Tickers /\ Torn \in SUBSET Files
  /\ Cap \in Nat /\ ExpiresOn \in Nat /\ RefRequired \in BOOLEAN
  /\ MaxDay \in Nat /\ MaxEnds \in Nat
  /\ MaxEdits \in Nat /\ MaxHalts \in Nat /\ MaxPoison \in Nat
  /\ MaxRows \in Nat \ {0}

\* The decision hash is computed over the whole body, the producer's run id
\* included: two files with one hash are copies.
ASSUME HashAssumption ==
  \A a, b \in Artifacts : Meta[a].hash = Meta[b].hash => Meta[a] = Meta[b]

\* FallbackKey names a file and nothing in it: an envelope that passes is keyed
\* by its producer's run or by a hash, a file that cannot be read by its stamp
\* as well.
ASSUME KeyAssumption ==
  \A a \in Artifacts :
    Meta[a].key = FallbackKey => Meta[a].kind \in {"bad_envelope", "empty"}

VARIABLES
  tree,       \* artifacts in the watch tree, oldest first (mtime order)
  poison,     \* how many more files are there that discover cannot read
  mfile,      \* symbols.allowed in the mandate file
  mvalid,     \* the mandate file parses and its hash matches
  halted,     \* the kill-switch sentinel exists
  latched,    \* the HALT episode file exists
  day,        \* the calendar day of cfg.now()
  inbox,      \* inbox.jsonl: the latest state of each key
  processed,  \* journal.jsonl: the "processed" rows
  jsignals,   \* journal.jsonl: the "signal" rows, in order
  store,      \* signals.jsonl, in order
  latest,     \* latest.json
  audit,      \* verdict rows of the audit ledger, per artifact
  terminated, \* the tables as they read without a last line that has no newline
  cut,        \* files whose last line has no newline
  lost,       \* files a row was lost from, by such a line
  monitors, candidates, announced,
  quarantined,  \* keys with a "quarantined" row, written behind their file
  deadFiles,  \* artifacts whose dead letter is on disk, of earlier seconds
  fresh,      \* those of the current second, whose names can be used again
  buried,     \* artifacts whose dead letter was overwritten unrecorded
  pc, work, cur, now, mandate, dry, verdict, at, offer,   \* the process
  crashes, stops, edits, halts,    \* how much of each bound is used
  edited,     \* the mandate file changed since the loaded one was read
  late        \* signals stored since the sentinel appeared

envVars     == <<tree, poison, mfile, mvalid, halted, latched, day>>
tables      == <<inbox, processed, jsignals, store>>
tails       == <<terminated, cut, lost>>
ledgers     == <<tables, latest, audit, tails>>
deadLetters == <<deadFiles, fresh, buried>>
sideFiles   == <<monitors, candidates, quarantined, deadLetters, announced>>
locals      == <<cur, now, verdict, at, offer>>
procVars    == <<pc, work, mandate, dry, locals>>
boundVars   == <<crashes, stops, edits, halts>>
historyVars == <<edited, late>>
vars == <<envVars, ledgers, sideFiles, procVars, boundVars, historyVars>>

Key(a)    == Meta[a].key
Hash(a)   == Meta[a].hash
Ticker(a) == Meta[a].ticker

\* A variant that files every dead letter under one key.
DeadKeyShared(a) == FallbackKey

\* Inbox._dead_letter recomputes the key with `if body`, and {} is false.
DeadKey(a) == IF Meta[a].kind = "empty" THEN FallbackKey ELSE Key(a)

----------------------------------------------------------------------------
(* The writes each verdict of SignalProcessor._process and Inbox.admit     *)
(* performs, in the order of the code.                                     *)

\* Orders of the same writes that lose a property.
RowThenFile       == <<"dead_row", "dead_file", "audit">>
BlockedUnsettled  == <<"journal", "audit", "monitor", "candidate",
                       "quarantine">>
EmitThenJournal   == <<"monitor", "signal", "store", "journal", "latest",
                       "audit", "announce", "settle">>
StoreThenCount    == <<"monitor", "journal", "store", "signal", "latest",
                       "audit", "announce", "settle">>
AnnounceThenStore == <<"monitor", "journal", "signal", "latest", "announce",
                       "store", "audit", "settle">>

DeadLetterWrites == <<"dead_file", "dead_row", "audit">>
BlockedWrites    == <<"journal", "audit", "monitor", "candidate",
                      "quarantine", "settle">>
EmittedWrites    == <<"monitor", "journal", "signal", "store", "latest",
                      "audit", "announce", "settle">>

Plan ==
  [ dead_lettered |-> DeadLetterWrites,
    invalid       |-> <<"journal", "settle", "audit">>,
    future        |-> <<"settle", "audit">>,
    skip          |-> <<"settle">>,
    no_reference  |-> <<"settle", "audit">>,
    unroutable    |-> <<"settle", "audit", "quarantine">>,
    blocked       |-> BlockedWrites,
    dry_run       |-> <<"monitor", "settle", "audit">>,
    emitted       |-> EmittedWrites ]

Verdicts == DOMAIN Plan

\* Journal.is_processed: a refusal counts only under the mandate it was made.
Processed(h, m) ==
  \E r \in processed :
    /\ r.hash = h
    /\ r.outcome # "blocked" \/ r.mandate = m

SignalsOn(d) == Cardinality({i \in DOMAIN jsignals : jsignals[i].day = d})

\* _reduces_a_held_name and the symbol check of the gate's "mandate" row.
SymbolAllowed(a, held) ==
  \/ Ticker(a) \in mandate
  \/ Meta[a].action = "EXIT" /\ held = "yes"

GateOffByOne(a, held, others) ==
  /\ SymbolAllowed(a, held)
  /\ Cap > 0 => SignalsOn(now) <= Cap
  /\ others

\* The gate: the symbol, the daily cap, and every other check as one answer.
GatePasses(a, held, others) ==
  /\ SymbolAllowed(a, held)
  /\ Cap > 0 => SignalsOn(now) < Cap
  /\ others

\* The exits of _process after admission, in the order it tests them.
VerdictOf(a, refOk, held, others) ==
  IF Meta[a].kind = "bad_body"                      THEN "invalid"
  ELSE IF Meta[a].from > now                        THEN "future"
  ELSE IF Processed(Hash(a), mandate)               THEN "skip"
  ELSE IF ~refOk /\ RefRequired                     THEN "no_reference"
  ELSE IF Meta[a].kind = "unroutable"               THEN "unroutable"
  ELSE IF ~GatePasses(a, held, others)              THEN "blocked"
  ELSE IF dry THEN "dry_run" ELSE "emitted"

\* WatchLoop.discover with latest_only: the newest artifact of each ticker.
Discover ==
  {a \in Artifacts :
     \E i \in DOMAIN tree :
       /\ tree[i] = a
       /\ \A j \in DOMAIN tree : j > i => Ticker(tree[j]) # Ticker(a)}

\* The rows each file takes, by the name of the write.
RowsOf == [inbox |-> {"settle", "dead_row"}, journal |-> {"journal", "signal"},
           feed |-> {"store"}]

Row(a) == [hash |-> Hash(a), ticker |-> Ticker(a), day |-> now]

\* Journal.mark_processed: only a refusal carries the mandate.
ProcessedRow == [hash |-> Hash(cur), outcome |-> verdict,
                 mandate |-> IF verdict = "blocked" THEN mandate ELSE {}]

Tables == [inbox |-> inbox, processed |-> processed, jsignals |-> jsignals,
           store |-> store]
TablesOf == [inbox |-> {"inbox"}, journal |-> {"processed", "jsignals"},
             feed |-> {"store"}]

\* The tables with the row the process is about to append: Inbox.admit,
\* _dead_letter and commit, the two rows of the journal, the feed.
InboxWith(key, state) == [inbox EXCEPT ![key] = state]
Grown ==
  LET w == IF pc = "admit" THEN "admit" ELSE Plan[verdict][at]
  IN  [inbox |-> CASE w = "admit"    -> InboxWith(Key(cur), "admitted")
                   [] w = "dead_row" -> InboxWith(DeadKey(cur), "dead_lettered")
                   [] w = "settle"   -> InboxWith(Key(cur), "committed")
                   [] OTHER          -> inbox,
       processed |-> IF w = "journal" THEN processed \cup {ProcessedRow}
                                      ELSE processed,
       jsignals  |-> IF w = "signal" THEN Append(jsignals, Row(cur)) ELSE jsignals,
       store     |-> IF w = "store" THEN Append(store, Row(cur)) ELSE store]

\* The tables once something is glued to the last line of a file.
Glued(f) ==
  [t \in DOMAIN Tables |-> IF t \in TablesOf[f] THEN terminated[t] ELSE Tables[t]]

Read(after) ==
  /\ inbox' = after.inbox /\ processed' = after.processed
  /\ jsignals' = after.jsignals /\ store' = after.store

\* _atomic_append: the row becomes a line of its own, or a part of the line
\* that was left without its newline, which no reader parses.
AppendTo(f) ==
  LET after == IF f \in cut THEN Glued(f) ELSE Grown
  IN  /\ Read(after)
      /\ terminated' = [t \in DOMAIN Tables |->
                          IF t \in TablesOf[f] THEN after[t] ELSE terminated[t]]
      /\ cut' = cut \ {f}
      /\ lost' = IF f \in cut THEN lost \cup {f} ELSE lost

\* A crash leaves some bytes of the row, not all of them.
CutShort(f) ==
  /\ Read(IF f \in cut THEN Glued(f) ELSE Tables)
  /\ cut' = cut \cup {f}
  /\ lost' = IF Tables' # Tables THEN lost \cup {f} ELSE lost
  /\ UNCHANGED terminated

\* A crash leaves all of the row but its newline: it is read as long as nothing
\* is written behind it.
CutBeforeNewline(f) ==
  /\ f \notin cut
  /\ Read(Grown)
  /\ cut' = cut \cup {f}
  /\ UNCHANGED <<lost, terminated>>

\* How often the canonical feed has grown under the sentinel.
CountLate == late' = IF halted /\ Len(store') > Len(store) THEN late + 1 ELSE late

----------------------------------------------------------------------------
Init ==
  /\ tree = <<>> /\ poison = 0 /\ mfile = InitMandate /\ mvalid = TRUE
  /\ halted = FALSE /\ latched = FALSE /\ day = 0
  /\ inbox = [k \in Keys |-> "none"]
  /\ processed = {} /\ jsignals = <<>> /\ store = <<>>
  /\ latest = [t \in Tickers |-> None]
  /\ audit = [a \in Artifacts |-> <<>>]
  /\ terminated = Tables /\ cut = {} /\ lost = {}
  /\ monitors = {} /\ candidates = {} /\ quarantined = {} /\ announced = {}
  /\ deadFiles = {} /\ fresh = {} /\ buried = {}
  /\ pc = "down" /\ work = {} /\ cur = None /\ now = 0
  /\ mandate = {} /\ dry = FALSE
  /\ verdict = "skip" /\ at = 1 /\ offer = FALSE
  /\ crashes = 0 /\ stops = 0 /\ edits = 0 /\ halts = 0
  /\ edited = FALSE /\ late = 0

(* The world around the daemon. *)

Drop(a) ==
  /\ \A i \in DOMAIN tree : tree[i] # a
  /\ tree' = Append(tree, a)
  /\ UNCHANGED <<poison, mfile, mvalid, halted, latched, day, ledgers, sideFiles,
                 procVars, boundVars, historyVars>>

\* A file comes, or goes, that is valid JSON but no object, or no text at all.
Poison(count) ==
  /\ count \in 0..MaxPoison /\ count # poison
  /\ poison' = count
  /\ UNCHANGED <<tree, mfile, mvalid, halted, latched, day, ledgers, sideFiles,
                 procVars, boundVars, historyVars>>

NextDay ==
  /\ day < MaxDay
  /\ day' = day + 1
  /\ deadFiles' = deadFiles \cup fresh /\ fresh' = {}
  /\ UNCHANGED <<tree, poison, mfile, mvalid, halted, latched, ledgers, monitors,
                 candidates, quarantined, buried, announced, procVars,
                 boundVars, historyVars>>

EditMandate(allowed, valid) ==
  /\ edits < MaxEdits
  /\ edits' = edits + 1
  /\ mfile' = allowed /\ mvalid' = valid /\ edited' = TRUE
  /\ UNCHANGED <<tree, poison, halted, latched, day, ledgers, sideFiles, procVars,
                 crashes, stops, halts, late>>

\* signald mandate-add / mandate-remove: both load the file first, and the
\* list may not become empty.
MandateAdd(t) ==
  mvalid /\ t \notin mfile /\ EditMandate(mfile \cup {t}, TRUE)

MandateRemove(t) ==
  /\ mvalid /\ t \in mfile /\ Cardinality(mfile) > 1
  /\ EditMandate(mfile \ {t}, TRUE)

\* A hand edit without re-signing: the loader refuses it.
MandateTorn == mvalid /\ EditMandate(mfile, FALSE)

MandateRepaired ==
  /\ ~mvalid
  /\ mvalid' = TRUE /\ edited' = TRUE
  /\ UNCHANGED <<tree, poison, mfile, halted, latched, day, ledgers, sideFiles,
                 procVars, boundVars, late>>

\* control.halt_now: the sentinel, then the episode latch.
Halt ==
  /\ ~halted /\ halts < MaxHalts
  /\ halts' = halts + 1
  /\ halted' = TRUE /\ latched' = TRUE /\ late' = 0
  /\ UNCHANGED <<tree, poison, mfile, mvalid, day, ledgers, sideFiles, procVars,
                 crashes, stops, edits, edited>>

\* kill_switch.resume: the sentinel goes, the episode stays.
Resume ==
  /\ halted
  /\ halted' = FALSE
  /\ UNCHANGED <<tree, poison, mfile, mvalid, latched, day, ledgers, sideFiles,
                 procVars, boundVars, historyVars>>

----------------------------------------------------------------------------
(* The process: start, stop and crash. *)

Start(mode) ==
  /\ pc = "down" /\ mvalid
  /\ pc' = "sleep" /\ mandate' = mfile /\ dry' = mode /\ edited' = FALSE
  /\ UNCHANGED <<envVars, ledgers, sideFiles, work, locals, boundVars, late>>

\* The local variables of _process, once it has returned or died.
NoLocals ==
  cur' = None /\ now' = 0 /\ verdict' = "skip" /\ at' = 1 /\ offer' = FALSE

\* What is not in a file is gone with the process.
Down ==
  /\ pc' = "down" /\ work' = {} /\ NoLocals
  /\ mandate' = {} /\ dry' = FALSE /\ edited' = FALSE

Stop ==
  /\ pc = "sleep" /\ crashes + stops < MaxEnds
  /\ stops' = stops + 1
  /\ Down
  /\ UNCHANGED <<envVars, ledgers, sideFiles, crashes, edits, halts, late>>

BadEnvelope(a) ==
  Meta[a].kind \in {"bad_envelope", "empty"} \/ day > Meta[a].until

\* The file the next write appends to.
Appending(f) ==
  \/ pc = "write" /\ Plan[verdict][at] \in RowsOf[f]
  \/ f = "inbox" /\ pc = "admit" /\ inbox[Key(cur)] = "none" /\ ~BadEnvelope(cur)

Crash ==
  /\ pc # "down" /\ crashes + stops < MaxEnds
  /\ crashes' = crashes + 1
  /\ Down
  /\ \/ UNCHANGED <<tables, tails>>
     \/ \E f \in Torn : Appending(f) /\ (CutShort(f) \/ CutBeforeNewline(f))
  /\ CountLate
  /\ UNCHANGED <<envVars, latest, audit, sideFiles, stops, edits, halts>>

PollWithoutRefresh ==
  /\ pc = "sleep" /\ poison = 0
  /\ pc' = "scan" /\ work' = Discover
  /\ edited' = (edited /\ ~mvalid)
  /\ UNCHANGED <<envVars, ledgers, sideFiles, locals, mandate, dry, boundVars,
                 late>>

\* WatchLoop.run_once: refresh_mandate keeps the loaded mandate when the file
\* does not load, then the tree is read.
Poll ==
  /\ pc = "sleep" /\ poison = 0
  /\ pc' = "scan" /\ work' = Discover
  /\ mandate' = IF mvalid THEN mfile ELSE mandate
  /\ edited' = (edited /\ ~mvalid)
  /\ UNCHANGED <<envVars, ledgers, sideFiles, locals, dry, boundVars, late>>

\* WatchLoop.discover reads every file of the tree for its ticker, and nothing
\* up to run_forever catches what that raises: the process ends.
PollFails ==
  /\ pc = "sleep" /\ poison > 0
  /\ Down
  /\ UNCHANGED <<envVars, ledgers, sideFiles, boundVars, late>>

EndOfScan ==
  /\ pc = "scan" /\ work = {}
  /\ pc' = "sleep"
  /\ UNCHANGED <<envVars, ledgers, sideFiles, work, locals, mandate, dry,
                 boundVars, historyVars>>

----------------------------------------------------------------------------
(* SignalProcessor._process, up to the verdict. *)

SuppressedByExpiryOnly == day > ExpiresOn
SuppressedByLatch      == day > ExpiresOn \/ halted \/ latched

Suppressed == day > ExpiresOn \/ halted

\* An expired mandate or the kill switch: nothing is admitted, so the next
\* poll finds the artifact fresh.  The audit row of a halt is no verdict.
Suppress(a) ==
  /\ pc = "scan" /\ a \in work
  /\ Suppressed
  /\ work' = work \ {a}
  /\ latched' = (latched \/ (day <= ExpiresOn))
  /\ UNCHANGED <<tree, poison, mfile, mvalid, halted, day, ledgers, sideFiles, pc,
                 locals, mandate, dry, boundVars, historyVars>>

Take(a) ==
  /\ pc = "scan" /\ a \in work
  /\ ~Suppressed
  /\ pc' = "admit" /\ work' = work \ {a} /\ cur' = a /\ now' = day
  /\ UNCHANGED <<envVars, ledgers, sideFiles, mandate, dry, verdict, at,
                 offer, boundVars, historyVars>>

\* Inbox.admit: a malformed or expired envelope, or a key seen before in any
\* state, or an admission.
Dedupe ==
  /\ pc = "admit" /\ inbox[Key(cur)] # "none"
  /\ pc' = "scan" /\ NoLocals
  /\ UNCHANGED <<envVars, ledgers, sideFiles, work, mandate, dry, boundVars,
                 historyVars>>

DeadLetterUnseen ==
  /\ pc = "admit" /\ BadEnvelope(cur)
  /\ pc' = "write" /\ verdict' = "dead_lettered" /\ at' = 1
  /\ UNCHANGED <<envVars, ledgers, sideFiles, work, cur, now, mandate, dry,
                 offer, boundVars, historyVars>>

DeadLetter ==
  /\ pc = "admit" /\ inbox[Key(cur)] = "none" /\ BadEnvelope(cur)
  /\ pc' = "write" /\ verdict' = "dead_lettered" /\ at' = 1
  /\ UNCHANGED <<envVars, ledgers, sideFiles, work, cur, now, mandate, dry,
                 offer, boundVars, historyVars>>

AdmitUnrecorded ==
  /\ pc = "admit" /\ inbox[Key(cur)] = "none" /\ ~BadEnvelope(cur)
  /\ pc' = "decide"
  /\ UNCHANGED <<envVars, ledgers, sideFiles, work, locals, mandate, dry,
                 boundVars, historyVars>>

Admit ==
  /\ pc = "admit" /\ inbox[Key(cur)] = "none" /\ ~BadEnvelope(cur)
  /\ pc' = "decide"
  /\ AppendTo("inbox")
  /\ UNCHANGED <<envVars, latest, audit, sideFiles, work, locals, mandate, dry,
                 boundVars, historyVars>>

\* A body the parser refused before: the only return that does not settle.
RefusedBefore(a) ==
  Meta[a].kind = "bad_body" /\ \E r \in processed : r.hash = Hash(a)

SkipInvalid ==
  /\ pc = "decide" /\ RefusedBefore(cur)
  /\ pc' = "scan" /\ NoLocals
  /\ UNCHANGED <<envVars, ledgers, sideFiles, work, mandate, dry, boundVars,
                 historyVars>>

\* What the broker's reference snapshot says of the symbol, and of itself.
Decide(refOk, held, others) ==
  /\ pc = "decide" /\ ~RefusedBefore(cur)
  /\ refOk \/ held = "unknown"
  /\ pc' = "write" /\ at' = 1
  /\ verdict' = VerdictOf(cur, refOk, held, others)
  /\ offer' = (/\ verdict' = "blocked"
               /\ Ticker(cur) \notin mandate /\ held = "no"
               /\ Meta[cur].action = "BUY")
  /\ UNCHANGED <<envVars, ledgers, sideFiles, work, cur, now, mandate, dry,
                 boundVars, historyVars>>

----------------------------------------------------------------------------
(* The writes of the verdict, one at a time. *)

Writes(w) ==
  /\ pc = "write" /\ Plan[verdict][at] = w
  /\ IF at = Len(Plan[verdict])
       THEN pc' = "scan" /\ NoLocals
       ELSE at' = at + 1 /\ UNCHANGED <<pc, cur, now, verdict, offer>>
  /\ UNCHANGED <<envVars, work, mandate, dry, boundVars, edited>>

WriteJournal ==
  /\ Writes("journal") /\ AppendTo("journal")
  /\ UNCHANGED <<latest, audit, sideFiles, late>>

WriteSignalRow ==
  /\ Writes("signal") /\ AppendTo("journal")
  /\ UNCHANGED <<latest, audit, sideFiles, late>>

WriteStore ==
  /\ Writes("store") /\ AppendTo("feed")
  /\ CountLate
  /\ UNCHANGED <<latest, audit, sideFiles>>

WriteLatest ==
  /\ Writes("latest")
  /\ latest' = [latest EXCEPT ![Ticker(cur)] = Hash(cur)]
  /\ UNCHANGED <<tables, audit, tails, sideFiles, late>>

WriteAudit ==
  /\ Writes("audit")
  /\ audit' = IF Len(audit[cur]) < MaxRows
                 THEN [audit EXCEPT ![cur] = Append(@, verdict)]
                 ELSE audit
  /\ UNCHANGED <<tables, latest, tails, sideFiles, late>>

\* The webhook may fail; the row that says so is no verdict.
Announce ==
  /\ Writes("announce")
  /\ announced' \in {announced, announced \cup {Hash(cur)}}
  /\ UNCHANGED <<ledgers, monitors, candidates, quarantined, deadLetters, late>>

\* _record_monitor: every HOLD, once per decision.
WriteMonitor ==
  /\ Writes("monitor")
  /\ monitors' = IF Meta[cur].action = "HOLD" THEN monitors \cup {Hash(cur)}
                                              ELSE monitors
  /\ UNCHANGED <<ledgers, candidates, quarantined, deadLetters, announced, late>>

\* _offer_candidate: a BUY the mandate bars, provably not held.
WriteCandidate ==
  /\ Writes("candidate")
  /\ candidates' = IF offer THEN candidates \cup {Hash(cur)} ELSE candidates
  /\ UNCHANGED <<ledgers, monitors, quarantined, deadLetters, announced, late>>

\* Inbox.quarantine: the file, then the row that names the key.  A routing
\* refusal is put there without one.
WriteQuarantine ==
  /\ Writes("quarantine")
  /\ quarantined' = IF verdict = "blocked" THEN quarantined \cup {Key(cur)}
                                           ELSE quarantined
  /\ UNCHANGED <<ledgers, monitors, candidates, deadLetters, announced, late>>

\* dead_letter names its file by the second and the reason alone, for every
\* artifact has the same file name: a second refusal for that reason within
\* that second writes over the first.
Reason(a) == IF Meta[a].kind \in {"bad_envelope", "empty"} THEN "invalid" ELSE "expired"
Recorded(a) == \E i \in DOMAIN audit[a] : audit[a][i] = "dead_lettered"

WriteDeadFile(tick) ==
  LET overwritten == IF tick THEN {}
                     ELSE {a \in fresh : Reason(a) = Reason(cur)} \ {cur}
  IN  /\ Writes("dead_file")
      /\ deadFiles' = IF tick THEN deadFiles \cup fresh ELSE deadFiles
      /\ fresh' = {cur} \cup (IF tick THEN {} ELSE fresh \ overwritten)
      /\ buried' = buried \cup {a \in overwritten : ~Recorded(a)}
      /\ UNCHANGED <<ledgers, monitors, candidates, quarantined, announced, late>>

WriteDeadRow ==
  /\ Writes("dead_row") /\ AppendTo("inbox")
  /\ UNCHANGED <<latest, audit, sideFiles, late>>

\* Inbox.commit, with or without a signal id.
Settle ==
  /\ Writes("settle") /\ AppendTo("inbox")
  /\ UNCHANGED <<latest, audit, sideFiles, late>>

----------------------------------------------------------------------------
Daemon ==
  \/ Poll \/ PollFails \/ EndOfScan
  \/ \E a \in Artifacts : Suppress(a) \/ Take(a)
  \/ Dedupe \/ DeadLetter \/ Admit \/ SkipInvalid
  \/ \E refOk, others \in BOOLEAN, held \in {"yes", "no", "unknown"} :
       Decide(refOk, held, others)
  \/ WriteJournal \/ WriteSignalRow \/ WriteStore \/ WriteLatest \/ WriteAudit
  \/ Announce \/ WriteMonitor \/ WriteCandidate \/ WriteQuarantine
  \/ (\E tick \in BOOLEAN : WriteDeadFile(tick)) \/ WriteDeadRow \/ Settle

World ==
  \/ \E a \in Artifacts : Drop(a)
  \/ \E count \in 0..MaxPoison : Poison(count)
  \/ NextDay
  \/ \E t \in Tickers : MandateAdd(t) \/ MandateRemove(t)
  \/ MandateTorn \/ MandateRepaired
  \/ Halt \/ Resume

Next ==
  \/ Daemon \/ World
  \/ \E mode \in BOOLEAN : Start(mode)
  \/ Stop \/ Crash

Spec == Init /\ [][Next]_vars

\* The supervisor restarts a daemon that is down; polls and writes do not
\* stall.  Nothing is assumed of the operator, the producer or the clock.
Fairness ==
  /\ WF_vars(Daemon)
  /\ WF_vars(\E mode \in BOOLEAN : Start(mode))

FairSpec == Spec /\ Fairness

----------------------------------------------------------------------------
(* Properties. *)

JournalRow == [hash: Hashes, outcome: {"invalid", "blocked", "emitted"},
               mandate: SUBSET Tickers]
Days       == 0..MaxDay
FeedRow    == [hash: Hashes, ticker: Tickers, day: Days]
TablesType == [inbox: [Keys -> {"none", "admitted", "committed", "dead_lettered"}],
               processed: SUBSET JournalRow, jsignals: Seq(FeedRow),
               store: Seq(FeedRow)]

\* The type of every variable: the states of the stores and of the process.
TypeOK ==
  /\ tree \in Seq(Artifacts) /\ poison \in Nat
  /\ mfile \in SUBSET Tickers /\ mvalid \in BOOLEAN
  /\ halted \in BOOLEAN /\ latched \in BOOLEAN /\ day \in Days
  /\ Tables \in TablesType /\ terminated \in TablesType
  /\ latest \in [Tickers -> Hashes \cup {None}]
  /\ audit \in [Artifacts -> Seq(Verdicts)]
  /\ cut \in SUBSET Files /\ lost \in SUBSET Files
  /\ monitors \in SUBSET Hashes /\ candidates \in SUBSET Hashes
  /\ quarantined \in SUBSET Keys /\ announced \in SUBSET Hashes
  /\ deadFiles \in SUBSET Artifacts /\ fresh \in SUBSET Artifacts
  /\ buried \in SUBSET Artifacts
  /\ pc \in {"down", "sleep", "scan", "admit", "decide", "write"}
  /\ work \in SUBSET Artifacts /\ cur \in Artifacts \cup {None}
  /\ now \in Days /\ mandate \in SUBSET Tickers /\ dry \in BOOLEAN
  /\ verdict \in Verdicts /\ at \in 1..Len(Plan[verdict])
  /\ offer \in BOOLEAN
  /\ crashes \in Nat /\ stops \in Nat /\ edits \in Nat /\ halts \in Nat
  /\ edited \in BOOLEAN /\ late \in Nat
  /\ pc \in {"admit", "decide", "write"} => cur \in Artifacts

\* A decision is signalled at most once, whatever crashes, restarts, mandate
\* edits and copies of the artifact come in between: "emitted signals never
\* replay".  Two ledgers bar a replay, the dedupe table and the journal, so it
\* takes a row lost from each.
AtMostOnceEmission ==
  \/ {"inbox", "journal"} \subseteq lost
  \/ \A i, j \in DOMAIN store : store[i].hash = store[j].hash => i = j

\* The daily cap is counted from the journal's signal rows, one write ahead of
\* the feed: every entry of the feed has been counted, and has its
\* unconditional "processed" row, before it appears.
EmissionsAreJournaled ==
  "journal" \notin lost => \A i \in DOMAIN store :
    /\ \E j \in DOMAIN jsignals : jsignals[j] = store[i]
    /\ \E r \in processed : r.hash = store[i].hash /\ r.outcome = "emitted"

\* latest.json, the webhook and the "accepted" audit row never tell of a signal
\* that is not yet in the canonical feed.
NothingAheadOfFeed ==
  LET InFeed(h) == "feed" \in lost \/ \E i \in DOMAIN store : store[i].hash = h
  IN  /\ \A t \in Tickers : latest[t] # None => InFeed(latest[t])
      /\ \A h \in announced : InFeed(h)
      /\ \A a \in Artifacts : \A i \in DOMAIN audit[a] :
           audit[a][i] = "emitted" => InFeed(Hash(a))

\* Own-before-write: whatever the ledgers hold about a decision, a key of an
\* artifact that carries it was recorded in the dedupe table first.
OwnBeforeWrite ==
  LET Owned(h) == \/ "inbox" \in lost
                  \/ \E a \in Artifacts :
                       Hash(a) = h /\ inbox[Key(a)] \in {"admitted", "committed"}
  IN  /\ \A r \in processed : Owned(r.hash)
      /\ \A i \in DOMAIN jsignals : Owned(jsignals[i].hash)
      /\ \A h \in monitors \cup candidates : Owned(h)

\* The ledger records decisions, not poll cycles: however often the poll hands
\* an artifact back, one verdict row is all it gets.  (An object without fields
\* is the exception: it is recorded under one key and looked up under another,
\* and gets a verdict at every poll.)
OneVerdictPerArtifact ==
  \A a \in Artifacts :
    Meta[a].kind # "empty" /\ "inbox" \notin lost => Len(audit[a]) <= 1

\* Never silent: of what the inbox has refused there is the dead letter or the
\* audit row that says so, and a gate refusal is closed only once it is in the
\* quarantine.  (The dead letter alone is not enough, for the next refusal may
\* take its name; that this happens before the row is written takes a crash
\* between the two and a restart within the second.)
NeverSilent ==
  \A a \in Artifacts :
    /\ inbox[DeadKey(a)] = "dead_lettered" =>
         \E b \in Artifacts :
           /\ DeadKey(b) = DeadKey(a)
           /\ \/ b \in deadFiles \cup fresh
              \/ Recorded(b)
              \/ b \in buried /\ crashes > 0
    /\ (audit[a] = <<"blocked">> /\ inbox[Key(a)] = "committed") =>
         Key(a) \in quarantined \/ "inbox" \in lost

\* The recovery list of Inbox.pending holds what a crash interrupted and
\* nothing else: every other admission is in flight or closed.
PendingOnlyAfterCrash ==
  LET InFlight == IF pc \in {"decide", "write"} THEN {Key(cur)} ELSE {}
  IN  Cardinality({k \in Keys : inbox[k] = "admitted"} \ InFlight) <= crashes

\* The switch is read before admission only, so what it lets through after the
\* sentinel appears is the artifact already past that point, and no other.
AtMostOneLateEmission == late <= 1

\* Once a poll has read the operator's edit, a symbol that is not in the file
\* is not signalled again, unless to leave a position.
MandateInForce ==
  [][store' # store =>
       \/ edited
       \/ Ticker(cur) \in mfile
       \/ Meta[cur].action = "EXIT"]_vars

\* A closed key stays closed, and a key once seen is never forgotten: this is
\* what the dedupe rests on.  What is written behind a line without its newline
\* takes that line with it, and then one key goes back to what it was before.
Onward(k) ==
  /\ inbox[k] \in {"committed", "dead_lettered"} => inbox'[k] = inbox[k]
  /\ inbox[k] = "admitted" => inbox'[k] \in {"admitted", "committed"}
SetBack(k) ==
  /\ inbox'[k] = terminated.inbox[k]
  /\ \A j \in Keys \ {k} : inbox'[j] = inbox[j]
InboxNeverReopens ==
  [][\/ \A k \in Keys : Onward(k)
     \/ "inbox" \in cut /\ \E k \in Keys : SetBack(k)]_vars

\* The feed is the one SignalFeed specifies.
Feed == INSTANCE SignalFeed WITH feed <- store
FeedSpec == Feed!Spec

\* An artifact that stays the newest of its ticker gets past the boundary,
\* unless the switch, the mandate's expiry, a mandate file that does not load
\* or a file that ends every poll keeps the daemon from it.
NewestIsAdmitted ==
  \A a \in Artifacts :
    (a \in Discover) ~>
      \/ inbox[Key(a)] # "none" \/ DeadKey(a) # Key(a)
      \/ a \notin Discover
      \/ day > ExpiresOn \/ halted \/ ~mvalid \/ poison > 0


============================================================================
