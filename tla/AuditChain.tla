----------------------------- MODULE AuditChain -----------------------------
(***************************************************************************)
(* The tamper-evident audit log, its checkpoint journal and the unit of    *)
(* work that commits a governance change together with its audit row       *)
(* (apps/platform/app/storage: audit.py, audit_checkpoint.py,              *)
(* unit_of_work.py).                                                       *)
(*                                                                         *)
(* audit_logs is a table of hash-chained rows.  The journal is a file on   *)
(* other storage holding signed heads (row count and head hash).  A writer *)
(* takes the journal's file lock, then the database write lock, appends,   *)
(* commits, and appends the head to the journal before it lets go of the   *)
(* file lock.  Processes die between any two of these steps, journal       *)
(* writes tear, and operators restore old dumps while the journal stays.   *)
(*                                                                         *)
(* A row hash covers the row and its predecessor's hash, so hashes of      *)
(* different rows differ: a hash is a fresh number, 0 is GENESIS_HASH.     *)
(***************************************************************************)
EXTENDS Integers, Sequences, FiniteSets

CONSTANTS
    Handler,       \* threads running @atomic route handlers
    Clerk,         \* background jobs that commit a change, then audit it
    NoWriter,      \* nobody holds the lock
    Backends,      \* the databases looked at: "sqlite", "postgres"
    Journals,      \* whether NORINTH_AUDIT_CHECKPOINT_PATH (and a key) is set
    RestoreFloor,  \* the fewest audit rows a dump holds
    MaxRow,        \* bound: audit rows ever written
    MaxUnit,       \* bound: audit rows of one unit of work
    MaxEpoch,      \* bound: reconciliations
    MaxDumps,      \* bound: dumps kept
    MaxFaults      \* bound: crashes and failed journal writes

Writer == Handler \cup Clerk

GENESIS_HASH == 0

ASSUME ConstantsAssumption ==
    /\ Handler \cap Clerk = {}
    /\ NoWriter \notin Writer
    /\ Backends \subseteq {"sqlite", "postgres"}
    /\ Journals \subseteq BOOLEAN
    /\ {RestoreFloor, MaxRow, MaxUnit, MaxEpoch, MaxDumps, MaxFaults} \subseteq Nat

VARIABLES
    backend,     \* the database of this installation
    journaled,   \* whether it keeps a checkpoint journal
    log,         \* the committed rows of audit_logs, by id
    changes,     \* the governance changes the database holds
    fresh,       \* the last hash handed out
    journal,     \* the records of the checkpoint journal
    tail,        \* how the journal file ends
    flock,       \* who holds the journal's file lock
    dblock,      \* who holds SQLite's write lock, or the advisory lock of the
                 \* audit chain on Postgres
    phase,       \* where each writer is
    rows,        \* the audit rows of its open transaction
    owed,        \* the change a clerk has committed and not yet recorded
    heads,       \* the heads it still has to write to the journal
    dumps,       \* SQL dumps: log and changes at one moment
    faults,
    anchored,    \* history variable: the hashes the last checkpoint covers
    everAnchored,\* history variable: the hashes any checkpoint ever covered
    loose        \* history variable: the changes that clerks committed

file_vars == <<journal, tail, anchored, everAnchored>>
db_vars == <<log, changes>>
txn_vars == <<flock, dblock, phase, rows, owed, heads>>
conf_vars == <<backend, journaled>>
vars == <<conf_vars, db_vars, fresh, file_vars, txn_vars, dumps, faults, loose>>

Row == [hash : 1..MaxRow, prev : 0..MaxRow]

JournalHead == [count : 0..MaxRow, head : 0..MaxRow]

Record == [kind : {"head", "reconcile"}, epoch : 0..MaxEpoch, count : 0..MaxRow,
           head : 0..MaxRow, anchored_from : 0..MaxRow]

Phase == {"idle", "owing", "locked", "open", "committed", "down"}

\* Rows, journal records and the locals of every writer keep their types; a
\* journal never holds more epochs than there were reconciliations.
TypeOK ==
    /\ backend \in {"sqlite", "postgres"} /\ journaled \in BOOLEAN
    /\ log \in Seq(Row)
    /\ changes \in SUBSET (1..MaxRow)
    /\ fresh \in 0..MaxRow
    /\ journal \in Seq(Record)
    /\ tail \in {"whole", "partial", "unterminated", "garbled"}
    /\ flock \in Writer \cup {NoWriter}
    /\ dblock \in Writer \cup {NoWriter}
    /\ phase \in [Writer -> Phase]
    /\ rows \in [Writer -> Seq(Row)]
    /\ owed \in [Writer -> 0..MaxRow]
    /\ heads \in [Writer -> Seq(JournalHead)]
    /\ \A d \in dumps : d.log \in Seq(Row) /\ d.changes \in SUBSET (1..MaxRow)
    /\ faults \in 0..MaxFaults
    /\ anchored \in Seq(1..MaxRow)
    /\ everAnchored \in SUBSET (1..MaxRow)
    /\ loose \in SUBSET (1..MaxRow)

-----------------------------------------------------------------------------
(***************************************************************************)
(* Reading the log and the journal.                                        *)
(***************************************************************************)

Hashes(l) == [i \in 1..Len(l) |-> l[i].hash]

Recorded == {log[i].hash : i \in 1..Len(log)}

HeadOf(l) == IF l = <<>> THEN GENESIS_HASH ELSE l[Len(l)].hash

Latest == journal[Len(journal)]

\* latest_checkpoint returns, or returns None, rather than raise.
LatestReadable == tail = "whole"

\* Bug: the count is compared, the anchored row is not.
AgreesOnCount(view) ==
    (journaled /\ journal # <<>>) => LatestReadable /\ Latest.count <= Len(view)

\* The checks of _append_row on what its transaction sees.
AgreesWithCheckpoint(view) ==
    journaled =>
        /\ LatestReadable
        /\ journal # <<>> =>
             /\ Latest.count <= Len(view)
             /\ Latest.count # 0 => view[Latest.count].hash = Latest.head

\* Every row links to its predecessor: the loop of verify_audit_chain.
ChainOK ==
    \A i \in 1..Len(log) :
        log[i].prev = IF i = 1 THEN GENESIS_HASH ELSE log[i - 1].hash

\* read_checkpoints returns without an error.
JournalReadable ==
    /\ tail \in {"whole", "unterminated"}
    /\ \A i \in 2..Len(journal) :
         LET r == journal[i]
             p == journal[i - 1]
         IN  IF r.kind = "reconcile" THEN r.epoch # p.epoch
             ELSE r.epoch = p.epoch /\ r.count > p.count

\* rows[latest["count"] - 1]: index -1 is the last row.
AnchoredRow(c) == IF c = 0 THEN log[Len(log)] ELSE log[c]

\* Bug: a log as long as the checkpoint says is accepted whatever its head is.
VerdictByCount ==
    IF ~ChainOK THEN "hash chain"
    ELSE IF ~journaled \/ journal = <<>> THEN "unavailable"
    ELSE IF ~JournalReadable THEN "invalid"
    ELSE IF Len(log) < Latest.count THEN "mismatch"
    ELSE IF Len(log) = Latest.count THEN "partial_history" ELSE "stale"

\* Bug: rows that are not anchored yet count as a mismatch.
VerdictStrict ==
    IF ~ChainOK THEN "hash chain"
    ELSE IF ~journaled \/ journal = <<>> THEN "unavailable"
    ELSE IF ~JournalReadable THEN "invalid"
    ELSE IF Len(log) # Latest.count \/ HeadOf(log) # Latest.head THEN "mismatch"
    ELSE "partial_history"

\* Bug: earlier epochs of the journal are forgotten.
VerdictOfEpoch ==
    IF ~ChainOK THEN "hash chain"
    ELSE IF ~journaled \/ journal = <<>> THEN "unavailable"
    ELSE IF ~JournalReadable THEN "invalid"
    ELSE IF Len(log) # Latest.count \/ HeadOf(log) # Latest.head THEN "mismatch"
    ELSE IF Latest.anchored_from = 1 THEN "current" ELSE "partial_history"

(***************************************************************************)
(* verify_audit_chain: the reason it fails for, or the checkpoint_status   *)
(* (of a checkpoint younger than a day).                                   *)
(***************************************************************************)
Verdict ==
    LET n == Len(log)
        c == Latest.count
    IN  CASE ~ChainOK -> "hash chain"
          [] ChainOK /\ (~journaled \/ (journal = <<>> /\ tail = "whole")) ->
               "unavailable"
          [] OTHER ->
               IF ~JournalReadable \/ journal = <<>> THEN "invalid"
               ELSE IF \/ n < c
                       \/ n = c /\ HeadOf(log) # Latest.head
                       \/ n > c /\ AnchoredRow(c).hash # Latest.head
                 THEN "mismatch"
               ELSE IF \/ Latest.anchored_from # 1
                       \/ \E i \in 1..Len(journal) : journal[i].kind = "reconcile"
                 THEN "partial_history"
               ELSE IF n = c THEN "current" ELSE "stale"

VerdictOK == Verdict \in {"unavailable", "partial_history", "current", "stale"}

-----------------------------------------------------------------------------

Init ==
    /\ backend \in Backends /\ journaled \in Journals
    /\ log = <<>> /\ changes = {} /\ fresh = 0
    /\ journal = <<>> /\ tail = "whole"
    /\ flock = NoWriter /\ dblock = NoWriter
    /\ phase = [w \in Writer |-> "idle"]
    /\ rows = [w \in Writer |-> <<>>]
    /\ owed = [w \in Writer |-> 0]
    /\ heads = [w \in Writer |-> <<>>]
    /\ dumps = {} /\ faults = 0
    /\ anchored = <<>> /\ everAnchored = {} /\ loose = {}

\* The writer leaves: its transaction, its locks and its call stack are gone.
Leave(w, where) ==
    /\ phase' = [phase EXCEPT ![w] = where]
    /\ flock' = IF flock = w THEN NoWriter ELSE flock
    /\ dblock' = IF dblock = w THEN NoWriter ELSE dblock
    /\ rows' = [rows EXCEPT ![w] = <<>>]
    /\ owed' = [owed EXCEPT ![w] = 0]
    /\ heads' = [heads EXCEPT ![w] = <<>>]

(***************************************************************************)
(* A background job commits a change in a transaction of its own, with its *)
(* audit entry still to be written.                                        *)
(***************************************************************************)
ChangeFirst(w) ==
    /\ phase[w] = "idle"
    /\ dblock = NoWriter \/ backend = "postgres"
    /\ fresh < MaxRow
    /\ fresh' = fresh + 1
    /\ changes' = changes \cup {fresh + 1}
    /\ loose' = loose \cup {fresh + 1}
    /\ phase' = [phase EXCEPT ![w] = "owing"]
    /\ owed' = [owed EXCEPT ![w] = fresh + 1]
    /\ UNCHANGED <<conf_vars, log, file_vars, flock, dblock, rows, heads, dumps,
                   faults>>

\* checkpoint_lock, a no-op without a journal.
TakeLock(w) ==
    /\ phase[w] = IF w \in Clerk THEN "owing" ELSE "idle"
    /\ journaled => flock = NoWriter
    /\ flock' = IF journaled THEN w ELSE flock
    /\ phase' = [phase EXCEPT ![w] = "locked"]
    /\ UNCHANGED <<conf_vars, db_vars, fresh, file_vars, dblock, rows, owed, heads,
                   dumps, faults, loose>>

\* BEGIN IMMEDIATE, which on Postgres is a plain BEGIN.
Begin(w) ==
    /\ phase[w] = "locked"
    /\ backend = "sqlite" => dblock = NoWriter
    /\ dblock' = IF backend = "sqlite" THEN w ELSE dblock
    /\ phase' = [phase EXCEPT ![w] = "open"]
    /\ UNCHANGED <<conf_vars, db_vars, fresh, file_vars, flock, rows, owed, heads,
                   dumps, faults, loose>>

\* Bug: the chain is read without serialize_writer.
AuditUnserialized(w) ==
    LET view  == log \o rows[w]
        entry == IF w \in Clerk THEN owed[w] ELSE fresh + 1
    IN  /\ phase[w] = "open"
        /\ w \in Clerk => rows[w] = <<>>
        /\ Len(rows[w]) < MaxUnit
        /\ entry <= MaxRow
        /\ AgreesWithCheckpoint(view)
        /\ rows' = [rows EXCEPT ![w] =
                      Append(@, [hash |-> entry, prev |-> HeadOf(view)])]
        /\ heads' = [heads EXCEPT ![w] =
                       Append(@, [count |-> Len(view) + 1, head |-> entry])]
        /\ fresh' = IF w \in Clerk THEN fresh ELSE fresh + 1
        /\ UNCHANGED <<conf_vars, db_vars, file_vars, flock, dblock, phase, owed, dumps,
                       faults, loose>>

\* Bug: the change is saved on a connection of its own.
AuditOnOwnConnection(w) ==
    LET view  == log \o rows[w]
        entry == IF w \in Clerk THEN owed[w] ELSE fresh + 1
    IN  /\ phase[w] = "open"
        /\ w \in Clerk => rows[w] = <<>>
        /\ Len(rows[w]) < MaxUnit
        /\ entry <= MaxRow
        /\ dblock \in {w, NoWriter}
        /\ AgreesWithCheckpoint(view)
        /\ dblock' = w
        /\ changes' = changes \cup {entry}
        /\ rows' = [rows EXCEPT ![w] =
                      Append(@, [hash |-> entry, prev |-> HeadOf(view)])]
        /\ heads' = [heads EXCEPT ![w] =
                       Append(@, [count |-> Len(view) + 1, head |-> entry])]
        /\ fresh' = IF w \in Clerk THEN fresh ELSE fresh + 1
        /\ UNCHANGED <<conf_vars, log, file_vars, flock, phase, owed, dumps,
                       faults, loose>>

(***************************************************************************)
(* record_audit inside the open transaction: serialize_writer, then        *)
(* _append_row.  A handler changes a governance record and audits the      *)
(* change; a clerk's entry is about the change it has committed.           *)
(***************************************************************************)
Audit(w) ==
    LET view  == log \o rows[w]
        entry == IF w \in Clerk THEN owed[w] ELSE fresh + 1
    IN  /\ phase[w] = "open"
        /\ w \in Clerk => rows[w] = <<>>
        /\ Len(rows[w]) < MaxUnit
        /\ entry <= MaxRow
        /\ dblock \in {w, NoWriter}
        /\ AgreesWithCheckpoint(view)
        /\ dblock' = w
        /\ rows' = [rows EXCEPT ![w] =
                      Append(@, [hash |-> entry, prev |-> HeadOf(view)])]
        /\ heads' = [heads EXCEPT ![w] =
                       Append(@, [count |-> Len(view) + 1, head |-> entry])]
        /\ fresh' = IF w \in Clerk THEN fresh ELSE fresh + 1
        /\ UNCHANGED <<conf_vars, db_vars, file_vars, flock, phase, owed, dumps,
                       faults, loose>>

(***************************************************************************)
(* _append_row refuses, or the handler or the database raises: rollback.   *)
(***************************************************************************)
Rollback(w) ==
    /\ phase[w] \in {"locked", "open"}
    /\ Leave(w, "idle")
    /\ UNCHANGED <<conf_vars, db_vars, fresh, file_vars, dumps, faults, loose>>

\* Bug: the file lock is released before the journal is written.
CommitUnlocking(w) ==
    /\ phase[w] = "open"
    /\ rows[w] # <<>>
    /\ log' = log \o rows[w]
    /\ changes' = changes \cup {rows[w][i].hash : i \in 1..Len(rows[w])}
    /\ IF journaled
         THEN /\ phase' = [phase EXCEPT ![w] = "committed"]
              /\ dblock' = NoWriter
              /\ rows' = [rows EXCEPT ![w] = <<>>]
              /\ owed' = [owed EXCEPT ![w] = 0]
              /\ flock' = NoWriter
              /\ UNCHANGED heads
         ELSE Leave(w, "idle")
    /\ UNCHANGED <<conf_vars, fresh, file_vars, dumps, faults, loose>>

\* COMMIT.  Without a journal nothing is left to do.
Commit(w) ==
    /\ phase[w] = "open"
    /\ rows[w] # <<>>
    /\ log' = log \o rows[w]
    /\ changes' = changes \cup {rows[w][i].hash : i \in 1..Len(rows[w])}
    /\ IF journaled
         THEN /\ phase' = [phase EXCEPT ![w] = "committed"]
              /\ dblock' = NoWriter
              /\ rows' = [rows EXCEPT ![w] = <<>>]
              /\ owed' = [owed EXCEPT ![w] = 0]
              /\ UNCHANGED <<flock, heads>>
         ELSE Leave(w, "idle")
    /\ UNCHANGED <<conf_vars, fresh, file_vars, dumps, faults, loose>>

(***************************************************************************)
(* append_checkpoint for the oldest head left, still under the file lock.  *)
(***************************************************************************)
Advances(h) == journal # <<>> => h.count > Latest.count

\* Bug: every head opens an epoch of its own.
HeadRecordNewEpoch(h) ==
    [kind |-> "head", count |-> h.count, head |-> h.head,
     epoch |-> IF journal = <<>> THEN 0 ELSE Latest.epoch + 1,
     anchored_from |-> h.count]

HeadRecord(h) ==
    [kind |-> "head", count |-> h.count, head |-> h.head,
     epoch |-> IF journal = <<>> THEN 0 ELSE Latest.epoch,
     anchored_from |-> IF journal = <<>> THEN h.count ELSE Latest.anchored_from]

\* A record reaches the file and covers the first r.count rows of the log.
Write(r) ==
    LET covered == SubSeq(Hashes(log), 1, r.count)
    IN  /\ journal' = Append(journal, r)
        /\ anchored' = covered
        /\ everAnchored' = everAnchored \cup {covered[i] : i \in 1..Len(covered)}

AppendCheckpoint(w) ==
    LET h == Head(heads[w])
    IN  /\ phase[w] = "committed"
        /\ LatestReadable
        /\ Advances(h)
        /\ Write(HeadRecord(h))
        /\ IF Len(heads[w]) = 1
             THEN Leave(w, "idle")
             ELSE /\ heads' = [heads EXCEPT ![w] = Tail(@)]
                  /\ UNCHANGED <<flock, dblock, phase, rows, owed>>
        /\ UNCHANGED <<conf_vars, db_vars, fresh, tail, dumps, faults, loose>>

(***************************************************************************)
(* The write of a head fails: nothing, a part of the line, or all of it    *)
(* but the newline reaches the file.  The error surfaces to the caller.    *)
(***************************************************************************)
FailCheckpoint(w) ==
    /\ phase[w] = "committed"
    /\ LatestReadable
    /\ faults < MaxFaults
    /\ faults' = faults + 1
    /\ \/ UNCHANGED file_vars
       \/ tail' = "partial" /\ UNCHANGED <<journal, anchored, everAnchored>>
       \/ tail' = "unterminated" /\ Write(HeadRecord(Head(heads[w])))
    /\ Leave(w, "idle")
    /\ UNCHANGED <<conf_vars, db_vars, fresh, dumps, loose>>

-----------------------------------------------------------------------------
(***************************************************************************)
(* Processes and operators.                                                *)
(***************************************************************************)

Crash(w) ==
    /\ phase[w] \notin {"idle", "down"}
    /\ faults < MaxFaults
    /\ faults' = faults + 1
    /\ Leave(w, "down")
    /\ UNCHANGED <<conf_vars, db_vars, fresh, file_vars, dumps, loose>>

\* validate_audit_at_startup, under the file lock.
Start(w) ==
    /\ phase[w] = "down"
    /\ flock = NoWriter
    /\ VerdictOK
    /\ phase' = [phase EXCEPT ![w] = "idle"]
    /\ UNCHANGED <<conf_vars, db_vars, fresh, file_vars, flock, dblock, rows, owed,
                   heads, dumps, faults, loose>>

TakeDump ==
    /\ Cardinality(dumps) < MaxDumps
    /\ Len(log) >= RestoreFloor
    /\ [log |-> log, changes |-> changes] \notin dumps
    /\ dumps' = dumps \cup {[log |-> log, changes |-> changes]}
    /\ UNCHANGED <<conf_vars, db_vars, fresh, file_vars, txn_vars, faults, loose>>

\* An SQL dump replaces the database, also under replicas that were not
\* stopped, while no audit write is in progress.
Restore ==
    /\ \A w \in Writer : phase[w] \in {"idle", "owing", "down"}
    /\ \E d \in dumps :
         /\ d.log # log
         /\ log' = d.log
         /\ changes' = d.changes
    /\ UNCHANGED <<conf_vars, fresh, file_vars, txn_vars, dumps, faults, loose>>

(***************************************************************************)
(* reconcile_audit_after_restore: the operator names the seal they saw,    *)
(* and only the seal of the journal's last record is accepted.  A record   *)
(* written after one without its newline is glued to that line.            *)
(***************************************************************************)
Reconcile(expected_seal) ==
    /\ journaled
    /\ flock = NoWriter
    /\ ChainOK
    /\ JournalReadable /\ journal # <<>>
    /\ expected_seal = Len(journal)
    /\ Latest.epoch < MaxEpoch
    /\ \/ /\ tail = "whole"
          /\ Write([kind |-> "reconcile", epoch |-> Latest.epoch + 1,
                    count |-> Len(log), head |-> HeadOf(log),
                    anchored_from |-> Len(log)])
          /\ UNCHANGED tail
       \/ /\ tail = "unterminated"
          /\ tail' = "garbled"
          /\ UNCHANGED <<journal, anchored, everAnchored>>
    /\ UNCHANGED <<conf_vars, db_vars, fresh, txn_vars, dumps, faults, loose>>

Step(w) ==
    \/ TakeLock(w)
    \/ Begin(w)
    \/ Audit(w)
    \/ Rollback(w)
    \/ Commit(w)
    \/ AppendCheckpoint(w)
    \/ FailCheckpoint(w)
    \/ Crash(w)
    \/ Start(w)

Next ==
    \/ \E w \in Writer : Step(w)
    \/ \E w \in Clerk : ChangeFirst(w)
    \/ TakeDump
    \/ Restore
    \/ \E seal \in 1..Len(journal) : Reconcile(seal)

Spec == Init /\ [][Next]_vars
-----------------------------------------------------------------------------
(***************************************************************************)
(*                              PROPERTIES                                 *)
(***************************************************************************)

\* "concurrent writes can't fork the chain" (record_audit): every committed row
\* chains to the row before it, on both databases, with and without a journal
\* lock, for units of several rows, across crashes and restores.
ChainNeverForks == ChainOK

\* A change made inside a unit of work is in the database exactly when its
\* audit row is (unit_of_work, record_audit), also after a refused append, a
\* rollback, a crash at any step, or a restore.
UnitIsAtomic == changes \ loose = Recorded \ loose

\* When verify_audit_chain accepts a log that has a checkpoint, the log still
\* begins with every row that the last checkpoint covered: comparing one count
\* and one hash is enough to notice any lost or replaced history.
VerdictIsSound ==
    (flock = NoWriter /\ VerdictOK /\ journal # <<>>) =>
        /\ Len(anchored) <= Len(log)
        /\ SubSeq(Hashes(log), 1, Len(anchored)) = anchored

\* "A newer database may contain an interval not yet independently anchored,
\* such as after an outage or a commit preceding a checkpoint write": a log
\* that extends what the last checkpoint covered, with an intact journal, is
\* accepted, so that no crash alone stops the platform from starting.
NoFalseAlarm ==
    (/\ flock = NoWriter
     /\ tail = "whole"
     /\ Len(anchored) <= Len(log)
     /\ SubSeq(Hashes(log), 1, Len(anchored)) = anchored)
       => VerdictOK

\* checkpoint_status "current" is honest: every row any checkpoint ever covered
\* is still in the log and every row of the log is covered (verify_audit_chain).
CurrentIsComplete ==
    (flock = NoWriter /\ Verdict = "current") =>
        /\ everAnchored \subseteq Recorded
        /\ Hashes(log) = anchored

\* The head a committed writer is about to journal always advances the last
\* one, so append_checkpoint never refuses it: the file lock is held from the
\* chain read to the journal write.
CheckpointsInOrder ==
    \A w \in Writer :
        (phase[w] = "committed" /\ LatestReadable) => Advances(Head(heads[w]))

\* Nothing is ever appended to a log that lost rows a checkpoint covered: a
\* committing unit extends the anchored history (_append_row's refusals).
AppendsExtendAnchored ==
    [][\A w \in Writer :
         (journaled /\ phase[w] = "open" /\ log' # log) =>
            /\ Len(anchored) <= Len(log)
            /\ SubSeq(Hashes(log), 1, Len(anchored)) = anchored]_vars

\* "a change cannot persist without its record" (docs/threat-model.md): every
\* change in the database has its audit row, or the job that made it is still
\* running and about to write it.
ChangeHasRecord ==
    \A c \in changes : c \in Recorded \/ \E w \in Writer : owed[w] = c
=============================================================================
