-------------------------- MODULE AuditChainProofs --------------------------
(***************************************************************************)
(* Proofs about the audit chain, for any number of handlers, clerks, rows, *)
(* reconciliations, dumps and faults, on both databases and with or        *)
(* without a checkpoint journal.                                           *)
(***************************************************************************)
EXTENDS AuditChain, SequenceTheorems, TLAPS

(***************************************************************************)
(* Types, without the bounds on how much is written.                       *)
(***************************************************************************)
AnyRow == [hash : Nat, prev : Nat]

AnyHead == [count : Nat, head : Nat]

AnyRecord == [kind : {"head", "reconcile"}, epoch : Nat, count : Nat, head : Nat,
              anchored_from : Nat]

Dump == [log : Seq(AnyRow), changes : SUBSET Nat]

Shape ==
    /\ backend \in {"sqlite", "postgres"} /\ journaled \in BOOLEAN
    /\ log \in Seq(AnyRow) /\ changes \in SUBSET Nat /\ fresh \in Nat
    /\ journal \in Seq(AnyRecord)
    /\ tail \in {"whole", "partial", "unterminated", "garbled"}
    /\ flock \in Writer \cup {NoWriter} /\ dblock \in Writer \cup {NoWriter}
    /\ phase \in [Writer -> Phase]
    /\ rows \in [Writer -> Seq(AnyRow)]
    /\ owed \in [Writer -> Nat]
    /\ heads \in [Writer -> Seq(AnyHead)]
    /\ dumps \in SUBSET Dump
    /\ anchored \in Seq(Nat)
    /\ everAnchored \in SUBSET Nat

(***************************************************************************)
(* The two locks.  A writer with audit rows in its transaction holds the   *)
(* database lock, and with a journal the file lock is held from the chain  *)
(* read to the journal write.                                              *)
(***************************************************************************)
LocksAt(w) ==
    /\ rows[w] # <<>> => phase[w] = "open" /\ dblock = w
    /\ phase[w] \notin {"open", "committed"} => heads[w] = <<>>
    /\ journaled /\ phase[w] \in {"locked", "open", "committed"} => flock = w
    /\ phase[w] = "committed" => journaled

Locks == \A w \in Writer : LocksAt(w)

(***************************************************************************)
(* The chain, as committed, as a transaction sees it and as dumped.        *)
(***************************************************************************)
Linked(l) == \A i \in 1..Len(l) : l[i].prev = IF i = 1 THEN GENESIS_HASH ELSE l[i - 1].hash

Chained ==
    /\ Linked(log)
    /\ \A w \in Writer : Linked(log \o rows[w])
    /\ \A d \in dumps : Linked(d.log)

(***************************************************************************)
(* A unit of work, in the database and in the dumps.                       *)
(***************************************************************************)
HashSet(l) == {l[i].hash : i \in 1..Len(l)}

Atomic ==
    /\ changes \ loose = HashSet(log) \ loose
    /\ \A d \in dumps : d.changes \ loose = HashSet(d.log) \ loose

(***************************************************************************)
(* Hash sequences that exist anywhere: committed, in a transaction, in a   *)
(* dump or behind the last checkpoint.  They form a tree: a hash           *)
(* determines its position and everything before it.  That is what makes   *)
(* one count and one hash speak for a whole history.                       *)
(***************************************************************************)
Tree(K) ==
    \A s, t \in K : \A i \in 1..Len(s), j \in 1..Len(t) :
        s[i] = t[j] => i = j /\ \A k \in 1..i : s[k] = t[k]

Known ==
    {Hashes(log), anchored} \cup {Hashes(log \o rows[w]) : w \in Writer}
        \cup {Hashes(d.log) : d \in dumps}

\* A clerk with a committed change whose entry is not written yet.
Pending(w) == w \in Clerk /\ phase[w] \in {"owing", "locked", "open"} /\ rows[w] = <<>>

Unused(h) == \A s \in Known : \A i \in 1..Len(s) : s[i] # h

Histories ==
    /\ Tree(Known)
    /\ \A s \in Known : \A i \in 1..Len(s) : s[i] \in 1..fresh
    /\ \A w \in Writer : Pending(w) => owed[w] \in 1..fresh /\ Unused(owed[w])
    /\ \A v, w \in Writer : Pending(v) /\ Pending(w) /\ v # w => owed[v] # owed[w]

(***************************************************************************)
(* The journal: its records are in order and the last one is what the      *)
(* anchored history says; without a reconciliation nothing that was ever   *)
(* anchored is missing from it.                                            *)
(***************************************************************************)
InOrder ==
    \A i \in 2..Len(journal) :
        LET r == journal[i]
            p == journal[i - 1]
        IN  IF r.kind = "reconcile" THEN r.epoch # p.epoch
            ELSE r.epoch = p.epoch /\ r.count > p.count

Prefix(s, t) == Len(s) <= Len(t) /\ \A i \in 1..Len(s) : s[i] = t[i]

Journal ==
    /\ ~journaled => journal = <<>> /\ tail = "whole"
    /\ journal = <<>> => anchored = <<>> /\ everAnchored = {}
    /\ journal # <<>> =>
         /\ Latest.count = Len(anchored)
         /\ Latest.head = IF anchored = <<>> THEN GENESIS_HASH ELSE anchored[Len(anchored)]
    /\ InOrder
    /\ (\A i \in 1..Len(journal) : journal[i].kind # "reconcile") =>
         \A h \in everAnchored : \E i \in 1..Len(anchored) : anchored[i] = h

(***************************************************************************)
(* What a writer has still to do for the journal.                          *)
(***************************************************************************)
OpenAt(w) ==
    phase[w] = "open" =>
        /\ Len(heads[w]) = Len(rows[w])
        /\ \A k \in 1..Len(rows[w]) :
             heads[w][k] = [count |-> Len(log) + k, head |-> rows[w][k].hash]
        /\ journaled /\ rows[w] # <<>> => tail = "whole" /\ Prefix(anchored, Hashes(log))

CommittedAt(w) ==
    phase[w] = "committed" =>
        /\ tail = "whole" /\ heads[w] # <<>>
        /\ Prefix(anchored, Hashes(log))
        /\ Len(anchored) + Len(heads[w]) <= Len(log)
        /\ \A k \in 1..Len(heads[w]) :
             LET c == Len(log) - Len(heads[w]) + k
             IN  heads[w][k] = [count |-> c, head |-> log[c].hash]

Heads == \A w \in Writer : OpenAt(w) /\ CommittedAt(w)

AuditInv ==
    Shape /\ Locks /\ Chained /\ Atomic /\ Histories /\ Journal /\ Heads

-----------------------------------------------------------------------------
(***************************************************************************)
(* Sequences of rows and of hashes.                                        *)
(***************************************************************************)

\* The hash column of a table of rows.
LEMMA HashesType ==
    ASSUME NEW l \in Seq(AnyRow)
    PROVE  /\ Hashes(l) \in Seq(Nat)
           /\ Len(Hashes(l)) = Len(l)
           /\ \A i \in 1..Len(l) : Hashes(l)[i] = l[i].hash
<1>1. Len(l) \in Nat /\ \A i \in 1..Len(l) : l[i].hash \in Nat
  <2>1. Len(l) \in Nat
    BY LenProperties
  <2>2. \A i \in 1..Len(l) : l[i] \in AnyRow
    BY ElementOfSeq
  <2> QED
    BY <2>1, <2>2 DEF AnyRow
<1>2. Hashes(l) \in [1..Len(l) -> Nat]
  BY <1>1 DEF Hashes
<1>3. Hashes(l) \in Seq(Nat)
  BY <1>1, <1>2, SeqDef
<1>4. Len(Hashes(l)) = Len(l)
  BY <1>1, <1>2, <1>3, LenProperties
<1> QED
  BY <1>3, <1>4 DEF Hashes

\* A unit's next row comes after the log and the rows it already has.
LEMMA ViewAppend ==
    ASSUME NEW l \in Seq(AnyRow), NEW m \in Seq(AnyRow), NEW r \in AnyRow
    PROVE  /\ l \o Append(m, r) = Append(l \o m, r)
           /\ Hashes(l \o Append(m, r)) = Append(Hashes(l \o m), r.hash)
<1>1. l \o Append(m, r) = Append(l \o m, r)
  <2>1. <<r>> \in Seq(AnyRow) /\ l \o m \in Seq(AnyRow)
    BY ConcatProperties
  <2>2. Append(m, r) = m \o <<r>> /\ Append(l \o m, r) = (l \o m) \o <<r>>
    BY <2>1, AppendIsConcat
  <2> QED
    BY <2>1, <2>2, ConcatAssociative
<1>2. l \o m \in Seq(AnyRow) /\ Append(l \o m, r) \in Seq(AnyRow)
  BY ConcatProperties, AppendProperties
<1>3. Hashes(Append(l \o m, r)) = Append(Hashes(l \o m), r.hash)
  <2> DEFINE v == l \o m
             u == Append(v, r)
             a == Hashes(u)
             b == Append(Hashes(v), r.hash)
  <2>1. r.hash \in Nat /\ Len(v) \in Nat
    BY <1>2, LenProperties DEF AnyRow
  <2>2. /\ u \in Seq(AnyRow) /\ Len(u) = Len(v) + 1
        /\ \A i \in 1..Len(v) : u[i] = v[i]
        /\ u[Len(v) + 1] = r
    BY <1>2, AppendProperties
  <2>3. v \in Seq(AnyRow)
    BY <1>2
  <2> HIDE DEF u, v
  <2>4. /\ a \in Seq(Nat) /\ Len(a) = Len(u)
        /\ \A i \in 1..Len(u) : a[i] = u[i].hash
    BY <2>2, HashesType
  <2>5. /\ Hashes(v) \in Seq(Nat) /\ Len(Hashes(v)) = Len(v)
        /\ \A i \in 1..Len(v) : Hashes(v)[i] = v[i].hash
    BY <2>3, HashesType
  <2>8. /\ b \in Seq(Nat) /\ Len(b) = Len(v) + 1
        /\ \A i \in 1..Len(v) : b[i] = v[i].hash
        /\ b[Len(v) + 1] = r.hash
    BY <2>1, <2>5, AppendProperties
  <2> HIDE DEF a, b
  <2>6. ASSUME NEW i \in 1..Len(a)
        PROVE  a[i] = b[i]
    <3>1. i \in 1..Len(v) \/ i = Len(v) + 1
      BY <2>1, <2>2, <2>4
    <3>2. CASE i \in 1..Len(v)
      BY <2>2, <2>4, <2>8, <3>2
    <3>3. CASE i = Len(v) + 1
      BY <2>2, <2>4, <2>8, <3>3
    <3> QED
      BY <3>1, <3>2, <3>3
  <2>7. a = b
    BY <2>2, <2>4, <2>8, <2>6, SeqEqual
  <2> QED
    BY <2>7 DEF a, b, u, v
<1> QED
  BY <1>1, <1>3

\* A transaction without audit rows sees the log.
LEMMA ViewEmpty ==
    ASSUME NEW l \in Seq(AnyRow)
    PROVE  l \o <<>> = l
BY ConcatEmptySeq

-----------------------------------------------------------------------------
(***************************************************************************)
(* Trees of hash sequences.                                                *)
(***************************************************************************)

\* A hash nobody has used may follow any known history: the next audit row.
LEMMA TreeAppend ==
    ASSUME NEW K \in SUBSET Seq(Nat), Tree(K), NEW s \in K, NEW e \in Nat,
           \A t \in K : \A i \in 1..Len(t) : t[i] # e,
           NEW L \in SUBSET (K \cup {Append(s, e)})
    PROVE  Tree(L)
<1> DEFINE a == Append(s, e)
<1>1. s \in Seq(Nat) /\ Len(s) \in Nat
  BY LenProperties
<1>2. /\ Len(a) = Len(s) + 1 /\ a[Len(s) + 1] = e
      /\ \A i \in 1..Len(s) : a[i] = s[i]
  BY <1>1, AppendProperties
<1>3. \A t \in K : Len(t) \in Nat
  BY LenProperties
<1> HIDE DEF a
<1>4. ASSUME NEW t \in K, NEW i \in 1..Len(a), NEW j \in 1..Len(t), a[i] = t[j]
      PROVE  i \in 1..Len(s) /\ i = j /\ \A k \in 1..i : a[k] = t[k]
  <2>1. i \in 1..Len(s)
    BY <1>1, <1>2, <1>4
  <2>2. i = j /\ \A k \in 1..i : s[k] = t[k]
    BY <1>2, <1>4, <2>1 DEF Tree
  <2>3. \A k \in 1..i : k \in 1..Len(s)
    BY <1>1, <2>1
  <2> QED
    BY <1>2, <2>1, <2>2, <2>3
<1>5. ASSUME NEW i \in 1..Len(a), NEW j \in 1..Len(a), a[i] = a[j]
      PROVE  i = j
  <2>1. CASE i \in 1..Len(s) /\ j \in 1..Len(s)
    BY <1>2, <1>5, <2>1 DEF Tree
  <2>2. CASE i = Len(s) + 1 /\ j = Len(s) + 1
    BY <2>2
  <2>3. CASE i \in 1..Len(s) /\ j = Len(s) + 1
    BY <1>2, <1>5, <2>3
  <2>4. CASE j \in 1..Len(s) /\ i = Len(s) + 1
    BY <1>2, <1>5, <2>4
  <2> QED
    BY <1>1, <1>2, <2>1, <2>2, <2>3, <2>4
<1>6. SUFFICES ASSUME NEW x \in L, NEW y \in L,
                      NEW i \in 1..Len(x), NEW j \in 1..Len(y), x[i] = y[j]
               PROVE  i = j /\ \A k \in 1..i : x[k] = y[k]
  BY DEF Tree
<1>7. x \in K \cup {a} /\ y \in K \cup {a}
  BY DEF a
<1>8. CASE x \in K /\ y \in K
  BY <1>6, <1>8 DEF Tree
<1>9. CASE x = a /\ y \in K
  BY <1>4, <1>6, <1>9
<1>10. CASE x \in K /\ y = a
  BY <1>4, <1>6, <1>10
<1>11. CASE x = a /\ y = a
  BY <1>5, <1>6, <1>11
<1> QED
  BY <1>7, <1>8, <1>9, <1>10, <1>11

\* A beginning of a known history adds nothing: the rows a checkpoint covers.
LEMMA TreePrefix ==
    ASSUME NEW K \in SUBSET Seq(Nat), Tree(K), NEW s \in K, NEW n \in Nat, n <= Len(s),
           NEW L \in SUBSET (K \cup {SubSeq(s, 1, n)})
    PROVE  Tree(L)
<1> DEFINE a == SubSeq(s, 1, n)
<1>1. s \in Seq(Nat) /\ Len(s) \in Nat
  BY LenProperties
<1>2. Len(a) = n /\ \A i \in 1..n : a[i] = s[i] /\ i \in 1..Len(s)
  BY <1>1
<1>3. \A t \in K : Len(t) \in Nat
  BY LenProperties
<1>11. L \subseteq K \cup {a}
  OBVIOUS
<1> HIDE DEF a
<1>4. \A x \in L : \E y \in K : Len(x) \in Nat /\ Len(x) <= Len(y) /\ \A i \in 1..Len(x) : x[i] = y[i]
  BY <1>1, <1>2, <1>3, <1>11
<1>5. SUFFICES ASSUME NEW x \in L, NEW y \in L,
                      NEW i \in 1..Len(x), NEW j \in 1..Len(y), x[i] = y[j]
               PROVE  i = j /\ \A k \in 1..i : x[k] = y[k]
  BY DEF Tree
<1>6. PICK u \in K : Len(x) \in Nat /\ Len(x) <= Len(u) /\ \A m \in 1..Len(x) : x[m] = u[m]
  BY <1>4
<1>7. PICK v \in K : Len(y) \in Nat /\ Len(y) <= Len(v) /\ \A m \in 1..Len(y) : y[m] = v[m]
  BY <1>4
<1>8. i \in 1..Len(u) /\ j \in 1..Len(v) /\ u[i] = v[j]
  <2>1. Len(u) \in Nat /\ Len(v) \in Nat
    BY <1>3
  <2>2. i \in 1..Len(u)
    BY <1>6, <2>1
  <2>3. j \in 1..Len(v)
    BY <1>7, <2>1
  <2>4. x[i] = u[i] /\ y[j] = v[j]
    BY <1>6, <1>7
  <2> QED
    BY <1>5, <2>2, <2>3, <2>4
<1>9. i = j /\ \A k \in 1..i : u[k] = v[k]
  BY <1>8 DEF Tree
<1>10. \A k \in 1..i : k \in 1..Len(x) /\ k \in 1..Len(y)
  BY <1>6, <1>7, <1>9
<1> QED
  BY <1>6, <1>7, <1>9, <1>10

-----------------------------------------------------------------------------
(***************************************************************************)
(* Types and locks.                                                        *)
(***************************************************************************)

\* What a writer leaves behind is well-typed.
LEMMA LeaveShape ==
    ASSUME Shape, NEW w \in Writer, NEW where \in Phase, Leave(w, where)
    PROVE  /\ flock' \in Writer \cup {NoWriter} /\ dblock' \in Writer \cup {NoWriter}
           /\ phase' \in [Writer -> Phase]
           /\ rows' \in [Writer -> Seq(AnyRow)]
           /\ owed' \in [Writer -> Nat]
           /\ heads' \in [Writer -> Seq(AnyHead)]
BY DEF Shape, Leave

\* The head of a table is a hash, or GENESIS_HASH.
LEMMA HeadOfType ==
    ASSUME NEW l \in Seq(AnyRow)
    PROVE  HeadOf(l) \in Nat
<1>1. CASE l = <<>>
  BY <1>1 DEF HeadOf, GENESIS_HASH
<1>2. CASE l # <<>>
  <2>1. Len(l) \in 1..Len(l)
    BY <1>2, EmptySeq, LenProperties
  <2>2. l[Len(l)] \in AnyRow
    BY <2>1, ElementOfSeq
  <2> QED
    BY <1>2, <2>2 DEF HeadOf, AnyRow
<1> QED
  BY <1>1, <1>2

\* A record that reaches the journal leaves it and the history behind it well-typed.
LEMMA WriteShape ==
    ASSUME Shape, NEW r \in AnyRecord, r.count <= Len(log), Write(r)
    PROVE  /\ journal' \in Seq(AnyRecord)
           /\ anchored' \in Seq(Nat) /\ everAnchored' \in SUBSET Nat
           /\ anchored' = SubSeq(Hashes(log), 1, r.count) /\ Len(anchored') = r.count
           /\ \A i \in 1..r.count : anchored'[i] = log[i].hash
           /\ journal' # <<>> /\ journal'[Len(journal')] = r
           /\ Len(journal') = Len(journal) + 1
           /\ \A i \in 1..Len(journal) : journal'[i] = journal[i]
<1>1. /\ Hashes(log) \in Seq(Nat) /\ Len(Hashes(log)) = Len(log) /\ Len(log) \in Nat
      /\ \A i \in 1..Len(log) : Hashes(log)[i] = log[i].hash /\ Hashes(log)[i] \in Nat
  BY HashesType, ElementOfSeq, LenProperties DEF Shape
<1>2. r.count \in Nat
  BY DEF AnyRecord
<1> DEFINE c == SubSeq(Hashes(log), 1, r.count)
<1>3. /\ c \in Seq(Nat) /\ Len(c) = r.count
      /\ \A i \in 1..r.count : c[i] = Hashes(log)[i] /\ i \in 1..Len(log)
  BY <1>1, <1>2
<1>4. \A i \in 1..Len(c) : c[i] \in Nat
  BY <1>1, <1>3
<1>5. anchored' = c /\ everAnchored' = everAnchored \cup {c[i] : i \in 1..Len(c)}
      /\ journal' = Append(journal, r)
  BY DEF Write
<1>6. /\ journal' \in Seq(AnyRecord) /\ journal' # <<>> /\ journal'[Len(journal')] = r
      /\ Len(journal') = Len(journal) + 1
      /\ \A i \in 1..Len(journal) : journal'[i] = journal[i]
  BY <1>5, AppendProperties DEF Shape
<1> HIDE DEF c
<1> QED
  BY <1>1, <1>3, <1>4, <1>5, <1>6 DEF Shape, c

\* The row record_audit appends, and the hash it gets.
Entry(w) == IF w \in Clerk THEN owed[w] ELSE fresh + 1

NewRow(w) == [hash |-> Entry(w), prev |-> HeadOf(log \o rows[w])]

NewHead(w) == [count |-> Len(log \o rows[w]) + 1, head |-> Entry(w)]

LEMMA AuditEffect ==
    ASSUME Shape, NEW w \in Writer, Audit(w)
    PROVE  /\ NewRow(w) \in AnyRow /\ NewHead(w) \in AnyHead /\ Entry(w) \in Nat
           /\ phase[w] = "open" /\ (w \in Clerk => rows[w] = <<>>)
           /\ dblock \in {w, NoWriter} /\ dblock' = w
           /\ AgreesWithCheckpoint(log \o rows[w])
           /\ rows' = [rows EXCEPT ![w] = Append(rows[w], NewRow(w))]
           /\ heads' = [heads EXCEPT ![w] = Append(heads[w], NewHead(w))]
           /\ fresh' = IF w \in Clerk THEN fresh ELSE fresh + 1
           /\ UNCHANGED <<conf_vars, db_vars, file_vars, flock, phase, owed, dumps, faults,
                          loose>>
<1>1. log \o rows[w] \in Seq(AnyRow)
  BY ConcatProperties DEF Shape
<1>2. HeadOf(log \o rows[w]) \in Nat /\ Len(log \o rows[w]) \in Nat
  BY <1>1, HeadOfType, LenProperties
<1>3. Entry(w) \in Nat
  <2>1. owed[w] \in Nat /\ fresh \in Nat
    BY DEF Shape
  <2> QED
    BY <2>1 DEF Entry
<1>4. NewRow(w) \in AnyRow
  BY <1>2, <1>3 DEF NewRow, AnyRow
<1>5. NewHead(w) \in AnyHead
  BY <1>2, <1>3 DEF NewHead, AnyHead
<1> QED
  BY <1>3, <1>4, <1>5 DEF Audit, NewRow, NewHead, Entry

\* The next head of a committed writer is the next row the journal does not cover.
LEMMA NextHead ==
    ASSUME AuditInv, NEW w \in Writer, phase[w] = "committed"
    PROVE  LET h == Head(heads[w])
           IN  /\ h = heads[w][1] /\ h \in AnyHead
               /\ h.count = Len(log) - Len(heads[w]) + 1
               /\ h.count \in 1..Len(log) /\ h.count > Len(anchored)
               /\ h.head = log[h.count].hash
               /\ HeadRecord(h) \in AnyRecord
<1> DEFINE h == Head(heads[w])
           n == Len(heads[w])
<1>1. heads[w] \in Seq(AnyHead) /\ heads[w] # <<>>
  BY DEF AuditInv, Shape, Heads, CommittedAt
<1>2. n \in Nat /\ n >= 1 /\ Len(log) \in Nat /\ Len(anchored) \in Nat
  BY <1>1, EmptySeq, LenProperties DEF AuditInv, Shape
<1>3. h = heads[w][1] /\ h \in AnyHead
  BY <1>1, <1>2, ElementOfSeq
<1>4. Len(anchored) + n <= Len(log)
  BY DEF AuditInv, Heads, CommittedAt
<1>5. heads[w][1] = [count |-> Len(log) - n + 1, head |-> log[Len(log) - n + 1].hash]
  <2>1. CommittedAt(w)
    BY DEF AuditInv, Heads
  <2>2. \A k \in 1..n : heads[w][k] =
           [count |-> Len(log) - n + k, head |-> log[Len(log) - n + k].hash]
    BY <2>1 DEF CommittedAt
  <2>3. 1 \in 1..n
    BY <1>2
  <2> HIDE DEF n
  <2> QED
    BY <2>2, <2>3
<1>6. /\ h.count = Len(log) - n + 1 /\ h.head = log[h.count].hash
      /\ h.count \in 1..Len(log) /\ h.count > Len(anchored)
  <2> HIDE DEF h, n
  <2>1. h.count = Len(log) - n + 1 /\ h.head = log[Len(log) - n + 1].hash
    BY <1>3, <1>5
  <2> QED
    BY <1>2, <1>4, <2>1
<1>7. h.count \in Nat /\ h.head \in Nat
  BY <1>3 DEF AnyHead
<1>8. journal # <<>> => Latest \in AnyRecord
  BY EmptySeq, LenProperties, ElementOfSeq DEF Latest, AuditInv, Shape
<1>9. HeadRecord(h) \in AnyRecord
  BY <1>7, <1>8 DEF HeadRecord, AnyRecord
<1> QED
  BY <1>3, <1>6, <1>9

\* Every step keeps the types.
LEMMA ShapeStep ==
    ASSUME AuditInv, [Next]_vars
    PROVE  Shape'
<1> USE DEF Shape, AuditInv, conf_vars, db_vars, file_vars, txn_vars
<1>1. ASSUME NEW w \in Writer, TakeLock(w)
      PROVE  Shape'
  BY <1>1 DEF TakeLock, Phase
<1>2. ASSUME NEW w \in Writer, Begin(w)
      PROVE  Shape'
  BY <1>2 DEF Begin, Phase
<1>3. ASSUME NEW w \in Writer, Audit(w)
      PROVE  Shape'
  <2>1. Append(rows[w], NewRow(w)) \in Seq(AnyRow) /\ Append(heads[w], NewHead(w)) \in Seq(AnyHead)
    BY <1>3, AuditEffect, AppendProperties
  <2>2. fresh' \in Nat
    <3>1. fresh' = fresh \/ fresh' = fresh + 1
      BY <1>3 DEF Audit
    <3> QED
      BY <3>1
  <2>3. rows' \in [Writer -> Seq(AnyRow)] /\ heads' \in [Writer -> Seq(AnyHead)]
    BY <1>3, <2>1, AuditEffect
  <2> QED
    BY <1>3, <2>2, <2>3, AuditEffect
<1>4. ASSUME NEW w \in Writer, Rollback(w)
      PROVE  Shape'
  <2>1. "idle" \in Phase
    BY DEF Phase
  <2> QED
    BY <1>4, <2>1, LeaveShape DEF Rollback
<1>5. ASSUME NEW w \in Writer, Commit(w)
      PROVE  Shape'
  <2>1. log' \in Seq(AnyRow)
    BY <1>5, ConcatProperties DEF Commit
  <2>2. \A i \in 1..Len(rows[w]) : rows[w][i].hash \in Nat
    <3>1. rows[w] \in Seq(AnyRow)
      OBVIOUS
    <3>2. \A i \in 1..Len(rows[w]) : rows[w][i] \in AnyRow
      BY <3>1, ElementOfSeq
    <3> QED
      BY <3>2 DEF AnyRow
  <2>3. changes' \in SUBSET Nat
    BY <1>5, <2>2 DEF Commit
  <2>4. "idle" \in Phase /\ "committed" \in Phase
    BY DEF Phase
  <2>5. CASE journaled
    <3>1. /\ phase' = [phase EXCEPT ![w] = "committed"] /\ dblock' = NoWriter
          /\ rows' = [rows EXCEPT ![w] = <<>>] /\ owed' = [owed EXCEPT ![w] = 0]
          /\ UNCHANGED <<flock, heads>>
      BY <1>5, <2>5 DEF Commit
    <3>2. /\ phase' \in [Writer -> Phase] /\ owed' \in [Writer -> Nat]
          /\ rows' \in [Writer -> Seq(AnyRow)]
      BY <2>4, <3>1
    <3> QED
      BY <1>5, <2>1, <2>3, <3>1, <3>2 DEF Commit
  <2>6. CASE ~journaled
    BY <1>5, <2>1, <2>3, <2>4, <2>6, LeaveShape DEF Commit
  <2> QED
    BY <2>5, <2>6
<1>6. ASSUME NEW w \in Writer, AppendCheckpoint(w)
      PROVE  Shape'
  <2> DEFINE r == HeadRecord(Head(heads[w]))
  <2>1. r \in AnyRecord /\ r.count <= Len(log)
    BY <1>6, NextHead, LenProperties DEF AppendCheckpoint, HeadRecord
  <2>2. Write(r)
    BY <1>6 DEF AppendCheckpoint
  <2>3. journal' \in Seq(AnyRecord) /\ anchored' \in Seq(Nat) /\ everAnchored' \in SUBSET Nat
    BY <2>1, <2>2, WriteShape
  <2>4. "idle" \in Phase
    BY DEF Phase
  <2>5. CASE Len(heads[w]) = 1
    BY <1>6, <2>3, <2>4, <2>5, LeaveShape DEF AppendCheckpoint
  <2>6. CASE Len(heads[w]) # 1
    <3>1. heads[w] \in Seq(AnyHead) /\ heads[w] # <<>>
      BY <1>6 DEF AppendCheckpoint, Heads, CommittedAt
    <3>2. Tail(heads[w]) \in Seq(AnyHead)
      BY <3>1, HeadTailProperties
    <3> QED
      BY <1>6, <2>3, <2>6, <3>2 DEF AppendCheckpoint
  <2> QED
    BY <2>5, <2>6
<1>7. ASSUME NEW w \in Writer, FailCheckpoint(w)
      PROVE  Shape'
  <2> DEFINE r == HeadRecord(Head(heads[w]))
  <2>1. r \in AnyRecord /\ r.count <= Len(log)
    BY <1>7, NextHead, LenProperties DEF FailCheckpoint, HeadRecord
  <2>2. journal' \in Seq(AnyRecord) /\ anchored' \in Seq(Nat) /\ everAnchored' \in SUBSET Nat
    <3>1. CASE Write(r)
      BY <2>1, <3>1, WriteShape
    <3>2. CASE UNCHANGED <<journal, anchored, everAnchored>>
      BY <3>2
    <3> QED
      BY <1>7, <3>1, <3>2 DEF FailCheckpoint
  <2>3. "idle" \in Phase
    BY DEF Phase
  <2>4. tail' \in {"whole", "partial", "unterminated", "garbled"}
    BY <1>7 DEF FailCheckpoint
  <2> QED
    BY <1>7, <2>2, <2>3, <2>4, LeaveShape DEF FailCheckpoint
<1>8. ASSUME NEW w \in Writer, Crash(w)
      PROVE  Shape'
  <2>1. "down" \in Phase
    BY DEF Phase
  <2> QED
    BY <1>8, <2>1, LeaveShape DEF Crash
<1>9. ASSUME NEW w \in Writer, Start(w)
      PROVE  Shape'
  BY <1>9 DEF Start, Phase
<1>10. ASSUME NEW w \in Clerk, ChangeFirst(w)
       PROVE  Shape'
  <2>1. w \in Writer /\ "owing" \in Phase
    BY DEF Writer, Phase
  <2> QED
    BY <1>10, <2>1 DEF ChangeFirst
<1>11. CASE TakeDump
  <2>1. [log |-> log, changes |-> changes] \in Dump
    BY DEF Dump
  <2> QED
    BY <1>11, <2>1 DEF TakeDump
<1>12. CASE Restore
  <2>1. log' \in Seq(AnyRow) /\ changes' \in SUBSET Nat
    BY <1>12 DEF Restore, Dump
  <2> QED
    BY <1>12, <2>1 DEF Restore
<1>13. ASSUME NEW seal \in 1..Len(journal), Reconcile(seal)
       PROVE  Shape'
  <2> DEFINE r == [kind |-> "reconcile", epoch |-> Latest.epoch + 1, count |-> Len(log),
                   head |-> HeadOf(log), anchored_from |-> Len(log)]
  <2>1. CASE tail = "whole" /\ Write(r) /\ UNCHANGED tail
    <3>1. r \in AnyRecord /\ r.count <= Len(log)
      <4>1. Latest \in AnyRecord
        BY <1>13, EmptySeq, LenProperties, ElementOfSeq DEF Reconcile, Latest
      <4>2. Latest.epoch \in Nat
        BY <4>1 DEF AnyRecord
      <4>3. HeadOf(log) \in Nat /\ Len(log) \in Nat
        BY HeadOfType, LenProperties
      <4>4. Len(log) <= Len(log)
        BY <4>3
      <4> HIDE DEF Shape, AuditInv
      <4> QED
        BY <4>2, <4>3, <4>4 DEF AnyRecord
    <3>2. journal' \in Seq(AnyRecord) /\ anchored' \in Seq(Nat) /\ everAnchored' \in SUBSET Nat
      BY <2>1, <3>1, WriteShape
    <3> QED
      BY <1>13, <2>1, <3>2 DEF Reconcile
  <2>2. CASE tail' = "garbled" /\ UNCHANGED <<journal, anchored, everAnchored>>
    BY <1>13, <2>2 DEF Reconcile
  <2> QED
    BY <1>13, <2>1, <2>2 DEF Reconcile
<1>14. CASE UNCHANGED vars
  BY <1>14 DEF vars
<1> QED
  BY <1>1, <1>2, <1>3, <1>4, <1>5, <1>6, <1>7, <1>8, <1>9, <1>10, <1>11, <1>12, <1>13, <1>14 DEF Next, Step

\* A writer that leaves gives back its locks and nobody else's.
LEMMA LeaveLocks ==
    ASSUME Shape, Locks, NEW w \in Writer, NEW where \in {"idle", "down"}, Leave(w, where),
           UNCHANGED journaled
    PROVE  Locks'
BY DEF Shape, Locks, LocksAt, Leave

\* serialize_writer and checkpoint_lock: every step keeps the discipline of the locks.
LEMMA LocksStep ==
    ASSUME AuditInv, [Next]_vars
    PROVE  Locks'
<1> USE DEF AuditInv
<1>1. ASSUME NEW w \in Writer, TakeLock(w)
      PROVE  Locks'
  <2>1. /\ phase \in [Writer -> Phase] /\ phase[w] \in {"idle", "owing"}
        /\ phase' = [phase EXCEPT ![w] = "locked"]
        /\ journaled => flock = NoWriter /\ flock' = w
        /\ UNCHANGED <<rows, heads, dblock, journaled>>
    BY <1>1 DEF TakeLock, Shape, conf_vars
  <2>2. NoWriter \notin Writer
    BY ConstantsAssumption
  <2> QED
    BY <2>1, <2>2 DEF Locks, LocksAt
<1>2. ASSUME NEW w \in Writer, Begin(w)
      PROVE  Locks'
  <2>1. /\ phase \in [Writer -> Phase] /\ phase[w] = "locked"
        /\ phase' = [phase EXCEPT ![w] = "open"]
        /\ dblock' = dblock \/ (dblock = NoWriter /\ dblock' = w)
        /\ UNCHANGED <<rows, heads, flock, journaled>>
    BY <1>2 DEF Begin, Shape, conf_vars
  <2>2. NoWriter \notin Writer
    BY ConstantsAssumption
  <2> QED
    BY <2>1, <2>2 DEF Locks, LocksAt
<1>3. ASSUME NEW w \in Writer, Audit(w)
      PROVE  Locks'
  <2>1. /\ phase[w] = "open" /\ UNCHANGED <<phase, flock, journaled>>
        /\ dblock \in {w, NoWriter} /\ dblock' = w
        /\ \A v \in Writer \ {w} : rows'[v] = rows[v] /\ heads'[v] = heads[v]
    BY <1>3, AuditEffect DEF Shape, conf_vars
  <2> QED
    BY <2>1, ConstantsAssumption DEF Locks, LocksAt, Shape
<1>4. ASSUME NEW w \in Writer, Rollback(w)
      PROVE  Locks'
  BY <1>4, LeaveLocks DEF Rollback, conf_vars
<1>5. ASSUME NEW w \in Writer, Commit(w)
      PROVE  Locks'
  <2>1. CASE journaled
    <3>1. /\ phase' = [phase EXCEPT ![w] = "committed"] /\ dblock' = NoWriter
          /\ rows' = [rows EXCEPT ![w] = <<>>]
          /\ UNCHANGED <<flock, heads, journaled>> /\ phase[w] = "open" /\ rows[w] # <<>>
      BY <1>5, <2>1 DEF Commit, conf_vars
    <3>2. dblock = w /\ flock = w
      BY <2>1, <3>1 DEF Locks, LocksAt
    <3> QED
      BY <2>1, <3>1, <3>2 DEF Locks, LocksAt, Shape
  <2>2. CASE ~journaled
    BY <1>5, <2>2, LeaveLocks DEF Commit, conf_vars
  <2> QED
    BY <2>1, <2>2
<1>6. ASSUME NEW w \in Writer, AppendCheckpoint(w)
      PROVE  Locks'
  <2>1. CASE Len(heads[w]) = 1
    BY <1>6, <2>1, LeaveLocks DEF AppendCheckpoint, conf_vars
  <2>2. CASE Len(heads[w]) # 1
    <3>1. /\ heads' = [heads EXCEPT ![w] = Tail(@)] /\ phase[w] = "committed"
          /\ UNCHANGED <<flock, dblock, phase, rows, journaled>>
      BY <1>6, <2>2 DEF AppendCheckpoint, conf_vars
    <3>2. \A v \in Writer \ {w} : heads'[v] = heads[v]
      BY <3>1 DEF Shape
    <3> QED
      BY <3>1, <3>2 DEF Locks, LocksAt
  <2> QED
    BY <2>1, <2>2
<1>7. ASSUME NEW w \in Writer, FailCheckpoint(w)
      PROVE  Locks'
  BY <1>7, LeaveLocks DEF FailCheckpoint, conf_vars
<1>8. ASSUME NEW w \in Writer, Crash(w)
      PROVE  Locks'
  BY <1>8, LeaveLocks DEF Crash, conf_vars
<1>9. ASSUME NEW w \in Writer, Start(w)
      PROVE  Locks'
  BY <1>9 DEF Start, Locks, LocksAt, Shape, conf_vars, db_vars, file_vars, txn_vars
<1>10. ASSUME NEW w \in Clerk, ChangeFirst(w)
       PROVE  Locks'
  <2>1. w \in Writer
    BY DEF Writer
  <2> QED
    BY <1>10, <2>1 DEF ChangeFirst, Locks, LocksAt, Shape, conf_vars
<1>11. CASE TakeDump
  BY <1>11 DEF TakeDump, Locks, LocksAt, Shape, conf_vars, db_vars, file_vars, txn_vars
<1>12. CASE Restore
  BY <1>12 DEF Restore, Locks, LocksAt, Shape, conf_vars, db_vars, file_vars, txn_vars
<1>13. ASSUME NEW seal \in 1..Len(journal), Reconcile(seal)
       PROVE  Locks'
  BY <1>13 DEF Reconcile, Locks, LocksAt, Shape, conf_vars, db_vars, file_vars, txn_vars
<1>14. CASE UNCHANGED vars
  BY <1>14 DEF vars, Locks, LocksAt, Shape, conf_vars, db_vars, file_vars, txn_vars
<1> QED
  BY <1>1, <1>2, <1>3, <1>4, <1>5, <1>6, <1>7, <1>8, <1>9, <1>10, <1>11, <1>12, <1>13, <1>14 DEF Next, Step

-----------------------------------------------------------------------------
(***************************************************************************)
(* The chain and the unit of work.                                         *)
(***************************************************************************)

\* A step that neither writes nor replaces audit rows: transactions may lose theirs, a
\* clerk may commit a change.
Quiet ==
    /\ UNCHANGED <<log, dumps>>
    /\ \A v \in Writer : rows'[v] = rows[v] \/ rows'[v] = <<>>
    /\ \/ UNCHANGED <<changes, loose>>
       \/ \E c \in Nat : changes' = changes \cup {c} /\ loose' = loose \cup {c}

\* Leaving takes a writer's rows and no others.
LEMMA LeaveRows ==
    ASSUME Shape, NEW w \in Writer, NEW where, Leave(w, where)
    PROVE  \A v \in Writer : rows'[v] = rows[v] \/ rows'[v] = <<>>
BY DEF Shape, Leave

\* Only record_audit, a commit, a dump and a restore touch audit rows.
LEMMA StepKinds ==
    ASSUME AuditInv, [Next]_vars
    PROVE  \/ \E w \in Writer : Audit(w) \/ Commit(w)
           \/ Restore \/ TakeDump \/ Quiet
<1> USE DEF AuditInv, conf_vars, db_vars, file_vars, txn_vars
<1>1. ASSUME NEW w \in Writer, TakeLock(w) \/ Begin(w) \/ Start(w)
      PROVE  Quiet
  BY <1>1 DEF TakeLock, Begin, Start, Quiet
<1>2. ASSUME NEW w \in Writer, Rollback(w) \/ FailCheckpoint(w) \/ Crash(w)
      PROVE  Quiet
  BY <1>2, LeaveRows DEF Rollback, FailCheckpoint, Crash, Quiet
<1>3. ASSUME NEW w \in Writer, AppendCheckpoint(w)
      PROVE  Quiet
  BY <1>3, LeaveRows DEF AppendCheckpoint, Quiet
<1>4. ASSUME NEW w \in Clerk, ChangeFirst(w)
      PROVE  Quiet
  <2>1. fresh + 1 \in Nat
    BY DEF Shape
  <2> QED
    BY <1>4, <2>1 DEF ChangeFirst, Quiet
<1>5. ASSUME NEW seal, Reconcile(seal)
      PROVE  Quiet
  BY <1>5 DEF Reconcile, Quiet
<1>6. CASE UNCHANGED vars
  BY <1>6 DEF vars, Quiet
<1> QED
  BY <1>1, <1>2, <1>3, <1>4, <1>5, <1>6 DEF Next, Step

\* A writer with rows in its transaction is the only one, and its commit leaves none.
LEMMA OnlyWriter ==
    ASSUME Shape, Locks, NEW w \in Writer, Commit(w)
    PROVE  \A v \in Writer : rows'[v] = <<>>
<1>1. \A v \in Writer : rows[v] # <<>> => v = w
  BY DEF Commit, Locks, LocksAt
<1>2. rows' = [rows EXCEPT ![w] = <<>>]
  BY DEF Commit, Leave
<1> QED
  BY <1>1, <1>2 DEF Shape

\* A database is restored while no transaction has rows.
LEMMA RestoreRows ==
    ASSUME Shape, Locks, Restore
    PROVE  \A v \in Writer : rows'[v] = <<>>
BY DEF Restore, Locks, LocksAt, txn_vars

\* A row that names the head as its predecessor extends a chain.
LEMMA LinkedAppend ==
    ASSUME NEW l \in Seq(AnyRow), Linked(l), NEW h \in Nat
    PROVE  Linked(Append(l, [hash |-> h, prev |-> HeadOf(l)]))
<1> DEFINE r == [hash |-> h, prev |-> HeadOf(l)]
           u == Append(l, r)
<1>1. r \in AnyRow /\ r.prev = HeadOf(l)
  BY HeadOfType DEF AnyRow
<1>2. Len(l) \in Nat
  BY LenProperties
<1> HIDE DEF r
<1>3. /\ u \in Seq(AnyRow) /\ Len(u) = Len(l) + 1 /\ u[Len(l) + 1] = r
      /\ \A i \in 1..Len(l) : u[i] = l[i]
  BY <1>1, AppendProperties
<1> HIDE DEF u
<1>4. ASSUME NEW i \in 1..Len(u)
      PROVE  u[i].prev = IF i = 1 THEN GENESIS_HASH ELSE u[i - 1].hash
  <2>1. CASE i \in 1..Len(l)
    <3>1. i # 1 => i - 1 \in 1..Len(l)
      BY <1>2, <2>1
    <3> QED
      BY <1>3, <2>1, <3>1 DEF Linked
  <2>2. CASE i = Len(l) + 1
    <3>1. CASE l = <<>>
      BY <1>1, <1>3, <2>2, <3>1 DEF HeadOf
    <3>2. CASE l # <<>>
      <4>1. Len(l) # 0
        BY <3>2, EmptySeq
      <4>2. i # 1 /\ i - 1 = Len(l) /\ Len(l) \in 1..Len(l)
        BY <1>2, <2>2, <4>1
      <4> QED
        BY <1>1, <1>3, <2>2, <3>2, <4>2 DEF HeadOf
    <3> QED
      BY <3>1, <3>2
  <2> QED
    BY <1>2, <1>3, <2>1, <2>2
<1> QED
  BY <1>4 DEF Linked, u, r

\* "concurrent writes can't fork the chain": every step keeps the log, what each
\* transaction sees of it and the dumps linked.
LEMMA ChainedStep ==
    ASSUME AuditInv, [Next]_vars
    PROVE  Chained'
<1> USE DEF AuditInv
<1>1. ASSUME NEW w \in Writer, Audit(w)
      PROVE  Chained'
  <2> DEFINE view == log \o rows[w]
  <2>1. view \in Seq(AnyRow) /\ Linked(view)
    BY ConcatProperties DEF Shape, Chained
  <2>2. rows[w] \in Seq(AnyRow) /\ log \in Seq(AnyRow)
    BY DEF Shape
  <2>3. Linked(log \o Append(rows[w], NewRow(w)))
    BY <1>1, <2>1, <2>2, AuditEffect, ViewAppend, LinkedAppend DEF NewRow
  <2>4. /\ rows'[w] = Append(rows[w], NewRow(w))
        /\ \A v \in Writer \ {w} : rows'[v] = rows[v]
        /\ UNCHANGED <<log, dumps>>
    BY <1>1, AuditEffect DEF Shape, db_vars
  <2> QED
    BY <2>3, <2>4 DEF Chained
<1>2. ASSUME NEW w \in Writer, Commit(w)
      PROVE  Chained'
  <2>1. log' = log \o rows[w] /\ dumps' = dumps
    BY <1>2 DEF Commit
  <2>2. log' \in Seq(AnyRow)
    BY <2>1, ConcatProperties DEF Shape
  <2>3. \A v \in Writer : log' \o rows'[v] = log'
    BY <1>2, <2>2, OnlyWriter, ViewEmpty
  <2> QED
    BY <2>1, <2>3 DEF Chained
<1>3. CASE Restore
  <2>1. PICK d \in dumps : log' = d.log
    BY <1>3 DEF Restore
  <2>2. log' \in Seq(AnyRow) /\ dumps' = dumps
    BY <1>3, <2>1 DEF Shape, Dump, Restore
  <2>3. \A v \in Writer : log' \o rows'[v] = log'
    BY <1>3, <2>2, RestoreRows, ViewEmpty
  <2> QED
    BY <2>1, <2>2, <2>3 DEF Chained
<1>4. CASE TakeDump
  BY <1>4 DEF TakeDump, Chained, db_vars, txn_vars
<1>5. CASE Quiet
  <2>1. \A v \in Writer : log \o rows'[v] = log \o rows[v] \/ log \o rows'[v] = log
    BY <1>5, ViewEmpty DEF Quiet, Shape
  <2> QED
    BY <1>5, <2>1 DEF Quiet, Chained
<1> QED
  BY <1>1, <1>2, <1>3, <1>4, <1>5, StepKinds

\* The hashes of a log after a commit.
LEMMA HashSetConcat ==
    ASSUME NEW l \in Seq(AnyRow), NEW m \in Seq(AnyRow)
    PROVE  HashSet(l \o m) = HashSet(l) \cup HashSet(m)
<1> DEFINE u == l \o m
<1>1. /\ Len(l) \in Nat /\ Len(m) \in Nat /\ Len(u) = Len(l) + Len(m)
      /\ \A i \in 1..(Len(l) + Len(m)) : u[i] = IF i <= Len(l) THEN l[i] ELSE m[i - Len(l)]
  BY LenProperties, ConcatProperties
<1> HIDE DEF u
<1>2. ASSUME NEW i \in 1..Len(u)
      PROVE  u[i].hash \in HashSet(l) \cup HashSet(m)
  <2>1. CASE i <= Len(l)
    BY <1>1, <2>1 DEF HashSet
  <2>2. CASE ~(i <= Len(l))
    <3>1. i - Len(l) \in 1..Len(m) /\ u[i] = m[i - Len(l)]
      BY <1>1, <2>2
    <3> QED
      BY <3>1 DEF HashSet
  <2> QED
    BY <2>1, <2>2
<1>3. ASSUME NEW i \in 1..Len(l)
      PROVE  l[i].hash \in HashSet(u)
  <2>1. i \in 1..Len(u) /\ u[i] = l[i]
    BY <1>1
  <2> QED
    BY <2>1 DEF HashSet
<1>4. ASSUME NEW i \in 1..Len(m)
      PROVE  m[i].hash \in HashSet(u)
  <2>1. PICK k : k = i + Len(l)
    OBVIOUS
  <2>2. k \in 1..(Len(l) + Len(m)) /\ ~(k <= Len(l)) /\ k - Len(l) = i
    BY <1>1, <2>1
  <2>3. u[k] = IF k <= Len(l) THEN l[k] ELSE m[k - Len(l)]
    BY <1>1, <2>2
  <2>4. k \in 1..Len(u) /\ u[k] = m[i]
    BY <1>1, <2>2, <2>3
  <2> QED
    BY <2>4 DEF HashSet
<1>5. HashSet(u) = HashSet(l) \cup HashSet(m)
  BY <1>2, <1>3, <1>4 DEF HashSet
<1> QED
  BY <1>5 DEF u

\* unit_of_work: every step keeps changes and audit rows together, but for the changes
\* that clerks commit on their own.
LEMMA AtomicStep ==
    ASSUME AuditInv, [Next]_vars
    PROVE  Atomic'
<1> USE DEF AuditInv
<1>1. ASSUME NEW w \in Writer, Audit(w)
      PROVE  Atomic'
  BY <1>1 DEF Audit, Atomic, db_vars
<1>2. ASSUME NEW w \in Writer, Commit(w)
      PROVE  Atomic'
  <2>1. /\ log' = log \o rows[w] /\ changes' = changes \cup HashSet(rows[w])
        /\ UNCHANGED <<dumps, loose>>
    BY <1>2 DEF Commit, HashSet
  <2>2. HashSet(log') = HashSet(log) \cup HashSet(rows[w])
    BY <2>1, HashSetConcat DEF Shape
  <2> QED
    BY <2>1, <2>2 DEF Atomic
<1>3. CASE Restore
  BY <1>3 DEF Restore, Atomic
<1>4. CASE TakeDump
  BY <1>4 DEF TakeDump, Atomic, db_vars
<1>5. CASE Quiet
  BY <1>5 DEF Quiet, Atomic
<1> QED
  BY <1>1, <1>2, <1>3, <1>4, <1>5, StepKinds

-----------------------------------------------------------------------------
(***************************************************************************)
(* Histories.                                                              *)
(***************************************************************************)

\* Every known history is a sequence of hashes.
LEMMA KnownType ==
    ASSUME Shape
    PROVE  Known \in SUBSET Seq(Nat)
<1>1. \A w \in Writer : log \o rows[w] \in Seq(AnyRow)
  BY ConcatProperties DEF Shape
<1>2. \A d \in dumps : d.log \in Seq(AnyRow)
  BY DEF Shape, Dump
<1>3. log \in Seq(AnyRow) /\ anchored \in Seq(Nat)
  BY DEF Shape
<1> QED
  BY <1>1, <1>2, <1>3, HashesType DEF Known

\* No step but a clerk's own commit makes a clerk owe an entry.
LEMMA PendingKept ==
    ASSUME AuditInv, [Next]_vars, ~\E w \in Clerk : ChangeFirst(w)
    PROVE  \A v \in Writer : Pending(v)' => Pending(v) /\ owed'[v] = owed[v]
<1> USE DEF AuditInv, conf_vars, db_vars, file_vars, txn_vars
<1> DEFINE P == \A v \in Writer : Pending(v)' => Pending(v) /\ owed'[v] = owed[v]
<1>1. phase \in [Writer -> Phase] /\ owed \in [Writer -> Nat] /\ rows \in [Writer -> Seq(AnyRow)]
  BY DEF Shape
<1>2. \A v \in Writer : phase[v] # "open" => rows[v] = <<>>
  BY DEF Locks, LocksAt
<1>3. ASSUME NEW w \in Writer, NEW where \in {"idle", "down"}, Leave(w, where)
      PROVE  P
  BY <1>1, <1>3 DEF Leave, Pending
<1>4. ASSUME NEW w \in Writer, TakeLock(w)
      PROVE  P
  BY <1>1, <1>2, <1>4 DEF TakeLock, Pending
<1>5. ASSUME NEW w \in Writer, Begin(w)
      PROVE  P
  BY <1>1, <1>5 DEF Begin, Pending
<1>6. ASSUME NEW w \in Writer, Audit(w)
      PROVE  P
  <2>1. Append(rows[w], NewRow(w)) # <<>>
    BY <1>1, <1>6, AuditEffect, AppendProperties
  <2>2. /\ rows' = [rows EXCEPT ![w] = Append(rows[w], NewRow(w))]
        /\ UNCHANGED <<phase, owed>>
    BY <1>6, AuditEffect
  <2> QED
    BY <1>1, <2>1, <2>2 DEF Pending
<1>7. ASSUME NEW w \in Writer, Commit(w)
      PROVE  P
  <2>1. CASE journaled
    <3>1. /\ phase' = [phase EXCEPT ![w] = "committed"]
          /\ rows' = [rows EXCEPT ![w] = <<>>]
          /\ owed' = [owed EXCEPT ![w] = 0]
      BY <1>7, <2>1 DEF Commit
    <3> QED
      BY <1>1, <3>1 DEF Pending
  <2>2. CASE ~journaled
    BY <1>3, <1>7, <2>2 DEF Commit
  <2> QED
    BY <2>1, <2>2
<1>8. ASSUME NEW w \in Writer, AppendCheckpoint(w)
      PROVE  P
  <2>1. CASE Leave(w, "idle")
    BY <1>3, <2>1
  <2>2. CASE UNCHANGED <<phase, rows, owed>>
    BY <2>2 DEF Pending
  <2> QED
    BY <1>8, <2>1, <2>2 DEF AppendCheckpoint
<1>9. ASSUME NEW w \in Writer, Rollback(w) \/ FailCheckpoint(w) \/ Crash(w)
      PROVE  P
  BY <1>3, <1>9 DEF Rollback, FailCheckpoint, Crash
<1>10. ASSUME NEW w \in Writer, Start(w)
       PROVE  P
  BY <1>1, <1>10 DEF Start, Pending
<1>11. CASE TakeDump \/ Restore \/ UNCHANGED vars
  BY <1>11 DEF TakeDump, Restore, vars, Pending
<1>12. ASSUME NEW seal, Reconcile(seal)
       PROVE  P
  BY <1>12 DEF Reconcile, Pending
<1> QED
  BY <1>4, <1>5, <1>6, <1>7, <1>8, <1>9, <1>10, <1>11, <1>12 DEF Next, Step

\* A step that brings no new hash keeps the histories a tree if it adds no fork.
LEMMA HistoriesFrame ==
    ASSUME AuditInv, [Next]_vars, ~\E w \in Clerk : ChangeFirst(w),
           Tree(Known'), UNCHANGED fresh,
           \A s \in Known' : \A i \in 1..Len(s) :
               \E t \in Known : \E j \in 1..Len(t) : t[j] = s[i]
    PROVE  Histories'
<1>1. \A v \in Writer : Pending(v)' => Pending(v) /\ owed'[v] = owed[v]
  BY PendingKept
<1>2. \A h : Unused(h) => Unused(h)'
  BY DEF Unused
<1> QED
  BY <1>1, <1>2 DEF Histories, AuditInv

\* A step after which there are only histories that were there before.
LEMMA HistoriesFewer ==
    ASSUME AuditInv, [Next]_vars, ~\E w \in Clerk : ChangeFirst(w), UNCHANGED fresh,
           Known' \subseteq Known
    PROVE  Histories'
<1>1. Tree(Known')
  BY DEF Tree, AuditInv, Histories
<1> QED
  BY <1>1, HistoriesFrame

\* A checkpoint covers the first rows of the log.
LEMMA HistoriesWrite ==
    ASSUME AuditInv, [Next]_vars, ~\E w \in Clerk : ChangeFirst(w), UNCHANGED fresh,
           NEW r \in AnyRecord, r.count <= Len(log), Write(r), Quiet
    PROVE  Histories'
<1> USE DEF AuditInv
<1> DEFINE H == Hashes(log)
<1>1. r.count \in Nat /\ H \in Known /\ H \in Seq(Nat) /\ Len(H) = Len(log)
  BY HashesType DEF AnyRecord, Known, Shape
<1>2. anchored' = SubSeq(H, 1, r.count) /\ Len(anchored') = r.count
      /\ \A i \in 1..r.count : anchored'[i] = log[i].hash
  BY WriteShape
<1>3. Known' \subseteq Known \cup {anchored'}
  <2>1. \A v \in Writer : log \o rows'[v] = log \o rows[v] \/ log \o rows'[v] = log
    BY ViewEmpty DEF Quiet, Shape
  <2> QED
    BY <2>1 DEF Known, Quiet
<1>4. \A i \in 1..r.count : i \in 1..Len(H) /\ anchored'[i] = H[i]
  BY <1>1, <1>2, HashesType, LenProperties DEF Shape
<1> HIDE DEF H
<1>5. Tree(Known')
  <2>1. Known \in SUBSET Seq(Nat) /\ Tree(Known)
    BY KnownType DEF Histories
  <2> QED
    BY <1>1, <1>2, <1>3, <2>1, TreePrefix
<1>6. ASSUME NEW s \in Known', NEW i \in 1..Len(s)
      PROVE  \E t \in Known : \E j \in 1..Len(t) : t[j] = s[i]
  BY <1>1, <1>2, <1>3, <1>4, <1>6
<1> QED
  BY <1>5, <1>6, HistoriesFrame

\* A record that may follow in the journal: a committed writer's next head, or a
\* reconciliation.
Recording(r) ==
    /\ journaled /\ Write(r) /\ Quiet /\ UNCHANGED fresh
    /\ r.count <= Len(log)
    /\ r.head = IF r.count = 0 THEN GENESIS_HASH ELSE log[r.count].hash
    /\ \/ /\ r.kind = "head" /\ r.count > Len(anchored) /\ Prefix(anchored, Hashes(log))
          /\ journal # <<>> => r.epoch = Latest.epoch
       \/ /\ r.kind = "reconcile" /\ r.epoch # Latest.epoch
          /\ r.count = Len(log) /\ journal # <<>>

\* append_checkpoint for the next head of a committed writer.
LEMMA HeadRecording ==
    ASSUME AuditInv, NEW w \in Writer, phase[w] = "committed", Quiet, UNCHANGED fresh,
           Write(HeadRecord(Head(heads[w])))
    PROVE  \E r \in AnyRecord : Recording(r)
<1> USE DEF AuditInv
<1> DEFINE h == Head(heads[w])
           r == HeadRecord(h)
<1>1. /\ h \in AnyHead /\ h.count \in 1..Len(log) /\ h.count > Len(anchored)
      /\ h.head = log[h.count].hash /\ r \in AnyRecord
  BY NextHead
<1>2. journaled /\ Prefix(anchored, Hashes(log)) /\ Len(log) \in Nat
  BY LenProperties DEF Locks, LocksAt, Heads, CommittedAt, Shape
<1>3. /\ r.kind = "head" /\ r.count = h.count /\ r.head = h.head
      /\ journal # <<>> => r.epoch = Latest.epoch
  BY DEF HeadRecord
<1>4. Write(r)
  OBVIOUS
<1> HIDE DEF AuditInv, h, r
<1>5. r.count <= Len(log) /\ r.count # 0
  BY <1>1, <1>2, <1>3
<1> QED
  BY <1>1, <1>2, <1>3, <1>4, <1>5 DEF Recording

\* Only append_checkpoint and a reconciliation write to the journal.
LEMMA FileKinds ==
    ASSUME AuditInv, [Next]_vars
    PROVE  \/ UNCHANGED <<journal, anchored, everAnchored>>
           \/ \E r \in AnyRecord : Recording(r)
<1> USE DEF AuditInv, conf_vars, db_vars, file_vars, txn_vars
<1> DEFINE P == \/ UNCHANGED <<journal, anchored, everAnchored>>
                \/ \E r \in AnyRecord : Recording(r)
<1>1. ASSUME NEW w \in Writer, AppendCheckpoint(w)
      PROVE  P
  <2>1. Quiet
    BY <1>1, LeaveRows DEF AppendCheckpoint, Quiet
  <2> QED
    BY <1>1, <2>1, HeadRecording DEF AppendCheckpoint
<1>2. ASSUME NEW w \in Writer, FailCheckpoint(w)
      PROVE  P
  <2>1. Quiet
    BY <1>2, LeaveRows DEF FailCheckpoint, Quiet
  <2> QED
    BY <1>2, <2>1, HeadRecording DEF FailCheckpoint
<1>3. ASSUME NEW seal \in 1..Len(journal), Reconcile(seal)
      PROVE  P
  <2> DEFINE r == [kind |-> "reconcile", epoch |-> Latest.epoch + 1, count |-> Len(log),
                   head |-> HeadOf(log), anchored_from |-> Len(log)]
  <2>1. CASE Write(r)
    <3>1. journaled /\ Quiet /\ UNCHANGED fresh /\ journal # <<>>
      BY <1>3 DEF Reconcile, Quiet
    <3>2. Latest \in AnyRecord
      BY <1>3, EmptySeq, LenProperties, ElementOfSeq DEF Reconcile, Latest, Shape
    <3>3. Latest.epoch \in Nat
      BY <3>2 DEF AnyRecord
    <3>4. HeadOf(log) \in Nat /\ Len(log) \in Nat /\ (log = <<>> <=> Len(log) = 0)
      BY HeadOfType, LenProperties, EmptySeq DEF Shape
    <3> HIDE DEF AuditInv
    <3>5. r \in AnyRecord
      BY <3>3, <3>4 DEF AnyRecord
    <3>6. /\ r.count <= Len(log) /\ r.epoch # Latest.epoch /\ r.kind = "reconcile"
          /\ r.count = Len(log)
          /\ r.head = IF r.count = 0 THEN GENESIS_HASH ELSE log[r.count].hash
      <4>1. /\ r.epoch = Latest.epoch + 1 /\ r.kind = "reconcile" /\ r.count = Len(log)
            /\ r.head = HeadOf(log)
        OBVIOUS
      <4>2. HeadOf(log) = IF Len(log) = 0 THEN GENESIS_HASH ELSE log[Len(log)].hash
        BY <3>4 DEF HeadOf
      <4> HIDE DEF r
      <4>3. r.count <= Len(log) /\ r.epoch # Latest.epoch
        BY <3>3, <3>4, <4>1
      <4> QED
        BY <4>1, <4>2, <4>3
    <3> HIDE DEF r
    <3> QED
      BY <2>1, <3>1, <3>5, <3>6 DEF Recording
  <2>2. CASE UNCHANGED <<journal, anchored, everAnchored>>
    BY <2>2
  <2> QED
    BY <1>3, <2>1, <2>2 DEF Reconcile
<1>4. ASSUME NEW w \in Writer,
             \/ TakeLock(w) \/ Begin(w) \/ Audit(w) \/ Rollback(w) \/ Commit(w)
             \/ Crash(w) \/ Start(w)
      PROVE  P
  BY <1>4 DEF TakeLock, Begin, Audit, Rollback, Commit, Crash, Start
<1>5. ASSUME NEW w \in Clerk, ChangeFirst(w)
      PROVE  P
  BY <1>5 DEF ChangeFirst
<1>6. CASE TakeDump \/ Restore \/ UNCHANGED vars
  BY <1>6 DEF TakeDump, Restore, vars
<1> QED
  BY <1>1, <1>2, <1>3, <1>4, <1>5, <1>6 DEF Next, Step

\* The entry of the row record_audit appends has not been used, and nobody else owes it.
LEMMA EntryUnused ==
    ASSUME AuditInv, NEW w \in Writer, Audit(w)
    PROVE  /\ Entry(w) \in 1..fresh' /\ Unused(Entry(w)) /\ fresh' >= fresh
           /\ \A v \in Writer \ {w} : Pending(v) => owed[v] # Entry(w)
<1> USE DEF AuditInv
<1>1. fresh \in Nat /\ \A v \in Writer : owed[v] \in Nat
  BY DEF Shape
<1>2. \A v \in Writer : Pending(v) => owed[v] \in 1..fresh /\ Unused(owed[v])
  BY DEF Histories
<1>3. CASE w \in Clerk
  <2>1. Pending(w) /\ Entry(w) = owed[w] /\ fresh' = fresh
    BY <1>3, AuditEffect DEF Pending, Entry
  <2>2. \A v \in Writer \ {w} : Pending(v) => owed[v] # Entry(w)
    BY <2>1 DEF Histories
  <2> QED
    BY <1>1, <1>2, <2>1, <2>2
<1>4. CASE w \notin Clerk
  <2>1. Entry(w) = fresh + 1 /\ fresh' = fresh + 1
    BY <1>4, AuditEffect DEF Entry
  <2>2. \A s \in Known : \A i \in 1..Len(s) : s[i] \in 1..fresh
    BY DEF Histories
  <2> HIDE DEF AuditInv
  <2>3. Unused(fresh + 1)
    BY <1>1, <2>2 DEF Unused
  <2> QED
    BY <1>1, <1>2, <2>1, <2>3
<1> QED
  BY <1>3, <1>4

\* A hash determines the history before it: every step keeps the histories a tree.
LEMMA HistoriesStep ==
    ASSUME AuditInv, [Next]_vars
    PROVE  Histories'
<1> USE DEF AuditInv
<1>0. fresh \in Nat
  BY DEF Shape
<1>1. ASSUME NEW w \in Writer, Audit(w)
      PROVE  Histories'
  <2> DEFINE s == Hashes(log \o rows[w])
             a == Append(s, Entry(w))
  <2>1. /\ rows'[w] = Append(rows[w], NewRow(w))
        /\ \A v \in Writer \ {w} : rows'[v] = rows[v]
        /\ UNCHANGED <<log, dumps, anchored, owed, phase>>
        /\ NewRow(w) \in AnyRow /\ NewRow(w).hash = Entry(w) /\ Entry(w) \in Nat
    BY <1>1, AuditEffect DEF Shape, db_vars, file_vars, NewRow
  <2>2. Hashes(log \o rows'[w]) = a
    <3>1. log \in Seq(AnyRow) /\ rows[w] \in Seq(AnyRow)
      BY DEF Shape
    <3> QED
      BY <2>1, <3>1, ViewAppend
  <2>3. Known' \subseteq Known \cup {a}
    BY <2>1, <2>2 DEF Known
  <2>4. s \in Known /\ Known \in SUBSET Seq(Nat)
    BY KnownType DEF Known
  <2>5. /\ Entry(w) \in 1..fresh' /\ Unused(Entry(w)) /\ fresh' >= fresh
        /\ \A v \in Writer \ {w} : Pending(v) => owed[v] # Entry(w)
    BY <1>1, EntryUnused
  <2>6. Tree(Known')
    BY <2>1, <2>3, <2>4, <2>5, TreeAppend DEF Unused, Histories
  <2>7. /\ Len(s) \in Nat /\ Len(a) = Len(s) + 1 /\ a[Len(s) + 1] = Entry(w)
        /\ \A i \in 1..Len(s) : a[i] = s[i]
    BY <2>1, <2>4, AppendProperties, LenProperties
  <2>8. \A t \in Known : \A i \in 1..Len(t) : t[i] \in 1..fresh
    BY DEF Histories
  <2>9. fresh' \in Nat
    BY ShapeStep DEF Shape
  <2> HIDE DEF a, s
  <2>10. ASSUME NEW t \in Known', NEW i \in 1..Len(t)
         PROVE  t[i] = Entry(w) \/ \E u \in Known : \E j \in 1..Len(u) : u[j] = t[i]
    BY <2>3, <2>4, <2>7
  <2>11. \A t \in Known' : \A i \in 1..Len(t) : t[i] \in 1..fresh'
    <3>1. \A n \in 1..fresh : n \in 1..fresh'
      BY <1>0, <2>5, <2>9
    <3> HIDE DEF AuditInv
    <3> QED
      BY <2>5, <2>8, <2>10, <3>1
  <2>12. ~\E v \in Clerk : ChangeFirst(v)
    <3>1. rows'[w] # rows[w]
      BY <2>1, AppendProperties, LenProperties DEF Shape
    <3> QED
      BY <3>1 DEF ChangeFirst
  <2>13. \A v \in Writer : Pending(v)' => v # w /\ Pending(v) /\ owed'[v] = owed[v]
    <3>3. rows[w] \in Seq(AnyRow)
      BY DEF Shape
    <3>1. rows'[w] # <<>>
      BY <2>1, <3>3, AppendProperties
    <3>2. ~Pending(w)'
      BY <3>1 DEF Pending
    <3> QED
      BY <2>12, <3>2, PendingKept
  <2>14. ASSUME NEW v \in Writer, Pending(v)'
         PROVE  owed'[v] \in 1..fresh' /\ Unused(owed[v])'
    <3>1. v # w /\ owed'[v] = owed[v] /\ Pending(v)
      BY <2>13, <2>14
    <3>2. owed[v] \in 1..fresh /\ Unused(owed[v]) /\ owed[v] # Entry(w)
      BY <2>5, <3>1 DEF Histories
    <3>3. owed[v] \in 1..fresh'
      BY <1>0, <2>5, <2>9, <3>2
    <3>4. Unused(owed[v])'
      BY <2>10, <3>1, <3>2 DEF Unused
    <3> QED
      BY <3>1, <3>3, <3>4
  <2>15. \A u, v \in Writer : Pending(u)' /\ Pending(v)' /\ u # v => owed'[u] # owed'[v]
    BY <2>13 DEF Histories
  <2> QED
    BY <2>6, <2>11, <2>14, <2>15 DEF Histories
<1>2. ASSUME NEW w \in Clerk, ChangeFirst(w)
      PROVE  Histories'
  <2>1. /\ fresh' = fresh + 1 /\ owed' = [owed EXCEPT ![w] = fresh + 1]
        /\ phase' = [phase EXCEPT ![w] = "owing"] /\ phase[w] = "idle" /\ w \in Writer
        /\ UNCHANGED <<log, anchored, rows, dumps>>
    BY <1>2 DEF ChangeFirst, file_vars, Writer
  <2>2. Known' = Known
    BY <2>1 DEF Known
  <2>3. owed'[w] = fresh + 1 /\ \A v \in Writer \ {w} : owed'[v] = owed[v] /\ phase'[v] = phase[v]
    BY <2>1 DEF Shape
  <2>4. \A v \in Writer \ {w} : Pending(v)' <=> Pending(v)
    BY <2>1, <2>3 DEF Pending
  <2>5. \A n \in 1..fresh : n \in 1..(fresh + 1) /\ n # fresh + 1
    BY <1>0
  <2>6. fresh + 1 \in 1..(fresh + 1)
    BY <1>0
  <2>7. \A s \in Known : \A i \in 1..Len(s) : s[i] \in 1..fresh
    BY DEF Histories
  <2>8. Unused(fresh + 1)
    BY <2>5, <2>7 DEF Unused
  <2>10. \A v \in Writer \ {w} : Pending(v)' =>
            owed'[v] \in 1..fresh /\ Unused(owed'[v])
    BY <2>3, <2>4 DEF Histories
  <2>9. \A v \in Writer : Pending(v)' => owed'[v] \in 1..fresh' /\ Unused(owed'[v])
    BY <2>1, <2>3, <2>5, <2>6, <2>8, <2>10
  <2>11. \A v \in Writer : Pending(v)' => owed'[v] \in 1..fresh' /\ Unused(owed[v])'
    BY <2>2, <2>9 DEF Unused
  <2>12. \A u, v \in Writer : Pending(u)' /\ Pending(v)' /\ u # v => owed'[u] # owed'[v]
    <3>1. SUFFICES ASSUME NEW u \in Writer, NEW v \in Writer, Pending(u)', Pending(v)', u # v
                   PROVE  owed'[u] # owed'[v]
      OBVIOUS
    <3>2. CASE u # w /\ v # w
      BY <2>3, <2>4, <3>1, <3>2 DEF Histories
    <3>3. CASE u = w \/ v = w
      BY <2>3, <2>5, <2>10, <3>1, <3>3
    <3> QED
      BY <3>2, <3>3
  <2>13. Tree(Known')
    BY <2>2 DEF Histories
  <2>14. \A s \in Known' : \A i \in 1..Len(s) : s[i] \in 1..fresh'
    BY <2>1, <2>2, <2>5, <2>7
  <2> QED
    BY <2>11, <2>12, <2>13, <2>14 DEF Histories
<1>3. ASSUME NEW r \in AnyRecord, Recording(r)
      PROVE  Histories'
  <2>1. ~\E w \in Clerk : ChangeFirst(w)
    BY <1>0, <1>3 DEF Recording, ChangeFirst
  <2> QED
    BY <1>3, <2>1, HistoriesWrite DEF Recording
<1>4. ASSUME UNCHANGED anchored, ~\E w \in Clerk : ChangeFirst(w), ~\E w \in Writer : Audit(w)
      PROVE  Histories'
  <2>1. UNCHANGED fresh
    BY <1>4 DEF Next, Step, TakeLock, Begin, Rollback, Commit, AppendCheckpoint, FailCheckpoint,
       Crash, Start, TakeDump, Restore, Reconcile, vars
  <2>2. ASSUME NEW w \in Writer, Commit(w)
        PROVE  Known' \subseteq Known
    <3>1. log' = log \o rows[w] /\ dumps' = dumps
      BY <2>2 DEF Commit
    <3>2. log' \in Seq(AnyRow)
      BY <3>1, ConcatProperties DEF Shape
    <3>3. \A v \in Writer : log' \o rows'[v] = log'
      BY <2>2, <3>2, OnlyWriter, ViewEmpty
    <3> QED
      BY <1>4, <3>1, <3>3 DEF Known
  <2>3. ASSUME Restore
        PROVE  Known' \subseteq Known
    <3>1. PICK d \in dumps : log' = d.log
      BY <2>3 DEF Restore
    <3>2. log' \in Seq(AnyRow) /\ dumps' = dumps
      BY <2>3, <3>1 DEF Shape, Dump, Restore
    <3>3. \A v \in Writer : log' \o rows'[v] = log'
      BY <2>3, <3>2, RestoreRows, ViewEmpty
    <3> QED
      BY <1>4, <3>1, <3>2, <3>3 DEF Known
  <2>4. ASSUME TakeDump
        PROVE  Known' \subseteq Known
    BY <1>4, <2>4 DEF TakeDump, Known, db_vars, txn_vars
  <2>5. ASSUME Quiet
        PROVE  Known' \subseteq Known
    <3>1. \A v \in Writer : log \o rows'[v] = log \o rows[v] \/ log \o rows'[v] = log
      BY <2>5, ViewEmpty DEF Quiet, Shape
    <3> QED
      BY <1>4, <2>5, <3>1 DEF Known, Quiet
  <2>6. Known' \subseteq Known
    BY <1>4, <2>2, <2>3, <2>4, <2>5, StepKinds
  <2> QED
    BY <1>4, <2>1, <2>6, HistoriesFewer
<1> QED
  BY <1>1, <1>2, <1>3, <1>4, FileKinds

-----------------------------------------------------------------------------
(***************************************************************************)
(* The journal.                                                            *)
(***************************************************************************)

\* The installation is fixed, and only a journal that is kept gets a new ending.
LEMMA TailKinds ==
    ASSUME AuditInv, [Next]_vars
    PROVE  /\ UNCHANGED <<backend, journaled>>
           /\ tail' = tail \/ journaled
<1> USE DEF AuditInv, conf_vars, db_vars, file_vars, txn_vars
<1>1. ASSUME NEW w \in Writer, FailCheckpoint(w)
      PROVE  UNCHANGED <<backend, journaled>> /\ journaled
  BY <1>1 DEF FailCheckpoint, Locks, LocksAt
<1> QED
  BY <1>1 DEF Next, Step, TakeLock, Begin, Audit, Rollback, Commit, AppendCheckpoint, Crash,
     Start, ChangeFirst, TakeDump, Restore, Reconcile, vars

\* append_checkpoint and the reconciliation: the journal stays in order and its last record
\* says what it covers.
LEMMA JournalStep ==
    ASSUME AuditInv, [Next]_vars
    PROVE  Journal'
<1> USE DEF AuditInv
<1>1. CASE UNCHANGED <<journal, anchored, everAnchored>>
  <2>1. Journal /\ (~journaled' => journal = <<>> /\ tail' = "whole")
    BY TailKinds DEF Journal
  <2> QED
    BY <1>1, <2>1 DEF Journal, Latest, InOrder
<1>2. ASSUME NEW r \in AnyRecord, Recording(r)
      PROVE  Journal'
  <2>1. /\ Len(anchored') = r.count /\ \A i \in 1..r.count : anchored'[i] = log[i].hash
        /\ journal' # <<>> /\ Len(journal') = Len(journal) + 1
        /\ journal'[Len(journal) + 1] = r
        /\ \A i \in 1..Len(journal) : journal'[i] = journal[i]
        /\ anchored' \in Seq(Nat)
    BY <1>2, WriteShape DEF Recording
  <2>2. r.count \in Nat /\ Len(journal) \in Nat /\ Len(anchored) \in Nat
    BY LenProperties DEF AnyRecord, Shape
  <2>3. Latest' = r
    BY <2>1 DEF Latest
  <2>4. r.head = IF r.count = 0 THEN GENESIS_HASH ELSE log[r.count].hash
    BY <1>2 DEF Recording
  <2>5. /\ Latest'.count = Len(anchored')
        /\ Latest'.head = IF anchored' = <<>> THEN GENESIS_HASH ELSE anchored'[Len(anchored')]
    <3>1. anchored' = <<>> <=> r.count = 0
      BY <2>1, EmptySeq
    <3>2. r.count # 0 => r.count \in 1..r.count
      BY <2>2
    <3> QED
      BY <2>1, <2>3, <2>4, <3>1, <3>2
  <2>6. InOrder'
    <3>1. SUFFICES ASSUME NEW i \in 2..Len(journal')
                   PROVE  IF journal'[i].kind = "reconcile"
                            THEN journal'[i].epoch # journal'[i - 1].epoch
                            ELSE /\ journal'[i].epoch = journal'[i - 1].epoch
                                 /\ journal'[i].count > journal'[i - 1].count
      BY DEF InOrder
    <3>2. CASE i \in 2..Len(journal)
      <4>1. i \in 1..Len(journal) /\ i - 1 \in 1..Len(journal)
        BY <2>2, <3>2
      <4>2. journal'[i] = journal[i] /\ journal'[i - 1] = journal[i - 1]
        BY <2>1, <4>1
      <4> QED
        BY <3>2, <4>2 DEF Journal, InOrder
    <3>3. CASE i = Len(journal) + 1
      <4>1. Len(journal) \in 1..Len(journal) /\ i - 1 = Len(journal)
        BY <2>2, <3>1, <3>3
      <4>2. journal # <<>>
        BY <4>1
      <4>3. journal'[i] = r /\ journal'[i - 1] = Latest
        BY <2>1, <3>3, <4>1 DEF Latest
      <4>4. Latest.count = Len(anchored)
        BY <4>2 DEF Journal
      <4>5. \/ r.kind = "head" /\ r.count > Latest.count /\ r.epoch = Latest.epoch
            \/ r.kind = "reconcile" /\ r.epoch # Latest.epoch
        BY <1>2, <4>2, <4>4 DEF Recording
      <4> QED
        BY <4>3, <4>5
    <3> QED
      BY <2>1, <2>2, <3>1, <3>2, <3>3
  <2>7. ASSUME \A i \in 1..Len(journal') : journal'[i].kind # "reconcile",
               NEW h \in everAnchored'
        PROVE  \E i \in 1..Len(anchored') : anchored'[i] = h
    <3>1. r.kind # "reconcile" /\ \A i \in 1..Len(journal) : journal[i].kind # "reconcile"
      <4>1. Len(journal) + 1 \in 1..Len(journal')
        BY <2>1, <2>2
      <4>2. \A i \in 1..Len(journal) : i \in 1..Len(journal')
        BY <2>1, <2>2
      <4> QED
        BY <2>1, <2>7, <4>1, <4>2
    <3>2. r.count > Len(anchored) /\ Prefix(anchored, Hashes(log))
      BY <1>2, <3>1 DEF Recording
    <3>3. r.count <= Len(log) /\ Len(log) \in Nat
      BY <1>2, LenProperties DEF Recording, Shape
    <3>4. \A i \in 1..Len(anchored) : i \in 1..Len(anchored') /\ anchored'[i] = anchored[i]
      <4>1. \A i \in 1..Len(anchored) : i \in 1..Len(log) /\ i \in 1..r.count
        BY <2>2, <3>2, <3>3
      <4>2. \A i \in 1..Len(log) : Hashes(log)[i] = log[i].hash
        BY HashesType DEF Shape
      <4> QED
        BY <2>1, <3>2, <4>1, <4>2 DEF Prefix
    <3>5. CASE h \in everAnchored
      BY <3>1, <3>4, <3>5 DEF Journal
    <3>6. CASE h \notin everAnchored
      BY <1>2, <2>7, <3>6 DEF Recording, Write
    <3> QED
      BY <3>5, <3>6
  <2>8. journaled'
    BY <1>2, TailKinds DEF Recording
  <2> QED
    BY <2>1, <2>5, <2>6, <2>7, <2>8 DEF Journal
<1> QED
  BY <1>1, <1>2, FileKinds

-----------------------------------------------------------------------------
(***************************************************************************)
(* The heads a writer carries.                                             *)
(***************************************************************************)

\* A writer that a step does not touch keeps what it has to do, if the log and the journal
\* stay as they are; a writer outside a transaction has nothing to do.
LEMMA HeadsFrame ==
    ASSUME AuditInv, NEW v \in Writer,
           \/ phase'[v] \notin {"open", "committed"}
           \/ /\ phase'[v] = phase[v] /\ rows'[v] = rows[v] /\ heads'[v] = heads[v]
              /\ UNCHANGED <<log, tail, anchored, journaled>>
    PROVE  OpenAt(v)' /\ CommittedAt(v)'
<1>1. CASE phase'[v] \notin {"open", "committed"}
  BY <1>1 DEF OpenAt, CommittedAt
<1>2. CASE /\ phase'[v] = phase[v] /\ rows'[v] = rows[v] /\ heads'[v] = heads[v]
           /\ UNCHANGED <<log, tail, anchored, journaled>>
  <2>1. OpenAt(v) /\ CommittedAt(v)
    BY DEF AuditInv, Heads
  <2> QED
    BY <1>2, <2>1 DEF OpenAt, CommittedAt
<1> QED
  BY <1>1, <1>2

\* checkpoint_lock: with a journal there is one writer between the lock and the journal.
LEMMA Alone ==
    ASSUME AuditInv, NEW w \in Writer, journaled, phase[w] \in {"locked", "open", "committed"}
    PROVE  \A v \in Writer \ {w} : phase[v] \notin {"open", "committed"}
BY DEF AuditInv, Locks, LocksAt

\* _append_row's comparison of one count and one hash: a transaction that passes it extends
\* everything the last checkpoint covers.
LEMMA AgreesExtends ==
    ASSUME AuditInv, journaled, AgreesWithCheckpoint(log)
    PROVE  tail = "whole" /\ Prefix(anchored, Hashes(log))
<1> USE DEF AuditInv
<1>1. tail = "whole"
  BY DEF AgreesWithCheckpoint, LatestReadable
<1>2. /\ Hashes(log) \in Known /\ anchored \in Known
      /\ Len(Hashes(log)) = Len(log) /\ Len(log) \in Nat /\ Len(anchored) \in Nat
      /\ \A i \in 1..Len(log) : Hashes(log)[i] = log[i].hash
  BY HashesType, LenProperties DEF Known, Shape
<1>3. CASE journal = <<>> \/ Len(anchored) = 0
  <2>1. Len(anchored) = 0
    BY <1>3 DEF Journal
  <2> QED
    BY <1>1, <1>2, <2>1 DEF Prefix
<1>4. CASE journal # <<>> /\ Len(anchored) # 0
  <2> DEFINE c == Len(anchored)
  <2>1. Latest.count = c /\ Latest.head = anchored[c]
    <3>1. anchored # <<>>
      BY <1>4
    <3> QED
      BY <1>4, <3>1 DEF Journal
  <2>2. c <= Len(log) /\ log[c].hash = anchored[c]
    BY <1>4, <2>1 DEF AgreesWithCheckpoint
  <2>3. c \in 1..Len(anchored) /\ c \in 1..Len(Hashes(log)) /\ anchored[c] = Hashes(log)[c]
    BY <1>2, <1>4, <2>2
  <2>4. \A k \in 1..c : anchored[k] = Hashes(log)[k]
    <3> DEFINE H == Hashes(log)
    <3>1. Tree(Known) /\ H \in Known
      BY <1>2 DEF Histories
    <3>2. c \in 1..Len(H) /\ anchored[c] = H[c]
      BY <2>3
    <3> HIDE DEF H, AuditInv
    <3>3. \A k \in 1..c : anchored[k] = H[k]
      BY <1>2, <2>3, <3>1, <3>2 DEF Tree
    <3> QED
      BY <3>3 DEF H
  <2> QED
    BY <1>1, <1>2, <2>2, <2>4 DEF Prefix
<1> QED
  BY <1>3, <1>4

\* record_audit adds one row and one head to the unit.
LEMMA HeadsAudit ==
    ASSUME AuditInv, NEW w \in Writer, Audit(w)
    PROVE  OpenAt(w)' /\ CommittedAt(w)'
<1> USE DEF AuditInv
<1> DEFINE n == Len(rows[w])
<1>1. /\ phase[w] = "open" /\ phase'[w] = "open" /\ OpenAt(w)
      /\ rows[w] \in Seq(AnyRow) /\ heads[w] \in Seq(AnyHead) /\ log \in Seq(AnyRow)
      /\ NewRow(w) \in AnyRow /\ NewHead(w) \in AnyHead
      /\ rows'[w] = Append(rows[w], NewRow(w)) /\ heads'[w] = Append(heads[w], NewHead(w))
      /\ UNCHANGED <<log, tail, anchored, journaled>>
  BY AuditEffect DEF Shape, Heads, conf_vars, db_vars, file_vars
<1>2. n \in Nat /\ Len(heads[w]) = n /\ Len(log) \in Nat
  BY <1>1, LenProperties DEF OpenAt
<1>3. /\ Len(rows'[w]) = n + 1 /\ Len(heads'[w]) = n + 1
      /\ rows'[w][n + 1] = NewRow(w) /\ heads'[w][n + 1] = NewHead(w)
      /\ \A k \in 1..n : rows'[w][k] = rows[w][k] /\ heads'[w][k] = heads[w][k]
  <2> HIDE DEF AuditInv
  <2> QED
    BY <1>1, <1>2, AppendProperties
<1>4. NewHead(w) = [count |-> Len(log) + (n + 1), head |-> NewRow(w).hash]
  <2>1. Len(log \o rows[w]) = Len(log) + n
    BY <1>1, ConcatProperties
  <2>2. (Len(log) + n) + 1 = Len(log) + (n + 1)
    BY <1>2
  <2> QED
    BY <2>1, <2>2 DEF NewHead, NewRow
<1>5. \A k \in 1..n : heads[w][k] = [count |-> Len(log) + k, head |-> rows[w][k].hash]
  BY <1>1 DEF OpenAt
<1>6. ASSUME NEW k \in 1..(n + 1)
      PROVE  heads'[w][k] = [count |-> Len(log) + k, head |-> rows'[w][k].hash]
  <2> HIDE DEF AuditInv, n
  <2>1. CASE k \in 1..n
    BY <1>3, <1>5, <2>1
  <2>2. CASE k = n + 1
    BY <1>3, <1>4, <2>2
  <2> QED
    BY <1>2, <2>1, <2>2
<1>7. journaled => tail = "whole" /\ Prefix(anchored, Hashes(log))
  <2>1. CASE rows[w] = <<>>
    <3>1. log \o rows[w] = log
      BY <1>1, <2>1, ViewEmpty
    <3> QED
      BY <3>1, AuditEffect, AgreesExtends
  <2>2. CASE rows[w] # <<>>
    BY <1>1, <2>2 DEF OpenAt
  <2> QED
    BY <2>1, <2>2
<1> HIDE DEF AuditInv, n
<1> QED
  BY <1>1, <1>3, <1>6, <1>7 DEF OpenAt, CommittedAt

\* COMMIT turns the rows of the unit into the end of the log.
LEMMA HeadsCommit ==
    ASSUME AuditInv, NEW w \in Writer, Commit(w), journaled
    PROVE  OpenAt(w)' /\ CommittedAt(w)'
<1> USE DEF AuditInv
<1> DEFINE n == Len(rows[w])
<1>1. /\ phase[w] = "open" /\ phase'[w] = "committed" /\ rows[w] # <<>> /\ OpenAt(w)
      /\ rows[w] \in Seq(AnyRow) /\ log \in Seq(AnyRow)
      /\ log' = log \o rows[w] /\ heads' = heads
      /\ UNCHANGED <<tail, anchored>>
  BY DEF Commit, Shape, Heads, file_vars
<1>2. /\ n \in Nat /\ n # 0 /\ Len(heads[w]) = n /\ Len(log) \in Nat /\ Len(anchored) \in Nat
      /\ tail = "whole" /\ Prefix(anchored, Hashes(log)) /\ heads[w] \in Seq(AnyHead)
  BY <1>1, LenProperties, EmptySeq DEF OpenAt, Shape
<1>3. /\ log' \in Seq(AnyRow) /\ Len(log') = Len(log) + n
      /\ \A i \in 1..(Len(log) + n) :
            log'[i] = IF i <= Len(log) THEN log[i] ELSE rows[w][i - Len(log)]
  BY <1>1, ConcatProperties
<1>4. heads[w] # <<>>
  BY <1>2, EmptySeq
<1>5. \A k \in 1..n : heads[w][k] = [count |-> Len(log) + k, head |-> rows[w][k].hash]
  BY <1>1 DEF OpenAt
<1>6. /\ Len(Hashes(log)) = Len(log) /\ \A i \in 1..Len(log) : Hashes(log)[i] = log[i].hash
      /\ Len(Hashes(log')) = Len(log') /\ \A i \in 1..Len(log') : Hashes(log')[i] = log'[i].hash
  BY <1>1, <1>3, HashesType
<1> HIDE DEF AuditInv, n
<1>7. Prefix(anchored, Hashes(log')) /\ Len(anchored) <= Len(log)
  <2>1. Len(anchored) <= Len(log) /\ \A i \in 1..Len(anchored) : anchored[i] = Hashes(log)[i]
    BY <1>2, <1>6 DEF Prefix
  <2>2. ASSUME NEW i \in 1..Len(anchored)
        PROVE  anchored[i] = Hashes(log')[i]
    <3>1. i \in 1..Len(log) /\ i \in 1..Len(log') /\ i <= Len(log)
      BY <1>2, <1>3, <2>1
    <3> QED
      BY <1>3, <1>6, <2>1, <3>1
  <2> QED
    BY <1>2, <1>3, <1>6, <2>1, <2>2 DEF Prefix
<1>8. ASSUME NEW k \in 1..n
      PROVE  heads[w][k] = [count |-> Len(log') - n + k, head |-> log'[Len(log') - n + k].hash]
  <2>1. /\ Len(log') - n + k = Len(log) + k /\ Len(log) + k \in 1..(Len(log) + n)
        /\ ~(Len(log) + k <= Len(log)) /\ Len(log) + k - Len(log) = k
    BY <1>2, <1>3
  <2>2. log'[Len(log) + k] = rows[w][k]
    BY <1>3, <2>1
  <2> QED
    BY <1>5, <2>1, <2>2
<1>9. Len(anchored) + n <= Len(log')
  BY <1>2, <1>3, <1>7
<1> QED
  BY <1>1, <1>2, <1>4, <1>7, <1>8, <1>9 DEF OpenAt, CommittedAt

\* append_checkpoint takes the first head, and the others are still to come.
LEMMA HeadsCheckpoint ==
    ASSUME AuditInv, NEW w \in Writer, AppendCheckpoint(w), Len(heads[w]) # 1
    PROVE  OpenAt(w)' /\ CommittedAt(w)'
<1> USE DEF AuditInv
<1> DEFINE n == Len(heads[w])
           h == Head(heads[w])
           r == HeadRecord(h)
<1>1. /\ phase[w] = "committed" /\ phase' = phase /\ CommittedAt(w) /\ Write(r)
      /\ heads[w] \in Seq(AnyHead) /\ log \in Seq(AnyRow) /\ heads[w] # <<>>
      /\ heads'[w] = Tail(heads[w]) /\ UNCHANGED <<log, tail>>
  BY DEF AppendCheckpoint, Shape, Heads, CommittedAt, db_vars
<1>2. /\ r \in AnyRecord /\ r.count = Len(log) - n + 1
      /\ r.count \in 1..Len(log)
  BY <1>1, NextHead DEF HeadRecord
<1>3. n \in Nat /\ n # 0 /\ n # 1 /\ Len(log) \in Nat /\ tail = "whole"
  BY <1>1, EmptySeq, LenProperties DEF CommittedAt
<1>4. r.count <= Len(log)
  BY <1>2, <1>3
<1>5. Len(anchored') = r.count /\ \A i \in 1..r.count : anchored'[i] = log[i].hash
  BY <1>1, <1>2, <1>4, WriteShape
<1>6. /\ Len(Hashes(log)) = Len(log)
      /\ \A i \in 1..Len(log) : Hashes(log)[i] = log[i].hash
  BY <1>1, HashesType
<1>7. /\ Tail(heads[w]) \in Seq(AnyHead) /\ Len(Tail(heads[w])) = n - 1
      /\ \A k \in 1..(n - 1) : Tail(heads[w])[k] = heads[w][k + 1]
  BY <1>1, <1>3, HeadTailProperties
<1>8. \A k \in 1..n : heads[w][k] =
         [count |-> Len(log) - n + k, head |-> log[Len(log) - n + k].hash]
  BY <1>1 DEF CommittedAt
<1> HIDE DEF AuditInv, n, h, r
<1>9. heads'[w] # <<>> /\ Len(heads'[w]) = n - 1
  <2>1. n - 1 # 0
    BY <1>3
  <2>2. Tail(heads[w]) # <<>>
    BY <1>7, <2>1, EmptySeq
  <2> QED
    BY <1>1, <1>7, <2>2
<1>10. Prefix(anchored', Hashes(log))
  BY <1>2, <1>3, <1>4, <1>5, <1>6 DEF Prefix
<1>11. Len(anchored') + (n - 1) <= Len(log)
  BY <1>2, <1>3, <1>5
<1>12. ASSUME NEW k \in 1..(n - 1)
       PROVE  heads'[w][k] = [count |-> Len(log) - (n - 1) + k,
                              head |-> log[Len(log) - (n - 1) + k].hash]
  <2>1. k + 1 \in 1..n /\ Len(log) - n + (k + 1) = Len(log) - (n - 1) + k
    BY <1>3
  <2> QED
    BY <1>1, <1>7, <1>8, <2>1
<1> QED
  BY <1>1, <1>3, <1>9, <1>10, <1>11, <1>12 DEF OpenAt, CommittedAt

\* Every step keeps the heads of every writer the next rows the journal does not cover.
LEMMA HeadsStep ==
    ASSUME AuditInv, [Next]_vars
    PROVE  Heads'
<1> USE DEF AuditInv, conf_vars, db_vars, file_vars, txn_vars
<1>0. /\ phase \in [Writer -> Phase] /\ rows \in [Writer -> Seq(AnyRow)]
      /\ heads \in [Writer -> Seq(AnyHead)]
  BY DEF Shape
<1> DEFINE Out(v) == phase'[v] \notin {"open", "committed"}
           Same(v) == /\ phase'[v] = phase[v] /\ rows'[v] = rows[v] /\ heads'[v] = heads[v]
                      /\ UNCHANGED <<log, tail, anchored, journaled>>
<1>1. ASSUME NEW w \in Writer, NEW where \in {"idle", "down"}, Leave(w, where)
      PROVE  /\ Out(w)
             /\ \A v \in Writer \ {w} :
                  phase'[v] = phase[v] /\ rows'[v] = rows[v] /\ heads'[v] = heads[v]
  BY <1>0, <1>1 DEF Leave
<1>2. ASSUME \A v \in Writer : Out(v) \/ Same(v)
      PROVE  Heads'
  BY <1>2, HeadsFrame DEF Heads
<1>3. ASSUME NEW w \in Writer, OpenAt(w)' /\ CommittedAt(w)',
             \A v \in Writer \ {w} : Out(v) \/ Same(v)
      PROVE  Heads'
  BY <1>3, HeadsFrame DEF Heads
<1>4. ASSUME NEW w \in Writer, TakeLock(w)
      PROVE  Heads'
  <2>1. \A v \in Writer : Out(v) \/ Same(v)
    BY <1>0, <1>4 DEF TakeLock
  <2> QED
    BY <1>2, <2>1
<1>5. ASSUME NEW w \in Writer, Begin(w)
      PROVE  Heads'
  <2>1. \A v \in Writer \ {w} : Out(v) \/ Same(v)
    BY <1>0, <1>5 DEF Begin
  <2>2. rows'[w] = <<>> /\ heads'[w] = <<>> /\ phase'[w] = "open"
    BY <1>0, <1>5 DEF Begin, Locks, LocksAt
  <2>3. OpenAt(w)' /\ CommittedAt(w)'
    BY <2>2 DEF OpenAt, CommittedAt
  <2> QED
    BY <1>3, <2>1, <2>3
<1>6. ASSUME NEW w \in Writer, Audit(w)
      PROVE  Heads'
  <2>1. \A v \in Writer \ {w} : Out(v) \/ Same(v)
    BY <1>0, <1>6, AuditEffect
  <2> QED
    BY <1>3, <1>6, <2>1, HeadsAudit
<1>7. ASSUME NEW w \in Writer, Rollback(w)
      PROVE  Heads'
  <2>1. \A v \in Writer : Out(v) \/ Same(v)
    BY <1>1, <1>7 DEF Rollback
  <2> QED
    BY <1>2, <2>1
<1>8. ASSUME NEW w \in Writer, Commit(w)
      PROVE  Heads'
  <2>1. CASE journaled
    <3>1. phase' = [phase EXCEPT ![w] = "committed"]
      BY <1>8, <2>1 DEF Commit
    <3>2. \A v \in Writer \ {w} : Out(v)
      BY <1>0, <1>8, <2>1, <3>1, Alone DEF Commit
    <3> QED
      BY <1>3, <1>8, <2>1, <3>2, HeadsCommit
  <2>2. CASE ~journaled
    <3>1. /\ Out(w)
          /\ \A v \in Writer \ {w} : phase'[v] = phase[v] /\ heads'[v] = heads[v]
      BY <1>1, <1>8, <2>2 DEF Commit
    <3>2. ASSUME NEW v \in Writer \ {w}
          PROVE  OpenAt(v)' /\ CommittedAt(v)'
      <4>1. rows[v] = <<>> /\ rows'[v] = <<>>
        BY <1>8, OnlyWriter DEF Commit, Locks, LocksAt
      <4>2. phase'[v] # "committed"
        BY <2>2, <3>1 DEF Locks, LocksAt
      <4>3. phase'[v] = "open" => Len(heads'[v]) = Len(rows'[v])
        BY <3>1, <4>1 DEF Heads, OpenAt
      <4>4. ~journaled'
        BY <2>2, TailKinds
      <4>5. ~\E k : k \in 1..Len(rows'[v])
        BY <4>1
      <4> QED
        BY <4>1, <4>2, <4>3, <4>4, <4>5 DEF OpenAt, CommittedAt
    <3>3. OpenAt(w)' /\ CommittedAt(w)'
      BY <3>1 DEF OpenAt, CommittedAt
    <3> QED
      BY <3>2, <3>3 DEF Heads
  <2> QED
    BY <2>1, <2>2
<1>9. ASSUME NEW w \in Writer, AppendCheckpoint(w)
      PROVE  Heads'
  <2>1. phase[w] = "committed" /\ journaled
    BY <1>9 DEF AppendCheckpoint, Locks, LocksAt
  <2>2. CASE Len(heads[w]) = 1
    <3>1. \A v \in Writer : Out(v)
      BY <1>1, <1>9, <2>1, <2>2, Alone DEF AppendCheckpoint
    <3> QED
      BY <1>2, <3>1
  <2>3. CASE Len(heads[w]) # 1
    <3>1. \A v \in Writer \ {w} : Out(v)
      BY <1>9, <2>1, <2>3, Alone DEF AppendCheckpoint
    <3> QED
      BY <1>3, <1>9, <2>3, <3>1, HeadsCheckpoint
  <2> QED
    BY <2>2, <2>3
<1>10. ASSUME NEW w \in Writer, FailCheckpoint(w)
       PROVE  Heads'
  <2>1. phase[w] = "committed" /\ journaled
    BY <1>10 DEF FailCheckpoint, Locks, LocksAt
  <2>2. \A v \in Writer : Out(v)
    BY <1>1, <1>10, <2>1, Alone DEF FailCheckpoint
  <2> QED
    BY <1>2, <2>2
<1>11. ASSUME NEW w \in Writer, Crash(w)
       PROVE  Heads'
  <2>1. \A v \in Writer : Out(v) \/ Same(v)
    BY <1>1, <1>11 DEF Crash
  <2> QED
    BY <1>2, <2>1
<1>12. ASSUME NEW w \in Writer, Start(w)
       PROVE  Heads'
  <2>1. \A v \in Writer : Out(v) \/ Same(v)
    BY <1>0, <1>12 DEF Start
  <2> QED
    BY <1>2, <2>1
<1>13. ASSUME NEW w \in Clerk, ChangeFirst(w)
       PROVE  Heads'
  <2>1. w \in Writer
    BY DEF Writer
  <2>2. \A v \in Writer : Out(v) \/ Same(v)
    BY <1>0, <1>13, <2>1 DEF ChangeFirst
  <2> QED
    BY <1>2, <2>2
<1>14. CASE TakeDump \/ UNCHANGED vars
  <2>1. \A v \in Writer : Same(v)
    BY <1>14 DEF TakeDump, vars
  <2> QED
    BY <1>2, <2>1
<1>15. CASE Restore
  <2>1. \A v \in Writer : Out(v)
    BY <1>15 DEF Restore
  <2> QED
    BY <1>2, <2>1
<1>16. ASSUME NEW seal \in 1..Len(journal), Reconcile(seal)
       PROVE  Heads'
  <2>1. \A v \in Writer : Out(v)
    BY <1>16, ConstantsAssumption DEF Reconcile, Locks, LocksAt
  <2> QED
    BY <1>2, <2>1
<1> QED
  BY <1>4, <1>5, <1>6, <1>7, <1>8, <1>9, <1>10, <1>11, <1>12, <1>13, <1>14, <1>15, <1>16
     DEF Next, Step

-----------------------------------------------------------------------------
(***************************************************************************)
(*                              THE INVARIANT                              *)
(***************************************************************************)

\* An installation starts with an empty log and an empty journal.
LEMMA InitInv == Init => AuditInv
<1> SUFFICES ASSUME Init
             PROVE  AuditInv
  OBVIOUS
<1> USE DEF Init
<1>1. /\ log = <<>> /\ anchored = <<>> /\ journal = <<>> /\ dumps = {}
      /\ \A w \in Writer : rows[w] = <<>> /\ heads[w] = <<>> /\ phase[w] = "idle"
      /\ Len(log) = 0 /\ Len(anchored) = 0 /\ Len(journal) = 0
  OBVIOUS
<1>2. Shape
  <2>1. backend \in {"sqlite", "postgres"} /\ journaled \in BOOLEAN
    BY ConstantsAssumption
  <2>2. log \in Seq(AnyRow) /\ anchored \in Seq(Nat) /\ journal \in Seq(AnyRecord)
    BY <1>1, EmptySeq
  <2>3. <<>> \in Seq(AnyRow) /\ <<>> \in Seq(AnyHead) /\ "idle" \in Phase
    BY EmptySeq DEF Phase
  <2> QED
    BY <2>1, <2>2, <2>3 DEF Shape
<1>3. Locks
  BY <1>1 DEF Locks, LocksAt
<1>4. \A w \in Writer : log \o rows[w] = <<>>
  BY <1>1, ViewEmpty, EmptySeq
<1>5. Chained
  BY <1>1, <1>4 DEF Chained, Linked
<1>6. Atomic
  BY <1>1 DEF Atomic, HashSet
<1>7. Histories
  <2>1. Hashes(<<>>) = <<>>
    BY DEF Hashes
  <2>2. Known \subseteq {<<>>}
    BY <1>1, <1>4, <2>1 DEF Known
  <2>3. \A s \in Known : ~\E i : i \in 1..Len(s)
    BY <2>2
  <2>4. \A w \in Writer : ~Pending(w)
    BY <1>1 DEF Pending
  <2> QED
    BY <2>3, <2>4 DEF Histories, Tree
<1>8. Journal
  BY <1>1 DEF Journal, InOrder
<1>9. Heads
  BY <1>1 DEF Heads, OpenAt, CommittedAt
<1> QED
  BY <1>2, <1>3, <1>5, <1>6, <1>7, <1>8, <1>9 DEF AuditInv

\* The invariant behind every safety property of the audit log: the locks are held in
\* order, the log is linked, histories form a tree, the journal's last record covers what
\* the anchored history says, and a writer's heads continue it.
THEOREM AuditInvariant == Spec => []AuditInv
<1>1. AuditInv /\ [Next]_vars => AuditInv'
  <2> SUFFICES ASSUME AuditInv, [Next]_vars
               PROVE  AuditInv'
    OBVIOUS
  <2>1. Shape' /\ Locks' /\ Chained' /\ Atomic' /\ Histories' /\ Journal' /\ Heads'
    BY ShapeStep, LocksStep, ChainedStep, AtomicStep, HistoriesStep, JournalStep, HeadsStep
  <2> QED
    BY <2>1 DEF AuditInv
<1> QED
  BY <1>1, InitInv, PTL DEF Spec

-----------------------------------------------------------------------------
(***************************************************************************)
(*                              SAFETY                                     *)
(***************************************************************************)

\* record_audit: every committed row chains to the row before it, whoever writes, on
\* both databases, across crashes, rollbacks and restores.
THEOREM ChainNeverForksAlways == Spec => []ChainNeverForks
<1>1. AuditInv => ChainNeverForks
  BY DEF AuditInv, Chained, Linked, ChainNeverForks, ChainOK
<1> QED
  BY <1>1, AuditInvariant, PTL

\* unit_of_work: a change made inside a unit is in the database exactly when its audit row
\* is, through every crash, rollback and restore.
THEOREM UnitIsAtomicAlways == Spec => []UnitIsAtomic
<1>1. AuditInv => UnitIsAtomic
  BY DEF AuditInv, Atomic, HashSet, UnitIsAtomic, Recorded
<1> QED
  BY <1>1, AuditInvariant, PTL

\* append_checkpoint never refuses the head of a committed writer: the file lock is held
\* from the chain read to the journal write.
THEOREM CheckpointsInOrderAlways == Spec => []CheckpointsInOrder
<1>1. AuditInv => CheckpointsInOrder
  <2>1. SUFFICES ASSUME AuditInv, NEW w \in Writer, phase[w] = "committed"
                 PROVE  Advances(Head(heads[w]))
    BY DEF CheckpointsInOrder
  <2>2. Head(heads[w]).count > Len(anchored)
    BY <2>1, NextHead
  <2>3. journal # <<>> => Latest.count = Len(anchored)
    BY <2>1 DEF AuditInv, Journal
  <2> QED
    BY <2>2, <2>3 DEF Advances
<1> QED
  BY <1>1, AuditInvariant, PTL

\* A sequence is the beginning of the one it is a prefix of.
LEMMA PrefixSubSeq ==
    ASSUME NEW s \in Seq(Nat), NEW t \in Seq(Nat), Prefix(s, t)
    PROVE  SubSeq(t, 1, Len(s)) = s
<1> DEFINE u == SubSeq(t, 1, Len(s))
<1>1. Len(s) \in Nat /\ Len(t) \in Nat /\ Len(s) <= Len(t)
  BY LenProperties DEF Prefix
<1>2. u \in Seq(Nat) /\ Len(u) = Len(s) /\ \A i \in 1..Len(s) : u[i] = t[i]
  BY <1>1
<1> HIDE DEF u
<1>3. u = s
  BY <1>2, SeqEqual DEF Prefix
<1> QED
  BY <1>3 DEF u

\* What verify_audit_chain and _append_row conclude from an anchored prefix.
LEMMA Extends ==
    ASSUME AuditInv, Prefix(anchored, Hashes(log))
    PROVE  /\ Len(anchored) <= Len(log)
           /\ SubSeq(Hashes(log), 1, Len(anchored)) = anchored
<1>1. anchored \in Seq(Nat) /\ Hashes(log) \in Seq(Nat) /\ Len(Hashes(log)) = Len(log)
  BY HashesType DEF AuditInv, Shape
<1> QED
  BY <1>1, PrefixSubSeq DEF Prefix

\* _append_row's refusals: a unit commits only onto a log that still begins with every row
\* the last checkpoint covered, whatever was restored in between.
THEOREM AppendsExtendAnchoredAlways == Spec => AppendsExtendAnchored
<1>1. ASSUME AuditInv, [Next]_vars, NEW w \in Writer,
             journaled, phase[w] = "open", log' # log
      PROVE  /\ Len(anchored) <= Len(log)
             /\ SubSeq(Hashes(log), 1, Len(anchored)) = anchored
  <2>1. ~Restore
    BY <1>1 DEF Restore
  <2>2. \A v \in Writer : ~Audit(v)
    BY <1>1 DEF Audit, db_vars
  <2>3. ~TakeDump /\ ~Quiet
    BY <1>1 DEF TakeDump, Quiet, db_vars
  <2>4. PICK v \in Writer : Commit(v)
    BY <1>1, <2>1, <2>2, <2>3, StepKinds
  <2>5. v = w
    BY <1>1, <2>4, Alone DEF Commit
  <2>6. rows[w] # <<>> /\ OpenAt(w)
    BY <1>1, <2>4, <2>5 DEF Commit, AuditInv, Heads
  <2>7. Prefix(anchored, Hashes(log))
    BY <1>1, <2>6 DEF OpenAt
  <2> QED
    BY <1>1, <2>7, Extends
<1>2. AuditInv /\ [Next]_vars =>
        [\A w \in Writer :
           (journaled /\ phase[w] = "open" /\ log' # log) =>
              /\ Len(anchored) <= Len(log)
              /\ SubSeq(Hashes(log), 1, Len(anchored)) = anchored]_vars
  BY <1>1
<1> QED
  BY <1>2, AuditInvariant, PTL DEF Spec, AppendsExtendAnchored

\* The branches of verify_audit_chain, once the chain is intact and a journal is read.
LEMMA VerdictBranches ==
    ASSUME AuditInv, journal # <<>>
    PROVE  /\ Verdict = "current" \/ VerdictOK =>
                /\ JournalReadable
                /\ ~(Len(log) < Latest.count)
                /\ ~(Len(log) = Latest.count /\ HeadOf(log) # Latest.head)
                /\ ~(Len(log) > Latest.count /\ AnchoredRow(Latest.count).hash # Latest.head)
           /\ Verdict = "current" =>
                /\ \A i \in 1..Len(journal) : journal[i].kind # "reconcile"
                /\ Len(log) = Latest.count
           /\ (/\ JournalReadable
               /\ ~(Len(log) < Latest.count)
               /\ ~(Len(log) = Latest.count /\ HeadOf(log) # Latest.head)
               /\ ~(Len(log) > Latest.count /\ AnchoredRow(Latest.count).hash # Latest.head))
              => VerdictOK
<1>1. ChainOK /\ journaled
  BY DEF AuditInv, Chained, Linked, ChainOK, Journal
<1>2. Verdict =
        IF ~JournalReadable \/ journal = <<>> THEN "invalid"
        ELSE IF \/ Len(log) < Latest.count
                \/ Len(log) = Latest.count /\ HeadOf(log) # Latest.head
                \/ Len(log) > Latest.count /\ AnchoredRow(Latest.count).hash # Latest.head
          THEN "mismatch"
        ELSE IF \/ Latest.anchored_from # 1
                \/ \E i \in 1..Len(journal) : journal[i].kind = "reconcile"
          THEN "partial_history"
        ELSE IF Len(log) = Latest.count THEN "current" ELSE "stale"
  BY <1>1 DEF Verdict
<1> QED
  BY <1>2 DEF VerdictOK

\* One count and one hash speak for the whole anchored history.
LEMMA AcceptedExtends ==
    ASSUME AuditInv, journal # <<>>, ~(Len(log) < Latest.count),
           ~(Len(log) = Latest.count /\ HeadOf(log) # Latest.head),
           ~(Len(log) > Latest.count /\ AnchoredRow(Latest.count).hash # Latest.head)
    PROVE  Prefix(anchored, Hashes(log))
<1> USE DEF AuditInv
<1> DEFINE c == Len(anchored)
           H == Hashes(log)
<1>1. /\ H \in Known /\ anchored \in Known /\ Tree(Known)
      /\ Len(H) = Len(log) /\ Len(log) \in Nat /\ c \in Nat
      /\ \A i \in 1..Len(log) : H[i] = log[i].hash
  BY HashesType, LenProperties DEF Known, Shape, Histories
<1>2. Latest.count = c /\ c <= Len(log)
  BY <1>1 DEF Journal
<1>3. CASE c = 0
  BY <1>1, <1>3 DEF Prefix
<1>4. CASE c # 0
  <2>1. anchored # <<>> /\ log # <<>> /\ c \in 1..Len(log) /\ c \in 1..Len(anchored)
    BY <1>1, <1>2, <1>4
  <2>2. Latest.head = anchored[c]
    BY <2>1 DEF Journal
  <2>3. log[c].hash = anchored[c]
    <3>1. CASE Len(log) = c
      BY <1>2, <2>1, <2>2, <3>1 DEF HeadOf
    <3>2. CASE Len(log) > c
      BY <1>2, <1>4, <2>2, <3>2 DEF AnchoredRow
    <3> QED
      BY <1>1, <1>2, <3>1, <3>2
  <2>4. c \in 1..Len(H) /\ anchored[c] = H[c]
    BY <1>1, <2>1, <2>3
  <2> HIDE DEF H, AuditInv
  <2>5. \A k \in 1..c : anchored[k] = H[k]
    BY <1>1, <2>1, <2>4 DEF Tree
  <2> QED
    BY <1>1, <1>2, <2>5 DEF Prefix, H
<1> QED
  BY <1>3, <1>4

\* verify_audit_chain: a log it accepts begins with every row the last checkpoint covered,
\* however it was truncated, restored or appended to.
THEOREM VerdictIsSoundAlways == Spec => []VerdictIsSound
<1>1. AuditInv => VerdictIsSound
  BY VerdictBranches, AcceptedExtends, Extends DEF VerdictIsSound
<1> QED
  BY <1>1, AuditInvariant, PTL

\* checkpoint_status "current": the log is what the last checkpoint covers and holds every
\* row that any checkpoint ever covered.
THEOREM CurrentIsCompleteAlways == Spec => []CurrentIsComplete
<1>1. ASSUME AuditInv, Verdict = "current"
      PROVE  everAnchored \subseteq Recorded /\ Hashes(log) = anchored
  <2>1. journal # <<>>
    BY <1>1 DEF Verdict
  <2>2. /\ Prefix(anchored, Hashes(log)) /\ Len(log) = Latest.count
        /\ \A i \in 1..Len(journal) : journal[i].kind # "reconcile"
    BY <1>1, <2>1, VerdictBranches, AcceptedExtends
  <2>3. Len(anchored) = Len(log)
    BY <1>1, <2>1, <2>2 DEF AuditInv, Journal
  <2>4. /\ anchored \in Seq(Nat) /\ Hashes(log) \in Seq(Nat) /\ Len(Hashes(log)) = Len(log)
        /\ \A i \in 1..Len(log) : Hashes(log)[i] = log[i].hash
    BY <1>1, HashesType DEF AuditInv, Shape
  <2>5. Hashes(log) = anchored
    BY <2>2, <2>3, <2>4, SeqEqual DEF Prefix
  <2>6. \A h \in everAnchored : \E i \in 1..Len(anchored) : anchored[i] = h
    BY <1>1, <2>2 DEF AuditInv, Journal
  <2>7. everAnchored \subseteq Recorded
    BY <2>3, <2>4, <2>5, <2>6 DEF Recorded
  <2> QED
    BY <2>5, <2>7
<1>2. AuditInv => CurrentIsComplete
  BY <1>1 DEF CurrentIsComplete
<1> QED
  BY <1>2, AuditInvariant, PTL

-----------------------------------------------------------------------------
(***************************************************************************)
(* Accepting what is right needs one thing more: dumps hold a row.  A      *)
(* reconciliation on an empty log would anchor a count of 0, and the next  *)
(* row would be compared with GENESIS_HASH.                                *)
(***************************************************************************)
Floor ==
    /\ \A d \in dumps : Len(d.log) # 0
    /\ journal # <<>> => Len(log) # 0 /\ Latest.count # 0

\* A log that is not empty stays so, and so does what a checkpoint covers.
LEMMA FloorStep ==
    ASSUME RestoreFloor # 0, AuditInv, Floor, [Next]_vars
    PROVE  Floor'
<1> USE DEF AuditInv
<1>1. ASSUME NEW r \in AnyRecord, Recording(r)
      PROVE  Floor'
  <2>1. UNCHANGED <<log, dumps>>
    BY <1>1 DEF Recording, Quiet
  <2>2. Latest' = r
    BY <1>1, WriteShape DEF Recording, Latest
  <2>3. r.count # 0 /\ Len(log) # 0
    <3>1. r.count \in Nat /\ Len(log) \in Nat /\ Len(anchored) \in Nat /\ r.count <= Len(log)
      BY <1>1, LenProperties DEF Recording, Shape, AnyRecord
    <3>2. CASE r.count > Len(anchored)
      BY <3>1, <3>2
    <3>3. CASE r.count = Len(log) /\ journal # <<>>
      BY <3>3 DEF Floor
    <3> QED
      BY <1>1, <3>2, <3>3 DEF Recording
  <2> QED
    BY <2>1, <2>2, <2>3 DEF Floor
<1>2. CASE UNCHANGED <<journal, anchored, everAnchored>>
  <2>1. journal' = journal /\ Latest' = Latest
    BY <1>2 DEF Latest
  <2>2. CASE UNCHANGED <<log, dumps>>
    BY <2>1, <2>2 DEF Floor
  <2>3. ASSUME NEW w \in Writer, Commit(w)
        PROVE  Floor'
    <3>1. log' = log \o rows[w] /\ dumps' = dumps
      BY <2>3 DEF Commit
    <3>2. Len(log') = Len(log) + Len(rows[w]) /\ Len(log) \in Nat /\ Len(rows[w]) \in Nat
      BY <3>1, ConcatProperties, LenProperties DEF Shape
    <3>3. Len(log) # 0 => Len(log') # 0
      BY <3>2
    <3> QED
      BY <2>1, <3>1, <3>3 DEF Floor
  <2>4. CASE Restore
    BY <2>1, <2>4 DEF Floor, Restore
  <2>5. CASE TakeDump
    <3>1. Len(log) # 0
      <4>1. RestoreFloor \in Nat
        BY ConstantsAssumption
      <4>2. Len(log) >= RestoreFloor
        BY <2>5 DEF TakeDump
      <4>3. Len(log) \in Nat
        BY LenProperties DEF Shape
      <4> HIDE DEF AuditInv
      <4> QED
        BY <4>1, <4>2, <4>3
    <3>2. log' = log /\ dumps' = dumps \cup {[log |-> log, changes |-> changes]}
      BY <2>5 DEF TakeDump, db_vars
    <3> QED
      BY <2>1, <3>1, <3>2 DEF Floor
  <2>6. ASSUME NEW w \in Writer, Audit(w)
        PROVE  Floor'
    BY <2>1, <2>6, <2>2 DEF Audit, db_vars
  <2> QED
    BY <2>2, <2>3, <2>4, <2>5, <2>6, StepKinds DEF Quiet
<1> QED
  BY <1>1, <1>2, FileKinds

\* verify_audit_chain does not raise a false alarm: a log that extends what the last
\* checkpoint covered is accepted, so no crash keeps the platform from starting, as long as
\* the dumps operators restore hold at least one audit row.
THEOREM NoFalseAlarmAlways ==
    ASSUME RestoreFloor # 0
    PROVE  Spec => []NoFalseAlarm
<1>1. Init => Floor
  BY DEF Init, Floor
<1>2. AuditInv /\ Floor /\ [Next]_vars => Floor'
  BY FloorStep
<1>3. ASSUME AuditInv, Floor, tail = "whole", Len(anchored) <= Len(log),
             SubSeq(Hashes(log), 1, Len(anchored)) = anchored
      PROVE  VerdictOK
  <2> USE DEF AuditInv
  <2>1. CASE journal = <<>>
    <3>1. ChainOK
      BY <1>3 DEF Chained, Linked, ChainOK
    <3>2. Verdict = "unavailable"
      BY <1>3, <2>1, <3>1 DEF Verdict
    <3> QED
      BY <3>2 DEF VerdictOK
  <2>2. CASE journal # <<>>
    <3> DEFINE c == Len(anchored)
               H == Hashes(log)
    <3>1. JournalReadable
      BY <1>3 DEF JournalReadable, Journal, InOrder
    <3>2. /\ H \in Seq(Nat) /\ Len(H) = Len(log) /\ Len(log) \in Nat /\ c \in Nat
          /\ \A i \in 1..Len(log) : H[i] = log[i].hash
      BY <1>3, HashesType, LenProperties DEF Shape
    <3>3. Latest.count = c /\ c # 0 /\ c <= Len(log)
      BY <1>3, <2>2 DEF Journal, Floor
    <3>4. anchored # <<>> /\ log # <<>>
      BY <3>2, <3>3
    <3>5. Latest.head = anchored[c]
      BY <1>3, <2>2, <3>4 DEF Journal
    <3>6. c \in 1..c /\ c \in 1..Len(log)
      BY <3>2, <3>3
    <3> HIDE DEF AuditInv
    <3>7. SubSeq(H, 1, c)[c] = H[c]
      <4> HIDE DEF c, H
      <4> QED
        BY <3>2, <3>3, <3>6
    <3>8. log[c].hash = Latest.head
      BY <1>3, <3>2, <3>5, <3>6, <3>7
    <3>9. ~(Len(log) < c)
      BY <3>2, <3>3
    <3>10. Len(log) = c => HeadOf(log) = Latest.head
      BY <3>4, <3>8 DEF HeadOf
    <3>11. AnchoredRow(c).hash = Latest.head
      BY <3>3, <3>8 DEF AnchoredRow
    <3> QED
      BY <1>3, <2>2, <3>1, <3>3, <3>9, <3>10, <3>11, VerdictBranches
  <2> QED
    BY <2>1, <2>2
<1>4. AuditInv /\ Floor => NoFalseAlarm
  BY <1>3 DEF NoFalseAlarm
<1> QED
  BY <1>1, <1>2, <1>4, AuditInvariant, PTL DEF Spec

=============================================================================
