------------------------- MODULE SdkDeliveryProofs -------------------------
(***************************************************************************)
(* Proofs about the delivery of events, for any processes, events, queue   *)
(* and spool sizes, retries, outages and crashes.                          *)
(* The second part proves what the notification outbox promises.           *)
(***************************************************************************)
EXTENDS SdkDelivery, Outbox, FiniteSetTheorems, SequenceTheorems, TLAPS

Thr == {"worker", "host"}

ThreadRow == [at : At, batch : SUBSET Event, tries : Nat, todo : Seq(SUBSET Event)]

FileRow == [batch : SUBSET Event, name : {"tmp", "json", "sending"}, old : BOOLEAN]

Threads == [Proc -> [Thr -> ThreadRow]]

Shape ==
    /\ phase \in [Proc -> {"unborn", "up", "exiting", "gone"}]
    /\ stop \in [Proc -> BOOLEAN]
    /\ queue \in [Proc -> Seq(Event)]
    /\ thread \in Threads
    /\ spool \subseteq FileRow /\ IsFiniteSet(spool)
    /\ emitted \subseteq Event

DeliveryInv == Shape /\ EventsAccounted

-----------------------------------------------------------------------------
(***************************************************************************)
(* Where an event can be.                                                  *)
(***************************************************************************)

\* In the batch of a thread that has neither sent nor spooled it.
Holds(p, t, e) == thread[p][t].at \in {"live", "spool", "write"} /\ e \in thread[p][t].batch

Queued(p, e) == \E i \in DOMAIN queue[p] : queue[p][i] = e

\* Out of the hands of every process.
Safe(e) ==
    \/ e \in received \/ e \in dropped \/ e \in died
    \/ \E f \in spool : e \in f.batch

Kept(e) ==
    Safe(e) \/ \E p \in Proc : Alive(p) /\ (Queued(p, e) \/ \E t \in Thr : Holds(p, t, e))

\* EventsAccounted, an event at a time.
LEMMA AccountedIsKept == EventsAccounted <=> \A e \in emitted : Kept(e)
<1>1. ASSUME NEW p, NEW e
      PROVE  e \in InMemory(p) <=> Queued(p, e) \/ \E t \in Thr : Holds(p, t, e)
  <2>1. e \in ToSet(queue[p]) <=> Queued(p, e)
    BY DEF ToSet, Queued
  <2> QED
    BY <2>1 DEF InMemory, Holds, Thr
<1>2. ASSUME NEW e
      PROVE  e \in UNION ({received, dropped, died, UNION {f.batch : f \in spool}}
                             \cup {InMemory(p) : p \in {q \in Proc : Alive(q)}})
               <=> Kept(e)
  <2>1. e \in UNION {f.batch : f \in spool} <=> \E f \in spool : e \in f.batch
    OBVIOUS
  <2>2. e \in UNION {InMemory(p) : p \in {q \in Proc : Alive(q)}}
          <=> \E p \in Proc : Alive(p) /\ e \in InMemory(p)
    OBVIOUS
  <2>3. e \in UNION ({received, dropped, died, UNION {f.batch : f \in spool}}
                        \cup {InMemory(p) : p \in {q \in Proc : Alive(q)}})
          <=> \/ e \in received \/ e \in dropped \/ e \in died
              \/ e \in UNION {f.batch : f \in spool}
              \/ e \in UNION {InMemory(p) : p \in {q \in Proc : Alive(q)}}
    <3> DEFINE F == UNION {f.batch : f \in spool}
               M == {InMemory(p) : p \in {q \in Proc : Alive(q)}}
    <3> HIDE DEF F, M
    <3>1. e \in UNION ({received, dropped, died, F} \cup M)
            <=> e \in received \/ e \in dropped \/ e \in died \/ e \in F \/ e \in UNION M
      OBVIOUS
    <3> QED
      BY <3>1 DEF F, M
  <2> QED
    BY <1>1, <2>1, <2>2, <2>3 DEF Kept, Safe
<1> QED
  BY <1>2 DEF EventsAccounted

\* What a step does with what is in memory and on disk: a file goes only when its batch was
\* stored or refused, an event leaves the memory of a process only for a safe place.
FilesKept ==
    \A f \in spool : (\E g \in spool' : g.batch = f.batch)
                        \/ f.batch \subseteq received' \cup dropped'

MemoryKept ==
    \A p \in Proc, e \in Event :
        Alive(p) /\ (Queued(p, e) \/ \E t \in Thr : Holds(p, t, e)) => Kept(e)'

Grows == received \subseteq received' /\ dropped \subseteq dropped' /\ died \subseteq died'

\* Such a step keeps every event accounted for.
LEMMA KeptByStep ==
    ASSUME DeliveryInv, FilesKept, MemoryKept, Grows,
           \A e \in emitted' \ emitted : Kept(e)'
    PROVE  EventsAccounted'
<1>1. ASSUME NEW e \in emitted PROVE Kept(e)'
  <2>1. Kept(e) /\ e \in Event
    BY AccountedIsKept DEF DeliveryInv, Shape
  <2>2. ASSUME Safe(e) PROVE Safe(e)'
    BY <2>2 DEF Safe, FilesKept, Grows
  <2> QED
    BY <2>1, <2>2 DEF Kept, MemoryKept
<1>2. \A e \in emitted' : Kept(e)'
  BY <1>1
<1>3. EventsAccounted' <=> (\A e \in emitted : Kept(e))'
  BY AccountedIsKept, PTL
<1> QED
  BY <1>2, <1>3

-----------------------------------------------------------------------------
(***************************************************************************)
(* Threads and files.                                                      *)
(***************************************************************************)

LEMMA MovedRow ==
    ASSUME NEW x \in ThreadRow, NEW v \in At
    PROVE  LET y == [x EXCEPT !.at = v]
           IN  y \in ThreadRow /\ y.at = v /\ y.batch = x.batch
BY DEF ThreadRow

\* A thread only changes where it is.
LEMMA ThreadTo ==
    ASSUME thread \in Threads, NEW p \in Proc, NEW t \in Thr, NEW v \in At, To(p, t, v)
    PROVE  \E x \in ThreadRow : /\ thread' = [thread EXCEPT ![p][t] = x]
                                /\ x.at = v /\ x.batch = thread[p][t].batch
<1>1. thread[p][t] \in ThreadRow
  BY DEF Threads
<1> DEFINE x == [thread[p][t] EXCEPT !.at = v]
<1>2. thread' = [thread EXCEPT ![p][t] = x]
  BY DEF To, Threads
<1>3. x \in ThreadRow /\ x.at = v /\ x.batch = thread[p][t].batch
  BY <1>1, MovedRow
<1> HIDE DEF x
<1> QED
  BY <1>2, <1>3

\* A thread is through with its flush.
LEMMA ThreadFinish ==
    ASSUME NEW p \in Proc, NEW t \in Thr
    PROVE  Rest(p, t) \in ThreadRow /\ Rest(p, t).at \in {"idle", "done"}
<1> DEFINE v == IF t = "worker" /\ stop[p] THEN "done" ELSE "idle"
<1>1. Idle \in ThreadRow
  <2>1. <<>> \in Seq(SUBSET Event)
    OBVIOUS
  <2> QED
    BY <2>1 DEF Idle, ThreadRow, At
<1>2. v \in At /\ v \in {"idle", "done"}
  BY DEF At
<1>3. Rest(p, t) = [Idle EXCEPT !.at = v]
  BY DEF Rest
<1> HIDE DEF v
<1> QED
  BY <1>1, <1>2, <1>3, MovedRow

\* A step of one thread that hands on the batch it held.
LEMMA OneThread ==
    ASSUME Shape, NEW p \in Proc, NEW t \in Thr, NEW x \in ThreadRow,
           thread' = [thread EXCEPT ![p][t] = x], phase' = phase, queue' = queue,
           \A e \in Event : Holds(p, t, e) =>
               (x.at \in {"live", "spool", "write"} /\ e \in x.batch) \/ Safe(e)'
    PROVE  MemoryKept /\ thread' \in Threads
<1>1. /\ thread' \in Threads /\ thread'[p][t] = x
      /\ \A q \in Proc, u \in Thr : q # p \/ u # t => thread'[q][u] = thread[q][u]
  <2> DEFINE n == [thread EXCEPT ![p][t] = x]
  <2>1. thread \in Threads
    BY DEF Shape
  <2>2. /\ n \in Threads /\ n[p][t] = x
        /\ \A q \in Proc, u \in Thr : q # p \/ u # t => n[q][u] = thread[q][u]
    BY <2>1 DEF Threads
  <2>3. thread' = n
    OBVIOUS
  <2> HIDE DEF n
  <2> QED
    BY <2>2, <2>3
<1>2. ASSUME NEW q \in Proc, NEW e \in Event, Alive(q),
             Queued(q, e) \/ \E u \in Thr : Holds(q, u, e)
      PROVE  Kept(e)'
  <2>1. Alive(q)'
    BY <1>2 DEF Alive
  <2>2. CASE Queued(q, e)
    <3>1. Queued(q, e)'
      BY <2>2 DEF Queued
    <3> QED
      BY <2>1, <3>1 DEF Kept
  <2>3. ASSUME NEW u \in Thr, Holds(q, u, e) PROVE Kept(e)'
    <3>1. CASE q = p /\ u = t
      <4>1. Holds(q, u, e)' \/ Safe(e)'
        BY <1>1, <2>3, <3>1 DEF Holds
      <4> QED
        BY <2>1, <4>1 DEF Kept
    <3>2. CASE q # p \/ u # t
      <4>1. Holds(q, u, e)'
        BY <1>1, <2>3, <3>2 DEF Holds
      <4> QED
        BY <2>1, <4>1 DEF Kept
    <3> QED
      BY <3>1, <3>2
  <2> QED
    BY <1>2, <2>2, <2>3
<1> QED
  BY <1>1, <1>2 DEF MemoryKept

\* A step that changes neither processes nor queues nor threads keeps what is in memory.
LEMMA NoThread ==
    ASSUME UNCHANGED <<phase, queue, thread>>
    PROVE  MemoryKept
<1> SUFFICES ASSUME NEW p \in Proc, NEW e \in Event, Alive(p),
                    Queued(p, e) \/ \E t \in Thr : Holds(p, t, e)
             PROVE  Kept(e)'
  BY DEF MemoryKept
<1>1. Alive(p)' /\ (Queued(p, e)' \/ \E t \in Thr : Holds(p, t, e)')
  BY DEF Alive, Queued, Holds
<1> QED
  BY <1>1 DEF Kept

\* The image of a finite set under a function is finite.
LEMMA FiniteImage ==
    ASSUME NEW S, IsFiniteSet(S), NEW g, DOMAIN g = S
    PROVE  IsFiniteSet({g[x] : x \in S})
<1> DEFINE T == {g[x] : x \in S}
           h == [x \in S |-> g[x]]
<1>1. h \in [S -> T] /\ \A y \in T : \E x \in S : h[x] = y
  OBVIOUS
<1>2. h \in Surjection(S, T)
  BY <1>1 DEF Surjection
<1> HIDE DEF h, T
<1>3. IsFiniteSet(T)
  BY <1>2, FS_Surjection
<1> QED
  BY <1>3 DEF T

\* os.replace: a file keeps its batch.
LEMMA RenamedFiles ==
    ASSUME spool \subseteq FileRow, IsFiniteSet(spool), NEW b,
           NEW from, NEW to \in {"tmp", "json", "sending"}
    PROVE  LET r == Renamed(spool, b, from, to)
           IN  /\ r \subseteq FileRow /\ IsFiniteSet(r)
               /\ \A f \in spool : \E g \in r : g.batch = f.batch
<1> DEFINE g == [f \in spool |-> IF f.batch = b /\ f.name = from
                                   THEN [f EXCEPT !.name = to] ELSE f]
<1>1. Renamed(spool, b, from, to) = {g[f] : f \in spool}
  BY DEF Renamed
<1>2. IsFiniteSet({g[f] : f \in spool})
  <2>1. DOMAIN g = spool
    OBVIOUS
  <2> HIDE DEF g
  <2> QED
    BY <2>1, FiniteImage
<1>3. ASSUME NEW f \in spool PROVE g[f] \in FileRow /\ g[f].batch = f.batch
  BY DEF FileRow
<1> HIDE DEF g
<1> QED
  BY <1>1, <1>2, <1>3

-----------------------------------------------------------------------------
(***************************************************************************)
(* The steps.                                                              *)
(***************************************************************************)

\* What every step does: nothing leaves a place but for another one.
Handover ==
    /\ Shape' /\ FilesKept /\ MemoryKept /\ Grows
    /\ \A e \in emitted' \ emitted : Kept(e)'

\* A step of one thread that leaves the files alone.
LEMMA ThreadHandover ==
    ASSUME Shape, NEW p \in Proc, NEW t \in Thr, NEW x \in ThreadRow,
           thread' = [thread EXCEPT ![p][t] = x],
           UNCHANGED <<phase, stop, queue, spool, emitted>>, Grows,
           \A e \in Event : Holds(p, t, e) =>
               (x.at \in {"live", "spool", "write"} /\ e \in x.batch) \/ Safe(e)'
    PROVE  Handover
<1>1. MemoryKept /\ thread' \in Threads
  BY OneThread
<1>2. Shape' /\ FilesKept
  BY <1>1 DEF Shape, FilesKept
<1> QED
  BY <1>1, <1>2 DEF Handover

\* _deliver: the batch is stored, refused for good, tried again or kept for the spool.
LEMMA PostLiveStep ==
    ASSUME Shape, NEW p \in Proc, NEW t \in Thr, PostLive(p, t)
    PROVE  Handover
<1> DEFINE s == thread[p][t]
<1>1. PICK answer \in Answers :
        /\ received' = ReceivedAfter(s.batch, answer)
        /\ dropped' = IF answer = "refused" THEN dropped \cup s.batch ELSE dropped
        /\ IF answer \in {"accepted", "refused"} THEN Finish(p, t)
           ELSE IF t = "worker" /\ s.tries < MaxRetries
             THEN thread' = [thread EXCEPT ![p][t].tries = @ + 1]
             ELSE To(p, t, "spool")
  BY DEF PostLive
<1>2. UNCHANGED <<phase, stop, queue, spool, emitted, died>> /\ s.at = "live"
  BY DEF PostLive
<1>3. Grows
  BY <1>1, <1>2 DEF Grows, ReceivedAfter
<1>4. thread \in Threads /\ s \in ThreadRow
  BY DEF Shape, Threads
<1>5. ASSUME NEW x \in ThreadRow, thread' = [thread EXCEPT ![p][t] = x],
             \/ answer \in {"accepted", "refused"}
             \/ x.at \in {"live", "spool"} /\ x.batch = s.batch
      PROVE  Handover
  <2>1. ASSUME NEW e \in Event, Holds(p, t, e)
        PROVE  (x.at \in {"live", "spool", "write"} /\ e \in x.batch) \/ Safe(e)'
    BY <1>1, <1>5, <2>1 DEF Holds, Safe, ReceivedAfter
  <2> QED
    BY <1>2, <1>3, <1>5, <2>1, ThreadHandover
<1>6. CASE answer \in {"accepted", "refused"}
  <2>1. thread' = [thread EXCEPT ![p][t] = Rest(p, t)] /\ Rest(p, t) \in ThreadRow
    BY <1>1, <1>6, ThreadFinish DEF Finish
  <2> QED
    BY <1>5, <1>6, <2>1
<1>7. CASE answer \notin {"accepted", "refused"} /\ t = "worker" /\ s.tries < MaxRetries
  <2> DEFINE x == [s EXCEPT !.tries = @ + 1]
  <2>1. thread' = [thread EXCEPT ![p][t] = x]
    BY <1>1, <1>4, <1>7 DEF Threads
  <2>2. x \in ThreadRow /\ x.at = s.at /\ x.batch = s.batch
    <3>1. ASSUME NEW y \in ThreadRow
          PROVE  LET z == [y EXCEPT !.tries = @ + 1]
                 IN  z \in ThreadRow /\ z.at = y.at /\ z.batch = y.batch
      BY DEF ThreadRow
    <3> HIDE DEF s
    <3> QED
      BY <1>4, <3>1
  <2> HIDE DEF x
  <2> QED
    BY <1>2, <1>5, <2>1, <2>2
<1>8. CASE answer \notin {"accepted", "refused"} /\ ~(t = "worker" /\ s.tries < MaxRetries)
  <2>1. To(p, t, "spool") /\ "spool" \in At
    BY <1>1, <1>8 DEF At
  <2>2. PICK x \in ThreadRow : /\ thread' = [thread EXCEPT ![p][t] = x]
                               /\ x.at = "spool" /\ x.batch = s.batch
    BY <1>4, <2>1, ThreadTo
  <2> QED
    BY <1>5, <2>2
<1> QED
  BY <1>6, <1>7, <1>8

\* _spool, the check of the size: the batch is kept for the write or counted as dropped.
LEMMA SpoolCheckStep ==
    ASSUME Shape, NEW p \in Proc, NEW t \in Thr, SpoolCheck(p, t)
    PROVE  Handover
<1> DEFINE s == thread[p][t]
           fits == Spooling /\ SpoolSize + Cardinality(s.batch) <= SpoolMax
<1>1. /\ IF fits THEN To(p, t, "write") ELSE Finish(p, t)
      /\ dropped' = IF fits THEN dropped ELSE dropped \cup s.batch
      /\ UNCHANGED <<phase, stop, queue, spool, emitted, received, died>>
  BY DEF SpoolCheck
<1> HIDE DEF fits
<1>2. Grows
  BY <1>1 DEF Grows
<1>3. CASE fits
  <2>1. thread \in Threads /\ "write" \in At /\ To(p, t, "write")
    BY <1>1, <1>3 DEF Shape, At
  <2>2. PICK x \in ThreadRow : /\ thread' = [thread EXCEPT ![p][t] = x]
                               /\ x.at = "write" /\ x.batch = s.batch
    BY <2>1, ThreadTo
  <2>3. \A e \in Event : Holds(p, t, e) =>
           (x.at \in {"live", "spool", "write"} /\ e \in x.batch) \/ Safe(e)'
    BY <2>2 DEF Holds
  <2> QED
    BY <1>1, <1>2, <2>2, <2>3, ThreadHandover
<1>4. CASE ~fits
  <2>1. thread' = [thread EXCEPT ![p][t] = Rest(p, t)] /\ Rest(p, t) \in ThreadRow
    BY <1>1, <1>4, ThreadFinish DEF Finish
  <2>2. \A e \in Event : Holds(p, t, e) => Safe(e)'
    BY <1>1, <1>4 DEF Holds, Safe
  <2> QED
    BY <1>1, <1>2, <2>1, <2>2, ThreadHandover
<1> QED
  BY <1>3, <1>4

\* A step of one thread that changes the files and keeps every batch on disk.
LEMMA FileHandover ==
    ASSUME Shape, NEW p \in Proc, NEW t \in Thr, NEW x \in ThreadRow,
           thread' = [thread EXCEPT ![p][t] = x],
           UNCHANGED <<phase, stop, queue, emitted>>, Grows,
           spool' \subseteq FileRow, IsFiniteSet(spool'), FilesKept,
           \A e \in Event : Holds(p, t, e) => Safe(e)'
    PROVE  Handover
<1>1. MemoryKept /\ thread' \in Threads
  BY OneThread
<1>2. Shape'
  BY <1>1 DEF Shape
<1> QED
  BY <1>1, <1>2 DEF Handover

\* _spool, an error: the batch is counted as dropped.
LEMMA SpoolFailsStep ==
    ASSUME Shape, NEW p \in Proc, NEW t \in Thr, SpoolFails(p, t),
           UNCHANGED <<phase, stop, queue, emitted, received, died>>
    PROVE  Handover
<1>1. thread' = [thread EXCEPT ![p][t] = Rest(p, t)] /\ Rest(p, t) \in ThreadRow
  BY ThreadFinish DEF SpoolFails, Finish
<1>2. \A e \in Event : Holds(p, t, e) => Safe(e)'
  BY DEF SpoolFails, Holds, Safe
<1>3. Grows /\ UNCHANGED spool
  BY DEF SpoolFails, Grows
<1> QED
  BY <1>1, <1>2, <1>3, ThreadHandover

\* _spool: the temporary file holds the batch from here on, ...
LEMMA SpoolWriteStep ==
    ASSUME Shape, NEW p \in Proc, NEW t \in Thr, SpoolWrite(p, t)
    PROVE  Handover
<1> DEFINE s == thread[p][t]
           file == [batch |-> s.batch, name |-> "tmp", old |-> FALSE]
<1>0. UNCHANGED <<phase, stop, queue, emitted, received, died>>
  BY DEF SpoolWrite
<1>1. CASE spool' = spool \cup {file} /\ To(p, t, "rename") /\ UNCHANGED dropped
  <2>1. thread \in Threads /\ "rename" \in At /\ s \in ThreadRow
    BY DEF Shape, At, Threads
  <2>2. PICK x \in ThreadRow : /\ thread' = [thread EXCEPT ![p][t] = x]
                               /\ x.at = "rename" /\ x.batch = s.batch
    BY <1>1, <2>1, ThreadTo
  <2>3. file \in FileRow /\ file.batch = s.batch
    BY <2>1 DEF FileRow, ThreadRow
  <2> HIDE DEF file
  <2>4. spool' \subseteq FileRow /\ IsFiniteSet(spool') /\ FilesKept
    BY <1>1, <2>3, FS_AddElement DEF Shape, FilesKept
  <2>5. \A e \in Event : Holds(p, t, e) => Safe(e)'
    BY <1>1, <2>3 DEF Holds, Safe
  <2>6. Grows
    BY <1>0, <1>1 DEF Grows
  <2> QED
    BY <1>0, <1>1, <2>2, <2>4, <2>5, <2>6, FileHandover
<1>2. CASE SpoolFails(p, t)
  BY <1>0, <1>2, SpoolFailsStep
<1> QED
  BY <1>1, <1>2 DEF SpoolWrite

\* ... and keeps it under its name.
LEMMA SpoolRenameStep ==
    ASSUME Shape, NEW p \in Proc, NEW t \in Thr, SpoolRename(p, t)
    PROVE  Handover
<1> DEFINE s == thread[p][t]
<1>0. UNCHANGED <<phase, stop, queue, emitted, received, died>> /\ s.at = "rename"
  BY DEF SpoolRename
<1>1. CASE /\ spool' = Renamed(spool, s.batch, "tmp", "json") /\ Finish(p, t)
           /\ UNCHANGED dropped
  <2>1. thread' = [thread EXCEPT ![p][t] = Rest(p, t)] /\ Rest(p, t) \in ThreadRow
    BY <1>1, ThreadFinish DEF Finish
  <2>2. spool' \subseteq FileRow /\ IsFiniteSet(spool') /\ FilesKept
    BY <1>1, RenamedFiles DEF Shape, FilesKept
  <2>3. \A e \in Event : ~Holds(p, t, e)
    BY <1>0 DEF Holds
  <2>4. Grows
    BY <1>0, <1>1 DEF Grows
  <2> QED
    BY <1>0, <2>1, <2>2, <2>3, <2>4, FileHandover
<1>2. CASE SpoolFails(p, t)
  BY <1>0, <1>2, SpoolFailsStep
<1> QED
  BY <1>1, <1>2 DEF SpoolRename

\* The paths a drain goes through are a list of batches.
LEMMA Listing ==
    ASSUME NEW S \in SUBSET FileRow, IsFiniteSet(S),
           NEW todo \in SetToSeqs({f.batch : f \in {g \in S : g.name = "json"}})
    PROVE  todo \in Seq(SUBSET Event)
<1> DEFINE J == {g \in S : g.name = "json"}
           b == [f \in J |-> f.batch]
           B == {b[f] : f \in J}
<1>1. IsFiniteSet(J)
  BY FS_Subset
<1>2. IsFiniteSet(B)
  <2>1. DOMAIN b = J
    OBVIOUS
  <2> HIDE DEF b, J
  <2> QED
    BY <1>1, <2>1, FiniteImage
<1>3. B = {f.batch : f \in J} /\ B \subseteq SUBSET Event
  BY DEF FileRow
<1> HIDE DEF B
<1>4. todo \in [1..Cardinality(B) -> B]
  BY <1>3 DEF SetToSeqs
<1>5. Cardinality(B) \in Nat
  BY <1>2, FS_CardinalityType
<1>6. ASSUME NEW n \in Nat, NEW T, T \subseteq SUBSET Event, NEW l \in [1..n -> T]
      PROVE  l \in Seq(SUBSET Event)
  <2>1. l \in [1..n -> SUBSET Event]
    BY <1>6
  <2> QED
    BY <2>1, SeqDef
<1> QED
  BY <1>3, <1>4, <1>5, <1>6

\* flush of the worker, up to the listing: reclaimed files keep their batches.
LEMMA StartFlushStep ==
    ASSUME Shape, NEW p \in Proc, StartFlush(p)
    PROVE  Handover
<1> DEFINE s == thread[p]["worker"]
           g == [f \in spool |-> IF Spooling /\ f.name = "sending" /\ f.old
                                   THEN [f EXCEPT !.name = "json"] ELSE f]
<1>1. ASSUME NEW f \in spool PROVE g[f] \in FileRow /\ g[f].batch = f.batch
  BY DEF Shape, FileRow
<1>2. IsFiniteSet({g[f] : f \in spool})
  <2>1. DOMAIN g = spool /\ IsFiniteSet(spool)
    BY DEF Shape
  <2> HIDE DEF g
  <2> QED
    BY <2>1, FiniteImage
<1>3. spool' = {g[f] : f \in spool}
  BY DEF StartFlush
<1> HIDE DEF g
<1>4. spool' \subseteq FileRow /\ IsFiniteSet(spool') /\ FilesKept
  BY <1>1, <1>2, <1>3 DEF FilesKept
<1>5. /\ s.at = "idle"
      /\ UNCHANGED <<phase, stop, queue, emitted, received, dropped, died>>
  BY DEF StartFlush
<1>6. PICK todo \in SetToSeqs({f.batch : f \in {h \in spool' : h.name = "json"}}) :
        thread' = [thread EXCEPT ![p]["worker"].at = "drain", ![p]["worker"].todo = todo]
  BY DEF StartFlush
<1>7. todo \in Seq(SUBSET Event)
  <2> DEFINE S == spool'
  <2>1. S \in SUBSET FileRow /\ IsFiniteSet(S)
    BY <1>4
  <2> HIDE DEF S
  <2>2. todo \in SetToSeqs({f.batch : f \in {h \in S : h.name = "json"}})
    BY <1>6 DEF S
  <2> QED
    BY <2>1, <2>2, Listing
<1>8. thread \in Threads /\ s \in ThreadRow
  BY DEF Shape, Threads, Thr
<1> DEFINE x == [s EXCEPT !.at = "drain", !.todo = todo]
<1>9. thread' = [thread EXCEPT ![p]["worker"] = x]
  <2>1. ASSUME NEW m \in Threads
        PROVE  [m EXCEPT ![p]["worker"].at = "drain", ![p]["worker"].todo = todo]
                 = [m EXCEPT ![p]["worker"] =
                      [m[p]["worker"] EXCEPT !.at = "drain", !.todo = todo]]
    BY DEF Threads, Thr
  <2> QED
    BY <1>6, <1>8, <2>1
<1>10. x \in ThreadRow
  <2>1. ASSUME NEW y \in ThreadRow PROVE [y EXCEPT !.at = "drain", !.todo = todo] \in ThreadRow
    BY <1>7 DEF ThreadRow, At
  <2> HIDE DEF s
  <2> QED
    BY <1>8, <2>1
<1> HIDE DEF x
<1>11. (\A e \in Event : ~Holds(p, "worker", e)) /\ Grows /\ "worker" \in Thr
  BY <1>5 DEF Holds, Grows, Thr
<1> QED
  BY <1>4, <1>5, <1>9, <1>10, <1>11, FileHandover

\* _drain_spool, one path: the rename keeps the file's batch.
LEMMA ClaimNextStep ==
    ASSUME Shape, NEW p \in Proc, ClaimNext(p)
    PROVE  Handover
<1> DEFINE w == thread[p]["worker"]
<1>1. w.at = "drain" /\ UNCHANGED <<phase, stop, queue, emitted, received, dropped, died>>
  BY DEF ClaimNext
<1>2. thread \in Threads /\ w \in ThreadRow /\ "worker" \in Thr
  BY DEF Shape, Threads, Thr
<1>3. (\A e \in Event : ~Holds(p, "worker", e)) /\ Grows
  BY <1>1 DEF Holds, Grows
<1>4. CASE w.todo = <<>>
  <2>1. To(p, "worker", "collect") /\ UNCHANGED spool /\ "collect" \in At
    BY <1>4 DEF ClaimNext, At
  <2>2. PICK x \in ThreadRow : thread' = [thread EXCEPT ![p]["worker"] = x]
    BY <1>2, <2>1, ThreadTo
  <2> QED
    BY <1>1, <1>2, <1>3, <2>1, <2>2, ThreadHandover
<1>5. CASE w.todo # <<>>
  <2> DEFINE b == Head(w.todo)
             mine == \E f \in FilesNamed("json") : f.batch = b
             x == [w EXCEPT !.todo = Tail(@), !.at = IF mine THEN "claimed" ELSE "drain",
                            !.batch = IF mine THEN b ELSE {}]
  <2>1. spool' = Renamed(spool, b, "json", "sending") /\ thread' = [thread EXCEPT ![p]["worker"] = x]
    BY <1>5 DEF ClaimNext
  <2>2. spool' \subseteq FileRow /\ IsFiniteSet(spool') /\ FilesKept
    BY <2>1, RenamedFiles DEF Shape, FilesKept
  <2>3. x \in ThreadRow
    <3>1. w.todo \in Seq(SUBSET Event)
      BY <1>2 DEF ThreadRow
    <3>2. Tail(w.todo) \in Seq(SUBSET Event) /\ b \in SUBSET Event
      <4> HIDE DEF w
      <4> QED
        BY <1>5, <3>1, HeadTailProperties
    <3>3. ASSUME NEW y \in ThreadRow, NEW l \in Seq(SUBSET Event), NEW v \in At,
                 NEW c \in SUBSET Event
          PROVE  [y EXCEPT !.todo = l, !.at = v, !.batch = c] \in ThreadRow
      BY DEF ThreadRow
    <3> DEFINE v == IF mine THEN "claimed" ELSE "drain"
               c == IF mine THEN b ELSE {}
    <3> HIDE DEF mine, b
    <3>4. v \in At /\ c \in SUBSET Event
      BY <3>2 DEF At
    <3>5. x = [w EXCEPT !.todo = Tail(@), !.at = v, !.batch = c]
      OBVIOUS
    <3> HIDE DEF v, c, x, w
    <3> QED
      BY <1>2, <3>2, <3>3, <3>4, <3>5
  <2> HIDE DEF x
  <2> QED
    BY <1>1, <1>2, <1>3, <2>1, <2>2, <2>3, FileHandover
<1> QED
  BY <1>4, <1>5

\* _drain_spool, the answer: a file is removed only with its batch stored or refused.
LEMMA PostSpooledStep ==
    ASSUME Shape, NEW p \in Proc, PostSpooled(p)
    PROVE  Handover
<1> DEFINE w == thread[p]["worker"]
<1>1. w.at = "claimed" /\ UNCHANGED <<phase, stop, queue, emitted, died>>
  BY DEF PostSpooled
<1>2. PICK answer \in Answers :
        /\ received' = ReceivedAfter(w.batch, answer)
        /\ dropped' = IF answer = "refused" THEN dropped \cup w.batch ELSE dropped
        /\ IF answer \in {"failed", "unanswered"}
             THEN /\ spool' = Renamed(spool, w.batch, "sending", "json")
                  /\ To(p, "worker", "collect")
             ELSE /\ spool' = {f \in spool : ~(f.batch = w.batch /\ f.name = "sending")}
                  /\ To(p, "worker", "drain")
  BY DEF PostSpooled
<1>3. thread \in Threads /\ "worker" \in Thr /\ {"collect", "drain"} \subseteq At
  BY DEF Shape, Thr, At
<1>4. (\A e \in Event : ~Holds(p, "worker", e)) /\ Grows
  BY <1>1, <1>2 DEF Holds, Grows, ReceivedAfter
<1>5. PICK x \in ThreadRow : thread' = [thread EXCEPT ![p]["worker"] = x]
  BY <1>2, <1>3, ThreadTo
<1>6. spool' \subseteq FileRow /\ IsFiniteSet(spool') /\ FilesKept
  <2>1. CASE answer \in {"failed", "unanswered"}
    BY <1>2, <2>1, RenamedFiles DEF Shape, FilesKept
  <2>2. CASE answer \notin {"failed", "unanswered"}
    <3>1. answer \in {"accepted", "refused"}
      BY <2>2 DEF Answers
    <3>2. w.batch \subseteq received' \cup dropped'
      BY <1>2, <3>1 DEF ReceivedAfter
    <3>3. spool' \subseteq spool /\ spool' \subseteq FileRow
      BY <1>2, <2>2 DEF Shape
    <3>4. IsFiniteSet(spool')
      BY <3>3, FS_Subset DEF Shape
    <3>5. FilesKept
      BY <1>2, <2>2, <3>2 DEF FilesKept
    <3> QED
      BY <3>3, <3>4, <3>5
  <2> QED
    BY <2>1, <2>2
<1> QED
  BY <1>1, <1>3, <1>4, <1>5, <1>6, FileHandover

\* flush and shutdown: the queue becomes a thread's batch, or all of it is counted as dropped.
LEMMA CollectStep ==
    ASSUME Shape, NEW p \in Proc, NEW t \in Thr, thread[p][t].at \in {"collect", "idle"},
           Alive(p), Alive(p)', \A q \in Proc \ {p} : phase'[q] = phase[q],
           phase' \in [Proc -> {"unborn", "up", "exiting", "gone"}],
           stop' \in [Proc -> BOOLEAN],
           CollectInto(p, t), UNCHANGED <<spool, emitted, received, died>>
    PROVE  Handover
<1> DEFINE batch == ToSet(queue[p])
           sends == batch # {} /\ batch \cap Unserial = {}
           x == IF sends THEN [Idle EXCEPT !.at = "live", !.batch = batch] ELSE Rest(p, t)
<1>1. /\ queue' = [queue EXCEPT ![p] = <<>>]
      /\ dropped' = IF sends THEN dropped ELSE dropped \cup batch
      /\ thread' = [thread EXCEPT ![p][t] = x]
  BY DEF CollectInto
<1>2. /\ \A e : Queued(p, e) <=> e \in batch
      /\ batch \subseteq Event
  <2>1. \A e : Queued(p, e) <=> e \in batch
    BY DEF Queued, ToSet
  <2>2. queue[p] \in Seq(Event)
    BY DEF Shape
  <2>3. \A i \in DOMAIN queue[p] : queue[p][i] \in Event
    BY <2>2, LenProperties, ElementOfSeq
  <2> QED
    BY <2>1, <2>3 DEF ToSet
<1> HIDE DEF batch
<1>3. x \in ThreadRow /\ (sends => x.at = "live" /\ x.batch = batch)
  <2>1. CASE sends
    <3>1. Idle \in ThreadRow
      BY EmptySeq DEF Idle, ThreadRow, At
    <3>2. ASSUME NEW y \in ThreadRow
          PROVE  LET z == [y EXCEPT !.at = "live", !.batch = batch]
                 IN  z \in ThreadRow /\ z.at = "live" /\ z.batch = batch
      BY <1>2 DEF ThreadRow, At
    <3> QED
      BY <2>1, <3>1, <3>2
  <2>2. CASE ~sends
    BY <2>2, ThreadFinish
  <2> QED
    BY <2>1, <2>2
<1> HIDE DEF x, sends
<1>4. /\ thread' \in Threads /\ thread'[p][t] = x
      /\ \A q \in Proc, u \in Thr : q # p \/ u # t => thread'[q][u] = thread[q][u]
  <2> DEFINE n == [thread EXCEPT ![p][t] = x]
  <2>1. thread \in Threads
    BY DEF Shape
  <2>2. /\ n \in Threads /\ n[p][t] = x
        /\ \A q \in Proc, u \in Thr : q # p \/ u # t => n[q][u] = thread[q][u]
    BY <1>3, <2>1 DEF Threads
  <2>3. thread' = n
    BY <1>1
  <2> HIDE DEF n
  <2> QED
    BY <2>2, <2>3
<1>5. ASSUME NEW q \in Proc, NEW e \in Event, Alive(q),
             Queued(q, e) \/ \E u \in Thr : Holds(q, u, e)
      PROVE  Kept(e)'
  <2>1. Alive(q)'
    BY <1>5 DEF Alive
  <2>2. CASE Queued(q, e) /\ q = p
    <3>1. CASE sends
      <4>1. Holds(p, t, e)'
        BY <1>2, <1>3, <1>4, <2>2, <3>1 DEF Holds
      <4> QED
        BY <4>1 DEF Kept
    <3>2. CASE ~sends
      <4>1. Safe(e)'
        BY <1>1, <1>2, <2>2, <3>2 DEF Safe
      <4> QED
        BY <4>1 DEF Kept
    <3> QED
      BY <3>1, <3>2
  <2>3. CASE Queued(q, e) /\ q # p
    <3>1. Queued(q, e)'
      BY <1>1, <2>3 DEF Queued, Shape
    <3> QED
      BY <2>1, <3>1 DEF Kept
  <2>4. ASSUME NEW u \in Thr, Holds(q, u, e) PROVE Kept(e)'
    <3>1. q # p \/ u # t
      BY <2>4 DEF Holds
    <3>2. Holds(q, u, e)'
      BY <1>4, <2>4, <3>1 DEF Holds
    <3> QED
      BY <2>1, <3>2 DEF Kept
  <2> QED
    BY <1>5, <2>2, <2>3, <2>4
<1>6. MemoryKept
  BY <1>5 DEF MemoryKept
<1>7. queue' \in [Proc -> Seq(Event)]
  <2>1. <<>> \in Seq(Event)
    OBVIOUS
  <2> QED
    BY <1>1, <2>1 DEF Shape
<1>8. Shape' /\ FilesKept /\ Grows
  BY <1>1, <1>4, <1>7 DEF Shape, FilesKept, Grows
<1> QED
  BY <1>6, <1>8 DEF Handover

\* A process ends: what only it had is counted as gone with it.
LEMMA EndedStep ==
    ASSUME Shape, NEW p \in Proc, Ended(p)
    PROVE  Handover
<1>1. /\ phase' = [phase EXCEPT ![p] = "gone"]
      /\ died' = died \cup (InMemory(p) \ received)
      /\ queue' = [queue EXCEPT ![p] = <<>>]
      /\ thread' = [thread EXCEPT ![p] = [t \in Thr |-> Idle]]
      /\ UNCHANGED <<stop, spool, emitted, received, dropped>>
  BY DEF Ended, Thr
<1>2. Idle \in ThreadRow
  BY EmptySeq DEF Idle, ThreadRow, At
<1>3. thread' \in Threads /\ \A q \in Proc \ {p} : thread'[q] = thread[q]
  BY <1>1, <1>2 DEF Shape, Threads
<1>4. queue' \in [Proc -> Seq(Event)] /\ \A q \in Proc \ {p} : queue'[q] = queue[q]
  <2>1. <<>> \in Seq(Event)
    OBVIOUS
  <2> QED
    BY <1>1, <2>1 DEF Shape
<1>5. /\ phase' \in [Proc -> {"unborn", "up", "exiting", "gone"}]
      /\ \A q \in Proc \ {p} : phase'[q] = phase[q]
  BY <1>1 DEF Shape
<1>6. ASSUME NEW q \in Proc, NEW e \in Event, Alive(q),
             Queued(q, e) \/ \E u \in Thr : Holds(q, u, e)
      PROVE  Kept(e)'
  <2>1. CASE q = p
    <3>1. e \in InMemory(p)
      <4>1. e \in ToSet(queue[p]) <=> Queued(p, e)
        BY DEF ToSet, Queued
      <4> QED
        BY <1>6, <2>1, <4>1 DEF InMemory, Holds, Thr
    <3> QED
      BY <1>1, <3>1 DEF Kept, Safe
  <2>2. CASE q # p
    <3>1. Alive(q)' /\ (Queued(q, e)' \/ \E u \in Thr : Holds(q, u, e)')
      BY <1>3, <1>4, <1>5, <1>6, <2>2 DEF Alive, Queued, Holds
    <3> QED
      BY <3>1 DEF Kept
  <2> QED
    BY <2>1, <2>2
<1>7. MemoryKept
  BY <1>6 DEF MemoryKept
<1>8. Shape' /\ FilesKept /\ Grows
  BY <1>1, <1>3, <1>4, <1>5 DEF Shape, FilesKept, Grows
<1> QED
  BY <1>1, <1>7, <1>8 DEF Handover

\* record(): the event is queued, or counted as dropped by a full queue.
LEMMA EnqueueStep ==
    ASSUME Shape, NEW p \in Proc, NEW e \in Event, Enqueue(p, e)
    PROVE  Handover
<1>1. /\ emitted' = emitted \cup {e} /\ Alive(p)
      /\ UNCHANGED <<phase, stop, thread, spool, received, died>>
  BY DEF Enqueue, Alive
<1>2. queue \in [Proc -> Seq(Event)] /\ queue[p] \in Seq(Event)
  BY DEF Shape
<1>4. /\ queue' \in [Proc -> Seq(Event)] /\ dropped \subseteq dropped'
      /\ \A q \in Proc, d \in Event : Queued(q, d) => Queued(q, d)'
      /\ Queued(p, e)' \/ e \in dropped'
  <2>1. CASE Len(queue[p]) < QueueMax
    <3> DEFINE s == queue[p]
               n == Append(s, e)
    <3>1. queue' = [queue EXCEPT ![p] = n] /\ UNCHANGED dropped
      BY <2>1 DEF Enqueue
    <3>2. n \in Seq(Event) /\ Len(n) = Len(s) + 1 /\ n[Len(n)] = e
          /\ \A i \in 1..Len(s) : n[i] = s[i]
      <4> HIDE DEF s
      <4>1. s \in Seq(Event)
        BY <1>2 DEF s
      <4> QED
        BY <4>1, AppendProperties
    <3>3. DOMAIN s = 1..Len(s) /\ DOMAIN n = 1..Len(n) /\ Len(s) \in Nat
      <4> HIDE DEF n
      <4> QED
        BY <1>2, <3>2, LenProperties
    <3> HIDE DEF n
    <3>4. queue' \in [Proc -> Seq(Event)] /\ queue'[p] = n
          /\ \A q \in Proc \ {p} : queue'[q] = queue[q]
      BY <1>2, <3>1, <3>2
    <3>5. Queued(p, e)'
      BY <3>2, <3>3, <3>4 DEF Queued
    <3>6. ASSUME NEW q \in Proc, NEW d \in Event, Queued(q, d) PROVE Queued(q, d)'
      <4>1. CASE q = p
        <5>1. PICK i \in DOMAIN s : s[i] = d
          BY <3>6, <4>1 DEF Queued
        <5> HIDE DEF s
        <5>2. i \in DOMAIN n
          BY <3>2, <3>3, <5>1
        <5>3. n[i] = d
          BY <3>2, <3>3, <5>1
        <5> QED
          BY <3>4, <4>1, <5>2, <5>3 DEF Queued
      <4>2. CASE q # p
        BY <3>4, <3>6, <4>2 DEF Queued
      <4> QED
        BY <4>1, <4>2
    <3> QED
      BY <3>1, <3>4, <3>5, <3>6
  <2>2. CASE ~(Len(queue[p]) < QueueMax)
    <3>1. dropped' = dropped \cup {e} /\ UNCHANGED queue
      BY <2>2 DEF Enqueue
    <3> QED
      BY <1>2, <3>1 DEF Queued
  <2> QED
    BY <2>1, <2>2
<1>5. ASSUME NEW q \in Proc, NEW d \in Event, Alive(q),
             Queued(q, d) \/ \E u \in Thr : Holds(q, u, d)
      PROVE  Kept(d)'
  <2>1. Alive(q)' /\ (Queued(q, d)' \/ \E u \in Thr : Holds(q, u, d)')
    BY <1>1, <1>4, <1>5 DEF Alive, Holds
  <2> QED
    BY <2>1 DEF Kept
<1>6. Kept(e)'
  <2>1. Alive(p)'
    BY <1>1 DEF Alive
  <2> QED
    BY <1>4, <2>1 DEF Kept, Safe
<1>7. MemoryKept
  BY <1>5 DEF MemoryKept
<1>8. Shape' /\ FilesKept /\ Grows
  BY <1>1, <1>4 DEF Shape, FilesKept, Grows
<1> QED
  BY <1>1, <1>6, <1>7, <1>8 DEF Handover

\* _after_fork: the parent keeps what it has.
LEMMA ForkStep ==
    ASSUME Shape, NEW p \in Proc, NEW q \in Proc, Fork(p, q)
    PROVE  Handover
<1>1. /\ phase' = [phase EXCEPT ![q] = "up"]
      /\ UNCHANGED <<stop, queue, thread, spool, emitted, received, dropped, died>>
  BY DEF Fork
<1>2. /\ phase' \in [Proc -> {"unborn", "up", "exiting", "gone"}]
      /\ \A r \in Proc : Alive(r) => Alive(r)'
  BY <1>1 DEF Shape, Alive
<1>3. ASSUME NEW r \in Proc, NEW e \in Event, Alive(r),
             Queued(r, e) \/ \E u \in Thr : Holds(r, u, e)
      PROVE  Kept(e)'
  <2>1. Alive(r)' /\ (Queued(r, e)' \/ \E u \in Thr : Holds(r, u, e)')
    BY <1>1, <1>2, <1>3 DEF Queued, Holds
  <2> QED
    BY <2>1 DEF Kept
<1>4. MemoryKept
  BY <1>3 DEF MemoryKept
<1>5. Shape' /\ FilesKept /\ Grows
  BY <1>1, <1>2 DEF Shape, FilesKept, Grows
<1> QED
  BY <1>1, <1>4, <1>5 DEF Handover

\* Time passes for a file: it keeps its batch.
LEMMA AgeStep ==
    ASSUME Shape, NEW b, Age(b)
    PROVE  Handover
<1> DEFINE g == [f \in spool |-> IF f.batch = b THEN [f EXCEPT !.old = TRUE] ELSE f]
<1>1. /\ spool' = {g[f] : f \in spool}
      /\ UNCHANGED <<phase, stop, queue, thread, emitted, received, dropped, died>>
  BY DEF Age
<1>2. ASSUME NEW f \in spool PROVE g[f] \in FileRow /\ g[f].batch = f.batch
  BY DEF Shape, FileRow
<1>3. IsFiniteSet({g[f] : f \in spool})
  <2>1. DOMAIN g = spool /\ IsFiniteSet(spool)
    BY DEF Shape
  <2> HIDE DEF g
  <2> QED
    BY <2>1, FiniteImage
<1> HIDE DEF g
<1>4. Shape' /\ FilesKept /\ Grows
  BY <1>1, <1>2, <1>3 DEF Shape, FilesKept, Grows
<1> QED
  BY <1>1, <1>4, NoThread DEF Handover

\* A step that touches none of this.
LEMMA IdleStep ==
    ASSUME Shape,
           UNCHANGED <<phase, stop, queue, thread, spool, emitted, received, dropped, died>>
    PROVE  Handover
<1>1. Shape' /\ FilesKept /\ Grows
  BY DEF Shape, FilesKept, Grows
<1> QED
  BY <1>1, NoThread DEF Handover

\* Every step hands everything on.
LEMMA NextHandsOver ==
    ASSUME Shape, [Next]_vars
    PROVE  Handover
<1>1. ASSUME NEW p \in Proc, NEW e \in Event, Enqueue(p, e) PROVE Handover
  BY <1>1, EnqueueStep
<1>2. ASSUME NEW p \in Proc, NEW t \in Thr, ThreadStep(p, t) PROVE Handover
  BY <1>2, PostLiveStep, SpoolCheckStep, SpoolWriteStep, SpoolRenameStep DEF ThreadStep
<1>3. ASSUME NEW p \in Proc, Collect(p) PROVE Handover
  <2>1. /\ Alive(p) /\ thread[p]["worker"].at = "collect" /\ CollectInto(p, "worker")
        /\ UNCHANGED <<phase, stop, spool, emitted, received, died>> /\ "worker" \in Thr
    BY <1>3 DEF Collect, Thr
  <2>2. Alive(p)' /\ phase' \in [Proc -> {"unborn", "up", "exiting", "gone"}]
        /\ stop' \in [Proc -> BOOLEAN]
    BY <2>1 DEF Alive, Shape
  <2> QED
    BY <2>1, <2>2, CollectStep
<1>4. ASSUME NEW p \in Proc, Shutdown(p) \/ AtExit(p) PROVE Handover
  <2>1. /\ phase[p] = "up" /\ thread[p]["host"].at = "idle" /\ CollectInto(p, "host")
        /\ UNCHANGED <<spool, emitted, received, died>> /\ "host" \in Thr
    BY <1>4 DEF Shutdown, AtExit, Thr
  <2>2. /\ phase' \in {phase, [phase EXCEPT ![p] = "exiting"]}
        /\ stop' \in {stop, [stop EXCEPT ![p] = TRUE]}
    BY <1>4 DEF Shutdown, AtExit
  <2>3. /\ phase' \in [Proc -> {"unborn", "up", "exiting", "gone"}]
        /\ \A q \in Proc \ {p} : phase'[q] = phase[q]
        /\ Alive(p) /\ Alive(p)'
    BY <2>1, <2>2 DEF Shape, Alive
  <2>4. stop' \in [Proc -> BOOLEAN]
    BY <2>2 DEF Shape
  <2> QED
    BY <2>1, <2>3, <2>4, CollectStep
<1>5. ASSUME NEW p \in Proc, Exit(p) \/ Crash(p) PROVE Handover
  BY <1>5, EndedStep DEF Exit, Crash
<1>6. ASSUME NEW p \in Proc, StartFlush(p) \/ ClaimNext(p) \/ PostSpooled(p) PROVE Handover
  BY <1>6, StartFlushStep, ClaimNextStep, PostSpooledStep
<1>7. ASSUME NEW p \in Proc, WorkerStep(p) \/ ThreadStep(p, "host") PROVE Handover
  <2>1. "worker" \in Thr /\ "host" \in Thr
    BY DEF Thr
  <2> QED
    BY <1>2, <1>3, <1>6, <1>7, <2>1 DEF WorkerStep
<1>8. ASSUME Outage \/ Recovery \/ UNCHANGED vars PROVE Handover
  BY <1>8, IdleStep DEF Outage, Recovery, vars
<1> QED
  BY <1>1, <1>4, <1>5, <1>7, <1>8, ForkStep, AgeStep DEF Next

-----------------------------------------------------------------------------
\* The inductive invariant: the state has its shape and every event is accounted for.
THEOREM DeliveryInvariant == Spec => []DeliveryInv
<1>1. ASSUME Init PROVE DeliveryInv
  <2>1. Idle \in ThreadRow /\ <<>> \in Seq(Event)
    BY EmptySeq DEF Idle, ThreadRow, At
  <2>2. thread \in Threads
    BY <1>1, <2>1 DEF Init, Threads, Thr
  <2>3. Shape
    BY <1>1, <2>1, <2>2, FS_EmptySet DEF Init, Shape
  <2>4. EventsAccounted
    BY <1>1 DEF Init, EventsAccounted
  <2> QED
    BY <2>3, <2>4 DEF DeliveryInv
<1>2. ASSUME DeliveryInv, [Next]_vars PROVE DeliveryInv'
  <2>1. Handover
    BY <1>2, NextHandsOver DEF DeliveryInv
  <2>2. EventsAccounted'
    BY <1>2, <2>1, KeptByStep DEF Handover
  <2> QED
    BY <2>1, <2>2 DEF DeliveryInv, Handover
<1> QED
  BY <1>1, <1>2, PTL DEF Spec

\* No event vanishes: it is on the platform, counted as dropped, on disk, in the memory of a
\* live process, or went down with one (EventTransport.enqueue, flush, _deliver, _spool,
\* _drain_spool).
THEOREM EventsAlwaysAccounted == Spec => []EventsAccounted
<1>1. DeliveryInv => EventsAccounted
  BY DEF DeliveryInv
<1> QED
  BY <1>1, DeliveryInvariant, PTL

\* A batch on disk outlives everything but its delivery or its refusal (_drain_spool,
\* _reclaim_stale_claims).
THEOREM SpoolAlwaysOutlives == Spec => SpoolOutlives
<1>1. ASSUME DeliveryInv, [Next]_vars PROVE [FilesKept]_vars
  BY <1>1, NextHandsOver DEF DeliveryInv, Handover
<1>2. Spec => [][FilesKept]_vars
  BY <1>1, DeliveryInvariant, PTL DEF Spec
<1> QED
  BY <1>2 DEF SpoolOutlives, FilesKept

-----------------------------------------------------------------------------
(***************************************************************************)
(* The other delivery: the notification outbox (module Outbox), for any    *)
(* number of threads, processes, rows, attempts, crashes and outages.  No  *)
(* theorem speaks of both deliveries.                                      *)
(***************************************************************************)

Open == {"pending", "delivering"}

\* What holds of a row that was refused r times, and accepted or not: one that
\* may be tried again shows no more attempts than were refused, and fewer than
\* the last.
RowOK(row, r, taken) ==
    /\ row \in Row
    /\ row.status = "delivering" <=> row.claimedBy # None
    /\ row.status \in Open => row.attempts < MaxAttempts
    /\ row.status # "sent" => row.attempts <= r
    /\ row.status = "failed" => r = MaxAttempts
    /\ row.status = "sent" => taken

Rows == \A i \in DOMAIN outbox : RowOK(outbox[i], refused[i], i \in accepted)

\* The attempts read with a claim were made, and leave room for one more,
\* whatever has become of the row since.
InHand ==
    \A t \in Thread : \A h \in hand[t] :
        h.id \in DOMAIN outbox /\ h.attempts < MaxAttempts /\ h.attempts <= refused[h.id]

\* A result in hand is the result of a delivery of the row it will be written to.
Tentative ==
    \A t \in Thread :
        /\ hand[t] = {} => result[t] = None
        /\ \A h \in Foremost(hand[t]) :
              /\ result[t] = "error" => h.attempts < refused[h.id]
              /\ result[t] = "ok" => h.id \in accepted

NoticeShape ==
    /\ outbox \in Seq(Row)
    /\ hooks \subseteq Hook \ free /\ suspended \subseteq User
    /\ hand \in [Thread -> SUBSET Held]
    /\ result \in [Thread -> {None, "ok", "error"}]
    /\ running \subseteq Replica /\ reachable \in BOOLEAN
    /\ announced \subseteq Transition
    /\ kills \in 0..MaxKills /\ downtimes \in 0..MaxDowntimes
    /\ accepted \subseteq DOMAIN outbox
    /\ refused \in [DOMAIN outbox -> 0..MaxAttempts]

NoticeInv == NoticeShape /\ Rows /\ InHand /\ Tentative

\* Numbers the constants are.
LEMMA NoticeConstants ==
    ASSUME OutboxConstants
    PROVE  /\ MaxAttempts \in Nat \ {0} /\ MaxKills \in Nat /\ MaxDowntimes \in Nat
           /\ None \notin Replica
           /\ \A t \in Thread : ProcOf[t] \in Replica
           /\ IsFiniteSet(User) /\ IsFiniteSet(Hook)
  BY DEF OutboxConstants, Replica

\* The invariant says what the run checks, and the types.
LEMMA NoticeInvGives ==
    ASSUME OutboxConstants, NoticeInv
    PROVE  OutboxTypeOK /\ OutcomeIsTrue
<1> USE NoticeConstants
<1>1. OutcomeIsTrue
  BY DEF OutcomeIsTrue, NoticeInv, Rows, RowOK
<1>2. \A i \in DOMAIN outbox :
        (outbox[i].status = "delivering") <=> (outbox[i].claimedBy # None)
  BY DEF NoticeInv, Rows, RowOK
<1>3. ASSUME NEW i \in DOMAIN outbox
      PROVE  outbox[i].attempts <= refused[i] + (IF i \in accepted THEN MaxAttempts ELSE 0)
  <2>1. RowOK(outbox[i], refused[i], i \in accepted) /\ refused[i] \in 0..MaxAttempts
    BY DEF NoticeInv, NoticeShape, Rows
  <2>2. outbox[i].attempts \in 0..MaxAttempts
    BY <2>1 DEF RowOK, Row
  <2>3. CASE outbox[i].status = "sent"
    BY <2>1, <2>2, <2>3 DEF RowOK
  <2>4. CASE outbox[i].status # "sent"
    BY <2>1, <2>2, <2>4 DEF RowOK
  <2> QED
    BY <2>3, <2>4
<1> QED
  BY <1>1, <1>2, <1>3 DEF OutboxTypeOK, NoticeInv, NoticeShape

LEMMA NoticeInit ==
    ASSUME OutboxConstants, OutboxInit
    PROVE  NoticeInv
<1> USE NoticeConstants
<1>1. outbox = <<>> /\ DOMAIN outbox = {}
  BY DEF OutboxInit
<1>2. NoticeShape
  BY <1>1 DEF OutboxInit, NoticeShape
<1>3. Rows /\ InHand
  BY <1>1 DEF OutboxInit, Rows, InHand
<1>4. Tentative
  BY DEF OutboxInit, Tentative, Foremost
<1> QED
  BY <1>2, <1>3, <1>4 DEF NoticeInv

-----------------------------------------------------------------------------
(***************************************************************************)
(* What the steps do to a row.                                             *)
(***************************************************************************)

\* The rows emit writes are addressed to members of the set.
LEMMA SetToSeqMembers ==
    ASSUME NEW S, IsFiniteSet(S)
    PROVE  /\ Cardinality(S) \in Nat
           /\ \A i \in 1..Cardinality(S) : SetToSeq(S)[i] \in S
<1> DEFINE n == Cardinality(S)
<1>1. n \in Nat /\ ExistsBijection(1..n, S)
  BY FS_CardinalityType
<1>2. PICK f \in [1..n -> S] : \A a, b \in 1..n : f[a] = f[b] => a = b
  BY <1>1 DEF ExistsBijection, Bijection, Injection, IsInjective
<1>3. \E g \in [1..n -> S] : IsInjective(g)
  BY <1>2 DEF IsInjective
<1>4. SetToSeq(S) = CHOOSE g \in [1..n -> S] : IsInjective(g)
  BY DEF SetToSeq
<1>5. SetToSeq(S) \in [1..n -> S]
  <2> HIDE DEF n
  <2> QED
    BY <1>3, <1>4
<1> QED
  BY <1>1, <1>5

LEMMA NewRowOK ==
    ASSUME OutboxConstants, NEW target \in Target,
           NEW status \in {"pending", "skipped_no_smtp"}
    PROVE  RowOK(NewRow(target, status), 0, FALSE)
  BY NoticeConstants DEF RowOK, NewRow, Row, Open

\* More refusals, and an acceptance, take nothing away.
LEMMA RowKept ==
    ASSUME OutboxConstants, NEW row, NEW r \in 0..MaxAttempts, NEW q \in r..MaxAttempts,
           NEW a \in BOOLEAN, NEW b \in BOOLEAN, a => b, RowOK(row, r, a)
    PROVE  RowOK(row, q, b)
<1>1. row.attempts \in Nat
  BY NoticeConstants DEF RowOK, Row
<1> QED
  BY <1>1, NoticeConstants DEF RowOK

\* A claim is released only when it is one, and only a pending row is claimed.
LEMMA ClaimedRowsOK ==
    ASSUME OutboxConstants, NEW rows \in Seq(Row), NEW p \in Replica,
           NEW ref \in [DOMAIN rows -> 0..MaxAttempts], NEW acc,
           \A i \in DOMAIN rows : RowOK(rows[i], ref[i], i \in acc)
    PROVE  LET new == Taken(StaleReleased(rows), p)
           IN  /\ new \in Seq(Row) /\ DOMAIN new = DOMAIN rows
               /\ \A i \in DOMAIN rows : RowOK(new[i], ref[i], i \in acc)
<1> DEFINE mid == StaleReleased(rows)
           new == Taken(mid, p)
<1>1. /\ DOMAIN mid = DOMAIN rows /\ DOMAIN rows = 1..Len(rows) /\ Len(rows) \in Nat
      /\ \A i \in DOMAIN rows : mid[i] =
           IF rows[i].status = "delivering" /\ rows[i].stale
           THEN [rows[i] EXCEPT !.status = "pending", !.claimedBy = None, !.stale = FALSE]
           ELSE rows[i]
  BY LenProperties DEF StaleReleased
<1>2. ASSUME NEW i \in DOMAIN rows PROVE RowOK(mid[i], ref[i], i \in acc)
  <2>1. CASE rows[i].status = "delivering" /\ rows[i].stale
    <3> DEFINE row == rows[i]
    <3>1. RowOK(row, ref[i], i \in acc)
      OBVIOUS
    <3>2. mid[i] = [row EXCEPT !.status = "pending", !.claimedBy = None, !.stale = FALSE]
      BY <1>1, <2>1
    <3> HIDE DEF row, mid
    <3> QED
      BY <2>1, <3>1, <3>2 DEF RowOK, Row, Open, row
  <2>2. CASE ~(rows[i].status = "delivering" /\ rows[i].stale)
    BY <1>1, <2>2
  <2> QED
    BY <2>1, <2>2
<1>3. /\ DOMAIN new = DOMAIN mid
      /\ \A i \in DOMAIN mid :
            \/ new[i] = mid[i]
            \/ /\ mid[i].status = "pending"
               /\ new[i] = [mid[i] EXCEPT !.status = "delivering", !.claimedBy = p, !.stale = FALSE]
  BY DEF Taken, Due
<1> HIDE DEF mid, new
<1>4. ASSUME NEW i \in DOMAIN rows PROVE RowOK(new[i], ref[i], i \in acc)
  <2>1. RowOK(mid[i], ref[i], i \in acc)
    BY <1>2
  <2>2. CASE new[i] = mid[i]
    BY <2>1, <2>2
  <2>3. CASE /\ mid[i].status = "pending"
             /\ new[i] = [mid[i] EXCEPT !.status = "delivering", !.claimedBy = p, !.stale = FALSE]
    <3> DEFINE row == mid[i]
    <3>1. RowOK(row, ref[i], i \in acc) /\ row.status = "pending"
      BY <2>1, <2>3
    <3>2. new[i] = [row EXCEPT !.status = "delivering", !.claimedBy = p, !.stale = FALSE]
      BY <2>3
    <3> HIDE DEF row
    <3>3. row \in Row /\ p # None
      BY <3>1, NoticeConstants DEF RowOK
    <3>4. /\ new[i] \in Row /\ new[i].status = "delivering" /\ new[i].claimedBy = p
          /\ new[i].attempts = row.attempts
      BY <3>2, <3>3 DEF Row
    <3> QED
      BY <3>1, <3>3, <3>4 DEF RowOK, Open
  <2> QED
    BY <1>1, <1>3, <2>2, <2>3
<1>5. new \in Seq(Row)
  <2>1. new = [i \in 1..Len(rows) |-> new[i]]
    <3>1. new = [i \in DOMAIN mid |-> new[i]]
      BY DEF new, Taken
    <3> QED
      BY <1>1, <3>1
  <2>2. \A i \in 1..Len(rows) : new[i] \in Row
    BY <1>1, <1>4 DEF RowOK
  <2>3. new \in [1..Len(rows) -> Row]
    BY <2>1, <2>2
  <2> QED
    BY <1>1, <2>3, SeqDef
<1> QED
  BY <1>1, <1>3, <1>4, <1>5 DEF mid, new

\* mark_result: whatever the row said before, it now shows what was tried.
LEMMA MarkedRowOK ==
    ASSUME OutboxConstants, NEW row \in Row, NEW r \in 0..MaxAttempts,
           NEW taken \in BOOLEAN, NEW ok \in BOOLEAN,
           NEW n \in 1..MaxAttempts, ok => taken, ~ok => n <= r
    PROVE  RowOK(MarkResult(row, ok, n), r, taken)
<1> DEFINE new == MarkResult(row, ok, n)
<1>1. /\ new.status = (IF ok THEN "sent" ELSE IF n >= MaxAttempts THEN "failed" ELSE "pending")
      /\ new.attempts = n /\ new.claimedBy = None /\ new \in Row
  <2> DEFINE status == IF ok THEN "sent" ELSE IF n >= MaxAttempts THEN "failed" ELSE "pending"
             due == IF ~ok /\ n < MaxAttempts THEN FALSE ELSE row.due
  <2>0. row.due \in BOOLEAN
    BY DEF Row
  <2>1. status \in {"pending", "sent", "failed"} /\ due \in BOOLEAN
    BY <2>0
  <2>4. n \in 0..MaxAttempts
    BY NoticeConstants
  <2>2. new = [row EXCEPT !.status = status, !.attempts = n, !.due = due,
                          !.claimedBy = None, !.stale = FALSE]
    BY DEF MarkResult
  <2> HIDE DEF new, status, due
  <2>3. /\ new.status = status /\ new.attempts = n /\ new.claimedBy = None
        /\ new \in Row
    BY <2>1, <2>2, <2>4 DEF Row
  <2> QED
    BY <2>3 DEF status
<1> HIDE DEF new
<1>2. CASE ok
  BY <1>1, <1>2 DEF RowOK, Open, new
<1>3. CASE ~ok /\ n >= MaxAttempts
  <2>1. n = MaxAttempts /\ r = MaxAttempts
    BY <1>3, NoticeConstants
  <2> QED
    BY <1>1, <1>3, <2>1 DEF RowOK, Open, new
<1>4. CASE ~ok /\ ~(n >= MaxAttempts)
  <2>1. n < MaxAttempts
    BY <1>4, NoticeConstants
  <2> QED
    BY <1>1, <1>4, <2>1 DEF RowOK, Open, new
<1> QED
  BY <1>2, <1>3, <1>4

-----------------------------------------------------------------------------
(***************************************************************************)
(* Every step keeps the invariant.                                         *)
(***************************************************************************)

\* The elements of one list after another.
LEMMA ConcatAt ==
    ASSUME NEW S, NEW s \in Seq(S), NEW t \in Seq(S), NEW m \in Nat, NEW n \in Nat,
           Len(s) = m, Len(t) = n
    PROVE  /\ s \o t \in Seq(S) /\ DOMAIN (s \o t) = 1..(m + n)
           /\ \A i \in 1..m : (s \o t)[i] = s[i]
           /\ \A i \in (m + 1)..(m + n) : (s \o t)[i] = t[i - m]
<1>1. s \o t \in Seq(S) /\ Len(s \o t) = m + n
  BY ConcatProperties
<1>2. DOMAIN (s \o t) = 1..(m + n)
  BY <1>1, LenProperties
<1>3. \A i \in 1..(m + n) : (s \o t)[i] = IF i <= m THEN s[i] ELSE t[i - m]
  BY ConcatProperties
<1>4. ASSUME NEW i \in 1..m PROVE (s \o t)[i] = s[i]
  BY <1>3
<1>5. ASSUME NEW i \in (m + 1)..(m + n) PROVE (s \o t)[i] = t[i - m]
  BY <1>3
<1> QED
  BY <1>1, <1>2, <1>4, <1>5

\* What emit and test_hook append.
LEMMA EnqueueKeeps ==
    ASSUME OutboxConstants, NoticeInv, NEW new \in Seq(Row),
           \A i \in DOMAIN new : RowOK(new[i], 0, FALSE)
    PROVE  LET rows == outbox \o new
               ref  == refused \o [i \in DOMAIN new |-> 0]
           IN  /\ rows \in Seq(Row) /\ DOMAIN outbox \subseteq DOMAIN rows
               /\ ref \in [DOMAIN rows -> 0..MaxAttempts]
               /\ \A i \in DOMAIN outbox : ref[i] = refused[i]
               /\ \A i \in DOMAIN rows : RowOK(rows[i], ref[i], i \in accepted)
<1> USE NoticeConstants
<1> DEFINE rows == outbox \o new
           zeros == [i \in DOMAIN new |-> 0]
           ref == refused \o zeros
           m == Len(outbox)
           n == Len(new)
<1>1. /\ m \in Nat /\ n \in Nat /\ DOMAIN outbox = 1..m /\ DOMAIN new = 1..n
      /\ outbox \in Seq(Row)
  BY LenProperties DEF NoticeInv, NoticeShape
<1>2. /\ rows \in Seq(Row) /\ DOMAIN rows = 1..(m + n)
      /\ \A i \in 1..m : rows[i] = outbox[i]
      /\ \A i \in (m + 1)..(m + n) : rows[i] = new[i - m]
  BY <1>1, ConcatAt
<1>3. /\ refused \in Seq(0..MaxAttempts) /\ Len(refused) = m
      /\ zeros \in Seq(0..MaxAttempts) /\ Len(zeros) = n
      /\ \A i \in 1..n : zeros[i] = 0
  <2>1. refused \in [1..m -> 0..MaxAttempts] /\ zeros \in [1..n -> 0..MaxAttempts]
    BY <1>1 DEF NoticeInv, NoticeShape
  <2>2. refused \in Seq(0..MaxAttempts) /\ zeros \in Seq(0..MaxAttempts)
    BY <1>1, <2>1, SeqDef
  <2>3. DOMAIN refused = 1..m /\ DOMAIN zeros = 1..n
    BY <2>1
  <2> HIDE DEF zeros, m, n
  <2>4. Len(refused) = m /\ Len(zeros) = n
    BY <1>1, <2>2, <2>3, LenProperties
  <2> QED
    BY <1>1, <2>2, <2>4 DEF zeros
<1> HIDE DEF rows, zeros, m, n
<1>4. /\ ref \in Seq(0..MaxAttempts) /\ DOMAIN ref = 1..(m + n)
      /\ \A i \in 1..m : ref[i] = refused[i]
      /\ \A i \in (m + 1)..(m + n) : ref[i] = zeros[i - m]
  <2> DEFINE C == 0..MaxAttempts
  <2>1. refused \in Seq(C) /\ Len(refused) = m /\ zeros \in Seq(C) /\ Len(zeros) = n
    BY <1>3
  <2>3. m \in Nat /\ n \in Nat
    BY <1>1
  <2> HIDE DEF C
  <2>2. /\ ref \in Seq(C) /\ DOMAIN ref = 1..(m + n)
        /\ \A i \in 1..m : ref[i] = refused[i]
        /\ \A i \in (m + 1)..(m + n) : ref[i] = zeros[i - m]
    <3>1. ref \in Seq(C) /\ Len(ref) = m + n
      BY ONLY <2>1, ConcatProperties DEF ref
    <3>2. \A i \in 1..(m + n) : ref[i] = IF i <= m THEN refused[i] ELSE zeros[i - m]
      BY ONLY <2>1, ConcatProperties DEF ref
    <3> HIDE DEF ref
    <3>3. DOMAIN ref = 1..(m + n)
      BY ONLY <3>1, LenProperties
    <3>4. /\ \A i \in 1..m : ref[i] = refused[i]
          /\ \A i \in (m + 1)..(m + n) : ref[i] = zeros[i - m]
      BY ONLY <2>3, <3>2
    <3> QED
      BY ONLY <3>1, <3>3, <3>4
  <2> QED
    BY <2>2 DEF C
<1> HIDE DEF ref
<1>5. ref \in [DOMAIN rows -> 0..MaxAttempts]
  BY <1>1, <1>2, <1>4, ElementOfSeq, LenProperties
<1>6. ASSUME NEW i \in DOMAIN rows PROVE RowOK(rows[i], ref[i], i \in accepted)
  <2>1. CASE i \in 1..m
    BY <1>1, <1>2, <1>4, <2>1 DEF NoticeInv, Rows
  <2>2. CASE i \in (m + 1)..(m + n)
    <3>0. i - m \in 1..n /\ i \notin 1..m
      BY <1>1, <2>2
    <3>1. i - m \in DOMAIN new /\ rows[i] = new[i - m] /\ ref[i] = 0 /\ i \notin DOMAIN outbox
      <4>1. zeros[i - m] = 0
        BY <1>1, <3>0 DEF zeros
      <4> QED
        BY <1>1, <1>2, <1>4, <2>2, <3>0, <4>1
    <3>2. i \notin accepted
      BY <3>1 DEF NoticeInv, NoticeShape
    <3>3. RowOK(new[i - m], 0, FALSE)
      BY <3>1
    <3> QED
      BY <3>1, <3>2, <3>3 DEF RowOK
  <2> QED
    BY <1>1, <1>2, <2>1, <2>2
<1>7. DOMAIN outbox \subseteq DOMAIN rows
  BY <1>1, <1>2
<1> QED
  BY <1>1, <1>2, <1>4, <1>5, <1>6, <1>7 DEF rows, ref, zeros, m

\* The rows of emit are new ones.
LEMMA EmittedRows ==
    ASSUME OutboxConstants, NoticeInv, NEW e \in Transition
    PROVE  /\ EmitRows(e) \in Seq(Row)
           /\ \A i \in DOMAIN EmitRows(e) : RowOK(EmitRows(e)[i], 0, FALSE)
<1> DEFINE status == IF SmtpSet THEN "pending" ELSE "skipped_no_smtp"
           A == Recipients(e)
           B == ActiveWebhooksFor(e)
           m == Cardinality(A)
           n == Cardinality(B)
           first == [i \in 1..m |-> NewRow(SetToSeq(A)[i], status)]
           second == [i \in 1..n |-> NewRow(SetToSeq(B)[i], "pending")]
<1>1. A \subseteq User /\ B \subseteq Hook /\ IsFiniteSet(A) /\ IsFiniteSet(B)
  <2>1. A \subseteq User
    BY DEF Recipients, OutboxConstants
  <2>2. B \subseteq Hook
    BY DEF ActiveWebhooksFor, NoticeInv, NoticeShape
  <2> QED
    BY <2>1, <2>2, NoticeConstants, FS_Subset
<1>2. EmitRows(e) = first \o second
  BY DEF EmitRows
<1>3. /\ m \in Nat /\ n \in Nat
      /\ \A i \in 1..m : RowOK(first[i], 0, FALSE)
      /\ \A i \in 1..n : RowOK(second[i], 0, FALSE)
  <2>0. status \in {"pending", "skipped_no_smtp"}
    OBVIOUS
  <2> HIDE DEF A, B, status
  <2>1. /\ m \in Nat /\ n \in Nat
        /\ \A i \in 1..m : SetToSeq(A)[i] \in Target
        /\ \A i \in 1..n : SetToSeq(B)[i] \in Target
    BY <1>1, SetToSeqMembers DEF Target
  <2> HIDE DEF m, n
  <2>2. ASSUME NEW i \in 1..m PROVE RowOK(first[i], 0, FALSE)
    BY <2>0, <2>1, NewRowOK
  <2>3. ASSUME NEW i \in 1..n PROVE RowOK(second[i], 0, FALSE)
    BY <2>1, NewRowOK
  <2> QED
    BY <2>1, <2>2, <2>3
<1>4. first \in [1..m -> Row] /\ second \in [1..n -> Row]
  <2>1. /\ \A i \in 1..m : first[i] \in Row
        /\ \A i \in 1..n : second[i] \in Row
    BY <1>3 DEF RowOK
  <2>2. /\ first = [i \in 1..m |-> first[i]]
        /\ second = [i \in 1..n |-> second[i]]
    OBVIOUS
  <2> HIDE DEF first, second, m, n
  <2> QED
    BY <2>1, <2>2
<1> HIDE DEF first, second, m, n
<1>5. first \in Seq(Row) /\ second \in Seq(Row)
  BY <1>3, <1>4, SeqDef
<1>6. Len(first) = m /\ Len(second) = n
  <2>1. /\ Len(first) \in Nat /\ DOMAIN first = 1..Len(first)
        /\ Len(second) \in Nat /\ DOMAIN second = 1..Len(second)
    BY <1>5, LenProperties
  <2>2. DOMAIN first = 1..m /\ DOMAIN second = 1..n
    BY <1>4
  <2>3. \A j, k \in Nat : 1..j = 1..k => j = k
    OBVIOUS
  <2>4. m \in Nat /\ n \in Nat
    BY <1>3
  <2> QED
    BY ONLY <2>1, <2>2, <2>3, <2>4
<1>7. /\ first \o second \in Seq(Row) /\ DOMAIN (first \o second) = 1..(m + n)
      /\ \A i \in 1..m : (first \o second)[i] = first[i]
      /\ \A i \in (m + 1)..(m + n) : (first \o second)[i] = second[i - m]
  <2>1. m \in Nat /\ n \in Nat
    BY <1>3
  <2> DEFINE S == Row
  <2>2. first \in Seq(S) /\ second \in Seq(S)
    BY <1>5
  <2> HIDE DEF S
  <2>3. /\ first \o second \in Seq(S) /\ DOMAIN (first \o second) = 1..(m + n)
        /\ \A i \in 1..m : (first \o second)[i] = first[i]
        /\ \A i \in (m + 1)..(m + n) : (first \o second)[i] = second[i - m]
    <3>1. first \o second \in Seq(S) /\ Len(first \o second) = m + n
      BY ONLY <1>6, <2>1, <2>2, ConcatProperties
    <3>2. DOMAIN (first \o second) = 1..(m + n)
      BY ONLY <3>1, LenProperties
    <3>3. \A i \in 1..(m + n) : (first \o second)[i] = IF i <= m THEN first[i] ELSE second[i - m]
      BY ONLY <1>6, <2>1, <2>2, ConcatProperties
    <3>4. ASSUME NEW i \in 1..m PROVE (first \o second)[i] = first[i]
      BY <1>6, <2>1, <2>2, <3>3
    <3>5. ASSUME NEW i \in (m + 1)..(m + n) PROVE (first \o second)[i] = second[i - m]
      BY <1>6, <2>1, <2>2, <3>3
    <3> QED
      BY <3>1, <3>2, <3>4, <3>5
  <2> QED
    BY <2>3 DEF S
<1>8. ASSUME NEW i \in 1..(m + n) PROVE RowOK((first \o second)[i], 0, FALSE)
  <2>1. CASE i \in 1..m
    BY <1>3, <1>7, <2>1
  <2>2. CASE i \in (m + 1)..(m + n)
    <3>1. i - m \in 1..n
      BY <1>3, <2>2
    <3>2. RowOK(second[i - m], 0, FALSE)
      BY <1>3, <3>1
    <3>3. (first \o second)[i] = second[i - m]
      BY <1>7, <2>2
    <3> QED
      BY <3>2, <3>3
  <2>3. i \in 1..m \/ i \in (m + 1)..(m + n)
    <3>1. m \in Nat /\ n \in Nat
      BY <1>3
    <3> QED
      BY <3>1
  <2> QED
    BY <2>1, <2>2, <2>3
<1> QED
  BY <1>2, <1>7, <1>8

\* A row appended, or several: nobody has them in hand yet.
LEMMA AppendedKeeps ==
    ASSUME OutboxConstants, NoticeInv, NEW new \in Seq(Row),
           \A i \in DOMAIN new : RowOK(new[i], 0, FALSE),
           outbox' = outbox \o new, refused' = refused \o [i \in DOMAIN new |-> 0],
           announced' \subseteq Transition,
           UNCHANGED <<hooks, free, suspended, hand, result, running, reachable, kills, downtimes,
                       accepted>>
    PROVE  NoticeInv'
<1>1. /\ outbox' \in Seq(Row) /\ DOMAIN outbox \subseteq DOMAIN outbox'
      /\ refused' \in [DOMAIN outbox' -> 0..MaxAttempts]
      /\ \A i \in DOMAIN outbox : refused'[i] = refused[i]
      /\ \A i \in DOMAIN outbox' : RowOK(outbox'[i], refused'[i], i \in accepted)
  BY EnqueueKeeps
<1>2. NoticeShape'
  BY <1>1 DEF NoticeInv, NoticeShape
<1>3. Rows'
  BY <1>1 DEF Rows, RowOK
<1>4. InHand'
  BY <1>1 DEF NoticeInv, InHand
<1>5. Tentative'
  <2>1. \A t \in Thread : \A h \in Foremost(hand[t]) : h.id \in DOMAIN outbox
    BY DEF NoticeInv, InHand, Foremost
  <2> QED
    BY <1>1, <2>1 DEF NoticeInv, Tentative, Foremost
<1> QED
  BY <1>2, <1>3, <1>4, <1>5 DEF NoticeInv

LEMMA EmitKeeps ==
    ASSUME OutboxConstants, NoticeInv, NEW e \in Transition, Emit(e)
    PROVE  NoticeInv'
<1>1. announced' \subseteq Transition
  BY DEF Emit, NoticeInv, NoticeShape
<1>2. /\ outbox' = outbox \o EmitRows(e)
      /\ refused' = refused \o [i \in DOMAIN EmitRows(e) |-> 0]
      /\ UNCHANGED <<hooks, free, suspended, hand, result, running, reachable, kills, downtimes,
                     accepted>>
  BY DEF Emit, EnqueueNotices
<1> QED
  BY <1>1, <1>2, EmittedRows, AppendedKeeps

\* Steps that touch neither the rows nor what threads have in hand.
LEMMA AsideKeeps ==
    ASSUME OutboxConstants, NoticeInv,
           UNCHANGED <<outbox, hand, result, accepted, refused>>,
           \/ \E u \in User : SuspendUser(u)
           \/ \E h \in Hook : CreateHook(h) \/ DeleteHook(h)
           \/ \E p \in Replica : Restart(p)
           \/ ReceiversDown \/ ReceiversUp
           \/ UNCHANGED outboxVars
    PROVE  NoticeInv'
<1>1. Rows' /\ InHand' /\ Tentative'
  BY DEF NoticeInv, Rows, RowOK, InHand, Tentative, Foremost
<1>2. /\ hooks' \subseteq Hook \ free' /\ suspended' \subseteq User
      /\ running' \subseteq Replica /\ announced' \subseteq Transition
  BY DEF NoticeInv, NoticeShape, SuspendUser, CreateHook, CreateWebhook,
         DeleteHook, DeleteWebhook, Restart, ReceiversDown,
         ReceiversUp, outboxVars
<1>3. reachable' \in BOOLEAN
  BY DEF NoticeInv, NoticeShape, SuspendUser, CreateHook,
         DeleteHook, Restart, ReceiversDown, ReceiversUp, outboxVars
<1>4. kills' = kills /\ downtimes' \in 0..MaxDowntimes
  BY NoticeConstants
     DEF NoticeInv, NoticeShape, SuspendUser, CreateHook,
         DeleteHook, Restart, ReceiversDown, ReceiversUp, outboxVars
<1>5. NoticeShape'
  BY <1>2, <1>3, <1>4 DEF NoticeInv, NoticeShape
<1> QED
  BY <1>1, <1>5 DEF NoticeInv

\* A thread that had nothing takes rows it holds the claim of.
LEMMA HandKeeps ==
    ASSUME OutboxConstants, NoticeInv, NEW t \in Thread, hand[t] = {},
           NEW rows \in Seq(Row), NEW ref \in [DOMAIN rows -> 0..MaxAttempts],
           DOMAIN outbox \subseteq DOMAIN rows,
           \A i \in DOMAIN outbox : ref[i] = refused[i],
           \A i \in DOMAIN rows : RowOK(rows[i], ref[i], i \in accepted),
           Claim(t, rows, ProcOf[t]), refused' = ref,
           UNCHANGED <<hooks, free, suspended, result, running, reachable, announced, kills, downtimes,
                       accepted>>
    PROVE  NoticeInv'
<1> USE NoticeConstants
<1>1. outbox' = rows /\ hand' = [hand EXCEPT ![t] = HeldBy(rows, ProcOf[t])]
  BY DEF Claim
<1>2. DOMAIN rows \subseteq Nat \ {0}
  <2>1. DOMAIN rows = 1..Len(rows) /\ Len(rows) \in Nat
    BY LenProperties
  <2> QED
    BY <2>1
<1>3. ASSUME NEW h \in HeldBy(rows, ProcOf[t])
      PROVE  /\ h \in Held /\ h.id \in DOMAIN rows
             /\ h.attempts < MaxAttempts /\ h.attempts <= ref[h.id]
  <2>1. PICK i \in DOMAIN rows : /\ rows[i].claimedBy = ProcOf[t]
                                 /\ h = [id |-> i, attempts |-> rows[i].attempts]
    BY DEF HeldBy
  <2>2. RowOK(rows[i], ref[i], i \in accepted) /\ rows[i].claimedBy # None
    BY <2>1
  <2>3. /\ rows[i].attempts \in 0..MaxAttempts /\ rows[i].status = "delivering"
        /\ rows[i].attempts < MaxAttempts /\ rows[i].attempts <= ref[i]
    BY <2>2 DEF RowOK, Row, Open
  <2> QED
    BY <1>2, <2>1, <2>3 DEF Held
<1>4. hand' \in [Thread -> SUBSET Held]
  BY <1>1, <1>3 DEF NoticeInv, NoticeShape
<1>5. NoticeShape'
  BY <1>1, <1>4 DEF NoticeInv, NoticeShape
<1>6. Rows'
  BY <1>1 DEF Rows, RowOK
<1>7. hand'[t] = HeldBy(rows, ProcOf[t]) /\ \A s \in Thread \ {t} : hand'[s] = hand[s]
  BY <1>1 DEF NoticeInv, NoticeShape
<1>8. InHand'
  <2>1. ASSUME NEW s \in Thread, NEW h \in hand'[s]
        PROVE  h.id \in DOMAIN rows /\ h.attempts < MaxAttempts /\ h.attempts <= ref[h.id]
    <3>1. CASE s = t
      BY <1>3, <1>7, <2>1, <3>1
    <3>2. CASE s # t
      <4>1. h \in hand[s]
        BY <1>7, <2>1, <3>2
      <4>2. h.id \in DOMAIN outbox /\ h.attempts < MaxAttempts /\ h.attempts <= refused[h.id]
        BY <4>1 DEF NoticeInv, InHand
      <4> QED
        BY <4>2
    <3> QED
      BY <3>1, <3>2
  <2> QED
    BY <1>1, <2>1 DEF InHand
<1>9. Tentative'
  <2>1. result[t] = None
    BY DEF NoticeInv, Tentative
  <2>2. None # "error" /\ None # "ok"
    BY DEF None
  <2>3. \A s \in Thread : \A h \in Foremost(hand[s]) : h.id \in DOMAIN outbox
    BY DEF NoticeInv, InHand, Foremost
  <2>4. ASSUME NEW s \in Thread \ {t}
        PROVE  /\ hand'[s] = {} => result'[s] = None
               /\ \A h \in Foremost(hand'[s]) :
                     /\ result'[s] = "error" => h.attempts < refused'[h.id]
                     /\ result'[s] = "ok" => h.id \in accepted'
    BY <1>7, <2>3 DEF NoticeInv, Tentative
  <2> QED
    BY <2>1, <2>2, <2>4 DEF Tentative, Foremost
<1> QED
  BY <1>5, <1>6, <1>8, <1>9 DEF NoticeInv

LEMMA LoopClaimKeeps ==
    ASSUME OutboxConstants, NoticeInv, NEW t \in Thread, LoopClaim(t)
    PROVE  NoticeInv'
<1> DEFINE rows == Taken(StaleReleased(outbox), ProcOf[t])
<1>1. /\ outbox \in Seq(Row) /\ refused \in [DOMAIN outbox -> 0..MaxAttempts]
      /\ \A i \in DOMAIN outbox : RowOK(outbox[i], refused[i], i \in accepted)
  BY DEF NoticeInv, NoticeShape, Rows
<1>2. /\ rows \in Seq(Row) /\ DOMAIN rows = DOMAIN outbox
      /\ \A i \in DOMAIN outbox : RowOK(rows[i], refused[i], i \in accepted)
  BY <1>1, NoticeConstants, ClaimedRowsOK
<1>3. /\ hand[t] = {} /\ Claim(t, rows, ProcOf[t]) /\ refused' = refused
      /\ UNCHANGED <<hooks, free, suspended, result, running, reachable, announced, kills, downtimes,
                     accepted>>
  BY DEF LoopClaim, Unoccupied, ClaimPending
<1> HIDE DEF rows
<1> QED
  BY <1>1, <1>2, <1>3, HandKeeps

LEMMA TestHookKeeps ==
    ASSUME OutboxConstants, NoticeInv, NEW t \in Thread, NEW h \in Hook,
           TestHook(t, h)
    PROVE  NoticeInv'
<1> DEFINE new == <<NewRow(h, "pending")>>
           more == outbox \o new
           ref == refused \o [i \in DOMAIN new |-> 0]
           rows == Taken(StaleReleased(more), ProcOf[t])
<1>1. RowOK(NewRow(h, "pending"), 0, FALSE)
  BY NewRowOK DEF Target
<1>2. new \in Seq(Row) /\ \A i \in DOMAIN new : RowOK(new[i], 0, FALSE)
  <2>1. NewRow(h, "pending") \in Row
    BY <1>1 DEF RowOK
  <2>2. DOMAIN new = {1} /\ new[1] = NewRow(h, "pending")
    OBVIOUS
  <2>3. new \in Seq(Row)
    BY <2>1
  <2> HIDE DEF new
  <2> QED
    BY <1>1, <2>2, <2>3
<1>3. Append(outbox, NewRow(h, "pending")) = more /\ Append(refused, 0) = ref
  OBVIOUS
<1>4. /\ hand[t] = {} /\ Claim(t, rows, ProcOf[t]) /\ refused' = ref
      /\ UNCHANGED <<hooks, free, suspended, result, running, reachable, announced, kills, downtimes,
                     accepted>>
  BY <1>3 DEF TestHook, Unoccupied
<1> HIDE DEF new
<1>5. /\ more \in Seq(Row) /\ DOMAIN outbox \subseteq DOMAIN more
      /\ ref \in [DOMAIN more -> 0..MaxAttempts]
      /\ \A i \in DOMAIN outbox : ref[i] = refused[i]
      /\ \A i \in DOMAIN more : RowOK(more[i], ref[i], i \in accepted)
  BY <1>2, EnqueueKeeps
<1> HIDE DEF more, ref
<1>6. /\ rows \in Seq(Row) /\ DOMAIN rows = DOMAIN more
      /\ \A i \in DOMAIN more : RowOK(rows[i], ref[i], i \in accepted)
  BY <1>5, NoticeConstants, ClaimedRowsOK
<1> HIDE DEF rows
<1> QED
  BY <1>4, <1>5, <1>6, HandKeeps

\* A delivery is tried: one more refusal, or an acceptance.
LEMMA DeliverKeeps ==
    ASSUME OutboxConstants, NoticeInv, NEW t \in Thread, DeliverOne(t)
    PROVE  NoticeInv'
<1> USE NoticeConstants
<1>1. PICK g \in Foremost(hand[t]) :
         \/ /\ accepted' = accepted \cup {g.id} /\ result' = [result EXCEPT ![t] = "ok"]
            /\ UNCHANGED refused
         \/ /\ refused' = [refused EXCEPT ![g.id] = Min({@ + 1, MaxAttempts})]
            /\ result' = [result EXCEPT ![t] = "error"]
            /\ accepted' \in {accepted, accepted \cup {g.id}}
  BY DEF DeliverOne, Unanswered
<1>2. /\ UNCHANGED <<outbox, hooks, free, suspended, hand, running, reachable, announced, kills,
                     downtimes>>
  BY DEF DeliverOne
<1>3. g \in hand[t] /\ g.id \in DOMAIN outbox /\ g \in Held
  BY DEF Foremost, NoticeInv, InHand, NoticeShape
<1> DEFINE i == g.id
<1>4. /\ refused \in [DOMAIN outbox -> 0..MaxAttempts]
      /\ hand \in [Thread -> SUBSET Held]
      /\ result \in [Thread -> {None, "ok", "error"}]
  BY DEF NoticeInv, NoticeShape
<1>5. ASSUME NEW r \in 0..MaxAttempts
      PROVE  Min({r + 1, MaxAttempts}) = IF r < MaxAttempts THEN r + 1 ELSE MaxAttempts
  <2> DEFINE v == IF r < MaxAttempts THEN r + 1 ELSE MaxAttempts
  <2>1. v \in {r + 1, MaxAttempts} /\ \A y \in {r + 1, MaxAttempts} : v <= y
    <3>1. MaxAttempts \in Nat /\ r \in Nat /\ r <= MaxAttempts
      OBVIOUS
    <3>2. v <= r + 1 /\ v <= MaxAttempts
      BY <3>1
    <3>3. v \in {r + 1, MaxAttempts}
      OBVIOUS
    <3> HIDE DEF v
    <3> QED
      BY <3>2, <3>3
  <2>2. ASSUME NEW x \in {r + 1, MaxAttempts}, \A y \in {r + 1, MaxAttempts} : x <= y
        PROVE  x = v
    <3>1. x <= r + 1 /\ x <= MaxAttempts
      BY <2>2
    <3>2. MaxAttempts \in Nat /\ r \in Nat /\ r <= MaxAttempts
      OBVIOUS
    <3> QED
      BY <3>1, <3>2
  <2> HIDE DEF v
  <2>3. Min({r + 1, MaxAttempts}) = v
    BY <2>1, <2>2 DEF Min
  <2> QED
    BY <2>3 DEF v
<1>6. /\ refused' \in [DOMAIN outbox -> 0..MaxAttempts]
      /\ \A k \in DOMAIN outbox : refused[k] <= refused'[k]
      /\ accepted \subseteq accepted' /\ accepted' \subseteq DOMAIN outbox
  <2>1. accepted \subseteq DOMAIN outbox
    BY DEF NoticeInv, NoticeShape
  <2>2. CASE accepted' = accepted \cup {g.id} /\ UNCHANGED refused
    BY <1>3, <1>4, <2>1, <2>2
  <2>3. CASE refused' = [refused EXCEPT ![g.id] = Min({@ + 1, MaxAttempts})]
             /\ accepted' \in {accepted, accepted \cup {g.id}}
    <3>1. refused[i] \in 0..MaxAttempts
      BY <1>3, <1>4
    <3>2. refused' = [refused EXCEPT ![i] = IF refused[i] < MaxAttempts THEN refused[i] + 1
                                            ELSE MaxAttempts]
      BY <1>5, <2>3, <3>1
    <3>3. /\ refused[i] <= IF refused[i] < MaxAttempts THEN refused[i] + 1 ELSE MaxAttempts
          /\ (IF refused[i] < MaxAttempts THEN refused[i] + 1 ELSE MaxAttempts)
               \in 0..MaxAttempts
      BY <3>1
    <3>4. refused' \in [DOMAIN outbox -> 0..MaxAttempts]
      BY <1>3, <1>4, <3>2, <3>3
    <3>5. ASSUME NEW k \in DOMAIN outbox PROVE refused[k] <= refused'[k]
      <4>1. CASE k = i
        BY <1>3, <1>4, <3>2, <3>3, <4>1
      <4>2. CASE k # i
        <5>1. refused'[k] = refused[k] /\ refused[k] \in 0..MaxAttempts
          BY <1>4, <3>2, <4>2
        <5> QED
          BY <5>1
      <4> QED
        BY <4>1, <4>2
    <3> QED
      BY <1>3, <2>1, <2>3, <3>4, <3>5
  <2> QED
    BY <1>1, <2>2, <2>3
<1>7. /\ result' \in [Thread -> {None, "ok", "error"}]
      /\ \A s \in Thread \ {t} : result'[s] = result[s]
  BY <1>1, <1>4
<1>8. NoticeShape'
  BY <1>2, <1>6, <1>7 DEF NoticeInv, NoticeShape
<1>9. Rows'
  <2>1. ASSUME NEW k \in DOMAIN outbox PROVE RowOK(outbox[k], refused'[k], k \in accepted')
    <3>1. RowOK(outbox[k], refused[k], k \in accepted)
      BY DEF NoticeInv, Rows
    <3>2. /\ refused[k] \in 0..MaxAttempts /\ refused'[k] \in refused[k]..MaxAttempts
          /\ k \in accepted => k \in accepted'
      BY <1>4, <1>6
    <3>3. outbox[k].attempts \in Nat
      BY <3>1 DEF RowOK, Row
    <3> QED
      BY <3>1, <3>2, <3>3 DEF RowOK
  <2> QED
    BY <1>2, <2>1 DEF Rows, RowOK
<1>10. ASSUME NEW s \in Thread, NEW h \in hand[s]
       PROVE  /\ h.id \in DOMAIN outbox /\ h.attempts < MaxAttempts /\ h.attempts \in Nat
              /\ h.attempts <= refused[h.id] /\ h.attempts <= refused'[h.id]
  <2>1. /\ h.id \in DOMAIN outbox /\ h.attempts < MaxAttempts /\ h.attempts <= refused[h.id]
        /\ h \in Held
    BY <1>4 DEF NoticeInv, InHand
  <2>2. /\ h.attempts \in Nat /\ refused[h.id] \in Nat /\ refused'[h.id] \in Nat
        /\ refused[h.id] <= refused'[h.id]
    BY <1>4, <1>6, <2>1 DEF Held
  <2> QED
    BY <2>1, <2>2
<1>11. InHand'
  BY <1>2, <1>10 DEF InHand
<1>12. ASSUME NEW h \in Foremost(hand[t])
       PROVE  /\ result'[t] = "error" => h.attempts < refused'[h.id]
              /\ result'[t] = "ok" => h.id \in accepted'
  <2>1. h \in hand[t] /\ h \in Held /\ h.id <= g.id /\ g.id <= h.id
    BY <1>3, <1>4 DEF Foremost
  <2>2. h.id = i
    BY <1>3, <2>1 DEF Held
  <2>3. CASE accepted' = accepted \cup {g.id} /\ result' = [result EXCEPT ![t] = "ok"]
    BY <1>4, <2>2, <2>3
  <2>4. CASE /\ refused' = [refused EXCEPT ![g.id] = Min({@ + 1, MaxAttempts})]
             /\ result' = [result EXCEPT ![t] = "error"]
    <3>1. refused[i] \in 0..MaxAttempts
      BY <1>3, <1>4
    <3>2. refused'[i] = IF refused[i] < MaxAttempts THEN refused[i] + 1 ELSE MaxAttempts
      BY <1>3, <1>4, <1>5, <2>4, <3>1
    <3>3. h.attempts < MaxAttempts /\ h.attempts \in Nat /\ h.attempts <= refused[i]
      BY <1>10, <2>1, <2>2
    <3>4. h.attempts < refused'[i]
      BY <3>1, <3>2, <3>3
    <3> QED
      BY <1>4, <2>2, <2>4, <3>4
  <2> QED
    BY <1>1, <2>3, <2>4
<1>13. Tentative'
  <2>1. ASSUME NEW s \in Thread \ {t}
        PROVE  /\ hand'[s] = {} => result'[s] = None
               /\ \A h \in Foremost(hand'[s]) :
                     /\ result'[s] = "error" => h.attempts < refused'[h.id]
                     /\ result'[s] = "ok" => h.id \in accepted'
    <3>1. hand'[s] = {} => result'[s] = None
      BY <1>2, <1>7 DEF NoticeInv, Tentative
    <3>2. ASSUME NEW h \in Foremost(hand[s])
          PROVE  /\ result'[s] = "error" => h.attempts < refused'[h.id]
                 /\ result'[s] = "ok" => h.id \in accepted'
      <4>1. /\ result[s] = "error" => h.attempts < refused[h.id]
            /\ result[s] = "ok" => h.id \in accepted
        BY DEF NoticeInv, Tentative
      <4>2. h \in hand[s] /\ h.id \in DOMAIN outbox /\ h.attempts \in Nat
        BY <1>10 DEF Foremost
      <4>3. refused[h.id] \in Nat /\ refused'[h.id] \in Nat /\ refused[h.id] <= refused'[h.id]
        BY <1>4, <1>6, <4>2
      <4> QED
        BY <1>6, <1>7, <4>1, <4>2, <4>3
    <3> QED
      BY <1>2, <3>1, <3>2
  <2>2. hand'[t] # {}
    BY <1>2, <1>3
  <2> QED
    BY <1>2, <1>12, <2>1, <2>2 DEF Tentative, Foremost
<1> QED
  BY <1>8, <1>9, <1>11, <1>13 DEF NoticeInv

\* The result is written over whatever the row says by now.
LEMMA MarkKeeps ==
    ASSUME OutboxConstants, NoticeInv, NEW t \in Thread, Mark(t)
    PROVE  NoticeInv'
<1> USE NoticeConstants
<1>1. PICK g \in Foremost(hand[t]) :
        /\ outbox' = [outbox EXCEPT ![g.id] =
                        MarkResult(outbox[g.id], result[t] = "ok", g.attempts + 1)]
        /\ hand' = [hand EXCEPT ![t] = @ \ {g}]
  BY DEF Mark
<1>2. /\ result[t] # None /\ result' = [result EXCEPT ![t] = None]
      /\ UNCHANGED <<hooks, free, suspended, running, reachable, announced, kills, downtimes, accepted,
                     refused>>
  BY DEF Mark
<1>3. /\ outbox \in Seq(Row) /\ DOMAIN outbox = 1..Len(outbox) /\ Len(outbox) \in Nat
      /\ refused \in [DOMAIN outbox -> 0..MaxAttempts]
      /\ hand \in [Thread -> SUBSET Held]
      /\ result \in [Thread -> {None, "ok", "error"}]
  BY LenProperties DEF NoticeInv, NoticeShape
<1>4. /\ g \in hand[t] /\ g \in Held /\ g.id \in DOMAIN outbox
      /\ g.attempts < MaxAttempts
      /\ result[t] = "error" => g.attempts < refused[g.id]
      /\ result[t] = "ok" => g.id \in accepted
  BY <1>3 DEF Foremost, NoticeInv, InHand, Tentative
<1> DEFINE i == g.id
           new == MarkResult(outbox[i], result[t] = "ok", g.attempts + 1)
<1>5. RowOK(new, refused[i], i \in accepted)
  <2>1. outbox[i] \in Row /\ refused[i] \in 0..MaxAttempts /\ g.attempts \in Nat
    BY <1>3, <1>4, ElementOfSeq DEF Held
  <2>2. g.attempts + 1 \in 1..MaxAttempts
    BY <1>4, <2>1
  <2>3. result[t] # "ok" => g.attempts + 1 <= refused[i]
    BY <1>2, <1>3, <1>4, <2>1
  <2>4. result[t] = "ok" => i \in accepted
    BY <1>4
  <2>5. (result[t] = "ok") \in BOOLEAN /\ (i \in accepted) \in BOOLEAN
    OBVIOUS
  <2> HIDE DEF i
  <2> QED
    BY <2>1, <2>2, <2>3, <2>4, <2>5, MarkedRowOK
<1> HIDE DEF new
<1>6. /\ DOMAIN outbox' = DOMAIN outbox /\ outbox'[i] = new
      /\ \A k \in DOMAIN outbox \ {i} : outbox'[k] = outbox[k]
      /\ outbox' \in Seq(Row)
  <2>1. new \in Row /\ outbox' = [outbox EXCEPT ![i] = new]
    BY <1>1, <1>5 DEF RowOK, new
  <2> QED
    BY <1>3, <1>4, <2>1, ExceptSeq
<1>7. /\ hand' \in [Thread -> SUBSET Held]
      /\ hand'[t] = hand[t] \ {g} /\ \A s \in Thread \ {t} : hand'[s] = hand[s]
  BY <1>1, <1>3
<1>8. /\ result' \in [Thread -> {None, "ok", "error"}] /\ result'[t] = None
      /\ \A s \in Thread \ {t} : result'[s] = result[s]
  BY <1>2, <1>3
<1>9. NoticeShape'
  BY <1>2, <1>3, <1>6, <1>7, <1>8 DEF NoticeInv, NoticeShape
<1>10. Rows'
  <2>1. ASSUME NEW k \in DOMAIN outbox PROVE RowOK(outbox'[k], refused[k], k \in accepted)
    <3>1. CASE k = i
      BY <1>5, <1>6, <3>1
    <3>2. CASE k # i
      BY <1>6, <3>2 DEF NoticeInv, Rows
    <3> QED
      BY <3>1, <3>2
  <2> QED
    BY <1>2, <1>6, <2>1 DEF Rows, RowOK
<1>11. InHand'
  BY <1>2, <1>6, <1>7 DEF NoticeInv, InHand
<1>12. Tentative'
  <2>1. None # "error" /\ None # "ok"
    BY DEF None
  <2>2. ASSUME NEW s \in Thread \ {t}
        PROVE  /\ hand'[s] = {} => result'[s] = None
               /\ \A h \in Foremost(hand'[s]) :
                     /\ result'[s] = "error" => h.attempts < refused'[h.id]
                     /\ result'[s] = "ok" => h.id \in accepted'
    BY <1>2, <1>7, <1>8 DEF NoticeInv, Tentative
  <2> QED
    BY <1>8, <2>1, <2>2 DEF Tentative, Foremost
<1> QED
  BY <1>9, <1>10, <1>11, <1>12 DEF NoticeInv

\* Time passes for a row.
LEMMA TimeKeeps ==
    ASSUME OutboxConstants, NoticeInv, NEW i,
           BackoffElapses(i) \/ ClaimAges(i)
    PROVE  NoticeInv'
<1>1. /\ i \in DOMAIN outbox
      /\ \/ outbox' = [outbox EXCEPT ![i] = [outbox[i] EXCEPT !.due = TRUE]]
         \/ outbox' = [outbox EXCEPT ![i] = [outbox[i] EXCEPT !.stale = TRUE]]
      /\ UNCHANGED <<hooks, free, suspended, hand, result, running, reachable, announced, kills,
                     downtimes, accepted, refused>>
  BY DEF BackoffElapses, ClaimAges
<1>2. outbox \in Seq(Row) /\ DOMAIN outbox = 1..Len(outbox) /\ Len(outbox) \in Nat
  BY LenProperties DEF NoticeInv, NoticeShape
<1>3. PICK new : /\ outbox' = [outbox EXCEPT ![i] = new]
                 /\ \/ new = [outbox[i] EXCEPT !.due = TRUE]
                    \/ new = [outbox[i] EXCEPT !.stale = TRUE]
  BY <1>1
<1>4. RowOK(new, refused[i], i \in accepted)
  <2>1. RowOK(outbox[i], refused[i], i \in accepted)
    BY <1>1 DEF NoticeInv, Rows
  <2> QED
    BY <1>3, <2>1 DEF RowOK, Row, Open
<1>5. /\ DOMAIN outbox' = DOMAIN outbox /\ outbox'[i] = new
      /\ \A k \in DOMAIN outbox \ {i} : outbox'[k] = outbox[k]
      /\ outbox' \in Seq(Row)
  <2>1. new \in Row
    BY <1>4 DEF RowOK
  <2> QED
    BY <1>1, <1>2, <1>3, <2>1, ExceptSeq
<1>6. NoticeShape'
  BY <1>1, <1>5 DEF NoticeInv, NoticeShape
<1>7. Rows'
  <2>1. ASSUME NEW k \in DOMAIN outbox PROVE RowOK(outbox'[k], refused[k], k \in accepted)
    <3>1. CASE k = i
      BY <1>4, <1>5, <3>1
    <3>2. CASE k # i
      BY <1>5, <3>2 DEF NoticeInv, Rows
    <3> QED
      BY <3>1, <3>2
  <2> QED
    BY <1>1, <1>5, <2>1 DEF Rows, RowOK
<1>8. InHand' /\ Tentative'
  BY <1>1, <1>5 DEF NoticeInv, InHand, Tentative, Foremost
<1> QED
  BY <1>6, <1>7, <1>8 DEF NoticeInv

LEMMA CrashKeeps ==
    ASSUME OutboxConstants, NoticeInv, NEW p \in Replica, Kill(p)
    PROVE  NoticeInv'
<1>1. /\ running' = running \ {p}
      /\ hand' = [t \in Thread |-> IF ProcOf[t] = p THEN {} ELSE hand[t]]
      /\ result' = [t \in Thread |-> IF ProcOf[t] = p THEN None ELSE result[t]]
      /\ UNCHANGED <<outbox, hooks, free, suspended, reachable, announced, downtimes, accepted, refused>>
  BY DEF Kill
<1>2. kills' \in 0..MaxKills
  BY NoticeConstants DEF Kill, NoticeInv, NoticeShape
<1>3. NoticeShape'
  BY <1>1, <1>2 DEF NoticeInv, NoticeShape
<1>4. Rows' /\ InHand'
  BY <1>1 DEF NoticeInv, Rows, RowOK, InHand
<1>5. Tentative'
  BY <1>1 DEF NoticeInv, Tentative, Foremost
<1> QED
  BY <1>3, <1>4, <1>5 DEF NoticeInv

LEMMA NoticeStep ==
    ASSUME OutboxConstants, NoticeInv, [OutboxNext]_outboxVars
    PROVE  NoticeInv'
<1>1. ASSUME NEW e \in Transition, Emit(e) PROVE NoticeInv'
  BY <1>1, EmitKeeps
<1>2. ASSUME NEW t \in Thread, LoopClaim(t) \/ DeliverOne(t) \/ Mark(t)
      PROVE  NoticeInv'
  BY <1>2, LoopClaimKeeps, DeliverKeeps, MarkKeeps
<1>3. ASSUME NEW t \in Thread, NEW h \in Hook, TestHook(t, h) PROVE NoticeInv'
  BY <1>3, TestHookKeeps
<1>4. ASSUME NEW i \in Ids, BackoffElapses(i) \/ ClaimAges(i)
      PROVE  NoticeInv'
  BY <1>4, TimeKeeps
<1>5. ASSUME NEW p \in Replica, Kill(p) PROVE NoticeInv'
  BY <1>5, CrashKeeps
<1>6. ASSUME \/ \E u \in User : SuspendUser(u)
             \/ \E h \in Hook : CreateHook(h) \/ DeleteHook(h)
             \/ \E p \in Replica : Restart(p)
             \/ ReceiversDown \/ ReceiversUp
             \/ UNCHANGED outboxVars
      PROVE  NoticeInv'
  <2>1. UNCHANGED <<outbox, hand, result, accepted, refused>>
    BY <1>6 DEF SuspendUser, CreateHook, DeleteHook, Restart,
                ReceiversDown, ReceiversUp, outboxVars
  <2> QED
    BY <1>6, <2>1, AsideKeeps
<1> QED
  BY <1>1, <1>2, <1>3, <1>4, <1>5, <1>6 DEF OutboxNext

\* The rows of the outbox, and what the threads of all replicas have in hand,
\* are of their types, and a claim names its claimer.
THEOREM NoticesTypeCorrect == OutboxSpec => []OutboxTypeOK
<1> OutboxConstants
  BY OutboxAssumption
<1>1. OutboxInit => NoticeInv
  BY NoticeInit
<1>2. NoticeInv /\ [OutboxNext]_outboxVars => NoticeInv'
  BY NoticeStep
<1>3. NoticeInv => OutboxTypeOK
  BY NoticeInvGives
<1> QED
  BY <1>1, <1>2, <1>3, PTL DEF OutboxSpec

\* A notification is given up only after max_attempts refused deliveries, and
\* reported sent only if a receiver took it, however many threads and replicas
\* deliver the same row, take claims over from each other, die and write late
\* results by id (claim_pending, deliver_one, mark_result).
THEOREM OutcomesAreTrue == OutboxSpec => []OutcomeIsTrue
<1> OutboxConstants
  BY OutboxAssumption
<1>1. OutboxInit => NoticeInv
  BY NoticeInit
<1>2. NoticeInv /\ [OutboxNext]_outboxVars => NoticeInv'
  BY NoticeStep
<1>3. NoticeInv => OutcomeIsTrue
  BY NoticeInvGives
<1> QED
  BY <1>1, <1>2, <1>3, PTL DEF OutboxSpec

=============================================================================
