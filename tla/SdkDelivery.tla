---------------------------- MODULE SdkDelivery ----------------------------
(***************************************************************************)
(* Delivery of events by the SDK: a bounded queue, a worker thread that    *)
(* batches, retries and spools to disk, the final flush on the host's own  *)
(* thread, and the spool directory the processes of a prefork server share *)
(* (packages/python-sdk/norinth_logger/transport.py, spool.py).            *)
(*                                                                         *)
(* async_transport is on, as by default.  A step is one system call or one *)
(* answer of the platform.  Events are distinct, so a batch names its file.*)
(***************************************************************************)
EXTENDS Naturals, Sequences, SequencesExt, FiniteSets, FiniteSetsExt

CONSTANTS
    Proc,         \* processes of the service
    First,        \* the one that calls init(); the others are forked
    Event,        \* events the host records
    Unserial,     \* events json.dumps refuses (a NaN score)
    Spooling,     \* resolve_spool_dir found a directory
    QueueMax,     \* max_queue_size
    SpoolMax,     \* spool_max_bytes, one byte an event
    MaxRetries,   \* max_send_retries
    MaxOutages,   \* bound: outages of the platform
    MaxCrashes    \* bound: processes killed

ASSUME DeliveryAssumption ==
    /\ First \in Proc /\ Unserial \subseteq Event
    /\ Spooling \in BOOLEAN
    /\ QueueMax \in Nat \ {0} /\ SpoolMax \in Nat /\ MaxRetries \in Nat
    /\ MaxOutages \in Nat /\ MaxCrashes \in Nat

VARIABLES
    phase,      \* phase[p]: the life of the process
    stop,       \* stop[p]: shutdown() was called
    queue,      \* queue[p]
    thread,     \* thread[p][t]: where its worker and its host thread are
    spool,      \* files of the spool directory
    up,         \* the platform answers
    outages, crashes,
    emitted,    \* events handed to record()
    received,   \* events the platform has stored
    dropped,    \* events counted in stats.dropped
    died        \* events in the memory of a process that ended

vars == <<phase, stop, queue, thread, spool, up, outages, crashes, emitted, received,
          dropped, died>>

Batch == SUBSET Event \ {{}}

\* A file's name ends in .json.tmp, .json or .json.sending; old: its mtime, the
\* time it was written, is past _STALE_CLAIM_SECONDS.
File == [batch : Batch, name : {"tmp", "json", "sending"}, old : BOOLEAN]

At == {"idle", "drain", "claimed", "collect", "live", "spool", "write", "rename", "done"}

ThreadState == [at : At, batch : SUBSET Event, tries : 0..MaxRetries, todo : Seq(Batch)]

TypeOK ==
    /\ phase \in [Proc -> {"unborn", "up", "exiting", "gone"}]
    /\ stop \in [Proc -> BOOLEAN]
    /\ queue \in [Proc -> Seq(Event)]
    /\ \A p \in Proc : Len(queue[p]) <= QueueMax
    /\ thread \in [Proc -> [{"worker", "host"} -> ThreadState]]
    /\ spool \subseteq File
    /\ \A f, g \in spool : f.batch = g.batch => f = g
    /\ up \in BOOLEAN /\ outages \in 0..MaxOutages /\ crashes \in 0..MaxCrashes
    /\ UNION {received, dropped, died} \subseteq emitted /\ emitted \subseteq Event

Idle == [at |-> "idle", batch |-> {}, tries |-> 0, todo |-> <<>>]

\* EventTransport.__init__
Init ==
    /\ phase = [p \in Proc |-> IF p = First THEN "up" ELSE "unborn"]
    /\ stop = [p \in Proc |-> FALSE]
    /\ queue = [p \in Proc |-> <<>>]
    /\ thread = [p \in Proc |-> [t \in {"worker", "host"} |-> Idle]]
    /\ spool = {} /\ up = TRUE /\ outages = 0 /\ crashes = 0
    /\ emitted = {} /\ received = {} /\ dropped = {} /\ died = {}

-----------------------------------------------------------------------------
Alive(p) == phase[p] \in {"up", "exiting"}

To(p, t, at) == thread' = [thread EXCEPT ![p][t].at = at]

\* A thread is through with a flush: the worker sleeps unless it was stopped.
Rest(p, t) == [Idle EXCEPT !.at = IF t = "worker" /\ stop[p] THEN "done" ELSE "idle"]

Finish(p, t) == thread' = [thread EXCEPT ![p][t] = Rest(p, t)]

FilesNamed(name) == {f \in spool : f.name = name}

\* os.replace of a batch's file, when it still has the name the caller expects.
Renamed(files, b, from, to) ==
    {IF f.batch = b /\ f.name = from THEN [f EXCEPT !.name = to] ELSE f : f \in files}

\* What one _post_once can end in, by _is_retriable.  While the platform is out of
\* reach its answer may be lost after it has stored the batch.
Answers == IF up THEN {"accepted", "refused"} ELSE {"failed", "unanswered"}

ReceivedAfter(b, answer) ==
    IF answer \in {"accepted", "unanswered"} THEN received \cup b ELSE received

-----------------------------------------------------------------------------
\* enqueue, called by the host through record().
Enqueue(p, e) ==
    /\ phase[p] = "up" /\ e \notin emitted
    /\ emitted' = emitted \cup {e}
    /\ IF Len(queue[p]) < QueueMax
         THEN queue' = [queue EXCEPT ![p] = Append(@, e)] /\ UNCHANGED dropped
         ELSE dropped' = dropped \cup {e} /\ UNCHANGED queue
    /\ UNCHANGED <<phase, stop, thread, spool, up, outages, crashes, received, died>>

\* As StartFlush, without _reclaim_stale_claims.
StartFlushOnly(p) ==
    /\ Alive(p) /\ thread[p]["worker"].at = "idle"
    /\ \E todo \in SetToSeqs({f.batch : f \in FilesNamed("json")}) :
         thread' = [thread EXCEPT ![p]["worker"].at = "drain", ![p]["worker"].todo = todo]
    /\ UNCHANGED <<phase, stop, queue, spool, up, outages, crashes, emitted, received,
                   dropped, died>>

\* flush of the worker, up to the listing of the spool: _reclaim_stale_claims,
\* glob.  A worker asleep when stop is set flushes once more.
StartFlush(p) ==
    /\ Alive(p) /\ thread[p]["worker"].at = "idle"
    /\ LET reclaimed == IF Spooling
                          THEN {IF f.name = "sending" /\ f.old
                                  THEN [f EXCEPT !.name = "json"] ELSE f : f \in spool}
                          ELSE spool
       IN  /\ spool' = reclaimed
           /\ \E todo \in SetToSeqs({f.batch : f \in {g \in reclaimed : g.name = "json"}}) :
                thread' = [thread EXCEPT ![p]["worker"].at = "drain",
                                         ![p]["worker"].todo = todo]
    /\ UNCHANGED <<phase, stop, queue, up, outages, crashes, emitted, received, dropped,
                   died>>

\* _drain_spool, one path: the rename claims the file, or it is someone else's.
ClaimNext(p) ==
    LET w == thread[p]["worker"]
    IN  /\ Alive(p) /\ w.at = "drain"
        /\ IF w.todo = <<>> THEN To(p, "worker", "collect") /\ UNCHANGED spool
           ELSE LET b    == Head(w.todo)
                    mine == \E f \in FilesNamed("json") : f.batch = b
                IN  /\ spool' = Renamed(spool, b, "json", "sending")
                    /\ thread' = [thread EXCEPT ![p]["worker"] =
                          [w EXCEPT !.todo = Tail(@),
                                    !.at = IF mine THEN "claimed" ELSE "drain",
                                    !.batch = IF mine THEN b ELSE {}]]
        /\ UNCHANGED <<phase, stop, queue, up, outages, crashes, emitted, received,
                       dropped, died>>

\* As PostSpooled, the file removed whatever the platform answered.
PostSpooledAndRemove(p) ==
    LET w == thread[p]["worker"]
    IN  /\ Alive(p) /\ w.at = "claimed"
        /\ \E answer \in Answers :
             /\ received' = ReceivedAfter(w.batch, answer)
             /\ dropped' = IF answer = "refused" THEN dropped \cup w.batch ELSE dropped
             /\ spool' = {f \in spool : ~(f.batch = w.batch /\ f.name = "sending")}
             /\ To(p, "worker", IF answer \in {"failed", "unanswered"} THEN "collect" ELSE "drain")
        /\ UNCHANGED <<phase, stop, queue, up, outages, crashes, emitted, died>>

\* _drain_spool, the answer for the claimed file: released and the drain given up
\* when it may be retried, else removed by its claimed name.
PostSpooled(p) ==
    LET w == thread[p]["worker"]
    IN  /\ Alive(p) /\ w.at = "claimed"
        /\ \E answer \in Answers :
             /\ received' = ReceivedAfter(w.batch, answer)
             /\ dropped' = IF answer = "refused" THEN dropped \cup w.batch ELSE dropped
             /\ IF answer \in {"failed", "unanswered"}
                  THEN /\ spool' = Renamed(spool, w.batch, "sending", "json")
                       /\ To(p, "worker", "collect")
                  ELSE /\ spool' = {f \in spool : ~(f.batch = w.batch /\ f.name = "sending")}
                       /\ To(p, "worker", "drain")
        /\ UNCHANGED <<phase, stop, queue, up, outages, crashes, emitted, died>>

\* flush: the queue is emptied, in one step where the code takes event after event: the
\* worker and the final flush never share it out between them.  send_batch drops the whole
\* batch when one event of it does not serialize.  At the end the thread is at "live", or
\* through.
CollectInto(p, t) ==
    LET batch == ToSet(queue[p])
        sends == batch # {} /\ batch \cap Unserial = {}
    IN  /\ queue' = [queue EXCEPT ![p] = <<>>]
        /\ dropped' = IF sends THEN dropped ELSE dropped \cup batch
        /\ thread' = [thread EXCEPT ![p][t] =
              IF sends THEN [Idle EXCEPT !.at = "live", !.batch = batch] ELSE Rest(p, t)]

Collect(p) ==
    /\ Alive(p) /\ thread[p]["worker"].at = "collect"
    /\ CollectInto(p, "worker")
    /\ UNCHANGED <<phase, stop, spool, up, outages, crashes, emitted, received, died>>

\* As PostLive, the batch forgotten once its retries are used up.
PostLiveOnly(p, t) ==
    LET s == thread[p][t]
    IN  /\ Alive(p) /\ s.at = "live"
        /\ \E answer \in Answers :
             /\ received' = ReceivedAfter(s.batch, answer)
             /\ dropped' = IF answer = "refused" THEN dropped \cup s.batch ELSE dropped
             /\ IF answer \in {"failed", "unanswered"} /\ t = "worker" /\ s.tries < MaxRetries
                  THEN thread' = [thread EXCEPT ![p][t].tries = @ + 1]
                  ELSE Finish(p, t)
        /\ UNCHANGED <<phase, stop, queue, spool, up, outages, crashes, emitted, died>>

\* _deliver: one attempt.  The final flush has no retries.
PostLive(p, t) ==
    LET s == thread[p][t]
    IN  /\ Alive(p) /\ s.at = "live"
        /\ \E answer \in Answers :
             /\ received' = ReceivedAfter(s.batch, answer)
             /\ dropped' = IF answer = "refused" THEN dropped \cup s.batch ELSE dropped
             /\ IF answer \in {"accepted", "refused"} THEN Finish(p, t)
                ELSE IF t = "worker" /\ s.tries < MaxRetries
                  THEN thread' = [thread EXCEPT ![p][t].tries = @ + 1]
                  ELSE To(p, t, "spool")
        /\ UNCHANGED <<phase, stop, queue, spool, up, outages, crashes, emitted, died>>

\* _spool_size: every file counts, a half written one too.
SpoolSize == Cardinality(UNION {f.batch : f \in spool})

\* _spool, the check of the size.
SpoolCheck(p, t) ==
    LET s    == thread[p][t]
        fits == Spooling /\ SpoolSize + Cardinality(s.batch) <= SpoolMax
    IN  /\ Alive(p) /\ s.at = "spool"
        /\ IF fits THEN To(p, t, "write") ELSE Finish(p, t)
        /\ dropped' = IF fits THEN dropped ELSE dropped \cup s.batch
        /\ UNCHANGED <<phase, stop, queue, spool, up, outages, crashes, emitted, received,
                       died>>

\* _spool could not write: the batch is counted as dropped, and a temporary file that is
\* left behind is never read again.
SpoolFails(p, t) ==
    /\ dropped' = dropped \cup thread[p][t].batch
    /\ Finish(p, t) /\ UNCHANGED spool

\* _spool, the temporary file is written ...
SpoolWrite(p, t) ==
    /\ Alive(p) /\ thread[p][t].at = "write"
    /\ \/ /\ spool' = spool \cup {[batch |-> thread[p][t].batch, name |-> "tmp", old |-> FALSE]}
          /\ To(p, t, "rename") /\ UNCHANGED dropped
       \/ SpoolFails(p, t)
    /\ UNCHANGED <<phase, stop, queue, up, outages, crashes, emitted, received, died>>

\* ... and renamed into place.
SpoolRename(p, t) ==
    /\ Alive(p) /\ thread[p][t].at = "rename"
    /\ \/ /\ spool' = Renamed(spool, thread[p][t].batch, "tmp", "json")
          /\ Finish(p, t) /\ UNCHANGED dropped
       \/ SpoolFails(p, t)
    /\ UNCHANGED <<phase, stop, queue, up, outages, crashes, emitted, received, died>>

-----------------------------------------------------------------------------
\* shutdown: the final flush leaves the spool alone; the join that follows only
\* waits, and not longer than timeout_seconds.
Shutdown(p) ==
    /\ phase[p] = "up" /\ ~stop[p] /\ thread[p]["host"].at = "idle"
    /\ stop' = [stop EXCEPT ![p] = TRUE]
    /\ CollectInto(p, "host")
    /\ UNCHANGED <<phase, spool, up, outages, crashes, emitted, received, died>>

\* _atexit_flush, while the worker, a daemon thread, still runs.
AtExit(p) ==
    /\ phase[p] = "up" /\ thread[p]["host"].at = "idle"
    /\ phase' = [phase EXCEPT ![p] = "exiting"]
    /\ CollectInto(p, "host")
    /\ UNCHANGED <<stop, spool, up, outages, crashes, emitted, received, died>>

\* Events only this process has: queued, or in a batch that is neither sent nor
\* on disk.
InMemory(p) ==
    LET held(t) == IF thread[p][t].at \in {"live", "spool", "write"}
                     THEN thread[p][t].batch ELSE {}
    IN  ToSet(queue[p]) \cup held("worker") \cup held("host")

Ended(p) ==
    /\ phase' = [phase EXCEPT ![p] = "gone"]
    /\ died' = died \cup (InMemory(p) \ received)
    /\ queue' = [queue EXCEPT ![p] = <<>>]
    /\ thread' = [thread EXCEPT ![p] = [t \in {"worker", "host"} |-> Idle]]
    /\ UNCHANGED <<stop, spool, up, outages, emitted, received, dropped>>

\* The interpreter ends: nobody waits for the worker.
Exit(p) ==
    /\ phase[p] = "exiting" /\ thread[p]["host"].at = "idle"
    /\ Ended(p) /\ UNCHANGED crashes

Crash(p) ==
    /\ Alive(p) /\ crashes < MaxCrashes
    /\ crashes' = crashes + 1
    /\ Ended(p)

\* os.fork and _after_fork: the child starts with an empty queue and its own
\* worker, whatever the parent was doing.
Fork(p, q) ==
    /\ phase[p] = "up" /\ phase[q] = "unborn"
    /\ phase' = [phase EXCEPT ![q] = "up"]
    /\ UNCHANGED <<stop, queue, thread, spool, up, outages, crashes, emitted, received,
                   dropped, died>>

\* Five minutes pass for a file.  Its mtime is the time it was written: neither
\* the claim nor its release touches it.  A post ends long before, by
\* timeout_seconds.
Age(b) ==
    /\ \A p \in Proc : ~(Alive(p) /\ thread[p]["worker"].at = "claimed"
                          /\ thread[p]["worker"].batch = b)
    /\ \E f \in spool : f.batch = b /\ ~f.old
    /\ spool' = {IF f.batch = b THEN [f EXCEPT !.old = TRUE] ELSE f : f \in spool}
    /\ UNCHANGED <<phase, stop, queue, thread, up, outages, crashes, emitted, received,
                   dropped, died>>

Outage ==
    /\ up /\ outages < MaxOutages
    /\ up' = FALSE /\ outages' = outages + 1
    /\ UNCHANGED <<phase, stop, queue, thread, spool, crashes, emitted, received, dropped,
                   died>>

Recovery ==
    /\ ~up /\ up' = TRUE
    /\ UNCHANGED <<phase, stop, queue, thread, spool, outages, crashes, emitted, received,
                   dropped, died>>

ThreadStep(p, t) ==
    \/ PostLive(p, t) \/ SpoolCheck(p, t) \/ SpoolWrite(p, t) \/ SpoolRename(p, t)

WorkerStep(p) ==
    \/ StartFlush(p) \/ ClaimNext(p) \/ PostSpooled(p) \/ Collect(p)
    \/ ThreadStep(p, "worker")

Next ==
    \/ \E p \in Proc, e \in Event : Enqueue(p, e)
    \/ \E p \in Proc : WorkerStep(p) \/ ThreadStep(p, "host")
    \/ \E p \in Proc : Shutdown(p) \/ AtExit(p) \/ Exit(p) \/ Crash(p)
    \/ \E p, q \in Proc : Fork(p, q)
    \/ \E b \in Batch : Age(b)
    \/ Outage \/ Recovery

Spec ==
    /\ Init /\ [][Next]_vars
    /\ \A p \in Proc : WF_vars(WorkerStep(p))
    /\ \A b \in Batch : WF_vars(Age(b))

-----------------------------------------------------------------------------
\* No event vanishes: one handed to the SDK is on the platform, counted as
\* dropped, on disk, in the memory of a live process, or went down with one
\* (retries, claims, releases and the two flushes of an exit hand it on).  On disk is also
\* the temporary file of a _spool that did not live to rename it, which nothing reads again.
EventsAccounted ==
    emitted \subseteq UNION ({received, dropped, died, UNION {f.batch : f \in spool}}
                             \cup {InMemory(p) : p \in {q \in Proc : Alive(q)}})

\* A batch on disk outlives everything but its delivery: whatever processes claim,
\* release, reclaim, crash or exit, its file goes only once the platform has
\* stored it or refused it for good.
SpoolOutlives ==
    [][\A f \in spool : (\E g \in spool' : g.batch = f.batch)
                            \/ f.batch \subseteq received' \cup dropped']_vars

\* A batch in the spool is delivered while the platform answers and some process
\* keeps running, a claim its owner did not live to release included; a temporary file that
\* was never renamed is not, since no flush lists it.
SpooledIsResent ==
    \A b \in Batch :
        (\E f \in spool : f.batch = b /\ f.name # "tmp")
            ~> (b \subseteq received \cup dropped \/ ~up
                \/ \A p \in Proc : phase[p] # "up" \/ stop[p])

\* "two workers of one prefork server never send the same file".
SentByOne ==
    \A p, q \in Proc :
        (/\ p # q /\ Alive(p) /\ Alive(q)
         /\ thread[p]["worker"].at = "claimed" /\ thread[q]["worker"].at = "claimed")
            => thread[p]["worker"].batch # thread[q]["worker"].batch
=============================================================================
