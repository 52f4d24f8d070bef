------------------------------- MODULE Outbox -------------------------------
(***************************************************************************)
(* The notification outbox: emit() writes one row per recipient inside the *)
(* transaction of the transition it reports, and delivery threads of every *)
(* replica claim due rows, send them outside any transaction and record    *)
(* the result (storage/notifications.py, services/notifications.py,        *)
(* api/notifications.py).                                                  *)
(*                                                                         *)
(* A process runs one delivery loop; POST /webhooks/{id}/test runs the     *)
(* same deliver_pending on a request thread, under the same worker id.     *)
(***************************************************************************)
EXTENDS Naturals, Sequences, FiniteSets, FiniteSetsExt, SequencesExt

CONSTANTS
    Thread,        \* threads that run deliver_pending
    Requests,      \* the ones among them that serve test_hook
    ProcOf,        \* ProcOf[t]: the process of a thread, its _WORKER_ID
    Transition,    \* transitions that call emit, each at most once
    User, Hook,    \* e-mail addresses, webhooks
    ToUsers,       \* ToUsers[e]: accounts an event addresses, by name or role
    Subscribed,    \* Subscribed[h]: events a webhook asks for
    SmtpSet,       \* NORINTH_SMTP_HOST is set
    Limit,         \* rows claimed at a time
    MaxAttempts,   \* mark_result's max_attempts
    MaxRows,       \* bound: rows of the outbox
    MaxKills,      \* bound: processes killed
    MaxDowntimes   \* bound: times the receiving side goes down

Replica == {ProcOf[t] : t \in Thread}
Target == User \cup Hook

None == "none"

\* Addresses and webhooks are finitely many, and a worker id is not NULL.
OutboxConstants ==
    /\ Requests \subseteq Thread /\ IsFiniteSet(Thread) /\ None \notin Replica
    /\ IsFiniteSet(User) /\ \A e \in Transition : ToUsers[e] \subseteq User
    /\ IsFiniteSet(Hook) /\ \A h \in Hook : Subscribed[h] \subseteq Transition
    /\ SmtpSet \in BOOLEAN
    /\ {Limit, MaxAttempts} \subseteq Nat \ {0}
    /\ {MaxRows, MaxKills, MaxDowntimes} \subseteq Nat

ASSUME OutboxAssumption == OutboxConstants

VARIABLES
    outbox,     \* notification_outbox, in the order of its ids
    hooks,      \* webhooks that exist
    free,       \* webhook ids not given to a webhook yet
    suspended,  \* accounts whose status is not active
    hand,       \* hand[t]: the rows a thread has claimed and not yet recorded
    result,     \* result[t]: outcome of deliver_one on the first of them
    running,    \* processes that are up
    reachable,  \* the mail server and the receivers answer
    announced, kills, downtimes,
    accepted,   \* ids a receiver has taken
    refused     \* refused[i]: deliveries of row i that were tried and failed

outboxVars == <<outbox, hooks, free, suspended, hand, result, running, reachable, announced, kills,
          downtimes, accepted, refused>>

\* due: next_attempt_at has come; stale: claimed_at is STALE_CLAIM_MINUTES old.
Row == [target : Target,
        status : {"pending", "delivering", "sent", "failed", "skipped_no_smtp"},
        attempts : 0..MaxAttempts,
        due : BOOLEAN,
        claimedBy : Replica \cup {None},
        stale : BOOLEAN]

Held == [id : Nat \ {0}, attempts : 0..MaxAttempts]

OutboxTypeOK ==
    /\ outbox \in Seq(Row)
    /\ hooks \subseteq Hook \ free /\ suspended \subseteq User
    /\ hand \in [Thread -> SUBSET Held]
    /\ result \in [Thread -> {None, "ok", "error"}]
    /\ running \subseteq Replica /\ reachable \in BOOLEAN
    /\ announced \subseteq Transition
    /\ kills \in 0..MaxKills /\ downtimes \in 0..MaxDowntimes
    /\ accepted \subseteq DOMAIN outbox
    /\ refused \in [DOMAIN outbox -> 0..MaxAttempts]
    \* a claim names its claimer, and only a claim does
    /\ \A i \in DOMAIN outbox :
        (outbox[i].status = "delivering") <=> (outbox[i].claimedBy # None)
    \* the attempts a row shows were really made
    /\ \A i \in DOMAIN outbox :
        outbox[i].attempts <= refused[i] + (IF i \in accepted THEN MaxAttempts ELSE 0)

OutboxInit ==
    /\ outbox = <<>> /\ hooks = {} /\ free = Hook /\ suspended = {}
    /\ hand = [t \in Thread |-> {}] /\ result = [t \in Thread |-> None]
    /\ running = Replica /\ reachable = TRUE
    /\ announced = {} /\ kills = 0 /\ downtimes = 0
    /\ accepted = {} /\ refused = <<>>

-----------------------------------------------------------------------------
(* What the requests do. *)

\* enqueue
NewRow(target, status) ==
    [target |-> target, status |-> status, attempts |-> 0, due |-> TRUE,
     claimedBy |-> None, stale |-> FALSE]

\* _user_email and _ROLE_RECIPIENT_SQL: addresses of the active accounts
Recipients(e) == ToUsers[e] \ suspended

\* active_webhooks_for
ActiveWebhooksFor(e) == {h \in hooks : e \in Subscribed[h]}

\* emit: without a mail server the e-mail rows are a log only.
EmitRows(e) ==
    LET status == IF SmtpSet THEN "pending" ELSE "skipped_no_smtp" IN
    [i \in 1..Cardinality(Recipients(e)) |-> NewRow(SetToSeq(Recipients(e))[i], status)]
    \o [i \in 1..Cardinality(ActiveWebhooksFor(e)) |->
          NewRow(SetToSeq(ActiveWebhooksFor(e))[i], "pending")]

EnqueueNotices(rows) ==
    /\ outbox' = outbox \o rows
    /\ refused' = refused \o [i \in DOMAIN rows |-> 0]

\* emit inside a transition's transaction, which commits.
Emit(e) ==
    /\ e \notin announced /\ Len(outbox) + Len(EmitRows(e)) <= MaxRows
    /\ announced' = announced \cup {e}
    /\ EnqueueNotices(EmitRows(e))
    /\ UNCHANGED <<hooks, free, suspended, hand, result, running, reachable, kills, downtimes,
                   accepted>>

\* set_user_status, as far as the recipients go
SuspendUser(u) ==
    /\ u \notin suspended
    /\ suspended' = suspended \cup {u}
    /\ UNCHANGED <<outbox, hooks, free, hand, result, running, reachable, announced, kills,
                   downtimes, accepted, refused>>

CreateWebhook(h) == h \in free /\ free' = free \ {h} /\ hooks' = hooks \cup {h}

\* Events queued before are not sent to it.
CreateHook(h) ==
    /\ CreateWebhook(h)
    /\ UNCHANGED <<outbox, suspended, hand, result, running, reachable, announced, kills,
                   downtimes, accepted, refused>>

\* Rows already queued for the webhook stay.
DeleteWebhook(h) == h \in hooks /\ hooks' = hooks \ {h} /\ UNCHANGED free

DeleteHook(h) ==
    /\ DeleteWebhook(h)
    /\ UNCHANGED <<outbox, suspended, hand, result, running, reachable, announced, kills,
                   downtimes, accepted, refused>>

-----------------------------------------------------------------------------
(* deliver_pending *)

\* A mutation: an abandoned claim is nobody's business
StaleKept(rows) == rows

\* claim_pending: claims that look abandoned are released
StaleReleased(rows) ==
    [i \in DOMAIN rows |->
        IF rows[i].status = "delivering" /\ rows[i].stale
        THEN [rows[i] EXCEPT !.status = "pending", !.claimedBy = None, !.stale = FALSE]
        ELSE rows[i]]

\* ... the first Limit due rows are taken (FOR UPDATE SKIP LOCKED, or the one writer)
Due(rows) == {i \in DOMAIN rows : rows[i].status = "pending" /\ rows[i].due}

Taken(rows, p) ==
    LET first == {i \in Due(rows) : Cardinality({j \in Due(rows) : j < i}) < Limit} IN
    [i \in DOMAIN rows |->
        IF i \in first
        THEN [rows[i] EXCEPT !.status = "delivering", !.claimedBy = p, !.stale = FALSE]
        ELSE rows[i]]

\* ... and every row this worker id holds is returned, whichever thread took it.
ClaimPending(p) == Taken(StaleReleased(outbox), p)

HeldBy(rows, p) ==
    {[id |-> i, attempts |-> rows[i].attempts] : i \in {j \in DOMAIN rows : rows[j].claimedBy = p}}

Unoccupied(t) == ProcOf[t] \in running /\ hand[t] = {}

\* The rows in hand are delivered in the order of their ids.
Foremost(held) == {h \in held : \A g \in held : h.id <= g.id}

Claim(t, rows, p) ==
    /\ outbox' = rows
    /\ hand' = [hand EXCEPT ![t] = HeldBy(rows, p)]

\* One turn of start_worker's loop begins.
LoopClaim(t) ==
    /\ t \notin Requests /\ Unoccupied(t)
    /\ Claim(t, ClaimPending(ProcOf[t]), ProcOf[t])
    /\ outbox' # outbox \/ hand' # hand
    /\ UNCHANGED <<hooks, free, suspended, result, running, reachable, announced, kills,
                   downtimes, accepted, refused>>

\* test_hook: a row of its own, then deliver_pending.  The two transactions are one
\* step: a claim by another thread in between only takes the row from this one.
TestHook(t, h) ==
    /\ t \in Requests /\ Unoccupied(t) /\ h \in hooks /\ Len(outbox) < MaxRows
    /\ LET rows == Append(outbox, NewRow(h, "pending"))
           claimed == Taken(StaleReleased(rows), ProcOf[t])
       IN  Claim(t, claimed, ProcOf[t])
    /\ refused' = Append(refused, 0)
    /\ UNCHANGED <<hooks, free, suspended, result, running, reachable, announced, kills,
                   downtimes, accepted>>

SendEmail(user) == reachable

\* A webhook that is gone is an error.
PostWebhook(h) == reachable /\ h \in hooks

Reachable(target) == IF target \in Hook THEN PostWebhook(target) ELSE SendEmail(target)

\* The answer of a receiver may be lost after it has taken the message.
Unanswered(i) == IF outbox[i].target \in Hook \ hooks THEN {} ELSE {i}

\* A mutation: a webhook that is gone counts as delivered
DeliverOneGoneIsOk(t) ==
    /\ ProcOf[t] \in running /\ result[t] = None
    /\ \E i \in {h.id : h \in Foremost(hand[t])} :
        /\ accepted' = IF Reachable(outbox[i].target) THEN accepted \cup {i} ELSE accepted
        /\ result' = [result EXCEPT ![t] =
                        IF Reachable(outbox[i].target) \/ outbox[i].target \in Hook \ hooks
                        THEN "ok" ELSE "error"]
        /\ refused' = IF result'[t] = "error" THEN [refused EXCEPT ![i] = Min({@ + 1, MaxAttempts})]
                                              ELSE refused
    /\ UNCHANGED <<outbox, hooks, free, suspended, hand, running, reachable, announced, kills,
                   downtimes>>

DeliverOne(t) ==
    /\ ProcOf[t] \in running /\ result[t] = None
    /\ \E i \in {h.id : h \in Foremost(hand[t])} :
        \/ /\ Reachable(outbox[i].target)
           /\ accepted' = accepted \cup {i}
           /\ result' = [result EXCEPT ![t] = "ok"]
           /\ UNCHANGED refused
        \/ /\ ~ Reachable(outbox[i].target)
           /\ refused' = [refused EXCEPT ![i] = Min({@ + 1, MaxAttempts})]
           /\ result' = [result EXCEPT ![t] = "error"]
           /\ accepted' \in {accepted, accepted \cup Unanswered(i)}
    /\ UNCHANGED <<outbox, hooks, free, suspended, hand, running, reachable, announced, kills,
                   downtimes>>

\* mark_result writes by id alone: whoever holds the claim by now, and whatever the
\* row says by now, it takes this result and the attempts read with the claim.
MarkResult(row, ok, attempts) ==
    [row EXCEPT !.status = IF ok THEN "sent"
                           ELSE IF attempts >= MaxAttempts THEN "failed" ELSE "pending",
                !.attempts = attempts,
                !.due = IF ~ ok /\ attempts < MaxAttempts THEN FALSE ELSE @,
                !.claimedBy = None, !.stale = FALSE]

Mark(t) ==
    /\ ProcOf[t] \in running /\ result[t] # None
    /\ \E held \in Foremost(hand[t]) :
        /\ outbox' = [outbox EXCEPT ![held.id] =
                        MarkResult(@, result[t] = "ok", held.attempts + 1)]
        /\ hand' = [hand EXCEPT ![t] = @ \ {held}]
    /\ result' = [result EXCEPT ![t] = None]
    /\ UNCHANGED <<hooks, free, suspended, running, reachable, announced, kills, downtimes,
                   accepted, refused>>

-----------------------------------------------------------------------------
(* Time and faults. *)

\* The backoff of a failed row runs out.
BackoffElapses(i) ==
    /\ i \in DOMAIN outbox /\ outbox[i].status = "pending" /\ ~ outbox[i].due
    /\ outbox' = [outbox EXCEPT ![i].due = TRUE]
    /\ UNCHANGED <<hooks, free, suspended, hand, result, running, reachable, announced, kills,
                   downtimes, accepted, refused>>

\* A claim turns STALE_CLAIM_MINUTES old.  Its worker may be dead or only slow: a
\* batch of fifty messages at a mail server's timeout of 20 s takes longer.
ClaimAges(i) ==
    /\ i \in DOMAIN outbox /\ outbox[i].status = "delivering" /\ ~ outbox[i].stale
    /\ outbox' = [outbox EXCEPT ![i].stale = TRUE]
    /\ UNCHANGED <<hooks, free, suspended, hand, result, running, reachable, announced, kills,
                   downtimes, accepted, refused>>

\* A process is killed, with what its threads had in hand.
Kill(p) ==
    /\ p \in running /\ kills < MaxKills
    /\ kills' = kills + 1
    /\ running' = running \ {p}
    /\ hand' = [t \in Thread |-> IF ProcOf[t] = p THEN {} ELSE hand[t]]
    /\ result' = [t \in Thread |-> IF ProcOf[t] = p THEN None ELSE result[t]]
    /\ UNCHANGED <<outbox, hooks, free, suspended, reachable, announced, downtimes, accepted,
                   refused>>

\* It comes back; in a container it has the same host and process id.
Restart(p) ==
    /\ p \in Replica \ running
    /\ running' = running \cup {p}
    /\ UNCHANGED <<outbox, hooks, free, suspended, hand, result, reachable, announced, kills,
                   downtimes, accepted, refused>>

ReceiversDown ==
    /\ reachable /\ downtimes < MaxDowntimes
    /\ reachable' = FALSE /\ downtimes' = downtimes + 1
    /\ UNCHANGED <<outbox, hooks, free, suspended, hand, result, running, announced, kills,
                   accepted, refused>>

ReceiversUp ==
    /\ ~ reachable /\ reachable' = TRUE
    /\ UNCHANGED <<outbox, hooks, free, suspended, hand, result, running, announced, kills,
                   downtimes, accepted, refused>>

Ids == 1..MaxRows

OutboxNext ==
    \/ \E e \in Transition : Emit(e)
    \/ \E u \in User : SuspendUser(u)
    \/ \E h \in Hook : CreateHook(h) \/ DeleteHook(h)
    \/ \E t \in Thread : LoopClaim(t) \/ DeliverOne(t) \/ Mark(t)
    \/ \E t \in Thread, h \in Hook : TestHook(t, h)
    \/ \E i \in Ids : BackoffElapses(i) \/ ClaimAges(i)
    \/ \E p \in Replica : Kill(p) \/ Restart(p)
    \/ ReceiversDown \/ ReceiversUp

\* Every delivery thread of a process that is up keeps running, its sends time out,
\* and time passes.  Nothing promises that a killed process comes back.
Fairness ==
    /\ \A t \in Thread : /\ WF_outboxVars(LoopClaim(t)) /\ WF_outboxVars(DeliverOne(t))
                        /\ WF_outboxVars(Mark(t))
    /\ \A i \in Ids : WF_outboxVars(BackoffElapses(i)) /\ WF_outboxVars(ClaimAges(i))

OutboxSpec == OutboxInit /\ [][OutboxNext]_outboxVars /\ Fairness

-----------------------------------------------------------------------------
\* A notification is given up only after max_attempts deliveries of it were tried and
\* refused, and is reported sent only if a receiver took it, although mark_result
\* trusts an attempt count that another worker may have moved since it was read.
OutcomeIsTrue ==
    \A i \in DOMAIN outbox :
        /\ outbox[i].status = "failed" => refused[i] = MaxAttempts
        /\ outbox[i].status = "sent" => i \in accepted

\* As long as some process stays up, every notification queued is in the end either
\* sent or given up, for good: a claim whose worker died is taken over, a late result
\* that throws a sent row back into the queue does so finitely often.
Settled(i) ==
    i \in DOMAIN outbox => outbox[i].status \in {"sent", "failed", "skipped_no_smtp"}

EventuallySettled == \A i \in Ids : <>[]Settled(i)

\* claim_pending's promise: "two replicas can't both deliver a row".
OneDeliverer ==
    \A s, t \in Thread :
        ProcOf[s] # ProcOf[t] =>
            \A h \in Foremost(hand[s]), g \in Foremost(hand[t]) : h.id # g.id
=============================================================================
