--------------------------- MODULE WebhookDelivery ---------------------------
(***************************************************************************)
(* Outgoing webhooks.  WebhooksService writes one WebhookDelivery row per  *)
(* subscribed endpoint and queues a Bull job for it; the processor posts   *)
(* the event, counts failures in the row and queues the next attempt as a  *)
(* new, delayed job.  The row is in PostgreSQL, the jobs are in Redis, and *)
(* nothing ties the two together.                                          *)
(***************************************************************************)
EXTENDS Naturals, FiniteSets

CONSTANTS Workers,      \* jobs the processor runs at once (concurrency)
          Events,       \* calls of dispatch or sendTest
          Endpoints,
          NoDelivery,
          MaxAttempts,  \* MAX_ATTEMPTS, 5 in the code
          MaxFaults     \* bound: crashes, refused statements and lost answers

Deliveries == Events \X Endpoints

ASSUME DeliveryAssumption ==
  /\ NoDelivery \notin Deliveries
  /\ MaxAttempts \in Nat \ {0} /\ MaxFaults \in Nat
  /\ IsFiniteSet(Workers)

VARIABLES
  active,    \* endpoints that are isActive
  todo,      \* per event: the endpoints its dispatch has read and not yet served
  dpc,       \* per event: the dispatch is new, in its loop, at the queue, or over
  rows,      \* WebhookDelivery: whether it exists, attemptCount, deliveredAt
  jobs,      \* waiting and delayed jobs per delivery
  posts,     \* history: requests made, and whether one was answered 2xx
  faults,    \* history: how often something failed
  pc, loc    \* per worker: the await it stands at, its delivery and what it read

vars == <<active, todo, dpc, rows, jobs, posts, faults, pc, loc>>

NoRow == [exists |-> FALSE, attempts |-> 0, delivered |-> FALSE]
Free  == [d |-> NoDelivery, read |-> 0, caught |-> FALSE]

Init ==
  /\ active = Endpoints
  /\ todo = [e \in Events |-> {}]
  /\ dpc = [e \in Events |-> "new"]
  /\ rows = [d \in Deliveries |-> NoRow]
  /\ jobs = [d \in Deliveries |-> 0]
  /\ posts = [d \in Deliveries |-> [sent |-> 0, accepted |-> FALSE]]
  /\ faults = 0
  /\ pc = [w \in Workers |-> "idle"]
  /\ loc = [w \in Workers |-> Free]

Fault == faults < MaxFaults /\ faults' = faults + 1

-----------------------------------------------------------------------------
(* WebhooksService.                                                        *)

\* dispatch reads the endpoints that are active and subscribed to the event;
\* sendTest reads one of them.
DispatchRead(e, subscribed) ==
  /\ dpc[e] = "new"
  /\ todo' = [todo EXCEPT ![e] = subscribed \cap active]
  /\ dpc' = [dpc EXCEPT ![e] = IF subscribed \cap active = {} THEN "over" ELSE "loop"]
  /\ UNCHANGED <<active, rows, jobs, posts, faults, pc, loc>>

DispatchCreate(e, ep) ==
  /\ dpc[e] = "loop"
  /\ ep \in todo[e]
  /\ rows' = [rows EXCEPT ![<<e, ep>>] = [NoRow EXCEPT !.exists = TRUE]]
  /\ dpc' = [dpc EXCEPT ![e] = "queue"]
  /\ UNCHANGED <<active, todo, jobs, posts, faults, pc, loc>>

DispatchQueue(e, ep) ==
  /\ dpc[e] = "queue"
  /\ ep \in todo[e] /\ rows[<<e, ep>>].exists
  /\ jobs' = [jobs EXCEPT ![<<e, ep>>] = @ + 1]
  /\ todo' = [todo EXCEPT ![e] = @ \ {ep}]
  /\ dpc' = [dpc EXCEPT ![e] = IF todo[e] = {ep} THEN "over" ELSE "loop"]
  /\ UNCHANGED <<active, rows, posts, faults, pc, loc>>

\* An error or a crash ends the loop: a row may stay without its job.
DispatchFail(e) ==
  /\ dpc[e] \in {"loop", "queue"}
  /\ Fault
  /\ dpc' = [dpc EXCEPT ![e] = "over"]
  /\ UNCHANGED <<active, todo, rows, jobs, posts, pc, loc>>

DeactivateEndpoint(ep) ==
  /\ ep \in active
  /\ active' = active \ {ep}
  /\ UNCHANGED <<todo, dpc, rows, jobs, posts, faults, pc, loc>>

-----------------------------------------------------------------------------
(* WebhookDeliveryProcessor.handle.                                        *)

Work(w, at, l) == /\ pc'  = [pc  EXCEPT ![w] = at]
                  /\ loc' = [loc EXCEPT ![w] = l]
Done(w) == Work(w, "idle", Free)

\* A delivery that no attempt will be made for any more.
Settled(d) == \/ rows[d].delivered
              \/ rows[d].attempts >= MaxAttempts
              \/ d[2] \notin active

\* Mutation: the early returns look at the endpoint only.
TakeUnchecked(w, d) ==
  /\ pc[w] = "idle"
  /\ jobs[d] > 0
  /\ jobs' = [jobs EXCEPT ![d] = @ - 1]
  /\ IF rows[d].exists /\ d[2] \in active
     THEN Work(w, "post", [Free EXCEPT !.d = d, !.read = rows[d].attempts])
     ELSE UNCHANGED <<pc, loc>>
  /\ UNCHANGED <<active, todo, dpc, rows, posts, faults>>

\* Bull hands a job out, whose delay is over, and the row and its endpoint are read.
Take(w, d) ==
  /\ pc[w] = "idle"
  /\ jobs[d] > 0
  /\ jobs' = [jobs EXCEPT ![d] = @ - 1]
  /\ IF rows[d].exists /\ ~Settled(d)
     THEN Work(w, "post", [Free EXCEPT !.d = d, !.read = rows[d].attempts])
     ELSE UNCHANGED <<pc, loc>>
  /\ UNCHANGED <<active, todo, dpc, rows, posts, faults>>

\* Mutation: any answer below 500 is taken for a delivery.
PostAnyAnswer(w) ==
  /\ pc[w] = "post"
  /\ \E accepted \in BOOLEAN :
       /\ posts' = [posts EXCEPT ![loc[w].d].sent = @ + 1,
                                 ![loc[w].d].accepted = @ \/ accepted]
       /\ \/ Work(w, "save", loc[w])
          \/ Work(w, "count", [loc[w] EXCEPT !.caught = TRUE])
  /\ UNCHANGED <<active, todo, dpc, rows, jobs, faults>>

\* The request: a 2xx, another status, or an exception, after which the receiver may
\* have accepted the event all the same.
Post(w) ==
  /\ pc[w] = "post"
  /\ \E accepted \in BOOLEAN :
       /\ posts' = [posts EXCEPT ![loc[w].d].sent = @ + 1,
                                 ![loc[w].d].accepted = @ \/ accepted]
       /\ \/ accepted /\ Work(w, "save", loc[w])
          \/ ~accepted /\ Work(w, "count", loc[w])
          \/ Work(w, "count", [loc[w] EXCEPT !.caught = TRUE])
  /\ UNCHANGED <<active, todo, dpc, rows, jobs, faults>>

\* Mutation: handle goes on to count after it has saved.
SaveAndGoOn(w) ==
  /\ pc[w] = "save"
  /\ rows' = [rows EXCEPT ![loc[w].d].delivered = TRUE]
  /\ Work(w, "count", loc[w])
  /\ UNCHANGED <<active, todo, dpc, jobs, posts, faults>>

SaveDelivered(w) ==
  /\ pc[w] = "save"
  /\ rows' = [rows EXCEPT ![loc[w].d].delivered = TRUE]
  /\ Done(w)
  /\ UNCHANGED <<active, todo, dpc, jobs, posts, faults>>

\* Mutation: a failure is counted and the retry is left to Bull, which makes none.
CountOnce(w) ==
  /\ pc[w] = "count"
  /\ rows' = [rows EXCEPT ![loc[w].d].attempts = loc[w].read + 1]
  /\ Done(w)
  /\ UNCHANGED <<active, todo, dpc, jobs, posts, faults>>

\* failAndMaybeRetry counts on from the row as it was read before the request.
CountFailure(w) ==
  /\ pc[w] = "count"
  /\ rows' = [rows EXCEPT ![loc[w].d].attempts = loc[w].read + 1]
  /\ IF loc[w].read + 1 < MaxAttempts THEN Work(w, "requeue", loc[w]) ELSE Done(w)
  /\ UNCHANGED <<active, todo, dpc, jobs, posts, faults>>

\* Mutation: the retry is queued under the delivery's id, which Bull still knows.
RequeueSameId(w) ==
  /\ pc[w] = "requeue"
  /\ Done(w)
  /\ UNCHANGED <<active, todo, dpc, rows, jobs, posts, faults>>

Requeue(w) ==
  /\ pc[w] = "requeue"
  /\ jobs' = [jobs EXCEPT ![loc[w].d] = @ + 1]
  /\ Done(w)
  /\ UNCHANGED <<active, todo, dpc, rows, posts, faults>>

\* A statement or queue.add throws, and may have taken effect.  Inside the try the
\* catch counts the failure again; in the catch the job fails for good.
Throw(w) ==
  /\ pc[w] \in {"save", "count", "requeue"}
  /\ Fault
  /\ IF loc[w].caught THEN Done(w) ELSE Work(w, "count", [loc[w] EXCEPT !.caught = TRUE])
  /\ \/ UNCHANGED <<rows, jobs>>
     \/ pc[w] = "save" /\ UNCHANGED jobs
        /\ rows' = [rows EXCEPT ![loc[w].d].delivered = TRUE]
     \/ pc[w] = "count" /\ UNCHANGED jobs
        /\ rows' = [rows EXCEPT ![loc[w].d].attempts = loc[w].read + 1]
     \/ pc[w] = "requeue" /\ UNCHANGED rows
        /\ jobs' = [jobs EXCEPT ![loc[w].d] = @ + 1]
  /\ UNCHANGED <<active, todo, dpc, posts>>

\* The process dies.  Bull finds the job stalled and hands it out again, or fails it
\* when it has stalled before.
Crash(w) ==
  /\ pc[w] # "idle"
  /\ Fault
  /\ jobs' \in {jobs, [jobs EXCEPT ![loc[w].d] = @ + 1]}
  /\ Done(w)
  /\ UNCHANGED <<active, todo, dpc, rows, posts>>

-----------------------------------------------------------------------------
Dispatch(e) == \/ \E s \in SUBSET Endpoints : DispatchRead(e, s)
               \/ \E ep \in Endpoints : DispatchCreate(e, ep) \/ DispatchQueue(e, ep)
               \/ DispatchFail(e)
Process(w)  == \/ Post(w) \/ SaveDelivered(w) \/ CountFailure(w) \/ Requeue(w)
               \/ Throw(w) \/ Crash(w)

Next == \/ \E e \in Events : Dispatch(e)
        \/ \E w \in Workers : Process(w) \/ \E d \in Deliveries : Take(w, d)
        \/ \E ep \in Endpoints : DeactivateEndpoint(ep)

Spec == Init /\ [][Next]_vars

\* Awaits end, and Bull hands every waiting job to a worker at some time.
Fairness ==
  /\ \A w \in Workers : WF_vars(Process(w))
  /\ \A d \in Deliveries : SF_vars(\E w \in Workers : Take(w, d))

FairSpec == Spec /\ Fairness

-----------------------------------------------------------------------------
(* Properties.                                                             *)

\* The shape of the rows, of the queue and of the processor.
TypeOK ==
  /\ active \in SUBSET Endpoints
  /\ todo \in [Events -> SUBSET Endpoints]
  /\ dpc \in [Events -> {"new", "loop", "queue", "over"}]
  /\ rows \in [Deliveries -> [exists : BOOLEAN, attempts : 0..MaxAttempts, delivered : BOOLEAN]]
  /\ jobs \in [Deliveries -> Nat]
  /\ posts \in [Deliveries -> [sent : Nat, accepted : BOOLEAN]]
  /\ faults \in 0..MaxFaults
  /\ pc \in [Workers -> {"idle", "post", "save", "count", "requeue"}]
  /\ loc \in [Workers -> [d : Deliveries \cup {NoDelivery}, read : 0..MaxAttempts,
                          caught : BOOLEAN]]

On(d) == {w \in Workers : loc[w].d = d}
Queueing(d) == dpc[d[1]] = "queue" /\ d[2] \in todo[d[1]]

\* Without faults a delivery is in one place at a time, its dispatch, the queue or a
\* worker, so that no two attempts overlap; and until it is delivered, used up or its
\* endpoint deactivated it is in one of them: nothing is forgotten and nothing doubled.
OneCarrier ==
  faults = 0 =>
    \A d \in Deliveries :
      LET carriers == jobs[d] + Cardinality(On(d)) IN
      /\ carriers <= 1
      /\ rows[d].exists /\ ~Settled(d) => carriers = 1 \/ Queueing(d)

\* Without faults the row counts exactly the requests that failed: there are never more
\* requests than MAX_ATTEMPTS and none follows the one that was delivered.
AttemptsCountPosts ==
  faults = 0 =>
    \A d \in Deliveries :
      posts[d].sent = rows[d].attempts
                      + Cardinality({w \in On(d) : pc[w] \in {"save", "count"}})
                      + IF rows[d].delivered THEN 1 ELSE 0

\* A row says delivered only when the receiver has accepted the event, whatever
\* crashes, lost answers and repeated jobs there are.
DeliveredIsAccepted == \A d \in Deliveries : rows[d].delivered => posts[d].accepted

\* A queued delivery is delivered, used up or deactivated in the end, unless something
\* fails.
DeliveryEnds == \A d \in Deliveries : jobs[d] > 0 ~> Settled(d) \/ faults > 0
=============================================================================
