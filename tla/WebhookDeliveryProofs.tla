------------------------ MODULE WebhookDeliveryProofs ------------------------
(***************************************************************************)
(* Outgoing webhooks, for any events, endpoints, workers and attempts.     *)
(* Whatever fails, a row says delivered only of an event that was          *)
(* accepted; and while nothing has failed a delivery has one carrier and   *)
(* its row counts its requests.  For the latter Carried adds to the two    *)
(* properties what a worker relies on between reading the row and writing  *)
(* it, and what the dispatch relies on between the rows and the queue.     *)
(***************************************************************************)
EXTENDS WebhookDelivery, FiniteSetTheorems, TLAPS

Awaits == {"idle", "post", "save", "count", "requeue"}
Rows   == [exists : BOOLEAN, attempts : 0..MaxAttempts, delivered : BOOLEAN]
Locs   == [d : Deliveries \cup {NoDelivery}, read : 0..MaxAttempts, caught : BOOLEAN]

\* A worker that is not idle has a delivery it has read with an attempt left.
WorkersOK ==
  \A w \in Workers :
    /\ pc[w] = "idle" => loc[w].d = NoDelivery
    /\ pc[w] # "idle" => loc[w].d \in Deliveries /\ loc[w].read < MaxAttempts

\* A success that will be saved has happened.
SavesAccepted == \A w \in Workers : pc[w] = "save" => posts[loc[w].d].accepted

Base == TypeOK /\ WorkersOK /\ SavesAccepted /\ DeliveredIsAccepted

LEMMA Start == Init => Base
BY DeliveryAssumption DEF Init, Base, TypeOK, WorkersOK, SavesAccepted, DeliveredIsAccepted,
   NoRow, Free

LEMMA Works ==
  ASSUME TypeOK, NEW w \in Workers, NEW at \in Awaits,
         NEW l \in Locs, Work(w, at, l)
  PROVE  /\ pc' \in [Workers -> Awaits]
         /\ loc' \in [Workers -> Locs]
         /\ pc'[w] = at /\ loc'[w] = l
         /\ \A v \in Workers \ {w} : pc'[v] = pc[v] /\ loc'[v] = loc[v]
BY DEF TypeOK, Work, Awaits, Locs

LEMMA FreeOK ==
  Free \in Locs
BY DeliveryAssumption DEF Free, Locs

LEMMA FaultOK == TypeOK /\ Fault => faults' \in 0..MaxFaults /\ faults' # 0
BY DeliveryAssumption DEF TypeOK, Fault

\* The steps of the dispatch and of an administrator touch no worker and no history.
LEMMA DispatchKeepsBase ==
  ASSUME Base,
         \/ \E e \in Events : Dispatch(e)
         \/ \E ep \in Endpoints : DeactivateEndpoint(ep)
  PROVE  Base'
<1>1. UNCHANGED <<posts, pc, loc>>
  BY DEF Dispatch, DispatchRead, DispatchCreate, DispatchQueue, DispatchFail, DeactivateEndpoint
<1>2. TypeOK'
  <2>1. ASSUME NEW e \in Events, NEW s \in SUBSET Endpoints, DispatchRead(e, s)
        PROVE  TypeOK'
    BY <2>1 DEF Base, TypeOK, DispatchRead
  <2>2. ASSUME NEW e \in Events, NEW ep \in Endpoints, DispatchCreate(e, ep)
        PROVE  TypeOK'
    <3>1. <<e, ep>> \in Deliveries
      BY DEF Deliveries
    <3>2. [NoRow EXCEPT !.exists = TRUE] \in Rows
      <4>1. NoRow \in Rows
        BY DeliveryAssumption DEF NoRow, Rows
      <4> QED BY <4>1 DEF Rows
    <3>3. rows' \in [Deliveries -> Rows]
      BY <2>2, <3>1, <3>2 DEF Base, TypeOK, DispatchCreate, Rows
    <3>4. dpc' \in [Events -> {"new", "loop", "queue", "over"}]
      BY <2>2 DEF Base, TypeOK, DispatchCreate
    <3>5. UNCHANGED <<active, todo, jobs, posts, faults, pc, loc>>
      BY <2>2 DEF DispatchCreate
    <3> QED BY <3>3, <3>4, <3>5 DEF Base, TypeOK, Rows
  <2>3. ASSUME NEW e \in Events, NEW ep \in Endpoints, DispatchQueue(e, ep)
        PROVE  TypeOK'
    BY <2>3 DEF Base, TypeOK, DispatchQueue, Deliveries
  <2>4. ASSUME NEW e \in Events, DispatchFail(e)
        PROVE  TypeOK'
    BY <2>4, FaultOK DEF Base, TypeOK, DispatchFail
  <2>5. ASSUME NEW ep \in Endpoints, DeactivateEndpoint(ep)
        PROVE  TypeOK'
    BY <2>5 DEF Base, TypeOK, DeactivateEndpoint
  <2> QED BY <2>1, <2>2, <2>3, <2>4, <2>5 DEF Dispatch
<1>3. \A d \in Deliveries : rows'[d].delivered => rows[d].delivered
  <2>1. ASSUME NEW e \in Events, NEW ep \in Endpoints, DispatchCreate(e, ep)
        PROVE  \A d \in Deliveries : rows'[d].delivered => rows[d].delivered
    BY <2>1 DEF Base, TypeOK, DispatchCreate, NoRow
  <2> QED BY <2>1 DEF Dispatch, DispatchRead, DispatchQueue, DispatchFail, DeactivateEndpoint
<1> QED BY <1>1, <1>2, <1>3 DEF Base, WorkersOK, SavesAccepted, DeliveredIsAccepted

LEMMA TakeKeepsBase ==
  ASSUME Base, NEW w \in Workers, NEW d \in Deliveries, Take(w, d)
  PROVE  Base'
<1>1. /\ UNCHANGED <<active, todo, dpc, rows, posts, faults>>
      /\ jobs' = [jobs EXCEPT ![d] = @ - 1] /\ jobs[d] > 0
  BY DEF Take
<1>2. jobs' \in [Deliveries -> Nat]
  BY <1>1 DEF Base, TypeOK
<1>3. CASE rows[d].exists /\ ~Settled(d)
  <2> DEFINE l == [Free EXCEPT !.d = d, !.read = rows[d].attempts]
  <2>1. Work(w, "post", l)
    BY <1>3 DEF Take
  <2>2. /\ l.d = d /\ l.read < MaxAttempts
        /\ l \in Locs
    <3>1. rows[d].attempts \in 0..MaxAttempts /\ rows[d].attempts < MaxAttempts
      BY <1>3, DeliveryAssumption DEF Base, TypeOK, Settled
    <3>2. l \in Locs /\ l.d = d /\ l.read = rows[d].attempts
      BY <3>1, FreeOK DEF Locs
    <3> QED BY <3>1, <3>2
  <2> HIDE DEF l
  <2>3. /\ pc' \in [Workers -> Awaits]
        /\ loc' \in [Workers -> Locs]
        /\ pc'[w] = "post" /\ loc'[w] = l
        /\ \A v \in Workers \ {w} : pc'[v] = pc[v] /\ loc'[v] = loc[v]
    BY <2>1, <2>2, Works DEF Base, Awaits
  <2> QED BY <1>1, <1>2, <2>2, <2>3
          DEF Base, TypeOK, WorkersOK, SavesAccepted, DeliveredIsAccepted, Awaits, Locs
<1>4. CASE ~(rows[d].exists /\ ~Settled(d))
  <2>1. UNCHANGED <<pc, loc>>
    BY <1>4 DEF Take
  <2> QED BY <1>1, <1>2, <2>1 DEF Base, TypeOK, WorkersOK, SavesAccepted, DeliveredIsAccepted
<1> QED BY <1>3, <1>4

\* What a worker's step must show: its own await is in order, no acceptance is taken
\* back, and a row says delivered only of what was accepted.
LEMMA WorkKeepsBase ==
  ASSUME Base, NEW w \in Workers, NEW at \in Awaits, NEW l \in Locs, Work(w, at, l),
         UNCHANGED <<active, todo, dpc>>,
         rows' \in [Deliveries -> Rows], jobs' \in [Deliveries -> Nat],
         posts' \in [Deliveries -> [sent : Nat, accepted : BOOLEAN]],
         faults' \in 0..MaxFaults,
         at = "idle" => l.d = NoDelivery,
         at # "idle" => l.d \in Deliveries /\ l.read < MaxAttempts,
         at = "save" => posts'[l.d].accepted,
         \A d \in Deliveries : posts[d].accepted => posts'[d].accepted,
         \A d \in Deliveries : rows'[d].delivered => rows[d].delivered \/ posts'[d].accepted
  PROVE  Base'
<1>1. /\ pc' \in [Workers -> Awaits]
      /\ loc' \in [Workers -> Locs]
      /\ pc'[w] = at /\ loc'[w] = l
      /\ \A v \in Workers \ {w} : pc'[v] = pc[v] /\ loc'[v] = loc[v]
  BY Works DEF Base
<1>2. TypeOK'
  BY <1>1 DEF Base, TypeOK, Awaits, Locs, Rows
<1>3. WorkersOK'
  BY <1>1 DEF Base, WorkersOK
<1>4. SavesAccepted'
  BY <1>1 DEF Base, SavesAccepted, WorkersOK
<1>5. DeliveredIsAccepted'
  BY DEF Base, DeliveredIsAccepted
<1> QED BY <1>2, <1>3, <1>4, <1>5 DEF Base

\* What a worker has in hand.
LEMMA InHands ==
  ASSUME Base, NEW w \in Workers, pc[w] # "idle"
  PROVE  /\ loc[w].d \in Deliveries /\ loc[w].read \in 0..MaxAttempts
         /\ loc[w].read < MaxAttempts /\ loc[w] \in Locs
         /\ [loc[w] EXCEPT !.caught = TRUE] \in Locs
         /\ [loc[w] EXCEPT !.caught = TRUE].d = loc[w].d
         /\ [loc[w] EXCEPT !.caught = TRUE].read = loc[w].read
         /\ loc[w].read + 1 \in 0..MaxAttempts
<1>1. loc[w] \in Locs
  BY DEF Base, TypeOK, Locs
<1>2. loc[w].d \in Deliveries /\ loc[w].read < MaxAttempts
  BY DEF Base, WorkersOK
<1>3. loc[w].read \in 0..MaxAttempts
  BY <1>1 DEF Locs
<1>4. loc[w].read + 1 \in 0..MaxAttempts
  BY <1>2, <1>3, DeliveryAssumption
<1>5. /\ [loc[w] EXCEPT !.caught = TRUE] \in Locs
      /\ [loc[w] EXCEPT !.caught = TRUE].d = loc[w].d
      /\ [loc[w] EXCEPT !.caught = TRUE].read = loc[w].read
  BY <1>1 DEF Locs
<1> QED BY <1>1, <1>2, <1>3, <1>4, <1>5

LEMMA PostKeepsBase ==
  ASSUME Base, NEW w \in Workers, Post(w)
  PROVE  Base'
<1> DEFINE c == loc[w].d
<1>1. PICK accepted \in BOOLEAN :
        /\ posts' = [posts EXCEPT ![c].sent = @ + 1, ![c].accepted = @ \/ accepted]
        /\ \/ accepted /\ Work(w, "save", loc[w])
           \/ ~accepted /\ Work(w, "count", loc[w])
           \/ Work(w, "count", [loc[w] EXCEPT !.caught = TRUE])
  BY DEF Post
<1>2. /\ pc[w] = "post" /\ UNCHANGED <<active, todo, dpc, rows, jobs, faults>>
      /\ rows' \in [Deliveries -> Rows] /\ jobs' \in [Deliveries -> Nat]
      /\ faults' \in 0..MaxFaults
  BY DEF Post, Base, TypeOK, Rows
<1>3. c \in Deliveries
  BY <1>2, InHands
<1>4. /\ posts' \in [Deliveries -> [sent : Nat, accepted : BOOLEAN]]
      /\ posts'[c].accepted = (posts[c].accepted \/ accepted)
      /\ \A d \in Deliveries \ {c} : posts'[d] = posts[d]
  <2> HIDE DEF c
  <2>1. posts \in [Deliveries -> [sent : Nat, accepted : BOOLEAN]]
    BY DEF Base, TypeOK
  <2>2. posts[c].sent \in Nat /\ posts[c].sent + 1 \in Nat
    BY <1>3, <2>1
  <2>3. (posts[c].accepted \/ accepted) \in BOOLEAN
    OBVIOUS
  <2> DEFINE p == [posts[c] EXCEPT !.sent = posts[c].sent + 1,
                                   !.accepted = posts[c].accepted \/ accepted]
  <2>4. p \in [sent : Nat, accepted : BOOLEAN] /\ p.accepted = (posts[c].accepted \/ accepted)
    BY <1>3, <2>1, <2>2, <2>3
  <2>5. posts' = [posts EXCEPT ![c] = p]
    BY <1>1, <1>3, <2>1
  <2> HIDE DEF p
  <2> QED BY <1>3, <2>1, <2>4, <2>5
<1>5. \A d \in Deliveries : posts[d].accepted => posts'[d].accepted
  BY <1>4
<1>6. \A d \in Deliveries : rows'[d].delivered => rows[d].delivered \/ posts'[d].accepted
  BY <1>2
<1>7. CASE accepted /\ Work(w, "save", loc[w])
  BY <1>2, <1>3, <1>4, <1>5, <1>6, <1>7, InHands, WorkKeepsBase DEF Awaits
<1>8. CASE Work(w, "count", loc[w])
  BY <1>2, <1>3, <1>4, <1>5, <1>6, <1>8, InHands, WorkKeepsBase DEF Awaits
<1>9. CASE Work(w, "count", [loc[w] EXCEPT !.caught = TRUE])
  BY <1>2, <1>3, <1>4, <1>5, <1>6, <1>9, InHands, WorkKeepsBase DEF Awaits
<1> QED BY <1>1, <1>7, <1>8, <1>9

LEMMA Zero == 0 \in 0..MaxAttempts
BY DeliveryAssumption

\* Storing a success or a count, and putting a job back, keep the rows' and queue's type.
LEMMA StoreSuccess ==
  ASSUME Base, NEW c \in Deliveries
  PROVE  /\ [rows EXCEPT ![c].delivered = TRUE] \in [Deliveries -> Rows]
         /\ \A d \in Deliveries : d # c => [rows EXCEPT ![c].delivered = TRUE][d] = rows[d]
<1>1. rows \in [Deliveries -> Rows]
  BY DEF Base, TypeOK, Rows
<1>2. [rows[c] EXCEPT !.delivered = TRUE] \in Rows
  BY <1>1 DEF Rows
<1> QED BY <1>1, <1>2

LEMMA StoreCount ==
  ASSUME Base, NEW c \in Deliveries, NEW n \in 0..MaxAttempts
  PROVE  /\ [rows EXCEPT ![c].attempts = n] \in [Deliveries -> Rows]
         /\ \A d \in Deliveries :
              [rows EXCEPT ![c].attempts = n][d].delivered = rows[d].delivered
<1>1. rows \in [Deliveries -> Rows]
  BY DEF Base, TypeOK, Rows
<1>2. /\ [rows[c] EXCEPT !.attempts = n] \in Rows
      /\ [rows[c] EXCEPT !.attempts = n].delivered = rows[c].delivered
  BY <1>1 DEF Rows
<1> QED BY <1>1, <1>2

LEMMA StoreJob ==
  ASSUME Base, NEW c \in Deliveries
  PROVE  [jobs EXCEPT ![c] = @ + 1] \in [Deliveries -> Nat]
BY DEF Base, TypeOK

LEMMA SaveKeepsBase ==
  ASSUME Base, NEW w \in Workers, SaveDelivered(w)
  PROVE  Base'
<1>1. /\ pc[w] = "save" /\ Work(w, "idle", Free)
      /\ rows' = [rows EXCEPT ![loc[w].d].delivered = TRUE]
      /\ UNCHANGED <<active, todo, dpc, jobs, posts, faults>>
  BY DEF SaveDelivered, Done
<1>2. /\ loc[w].d \in Deliveries /\ posts[loc[w].d].accepted /\ Free.d = NoDelivery
      /\ 0 \in 0..MaxAttempts
  BY <1>1, InHands, Zero DEF Base, SavesAccepted, Free
<1>3. rows' \in [Deliveries -> Rows] /\ \A d \in Deliveries : d # loc[w].d => rows'[d] = rows[d]
  BY <1>1, <1>2, StoreSuccess
<1>4. /\ jobs' \in [Deliveries -> Nat] /\ faults' \in 0..MaxFaults
      /\ posts' \in [Deliveries -> [sent : Nat, accepted : BOOLEAN]]
  BY <1>1 DEF Base, TypeOK
<1> QED BY <1>1, <1>2, <1>3, <1>4, FreeOK, WorkKeepsBase DEF Awaits

LEMMA CountKeepsBase ==
  ASSUME Base, NEW w \in Workers, CountFailure(w)
  PROVE  Base'
<1>1. /\ pc[w] = "count"
      /\ rows' = [rows EXCEPT ![loc[w].d].attempts = loc[w].read + 1]
      /\ Work(w, "requeue", loc[w]) \/ Work(w, "idle", Free)
      /\ UNCHANGED <<active, todo, dpc, jobs, posts, faults>>
  BY DEF CountFailure, Done
<1>2. /\ loc[w].d \in Deliveries /\ loc[w].read + 1 \in 0..MaxAttempts /\ Free.d = NoDelivery
      /\ loc[w] \in Locs /\ loc[w].read < MaxAttempts
  BY <1>1, InHands DEF Free
<1>3. /\ rows' \in [Deliveries -> Rows]
      /\ \A d \in Deliveries : rows'[d].delivered = rows[d].delivered
  BY <1>1, <1>2, StoreCount
<1>4. /\ jobs' \in [Deliveries -> Nat] /\ faults' \in 0..MaxFaults
      /\ posts' \in [Deliveries -> [sent : Nat, accepted : BOOLEAN]]
  BY <1>1 DEF Base, TypeOK
<1>5. CASE Work(w, "requeue", loc[w])
  BY <1>1, <1>2, <1>3, <1>4, <1>5, WorkKeepsBase DEF Awaits
<1>6. CASE Work(w, "idle", Free)
  BY <1>1, <1>2, <1>3, <1>4, <1>6, FreeOK, WorkKeepsBase DEF Awaits
<1> QED BY <1>1, <1>5, <1>6

\* A worker that lets go of its job, whatever becomes of the job.
LEMMA LettingGoKeepsBase ==
  ASSUME Base, NEW w \in Workers, Work(w, "idle", Free),
         UNCHANGED <<active, todo, dpc, rows, posts>>,
         jobs' \in [Deliveries -> Nat], faults' \in 0..MaxFaults
  PROVE  Base'
<1>1. /\ rows' \in [Deliveries -> Rows] /\ Free.d = NoDelivery
      /\ posts' \in [Deliveries -> [sent : Nat, accepted : BOOLEAN]]
  BY DEF Base, TypeOK, Rows, Free
<1> QED BY <1>1, FreeOK, WorkKeepsBase DEF Awaits

LEMMA RequeueKeepsBase ==
  ASSUME Base, NEW w \in Workers, Requeue(w)
  PROVE  Base'
<1>1. loc[w].d \in Deliveries
  BY InHands DEF Requeue
<1>2. jobs' \in [Deliveries -> Nat]
  BY <1>1, StoreJob DEF Requeue
<1> QED BY <1>2, LettingGoKeepsBase DEF Requeue, Done, Base, TypeOK

LEMMA CrashKeepsBase ==
  ASSUME Base, NEW w \in Workers, Crash(w)
  PROVE  Base'
<1>1. loc[w].d \in Deliveries
  BY InHands DEF Crash
<1>2. jobs' \in [Deliveries -> Nat]
  BY <1>1, StoreJob DEF Crash, Base, TypeOK
<1>3. faults' \in 0..MaxFaults
  BY FaultOK DEF Crash, Base
<1> QED BY <1>2, <1>3, LettingGoKeepsBase DEF Crash, Done

LEMMA ThrowKeepsBase ==
  ASSUME Base, NEW w \in Workers, Throw(w)
  PROVE  Base'
<1> DEFINE c == loc[w].d
           l == [loc[w] EXCEPT !.caught = TRUE]
<1>1. /\ pc[w] \in {"save", "count", "requeue"}
      /\ Work(w, "idle", Free) \/ Work(w, "count", l)
      /\ UNCHANGED <<active, todo, dpc, posts>>
  BY DEF Throw, Done
<1>2. /\ c \in Deliveries /\ loc[w].read + 1 \in 0..MaxAttempts /\ Free.d = NoDelivery
      /\ l \in Locs /\ l.d = c /\ l.read < MaxAttempts
  BY <1>1, InHands DEF Free
<1>3. /\ faults' \in 0..MaxFaults
      /\ posts' \in [Deliveries -> [sent : Nat, accepted : BOOLEAN]]
  BY <1>1, FaultOK DEF Throw, Base, TypeOK
<1>4. /\ rows' \in [Deliveries -> Rows] /\ jobs' \in [Deliveries -> Nat]
      /\ \A d \in Deliveries : rows'[d].delivered => rows[d].delivered \/ posts'[d].accepted
  <2>1. CASE UNCHANGED <<rows, jobs>>
    BY <2>1 DEF Base, TypeOK, Rows
  <2>2. CASE pc[w] = "save" /\ UNCHANGED jobs /\ rows' = [rows EXCEPT ![c].delivered = TRUE]
    <3>1. posts[c].accepted /\ jobs \in [Deliveries -> Nat]
      BY <2>2 DEF Base, SavesAccepted, TypeOK
    <3>2. /\ rows' \in [Deliveries -> Rows]
            /\ \A d \in Deliveries : d # c => rows'[d] = rows[d]
        BY <1>2, <2>2, StoreSuccess
      <3> QED BY <1>1, <2>2, <3>1, <3>2
  <2>3. CASE UNCHANGED jobs /\ rows' = [rows EXCEPT ![c].attempts = loc[w].read + 1]
    <3>1. jobs \in [Deliveries -> Nat]
      BY DEF Base, TypeOK
    <3>2. /\ rows' \in [Deliveries -> Rows]
            /\ \A d \in Deliveries : rows'[d].delivered = rows[d].delivered
        BY <1>2, <2>3, StoreCount
      <3> QED BY <2>3, <3>1, <3>2
  <2>4. CASE UNCHANGED rows /\ jobs' = [jobs EXCEPT ![c] = @ + 1]
    <3>1. rows \in [Deliveries -> Rows]
      BY DEF Base, TypeOK, Rows
    <3> QED BY <1>2, <2>4, <3>1, StoreJob
  <2> QED BY <2>1, <2>2, <2>3, <2>4 DEF Throw
<1> HIDE DEF c, l
<1>5. CASE Work(w, "idle", Free)
  BY <1>1, <1>2, <1>3, <1>4, <1>5, FreeOK, WorkKeepsBase DEF Awaits
<1>6. CASE Work(w, "count", l)
  BY <1>1, <1>2, <1>3, <1>4, <1>6, WorkKeepsBase DEF Awaits
<1> QED BY <1>1, <1>5, <1>6

LEMMA StepKeepsBase == Base /\ [Next]_vars => Base'
<1> SUFFICES ASSUME Base, [Next]_vars PROVE Base'
  OBVIOUS
<1>1. CASE UNCHANGED vars
  BY <1>1 DEF vars, Base, TypeOK, WorkersOK, SavesAccepted, DeliveredIsAccepted
<1>2. ASSUME NEW w \in Workers, Process(w) PROVE Base'
  BY <1>2, PostKeepsBase, SaveKeepsBase, CountKeepsBase, RequeueKeepsBase, ThrowKeepsBase,
     CrashKeepsBase DEF Process
<1> QED BY <1>1, <1>2, DispatchKeepsBase, TakeKeepsBase DEF Next

\* The rows, the queue and the processor keep their shape: in particular a count never
\* passes MAX_ATTEMPTS, whatever crashes, lost answers and repeated jobs there are.
THEOREM Shape == Spec => []TypeOK
BY Start, StepKeepsBase, PTL DEF Spec, Base

\* A row says delivered only of an event its receiver has accepted, in spite of every
\* fault the model has.
THEOREM DeliveredWasAccepted == Spec => []DeliveredIsAccepted
BY Start, StepKeepsBase, PTL DEF Spec, Base

-----------------------------------------------------------------------------
(* While nothing has failed.                                               *)

Held(d) == \E w \in Workers : loc[w].d = d
Posted(w) == pc[w] \in {"save", "count"}

\* A delivery nobody has tried yet.
Untouched(d) == /\ jobs[d] = 0 /\ ~Held(d)
                /\ rows[d].attempts = 0 /\ ~rows[d].delivered /\ posts[d].sent = 0

\* A delivery is one job at most, or in the hands of one worker.
OnePlace(d) == /\ jobs[d] <= 1
               /\ jobs[d] = 1 => ~Held(d)
               /\ \A v, w \in Workers : loc[v].d = d /\ loc[w].d = d => v = w

NotLost(d) == rows[d].exists /\ ~Settled(d) => jobs[d] = 1 \/ Held(d) \/ Queueing(d)

\* What a worker has read is what the row says, and its request is not yet counted.
InHand(d) ==
  \A w \in Workers : loc[w].d = d =>
    /\ ~rows[d].delivered
    /\ pc[w] # "requeue" => rows[d].attempts = loc[w].read
    /\ pc[w] = "requeue" => rows[d].attempts = loc[w].read + 1 /\ rows[d].attempts < MaxAttempts
    /\ Posted(w) => posts[d].sent = rows[d].attempts + 1
    /\ ~Posted(w) => posts[d].sent = rows[d].attempts

Counted(d) == /\ ~Held(d) /\ rows[d].delivered => posts[d].sent = rows[d].attempts + 1
              /\ ~Held(d) /\ ~rows[d].delivered => posts[d].sent = rows[d].attempts

Carried(d) == /\ ~rows[d].exists \/ Queueing(d) => Untouched(d)
              /\ OnePlace(d) /\ NotLost(d) /\ InHand(d) /\ Counted(d)

\* A dispatch makes a row just before it queues it: of the endpoints still to be served
\* one at most has its row.
Dispatched(e) ==
  /\ dpc[e] = "new" => \A a \in Endpoints : ~rows[<<e, a>>].exists
  /\ dpc[e] = "loop" => \A a \in todo[e] : ~rows[<<e, a>>].exists
  /\ dpc[e] = "queue" => \A a, b \in todo[e] :
                           rows[<<e, a>>].exists /\ rows[<<e, b>>].exists => a = b

Tidy == faults = 0 => /\ \A d \in Deliveries : Carried(d)
                      /\ \A e \in Events : Dispatched(e)

IInv == Base /\ Tidy

LEMMA StartsTidy == Init => Tidy
<1> SUFFICES ASSUME Init
             PROVE  /\ \A d \in Deliveries : Carried(d)
                    /\ \A e \in Events : Dispatched(e)
  BY DEF Tidy
<1>1. ASSUME NEW d \in Deliveries PROVE Carried(d)
  <2>1. /\ jobs[d] = 0 /\ posts[d].sent = 0
        /\ rows[d].attempts = 0 /\ ~rows[d].delivered /\ ~rows[d].exists
    BY DEF Init, NoRow
  <2>2. ~Held(d)
    BY DeliveryAssumption DEF Init, Free, Held
  <2> QED BY <2>1, <2>2 DEF Carried, Untouched, OnePlace, NotLost, InHand, Counted, Held
<1>2. ASSUME NEW e \in Events PROVE Dispatched(e)
  BY DEF Init, Dispatched, NoRow, Deliveries
<1> QED BY <1>1, <1>2

\* A step that touches neither the delivery nor its worker.
LEMMA Elsewhere ==
  ASSUME NEW d \in Deliveries, Carried(d),
         UNCHANGED <<active, todo, dpc>>,
         rows'[d] = rows[d], jobs'[d] = jobs[d], posts'[d] = posts[d],
         \A v \in Workers : \/ pc'[v] = pc[v] /\ loc'[v] = loc[v]
                            \/ loc[v].d # d /\ loc'[v].d # d
  PROVE  Carried(d)'
<1>1. (Held(d)' <=> Held(d)) /\ (Queueing(d)' <=> Queueing(d)) /\ (Settled(d)' <=> Settled(d))
  BY DEF Held, Queueing, Settled
<1>2. (OnePlace(d)' <=> OnePlace(d)) /\ (NotLost(d)' <=> NotLost(d)) /\ (Counted(d)' <=> Counted(d))
  BY <1>1 DEF OnePlace, NotLost, Counted
<1>3. InHand(d)'
  BY DEF Carried, InHand, Posted
<1> QED BY <1>1, <1>2, <1>3 DEF Carried, Untouched

\* A step of a worker that makes no row leaves the dispatches as they were.
LEMMA DispatchedStays ==
  ASSUME NEW e \in Events, Dispatched(e), UNCHANGED <<todo, dpc>>, todo[e] \in SUBSET Endpoints,
         \A d \in Deliveries : rows'[d].exists = rows[d].exists
  PROVE  Dispatched(e)'
<1>1. \A a \in Endpoints : rows'[<<e, a>>].exists = rows[<<e, a>>].exists
  BY DEF Deliveries
<1> QED BY <1>1 DEF Dispatched

\* The step of a worker: it remains to look at the delivery in its hands.
LEMMA WorkKeepsTidy ==
  ASSUME Base, Tidy, NEW w \in Workers, NEW at \in Awaits, NEW l \in Locs, Work(w, at, l),
         NEW c \in Deliveries, loc[w].d \in {c, NoDelivery}, l.d \in {c, NoDelivery},
         UNCHANGED <<active, todo, dpc, faults>>,
         \A d \in Deliveries \ {c} :
           rows'[d] = rows[d] /\ jobs'[d] = jobs[d] /\ posts'[d] = posts[d],
         rows'[c].exists = rows[c].exists,
         faults = 0 => Carried(c)'
  PROVE  Tidy'
<1> SUFFICES ASSUME faults = 0
             PROVE  /\ \A d \in Deliveries : Carried(d)'
                    /\ \A e \in Events : Dispatched(e)'
  BY DEF Tidy
<1>1. ASSUME NEW d \in Deliveries \ {c} PROVE Carried(d)'
  <2>1. /\ pc'[w] = at /\ loc'[w] = l
        /\ \A v \in Workers \ {w} : pc'[v] = pc[v] /\ loc'[v] = loc[v]
    BY Works DEF Base
  <2>2. loc[w].d # d /\ l.d # d
    BY DeliveryAssumption
  <2> QED BY <2>1, <2>2, Elsewhere DEF Tidy
<1>2. ASSUME NEW e \in Events PROVE Dispatched(e)'
  BY DispatchedStays DEF Tidy, Base, TypeOK
<1> QED BY <1>1, <1>2

\* What a worker may rely on about the delivery in its hands.
LEMMA Alone ==
  ASSUME Base, Tidy, faults = 0,
         NEW w \in Workers, pc[w] # "idle", NEW c \in Deliveries, c = loc[w].d
  PROVE  /\ Carried(c) /\ rows[c].exists /\ ~Queueing(c)
         /\ jobs[c] = 0 /\ ~rows[c].delivered
         /\ \A v \in Workers \ {w} : loc[v].d # c
<1>1. Carried(c) /\ Held(c)
  BY DEF Tidy, Held
<1>2. jobs[c] \in Nat
  BY DEF Base, TypeOK
<1> QED BY <1>1, <1>2 DEF Carried, Untouched, OnePlace, InHand

\* A worker that lets go leaves its delivery in nobody's hands, and what it wrote last
\* must account for the request and for the next attempt.
LEMMA LetGo ==
  ASSUME Base, Tidy, faults = 0, UNCHANGED <<active, todo, dpc>>,
         NEW w \in Workers, pc[w] # "idle", Work(w, "idle", Free),
         NEW c \in Deliveries, c = loc[w].d,
         rows'[c].exists, jobs'[c] \in {0, 1},
         Settled(c)' \/ jobs'[c] = 1,
         rows'[c].delivered => posts'[c].sent = rows'[c].attempts + 1,
         ~rows'[c].delivered => posts'[c].sent = rows'[c].attempts
  PROVE  Carried(c)'
<1>1. /\ loc'[w] = Free
      /\ \A v \in Workers \ {w} : loc'[v] = loc[v]
  BY Works, FreeOK DEF Base, Awaits
<1>2. c # Free.d
  BY DeliveryAssumption DEF Free
<1>3. ~Held(c)' /\ \A v \in Workers : loc'[v].d # c
  BY <1>1, <1>2, Alone DEF Held
<1>4. ~Queueing(c)'
  BY Alone DEF Queueing
<1>5. InHand(c)'
  BY <1>3 DEF InHand
<1>6. OnePlace(c)' /\ NotLost(c)' /\ Counted(c)'
  BY <1>3 DEF OnePlace, NotLost, Counted
<1> QED BY <1>4, <1>5, <1>6 DEF Carried

\* A worker that keeps its delivery.
LEMMA Keep ==
  ASSUME Base, Tidy, faults = 0, UNCHANGED <<active, todo, dpc, jobs>>,
         NEW w \in Workers, pc[w] # "idle", NEW at \in Awaits, NEW l \in Locs, Work(w, at, l),
         NEW c \in Deliveries, c = loc[w].d, l.d = c,
         rows'[c].exists = rows[c].exists, rows'[c].delivered = rows[c].delivered,
         at # "requeue" => rows'[c].attempts = l.read,
         at = "requeue" => rows'[c].attempts = l.read + 1 /\ rows'[c].attempts < MaxAttempts,
         at \in {"save", "count"} => posts'[c].sent = rows'[c].attempts + 1,
         at \notin {"save", "count"} => posts'[c].sent = rows'[c].attempts
  PROVE  Carried(c)'
<1>1. /\ pc'[w] = at /\ loc'[w] = l
      /\ \A v \in Workers \ {w} : pc'[v] = pc[v] /\ loc'[v] = loc[v]
  BY Works DEF Base
<1>2. /\ rows'[c].exists /\ ~Queueing(c)' /\ jobs'[c] = 0 /\ ~rows'[c].delivered
      /\ \A v \in Workers \ {w} : loc'[v].d # c
  BY <1>1, Alone DEF Queueing
<1>3. Held(c)'
  BY <1>1 DEF Held
<1>4. OnePlace(c)' /\ NotLost(c)' /\ Counted(c)'
  BY <1>1, <1>2, <1>3 DEF OnePlace, NotLost, Counted
<1>5. InHand(c)'
  BY <1>1, <1>2 DEF InHand, Posted
<1> QED BY <1>2, <1>4, <1>5 DEF Carried

LEMMA SaveKeepsTidy ==
  ASSUME Base, Tidy, NEW w \in Workers, SaveDelivered(w)
  PROVE  Tidy'
<1>1. PICK c \in Deliveries : c = loc[w].d
  BY InHands DEF SaveDelivered
<1>2. /\ pc[w] = "save" /\ Work(w, "idle", Free)
      /\ rows' = [rows EXCEPT ![c].delivered = TRUE]
      /\ UNCHANGED <<active, todo, dpc, jobs, posts, faults>>
  BY <1>1 DEF SaveDelivered, Done
<1>3. /\ rows'[c].exists = rows[c].exists /\ rows'[c].attempts = rows[c].attempts
      /\ rows'[c].delivered
      /\ \A d \in Deliveries \ {c} : rows'[d] = rows[d]
  BY <1>2 DEF Base, TypeOK
<1>4. faults = 0 => Carried(c)'
  <2> SUFFICES ASSUME faults = 0 PROVE Carried(c)'
    OBVIOUS
  <2>1. /\ rows[c].exists /\ jobs[c] = 0
        /\ posts[c].sent = rows[c].attempts + 1
    BY <1>1, <1>2, Alone DEF Carried, InHand, Posted
  <2>2. Settled(c)'
    BY <1>3 DEF Settled
  <2> QED BY <1>1, <1>2, <1>3, <2>1, <2>2, LetGo
<1>5. Free.d = NoDelivery
  BY DEF Free
<1> QED BY <1>1, <1>2, <1>3, <1>4, <1>5, FreeOK, WorkKeepsTidy DEF Awaits

LEMMA CountKeepsTidy ==
  ASSUME Base, Tidy, NEW w \in Workers, CountFailure(w)
  PROVE  Tidy'
<1>1. PICK c \in Deliveries : c = loc[w].d
  BY InHands DEF CountFailure
<1>2. /\ pc[w] = "count"
      /\ rows' = [rows EXCEPT ![c].attempts = loc[w].read + 1]
      /\ UNCHANGED <<active, todo, dpc, jobs, posts, faults>>
  BY <1>1 DEF CountFailure
<1>3. /\ rows'[c].exists = rows[c].exists /\ rows'[c].attempts = loc[w].read + 1
      /\ rows'[c].delivered = rows[c].delivered
      /\ \A d \in Deliveries \ {c} : rows'[d] = rows[d]
  BY <1>2 DEF Base, TypeOK
<1>4. /\ loc[w] \in Locs /\ Free.d = NoDelivery
      /\ loc[w].read \in 0..MaxAttempts
  BY <1>2, InHands DEF Free
<1>5. ASSUME faults = 0
      PROVE  /\ rows[c].exists /\ jobs[c] = 0 /\ ~rows[c].delivered
             /\ posts[c].sent = loc[w].read + 1
  BY <1>1, <1>2, <1>5, Alone DEF Carried, InHand, Posted
<1>6. CASE loc[w].read + 1 < MaxAttempts
  <2>1. Work(w, "requeue", loc[w])
    BY <1>6 DEF CountFailure
  <2>2. faults = 0 => Carried(c)'
    BY <1>1, <1>2, <1>3, <1>4, <1>5, <1>6, <2>1, Keep DEF Awaits
  <2> QED BY <1>1, <1>2, <1>3, <1>4, <2>1, <2>2, WorkKeepsTidy DEF Awaits
<1>7. CASE ~(loc[w].read + 1 < MaxAttempts)
  <2>1. Work(w, "idle", Free)
    BY <1>7 DEF CountFailure, Done
  <2>2. Settled(c)'
    BY <1>3, <1>4, <1>7, DeliveryAssumption DEF Settled
  <2>3. faults = 0 => Carried(c)'
    BY <1>1, <1>2, <1>3, <1>5, <2>1, <2>2, LetGo
  <2> QED BY <1>1, <1>2, <1>3, <1>4, <2>1, <2>3, FreeOK, WorkKeepsTidy DEF Awaits
<1> QED BY <1>6, <1>7

LEMMA RequeueKeepsTidy ==
  ASSUME Base, Tidy, NEW w \in Workers, Requeue(w)
  PROVE  Tidy'
<1>1. PICK c \in Deliveries : c = loc[w].d
  BY InHands DEF Requeue
<1>2. /\ pc[w] = "requeue" /\ Work(w, "idle", Free)
      /\ jobs' = [jobs EXCEPT ![c] = @ + 1]
      /\ UNCHANGED <<active, todo, dpc, rows, posts, faults>>
  BY <1>1 DEF Requeue, Done
<1>3. /\ jobs'[c] = jobs[c] + 1 /\ Free.d = NoDelivery
      /\ \A d \in Deliveries \ {c} : jobs'[d] = jobs[d]
  BY <1>2 DEF Base, TypeOK, Free
<1>4. faults = 0 => Carried(c)'
  <2> SUFFICES ASSUME faults = 0 PROVE Carried(c)'
    OBVIOUS
  <2>1. /\ rows[c].exists /\ jobs[c] = 0 /\ ~rows[c].delivered
        /\ posts[c].sent = rows[c].attempts
    BY <1>1, <1>2, Alone DEF Carried, InHand, Posted
  <2> QED BY <1>1, <1>2, <1>3, <2>1, LetGo
<1> QED BY <1>1, <1>2, <1>3, <1>4, FreeOK, WorkKeepsTidy DEF Awaits

LEMMA PostKeepsTidy ==
  ASSUME Base, Tidy, NEW w \in Workers, Post(w)
  PROVE  Tidy'
<1>1. PICK c \in Deliveries : c = loc[w].d
  BY InHands DEF Post
<1> DEFINE l == [loc[w] EXCEPT !.caught = TRUE]
<1>2. PICK accepted \in BOOLEAN :
        /\ posts' = [posts EXCEPT ![c].sent = @ + 1, ![c].accepted = @ \/ accepted]
        /\ \/ accepted /\ Work(w, "save", loc[w])
           \/ ~accepted /\ Work(w, "count", loc[w])
           \/ Work(w, "count", l)
  BY <1>1 DEF Post
<1>3. pc[w] = "post" /\ UNCHANGED <<active, todo, dpc, rows, jobs, faults>>
  BY DEF Post
<1>4. loc[w] \in Locs /\ l \in Locs /\ l.d = c /\ l.read = loc[w].read
  BY <1>1, <1>3, InHands
<1> HIDE DEF l
<1>5. /\ posts'[c].sent = posts[c].sent + 1
      /\ \A d \in Deliveries \ {c} : posts'[d] = posts[d]
  BY <1>2 DEF Base, TypeOK
<1>6. ASSUME faults = 0
      PROVE  /\ rows[c].attempts = loc[w].read
             /\ posts'[c].sent = rows[c].attempts + 1
  BY <1>1, <1>3, <1>5, <1>6, Alone DEF Carried, InHand, Posted
<1>7. ASSUME NEW at \in {"save", "count"}, NEW k \in Locs, Work(w, at, k),
             k.d = c, k.read = loc[w].read
      PROVE  Tidy'
  <2>1. at \in Awaits
    BY DEF Awaits
  <2>2. faults = 0 => Carried(c)'
    BY <1>1, <1>3, <1>6, <1>7, <2>1, Keep
  <2> QED BY <1>1, <1>3, <1>5, <1>7, <2>1, <2>2, WorkKeepsTidy
<1> QED BY <1>1, <1>2, <1>4, <1>7

LEMMA TakeKeepsTidy ==
  ASSUME Base, Tidy, NEW w \in Workers, NEW c \in Deliveries, Take(w, c)
  PROVE  Tidy'
<1>1. /\ pc[w] = "idle" /\ jobs[c] > 0 /\ loc[w].d = NoDelivery
      /\ jobs' = [jobs EXCEPT ![c] = @ - 1]
      /\ UNCHANGED <<active, todo, dpc, rows, posts, faults>>
  BY DEF Take, Base, WorkersOK
<1>2. /\ jobs[c] \in Nat /\ jobs'[c] = jobs[c] - 1
      /\ \A d \in Deliveries \ {c} : jobs'[d] = jobs[d]
  BY <1>1 DEF Base, TypeOK
<1>3. ASSUME faults = 0
      PROVE  /\ rows[c].exists /\ ~Queueing(c) /\ Carried(c) /\ ~Held(c) /\ jobs'[c] = 0
             /\ \A v \in Workers : loc[v].d # c
  BY <1>1, <1>2, <1>3 DEF Tidy, Carried, Untouched, OnePlace, Held
<1>4. CASE rows[c].exists /\ ~Settled(c)
  <2> DEFINE l == [Free EXCEPT !.d = c, !.read = rows[c].attempts]
  <2>1. Work(w, "post", l)
    BY <1>4 DEF Take
  <2>2. l \in Locs /\ l.d = c /\ l.read = rows[c].attempts
    <3>1. rows[c].attempts \in 0..MaxAttempts
      BY DEF Base, TypeOK
    <3> QED BY <3>1, FreeOK DEF Locs
  <2> HIDE DEF l
  <2>3. /\ pc'[w] = "post" /\ loc'[w] = l
        /\ \A v \in Workers \ {w} : pc'[v] = pc[v] /\ loc'[v] = loc[v]
    BY <2>1, <2>2, Works DEF Base, Awaits
  <2>4. ASSUME faults = 0 PROVE Carried(c)'
    <3>1. /\ rows[c].exists /\ ~Queueing(c)' /\ jobs'[c] = 0 /\ ~rows[c].delivered
          /\ \A v \in Workers \ {w} : loc'[v].d # c
      BY <1>1, <1>3, <1>4, <2>3, <2>4 DEF Queueing, Settled
    <3>2. Held(c)'
      BY <2>2, <2>3 DEF Held
    <3>3. posts[c].sent = rows[c].attempts
      BY <1>3, <2>4, <3>1 DEF Carried, Counted
    <3>4. OnePlace(c)' /\ NotLost(c)' /\ Counted(c)'
      BY <2>3, <3>1, <3>2 DEF OnePlace, NotLost, Counted
    <3>5. InHand(c)'
      BY <1>1, <2>2, <2>3, <3>1, <3>3 DEF InHand, Posted
    <3> QED BY <1>1, <3>1, <3>4, <3>5 DEF Carried
  <2> QED BY <1>1, <1>2, <2>1, <2>2, <2>4, WorkKeepsTidy DEF Awaits
<1>5. CASE ~(rows[c].exists /\ ~Settled(c))
  <2>1. UNCHANGED <<pc, loc>>
    BY <1>5 DEF Take
  <2>2. ASSUME faults = 0 PROVE Carried(c)'
    <3>1. ~Held(c)' /\ ~Queueing(c)' /\ Settled(c)' /\ Counted(c)' /\ InHand(c)'
      BY <1>1, <1>3, <1>5, <2>1, <2>2
         DEF Carried, Held, Queueing, Settled, Counted, InHand, Posted
    <3>2. OnePlace(c)' /\ NotLost(c)'
      BY <1>3, <2>1, <2>2, <3>1 DEF OnePlace, NotLost
    <3> QED BY <1>1, <1>3, <2>2, <3>1, <3>2 DEF Carried
  <2>3. ASSUME faults = 0, NEW d \in Deliveries \ {c} PROVE Carried(d)'
    BY <1>1, <1>2, <2>1, <2>3, Elsewhere DEF Tidy
  <2>4. ASSUME faults = 0, NEW e \in Events PROVE Dispatched(e)'
    BY <1>1, <2>4, DispatchedStays DEF Tidy, Base, TypeOK
  <2> QED BY <1>1, <2>2, <2>3, <2>4 DEF Tidy
<1> QED BY <1>4, <1>5

\* The dispatch touches no worker and no request: a delivery it has not reached yet stays
\* untouched, and one it has finished with keeps its place.
LEMMA DispatchOther ==
  ASSUME NEW d \in Deliveries, Carried(d), UNCHANGED <<active, posts, pc, loc>>,
         rows'[d] = rows[d], jobs'[d] = jobs[d],
         Queueing(d)' => ~rows[d].exists \/ Queueing(d),
         Queueing(d) => ~rows[d].exists \/ Queueing(d)'
  PROVE  Carried(d)'
<1>1. (Held(d)' <=> Held(d)) /\ (Settled(d)' <=> Settled(d)) /\ (Untouched(d)' <=> Untouched(d))
  BY DEF Held, Settled, Untouched
<1>2. OnePlace(d)' /\ InHand(d)' /\ Counted(d)'
  BY <1>1 DEF Carried, OnePlace, InHand, Counted, Posted
<1>3. NotLost(d)'
  BY <1>1 DEF Carried, NotLost
<1> QED BY <1>1, <1>2, <1>3 DEF Carried

LEMMA ReadKeepsTidy ==
  ASSUME Base, Tidy, NEW e \in Events, NEW s \in SUBSET Endpoints, DispatchRead(e, s)
  PROVE  Tidy'
<1> SUFFICES ASSUME faults = 0
             PROVE  /\ \A d \in Deliveries : Carried(d)'
                    /\ \A f \in Events : Dispatched(f)'
  BY DEF Tidy, DispatchRead
<1>1. /\ dpc[e] = "new" /\ dpc'[e] \in {"loop", "over"} /\ todo'[e] \in SUBSET Endpoints
      /\ \A f \in Events \ {e} : dpc'[f] = dpc[f] /\ todo'[f] = todo[f]
      /\ UNCHANGED <<active, rows, jobs, posts, faults, pc, loc>>
  BY DEF DispatchRead, Base, TypeOK
<1>2. ASSUME NEW d \in Deliveries PROVE Carried(d)'
  <2>1. d[1] \in Events
    BY DEF Deliveries
  <2>2. Queueing(d)' <=> Queueing(d)
    BY <1>1, <2>1 DEF Queueing
  <2> QED BY <1>1, <2>2, DispatchOther DEF Tidy
<1>3. ASSUME NEW f \in Events PROVE Dispatched(f)'
  BY <1>1 DEF Tidy, Dispatched
<1> QED BY <1>2, <1>3

LEMMA CreateKeepsTidy ==
  ASSUME Base, Tidy, NEW e \in Events, NEW ep \in Endpoints, DispatchCreate(e, ep)
  PROVE  Tidy'
<1> SUFFICES ASSUME faults = 0
             PROVE  /\ \A d \in Deliveries : Carried(d)'
                    /\ \A f \in Events : Dispatched(f)'
  BY DEF Tidy, DispatchCreate
<1> DEFINE c == <<e, ep>>
<1>1. /\ dpc[e] = "loop" /\ ep \in todo[e] /\ c \in Deliveries /\ dpc'[e] = "queue"
      /\ \A f \in Events \ {e} : dpc'[f] = dpc[f]
      /\ UNCHANGED <<active, todo, jobs, posts, faults, pc, loc>>
  BY DEF DispatchCreate, Base, TypeOK, Deliveries
<1>2. /\ rows'[c].exists /\ rows'[c].attempts = 0 /\ ~rows'[c].delivered
      /\ \A d \in Deliveries \ {c} : rows'[d] = rows[d]
  BY <1>1 DEF DispatchCreate, Base, TypeOK, NoRow
<1>3. \A a \in todo[e] : ~rows[<<e, a>>].exists
  BY <1>1 DEF Tidy, Dispatched
<1>4. Carried(c)'
  <2> HIDE DEF c
  <2>1. Untouched(c)
    BY <1>1, <1>3 DEF Tidy, Carried, c
  <2>2. Queueing(c)'
    BY <1>1 DEF Queueing, c
  <2>3. Untouched(c)'
    BY <1>1, <1>2, <2>1 DEF Untouched, Held
  <2> QED BY <2>2, <2>3 DEF Carried, Untouched, OnePlace, NotLost, InHand, Counted, Held
<1>5. ASSUME NEW d \in Deliveries \ {c} PROVE Carried(d)'
  <2>1. /\ d[1] \in Events /\ d = <<d[1], d[2]>>
    BY DEF Deliveries
  <2>2. Queueing(d)' => ~rows[d].exists \/ Queueing(d)
    BY <1>1, <1>3, <2>1 DEF Queueing
  <2>3. Queueing(d) => Queueing(d)'
    BY <1>1, <2>1 DEF Queueing
  <2> QED BY <1>1, <1>2, <2>2, <2>3, DispatchOther DEF Tidy
<1>6. ASSUME NEW f \in Events PROVE Dispatched(f)'
  <2>1. CASE f = e
    <3>1. \A a \in todo[e] : a # ep => ~rows'[<<e, a>>].exists
      BY <1>1, <1>2, <1>3 DEF Base, TypeOK, Deliveries
    <3> QED BY <1>1, <2>1, <3>1 DEF Dispatched
  <2>2. CASE f # e
    <3>1. \A a \in Endpoints : rows'[<<f, a>>] = rows[<<f, a>>]
      BY <1>2, <2>2 DEF Deliveries
    <3>2. todo[f] \in SUBSET Endpoints
      BY DEF Base, TypeOK
    <3> QED BY <1>1, <2>2, <3>1, <3>2 DEF Tidy, Dispatched
  <2> QED BY <2>1, <2>2
<1> QED BY <1>4, <1>5, <1>6

LEMMA QueueKeepsTidy ==
  ASSUME Base, Tidy, NEW e \in Events, NEW ep \in Endpoints, DispatchQueue(e, ep)
  PROVE  Tidy'
<1> SUFFICES ASSUME faults = 0
             PROVE  /\ \A d \in Deliveries : Carried(d)'
                    /\ \A f \in Events : Dispatched(f)'
  BY DEF Tidy, DispatchQueue
<1> DEFINE c == <<e, ep>>
<1>1. /\ dpc[e] = "queue" /\ ep \in todo[e] /\ c \in Deliveries /\ rows[c].exists
      /\ dpc'[e] \in {"loop", "over"} /\ todo'[e] = todo[e] \ {ep}
      /\ \A f \in Events \ {e} : dpc'[f] = dpc[f] /\ todo'[f] = todo[f]
      /\ UNCHANGED <<active, rows, posts, faults, pc, loc>>
  BY DEF DispatchQueue, Base, TypeOK, Deliveries
<1>2. /\ jobs'[c] = jobs[c] + 1
      /\ \A d \in Deliveries \ {c} : jobs'[d] = jobs[d]
  BY <1>1 DEF DispatchQueue, Base, TypeOK
<1>3. \A a \in todo[e] : rows[<<e, a>>].exists => a = ep
  BY <1>1 DEF Tidy, Dispatched
<1>4. Carried(c)'
  <2> HIDE DEF c
  <2>1. Untouched(c)
    BY <1>1 DEF Tidy, Carried, Queueing, c
  <2>2. ~Queueing(c)'
    BY <1>1 DEF Queueing, c
  <2>3. ~Held(c)' /\ jobs'[c] = 1
    BY <1>1, <1>2, <2>1 DEF Untouched, Held
  <2> QED BY <1>1, <2>1, <2>2, <2>3
          DEF Carried, Untouched, OnePlace, NotLost, InHand, Counted, Held
<1>5. ASSUME NEW d \in Deliveries \ {c} PROVE Carried(d)'
  <2>1. /\ d[1] \in Events /\ d = <<d[1], d[2]>>
    BY DEF Deliveries
  <2>2. Queueing(d)' => Queueing(d)
    BY <1>1, <2>1 DEF Queueing
  <2>3. Queueing(d) => ~rows[d].exists \/ Queueing(d)'
    BY <1>1, <1>3, <2>1 DEF Queueing
  <2> QED BY <1>1, <1>2, <2>2, <2>3, DispatchOther DEF Tidy
<1>6. ASSUME NEW f \in Events PROVE Dispatched(f)'
  BY <1>1, <1>3 DEF Tidy, Dispatched
<1> QED BY <1>4, <1>5, <1>6

LEMMA DeactivateKeepsTidy ==
  ASSUME Base, Tidy, NEW ep \in Endpoints, DeactivateEndpoint(ep)
  PROVE  Tidy'
<1> SUFFICES ASSUME faults = 0
             PROVE  /\ \A d \in Deliveries : Carried(d)'
                    /\ \A f \in Events : Dispatched(f)'
  BY DEF Tidy, DeactivateEndpoint
<1>1. active' \subseteq active /\ UNCHANGED <<todo, dpc, rows, jobs, posts, faults, pc, loc>>
  BY DEF DeactivateEndpoint
<1>2. ASSUME NEW d \in Deliveries PROVE Carried(d)'
  <2>1. (Settled(d) => Settled(d)') /\ (Held(d)' <=> Held(d)) /\ (Queueing(d)' <=> Queueing(d))
    BY <1>1 DEF Settled, Held, Queueing
  <2>2. NotLost(d)'
    BY <1>1, <2>1 DEF Tidy, Carried, NotLost
  <2>3. OnePlace(d)' /\ InHand(d)' /\ Counted(d)' /\ (Untouched(d)' <=> Untouched(d))
    BY <1>1, <2>1 DEF Tidy, Carried, OnePlace, InHand, Counted, Posted, Untouched
  <2> QED BY <1>1, <2>1, <2>2, <2>3 DEF Tidy, Carried
<1>3. ASSUME NEW f \in Events PROVE Dispatched(f)'
  BY <1>1 DEF Tidy, Dispatched
<1> QED BY <1>2, <1>3

\* A fault leaves nothing to show.
LEMMA FaultKeepsTidy == Base /\ Fault => Tidy'
BY FaultOK DEF Base, Tidy

LEMMA StepKeepsTidy == IInv /\ [Next]_vars => Tidy'
<1> SUFFICES ASSUME Base, Tidy, [Next]_vars PROVE Tidy'
  BY DEF IInv
<1>1. CASE UNCHANGED vars
  BY <1>1 DEF vars, Tidy, Carried, Dispatched, Untouched, OnePlace, NotLost, InHand, Counted,
     Held, Posted, Queueing, Settled
<1>2. ASSUME NEW e \in Events, Dispatch(e) PROVE Tidy'
  <2>1. CASE DispatchFail(e)
    BY <2>1, FaultKeepsTidy DEF DispatchFail
  <2> QED BY <1>2, <2>1, ReadKeepsTidy, CreateKeepsTidy, QueueKeepsTidy DEF Dispatch
<1>3. ASSUME NEW w \in Workers, Process(w) PROVE Tidy'
  <2>1. CASE Throw(w) \/ Crash(w)
    BY <2>1, FaultKeepsTidy DEF Throw, Crash
  <2> QED BY <1>3, <2>1, PostKeepsTidy, SaveKeepsTidy, CountKeepsTidy, RequeueKeepsTidy DEF Process
<1> QED BY <1>1, <1>2, <1>3, TakeKeepsTidy, DeactivateKeepsTidy DEF Next

\* The invariant is kept: whatever fails, Base holds, and until something fails every
\* delivery is carried and every dispatch in order.
THEOREM Inductive == Spec => []IInv
BY Start, StartsTidy, StepKeepsBase, StepKeepsTidy, PTL DEF Spec, IInv

\* The two sizes that a set of carriers has.
LEMMA NoneOrOne ==
  ASSUME NEW S
  PROVE  /\ S = {} => Cardinality(S) = 0
         /\ \A w : S = {w} => Cardinality(S) = 1
BY FS_EmptySet, FS_Singleton

LEMMA TidyIsOneCarrier == IInv => OneCarrier
<1> SUFFICES ASSUME IInv, faults = 0, NEW d \in Deliveries
             PROVE  /\ jobs[d] + Cardinality(On(d)) <= 1
                    /\ rows[d].exists /\ ~Settled(d)
                         => jobs[d] + Cardinality(On(d)) = 1 \/ Queueing(d)
  BY DEF OneCarrier
<1>1. Carried(d) /\ jobs[d] \in Nat
  BY DEF IInv, Tidy, Base, TypeOK
<1>2. CASE Held(d)
  <2>1. PICK w \in Workers : loc[w].d = d
    BY <1>2 DEF Held
  <2>2. On(d) = {w}
    BY <1>1, <2>1 DEF Carried, OnePlace, On
  <2>3. Cardinality(On(d)) = 1
    BY <2>2, NoneOrOne
  <2> QED BY <1>1, <1>2, <2>3 DEF Carried, OnePlace
<1>3. CASE ~Held(d)
  <2>1. On(d) = {}
    BY <1>3 DEF Held, On
  <2>2. Cardinality(On(d)) = 0
    BY <2>1, NoneOrOne
  <2> QED BY <1>1, <1>3, <2>2 DEF Carried, OnePlace, NotLost
<1> QED BY <1>2, <1>3

LEMMA TidyCounts == IInv => AttemptsCountPosts
<1> SUFFICES ASSUME IInv, faults = 0, NEW d \in Deliveries
             PROVE  posts[d].sent = rows[d].attempts
                      + Cardinality({w \in On(d) : pc[w] \in {"save", "count"}})
                      + IF rows[d].delivered THEN 1 ELSE 0
  BY DEF AttemptsCountPosts
<1> DEFINE P == {w \in On(d) : pc[w] \in {"save", "count"}}
<1>1. Carried(d) /\ rows[d].attempts \in Nat /\ posts[d].sent \in Nat
  BY DEF IInv, Tidy, Base, TypeOK
<1>2. CASE Held(d)
  <2>1. PICK w \in Workers : loc[w].d = d
    BY <1>2 DEF Held
  <2>2. On(d) = {w} /\ ~rows[d].delivered
    BY <1>1, <2>1 DEF Carried, OnePlace, On, InHand
  <2>3. CASE Posted(w)
    <3>1. P = {w} /\ posts[d].sent = rows[d].attempts + 1
      BY <1>1, <2>1, <2>2, <2>3 DEF Posted, Carried, InHand
    <3>2. Cardinality(P) = 1
      BY <3>1, NoneOrOne
    <3> HIDE DEF P
    <3> QED BY <1>1, <2>2, <3>1, <3>2 DEF P
  <2>4. CASE ~Posted(w)
    <3>1. P = {} /\ posts[d].sent = rows[d].attempts
      BY <1>1, <2>1, <2>2, <2>4 DEF Posted, Carried, InHand
    <3>2. Cardinality(P) = 0
      BY <3>1, NoneOrOne
    <3> QED BY <1>1, <2>2, <3>1, <3>2
  <2> QED BY <2>3, <2>4
<1>3. CASE ~Held(d)
  <2>1. P = {}
    BY <1>3 DEF Held, On
  <2>2. Cardinality(P) = 0
    BY <2>1, NoneOrOne
  <2> QED BY <1>1, <1>3, <2>2 DEF Carried, Counted
<1> QED BY <1>2, <1>3

\* Without faults nothing is forgotten and nothing doubled: a delivery is with its
\* dispatch, in the queue once or in the hands of one worker until it is settled.
THEOREM OneCarrierAtATime == Spec => []OneCarrier
BY Inductive, TidyIsOneCarrier, PTL

\* Without faults the row counts its failed requests exactly, so that there are never
\* more than MAX_ATTEMPTS of them and none after the one that was delivered.
THEOREM RowCountsPosts == Spec => []AttemptsCountPosts
BY Inductive, TidyCounts, PTL
=============================================================================
