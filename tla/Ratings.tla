------------------------------ MODULE Ratings ------------------------------
(***************************************************************************)
(* A client rates the worker of a closed project, once.  rateWorker looks  *)
(* for an earlier rating, inserts its own and writes the average of all    *)
(* the worker's ratings to the worker, in one transaction at READ          *)
(* COMMITTED: each statement sees what has been committed by then, and the *)
(* worker's row is locked from its update to the commit.  One worker.      *)
(***************************************************************************)
EXTENDS Naturals, FiniteSets

CONSTANTS GRequests,      \* requests served at once
          GProjects,      \* closed projects of the worker, each with its client
          GNobody

ASSUME RatingsAssumption == GNobody \notin GRequests

VARIABLES
  ratings,     \* WorkerRating: committed rows, each the request that wrote it and its project
  averaged,    \* Worker.rating: the rows it is the average of
  lock,        \* the transaction that holds the worker's row
  together,    \* history: two transactions have been open at once
  gpc, gloc    \* per request: the await it stands at, its project and its average

ratingVars == <<ratings, averaged, lock, together, gpc, gloc>>

NoRating == [p |-> GNobody, avg |-> {}]

RatingInit ==
  /\ ratings = {} /\ averaged = {} /\ lock = GNobody /\ together = FALSE
  /\ gpc = [r \in GRequests |-> "idle"]
  /\ gloc = [r \in GRequests |-> NoRating]

GGo(r, at, l) == gpc' = [gpc EXCEPT ![r] = at] /\ gloc' = [gloc EXCEPT ![r] = l]
GDone(r) == GGo(r, "idle", NoRating)

\* A row, as the transaction of r inserts it: the same client may rate twice.
RowOf(r) == [by |-> r, n |-> Cardinality({row \in ratings : row.by = r}), p |-> gloc[r].p]

\* The checks of the project come before the transaction; its first statement
\* refuses a client who has rated.
RateCheck(r, p) ==
  /\ gpc[r] = "idle"
  /\ \A row \in ratings : row.p # p
  /\ together' = (together \/ \E q \in GRequests : gpc[q] # "idle")
  /\ GGo(r, "insert", [NoRating EXCEPT !.p = p])
  /\ UNCHANGED <<ratings, averaged, lock>>

\* Insert, then read the average of the committed rows and one's own.
RateAverage(r) ==
  /\ gpc[r] = "insert"
  /\ GGo(r, "update", [gloc[r] EXCEPT !.avg = ratings \cup {RowOf(r)}])
  /\ UNCHANGED <<ratings, averaged, lock, together>>

RateUpdate(r) ==
  /\ gpc[r] = "update" /\ lock = GNobody
  /\ lock' = r
  /\ GGo(r, "commit", gloc[r])
  /\ UNCHANGED <<ratings, averaged, together>>

RateCommit(r) ==
  /\ gpc[r] = "commit"
  /\ ratings' = ratings \cup {RowOf(r)}
  /\ averaged' = gloc[r].avg
  /\ lock' = GNobody
  /\ GDone(r)
  /\ UNCHANGED together

\* A statement throws, the transaction times out or the process dies: rolled back.
RateFails(r) ==
  /\ gpc[r] # "idle"
  /\ lock' = IF lock = r THEN GNobody ELSE lock
  /\ GDone(r)
  /\ UNCHANGED <<ratings, averaged, together>>

rateWorker(r) ==
  \/ \E p \in GProjects : RateCheck(r, p)
  \/ RateAverage(r) \/ RateUpdate(r) \/ RateCommit(r) \/ RateFails(r)

RatingNext == \E r \in GRequests : rateWorker(r)

RatingSpec == RatingInit /\ [][RatingNext]_ratingVars

-----------------------------------------------------------------------------
RatingTypeOK ==
  /\ IsFiniteSet(ratings)
  /\ \A row \in ratings : row.by \in GRequests /\ row.n \in Nat /\ row.p \in GProjects
  /\ lock \in GRequests \cup {GNobody} /\ together \in BOOLEAN
  /\ gpc \in [GRequests -> {"idle", "insert", "update", "commit"}]
  /\ \A r \in GRequests : gloc[r].p \in GProjects \cup {GNobody}

\* As long as no two ratings of a worker were under way together, a project is
\* rated once and the worker's column is the average of the worker's ratings;
\* a column is never the average of ratings that are not there (rateWorker).
RatingsAgree ==
  /\ averaged \subseteq ratings
  /\ ~together => /\ averaged = ratings
                  /\ \A a, b \in ratings : a.p = b.p => a = b
=============================================================================
