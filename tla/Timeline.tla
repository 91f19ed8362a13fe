------------------------------ MODULE Timeline ------------------------------
(***************************************************************************)
(* The timeline of a project, ProjectsService.getTimeline: evidence,       *)
(* comments, phase events and payments merged from their tables, newest    *)
(* first, and handed out in pages.  The cursor of a page is the id of its  *)
(* last event and the list is built anew for every page, from rows that    *)
(* come and go while somebody reads: evidence and comments are deleted, a  *)
(* phase event is the earliest of the notifications it was sent as, which  *)
(* their receivers delete.                                                 *)
(***************************************************************************)
EXTENDS Naturals, Sequences, FiniteSets, SequencesExt

CONSTANTS Ids,       \* ids of rows; uuids come in any order
          Times,     \* bound: times of rows, 0..n
          Limit      \* events of a page

ASSUME TimelineAssumption ==
  /\ Ids \subseteq Nat \ {0}
  /\ Times \subseteq Nat /\ 0 \in Times
  /\ Limit \in Nat \ {0}

TKinds == {"evidence", "comment", "notice", "payment", "escrow"}

VARIABLES
  clock,       \* the time; rows made at one time are ordered by their ids
  row,         \* rows by id
  filter,      \* the kinds the reader asks for
  cursor,      \* the reader's cursor, or 0
  reader,      \* "closed", "reading" or "finished"
  shown,       \* history: events the reader has been shown
  due,         \* history: events listed since the reading began
  again,       \* history: what was shown again
  tied,        \* history: notifications of one time stood for one phase event
  broken       \* history: the event a cursor named was gone

timelineVars == <<clock, row, filter, cursor, reader, shown, due, again, tied, broken>>
readerVars   == <<filter, cursor, reader, shown, again, broken>>

NoRow == [kind |-> "none", at |-> 0, on |-> 0]

TimelineInit ==
  /\ clock = 0
  /\ row = [i \in Ids |-> NoRow]
  /\ filter = TKinds
  /\ cursor = 0
  /\ reader = "closed"
  /\ shown = {} /\ due = {}
  /\ again = {} /\ tied = FALSE /\ broken = FALSE

Of(kinds, rows) == {i \in Ids : rows[i].kind \in kinds}

-----------------------------------------------------------------------------
(* The list.                                                               *)

\* Of the notifications of one phase event the earliest is its event; of several made at
\* one time, whichever the database lists first.
Earliest(rows) ==
  {i \in Of({"notice"}, rows) : \A j \in Of({"notice"}, rows) : rows[i].at <= rows[j].at}
DedupNotices(rows) == IF Earliest(rows) = {} THEN {{}} ELSE {{i} : i \in Earliest(rows)}

\* A payment with a date, or else the release of the escrow.
PaymentEvents(rows) ==
  IF Of({"payment"}, rows) # {} THEN Of({"payment"}, rows) ELSE Of({"escrow"}, rows)

\* The events a request may merge.
ListedEvents(rows) ==
  {Of({"evidence", "comment"}, rows) \cup n \cup PaymentEvents(rows) : n \in DedupNotices(rows)}
AlwaysListed(rows) == {i \in Ids : \A events \in ListedEvents(rows) : i \in events}

\* What an event tells: a phase event is the same under any id.
Tells(i) == IF row[i].kind = "notice" THEN 0 ELSE i

Newer(i, j) == row[i].at > row[j].at \/ (row[i].at = row[j].at /\ i > j)

EventList(events, kinds) ==
  LET those == {i \in events : row[i].kind \in kinds} IN
  CHOOSE list \in [1..Cardinality(those) -> those] :
    \A m, n \in DOMAIN list : m < n => Newer(list[m], list[n])

\* parseTimelineTypesFilter: kinds it does not know are left out, and none means all.
ParseTypes(types) ==
  LET known == types \cap TKinds IN
  IF known = {} THEN TKinds
  ELSE known \cup (IF "payment" \in known THEN {"escrow"} ELSE {})

-----------------------------------------------------------------------------
(* Rows come and go.                                                       *)

\* An event that leaves the list is not due any more.
RowsBecome(rows) ==
  /\ row' = rows
  /\ due' = due \cap AlwaysListed(rows)
  /\ tied' = (tied \/ \E n \in DedupNotices(rows) : n # Earliest(rows))
  /\ UNCHANGED <<clock, readerVars>>

Put(i, kind, on) ==
  /\ row[i] = NoRow /\ \A e \in shown : e.id # i
  /\ RowsBecome([row EXCEPT ![i] = [kind |-> kind, at |-> clock, on |-> on]])

AddEvidence(i) == Put(i, "evidence", 0)

AddComment(i, on) == row[on].kind = "evidence" /\ Put(i, "comment", on)

\* One event of a phase, its start, is sent to the worker and to every admin.
AddNotice(i) == Put(i, "notice", 0)

\* releaseSplitPayment records the payments, the worker's and the platform's, and then the
\* release: only an old escrow is released without.
AddRelease(i) == Of({"escrow", "payment"}, row) = {} /\ Put(i, "escrow", 0)
AddPayment(i) == Of({"escrow"}, row) = {} /\ Put(i, "payment", 0)

\* The comments of the evidence go with it.
DropEvidence(i) ==
  /\ row[i].kind = "evidence"
  /\ RowsBecome([j \in Ids |-> IF j = i \/ row[j].on = i THEN NoRow ELSE row[j]])

DropComment(i) == row[i].kind = "comment" /\ RowsBecome([row EXCEPT ![i] = NoRow])

\* A person deletes a notification some time after it was made.
DropNotice(i)  ==
  row[i].kind = "notice" /\ row[i].at < clock /\ RowsBecome([row EXCEPT ![i] = NoRow])

Tick == /\ clock + 1 \in Times
        /\ clock' = clock + 1
        /\ UNCHANGED <<row, due, tied, readerVars>>

-----------------------------------------------------------------------------
(* A reader goes through the pages.                                        *)

IndexOf(list, i) == IF \E n \in DOMAIN list : list[n] = i
                    THEN CHOOSE n \in DOMAIN list : list[n] = i ELSE 0

\* Mutation: the page begins with the event the cursor names.
StartAtCursor(list, c) ==
  IF c = 0 THEN 0 ELSE IF IndexOf(list, c) = 0 THEN Len(list) ELSE IndexOf(list, c) - 1

\* How many events of the list are skipped.
StartIndex(list, c) ==
  IF c = 0 THEN 0 ELSE IF IndexOf(list, c) = 0 THEN Len(list) ELSE IndexOf(list, c)

\* The page after c, and the cursor of the next one when there is more.
Page(events, kinds, c) ==
  LET list  == EventList(events, kinds)
      start == StartIndex(list, c)
      slice == SubSeq(list, start + 1, Min({start + Limit, Len(list)}))
      more  == start + Limit < Len(list) IN
  /\ cursor' = IF more THEN slice[Limit] ELSE 0
  /\ reader' = IF more THEN "reading" ELSE "finished"
  /\ again'  = again \cup ({Tells(i) : i \in ToSet(slice)} \cap {e.tells : e \in shown})
  /\ shown'  = shown \cup {[id |-> i, tells |-> Tells(i)] : i \in ToSet(slice)}
  /\ broken' = (broken \/ (c # 0 /\ IndexOf(list, c) = 0))
  /\ UNCHANGED <<clock, row, tied>>

FirstPage(types) ==
  /\ reader = "closed"
  /\ filter' = ParseTypes(types)
  /\ due' = {i \in AlwaysListed(row) : row[i].kind \in filter'}
  /\ \E events \in ListedEvents(row) : Page(events, filter', 0)

NextPage ==
  /\ reader = "reading"
  /\ \E events \in ListedEvents(row) : Page(events, filter, cursor)
  /\ UNCHANGED <<filter, due>>

TimelineNext ==
  \/ \E i \in Ids : \/ AddEvidence(i) \/ AddNotice(i) \/ AddRelease(i) \/ AddPayment(i)
                    \/ \E on \in Ids : AddComment(i, on)
                    \/ DropEvidence(i) \/ DropComment(i) \/ DropNotice(i)
  \/ Tick
  \/ \E types \in {{}, {"evidence", "comment"}, {"payment", "unknown"}} : FirstPage(types)
  \/ NextPage

TimelineSpec == TimelineInit /\ [][TimelineNext]_timelineVars

-----------------------------------------------------------------------------
(* Properties.                                                             *)

TimelineTypeOK ==
  /\ clock \in Times
  /\ row \in [Ids -> [kind : TKinds \cup {"none"}, at : Times, on : Ids \cup {0}]]
  /\ filter \subseteq TKinds
  /\ cursor \in Ids \cup {0}
  /\ reader \in {"closed", "reading", "finished"}
  /\ due \subseteq Ids /\ {e.id : e \in shown} \subseteq Ids
  /\ tied \in BOOLEAN /\ broken \in BOOLEAN

\* Paging shows nothing twice, also not a phase event that changes its id between two
\* pages, unless notifications of one time took turns in standing for the event; and a
\* reader who has come to the end has seen every event that was there all the time, unless
\* the event a cursor named was gone: the rest of the list then counts as read.
PagesShowOnce ==
  /\ again \subseteq IF tied THEN {0} ELSE {}
  /\ reader = "finished" => broken \/ due \subseteq {e.id : e \in shown}
=============================================================================
