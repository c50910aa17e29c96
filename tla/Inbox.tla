-------------------------------- MODULE Inbox --------------------------------
(***************************************************************************)
(* The REST API: citizens list, count and mark the rows of the table       *)
(* notifications while the webhook and the worker insert into it.  Every   *)
(* statement is atomic and may fail; List is two statements, and the       *)
(* requests of other clients and of the same one come between them.        *)
(*                                                                         *)
(* A notification is the number of its id, a token the citizen whom its    *)
(* preferred_username names.  A client is a sender of GET /notifications;  *)
(* nothing is assumed about the pages it asks for or their order.          *)
(***************************************************************************)
EXTENDS Naturals, SequencesExt

CONSTANTS
  Citizens,
  Clients,
  MaxId,            \* bound: the ids are 1..MaxId
  Owner,            \* Owner[n]: the citizen whose citizen_ref row n carries
  Stamp,            \* Stamp[n]: the event_timestamp of row n
  DefaultLimit,     \* pagination.go:11 (20)
  MaxLimit,         \* pagination.go:14 (100)
  LimitParams,      \* what requests give as limit, and as offset
  OffsetParams,
  Absent,           \* a parameter that is not given
  Malformed,        \* a parameter that is no number or no UUID
  Nobody            \* whom a missing, malformed or expired token names

Ids == 1..MaxId

ASSUME InboxAssumption ==
  /\ MaxId \in Nat
  /\ Owner \in [Ids -> Citizens]
  /\ Stamp \in [Ids -> Nat]
  /\ MaxLimit \in Nat /\ DefaultLimit \in 1..MaxLimit
  /\ Nobody \notin Citizens

VARIABLES
  table,            \* the rows of notifications, as ids
  read,             \* the rows whose column read is TRUE
  user,             \* user[k]: the citizen who uses client k
  call,             \* call[k]: the List between its two statements, if any; its
                    \* field rows is history
  reply,            \* the last response of the API
  walk,             \* history: walk[k], the pages that client k has followed up
  asked,            \* history: rows that their owner asked to mark
  acked             \* history: rows whose marking was answered by 200

data == <<table, read>>
marks == <<asked, acked>>
vars == <<table, read, user, call, reply, walk, asked, acked>>

NoCall == [ref |-> Nobody, limit |-> 0, offset |-> 0, items |-> <<>>, rows |-> {}]

NoWalk == [next |-> 0, limit |-> 0, start |-> {}, shown |-> {}, twice |-> {},
           ended |-> FALSE]

\* A response to citizen c: its status, what the body is, its rows and its number.
Response(c, code, body, items, offset, count) ==
  [to |-> c, code |-> code, body |-> body, items |-> items, offset |-> offset,
   count |-> count]

Status(c, code) == Response(c, code, "status", <<>>, 0, 0)

Init ==
  /\ table = {}
  /\ read = {}
  /\ user \in [Clients -> Citizens]
  /\ call = [k \in Clients |-> NoCall]
  /\ reply = Status(Nobody, 401)
  /\ walk = [k \in Clients |-> NoWalk]
  /\ asked = {}
  /\ acked = {}

-----------------------------------------------------------------------------
(* Requests *)

\* A request, by the citizen whom CitizenRefFromContext finds.
Authenticated(c) == c \in Citizens

\* ParsePagination, one parameter each.
Limit(param) == IF param = Absent THEN DefaultLimit ELSE param
Offset(param) == IF param = Absent THEN 0 ELSE param

LimitAccepted(param) == Limit(param) \in 1..MaxLimit
OffsetAccepted(param) == Offset(param) \in Nat

\* AuthMiddleware: 401 without a valid token, whatever the request.
Unauthorized(c) ==
  /\ ~Authenticated(c)
  /\ reply' = Status(c, 401)
  /\ UNCHANGED <<data, user, call, walk, marks>>

-----------------------------------------------------------------------------
(* Statements *)

\* Mutant: WHERE without citizen_ref.
AnyRow(ref) == table

\* WHERE citizen_ref = $1
Where(ref) == {n \in table : Owner[n] = ref}

\* Mutant: ORDER BY event_timestamp DESC.
BeforeByTimestamp(m, n) == Stamp[m] > Stamp[n]

\* ORDER BY event_timestamp DESC, id DESC
Before(m, n) == Stamp[m] > Stamp[n] \/ (Stamp[m] = Stamp[n] /\ m > n)

\* The orders in which Postgres may return the rows: rows that ORDER BY does not
\* tell apart come in any order.
Orders(rows) ==
  {seq \in SetToSeqs(rows) :
     \A i, j \in DOMAIN seq : i < j => ~Before(seq[j], seq[i])}

\* Mutant: one row more than the limit.
SliceAndOne(seq, limit, offset) ==
  SubSeq(seq, offset + 1, Min({offset + limit + 1, Len(seq)}))

\* LIMIT $2 OFFSET $3
Slice(seq, limit, offset) == SubSeq(seq, offset + 1, Min({offset + limit, Len(seq)}))

\* Mutant: the condition of CountUnread.
CountUnseen(ref) == Cardinality({n \in Where(ref) : n \notin read})

CountAll(ref) == Cardinality(Where(ref))

CountUnread(ref) == Cardinality({n \in Where(ref) : n \notin read})

-----------------------------------------------------------------------------
(* GET /notifications *)

\* The history of a session that follows up its pages: a page at offset 0 begins a
\* walk, a page where the last one ended continues it.  It ends when the response
\* says that there is nothing further.
Followed(w, q, total) ==
  LET items == ToSet(q.items)
      begins == q.offset = 0
      continues == ~w.ended /\ q.offset = w.next /\ q.limit = w.limit
  IN IF begins \/ continues
     THEN [ next |-> q.offset + q.limit,
            limit |-> q.limit,
            start |-> IF begins THEN q.rows ELSE w.start,
            shown |-> IF begins THEN items ELSE w.shown \cup items,
            twice |-> IF begins THEN {} ELSE w.twice \cup (w.shown \cap items),
            ended |-> q.offset + Len(q.items) >= total ]
     ELSE w

\* List up to the end of the page query; CountAll follows.
ListPage(k, l, o) ==
  /\ call[k] = NoCall
  /\ Authenticated(user[k])
  /\ LimitAccepted(l) /\ OffsetAccepted(o)
  /\ \E seq \in Orders(Where(user[k])) :
       call' = [call EXCEPT ![k] =
                  [ref |-> user[k], limit |-> Limit(l), offset |-> Offset(o),
                   items |-> Slice(seq, Limit(l), Offset(o)), rows |-> Where(user[k])]]
  /\ UNCHANGED <<data, user, reply, walk, marks>>

\* CountAll, and the response with the page and the total.
ListTotal(k) ==
  /\ call[k] # NoCall
  /\ LET q == call[k]
         total == CountAll(q.ref)
     IN /\ reply' = Response(q.ref, 200, "page", q.items, q.offset, total)
        /\ walk' = [walk EXCEPT ![k] = Followed(@, q, total)]
  /\ call' = [call EXCEPT ![k] = NoCall]
  /\ UNCHANGED <<data, user, marks>>

\* CountAll fails.
ListFail(k) ==
  /\ call[k] # NoCall
  /\ reply' = Status(call[k].ref, 500)
  /\ call' = [call EXCEPT ![k] = NoCall]
  /\ UNCHANGED <<data, user, walk, marks>>

\* List: ParsePagination refuses a parameter.
ListRefused(c, l, o) ==
  /\ Authenticated(c)
  /\ ~(LimitAccepted(l) /\ OffsetAccepted(o))
  /\ reply' = Status(c, 400)
  /\ UNCHANGED <<data, user, call, walk, marks>>

-----------------------------------------------------------------------------
(* PATCH /notifications/:id/read and GET /notifications/unread-count *)

\* Mutant: SET read = NOT read.
Toggled(n) == IF n \in read THEN read \ {n} ELSE read \cup {n}

\* SET read = TRUE
Marked(n) == read \cup {n}

\* MarkRead of a row of the citizen; the statement may commit and its result be lost
\* on the way, or be kept from Scan by the breaker: then the answer is 500.
MarkRead(c, n) ==
  /\ Authenticated(c)
  /\ n \in Where(c)
  /\ read' = Marked(n)
  /\ asked' = asked \cup {n}
  /\ \/ /\ reply' = Response(c, 200, "row", <<n>>, 0, 0)
        /\ acked' = acked \cup {n}
     \/ /\ reply' = Status(c, 500)
        /\ UNCHANGED acked
  /\ UNCHANGED <<table, user, call, walk>>

\* MarkRead: the id is no UUID, or no row of the citizen has it.
MarkReadNotFound(c, n) ==
  /\ Authenticated(c)
  /\ n \notin Where(c)
  /\ reply' = Status(c, 404)
  /\ UNCHANGED <<data, user, call, walk, marks>>

UnreadCount(c) ==
  /\ Authenticated(c)
  /\ reply' = Response(c, 200, "count", <<>>, 0, CountUnread(c))
  /\ UNCHANGED <<data, user, call, walk, marks>>

\* The only statement of a request, or the page query, fails.
Fail(c) ==
  /\ Authenticated(c)
  /\ reply' = Status(c, 500)
  /\ UNCHANGED <<data, user, call, walk, marks>>

-----------------------------------------------------------------------------
(* The rest of the system *)

\* NotificationRepo.Insert by the webhook or the worker, in any order of id and
\* timestamp: a row starts unread.
Insert(n) ==
  /\ n \notin table
  /\ table' = table \cup {n}
  /\ UNCHANGED <<read, user, call, reply, walk, marks>>

Request(c) ==
  \/ Unauthorized(c)
  \/ \E l \in LimitParams, o \in OffsetParams : ListRefused(c, l, o)
  \/ \E n \in Ids \cup {Malformed} : MarkRead(c, n) \/ MarkReadNotFound(c, n)
  \/ UnreadCount(c)
  \/ Fail(c)

List(k) ==
  \/ \E l \in LimitParams, o \in OffsetParams : ListPage(k, l, o)
  \/ ListTotal(k)
  \/ ListFail(k)

Next ==
  \/ \E k \in Clients : List(k)
  \/ \E c \in Citizens \cup {Nobody} : Request(c)
  \/ \E n \in Ids : Insert(n)

Spec == Init /\ [][Next]_vars

-----------------------------------------------------------------------------
(* Properties *)

\* The values the variables take.
InboxTypeOK ==
  /\ read \subseteq table /\ table \subseteq Ids
  /\ user \in [Clients -> Citizens]
  /\ \A k \in Clients :
       /\ call[k].ref \in Citizens \cup {Nobody}
       /\ call[k].limit \in 0..MaxLimit /\ Len(call[k].items) <= call[k].limit
       /\ ToSet(call[k].items) \subseteq call[k].rows
       /\ walk[k].shown \subseteq table /\ walk[k].twice \subseteq walk[k].shown
  /\ reply.code \in {200, 400, 401, 404, 500}
  /\ reply.count \in 0..MaxId
  /\ acked \subseteq asked /\ asked \subseteq table

\* A client that follows the pages of List until the total tells it to stop has seen
\* every notification there was when it began, whatever was inserted meanwhile and
\* however timestamps coincide.
WalkIsComplete ==
  \A k \in Clients : walk[k].ended => walk[k].start \subseteq walk[k].shown

\* The pages of List overlap only because of insertions: no more notifications are
\* shown twice than were inserted for the citizen since the first page.
RepeatsAreInserts ==
  \A k \in Clients :
    Cardinality(walk[k].twice) <= Cardinality(Where(user[k]) \ walk[k].start)

\* The total of List is counted after its page and never denies a row of the page:
\* a client that stops at the total stops behind what it has seen.
TotalCoversPage ==
  reply.body = "page" /\ reply.items # <<>> =>
    reply.offset + Len(reply.items) <= reply.count

\* No response carries a row of another citizen.
OwnRowsOnly == \A n \in ToSet(reply.items) : Owner[n] = reply.to

\* unread_count counts no notification whose marking was acknowledged to the citizen,
\* and every one that he never asked to mark, whatever requests of his were repeated,
\* failed or came at the same time.
UnreadIsRight ==
  [][\A c \in Citizens :
       UnreadCount(c) =>
         /\ reply'.count <= Cardinality(Where(c) \ acked)
         /\ reply'.count >= Cardinality(Where(c) \ asked)]_vars
=============================================================================
