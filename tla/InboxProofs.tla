---------------------------- MODULE InboxProofs -----------------------------
(***************************************************************************)
(* Theorems about Inbox, for any rows, citizens, clients and parameters.   *)
(***************************************************************************)
EXTENDS Inbox, FiniteSetTheorems, SequenceTheorems, TLAPS

\* The marks: what was acknowledged is read, and what is read was asked for.
MarksInv ==
  /\ table \subseteq Ids
  /\ acked \subseteq read
  /\ read \subseteq asked
  /\ asked \subseteq table

\* The rows of a List in progress are those of the client's citizen.
CallInv ==
  /\ user \in [Clients -> Citizens]
  /\ DOMAIN call = Clients
  /\ \A k \in Clients :
       call[k] # NoCall => \A n \in ToSet(call[k].items) : Owner[n] = call[k].ref

\* The rows that a List in progress found are still there, and its page lies within them.
PageInv ==
  \A k \in Clients :
    call[k] # NoCall =>
      /\ call[k].rows \subseteq Where(call[k].ref)
      /\ call[k].offset \in Nat /\ Len(call[k].items) \in Nat
      /\ call[k].items # <<>> =>
           call[k].offset + Len(call[k].items) <= Cardinality(call[k].rows)

IInv == MarksInv /\ CallInv /\ PageInv /\ OwnRowsOnly /\ TotalCoversPage

\* LIMIT and OFFSET give rows of the sequence (notification.go:99).
LEMMA SliceOfRows ==
  ASSUME NEW rows, NEW n \in Nat, NEW seq \in [1..n -> rows],
         NEW limit \in Nat, NEW offset \in Nat
  PROVE  /\ ToSet(Slice(seq, limit, offset)) \subseteq rows
         /\ Len(Slice(seq, limit, offset)) \in Nat
         /\ Slice(seq, limit, offset) # <<>> => offset + Len(Slice(seq, limit, offset)) <= n
  <1> DEFINE end == Min({offset + limit, n})
  <1>1. seq \in Seq(rows) /\ Len(seq) = n
    BY IsASeq, LenProperties
  <1>2. \E x \in {offset + limit, n} : \A y \in {offset + limit, n} : x =< y
    OBVIOUS
  <1>3. end \in {offset + limit, n} /\ end =< n
    BY <1>2 DEF Min
  <1> HIDE DEF end
  <1>4. offset + 1 \in Int /\ end \in Int /\ \A i \in (offset + 1)..end : seq[i] \in rows
    BY <1>3
  <1>5. /\ SubSeq(seq, offset + 1, end) \in Seq(rows)
        /\ Len(SubSeq(seq, offset + 1, end)) =
             IF offset + 1 <= end THEN end - (offset + 1) + 1 ELSE 0
    BY <1>4, SubSeqProperties
  <1>6. \A s \in Seq(rows) : ToSet(s) \subseteq rows
    BY LenProperties DEF ToSet
  <1>7. Slice(seq, limit, offset) = SubSeq(seq, offset + 1, end)
    BY <1>1 DEF end, Slice
  <1>8. offset + 1 > end => SubSeq(seq, offset + 1, end) = <<>>
    BY <1>4, SubSeqEmpty
  <1>9. Slice(seq, limit, offset) # <<>> => offset + Len(Slice(seq, limit, offset)) <= n
    BY <1>3, <1>4, <1>5, <1>7, <1>8
  <1>10. Len(Slice(seq, limit, offset)) \in Nat
    BY <1>5, <1>7, LenProperties
  <1>11. ToSet(Slice(seq, limit, offset)) \subseteq rows
    BY <1>5, <1>6, <1>7
  <1> QED
    BY <1>9, <1>10, <1>11

\* ORDER BY arranges the rows and nothing else (notification.go:98).
LEMMA OrdersOfRows ==
  ASSUME NEW rows, IsFiniteSet(rows), NEW seq \in Orders(rows)
  PROVE  Cardinality(rows) \in Nat /\ seq \in [1..Cardinality(rows) -> rows]
  BY FS_CardinalityType DEF Orders, SetToSeqs

\* An answer that is only a status carries no rows (handler.go:96).
LEMMA NoRows ==
  ASSUME NEW c, NEW code
  PROVE  Status(c, code).items = <<>> /\ Status(c, code).body # "page"
  BY DEF Status, Response

\* The rows of an answer with none and of one with a single row.
LEMMA ToSetSmall == ToSet(<<>>) = {} /\ \A n : ToSet(<<n>>) = {n}
  BY DEF ToSet

\* The set of rows is finite, and WHERE picks rows of the citizen (notification.go:97).
LEMMA WhereFinite ==
  ASSUME table \subseteq Ids, NEW c
  PROVE  IsFiniteSet(Where(c)) /\ \A n \in Where(c) : n \in table /\ Owner[n] = c
  <1>1. IsFiniteSet(Ids)
    BY InboxAssumption, FS_Interval DEF Ids
  <1> QED
    BY <1>1, FS_Subset DEF Where

\* Nobody has listed or marked anything at the start.
LEMMA InitIInv == Init => IInv
  BY NoRows, ToSetSmall DEF Init, IInv, MarksInv, CallInv, PageInv, OwnRowsOnly, TotalCoversPage

\* A page holds rows of the citizen who asked (notification.go:92-116).
LEMMA PageIsOwn ==
  ASSUME IInv, NEW k \in Clients, NEW l, NEW o, ListPage(k, l, o)
  PROVE  IInv'
  <1>1. PICK seq \in Orders(Where(user[k])) :
          call' = [call EXCEPT ![k] =
                     [ref |-> user[k], limit |-> Limit(l), offset |-> Offset(o),
                      items |-> Slice(seq, Limit(l), Offset(o)), rows |-> Where(user[k])]]
    BY DEF ListPage
  <1>2. Limit(l) \in Nat /\ Offset(o) \in Nat
    BY InboxAssumption DEF ListPage, LimitAccepted, OffsetAccepted
  <1>3. /\ Cardinality(Where(user[k])) \in Nat
        /\ seq \in [1..Cardinality(Where(user[k])) -> Where(user[k])]
    BY <1>1, OrdersOfRows, WhereFinite DEF IInv, MarksInv
  <1>4. ToSet(Slice(seq, Limit(l), Offset(o))) \subseteq Where(user[k])
    BY <1>2, <1>3, SliceOfRows
  <1>5. \A n \in ToSet(call'[k].items) : Owner[n] = call'[k].ref
    BY <1>1, <1>4, WhereFinite DEF IInv, MarksInv, CallInv
  <1>6. CallInv'
    BY <1>1, <1>5 DEF IInv, CallInv, ListPage
  <1>7. /\ Len(Slice(seq, Limit(l), Offset(o))) \in Nat
        /\ Slice(seq, Limit(l), Offset(o)) # <<>> =>
             Offset(o) + Len(Slice(seq, Limit(l), Offset(o))) <= Cardinality(Where(user[k]))
    BY <1>2, <1>3, SliceOfRows
  <1>8. PageInv'
    BY <1>1, <1>2, <1>7 DEF IInv, CallInv, PageInv, ListPage, Where, data
  <1> QED
    BY <1>6, <1>8 DEF IInv, MarksInv, OwnRowsOnly, TotalCoversPage, ListPage, data, marks

\* Every request and every insertion keeps the invariant.
LEMMA NextIInv == IInv /\ [Next]_vars => IInv'
  <1> SUFFICES ASSUME IInv, [Next]_vars
               PROVE  IInv'
    OBVIOUS
  <1> USE DEF data, marks, IInv
  <1>1. ASSUME NEW k \in Clients, ListTotal(k)
        PROVE  IInv'
    <2> DEFINE q == call[k]
    <2>1. /\ q.rows \subseteq Where(q.ref) /\ IsFiniteSet(Where(q.ref))
          /\ q.offset \in Nat /\ Len(q.items) \in Nat
          /\ q.items # <<>> => q.offset + Len(q.items) <= Cardinality(q.rows)
      BY <1>1, WhereFinite DEF ListTotal, MarksInv, PageInv
    <2>2. /\ Cardinality(q.rows) \in Nat /\ CountAll(q.ref) \in Nat
          /\ Cardinality(q.rows) <= CountAll(q.ref)
      BY <2>1, FS_Subset, FS_CardinalityType DEF CountAll
    <2>3. TotalCoversPage'
      BY <1>1, <2>1, <2>2 DEF ListTotal, Response, TotalCoversPage
    <2>4. PageInv'
      BY <1>1 DEF ListTotal, PageInv, CallInv, Where
    <2> QED
      BY <1>1, <2>3, <2>4 DEF ListTotal, Response, MarksInv, CallInv, OwnRowsOnly
  <1>2. ASSUME NEW k \in Clients, ListFail(k)
        PROVE  IInv'
    BY <1>2, NoRows, ToSetSmall DEF ListFail, MarksInv, CallInv, PageInv, OwnRowsOnly,
       TotalCoversPage, Where
  <1>3. ASSUME NEW c, NEW n, MarkRead(c, n)
        PROVE  IInv'
    <2>1. n \in table /\ Owner[n] = c
      BY <1>3 DEF MarkRead, Where
    <2>2. MarksInv'
      BY <1>3, <2>1 DEF MarkRead, Marked, MarksInv
    <2>3. OwnRowsOnly'
      BY <1>3, <2>1, NoRows, ToSetSmall DEF MarkRead, Response, OwnRowsOnly
    <2>4. TotalCoversPage'
      BY <1>3, NoRows DEF MarkRead, Response, TotalCoversPage
    <2> QED
      BY <1>3, <2>2, <2>3, <2>4 DEF MarkRead, CallInv, PageInv, Where
  <1>4. ASSUME NEW c, NEW code, reply' = Status(c, code),
               UNCHANGED <<table, read, user, call, asked, acked>>
        PROVE  IInv'
    BY <1>4, NoRows, ToSetSmall DEF MarksInv, CallInv, PageInv, OwnRowsOnly, TotalCoversPage,
       Where
  <1>5. ASSUME NEW c, Request(c)
        PROVE  IInv'
    <2>1. CASE UnreadCount(c)
      BY <2>1, ToSetSmall DEF UnreadCount, Response, MarksInv, CallInv, PageInv, OwnRowsOnly,
         TotalCoversPage, Where
    <2>2. CASE Unauthorized(c) \/ Fail(c)
      BY <2>2, <1>4 DEF Unauthorized, Fail
    <2>3. ASSUME NEW l, NEW o, ListRefused(c, l, o)
          PROVE  IInv'
      BY <2>3, <1>4 DEF ListRefused
    <2>4. ASSUME NEW n, MarkReadNotFound(c, n)
          PROVE  IInv'
      BY <2>4, <1>4 DEF MarkReadNotFound
    <2> QED
      BY <1>3, <1>5, <2>1, <2>2, <2>3, <2>4 DEF Request
  <1>6. ASSUME NEW n \in Ids, Insert(n)
        PROVE  IInv'
    BY <1>6 DEF Insert, MarksInv, CallInv, PageInv, OwnRowsOnly, TotalCoversPage, Where
  <1>7. CASE UNCHANGED vars
    BY <1>7 DEF vars, MarksInv, CallInv, PageInv, OwnRowsOnly, TotalCoversPage, Where
  <1> QED
    BY <1>1, <1>2, <1>5, <1>6, <1>7, PageIsOwn DEF Next, List

\* The inductive invariant holds in every state of the API.
THEOREM Invariance == Spec => []IInv
  BY InitIInv, NextIInv, PTL DEF Spec

-----------------------------------------------------------------------------
\* No response of the REST API carries a row of a citizen other than the one whom the
\* token names, whatever the parameters (notification.go:97, notification.go:129).
THEOREM Isolation == Spec => []OwnRowsOnly
  <1>1. IInv => OwnRowsOnly
    BY DEF IInv
  <1> QED
    BY <1>1, Invariance, PTL

\* The total that List counts after its page (notification.go:118) never denies a row of
\* the page, whatever is inserted between the two statements.
THEOREM TotalAgrees == Spec => []TotalCoversPage
  <1>1. IInv => TotalCoversPage
    BY DEF IInv
  <1> QED
    BY <1>1, Invariance, PTL

\* unread_count leaves out what was acknowledged as read and includes what nobody asked to
\* mark, for any repetition, failure and interleaving of MarkRead (notification.go:125-148).
THEOREM UnreadCorrect == Spec => UnreadIsRight
  <1> DEFINE Right(c) == UnreadCount(c) =>
               /\ reply'.count <= Cardinality(Where(c) \ acked)
               /\ reply'.count >= Cardinality(Where(c) \ asked)
  <1>1. ASSUME IInv, NEW c \in Citizens
        PROVE  Right(c)
    <2> DEFINE unread == {n \in Where(c) : n \notin read}
    <2>1. /\ IsFiniteSet(Where(c) \ acked) /\ unread \subseteq Where(c) \ acked
          /\ IsFiniteSet(unread) /\ Where(c) \ asked \subseteq unread
      BY <1>1, WhereFinite, FS_Subset DEF IInv, MarksInv
    <2>2. /\ Cardinality(unread) <= Cardinality(Where(c) \ acked)
          /\ Cardinality(Where(c) \ asked) <= Cardinality(unread)
      BY <2>1, FS_Subset
    <2>3. /\ Cardinality(unread) \in Nat
          /\ Cardinality(Where(c) \ asked) \in Nat
      BY <2>1, FS_Subset, FS_CardinalityType
    <2>4. UnreadCount(c) => reply'.count = Cardinality(unread)
      BY DEF UnreadCount, CountUnread, Response
    <2> QED
      BY <2>2, <2>3, <2>4
  <1>2. IInv /\ [Next]_vars => [\A c \in Citizens : Right(c)]_vars
    BY <1>1
  <1> QED
    BY <1>2, Invariance, PTL DEF Spec, UnreadIsRight
=============================================================================
