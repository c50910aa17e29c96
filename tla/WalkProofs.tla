----------------------------- MODULE WalkProofs ------------------------------
(***************************************************************************)
(* What a client that follows the pages of List sees: theorems about       *)
(* Inbox for any rows, timestamps and parameters, and any insertions       *)
(* between the pages and between the two statements of a page.             *)
(***************************************************************************)
EXTENDS InboxProofs, FunctionTheorems

-----------------------------------------------------------------------------
(* The position of a row *)

\* Before, and the row itself.
UpTo(n, rows) == {m \in rows : m = n \/ Before(m, n)}

\* The position of row n in ORDER BY event_timestamp DESC, id DESC.
Rank(n, rows) == Cardinality(UpTo(n, rows))

\* The first p rows.
Top(p, rows) == {n \in rows : Rank(n, rows) <= p}

\* ORDER BY is a total order (notification.go:98).
LEMMA BeforeIsTotal ==
  /\ \A m \in Ids : ~Before(m, m)
  /\ \A m, n \in Ids : m # n => (Before(m, n) <=> ~Before(n, m))
  /\ \A m, n, r \in Ids : Before(m, n) /\ Before(n, r) => Before(m, r)
<1>1. \A n \in Ids : n \in Nat /\ Stamp[n] \in Nat
  BY InboxAssumption DEF Ids
<1> QED
  BY <1>1 DEF Before

LEMMA IdsFinite ==
  ASSUME NEW rows \in SUBSET Ids
  PROVE  IsFiniteSet(rows) /\ Cardinality(rows) \in Nat
<1>1. IsFiniteSet(Ids)
  BY InboxAssumption, FS_Interval DEF Ids
<1> QED
  BY <1>1, FS_Subset, FS_CardinalityType

LEMMA RankType ==
  ASSUME NEW rows \in SUBSET Ids, NEW n
  PROVE  Rank(n, rows) \in Nat /\ Rank(n, rows) <= Cardinality(rows)
<1>1. UpTo(n, rows) \in SUBSET rows /\ UpTo(n, rows) \in SUBSET Ids
  BY DEF UpTo
<1> QED
  BY <1>1, IdsFinite, FS_Subset DEF Rank

\* Two rows have different positions.
LEMMA RankInjective ==
  ASSUME NEW rows \in SUBSET Ids, NEW m \in rows, NEW n \in rows, m # n
  PROVE  Rank(m, rows) # Rank(n, rows)
<1>1. ASSUME NEW a \in rows, NEW b \in rows, Before(a, b) PROVE Rank(a, rows) # Rank(b, rows)
  <2>1. UpTo(a, rows) \in SUBSET UpTo(b, rows) /\ IsFiniteSet(UpTo(b, rows))
    <3>1. \A r \in UpTo(a, rows) : r \in UpTo(b, rows)
      BY <1>1, BeforeIsTotal DEF UpTo
    <3>2. UpTo(b, rows) \in SUBSET Ids
      BY DEF UpTo
    <3> QED
      BY <3>1, <3>2, IdsFinite
  <2>2. b \in UpTo(b, rows) /\ b \notin UpTo(a, rows)
    BY <1>1, BeforeIsTotal DEF UpTo
  <2>3. Cardinality(UpTo(b, rows)) = Cardinality(UpTo(a, rows)) => UpTo(b, rows) = UpTo(a, rows)
    BY <2>1, FS_Subset
  <2> QED
    BY <2>2, <2>3 DEF Rank
<1> QED
  BY <1>1, BeforeIsTotal

\* An insertion moves a row by one position, or not at all.
LEMMA RankAfterInsert ==
  ASSUME NEW rows \in SUBSET Ids, NEW x \in Ids \ rows, NEW n \in rows
  PROVE  Rank(n, rows \cup {x}) \in {Rank(n, rows), Rank(n, rows) + 1}
<1> DEFINE u == UpTo(n, rows)
<1>1. u \in SUBSET Ids /\ x \notin u /\ UpTo(n, rows \cup {x}) \in {u, u \cup {x}}
  BY DEF UpTo
<1>2. IsFiniteSet(u)
  BY <1>1, IdsFinite
<1> HIDE DEF u
<1>3. Cardinality(u \cup {x}) = Cardinality(u) + 1
  BY <1>1, <1>2, FS_AddElement
<1> QED
  BY <1>1, <1>3 DEF Rank, u

\* A page query puts every row at its position.
LEMMA OrderIsRank ==
  ASSUME NEW rows \in SUBSET Ids, NEW seq \in Orders(rows)
  PROVE  /\ seq \in [1..Cardinality(rows) -> rows] /\ Cardinality(rows) \in Nat
         /\ \A i \in 1..Cardinality(rows) : Rank(seq[i], rows) = i
         /\ \A n \in rows : seq[Rank(n, rows)] = n /\ Rank(n, rows) \in 1..Cardinality(rows)
<1> DEFINE c == Cardinality(rows)  D == 1..c
<1>1. /\ IsFiniteSet(rows) /\ c \in Nat /\ seq \in [D -> rows]
      /\ \A i, j \in D : i # j => seq[i] # seq[j]
      /\ \A i, j \in D : i < j => ~Before(seq[j], seq[i])
  <2>1. seq \in SetToSeqs(rows) /\ \A i, j \in DOMAIN seq : i < j => ~Before(seq[j], seq[i])
    BY DEF Orders
  <2>2. seq \in [D -> rows] /\ \A i, j \in D : i # j => seq[i] # seq[j]
    BY <2>1 DEF SetToSeqs
  <2> QED
    BY <2>1, <2>2, IdsFinite
<1>2. \A n \in rows : \E i \in D : seq[i] = n
  <2>1. IsFiniteSet(D) /\ Cardinality(D) = c
    BY <1>1, FS_Interval
  <2>2. seq \in Injection(D, rows)
    BY <1>1, Fun_IsInj
  <2>3. IsFiniteSet(rows) /\ Cardinality(D) = Cardinality(rows)
    BY <1>1, <2>1
  <2> HIDE DEF D
  <2>4. seq \in Surjection(D, rows)
    BY <2>2, <2>3, FS_Injection
  <2> QED
    BY <2>4, Fun_SurjectionProperties
<1> HIDE DEF c
<1>3. ASSUME NEW i \in D PROVE Rank(seq[i], rows) = i
  <2> DEFINE f == [j \in 1..i |-> seq[j]]  u == UpTo(seq[i], rows)
  <2>1. i \in Nat /\ 1..i \subseteq D
    BY <1>1
  <2>2. ASSUME NEW j \in D PROVE seq[j] \in u <=> j <= i
    <3>1. seq[i] \in Ids /\ seq[j] \in Ids /\ seq[i] \in rows /\ seq[j] \in rows
      BY <1>1
    <3>2. CASE j = i
      BY <3>1, <3>2, <1>1 DEF UpTo
    <3>3. CASE j < i
      <4>1. seq[j] # seq[i] /\ ~Before(seq[i], seq[j])
        BY <1>1, <3>3
      <4> QED
        BY <1>1, <3>1, <3>3, <4>1, BeforeIsTotal DEF UpTo
    <3>4. CASE i < j
      <4>1. seq[j] # seq[i] /\ ~Before(seq[j], seq[i])
        BY <1>1, <3>4
      <4> QED
        BY <1>1, <3>4, <4>1 DEF UpTo
    <3> QED
      BY <1>1, <3>2, <3>3, <3>4
  <2>3. f \in [1..i -> u]
    BY <2>1, <2>2
  <2>4. \A a, b \in 1..i : f[a] = f[b] => a = b
    BY <1>1, <2>1
  <2>5. ASSUME NEW n \in u PROVE \E j \in 1..i : f[j] = n
    <3>1. PICK j \in D : seq[j] = n
      BY <1>2 DEF UpTo
    <3>2. j \in 1..i
      BY <2>2, <3>1, <1>1
    <3> QED
      BY <3>1, <3>2
  <2>6. f \in Bijection(1..i, u)
    BY <2>3, <2>4, <2>5, Fun_IsBij
  <2>7. Cardinality(u) = i
    BY <2>1, <2>6, FS_CountingElements DEF ExistsBijection
  <2> QED
    BY <2>7 DEF Rank
<1>4. \A n \in rows : seq[Rank(n, rows)] = n /\ Rank(n, rows) \in D
  BY <1>2, <1>3
<1> QED
  BY <1>1, <1>3, <1>4 DEF c

\* LIMIT and OFFSET cut out the rows at these positions (notification.go:99).
LEMMA PageByRank ==
  ASSUME NEW rows \in SUBSET Ids, NEW seq \in Orders(rows), NEW limit \in Nat, NEW offset \in Nat
  PROVE  /\ ToSet(Slice(seq, limit, offset)) = Top(offset + limit, rows) \ Top(offset, rows)
         /\ Len(Slice(seq, limit, offset)) <= limit
<1> DEFINE c == Cardinality(rows)  end == Min({offset + limit, c})
           page == SubSeq(seq, offset + 1, end)
<1>1. /\ c \in Nat /\ seq \in [1..c -> rows]
      /\ \A i \in 1..c : Rank(seq[i], rows) = i
      /\ \A n \in rows : seq[Rank(n, rows)] = n /\ Rank(n, rows) \in 1..c
  BY OrderIsRank
<1>2. Len(seq) = c
  <2> HIDE DEF c
  <2> QED
    BY <1>1, IsASeq, LenProperties
<1> HIDE DEF c
<1>3. /\ end = offset + limit \/ end = c
      /\ end <= offset + limit /\ end <= c /\ end \in Nat
  <2>1. \E x \in {offset + limit, c} : \A y \in {offset + limit, c} : x =< y
    BY <1>1
  <2>2. /\ end \in {offset + limit, c}
        /\ \A y \in {offset + limit, c} : end =< y
    BY <2>1 DEF Min
  <2> QED
    BY <1>1, <2>2
<1> HIDE DEF end
<1>4. \A i \in (offset + 1)..end : seq[i] \in rows
  BY <1>1, <1>3
<1>5. /\ page \in Seq(rows)
      /\ Len(page) = IF offset + 1 <= end THEN end - (offset + 1) + 1 ELSE 0
      /\ \A i \in 1..(end - (offset + 1) + 1) : page[i] = seq[offset + 1 + i - 1]
  BY <1>3, <1>4, SubSeqProperties
<1>6. Slice(seq, limit, offset) = page
  BY <1>2 DEF Slice, end
<1> HIDE DEF page
<1>7. Len(page) <= limit /\ Len(page) \in Nat /\ DOMAIN page = 1..Len(page)
  BY <1>3, <1>5, LenProperties
<1>8. ASSUME NEW i \in DOMAIN page
      PROVE  page[i] \in Top(offset + limit, rows) \ Top(offset, rows)
  <2>1. /\ offset + i \in 1..c /\ offset + i <= offset + limit /\ ~(offset + i <= offset)
        /\ i \in 1..(end - (offset + 1) + 1) /\ offset + 1 + i - 1 = offset + i
    BY <1>1, <1>3, <1>5, <1>7
  <2>2. page[i] = seq[offset + i]
    BY <1>5, <2>1
  <2> QED
    BY <1>1, <2>1, <2>2 DEF Top
<1>9. ASSUME NEW n \in Top(offset + limit, rows) \ Top(offset, rows) PROVE n \in ToSet(page)
  <2> DEFINE r == Rank(n, rows)
  <2>1. n \in rows /\ r \in 1..c /\ seq[r] = n /\ r <= offset + limit /\ ~(r <= offset)
    BY <1>1 DEF Top
  <2> HIDE DEF r
  <2>2. /\ r - offset \in 1..(end - (offset + 1) + 1) /\ offset + 1 + (r - offset) - 1 = r
        /\ r - offset \in 1..Len(page)
    BY <1>1, <1>3, <1>5, <2>1
  <2>3. page[r - offset] = n
    BY <1>5, <2>1, <2>2
  <2> QED
    BY <1>7, <2>2, <2>3 DEF ToSet
<1>10. ToSet(page) = Top(offset + limit, rows) \ Top(offset, rows)
  BY <1>8, <1>9 DEF ToSet
<1> QED
  BY <1>6, <1>7, <1>10

\* The first p rows are among the first q, if p <= q, and all the rows are first rows.
LEMMA TopGrows ==
  ASSUME NEW rows \in SUBSET Ids, NEW p \in Nat, NEW q \in Nat
  PROVE  /\ Top(p, rows) \subseteq Top(p + q, rows)
         /\ Cardinality(rows) <= p => Top(p, rows) = rows
         /\ Top(0, rows) = {}
<1>1. \A n \in rows : Rank(n, rows) \in Nat /\ Rank(n, rows) <= Cardinality(rows)
  BY RankType
<1>2. Cardinality(rows) \in Nat
  BY IdsFinite
<1>3. ASSUME NEW n \in rows PROVE Rank(n, rows) # 0
  <2>1. n \in UpTo(n, rows) /\ UpTo(n, rows) \in SUBSET Ids
    BY DEF UpTo
  <2>2. Cardinality(UpTo(n, rows)) # 0
    BY <2>1, IdsFinite, FS_EmptySet
  <2> QED
    BY <2>2 DEF Rank
<1> QED
  BY <1>1, <1>2, <1>3 DEF Top

\* An insertion pushes one row at most out of the first p.
LEMMA TopAfterInsert ==
  ASSUME NEW rows \in SUBSET Ids, NEW x \in Ids \ rows, NEW p \in Nat
  PROVE  /\ Top(p, rows \cup {x}) \cap rows \subseteq Top(p, rows)
         /\ \E y : Top(p, rows) \subseteq Top(p, rows \cup {x}) \cup {y}
<1> DEFINE new == rows \cup {x}
<1>1. \A n \in rows : /\ Rank(n, rows) \in Nat
                      /\ Rank(n, new) \in {Rank(n, rows), Rank(n, rows) + 1}
  BY RankType, RankAfterInsert
<1>2. Top(p, new) \cap rows \subseteq Top(p, rows)
  BY <1>1 DEF Top
<1>3. \A n \in Top(p, rows) : n \notin Top(p, new) => Rank(n, rows) = p
  BY <1>1 DEF Top
<1>4. \A m, n \in Top(p, rows) : m \notin Top(p, new) /\ n \notin Top(p, new) => m = n
  BY <1>3, RankInjective DEF Top
<1>5. \E y : Top(p, rows) \subseteq Top(p, new) \cup {y}
  <2>1. CASE \E y \in Top(p, rows) : y \notin Top(p, new)
    BY <1>4, <2>1
  <2>2. CASE ~\E y \in Top(p, rows) : y \notin Top(p, new)
    BY <2>2
  <2> QED
    BY <2>1, <2>2
<1> QED
  BY <1>2, <1>5
-----------------------------------------------------------------------------
(* The pages that a client has followed up *)

\* A walk that stands at offset next, over the rows there are now: of what was there when
\* it began, all that now precedes the offset was shown; and what was shown twice, with
\* what was shown and has been pushed behind the offset, so that it may be shown again, is
\* no more than what was inserted.
Track(next, start, shown, twice, rows) ==
  /\ next \in Nat
  /\ start \subseteq rows /\ shown \subseteq rows /\ twice \subseteq shown
  /\ start \cap Top(next, rows) \subseteq shown
  /\ Cardinality(twice) + Cardinality(shown \ Top(next, rows)) <= Cardinality(rows \ start)

OnTrack(w, rows) == Track(w.next, w.start, w.shown, w.twice, rows)

\* An insertion between two pages shifts one row behind the offset, and is one more row.
LEMMA InsertKeepsTrack ==
  ASSUME NEW rows \in SUBSET Ids, NEW x \in Ids \ rows,
         NEW next, NEW start, NEW shown, NEW twice, Track(next, start, shown, twice, rows)
  PROVE  Track(next, start, shown, twice, rows \cup {x})
<1> DEFINE new == rows \cup {x}
           ahead == shown \ Top(next, rows)
           later == shown \ Top(next, new)
<1>1. /\ next \in Nat /\ start \subseteq rows /\ shown \subseteq rows /\ twice \subseteq shown
      /\ start \cap Top(next, rows) \subseteq shown
      /\ Cardinality(twice) + Cardinality(ahead) <= Cardinality(rows \ start)
  BY DEF Track
<1>2. /\ Top(next, new) \cap rows \subseteq Top(next, rows)
      /\ \E y : Top(next, rows) \subseteq Top(next, new) \cup {y}
  BY <1>1, TopAfterInsert
<1>3. PICK y : Top(next, rows) \subseteq Top(next, new) \cup {y}
  BY <1>2
<1>4. /\ IsFiniteSet(ahead) /\ Cardinality(ahead) \in Nat
      /\ IsFiniteSet(rows \ start) /\ Cardinality(rows \ start) \in Nat
      /\ IsFiniteSet(later) /\ Cardinality(later) \in Nat /\ Cardinality(twice) \in Nat
  <2>1. ahead \in SUBSET Ids /\ later \in SUBSET Ids /\ rows \ start \in SUBSET Ids
        /\ twice \in SUBSET Ids
    BY <1>1
  <2> HIDE DEF ahead, later
  <2> QED
    BY <2>1, IdsFinite
<1>5. Cardinality(new \ start) = Cardinality(rows \ start) + 1
  <2>1. new \ start = (rows \ start) \cup {x} /\ x \notin rows \ start
    BY <1>1
  <2> QED
    BY <2>1, <1>4, FS_AddElement
<1>6. Cardinality(later) <= Cardinality(ahead) + 1
  <2>1. later \subseteq ahead \cup {y}
    BY <1>3
  <2> HIDE DEF ahead, later
  <2>2. /\ IsFiniteSet(ahead \cup {y})
        /\ Cardinality(ahead \cup {y}) <= Cardinality(ahead) + 1
        /\ Cardinality(ahead \cup {y}) \in Nat
    <3>1. /\ IsFiniteSet(ahead \cup {y})
          /\ Cardinality(ahead \cup {y})
               = IF y \in ahead THEN Cardinality(ahead) ELSE Cardinality(ahead) + 1
      BY <1>4, FS_AddElement
    <3> QED
      BY <1>4, <3>1
  <2>3. Cardinality(later) <= Cardinality(ahead \cup {y})
    BY <2>1, <2>2, FS_Subset
  <2> QED
    BY <1>4, <2>2, <2>3
<1>7. start \cap Top(next, new) \subseteq shown /\ start \subseteq new /\ shown \subseteq new
  BY <1>1, <1>2
<1>8. Cardinality(twice) + Cardinality(later) <= Cardinality(new \ start)
  <2> HIDE DEF ahead, later, new
  <2> QED
    BY <1>1, <1>4, <1>5, <1>6
<1> QED
  BY <1>1, <1>7, <1>8 DEF Track

\* The page at offset 0 begins a walk.
LEMMA FirstPageOnTrack ==
  ASSUME NEW rows \in SUBSET Ids, NEW limit \in Nat
  PROVE  Track(0 + limit, rows, Top(0 + limit, rows) \ Top(0, rows), {}, rows)
<1>1. Top(0, rows) = {} /\ Top(limit, rows) \subseteq rows
  BY TopGrows DEF Top
<1>2. Cardinality({}) = 0
  BY FS_EmptySet
<1> DEFINE shown == Top(0 + limit, rows) \ Top(0, rows)
<1>3. shown \ Top(0 + limit, rows) = {} /\ rows \ rows = {} /\ 0 + limit \in Nat
  OBVIOUS
<1>4. rows \cap Top(0 + limit, rows) \subseteq shown /\ shown \subseteq rows
  BY <1>1
<1> HIDE DEF shown
<1>5. Cardinality({}) + Cardinality(shown \ Top(0 + limit, rows)) <= Cardinality(rows \ rows)
  BY <1>2, <1>3
<1>6. Track(0 + limit, rows, shown, {}, rows)
  BY <1>3, <1>4, <1>5 DEF Track
<1> QED
  BY <1>6 DEF shown

\* The page where the last one ended continues the walk.
LEMMA NextPageOnTrack ==
  ASSUME NEW rows \in SUBSET Ids, NEW limit \in Nat, NEW next, NEW start, NEW shown, NEW twice,
         Track(next, start, shown, twice, rows)
  PROVE  LET items == Top(next + limit, rows) \ Top(next, rows)
         IN Track(next + limit, start, shown \cup items, twice \cup (shown \cap items), rows)
<1> DEFINE T == Top(next, rows)  U == Top(next + limit, rows)
           items == U \ T  again == shown \cap items
<1>1. /\ next \in Nat /\ start \subseteq rows /\ shown \subseteq rows /\ twice \subseteq shown
      /\ start \cap T \subseteq shown
      /\ Cardinality(twice) + Cardinality(shown \ T) <= Cardinality(rows \ start)
  BY DEF Track
<1>2. T \subseteq U /\ U \subseteq rows
  BY <1>1, TopGrows DEF Top
<1> HIDE DEF T, U
<1>3. /\ shown \ T = again \cup (shown \ U) /\ again \cap (shown \ U) = {}
      /\ (shown \cup items) \ U = shown \ U
  BY <1>2
<1>4. /\ IsFiniteSet(again) /\ IsFiniteSet(shown \ U) /\ IsFiniteSet(twice)
      /\ Cardinality(again) \in Nat /\ Cardinality(shown \ U) \in Nat
      /\ Cardinality(twice) \in Nat /\ Cardinality(rows \ start) \in Nat
  <2>1. again \in SUBSET Ids /\ shown \ U \in SUBSET Ids /\ twice \in SUBSET Ids
        /\ rows \ start \in SUBSET Ids
    BY <1>1
  <2> HIDE DEF again, items
  <2> QED
    BY <2>1, IdsFinite
<1>5. Cardinality(shown \ T) = Cardinality(again) + Cardinality(shown \ U)
  <2> HIDE DEF again, items
  <2>1. Cardinality(again \cup (shown \ U))
          = Cardinality(again) + Cardinality(shown \ U) - Cardinality(again \cap (shown \ U))
    BY <1>4, FS_Union
  <2>2. Cardinality(again \cap (shown \ U)) = 0
    BY <1>3, FS_EmptySet
  <2>3. Cardinality(shown \ T) = Cardinality(again \cup (shown \ U))
    BY <1>3
  <2> QED
    BY <1>4, <2>1, <2>2, <2>3
<1>6. Cardinality(twice \cup again) <= Cardinality(twice) + Cardinality(again)
      /\ Cardinality(twice \cup again) \in Nat
  <2> HIDE DEF again, items
  <2>1. /\ IsFiniteSet(twice \cup again)
        /\ Cardinality(twice \cup again)
             = Cardinality(twice) + Cardinality(again) - Cardinality(twice \cap again)
    BY <1>4, FS_Union
  <2>2. Cardinality(twice \cap again) \in Nat
    BY <1>4, FS_Intersection, FS_CardinalityType
  <2> QED
    BY <1>4, <2>1, <2>2, FS_CardinalityType
<1>7. Cardinality(twice \cup again) + Cardinality((shown \cup items) \ U) <= Cardinality(rows \ start)
  <2>1. Cardinality((shown \cup items) \ U) = Cardinality(shown \ U)
    BY <1>3
  <2> HIDE DEF again, items
  <2> QED
    BY <1>1, <1>4, <1>5, <1>6, <2>1
<1>8. /\ start \cap U \subseteq shown \cup items
      /\ shown \cup items \subseteq rows /\ twice \cup again \subseteq shown \cup items
  BY <1>1, <1>2
<1>9. next + limit \in Nat
  BY <1>1
<1>10. Track(next + limit, start, shown \cup items, twice \cup again, rows)
  <2> HIDE DEF again, items
  <2> QED
    BY <1>1, <1>7, <1>8, <1>9 DEF Track, U
<1> QED
  BY <1>10 DEF T, U

-----------------------------------------------------------------------------
(* The invariant *)

\* A List in progress whose page is on the way to its client: the walk as the client will
\* have it is on track already, and stays so whatever is inserted before CountAll.
PageOnTrack(k) ==
  /\ call[k].ref = user[k]
  /\ call[k].limit \in 1..MaxLimit /\ Len(call[k].items) <= call[k].limit
  /\ ToSet(call[k].items) \subseteq call[k].rows
  /\ OnTrack(Followed(walk[k], call[k], 0), Where(user[k]))

WalkInv ==
  /\ DOMAIN walk = Clients
  /\ \A k \in Clients :
       /\ OnTrack(walk[k], Where(user[k]))
       /\ walk[k].ended => walk[k].start \subseteq walk[k].shown
       /\ call[k] # NoCall => PageOnTrack(k)

\* The total decides whether a walk ends, and nothing else about it.
LEMMA TotalEndsOnly ==
  ASSUME NEW w, NEW q, NEW total, NEW rows
  PROVE  OnTrack(Followed(w, q, total), rows) <=> OnTrack(Followed(w, q, 0), rows)
  BY DEF OnTrack, Followed

\* A page query puts the walk that it begins or continues on track.
LEMMA PageQueryOnTrack ==
  ASSUME NEW rows \in SUBSET Ids, NEW seq \in Orders(rows), NEW w, OnTrack(w, rows),
         NEW limit \in Nat, NEW offset \in Nat, NEW ref,
         NEW q, q = [ref |-> ref, limit |-> limit, offset |-> offset,
                     items |-> Slice(seq, limit, offset), rows |-> rows]
  PROVE  OnTrack(Followed(w, q, 0), rows)
<1> DEFINE page == Top(offset + limit, rows) \ Top(offset, rows)
           f == Followed(w, q, 0)
<1>1. /\ q.limit = limit /\ q.offset = offset /\ q.rows = rows
      /\ ToSet(q.items) = page
  BY PageByRank
<1> HIDE DEF page
<1>2. CASE offset = 0
  <2>1. f.next = 0 + limit /\ f.start = rows /\ f.shown = page /\ f.twice = {}
    BY <1>1, <1>2 DEF Followed
  <2>2. Track(0 + limit, rows, page, {}, rows)
    BY <1>2, FirstPageOnTrack DEF page
  <2> QED
    BY <2>1, <2>2 DEF OnTrack
<1>3. CASE offset # 0 /\ ~w.ended /\ offset = w.next /\ limit = w.limit
  <2>1. /\ f.next = offset + limit /\ f.start = w.start
        /\ f.shown = w.shown \cup page /\ f.twice = w.twice \cup (w.shown \cap page)
    BY <1>1, <1>3 DEF Followed
  <2>2. Track(offset, w.start, w.shown, w.twice, rows)
    BY <1>3 DEF OnTrack
  <2>3. Track(offset + limit, w.start, w.shown \cup page, w.twice \cup (w.shown \cap page), rows)
    BY <2>2, NextPageOnTrack DEF page
  <2> QED
    BY <2>1, <2>3 DEF OnTrack
<1>4. CASE offset # 0 /\ ~(~w.ended /\ offset = w.next /\ limit = w.limit)
  <2>1. f = w
    BY <1>1, <1>4 DEF Followed
  <2> QED
    BY <2>1
<1> QED
  BY <1>2, <1>3, <1>4

\* A walk that the total ends has no row left behind its offset.
LEMMA EndedWalkIsComplete ==
  ASSUME NEW rows \in SUBSET Ids, NEW w, w.ended => w.start \subseteq w.shown,
         NEW q, q.offset \in Nat, q.limit \in Nat, Len(q.items) \in Nat, Len(q.items) <= q.limit,
         OnTrack(Followed(w, q, 0), rows)
  PROVE  LET f == Followed(w, q, Cardinality(rows)) IN f.ended => f.start \subseteq f.shown
<1> DEFINE f == Followed(w, q, Cardinality(rows))
           goes == q.offset = 0 \/ (~w.ended /\ q.offset = w.next /\ q.limit = w.limit)
<1>1. OnTrack(f, rows)
  BY TotalEndsOnly
<1>2. CASE ~goes
  BY <1>2 DEF Followed
<1>3. ASSUME goes, f.ended PROVE f.start \subseteq f.shown
  <2>1. f.next = q.offset + q.limit /\ Cardinality(rows) <= q.offset + Len(q.items)
    BY <1>3 DEF Followed
  <2> HIDE DEF f
  <2>2. f.next \in Nat /\ Cardinality(rows) <= f.next
    BY <2>1, IdsFinite
  <2>3. Top(f.next, rows) = rows
    BY <2>2, TopGrows
  <2> QED
    BY <1>1, <2>3 DEF OnTrack, Track
<1> QED
  BY <1>2, <1>3

\* WHERE citizen_ref = $1 finds ids.
LEMMA WhereIds == MarksInv => \A c : Where(c) \in SUBSET Ids
  BY DEF MarksInv, Where

\* Nobody has listed anything at the start.
LEMMA InitWalk == Init => WalkInv
<1> SUFFICES ASSUME Init, NEW k \in Clients
             PROVE  OnTrack(NoWalk, {}) /\ ~NoWalk.ended
  BY DEF Init, WalkInv, Where
<1>1. Cardinality({}) = 0 /\ {} \ {} = {} /\ \A s : {} \ s = {}
  BY FS_EmptySet
<1> QED
  BY <1>1 DEF NoWalk, OnTrack, Track

\* A page query (notification.go:92-116).
LEMMA ListPageWalk ==
  ASSUME IInv, WalkInv, NEW k \in Clients, NEW l, NEW o, ListPage(k, l, o)
  PROVE  WalkInv'
<1> DEFINE rows == Where(user[k])
<1>1. PICK seq \in Orders(rows) :
        call' = [call EXCEPT ![k] =
                   [ref |-> user[k], limit |-> Limit(l), offset |-> Offset(o),
                    items |-> Slice(seq, Limit(l), Offset(o)), rows |-> rows]]
  BY DEF ListPage
<1>2. Limit(l) \in 1..MaxLimit /\ Limit(l) \in Nat /\ Offset(o) \in Nat
  BY InboxAssumption DEF ListPage, LimitAccepted, OffsetAccepted
<1>3. rows \in SUBSET Ids
  BY WhereIds DEF IInv
<1>4. /\ UNCHANGED <<user, walk, table>> /\ \A c : Where(c)' = Where(c)
      /\ DOMAIN call = Clients
  BY DEF ListPage, data, Where, IInv, CallInv
<1> DEFINE q == call'[k]
<1>5. q = [ref |-> user[k], limit |-> Limit(l), offset |-> Offset(o),
           items |-> Slice(seq, Limit(l), Offset(o)), rows |-> rows]
  BY <1>1, <1>4
<1>6. \A j \in Clients : j # k => call'[j] = call[j]
  BY <1>1, <1>4
<1> HIDE DEF q, rows
<1>7. /\ ToSet(Slice(seq, Limit(l), Offset(o))) \subseteq rows
      /\ Len(Slice(seq, Limit(l), Offset(o))) <= Limit(l)
  BY <1>2, <1>3, PageByRank DEF Top
<1>8. OnTrack(Followed(walk[k], q, 0), rows)
  <2>1. OnTrack(walk[k], rows)
    BY DEF WalkInv, rows
  <2> QED
    BY <1>2, <1>3, <1>5, <2>1, PageQueryOnTrack
<1>9. PageOnTrack(k)'
  BY <1>2, <1>4, <1>5, <1>7, <1>8 DEF PageOnTrack, q, rows
<1>10. ASSUME NEW j \in Clients, j # k, call[j] # NoCall, PageOnTrack(j) PROVE PageOnTrack(j)'
  BY <1>4, <1>6, <1>10 DEF PageOnTrack
<1> QED
  BY <1>4, <1>6, <1>9, <1>10 DEF WalkInv

\* CountAll, with the response that shows the page to the client (notification.go:118).
LEMMA ListTotalWalk ==
  ASSUME IInv, WalkInv, NEW k \in Clients, ListTotal(k)
  PROVE  WalkInv'
<1> DEFINE rows == Where(user[k])  q == call[k]  f == Followed(walk[k], q, Cardinality(rows))
<1>1. /\ q # NoCall /\ PageOnTrack(k) /\ q.offset \in Nat /\ Len(q.items) \in Nat
      /\ walk[k].ended => walk[k].start \subseteq walk[k].shown
  BY DEF ListTotal, WalkInv, IInv, PageInv
<1>2. rows \in SUBSET Ids
  BY WhereIds DEF IInv
<1>3. /\ UNCHANGED <<user, table>> /\ \A c : Where(c)' = Where(c)
      /\ DOMAIN call = Clients /\ DOMAIN walk = Clients
  BY DEF ListTotal, data, Where, IInv, CallInv, WalkInv
<1>4. walk' = [walk EXCEPT ![k] = f] /\ call' = [call EXCEPT ![k] = NoCall]
  BY <1>1 DEF ListTotal, CountAll, PageOnTrack
<1>5. OnTrack(f, rows)
  BY <1>1, TotalEndsOnly DEF PageOnTrack
<1>6. f.ended => f.start \subseteq f.shown
  <2>1. /\ q.limit \in Nat /\ Len(q.items) <= q.limit
        /\ OnTrack(Followed(walk[k], q, 0), rows)
    BY <1>1, InboxAssumption DEF PageOnTrack
  <2> QED
    BY <1>1, <1>2, <2>1, EndedWalkIsComplete
<1> HIDE DEF f
<1>7. walk'[k] = f /\ call'[k] = NoCall
  BY <1>3, <1>4
<1>8. \A j \in Clients : j # k => walk'[j] = walk[j] /\ call'[j] = call[j]
  BY <1>3, <1>4
<1>9. ASSUME NEW j \in Clients, j # k, PageOnTrack(j) PROVE PageOnTrack(j)'
  BY <1>3, <1>8, <1>9 DEF PageOnTrack
<1>10. DOMAIN walk' = Clients
  BY <1>3, <1>4
<1> QED
  BY <1>3, <1>5, <1>6, <1>7, <1>8, <1>9, <1>10 DEF WalkInv

\* NotificationRepo.Insert between any two statements (notification.go:56).
LEMMA InsertWalk ==
  ASSUME IInv, WalkInv, NEW n \in Ids, Insert(n)
  PROVE  WalkInv'
<1>1. ASSUME NEW c, NEW w, OnTrack(w, Where(c)) PROVE OnTrack(w, Where(c)')
  <2>1. Where(c) \in SUBSET Ids /\ n \notin Where(c)
    BY WhereIds DEF IInv, Insert, Where
  <2>2. Where(c)' = Where(c) \/ Where(c)' = Where(c) \cup {n}
    BY DEF Insert, Where
  <2>3. OnTrack(w, Where(c) \cup {n})
    BY <1>1, <2>1, InsertKeepsTrack DEF OnTrack
  <2> QED
    BY <1>1, <2>2, <2>3
<1>2. UNCHANGED <<user, call, walk>>
  BY DEF Insert
<1>3. ASSUME NEW k \in Clients, PageOnTrack(k) PROVE PageOnTrack(k)'
  BY <1>1, <1>2, <1>3 DEF PageOnTrack
<1> QED
  BY <1>1, <1>2, <1>3 DEF WalkInv

\* Every request and every insertion keeps the walks on track.
LEMMA NextWalk == IInv /\ WalkInv /\ [Next]_vars => WalkInv'
<1> SUFFICES ASSUME IInv, WalkInv, [Next]_vars
             PROVE  WalkInv'
  OBVIOUS
<1>1. ASSUME UNCHANGED <<table, user, call, walk>> PROVE WalkInv'
  BY <1>1 DEF WalkInv, PageOnTrack, Where
<1>2. ASSUME NEW k \in Clients, ListFail(k) PROVE WalkInv'
  <2>1. /\ UNCHANGED <<table, user, walk>> /\ call' = [call EXCEPT ![k] = NoCall]
        /\ DOMAIN call = Clients /\ \A c : Where(c)' = Where(c)
    BY <1>2 DEF ListFail, data, IInv, CallInv, Where
  <2>2. \A j \in Clients : call'[j] # NoCall => call'[j] = call[j]
    BY <2>1
  <2>3. ASSUME NEW j \in Clients, call'[j] # NoCall PROVE PageOnTrack(j)'
    <3>1. PageOnTrack(j) /\ call'[j] = call[j]
      BY <2>2, <2>3 DEF WalkInv
    <3> QED
      BY <2>1, <3>1 DEF PageOnTrack
  <2> QED
    BY <2>1, <2>3 DEF WalkInv
<1>3. ASSUME NEW c, Request(c) PROVE WalkInv'
  BY <1>1, <1>3 DEF Request, Unauthorized, ListRefused, MarkRead, MarkReadNotFound, UnreadCount,
     Fail, data
<1>4. CASE UNCHANGED vars
  BY <1>1, <1>4 DEF vars
<1> QED
  BY <1>2, <1>3, <1>4, ListPageWalk, ListTotalWalk, InsertWalk DEF Next, List

\* The walks are on track in every state of the API.
THEOREM WalksOnTrack == Spec => []WalkInv
  BY InitWalk, NextWalk, Invariance, PTL DEF Spec

-----------------------------------------------------------------------------
\* A client that follows the pages of List until the total tells it to stop has seen every
\* notification that was there when it began, for any insertions between the pages and
\* between the statements of a page and for coinciding timestamps (notification.go:92-123).
THEOREM WalksComplete == Spec => []WalkIsComplete
<1>1. WalkInv => WalkIsComplete
  BY DEF WalkInv, WalkIsComplete
<1> QED
  BY <1>1, WalksOnTrack, PTL

\* The pages of List show no more notifications twice than were inserted for the citizen
\* since the first page (notification.go:98-99).
THEOREM RepeatsBounded == Spec => []RepeatsAreInserts
<1>1. ASSUME IInv, WalkInv, NEW k \in Clients
      PROVE  Cardinality(walk[k].twice) <= Cardinality(Where(user[k]) \ walk[k].start)
  <2> DEFINE w == walk[k]  rows == Where(user[k])  ahead == w.shown \ Top(w.next, rows)
  <2>1. OnTrack(w, rows) /\ rows \in SUBSET Ids
    BY <1>1, WhereIds DEF IInv, WalkInv
  <2>2. /\ w.twice \in SUBSET Ids /\ ahead \in SUBSET Ids /\ rows \ w.start \in SUBSET Ids
        /\ Cardinality(w.twice) + Cardinality(ahead) <= Cardinality(rows \ w.start)
    BY <2>1 DEF OnTrack, Track
  <2> HIDE DEF ahead, w, rows
  <2>3. /\ Cardinality(w.twice) \in Nat /\ Cardinality(ahead) \in Nat
        /\ Cardinality(rows \ w.start) \in Nat
    BY <2>2, IdsFinite
  <2>4. Cardinality(w.twice) <= Cardinality(rows \ w.start)
    BY <2>2, <2>3
  <2> QED
    BY <2>4 DEF w, rows
<1>2. IInv /\ WalkInv => RepeatsAreInserts
  BY <1>1 DEF RepeatsAreInserts
<1> QED
  BY <1>2, Invariance, WalksOnTrack, PTL

-----------------------------------------------------------------------------
(* The type invariant *)

\* The status and the number of a response.
ReplyInv == reply.code \in {200, 400, 401, 404, 500} /\ reply.count \in 0..MaxId

\* A count of rows is no more than the rows there can be (notification.go:141-160).
LEMMA CountsBounded ==
  ASSUME NEW rows \in SUBSET Ids
  PROVE  Cardinality(rows) \in 0..MaxId
<1>1. IsFiniteSet(Ids) /\ Cardinality(Ids) = MaxId
  BY InboxAssumption, FS_Interval DEF Ids
<1>2. Cardinality(rows) <= Cardinality(Ids) /\ Cardinality(rows) \in Nat
  BY <1>1, FS_Subset, IdsFinite
<1> QED
  BY <1>1, <1>2, InboxAssumption

LEMMA NextReply == IInv /\ ReplyInv /\ [Next]_vars => ReplyInv'
<1> SUFFICES ASSUME IInv, ReplyInv, [Next]_vars
             PROVE  ReplyInv'
  OBVIOUS
<1>1. 0 \in 0..MaxId /\ \A c : CountAll(c) \in 0..MaxId /\ CountUnread(c) \in 0..MaxId
  <2>1. \A c : Where(c) \in SUBSET Ids /\ {n \in Where(c) : n \notin read} \in SUBSET Ids
    BY WhereIds DEF IInv
  <2> QED
    BY <2>1, CountsBounded, InboxAssumption DEF CountAll, CountUnread
<1>2. ASSUME NEW k \in Clients, List(k) PROVE ReplyInv'
  BY <1>1, <1>2 DEF List, ListPage, ListTotal, ListFail, Response, Status, ReplyInv
<1>3. ASSUME NEW c, Request(c) PROVE ReplyInv'
  <2>1. CASE UnreadCount(c)
    BY <1>1, <2>1 DEF UnreadCount, Response, ReplyInv
  <2>2. CASE Unauthorized(c) \/ Fail(c)
    BY <1>1, <2>2 DEF Unauthorized, Fail, Response, Status, ReplyInv
  <2>3. ASSUME NEW l, NEW o, ListRefused(c, l, o) PROVE ReplyInv'
    BY <1>1, <2>3 DEF ListRefused, Response, Status, ReplyInv
  <2>4. ASSUME NEW n, MarkRead(c, n) \/ MarkReadNotFound(c, n) PROVE ReplyInv'
    BY <1>1, <2>4 DEF MarkRead, MarkReadNotFound, Response, Status, ReplyInv
  <2> QED
    BY <1>3, <2>1, <2>2, <2>3, <2>4 DEF Request
<1>4. ASSUME UNCHANGED reply PROVE ReplyInv'
  BY <1>4 DEF ReplyInv
<1> QED
  BY <1>2, <1>3, <1>4 DEF Next, Insert, vars

\* The variables keep their types, and a page holds no more rows than its limit and none
\* that the query did not find (notification.go:92-116, pagination.go:10-28).
THEOREM InboxTypeCorrect == Spec => []InboxTypeOK
<1>1. Init => ReplyInv
  BY InboxAssumption DEF Init, ReplyInv, Status, Response
<1>2. ASSUME IInv, WalkInv, ReplyInv PROVE InboxTypeOK
  <2>1. ASSUME NEW k \in Clients
        PROVE  /\ call[k].ref \in Citizens \cup {Nobody}
               /\ call[k].limit \in 0..MaxLimit /\ Len(call[k].items) <= call[k].limit
               /\ ToSet(call[k].items) \subseteq call[k].rows
    <3>1. CASE call[k] = NoCall
      <4>1. Len(<<>>) = 0 /\ ToSet(<<>>) = {}
        BY ToSetSmall
      <4> QED
        BY <3>1, <4>1, InboxAssumption DEF NoCall
    <3>2. CASE call[k] # NoCall
      BY <1>2, <3>2, InboxAssumption DEF WalkInv, PageOnTrack, IInv, CallInv
    <3> QED
      BY <3>1, <3>2
  <2>2. ASSUME NEW k \in Clients
        PROVE  walk[k].shown \subseteq table /\ walk[k].twice \subseteq walk[k].shown
    <3>1. OnTrack(walk[k], Where(user[k])) /\ Where(user[k]) \subseteq table
      BY <1>2 DEF WalkInv, Where
    <3> QED
      BY <3>1 DEF OnTrack, Track
  <2>3. /\ read \subseteq table /\ table \subseteq Ids /\ user \in [Clients -> Citizens]
        /\ acked \subseteq asked /\ asked \subseteq table
    BY <1>2 DEF IInv, MarksInv, CallInv
  <2> QED
    BY <1>2, <2>1, <2>2, <2>3 DEF InboxTypeOK, ReplyInv
<1> QED
  BY <1>1, <1>2, NextReply, Invariance, WalksOnTrack, PTL DEF Spec
=============================================================================
