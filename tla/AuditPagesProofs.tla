-------------------------- MODULE AuditPagesProofs --------------------------
(***************************************************************************)
(* Reading on through the pages of the audit trail misses nothing, for     *)
(* every size of a page, every number of events and every order in which   *)
(* they are built, committed and read.                                     *)
(***************************************************************************)
EXTENDS AuditPages, FiniteOrders, SequenceTheorems

\* The rows: no id twice, among those not yet committed either.
RowsInv ==
    /\ now \in Nat
    /\ IsFiniteSet(events)
    /\ \A e \in begun \cup events : e.at \in Nat /\ e.id \in Nat
    /\ \A e, f \in begun \cup events : e.id = f.id => e = f

Sorted(list) == \A i, j \in DOMAIN list : i < j => Newer(list[i], list[j])

\* The cursor is that of the last event listed.
Ends(list, c) == c # Nothing => /\ Len(list) > 0
                                /\ c = EncodeCursor(list[Len(list)])

\* What was there is listed, or is still to come.
Reaches(list, c, S) == \A e \in S : e \in ToSet(list) \/ (c # Nothing /\ Newer(c, e))

\* What the page lists, as long as it was read with one filter.
ListInv ==
    /\ items \in Seq(events) /\ Sorted(items) /\ Ends(items, cursor)
    /\ applied \subseteq Filter
    /\ cursor # Nothing => applied # {}
    /\ first \subseteq events
    /\ \A f \in applied : applied = {f} =>
          /\ \A e \in ToSet(items) \cup first : Answering(e, f)
          /\ Reaches(items, cursor, first)

\* What the route has found for a request.
FoundInv ==
    /\ request.found.page \in Seq(events) /\ Sorted(request.found.page)
    /\ Ends(request.found.page, request.found.next)
    /\ request.matching \subseteq events
    /\ \A e \in ToSet(request.found.page) \cup request.matching : Answering(e, request.filter)
    /\ request.append /\ applied = {request.filter} => first \subseteq request.matching
    /\ request.from # Nothing => \A e \in ToSet(request.found.page) : Newer(request.from, e)
    /\ Reaches(request.found.page, request.found.next,
               {e \in request.matching : request.from = Nothing \/ Newer(request.from, e)})

\* The list stays as it is as long as a request is under way.
RequestInv ==
    request # Nothing =>
        /\ DOMAIN request = {"append", "filter", "from", "found", "matching"}
        /\ request.append \in BOOLEAN /\ request.filter \in Filter
        /\ request.append => request.from = cursor /\ cursor # Nothing
        /\ ~request.append => request.from = Nothing
        /\ request.found # Nothing => FoundInv

PagesInv == RowsInv /\ chosen \in Filter /\ ListInv /\ RequestInv

-----------------------------------------------------------------------------
(* The order of the events.                                                *)

Ordered(S) ==
    /\ \A e \in S : e.at \in Nat /\ e.id \in Nat
    /\ \A e, f \in S : e.id = f.id => e = f

(* The newest events of a set: sorted, and the others are older.           *)
NewestIs(list, S, n) ==
    /\ list \in Seq(S) /\ Sorted(list) /\ Len(list) <= n
    /\ \A e \in S : e \in ToSet(list)
                    \/ (Len(list) = n /\ \A i \in DOMAIN list : Newer(list[i], e))

LEMMA NewestFound ==
  ASSUME NEW S, IsFiniteSet(S), Ordered(S), NEW n \in Nat
  PROVE  NewestIs(Newest(S, n), S, n)
<1> DEFINE R == {p \in S \X S : Newer(p[1], p[2])}
           place == [e \in S |-> 1 + Cardinality({f \in S : Newer(f, e)})]
           size == IF Cardinality(S) < n THEN Cardinality(S) ELSE n
           list == Newest(S, n)
<1>1. \A x, y \in S : <<x, y>> \in R <=> Newer(x, y)
  OBVIOUS
<1>2. Orders(R, S)
  <2> HIDE DEF R
  <2>1. \A x, y \in S : Newer(x, y) => ~Newer(y, x)
    BY DEF Newer, Ordered
  <2>2. \A x, y, z \in S : Newer(x, y) /\ Newer(y, z) => Newer(x, z)
    BY DEF Newer, Ordered
  <2>3. \A x, y \in S : x = y \/ Newer(x, y) \/ Newer(y, x)
    BY DEF Newer, Ordered
  <2>4. QED
    BY <1>1, <2>1, <2>2, <2>3, Zenon DEF Orders
<1>3. Numbered(R, S)
  BY <1>2, Numbering
<1>4. \A x \in S : place[x] = Place(R, S, x)
  <2>1. ASSUME NEW x \in S PROVE {f \in S : Newer(f, x)} = {f \in S : <<f, x>> \in R}
    <3> HIDE DEF R
    <3>1. QED
      BY <1>1
  <2> HIDE DEF R
  <2>2. QED
    BY <2>1 DEF Place
<1>5. Cardinality(S) \in Nat
  BY <1>3 DEF Numbered
<1>6. /\ \A x \in S : place[x] \in 1..Cardinality(S)
      /\ \A x, y \in S : Newer(x, y) => place[x] < place[y]
      /\ \A k \in 1..Cardinality(S) : \E x \in S : place[x] = k
  <2> HIDE DEF R, place
  <2>1. QED
    BY <1>1, <1>3, <1>4 DEF Numbered
<1>7. list = [i \in 1..size |-> CHOOSE e \in S : place[e] = i]
  BY DEF Newest
<1>8. size \in Nat /\ size <= n /\ size <= Cardinality(S)
  BY <1>5
<1>9. size < n => size = Cardinality(S)
  BY <1>5
<1> HIDE DEF place, size, list
<1>10. \A i \in 1..size : list[i] \in S /\ place[list[i]] = i
  <2>1. ASSUME NEW i \in 1..size PROVE list[i] \in S /\ place[list[i]] = i
    <3>1. \E x \in S : place[x] = i
      BY <1>5, <1>6, <1>8
    <3>2. list[i] = CHOOSE e \in S : place[e] = i
      BY <1>7
    <3>3. QED
      BY <3>1, <3>2
  <2>2. QED
    BY <2>1
<1>11. DOMAIN list = 1..size /\ list \in Seq(S) /\ Len(list) = size
  <2>1. DOMAIN list = 1..size /\ list \in [1..size -> S]
    BY <1>7, <1>10
  <2>2. QED
    BY <2>1, <1>8, SeqDef
<1>12. Sorted(list)
  <2>1. ASSUME NEW i \in 1..size, NEW j \in 1..size, i < j PROVE Newer(list[i], list[j])
    <3>1. list[i] \in S /\ list[j] \in S /\ place[list[i]] = i /\ place[list[j]] = j
      BY <1>10
    <3>2. list[i] # list[j] /\ ~Newer(list[j], list[i])
      BY <3>1, <2>1, <1>6, <1>8
    <3>3. QED
      BY <3>1, <3>2, <1>1, <1>2 DEF Orders
  <2>2. QED
    BY <2>1, <1>11 DEF Sorted
<1>13. ASSUME NEW e \in S, e \notin ToSet(list)
       PROVE  Len(list) = n /\ \A i \in DOMAIN list : Newer(list[i], e)
  <2>1. place[e] \in 1..Cardinality(S)
    BY <1>6
  <2>2. \A x \in S : place[x] = place[e] => x = e
    <3>1. ASSUME NEW x \in S, place[x] = place[e] PROVE x = e
      <4>1. ~Newer(x, e) /\ ~Newer(e, x)
        BY <1>6, <2>1, <3>1, <1>5
      <4>2. QED
        BY <4>1, <1>1, <1>2 DEF Orders
    <3>2. QED
      BY <3>1
  <2>3. place[e] \notin 1..size
    <3>1. SUFFICES ASSUME place[e] \in 1..size PROVE FALSE
      OBVIOUS
    <3>2. list[place[e]] = e
      BY <3>1, <1>10, <2>2
    <3>3. QED
      BY <3>1, <3>2, <1>11, <1>13 DEF ToSet
  <2>4. size < place[e]
    BY <2>1, <2>3, <1>5, <1>8
  <2>5. size = n
    BY <2>1, <2>4, <1>5, <1>8, <1>9
  <2>6. ASSUME NEW i \in 1..size PROVE Newer(list[i], e)
    <3>1. list[i] \in S /\ place[list[i]] = i
      BY <1>10
    <3>2. list[i] # e /\ ~Newer(e, list[i])
      BY <3>1, <2>4, <1>6, <1>8
    <3>3. QED
      BY <3>1, <3>2, <1>1, <1>2 DEF Orders
  <2>7. QED
    BY <2>5, <2>6, <1>11
<1>14. QED
  BY <1>8, <1>11, <1>12, <1>13, Zenon DEF NewestIs, list

(* What the route answers, of the rows there are when it reads them.       *)
LEMMA PageFound ==
  ASSUME RowsInv, NEW filter, NEW c, NEW found, found = ListAuditEvents(filter, c)
  PROVE  /\ found.page \in Seq(events) /\ Sorted(found.page)
         /\ Ends(found.page, found.next)
         /\ \A e \in ToSet(found.page) : Answering(e, filter) /\ (c # Nothing => Newer(c, e))
         /\ Reaches(found.page, found.next,
                    {e \in events : Answering(e, filter) /\ (c = Nothing \/ Newer(c, e))})
<1> DEFINE S == {e \in Older(c) : Answering(e, filter)}
           records == Newest(S, Limit + 1)
           page == SubSeq(records, 1, IF Len(records) < Limit THEN Len(records) ELSE Limit)
<1>1. found.page = page /\ found.next = IF Len(records) > Limit THEN EncodeCursor(Last(page)) ELSE Nothing
  BY DEF ListAuditEvents
<1>2. S = {e \in events : Answering(e, filter) /\ (c = Nothing \/ Newer(c, e))}
  BY DEF Older
<1> HIDE DEF S
<1>3. S \in SUBSET events
  BY <1>2
<1>4. IsFiniteSet(S) /\ Ordered(S)
  <2>1. IsFiniteSet(S)
    BY <1>3, FS_Subset DEF RowsInv
  <2>2. Ordered(S)
    BY <1>3 DEF RowsInv, Ordered
  <2>3. QED
    BY <2>1, <2>2
<1>5. Limit \in Nat /\ Limit > 0
  BY AuditAssumption
<1>6. NewestIs(records, S, Limit + 1)
  <2>1. Limit + 1 \in Nat
    BY <1>5
  <2>2. QED
    BY <2>1, <1>4, NewestFound
<1> DEFINE size == IF Len(records) < Limit THEN Len(records) ELSE Limit
<1>7. PICK list : list = records
  OBVIOUS
<1>8. /\ list \in Seq(S) /\ Sorted(list) /\ Len(list) \in Nat /\ Len(list) <= Limit + 1
      /\ DOMAIN list = 1..Len(list) /\ \A i \in DOMAIN list : list[i] \in S
  BY <1>6, <1>7 DEF NewestIs
<1>9. \A e \in S : e \in ToSet(list)
                  \/ (Len(list) = Limit + 1 /\ \A i \in DOMAIN list : Newer(list[i], e))
  BY <1>6, <1>7 DEF NewestIs
<1>10. /\ Len(list) < Limit => size = Len(list)
       /\ ~(Len(list) < Limit) => size = Limit
       /\ page = SubSeq(list, 1, size)
  BY <1>7
<1> HIDE DEF records, size, page
<1>21. PICK n \in Nat : n = Len(list) /\ n <= Limit + 1
  BY <1>8
<1>11. size \in Nat /\ size <= Limit /\ size <= n /\ (n > Limit => size = Limit) /\ (n <= Limit => size = n)
  BY <1>5, <1>10, <1>21
<1>12. /\ page \in Seq(S) /\ Len(page) = size /\ DOMAIN page = 1..size
       /\ \A i \in 1..size : page[i] = list[i]
  <2>1. list \in Seq(S) /\ size \in 0..n /\ n = Len(list)
    <3>1. size \in 0..n
      BY <1>11, <1>21
    <3>2. QED
      BY <3>1, <1>8, <1>21
  <2>2. PICK m \in Nat : m = size
    BY <1>11
  <2>3. page = SubSeq(list, 1, m) /\ m \in 0..Len(list)
    BY <1>10, <2>1, <2>2
  <2>4. /\ SubSeq(list, 1, m) \in Seq(S) /\ Len(SubSeq(list, 1, m)) = m
        /\ \A i \in 1..m : SubSeq(list, 1, m)[i] = list[i]
    BY <2>1, <2>2, <2>3, <1>8
  <2>5. QED
    BY <2>2, <2>3, <2>4
<1>13. Sorted(page)
  <2>1. 1..size \subseteq 1..n
    BY <1>11, <1>21
  <2>2. 1..size \subseteq DOMAIN list
    BY <2>1, <1>8, <1>21
  <2>3. \A i, j \in 1..size : i < j => Newer(list[i], list[j])
    BY <2>2, <1>8 DEF Sorted
  <2>4. QED
    BY <2>3, <1>12 DEF Sorted
<1>14. page \in Seq(events)
  BY <1>3, <1>12
<1>15. \A e \in ToSet(page) : e \in S
  BY <1>12 DEF ToSet
<1>16. Ends(page, found.next)
  <2>1. CASE Len(list) > Limit
    <3>1. Len(page) > 0 /\ found.next = EncodeCursor(page[Len(page)])
      BY <2>1, <1>1, <1>5, <1>7, <1>8, <1>10, <1>12 DEF Last
    <3>2. QED
      BY <3>1 DEF Ends
  <2>2. CASE ~(Len(list) > Limit)
    BY <2>2, <1>1, <1>7 DEF Ends
  <2>3. QED
    BY <2>1, <2>2
<1>17. ASSUME NEW e \in S, e \notin ToSet(page)
       PROVE  found.next # Nothing /\ Newer(found.next, e)
  <2>1. Len(list) > Limit
    <3>1. SUFFICES ASSUME ~(Len(list) > Limit) PROVE FALSE
      OBVIOUS
    <3>2. size = n
      BY <3>1, <1>5, <1>11, <1>21
    <3>3. Len(list) # Limit + 1
      BY <3>1, <1>5, <1>21
    <3>4. e \in ToSet(list)
      BY <3>3, <1>9
    <3>5. QED
      BY <3>2, <3>4, <1>8, <1>12, <1>17, <1>21 DEF ToSet
  <2>2. size = Limit /\ Limit \in DOMAIN list
    <3>1. size = Limit
      BY <2>1, <1>11, <1>21
    <3>2. Limit \in 1..n
      BY <2>1, <1>5, <1>21
    <3>3. QED
      BY <3>1, <3>2, <1>8, <1>21
  <2>3. PICK x : x = list[Limit]
    OBVIOUS
  <2>4. x \in S /\ found.next = EncodeCursor(x)
    BY <2>1, <2>2, <2>3, <1>1, <1>5, <1>7, <1>8, <1>12 DEF Last
  <2>5. x.at \in Nat /\ x.id \in Nat
    BY <2>4, <1>4 DEF Ordered
  <2>6. Newer(x, e)
    <3>1. CASE e \in ToSet(list)
      <4>1. PICK i \in DOMAIN list : list[i] = e
        BY <3>1 DEF ToSet
      <4>2. i \notin 1..size
        BY <4>1, <1>12, <1>17 DEF ToSet
      <4>3. Limit < i
        BY <4>1, <4>2, <2>2, <1>5, <1>8
      <4>4. QED
        BY <4>1, <4>3, <2>2, <2>3, <1>8 DEF Sorted
    <3>2. CASE e \notin ToSet(list)
      BY <3>2, <1>9, <2>2, <2>3
    <3>3. QED
      BY <3>1, <3>2
  <2>7. EncodeCursor(x) \in [at : Nat, id : Nat]
    BY <2>5 DEF EncodeCursor
  <2>8. EncodeCursor(x) # Nothing
    BY <2>7, AuditAssumption
  <2>9. Newer(EncodeCursor(x), e)
    BY <2>6 DEF Newer, EncodeCursor
  <2>10. QED
    BY <2>4, <2>8, <2>9
<1>18. Reaches(page, found.next, S)
  BY <1>17 DEF Reaches
<1>19. \A e \in ToSet(page) : Answering(e, filter) /\ (c # Nothing => Newer(c, e))
  BY <1>2, <1>15
<1>20. QED
  BY <1>1, <1>2, <1>13, <1>14, <1>16, <1>18, <1>19, Zenon

-----------------------------------------------------------------------------
(* The steps.                                                              *)

\* Rows come and a request may end, but nothing is shown.
Aside == UNCHANGED listed /\ events \subseteq events' /\ request' \in {request, Nothing}

(* Rows that are written spoil nothing that was read.                      *)
LEMMA ReadKept ==
  ASSUME ListInv, RequestInv, Aside
  PROVE  ListInv' /\ RequestInv'
<1>1. \A list : list \in Seq(events) => list \in Seq(events')
  BY DEF Aside
<1>2. ListInv'
  BY <1>1 DEF Aside, ListInv, listed, Sorted, Ends, Reaches
<1>3. request.found.page \in Seq(events) => request.found.page \in Seq(events')
  BY <1>1
<1>4. RequestInv'
  <2>1. CASE request' = request
    BY <2>1, <1>3 DEF Aside, RequestInv, FoundInv, listed, Sorted, Ends, Reaches
  <2>2. CASE request' = Nothing
    BY <2>2 DEF RequestInv
  <2>3. QED
    BY <2>1, <2>2 DEF Aside
<1>5. QED
  BY <1>2, <1>4

(* A new row has an id of its own.                                         *)
LEMMA RowAdded ==
  ASSUME RowsInv, NEW i \in Unused, NEW kind, i \in Id, UNCHANGED now,
         NEW e, e = BuildAuditEvent(i, kind),
         \/ begun' = begun \cup {e} /\ events' = events
         \/ begun' = begun /\ events' = events \cup {e}
  PROVE  RowsInv'
<1>1. e.id = i /\ e.at = now /\ i \in Nat
  BY AuditAssumption DEF BuildAuditEvent
<1>2. \A f \in begun \cup events : f.id # e.id
  BY <1>1 DEF Unused
<1>3. begun' \cup events' = (begun \cup events) \cup {e}
  OBVIOUS
<1>4. IsFiniteSet(events')
  BY FS_AddElement DEF RowsInv
<1>5. \A f \in begun' \cup events' : f.at \in Nat /\ f.id \in Nat
  BY <1>1, <1>3 DEF RowsInv
<1>6. \A f, g \in begun' \cup events' : f.id = g.id => f = g
  BY <1>2, <1>3 DEF RowsInv
<1>7. QED
  BY <1>4, <1>5, <1>6 DEF RowsInv

(* The steps that show nothing.                                            *)
LEMMA AsideStep ==
  ASSUME PagesInv,
         \/ \E i \in Id : Build(i) \/ LoseAnswer(i)
         \/ \E e \in begun : Commit(e)
         \/ Tick \/ LoadFails
         \/ \E filter \in Filter : Choose(filter)
  PROVE  PagesInv'
<1>1. CASE \E i \in Id : Build(i)
  <2>1. PICK i \in Id : Build(i)
    BY <1>1
  <2>2. PICK kind \in EventKinds : begun' = begun \cup {BuildAuditEvent(i, kind)}
    BY <2>1 DEF Build
  <2>3. i \in Unused /\ UNCHANGED <<now, events, chosen, request, listed>>
    BY <2>1 DEF Build
  <2>4. RowsInv'
    BY <2>2, <2>3, RowAdded DEF PagesInv
  <2>5. Aside
    BY <2>3 DEF Aside
  <2>6. QED
    BY <2>3, <2>4, <2>5, ReadKept DEF PagesInv
<1>2. CASE \E i \in Id : LoseAnswer(i)
  <2>1. PICK i \in Id : LoseAnswer(i)
    BY <1>2
  <2>2. PICK kind : kind = [tenant |-> Own, outcome |-> "success"]
    OBVIOUS
  <2>3. i \in Unused /\ events' = events \cup {BuildAuditEvent(i, kind)}
    BY <2>1, <2>2 DEF LoseAnswer, AppendRead
  <2>4. request' = Nothing /\ UNCHANGED <<now, begun, chosen, listed>>
    BY <2>1 DEF LoseAnswer
  <2>5. RowsInv'
    BY <2>3, <2>4, RowAdded DEF PagesInv
  <2>6. Aside
    BY <2>3, <2>4 DEF Aside
  <2>7. QED
    BY <2>4, <2>5, <2>6, ReadKept DEF PagesInv
<1>3. CASE \E e \in begun : Commit(e)
  <2>1. PICK e \in begun : Commit(e)
    BY <1>3
  <2>2. begun' \cup events' = begun \cup events
    BY <2>1 DEF Commit
  <2>3. events' = events \cup {e} /\ UNCHANGED <<now, chosen, request, listed>>
    BY <2>1 DEF Commit
  <2>4. IsFiniteSet(events')
    BY <2>3, FS_AddElement DEF PagesInv, RowsInv
  <2>5. RowsInv'
    BY <2>2, <2>3, <2>4 DEF PagesInv, RowsInv
  <2>6. Aside
    BY <2>3 DEF Aside
  <2>7. QED
    BY <2>3, <2>5, <2>6, ReadKept DEF PagesInv
<1>4. CASE Tick
  <2>1. now' = now + 1 /\ UNCHANGED <<begun, events, chosen, request, listed>>
    BY <1>4 DEF Tick
  <2>2. RowsInv'
    BY <2>1 DEF PagesInv, RowsInv
  <2>3. Aside
    BY <2>1 DEF Aside
  <2>4. QED
    BY <2>1, <2>2, <2>3, ReadKept DEF PagesInv
<1>5. CASE LoadFails
  <2>1. request' = Nothing /\ UNCHANGED <<now, begun, events, chosen, listed>>
    BY <1>5 DEF LoadFails, table
  <2>2. Aside
    BY <2>1 DEF Aside
  <2>3. RowsInv'
    BY <2>1 DEF PagesInv, RowsInv
  <2>4. QED
    BY <2>1, <2>2, <2>3, ReadKept DEF PagesInv
<1>6. CASE \E filter \in Filter : Choose(filter)
  <2>1. PICK filter \in Filter : Choose(filter)
    BY <1>6
  <2>2. chosen' = filter /\ UNCHANGED <<now, begun, events, request, listed>>
    BY <2>1 DEF Choose, table
  <2>3. Aside
    BY <2>2 DEF Aside
  <2>4. RowsInv'
    BY <2>2 DEF PagesInv, RowsInv
  <2>5. QED
    BY <2>2, <2>3, <2>4, ReadKept DEF PagesInv
<1>7. QED
  BY <1>1, <1>2, <1>3, <1>4, <1>5, <1>6

(* A request begins, from where the list ends or from nowhere.             *)
LEMMA LoadPageStep ==
  ASSUME PagesInv, NEW append \in BOOLEAN, LoadPage(append)
  PROVE  PagesInv'
<1>1. PICK r : r = [append |-> append, filter |-> chosen, from |-> IF append THEN cursor ELSE Nothing,
                    found |-> Nothing, matching |-> {}]
  OBVIOUS
<1>2. /\ request' = r /\ (append => cursor # Nothing)
      /\ UNCHANGED <<now, begun, events, chosen, items, cursor, applied, first>>
  BY <1>1 DEF LoadPage, table, listed
<1>3. /\ r.append = append /\ r.filter = chosen /\ r.found = Nothing
      /\ (append => r.from = cursor) /\ (~append => r.from = Nothing)
  BY <1>1
<1>4. RequestInv'
  <2>1. DOMAIN r = {"append", "filter", "from", "found", "matching"}
    BY <1>1
  <2>2. QED
    BY <2>1, <1>2, <1>3 DEF PagesInv, RequestInv
<1>5. ListInv'
  BY <1>2 DEF PagesInv, ListInv, Sorted, Ends, Reaches
<1>6. RowsInv'
  BY <1>2 DEF PagesInv, RowsInv
<1>7. QED
  BY <1>2, <1>4, <1>5, <1>6 DEF PagesInv

(* The route reads.                                                        *)
LEMMA SelectStep ==
  ASSUME PagesInv, Select
  PROVE  PagesInv'
<1>1. PICK found : found = ListAuditEvents(request.filter, request.from)
  OBVIOUS
<1>2. PICK matching : matching = {e \in events : Answering(e, request.filter)}
  OBVIOUS
<1>3. PICK r : r = [request EXCEPT !.found = found, !.matching = matching]
  OBVIOUS
<1>4. /\ request # Nothing /\ request.found = Nothing /\ request' = r
      /\ UNCHANGED <<now, begun, events, chosen, items, cursor, applied, first>>
  BY <1>1, <1>2, <1>3 DEF Select, table, listed
<1>5. RowsInv'
  BY <1>4 DEF PagesInv, RowsInv
<1>6. ListInv'
  BY <1>4 DEF PagesInv, ListInv, Sorted, Ends, Reaches
<1>7. /\ found.page \in Seq(events) /\ Sorted(found.page)
      /\ Ends(found.page, found.next)
      /\ \A e \in ToSet(found.page) :
            Answering(e, request.filter) /\ (request.from # Nothing => Newer(request.from, e))
      /\ Reaches(found.page, found.next,
                 {e \in events : Answering(e, request.filter)
                                 /\ (request.from = Nothing \/ Newer(request.from, e))})
  BY <1>1, PageFound DEF PagesInv
<1>8. /\ DOMAIN r = {"append", "filter", "from", "found", "matching"}
      /\ r.append = request.append /\ r.filter = request.filter /\ r.from = request.from
      /\ r.found = found /\ r.matching = matching
  <2>1. DOMAIN request = {"append", "filter", "from", "found", "matching"}
    BY <1>4 DEF PagesInv, RequestInv
  <2>2. DOMAIN r = DOMAIN request
    BY <1>3
  <2>3. r.append = request.append /\ r.filter = request.filter /\ r.from = request.from
    BY <1>3, <2>1
  <2>4. r.found = found
    BY <1>3, <2>1
  <2>5. r.matching = matching
    BY <1>3, <2>1
  <2>6. QED
    BY <2>1, <2>2, <2>3, <2>4, <2>5
<1>9. \A e \in ToSet(found.page) \cup matching : Answering(e, request.filter)
  BY <1>2, <1>7
<1>10. Reaches(found.page, found.next,
               {e \in matching : request.from = Nothing \/ Newer(request.from, e)})
  BY <1>2, <1>7 DEF Reaches
<1>11. FoundInv'
  <2>1. matching \subseteq events
    BY <1>2
  <2>2. request'.found = found /\ request'.matching = matching /\ request'.filter = request.filter
        /\ request'.from = request.from
    BY <1>4, <1>8
  <2>3. applied = {request.filter} => first \subseteq matching
    BY <1>2 DEF PagesInv, ListInv
  <2>4. QED
    BY <2>1, <2>2, <2>3, <1>4, <1>7, <1>9, <1>10 DEF FoundInv, Sorted, Ends, Reaches
<1>12. RequestInv'
  BY <1>4, <1>8, <1>11 DEF PagesInv, RequestInv
<1>13. QED
  BY <1>4, <1>5, <1>6, <1>12 DEF PagesInv

(* A page that begins where the list ends goes on with its order.          *)
LEMMA Appended ==
  ASSUME NEW S, Ordered(S), NEW old \in Seq(S), NEW page \in Seq(S), Sorted(old), Sorted(page),
         \A e \in ToSet(page) : Len(old) > 0 => Newer(old[Len(old)], e)
  PROVE  /\ old \o page \in Seq(S) /\ Sorted(old \o page)
         /\ ToSet(old \o page) = ToSet(old) \cup ToSet(page)
         /\ Len(old \o page) = Len(old) + Len(page)
         /\ Len(page) > 0 => (old \o page)[Len(old \o page)] = page[Len(page)]
<1>1. PICK m \in Nat : m = Len(old)
  OBVIOUS
<1>2. PICK n \in Nat : n = Len(page)
  OBVIOUS
<1>3. PICK new : new = old \o page
  OBVIOUS
<1>4. DOMAIN old = 1..m /\ DOMAIN page = 1..n /\ (\A i \in 1..m : old[i] \in S)
      /\ (\A i \in 1..n : page[i] \in S)
  BY <1>1, <1>2
<1>5. new \in Seq(S) /\ Len(new) = m + n /\ DOMAIN new = 1..m + n
  BY <1>1, <1>2, <1>3
<1>6. \A i \in 1..m : i \in 1..m + n /\ new[i] = old[i]
  BY <1>1, <1>2, <1>3
<1>7. \A i \in 1..n : m + i \in 1..m + n /\ new[m + i] = page[i]
  BY <1>1, <1>2, <1>3
<1>8. \A i \in 1..m + n : i \in 1..m \/ (i - m \in 1..n /\ i = m + (i - m) /\ i > m)
  OBVIOUS
<1>9. Sorted(new)
  <2>1. ASSUME NEW i \in 1..m + n, NEW j \in 1..m + n, i < j PROVE Newer(new[i], new[j])
    <3>1. CASE i \in 1..m /\ j \in 1..m
      BY <3>1, <2>1, <1>4, <1>6 DEF Sorted
    <3>2. CASE i \notin 1..m /\ j \notin 1..m
      <4>1. PICK k \in 1..n, l \in 1..n : i = m + k /\ j = m + l
        BY <3>2, <1>8
      <4>2. k < l
        BY <4>1, <2>1
      <4>3. QED
        BY <4>1, <4>2, <1>4, <1>7 DEF Sorted
    <3>3. CASE i \in 1..m /\ j \notin 1..m
      <4>1. PICK l \in 1..n : j = m + l
        BY <3>3, <1>8
      <4>2. page[l] \in ToSet(page) /\ m > 0 /\ m \in 1..m
        BY <3>3, <1>4 DEF ToSet
      <4>3. Newer(old[m], page[l])
        BY <4>2, <1>1
      <4>4. i = m \/ Newer(old[i], old[m])
        BY <4>2, <3>3, <1>4 DEF Sorted
      <4>5. Newer(old[i], page[l])
        <5>1. PICK x \in S, y \in S, z \in S : x = old[i] /\ y = old[m] /\ z = page[l]
          BY <3>3, <4>1, <4>2, <1>4
        <5>2. x.at \in Nat /\ y.at \in Nat /\ z.at \in Nat /\ x.id \in Nat /\ y.id \in Nat /\ z.id \in Nat
          BY DEF Ordered
        <5>3. Newer(y, z) /\ (x = y \/ Newer(x, y))
          BY <5>1, <4>3, <4>4
        <5>4. Newer(x, z)
          BY <5>2, <5>3 DEF Newer
        <5>5. QED
          BY <5>1, <5>4
      <4>6. QED
        BY <4>1, <4>5, <3>3, <1>6, <1>7
    <3>4. CASE i \notin 1..m /\ j \in 1..m
      BY <3>4, <2>1, <1>8
    <3>5. QED
      BY <3>1, <3>2, <3>3, <3>4
  <2>2. QED
    BY <2>1, <1>5 DEF Sorted
<1>10. ToSet(new) = ToSet(old) \cup ToSet(page)
  <2>1. \A i \in 1..m + n : new[i] \in ToSet(old) \cup ToSet(page)
    BY <1>4, <1>6, <1>7, <1>8 DEF ToSet
  <2>2. \A i \in 1..m : old[i] \in ToSet(new)
    BY <1>5, <1>6 DEF ToSet
  <2>3. \A i \in 1..n : page[i] \in ToSet(new)
    <3>1. ASSUME NEW i \in 1..n PROVE page[i] \in ToSet(new)
      <4>1. m + i \in DOMAIN new /\ new[m + i] = page[i]
        BY <1>5, <1>7
      <4>2. QED
        BY <4>1 DEF ToSet
    <3>2. QED
      BY <3>1
  <2>4. QED
    BY <2>1, <2>2, <2>3, <1>4, <1>5 DEF ToSet
<1>11. n > 0 => new[m + n] = page[n]
  BY <1>7
<1>12. QED
  BY <1>1, <1>2, <1>3, <1>5, <1>9, <1>10, <1>11, Zenon

(* The answer is shown: the list goes on where it ended, or begins anew.   *)
LEMMA LogReadStep ==
  ASSUME PagesInv, NEW i \in Id, LogRead(i)
  PROVE  PagesInv'
<1>1. PICK kind : kind = [tenant |-> Own, outcome |-> "success"]
  OBVIOUS
<1>2. PICK old : old = IF request.append THEN items ELSE <<>>
  OBVIOUS
<1>3. PICK page : page = request.found.page
  OBVIOUS
<1>4. PICK next : next = request.found.next
  OBVIOUS
<1>5. /\ request # Nothing /\ request.found # Nothing /\ request' = Nothing
      /\ i \in Unused /\ events' = events \cup {BuildAuditEvent(i, kind)}
      /\ UNCHANGED <<now, begun, chosen>>
      /\ items' = old \o page /\ cursor' = next
      /\ applied' = (IF request.append THEN applied ELSE {}) \cup {request.filter}
      /\ first' = IF request.append THEN first ELSE request.matching
  BY <1>1, <1>2, <1>3, <1>4 DEF LogRead, AppendRead
<1>6. FoundInv /\ request.append \in BOOLEAN /\ request.filter \in Filter
      /\ (request.append => request.from = cursor /\ cursor # Nothing)
      /\ (~request.append => request.from = Nothing)
  BY <1>5 DEF PagesInv, RequestInv
<1>7. RowsInv'
  BY <1>5, RowAdded DEF PagesInv
<1>8. RequestInv'
  BY <1>5 DEF RequestInv
<1>9. ListInv
  BY DEF PagesInv
<1>10. events \subseteq events' /\ Ordered(events)
  BY <1>5 DEF PagesInv, RowsInv, Ordered
<1>11. old \in Seq(events) /\ Sorted(old)
  <2>1. CASE request.append
    BY <2>1, <1>2, <1>9 DEF ListInv
  <2>2. CASE ~request.append
    <3>1. old = <<>>
      BY <2>2, <1>2
    <3>2. QED
      BY <3>1 DEF Sorted
  <2>3. QED
    BY <2>1, <2>2
<1>12. page \in Seq(events) /\ Sorted(page) /\ Ends(page, next)
  BY <1>3, <1>4, <1>6 DEF FoundInv
<1>13. \A e \in ToSet(page) : Len(old) > 0 => Newer(old[Len(old)], e)
  <2>1. CASE request.append
    <3>1. cursor # Nothing /\ old = items /\ request.from = cursor
      BY <2>1, <1>2, <1>6
    <3>2. cursor = EncodeCursor(old[Len(old)])
      BY <3>1, <1>9 DEF ListInv, Ends
    <3>3. PICK x : x = old[Len(old)]
      OBVIOUS
    <3>4. \A e \in ToSet(page) : Newer(EncodeCursor(x), e)
      BY <3>1, <3>2, <3>3, <1>3, <1>6 DEF FoundInv
    <3>5. QED
      BY <3>3, <3>4 DEF Newer, EncodeCursor
  <2>2. CASE ~request.append
    <3>1. old = <<>>
      BY <2>2, <1>2
    <3>2. QED
      BY <3>1
  <2>3. QED
    BY <2>1, <2>2
<1>14. PICK new : new = old \o page
  OBVIOUS
<1>15. /\ new \in Seq(events) /\ Sorted(new)
       /\ ToSet(new) = ToSet(old) \cup ToSet(page)
       /\ Len(new) = Len(old) + Len(page)
       /\ Len(page) > 0 => new[Len(new)] = page[Len(page)]
  BY <1>10, <1>11, <1>12, <1>13, <1>14, Appended
<1>16. Ends(new, next)
  <2>1. Len(old) \in Nat /\ Len(page) \in Nat
    BY <1>11, <1>12
  <2>2. QED
    BY <2>1, <1>12, <1>15 DEF Ends
<1>17. applied' \subseteq Filter /\ applied' # {} /\ request.filter \in applied'
  BY <1>5, <1>6, <1>9 DEF ListInv
<1>18. first' \subseteq events
  BY <1>5, <1>6, <1>9 DEF ListInv, FoundInv
<1>19. ASSUME applied' = {request.filter}
       PROVE  /\ \A e \in ToSet(new) \cup first' : Answering(e, request.filter)
              /\ Reaches(new, next, first')
  <2>1. /\ \A e \in ToSet(page) \cup request.matching : Answering(e, request.filter)
        /\ Reaches(page, next, {e \in request.matching : request.from = Nothing \/ Newer(request.from, e)})
    BY <1>3, <1>4, <1>6 DEF FoundInv
  <2>2. CASE request.append
    <3>1. applied = {request.filter}
      BY <2>2, <1>5, <1>6, <1>9, <1>19 DEF ListInv
    <3>2. /\ \A e \in ToSet(items) \cup first : Answering(e, request.filter)
          /\ Reaches(items, cursor, first)
      BY <3>1, <1>9 DEF ListInv
    <3>3. first' = first /\ old = items /\ first \subseteq request.matching
      BY <2>2, <3>1, <1>2, <1>5, <1>6 DEF FoundInv
    <3>4. \A e \in first : e \in ToSet(items) \/ Newer(request.from, e)
      BY <3>2, <2>2, <1>6 DEF Reaches
    <3>5. Reaches(new, next, first)
      BY <2>1, <3>3, <3>4, <1>15 DEF Reaches
    <3>6. QED
      BY <2>1, <3>2, <3>3, <3>5, <1>15
  <2>3. CASE ~request.append
    <3>1. first' = request.matching /\ request.from = Nothing /\ old = <<>>
      BY <2>3, <1>2, <1>5, <1>6
    <3>2. ToSet(old) = {}
      BY <3>1 DEF ToSet
    <3>3. QED
      BY <2>1, <3>1, <3>2, <1>15 DEF Reaches
  <2>4. QED
    BY <2>2, <2>3
<1>20. ListInv'
  <2>1. items' = new /\ new \in Seq(events')
    BY <1>5, <1>10, <1>14, <1>15
  <2>2. Sorted(items)' /\ Ends(items, cursor)'
    BY <2>1, <1>5, <1>15, <1>16 DEF Sorted, Ends
  <2>3. \A f \in applied' : applied' = {f} => f = request.filter
    BY <1>17
  <2>4. (\A f \in applied : applied = {f} =>
            /\ \A e \in ToSet(items) \cup first : Answering(e, f)
            /\ Reaches(items, cursor, first))'
    BY <2>1, <2>3, <1>5, <1>19 DEF Reaches
  <2>5. QED
    BY <2>1, <2>2, <2>4, <1>10, <1>17, <1>18 DEF ListInv
<1>21. QED
  BY <1>5, <1>7, <1>8, <1>20 DEF PagesInv

LEMMA PagesInit == AuditInit => PagesInv
<1>1. SUFFICES ASSUME AuditInit PROVE PagesInv
  OBVIOUS
<1>2. /\ now = 1 /\ begun = {} /\ events = {} /\ chosen = "any" /\ request = Nothing
      /\ items = <<>> /\ cursor = Nothing /\ applied = {} /\ first = {}
  BY <1>1 DEF AuditInit
<1>3. RowsInv
  BY <1>2, FS_EmptySet DEF RowsInv
<1>4. Sorted(items) /\ Ends(items, cursor) /\ items \in Seq(events)
  BY <1>2 DEF Sorted, Ends
<1>5. ListInv
  BY <1>2, <1>4 DEF ListInv
<1>6. QED
  BY <1>2, <1>3, <1>5 DEF PagesInv, RequestInv, Filter

LEMMA PagesNext == PagesInv /\ [AuditNext]_auditing => PagesInv'
<1>1. SUFFICES ASSUME PagesInv, [AuditNext]_auditing PROVE PagesInv'
  OBVIOUS
<1>2. CASE \/ \E i \in Id : Build(i) \/ LoseAnswer(i)
           \/ \E e \in begun : Commit(e)
           \/ Tick \/ LoadFails
           \/ \E filter \in Filter : Choose(filter)
  BY <1>1, <1>2, AsideStep
<1>3. CASE \E i \in Id : LogRead(i)
  BY <1>1, <1>3, LogReadStep
<1>4. CASE LoadPage(TRUE) \/ LoadPage(FALSE)
  BY <1>1, <1>4, LoadPageStep
<1>5. CASE Select
  BY <1>1, <1>5, SelectStep
<1>6. CASE UNCHANGED auditing
  <2>1. UNCHANGED <<now, begun, events, chosen, request, items, cursor, applied, first>>
    BY <1>6 DEF auditing, table, listed
  <2>2. Aside
    BY <2>1 DEF Aside, listed
  <2>3. RowsInv'
    BY <1>1, <2>1 DEF PagesInv, RowsInv
  <2>4. QED
    BY <1>1, <2>1, <2>2, <2>3, ReadKept DEF PagesInv
<1>7. QED
  BY <1>1, <1>2, <1>3, <1>4, <1>5, <1>6 DEF AuditNext

(* PagesMissNothing: whatever is built, committed late or logged between   *)
(* two pages, and whatever answers are lost, a list that was read with one *)
(* filter is sorted, repeats nothing, and holds what matched when its      *)
(* first page was read as far down as its cursor, which is the end of it   *)
(* once there is no cursor.                                                *)
THEOREM NothingIsMissed == AuditSpec => []PagesMissNothing
<1>1. PagesInv => PagesMissNothing
  <2>1. SUFFICES ASSUME PagesInv, Cardinality(applied) = 1
                 PROVE  /\ \A i, j \in DOMAIN items : i < j => Newer(items[i], items[j])
                        /\ \A e \in ToSet(items), f \in applied : Answering(e, f)
                        /\ first \subseteq ToSet(items)
                              \cup {e \in first : cursor # Nothing /\ Newer(cursor, e)}
    BY DEF PagesMissNothing
  <2>2. applied \subseteq Filter /\ IsFiniteSet(Filter)
    <3>1. IsFiniteSet({"success"}) /\ IsFiniteSet({"success"} \cup {"failure"})
          /\ IsFiniteSet(({"success"} \cup {"failure"}) \cup {"any"})
      BY FS_EmptySet, FS_AddElement, FS_Singleton
    <3>2. Filter = ({"success"} \cup {"failure"}) \cup {"any"}
      BY DEF Filter
    <3>3. QED
      BY <2>1, <3>1, <3>2 DEF PagesInv, ListInv
  <2>3. IsFiniteSet(applied)
    BY <2>2, FS_Subset
  <2>4. PICK f : applied = {f}
    BY <2>1, <2>3, FS_Singleton
  <2>5. ListInv
    BY <2>1 DEF PagesInv
  <2>6. /\ \A e \in ToSet(items) : Answering(e, f)
        /\ Reaches(items, cursor, first)
    BY <2>4, <2>5 DEF ListInv
  <2>7. QED
    BY <2>4, <2>5, <2>6 DEF ListInv, Sorted, Reaches
<1>2. QED
  BY PagesInit, PagesNext, <1>1, PTL DEF AuditSpec
=============================================================================
