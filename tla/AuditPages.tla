----------------------------- MODULE AuditPages -----------------------------
(***************************************************************************)
(* The audit trail of a tenant, read page by page: list_audit_events       *)
(* (core/audit.py), its route (api/security.py), and the page that appends *)
(* older events to the ones it shows (EnterpriseActivityPage.tsx), while   *)
(* everybody, the route included, goes on writing events.                  *)
(*                                                                         *)
(* Abstractions.  An event is its id, its time and what is asked for: the  *)
(* tenant and the outcome, which stands for the actor and the action too.  *)
(* Ids are random; here any unused number.                                 *)
(***************************************************************************)
EXTENDS Naturals, Sequences, FiniteSets, SequencesExt

CONSTANTS
    Id,          \* audit_events.id
    MaxTime,     \* bound: moments
    Limit,       \* events of a page
    EventKinds,  \* the events that are written: [tenant, outcome]
    Own,         \* the tenant of the reader
    Nothing

\* A page holds an event at least (security.py), and no cursor is "Nothing".
ASSUME AuditAssumption ==
    /\ Id \subseteq Nat /\ MaxTime \in Nat
    /\ Limit \in Nat \ {0}
    /\ Nothing \notin [at : Nat, id : Nat]

VARIABLES
    now,       \* utc_now
    begun,     \* events that were built and are not committed
    events,    \* the table
    chosen,    \* the filter in the form of the page
    request,   \* the request of the page, or Nothing
    items,     \* what the page lists
    cursor,    \* from where it goes on, or Nothing
    applied,   \* history: the filters that what it lists was read with
    first      \* history: the events that matched when the first page was read

table == <<now, begun, events>>
listed == <<items, cursor, applied, first>>
auditing == <<table, chosen, request, listed>>

Filter == {"success", "failure", "any"}

AuditInit ==
    /\ now = 1
    /\ begun = {} /\ events = {}
    /\ chosen = "any" /\ request = Nothing
    /\ items = <<>> /\ cursor = Nothing
    /\ applied = {} /\ first = {}

-----------------------------------------------------------------------------
(* Events.                                                                 *)

Unused == Id \ {e.id : e \in begun \cup events}

\* build_audit_event: the time is taken here.
BuildAuditEvent(i, kind) == [id |-> i, at |-> now, tenant |-> kind.tenant, outcome |-> kind.outcome]

Build(i) ==
    /\ i \in Unused
    /\ \E kind \in EventKinds : begun' = begun \cup {BuildAuditEvent(i, kind)}
    /\ UNCHANGED <<now, events, chosen, request, listed>>

\* The commit of the session that holds the event: others that were built
\* later may be there already.
Commit(e) ==
    /\ begun' = begun \ {e}
    /\ events' = events \cup {e}
    /\ UNCHANGED <<now, chosen, request, listed>>

Tick ==
    /\ now < MaxTime
    /\ now' = now + 1
    /\ UNCHANGED <<begun, events, chosen, request, listed>>

-----------------------------------------------------------------------------
(* list_audit_events.                                                      *)

Answering(e, filter) == e.tenant = Own /\ filter \in {"any", e.outcome}

Newer(e, f) == e.at > f.at \/ (e.at = f.at /\ e.id > f.id)

\* _encode_cursor
EncodeCursor(e) == [at |-> e.at, id |-> e.id]

\* Mutant of Older: events of the time of the cursor are left out.
OlderByTime(c) == {e \in events : c = Nothing \/ e.at < c.at}

Older(c) == {e \in events : c = Nothing \/ Newer(c, e)}

\* ORDER BY occurred_at DESC, id DESC LIMIT n
Newest(S, n) ==
    LET place == [e \in S |-> 1 + Cardinality({f \in S : Newer(f, e)})]
    IN [i \in 1..(IF Cardinality(S) < n THEN Cardinality(S) ELSE n) |-> CHOOSE e \in S : place[e] = i]

\* The page and next_cursor: one event more than the page holds is read.
ListAuditEvents(filter, c) ==
    LET records == Newest({e \in Older(c) : Answering(e, filter)}, Limit + 1)
        page    == SubSeq(records, 1, IF Len(records) < Limit THEN Len(records) ELSE Limit)
    IN [page |-> page,
        next |-> IF Len(records) > Limit THEN EncodeCursor(Last(page)) ELSE Nothing]

-----------------------------------------------------------------------------
(* The page: load, one request at a time, since its buttons are disabled.  *)

Choose(filter) ==
    /\ filter # chosen
    /\ chosen' = filter
    /\ UNCHANGED <<table, request, listed>>

\* The filter is what the form says now, whatever the list was read with.
LoadPage(append) ==
    /\ request = Nothing
    /\ append => cursor # Nothing
    /\ request' = [append |-> append, filter |-> chosen, from |-> IF append THEN cursor ELSE Nothing,
                   found |-> Nothing, matching |-> {}]
    /\ UNCHANGED <<table, chosen, listed>>

Select ==
    /\ request # Nothing /\ request.found = Nothing
    /\ request' = [request EXCEPT !.found = ListAuditEvents(request.filter, request.from),
                                  !.matching = {e \in events : Answering(e, request.filter)}]
    /\ UNCHANGED <<table, chosen, listed>>

\* append_audit_event "audit.events_read".
AppendRead(i) ==
    /\ request # Nothing /\ request.found # Nothing
    /\ i \in Unused
    /\ events' = events \cup {BuildAuditEvent(i, [tenant |-> Own, outcome |-> "success"])}

\* Then the answer is shown.
LogRead(i) ==
    /\ AppendRead(i)
    /\ items' = (IF request.append THEN items ELSE <<>>) \o request.found.page
    /\ cursor' = request.found.next
    /\ applied' = (IF request.append THEN applied ELSE {}) \cup {request.filter}
    /\ first' = IF request.append THEN first ELSE request.matching
    /\ request' = Nothing
    /\ UNCHANGED <<now, begun, chosen>>

\* The answer is lost after the event was written.
LoseAnswer(i) ==
    /\ AppendRead(i)
    /\ request' = Nothing
    /\ UNCHANGED <<now, begun, chosen, listed>>

\* An error leaves the list as it is.
LoadFails ==
    /\ request # Nothing
    /\ request' = Nothing
    /\ UNCHANGED <<table, chosen, listed>>

AuditNext ==
    \/ \E i \in Id : Build(i) \/ LogRead(i) \/ LoseAnswer(i)
    \/ \E e \in begun : Commit(e)
    \/ Tick
    \/ \E filter \in Filter : Choose(filter)
    \/ LoadPage(TRUE) \/ LoadPage(FALSE) \/ Select \/ LoadFails

AuditSpec == AuditInit /\ [][AuditNext]_auditing

-----------------------------------------------------------------------------
(* Properties.                                                             *)

\* Whoever reads on sees every event of the tenant that matched when the first
\* page was read, once and the newest first, although events with the same
\* time stand around the end of a page and others, the reader's own reading
\* among them, are written between two pages; and no cursor means that there
\* is nothing more.  A filter that is changed and not submitted spoils this:
\* the next page is read with it, from where the last one ended.
PagesMissNothing ==
    Cardinality(applied) = 1 =>
        /\ \A i, j \in DOMAIN items : i < j => Newer(items[i], items[j])
        /\ \A e \in ToSet(items), f \in applied : Answering(e, f)
        /\ first \subseteq ToSet(items) \cup {e \in first : cursor # Nothing /\ Newer(cursor, e)}
=============================================================================
