----------------------------- MODULE AgentIngest -----------------------------
(***************************************************************************)
(* What local producers report to the Agent: observations and log sources. *)
(*                                                                         *)
(* A request is admitted by a counter, its body is read, and its upsert    *)
(* runs in a thread of the pool: a read of the row, then a compare-and-    *)
(* swap on observed_at, tried again a few times.  Meanwhile a loop deletes *)
(* what has expired, and readers page through the table.                   *)
(*                                                                         *)
(* The tables observations and log_sources are one function of keys: they  *)
(* differ in the series limit, which only observations have.  Times are    *)
(* units of one clock; a payload is a value.                               *)
(***************************************************************************)
EXTENDS Naturals, FiniteSets

CONSTANTS
  Reqs,          \* ingest requests
  Inputs,        \* [key, observed, ttl, value]: the payloads requests may carry
  Keys,          \* identity_key of an observation, id of a log source: a set of numbers
  LogKeys,       \* the keys of log_sources
  MaxSeries,     \* max_series
  MaxIngest,     \* maximum of the capacity middleware
  MaxAttempts,   \* _MAX_CAS_ATTEMPTS
  Skew,          \* how far in the future observed_at may be
  Retention,     \* retention_seconds
  PageLimit,     \* limit of a listing
  MaxTime        \* bound: the clock

ASSUME IngestAssumption ==
  /\ IsFiniteSet(Reqs) /\ Keys \subseteq Nat \ {0} /\ LogKeys \subseteq Keys
  /\ IsFiniteSet(Keys)
  /\ Inputs \subseteq [key: Keys, observed: Nat \ {0}, ttl: Nat \ {0}, value: Nat]
  /\ MaxSeries \in Nat /\ MaxIngest \in Nat /\ MaxAttempts \in Nat
  /\ Skew \in Nat /\ Retention \in Nat /\ PageLimit \in Nat \ {0} /\ MaxTime \in Nat

VARIABLES
  table,     \* [Keys -> [observed, ttl, value]]: observed 0 for no row
  req,       \* [Reqs -> [pc, input, seen, tries]]
  inflight,  \* IngestCapacityMiddleware._active
  kept,      \* history: requests answered 2xx since their row was last deleted
  page,      \* a paged listing: [pc, cursor, items, steady, twice]
  now

ingestVars == <<table, req, inflight, kept, page, now>>

-----------------------------------------------------------------------------
NoReading == [observed |-> 0, ttl |-> 0, value |-> 0]
Content(i) == [observed |-> i.observed, ttl |-> i.ttl, value |-> i.value]
Expires(r) == r.observed + r.ttl
Rows == {k \in Keys : table[k] # NoReading}
Visible(row, time) == row # NoReading /\ Expires(row) > time
Fresh(k) == Visible(table[k], now)
Answers == {"accepted", "stale", "conflict", "limit", "contention", "invalid", "refused"}
NoPage == [pc |-> "idle", cursor |-> 0, items |-> {}, steady |-> {}, twice |-> FALSE]

IngestTypeOK ==
  /\ table \in [Keys -> [observed: Nat, ttl: Nat, value: Nat]]
  /\ req \in [Reqs -> [pc: {"new", "body", "read", "swap"} \cup Answers, input: Inputs,
                       seen: Nat, tries: Nat]]
  /\ inflight \in Nat
  /\ kept \subseteq Reqs
  /\ page \in [pc: {"idle", "open", "done"}, cursor: Nat, items: SUBSET Keys,
               steady: SUBSET Keys, twice: BOOLEAN]
  /\ now \in Nat

IngestInit ==
  /\ table = [k \in Keys |-> NoReading]
  /\ req \in [Reqs -> [pc: {"new"}, input: Inputs, seen: {0}, tries: {0}]]
  /\ inflight = 0 /\ kept = {} /\ page = NoPage /\ now = 1

\* A listing in progress loses the keys that are no longer shown.
Follow(tab, time) ==
  page' = IF page.pc = "open"
          THEN [page EXCEPT !.steady = {k \in @ : Visible(tab[k], time)}] ELSE page

-----------------------------------------------------------------------------
(* Admission.                                                              *)

Goto(r, pc) == req' = [req EXCEPT ![r].pc = pc]

Admit(r) ==
  /\ req[r].pc = "new"
  /\ IF inflight >= MaxIngest THEN Goto(r, "refused") /\ UNCHANGED inflight
     ELSE Goto(r, "body") /\ inflight' = inflight + 1
  /\ UNCHANGED <<table, kept, page, now>>

\* The finally of the middleware.
Answer(r, pc) ==
  /\ req' = [req EXCEPT ![r].pc = pc, ![r].seen = 0, ![r].tries = 0]
  /\ inflight' = inflight - 1

\* Faulty variant: the slot is given back here and in the finally.
BodyRefusedTwice(r) ==
  /\ req[r].pc = "body"
  /\ req' = [req EXCEPT ![r].pc = "invalid"]
  /\ inflight' = inflight - 2
  /\ UNCHANGED <<table, kept, page, now>>

\* The body is too large, or the peer is gone before its end.
BodyRefused(r) ==
  /\ req[r].pc = "body"
  /\ Answer(r, "invalid")
  /\ UNCHANGED <<table, kept, page, now>>

\* The model validators and the checks of upsert before its loop.
Acceptable(i) == i.observed <= now + Skew /\ Expires(i) > now
BeginUpsert(r) ==
  /\ req[r].pc = "body"
  /\ IF Acceptable(req[r].input) THEN Goto(r, "read") /\ UNCHANGED inflight
     ELSE Answer(r, "invalid")
  /\ UNCHANGED <<table, kept, page, now>>

-----------------------------------------------------------------------------
(* The upsert: repository.get, then compare_and_swap.                      *)

ReadRow(r) ==
  LET i == req[r].input
      row == table[i.key]
  IN
  /\ req[r].pc = "read"
  /\ \/ /\ i.observed < row.observed
        /\ Answer(r, "stale") /\ UNCHANGED kept
     \/ /\ i.observed = row.observed /\ Content(i) = row
        /\ Answer(r, "accepted") /\ kept' = kept \cup {r}
     \/ /\ i.observed = row.observed /\ Content(i) # row
        /\ Answer(r, "conflict") /\ UNCHANGED kept
     \/ /\ i.observed > row.observed
        /\ req' = [req EXCEPT ![r].pc = "swap", ![r].seen = row.observed]
        /\ UNCHANGED <<inflight, kept>>
  /\ UNCHANGED <<table, page, now>>

\* Faulty variant: one series too many.
MayInsertAtLimit(k) ==
  /\ table[k] = NoReading
  /\ k \in LogKeys \/ Cardinality(Rows \ LogKeys) <= MaxSeries

\* INSERT ... WHERE COUNT(*) < max_series ON CONFLICT DO NOTHING
MayInsert(k) ==
  /\ table[k] = NoReading
  /\ k \in LogKeys \/ Cardinality(Rows \ LogKeys) < MaxSeries
\* Faulty variant: the row may have changed since it was read.
MayUpdateAny(k, seen) == table[k] # NoReading

\* UPDATE ... WHERE observed_at = :expected
MayUpdate(k, seen) == table[k] # NoReading /\ table[k].observed = seen

Swaps(k, seen) == IF seen = 0 THEN MayInsert(k) ELSE MayUpdate(k, seen)

SwapRow(r) ==
  LET i == req[r].input IN
  /\ req[r].pc = "swap"
  /\ \/ /\ Swaps(i.key, req[r].seen)
        /\ table' = [table EXCEPT ![i.key] = Content(i)]
        /\ kept' = kept \cup {r}
        /\ Answer(r, "accepted")
     \/ /\ ~Swaps(i.key, req[r].seen)
        /\ \/ /\ req[r].seen = 0 /\ table[i.key] = NoReading
              /\ Answer(r, "limit")
           \/ /\ ~(req[r].seen = 0 /\ table[i.key] = NoReading)
              /\ req[r].tries + 1 < MaxAttempts
              /\ req' = [req EXCEPT ![r].pc = "read", ![r].seen = 0, ![r].tries = @ + 1]
              /\ UNCHANGED inflight
           \/ /\ ~(req[r].seen = 0 /\ table[i.key] = NoReading)
              /\ req[r].tries + 1 >= MaxAttempts
              /\ Answer(r, "contention")
        /\ UNCHANGED <<table, kept>>
  /\ Follow(table', now)
  /\ UNCHANGED now

\* SQLite raises at either statement.
StorageFails(r) ==
  /\ req[r].pc \in {"read", "swap"}
  /\ Answer(r, "contention")
  /\ UNCHANGED <<table, kept, page, now>>

-----------------------------------------------------------------------------
(* Expiry.                                                                 *)

\* One batch of expiration_loop; the smallest batch, one row.
DeleteExpired(k) ==
  /\ table[k] # NoReading /\ Expires(table[k]) + Retention <= now
  /\ table' = [table EXCEPT ![k] = NoReading]
  /\ kept' = {r \in kept : req[r].input.key # k}
  /\ Follow(table', now)
  /\ UNCHANGED <<req, inflight, now>>

TimePasses ==
  /\ now < MaxTime
  /\ now' = now + 1
  /\ Follow(table, now')
  /\ UNCHANGED <<table, req, inflight, kept>>

-----------------------------------------------------------------------------
(* A client lists the observations page by page, with the cursor it was    *)
(* given; keys are compared as the table orders them.                      *)

After(cursor) == {k \in Rows \ LogKeys : k > cursor /\ Fresh(k)}
FirstOf(S, n) == {k \in S : Cardinality({j \in S : j < k}) < n}
LastKey(S) == CHOOSE k \in S : \A j \in S : j <= k

\* Faulty variant: the cursor is the row that was read ahead.
NextCursorAhead(S) ==
  IF Cardinality(S) > PageLimit THEN LastKey(FirstOf(S, PageLimit + 1)) ELSE 0

\* limit + 1 rows are read; the cursor is the last row of the page.
NextCursor(S) ==
  IF Cardinality(S) > PageLimit THEN LastKey(FirstOf(S, PageLimit)) ELSE 0

ListPage ==
  LET S == After(page.cursor)
      items == FirstOf(S, PageLimit)
  IN
  /\ page.pc \in {"idle", "open"}
  /\ page' = [pc |-> IF NextCursor(S) = 0 THEN "done" ELSE "open",
              cursor |-> NextCursor(S),
              items |-> page.items \cup items,
              steady |-> IF page.pc = "idle" THEN After(0) ELSE page.steady,
              twice |-> page.twice \/ page.items \cap items # {}]
  /\ UNCHANGED <<table, req, inflight, kept, now>>

-----------------------------------------------------------------------------
IngestNext ==
  \/ \E r \in Reqs : Admit(r)
  \/ \E r \in Reqs : BodyRefused(r)
  \/ \E r \in Reqs : BeginUpsert(r)
  \/ \E r \in Reqs : ReadRow(r)
  \/ \E r \in Reqs : SwapRow(r)
  \/ \E r \in Reqs : StorageFails(r)
  \/ \E k \in Keys : DeleteExpired(k)
  \/ TimePasses
  \/ ListPage

IngestSpec == IngestInit /\ [][IngestNext]_ingestVars

-----------------------------------------------------------------------------
(* Properties.                                                             *)

\* A report that was answered with success is in the table until its row is
\* replaced by a newer one or deleted: no concurrent upsert puts an older one
\* over it, and of two different reports for one time only one is answered so
\* (upsert's compare-and-swap on observed_at).
AckedKept ==
  \A r \in kept :
    LET i == req[r].input IN
    /\ table[i.key].observed >= i.observed
    /\ table[i.key].observed = i.observed => table[i.key] = Content(i)

\* Concurrent inserts never exceed the series limit, and the capacity counter
\* is the number of requests under way, on every way out of a request.
IngestBounded ==
  /\ Cardinality(Rows \ LogKeys) <= MaxSeries
  /\ inflight = Cardinality({r \in Reqs : req[r].pc \in {"body", "read", "swap"}})
  /\ inflight <= MaxIngest

\* A listing that is followed to its end has returned every observation that
\* was shown from its first page to its last exactly once, whatever was
\* inserted, replaced or deleted between the pages.
PagesComplete ==
  /\ page.pc = "done" => page.steady \subseteq page.items
  /\ ~page.twice
=============================================================================
