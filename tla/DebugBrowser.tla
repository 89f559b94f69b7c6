----------------------------- MODULE DebugBrowser -----------------------------
(***************************************************************************)
(* The debug browser of the HTTP API (server/debug.go). A client lists     *)
(* names, pages through the rows of a table by offset, or through the keys *)
(* of Valkey by cursor, while rows and keys come and go.                   *)
(*                                                                         *)
(* Rows and keys are numbers. The order of rows is that of the numbers     *)
(* unless the client sorts by a column with equal values; a key hashes to the      *)
(* bucket Bucket[k] of Valkey's table.                                     *)
(***************************************************************************)
EXTENDS Integers, FiniteSets

CONSTANTS
    Things,      \* numbers of the rows or keys there may be
    Bucket,      \* [Things -> 0..(Buckets - 1)]
    Buckets,
    Matching,    \* keys that pass the filters q and type
    RawLimits,   \* values of the parameter limit
    Junk,        \* one that is no number
    MaxLimit,    \* 500 in the code
    MaxOffset,   \* 1000000 in the code
    MaxEdits   \* bound: changes while a client browses

ASSUME BrowserAssumption ==
    /\ Things \subseteq Nat /\ IsFiniteSet(Things) /\ Matching \subseteq Things
    /\ Buckets \in Nat \ {0} /\ Bucket \in [Things -> 0..(Buckets - 1)]
    /\ RawLimits \subseteq Int \cup {Junk} /\ Junk \notin Int
    /\ MaxLimit \in Nat \ {0} /\ MaxOffset \in Nat

VARIABLES
    view,      \* "none", "names", "rows", "keys"
    step,        \* where the handler is; "client" between requests, "done" after the last
    present,   \* rows or keys that exist
    limit,
    at,        \* offset or cursor of the client
    batch,     \* keys of a SCAN that are still to be examined
    next,      \* nextCursor
    found,     \* what the request has found so far
    total,     \* the count of the last page of rows
    \* history of the client
    shown,     \* what it has been shown
    repeats,   \* how often that was something it had been shown before
    unsorted,  \* its pages are not of one definite order
    stayed,    \* what has existed all the time
    added,     \* how many have come
    removed,   \* how many have gone
    lost       \* what a handler left out: a row after a broken read, a key whose
               \* TYPE or TTL failed, or one behind the limit in its batch

clientVars == <<shown, repeats>>
browserVars == <<view, step, present, limit, at, batch, next, found, total, shown, repeats,
                 unsorted, stayed, added, removed, lost>>

BrowserInit ==
    /\ view = "none" /\ step = "done"
    /\ present = {} /\ limit = 1 /\ at = 0 /\ batch = {} /\ next = 0
    /\ found = {} /\ total = 0 /\ shown = {} /\ repeats = 0
    /\ unsorted = FALSE /\ stayed = {} /\ added = 0 /\ removed = 0 /\ lost = {}

-----------------------------------------------------------------------------

ClampInt(s, lo, hi) ==
    CASE s = Junk -> lo
      [] s # Junk -> IF s < lo THEN lo ELSE IF s > hi THEN hi ELSE s

(* The rows with the numbers a + 1 to b of the result of a query. Among equal *)
(* values PostgreSQL may choose another order each time; without the columns that *)
(* the client sorts or filters by, the page is one of another list. *)
Rank(x) == Cardinality({y \in present : y <= x})
Slice(a, b) ==
    IF unsorted THEN {rows \in SUBSET present : Cardinality(rows) <= b - a}
    ELSE {{x \in present : Rank(x) \in (a + 1)..b}}

(* A client begins to look at what there is. *)
Browse(what, first) ==
    /\ view = "none"
    /\ view' = what /\ step' = first
    /\ present' \in SUBSET Things /\ stayed' = present'
    /\ \E raw \in RawLimits : limit' = ClampInt(raw, 1, MaxLimit)
    /\ unsorted' \in {what = "rows", FALSE}
    /\ UNCHANGED <<at, batch, next, found, total, clientVars, added, removed, lost>>

(* It has seen the last page and leaves. *)
Leave ==
    /\ view # "none" /\ step = "done"
    /\ view' = "none"
    /\ present' = {} /\ limit' = 1 /\ at' = 0 /\ next' = 0
    /\ total' = 0 /\ shown' = {} /\ repeats' = 0
    /\ unsorted' = FALSE /\ stayed' = {} /\ added' = 0 /\ removed' = 0 /\ lost' = {}
    /\ UNCHANGED <<step, batch, found>>

ListDatabases == Browse("names", "fetch")
ListTables == Browse("names", "fetch")
DescribeTable == Browse("names", "fetch")

Show(things) ==
    /\ shown' = shown \cup things
    /\ repeats' = repeats + Cardinality(things \cap shown)

(* The result of a query is read to its end, or to row n where the connection *)
(* breaks, which rows.Next does not tell from the end: the answer is 200. *)
ReadRows(rows) ==
    \/ Show(rows) /\ UNCHANGED lost
    \/ \E n \in rows : LET got == {x \in rows : x < n}
                       IN  Show(got) /\ lost' = lost \cup (rows \ got)

FetchNames ==
    /\ view = "names" /\ step = "fetch"
    /\ ReadRows(present)
    /\ step' = "done"
    /\ UNCHANGED <<view, present, limit, at, batch, next, found, total, unsorted, stayed, added, removed>>

-----------------------------------------------------------------------------
(* QueryRows: the columns, the count and the rows are three queries. *)

QueryRows == Browse("rows", "client")

(* A connection that breaks while the columns are read leaves fewer of them: a *)
(* sort column that is not among them is replaced by the first one, and a filter *)
(* on it is left out. With no column at all the answer is 404, and the client asks *)
(* again. *)
Introspect ==
    /\ view = "rows" /\ step = "client"
    /\ step' = "count"
    /\ unsorted' \in {unsorted, TRUE}
    /\ UNCHANGED <<view, present, limit, at, batch, next, found, total, clientVars,
                   stayed, added, removed, lost>>

CountRows ==
    /\ view = "rows" /\ step = "count"
    /\ total' = Cardinality(present)
    /\ step' = "fetch"
    /\ UNCHANGED <<view, present, limit, at, batch, next, found, clientVars,
                   unsorted, stayed, added, removed, lost>>

OffsetFromOne == ClampInt(at, 1, MaxOffset)   \* mutant: with the lower bound of limit
Offset == ClampInt(at, 0, MaxOffset)

(* The client goes on from its offset until a page is empty. Bound: it gives up *)
(* behind the largest offset, where it would be shown the same page for ever. *)
FetchRows ==
    /\ view = "rows" /\ step = "fetch"
    /\ \E rows \in Slice(Offset, Offset + limit) :
          /\ ReadRows(rows)
          /\ step' = IF UNCHANGED clientVars \/ at > MaxOffset THEN "done" ELSE "client"
    /\ at' = at + limit
    /\ UNCHANGED <<view, present, limit, batch, next, found, total, unsorted, stayed, added, removed>>

-----------------------------------------------------------------------------
(* ScanKeys *)

ScanKeys == Browse("keys", "scan")

(* SCAN visits buckets from its cursor on until it has COUNT keys, or fewer. *)
InBuckets(a, b) == {k \in present : Bucket[k] \in a..b}

ScanAndLeave ==    \* mutant: the last batch is not examined
    /\ view = "keys" /\ step = "scan"
    /\ \E b \in next..(Buckets - 1) :
          /\ Cardinality(InBuckets(next, b - 1)) < 2 * limit
          /\ batch' = {}
          /\ next' = (b + 1) % Buckets
          /\ step' = IF next' = 0 THEN "answer" ELSE "examine"
    /\ UNCHANGED <<view, present, limit, at, found, total, clientVars, unsorted, stayed, added, removed, lost>>
Scan ==
    /\ view = "keys" /\ step = "scan"
    /\ \E b \in next..(Buckets - 1) :
          /\ Cardinality(InBuckets(next, b - 1)) < 2 * limit
          /\ batch' = InBuckets(next, b)
          /\ next' = (b + 1) % Buckets
    /\ step' = "examine"
    /\ UNCHANGED <<view, present, limit, at, found, total, clientVars, unsorted, stayed, added, removed, lost>>

(* One key of the batch: it does not match, its TYPE or TTL fails, or it is found. *)
(* A key that is gone by now is found with a TTL of -2, unless a type was asked for. *)
Examine ==
    /\ view = "keys" /\ step = "examine"
    /\ Cardinality(found) < limit
    /\ \E k \in batch :
          /\ batch' = batch \ {k}
          /\ \/ k \notin Matching \cap present /\ UNCHANGED <<found, lost>>
             \/ k \in Matching /\ lost' = lost \cup {k} /\ UNCHANGED found
             \/ k \in Matching /\ found' = found \cup {k} /\ UNCHANGED lost
    /\ UNCHANGED <<view, step, present, limit, at, next, total, clientVars, unsorted, stayed, added, removed>>

(* The batch is done, or the limit reached: the rest of the batch is dropped. *)
EndOfBatch ==
    /\ view = "keys" /\ step = "examine"
    /\ batch = {} \/ Cardinality(found) >= limit
    /\ lost' = lost \cup batch
    /\ batch' = {}
    /\ step' = IF next # 0 /\ Cardinality(found) < limit THEN "scan" ELSE "answer"
    /\ UNCHANGED <<view, present, limit, at, next, found, total, clientVars, unsorted, stayed, added, removed>>

(* The client is shown a page and asks for the next one until the cursor is 0. *)
AnswerKeys ==
    /\ view = "keys" /\ step = "answer"
    /\ Show(found) /\ found' = {}
    /\ at' = next
    /\ step' = IF next = 0 THEN "done" ELSE "scan"
    /\ UNCHANGED <<view, present, limit, batch, next, total, unsorted, stayed, added, removed, lost>>

-----------------------------------------------------------------------------

(* A query or a command fails: 500, and the client asks for the same page again. *)
RequestFails ==
    /\ step \in {"count", "fetch", "scan"}
    /\ step' = CASE view = "rows" -> "client" [] view = "keys" -> "scan" [] view = "names" -> "fetch"
    /\ next' = at /\ found' = {}
    /\ UNCHANGED <<view, present, limit, at, batch, total, clientVars, unsorted, stayed, added, removed, lost>>

ThingAppears ==
    /\ step # "done" /\ added + removed < MaxEdits
    /\ \E x \in Things \ present : present' = present \cup {x}
    /\ added' = added + 1
    /\ UNCHANGED <<view, step, limit, at, batch, next, found, total, clientVars, unsorted, stayed, removed, lost>>

ThingDisappears ==
    /\ step # "done" /\ added + removed < MaxEdits
    /\ \E x \in present : present' = present \ {x} /\ stayed' = stayed \ {x}
    /\ removed' = removed + 1
    /\ UNCHANGED <<view, step, limit, at, batch, next, found, total, clientVars, unsorted, added, lost>>

BrowserNext ==
    \/ ListDatabases \/ ListTables \/ DescribeTable \/ FetchNames
    \/ QueryRows \/ Introspect \/ CountRows \/ FetchRows
    \/ ScanKeys \/ Scan \/ Examine \/ EndOfBatch \/ AnswerKeys
    \/ RequestFails \/ Leave
    \/ ThingAppears \/ ThingDisappears

BrowserSpec == BrowserInit /\ [][BrowserNext]_browserVars

-----------------------------------------------------------------------------

(* debug.go:155: paging through rows in a definite order, without a broken read, *)
(* misses no more of the rows that stayed than were deleted meanwhile, and repeats *)
(* no more than were inserted, as long as no offset is beyond the largest one; and *)
(* of a table nobody changes every page shows the true total. *)
RowsPagedOnce ==
    view = "rows" /\ step = "done" /\ ~unsorted /\ lost = {} /\ at <= MaxOffset + limit =>
        /\ Cardinality(stayed \ shown) <= removed
        /\ repeats <= added
        /\ added + removed = 0 => Cardinality(shown) = total

(* debug.go:369: a key that existed all the time and matches is on one of the *)
(* pages, unless its TYPE or TTL failed or it stood behind the limit in a batch. *)
KeysLostOnlyByCut ==
    view = "keys" /\ step = "done" => stayed \cap Matching \subseteq shown \cup lost
=============================================================================
