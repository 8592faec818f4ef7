-------------------------- MODULE TelemetryReading --------------------------
(***************************************************************************)
(* GET /telemetry: a reader asks for page after page, each time with the   *)
(* cursor of the page before, while the consumer inserts events.  A row is *)
(* known by its time, device and type of event (the index of the table);   *)
(* all rows are of the application of the pod, as every query filters them *)
(* by app_id.                                                              *)
(***************************************************************************)
EXTENDS Integers, FiniteSets

CONSTANTS
  Times, Devices, Types,  \* sets of numbers: what matters of them is their order
  Limits,                 \* values of the parameter limit
  MinLimit, MaxLimit,     \* MIN_LIMIT and MAX_LIMIT, 1 <= MinLimit <= MaxLimit
  Any                     \* no restriction

VARIABLES
  table,   \* rows of telemetry
  before,  \* the cursor of the next request, Any for none
  wanted,  \* rows there were when the reader asked for its first page
  shown,   \* rows it has got so far
  reader   \* "new", "reading", "over" or "failed"
vars == <<table, before, wanted, shown, reader>>

Rows == [time: Times, device: Devices, type: Types]
(* A cursor is a bare timestamp, or the key of the last row of a page.      *)
BareTimes == [time: Times, device: {Any}, type: {Any}]

-----------------------------------------------------------------------------
Clamped(limit) ==
  IF limit < MinLimit THEN MinLimit ELSE IF limit > MaxLimit THEN MaxLimit ELSE limit

(* (dev_eui, event_type) < ($5, $6)                                         *)
TieBefore(r, s) == r.device < s.device \/ (r.device = s.device /\ r.type < s.type)

(* The WHERE clause                                                         *)
Selected(r, cursor) ==
  \/ cursor = Any
  \/ r.time < cursor.time
  \/ r.time = cursor.time /\ cursor.device # Any /\ TieBefore(r, cursor)

(* ORDER BY time DESC, dev_eui, event_type                                  *)
Precedes(r, s) == r.time > s.time \/ (r.time = s.time /\ TieBefore(r, s))

(* LIMIT: the rows that fewer than n others precede                         *)
Fetch(rows, cursor, n) ==
  LET found == {r \in rows : Selected(r, cursor)} IN
  {r \in found : Cardinality({s \in found : Precedes(s, r)}) < n}

LastOf(page) == CHOOSE r \in page : \A s \in page \ {r} : Precedes(s, r)

-----------------------------------------------------------------------------
Init ==
  /\ table \in SUBSET Rows
  /\ before \in BareTimes \cup {Any}
  /\ wanted = {} /\ shown = {}
  /\ reader = "new"

(* insert_event: a row that is there already is left alone.                 *)
Insert(r) ==
  /\ table' = table \cup {r}
  /\ UNCHANGED <<before, wanted, shown, reader>>

(* get_telemetry: the cursor of the last row, none after an empty page      *)
ReadPage(limit) ==
  LET page == Fetch(table, before, Clamped(limit)) IN
  /\ reader \in {"new", "reading"}
  /\ wanted' = IF reader = "new" THEN {r \in table : Selected(r, before)} ELSE wanted
  /\ shown' = shown \cup page
  /\ before' = IF page = {} THEN Any ELSE LastOf(page)
  /\ reader' = IF page = {} THEN "over" ELSE "reading"
  /\ UNCHANGED table

(* The time of a cursor reaches the driver as a text, which it may refuse   *)
(* as a timestamptz.                                                        *)
CursorRefused ==
  /\ reader \in {"new", "reading"} /\ before # Any
  /\ reader' = "failed"
  /\ UNCHANGED <<table, before, wanted, shown>>

Next ==
  \/ \E r \in Rows : Insert(r)
  \/ \E limit \in Limits : ReadPage(limit)
  \/ CursorRefused

Spec == Init /\ [][Next]_vars
-----------------------------------------------------------------------------
=============================================================================
