----------------------------- MODULE WbReports -----------------------------
(***************************************************************************)
(* Realisation reports of WB: users upload files, which WB re-issues with  *)
(* corrected lines; a line is a row, found again by its business key, and  *)
(* each import that writes a row adds the finance components that the      *)
(* analytics sum.  Rows wait for their orders and are linked by the        *)
(* worker, or by a user from the page of an import.  Imports are deleted   *)
(* and restored.  All of it is one account and one report number.          *)
(***************************************************************************)
EXTENDS Integers, FiniteSets

CONSTANTS
    Lines,      \* stable_business_key: the lines of the report
    Versions,   \* row_hash: what a line may say
    Files,      \* files WB issues: functions from some lines to versions
    Slots,      \* bound: rows a line may have, deleted ones included
    MaxImports, \* bound: uploads
    Limit,      \* rows one relink takes up
    Workers,    \* relinks of the worker: cron, order poll, backfill
    Pages,      \* relinks started from the page of an import
    None

Imports == 1..MaxImports
Rows == Lines \X Slots
LineOf(r) == r[1]
Relinkers == Workers \cup Pages

\* What the columns of the order say together: there is an order_id, or the
\* row waits for one (order_match_status pending, not found, ambiguous), or
\* an error met while it was matched has put it aside.
Match == {"linked", "waiting", "error"}
Row == [live : BOOLEAN, import : Imports, version : Versions, match : Match]
Seen == [row : Rows, version : Versions, match : Match]

ASSUME ReportsAssumption ==
    /\ MaxImports \in Nat /\ Limit \in Nat
    /\ IsFiniteSet(Rows)
    /\ \A f \in Files : DOMAIN f \subseteq Lines /\ \A l \in DOMAIN f : f[l] \in Versions
    /\ None \notin Row

VARIABLES
    rows,       \* wb_daily_report_rows
    attempt,    \* last_match_attempt_at by its order, 0 where it is NULL
    money,      \* finance components: money[r][i] are those import i made of row r
    imports,    \* wb_daily_report_imports.status
    orders,     \* how many orders of the database match the line
    upload,     \* what each open import has read
    relink,     \* the rows each relink has read
    revived     \* history: rows whose linking has brought components back

vars == <<rows, attempt, money, imports, orders, upload, relink, revived>>

TypeOK ==
    /\ rows \in [Rows -> Row \cup {None}]
    /\ attempt \in [Rows -> Nat]
    /\ money \in [Rows -> [Imports -> {"none", "counted", "out"}]]
    /\ imports \in [Imports -> {"free", "open", "failed", "kept", "deleted"}]
    /\ orders \in [Lines -> {"none", "one", "many"}]
    /\ DOMAIN upload = Imports
    /\ \A i \in Imports : imports[i] = "open" =>
          /\ upload[i].file \in Files
          /\ upload[i].seen \in [DOMAIN upload[i].file -> Seen \cup {None}]
          /\ upload[i].order \in [DOMAIN upload[i].file -> {"linked", "waiting"}]
    /\ relink \in [Relinkers -> (SUBSET Rows) \cup {None}]
    /\ revived \subseteq Rows

Exists(r) == rows[r] # None
Live(r) == Exists(r) /\ rows[r].live

Init ==
    /\ rows = [r \in Rows |-> None] /\ attempt = [r \in Rows |-> 0]
    /\ money = [r \in Rows |-> [i \in Imports |-> "none"]]
    /\ imports = [i \in Imports |-> "free"]
    /\ orders = [l \in Lines |-> "none"]
    /\ upload = [i \in Imports |-> None]
    /\ relink = [k \in Relinkers |-> None]
    /\ revived = {}

\* An order poll, a backfill or another import stores an order of the line.
OrderLoaded(l) ==
    /\ orders[l] # "many"
    /\ \E n \in {"one", "many"} \ {orders[l]} : orders' = [orders EXCEPT ![l] = n]
    /\ UNCHANGED <<rows, attempt, money, imports, upload, relink, revived>>

-----------------------------------------------------------------------------
(* An import is one transaction: it reads the rows its lines have and the  *)
(* orders they match, then writes, and commits once.  Row locks and the    *)
(* two unique indexes make the writes of two imports as good as atomic;    *)
(* what they have read may be out of date.                                 *)

SeenOf(l) ==
    IF \E r \in Rows : LineOf(r) = l /\ Live(r)
    THEN LET r == CHOOSE r \in Rows : LineOf(r) = l /\ Live(r)
         IN  [row |-> r, version |-> rows[r].version, match |-> rows[r].match]
    ELSE None

\* _resolve_order_link: exactly one order fits the line.
OrderLink(l) == IF orders[l] = "one" THEN "linked" ELSE "waiting"

ReadExisting(i, f) ==
    /\ imports[i] = "free" /\ \A j \in Imports : j < i => imports[j] # "free"
    /\ imports' = [imports EXCEPT ![i] = "open"]
    /\ upload' = [upload EXCEPT ![i] =
          [file |-> f, seen |-> [l \in DOMAIN f |-> SeenOf(l)],
           order |-> [l \in DOMAIN f |-> OrderLink(l)]]]
    /\ UNCHANGED <<rows, attempt, money, orders, relink, revived>>

\* Lines that are written: new ones and those whose text has changed.
IsNew(i, l) == upload[i].seen[l] = None
Unchanged(i, l) == ~IsNew(i, l) /\ upload[i].seen[l].version = upload[i].file[l]
Written(i) == {l \in DOMAIN upload[i].file : ~Unchanged(i, l)}

\* ux_wb_daily_report_row_dedupe counts deleted rows too; the index on the
\* business key only rows that are not deleted.
SameHash(r, l, v) == LineOf(r) = l /\ Exists(r) /\ rows[r].version = v
Violates(i, l) ==
    LET v == upload[i].file[l]
    IN  IF IsNew(i, l)
        THEN \E r \in Rows : SameHash(r, l, v) \/ (LineOf(r) = l /\ Live(r))
        ELSE \E r \in Rows \ {upload[i].seen[l].row} : SameHash(r, l, v)

HasRoom(l) == \E s \in Slots : ~Exists(<<l, s>>)
Place(i, l) == IF IsNew(i, l) THEN <<l, CHOOSE s \in Slots : ~Exists(<<l, s>>)>>
               ELSE upload[i].seen[l].row
IsWritten(i, r) == LineOf(r) \in Written(i) /\ r = Place(i, LineOf(r))

\* Of a row that exists only the columns that differ from what was read are
\* written: is_active and deleted_at never are, the match only if it differs.
\* Mutant: the order is left to the next relink.
NewRowUnset(i, l) == [live |-> TRUE, import |-> i, version |-> upload[i].file[l],
                      match |-> None]
NewRow(i, l) == [live |-> TRUE, import |-> i, version |-> upload[i].file[l],
                 match |-> upload[i].order[l]]
\* Mutant: import_id is skipped with the values and not set after them.
UpdatedRowKept(i, r) == [rows[r] EXCEPT !.version = upload[i].file[LineOf(r)]]
UpdatedRow(i, r) ==
    LET l == LineOf(r) IN
    [live |-> rows[r].live, import |-> i, version |-> upload[i].file[l],
     match |-> IF upload[i].order[l] = upload[i].seen[l].match
               THEN rows[r].match ELSE upload[i].order[l]]
RowOf(i, r) == IF IsNew(i, LineOf(r)) THEN NewRow(i, LineOf(r)) ELSE UpdatedRow(i, r)

\* _replace_finance_components
Out(m) == IF m = "counted" THEN "out" ELSE m
Counted(m) == IF m = "out" THEN "counted" ELSE m
Replaced(i, m) == [j \in Imports |-> IF j = i THEN "counted" ELSE Out(m[j])]

Store(i) ==
    /\ imports[i] = "open"
    /\ \A l \in Written(i) : ~Violates(i, l) /\ (IsNew(i, l) => HasRoom(l))
    /\ rows' = [r \in Rows |-> IF IsWritten(i, r) THEN RowOf(i, r) ELSE rows[r]]
    /\ money' = [r \in Rows |-> IF IsWritten(i, r) THEN Replaced(i, money[r]) ELSE money[r]]
    /\ imports' = [imports EXCEPT ![i] = "kept"]
    /\ upload' = [upload EXCEPT ![i] = None]
    /\ revived' = {r \in revived : ~IsWritten(i, r)}
    /\ UNCHANGED <<attempt, orders, relink>>

\* An IntegrityError, or any other failure, takes everything back.
ImportFails(i) ==
    /\ imports[i] = "open"
    /\ imports' = [imports EXCEPT ![i] = "failed"]
    /\ upload' = [upload EXCEPT ![i] = None]
    /\ UNCHANGED <<rows, attempt, money, orders, relink, revived>>

-----------------------------------------------------------------------------
(* Linking rows that wait for their order, those tried longest ago first.  *)

Stored(i) == imports[i] \in {"kept", "deleted"}
Waiting(rs, r) == rs[r] # None /\ rs[r].live /\ rs[r].match = "waiting"

\* The rows a query with this limit may return.
Oldest(E) == {S \in SUBSET E :
                 /\ Cardinality(S) = IF Cardinality(E) <= Limit THEN Cardinality(E) ELSE Limit
                 /\ \A r \in S : \A q \in E \ S : attempt[r] <= attempt[q]}

\* Timestamps are kept by their order: the rows of S are now the last ones.
Before(S, r) == {attempt[q] : q \in {q \in Rows \ S : 0 < attempt[q] /\ attempt[q] <= attempt[r]}}
\* Mutant: last_match_attempt_at is not written.
Unstamped(S) == attempt
Stamped(S) == [r \in Rows |->
    IF r \in S THEN Cardinality({attempt[q] : q \in {q \in Rows \ S : 0 < attempt[q]}}) + 1
    ELSE Cardinality(Before(S, r))]

\* An exception while one row is matched puts this row aside, and the others
\* go on.  The status is written, an order_id that another session has set
\* meanwhile is not.
Matched(S) == {r \in S : orders[LineOf(r)] = "one"}
Aside(m) == IF m = "linked" THEN m ELSE "error"

\* Those of M are linked, those of E are put aside, the others keep waiting.
Relinked(rs, M, E) ==
    [r \in Rows |-> IF r \in M THEN [rs[r] EXCEPT !.match = "linked"]
                    ELSE IF r \in E THEN [rs[r] EXCEPT !.match = Aside(@)]
                    ELSE rs[r]]
\* _activate_components_for_match: every component the row ever had.
LinkedMoney(m, M) == [r \in Rows |-> IF r \in M THEN [j \in Imports |-> Counted(m[r][j])]
                                     ELSE m[r]]

BroughtBack(m, M) == {r \in M : \E j \in Imports : m[r][j] = "out"}

Linkable == {r \in Rows : Waiting(rows, r) /\ imports[rows[r].import] # "deleted"}

ReadRows(k, E) ==
    /\ relink[k] = None
    /\ \E S \in Oldest(E) : relink' = [relink EXCEPT ![k] = S]
    /\ UNCHANGED <<rows, attempt, money, imports, orders, upload, revived>>

RelinkAll(k) == k \in Workers /\ ReadRows(k, Linkable)
RelinkImport(k, i) == k \in Pages /\ Stored(i) /\ ReadRows(k, {r \in Linkable : rows[r].import = i})

RelinkDone(k) ==
    /\ relink[k] # None
    /\ \E E \in SUBSET relink[k] :
          /\ rows' = Relinked(rows, Matched(relink[k] \ E), E)
          /\ money' = LinkedMoney(money, Matched(relink[k] \ E))
          /\ revived' = revived \cup BroughtBack(money, Matched(relink[k] \ E))
    /\ attempt' = Stamped(relink[k])
    /\ relink' = [relink EXCEPT ![k] = None]
    /\ UNCHANGED <<imports, orders, upload>>

\* A statement the database refuses, or the death of the process, takes the
\* whole relink back.
RelinkFails(k) ==
    /\ relink[k] # None
    /\ relink' = [relink EXCEPT ![k] = None]
    /\ UNCHANGED <<rows, attempt, money, imports, orders, upload, revived>>

-----------------------------------------------------------------------------
(* Deleting and restoring an import.                                       *)

SetLive(i, b) == [r \in Rows |-> IF Exists(r) /\ rows[r].import = i
                                 THEN [rows[r] EXCEPT !.live = b] ELSE rows[r]]

\* Mutant: only the rows are deleted.
SoftDeleteRows(i) ==
    /\ Stored(i)
    /\ rows' = SetLive(i, FALSE)
    /\ imports' = [imports EXCEPT ![i] = "deleted"]
    /\ UNCHANGED <<attempt, money, orders, upload, relink, revived>>
SoftDeleteImport(i) ==
    /\ Stored(i)
    /\ rows' = SetLive(i, FALSE)
    /\ money' = [r \in Rows |-> [money[r] EXCEPT ![i] = Out(@)]]
    /\ imports' = [imports EXCEPT ![i] = "deleted"]
    /\ UNCHANGED <<attempt, orders, upload, relink, revived>>

\* The rows come back, unless a line has been stored anew meanwhile, and are
\* linked in the same transaction.
OneLive(rs) == \A r, q \in Rows : /\ LineOf(r) = LineOf(q) /\ r # q
                                  /\ rs[r] # None /\ rs[q] # None
                                  => ~(rs[r].live /\ rs[q].live)
RestoreImport(i) ==
    LET back == SetLive(i, TRUE)
        paid == [r \in Rows |-> [money[r] EXCEPT ![i] = Counted(@)]]
    IN  /\ Stored(i) /\ OneLive(back)
        /\ \E S \in Oldest({r \in Rows : Waiting(back, r) /\ back[r].import = i}) :
              /\ \E E \in SUBSET S :
                    /\ rows' = Relinked(back, Matched(S \ E), E)
                    /\ money' = LinkedMoney(paid, Matched(S \ E))
                    /\ revived' = revived \cup BroughtBack(paid, Matched(S \ E))
              /\ attempt' = Stamped(S)
        /\ imports' = [imports EXCEPT ![i] = "kept"]
        /\ UNCHANGED <<orders, upload, relink>>

-----------------------------------------------------------------------------
Next ==
    \/ \E l \in Lines : OrderLoaded(l)
    \/ \E i \in Imports :
          \/ \E f \in Files : ReadExisting(i, f)
          \/ Store(i) \/ ImportFails(i) \/ SoftDeleteImport(i) \/ RestoreImport(i)
    \/ \E k \in Relinkers :
          \/ RelinkAll(k) \/ RelinkDone(k) \/ RelinkFails(k)
          \/ \E i \in Imports : RelinkImport(k, i)

Spec == Init /\ [][Next]_vars

\* The cron job comes every two hours; not every one of its runs fails.
Fairness == \A k \in Workers : WF_vars(RelinkAll(k)) /\ SF_vars(RelinkDone(k))
FairSpec == Spec /\ Fairness

-----------------------------------------------------------------------------
(* A deleted report is out, rows and money: none of its rows is live, and  *)
(* what it has made of a row is not counted, however deletions overlap     *)
(* with the imports and relinks that write the same rows, unless the row   *)
(* has been linked since, which brings back all that was ever made of it.  *)
DeletedIsOut ==
    \A i \in Imports, r \in Rows : imports[i] = "deleted" =>
        /\ ~(Live(r) /\ rows[r].import = i)
        /\ money[r][i] = "counted" => r \in revived

(* No money is lost: what the last import of a live row has said of it is  *)
(* counted, whatever else is deleted, restored, corrected or linked.       *)
CurrentIsCounted == \A r \in Rows : Live(r) => money[r][rows[r].import] = "counted"

(* A line that waits for an order which is in the database does not wait   *)
(* for ever: rows that find none do not keep the places of a limited query.*)
(* It is linked, unless its row is deleted, the match becomes ambiguous or *)
(* an error puts the row aside; no relink takes it up again after that.    *)
Awaits(l) == orders[l] = "one" /\ \E r \in Rows : LineOf(r) = l /\ Waiting(rows, r)
EveryOrderIsLinked == \A l \in Lines : Awaits(l) ~> ~Awaits(l)

(* What earlier imports said of a row is not counted beside it.            *)
CountedOnce == \A r \in Rows : \A i \in Imports :
    Live(r) /\ money[r][i] = "counted" => i = rows[r].import

(* "Rows and finance operations of a deleted report are no longer counted" *)
(* (wb_daily_reports.py:545), without the exception of DeletedIsOut.       *)
DeletedIsNotCounted == \A i \in Imports : imports[i] = "deleted" =>
    \A r \in Rows : money[r][i] # "counted"

(* The rows of an import that is kept are live.                            *)
KeptIsLive == \A r \in Rows : Exists(r) /\ imports[rows[r].import] = "kept" => Live(r)
=============================================================================
