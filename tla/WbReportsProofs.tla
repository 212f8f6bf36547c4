-------------------------- MODULE WbReportsProofs --------------------------
(* What holds of the reports for any lines, files, imports and relinks.    *)
EXTENDS WbReports, FiniteSetTheorems, TLAPS

-----------------------------------------------------------------------------
(* The inductive invariant.  A row never disappears, so what an import or  *)
(* a relink has read can be out of date but always names a row; and the    *)
(* import a row shows is one that made components of it.                   *)
SeenExists == \A i \in Imports : imports[i] = "open" =>
    \A l \in DOMAIN upload[i].file : upload[i].seen[l] # None =>
        LineOf(upload[i].seen[l].row) = l /\ Exists(upload[i].seen[l].row)
ReadExists == \A k \in Relinkers : relink[k] # None => \A r \in relink[k] : Exists(r)
MadeByImport == \A r \in Rows : Exists(r) => money[r][rows[r].import] # "none"
LiveIsKept == \A r \in Rows : Live(r) => imports[rows[r].import] = "kept"
MoneyIsOut == \A i \in Imports, r \in Rows :
    imports[i] = "deleted" /\ money[r][i] = "counted" => r \in revived

IInv == /\ TypeOK /\ SeenExists /\ ReadExists /\ MadeByImport
        /\ LiveIsKept /\ MoneyIsOut /\ CurrentIsCounted

(* What a query of an import finds is a row of the line.                   *)
LEMMA SeenOfType ==
    ASSUME TypeOK, NEW l \in Lines
    PROVE  /\ SeenOf(l) \in Seen \cup {None}
           /\ SeenOf(l) # None => LineOf(SeenOf(l).row) = l /\ Exists(SeenOf(l).row)
<1>1. CASE \E r \in Rows : LineOf(r) = l /\ Live(r)
  <2> DEFINE r == CHOOSE r \in Rows : LineOf(r) = l /\ Live(r)
  <2>1. r \in Rows /\ LineOf(r) = l /\ Live(r)
    BY <1>1
  <2>2. rows[r] \in Row
    BY <2>1 DEF TypeOK, Live, Exists
  <2>3. SeenOf(l) = [row |-> r, version |-> rows[r].version, match |-> rows[r].match]
    BY <1>1 DEF SeenOf
  <2> QED
    BY <2>1, <2>2, <2>3 DEF Row, Seen, Live
<1>2. CASE ~\E r \in Rows : LineOf(r) = l /\ Live(r)
  BY <1>2 DEF SeenOf
<1> QED
  BY <1>1, <1>2

(* The order of the timestamps is kept in natural numbers.                 *)
LEMMA StampedType ==
    ASSUME TypeOK, NEW S
    PROVE  Stamped(S) \in [Rows -> Nat]
<1>1. IsFiniteSet(Rows)
  BY ReportsAssumption
<1>2. ASSUME NEW Q \in SUBSET Rows
      PROVE  Cardinality({attempt[q] : q \in Q}) \in Nat
  <2>1. IsFiniteSet(Q)
    BY <1>1, FS_Subset
  <2> DEFINE f == [q \in Q |-> attempt[q]]
             T == {attempt[q] : q \in Q}
  <2>2. f \in Surjection(Q, T)
    BY DEF Surjection
  <2>3. IsFiniteSet(T)
    <3> HIDE DEF f, T
    <3> QED  BY <2>1, <2>2, FS_Surjection
  <2> QED
    BY <2>3, FS_CardinalityType
<1>3. Cardinality({attempt[q] : q \in {q \in Rows \ S : 0 < attempt[q]}}) \in Nat
  BY <1>2
<1>4. ASSUME NEW r \in Rows PROVE Cardinality(Before(S, r)) \in Nat
  BY <1>2 DEF Before
<1> QED
  BY <1>3, <1>4 DEF Stamped

-----------------------------------------------------------------------------
LEMMA InitIInv == Init => IInv
BY DEF Init, IInv, TypeOK, SeenExists, ReadExists, MadeByImport, LiveIsKept,
       MoneyIsOut, CurrentIsCounted, Live, Exists, Row

-----------------------------------------------------------------------------
(* Steps that change no row and no component.                              *)
LEMMA QuietStep ==
    ASSUME IInv, UNCHANGED <<rows, money, revived>>, TypeOK', SeenExists', ReadExists',
           \A i \in Imports : imports[i] = "kept" => imports'[i] = "kept",
           \A i \in Imports : imports'[i] = "deleted" => imports[i] = "deleted"
    PROVE  IInv'
BY DEF IInv, TypeOK, MadeByImport, LiveIsKept, MoneyIsOut, CurrentIsCounted, Live, Exists, Row

LEMMA OrderLoadedIInv == ASSUME IInv, NEW l \in Lines, OrderLoaded(l) PROVE IInv'
<1>1. TypeOK'
  BY DEF IInv, TypeOK, OrderLoaded
<1>2. SeenExists' /\ ReadExists'
  BY DEF IInv, SeenExists, ReadExists, Exists, OrderLoaded
<1> QED
  BY <1>1, <1>2, QuietStep DEF OrderLoaded

LEMMA ReadExistingIInv ==
    ASSUME IInv, NEW i \in Imports, NEW f \in Files, ReadExisting(i, f)
    PROVE  IInv'
<1> USE DEF IInv
<1> DEFINE u == [file |-> f, seen |-> [l \in DOMAIN f |-> SeenOf(l)],
                 order |-> [l \in DOMAIN f |-> OrderLink(l)]]
<1>1. /\ imports' = [imports EXCEPT ![i] = "open"]
      /\ upload' = [upload EXCEPT ![i] = u]
      /\ imports[i] = "free"
      /\ UNCHANGED <<rows, attempt, money, orders, relink, revived>>
  BY DEF ReadExisting
<1>2. DOMAIN f \subseteq Lines
  BY ReportsAssumption
<1>3. /\ u.file = f
      /\ u.seen \in [DOMAIN f -> Seen \cup {None}]
      /\ u.order \in [DOMAIN f -> {"linked", "waiting"}]
      /\ \A l \in DOMAIN f : u.seen[l] = SeenOf(l)
  BY <1>2, SeenOfType DEF OrderLink
<1> HIDE DEF u
<1>4. TypeOK'
  <2>1. ASSUME NEW j \in Imports, imports'[j] = "open"
        PROVE  /\ upload'[j].file \in Files
               /\ upload'[j].seen \in [DOMAIN upload'[j].file -> Seen \cup {None}]
               /\ upload'[j].order \in [DOMAIN upload'[j].file -> {"linked", "waiting"}]
    BY <1>1, <1>3, <2>1 DEF TypeOK
  <2> QED
    BY <1>1, <2>1 DEF TypeOK
<1>5. SeenExists'
  <2>1. ASSUME NEW j \in Imports, imports'[j] = "open", NEW l \in DOMAIN upload'[j].file,
               upload'[j].seen[l] # None
        PROVE  LineOf(upload'[j].seen[l].row) = l /\ rows'[upload'[j].seen[l].row] # None
    <3>1. CASE j = i
      <4>1. upload'[j] = u
        BY <1>1, <3>1 DEF TypeOK
      <4>2. l \in Lines /\ SeenOf(l) # None /\ upload'[j].seen[l] = SeenOf(l)
        BY <1>2, <1>3, <2>1, <4>1
      <4> QED
        BY <1>1, <4>2, SeenOfType DEF Exists
    <3>2. CASE j # i
      <4>1. upload'[j] = upload[j] /\ imports[j] = "open"
        BY <1>1, <2>1, <3>2 DEF TypeOK
      <4> QED
        BY <1>1, <2>1, <4>1 DEF SeenExists, Exists
    <3> QED
      BY <3>1, <3>2
  <2> QED
    BY <2>1 DEF SeenExists, Exists
<1>6. ReadExists'
  BY <1>1 DEF ReadExists, Exists
<1> QED
  BY <1>1, <1>4, <1>5, <1>6, QuietStep DEF TypeOK

LEMMA ImportFailsIInv == ASSUME IInv, NEW i \in Imports, ImportFails(i) PROVE IInv'
<1>1. TypeOK'
  BY DEF IInv, TypeOK, ImportFails
<1>2. SeenExists' /\ ReadExists'
  BY DEF IInv, TypeOK, SeenExists, ReadExists, Exists, ImportFails
<1> QED
  BY <1>1, <1>2, QuietStep DEF IInv, TypeOK, ImportFails

LEMMA ReadRowsIInv ==
    ASSUME IInv, NEW k \in Relinkers, NEW E \in SUBSET {r \in Rows : Exists(r)}, ReadRows(k, E)
    PROVE  IInv'
<1> USE DEF IInv
<1>1. PICK S \in SUBSET E : relink' = [relink EXCEPT ![k] = S]
  BY DEF ReadRows, Oldest
<1>2. TypeOK'
  BY <1>1 DEF TypeOK, ReadRows
<1>3. SeenExists'
  BY DEF SeenExists, Exists, ReadRows
<1>4. ReadExists'
  BY <1>1 DEF TypeOK, ReadExists, Exists, ReadRows
<1> QED
  BY <1>2, <1>3, <1>4, QuietStep DEF ReadRows

LEMMA RelinkFailsIInv == ASSUME IInv, NEW k \in Relinkers, RelinkFails(k) PROVE IInv'
<1>1. TypeOK'
  BY DEF IInv, TypeOK, RelinkFails
<1>2. SeenExists' /\ ReadExists'
  BY DEF IInv, TypeOK, SeenExists, ReadExists, Exists, RelinkFails
<1> QED
  BY <1>1, <1>2, QuietStep DEF RelinkFails

-----------------------------------------------------------------------------
(* Steps that write rows.                                                  *)

(* A write that keeps every row makes nothing that was read meaningless.   *)
LEMMA ReadKept ==
    ASSUME IInv, \A r \in Rows : Exists(r) => rows'[r] # None,
           \A i \in Imports : imports'[i] = "open" =>
               imports[i] = "open" /\ upload'[i] = upload[i],
           \A k \in Relinkers : relink'[k] = relink[k] \/ relink'[k] = None
    PROVE  SeenExists' /\ ReadExists'
<1>1. SeenExists'
  <2>1. ASSUME NEW i \in Imports, imports'[i] = "open", NEW l \in DOMAIN upload'[i].file,
               upload'[i].seen[l] # None
        PROVE  LineOf(upload'[i].seen[l].row) = l /\ rows'[upload'[i].seen[l].row] # None
    <3>1. upload'[i] = upload[i] /\ imports[i] = "open"
      BY <2>1
    <3>2. upload[i].seen[l] \in Seen
      BY <2>1, <3>1 DEF IInv, TypeOK
    <3>3. upload[i].seen[l].row \in Rows
      BY <3>2 DEF Seen
    <3> QED
      BY <2>1, <3>1, <3>3 DEF IInv, SeenExists
  <2> QED
    BY <2>1 DEF SeenExists, Exists
<1>2. ReadExists'
  BY DEF IInv, TypeOK, ReadExists, Exists
<1> QED
  BY <1>1, <1>2

(* What an import writes is a row of its own, and of the line.             *)
LEMMA RowOfType ==
    ASSUME IInv, NEW i \in Imports, imports[i] = "open", NEW r \in Rows, IsWritten(i, r)
    PROVE  /\ RowOf(i, r) \in Row /\ RowOf(i, r).import = i
           /\ ~IsNew(i, LineOf(r)) => Exists(r)
<1> USE DEF IInv
<1> DEFINE l == LineOf(r)
<1>1. l \in DOMAIN upload[i].file
  BY DEF IsWritten, Written
<1>2. upload[i].file[l] \in Versions /\ upload[i].order[l] \in {"linked", "waiting"}
  BY <1>1, ReportsAssumption DEF TypeOK
<1>3. CASE IsNew(i, l)
  BY <1>2, <1>3 DEF RowOf, NewRow, Row, Match
<1>4. CASE ~IsNew(i, l)
  <2>1. upload[i].seen[l] \in Seen /\ r = upload[i].seen[l].row /\ Exists(r)
    BY <1>1, <1>4 DEF IsNew, IsWritten, Place, SeenExists, TypeOK
  <2>2. rows[r] \in Row
    BY <2>1 DEF TypeOK, Exists
  <2> QED
    BY <1>2, <1>4, <2>1, <2>2 DEF RowOf, UpdatedRow, Row, Seen, Match
<1> QED
  BY <1>3, <1>4

LEMMA StoreIInv == ASSUME IInv, NEW i \in Imports, Store(i) PROVE IInv'
<1> USE DEF IInv
<1>1. /\ imports[i] = "open"
      /\ rows' = [r \in Rows |-> IF IsWritten(i, r) THEN RowOf(i, r) ELSE rows[r]]
      /\ money' = [r \in Rows |-> IF IsWritten(i, r) THEN Replaced(i, money[r]) ELSE money[r]]
      /\ imports' = [imports EXCEPT ![i] = "kept"]
      /\ upload' = [upload EXCEPT ![i] = None]
      /\ revived' = {r \in revived : ~IsWritten(i, r)}
      /\ UNCHANGED <<attempt, orders, relink>>
  BY DEF Store
<1>2. ASSUME NEW r \in Rows
      PROVE  /\ rows'[r] \in Row \cup {None}
             /\ money'[r] \in [Imports -> {"none", "counted", "out"}]
             /\ Exists(r) => rows'[r] # None
             /\ IsWritten(i, r) => rows'[r] \in Row /\ rows'[r].import = i
             /\ IsWritten(i, r) => money'[r][i] = "counted"
             /\ ~IsWritten(i, r) => rows'[r] = rows[r] /\ money'[r] = money[r]
  <2>1. CASE IsWritten(i, r)
    <3>1. rows'[r] = RowOf(i, r) /\ money'[r] = Replaced(i, money[r])
      BY <1>1, <2>1
    <3>2. Replaced(i, money[r]) \in [Imports -> {"none", "counted", "out"}]
      BY DEF TypeOK, Replaced, Out
    <3> QED
      BY <1>1, <2>1, <3>1, <3>2, RowOfType, ReportsAssumption DEF Replaced
  <2>2. CASE ~IsWritten(i, r)
    BY <1>1, <2>2 DEF TypeOK, Exists
  <2> QED
    BY <2>1, <2>2
<1>3. /\ rows' \in [Rows -> Row \cup {None}]
      /\ money' \in [Rows -> [Imports -> {"none", "counted", "out"}]]
  BY <1>1, <1>2
<1>4. TypeOK'
  BY <1>1, <1>3 DEF TypeOK
<1>5. SeenExists' /\ ReadExists'
  BY <1>1, <1>2, ReadKept DEF TypeOK
<1>7. ASSUME NEW j \in Imports, NEW r \in Rows, imports'[j] = "deleted",
             money'[r][j] = "counted"
      PROVE  r \in revived'
  <2>1. j # i /\ imports[j] = "deleted"
    BY <1>1, <1>7 DEF TypeOK
  <2>2. ~IsWritten(i, r)
    BY <1>1, <1>7, <2>1 DEF Replaced, Out
  <2> QED
    BY <1>1, <1>2, <1>7, <2>1, <2>2 DEF MoneyIsOut
<1>6. ASSUME NEW r \in Rows, rows'[r] # None
      PROVE  /\ money'[r][rows'[r].import] # "none"
             /\ rows'[r].live => /\ money'[r][rows'[r].import] = "counted"
                                 /\ imports'[rows'[r].import] = "kept"
  <2>1. CASE IsWritten(i, r)
    BY <1>1, <1>2, <2>1 DEF TypeOK
  <2>2. CASE ~IsWritten(i, r)
    <3>1. rows'[r] = rows[r] /\ money'[r] = money[r] /\ Exists(r)
      BY <1>2, <1>6, <2>2 DEF Exists
    <3>2. rows[r].import \in Imports
      BY <3>1 DEF TypeOK, Exists, Row
    <3> QED
      BY <1>1, <3>1, <3>2
         DEF TypeOK, Live, MadeByImport, CurrentIsCounted, LiveIsKept
  <2> QED
    BY <2>1, <2>2
<1> QED
  BY <1>4, <1>5, <1>6, <1>7
     DEF MadeByImport, CurrentIsCounted, LiveIsKept, MoneyIsOut, Live, Exists

(* Linking rows changes neither their imports nor whether they live, and   *)
(* takes no component out.                                                 *)
LEMMA LinkType ==
    ASSUME NEW rs \in [Rows -> Row \cup {None}], NEW M, NEW E,
           NEW m \in [Rows -> [Imports -> {"none", "counted", "out"}]],
           \A r \in Rows : r \in M \/ r \in E => rs[r] # None
    PROVE  /\ Relinked(rs, M, E) \in [Rows -> Row \cup {None}]
           /\ LinkedMoney(m, M) \in [Rows -> [Imports -> {"none", "counted", "out"}]]
           /\ \A r \in Rows : /\ Relinked(rs, M, E)[r] # None <=> rs[r] # None
                              /\ rs[r] # None =>
                                    /\ Relinked(rs, M, E)[r].live = rs[r].live
                                    /\ Relinked(rs, M, E)[r].import = rs[r].import
           /\ \A r \in Rows, i \in Imports :
                 /\ m[r][i] = "counted" => LinkedMoney(m, M)[r][i] = "counted"
                 /\ m[r][i] # "none" => LinkedMoney(m, M)[r][i] # "none"
                 /\ LinkedMoney(m, M)[r][i] = "counted" =>
                       m[r][i] = "counted" \/ r \in BroughtBack(m, M)
<1>1. ASSUME NEW r \in Rows, r \in M \/ r \in E
      PROVE  /\ Relinked(rs, M, E)[r] \in Row
             /\ Relinked(rs, M, E)[r].live = rs[r].live
             /\ Relinked(rs, M, E)[r].import = rs[r].import
  <2>1. rs[r] \in Row
    BY <1>1
  <2>2. \/ Relinked(rs, M, E)[r] = [rs[r] EXCEPT !.match = "linked"]
        \/ Relinked(rs, M, E)[r] = [rs[r] EXCEPT !.match = Aside(@)]
    BY <1>1 DEF Relinked
  <2> QED
    BY <2>1, <2>2 DEF Row, Match, Aside
<1>2. ASSUME NEW r \in Rows, r \notin M, r \notin E PROVE Relinked(rs, M, E)[r] = rs[r]
  BY <1>2 DEF Relinked
<1>3. /\ Relinked(rs, M, E) \in [Rows -> Row \cup {None}]
      /\ \A r \in Rows : /\ Relinked(rs, M, E)[r] # None <=> rs[r] # None
                         /\ rs[r] # None =>
                               /\ Relinked(rs, M, E)[r].live = rs[r].live
                               /\ Relinked(rs, M, E)[r].import = rs[r].import
  <2>1. Relinked(rs, M, E) = [r \in Rows |-> Relinked(rs, M, E)[r]]
    BY DEF Relinked
  <2> HIDE DEF Relinked
  <2> QED
    BY <1>1, <1>2, <2>1, ReportsAssumption
<1>4. ASSUME NEW r \in Rows
      PROVE  /\ LinkedMoney(m, M)[r] \in [Imports -> {"none", "counted", "out"}]
             /\ \A i \in Imports :
                   /\ m[r][i] = "counted" => LinkedMoney(m, M)[r][i] = "counted"
                   /\ m[r][i] # "none" => LinkedMoney(m, M)[r][i] # "none"
                   /\ LinkedMoney(m, M)[r][i] = "counted" =>
                         m[r][i] = "counted" \/ r \in BroughtBack(m, M)
  BY DEF LinkedMoney, Counted, BroughtBack
<1>5. LinkedMoney(m, M) = [r \in Rows |-> LinkedMoney(m, M)[r]]
  BY DEF LinkedMoney
<1> QED
  BY <1>3, <1>4, <1>5

LEMMA RelinkDoneIInv == ASSUME IInv, NEW k \in Relinkers, RelinkDone(k) PROVE IInv'
<1> USE DEF IInv
<1>0. PICK E \in SUBSET relink[k] :
         /\ rows' = Relinked(rows, Matched(relink[k] \ E), E)
         /\ money' = LinkedMoney(money, Matched(relink[k] \ E))
         /\ revived' = revived \cup BroughtBack(money, Matched(relink[k] \ E))
  BY DEF RelinkDone
<1> DEFINE M == Matched(relink[k] \ E)
<1>1. /\ relink[k] \in SUBSET Rows /\ \A r \in relink[k] : rows[r] # None
      /\ rows' = Relinked(rows, M, E) /\ money' = LinkedMoney(money, M)
      /\ revived' = revived \cup BroughtBack(money, M)
      /\ attempt' = Stamped(relink[k])
      /\ relink' = [relink EXCEPT ![k] = None]
      /\ UNCHANGED <<imports, orders, upload>>
  BY <1>0 DEF TypeOK, RelinkDone, ReadExists, Exists
<1>2. M \subseteq Rows /\ \A r \in Rows : r \in M \/ r \in E => rows[r] # None
  BY <1>0, <1>1 DEF Matched
<1> HIDE DEF M
<1>3. /\ rows \in [Rows -> Row \cup {None}]
      /\ money \in [Rows -> [Imports -> {"none", "counted", "out"}]]
  BY DEF TypeOK
<1>4. /\ rows' \in [Rows -> Row \cup {None}]
      /\ money' \in [Rows -> [Imports -> {"none", "counted", "out"}]]
      /\ \A r \in Rows : /\ rows'[r] # None <=> rows[r] # None
                         /\ rows[r] # None =>
                               rows'[r].live = rows[r].live /\ rows'[r].import = rows[r].import
      /\ \A r \in Rows, i \in Imports :
            /\ money[r][i] = "counted" => money'[r][i] = "counted"
            /\ money[r][i] # "none" => money'[r][i] # "none"
            /\ money'[r][i] = "counted" => money[r][i] = "counted" \/ r \in revived'
  BY <1>1, <1>2, <1>3, LinkType
<1>5. TypeOK'
  <2>1. attempt' \in [Rows -> Nat]
    BY <1>1, StampedType
  <2>2. revived' \subseteq Rows
    BY <1>1, <1>2 DEF TypeOK, BroughtBack
  <2> QED
    BY <1>1, <1>4, <2>1, <2>2 DEF TypeOK
<1>6. SeenExists' /\ ReadExists'
  BY <1>1, <1>4, ReadKept DEF TypeOK, Exists
<1>7. ASSUME NEW r \in Rows, rows[r] # None PROVE rows[r].import \in Imports
  BY <1>3, <1>7 DEF Row
<1>8. MoneyIsOut'
  BY <1>1, <1>4 DEF MoneyIsOut
<1> QED
  BY <1>1, <1>4, <1>5, <1>6, <1>7, <1>8
     DEF MadeByImport, CurrentIsCounted, LiveIsKept, Live, Exists

-----------------------------------------------------------------------------
(* Steps that delete or restore an import.                                 *)
LEMMA SetLiveType ==
    ASSUME TypeOK, NEW i \in Imports, NEW b \in BOOLEAN
    PROVE  /\ SetLive(i, b) \in [Rows -> Row \cup {None}]
           /\ \A r \in Rows :
                 /\ SetLive(i, b)[r] # None <=> Exists(r)
                 /\ Exists(r) => SetLive(i, b)[r].import = rows[r].import
                 /\ Exists(r) /\ rows[r].import = i => SetLive(i, b)[r].live = b
                 /\ Exists(r) /\ rows[r].import # i => SetLive(i, b)[r].live = rows[r].live
<1>1. ASSUME NEW r \in Rows, Exists(r), rows[r].import = i
      PROVE  /\ SetLive(i, b)[r] \in Row
             /\ SetLive(i, b)[r].import = i /\ SetLive(i, b)[r].live = b
  <2>1. rows[r] \in Row
    BY <1>1 DEF TypeOK, Exists
  <2>2. SetLive(i, b)[r] = [rows[r] EXCEPT !.live = b]
    BY <1>1 DEF SetLive
  <2> QED
    BY <1>1, <2>1, <2>2 DEF Row
<1>2. ASSUME NEW r \in Rows, ~(Exists(r) /\ rows[r].import = i)
      PROVE  SetLive(i, b)[r] = rows[r]
  BY <1>2 DEF SetLive
<1>3. SetLive(i, b) = [r \in Rows |-> SetLive(i, b)[r]]
  BY DEF SetLive
<1> HIDE DEF SetLive
<1> QED
  BY <1>1, <1>2, <1>3, ReportsAssumption DEF TypeOK, Exists

LEMMA SoftDeleteIInv == ASSUME IInv, NEW i \in Imports, SoftDeleteImport(i) PROVE IInv'
<1> USE DEF IInv
<1>1. /\ imports[i] # "open"
      /\ rows' = SetLive(i, FALSE)
      /\ money' = [r \in Rows |-> [money[r] EXCEPT ![i] = Out(@)]]
      /\ imports' = [imports EXCEPT ![i] = "deleted"]
      /\ UNCHANGED <<attempt, orders, upload, relink, revived>>
  BY DEF SoftDeleteImport, Stored
<1>2. /\ money' \in [Rows -> [Imports -> {"none", "counted", "out"}]]
      /\ \A r \in Rows : /\ money[r][i] # "none" => money'[r][i] # "none"
                         /\ money'[r][i] # "counted"
                         /\ \A j \in Imports \ {i} : money'[r][j] = money[r][j]
  BY <1>1 DEF TypeOK, Out
<1>3. TypeOK'
  BY <1>1, <1>2, SetLiveType DEF TypeOK
<1>4. SeenExists' /\ ReadExists'
  BY <1>1, SetLiveType, ReadKept DEF TypeOK
<1>5. ASSUME NEW r \in Rows, rows'[r] # None
      PROVE  /\ money'[r][rows'[r].import] # "none"
             /\ rows'[r].live => /\ money'[r][rows'[r].import] = "counted"
                                 /\ imports'[rows'[r].import] = "kept"
  <2>1. Exists(r) /\ rows'[r].import = rows[r].import
    BY <1>1, <1>5, SetLiveType
  <2>2. rows[r].import \in Imports
    BY <2>1 DEF TypeOK, Exists, Row
  <2>3. CASE rows[r].import = i
    BY <1>1, <1>2, <2>1, <2>3, SetLiveType DEF MadeByImport
  <2>4. CASE rows[r].import # i
    <3>1. rows'[r].live = rows[r].live
      BY <1>1, <2>1, <2>4, SetLiveType
    <3>2. /\ money'[r][rows[r].import] = money[r][rows[r].import]
          /\ imports'[rows[r].import] = imports[rows[r].import]
      BY <1>1, <1>2, <2>2, <2>4 DEF TypeOK
    <3> QED
      BY <2>1, <3>1, <3>2 DEF Live, MadeByImport, CurrentIsCounted, LiveIsKept
  <2> QED
    BY <2>3, <2>4
<1>6. MoneyIsOut'
  BY <1>1, <1>2 DEF MoneyIsOut, TypeOK
<1> QED
  BY <1>3, <1>4, <1>5, <1>6 DEF MadeByImport, CurrentIsCounted, LiveIsKept, Live, Exists

LEMMA RestoreIInv == ASSUME IInv, NEW i \in Imports, RestoreImport(i) PROVE IInv'
<1> USE DEF IInv
<1> DEFINE back == SetLive(i, TRUE)
           paid == [r \in Rows |-> [money[r] EXCEPT ![i] = Counted(@)]]
<1>0. PICK S \in SUBSET {r \in Rows : Waiting(back, r) /\ back[r].import = i} :
         /\ \E E \in SUBSET S :
               /\ rows' = Relinked(back, Matched(S \ E), E)
               /\ money' = LinkedMoney(paid, Matched(S \ E))
               /\ revived' = revived \cup BroughtBack(paid, Matched(S \ E))
         /\ attempt' = Stamped(S)
  BY DEF RestoreImport, Oldest
<1>1. PICK E \in SUBSET S :
         /\ rows' = Relinked(back, Matched(S \ E), E)
         /\ money' = LinkedMoney(paid, Matched(S \ E))
         /\ revived' = revived \cup BroughtBack(paid, Matched(S \ E))
  BY <1>0
<1>2. /\ imports[i] # "open"
      /\ imports' = [imports EXCEPT ![i] = "kept"]
      /\ UNCHANGED <<orders, upload, relink>>
  BY DEF RestoreImport, Stored
<1>3. /\ paid \in [Rows -> [Imports -> {"none", "counted", "out"}]]
      /\ \A r \in Rows : /\ money[r][i] # "none" => paid[r][i] = "counted"
                         /\ \A j \in Imports \ {i} : paid[r][j] = money[r][j]
  BY DEF TypeOK, Counted
<1>4. /\ back \in [Rows -> Row \cup {None}]
      /\ \A r \in Rows :
            /\ back[r] # None <=> Exists(r)
            /\ Exists(r) => back[r].import = rows[r].import
            /\ Exists(r) /\ rows[r].import # i => back[r].live = rows[r].live
  BY SetLiveType
<1> HIDE DEF back, paid
<1> DEFINE M == Matched(S \ E)
<1>5. /\ \A r \in Rows : r \in M \/ r \in E => back[r] # None
      /\ M \subseteq Rows
  BY DEF Matched, Waiting
<1> HIDE DEF M
<1>6. /\ rows' \in [Rows -> Row \cup {None}]
      /\ money' \in [Rows -> [Imports -> {"none", "counted", "out"}]]
      /\ \A r \in Rows : /\ rows'[r] # None <=> back[r] # None
                         /\ back[r] # None =>
                               rows'[r].live = back[r].live /\ rows'[r].import = back[r].import
      /\ \A r \in Rows, j \in Imports :
            /\ paid[r][j] = "counted" => money'[r][j] = "counted"
            /\ paid[r][j] # "none" => money'[r][j] # "none"
            /\ money'[r][j] = "counted" => paid[r][j] = "counted" \/ r \in revived'
      /\ revived \subseteq revived' /\ revived' \subseteq Rows
  <2>1. /\ rows' = Relinked(back, M, E) /\ money' = LinkedMoney(paid, M)
        /\ revived' = revived \cup BroughtBack(paid, M)
    BY <1>1 DEF M
  <2>2. revived \subseteq revived' /\ revived' \subseteq Rows
    BY <1>5, <2>1 DEF TypeOK, BroughtBack
  <2> QED
    BY <1>3, <1>4, <1>5, <2>1, <2>2, LinkType
<1>7. TypeOK'
  BY <1>0, <1>2, <1>6, StampedType DEF TypeOK
<1>8. SeenExists' /\ ReadExists'
  BY <1>2, <1>4, <1>6, ReadKept DEF TypeOK
<1>9. ASSUME NEW r \in Rows, rows'[r] # None
      PROVE  /\ money'[r][rows'[r].import] # "none"
             /\ rows'[r].live => /\ money'[r][rows'[r].import] = "counted"
                                 /\ imports'[rows'[r].import] = "kept"
  <2>1. Exists(r) /\ rows'[r].import = rows[r].import /\ rows'[r].live = back[r].live
    BY <1>4, <1>6, <1>9
  <2>2. rows[r].import \in Imports
    BY <2>1 DEF TypeOK, Exists, Row
  <2>3. CASE rows[r].import = i
    BY <1>2, <1>3, <1>6, <2>1, <2>3 DEF TypeOK, MadeByImport
  <2>4. CASE rows[r].import # i
    <3>1. back[r].live = rows[r].live /\ paid[r][rows[r].import] = money[r][rows[r].import]
      BY <1>3, <1>4, <2>1, <2>2, <2>4
    <3> QED
      BY <1>2, <1>6, <2>1, <2>2, <2>4, <3>1
         DEF TypeOK, Live, MadeByImport, CurrentIsCounted, LiveIsKept
  <2> QED
    BY <2>3, <2>4
<1>10. MoneyIsOut'
  BY <1>2, <1>3, <1>6 DEF MoneyIsOut, TypeOK
<1> QED
  BY <1>7, <1>8, <1>9, <1>10 DEF MadeByImport, CurrentIsCounted, LiveIsKept, Live, Exists

-----------------------------------------------------------------------------
LEMMA NextIInv == ASSUME IInv, [Next]_vars PROVE IInv'
<1>1. CASE \E l \in Lines : OrderLoaded(l)
  BY <1>1, OrderLoadedIInv
<1>2. ASSUME NEW i \in Imports, \E f \in Files : ReadExisting(i, f)
      PROVE  IInv'
  BY <1>2, ReadExistingIInv
<1>3. ASSUME NEW i \in Imports,
             Store(i) \/ ImportFails(i) \/ SoftDeleteImport(i) \/ RestoreImport(i)
      PROVE  IInv'
  BY <1>3, StoreIInv, ImportFailsIInv, SoftDeleteIInv, RestoreIInv
<1>4. ASSUME NEW k \in Relinkers, RelinkAll(k)
      PROVE  IInv'
  BY <1>4, ReadRowsIInv DEF RelinkAll, Linkable, Waiting, Exists
<1>5. ASSUME NEW k \in Relinkers, NEW i \in Imports, RelinkImport(k, i)
      PROVE  IInv'
  BY <1>5, ReadRowsIInv DEF RelinkImport, Linkable, Waiting, Exists
<1>6. ASSUME NEW k \in Relinkers, RelinkDone(k) \/ RelinkFails(k)
      PROVE  IInv'
  BY <1>6, RelinkDoneIInv, RelinkFailsIInv
<1>7. CASE UNCHANGED vars
  BY <1>7, QuietStep DEF IInv, TypeOK, SeenExists, ReadExists, Exists, vars
<1> QED
  BY <1>1, <1>2, <1>3, <1>4, <1>5, <1>6, <1>7 DEF Next

LEMMA Inductive == Spec => []IInv
<1>1. Init => IInv
  BY InitIInv
<1>2. IInv /\ [Next]_vars => IInv'
  BY NextIInv
<1> QED
  BY <1>1, <1>2, PTL DEF Spec

(* Rows, components, imports and what sessions have read always have the   *)
(* values the code gives them.                                             *)
THEOREM TypeCorrect == Spec => []TypeOK
<1>1. IInv => TypeOK
  BY DEF IInv
<1> QED
  BY <1>1, Inductive, PTL

(* However deletions overlap with the imports that rewrite the same rows   *)
(* and with relinks, neither rows nor money of a deleted report count,     *)
(* except what the linking of a row has brought back.                      *)
THEOREM DeletedStaysOut == Spec => []DeletedIsOut
<1>1. IInv => DeletedIsOut
  BY DEF IInv, LiveIsKept, MoneyIsOut, DeletedIsOut
<1> QED
  BY <1>1, Inductive, PTL

(* However imports of one report overlap and are deleted or restored, what *)
(* the last one said of a live row is counted.                             *)
THEOREM NoMoneyLost == Spec => []CurrentIsCounted
<1>1. IInv => CurrentIsCounted
  BY DEF IInv
<1> QED
  BY <1>1, Inductive, PTL
=============================================================================
