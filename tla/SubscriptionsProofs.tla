------------------------ MODULE SubscriptionsProofs ------------------------
(***************************************************************************)
(* Subscriptions is type correct, a replaced or cancelled row stays so, a  *)
(* change of tier counts and a purchase gives what it paid for, for any    *)
(* number of users, tiers, rows and overlapping transactions.              *)
(***************************************************************************)
EXTENDS Subscriptions, TLAPS, FiniteSetTheorems, WellFoundedInduction

Inv == TypeOK /\ ReadsAreRows

(* What every write to user_subscriptions does: rows stay, keep their user *)
(* and never come back to life.                                            *)
Aged ==
    \A i \in Ids :
        subs[i] # None => /\ subs'[i] # None /\ subs'[i].user = subs[i].user
                          /\ subs[i].status # "ACTIVE" => subs'[i].status # "ACTIVE"

(* A transaction that is open has a whole record.                          *)
LEMMA OpenOperation ==
    ASSUME TypeOK, NEW s \in Sessions, op[s].kind # "idle"
    PROVE  /\ op[s] \in Operation \ {Idle} /\ op[s] # Idle
           /\ op[s].user \in Users /\ op[s].row \in Ids \cup {None}
           /\ op[s].base \in Days \cup {None}
           /\ op[s].tier \in Tiers \cup {None} /\ op[s].term \in Terms \cup {None}
  BY DEF TypeOK, Operation, Idle

LEMMA RetireRows ==
    ASSUME Inv, NEW s \in Sessions, op[s].kind # "idle",
           NEW status \in {"REPLACED", "CANCELLED"}
    PROVE  LET rows == Retire(op[s], status)
           IN  /\ rows \in [Ids -> Row \cup {None}]
               /\ \A i \in Ids :
                     /\ subs[i] = None <=> rows[i] = None
                     /\ subs[i] # None =>
                           /\ rows[i].user = subs[i].user
                           /\ subs[i].status # "ACTIVE" => rows[i].status # "ACTIVE"
  <1> DEFINE rows == Retire(op[s], status)
  <1>1. op[s] # Idle /\ subs \in [Ids -> Row \cup {None}]
    BY OpenOperation DEF Inv, TypeOK
  <1>2. ASSUME NEW i \in Ids
        PROVE  /\ rows[i] \in Row \cup {None}
               /\ subs[i] = None <=> rows[i] = None
               /\ subs[i] # None =>
                     /\ rows[i].user = subs[i].user
                     /\ subs[i].status # "ACTIVE" => rows[i].status # "ACTIVE"
    <2>1. CASE i = op[s].row
      <3>1. subs[i] # None /\ subs[i] \in Row
        BY <1>1, <2>1, OpenOperation, NullAssumption DEF Inv, ReadsAreRows, Ids
      <3>2. rows[i] = [subs[i] EXCEPT !.status = status]
        BY <2>1 DEF Retire
      <3> QED
        BY <3>1, <3>2, NullAssumption DEF Row
    <2>2. CASE i # op[s].row
      BY <1>1, <2>2 DEF Retire
    <2> QED
      BY <2>1, <2>2
  <1> QED
    BY <1>2 DEF Retire

(* The new row takes a free id.                                            *)
LEMMA InsertRows ==
    ASSUME Inv, NEW s \in Sessions, op[s].kind # "idle", op[s].tier \in Tiers,
           NEW status \in {"REPLACED", "CANCELLED"}, NEW expires \in Days \cup {None},
           Insert(Retire(op[s], status), op[s], expires)
    PROVE  subs' \in [Ids -> Row \cup {None}] /\ Aged
  <1> DEFINE rows == Retire(op[s], status)
  <1>1. PICK k \in NewId : subs' = [rows EXCEPT ![k] = NewRow(op[s], expires)]
    BY DEF Insert
  <1>2. k \in Ids /\ subs[k] = None
    BY DEF NewId, Free
  <1>3. NewRow(op[s], expires) \in Row
    BY OpenOperation DEF Inv, NewRow, Row
  <1>4. /\ rows \in [Ids -> Row \cup {None}]
        /\ \A i \in Ids :
              /\ subs[i] = None <=> rows[i] = None
              /\ subs[i] # None =>
                    /\ rows[i].user = subs[i].user
                    /\ subs[i].status # "ACTIVE" => rows[i].status # "ACTIVE"
    BY RetireRows
  <1> HIDE DEF rows
  <1>5. subs' \in [Ids -> Row \cup {None}]
    BY <1>1, <1>2, <1>3, <1>4
  <1>6. Aged
    BY <1>1, <1>2, <1>4 DEF Aged
  <1> QED
    BY <1>5, <1>6

(* After a commit the other transactions still find their rows.            *)
LEMMA CommitKeepsInv ==
    ASSUME Inv, NEW s \in Sessions, Commit(s),
           subs' \in [Ids -> Row \cup {None}], Aged
    PROVE  Inv'
  <1>1. op' \in [Sessions -> Operation] /\ \A r \in Sessions : op'[r] = Idle \/ op'[r] = op[r]
    BY DEF Inv, TypeOK, Commit, Operation
  <1>2. TypeOK'
    BY <1>1 DEF Inv, TypeOK, Commit
  <1>3. ASSUME NEW r \in Sessions, op'[r] # Idle, op'[r].row # None
        PROVE  subs'[op'[r].row] # None /\ subs'[op'[r].row].user = op'[r].user
    <2>1. op'[r] = op[r] /\ op[r] # Idle /\ op[r].row \in Ids
      BY <1>1, <1>3 DEF Inv, TypeOK, Operation
    <2>2. subs[op[r].row] # None /\ subs[op[r].row].user = op[r].user
      BY <1>3, <2>1 DEF Inv, ReadsAreRows
    <2> QED
      BY <2>1, <2>2 DEF Aged
  <1> QED
    BY <1>2, <1>3 DEF Inv, ReadsAreRows

LEMMA ReadKeepsInv ==
    ASSUME Inv, NEW s \in Sessions, NEW kind \in {"buy", "bonus", "cancel", "assign", "free"},
           NEW u \in Users, NEW t \in Tiers \cup {None}, NEW term \in Terms \cup {None},
           Read(s, kind, u, t, term)
    PROVE  Inv' /\ UNCHANGED subs
  <1> DEFINE o(i) == [kind |-> kind, user |-> u, tier |-> t, term |-> term, row |-> i,
                      base |-> IF kind # "buy" \/ i = None THEN None ELSE subs[i].expires]
  <1>1. PICK i \in GetActiveSubscription(u) : op' = [op EXCEPT ![s] = o(i)]
    BY DEF Read
  <1>2. i = None \/ (i \in Ids /\ subs[i] # None /\ subs[i].user = u)
    BY DEF GetActiveSubscription, Counted
  <1>3. o(i) \in Operation
    BY <1>2, NullAssumption DEF Inv, TypeOK, Operation, Row
  <1>4. TypeOK' /\ UNCHANGED subs
    BY <1>1, <1>3 DEF Inv, TypeOK, Read
  <1>5. o(i).row = i /\ o(i).user = u
    OBVIOUS
  <1> HIDE DEF o
  <1>6. ReadsAreRows'
    BY <1>1, <1>2, <1>4, <1>5 DEF Inv, TypeOK, ReadsAreRows
  <1> QED
    BY <1>4, <1>6 DEF Inv

LEMMA BeginKeepsInv ==
    ASSUME Inv, NEW s \in Sessions, Begin(s)
    PROVE  Inv' /\ UNCHANGED subs
  <1>1. ASSUME NEW u \in Users, BeginCancel(s, u)
        PROVE  Inv' /\ UNCHANGED subs
    BY <1>1, ReadKeepsInv DEF BeginCancel
  <1>2. ASSUME NEW u \in Users, BeginAssignFree(s, u)
        PROVE  Inv' /\ UNCHANGED subs
    BY <1>2, ReadKeepsInv DEF BeginAssignFree
  <1>3. ASSUME NEW u \in Users, NEW t \in Tiers, NEW d \in Terms,
               BeginPurchase(s, u, t, d) \/ BeginBonus(s, u, t, d) \/ BeginAssign(s, u, t, d)
        PROVE  Inv' /\ UNCHANGED subs
    BY <1>3, ReadKeepsInv DEF BeginPurchase, BeginBonus, BeginAssign
  <1> QED
    BY <1>1, <1>2, <1>3 DEF Begin

LEMMA RenewKeepsInv ==
    ASSUME Inv, NEW s \in Sessions, RenewSubscription(s)
    PROVE  Inv' /\ Aged
  <1> DEFINE o == op[s]
             base == IF o.base # None /\ o.base > now THEN o.base ELSE now
             row == [subs[o.row] EXCEPT !.expires = base + o.term]
  <1>1. o.kind = "buy" /\ o.row # None /\ base + o.term \in Days
    BY DEF RenewSubscription
  <1>2. o.row \in Ids /\ o # Idle
    BY <1>1, OpenOperation DEF Inv
  <1>3. subs[o.row] # None /\ subs[o.row] \in Row
    BY <1>1, <1>2 DEF Inv, TypeOK, ReadsAreRows
  <1>4. subs' = [subs EXCEPT ![o.row] = row]
    BY DEF RenewSubscription, Renewed
  <1> HIDE DEF base
  <1>5. row \in Row /\ row.user = subs[o.row].user /\ row.status = subs[o.row].status
    BY <1>1, <1>3 DEF Row
  <1> HIDE DEF row
  <1>6. subs' \in [Ids -> Row \cup {None}]
    BY <1>2, <1>4, <1>5 DEF Inv, TypeOK
  <1>7. Aged
    BY <1>2, <1>3, <1>4, <1>5, NullAssumption DEF Inv, TypeOK, Aged
  <1> QED
    BY <1>6, <1>7, CommitKeepsInv DEF RenewSubscription

LEMMA CreateKeepsInv ==
    ASSUME Inv, NEW s \in Sessions, op[s].tier \in Tiers, op[s].term \in Terms,
           CreateSubscription(s) \/ CreateBonusSubscription(s) \/ AssignAdminSubscription(s)
    PROVE  Inv' /\ Aged
  <1> DEFINE o == op[s]
             expires == IF o.tier \in Enterprise THEN None ELSE now + o.term
  <1>1. o.kind # "idle" /\ Commit(s)
    BY DEF CreateSubscription, CreateBonusSubscription, AssignAdminSubscription
  <1>2. now + o.term \in Days /\ o.term \in Days /\ expires \in Days \cup {None}
    <2>1. now \in 0..MaxDay /\ o.term \in 1..MaxDay
      BY TermsAssumption DEF Inv, TypeOK
    <2> HIDE DEF o
    <2>2. now + o.term \in Days /\ o.term \in Days
      BY <2>1, TermsAssumption DEF Days
    <2> QED
      BY <2>2
  <1>3. \/ Insert(Retire(o, "REPLACED"), o, now + o.term)
        \/ Insert(Retire(o, "CANCELLED"), o, expires)
        \/ Insert(Retire(o, "CANCELLED"), o, o.term)
    BY DEF CreateSubscription, CreateBonusSubscription, AssignAdminSubscription
  <1> HIDE DEF o, expires
  <1>4. subs' \in [Ids -> Row \cup {None}] /\ Aged
    BY <1>1, <1>2, <1>3, InsertRows DEF o
  <1> QED
    BY <1>1, <1>4, CommitKeepsInv

LEMMA CancelKeepsInv ==
    ASSUME Inv, NEW s \in Sessions, CancelSubscription(s) \/ AssignFree(s)
    PROVE  Inv' /\ Aged
  <1>1. op[s].kind # "idle" /\ Commit(s) /\ subs' = Retire(op[s], "CANCELLED")
    BY DEF CancelSubscription, AssignFree
  <1>2. subs' \in [Ids -> Row \cup {None}] /\ Aged
    BY <1>1, RetireRows DEF Aged
  <1> QED
    BY <1>1, <1>2, CommitKeepsInv

(* The kinds that write a new row come with a tier and a term.             *)
Complete ==
    \A s \in Sessions : op[s].kind \in {"buy", "bonus", "assign"} =>
        op[s].tier \in Tiers /\ op[s].term \in Terms

LEMMA CompleteStep ==
    ASSUME Inv, Complete, [Next]_vars
    PROVE  Complete'
  <1>1. CASE UNCHANGED op
    BY <1>1 DEF Complete
  <1>2. ASSUME NEW s \in Sessions, Begin(s)
        PROVE  Complete'
    BY <1>2 DEF Begin, BeginCancel, BeginAssignFree, BeginPurchase, BeginBonus,
                BeginAssign, Read, Complete, Inv, TypeOK
  <1>3. ASSUME NEW s \in Sessions, Commit(s)
        PROVE  Complete'
    BY <1>3 DEF Commit, Complete, Inv, TypeOK, Idle
  <1>4. ASSUME NEW s \in Sessions, Finish(s)
        PROVE  Commit(s)
    BY <1>4 DEF Finish, RenewSubscription, CreateSubscription, CreateBonusSubscription,
                CancelSubscription, AssignAdminSubscription, AssignFree, Rollback
  <1> QED
    BY <1>1, <1>2, <1>3, <1>4 DEF Next, NextDay, ToggleTariff, vars

LEMMA InvStep ==
    ASSUME Inv, Complete, [Next]_vars
    PROVE  Inv' /\ Aged
  <1>1. CASE UNCHANGED <<op, subs>> /\ now' \in 0..MaxDay /\ on' \subseteq Tiers
    BY <1>1 DEF Inv, TypeOK, ReadsAreRows, Aged
  <1>2. ASSUME NextDay
        PROVE  UNCHANGED <<op, subs>> /\ now' \in 0..MaxDay /\ on' \subseteq Tiers
    BY <1>2, TermsAssumption DEF NextDay, Inv, TypeOK
  <1>3. ASSUME NEW t \in Tiers, ToggleTariff(t)
        PROVE  UNCHANGED <<op, subs>> /\ now' \in 0..MaxDay /\ on' \subseteq Tiers
    BY <1>3 DEF ToggleTariff, Inv, TypeOK
  <1>4. ASSUME NEW s \in Sessions, Begin(s)
        PROVE  Inv' /\ Aged
    BY <1>4, BeginKeepsInv DEF Aged
  <1>5. ASSUME NEW s \in Sessions, Finish(s)
        PROVE  Inv' /\ Aged
    <2>1. CASE RenewSubscription(s)
      BY <2>1, RenewKeepsInv
    <2>2. CASE CreateSubscription(s) \/ CreateBonusSubscription(s) \/ AssignAdminSubscription(s)
      <3>1. op[s].tier \in Tiers /\ op[s].term \in Terms
        BY <2>2 DEF Complete, CreateSubscription, CreateBonusSubscription,
                    AssignAdminSubscription
      <3> QED
        BY <2>2, <3>1, CreateKeepsInv
    <2>3. CASE CancelSubscription(s) \/ AssignFree(s)
      BY <2>3, CancelKeepsInv
    <2>4. CASE Rollback(s)
      BY <2>4, CommitKeepsInv DEF Rollback, Aged, Inv, TypeOK
    <2> QED
      BY <1>5, <2>1, <2>2, <2>3, <2>4 DEF Finish
  <1>6. CASE UNCHANGED vars
    BY <1>1, <1>6 DEF vars, Inv, TypeOK
  <1> QED
    BY <1>1, <1>2, <1>3, <1>4, <1>5, <1>6 DEF Next

LEMMA InvInit == Init => Inv /\ Complete
  <1> SUFFICES ASSUME Init PROVE Inv /\ Complete
    OBVIOUS
  <1>1. TypeOK
    BY TermsAssumption DEF Init, TypeOK, Operation
  <1> QED
    BY <1>1 DEF Init, Inv, ReadsAreRows, Complete, Idle

(* Every reachable state is well formed, and what a transaction has read   *)
(* still exists: no operation deletes a row or gives it to another user.   *)
THEOREM TypeCorrect == Spec => [](TypeOK /\ ReadsAreRows)
  <1>1. Inv /\ Complete /\ [Next]_vars => Inv' /\ Complete'
    BY InvStep, CompleteStep
  <1> QED
    BY <1>1, InvInit, PTL DEF Spec, Inv

(* No interleaving of payments, cancellations and grants revives a row     *)
(* that was replaced or cancelled, although a renewal that loaded it       *)
(* before writes to it afterwards.                                         *)
THEOREM HistoryIsFinal == Spec => RetiredForGood
  <1>1. Inv /\ Complete /\ [Next]_vars => Inv' /\ Complete'
    BY InvStep, CompleteStep
  <1>2. ASSUME Inv, Complete, [Next]_vars
        PROVE  [\A i \in Ids :
                   subs[i] # None /\ subs[i].status # "ACTIVE"
                       => subs'[i] # None /\ subs'[i].status # "ACTIVE"]_vars
    BY <1>2, InvStep DEF Aged
  <1> QED
    BY <1>1, <1>2, InvInit, PTL DEF Spec, RetiredForGood

(* A finite set ordered by R has an element that none is above of.         *)
LEMMA MaximalElement ==
    ASSUME NEW A, IsFiniteSet(A), A # {}, NEW R,
           \A i \in A : <<i, i>> \notin R,
           \A i, j, k \in A : <<i, j>> \in R /\ <<j, k>> \in R => <<i, k>> \in R
    PROVE  \E i \in A : \A j \in A : <<i, j>> \notin R
  <1> DEFINE above == [i \in A |-> {j \in A : <<i, j>> \in R}]
             counts == {Cardinality(above[i]) : i \in A}
             less == {g \in Nat \X Nat : g[1] < g[2]}
  <1>1. \A i \in A : IsFiniteSet(above[i]) /\ Cardinality(above[i]) \in Nat
    <2>1. ASSUME NEW i \in A
          PROVE  above[i] \in SUBSET A
      OBVIOUS
    <2> QED
      BY <2>1, FS_Subset, FS_CardinalityType
  <1>2. counts \subseteq Nat /\ counts # {}
    <2> HIDE DEF above
    <2>1. counts \subseteq Nat
      BY <1>1
    <2>2. PICK i \in A : TRUE
      OBVIOUS
    <2>3. Cardinality(above[i]) \in counts
      OBVIOUS
    <2> QED
      BY <2>1, <2>3
  <1>3. IsWellFoundedOn(less, Nat)
    BY NatLessThanWellFounded DEF OpToRel
  <1>4. \E n \in counts : \A m \in counts : ~(m < n)
    <2> HIDE DEF counts, less
    <2>1. \E n \in counts : \A m \in counts : <<m, n>> \notin less
      BY <1>2, <1>3, WFMin
    <2> QED
      BY <1>2, <2>1 DEF less
  <1>5. PICK i \in A : \A k \in A : ~(Cardinality(above[k]) < Cardinality(above[i]))
    <2>1. PICK n \in counts : \A m \in counts : ~(m < n)
      BY <1>4
    <2>2. PICK i \in A : n = Cardinality(above[i])
      BY <2>1
    <2>3. \A k \in A : Cardinality(above[k]) \in counts
      OBVIOUS
    <2> QED
      BY <2>1, <2>2, <2>3
  <1>6. ASSUME NEW j \in A, <<i, j>> \in R
        PROVE  FALSE
    <2>1. above[j] \in SUBSET above[i] /\ j \in above[i] /\ j \notin above[j]
      BY <1>6
    <2>2. /\ Cardinality(above[j]) <= Cardinality(above[i])
          /\ Cardinality(above[j]) # Cardinality(above[i])
      BY <1>1, <2>1, FS_Subset
    <2> HIDE DEF above
    <2> QED
      BY <1>1, <1>5, <2>2
  <1> QED
    BY <1>6

(* Of the running rows one is the best, and it is the one that counts.     *)
LEMMA BestRow ==
    TypeOK => \A u \in Users :
        Counted(u) # {} =>
            \E b \in Counted(u) :
                /\ GetActiveSubscription(u) = {b}
                /\ \A i \in Counted(u) : SortOrder[subs[i].tier] <= SortOrder[subs[b].tier]
  <1> SUFFICES ASSUME TypeOK, NEW u \in Users, Counted(u) # {}
               PROVE  \E b \in Counted(u) :
                         /\ GetActiveSubscription(u) = {b}
                         /\ \A i \in Counted(u) :
                               SortOrder[subs[i].tier] <= SortOrder[subs[b].tier]
    OBVIOUS
  <1> DEFINE A == Counted(u)
             rank == [i \in A |-> SortOrder[subs[i].tier]]
             R == {g \in A \X A : \/ rank[g[1]] < rank[g[2]]
                                  \/ rank[g[1]] = rank[g[2]] /\ g[1] < g[2]}
  <1>1. A \in SUBSET Ids /\ IsFiniteSet(Ids)
    BY TermsAssumption, FS_Interval DEF Counted, Ids
  <1>2. IsFiniteSet(A) /\ A \subseteq Int
    <2>1. A \subseteq Int
      BY <1>1 DEF Ids
    <2> HIDE DEF A
    <2> QED
      BY <1>1, <2>1, FS_Subset
  <1>3. \A i \in A : rank[i] \in Int
    BY TiersAssumption, NullAssumption DEF TypeOK, Counted, Row
  <1>4. \A i, j \in A : <<i, j>> \in R <=> rank[i] < rank[j] \/ (rank[i] = rank[j] /\ i < j)
    OBVIOUS
  <1>5. GetActiveSubscription(u) =
           {i \in A : \A j \in A \ {i} : rank[j] < rank[i] \/ (rank[j] = rank[i] /\ j < i)}
    BY DEF GetActiveSubscription
  <1> HIDE DEF A, rank, R
  <1>6. /\ \A i \in A : <<i, i>> \notin R
        /\ \A i, j, k \in A : <<i, j>> \in R /\ <<j, k>> \in R => <<i, k>> \in R
    BY <1>2, <1>3, <1>4
  <1>7. PICK b \in A : \A j \in A : <<b, j>> \notin R
    BY <1>2, <1>6, MaximalElement DEF A
  <1>8. ASSUME NEW j \in A, j # b
        PROVE  /\ rank[j] < rank[b] \/ (rank[j] = rank[b] /\ j < b)
               /\ ~(rank[b] < rank[j] \/ (rank[b] = rank[j] /\ b < j))
    <2>1. /\ rank[j] \in Int /\ rank[b] \in Int /\ j \in Int /\ b \in Int
          /\ ~(rank[b] < rank[j] \/ (rank[b] = rank[j] /\ b < j))
      BY <1>2, <1>3, <1>4, <1>7
    <2> QED
      BY <1>8, <2>1
  <1>9. GetActiveSubscription(u) = {b}
    BY <1>5, <1>8
  <1>10. \A i \in A : rank[i] <= rank[b]
    BY <1>3, <1>8
  <1> QED
    BY <1>9, <1>10 DEF A, rank

(* A running row gives its user at least its own tier.                     *)
BestCounts == \A u \in Users : \A k \in Counted(u) : HasAtLeast(u, subs[k].tier)
LEMMA RowGivesTier == TypeOK => BestCounts
  <1> SUFFICES ASSUME TypeOK, NEW u \in Users, NEW k \in Counted(u)
               PROVE  HasAtLeast(u, subs[k].tier)
    BY DEF BestCounts
  <1>1. PICK b \in Counted(u) :
           /\ GetActiveSubscription(u) = {b}
           /\ SortOrder[subs[k].tier] <= SortOrder[subs[b].tier]
    BY BestRow
  <1>2. b \in Ids /\ subs[b] # None /\ b # None
    BY NullAssumption DEF Counted, Ids
  <1>3. (CHOOSE r \in GetActiveSubscription(u) : TRUE) = b
    BY <1>1
  <1>4. GetUserTier(u) = subs[b].tier
    BY <1>2, <1>3 DEF GetUserTier
  <1>5. subs[b].tier \in Tiers
    BY <1>2 DEF TypeOK, Row
  <1> QED
    BY <1>1, <1>4, <1>5 DEF HasAtLeast

LEMMA RowGivesTierNext == TypeOK' => BestCounts'
  BY RowGivesTier, PTL

(* The row a change of tier inserts is running from then on.               *)
LEMMA BoughtRowRuns ==
    ASSUME Inv, Complete, NEW s \in Sessions, CreateSubscription(s),
           NEW u \in Users, op[s].user = u, NEW t \in on, op[s].tier = t
    PROVE  \E k \in Counted(u)' : subs'[k].tier = t
  <1>1. op[s].kind = "buy" /\ Commit(s)
    BY DEF CreateSubscription
  <1>2. op[s].term \in Terms /\ op[s].tier \in Tiers /\ now \in 0..MaxDay
    BY <1>1 DEF Complete, Inv, TypeOK
  <1>3. now + op[s].term \in Int /\ now + op[s].term > now
    <2>1. op[s].term \in 1..MaxDay
      BY <1>2, TermsAssumption
    <2> QED
      BY <1>2, <2>1, TermsAssumption
  <1> DEFINE rows == Retire(op[s], "REPLACED")
             row == NewRow(op[s], now + op[s].term)
  <1>4. PICK k \in NewId : subs' = [rows EXCEPT ![k] = row]
    BY DEF CreateSubscription, Insert
  <1>5. k \in Ids /\ k \in DOMAIN rows
    BY DEF NewId, Free, Retire
  <1>6. subs'[k] = row
    BY <1>4, <1>5
  <1>7. /\ row.user = op[s].user /\ row.tier = op[s].tier
        /\ row.status = "ACTIVE" /\ row.expires = now + op[s].term
    BY DEF NewRow
  <1>8. row \in Row
    <2>1. now + op[s].term \in Days
      <3>1. op[s].term \in 1..MaxDay
        BY <1>2, TermsAssumption
      <3> QED
        BY <1>2, <3>1, TermsAssumption DEF Days
    <2> QED
      BY <1>1, <1>2, <2>1, OpenOperation DEF Inv, NewRow, Row
  <1>9. row # None
    BY <1>8, NullAssumption
  <1> HIDE DEF row
  <1>10. k \in Counted(u)'
    <2>1. now' = now /\ on' = on
      BY <1>1 DEF Commit
    <2> QED
      BY <1>3, <1>5, <1>6, <1>7, <1>9, <2>1 DEF Counted, Runs
  <1> QED
    BY <1>6, <1>7, <1>10

(* A change of tier that was paid for counts at once, whatever other       *)
(* transactions on the same user commit around it.                         *)
THEOREM NewTierCounts == Spec => BoughtTierCounts
  <1>1. Inv /\ Complete /\ [Next]_vars => Inv' /\ Complete'
    BY InvStep, CompleteStep
  <1>2. ASSUME Inv, Complete, [Next]_vars
        PROVE  [\A s \in Sessions, u \in Users, t \in on :
                   CreateSubscription(s) /\ op[s].user = u /\ op[s].tier = t
                       => HasAtLeast(u, t)']_vars
    <2> SUFFICES ASSUME NEW s \in Sessions, NEW u \in Users, NEW t \in on,
                        CreateSubscription(s), op[s].user = u, op[s].tier = t
                 PROVE  HasAtLeast(u, t)'
      OBVIOUS
    <2>1. PICK k \in Counted(u)' : subs'[k].tier = t
      BY <1>2, BoughtRowRuns
    <2>2. BestCounts'
      BY <1>1, <1>2, RowGivesTierNext DEF Inv
    <2> QED
      BY <2>1, <2>2 DEF BestCounts, HasAtLeast
  <1> QED
    BY <1>1, <1>2, InvInit, PTL DEF Spec, BoughtTierCounts

-----------------------------------------------------------------------------
(***************************************************************************)
(* Renewals, whatever has happened to the row since it was read.           *)
(***************************************************************************)

(* A renewal extends its row from the end it read or from now, whichever   *)
(* is later.                                                               *)
LEMMA RenewEffect ==
    ASSUME Inv, Complete, NEW s \in Sessions, RenewSubscription(s)
    PROVE  LET i == op[s].row
               base == IF op[s].base # None /\ op[s].base > now THEN op[s].base ELSE now
           IN  /\ i \in Ids /\ subs[i] # None /\ subs[i].user = op[s].user
               /\ subs[i] \in Row /\ subs[i].tier = op[s].tier
               /\ op[s].term \in Nat \ {0} /\ now \in Nat
               /\ op[s].base \in Days \cup {None}
               /\ subs' = [subs EXCEPT ![i] = [subs[i] EXCEPT !.expires = base + op[s].term]]
  <1>1. op[s].kind = "buy" /\ op[s].row # None
    BY DEF RenewSubscription
  <1>2. /\ op[s] # Idle /\ op[s].row \in Ids /\ op[s].base \in Days \cup {None}
        /\ now \in Nat /\ op[s].term \in Nat \ {0}
    <2>1. op[s].kind # "idle" /\ TypeOK
      BY <1>1 DEF Inv
    <2>2. op[s] # Idle /\ op[s].row \in Ids /\ op[s].base \in Days \cup {None}
      BY <1>1, <2>1, OpenOperation
    <2>3. op[s].term \in 1..MaxDay /\ now \in 0..MaxDay
      BY <1>1, TermsAssumption DEF Inv, TypeOK, Complete
    <2> QED
      BY <2>2, <2>3, TermsAssumption
  <1>3. /\ subs[op[s].row] # None /\ subs[op[s].row] \in Row
        /\ subs[op[s].row].user = op[s].user
    BY <1>1, <1>2 DEF Inv, TypeOK, ReadsAreRows
  <1> QED
    BY <1>1, <1>2, <1>3 DEF RenewSubscription, Renewed

(* The whole term is added to the old end, unless that has moved, and the  *)
(* row counts from then on, unless it was retired.                         *)
LEMMA RenewalPays ==
    ASSUME Inv, Complete, NEW s \in Sessions, RenewSubscription(s),
           NEW u \in Users, op[s].user = u, NEW t \in on, op[s].tier = t
    PROVE  /\ TermIsAdded(s)
           /\ RetiredMeanwhile(s) \/ \E k \in Counted(u)' : subs'[k].tier = t
  <1>1. PICK i \in Ids : i = op[s].row
    BY RenewEffect
  <1> DEFINE old == subs[i].expires
             base == IF op[s].base # None /\ op[s].base > now THEN op[s].base ELSE now
             end == base + op[s].term
  <1>2. /\ subs[i] # None /\ subs[i].user = u /\ subs[i] \in Row /\ subs[i].tier = t
        /\ op[s].term \in Nat \ {0} /\ now \in Nat /\ op[s].base \in Days \cup {None}
        /\ subs' = [subs EXCEPT ![i] = [subs[i] EXCEPT !.expires = end]]
    BY <1>1, RenewEffect
  <1>3. subs \in [Ids -> Row \cup {None}] /\ old \in Days \cup {None}
    BY <1>2 DEF Inv, TypeOK, Row
  <1>4. end \in Int /\ end > now /\ end >= now + op[s].term
    <2>1. base \in Int /\ base >= now
      BY <1>2, NullAssumption DEF Days
    <2> HIDE DEF base
    <2> QED
      BY <1>2, <2>1
  <1>5. old # None /\ old = op[s].base => end >= old + op[s].term
    <2> SUFFICES ASSUME old # None, old = op[s].base PROVE end >= old + op[s].term
      OBVIOUS
    <2>1. old \in Int /\ base >= old /\ base \in Int
      BY <1>2, <1>3 DEF Days
    <2> HIDE DEF base, old
    <2> QED
      BY <1>2, <2>1
  <1>6. end # None
    BY <1>4, NullAssumption
  <1> HIDE DEF end
  <1>7. /\ subs'[i].user = u /\ subs'[i].tier = t /\ subs'[i].status = subs[i].status
        /\ subs'[i].expires = end
    BY <1>2, <1>3 DEF Row
  <1>8. subs'[i] # None
    BY <1>2, InvStep DEF Aged, Next, Finish
  <1>9. TermIsAdded(s)
    BY <1>1, <1>4, <1>5, <1>6, <1>7 DEF TermIsAdded
  <1>10. ASSUME subs[i].status = "ACTIVE"
         PROVE  i \in Counted(u)'
    <2>1. now' = now /\ on' = on
      BY DEF RenewSubscription, Commit
    <2> QED
      BY <1>4, <1>7, <1>8, <1>10, <2>1 DEF Counted, Runs
  <1> QED
    BY <1>1, <1>7, <1>9, <1>10 DEF RetiredMeanwhile

(* Whoever pays has his tier or a better one, and a renewal adds its whole *)
(* term, in any interleaving of any number of transactions and with rows   *)
(* that never end; all that another transaction can cost him is what it    *)
(* changed in the very row since the renewal read it.                      *)
THEOREM PaidAccess == Spec => PurchaseGivesAccess
  <1>1. Inv /\ Complete /\ [Next]_vars => Inv' /\ Complete'
    BY InvStep, CompleteStep
  <1>2. ASSUME Inv, Complete, [Next]_vars
        PROVE  [\A s \in Sessions, u \in Users, t \in on :
                   /\ RenewSubscription(s) \/ CreateSubscription(s)
                   /\ op[s].user = u /\ op[s].tier = t
                   => /\ RetiredMeanwhile(s) \/ HasAtLeast(u, t)'
                      /\ TermIsAdded(s)]_vars
    <2> SUFFICES ASSUME NEW s \in Sessions, NEW u \in Users, NEW t \in on,
                        RenewSubscription(s) \/ CreateSubscription(s),
                        op[s].user = u, op[s].tier = t
                 PROVE  (RetiredMeanwhile(s) \/ HasAtLeast(u, t)') /\ TermIsAdded(s)
      OBVIOUS
    <2>1. BestCounts'
      BY <1>1, <1>2, RowGivesTierNext DEF Inv
    <2>2. ASSUME NEW k \in Counted(u)', subs'[k].tier = t
          PROVE  HasAtLeast(u, t)'
      BY <2>1, <2>2 DEF BestCounts, HasAtLeast
    <2>3. CASE RenewSubscription(s)
      BY <1>2, <2>2, <2>3, RenewalPays
    <2>4. CASE ~RenewSubscription(s)
      BY <1>2, <2>2, <2>4, BoughtRowRuns DEF TermIsAdded
    <2> QED
      BY <2>3, <2>4
  <1> QED
    BY <1>1, <1>2, InvInit, PTL DEF Spec, PurchaseGivesAccess

============================================================================
