--------------------------- MODULE Subscriptions ---------------------------
(***************************************************************************)
(* The rows of user_subscriptions and everybody who changes them: the      *)
(* payment that buys or renews, free days of a promo code, the user's      *)
(* cancellation, the admin's grants, the tier switch.  Each is one         *)
(* transaction that reads the active row and later writes it (its flush    *)
(* and commit are one step); nothing protects the row in between.          *)
(***************************************************************************)
EXTENDS Integers, FiniteSets

CONSTANTS
    Users, Tiers, Sessions,
    SortOrder,     \* subscription_tiers.sort_order
    Enterprise,    \* tiers the admin assigns without an end
    Switchable,    \* tiers the admin switches off and on
    Terms,         \* days of a paid period, of a promo code, of a grant
    None,          \* NULL, no row
    MaxDay,        \* bound: days
    MaxRows        \* bound: rows of user_subscriptions

ASSUME TiersAssumption ==
    SortOrder \in [Tiers -> Int] /\ Enterprise \subseteq Tiers
ASSUME TermsAssumption ==
    MaxDay \in Nat /\ MaxRows \in Nat /\ Terms \subseteq 1..MaxDay

VARIABLES
    now,     \* the day
    on,      \* tiers with is_active
    subs,    \* user_subscriptions, by id
    op       \* the transaction of each session: what it does and has read

vars == <<now, on, subs, op>>

Ids == 1..MaxRows
Days == 0..(2 * MaxDay)
Row == [user : Users, tier : Tiers, status : {"ACTIVE", "REPLACED", "CANCELLED"},
        expires : Days \cup {None}]
(* NULL is no number and no row.                                           *)
ASSUME NullAssumption == None \notin Int /\ None \notin Row
Idle == [kind |-> "idle"]
Operation ==
    {Idle} \cup
    [kind : {"buy", "bonus", "cancel", "assign", "free"}, user : Users,
     tier : Tiers \cup {None}, term : Terms \cup {None},
     row : Ids \cup {None}, base : Days \cup {None}]

(* expires_at IS NULL OR expires_at > now *)
Runs(row) == row.expires = None \/ row.expires > now

Counted(u) ==
    {i \in Ids : /\ subs[i] # None /\ subs[i].user = u
                 /\ subs[i].status = "ACTIVE" /\ Runs(subs[i])
                 /\ subs[i].tier \in on}

\* Mutant: sort_order ascending.
LowestTierWins(u) ==
    LET Rank(i) == SortOrder[subs[i].tier]
        best == {i \in Counted(u) : \A j \in Counted(u) : Rank(i) <= Rank(j)}
    IN  IF Counted(u) = {} THEN {None} ELSE best
(* get_active_subscription: the highest tier wins, ties use the latest row.*)
GetActiveSubscription(u) ==
    LET Rank(i) == SortOrder[subs[i].tier]
        best == {i \in Counted(u) : \A j \in Counted(u) \ {i} :
                    Rank(j) < Rank(i) \/ (Rank(j) = Rank(i) /\ j < i)}
    IN  IF Counted(u) = {} THEN {None} ELSE best

GetUserTier(u) ==
    LET i == CHOOSE r \in GetActiveSubscription(u) : TRUE
    IN  IF i = None THEN None ELSE subs[i].tier

(***************************************************************************)
(* Every operation first reads the active row.                             *)
(***************************************************************************)
Read(s, kind, u, t, term) ==
    /\ op[s] = Idle
    /\ \E i \in GetActiveSubscription(u) :
          op' = [op EXCEPT ![s] =
             [kind |-> kind, user |-> u, tier |-> t, term |-> term, row |-> i,
              base |-> IF kind # "buy" \/ i = None THEN None ELSE subs[i].expires]]
    /\ UNCHANGED <<now, on, subs>>

(* A payment is confirmed, or a promo code pays the whole price.  The tier *)
(* may have been switched off since the order.                             *)
BeginPurchase(s, u, t, d) == Read(s, "buy", u, t, d)
BeginBonus(s, u, t, d) == Read(s, "bonus", u, t, d)
(* The cancel button answers that there is nothing to cancel.              *)
BeginCancel(s, u) ==
    GetActiveSubscription(u) # {None} /\ Read(s, "cancel", u, None, None)
(* The admin chooses a number of days, which Enterprise ignores, or a date *)
(* of the form (below: any day), which it does not.                        *)
BeginAssign(s, u, t, d) == Read(s, "assign", u, t, d)
BeginAssignFree(s, u) == Read(s, "free", u, None, None)

Free == {i \in Ids : subs[i] = None}
NewId == {i \in Free : \A j \in Free : i <= j}
\* Mutant: tier_id of the row that is replaced.
RowOfOldTier(o, expires) ==
    [user |-> o.user, tier |-> IF o.row = None THEN None ELSE subs[o.row].tier,
     status |-> "ACTIVE", expires |-> expires]
NewRow(o, expires) ==
    [user |-> o.user, tier |-> o.tier, status |-> "ACTIVE", expires |-> expires]

(* The old row gets its new status, whatever it has by now, and the new    *)
(* row is inserted.                                                        *)
Retire(o, status) ==
    [i \in Ids |-> IF i = o.row THEN [subs[i] EXCEPT !.status = status] ELSE subs[i]]
Insert(rows, o, expires) ==
    \E i \in NewId : subs' = [rows EXCEPT ![i] = NewRow(o, expires)]

Commit(s) ==
    /\ op' = [op EXCEPT ![s] = Idle]
    /\ UNCHANGED <<now, on>>

\* Mutant: the status is written back together with the term.
RenewAgain(row, expires) == [row EXCEPT !.expires = expires, !.status = "ACTIVE"]
\* Mutant: the term counts from today.
RenewFromToday(row, expires) == [row EXCEPT !.expires = now + 1]
(* renew_subscription also sets the status to ACTIVE, but that is the      *)
(* value it loaded, and the ORM writes changed columns only.               *)
Renewed(row, expires) == [row EXCEPT !.expires = expires]

RenewSubscription(s) ==
    LET o == op[s]
        base == IF o.base # None /\ o.base > now THEN o.base ELSE now
    IN  /\ o.kind = "buy" /\ o.row # None /\ subs[o.row].tier = o.tier
        /\ base + o.term \in Days
        /\ subs' = [subs EXCEPT ![o.row] = Renewed(@, base + o.term)]
        /\ Commit(s)

(* Another tier replaces the active row.                                   *)
CreateSubscription(s) ==
    LET o == op[s]
    IN  /\ o.kind = "buy" /\ (o.row # None => subs[o.row].tier # o.tier)
        /\ Insert(Retire(o, "REPLACED"), o, now + o.term)
        /\ Commit(s)

(* Free days replace the active row, of the same tier too.                 *)
CreateBonusSubscription(s) ==
    LET o == op[s]
    IN  /\ o.kind = "bonus"
        /\ Insert(Retire(o, "REPLACED"), o, now + o.term)
        /\ Commit(s)

CancelSubscription(s) ==
    /\ op[s].kind = "cancel"
    /\ subs' = Retire(op[s], "CANCELLED")
    /\ Commit(s)

AssignAdminSubscription(s) ==
    LET o == op[s]
    IN  /\ o.kind = "assign"
        /\ \/ Insert(Retire(o, "CANCELLED"), o,
                     IF o.tier \in Enterprise THEN None ELSE now + o.term)
           \/ Insert(Retire(o, "CANCELLED"), o, o.term)
        /\ Commit(s)

AssignFree(s) ==
    /\ op[s].kind = "free"
    /\ subs' = Retire(op[s], "CANCELLED")
    /\ Commit(s)

(* The handler failed before its commit.                                   *)
Rollback(s) ==
    /\ op[s] # Idle
    /\ Commit(s)
    /\ UNCHANGED subs

ToggleTariff(t) ==
    /\ t \in Switchable
    /\ on' = IF t \in on THEN on \ {t} ELSE on \cup {t}
    /\ UNCHANGED <<now, subs, op>>

NextDay ==
    /\ now < MaxDay /\ now' = now + 1
    /\ UNCHANGED <<on, subs, op>>

-----------------------------------------------------------------------------
Init ==
    /\ now = 0 /\ on = Tiers
    /\ subs = [i \in Ids |-> None]
    /\ op = [s \in Sessions |-> Idle]

Begin(s) ==
    \E u \in Users :
        \/ BeginCancel(s, u) \/ BeginAssignFree(s, u)
        \/ \E t \in Tiers, d \in Terms :
              BeginPurchase(s, u, t, d) \/ BeginBonus(s, u, t, d)
              \/ BeginAssign(s, u, t, d)

Finish(s) ==
    \/ RenewSubscription(s) \/ CreateSubscription(s)
    \/ CreateBonusSubscription(s) \/ CancelSubscription(s)
    \/ AssignAdminSubscription(s) \/ AssignFree(s)
    \/ Rollback(s)

Next ==
    \/ NextDay
    \/ \E t \in Tiers : ToggleTariff(t)
    \/ \E s \in Sessions : Begin(s) \/ Finish(s)

Spec == Init /\ [][Next]_vars

-----------------------------------------------------------------------------
TypeOK ==
    /\ now \in 0..MaxDay /\ on \subseteq Tiers
    /\ subs \in [Ids -> Row \cup {None}]
    /\ op \in [Sessions -> Operation]

(* What a transaction has read may be stale, but its row still exists.     *)
ReadsAreRows ==
    \A s \in Sessions :
        op[s] # Idle /\ op[s].row # None =>
            subs[op[s].row] # None /\ subs[op[s].row].user = op[s].user

(* A row that was replaced or cancelled never counts again, even if a      *)
(* renewal that read it before writes to it afterwards.                    *)
RetiredForGood ==
    [][\A i \in Ids :
          subs[i] # None /\ subs[i].status # "ACTIVE"
              => subs'[i] # None /\ subs'[i].status # "ACTIVE"]_vars

(* The tier that counts is at least as high.                               *)
HasAtLeast(u, t) == \E best \in Tiers : GetUserTier(u) = best /\ SortOrder[t] <= SortOrder[best]

(* A renewal lasts its whole term from now on, and its whole term from the *)
(* old end on, unless the row had none or another renewal has moved it     *)
(* since this one read it.                                                 *)
TermIsAdded(s) ==
    RenewSubscription(s) =>
        LET old == subs[op[s].row].expires
            new == subs'[op[s].row].expires
        IN  /\ new # None /\ new >= now + op[s].term
            /\ old # None /\ old = op[s].base => new >= old + op[s].term

(* Another transaction has retired the row since the renewal read it.      *)
RetiredMeanwhile(s) ==
    RenewSubscription(s) /\ subs[op[s].row].status # "ACTIVE"

(* Whoever has paid has what he paid for from that moment on: a tier at    *)
(* least as high, for the term he bought on top of the days he had - which *)
(* cannot be said of a row that never ended, where the renewal sets an     *)
(* end.  Only a row that changed under the renewal can cost him that, and  *)
(* then only what the other transaction has changed: a retired row gives   *)
(* no access, an end that was moved may move back.                         *)
PurchaseGivesAccess ==
    [][\A s \in Sessions, u \in Users, t \in on :
          /\ RenewSubscription(s) \/ CreateSubscription(s)
          /\ op[s].user = u /\ op[s].tier = t
          => /\ RetiredMeanwhile(s) \/ HasAtLeast(u, t)'
             /\ TermIsAdded(s)]_vars

(* A change of tier does so whatever others commit meanwhile: of two       *)
(* running rows the better one counts.                                     *)
BoughtTierCounts ==
    [][\A s \in Sessions, u \in Users, t \in on :
          CreateSubscription(s) /\ op[s].user = u /\ op[s].tier = t
              => HasAtLeast(u, t)']_vars

(* A renewal that was paid for gives access, whatever another transaction  *)
(* does to the row.                                                        *)
RenewalGivesAccess ==
    [][\A s \in Sessions, u \in Users, t \in on :
          RenewSubscription(s) /\ op[s].user = u /\ op[s].tier = t
              => HasAtLeast(u, t)']_vars

(* Paying does not give an end to a subscription that has none.            *)
UnendingStays ==
    [][\A i \in Ids : subs[i] # None /\ subs[i].expires = None
          => subs'[i].expires = None]_vars

(* What the cancel button announces before and after it is pressed: access *)
(* lasts to the end of the paid term.                                      *)
CancelKeepsAccess ==
    [][\A s \in Sessions, u \in Users :
          CancelSubscription(s) /\ op[s].user = u
              => GetUserTier(u)' = GetUserTier(u)]_vars
=============================================================================
