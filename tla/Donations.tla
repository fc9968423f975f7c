----------------------------- MODULE Donations -----------------------------
(***************************************************************************)
(* Donations of B2C users and their running rewards (services/b2cService.js *)
(* with services/b2cService/helpers.js): createDonation credits a saving by *)
(* the category the donor chose, recordDonationDisposition replaces it by    *)
(* the saving of what the sorting centre did with the items and moves the    *)
(* donor's total by the difference.                                         *)
(*                                                                         *)
(* Requests run at once, each in a transaction of its own at READ COMMITTED: *)
(* what a request wrote is seen at its COMMIT, and the rewards row it wrote  *)
(* is locked until then. Savings are in tenths, so that the factors 0.5 and  *)
(* 0.7 stay integers; the rounding to four decimals, which the columns keep, *)
(* loses nothing here.                                                      *)
(***************************************************************************)
EXTENDS Integers, Sequences, FiniteSetsExt, Functions, SequencesExt

CONSTANTS
    Servers,       \* requests being served
    Donors,        \* the users who give
    DonationIds,   \* donation identifiers (bound: one donation each)
    Baskets        \* what a donor may bring: sequences of [points, factor, weight]

\* Weights are validated; points and factors are those seeded in material_rewards.
ASSUME DonationsAssumption ==
    /\ IsFiniteSet(DonationIds)
    /\ Baskets \subseteq Seq([points : Nat, factor : Nat, weight : Nat])

VARIABLES
    donations,     \* donations and donation_items: a record, or Absent
    rewards,       \* user_rewards by donor: a record, or NoRewards
    transactions,  \* reward_transactions
    serving        \* what each request holds

givingVars == <<donations, rewards, transactions, serving>>

Categories == {"charity", "recycle"}
Dispositions == {"reuse", "recycle", "waste"}
Arrivals == {"pending", "received", "in_transit"}

Absent == [status |-> "absent"]
NoRewards == [level |-> "none"]
NotServing == [step |-> "idle"]

Total(numbers) == FoldSeq(+, 0, numbers)

(* resolveLevel, and the CASE of the upsert.                                *)
resolveLevel(points) ==
    CASE points >= 2000 -> "Champion"
      [] points >= 1000 /\ points < 2000 -> "Advocate"
      [] points >= 400 /\ points < 1000 -> "Explorer"
      [] points < 400 -> "Beginner"

computeDonationCo2Saved(category, item) ==
    IF category = "charity" THEN 5 * item.factor * item.weight ELSE 7 * item.weight

dispositionCo2Saved(disposition, item) ==
    CASE disposition = "reuse" -> 5 * item.factor * item.weight
      [] disposition = "recycle" -> 7 * item.weight
      [] disposition = "waste" -> 0

(* The row createDonation computes: half the points again for charity.      *)
computed(user, category, status, basket) ==
    LET base == Total([i \in DOMAIN basket |-> basket[i].points * basket[i].weight])
        co2 == [i \in DOMAIN basket |-> computeDonationCo2Saved(category, basket[i])]
    IN [user |-> user, status |-> status, items |-> basket, itemCo2 |-> co2, co2 |-> Total(co2),
        weight |-> Total([i \in DOMAIN basket |-> basket[i].weight]),
        points |-> IF category = "charity" THEN base + (base + 1) \div 2 ELSE base]

(* Rewards rows: none, or the zeros of signup, before the first donation.    *)
ZeroRow == [points |-> 0, donations |-> 0, items |-> 0, weight |-> 0, co2 |-> 0,
            level |-> "Beginner"]

GivingInit ==
    /\ donations = [d \in DonationIds |-> Absent]
    /\ rewards \in [Donors -> {NoRewards, ZeroRow}]
    /\ transactions = {}
    /\ serving = [r \in Servers |-> NotServing]

(* Locks a transaction holds on rows others wait for.                       *)
Busy(r) == serving[r].step # "idle"
HoldsDonation(r, d) == serving[r].step \in {"sort", "sorted"} /\ serving[r].donation = d
HoldsRewards(r, u) == serving[r].step \in {"credited", "sorted"} /\ serving[r].row.user = u
RewardsFree(u) == \A r \in Servers : ~HoldsRewards(r, u)

-----------------------------------------------------------------------------
(* createDonation.                                                         *)

(* The materials and the collection point are read and the row computed.     *)
readMaterials(r, u, d, category, status, basket) ==
    /\ ~Busy(r)
    /\ donations[d] = Absent
    /\ \A q \in Servers : Busy(q) => serving[q].donation # d
    /\ serving' = [serving EXCEPT ![r] =
         [step |-> "computed", donation |-> d, row |-> computed(u, category, status, basket)]]
    /\ UNCHANGED <<donations, rewards, transactions>>

(* INSERT INTO user_rewards ... ON CONFLICT (user_id) DO UPDATE.            *)
Credited(old, row) ==
    LET points == old.points + row.points
    IN [points |-> points, donations |-> old.donations + 1, items |-> old.items + Len(row.items),
        weight |-> old.weight + row.weight, co2 |-> old.co2 + row.co2,
        level |-> resolveLevel(points)]

Running(u) == IF rewards[u] = NoRewards THEN ZeroRow ELSE rewards[u]

creditDonor(r) ==
    /\ serving[r].step = "computed"
    /\ RewardsFree(serving[r].row.user)
    /\ serving' = [serving EXCEPT ![r] =
         [step |-> "credited", donation |-> @.donation, row |-> @.row,
          rewards |-> Credited(Running(@.row.user), @.row)]]
    /\ UNCHANGED <<donations, rewards, transactions>>

(* COMMIT of the donation, its rewards and its 'earn' transaction.           *)
commitDonation(r) ==
    /\ serving[r].step = "credited"
    /\ LET row == serving[r].row
       IN /\ donations' = [donations EXCEPT ![serving[r].donation] = row]
          /\ rewards' = [rewards EXCEPT ![row.user] = serving[r].rewards]
          /\ transactions' = transactions \cup
               {[user |-> row.user, donation |-> serving[r].donation, points |-> row.points]}
    /\ serving' = [serving EXCEPT ![r] = NotServing]

-----------------------------------------------------------------------------
(* recordDonationDisposition, for any donation, any number of times.        *)

lockDonation_PlainSelect(r, d, disposition) ==
    /\ ~Busy(r)
    /\ donations[d] # Absent
    /\ serving' = [serving EXCEPT ![r] =
         [step |-> "sort", donation |-> d, row |-> donations[d], disposition |-> disposition]]
    /\ UNCHANGED <<donations, rewards, transactions>>

(* SELECT ... FOR UPDATE of the donation, and its items.                    *)
lockDonation(r, d, disposition) ==
    /\ ~Busy(r)
    /\ donations[d] # Absent
    /\ \A q \in Servers : ~HoldsDonation(q, d)
    /\ serving' = [serving EXCEPT ![r] =
         [step |-> "sort", donation |-> d, row |-> donations[d], disposition |-> disposition]]
    /\ UNCHANGED <<donations, rewards, transactions>>

(* The savings recomputed item by item; total_co2_saved moves by the          *)
(* difference, never below zero.                                            *)
Sorted(row, disposition) ==
    LET co2 == [i \in DOMAIN row.items |-> dispositionCo2Saved(disposition, row.items[i])]
    IN  [row EXCEPT !.status = "completed", !.itemCo2 = co2, !.co2 = Total(co2)]

Adjusted(old, was, row) ==
    IF old = NoRewards THEN NoRewards
    ELSE [old EXCEPT !.co2 = Max({0, @ + (row.co2 - was.co2)})]

sortDonation(r) ==
    /\ serving[r].step = "sort"
    /\ RewardsFree(serving[r].row.user)
    /\ LET row == serving[r].row
           sorted == Sorted(row, serving[r].disposition)
       IN serving' = [serving EXCEPT ![r] =
            [step |-> "sorted", donation |-> @.donation, row |-> sorted,
             rewards |-> Adjusted(rewards[row.user], row, sorted)]]
    /\ UNCHANGED <<donations, rewards, transactions>>

commitDisposition(r) ==
    /\ serving[r].step = "sorted"
    /\ donations' = [donations EXCEPT ![serving[r].donation] = serving[r].row]
    /\ rewards' = [rewards EXCEPT ![serving[r].row.user] = serving[r].rewards]
    /\ serving' = [serving EXCEPT ![r] = NotServing]
    /\ UNCHANGED transactions

(* An error or the end of the process: ROLLBACK.                            *)
rollback(r) ==
    /\ Busy(r)
    /\ serving' = [serving EXCEPT ![r] = NotServing]
    /\ UNCHANGED <<donations, rewards, transactions>>

GivingNext ==
    \E r \in Servers :
        \/ \E u \in Donors, d \in DonationIds, category \in Categories, status \in Arrivals,
              basket \in Baskets : readMaterials(r, u, d, category, status, basket)
        \/ creditDonor(r)
        \/ commitDonation(r)
        \/ \E d \in DonationIds, disposition \in Dispositions : lockDonation(r, d, disposition)
        \/ sortDonation(r)
        \/ commitDisposition(r)
        \/ rollback(r)

GivingSpec == GivingInit /\ [][GivingNext]_givingVars

-----------------------------------------------------------------------------
Given(u) == {d \in DonationIds : donations[d] # Absent /\ donations[d].user = u}
Earned(u) == {t \in transactions : t.user = u}

(* The running totals a donor is shown are the sums over the donor's stored  *)
(* donations, each with the saving of its last disposition, and over the     *)
(* earned points, whatever donations and dispositions ran at the same time;  *)
(* the level is the level of the points.                                    *)
RewardsMatchDonations ==
    \A u \in Donors :
        LET row == Running(u)
        IN /\ row.co2 = SumFunction([d \in Given(u) |-> Total(donations[d].itemCo2)])
           /\ row.co2 = SumFunction([d \in Given(u) |-> donations[d].co2])
           /\ row.points = SumFunction([d \in Given(u) |-> donations[d].points])
           /\ row.points = SumFunction([t \in Earned(u) |-> t.points])
           /\ row.items = SumFunction([d \in Given(u) |-> Len(donations[d].items)])
           /\ row.donations = Cardinality(Given(u))
           /\ row.level = resolveLevel(row.points)

(* The tables change as if requests came one at a time: each change is one that a  *)
(* request makes of what is stored then, although it computed it before from rows  *)
(* that others write too, and READ COMMITTED lets it see what they commit.         *)
Give(u, d, category, status, basket) ==
    LET row == computed(u, category, status, basket)
    IN  /\ donations[d] = Absent
        /\ donations' = [donations EXCEPT ![d] = row]
        /\ rewards' = [rewards EXCEPT ![u] = Credited(Running(u), row)]
        /\ transactions' = transactions \cup
             {[user |-> u, donation |-> d, points |-> row.points]}

Sort(d, disposition) ==
    LET was == donations[d]
        row == Sorted(was, disposition)
    IN  /\ was # Absent
        /\ donations' = [donations EXCEPT ![d] = row]
        /\ rewards' = [rewards EXCEPT ![was.user] = Adjusted(@, was, row)]
        /\ UNCHANGED transactions

OneAtATime ==
    \E d \in DonationIds :
        \/ \E u \in Donors, category \in Categories, status \in Arrivals, basket \in Baskets :
              Give(u, d, category, status, basket)
        \/ \E disposition \in Dispositions : Sort(d, disposition)

RequestsAreSerial == [][OneAtATime]_<<donations, rewards, transactions>>
=============================================================================
