--------------------------- MODULE RefundsProofs ---------------------------
(***************************************************************************)
(* Proofs about Refunds: a refund tried again gives its money back once,   *)
(* no payment is refunded beyond what was paid, and money given back is    *)
(* known of, for any payments, dialogs, requests and refunds.              *)
(***************************************************************************)
EXTENDS Refunds, NaturalsInduction, WellFoundedInduction, SequenceTheorems, TLAPS

-----------------------------------------------------------------------------
(* What a list of amounts comes to.  Running is recursive, so that there is  *)
(* such a function is proved by climbing the numbers.                        *)

(* A set of numbers that has 0, and the next of each it has, has them all. *)
LEMMA Climb ==
  ASSUME NEW S \in SUBSET Nat, 0 \in S, \A n \in S : n + 1 \in S
  PROVE  S = Nat
<1> SUFFICES ASSUME Nat \ S # {} PROVE FALSE
  OBVIOUS
<1>1. PICK n \in Nat \ S : \A m \in Nat \ S : ~(<<m, n>> \in OpToRel(<, Nat))
  <2>1. IsWellFoundedOn(OpToRel(<, Nat), Nat)
    BY NatLessThanWellFounded
  <2> QED BY <2>1, WFMin
<1>2. n # 0 /\ n - 1 \in Nat
  OBVIOUS
<1>3. n - 1 \notin S
  BY <1>2
<1>4. <<n - 1, n>> \in OpToRel(<, Nat)
  BY <1>2 DEF OpToRel
<1> QED BY <1>1, <1>2, <1>3, <1>4

Runs(g, f, n) == g = [k \in 0..n |-> IF k = 0 THEN 0 ELSE g[k - 1] + f[k]]

LEMMA SomeRun ==
  ASSUME NEW f \in Seq(Nat), NEW n \in Nat
  PROVE  \E g : Runs(g, f, n)
<1> DEFINE S == {m \in Nat : \E g : Runs(g, f, m)}
<1>1. 0 \in S
  <2>1. Runs([k \in 0..0 |-> 0], f, 0)
    BY DEF Runs
  <2> QED BY <2>1
<1>2. ASSUME NEW m \in S PROVE m + 1 \in S
  <2>1. PICK g : Runs(g, f, m)
    OBVIOUS
  <2> DEFINE h == [k \in 0..m + 1 |-> IF k = m + 1 THEN g[m] + f[m + 1] ELSE g[k]]
  <2>2. \A k \in 0..m + 1 : h[k] = IF k = 0 THEN 0 ELSE h[k - 1] + f[k]
    BY <2>1 DEF Runs
  <2>3. Runs(h, f, m + 1)
    <3> HIDE DEF h
    <3>1. h = [k \in 0..m + 1 |-> h[k]]
      BY DEF h
    <3> QED BY <2>2, <3>1 DEF Runs
  <2> QED BY <2>3
<1> HIDE DEF S
<1>3. S = Nat
  BY <1>1, <1>2, Climb DEF S
<1> QED BY <1>3 DEF S

LEMMA RunningIs ==
  ASSUME NEW f \in Seq(Nat)
  PROVE  Runs(Running(f), f, Len(f))
<1>1. \E g : Runs(g, f, Len(f))
  BY SomeRun
<1>2. Running(f) = CHOOSE g : Runs(g, f, Len(f))
  BY DEF Running, Runs
<1> QED BY <1>1, <1>2
LEMMA RunningAt ==
  ASSUME NEW f \in Seq(Nat)
  PROVE  /\ Running(f)[0] = 0
         /\ \A n \in Nat : n + 1 <= Len(f) => Running(f)[n + 1] = Running(f)[n] + f[n + 1]
<1>1. Running(f) = [k \in 0..Len(f) |-> IF k = 0 THEN 0 ELSE Running(f)[k - 1] + f[k]]
  BY RunningIs DEF Runs
<1>2. Len(f) \in Nat
  OBVIOUS
<1>3. \A k \in 0..Len(f) : Running(f)[k] = IF k = 0 THEN 0 ELSE Running(f)[k - 1] + f[k]
  BY <1>1
<1> QED BY <1>2, <1>3

LEMMA RunningNat ==
  ASSUME NEW f \in Seq(Nat)
  PROVE  \A n \in Nat : n <= Len(f) => Running(f)[n] \in Nat
<1> DEFINE S == {n \in Nat : n <= Len(f) => Running(f)[n] \in Nat}
<1>1. 0 \in S
  BY RunningAt
<1>2. ASSUME NEW n \in S PROVE n + 1 \in S
  <2>1. CASE n + 1 <= Len(f)
    <3>1. Running(f)[n] \in Nat /\ f[n + 1] \in Nat /\ Len(f) \in Nat
      BY <2>1
    <3>2. Running(f)[n + 1] = Running(f)[n] + f[n + 1]
      BY <2>1, RunningAt
    <3> QED BY <3>1, <3>2
  <2>2. CASE ~(n + 1 <= Len(f))
    BY <2>2
  <2> QED BY <2>1, <2>2
<1> HIDE DEF S
<1>3. S = Nat
  BY <1>1, <1>2, Climb DEF S
<1> QED BY <1>3 DEF S

LEMMA TotalNat ==
  ASSUME NEW f \in Seq(Nat)
  PROVE  Total(f) \in Nat /\ (Len(f) = 0 => Total(f) = 0)
BY RunningNat, RunningAt DEF Total

(* One amount more.                                                          *)
LEMMA TotalAppend ==
  ASSUME NEW f \in Seq(Nat), NEW a \in Nat
  PROVE  Total(Append(f, a)) = Total(f) + a
<1> DEFINE g == Append(f, a)
           S == {n \in Nat : n <= Len(f) => Running(g)[n] = Running(f)[n]}
<1>1. /\ g \in Seq(Nat) /\ Len(g) = Len(f) + 1 /\ Len(f) \in Nat /\ g[Len(f) + 1] = a
      /\ \A n \in 1..Len(f) : g[n] = f[n]
  BY AppendProperties
<1> HIDE DEF g
<1>2. 0 \in S
  BY <1>1, RunningAt
<1>3. ASSUME NEW n \in S PROVE n + 1 \in S
  <2>1. CASE n + 1 <= Len(f)
    <3>0. n \in Nat /\ (n <= Len(f) => Running(g)[n] = Running(f)[n])
      OBVIOUS
    <3> HIDE DEF S
    <3>1. Running(f)[n + 1] = Running(f)[n] + f[n + 1]
      BY <2>1, <3>0, RunningAt
    <3>5. Len(f) \in Nat
      OBVIOUS
    <3>6. n + 1 \in 1..Len(f) /\ n <= Len(f)
      BY <2>1, <3>0, <3>5
    <3>7. n + 1 <= Len(g)
      BY <1>1, <3>0, <3>5, <3>6
    <3>2. Running(g)[n + 1] = Running(g)[n] + g[n + 1]
      BY <1>1, <3>0, <3>7, RunningAt
    <3>3. g[n + 1] = f[n + 1] /\ Running(g)[n] = Running(f)[n]
      BY <1>1, <3>0, <3>6
    <3>4. Running(g)[n + 1] = Running(f)[n + 1]
      BY <3>1, <3>2, <3>3
    <3> QED BY <3>0, <3>4 DEF S
  <2>2. CASE ~(n + 1 <= Len(f))
    BY <2>2
  <2> QED BY <2>1, <2>2
<1> HIDE DEF S
<1>4. S = Nat
  BY <1>2, <1>3, Climb DEF S
<1>5. Running(g)[Len(f)] = Running(f)[Len(f)]
  BY <1>1, <1>4 DEF S
<1>6. Running(g)[Len(f) + 1] = Running(g)[Len(f)] + g[Len(f) + 1]
  BY <1>1, RunningAt
<1> QED BY <1>1, <1>5, <1>6 DEF Total, g

(* One amount changed.                                                       *)
LEMMA TotalExcept ==
  ASSUME NEW f \in Seq(Nat), NEW i \in DOMAIN f, NEW a \in Nat
  PROVE  Total([f EXCEPT ![i] = a]) + f[i] = Total(f) + a /\ f[i] <= Total(f)
<1> DEFINE T(b) == Total([f EXCEPT ![i] = b]) + f[i] = Total(f) + b
<1>1. ASSUME NEW b \in Nat PROVE T(b)
  <2> DEFINE g == [f EXCEPT ![i] = b]
             S == {n \in Nat : n <= Len(f) =>
                      IF n < i THEN Running(g)[n] = Running(f)[n]
                      ELSE Running(g)[n] + f[i] = Running(f)[n] + b}
  <2>1. /\ g \in Seq(Nat) /\ Len(g) = Len(f) /\ Len(f) \in Nat /\ g[i] = b /\ f[i] \in Nat
        /\ i \in 1..Len(f)
        /\ \A n \in 1..Len(f) : n # i => g[n] = f[n]
    BY ExceptSeq
  <2> HIDE DEF g
  <2>2. 0 \in S
    BY <2>1, RunningAt
  <2>3. ASSUME NEW n \in S PROVE n + 1 \in S
    <3>1. CASE n + 1 <= Len(f)
      <4>00. n \in Nat /\ (n <= Len(f) => IF n < i THEN Running(g)[n] = Running(f)[n]
                                          ELSE Running(g)[n] + f[i] = Running(f)[n] + b)
        OBVIOUS
      <4> HIDE DEF S
      <4>01. n <= Len(f) /\ n + 1 \in 1..Len(f)
        BY <2>1, <3>1, <4>00
      <4>02. f[n + 1] \in Nat /\ g[n + 1] \in Nat
        BY <2>1, <4>01
      <4>0. /\ n \in Nat /\ n <= Len(f) /\ n + 1 \in 1..Len(f)
            /\ f[n + 1] \in Nat /\ g[n + 1] \in Nat
            /\ n < i => Running(g)[n] = Running(f)[n]
            /\ ~(n < i) => Running(g)[n] + f[i] = Running(f)[n] + b
        BY <4>00, <4>01, <4>02
      <4>1. Running(f)[n + 1] = Running(f)[n] + f[n + 1] /\ Running(f)[n] \in Nat
        BY <3>1, <4>0, RunningAt, RunningNat
      <4>2. Running(g)[n + 1] = Running(g)[n] + g[n + 1] /\ Running(g)[n] \in Nat
        BY <2>1, <3>1, <4>0, RunningAt, RunningNat
      <4>3. CASE n + 1 = i
        <5>1. Running(g)[n + 1] + f[i] = Running(f)[n + 1] + b
          BY <2>1, <4>0, <4>1, <4>2, <4>3
        <5> QED BY <4>0, <4>3, <5>1 DEF S
      <4>4. CASE n + 1 # i
        <5>1. g[n + 1] = f[n + 1]
          BY <2>1, <4>0, <4>4
        <5>2. CASE n < i
          <6>1. Running(g)[n + 1] = Running(f)[n + 1] /\ n + 1 < i
            BY <2>1, <4>0, <4>1, <4>2, <4>4, <5>1, <5>2
          <6> QED BY <4>0, <6>1 DEF S
        <5>3. CASE ~(n < i)
          <6>1. ~(n + 1 < i)
            BY <2>1, <4>0, <5>3
          <6>2. Running(g)[n] + f[i] = Running(f)[n] + b
            BY <4>0, <5>3
          <6> DEFINE x == Running(f)[n]
                     y == Running(g)[n]
                     z == f[n + 1]
                     c == f[i]
          <6>3. x \in Nat /\ y \in Nat /\ z \in Nat /\ c \in Nat /\ b \in Nat
            BY <2>1, <4>0, <4>1, <4>2
          <6>4. Running(f)[n + 1] = x + z /\ Running(g)[n + 1] = y + z /\ y + c = x + b
            BY <4>1, <4>2, <5>1, <6>2
          <6> HIDE DEF x, y, z
          <6>5. (y + z) + c = (x + z) + b
            BY <6>3, <6>4
          <6> QED BY <4>0, <6>1, <6>4, <6>5 DEF S
        <5> QED BY <5>2, <5>3
      <4> QED BY <4>3, <4>4
    <3>2. CASE ~(n + 1 <= Len(f))
      BY <3>2
    <3> QED BY <3>1, <3>2
  <2> HIDE DEF S
  <2>4. S = Nat
    BY <2>2, <2>3, Climb DEF S
  <2>5. Running(g)[Len(f)] + f[i] = Running(f)[Len(f)] + b
    BY <2>1, <2>4 DEF S
  <2> QED BY <2>1, <2>5 DEF Total, g
<1>2. T(a) /\ T(0)
  BY <1>1
<1>3. Total(f) \in Nat /\ Total([f EXCEPT ![i] = 0]) \in Nat /\ f[i] \in Nat
  BY TotalNat, ExceptSeq
<1> QED BY <1>2, <1>3

-----------------------------------------------------------------------------
(* The refunds of one payment, each as it counts.                            *)
Parts(rs, p) == [i \in DOMAIN rs |-> IF rs[i].live /\ rs[i].of = p THEN rs[i].amount ELSE 0]
Back(rs, p) == Total(Parts(rs, p))
Counts(b, p) == IF b.live /\ b.of = p THEN b.amount ELSE 0

LEMMA CountsNat ==
  ASSUME RefundAssumption, NEW b \in Refund, NEW p
  PROVE  Counts(b, p) \in Nat /\ b.amount \in Nat /\ b.amount # 0
BY DEF Counts, Refund, RefundAssumption

LEMMA BackNat ==
  ASSUME RefundAssumption, NEW rs \in Seq(Refund), NEW p
  PROVE  /\ Parts(rs, p) \in Seq(Nat) /\ Len(Parts(rs, p)) = Len(rs) /\ Back(rs, p) \in Nat
         /\ \A i \in DOMAIN rs : Parts(rs, p)[i] = Counts(rs[i], p) /\ i \in DOMAIN Parts(rs, p)
<1>1. \A i \in 1..Len(rs) : rs[i] \in Refund /\ Counts(rs[i], p) \in Nat
  BY CountsNat
<1>2. /\ Parts(rs, p) = [i \in 1..Len(rs) |-> Counts(rs[i], p)]
      /\ DOMAIN rs = 1..Len(rs) /\ Len(rs) \in Nat
  BY DEF Parts, Counts
<1> HIDE DEF Parts
<1>3. Parts(rs, p) \in [1..Len(rs) -> Nat]
  BY <1>1, <1>2
<1>4. Parts(rs, p) \in Seq(Nat) /\ Len(Parts(rs, p)) = Len(rs)
  BY <1>2, <1>3
<1> QED BY <1>2, <1>4, TotalNat DEF Back

LEMMA BackAppend ==
  ASSUME RefundAssumption, NEW rs \in Seq(Refund), NEW b \in Refund, NEW p
  PROVE  Back(Append(rs, b), p) = Back(rs, p) + Counts(b, p)
<1> DEFINE new == Append(rs, b)
<1>1. /\ new \in Seq(Refund) /\ Len(new) = Len(rs) + 1 /\ Len(rs) \in Nat
      /\ \A i \in 1..Len(rs) : new[i] = rs[i]
      /\ new[Len(rs) + 1] = b
  BY AppendProperties
<1>2. /\ Parts(rs, p) \in Seq(Nat) /\ Len(Parts(rs, p)) = Len(rs)
      /\ \A i \in 1..Len(rs) : Parts(rs, p)[i] = Counts(rs[i], p)
  BY BackNat
<1> HIDE DEF new
<1>3. /\ Parts(new, p) \in Seq(Nat) /\ Len(Parts(new, p)) = Len(rs) + 1
      /\ \A i \in 1..Len(rs) + 1 : Parts(new, p)[i] = Counts(new[i], p)
  BY <1>1, BackNat
<1>4. Counts(b, p) \in Nat
  BY CountsNat
<1>5. Parts(new, p) = Append(Parts(rs, p), Counts(b, p))
  <2> DEFINE f == Append(Parts(rs, p), Counts(b, p))
  <2>1. /\ f \in Seq(Nat) /\ Len(f) = Len(rs) + 1 /\ f[Len(rs) + 1] = Counts(b, p)
        /\ \A i \in 1..Len(rs) : f[i] = Counts(rs[i], p)
    BY <1>2, <1>4, AppendProperties
  <2> HIDE DEF f
  <2>2. \A i \in 1..Len(rs) + 1 : Parts(new, p)[i] = f[i]
    BY <1>1, <1>3, <2>1
  <2>3. Parts(new, p) = f
    BY <1>3, <2>1, <2>2, SeqEqual
  <2> QED BY <2>3 DEF f
<1> QED BY <1>2, <1>4, <1>5, TotalAppend DEF Back, new

LEMMA BackExcept ==
  ASSUME RefundAssumption, NEW rs \in Seq(Refund), NEW i \in DOMAIN rs, NEW b \in Refund, NEW p
  PROVE  /\ Back([rs EXCEPT ![i] = b], p) + Counts(rs[i], p) = Back(rs, p) + Counts(b, p)
         /\ Counts(rs[i], p) <= Back(rs, p)
<1> DEFINE new == [rs EXCEPT ![i] = b]
<1>1. /\ new \in Seq(Refund) /\ Len(new) = Len(rs) /\ DOMAIN new = DOMAIN rs
      /\ \A j \in DOMAIN rs : new[j] = IF j = i THEN b ELSE rs[j]
  BY ExceptSeq
<1>2. /\ Parts(rs, p) \in Seq(Nat) /\ i \in DOMAIN Parts(rs, p)
      /\ \A j \in DOMAIN rs : Parts(rs, p)[j] = Counts(rs[j], p)
      /\ Counts(b, p) \in Nat
  BY BackNat, CountsNat
<1> HIDE DEF new
<1>3. Parts(new, p) = [Parts(rs, p) EXCEPT ![i] = Counts(b, p)]
  BY <1>1 DEF Parts, Counts
<1> QED BY <1>2, <1>3, TotalExcept DEF Back, new

LEMMA Left ==
  ASSUME RefundAssumption, NEW rs \in Seq(Refund), NEW p
  PROVE  Max({0, Amount - Back(rs, p)}) = IF Back(rs, p) <= Amount THEN Amount - Back(rs, p) ELSE 0
<1>1. Back(rs, p) \in Nat /\ Amount \in Nat
  BY BackNat DEF RefundAssumption
<1> DEFINE x == Amount - Back(rs, p)
           S == {0, x}
<1>2. x \in Int /\ (Back(rs, p) <= Amount <=> x >= 0)
  BY <1>1
<1> HIDE DEF x
<1>3. \E m \in S : \A y \in S : m >= y
  BY <1>2
<1>4. Max(S) \in S /\ \A y \in S : Max(S) >= y
  BY <1>3 DEF Max
<1> QED BY <1>1, <1>2, <1>4 DEF x

-----------------------------------------------------------------------------
(* The inductive invariant.  Each request id was made for one payment in one *)
(* opening of the dialog, and by no other; a request and PayPal's refund for *)
(* it are of that payment; who holds a payment's row is alone with it, and   *)
(* what they ask is still left.                                              *)
Made == [opening : 1..MaxOpenings, payment : Payments]
Given == [of : Payments, amount : 1..Amount]
Late == [req : Requests, of : Payments, amount : 1..Amount]

OneRequestEach ==
  /\ \A r \in DOMAIN made : made[r].opening <= openings
  /\ \A r, s \in DOMAIN made : made[r] = made[s] => r = s
  /\ dialog # Nil =>
       /\ dialog.opening = openings
       /\ \A p \in Payments : dialog.ids[p] # 0 =>
            /\ dialog.ids[p] \in DOMAIN made
            /\ made[dialog.ids[p]] = [opening |-> openings, payment |-> p]
       /\ \A r \in DOMAIN made : made[r].opening = openings => dialog.ids[made[r].payment] = r

RequestsAreMade ==
  /\ \A a \in asks \cup late : a.req \in DOMAIN made /\ made[a.req].payment = a.of
  /\ \A r \in Requests : given[r] # Nil => r \in DOMAIN made /\ made[r].payment = given[r].of
  /\ \A l \in late : mishap /\ l.req \in told

HeldByOne ==
  /\ \A a, b \in asks : a.at # "sent" /\ b.at # "sent" /\ a.of = b.of => a = b
  /\ \A a \in asks : a.at # "sent" =>
       a.of \in live /\ RecordedBy(a.req) = {} /\ a.amount <= Refundable(a.of)
  /\ \A a \in asks : a.at = "gave" =>
       given[a.req] # Nil /\ (~mishap => given[a.req].amount = a.amount)

RefundTypes ==
  /\ live \in SUBSET Payments
  /\ refunds \in Seq(Refund) /\ Len(refunds) <= MaxRefunds
  /\ given \in [Requests -> {Nil} \cup Given]
  /\ late \subseteq Late /\ asks \subseteq Ask
  /\ made \in Seq(Made) /\ Len(made) <= MaxRequests
  /\ dialog \in {Nil} \cup Dialog
  /\ openings \in 0..MaxOpenings /\ mishap \in BOOLEAN
  /\ told \subseteq Requests

RefundInv ==
  /\ RefundTypes
  /\ OneRequestEach /\ RequestsAreMade /\ HeldByOne
  /\ LedgerWithinPaid /\ GivenIsKnown

LEMMA TypesAre == RefundTypes => RefundsTypeOK
<1> SUFFICES ASSUME RefundTypes PROVE RefundsTypeOK
  OBVIOUS
<1>1. /\ \A i \in DOMAIN refunds : refunds[i] \in Refund
      /\ \A r \in DOMAIN made : made[r] \in Made
  BY DEF RefundTypes
<1>2. given \in [Requests -> {Nil} \cup [of : Payments, amount : 1..Amount]]
  BY DEF RefundTypes, Given
<1> QED BY <1>1, <1>2 DEF RefundTypes, RefundsTypeOK, Late, Made

(* Refunded and Refundable, before a step and after it.                      *)
LEMMA RefundedIs ==
  /\ \A p : Refunded(p) = Back(refunds, p)
  /\ \A p : Refunded(p)' = Back(refunds', p)
BY DEF Refunded, Back, Parts

LEMMA RefundableIs ==
  ASSUME RefundAssumption, refunds \in Seq(Refund)
  PROVE  \A p : /\ Back(refunds, p) \in Nat
                /\ Refundable(p) = IF Back(refunds, p) <= Amount THEN Amount - Back(refunds, p) ELSE 0
<1> SUFFICES ASSUME NEW p
             PROVE  /\ Back(refunds, p) \in Nat
                    /\ Refundable(p) =
                         IF Back(refunds, p) <= Amount THEN Amount - Back(refunds, p) ELSE 0
  OBVIOUS
<1>1. Refundable(p) = Max({0, Amount - Back(refunds, p)})
  BY RefundedIs DEF Refundable
<1> QED BY <1>1, Left, BackNat

LEMMA RefundableNext ==
  ASSUME RefundAssumption, refunds' \in Seq(Refund)
  PROVE  \A p : /\ Back(refunds', p) \in Nat
                /\ Refundable(p)' = IF Back(refunds', p) <= Amount THEN Amount - Back(refunds', p) ELSE 0
<1> SUFFICES ASSUME NEW p
             PROVE  /\ Back(refunds', p) \in Nat
                    /\ Refundable(p)' =
                         IF Back(refunds', p) <= Amount THEN Amount - Back(refunds', p) ELSE 0
  OBVIOUS
<1>1. Refundable(p)' = Max({0, Amount - Back(refunds', p)})
  BY RefundedIs DEF Refundable
<1> QED BY <1>1, Left, BackNat

-----------------------------------------------------------------------------
LEMMA RefundStarts == RefundAssumption /\ RefundInit => RefundInv
<1> SUFFICES ASSUME RefundAssumption, RefundInit PROVE RefundInv
  OBVIOUS
<1>1. /\ refunds \in Seq(Refund) /\ Len(refunds) = 0 /\ made \in Seq(Made) /\ Len(made) = 0
      /\ DOMAIN made = {} /\ asks = {} /\ late = {} /\ dialog = Nil /\ live = Payments
      /\ openings = 0 /\ mishap = FALSE /\ told = {} /\ \A r \in Requests : given[r] = Nil
  BY DEF RefundInit
<1>2. given \in [Requests -> {Nil} \cup Given]
  BY DEF RefundInit
<1>3. Len(refunds) <= MaxRefunds /\ Len(made) <= MaxRequests /\ openings \in 0..MaxOpenings
  BY <1>1 DEF RefundAssumption
<1>7. RefundTypes
  BY <1>1, <1>2, <1>3 DEF RefundTypes
<1>4. OneRequestEach /\ RequestsAreMade /\ HeldByOne /\ GivenIsKnown
  BY <1>1 DEF OneRequestEach, RequestsAreMade, HeldByOne, GivenIsKnown
<1>5. \A p : Back(refunds, p) = 0
  BY <1>1, BackNat, TotalNat DEF Back
<1>6. LedgerWithinPaid
  BY <1>1, <1>5, RefundedIs DEF LedgerWithinPaid, RefundAssumption
<1> QED BY <1>4, <1>6, <1>7 DEF RefundInv

(* What a dialog does of itself, or hears.                                   *)
DialogHears ==
  /\ UNCHANGED <<made, openings>>
  /\ dialog' \in {dialog, Nil} \/ (dialog # Nil /\ dialog' = [dialog EXCEPT !.waits = 0])

LEMMA HearsIs == \A d, r, done :
  Hears(d, r, done) \in {d, Nil} \/ (d # Nil /\ Hears(d, r, done) = [d EXCEPT !.waits = 0])
BY DEF Hears

LEMMA HearingKeeps ==
  ASSUME RefundAssumption, RefundInv, DialogHears
  PROVE  dialog' \in {Nil} \cup Dialog /\ OneRequestEach'
<1>1. dialog \in {Nil} \cup Dialog /\ OneRequestEach
  BY DEF RefundInv, RefundTypes
<1>2. CASE dialog' = Nil \/ dialog' = dialog
  BY <1>1, <1>2 DEF DialogHears, OneRequestEach
<1>3. CASE dialog # Nil /\ dialog' = [dialog EXCEPT !.waits = 0]
  <2>1. dialog' \in Dialog /\ dialog'.opening = dialog.opening /\ dialog'.ids = dialog.ids
    BY <1>1, <1>3 DEF Dialog, RefundAssumption
  <2> QED BY <1>1, <1>3, <2>1 DEF DialogHears, OneRequestEach
<1> QED BY <1>2, <1>3 DEF DialogHears

(* The dialog opens, closes and hears nothing.                               *)
LEMMA OpeningKeeps ==
  ASSUME RefundAssumption, RefundInv, OpenRefund
  PROVE  RefundInv'
<1>1. /\ UNCHANGED <<live, refunds, given, late, asks, made, mishap, told>>
      /\ openings' = openings + 1 /\ openings \in Nat /\ openings' \in 1..MaxOpenings
      /\ \A r \in DOMAIN made : made[r] \in Made
  BY DEF OpenRefund, RefundInv, RefundTypes, RefundAssumption
<1>2. /\ dialog' \in Dialog /\ dialog'.opening = openings'
      /\ \A p \in Payments : dialog'.ids[p] = 0
  <2>1. PICK t \in Payments \cup {Nil} :
          dialog' = [opening |-> openings + 1, target |-> t, ids |-> [p \in Payments |-> 0], waits |-> 0]
    BY DEF OpenRefund
  <2>2. [p \in Payments |-> 0] \in [Payments -> 0..MaxRequests] /\ 0 \in 0..MaxRequests
    BY DEF RefundAssumption
  <2> QED BY <1>1, <2>1, <2>2 DEF Dialog
<1>3. OneRequestEach'
  <2>1. \A r \in DOMAIN made : made[r].opening <= openings /\ made[r].opening \in Nat
    BY <1>1 DEF RefundInv, OneRequestEach, Made
  <2>2. \A r, s \in DOMAIN made : made[r] = made[s] => r = s
    BY DEF RefundInv, OneRequestEach
  <2>3. \A r \in DOMAIN made : made[r].opening <= openings' /\ made[r].opening # openings'
    BY <1>1, <2>1
  <2> QED BY <1>1, <1>2, <2>2, <2>3 DEF OneRequestEach
<1>4. RefundTypes'
  BY <1>1, <1>2 DEF RefundInv, RefundTypes
<1>5. /\ RequestsAreMade' /\ HeldByOne' /\ LedgerWithinPaid' /\ GivenIsKnown'
  BY <1>1 DEF RefundInv, RequestsAreMade, HeldByOne, LedgerWithinPaid, GivenIsKnown, RecordedBy,
              Refundable, Refunded
<1> QED BY <1>3, <1>4, <1>5 DEF RefundInv

LEMMA QuietKeeps ==
  ASSUME RefundAssumption, RefundInv, AnswerNeverComes \/ Close
  PROVE  RefundInv'
<1>1. UNCHANGED <<live, refunds, given, late, asks, made, openings, mishap, told>> /\ DialogHears
  BY DEF AnswerNeverComes, Close, DialogHears
<1>2. dialog' \in {Nil} \cup Dialog /\ OneRequestEach'
  BY <1>1, HearingKeeps
<1>3. RefundTypes'
  BY <1>1, <1>2 DEF RefundInv, RefundTypes
<1>4. /\ RequestsAreMade' /\ HeldByOne' /\ LedgerWithinPaid' /\ GivenIsKnown'
  BY <1>1 DEF RefundInv, RequestsAreMade, HeldByOne, LedgerWithinPaid, GivenIsKnown, RecordedBy,
              Refundable, Refunded
<1> QED BY <1>2, <1>3, <1>4 DEF RefundInv

(* Pressing Refund makes a request id only if the payment has none in this   *)
(* opening of the dialog.                                                    *)
LEMMA PressingKeeps ==
  ASSUME RefundAssumption, RefundInv, PressRefund
  PROVE  RefundInv'
<1>1. PICK p \in Payments, amount \in 1..Amount :
        LET r == RequestFor(p)
        IN /\ r <= MaxRequests
           /\ made' = IF r > Len(made)
                        THEN Append(made, [opening |-> dialog.opening, payment |-> p]) ELSE made
           /\ asks' = asks \cup {[req |-> r, of |-> p, amount |-> amount, at |-> "sent"]}
           /\ dialog' = [dialog EXCEPT !.ids[p] = r, !.waits = r]
  BY DEF PressRefund
<1> DEFINE r == RequestFor(p)
           ask == [req |-> r, of |-> p, amount |-> amount, at |-> "sent"]
           one == [opening |-> openings, payment |-> p]
<1>2. /\ UNCHANGED <<live, refunds, given, late, openings, mishap, told>>
      /\ dialog # Nil /\ dialog \in Dialog
      /\ made \in Seq(Made) /\ Len(made) <= MaxRequests
      /\ openings \in 0..MaxOpenings /\ OneRequestEach
      /\ DOMAIN made = 1..Len(made) /\ Len(made) \in Nat
  BY DEF PressRefund, InDialog, RefundInv, RefundTypes
<1>3. /\ dialog.opening = openings /\ openings \in 1..MaxOpenings /\ one \in Made
      /\ dialog.ids \in [Payments -> 0..MaxRequests]
  BY <1>2 DEF OneRequestEach, Dialog, Made
<1>4. r = IF dialog.ids[p] # 0 THEN dialog.ids[p] ELSE Len(made) + 1
  BY DEF RequestFor
<1>5. /\ asks' = asks \cup {ask} /\ dialog' = [dialog EXCEPT !.ids[p] = r, !.waits = r]
      /\ made' = IF r > Len(made) THEN Append(made, one) ELSE made
      /\ r <= MaxRequests
  BY <1>1, <1>3
<1> HIDE DEF r, ask, one
<1>6. dialog.ids[p] # 0 => r \in DOMAIN made /\ made[r] = one
  BY <1>2, <1>4 DEF OneRequestEach, one
<1>7. /\ made' \in Seq(Made) /\ Len(made') <= MaxRequests /\ DOMAIN made' = 1..Len(made')
      /\ r \in DOMAIN made' /\ made'[r] = one /\ r \in Requests
      /\ \A s \in DOMAIN made : s \in DOMAIN made' /\ made'[s] = made[s]
      /\ \A s \in DOMAIN made' : s \in DOMAIN made \/ (s = r /\ dialog.ids[p] = 0)
  <2>1. CASE dialog.ids[p] # 0
    <3>1. r \in DOMAIN made /\ made[r] = one
      BY <1>6, <2>1
    <3>2. r \in 1..Len(made) /\ ~(r > Len(made))
      BY <1>2, <3>1
    <3>3. made' = made
      BY <1>5, <3>2
    <3> QED BY <1>2, <1>5, <3>1, <3>2, <3>3 DEF Requests
  <2>2. CASE dialog.ids[p] = 0
    <3>1. r = Len(made) + 1 /\ r > Len(made)
      BY <1>2, <1>4, <2>2
    <3>2. made' = Append(made, one)
      BY <1>5, <3>1
    <3>3. /\ made' \in Seq(Made) /\ Len(made') = Len(made) + 1
          /\ \A s \in 1..Len(made) : made'[s] = made[s]
          /\ made'[Len(made) + 1] = one
      BY <1>2, <1>3, <3>2, AppendProperties
    <3> QED BY <1>2, <1>5, <2>2, <3>1, <3>3 DEF Requests, RefundAssumption
  <2> QED BY <2>1, <2>2
<1>8. dialog' \in Dialog /\ dialog'.opening = openings
      /\ dialog'.ids = [dialog.ids EXCEPT ![p] = r]
  <2>1. r \in 0..MaxRequests
    BY <1>7 DEF Requests
  <2>2. [dialog.ids EXCEPT ![p] = r] \in [Payments -> 0..MaxRequests]
    BY <1>3, <2>1
  <2> QED BY <1>2, <1>3, <1>5, <2>1, <2>2 DEF Dialog
<1>9. OneRequestEach'
  <2>1. \A s \in DOMAIN made' : made'[s].opening <= openings
    BY <1>2, <1>3, <1>7 DEF OneRequestEach, one
  <2>2. ASSUME NEW s \in DOMAIN made, made[s] = one PROVE dialog.ids[p] # 0
    <3>1. made[s].opening = openings /\ made[s].payment = p
      BY <2>2 DEF one
    <3>2. dialog.ids[p] = s
      BY <1>2, <3>1 DEF OneRequestEach
    <3> QED BY <1>2, <3>2
  <2>3. \A s, t \in DOMAIN made' : made'[s] = made'[t] => s = t
    BY <1>2, <1>7, <2>2 DEF OneRequestEach
  <2>4. \A q \in Payments : dialog'.ids[q] # 0 =>
          /\ dialog'.ids[q] \in DOMAIN made'
          /\ made'[dialog'.ids[q]] = [opening |-> openings, payment |-> q]
    <3> SUFFICES ASSUME NEW q \in Payments, dialog'.ids[q] # 0
                 PROVE  /\ dialog'.ids[q] \in DOMAIN made'
                        /\ made'[dialog'.ids[q]] = [opening |-> openings, payment |-> q]
      OBVIOUS
    <3>1. CASE q = p
      <4>1. dialog'.ids[q] = r
        BY <1>3, <1>8, <3>1
      <4> QED BY <1>7, <3>1, <4>1 DEF one
    <3>2. CASE q # p
      <4>1. dialog'.ids[q] = dialog.ids[q]
        BY <1>3, <1>8, <3>2
      <4> QED BY <1>2, <1>7, <4>1 DEF OneRequestEach
    <3> QED BY <3>1, <3>2
  <2>5. ASSUME NEW s \in DOMAIN made', made'[s].opening = openings
        PROVE  dialog'.ids[made'[s].payment] = s
    <3>1. CASE s \in DOMAIN made
      <4>1. made'[s] = made[s] /\ dialog.ids[made[s].payment] = s /\ made[s] \in Made
        BY <1>2, <1>7, <2>5, <3>1 DEF OneRequestEach
      <4>2. CASE made[s].payment = p
        <5>1. r = s
          BY <1>2, <1>4, <3>1, <4>1, <4>2
        <5> QED BY <1>3, <1>8, <4>1, <4>2, <5>1
      <4>3. CASE made[s].payment # p
        BY <1>3, <1>8, <4>1, <4>3 DEF Made
      <4> QED BY <4>2, <4>3
    <3>2. CASE s \notin DOMAIN made
      <4>1. s = r /\ made'[s].payment = p
        BY <1>7, <3>2 DEF one
      <4> QED BY <1>3, <1>8, <4>1
    <3> QED BY <3>1, <3>2
  <2> QED BY <1>2, <1>8, <2>1, <2>3, <2>4, <2>5 DEF OneRequestEach
<1>10. ask \in Ask /\ ask.req = r /\ ask.of = p /\ ask.at = "sent"
  BY <1>7 DEF ask, Ask
<1>11. RefundTypes'
  BY <1>2, <1>5, <1>7, <1>8, <1>10 DEF RefundInv, RefundTypes
<1>12. RequestsAreMade'
  <2>1. /\ \A a \in asks \cup late : a.req \in DOMAIN made /\ made[a.req].payment = a.of
        /\ \A s \in Requests : given[s] # Nil => s \in DOMAIN made /\ made[s].payment = given[s].of
        /\ \A l \in late : mishap /\ l.req \in told
    BY DEF RefundInv, RequestsAreMade
  <2>2. made'[ask.req].payment = ask.of /\ ask.req \in DOMAIN made'
    BY <1>7, <1>10 DEF one
  <2>3. \A a \in asks' \cup late : a.req \in DOMAIN made' /\ made'[a.req].payment = a.of
    BY <1>5, <1>7, <2>1, <2>2
  <2>4. \A s \in Requests : given[s] # Nil => s \in DOMAIN made' /\ made'[s].payment = given[s].of
    BY <1>7, <2>1
  <2> QED BY <1>2, <2>1, <2>3, <2>4 DEF RequestsAreMade
<1>13. /\ \A q : Refundable(q)' = Refundable(q)
       /\ \A s : RecordedBy(s)' = RecordedBy(s)
       /\ \A q : Refunded(q)' = Refunded(q)
  BY <1>2 DEF Refundable, Refunded, RecordedBy
<1>14. HeldByOne'
  BY <1>2, <1>5, <1>10, <1>13 DEF RefundInv, HeldByOne
<1>15. LedgerWithinPaid' /\ GivenIsKnown'
  BY <1>2, <1>5, <1>13 DEF RefundInv, LedgerWithinPaid, GivenIsKnown
<1> QED BY <1>9, <1>11, <1>12, <1>14, <1>15 DEF RefundInv

-----------------------------------------------------------------------------
(* Refunds recorded, changed, deleted and restored by hand: no request's     *)
(* record comes or goes, and a payment's refunds grow only with its row free *)
(* and it not deleted, to no more than was paid.                             *)
HandStep ==
  /\ UNCHANGED <<live, given, late, asks, made, openings, mishap, told>>
  /\ DialogHears
  /\ refunds' \in Seq(Refund) /\ Len(refunds') <= MaxRefunds
  /\ \A r \in Requests : RecordedBy(r)' = RecordedBy(r)
  /\ \A p \in Payments :
       Back(refunds', p) <= Back(refunds, p)
       \/ (p \in live /\ ~Held(p) /\ Back(refunds', p) <= Amount)

LEMMA RefundsAre ==
  ASSUME RefundAssumption, RefundInv
  PROVE  /\ refunds \in Seq(Refund) /\ Len(refunds) <= MaxRefunds /\ Len(refunds) \in Nat
         /\ DOMAIN refunds = 1..Len(refunds)
         /\ \A i \in DOMAIN refunds : refunds[i] \in Refund
         /\ \A p : /\ Back(refunds, p) \in Nat
                   /\ Refundable(p) = IF Back(refunds, p) <= Amount THEN Amount - Back(refunds, p) ELSE 0
         /\ Amount \in Nat
         /\ \A p \in Payments : Back(refunds, p) <= IF p \in live THEN Amount ELSE 0
<1>1. refunds \in Seq(Refund) /\ Len(refunds) <= MaxRefunds
  BY DEF RefundInv, RefundTypes
<1>2. \A p \in Payments : Back(refunds, p) <= IF p \in live THEN Amount ELSE 0
  BY RefundedIs DEF RefundInv, LedgerWithinPaid
<1> QED BY <1>1, <1>2, RefundableIs DEF RefundAssumption

LEMMA HandKeeps ==
  ASSUME RefundAssumption, RefundInv, HandStep
  PROVE  RefundInv'
<1>1. /\ UNCHANGED <<live, given, late, asks, made, openings, mishap, told>>
      /\ refunds' \in Seq(Refund) /\ Len(refunds') <= MaxRefunds
      /\ \A r \in Requests : RecordedBy(r)' = RecordedBy(r)
  BY DEF HandStep
<1>2. dialog' \in {Nil} \cup Dialog /\ OneRequestEach'
  BY HearingKeeps DEF HandStep
<1>3. RefundTypes'
  BY <1>1, <1>2 DEF RefundInv, RefundTypes
<1>4. RequestsAreMade'
  BY <1>1 DEF RefundInv, RequestsAreMade
<1>5. \A a \in asks : a \in Ask
  BY DEF RefundInv, RefundTypes
<1>6. \A p \in Payments : Held(p) => Refundable(p) <= Refundable(p)'
  <2> SUFFICES ASSUME NEW p \in Payments, Held(p) PROVE Refundable(p) <= Refundable(p)'
    OBVIOUS
  <2>1. Back(refunds', p) <= Back(refunds, p)
    BY DEF HandStep
  <2>2. Refundable(p) = (IF Back(refunds, p) <= Amount THEN Amount - Back(refunds, p) ELSE 0)
        /\ Back(refunds, p) \in Nat /\ Amount \in Nat
    BY RefundsAre
  <2>3. Refundable(p)' = (IF Back(refunds', p) <= Amount THEN Amount - Back(refunds', p) ELSE 0)
        /\ Back(refunds', p) \in Nat
    BY <1>1, RefundableNext
  <2> QED BY <2>1, <2>2, <2>3
<1>7. HeldByOne'
  <2>1. ASSUME NEW a \in asks, a.at # "sent"
        PROVE  a.of \in live /\ RecordedBy(a.req)' = {} /\ a.amount <= Refundable(a.of)'
    <3>1. a.of \in live /\ RecordedBy(a.req) = {} /\ a.amount <= Refundable(a.of)
      BY <2>1 DEF RefundInv, HeldByOne
    <3>2. Held(a.of) /\ a.of \in Payments /\ a.req \in Requests /\ a.amount \in Nat
      BY <1>5, <2>1 DEF Held, Ask
    <3>3. Refundable(a.of) <= Refundable(a.of)' /\ Refundable(a.of) \in Nat /\ Refundable(a.of)' \in Nat
      BY <1>1, <1>6, <3>2, RefundsAre, RefundableNext
    <3> QED BY <1>1, <3>1, <3>2, <3>3
  <2> QED BY <1>1, <2>1 DEF RefundInv, HeldByOne
<1>8. LedgerWithinPaid'
  <2> SUFFICES ASSUME NEW p \in Payments PROVE Back(refunds', p) <= IF p \in live THEN Amount ELSE 0
    BY <1>1, RefundedIs DEF LedgerWithinPaid
  <2>1. Back(refunds, p) <= (IF p \in live THEN Amount ELSE 0)
        /\ Back(refunds, p) \in Nat /\ Amount \in Nat
    BY RefundsAre
  <2>2. Back(refunds', p) \in Nat
    BY <1>1, RefundableNext
  <2> QED BY <2>1, <2>2 DEF HandStep
<1>9. GivenIsKnown'
  BY <1>1 DEF RefundInv, GivenIsKnown
<1> QED BY <1>2, <1>3, <1>4, <1>7, <1>8, <1>9 DEF RefundInv

(* One more refund, of what is left.                                         *)
LEMMA RecordingSteps ==
  ASSUME RefundAssumption, RefundInv, NEW p \in Payments \cup {Nil}, NEW amount \in 1..Amount,
         MayRecord(p, amount), refunds' = Append(refunds, ByHand(p, amount)), Len(refunds) < MaxRefunds,
         UNCHANGED <<live, given, late, asks, made, openings, mishap, told>>, dialog' \in {dialog, Nil}
  PROVE  HandStep
<1> DEFINE b == ByHand(p, amount)
<1>1. b \in Refund /\ b.live /\ b.of = p /\ b.amount = amount /\ b.by = 0
  BY DEF ByHand, Refund, RefundAssumption
<1> HIDE DEF b
<1>2. /\ refunds' \in Seq(Refund) /\ Len(refunds') = Len(refunds) + 1
      /\ \A i \in 1..Len(refunds) : refunds'[i] = refunds[i]
      /\ refunds'[Len(refunds) + 1] = b
  BY <1>1, RefundsAre, AppendProperties DEF b
<1>3. Len(refunds') <= MaxRefunds
  BY <1>2, RefundsAre DEF RefundAssumption
<1>4. \A r \in Requests : RecordedBy(r)' = RecordedBy(r)
  <2>1. DOMAIN refunds' = 1..Len(refunds) + 1 /\ DOMAIN refunds = 1..Len(refunds) /\ Len(refunds) \in Nat
    BY <1>2, RefundsAre
  <2>2. \A r \in Requests : r # 0
    BY DEF Requests
  <2> QED BY <1>1, <1>2, <2>1, <2>2 DEF RecordedBy
<1>5. ASSUME NEW q \in Payments
      PROVE  Back(refunds', q) <= Back(refunds, q)
             \/ (q \in live /\ ~Held(q) /\ Back(refunds', q) <= Amount)
  <2>1. Back(refunds', q) = Back(refunds, q) + Counts(b, q)
    BY <1>1, RefundsAre, BackAppend DEF b
  <2>2. Back(refunds, q) \in Nat /\ Amount \in Nat
        /\ Refundable(q) = IF Back(refunds, q) <= Amount THEN Amount - Back(refunds, q) ELSE 0
    BY RefundsAre
  <2>3. CASE q # p
    <3>1. Counts(b, q) = 0
      BY <1>1, <2>3 DEF Counts
    <3> QED BY <2>1, <2>2, <3>1
  <2>4. CASE q = p
    <3>1. p # Nil
      BY <2>4 DEF RefundAssumption
    <3>2. q \in live /\ ~Held(q) /\ amount <= Refundable(q) /\ Counts(b, q) = amount
      BY <1>1, <2>4, <3>1 DEF MayRecord, Counts
    <3>3. Back(refunds', q) <= Amount
      BY <2>1, <2>2, <3>2
    <3> QED BY <3>2, <3>3
  <2> QED BY <2>3, <2>4
<1> QED BY <1>2, <1>3, <1>4, <1>5 DEF HandStep, DialogHears

(* A refund becomes another, made by the same.                               *)
LEMMA ChangingSteps ==
  ASSUME RefundAssumption, RefundInv, NEW i \in DOMAIN refunds, NEW b \in Refund,
         refunds' = [refunds EXCEPT ![i] = b], b.by = refunds[i].by,
         \A p \in Payments :
           \/ Counts(b, p) <= Counts(refunds[i], p)
           \/ /\ p \in live /\ ~Held(p)
              /\ Counts(b, p) <= Refundable(p) + Counts(refunds[i], p),
         UNCHANGED <<live, given, late, asks, made, openings, mishap, told, dialog>>
  PROVE  HandStep
<1>1. /\ refunds' \in Seq(Refund) /\ Len(refunds') = Len(refunds) /\ DOMAIN refunds' = DOMAIN refunds
      /\ \A j \in DOMAIN refunds : refunds'[j] = IF j = i THEN b ELSE refunds[j]
  BY RefundsAre, ExceptSeq
<1>2. Len(refunds') <= MaxRefunds
  BY <1>1, RefundsAre
<1>3. \A r \in Requests : RecordedBy(r)' = RecordedBy(r)
  BY <1>1 DEF RecordedBy
<1>4. ASSUME NEW p \in Payments
      PROVE  Back(refunds', p) <= Back(refunds, p)
             \/ (p \in live /\ ~Held(p) /\ Back(refunds', p) <= Amount)
  <2>1. /\ Back(refunds', p) + Counts(refunds[i], p) = Back(refunds, p) + Counts(b, p)
        /\ Counts(refunds[i], p) <= Back(refunds, p)
    <3>1. refunds \in Seq(Refund)
      BY RefundsAre
    <3> QED BY <3>1, BackExcept
  <2>2. Counts(refunds[i], p) \in Nat /\ Counts(b, p) \in Nat /\ Back(refunds', p) \in Nat
    BY <1>1, RefundsAre, CountsNat, BackNat
  <2>3. Back(refunds, p) \in Nat /\ Amount \in Nat
        /\ Refundable(p) = (IF Back(refunds, p) <= Amount THEN Amount - Back(refunds, p) ELSE 0)
        /\ Back(refunds, p) <= (IF p \in live THEN Amount ELSE 0)
    BY RefundsAre
  <2>4. CASE Counts(b, p) <= Counts(refunds[i], p)
    BY <2>1, <2>2, <2>3, <2>4
  <2>5. CASE p \in live /\ ~Held(p) /\ Counts(b, p) <= Refundable(p) + Counts(refunds[i], p)
    <3>1. Back(refunds', p) <= Amount
      BY <2>1, <2>2, <2>3, <2>5
    <3> QED BY <2>5, <3>1
  <2> QED BY <2>4, <2>5
<1> QED BY <1>1, <1>2, <1>3, <1>4 DEF HandStep, DialogHears

LEMMA HandSteps ==
  ASSUME RefundAssumption, RefundInv,
         PressRecord \/ OtherRecords \/ EditRefund \/ DeleteRefund \/ RestoreRefund
  PROVE  HandStep
<1>1. CASE PressRecord
  BY <1>1, RecordingSteps DEF PressRecord
<1>2. CASE OtherRecords
  BY <1>2, RecordingSteps DEF OtherRecords
<1>3. CASE EditRefund
  <2>1. PICK i \in DOMAIN refunds, a \in 1..Amount :
          /\ refunds[i].live /\ refunds[i].of # Nil /\ ~Held(refunds[i].of)
          /\ a <= Refundable(refunds[i].of) + refunds[i].amount
          /\ refunds' = [refunds EXCEPT ![i].amount = a]
    BY <1>3 DEF EditRefund
  <2> DEFINE b == [refunds[i] EXCEPT !.amount = a]
  <2>2. refunds[i] \in Refund
    BY RefundsAre
  <2>3. b \in Refund /\ b.by = refunds[i].by /\ b.live = refunds[i].live /\ b.of = refunds[i].of
        /\ b.amount = a
    BY <2>2 DEF Refund
  <2>4. refunds' = [refunds EXCEPT ![i] = b]
    BY <2>1
  <2> HIDE DEF b
  <2>5. ASSUME NEW p \in Payments
        PROVE  \/ Counts(b, p) <= Counts(refunds[i], p)
               \/ /\ p \in live /\ ~Held(p)
                  /\ Counts(b, p) <= Refundable(p) + Counts(refunds[i], p)
    <3>1. CASE refunds[i].of # p
      BY <2>3, <3>1 DEF Counts
    <3>2. CASE refunds[i].of = p
      <4>1. Counts(b, p) = a /\ Counts(refunds[i], p) = refunds[i].amount
        BY <2>1, <2>3, <3>2 DEF Counts
      <4>2. Counts(refunds[i], p) <= Back(refunds, p) /\ refunds[i].amount \in Nat /\ refunds[i].amount # 0
        BY <2>2, <2>3, RefundsAre, BackExcept, CountsNat
      <4>3. Back(refunds, p) \in Nat /\ Back(refunds, p) <= IF p \in live THEN Amount ELSE 0
        BY RefundsAre
      <4>4. p \in live
        BY <4>1, <4>2, <4>3
      <4> QED BY <2>1, <3>2, <4>1, <4>4
    <3> QED BY <3>1, <3>2
  <2>6. UNCHANGED <<live, given, late, asks, made, openings, mishap, told, dialog>>
    BY <1>3 DEF EditRefund
  <2> QED BY <2>3, <2>4, <2>5, <2>6, ChangingSteps
<1>4. CASE DeleteRefund
  <2>1. PICK i \in DOMAIN refunds : refunds' = [refunds EXCEPT ![i].live = FALSE]
    BY <1>4 DEF DeleteRefund
  <2> DEFINE b == [refunds[i] EXCEPT !.live = FALSE]
  <2>2. refunds[i] \in Refund
    BY RefundsAre
  <2>3. b \in Refund /\ b.by = refunds[i].by /\ ~b.live
    BY <2>2 DEF Refund
  <2>4. refunds' = [refunds EXCEPT ![i] = b]
    BY <2>1
  <2> HIDE DEF b
  <2>5. \A p \in Payments : Counts(b, p) <= Counts(refunds[i], p)
    <3>1. \A p \in Payments : Counts(b, p) = 0 /\ Counts(refunds[i], p) \in Nat
      BY <2>2, <2>3, CountsNat DEF Counts
    <3> QED BY <3>1
  <2>6. UNCHANGED <<live, given, late, asks, made, openings, mishap, told, dialog>>
    BY <1>4 DEF DeleteRefund
  <2> QED BY <2>3, <2>4, <2>5, <2>6, ChangingSteps
<1>5. CASE RestoreRefund
  <2>1. PICK i \in DOMAIN refunds :
          /\ ~refunds[i].live
          /\ refunds[i].of = Nil \/ MayRecord(refunds[i].of, refunds[i].amount)
          /\ refunds' = [refunds EXCEPT ![i].live = TRUE]
    BY <1>5 DEF RestoreRefund
  <2> DEFINE b == [refunds[i] EXCEPT !.live = TRUE]
  <2>2. refunds[i] \in Refund
    BY RefundsAre
  <2>3. b \in Refund /\ b.by = refunds[i].by /\ b.live /\ b.of = refunds[i].of
        /\ b.amount = refunds[i].amount
    BY <2>2 DEF Refund
  <2>4. refunds' = [refunds EXCEPT ![i] = b]
    BY <2>1
  <2> HIDE DEF b
  <2>5. ASSUME NEW p \in Payments
        PROVE  \/ Counts(b, p) <= Counts(refunds[i], p)
               \/ /\ p \in live /\ ~Held(p)
                  /\ Counts(b, p) <= Refundable(p) + Counts(refunds[i], p)
    <3>1. CASE refunds[i].of # p
      BY <2>3, <3>1 DEF Counts
    <3>2. CASE refunds[i].of = p
      <4>1. Counts(b, p) = refunds[i].amount /\ Counts(refunds[i], p) = 0
        BY <2>1, <2>3, <3>2 DEF Counts
      <4>2. p # Nil
        BY DEF RefundAssumption
      <4>3. p \in live /\ ~Held(p) /\ refunds[i].amount <= Refundable(p)
        BY <2>1, <3>2, <4>2 DEF MayRecord
      <4>4. refunds[i].amount \in Nat /\ Refundable(p) \in Nat
        BY <2>2, CountsNat, RefundsAre
      <4> QED BY <4>1, <4>3, <4>4
    <3> QED BY <3>1, <3>2
  <2>6. UNCHANGED <<live, given, late, asks, made, openings, mishap, told, dialog>>
    BY <1>5 DEF RestoreRefund
  <2> QED BY <2>3, <2>4, <2>5, <2>6, ChangingSteps
<1> QED BY <1>1, <1>2, <1>3, <1>4, <1>5

(* Payments deleted, their refunds all gone, and restored.                   *)
LEMMA PaymentsKeep ==
  ASSUME RefundAssumption, RefundInv, DeletePayment \/ RestorePayment
  PROVE  RefundInv'
<1>1. UNCHANGED <<refunds, given, late, asks, made, dialog, openings, mishap, told>>
  BY DEF DeletePayment, RestorePayment
<1>2. PICK p \in Payments :
        \/ live' = live \cup {p}
        \/ live' = live \ {p} /\ ~Held(p) /\ Refunded(p) = 0
  BY DEF DeletePayment, RestorePayment, MayDelete
<1>3. live' \in SUBSET Payments
  BY <1>2 DEF RefundInv, RefundTypes
<1>4. /\ \A q : Refundable(q)' = Refundable(q)
      /\ \A s : RecordedBy(s)' = RecordedBy(s)
      /\ \A q : Refunded(q)' = Refunded(q)
  BY <1>1 DEF Refundable, Refunded, RecordedBy
<1>5. RefundTypes' /\ OneRequestEach' /\ RequestsAreMade' /\ GivenIsKnown'
  BY <1>1, <1>3, <1>4 DEF RefundInv, RefundTypes, OneRequestEach, RequestsAreMade, GivenIsKnown
<1>6. \A a \in asks : a.at # "sent" => a.of \in live'
  BY <1>2 DEF RefundInv, HeldByOne, Held
<1>7. HeldByOne'
  BY <1>1, <1>4, <1>6 DEF RefundInv, HeldByOne
<1>8. LedgerWithinPaid'
  <2>1. \A q \in Payments : Refunded(q) <= (IF q \in live THEN Amount ELSE 0) /\ Refunded(q) \in Nat
    BY RefundedIs, RefundsAre
  <2>2. Amount \in Nat
    BY RefundsAre
  <2> QED BY <1>2, <1>4, <2>1, <2>2 DEF LedgerWithinPaid
<1> QED BY <1>5, <1>7, <1>8 DEF RefundInv

-----------------------------------------------------------------------------
(* The requests to the server, and what PayPal does with them.               *)
LEMMA AsksAre ==
  ASSUME RefundAssumption, RefundInv, NEW a \in asks
  PROVE  /\ a \in Ask /\ a.req \in Requests /\ a.of \in Payments /\ a.amount \in 1..Amount
         /\ a.req \in DOMAIN made /\ made[a.req].payment = a.of
<1>1. a \in Ask
  BY DEF RefundInv, RefundTypes
<1> QED BY <1>1 DEF Ask, RefundInv, RequestsAreMade

LEMMA SameRefunds ==
  ASSUME refunds' = refunds
  PROVE  /\ \A q : Refundable(q)' = Refundable(q)
         /\ \A s : RecordedBy(s)' = RecordedBy(s)
         /\ \A q : Refunded(q)' = Refunded(q)
BY DEF Refundable, Refunded, RecordedBy

(* A request ends with nothing recorded: what PayPal gave for it, or may     *)
(* give yet, someone was told of.                                            *)
LEMMA LettingGoKeeps ==
  ASSUME RefundAssumption, RefundInv, DialogHears, NEW a \in asks, asks' = asks \ {a},
         UNCHANGED <<live, refunds, given, made, openings>>,
         mishap' \in BOOLEAN, mishap => mishap',
         told' = told \/ told' = told \cup {a.req},
         \/ late' = late
         \/ /\ late' = late \cup {[req |-> a.req, of |-> a.of, amount |-> a.amount]}
            /\ mishap' /\ a.req \in told',
         a.at = "gave" => mishap' /\ a.req \in told'
  PROVE  RefundInv'
<1>1. dialog' \in {Nil} \cup Dialog /\ OneRequestEach'
  BY HearingKeeps
<1>2. /\ \A q : Refundable(q)' = Refundable(q)
      /\ \A s : RecordedBy(s)' = RecordedBy(s)
      /\ \A q : Refunded(q)' = Refunded(q)
  BY SameRefunds
<1>3. /\ a.req \in Requests /\ a.of \in Payments /\ a.amount \in 1..Amount
      /\ a.req \in DOMAIN made /\ made[a.req].payment = a.of
  BY AsksAre
<1> DEFINE l == [req |-> a.req, of |-> a.of, amount |-> a.amount]
<1>4. l \in Late /\ l.req = a.req /\ l.of = a.of
  BY <1>3 DEF Late
<1>5. late' = late \/ (late' = late \cup {l} /\ mishap' /\ a.req \in told')
  OBVIOUS
<1> HIDE DEF l
<1>6. told \subseteq told' /\ told' \subseteq Requests
  BY <1>3 DEF RefundInv, RefundTypes
<1>7. late' \subseteq Late /\ asks' \subseteq Ask
  BY <1>4, <1>5 DEF RefundInv, RefundTypes
<1>8. RefundTypes'
  BY <1>1, <1>6, <1>7 DEF RefundInv, RefundTypes
<1>9. RequestsAreMade'
  <2>1. /\ \A x \in asks \cup late : x.req \in DOMAIN made /\ made[x.req].payment = x.of
        /\ \A r \in Requests : given[r] # Nil => r \in DOMAIN made /\ made[r].payment = given[r].of
        /\ \A x \in late : mishap /\ x.req \in told
    BY DEF RefundInv, RequestsAreMade
  <2>2. \A x \in asks' \cup late' : x \in asks \cup late \/ x = l
    BY <1>5
  <2>3. \A x \in asks' \cup late' : x.req \in DOMAIN made /\ made[x.req].payment = x.of
    BY <1>3, <1>4, <2>1, <2>2
  <2>4. \A x \in late' : mishap' /\ x.req \in told'
    BY <1>4, <1>5, <1>6, <2>1
  <2> QED BY <2>1, <2>3, <2>4 DEF RequestsAreMade
<1>10. HeldByOne'
  BY <1>2 DEF RefundInv, HeldByOne
<1>11. LedgerWithinPaid'
  BY <1>2 DEF RefundInv, LedgerWithinPaid
<1>12. GivenIsKnown'
  BY <1>2, <1>6 DEF RefundInv, GivenIsKnown
<1> QED BY <1>1, <1>8, <1>9, <1>10, <1>11, <1>12 DEF RefundInv

(* The server asks PayPal, holding the payment's row, or answers at once.    *)
LEMMA StartKeeps ==
  ASSUME RefundAssumption, RefundInv, StartRefund
  PROVE  RefundInv'
<1>1. PICK a \in asks :
        /\ a.at = "sent" /\ ~Held(a.of)
        /\ \/ /\ asks' = asks \ {a}
              /\ dialog' = Hears(dialog, a.req, ~RefusedFirst(a) /\ Retried(a))
           \/ /\ ~RefusedFirst(a) /\ ~AnswersRetry(a)
              /\ asks' = (asks \ {a}) \cup {[a EXCEPT !.at = "asked"]}
              /\ dialog' = dialog
  BY DEF StartRefund
<1>2. UNCHANGED <<live, refunds, given, late, made, openings, mishap, told>>
  BY DEF StartRefund
<1>3. DialogHears
  BY <1>1, <1>2, HearsIs DEF DialogHears
<1>4. CASE asks' = asks \ {a}
  <2>1. mishap \in BOOLEAN
    BY DEF RefundInv, RefundTypes
  <2> QED BY <1>1, <1>2, <1>3, <1>4, <2>1, LettingGoKeeps
<1>5. CASE /\ ~RefusedFirst(a) /\ ~AnswersRetry(a) /\ dialog' = dialog
           /\ asks' = (asks \ {a}) \cup {[a EXCEPT !.at = "asked"]}
  <2> DEFINE b == [a EXCEPT !.at = "asked"]
  <2>1. /\ a \in Ask /\ a.of \in Payments /\ a.amount \in 1..Amount
        /\ a.req \in DOMAIN made /\ made[a.req].payment = a.of
    BY AsksAre
  <2>2. b \in Ask /\ b.req = a.req /\ b.of = a.of /\ b.amount = a.amount /\ b.at = "asked"
    BY <2>1 DEF Ask
  <2>3. asks' = (asks \ {a}) \cup {b}
    BY <1>5
  <2> HIDE DEF b
  <2>4. /\ \A q : Refundable(q)' = Refundable(q)
        /\ \A s : RecordedBy(s)' = RecordedBy(s)
        /\ \A q : Refunded(q)' = Refunded(q)
    BY <1>2, SameRefunds
  <2>5. a.of \in live /\ RecordedBy(a.req) = {} /\ a.amount <= Refundable(a.of)
    <3>1. Refundable(a.of) \in Int /\ a.amount \in Int
      BY <2>1, RefundsAre
    <3> QED BY <1>5, <3>1 DEF RefusedFirst, AnswersRetry
  <2>6. OneRequestEach' /\ RefundTypes'
    BY <1>2, <1>5, <2>2, <2>3 DEF RefundInv, RefundTypes, OneRequestEach
  <2>7. RequestsAreMade'
    BY <1>2, <2>1, <2>2, <2>3 DEF RefundInv, RequestsAreMade
  <2>8. \A c \in asks : c.at # "sent" => c.of # a.of
    BY <1>1 DEF Held
  <2>9. HeldByOne'
    BY <1>2, <2>2, <2>3, <2>4, <2>5, <2>8 DEF RefundInv, HeldByOne
  <2>10. LedgerWithinPaid'
    BY <1>2, <2>4 DEF RefundInv, LedgerWithinPaid
  <2>11. GivenIsKnown'
    <3>1. ASSUME NEW c \in asks, c.at = "gave" PROVE c \in asks'
      BY <1>1, <2>3, <3>1
    <3> QED BY <1>2, <2>4, <3>1 DEF RefundInv, GivenIsKnown
  <2> QED BY <2>6, <2>7, <2>9, <2>10, <2>11 DEF RefundInv
<1> QED BY <1>1, <1>4, <1>5

(* PayPal acts on a request: it gives what was asked, once.                  *)
LEMMA GivingIs ==
  ASSUME RefundAssumption, RefundInv, NEW r \in Requests, NEW p \in Payments, NEW amount \in 1..Amount,
         given' = PayPalGives(r, p, amount)
  PROVE  /\ given' \in [Requests -> {Nil} \cup Given]
         /\ \A x \in Requests : given[x] # Nil => given'[x] = given[x]
         /\ \A x \in Requests : x # r => given'[x] = given[x]
         /\ given[r] = Nil /\ given'[r] # Nil => given'[r].of = p /\ given'[r].amount = amount
<1> DEFINE g == [of |-> p, amount |-> amount]
<1>1. g \in Given /\ g.of = p /\ g.amount = amount
  BY DEF Given
<1>2. given \in [Requests -> {Nil} \cup Given]
  BY DEF RefundInv, RefundTypes
<1>3. given' = given \/ (given[r] = Nil /\ given' = [given EXCEPT ![r] = g])
  BY DEF PayPalGives
<1> HIDE DEF g
<1>4. CASE given' = given
  BY <1>2, <1>4
<1>5. CASE given[r] = Nil /\ given' = [given EXCEPT ![r] = g]
  BY <1>1, <1>2, <1>5
<1> QED BY <1>3, <1>4, <1>5

LEMMA AnswersKeep ==
  ASSUME RefundAssumption, RefundInv, PayPalAnswers
  PROVE  RefundInv'
<1>1. PICK a \in asks :
        /\ a.at = "asked"
        /\ given' = PayPalGives(a.req, a.of, a.amount)
        /\ asks' = (asks \ {a})
             \cup {[a EXCEPT !.at = IF given'[a.req] = Nil THEN "refused" ELSE "gave"]}
  BY DEF PayPalAnswers
<1>2. UNCHANGED <<live, refunds, late, made, dialog, openings, mishap, told>>
  BY DEF PayPalAnswers
<1> DEFINE b == [a EXCEPT !.at = IF given'[a.req] = Nil THEN "refused" ELSE "gave"]
<1>3. /\ a \in Ask /\ a.req \in Requests /\ a.of \in Payments /\ a.amount \in 1..Amount
      /\ a.req \in DOMAIN made /\ made[a.req].payment = a.of
  BY AsksAre
<1>4. /\ b \in Ask /\ b.req = a.req /\ b.of = a.of /\ b.amount = a.amount /\ b.at # "sent"
      /\ b.at = "gave" <=> given'[a.req] # Nil
  BY <1>3 DEF Ask
<1>5. asks' = (asks \ {a}) \cup {b}
  BY <1>1
<1> HIDE DEF b
<1>6. /\ given' \in [Requests -> {Nil} \cup Given]
      /\ \A x \in Requests : given[x] # Nil => given'[x] = given[x]
      /\ \A x \in Requests : x # a.req => given'[x] = given[x]
      /\ given[a.req] = Nil /\ given'[a.req] # Nil =>
           given'[a.req].of = a.of /\ given'[a.req].amount = a.amount
  BY <1>1, <1>3, GivingIs
<1>7. /\ \A q : Refundable(q)' = Refundable(q)
      /\ \A s : RecordedBy(s)' = RecordedBy(s)
      /\ \A q : Refunded(q)' = Refunded(q)
  BY <1>2, SameRefunds
<1>8. OneRequestEach' /\ RefundTypes'
  BY <1>2, <1>4, <1>5, <1>6 DEF RefundInv, RefundTypes, OneRequestEach
<1>9. RequestsAreMade'
  <2>1. \A c \in asks' \cup late : c.req \in DOMAIN made /\ made[c.req].payment = c.of
    BY <1>3, <1>4, <1>5 DEF RefundInv, RequestsAreMade
  <2>2. ASSUME NEW x \in Requests, given'[x] # Nil
        PROVE  x \in DOMAIN made /\ made[x].payment = given'[x].of
    <3>1. CASE given[x] # Nil
      BY <1>6, <3>1 DEF RefundInv, RequestsAreMade
    <3>2. CASE given[x] = Nil
      BY <1>3, <1>6, <2>2, <3>2
    <3> QED BY <3>1, <3>2
  <2> QED BY <1>2, <2>1, <2>2 DEF RefundInv, RequestsAreMade
<1>10. \A c \in asks : c.at # "sent" /\ c.of = a.of => c = a
  BY <1>1 DEF RefundInv, HeldByOne
(* With nothing lost yet, PayPal has not heard the request before.           *)
<1>11. ~mishap => given[a.req] = Nil
  <2> SUFFICES ASSUME ~mishap, given[a.req] # Nil PROVE FALSE
    OBVIOUS
  <2>1. RecordedBy(a.req) = {}
    BY <1>1 DEF RefundInv, HeldByOne
  <2>2. PICK c \in asks : c.req = a.req /\ c.at = "gave"
    BY <1>3, <2>1 DEF RefundInv, GivenIsKnown
  <2>3. c.of = a.of
    BY <1>3, <2>2, AsksAre
  <2> QED BY <1>1, <1>10, <2>2, <2>3
<1>12. HeldByOne'
  <2>1. \A c, d \in asks' : c.at # "sent" /\ d.at # "sent" /\ c.of = d.of => c = d
    <3>1. \A c \in asks' : c = b \/ (c \in asks /\ c # a)
      BY <1>5
    <3>2. \A c, d \in asks : c.at # "sent" /\ d.at # "sent" /\ c.of = d.of => c = d
      BY DEF RefundInv, HeldByOne
    <3> QED BY <1>4, <1>10, <3>1, <3>2
  <2>2. \A c \in asks' : c.at # "sent" =>
          c.of \in live /\ RecordedBy(c.req) = {} /\ c.amount <= Refundable(c.of)
    BY <1>1, <1>4, <1>5 DEF RefundInv, HeldByOne
  <2>3. ASSUME NEW c \in asks', c.at = "gave"
        PROVE  given'[c.req] # Nil /\ (~mishap => given'[c.req].amount = c.amount)
    <3>1. CASE c = b
      BY <1>4, <1>6, <1>11, <2>3, <3>1
    <3>2. CASE c \in asks
      <4>1. given[c.req] # Nil /\ (~mishap => given[c.req].amount = c.amount) /\ c.req \in Requests
        BY <2>3, <3>2, AsksAre DEF RefundInv, HeldByOne
      <4> QED BY <1>6, <4>1
    <3> QED BY <1>5, <3>1, <3>2
  <2> QED BY <1>2, <1>7, <2>1, <2>2, <2>3 DEF HeldByOne
<1>13. LedgerWithinPaid'
  BY <1>2, <1>7 DEF RefundInv, LedgerWithinPaid
<1>14. GivenIsKnown'
  <2> SUFFICES ASSUME NEW x \in Requests, given'[x] # Nil
               PROVE  \/ RecordedBy(x) # {}
                      \/ \E c \in asks' : c.req = x /\ c.at = "gave"
                      \/ mishap /\ x \in told
    BY <1>2, <1>7 DEF GivenIsKnown
  <2>1. CASE x = a.req
    BY <1>4, <1>5, <2>1
  <2>2. CASE x # a.req
    <3>1. given[x] # Nil
      BY <1>6, <2>2
    <3>2. \A c \in asks : c.at = "gave" => c \in asks'
      BY <1>1, <1>5
    <3> QED BY <3>1, <3>2 DEF RefundInv, GivenIsKnown
  <2> QED BY <2>1, <2>2
<1> QED BY <1>8, <1>9, <1>12, <1>13, <1>14 DEF RefundInv

LEMMA LateKeeps ==
  ASSUME RefundAssumption, RefundInv, PayPalActsLate
  PROVE  RefundInv'
<1>1. PICK l \in late : given' = PayPalGives(l.req, l.of, l.amount) /\ late' = late \ {l}
  BY DEF PayPalActsLate
<1>2. UNCHANGED <<live, refunds, asks, made, dialog, openings, mishap, told>>
  BY DEF PayPalActsLate
<1>3. /\ l.req \in Requests /\ l.of \in Payments /\ l.amount \in 1..Amount
      /\ l.req \in DOMAIN made /\ made[l.req].payment = l.of /\ mishap /\ l.req \in told
  <2>1. l \in Late
    BY DEF RefundInv, RefundTypes
  <2> QED BY <2>1 DEF Late, RefundInv, RequestsAreMade
<1>4. /\ given' \in [Requests -> {Nil} \cup Given]
      /\ \A x \in Requests : given[x] # Nil => given'[x] = given[x]
      /\ \A x \in Requests : x # l.req => given'[x] = given[x]
      /\ given[l.req] = Nil /\ given'[l.req] # Nil => given'[l.req].of = l.of
  BY <1>1, <1>3, GivingIs
<1>5. /\ \A q : Refundable(q)' = Refundable(q)
      /\ \A s : RecordedBy(s)' = RecordedBy(s)
      /\ \A q : Refunded(q)' = Refunded(q)
  BY <1>2, SameRefunds
<1>6. OneRequestEach' /\ RefundTypes'
  BY <1>1, <1>2, <1>4 DEF RefundInv, RefundTypes, OneRequestEach
<1>7. RequestsAreMade'
  <2>1. ASSUME NEW x \in Requests, given'[x] # Nil
        PROVE  x \in DOMAIN made /\ made[x].payment = given'[x].of
    <3>1. CASE given[x] # Nil
      BY <1>4, <3>1 DEF RefundInv, RequestsAreMade
    <3>2. CASE given[x] = Nil
      BY <1>3, <1>4, <2>1, <3>2
    <3> QED BY <3>1, <3>2
  <2> QED BY <1>1, <1>2, <2>1 DEF RefundInv, RequestsAreMade
<1>8. HeldByOne'
  <2>1. ASSUME NEW c \in asks, c.at = "gave" PROVE given'[c.req] # Nil
    BY <1>4, <2>1, AsksAre DEF RefundInv, HeldByOne
  <2> QED BY <1>2, <1>3, <1>5, <2>1 DEF RefundInv, HeldByOne
<1>9. LedgerWithinPaid'
  BY <1>2, <1>5 DEF RefundInv, LedgerWithinPaid
<1>10. GivenIsKnown'
  BY <1>2, <1>3, <1>4, <1>5 DEF RefundInv, GivenIsKnown
<1> QED BY <1>6, <1>7, <1>8, <1>9, <1>10 DEF RefundInv

(* The server records what PayPal gave, while it holds the payment's row.    *)
LEMMA RecordKeeps ==
  ASSUME RefundAssumption, RefundInv, RecordRefund
  PROVE  RefundInv'
<1>1. PICK a \in asks :
        /\ a.at = "gave" /\ asks' = asks \ {a}
        /\ IF Fits(a)
             THEN /\ refunds' = Append(refunds, [of |-> a.of, amount |-> given[a.req].amount,
                                                 by |-> a.req, live |-> TRUE])
                  /\ dialog' \in {dialog, Hears(dialog, a.req, TRUE)}
                  /\ told' = told
             ELSE /\ told' = told \cup {a.req}
                  /\ dialog' = Hears(dialog, a.req, FALSE)
                  /\ refunds' = refunds
  BY DEF RecordRefund
<1>2. UNCHANGED <<live, given, late, made, openings, mishap>> /\ Len(refunds) < MaxRefunds
  BY DEF RecordRefund
<1>3. DialogHears
  BY <1>1, <1>2, HearsIs DEF DialogHears
<1>4. /\ a \in Ask /\ a.req \in Requests /\ a.of \in Payments /\ a.amount \in 1..Amount
      /\ a.req \in DOMAIN made /\ made[a.req].payment = a.of
  BY AsksAre
<1>5. /\ given[a.req] # Nil /\ (~mishap => given[a.req].amount = a.amount)
      /\ a.of \in live /\ RecordedBy(a.req) = {} /\ a.amount <= Refundable(a.of)
      /\ given[a.req].of = a.of
  BY <1>1, <1>4 DEF RefundInv, HeldByOne, RequestsAreMade
<1>6. CASE ~Fits(a)
  <2>1. mishap /\ mishap \in BOOLEAN
    BY <1>5, <1>6 DEF Fits, RefundInv, RefundTypes
  <2> QED BY <1>1, <1>2, <1>3, <1>6, <2>1, LettingGoKeeps
<1>7. CASE Fits(a)
  <2> DEFINE b == [of |-> a.of, amount |-> given[a.req].amount, by |-> a.req, live |-> TRUE]
  <2>1. given[a.req].amount \in 1..Amount
    <3>1. given[a.req] \in Given
      BY <1>4, <1>5 DEF RefundInv, RefundTypes
    <3> QED BY <3>1 DEF Given
  <2>2. b \in Refund /\ b.of = a.of /\ b.amount = given[a.req].amount /\ b.by = a.req /\ b.live
    BY <1>4, <2>1 DEF Refund, Requests
  <2>3. refunds' = Append(refunds, b) /\ told' = told
    BY <1>1, <1>7
  <2> HIDE DEF b
  <2>4. /\ refunds' \in Seq(Refund) /\ Len(refunds') = Len(refunds) + 1
        /\ \A i \in 1..Len(refunds) : refunds'[i] = refunds[i]
        /\ refunds'[Len(refunds) + 1] = b
    BY <2>2, <2>3, RefundsAre, AppendProperties
  <2>5. DOMAIN refunds' = 1..Len(refunds) + 1 /\ DOMAIN refunds = 1..Len(refunds) /\ Len(refunds) \in Nat
    BY <2>4, RefundsAre
  <2>6. /\ \A s : s # a.req => RecordedBy(s)' = RecordedBy(s)
        /\ RecordedBy(a.req)' # {}
    BY <2>2, <2>4, <2>5 DEF RecordedBy
  <2>7. /\ \A q \in Payments : q # a.of => Back(refunds', q) = Back(refunds, q)
        /\ Back(refunds', a.of) = Back(refunds, a.of) + given[a.req].amount
    <3>1. \A q : Back(refunds', q) = Back(refunds, q) + Counts(b, q) /\ Back(refunds, q) \in Nat
      BY <2>2, <2>3, RefundsAre, BackAppend
    <3>2. /\ \A q \in Payments : q # a.of => Counts(b, q) = 0
          /\ Counts(b, a.of) = given[a.req].amount
      BY <2>2 DEF Counts
    <3> QED BY <3>1, <3>2
  <2>8. dialog' \in {Nil} \cup Dialog /\ OneRequestEach'
    BY <1>3, HearingKeeps
  <2>9. Len(refunds') <= MaxRefunds
    BY <1>2, <2>4, <2>5 DEF RefundAssumption
  <2>10. RefundTypes'
    BY <1>1, <1>2, <2>3, <2>4, <2>8, <2>9 DEF RefundInv, RefundTypes
  <2>11. RequestsAreMade'
    BY <1>1, <1>2, <2>3 DEF RefundInv, RequestsAreMade
  <2>12. ASSUME NEW c \in asks', c.at # "sent"
         PROVE  c.of \in live /\ RecordedBy(c.req)' = {} /\ c.amount <= Refundable(c.of)'
    <3>1. c \in asks /\ c # a
      BY <1>1
    <3>2. c.of # a.of
      BY <1>1, <2>12, <3>1 DEF RefundInv, HeldByOne
    <3>3. c.of \in Payments /\ made[c.req].payment = c.of
      BY <3>1, AsksAre
    <3>4. c.req # a.req
      BY <1>4, <3>2, <3>3
    <3>5. Back(refunds', c.of) = Back(refunds, c.of)
      BY <2>7, <3>2, <3>3
    <3>6. Refundable(c.of)' = Refundable(c.of)
      BY <2>4, <3>5, RefundsAre, RefundableNext
    <3>7. c.of \in live /\ RecordedBy(c.req) = {} /\ c.amount <= Refundable(c.of)
      BY <2>12, <3>1 DEF RefundInv, HeldByOne
    <3> QED BY <2>6, <3>4, <3>6, <3>7
  <2>13. HeldByOne'
    BY <1>1, <1>2, <2>12 DEF RefundInv, HeldByOne
  <2>14. LedgerWithinPaid'
    <3>1. ASSUME NEW q \in Payments PROVE Back(refunds', q) <= IF q \in live THEN Amount ELSE 0
      <4>1. CASE q # a.of
        BY <2>7, <4>1, RefundsAre
      <4>2. CASE q = a.of
        <5>1. given[a.req].amount <= Refundable(a.of)
          BY <1>7 DEF Fits
        <5>2. Back(refunds, a.of) \in Nat /\ Amount \in Nat
              /\ Refundable(a.of) =
                   IF Back(refunds, a.of) <= Amount THEN Amount - Back(refunds, a.of) ELSE 0
          BY RefundsAre
        <5>3. Back(refunds', a.of) <= Amount
          BY <2>1, <2>7, <5>1, <5>2
        <5> QED BY <1>5, <4>2, <5>3
      <4> QED BY <4>1, <4>2
    <3> QED BY <1>2, <3>1, RefundedIs DEF LedgerWithinPaid
  <2>15. GivenIsKnown'
    BY <1>1, <1>2, <2>3, <2>6 DEF RefundInv, GivenIsKnown
  <2> QED BY <2>8, <2>10, <2>11, <2>13, <2>14, <2>15 DEF RefundInv
<1> QED BY <1>6, <1>7

(* Answers lost, refusals, and the server's death.                           *)
LEMMA EndingsKeep ==
  ASSUME RefundAssumption, RefundInv, PayPalUnheard \/ PayPalRefuses \/ ServerDies
  PROVE  RefundInv'
<1>1. mishap \in BOOLEAN
  BY DEF RefundInv, RefundTypes
<1>2. CASE PayPalUnheard
  <2>1. PICK a \in asks :
          /\ asks' = asks \ {a}
          /\ late' \in {late, late \cup {[req |-> a.req, of |-> a.of, amount |-> a.amount]}}
          /\ told' = told \cup {a.req}
          /\ dialog' = Hears(dialog, a.req, FALSE)
    BY <1>2 DEF PayPalUnheard
  <2>2. mishap' = TRUE /\ UNCHANGED <<live, refunds, given, made, openings>>
    BY <1>2 DEF PayPalUnheard
  <2>3. DialogHears
    BY <2>1, <2>2, HearsIs DEF DialogHears
  <2> QED BY <2>1, <2>2, <2>3, LettingGoKeeps
<1>3. CASE PayPalRefuses
  <2>1. PICK a \in asks :
          a.at = "refused" /\ asks' = asks \ {a} /\ dialog' = Hears(dialog, a.req, FALSE)
    BY <1>3 DEF PayPalRefuses
  <2>2. UNCHANGED <<live, refunds, given, late, made, openings, mishap, told>>
    BY <1>3 DEF PayPalRefuses
  <2>3. DialogHears
    BY <2>1, <2>2, HearsIs DEF DialogHears
  <2> QED BY <1>1, <2>1, <2>2, <2>3, LettingGoKeeps
<1>4. CASE ServerDies
  <2>1. PICK a \in asks : asks' = asks \ {a} /\ told' = told \cup {a.req}
    BY <1>4 DEF ServerDies
  <2>2. mishap' = TRUE /\ UNCHANGED <<live, refunds, given, late, made, dialog, openings>>
    BY <1>4 DEF ServerDies
  <2>3. DialogHears
    BY <2>2 DEF DialogHears
  <2> QED BY <2>1, <2>2, <2>3, LettingGoKeeps
<1> QED BY <1>2, <1>3, <1>4

-----------------------------------------------------------------------------
LEMMA RefundKept == RefundAssumption /\ RefundInv /\ [RefundNext]_refundVars => RefundInv'
<1> SUFFICES ASSUME RefundAssumption, RefundInv, [RefundNext]_refundVars PROVE RefundInv'
  OBVIOUS
<1>1. CASE OpenRefund
  BY <1>1, OpeningKeeps
<1>2. CASE AnswerNeverComes \/ Close
  BY <1>2, QuietKeeps
<1>3. CASE PressRefund
  BY <1>3, PressingKeeps
<1>4. CASE PressRecord \/ OtherRecords \/ EditRefund \/ DeleteRefund \/ RestoreRefund
  BY <1>4, HandSteps, HandKeeps
<1>5. CASE DeletePayment \/ RestorePayment
  BY <1>5, PaymentsKeep
<1>6. CASE StartRefund
  BY <1>6, StartKeeps
<1>7. CASE PayPalAnswers
  BY <1>7, AnswersKeep
<1>8. CASE PayPalActsLate
  BY <1>8, LateKeeps
<1>9. CASE RecordRefund
  BY <1>9, RecordKeeps
<1>10. CASE PayPalUnheard \/ PayPalRefuses \/ ServerDies
  BY <1>10, EndingsKeep
<1>11. CASE UNCHANGED refundVars
  <2>1. UNCHANGED <<live, refunds, given, late, asks, made, dialog, openings, mishap, told>>
    BY <1>11 DEF refundVars
  <2>2. RefundTypes' /\ OneRequestEach' /\ RequestsAreMade'
    BY <2>1 DEF RefundInv, RefundTypes, OneRequestEach, RequestsAreMade
  <2>3. HeldByOne' /\ LedgerWithinPaid' /\ GivenIsKnown'
    BY <2>1, SameRefunds DEF RefundInv, HeldByOne, LedgerWithinPaid, GivenIsKnown
  <2> QED BY <2>2, <2>3 DEF RefundInv
<1> QED BY <1>1, <1>2, <1>3, <1>4, <1>5, <1>6, <1>7, <1>8, <1>9, <1>10, <1>11 DEF RefundNext

LEMMA RefundAlways == RefundSpec => []RefundInv
<1>1. RefundInit => RefundInv
  BY RefundAssumption, RefundStarts
<1>2. RefundInv /\ [RefundNext]_refundVars => RefundInv'
  BY RefundAssumption, RefundKept
<1> QED BY <1>1, <1>2, PTL DEF RefundSpec

\* The refunds recorded, the dialog and its requests, what PayPal gave and what is on its
\* way keep their types.
THEOREM RefundTypeCorrect == RefundSpec => []RefundsTypeOK
<1>1. RefundInv => RefundsTypeOK
  BY TypesAre DEF RefundInv
<1> QED BY <1>1, RefundAlways, PTL

\* Whatever is lost, retried or done by others, for any number of dialogs, requests and
\* payments: a dialog's refund of a payment moves its money once, the ledger never gives
\* back more of a payment than was paid nor of one deleted, and what PayPal gave back is
\* recorded, in hand or told of (RefundModal.tsx, invoices.py).
THEOREM RefundsAlwaysFit == RefundSpec => []RefundsFit
<1>1. RefundInv => DialogRefundsOnce
  BY DEF RefundInv, OneRequestEach, DialogRefundsOnce
<1>2. RefundInv => RefundsFit
  BY <1>1 DEF RefundInv, RefundsFit
<1> QED BY <1>2, RefundAlways, PTL
=============================================================================
