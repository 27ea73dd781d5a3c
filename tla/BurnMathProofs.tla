--------------------------- MODULE BurnMathProofs -----------------------------
(***************************************************************************)
(* The split of the tokens, for every width of u64 and every argument that  *)
(* fits one: what MCBurnMath checks up to a bound is proved for all.        *)
(***************************************************************************)
EXTENDS MCBurnMath, TLAPS

USE WordAssumption, BoundAssumption

-----------------------------------------------------------------------------
(* Division and the conversion to u64 *)

(* A quotient is the largest number that fits.                              *)
LEMMA Quotient ==
  ASSUME NEW a \in Nat, NEW b \in Nat \ {0}
  PROVE  /\ a \div b \in Nat
         /\ (a \div b) * b <= a
         /\ a < (a \div b) * b + b
OBVIOUS

(* The conversion keeps what fits, and never yields more than fits or than  *)
(* it was given.                                                            *)
LEMMA Narrowed ==
  ASSUME NEW n \in Nat
  PROVE  /\ AsU64(n) \in U64
         /\ n < Word => AsU64(n) = n
         /\ AsU64(n) <= n
BY DEF AsU64, U64

(* The product of two u64s fits a u128, and so does its quotient: no        *)
(* checked_mul and no checked_div of math.rs can fail once the require!s    *)
(* have passed, so the model needs no guard for them.                       *)
THEOREM ProductsFitU128 ==
  ASSUME NEW a \in U64, NEW b \in U64, NEW d \in U64 \ {0}
  PROVE  /\ a * b \in 0 .. (Word * Word - 1)
         /\ (a * b) \div d \in 0 .. (Word * Word - 1)
<1>1. /\ a \in Nat /\ b \in Nat /\ d \in Nat \ {0}
      /\ a <= Word - 1 /\ b <= Word - 1 /\ Word \in Nat \ {0}
  BY DEF U64
<1>2. a * b \in Nat
  BY <1>1
<1>3. a * b <= Word * Word - 1
  <2>1. a * b <= (Word - 1) * b
    BY <1>1
  <2>2. (Word - 1) * b <= (Word - 1) * (Word - 1)
    BY <1>1
  <2>3. (Word - 1) * (Word - 1) <= Word * Word - 1
    BY <1>1
  <2>4. (Word - 1) * b \in Int /\ (Word - 1) * (Word - 1) \in Int /\ Word * Word \in Int
    BY <1>1
  <2> QED BY <1>2, <2>1, <2>2, <2>3, <2>4
<1>4. (a * b) \div d \in Nat /\ (a * b) \div d <= a * b
  <2> DEFINE q == (a * b) \div d
  <2>1. q \in Nat /\ q * d <= a * b
    BY <1>1, <1>2, Quotient
  <2> HIDE DEF q
  <2>2. q <= q * d /\ q * d \in Nat
    BY <1>1, <2>1
  <2>3. q <= a * b
    BY <1>2, <2>1, <2>2
  <2> QED BY <2>1, <2>3 DEF q
<1> DEFINE p == a * b
           q == p \div d
           top == Word * Word - 1
<1>5. p \in Nat /\ q \in Nat /\ q <= p /\ p <= top /\ top \in Int
  BY <1>1, <1>2, <1>3, <1>4
<1> HIDE DEF p, q, top
<1>6. p \in 0 .. top /\ q \in 0 .. top
  BY <1>5
<1> QED BY <1>6 DEF p, q, top

-----------------------------------------------------------------------------
(* Inputs *)

(* What Init lets the arguments be.                                         *)
Input ==
  /\ total \in Nat \ {0} /\ bought \in Nat \ {0} /\ vquote \in Nat \ {0}
  /\ vtok \in Nat /\ stake \in Nat
  /\ bought < Word /\ stake <= total

(* They stay as Init chose them.                                            *)
LEMMA InputHolds == Spec => []Input
<1>1. Init => Input
  BY DEF Init, Input, Arguments, DistributableDefined, U64
<1>2. Input /\ [Next]_vars => Input'
  BY DEF Input, Next, vars
<1> QED
  BY <1>1, <1>2, PTL DEF Spec

(* The worth of the raise is a natural, though it may not fit a u64.        *)
LEMMA WorthIsNat == ASSUME Input PROVE MarketWorth(total, vtok, vquote) \in Nat
<1>1. total * vtok \in Nat /\ vquote \in Nat \ {0}
  BY DEF Input
<1> QED
  BY <1>1, Quotient DEF MarketWorth

(* No more is shared than was bought, so the share fits a u64.              *)
LEMMA SharedFits == ASSUME Input PROVE shared \in 0 .. bought
<1> DEFINE worth == AsU64(MarketWorth(total, vtok, vquote))
<1>1. worth \in Nat
  BY WorthIsNat, Narrowed DEF U64
<1> HIDE DEF worth
<1>2. shared = IF worth > bought THEN bought ELSE worth
  BY DEF shared, Distributable, worth
<1> QED
  BY <1>1, <1>2 DEF Input

(* Within the total an allocation is the quotient, which fits: the          *)
(* conversion of the program cuts nothing off.                              *)
LEMMA AllocationFits ==
  ASSUME Input, NEW part \in 0 .. total
  PROVE  LET q == TsAllocation(shared, part, total)
         IN  /\ Allocation(shared, part, total) = q
             /\ q \in Nat /\ q * total <= shared * part
             /\ shared * part < q * total + total
<1> DEFINE product == shared * part
           q == product \div total
<1>1. shared \in Nat /\ shared < Word /\ total \in Nat \ {0} /\ part \in Nat /\ part <= total
  BY SharedFits DEF Input
<1>2. product \in Nat
  BY <1>1
<1>3. product <= shared * total
  BY <1>1
<1>4. q \in Nat /\ q * total <= product /\ product < q * total + total
  BY <1>1, <1>2, Quotient
<1>5. q < Word
  <2> HIDE DEF product, q
  <2> SUFFICES ASSUME shared + 1 <= q PROVE FALSE
    BY <1>1, <1>4
  <2>1. (shared + 1) * total <= q * total
    BY <1>1, <1>4
  <2>2. (shared + 1) * total = shared * total + total
    BY <1>1
  <2> QED
    BY <1>1, <1>2, <1>3, <1>4, <2>1, <2>2
<1>6. CASE part = 0 \/ shared = 0
  <2>1. product = 0
    BY <1>1, <1>6
  <2> QED
    BY <1>1, <1>6, <2>1 DEF Allocation, TsAllocation
<1>7. CASE ~(part = 0 \/ shared = 0)
  <2>1. TsAllocation(shared, part, total) = q
    BY <1>7 DEF TsAllocation
  <2>2. Allocation(shared, part, total) = q
    BY <1>4, <1>5, <1>7, Narrowed DEF Allocation
  <2> QED
    BY <1>4, <2>1, <2>2
<1> QED
  BY <1>6, <1>7

(* So it differs from the exact part by less than one unit.                 *)
LEMMA AllocationIsQuotient ==
  ASSUME Input, NEW part \in 0 .. total
  PROVE  LET q == Allocation(shared, part, total)
         IN  q \in Nat /\ q * total <= shared * part /\ shared * part < q * total + total
BY AllocationFits

-----------------------------------------------------------------------------
(* The theorems *)

(* math.rs: what the contributors share is worth no more than their         *)
(* lamports at the price of the curve, whatever the conversion cut off, and *)
(* all of it but a fraction of a unit where it cut off nothing and the cap  *)
(* is not reached; the rest is burned.                                      *)
THEOREM DustFavorsBurnCorrect == Spec => []DustFavorsBurn
<1>1. Input => DustFavorsBurn
  <2> SUFFICES ASSUME Input PROVE DustFavorsBurn
    OBVIOUS
  <2> DEFINE worth == MarketWorth(total, vtok, vquote)
             value == total * vtok
             kept == AsU64(worth)
  <2>1. worth \in Nat /\ kept \in Nat /\ kept <= worth
    BY WorthIsNat, Narrowed DEF U64
  <2>2. value \in Nat /\ vquote \in Nat \ {0} /\ bought \in Nat
    BY DEF Input
  <2>3. worth * vquote <= value /\ value < worth * vquote + vquote
    BY <2>2, Quotient DEF MarketWorth
  <2>4. shared = IF kept > bought THEN bought ELSE kept
    BY DEF shared, Distributable
  <2>5. burned = bought - shared
    BY DEF burned, Burned, shared
  <2>6. worth \in U64 => kept = worth
    BY <2>1, Narrowed DEF U64
  <2> HIDE DEF worth, value, kept
  <2>7. shared \in Nat /\ shared <= worth
    BY <2>1, <2>2, <2>4
  <2>8. shared * vquote <= worth * vquote
    BY <2>1, <2>2, <2>7
  <2>9. shared * vquote <= value
    BY <2>1, <2>2, <2>3, <2>7, <2>8
  <2>10. ASSUME worth \in U64, burned > 0
         PROVE  (shared + 1) * vquote > value
    <3>1. shared = worth
      BY <2>1, <2>2, <2>4, <2>5, <2>6, <2>10
    <3>2. (worth + 1) * vquote = worth * vquote + vquote
      BY <2>1, <2>2
    <3> QED
      BY <2>2, <2>3, <3>1, <3>2
  <2>11. shared + burned = bought
    BY <2>2, <2>5, <2>7
  <2> QED
    BY <2>9, <2>10, <2>11 DEF value, worth, DustFavorsBurn
<1> QED
  BY InputHolds, <1>1, PTL

(* math.rs, allocation: a stake spread over accounts is worth no more than  *)
(* in one, and at most one unit less.                                       *)
THEOREM SplittingNeverGainsCorrect == Spec => []SplittingNeverGains
<1>1. Input => SplittingNeverGains
  <2> SUFFICES ASSUME Input, NEW part \in 0 .. stake
               PROVE  LET apart == Allocation(shared, part, total)
                                     + Allocation(shared, stake - part, total)
                      IN  /\ apart <= Allocation(shared, stake, total)
                          /\ Allocation(shared, stake, total) <= apart + 1
    BY DEF SplittingNeverGains
  <2> DEFINE rest == stake - part
             x == Allocation(shared, part, total)
             y == Allocation(shared, rest, total)
             z == Allocation(shared, stake, total)
  <2>1. /\ part \in 0 .. total /\ rest \in 0 .. total /\ stake \in 0 .. total
        /\ rest + part = stake /\ total \in Nat \ {0} /\ shared \in Nat
    BY SharedFits DEF Input
  <2>2. /\ x \in Nat /\ x * total <= shared * part /\ shared * part < x * total + total
        /\ y \in Nat /\ y * total <= shared * rest /\ shared * rest < y * total + total
        /\ z \in Nat /\ z * total <= shared * stake /\ shared * stake < z * total + total
    BY <2>1, AllocationIsQuotient
  <2> HIDE DEF x, y, z, rest
  <2>3. shared * stake = shared * part + shared * rest
    BY <2>1
  <2>4. ~(z + 1 <= x + y)
    <3> SUFFICES ASSUME z + 1 <= x + y PROVE FALSE
      OBVIOUS
    <3>1. (z + 1) * total <= (x + y) * total
      BY <2>1, <2>2
    <3>2. (z + 1) * total = z * total + total /\ (x + y) * total = x * total + y * total
      BY <2>1, <2>2
    <3> QED
      BY <2>1, <2>2, <2>3, <3>1, <3>2
  <2>5. ~(x + y + 2 <= z)
    <3> SUFFICES ASSUME x + y + 2 <= z PROVE FALSE
      OBVIOUS
    <3>1. (x + y + 2) * total <= z * total
      BY <2>1, <2>2
    <3>2. (x + y + 2) * total = x * total + y * total + total + total
      BY <2>1, <2>2
    <3> QED
      BY <2>1, <2>2, <2>3, <3>1, <3>2
  <2> QED
    BY <2>2, <2>4, <2>5 DEF x, y, z, rest
<1> QED
  BY InputHolds, <1>1, PTL

(* math.rs, allocation: the whole stake is worth the whole share, so dust   *)
(* stays in the vault only where stakes are apart.                          *)
THEOREM WholeStakeIsWholeShareCorrect == Spec => []WholeStakeIsWholeShare
<1>1. Input => WholeStakeIsWholeShare
  <2> SUFFICES ASSUME Input PROVE Allocation(shared, total, total) = shared
    BY DEF WholeStakeIsWholeShare
  <2> DEFINE q == Allocation(shared, total, total)
  <2>1. total \in 0 .. total /\ total \in Nat \ {0} /\ shared \in Nat
    BY SharedFits DEF Input
  <2>2. q \in Nat /\ q * total <= shared * total /\ shared * total < q * total + total
    BY <2>1, AllocationIsQuotient
  <2> HIDE DEF q
  <2>3. ~(shared + 1 <= q)
    <3> SUFFICES ASSUME shared + 1 <= q PROVE FALSE
      OBVIOUS
    <3>1. (shared + 1) * total <= q * total /\ (shared + 1) * total = shared * total + total
      BY <2>1, <2>2
    <3> QED
      BY <2>1, <2>2, <3>1
  <2>4. ~(q + 1 <= shared)
    <3> SUFFICES ASSUME q + 1 <= shared PROVE FALSE
      OBVIOUS
    <3>1. (q + 1) * total <= shared * total /\ (q + 1) * total = q * total + total
      BY <2>1, <2>2
    <3> QED
      BY <2>1, <2>2, <3>1
  <2> QED
    BY <2>1, <2>2, <2>3, <2>4 DEF q
<1> QED
  BY InputHolds, <1>1, PTL

(* burn.ts: the mirror says what the program does as long as the worth of   *)
(* the raise fits a u64, and promises too much, never too little, beyond.   *)
THEOREM MirrorErrsOneWayCorrect == Spec => []MirrorErrsOneWay
<1>1. Input => MirrorErrsOneWay
  <2> SUFFICES ASSUME Input PROVE MirrorErrsOneWay
    OBVIOUS
  <2> DEFINE worth == MarketWorth(total, vtok, vquote)
             ts == TsDistributable(total, bought, vtok, vquote)
  <2>1. worth \in Nat /\ bought \in Nat /\ bought < Word /\ stake \in 0 .. total
    BY WorthIsNat DEF Input
  <2>2. ts = IF worth > bought THEN bought ELSE worth
    BY DEF TsDistributable
  <2>3. shared = IF AsU64(worth) > bought THEN bought ELSE AsU64(worth)
    BY DEF shared, Distributable
  <2> HIDE DEF worth, ts
  <2>4. worth \in U64 => AsU64(worth) = worth
    BY <2>1, Narrowed DEF U64
  <2>5. AsU64(worth) \in Nat /\ (worth < Word => AsU64(worth) = worth)
    BY <2>1, Narrowed DEF U64
  <2>6. shared <= ts
    BY <2>1, <2>2, <2>3, <2>5
  <2>7. TsAllocation(shared, stake, total) = Allocation(shared, stake, total)
    BY <2>1, AllocationFits
  <2> QED
    BY <2>2, <2>3, <2>4, <2>6, <2>7 DEF MirrorErrsOneWay, worth, ts
<1> QED
  BY InputHolds, <1>1, PTL
=============================================================================
