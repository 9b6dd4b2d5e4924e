--------------------------- MODULE RenewWindowProofs ---------------------------
(***************************************************************************)
(* The coarse scan of a renewal pass loses no certificate that is due, for *)
(* any fraction, window and longest lifetime.                              *)
(***************************************************************************)
EXTENDS RenewWindow, TLAPS

\* Division by a positive number, as multiplication.
LEMMA DivFacts ==
    ASSUME NEW a \in Nat, NEW n \in Nat, n > 0
    PROVE  /\ a \div n \in Nat
           /\ (a \div n) * n <= a
           /\ a < (a \div n) * n + n
  OBVIOUS

\* Division keeps the order.
LEMMA DivMonotone ==
    ASSUME NEW a \in Nat, NEW b \in Nat, NEW n \in Nat, n > 0, a <= b
    PROVE  a \div n <= b \div n
<1> DEFINE x == a \div n
           y == b \div n
<1>1. x \in Nat /\ y \in Nat /\ x * n <= a /\ b < y * n + n
  BY DivFacts
<1> HIDE DEF x, y
<1>2. x * n < (y + 1) * n
  BY <1>1
<1>3. x < y + 1
  BY <1>1, <1>2
<1> QED
  BY <1>1, <1>3 DEF x, y

\* A fraction of a lifetime is no longer than the lifetime.
LEMMA FractionBound ==
    ASSUME NEW a \in Nat
    PROVE  (a * Num) \div Den <= a
<1>1. a * Num <= a * Den /\ a * Num \in Nat /\ a * Den \in Nat
  BY ConfigAssumption
<1>2. (a * Num) \div Den <= (a * Den) \div Den
  BY <1>1, ConfigAssumption, DivMonotone
<1>3. (a * Den) \div Den = a
  BY ConfigAssumption
<1> QED
  BY <1>1, <1>2, <1>3

\* maxWindow bounds the window of every certificate the service can have
\* issued: "an upper bound on window(cert)" (maxWindow).
THEOREM WindowBound ==
    ASSUME NEW ttl \in Int, ttl <= MaxTTL
    PROVE  window(ttl) <= maxWindow
<1>0. /\ Long <= maxWindow /\ maxWindow \in Nat
      /\ (MaxTTL * (Den - Num)) \div Den <= maxWindow
  BY ConfigAssumption DEF maxWindow, AtLeastLong
<1>1. CASE ttl <= 0
  BY <1>0, <1>1 DEF window
<1>2. CASE ttl > 0 /\ ttl <= Long
  BY <1>0, <1>2, FractionBound, ConfigAssumption DEF window
<1>3. CASE ttl > 0 /\ ttl > Long
  <2>1. ttl * (Den - Num) <= MaxTTL * (Den - Num)
    BY <1>3, ConfigAssumption
  <2>2. (ttl * (Den - Num)) \div Den <= (MaxTTL * (Den - Num)) \div Den
    BY <1>3, <2>1, ConfigAssumption, DivMonotone
  <2> QED BY <1>0, <1>3, <2>2, ConfigAssumption DEF window, AtLeastLong
<1> QED
  BY <1>1, <1>2, <1>3, ConfigAssumption

\* No certificate that is due, unexpired and of a lifetime the service issues
\* is missed by the scan of RunOnce.
THEOREM ScanComplete == \A ttl \in Int, left \in Int : ScanReaches(left, ttl)
<1> SUFFICES ASSUME NEW ttl \in Int, NEW left \in Int, ttl <= MaxTTL, left > 0,
                    Due(left, ttl)
             PROVE  Scanned(left)
  BY DEF ScanReaches
<1>1. window(ttl) <= maxWindow
  BY WindowBound
<1>2. window(ttl) \in Int /\ maxWindow \in Int
  BY ConfigAssumption DEF window, maxWindow, AtLeastLong
<1> QED
  BY <1>1, <1>2 DEF Due, Scanned

===============================================================================
