------------------------------ MODULE RenewWindow ------------------------------
(***************************************************************************)
(* The two-level filter of a renewal pass (internal/renew): the store scan *)
(* selects the certificates that expire within maxWindow, and Due applies  *)
(* each certificate's own window to what the scan returned.                *)
(*                                                                         *)
(* Durations are integers.  ShortLivedFraction is Num / Den, and the       *)
(* conversion of a product back to a Duration rounds towards zero.         *)
(***************************************************************************)
EXTENDS Integers

CONSTANTS
    Num, Den,  \* renew.Config.ShortLivedFraction
    Long,      \* renew.Config.LongLivedWindow
    MaxTTL     \* issue.MaxValiditySeconds

\* NewScheduler replaces a fraction outside (0, 1) and a window that is not
\* positive by defaults.
ASSUME ConfigAssumption ==
    /\ Num \in Nat \ {0} /\ Den \in Nat /\ Num < Den
    /\ Long \in Nat \ {0}
    /\ MaxTTL \in Nat \ {0}

AtLeastLong(w) == IF Long > w THEN Long ELSE w

\* How long before expiry a certificate with lifetime ttl is renewed.
window(ttl) ==
    IF ttl <= 0 THEN Long
    ELSE IF ttl <= Long THEN (ttl * Num) \div Den
    ELSE AtLeastLong((ttl * (Den - Num)) \div Den)

\* left is what remains until expiry.
Due(left, ttl) == left <= window(ttl)

maxWindow == AtLeastLong((MaxTTL * (Den - Num)) \div Den)

\* The scan's bounds on not_after.
Scanned(left) == left > 0 /\ left <= maxWindow

\* "so a DueForRenewal scan up to now+maxWindow never misses a due
\* certificate" (maxWindow), for lifetimes up to the longest the service
\* issues itself.
ScanReaches(left, ttl) ==
    (ttl <= MaxTTL /\ left > 0 /\ Due(left, ttl)) => Scanned(left)

===============================================================================
