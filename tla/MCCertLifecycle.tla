---------------------------- MODULE MCCertLifecycle ----------------------------
EXTENDS CertLifecycle, RenewWindow, TLC

Symmetry == Permutations(Certs) \cup Permutations(Instances)
                                \cup Permutations(Callers)

\* The scan's bound (renew.go, maxWindow) on every lifetime the instance has.
ASSUME ScanReachesAll ==
    \A ttl \in -1..MaxTTL, left \in 1..(2 * MaxTTL) : ScanReaches(left, ttl)

===============================================================================
