-------------------------- MODULE MCDigestDelivery --------------------------
(* Small instances of DigestDelivery for TLC. *)
EXTENDS DigestDelivery, TLC

CONSTANTS r1, r2, d1, d2, m1, m2

Interchangeable == Permutations(Reqs) \cup Permutations(Mails)

=============================================================================
