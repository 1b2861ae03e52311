------------------------------ MODULE EscrowMC ------------------------------
(* Small instances of Escrow.                                              *)
EXTENDS Escrow

CONSTANTS buyer, provider, zero, escrow, hash1, nohash, resolver

term(nonce, amount, acceptBy, completeBy, reviewPeriod) ==
  [nonce |-> nonce, buyer |-> buyer, provider |-> provider, providerOwner |-> provider,
   amount |-> amount, acceptBy |-> acceptBy, completeBy |-> completeBy,
   reviewPeriod |-> reviewPeriod]

\* Overlapping payments of 1 and 2 units that one day's budget, or two, may cover; the
\* second one's review period is the largest uint64: submitting its result overflows.
\* The third one's provider is also its buyer.
MCTerms == { term(1, 1, 2, 3, 1), term(2, 2, 2, 3, 9),
             [term(3, 1, 2, 4, 1) EXCEPT !.provider = buyer, !.providerOwner = provider] }

policy(expiresAt, perTransaction, perDay) ==
  [enabled |-> TRUE, expiresAt |-> expiresAt,
   perTransaction |-> perTransaction, perDay |-> perDay]

SessionPolicies == { policy(4, 1, 1), policy(5, 2, 2) }
==============================================================================
