------------------------------- MODULE JobsMC -------------------------------
(* Jobs on one service of two agents and two jobs, the second of which is   *)
(* only ever requested or cancelled.                                        *)
EXTENDS Jobs, TLC

CONSTANTS alice, bob, svc, j1, j2

Ask(agent, op, key, target) == [agent |-> agent, op |-> op, key |-> key, target |-> target]
Offer(op, key, status, priced) ==
  [agent |-> alice, op |-> op, key |-> key, target |-> svc,
   offer |-> [status |-> status, priced |-> priced]]

\* alice sells and bob buys.  bob's second request would take the other job;
\* his cancellations share a key.
MCRequests ==
  {Offer("create", "k1", "active", FALSE), Offer("update", "k1", "paused", FALSE),
   Offer("update", "k2", "active", TRUE),
   Ask(bob, "request", "k1", svc), Ask(alice, "request", "k1", svc),
   Ask(alice, "accept", "k1", j1), Ask(alice, "start", "k1", j1),
   Ask(alice, "submit", "k1", j1), Ask(alice, "fail", "k1", j1),
   Ask(bob, "cancel", "k1", j1), Ask(bob, "cancel", "k1", j2)}

Symmetry == Permutations(Calls)
==============================================================================
