--------------------------- MODULE EscrowLifecycle ---------------------------
(***************************************************************************)
(* What every record of a paid invocation promises: a payment moves        *)
(* forward along one graph and is settled at most once, to the provider    *)
(* (RELEASED) or to the buyer (REFUNDED).  The graph is the one the        *)
(* database enforces on paid_invocations (UNFUNDED is the contract's name  *)
(* of the database's 'payment_required').  The contract (Escrow)           *)
(* implements it; Projection takes from it what the log may contain.       *)
(***************************************************************************)

CONSTANT Ids          \* payments

VARIABLE phase        \* phase[id]: where payment id stands

Successors == [ UNFUNDED  |-> {"FUNDED"},
                FUNDED    |-> {"ACCEPTED", "REFUNDED"},
                ACCEPTED  |-> {"SUBMITTED", "REFUNDED"},
                SUBMITTED |-> {"RELEASED", "DISPUTED"},
                DISPUTED  |-> {"RELEASED", "REFUNDED"},
                RELEASED  |-> {},
                REFUNDED  |-> {} ]

------------------------------------------------------------------------------

Init == phase = [id \in Ids |-> "UNFUNDED"]

Move(id) == \E next \in Successors[phase[id]] :
              phase' = [phase EXCEPT ![id] = next]

Next == \E id \in Ids : Move(id)

Spec == Init /\ [][Next]_phase
==============================================================================
