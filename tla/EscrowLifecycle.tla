-------------------------- MODULE EscrowLifecycle --------------------------
(***************************************************************************)
(* What an escrow promises about one campaign's money, without saying how  *)
(* donors vote, who may call what, or where the tokens are kept:           *)
(*   - donations come in only while it is neither frozen nor settled;      *)
(*   - each release uses up one approval, given for one stage, and happens *)
(*     only while it is not frozen;                                        *)
(*   - it is settled at most once, and only while frozen;                  *)
(*   - nothing raised, spent or approved is ever taken back.               *)
(***************************************************************************)
EXTENDS Integers

CONSTANT Ids      \* the campaigns

VARIABLE escrow   \* one record per campaign

Account == [raised   : Nat,      \* donated so far
            spent    : Nat,      \* released so far
            stage    : Nat,      \* milestones released so far
            approved : BOOLEAN,  \* the next milestone may be released
            frozen   : BOOLEAN,  \* paused
            settled  : BOOLEAN]  \* clawed back

EmptyAccount == [raised |-> 0, spent |-> 0, stage |-> 0,
                 approved |-> FALSE, frozen |-> FALSE, settled |-> FALSE]

Init == escrow = [c \in Ids |-> EmptyAccount]

(* The steps of one account, from e to f. *)

Donate(e, f) ==
    /\ ~e.frozen /\ ~e.settled
    /\ f.raised > e.raised
    /\ f = [e EXCEPT !.raised = f.raised]

Approve(e, f) ==
    /\ ~e.frozen /\ ~e.approved
    /\ f = [e EXCEPT !.approved = TRUE]

Release(e, f) ==
    /\ ~e.frozen /\ e.approved
    /\ f.spent >= e.spent
    /\ f = [e EXCEPT !.spent = f.spent, !.stage = @ + 1, !.approved = FALSE]

Freeze(e, f) == f = [e EXCEPT !.frozen = TRUE]
Thaw(e, f)   == f = [e EXCEPT !.frozen = FALSE]

Settle(e, f) ==
    /\ e.frozen /\ ~e.settled
    /\ f = [e EXCEPT !.settled = TRUE]

AccountStep(e, f) ==
    \/ Donate(e, f)
    \/ Approve(e, f)
    \/ Release(e, f)
    \/ Freeze(e, f)
    \/ Thaw(e, f)
    \/ Settle(e, f)

Next == \E c \in Ids :
            /\ AccountStep(escrow[c], escrow'[c])
            /\ \A other \in Ids \ {c} : escrow'[other] = escrow[other]

Spec == Init /\ [][Next]_escrow
=============================================================================
