---------------------------- MODULE WinnerLedger ----------------------------
(***************************************************************************)
(* What the raffles promise the members, whatever requests overlap and     *)
(* whichever statement of a handler fails: a member is first offered a     *)
(* prize, an offer may be withdrawn until it is confirmed, and a confirmed *)
(* prize is settled for good: it is neither withdrawn nor offered again.   *)
(***************************************************************************)
CONSTANTS Raffles, Members

VARIABLES
  offered,  \* members with an unconfirmed win, by raffle
  settled   \* members with a confirmed win, by raffle

Init ==
  /\ offered = [r \in Raffles |-> {}]
  /\ settled = [r \in Raffles |-> {}]

Offer(r, W) ==
  /\ W \cap (offered[r] \cup settled[r]) = {}
  /\ offered' = [offered EXCEPT ![r] = @ \cup W]
  /\ UNCHANGED settled

Withdraw(r) ==
  /\ offered' = [offered EXCEPT ![r] = {}]
  /\ UNCHANGED settled

Settle(r, m) ==
  /\ m \in offered[r]
  /\ offered' = [offered EXCEPT ![r] = @ \ {m}]
  /\ settled' = [settled EXCEPT ![r] = @ \cup {m}]

Next ==
  \E r \in Raffles :
    \/ \E W \in SUBSET Members : Offer(r, W)
    \/ Withdraw(r)
    \/ \E m \in Members : Settle(r, m)

Spec == Init /\ [][Next]_<<offered, settled>>
=============================================================================
