-------------------------------- MODULE Grant ---------------------------------
(***************************************************************************)
(* What granting a voucher promises: each request waits until it gives its *)
(* user the voucher, finds that he has it, or is refused; a user gets one  *)
(* voucher and no more vouchers are given than there are.                  *)
(* VoucherGrant implements it, TaskReward is built on it.                  *)
(***************************************************************************)
EXTENDS Integers

CONSTANTS
  Users, Requests,
  Owner,          \* the user of each request
  Stock,          \* the vouchers there are
  OldHolders      \* users who have the voucher from earlier

VARIABLES
  fate,           \* of each request
  holders,        \* the users who have the voucher
  left            \* the vouchers left

vars == <<fate, holders, left>>

Init ==
  /\ fate = [r \in Requests |-> "none"]
  /\ holders = OldHolders
  /\ left = Stock

Request(r) ==
  /\ fate[r] = "none"
  /\ fate' = [fate EXCEPT ![r] = "waiting"]
  /\ UNCHANGED <<holders, left>>

Give(r) ==
  /\ fate[r] = "waiting"
  /\ Owner[r] \notin holders /\ left > 0
  /\ fate' = [fate EXCEPT ![r] = "granted"]
  /\ holders' = holders \cup {Owner[r]}
  /\ left' = left - 1

\* A request of a user who has the voucher succeeds, even one that was refused.
Own(r) ==
  /\ fate[r] # "none"
  /\ Owner[r] \in holders
  /\ fate' = [fate EXCEPT ![r] = "granted"]
  /\ UNCHANGED <<holders, left>>

Refuse(r) ==
  /\ fate[r] \in {"waiting", "refused"}
  /\ fate' = [fate EXCEPT ![r] = "refused"]
  /\ UNCHANGED <<holders, left>>

Next == \E r \in Requests : Request(r) \/ Give(r) \/ Own(r) \/ Refuse(r)

Spec == Init /\ [][Next]_vars
===============================================================================
