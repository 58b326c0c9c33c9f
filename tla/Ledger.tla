------------------------------- MODULE Ledger -------------------------------
(***************************************************************************)
(* What the accrual side of the loyalty service promises, without its      *)
(* database, its worker or the accrual system.  A number is claimed by one *)
(* user for good; an open claim is then either refused, or paid: once, in  *)
(* one step that fixes the reward and adds it to the claimant's account.   *)
(***************************************************************************)
EXTENDS Integers

CONSTANTS
  User,
  Number,
  Reward,   \* the amounts a claim may be paid, in kopecks
  NoUser    \* the owner of a number nobody claimed

VARIABLES
  owner,    \* who claimed a number
  phase,    \* how far the claim is
  reward,   \* what was paid for the number
  account   \* all that was ever paid to a user

vars == <<owner, phase, reward, account>>

Phase == {"absent", "open", "refused", "paid"}

Init ==
  /\ owner   = [n \in Number |-> NoUser]
  /\ phase   = [n \in Number |-> "absent"]
  /\ reward  = [n \in Number |-> 0]
  /\ account = [u \in User |-> 0]

Claim(n, u) ==
  /\ phase[n] = "absent"
  /\ phase' = [phase EXCEPT ![n] = "open"]
  /\ owner' = [owner EXCEPT ![n] = u]
  /\ UNCHANGED <<reward, account>>

Refuse(n) ==
  /\ phase[n] = "open"
  /\ phase' = [phase EXCEPT ![n] = "refused"]
  /\ UNCHANGED <<owner, reward, account>>

Pay(n, x) ==
  /\ phase[n] = "open"
  /\ phase'   = [phase EXCEPT ![n] = "paid"]
  /\ reward'  = [reward EXCEPT ![n] = x]
  /\ account' = [account EXCEPT ![owner[n]] = @ + x]
  /\ UNCHANGED owner

Next ==
  \E n \in Number :
    \/ \E u \in User : Claim(n, u)
    \/ Refuse(n)
    \/ \E x \in Reward : Pay(n, x)

Spec == Init /\ [][Next]_vars
=============================================================================
