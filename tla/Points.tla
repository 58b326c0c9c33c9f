------------------------------- MODULE Points -------------------------------
(***************************************************************************)
(* What the loyalty service promises as a whole: the ledger of rewards,    *)
(* and points that are spent out of what the ledger paid.                  *)
(***************************************************************************)
EXTENDS Integers

CONSTANTS
  User,
  Number,
  Reward,   \* the amounts a claim may be paid, in kopecks
  NoUser    \* the owner of a number nobody claimed

VARIABLES
  owner, phase, reward, account,   \* the ledger
  spent                            \* all that a user ever spent

L == INSTANCE Ledger

vars == <<owner, phase, reward, account, spent>>

Init == L!Init /\ spent = [u \in User |-> 0]

Book == L!Next /\ UNCHANGED spent

Spend(u) ==
  /\ \E k \in 0..(account[u] - spent[u]) : spent' = [spent EXCEPT ![u] = @ + k]
  /\ UNCHANGED L!vars

Next == Book \/ \E u \in User : Spend(u)

Spec == Init /\ [][Next]_vars
=============================================================================
