------------------------------- MODULE Draft -------------------------------
(***************************************************************************)
(* What an auction promises its captains: every team starts with the same  *)
(* purse; a player belongs to at most one team and joins it either for a   *)
(* price the team can pay, or for nothing; a player who is released gives  *)
(* the price back; and everything may start over.                          *)
(***************************************************************************)
EXTENDS Integers

CONSTANTS Captain, Player, Purse, None

VARIABLES
  team,   \* the captain of each player, None for a free player
  price,  \* what the team paid
  purse   \* what each captain has left

draftVars == <<team, price, purse>>

Init ==
  /\ team = [p \in Player |-> None]
  /\ price = [p \in Player |-> 0]
  /\ purse = [c \in Captain |-> Purse]

Joins(p, c, amt) ==
  /\ team[p] = None
  /\ team' = [team EXCEPT ![p] = c]
  /\ price' = [price EXCEPT ![p] = amt]

Sell(p, c, amt) ==
  /\ amt \in 1..purse[c]
  /\ Joins(p, c, amt)
  /\ purse' = [purse EXCEPT ![c] = @ - amt]

Give(p, c) == Joins(p, c, 0) /\ UNCHANGED purse

Release(p) ==
  /\ team[p] # None
  /\ team' = [team EXCEPT ![p] = None]
  /\ price' = [price EXCEPT ![p] = 0]
  /\ purse' = [purse EXCEPT ![team[p]] = @ + price[p]]

Restart ==
  /\ team' = [p \in Player |-> None]
  /\ price' = [p \in Player |-> 0]
  /\ purse' = [c \in Captain |-> Purse]

Next ==
  \/ \E p \in Player : Release(p)
  \/ \E p \in Player, c \in Captain :
       \/ Give(p, c)
       \/ \E amt \in 1..Purse : Sell(p, c, amt)
  \/ Restart

Spec == Init /\ [][Next]_draftVars
=============================================================================
