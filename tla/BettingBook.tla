---------------------------- MODULE BettingBook ----------------------------
(***************************************************************************)
(* What a betting market promises its members, whatever its formulas are:  *)
(* it takes contributions while it is open and from nobody afterwards; it  *)
(* ends once, by paying contributors no more than it took in all, or by    *)
(* giving each of them back exactly what they gave.                        *)
(***************************************************************************)
EXTENDS Integers, Functions

CONSTANTS
  Pot,    \* the books
  User    \* the members

VARIABLES
  phase,        \* "absent", "open", "closed", "paid" or "refunded"
  contributed,  \* what each member gave each book
  received      \* what each member got out of it

bookVars == <<phase, contributed, received>>

Init ==
  /\ phase = [k \in Pot |-> "absent"]
  /\ contributed = [k \in Pot |-> [u \in User |-> 0]]
  /\ received = [k \in Pot |-> [u \in User |-> 0]]

SetPhase(K, to) == phase' = [k \in Pot |-> IF k \in K THEN to ELSE phase[k]]

Open(k) ==
  /\ phase[k] = "absent" /\ SetPhase({k}, "open")
  /\ UNCHANGED <<contributed, received>>

Contribute(k, u) ==
  /\ phase[k] = "open"
  /\ contributed'[k][u] > contributed[k][u]
  /\ contributed' = [contributed EXCEPT ![k][u] = contributed'[k][u]]
  /\ UNCHANGED <<phase, received>>

Close(K) ==
  /\ \A k \in K : phase[k] = "open"
  /\ SetPhase(K, "closed")
  /\ UNCHANGED <<contributed, received>>

Paid(k) ==
  /\ SumFunctionOnSet(received'[k], User) <= SumFunctionOnSet(contributed[k], User)
  /\ \A u \in User : received'[k][u] >= 0 /\ (contributed[k][u] = 0 => received'[k][u] = 0)

Distribute(K) ==
  /\ \A k \in K : phase[k] = "closed" /\ Paid(k)
  /\ \A k \in Pot \ K : received'[k] = received[k]
  /\ SetPhase(K, "paid")
  /\ UNCHANGED contributed

GiveBack(K) ==
  /\ \A k \in K : phase[k] \in {"open", "closed"}
  /\ received' = [k \in Pot |-> IF k \in K THEN contributed[k] ELSE received[k]]
  /\ SetPhase(K, "refunded")
  /\ UNCHANGED contributed

Next ==
  \/ \E k \in Pot : Open(k) \/ \E u \in User : Contribute(k, u)
  \/ \E K \in SUBSET Pot : Close(K) \/ Distribute(K) \/ GiveBack(K)

Spec == Init /\ [][Next]_bookVars
=============================================================================
