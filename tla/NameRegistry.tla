---------------------------- MODULE NameRegistry ----------------------------
(***************************************************************************)
(* What memeart promises about token ids, as a name registry: a name is   *)
(* held by at most one holder; it is claimed only while free, by the      *)
(* claimant for itself; a held name moves to another holder or is freed  *)
(* only in a call made by its holder.  Calls that touch no name (config,  *)
(* admin, metadata) only change who acted last.                           *)
(***************************************************************************)
CONSTANTS Names, Holders, Free, Nobody

VARIABLES holder,  \* name -> its holder, or Free
          actor    \* the account whose call was the last step, or Nobody

Init == holder = [n \in Names |-> Free] /\ actor = Nobody

Claim(n, u) ==
  /\ holder[n] = Free
  /\ holder' = [holder EXCEPT ![n] = u]
  /\ actor' = u

Move(n, u, v) ==
  /\ holder[n] = u
  /\ holder' = [holder EXCEPT ![n] = v]
  /\ actor' = u

Release(n, u) ==
  /\ holder[n] = u
  /\ holder' = [holder EXCEPT ![n] = Free]
  /\ actor' = u

Act(u) == UNCHANGED holder /\ actor' = u

Next == \E u \in Holders :
          \/ Act(u)
          \/ \E n \in Names : Claim(n, u) \/ Release(n, u)
          \/ \E n \in Names, v \in Holders : Move(n, u, v)

Spec == Init /\ [][Next]_<<holder, actor>>

=============================================================================
