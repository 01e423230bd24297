---------------------------- MODULE OtpChallenge ----------------------------
(***************************************************************************)
(* What a one-time password promises, with neither Redis nor a database:   *)
(* a challenge takes at most MaxAttempts wrong codes, is disposed of once, *)
(* by a rejection or by a right code that came before the cap, and then is *)
(* exchanged at most once, and only if it was accepted.                    *)
(***************************************************************************)
EXTENDS Naturals

CONSTANTS Challenges, MaxAttempts

VARIABLES fate, wrong, grants

vars == <<fate, wrong, grants>>

Init ==
  /\ fate = [c \in Challenges |-> "open"]
  /\ wrong = [c \in Challenges |-> 0]
  /\ grants = [c \in Challenges |-> 0]

Wrong(c) ==
  /\ fate[c] = "open"
  /\ wrong[c] < MaxAttempts
  /\ wrong' = [wrong EXCEPT ![c] = @ + 1]
  /\ UNCHANGED <<fate, grants>>

Reject(c) ==
  /\ fate[c] = "open"
  /\ fate' = [fate EXCEPT ![c] = "rejected"]
  /\ UNCHANGED <<wrong, grants>>

Accept(c) ==
  /\ fate[c] = "open"
  /\ wrong[c] < MaxAttempts
  /\ fate' = [fate EXCEPT ![c] = "accepted"]
  /\ UNCHANGED <<wrong, grants>>

Grant(c) ==
  /\ fate[c] = "accepted"
  /\ grants[c] = 0
  /\ grants' = [grants EXCEPT ![c] = 1]
  /\ UNCHANGED <<fate, wrong>>

Next == \E c \in Challenges : Wrong(c) \/ Reject(c) \/ Accept(c) \/ Grant(c)

Spec == Init /\ [][Next]_vars
=============================================================================
