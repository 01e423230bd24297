----------------------- MODULE AuthServiceSequential -----------------------
(***************************************************************************)
(* AuthService implements OtpChallenge when requests do not overlap: the   *)
(* runs give it one request at a time (with failures, lost answers and     *)
(* expiries between any two of its awaits).  With two requests it does     *)
(* not: see CapRespected, OneTimeUse and BurnIsFinal in AuthService.       *)
(***************************************************************************)
EXTENDS AuthService

Otp == INSTANCE OtpChallenge WITH wrong <- guesses

(* Every step of the service is a step of the one-time password, or none   *)
(* it can see.                                                             *)
ImplementsOtp == Otp!Spec
=============================================================================
