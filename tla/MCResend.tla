------------------------------ MODULE MCResend ------------------------------
(***************************************************************************)
(* The instances of Resend that TLC checks: the value tv of a tag, which   *)
(* newer commands replace (REM_DUP), and a create command cr, which they   *)
(* do not, and whose acknowledgment the server waits for.                  *)
(***************************************************************************)
EXTENDS Resend

CONSTANTS tv, cr

NoKeys    == {}
OnlyTv    == {tv}
OnlyCr    == {cr}
TvAndCr   == {tv, cr}
=============================================================================
