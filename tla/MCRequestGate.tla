--------------------------- MODULE MCRequestGate ---------------------------
(* Two threads and one token, which is a development token, a signed one    *)
(* that expires or one of the account service's, as the server is           *)
(* configured; the service may name the other account for it.  The policy   *)
(* file changes once under the threads.                                     *)
EXTENDS RequestGate, TLC

CONSTANTS h1, h2, token, alice, bob

MCAccount  == token :> alice
MCExpiry   == token :> 0
MCConfigurations == {{"dev", "secret"}, {"secret", "service"}}
MCSymmetry == Permutations({h1, h2})
=============================================================================
