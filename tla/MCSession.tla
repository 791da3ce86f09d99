----------------------------- MODULE MCSession -----------------------------
(* Session for TLC: two accounts, so that one can follow another.          *)
EXTENDS Session
CONSTANTS alice, bob
MCUser == {alice, bob}
=============================================================================
