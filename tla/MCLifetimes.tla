---------------------------- MODULE MCLifetimes ----------------------------
(* Lifetimes on a small instance, in half seconds: tickets that live for    *)
(* ever, for less than a second, and for two and a half.                    *)
EXTENDS Lifetimes

TicketTTLs == {0, 1, 5}
=============================================================================
