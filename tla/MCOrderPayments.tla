-------------------------- MODULE MCOrderPayments --------------------------
(* OrderPayments.tla with two payments, one of a provider that is not      *)
(* asked, and two requests at a time.                                      *)
EXTENDS OrderPayments

CONSTANTS p1, p2, q1, q2

MCPayments == {p1, p2}
MCUnasked == {p1}
MCProcs == {q1, q2}
=============================================================================
