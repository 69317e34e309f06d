------------------------------ MODULE MCFakeIP ------------------------------
(* A small instance of FakeIP for TLC: one range with two addresses. *)
EXTENDS FakeIP

OneRange == {<<1, 2>>}
=============================================================================
