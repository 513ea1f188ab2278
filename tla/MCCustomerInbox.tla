-------------------------- MODULE MCCustomerInbox --------------------------
(* Instances of CustomerInbox for TLC. *)
EXTENDS CustomerInbox, TLC

Interchangeable == Permutations(Window)

\* In one run there is an overlap, a reset, a crash or an exception, not several.
OneTrouble == overlaps + resets + crashes + raised <= 1
=============================================================================
