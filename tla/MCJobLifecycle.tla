--------------------------- MODULE MCJobLifecycle ---------------------------
(* JobLifecycle on small sets of jobs, accounts and requests. *)
EXTENDS JobLifecycle, TLC

(* No operator of the specification tells two requests, or two accounts, apart. *)
RequestSymmetry == Permutations(Handlers) \cup Permutations(Users)

=============================================================================
