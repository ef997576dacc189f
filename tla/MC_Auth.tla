------------------------------- MODULE MC_Auth -------------------------------
(* Two processes, one with a terminal, and one workspace. *)
EXTENDS AuthInv, TLC

CONSTANTS p1, p2

MCRuns == (p1 :> {"login"}) @@ (p2 :> {"api"})

\* Once the stored login is lost, what runs ends and nothing starts.
UntilDisturbed ==
  disturbed => /\ \E p \in Proc : pc[p] # "off"
               /\ \A p, q \in Proc : pc[p] # "off" /\ pc[q] # "off" => p = q
=============================================================================
