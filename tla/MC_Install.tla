----------------------------- MODULE MC_Install -----------------------------
(* Two clients of one package with two versions. *)
EXTENDS InstallInv, TLC

CONSTANTS c1, c2

MCPublished == <<1>>

Ask(k, v, n) == [kind |-> k, version |-> v, noAttach |-> n]

MCRequests ==
  (c1 :> {Ask("registry", None, FALSE), Ask("local", 2, TRUE)}) @@
  (c2 :> {Ask("registry", None, FALSE), Ask("uninstall", None, FALSE)})

\* Version 1 stays in the registry, and nothing happens once every run is over.
Stocked == /\ published \in {<<1>>, <<2, 1>>}
           /\ \E c \in Client : pc[c] # "done"
=============================================================================
