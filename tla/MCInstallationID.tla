---------------------------- MODULE MCInstallationID ----------------------------
(* Small instances of InstallationID for TLC. *)
EXTENDS InstallationID

Situation(map, deletions, faults, blindness) ==
    [cm |-> map, deletions |-> deletions, faults |-> faults, blindness |-> blindness]

Blank  == [id |-> Nil]
Legacy == [id |-> "legacy"]

(* A legacy id cannot be derived again once its ConfigMap is gone. *)
Sane ==
    {Situation(map, 1, 1, 0) : map \in {Nil, Blank, [id |-> "derived"]}}
        \cup {Situation(Legacy, 0, 1, 1)}
=============================================================================
