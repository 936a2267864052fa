-------------------------- MODULE MCSessionController --------------------------
(* Small instances of SessionController for TLC. *)
EXTENDS SessionControllerWrites

Plain == [ replicas |-> Nil, image |-> "img", ide |-> "jupyterlab", auth |-> "none",
           home |-> Nil, scratch |-> Nil, host |-> Nil ]

(* everything optional but one claim; another claim size and port, no      *)
(* pods; a replica count that no Deployment can have                       *)
Full     == [ Plain EXCEPT !.auth = "oauth2proxy", !.home = "1Gi", !.host = "h" ]
Parked   == [ Plain EXCEPT !.replicas = 0, !.home = "2Gi", !.ide = "vscode" ]
NoPods   == [ Plain EXCEPT !.replicas = 0 ]
Refused  == [ Plain EXCEPT !.replicas = -1, !.home = "1Gi", !.scratch = "1Gi" ]

Bounds(create, edit, fault, readiness, drift, restart) ==
    [ create |-> create, edit |-> edit, fault |-> fault,
      readiness |-> readiness, drift |-> drift, restart |-> restart ]

(* Created twice, with a crash; edited, with a faulty call; among three    *)
(* specs; to no pods and back, while pods come and go; created once, with  *)
(* everything that can go wrong.                                           *)
Edits    == {"edits"}
Settles  == {"settles", "pods", "recover"}
Recreate == {"recreate"} \cup Settles

Specified ==
    [ recreate |-> {Full},
      edits    |-> {Full, [Parked EXCEPT !.home = Nil]},
      settles  |-> {Plain, Parked, Refused},
      pods     |-> {Plain, NoPods},
      recover  |-> {Plain} ]

Bounded ==
    [ recreate |-> Bounds(2, 0, 0, 0, 0, 1),
      edits    |-> Bounds(1, 1, 1, 0, 0, 0),
      settles  |-> Bounds(1, 1, 0, 0, 0, 0),
      pods     |-> Bounds(1, 1, 0, 1, 0, 0),
      recover  |-> Bounds(1, 0, 1, 0, 1, 1) ]

SpecsGiven == [s \in Scenarios |-> Specified[s]]
Allowed    == [s \in Scenarios |-> Bounded[s]]
=============================================================================
