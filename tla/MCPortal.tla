------------------------------ MODULE MCPortal ------------------------------
(***************************************************************************)
(* A film and two shows of one season each, for the model checking of       *)
(* Portal.                                                                  *)
(***************************************************************************)
EXTENDS Portal

CONSTANTS film, show, series

MCSeasonsOf == film :> {} @@ show :> {1} @@ series :> {2}

Requested(k, status) == [key |-> k, status |-> status, seasons |-> {}]

(* A user with a film asked for and a show in the library.                  *)
MCHistories == {<<Requested(show, "in_library"), Requested(film, "pending")>>}
=============================================================================
