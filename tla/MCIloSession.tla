---------------------------- MODULE MCIloSession ----------------------------
(***************************************************************************)
(* A client of one BMC for model checking IloSession.                      *)
(***************************************************************************)
EXTENDS IloSession

EastClient == [ilo |-> "east", gen |-> 0]
=============================================================================
