-------------------------- MODULE MCCollaboration --------------------------
(***************************************************************************)
(* An instance of Collaboration for TLC: one task on a board an earlier    *)
(* run may have filled, up to three specialists on two threads, and one    *)
(* file and one answer that several of them may give.  Beside the default  *)
(* decomposer one that finds nothing to do, or names a specialist twice.   *)
(***************************************************************************)
EXTENDS Collaboration

MCSpecialists == {"analyzer", "implementer", "verifier"}

Survey == [specialist |-> "analyzer", tools |-> {"read_file"}]
MCInjected == {<<>>, <<Survey, Survey>>}
=============================================================================
