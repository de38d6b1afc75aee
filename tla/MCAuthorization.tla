--------------------------- MODULE MCAuthorization ---------------------------
(* The instance of Authorization: one record, three people who may ask and  *)
(* approve, and a policy whose quorum is one.  A behaviour is one of calls  *)
(* that run whole, as over the repository in memory, or one that lets       *)
(* another call in wherever a call awaits its repository.                   *)
EXTENDS Authorization
=============================================================================
