---------------------------- MODULE MCWebSession ----------------------------
(* An account with and one without the role of an administrator.           *)
EXTENDS WebSession

TwoClaims == {{"offline_access"}, {"admin", "manager"}}
=============================================================================
