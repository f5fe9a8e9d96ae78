---------------------------- MODULE MCOAuthRouting ----------------------------
(***************************************************************************)
(* OAuthRouting for TLC: the cfg files give the constant its value.        *)
(***************************************************************************)
EXTENDS OAuthRouting, TLC
=============================================================================
