-------------------------- MODULE MCProxyLifecycle --------------------------
(* ProxyLifecycle for TLC.                                                 *)
EXTENDS ProxyLifecycle
=============================================================================
