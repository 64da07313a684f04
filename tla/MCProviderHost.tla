--------------------------- MODULE MCProviderHost ---------------------------
(***************************************************************************)
(* ProviderHost with the three providers of the repository.  Three nested  *)
(* invocations let a script's nested script run the first one's provider   *)
(* again; the failed loads that leave a DLL reference behind show from the *)
(* second one on.                                                          *)
(***************************************************************************)
EXTENDS ProviderHost

\* Everything that may go wrong before the provider's Init is called.
MCBeforeInit == {"path", "library", "bind", "create"}
=============================================================================
