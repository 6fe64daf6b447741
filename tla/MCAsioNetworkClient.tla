------------------------ MODULE MCAsioNetworkClient -------------------------
(***************************************************************************)
(* AsioNetworkClient alone, against a peer that sends any frame and closes *)
(* at any time.                                                            *)
(***************************************************************************)
EXTENDS AsioNetworkClient
=============================================================================
