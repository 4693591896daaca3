-------------------------- MODULE MCMessageFileUrl --------------------------
(* Small instance of MessageFileUrl for TLC: URLs of up to five characters *)
(* and the extension limit scaled from 10 to 3, so that both branches of   *)
(* the length test are taken.                                              *)
EXTENDS MessageFileUrl

MCMaxUrlLen == 5
MCMaxExtLen == 3
=============================================================================
