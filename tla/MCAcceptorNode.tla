--------------------------- MODULE MCAcceptorNode ---------------------------
(* One acceptor, two instances, two ballots. *)
EXTENDS AcceptorNode
=============================================================================
