------------------------------- MODULE MCTunnel -------------------------------
(***************************************************************************)
(* A small instance of Tunnel: what the name service may answer is         *)
(* nothing, a private address, one hidden in a mapped or a 6to4 address,   *)
(* or a public one after a private one.                                    *)
(***************************************************************************)
EXTENDS Tunnel

Addr(o, i)  == [outer |-> o, inner |-> i]
FewAnswers  == {<<>>, <<Addr("local", "none")>>, <<Addr("6to4", "local")>>,
                <<Addr("local", "none"), Addr("mapped", "local"), Addr("global", "none")>>}
=============================================================================
