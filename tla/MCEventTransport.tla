--------------------------- MODULE MCEventTransport ---------------------------
(***************************************************************************)
(* A small instance of EventTransport: the stream event s, calls w and x    *)
(* that write one message, of which x's cannot be serialised, a call z that *)
(* writes two, and a flush f.                                              *)
(***************************************************************************)
EXTENDS EventTransport

CONSTANTS s, m, u, p, q, w, x, z, f

MCConfigurations == {<<TRUE, FALSE>>, <<FALSE, TRUE>>}

MCMessages == [c \in Calls |->
                 CASE c = w -> <<m>> [] c = x -> <<u>> [] c = z -> <<p, q>>]
===============================================================================
