---------------------------- MODULE MCRemoteBridge ----------------------------
(* A bridge with and without a history, that is rebuilt at most twice.       *)
EXTENDS RemoteBridge

CONSTANTS h1, h2, m1, m2

SomeHistories == {<<>>, <<h1, h2>>}
SomeLive == <<m1, m2>>
===============================================================================
