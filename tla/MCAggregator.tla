---------------------------- MODULE MCAggregator ----------------------------
(***************************************************************************)
(* A ruled signal, summed by pod, and one without a rule that has a result *)
(* for each network interface of a pod.                                    *)
(***************************************************************************)
EXTENDS Aggregator, TLC

CONSTANTS p1, p2

TwoSignals == <<"psi_io", "net_rx">>

\* One result for each pod, in either order.
Summed ==
  {<<<<p, h>>>> : p \in Pods, h \in BOOLEAN}
  \cup {<<<<p1, h>>, <<p2, TRUE>>>> : h \in BOOLEAN} \cup {<<<<p2, TRUE>>, <<p1, TRUE>>>>}

\* Two interfaces of a pod, side by side or with another pod's in between, or three.
Interfaces ==
  {<<<<p1, TRUE>>>>,
   <<<<p1, FALSE>>, <<p1, TRUE>>>>,
   <<<<p1, TRUE>>, <<p2, FALSE>>, <<p1, FALSE>>>>,
   <<<<p2, FALSE>>, <<p2, TRUE>>, <<p2, FALSE>>>>}

VectorsOf == [signal \in ToSet(TwoSignals) |-> IF signal = "psi_io" THEN Summed ELSE Interfaces]
=============================================================================
