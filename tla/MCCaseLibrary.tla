---------------------------- MODULE MCCaseLibrary ---------------------------
(* The graphs of the disk signal among four storage workloads, and a small     *)
(* library to start from.                                                      *)
EXTENDS CaseLibrary

\* pipeline.run_pass on psi_io: a source edge carries write and pvc, a psi edge pvc and,
\* when both ends are hot, psi.  The source hits one or two victims, a victim may
\* drag a third along, and the blast radius may reach only part of them.
WriteEdge(a, b) == [src |-> a, dst |-> b, evidence |-> {"write", "pvc", "temporal"}]
PsiEdge(a, b) == [src |-> a, dst |-> b, evidence |-> {"stat", "pvc"}]
HotEdge(a, b) == [src |-> a, dst |-> b, evidence |-> {"stat", "psi", "pvc"}]

OneHit(a, b) ==
  [root |-> a, edges |-> {WriteEdge(a, b)}, blast |-> {b}]
TwoHits(a, b, c) ==
  [root |-> a, edges |-> {WriteEdge(a, b), WriteEdge(a, c)}, blast |-> {b, c}]
Cascade(a, b, c) ==
  [root |-> a, edges |-> {WriteEdge(a, b), HotEdge(b, c)}, blast |-> {b, c}]
FarCascade(a, b, c) ==
  [root |-> a, edges |-> {WriteEdge(a, b), HotEdge(b, c)}, blast |-> {b}]
LongCascade(a, b, c, d) ==
  [root |-> a, edges |-> {WriteEdge(a, b), HotEdge(b, c), HotEdge(c, d)}, blast |-> {b, c, d}]
Triangle(a, b, c) ==
  [root |-> a, edges |-> {WriteEdge(a, b), WriteEdge(a, c), HotEdge(b, c)}, blast |-> {b, c}]
VictimsOnly(a, b) ==
  [root |-> a, edges |-> {HotEdge(a, b)}, blast |-> {b}]
NoBlast(a, b, c) ==
  [root |-> a, edges |-> {WriteEdge(a, b), PsiEdge(c, a)}, blast |-> {}]

DiskGraphs ==
  {OneHit(1, 2), OneHit(1, 3), TwoHits(1, 2, 3), Cascade(1, 2, 3), FarCascade(1, 2, 3),
   Triangle(1, 2, 3), LongCascade(1, 2, 3, 4), VictimsOnly(2, 3), NoBlast(1, 2, 3),
   Cascade(3, 2, 1)}

OldLibrary ==
  <<FingerprintOf(TwoHits(1, 2, 3)), FingerprintOf(Cascade(1, 2, 3))>>

=============================================================================
