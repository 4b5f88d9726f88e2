--------------------------- MODULE MCSwiftScheduler ---------------------------
(***************************************************************************)
(* Regions to model check: the spawn trees of the test programs.           *)
(***************************************************************************)
EXTENDS SwiftScheduler

\* fibo(3) of fibo_stack_2spawns; the tree of a quicksort that splits twice
TreeFrame == {"root", "n2", "n1", "n2_1", "n2_0"}
TreeSpawned == [f \in TreeFrame |->
  CASE f = "root" -> <<"n2", "n1">>
    [] f = "n2"   -> <<"n2_1", "n2_0">>
    [] OTHER      -> <<>>]
TreeParent == [f \in TreeFrame |-> IF f \in {"n2_1", "n2_0"} THEN "n2" ELSE "root"]
TreeDependent == [f \in TreeFrame |-> "none"]
TreeValue == [f \in TreeFrame |-> CASE f = "root" -> 2 [] f = "n2_0" -> 0 [] OTHER -> 1]

\* fibo(4): two levels of closures that wait while they help others
DeepFrame == (TreeFrame \ {"n1"}) \union {"n3", "n3_1", "n3_2", "n3_2_1", "n3_2_0"}
DeepSpawned == [f \in DeepFrame |->
  CASE f = "root" -> <<"n3", "n2">>
    [] f = "n3"   -> <<"n3_2", "n3_1">>
    [] f = "n3_2" -> <<"n3_2_1", "n3_2_0">>
    [] f = "n2"   -> <<"n2_1", "n2_0">>
    [] OTHER      -> <<>>]
DeepParent == [f \in DeepFrame |->
  CASE f \in {"n2_1", "n2_0"}     -> "n2"
    [] f \in {"n3_2", "n3_1"}     -> "n3"
    [] f \in {"n3_2_1", "n3_2_0"} -> "n3_2"
    [] OTHER                      -> "root"]
DeepDependent == [f \in DeepFrame |-> "none"]
DeepValue == [f \in DeepFrame |->
  CASE f = "root" -> 3
    [] f = "n3"   -> 2
    [] f \in {"n2_0", "n3_2_0"} -> 0
    [] OTHER      -> 1]

\* fibo(4) of fibo: every sum awaits the two results it adds
Sums == {"sum", "n3_sum", "n3_2_sum", "n2_sum"}
SumFrame == DeepFrame \union Sums
SumSpawned == [f \in SumFrame |-> IF f \in DeepFrame THEN DeepSpawned[f] ELSE <<>>]
SumParent == [f \in SumFrame |->
  CASE f = "sum"      -> "root"
    [] f = "n3_sum"   -> "n3"
    [] f = "n3_2_sum" -> "n3_2"
    [] f = "n2_sum"   -> "n2"
    [] OTHER          -> DeepParent[f]]
SumDependent == [f \in SumFrame |->
  IF f \in Sums \union {"root"} THEN "none"
  ELSE CHOOSE s \in Sums : SumParent[s] = SumParent[f]]
SumValue == [f \in SumFrame |-> IF f \in DeepFrame THEN DeepValue[f] ELSE 0]
=============================================================================
