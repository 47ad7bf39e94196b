---------------------------- MODULE MCOrderPipeline ----------------------------
(* Orders of one and of two units of a product, over two replicas; and, for  *)
(* liveness, the larger order alone with more that fails.                    *)
EXTENDS OrderPipeline, TLC

CONSTANTS o1, o2, p1

BothOrders == (o1 :> <<p1, p1>>) @@ (o2 :> <<p1>>)
OneOrder == o1 :> <<p1, p1>>

Replicas == Permutations(Replica)

=============================================================================
