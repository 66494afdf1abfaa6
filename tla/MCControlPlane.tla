---------------------------- MODULE MCControlPlane ----------------------------
(***************************************************************************)
(* Two processes: the first has the operation a, the second has b and a    *)
(* factory of operations of type t.  r1 and r2 connect a to the inlet x of *)
(* b by the same name, r1 asking the first process and r2, which lets the  *)
(* name be changed, the second; k1 and k2 create operations of type t,     *)
(* k2 by the name t0, which k1 would get if it came first.                 *)
(***************************************************************************)
EXTENDS ControlPlane

CONSTANTS a, b, t, t0, t1, c, c0, c1   \* names, and the type t

MCSuffixed(n, k) ==
  IF n = t THEN (IF k = 0 THEN t0 ELSE t1) ELSE IF k = 0 THEN c0 ELSE c1
MCNames == {a, b, t0, t1}
MCPayloads == {"info"}
MCRouted == {"http"}
MCProcess == {"p1", "p2"}
MCInlet == {"x"}
MCConnects == {"r1", "r2"}
MCAt == [r \in MCConnects |-> IF r = "r1" THEN "p1" ELSE "p2"]
MCOut == [r \in MCConnects |-> [at |-> "p1", name |-> a, addr |-> IF r = "r1" THEN "core" ELSE "full"]]
MCIn == [r \in MCConnects |-> [at |-> "p2", name |-> b, addr |-> "full"]]
MCInletOf == [r \in MCConnects |-> "x"]
MCConName == [r \in MCConnects |-> c]
MCAutoNamed == {"r2"}
MCFaulty == {"r1"}
MCCreates == {"k1", "k2"}
MCMadeAt == [k \in MCCreates |-> "p2"]
MCMadeInfo == [k \in MCCreates |-> IF k = "k1" THEN [typeName |-> t]
                                    ELSE [typeName |-> t, instanceName |-> t0]]
MCInitially ==
  [p \in MCProcess |->
     IF p = "p1" THEN <<Object("operation", "A", a, NoOwner)>>
     ELSE <<Object("operation", "B", b, NoOwner),
            Object("operationFactory", t, t, NoOwner)>>]
===============================================================================
