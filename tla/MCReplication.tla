--------------------------- MODULE MCReplication ---------------------------
(* Instances of Replication for TLC.                                       *)
EXTENDS Replication, TLC

CONSTANTS n1, n2, n3, a, b, x, y, z, p, q

MCNodes == {n1, n2, n3}
MCTwoNodes == {n1, n2}

(* n3 starts with the older schema; both nodes with the newer one.         *)
LastOld == [n \in MCNodes |-> IF n = n3 THEN 1 ELSE 2]
TwoNew == [n \in MCTwoNodes |-> 2]

(* The nodes that start alike are interchangeable, and so are the payloads *)
(* of SchemaOps' two sets.                                                 *)
Alike == Permutations({n1, n2}) \cup Permutations({y, q})

Op(id, version, kind, object, revision, payload) ==
  [id |-> id, product |-> p, version |-> version, kind |-> kind,
   object |-> object, revision |-> revision, payload |-> payload]

(* A set of the old schema, the same identity with another payload, and a  *)
(* delete of the new schema with a precondition on the revision.           *)
SchemaOps == {Op(a, 1, KindSet, x, 0, y), Op(a, 1, KindSet, x, 0, q),
              Op(b, 2, KindDelete, x, 1, z)}

(* A set of each schema and a kind that no replica knows.                  *)
MixedOps == {Op(a, 1, KindSet, x, 0, y), Op(b, 2, KindSet, x, 0, y),
             Op(b, 1, "other", x, 0, q)}
============================================================================
