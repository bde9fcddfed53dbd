---------------------------- MODULE MCBillboard ----------------------------
(***************************************************************************)
(* Values for the constants of Billboard: all requests but r3 come from   *)
(* one address.                                                            *)
(***************************************************************************)
EXTENDS Billboard

CONSTANTS r1, r2, r3, r4, a, b

From == [r \in {r1, r2, r3, r4} |-> IF r = r3 THEN b ELSE a]

MethodsOf == [r \in {r1, r2, r3, r4} |->
  IF r = r1 THEN {"POST"}
  ELSE IF r = r2 THEN {"JSON"}
  ELSE IF r = r3 THEN {"POST"}
  ELSE {"POST", "PUT", "DELETE", "JSON", "newJSON"}]
=============================================================================
