---------------------------- MODULE Permissions ----------------------------
(***************************************************************************)
(* policies/permissions.py.  A permission is a sequence of segments, such  *)
(* as <<"database", "read">>; a last segment "*" grants everything below.  *)
(***************************************************************************)
EXTENDS Naturals, Sequences, TLAPS

Permission == Seq(STRING) \ {<<>>}
Everything == <<"*">>

\* What grants a permission: the permission itself, or a wildcard above it.
Granting(required) ==
    {required} \cup {Append(SubSeq(required, 1, i - 1), "*") : i \in 1 .. Len(required)}

Allows(granted, required) == \E p \in Granting(required) : p \in granted

Missing(granted, required) == {r \in required : ~Allows(granted, r)}

\* Wildcards other than "*" only meet themselves.
Intersect(granted, other) ==
    IF Everything \in granted THEN other
    ELSE IF Everything \in other THEN granted
    ELSE granted \cap other

-----------------------------------------------------------------------------
\* PermissionSet.allows (permissions.py:30): "*" grants every permission.
LEMMA EverythingGrants ==
    ASSUME NEW granted, NEW r \in Permission, Everything \in granted
    PROVE  Allows(granted, r)
<1>1. Len(r) \in Nat \ {0}
    BY DEF Permission
<1>2. SubSeq(r, 1, 1 - 1) = <<>>
    BY DEF Permission
<1>3. Append(<<>>, "*") = Everything
    BY DEF Everything
<1>4. Append(SubSeq(r, 1, 1 - 1), "*") = Everything
    BY <1>2, <1>3
<1>5. 1 \in 1 .. Len(r)
    BY <1>1
<1>6. Everything \in Granting(r)
    BY <1>4, <1>5 DEF Granting
<1> QED
    BY <1>6 DEF Allows

\* PermissionSet.intersect (permissions.py:48): "Least privilege: a child never
\* gets more than its parent", nor more than was asked for it.
THEOREM LeastPrivilege ==
    ASSUME NEW granted, NEW other, NEW r \in Permission, Allows(Intersect(granted, other), r)
    PROVE  Allows(granted, r) /\ Allows(other, r)
<1>1. CASE Everything \in granted
    BY <1>1, EverythingGrants DEF Intersect
<1>2. CASE Everything \notin granted /\ Everything \in other
    BY <1>2, EverythingGrants DEF Intersect
<1>3. CASE Everything \notin granted /\ Everything \notin other
    BY <1>3 DEF Intersect, Allows
<1> QED
    BY <1>1, <1>2, <1>3
=============================================================================
