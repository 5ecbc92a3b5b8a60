---------------------------- MODULE MCUserData ----------------------------
(* Two requests of one user, one of them with an outdated token, and one   *)
(* of another user.  Patches state both columns, as read or not, or one.   *)
EXTENDS UserData, TLC

CONSTANTS alice, bob, p1, p2, q1, q2, q3, mail1, mail2

MCIdentityOf == (q1 :> alice @@ q2 :> alice @@ q3 :> bob)
MCEmailOf    == (q1 :> mail1 @@ q2 :> mail2 @@ q3 :> mail2)

MCCreates == [kind : {"create"}, product : Products, threshold : {2}, enabled : {FALSE}]
MCDeletes == [kind : {"delete"}, row : Rows]
MCPatches(columns) ==
    {o \in Operation : o.kind = "patch" /\ <<o.threshold, o.enabled>> \in columns}

MCAsks ==
    [r \in Requests |-> MCCreates \cup MCDeletes \cup
       MCPatches(IF r = q3 THEN {<<2, FALSE>>}
                 ELSE {<<1, FALSE>>, <<2, TRUE>>, <<None, FALSE>>})]
==============================================================================
