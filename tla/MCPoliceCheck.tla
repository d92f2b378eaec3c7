---------------------------- MODULE MCPoliceCheck ----------------------------
(***************************************************************************)
(* Reports with up to two vulnerabilities at all lines up to one beyond    *)
(* the fields, with a type nobody lists; versions and hashes at a limit.   *)
(***************************************************************************)
EXTENDS PoliceCheck

MCVersionSizes == <<1, 1, 2>>

At(type, start, end) == [type |-> type, start |-> start, end |-> end]

MCInstances == [type : 0 .. 3, start : {0, 1, 4, 7, 8}, end : {0, 1, 4, 7, 8, 10, 11}]
Others    == {At(0, 1, 0), At(0, 7, 7), At(1, 0, 1), At(0, 1, 4)}

Report(version, status, digits, found) ==
    [version     |-> version,
     audit_state |-> IF status = "success" THEN StateSuccess ELSE StateError,
     status      |-> status,
     hash        |-> [digits |-> digits, case |-> "lower"],
     found       |-> found]

MCAuditReports ==
    {Report(<<1, 0, 3>>, "success", 1, found) :
        found \in {<<>>} \cup {<<v>> : v \in MCInstances}
                  \cup {<<v, w>> : v \in MCInstances, w \in Others}
                  \cup {<<u, v, w>> : u, v, w \in Others}}
    \cup {Report(version, "error", digits, <<>>) :
            version \in {<<0, 1, 2>>, <<1, 1, 3>>, <<2, 0, 0>>, <<2, 2, 1>>, <<1, 0, 4>>}, digits \in 0 .. 3}

MCPoliceReports ==
    {Report(<<1, 0, 3>>, "success", 1, found) :
        found \in {<<>>, <<At(0, 1, 0)>>, <<At(0, 1, 3), At(1, 0, 0), At(0, 7, 0)>>, <<At(2, 1, 0)>>}}
    \cup {Report(<<1, 0, 3>>, "error", 3, <<>>)}
=============================================================================
