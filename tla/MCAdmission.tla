---------------------------- MODULE MCAdmission ----------------------------
(* One client pulls, imports and tries to import with the read-only token and *)
(* parameters behind the path; the other one tries to import without a token. *)
EXTENDS Admission, TLC

CONSTANTS t1, t2, a1, a2

MCThreads == {t1, t2}
MCAddresses == {a1, a2}
Req(m, p, f, k) == [method |-> m, path |-> p, form |-> f, token |-> k]
MCTraffic ==
    {<<Req("HEAD", "/v2/n/blobs/d", "plain", "readonly"), a1>>,
     <<Req("PUT", "/admin/import", "plain", "admin"), a1>>,
     <<Req("PUT", "/admin/import", "suffixed", "readonly"), a1>>,
     <<Req("PUT", "/admin/import", "plain", "none"), a2>>}
MCLimit == [l \in Limiters |-> IF l = "admin" THEN 1 ELSE 2]
MCSymmetry == Permutations(MCThreads)
=============================================================================
