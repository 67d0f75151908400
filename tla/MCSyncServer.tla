---------------------------- MODULE MCSyncServer ----------------------------
(***************************************************************************)
(* Small instances of SyncServer for TLC: operation sets whose members     *)
(* compete for one or two keys.                                            *)
(***************************************************************************)
EXTENDS SyncServer

CONSTANTS k1, k2, c1, i1

MCKeys == {k1, k2}
MCOneKey == {k1}
MCOpIds == {"a", "b", "d"}
MCCovers == {NoCover, c1}
MCInfos == {NoInfo, i1}

Upsert(id, k, stamp, cover, info) ==
    [id |-> id, kind |-> "upsert", key |-> k, stamp |-> stamp,
     cover |-> cover, info |-> info]
Delete(id, k) ==
    [id |-> id, kind |-> "delete", key |-> k, stamp |-> 0,
     cover |-> Omitted, info |-> Omitted]
Malformed(id, k) == [Delete(id, k) EXCEPT !.kind = "malformed"]

\* Two upserts of two rows, so that batches taken in opposite orders deadlock,
\* and a payload the server rejects, settled as failed.
OpsTwoKeys ==
    {Upsert("a", k1, 1, c1, Omitted), Upsert("b", k2, 2, NoCover, i1), Malformed("d", k1)}

\* A stale and a newer cover for one row, and a payload the server rejects.
OpsCovers ==
    {Upsert("a", k1, 2, c1, Omitted), Upsert("b", k1, 1, NoCover, i1), Malformed("d", k1)}

\* A row that comes and goes.
OpsLifecycle ==
    {Upsert("a", k1, 2, c1, Omitted), Delete("b", k1), Upsert("d", k1, 1, NoCover, Omitted)}
=============================================================================
