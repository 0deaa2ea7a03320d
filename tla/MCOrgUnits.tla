------------------------------ MODULE MCOrgUnits ------------------------------
(***************************************************************************)
(* Small instances of OrgUnits, over the seed of                           *)
(* deploy/init/postgres/seed/10_core.sql cut to its head office and one    *)
(* department.                                                             *)
(***************************************************************************)
EXTENDS OrgUnits

CONSTANTS r1, r2, r3, hqId, salesId

HQ == <<"HQ">>
Sales == <<"HQ-SALES">>
Wms == <<"HQ-WMS">>
\* A code with a dot: at the top it has the path of Sales under HQ.
Dotted == HQ \o Sales

MCCodes == {HQ, Sales, Wms, Dotted}

MCUnits ==
    [u \in {hqId, salesId} |->
        IF u = hqId
        THEN [parent |-> NoUnit, code |-> HQ, path |-> HQ, level |-> 0, is_active |-> "yes"]
        ELSE [parent |-> hqId, code |-> Sales, path |-> HQ \o Sales, level |-> 1, is_active |-> "yes"]]

Create(code, parent) == [op |-> "create", code |-> code, parent |-> parent, active |-> "keep"]
Change(code, active) == [op |-> "update", code |-> code, parent |-> NoCode, active |-> active]
Drop(code) == [op |-> "delete", code |-> code, parent |-> NoCode, active |-> "keep"]

MCBodies ==
    {Create(NoCode, HQ), Create(Sales, NoCode), Create(Sales, HQ), Create(Sales, Wms), Create(Wms, Sales),
     Create(Wms, NoCode), Create(Dotted, NoCode), Create(Wms, Dotted), Drop(Dotted), Change(Sales, "no"), Change(Wms, "keep"), Drop(Sales), Drop(Wms)}

MCNamed == {HQ}
===============================================================================
