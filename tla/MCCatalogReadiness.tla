-------------------------- MODULE MCCatalogReadiness --------------------------
(***************************************************************************)
(* Values for model checking CatalogReadiness: records with and without    *)
(* an id that share a time range, and a record of another item.            *)
(***************************************************************************)
EXTENDS CatalogReadiness

OwnRecord == [id |-> "a", start |-> 1, end |-> 2]
BareRecord == [id |-> "", start |-> 1, end |-> 2]
OtherRecord == [id |-> "b", start |-> 1, end |-> 2]

\* Backwards has an end before its start and is refused.
NamedItem == [id |-> "a", start |-> 1, end |-> 2]
BareItem == [id |-> "", start |-> 1, end |-> 2]
Backwards == [id |-> "a", start |-> 2, end |-> 1]

MCRecords == {OwnRecord, BareRecord, OtherRecord}
MCItems == {NamedItem, BareItem, Backwards}

\* FewStatuses leaves out 0, which the code treats as it does -1.
MCStatuses == {NeedsRebuild, 0, Readable}
FewStatuses == {NeedsRebuild, Readable}

\* Two records and two items, for the liveness runs.
FewRecords == {OwnRecord, OtherRecord}
FewItems == {NamedItem, BareItem}
===============================================================================
