------------------------------ MODULE MCResume ------------------------------
(* A small instance: one resume next to the operations of the service. *)
EXTENDS Resume

CONSTANTS a, b, service

ServiceOnly == {service}
OneEntryReports == {{a}, {b}}
JustEmpty == {{}}
AllEntries == {a, b}
HalfWork == {b}
LatestOrFirst == {0, 1}
=============================================================================
