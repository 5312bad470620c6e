--------------------------- MODULE MCCentralAlerts ---------------------------
(* Small instances of CentralAlerts for TLC. *)
EXTENDS CentralAlerts

CONSTANTS n1, n2, h1

\* A battery overheats and cools down, and a message cannot be decoded.
MCLog ==
  <<[event |-> "e1", asset |-> "bat", code |-> "overheat", temperature |-> "high"],
    [event |-> "e2", asset |-> "bat", code |-> NoCode, temperature |-> "low"],
    [event |-> "e3", asset |-> "bat", code |-> NoCode, temperature |-> "malformed"]>>

text(i, e) == [id |-> i, event |-> e, asset |-> "bat", code |-> "overheat"]

\* The first event, and one whose reading is still at the site.
MCSms == {text("m1", "e1"), text("m4", "e4")}
=============================================================================
