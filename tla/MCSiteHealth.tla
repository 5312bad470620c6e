---------------------------- MODULE MCSiteHealth ----------------------------
\* Two sites, one of them with two gateways; a batch of every kind the endpoint tells apart.
EXTENDS SiteHealth, TLC

MCTokens == {"s1", "s2", "g1", "g2", "b1", "site", "a very long name"}
MCPlainTokens == MCTokens \ {"a very long name"}
MCTokenLength == [t \in MCTokens |-> IF t = "a very long name" THEN 60 ELSE 4]
MCGateways == "g1" :> "s1" @@ "g2" :> "s1"
MCSenders == "g1" :> [site |-> "s1", gateway |-> "g1"] @@ "g2" :> [site |-> "s1", gateway |-> "g2"]
MCAPIKeys == "k1" :> "s1" @@ "k2" :> "s2"
MCRecord == [sequence |-> 1, site |-> "s1", complete |-> TRUE, asset_type |-> "battery_bms",
             code |-> "", value |-> FALSE, decodable |-> TRUE]
MCBatch == [key |-> "k1", readable |-> TRUE, gateway |-> "g1", depth |-> 0, oldest |-> FALSE,
            age |-> NoTime, records |-> << >>]
MCBatches ==
  {MCBatch, [MCBatch EXCEPT !.key = "unknown"], [MCBatch EXCEPT !.oldest = TRUE],
   [MCBatch EXCEPT !.depth = 1, !.oldest = TRUE, !.age = 0,
                   !.records = <<MCRecord>>],
   [MCBatch EXCEPT !.key = "k2", !.depth = 2, !.oldest = TRUE, !.age = 1,
                   !.records = <<MCRecord>>]}
MCIncidents == {[asset |-> "b1", sequence |-> 7, code |-> "BATTERY_OVERHEAT", temperature |-> 6825]}
MCSkew == "g1" :> 2 @@ "g2" :> -1
=============================================================================
