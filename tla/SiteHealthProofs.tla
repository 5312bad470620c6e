-------------------------- MODULE SiteHealthProofs --------------------------
(***************************************************************************)
(* What the control room shows of a site is something it was told: by a     *)
(* contact the ingest endpoint authenticated, or by a text that reads as    *)
(* the gateway meant it.                                                    *)
(***************************************************************************)
EXTENDS SiteHealth, TLAPS

-----------------------------------------------------------------------------
(* The codec *)

\* A key that occurs once is read at the place where it was written.
LEMMA FieldValue ==
  \A text, j, key :
    /\ j \in DOMAIN text.fields /\ text.fields[j].key = key
    /\ \A i \in DOMAIN text.fields : text.fields[i].key = key => i = j
    => HasKey(text, key) /\ Value(text, key) = text.fields[j]
BY DEF HasKey, Value

LEMMA NoField ==
  \A text, key : (\A i \in DOMAIN text.fields : text.fields[i].key # key) => ~HasKey(text, key)
BY DEF HasKey

LEMMA HeartbeatValues ==
  ASSUME NEW h
  PROVE  LET text == FormatHeartbeat(h) IN
         /\ text.title = "AMBAGRID" /\ text.fields = HeartbeatFields(h)
         /\ DOMAIN text.fields = 1..7 /\ Len(text.fields) = 7
         /\ Keys(text) = HeartbeatKeys
         /\ HasKey(text, "v") /\ Value(text, "v").token = "1"
         /\ HasKey(text, "kind") /\ Value(text, "kind").token = "HB"
         /\ Value(text, "site").token = h.site /\ Value(text, "gw").token = h.gateway
         /\ Value(text, "seq").number = h.sequence
         /\ Value(text, "int").number = h.interval \div Second
         /\ Value(text, "ts").number = h.at \div Second
<1> DEFINE text == FormatHeartbeat(h)
           f == text.fields
           interval == h.interval \div Second
           at == h.at \div Second
<1>1. /\ text.title = "AMBAGRID" /\ f = HeartbeatFields(h) /\ f = <<f[1], f[2], f[3], f[4], f[5], f[6], f[7]>>
      /\ DOMAIN f = 1..7 /\ Len(f) = 7
      /\ f[1] = Tag("v", "1") /\ f[2] = Tag("kind", "HB") /\ f[3] = Tag("site", h.site)
      /\ f[4] = Tag("gw", h.gateway) /\ f[5] = Number("seq", h.sequence)
      /\ f[6] = Number("int", interval) /\ f[7] = Number("ts", at)
  BY DEF FormatHeartbeat, Text, HeartbeatFields
<1> HIDE DEF text, f, interval, at
<1>2. /\ f[1].key = "v" /\ f[2].key = "kind" /\ f[3].key = "site" /\ f[4].key = "gw"
      /\ f[5].key = "seq" /\ f[6].key = "int" /\ f[7].key = "ts"
      /\ f[1].token = "1" /\ f[2].token = "HB" /\ f[3].token = h.site /\ f[4].token = h.gateway
      /\ f[5].number = h.sequence /\ f[6].number = interval /\ f[7].number = at
  BY <1>1 DEF Tag, Number
<1>3. \A i \in DOMAIN f : i \in {1, 2, 3, 4, 5, 6, 7}
  BY <1>1
<1>4. f = text.fields
  BY DEF f
<1>5. /\ HasKey(text, "v") /\ Value(text, "v") = f[1]
      /\ HasKey(text, "kind") /\ Value(text, "kind") = f[2]
  BY <1>1, <1>2, <1>3, <1>4, FieldValue
<1>6. Value(text, "site") = f[3] /\ Value(text, "gw") = f[4]
  BY <1>1, <1>2, <1>3, <1>4, FieldValue
<1>7. Value(text, "seq") = f[5] /\ Value(text, "int") = f[6]
  BY <1>1, <1>2, <1>3, <1>4, FieldValue
<1>8. Value(text, "ts") = f[7]
  BY <1>1, <1>2, <1>3, <1>4, FieldValue
<1>9. Keys(text) = HeartbeatKeys
  BY <1>1, <1>2, <1>4 DEF Keys, HeartbeatKeys
<1> QED
  BY <1>1, <1>2, <1>4, <1>5, <1>6, <1>7, <1>8, <1>9 DEF text, f, interval, at

\* What is left of a time that is written in whole seconds.
LEMMA WholeSeconds ==
  \A x \in Int : LET seconds == x \div Second IN
    /\ seconds \in Int /\ seconds * Second \in Int
    /\ seconds * Second <= x /\ x < seconds * Second + Second
    /\ x % Second = 0 => seconds * Second = x
    /\ x >= Second => seconds > 0
<1> SUFFICES ASSUME NEW x \in Int
             PROVE  LET seconds == x \div Second IN
                      /\ seconds \in Int /\ seconds * Second \in Int
                      /\ seconds * Second <= x /\ x < seconds * Second + Second
                      /\ x % Second = 0 => seconds * Second = x
                      /\ x >= Second => seconds > 0
  OBVIOUS
<1> DEFINE seconds == x \div Second
           rest == x % Second
<1>1. Second \in Nat \ {0}
  BY MessageAssumption
<1>2. seconds \in Int /\ rest \in 0..(Second - 1) /\ x = seconds * Second + rest
  BY <1>1
<1>3. seconds * Second \in Int
  BY <1>1, <1>2
<1>4. x >= Second => seconds > 0
  BY <1>1
<1> HIDE DEF seconds, rest
<1>5. seconds * Second <= x /\ x < seconds * Second + Second /\ (rest = 0 => seconds * Second = x)
  BY <1>1, <1>2, <1>3
<1> QED  BY <1>2, <1>3, <1>4, <1>5 DEF seconds, rest

\* A heartbeat FormatHeartbeat writes is read as it was meant, its time to the second, and the
\* webhook takes it for nothing else.
THEOREM HeartbeatRoundTrip ==
  ASSUME NEW h \in [site : Tokens, gateway : Tokens, sequence : Nat, interval : Nat, at : Int],
         HeartbeatFormattable(h)
  PROVE  LET text == FormatHeartbeat(h) IN
         /\ ParsedHeartbeat(text) = [h EXCEPT !.at = (h.at \div Second) * Second]
         /\ h.at >= Second => IsHeartbeat(text)
         /\ ~IsCritical(text)
<1> DEFINE text == FormatHeartbeat(h)
           interval == h.interval \div Second
           at == h.at \div Second
<1>1. /\ text.title = "AMBAGRID" /\ text.fields = HeartbeatFields(h)
      /\ DOMAIN text.fields = 1..7 /\ Len(text.fields) = 7
      /\ Keys(text) = HeartbeatKeys
      /\ HasKey(text, "v") /\ Value(text, "v").token = "1"
      /\ HasKey(text, "kind") /\ Value(text, "kind").token = "HB"
      /\ Value(text, "site").token = h.site /\ Value(text, "gw").token = h.gateway
      /\ Value(text, "seq").number = h.sequence
      /\ Value(text, "int").number = interval
      /\ Value(text, "ts").number = at
  BY HeartbeatValues
<1>2. /\ h.site \in PlainTokens /\ h.gateway \in PlainTokens /\ h.sequence > 0
      /\ h.interval \in MinHeartbeatInterval..MaxHeartbeatInterval
      /\ interval * Second = h.interval /\ Septets(text.fields) <= Room
      /\ at \in Int /\ interval \in Nat /\ (h.at >= Second => at > 0)
  <2>1. /\ h.site \in PlainTokens /\ h.gateway \in PlainTokens /\ h.sequence # 0
        /\ h.interval \in MinHeartbeatInterval..MaxHeartbeatInterval
        /\ h.interval % Second = 0 /\ Septets(HeartbeatFields(h)) <= Room
    BY DEF HeartbeatFormattable, HeartbeatFits
  <2>2. interval * Second = h.interval /\ at \in Int /\ (h.at >= Second => at > 0)
    BY <2>1, WholeSeconds
  <2>3. interval \in Nat
    BY MessageAssumption
  <2> QED  BY <1>1, <2>1, <2>2, <2>3
<1>3. ParsedHeartbeat(text) = [h EXCEPT !.at = at * Second]
  <2> HIDE DEF text, interval, at
  <2> QED  BY <1>1, <1>2 DEF ParsedHeartbeat
<1>4. ~IsCritical(text)
  BY <1>1 DEF IsCritical
<1>5. ASSUME h.at >= Second
      PROVE  IsHeartbeat(text)
  <2>1. \A f \in {text.fields[i] : i \in DOMAIN text.fields} :
          f.token # NoToken \/ f.number # NoNumber
    <3> SUFFICES ASSUME NEW i \in 1..7
                 PROVE  text.fields[i].token # NoToken \/ text.fields[i].number # NoNumber
      BY <1>1
    <3> DEFINE f == HeartbeatFields(h)
    <3>1. /\ f[1] = Tag("v", "1") /\ f[2] = Tag("kind", "HB") /\ f[3] = Tag("site", h.site)
          /\ f[4] = Tag("gw", h.gateway) /\ f[5] = Number("seq", h.sequence)
          /\ f[6] = Number("int", interval) /\ f[7] = Number("ts", at)
      BY DEF HeartbeatFields
    <3> HIDE DEF f, interval, at
    <3>2. /\ f[1].token = "1" /\ f[2].token = "HB" /\ f[3].token = h.site
          /\ f[4].token = h.gateway /\ f[5].number = h.sequence /\ f[6].number = interval
          /\ f[7].number = at
      BY <3>1 DEF Tag, Number
    <3>3. i \in {1, 2, 3, 4, 5, 6, 7} /\ h.site # NoToken /\ h.gateway # NoToken
      BY <1>2, MessageAssumption
    <3>4. at > 0
      BY <1>2, <1>5
    <3>5. "1" # NoToken /\ "HB" # NoToken
      BY Zenon DEF NoToken
    <3> QED  BY <1>1, <1>2, <3>2, <3>3, <3>4, <3>5 DEF f, NoNumber
  <2>2. \A i, j \in DOMAIN text.fields : Keys(text)[i] = Keys(text)[j] => i = j
    BY <1>1 DEF HeartbeatKeys
  <2>3. Splits(text)
    BY <1>1, <1>2, <2>1, <2>2 DEF Splits
  <2>4. Counted(text)
    BY <1>1, <1>2, <1>5 DEF Counted
  <2> HIDE DEF text, interval, at
  <2> QED  BY <1>1, <1>2, <2>3, <2>4 DEF IsHeartbeat
<1> QED  BY <1>3, <1>4, <1>5

PlainKeys == <<"v", "site", "asset", "seq", "code", "ts">>
OverheatKeys == <<"v", "site", "asset", "seq", "code", "temp", "ts">>

\* The fields of a critical event's text, with and without a temperature.
CriticalText(event, tenths, text) ==
  LET f == text.fields IN
  /\ text.title = "AMBAGRID" /\ f = CriticalFields(event, tenths)
  /\ \/ /\ tenths = NoNumber /\ Len(f) = 6 /\ DOMAIN f = 1..6
        /\ Keys(text) = PlainKeys
        /\ ~HasKey(text, "temp")
     \/ /\ tenths # NoNumber /\ Len(f) = 7 /\ DOMAIN f = 1..7
        /\ Keys(text) = OverheatKeys
        /\ HasKey(text, "temp") /\ Value(text, "temp").number = tenths
        /\ f[6].number = tenths
  /\ ~HasKey(text, "kind")
  /\ HasKey(text, "v") /\ Value(text, "v").token = "1"
  /\ HasKey(text, "code") /\ Value(text, "code").token = event.code
  /\ Value(text, "site").token = event.site /\ Value(text, "asset").token = event.asset
  /\ Value(text, "seq").number = event.sequence
  /\ Value(text, "ts").number = event.at \div Second
  /\ f[1].token = "1" /\ f[2].token = event.site /\ f[3].token = event.asset
  /\ f[4].number = event.sequence /\ f[5].token = event.code
  /\ f[Len(f)].number = event.at \div Second

LEMMA CriticalValues ==
  \A event, tenths : CriticalText(event, tenths, Format(event, tenths))
<1> SUFFICES ASSUME NEW event, NEW tenths
             PROVE  CriticalText(event, tenths, Format(event, tenths))
  OBVIOUS
<1> DEFINE text == Format(event, tenths)
           f == text.fields
           at == event.at \div Second
<1>1. CASE tenths = NoNumber
  <2>1. /\ text.title = "AMBAGRID" /\ f = CriticalFields(event, tenths)
        /\ DOMAIN f = 1..6 /\ Len(f) = 6
        /\ f[1] = Tag("v", "1") /\ f[2] = Tag("site", event.site)
        /\ f[3] = Tag("asset", event.asset) /\ f[4] = Number("seq", event.sequence)
        /\ f[5] = Tag("code", event.code) /\ f[6] = Number("ts", at)
    BY <1>1 DEF Format, Text, CriticalFields
  <2> HIDE DEF text, f, at
  <2>2. /\ f[1].key = "v" /\ f[2].key = "site" /\ f[3].key = "asset" /\ f[4].key = "seq"
        /\ f[5].key = "code" /\ f[6].key = "ts"
        /\ f[1].token = "1" /\ f[2].token = event.site /\ f[3].token = event.asset
        /\ f[4].number = event.sequence /\ f[5].token = event.code /\ f[6].number = at
    BY <2>1 DEF Tag, Number
  <2>3. (\A i \in DOMAIN f : i \in {1, 2, 3, 4, 5, 6}) /\ f = text.fields
    BY <2>1 DEF f
  <2>4. HasKey(text, "v") /\ Value(text, "v") = f[1] /\ Value(text, "site") = f[2]
    BY <2>1, <2>2, <2>3, FieldValue
  <2>5. Value(text, "asset") = f[3] /\ Value(text, "seq") = f[4]
    BY <2>1, <2>2, <2>3, FieldValue
  <2>6. HasKey(text, "code") /\ Value(text, "code") = f[5] /\ Value(text, "ts") = f[6]
    BY <2>1, <2>2, <2>3, FieldValue
  <2>7. ~HasKey(text, "kind") /\ ~HasKey(text, "temp")
    BY <2>2, <2>3, NoField
  <2>8. Keys(text) = PlainKeys
    BY <2>1, <2>2, <2>3 DEF Keys, PlainKeys, OverheatKeys
  <2> QED
    BY <1>1, <2>1, <2>2, <2>4, <2>5, <2>6, <2>7, <2>8 DEF CriticalText, text, f, at
<1>2. CASE tenths # NoNumber
  <2>1. /\ text.title = "AMBAGRID" /\ f = CriticalFields(event, tenths)
        /\ DOMAIN f = 1..7 /\ Len(f) = 7
        /\ f[1] = Tag("v", "1") /\ f[2] = Tag("site", event.site)
        /\ f[3] = Tag("asset", event.asset) /\ f[4] = Number("seq", event.sequence)
        /\ f[5] = Tag("code", event.code) /\ f[6] = Number("temp", tenths)
        /\ f[7] = Number("ts", at)
    BY <1>2 DEF Format, Text, CriticalFields
  <2> HIDE DEF text, f, at
  <2>2. /\ f[1].key = "v" /\ f[2].key = "site" /\ f[3].key = "asset" /\ f[4].key = "seq"
        /\ f[5].key = "code" /\ f[6].key = "temp" /\ f[7].key = "ts"
        /\ f[1].token = "1" /\ f[2].token = event.site /\ f[3].token = event.asset
        /\ f[4].number = event.sequence /\ f[5].token = event.code
        /\ f[6].number = tenths /\ f[7].number = at
    BY <2>1 DEF Tag, Number
  <2>3. (\A i \in DOMAIN f : i \in {1, 2, 3, 4, 5, 6, 7}) /\ f = text.fields
    BY <2>1 DEF f
  <2>4. HasKey(text, "v") /\ Value(text, "v") = f[1] /\ Value(text, "site") = f[2]
    BY <2>1, <2>2, <2>3, FieldValue
  <2>5. Value(text, "asset") = f[3] /\ Value(text, "seq") = f[4]
    BY <2>1, <2>2, <2>3, FieldValue
  <2>6. HasKey(text, "code") /\ Value(text, "code") = f[5] /\ Value(text, "ts") = f[7]
    BY <2>1, <2>2, <2>3, FieldValue
  <2>7. HasKey(text, "temp") /\ Value(text, "temp") = f[6]
    BY <2>1, <2>2, <2>3, FieldValue
  <2>8. ~HasKey(text, "kind")
    BY <2>2, <2>3, NoField
  <2>9. Keys(text) = OverheatKeys
    BY <2>1, <2>2, <2>3 DEF Keys, PlainKeys, OverheatKeys
  <2> QED
    BY <1>2, <2>1, <2>2, <2>4, <2>5, <2>6, <2>7, <2>8, <2>9 DEF CriticalText, text, f, at
<1> QED  BY <1>1, <1>2

LEMMA DistinctKeys ==
  \A keys :
    \/ keys = PlainKeys
    \/ keys = OverheatKeys
    => \A i, j \in DOMAIN keys : keys[i] = keys[j] => i = j
<1>1. LET keys == PlainKeys IN DOMAIN keys = 1..6 /\ \A i, j \in 1..6 : keys[i] = keys[j] => i = j
  BY DEF PlainKeys
<1>2. LET keys == OverheatKeys IN DOMAIN keys = 1..7 /\ \A i, j \in 1..7 : keys[i] = keys[j] => i = j
  BY DEF OverheatKeys
<1> QED  BY <1>1, <1>2

\* A critical event Format writes is read as it was meant, its time to the second and its
\* temperature as the tenths written, and the webhook takes it for nothing else.  It is taken
\* at all unless its temperature is so low that it would be written as none.
THEOREM CriticalRoundTrip ==
  ASSUME NEW event \in [site : Tokens, asset : Tokens, sequence : Nat, code : Codes,
                        temperature : Int, at : Int],
         NEW tenths \in Tenths(event.temperature), Formattable(event, tenths)
  PROVE  LET text == Format(event, tenths)
             parsed == ParsedCritical(text)
         IN
         /\ IsCritical(text) =>
              /\ parsed = [event EXCEPT !.at = (event.at \div Second) * Second,
                                        !.temperature = parsed.temperature]
              /\ IF event.temperature = NoTemperature THEN parsed.temperature = NoTemperature
                 ELSE /\ tenths # NoNumber /\ parsed.temperature = 10 * tenths
                      /\ RoundsTo(event.temperature, tenths)
         /\ event.at >= Second /\ (tenths = NoNumber => event.temperature = NoTemperature)
              => IsCritical(text)
         /\ ~IsHeartbeat(text)
<1> DEFINE text == Format(event, tenths)
           f == text.fields
           parsed == ParsedCritical(text)
           at == event.at \div Second
<1>0. CriticalText(event, tenths, text) /\ text = Format(event, tenths)
  BY CriticalValues
<1> HIDE DEF text
<1>1. /\ text.title = "AMBAGRID" /\ f = CriticalFields(event, tenths)
      /\ \/ /\ tenths = NoNumber /\ Len(f) = 6 /\ DOMAIN f = 1..6
            /\ Keys(text) = PlainKeys
            /\ ~HasKey(text, "temp")
         \/ /\ tenths # NoNumber /\ Len(f) = 7 /\ DOMAIN f = 1..7
            /\ Keys(text) = OverheatKeys
            /\ HasKey(text, "temp") /\ Value(text, "temp").number = tenths
            /\ f[6].number = tenths
      /\ ~HasKey(text, "kind")
      /\ HasKey(text, "v") /\ Value(text, "v").token = "1"
      /\ HasKey(text, "code") /\ Value(text, "code").token = event.code
      /\ Value(text, "site").token = event.site /\ Value(text, "asset").token = event.asset
      /\ Value(text, "seq").number = event.sequence /\ Value(text, "ts").number = at
      /\ f[1].token = "1" /\ f[2].token = event.site /\ f[3].token = event.asset
      /\ f[4].number = event.sequence /\ f[5].token = event.code /\ f[Len(f)].number = at
  BY <1>0 DEF CriticalText
<1> USE DEF text
<1>2. /\ event.site \in PlainTokens /\ event.asset \in PlainTokens /\ event.sequence > 0
      /\ event.code \in Codes
      /\ event.code = "BATTERY_OVERHEAT" <=> event.temperature # NoTemperature
      /\ event.code = "SITE_OUTAGE" <=> event.asset = "site"
      /\ Septets(f) <= Room
  BY <1>1 DEF Formattable
<1>3. at \in Int /\ (event.at >= Second => at > 0)
  BY WholeSeconds
<1>4. /\ event.temperature = NoTemperature => tenths = NoNumber
      /\ event.temperature # NoTemperature => tenths \in Int /\ RoundsTo(event.temperature, tenths)
  BY DEF Tenths
<1>5. parsed.temperature = IF tenths = NoNumber THEN NoTemperature ELSE 10 * tenths
  <2> HIDE DEF text
  <2> QED  BY <1>1 DEF ParsedCritical
<1>6. parsed = [event EXCEPT !.at = at * Second, !.temperature = parsed.temperature]
  <2> DEFINE t == parsed.temperature
             c1 == [event EXCEPT !.at = at * Second]
             c2 == [c1 EXCEPT !.temperature = t]
  <2>1. parsed = [site |-> event.site, asset |-> event.asset, sequence |-> event.sequence,
                  code |-> event.code, temperature |-> t, at |-> at * Second]
    <3> HIDE DEF text, at
    <3> QED  BY <1>1 DEF ParsedCritical
  <2>2. [event EXCEPT !.at = at * Second, !.temperature = parsed.temperature] = c2
    OBVIOUS
  <2> HIDE DEF parsed, t, at
  <2>3. c1 = [site |-> event.site, asset |-> event.asset, sequence |-> event.sequence,
              code |-> event.code, temperature |-> event.temperature, at |-> at * Second]
    OBVIOUS
  <2> HIDE DEF c1
  <2>4. c2 = [site |-> event.site, asset |-> event.asset, sequence |-> event.sequence,
              code |-> event.code, temperature |-> t, at |-> at * Second]
    BY <2>3
  <2> QED  BY <2>1, <2>2, <2>4 DEF t
<1>7. ASSUME IsCritical(text), event.temperature # NoTemperature
      PROVE  tenths # NoNumber
  <2>1. event.code = "BATTERY_OVERHEAT"
    BY <1>2, <1>7
  <2>2. Keys(text) = OverheatKeys
    <3> HIDE DEF text
    <3> QED  BY <1>1, <1>7, <2>1 DEF IsCritical, CriticalKeys, OverheatKeys
  <2>3. OverheatKeys # PlainKeys
    BY DEF OverheatKeys, PlainKeys
  <2> HIDE DEF text, f
  <2> QED  BY <1>1, <2>2, <2>3
<1>8. ~IsHeartbeat(text)
  <2> HIDE DEF text, f
  <2> QED  BY <1>1 DEF IsHeartbeat
<1>9. ASSUME event.at >= Second, tenths = NoNumber => event.temperature = NoTemperature
      PROVE  IsCritical(text)
  <2> HIDE DEF text, f, at
  <2>1. \/ Len(f) = 6 /\ DOMAIN f = {1, 2, 3, 4, 5, 6}
        \/ Len(f) = 7 /\ DOMAIN f = {1, 2, 3, 4, 5, 6, 7} /\ f[6].number # NoNumber
    <3>1. 1..6 = {1, 2, 3, 4, 5, 6} /\ 1..7 = {1, 2, 3, 4, 5, 6, 7}
      OBVIOUS
    <3> QED  BY <1>1, <3>1
  <2>2. \A i \in DOMAIN f : f[i].token # NoToken \/ f[i].number # NoNumber
    <3>1. "1" # NoToken /\ event.code # NoToken
      BY <1>2, Zenon DEF NoToken, Codes
    <3>2. event.site # NoToken /\ event.asset # NoToken
      BY <1>2, MessageAssumption
    <3>3. f[4].number # NoNumber /\ f[Len(f)].number # NoNumber
      BY <1>1, <1>2, <1>3, <1>9 DEF NoNumber
    <3> QED  BY SMTT(30), <1>1, <2>1, <3>1, <3>2, <3>3
  <2>3. \A i, j \in DOMAIN f : Keys(text)[i] = Keys(text)[j] => i = j
    <3>1. DOMAIN Keys(text) = DOMAIN f
      BY DEF Keys, f
    <3> QED  BY <1>1, <3>1, DistinctKeys
  <2>7. Splits(text)
    <3>1. text.fields = f
      BY DEF f
    <3>2. Len(f) >= 6
      BY <2>1
    <3>3. \A g \in {f[i] : i \in DOMAIN f} : g.token # NoToken \/ g.number # NoNumber
      BY <2>2
    <3> QED  BY <1>1, <1>2, <2>3, <3>1, <3>2, <3>3 DEF Splits
  <2>4. Counted(text)
    BY <1>1, <1>2, <1>3, <1>9 DEF Counted
  <2>5. Keys(text) = CriticalKeys(Value(text, "code").token)
    BY <1>1, <1>2, <1>4, <1>9 DEF CriticalKeys, PlainKeys, OverheatKeys
  <2>6. HasKey(text, "temp") => Value(text, "temp").number # NoNumber
    BY <1>1
  <2> QED  BY <1>1, <1>2, <2>7, <2>4, <2>5, <2>6 DEF IsCritical
<1> QED  BY <1>4, <1>5, <1>6, <1>7, <1>8, <1>9

-----------------------------------------------------------------------------
(* Texts *)

USE DEF NoTime

\* What a text the webhook takes for a heartbeat was to say.
LEMMA HeartbeatMeant ==
  \A m : WrittenAsMeant(m) /\ IsHeartbeat(m.text) =>
    /\ m.meant \in HeartbeatType
    /\ ParsedHeartbeat(m.text) = [m.meant EXCEPT !.at = (m.meant.at \div Second) * Second]
<1> SUFFICES ASSUME NEW m, WrittenAsMeant(m), IsHeartbeat(m.text)
             PROVE  /\ m.meant \in HeartbeatType
                    /\ ParsedHeartbeat(m.text) =
                         [m.meant EXCEPT !.at = (m.meant.at \div Second) * Second]
  OBVIOUS
<1>1. CASE /\ m.meant \in HeartbeatType /\ HeartbeatFormattable(m.meant)
           /\ m.text = FormatHeartbeat(m.meant)
  <2>1. m.meant \in [site : Tokens, gateway : Tokens, sequence : Nat, interval : Nat, at : Int]
    BY <1>1, MessageAssumption DEF HeartbeatType, HeartbeatFormattable, HeartbeatFits
  <2> QED  BY <1>1, <2>1, HeartbeatRoundTrip
<1>2. ASSUME m.meant \in EventType, NEW tenths \in Tenths(m.meant.temperature),
             Formattable(m.meant, tenths), m.text = Format(m.meant, tenths)
      PROVE  FALSE
  <2>1. m.meant \in [site : Tokens, asset : Tokens, sequence : Nat, code : Codes,
                     temperature : Int, at : Int]
    BY <1>2, MessageAssumption DEF EventType, Formattable
  <2> QED  BY <1>2, <2>1, CriticalRoundTrip
<1> QED  BY <1>1, <1>2 DEF WrittenAsMeant

\* What a text the webhook takes for a critical event was to say.
LEMMA CriticalMeant ==
  \A m : WrittenAsMeant(m) /\ IsCritical(m.text) =>
    LET parsed == ParsedCritical(m.text) IN
    /\ m.meant \in EventType
    /\ parsed = [m.meant EXCEPT !.at = (m.meant.at \div Second) * Second,
                                !.temperature = parsed.temperature]
    /\ IF m.meant.temperature = NoTemperature THEN parsed.temperature = NoTemperature
       ELSE \E tenths \in Int : /\ parsed.temperature = 10 * tenths
                                /\ RoundsTo(m.meant.temperature, tenths)
<1> SUFFICES ASSUME NEW m, WrittenAsMeant(m), IsCritical(m.text)
             PROVE
    LET parsed == ParsedCritical(m.text) IN
    /\ m.meant \in EventType
    /\ parsed = [m.meant EXCEPT !.at = (m.meant.at \div Second) * Second,
                                !.temperature = parsed.temperature]
    /\ IF m.meant.temperature = NoTemperature THEN parsed.temperature = NoTemperature
       ELSE \E tenths \in Int : /\ parsed.temperature = 10 * tenths
                                /\ RoundsTo(m.meant.temperature, tenths)
  OBVIOUS
<1>1. ASSUME m.meant \in HeartbeatType, HeartbeatFormattable(m.meant),
             m.text = FormatHeartbeat(m.meant)
      PROVE  FALSE
  <2>1. m.meant \in [site : Tokens, gateway : Tokens, sequence : Nat, interval : Nat, at : Int]
    BY <1>1, MessageAssumption DEF HeartbeatType, HeartbeatFormattable, HeartbeatFits
  <2> QED  BY <1>1, <2>1, HeartbeatRoundTrip
<1>2. PICK tenths \in Tenths(m.meant.temperature) :
        m.meant \in EventType /\ Formattable(m.meant, tenths) /\ m.text = Format(m.meant, tenths)
  BY <1>1 DEF WrittenAsMeant
<1>3. m.meant \in [site : Tokens, asset : Tokens, sequence : Nat, code : Codes,
                   temperature : Int, at : Int]
  BY <1>2, MessageAssumption DEF EventType, Formattable
<1> DEFINE parsed == ParsedCritical(m.text)
<1>4. /\ parsed = [m.meant EXCEPT !.at = (m.meant.at \div Second) * Second,
                                  !.temperature = parsed.temperature]
      /\ IF m.meant.temperature = NoTemperature THEN parsed.temperature = NoTemperature
         ELSE /\ tenths # NoNumber /\ parsed.temperature = 10 * tenths
              /\ RoundsTo(m.meant.temperature, tenths)
  BY <1>2, <1>3, CriticalRoundTrip
<1>5. m.meant.temperature # NoTemperature => tenths \in Int
  BY <1>3 DEF Tenths
<1> HIDE DEF parsed
<1> QED  BY <1>2, <1>4, <1>5 DEF parsed

\* What is kept while texts are only added, or get the time the provider had them.
LEMMA TextsChange ==
  ASSUME SmsInv, UNCHANGED <<clock, sms_heartbeats, handed_over>>,
         sequences' \in [DOMAIN Gateways -> Nat],
         \A m \in texts' : WrittenAsMeant(m),
         \A m \in texts : \E n \in texts' :
           /\ n.id = m.id /\ n.text = m.text
           /\ m.received # NoTime => n.received = m.received
  PROVE  SmsInv'
<1>1. SmsTypeOK' /\ TextsInv'
  BY DEF SmsInv, SmsTypeOK, TextsInv
<1>2. \A m \in texts : \E n \in texts' :
        /\ \A row : RowOf(row, m) => RowOf(row, n)
        /\ \A handed : EventOf(handed, m) => EventOf(handed, n)
  BY DEF RowOf, EventOf
<1>3. ReceivedInv'
  BY <1>2 DEF SmsInv, ReceivedInv
<1> QED  BY <1>1, <1>3 DEF SmsInv

LEMMA SmsFrame ==
  ASSUME SmsInv, UNCHANGED sms, clock' \in Nat
  PROVE  SmsInv'
BY DEF SmsInv, SmsTypeOK, TextsInv, ReceivedInv, sms

\* A text on its way says what it was written from.
LEMMA SentInv ==
  ASSUME SmsInv, NEW g \in DOMAIN Gateways, NEW text, NEW meant,
         Send(text, meant, g), meant.at = clock + Skew[g],
         \/ meant \in HeartbeatType /\ HeartbeatFormattable(meant) /\ text = FormatHeartbeat(meant)
         \/ /\ meant \in EventType
            /\ \E tenths \in Tenths(meant.temperature) :
                 Formattable(meant, tenths) /\ text = Format(meant, tenths),
         UNCHANGED <<clock, sms_heartbeats, handed_over>>,
         sequences' \in [DOMAIN Gateways -> Nat]
  PROVE  SmsInv'
<1> DEFINE id == Cardinality(texts) + 1
           new == [id |-> id, from |-> g, text |-> text, meant |-> meant, sent |-> clock,
                   received |-> NoTime]
<1>1. texts' = texts \cup {new}
  BY DEF Send
<1>2. /\ DOMAIN new = {"id", "from", "text", "meant", "sent", "received"}
      /\ new.from = g /\ new.text = text /\ new.meant = meant /\ new.sent = clock
      /\ new.received = NoTime
  OBVIOUS
<1>3. clock \in Nat
  BY DEF SmsInv, SmsTypeOK
<1> HIDE DEF new
<1>4. WrittenAsMeant(new)
  BY <1>2, <1>3 DEF WrittenAsMeant
<1>5. \A m \in texts' : WrittenAsMeant(m)
  BY <1>1, <1>4 DEF SmsInv, TextsInv
<1> QED  BY <1>1, <1>5, TextsChange

LEMMA SendHeartbeatInv ==
  ASSUME SmsInv, NEW g \in DOMAIN Gateways, SendHeartbeat(g)
  PROVE  SmsInv'
<1> DEFINE h(interval) ==
             [site |-> Gateways[g], gateway |-> g, sequence |-> sequences[g] + 1,
              interval |-> interval, at |-> clock + Skew[g]]
<1>1. PICK interval \in Intervals :
        IF HeartbeatFormattable(h(interval))
          THEN Send(FormatHeartbeat(h(interval)), h(interval), g) ELSE UNCHANGED texts
  BY DEF SendHeartbeat
<1>2. /\ sequences' = [sequences EXCEPT ![g] = @ + 1]
      /\ UNCHANGED <<clock, sms_heartbeats, handed_over>>
  BY DEF SendHeartbeat
<1>3. sequences \in [DOMAIN Gateways -> Nat] /\ clock \in Nat
  BY DEF SmsInv, SmsTypeOK
<1>4. sequences' \in [DOMAIN Gateways -> Nat]
  BY <1>2, <1>3
<1>5. h(interval) \in HeartbeatType /\ h(interval).at = clock + Skew[g]
  BY <1>3, HealthAssumption DEF HeartbeatType
<1> HIDE DEF h
<1>6. CASE HeartbeatFormattable(h(interval))
  BY <1>1, <1>2, <1>4, <1>5, <1>6, SentInv
<1>7. CASE ~HeartbeatFormattable(h(interval))
  BY <1>1, <1>2, <1>4, <1>7, TextsChange DEF SmsInv, TextsInv
<1> QED  BY <1>6, <1>7

LEMMA SendCriticalInv ==
  ASSUME SmsInv, NEW g \in DOMAIN Gateways, SendCritical(g)
  PROVE  SmsInv'
<1> DEFINE event(i) ==
             [site |-> Gateways[g], asset |-> i.asset, sequence |-> i.sequence,
              code |-> i.code, temperature |-> i.temperature, at |-> clock + Skew[g]]
<1>1. PICK i \in Incidents : \E tenths \in Tenths(event(i).temperature) :
        Formattable(event(i), tenths) /\ Send(Format(event(i), tenths), event(i), g)
  BY DEF SendCritical
<1>2. UNCHANGED <<clock, sequences, sms_heartbeats, handed_over>>
  BY DEF SendCritical
<1>3. sequences \in [DOMAIN Gateways -> Nat] /\ clock \in Nat
  BY DEF SmsInv, SmsTypeOK
<1>4. i \in [asset : Tokens, sequence : Nat, code : Codes, temperature : Int]
  BY HealthAssumption
<1>5. event(i) \in EventType /\ event(i).at = clock + Skew[g]
  BY <1>3, <1>4, HealthAssumption DEF EventType
<1> HIDE DEF event
<1> QED  BY <1>1, <1>2, <1>3, <1>5, SentInv

LEMMA ProviderReceivesInv ==
  ASSUME SmsInv, NEW m \in texts, ProviderReceives(m)
  PROVE  SmsInv'
<1> DEFINE new == [m EXCEPT !.received = clock]
<1>1. /\ texts' = (texts \ {m}) \cup {new} /\ m.received = NoTime
      /\ UNCHANGED <<clock, sequences, sms_heartbeats, handed_over>>
  BY DEF ProviderReceives
<1>2. WrittenAsMeant(m) /\ clock \in Nat /\ sequences \in [DOMAIN Gateways -> Nat]
  BY DEF SmsInv, SmsTypeOK, TextsInv
<1>3. /\ DOMAIN new = DOMAIN m /\ new.id = m.id /\ new.from = m.from /\ new.text = m.text
      /\ new.meant = m.meant /\ new.sent = m.sent /\ new.received = clock
  BY <1>2 DEF WrittenAsMeant
<1> HIDE DEF new
<1>4. WrittenAsMeant(new)
  BY <1>2, <1>3 DEF WrittenAsMeant
<1>5. \A n \in texts' : WrittenAsMeant(n)
  BY <1>1, <1>4 DEF SmsInv, TextsInv
<1>6. \A k \in texts : \E n \in texts' :
        n.id = k.id /\ n.text = k.text /\ (k.received # NoTime => n.received = k.received)
  BY <1>1, <1>3
<1> QED  BY <1>1, <1>2, <1>5, <1>6, TextsChange

\* The row of a heartbeat has its key and its times.
LEMMA RowIsTyped ==
  \A row, m : /\ WrittenAsMeant(m) /\ RowOf(row, m)
              => /\ row.key = HeartbeatKey(m.meant) /\ row.site = m.meant.site
                 /\ row.interval = m.meant.interval
                 /\ row.sent_at = (m.meant.at \div Second) * Second
                 /\ row.contact_at = ContactAt(ParsedHeartbeat(m.text), m.received)
                 /\ row.expires_at = ExpiresAt(m.meant, row.contact_at)
                 /\ row \in [key : Sites \X (DOMAIN Gateways) \X Nat, site : Sites, interval : Nat,
                             sent_at : Int, contact_at : Int, expires_at : Int]
<1> SUFFICES ASSUME NEW row, NEW m, WrittenAsMeant(m), RowOf(row, m)
             PROVE  /\ row.key = HeartbeatKey(m.meant) /\ row.site = m.meant.site
                    /\ row.interval = m.meant.interval
                    /\ row.sent_at = (m.meant.at \div Second) * Second
                    /\ row.contact_at = ContactAt(ParsedHeartbeat(m.text), m.received)
                    /\ row.expires_at = ExpiresAt(m.meant, row.contact_at)
                    /\ row \in [key : Sites \X (DOMAIN Gateways) \X Nat, site : Sites,
                                interval : Nat, sent_at : Int, contact_at : Int,
                                expires_at : Int]
  OBVIOUS
<1> DEFINE h == ParsedHeartbeat(m.text)
           at == (m.meant.at \div Second) * Second
           contact == ContactAt(h, m.received)
<1>1. m.meant \in HeartbeatType /\ h = [m.meant EXCEPT !.at = at]
  BY HeartbeatMeant DEF RowOf
<1>2. row = InsertHeartbeat(h, contact) /\ m.received \in Nat
  BY DEF RowOf, WrittenAsMeant
<1>3. at \in Int
  BY <1>1, WholeSeconds DEF HeartbeatType
<1> HIDE DEF h, at
<1>4. /\ h.site = m.meant.site /\ h.gateway = m.meant.gateway /\ h.sequence = m.meant.sequence
      /\ h.interval = m.meant.interval /\ h.at = at
  BY <1>1 DEF HeartbeatType
<1>5. contact \in Int
  BY <1>2, <1>3, <1>4 DEF ContactAt
<1> HIDE DEF contact
<1>6. ExpiresAt(m.meant, contact) \in Int /\ ExpiresAt(h, contact) = ExpiresAt(m.meant, contact)
  BY <1>1, <1>4, <1>5 DEF ExpiresAt, HeartbeatType
<1>7. HeartbeatKey(m.meant) \in Sites \X (DOMAIN Gateways) \X Nat
      /\ HeartbeatKey(h) = HeartbeatKey(m.meant)
  BY <1>1, <1>4 DEF HeartbeatKey, HeartbeatType
<1>8. /\ row.key = HeartbeatKey(m.meant) /\ row.site = m.meant.site
      /\ row.interval = m.meant.interval /\ row.sent_at = at /\ row.contact_at = contact
      /\ row.expires_at = ExpiresAt(m.meant, contact)
  BY <1>2, <1>4, <1>6, <1>7 DEF InsertHeartbeat
<1>9. row = [key |-> row.key, site |-> row.site, interval |-> row.interval,
             sent_at |-> row.sent_at, contact_at |-> row.contact_at, expires_at |-> row.expires_at]
  BY <1>2 DEF InsertHeartbeat
<1>10. /\ row.key \in Sites \X (DOMAIN Gateways) \X Nat /\ row.site \in Sites
       /\ row.interval \in Nat /\ row.sent_at \in Int /\ row.contact_at \in Int
       /\ row.expires_at \in Int
  BY <1>1, <1>3, <1>5, <1>6, <1>7, <1>8 DEF HeartbeatType
<1> QED  BY <1>8, <1>9, <1>10 DEF at, contact, h

LEMMA ReceiveHeartbeatInv ==
  ASSUME SmsInv, NEW m \in texts, ReceiveHeartbeat(m)
  PROVE  SmsInv'
<1> DEFINE h == ParsedHeartbeat(m.text)
           new == InsertHeartbeat(h, ContactAt(h, m.received))
<1>1. /\ sms_heartbeats' \subseteq sms_heartbeats \cup {new}
      /\ IsHeartbeat(m.text) /\ m.received # NoTime
      /\ UNCHANGED <<clock, sequences, texts, handed_over>>
  BY DEF ReceiveHeartbeat, Delivered
<1>2. WrittenAsMeant(m)
  BY DEF SmsInv, TextsInv
<1>3. RowOf(new, m)
  BY <1>1 DEF RowOf
<1> HIDE DEF new, h
<1>4. new \in [key : Sites \X (DOMAIN Gateways) \X Nat, site : Sites, interval : Nat,
               sent_at : Int, contact_at : Int, expires_at : Int]
  BY <1>2, <1>3, RowIsTyped
<1> QED  BY <1>1, <1>3, <1>4 DEF SmsInv, SmsTypeOK, TextsInv, ReceivedInv

LEMMA ReceiveCriticalInv ==
  ASSUME SmsInv, NEW m \in texts, ReceiveCritical(m)
  PROVE  SmsInv'
<1> DEFINE new == [id |-> m.id, event |-> ParsedCritical(m.text)]
<1>1. /\ handed_over' = handed_over \cup {new} /\ IsCritical(m.text)
      /\ UNCHANGED <<clock, sequences, texts, sms_heartbeats>>
  BY DEF ReceiveCritical
<1>2. EventOf(new, m)
  BY <1>1 DEF EventOf
<1> HIDE DEF new
<1> QED  BY <1>1, <1>2 DEF SmsInv, SmsTypeOK, TextsInv, ReceivedInv

LEMMA SmsNext ==
  SmsInv /\ [Next]_vars => SmsInv'
<1> SUFFICES ASSUME SmsInv, [Next]_vars PROVE SmsInv'
  OBVIOUS
<1>1. clock \in Nat
  BY DEF SmsInv, SmsTypeOK
<1>2. CASE Texting
  <2>1. ASSUME NEW g \in DOMAIN Gateways, ReplaceStore(g)
        PROVE  SmsInv'
    <3>1. sequences' \in [DOMAIN Gateways -> Nat] /\ UNCHANGED <<clock, texts, sms_heartbeats, handed_over>>
      BY <2>1 DEF ReplaceStore, SmsInv, SmsTypeOK
    <3> QED  BY <3>1, TextsChange DEF SmsInv, TextsInv
  <2> QED
    BY <1>2, <2>1, SendHeartbeatInv, SendCriticalInv, ProviderReceivesInv, ReceiveHeartbeatInv,
       ReceiveCriticalInv DEF Texting
<1>3. CASE Serving
  <2>1. UNCHANGED <<clock, sms>>
    BY <1>3 DEF Serving, Receive, RecordContact, HandleRecord, Respond
  <2> QED  BY <1>1, <2>1, SmsFrame
<1>4. CASE Consuming
  <2>1. UNCHANGED <<clock, sms>>
    BY <1>4 DEF Consuming, Store, StoreFails, AutoCommit, Restart
  <2> QED  BY <1>1, <2>1, SmsFrame
<1>5. CASE Tick
  <2>1. UNCHANGED sms /\ clock' = clock + 1
    BY <1>5 DEF Tick
  <2> QED  BY <1>1, <2>1, SmsFrame
<1>6. CASE UNCHANGED vars
  BY <1>1, <1>6, SmsFrame DEF vars
<1> QED  BY <1>2, <1>3, <1>4, <1>5, <1>6 DEF Next

-----------------------------------------------------------------------------
(* The ingest endpoint *)

LEMMA IngestFrame ==
  ASSUME IngestInv, UNCHANGED ingest
  PROVE  IngestInv'
BY DEF IngestInv, IngestTypeOK, ContactsInv, AnswersAreTrue, ingest

\* What is asserted of one handler's request, and its frame.
RequestInv(request, met, topic, published) ==
  /\ request \in RequestType
  /\ request.pc # "idle" =>
       /\ Authenticates(request.batch) /\ HealthValid(request.batch)
       /\ request.contact_at # NoTime /\ (request.pc = "contact" => request.verdicts = << >>)
       /\ \E c \in met : c.site = AuthSite(request.batch) /\ c.at = request.contact_at
  /\ request.pc = "records" =>
       /\ \A i \in DOMAIN request.verdicts : request.verdicts[i] = "accepted" =>
            /\ request.batch.records[i].site = AuthSite(request.batch)
            /\ EventKey(AuthSite(request.batch), request.batch.records[i].sequence) \in published
       /\ \E o \in DOMAIN topic : topic[o] = HealthEvent(request)

TopicInv(met, topic) ==
  /\ topic \in Seq(HealthEventType)
  /\ \A o \in DOMAIN topic : \E c \in met : c.site = topic[o].site /\ c.at = topic[o].contact_at

LEMMA IngestParts ==
  /\ IngestInv <=> /\ requests = [r \in Handlers |-> requests[r]]
                   /\ \A r \in Handlers : RequestInv(requests[r], contacts, health_topic, telemetry)
                   /\ TopicInv(contacts, health_topic) /\ telemetry \subseteq Sites \X Nat
  /\ IngestInv' <=> /\ requests' = [r \in Handlers |-> requests'[r]]
                    /\ \A r \in Handlers :
                         RequestInv(requests'[r], contacts', health_topic', telemetry')
                    /\ TopicInv(contacts', health_topic') /\ telemetry' \subseteq Sites \X Nat
<1>1. IngestInv <=> /\ requests = [r \in Handlers |-> requests[r]]
                    /\ \A r \in Handlers : RequestInv(requests[r], contacts, health_topic, telemetry)
                    /\ TopicInv(contacts, health_topic) /\ telemetry \subseteq Sites \X Nat
  BY DEF IngestInv, IngestTypeOK, ContactsInv, AnswersAreTrue, RequestInv, TopicInv
<1>2. IngestInv' <=> /\ requests' = [r \in Handlers |-> requests'[r]]
                     /\ \A r \in Handlers :
                          RequestInv(requests'[r], contacts', health_topic', telemetry')
                     /\ TopicInv(contacts', health_topic') /\ telemetry' \subseteq Sites \X Nat
  BY DEF IngestInv, IngestTypeOK, ContactsInv, AnswersAreTrue, RequestInv, TopicInv
<1> QED  BY <1>1, <1>2

\* A request keeps what holds of it when contacts, the topic and the records only grow.
LEMMA RequestKept ==
  \A request, met, met2, topic, topic2, published, published2 :
    /\ RequestInv(request, met, topic, published)
    /\ met \subseteq met2 /\ published \subseteq published2
    /\ \A o \in DOMAIN topic : o \in DOMAIN topic2 /\ topic2[o] = topic[o]
    => RequestInv(request, met2, topic2, published2)
BY DEF RequestInv

LEMMA IdleRequest ==
  \A met, topic, published : RequestInv(HandlerIdle, met, topic, published)
<1>1. HandlerIdle.batch \in Batches
  BY HealthAssumption DEF HandlerIdle
<1>2. << >> \in Seq({"accepted", "validation_failed", "site_mismatch", "internal"})
  OBVIOUS
<1>3. HandlerIdle \in RequestType /\ HandlerIdle.pc = "idle"
  BY <1>1, <1>2 DEF HandlerIdle, RequestType
<1> QED  BY <1>3 DEF RequestInv

\* One handler moves on while contacts, the topic and the records only grow.
LEMMA RequestMoves ==
  ASSUME IngestInv, NEW r \in Handlers, NEW new, requests' = [requests EXCEPT ![r] = new],
         RequestInv(new, contacts', health_topic', telemetry'),
         contacts \subseteq contacts', telemetry \subseteq telemetry', telemetry' \subseteq Sites \X Nat,
         \A o \in DOMAIN health_topic : o \in DOMAIN health_topic' /\ health_topic'[o] = health_topic[o],
         TopicInv(contacts', health_topic')
  PROVE  IngestInv'
<1>1. /\ requests = [x \in Handlers |-> requests[x]]
      /\ \A x \in Handlers : RequestInv(requests[x], contacts, health_topic, telemetry)
  BY IngestParts
<1>2. \A x \in Handlers : RequestInv(requests[x], contacts', health_topic', telemetry')
  BY <1>1, RequestKept
<1>3. \A x \in Handlers : RequestInv(requests'[x], contacts', health_topic', telemetry')
  BY <1>1, <1>2
<1>4. requests' = [x \in Handlers |-> requests'[x]]
  BY <1>1
<1> QED  BY <1>3, <1>4, IngestParts

LEMMA TakenBatch ==
  \A batch \in Batches : Authenticates(batch) /\ HealthValid(batch) =>
    /\ batch.gateway \in DOMAIN Gateways /\ batch.depth \in Nat
    /\ batch.age \in Nat \cup {NoTime} /\ AuthSite(batch) \in Sites
    /\ batch.records \in Seq(RecordType)
BY HealthAssumption DEF BatchType, Authenticates, HealthValid, AuthSite

LEMMA ReceiveInv ==
  ASSUME IngestInv, clock \in Nat, NEW r \in Handlers, NEW batch \in Batches, Receive(r, batch)
  PROVE  IngestInv'
<1> DEFINE event == IF batch.age = NoTime THEN NoTime ELSE clock + Skew[batch.gateway] - batch.age
           new == [pc |-> "contact", batch |-> batch, contact_at |-> clock, last_event |-> event,
                   verdicts |-> << >>]
           contact == [id |-> Cardinality(contacts) + 1, site |-> AuthSite(batch), at |-> clock]
<1>1. /\ requests' = [requests EXCEPT ![r] = new] /\ contacts' = contacts \cup {contact}
      /\ Authenticates(batch) /\ HealthValid(batch) /\ UNCHANGED <<health_topic, telemetry>>
  <2>1. /\ requests' = [requests EXCEPT ![r] = [HandlerIdle EXCEPT
             !.pc = "contact", !.batch = batch, !.contact_at = clock, !.last_event = event]]
        /\ contacts' = contacts \cup {contact}
        /\ Authenticates(batch) /\ HealthValid(batch) /\ UNCHANGED <<health_topic, telemetry>>
    BY Zenon DEF Receive
  <2> DEFINE c1 == [HandlerIdle EXCEPT !.pc = "contact"]
             c2 == [c1 EXCEPT !.batch = batch]
             c3 == [c2 EXCEPT !.contact_at = clock]
             c4 == [c3 EXCEPT !.last_event = event]
  <2>2. requests' = [requests EXCEPT ![r] = c4]
    BY Zenon, <2>1
  <2> HIDE DEF event
  <2>3. c4 = new
    <3> DEFINE idle == HandlerIdle.batch
    <3>1. HandlerIdle = [pc |-> "idle", batch |-> idle, contact_at |-> NoTime,
                         last_event |-> NoTime, verdicts |-> << >>]
      BY DEF HandlerIdle
    <3> HIDE DEF idle
    <3>2. c1 = [pc |-> "contact", batch |-> idle, contact_at |-> NoTime,
                last_event |-> NoTime, verdicts |-> << >>]
      BY <3>1
    <3> HIDE DEF c1
    <3>3. c2 = [pc |-> "contact", batch |-> batch, contact_at |-> NoTime,
                last_event |-> NoTime, verdicts |-> << >>]
      BY <3>2
    <3> HIDE DEF c2
    <3>4. c3 = [pc |-> "contact", batch |-> batch, contact_at |-> clock,
                last_event |-> NoTime, verdicts |-> << >>]
      BY <3>3
    <3> HIDE DEF c3
    <3> QED  BY <3>4
  <2> HIDE DEF c4, new, contact
  <2> QED  BY <2>1, <2>2, <2>3
<1>2. /\ batch.gateway \in DOMAIN Gateways /\ batch.age \in Nat \cup {NoTime}
  BY <1>1, TakenBatch
<1>3. event \in Int
  BY <1>2, HealthAssumption
<1> HIDE DEF event
<1>4. << >> \in Seq({"accepted", "validation_failed", "site_mismatch", "internal"})
  OBVIOUS
<1>5. new \in RequestType
  BY <1>3, <1>4 DEF RequestType
<1>6. new.pc = "contact" /\ new.batch = batch /\ new.contact_at = clock /\ new.verdicts = << >>
  OBVIOUS
<1>7. contact \in contacts' /\ contact.site = AuthSite(batch) /\ contact.at = clock
  BY <1>1
<1> HIDE DEF new, contact
<1>8. RequestInv(new, contacts', health_topic', telemetry')
  BY <1>1, <1>5, <1>6, <1>7 DEF RequestInv
<1>9. TopicInv(contacts', health_topic') /\ telemetry' \subseteq Sites \X Nat
  BY <1>1, IngestParts DEF TopicInv
<1> QED  BY <1>1, <1>8, <1>9, RequestMoves

\* The event of a request that was taken is one of its contact.
LEMMA EventOfRequest ==
  \A request, met, topic, published :
    RequestInv(request, met, topic, published) /\ request.pc = "contact" =>
      LET event == HealthEvent(request) IN
      /\ event \in HealthEventType /\ event.depth = request.batch.depth
      /\ \E c \in met : c.site = event.site /\ c.at = event.contact_at
<1> SUFFICES ASSUME NEW request, NEW met, NEW topic, NEW published,
                    RequestInv(request, met, topic, published), request.pc = "contact"
             PROVE  LET event == HealthEvent(request) IN
                    /\ event \in HealthEventType /\ event.depth = request.batch.depth
                    /\ \E c \in met : c.site = event.site /\ c.at = event.contact_at
  OBVIOUS
<1>1. request \in RequestType /\ Authenticates(request.batch) /\ HealthValid(request.batch)
  BY DEF RequestInv
<1>2. /\ request.batch.gateway \in DOMAIN Gateways /\ request.batch.depth \in Nat
      /\ AuthSite(request.batch) \in Sites
  BY <1>1, TakenBatch DEF RequestType
<1>3. request.contact_at \in Nat /\ request.last_event \in Int
  BY <1>1 DEF RequestType, RequestInv
<1> QED  BY <1>2, <1>3 DEF RequestInv, HealthEvent, HealthEventType

LEMMA RecordContactInv ==
  ASSUME IngestInv, NEW r \in Handlers, RecordContact(r)
  PROVE  IngestInv'
<1> DEFINE request == requests[r]
           event == HealthEvent(request)
<1>1. /\ RequestInv(request, contacts, health_topic, telemetry) /\ request.pc = "contact"
      /\ TopicInv(contacts, health_topic) /\ telemetry \subseteq Sites \X Nat
      /\ requests = [x \in Handlers |-> requests[x]]
      /\ UNCHANGED <<contacts, telemetry>>
  BY IngestParts DEF RecordContact
<1>2. PICK o \in Outcomes :
        /\ health_topic' = IF o.landed THEN Append(health_topic, event) ELSE health_topic
        /\ IF o.acked THEN requests' = [requests EXCEPT ![r].pc = "records"] ELSE Answer(r)
  BY DEF RecordContact
<1>3. event \in HealthEventType /\ \E c \in contacts : c.site = event.site /\ c.at = event.contact_at
  BY <1>1, EventOfRequest
<1>4. o.acked => o.landed
  BY DEF Outcomes
<1> DEFINE grown == Append(health_topic, event)
           n == Len(health_topic) + 1
<1>5. /\ grown \in Seq(HealthEventType) /\ DOMAIN grown = DOMAIN health_topic \cup {n}
      /\ \A i \in DOMAIN health_topic : grown[i] = health_topic[i]
      /\ grown[n] = event
  <2>1. health_topic \in Seq(HealthEventType)
    BY <1>1 DEF TopicInv
  <2> HIDE DEF event
  <2> QED  BY <1>3, <2>1
<1>6. /\ \A i \in DOMAIN health_topic :
           i \in DOMAIN health_topic' /\ health_topic'[i] = health_topic[i]
      /\ TopicInv(contacts', health_topic')
      /\ o.landed => n \in DOMAIN health_topic' /\ health_topic'[n] = event
  <2> HIDE DEF grown, n, event, request
  <2>1. CASE o.landed
    <3>1. health_topic' = grown
      BY <1>2, <2>1 DEF grown
    <3>2. TopicInv(contacts, grown)
      BY <1>1, <1>3, <1>5 DEF TopicInv
    <3> QED  BY <1>1, <1>5, <3>1, <3>2
  <2>2. CASE ~o.landed
    BY <1>1, <1>2, <2>2 DEF TopicInv
  <2> QED  BY <2>1, <2>2
<1> HIDE DEF grown, n
<1>7. CASE o.acked
  <2> DEFINE new == [request EXCEPT !.pc = "records"]
  <2>1. requests' = [requests EXCEPT ![r] = new]
    BY <1>2, <1>7
  <2>2. request \in RequestType
    BY <1>1 DEF RequestInv
  <2>3. /\ new.pc = "records" /\ new.batch = request.batch /\ new.contact_at = request.contact_at
        /\ new.last_event = request.last_event /\ new.verdicts = request.verdicts
        /\ new \in RequestType
    <3> HIDE DEF request
    <3> QED  BY <2>2 DEF RequestType
  <2>4. HealthEvent(new) = event
    BY <2>3 DEF HealthEvent
  <2>5. RequestInv(new, contacts', health_topic', telemetry')
    <3> HIDE DEF new, event, request
    <3> QED  BY <1>1, <1>4, <1>6, <1>7, <2>3, <2>4 DEF RequestInv
  <2> HIDE DEF new
  <2> QED  BY <1>1, <1>6, <2>1, <2>5, RequestMoves
<1>8. CASE ~o.acked
  <2>1. requests' = [requests EXCEPT ![r] = HandlerIdle]
    BY <1>2, <1>8 DEF Answer
  <2> QED  BY <1>1, <1>6, <2>1, IdleRequest, RequestMoves
<1> QED  BY <1>7, <1>8

\* A record accepted is in the topic: "accepted" is the verdict on an acknowledged record only.
LEMMA HandleRecordInv ==
  ASSUME IngestInv, NEW r \in Handlers, HandleRecord(r)
  PROVE  IngestInv'
<1> DEFINE request == requests[r]
           record == NextRecord(r)
           site == AuthSite(request.batch)
           n == Len(request.verdicts) + 1
           key == EventKey(site, record.sequence)
<1>1. /\ RequestInv(request, contacts, health_topic, telemetry) /\ request.pc = "records"
      /\ TopicInv(contacts, health_topic) /\ telemetry \subseteq Sites \X Nat
      /\ requests = [x \in Handlers |-> requests[x]]
      /\ n - 1 < Len(request.batch.records)
      /\ UNCHANGED <<contacts, health_topic>>
  <2>1. request \in RequestType
    BY IngestParts DEF RequestInv
  <2>2. Len(request.verdicts) \in Nat
    BY <2>1 DEF RequestType
  <2> QED  BY <2>2, IngestParts DEF HandleRecord
<1>2. PICK o \in Outcomes :
        /\ telemetry' = IF RecordValid(record) /\ record.site = site /\ record.decodable /\ o.landed
                          THEN telemetry \cup {key} ELSE telemetry
        /\ requests' = [requests EXCEPT ![r].verdicts = Append(@, Verdict(record, site, o))]
  BY DEF HandleRecord
<1>3. o.acked => o.landed
  BY DEF Outcomes
<1>4. request \in RequestType /\ Authenticates(request.batch) /\ HealthValid(request.batch)
  BY <1>1 DEF RequestInv
<1>5. site \in Sites /\ request.batch.records \in Seq(RecordType)
  BY <1>4, TakenBatch DEF RequestType
<1>6. record = request.batch.records[n] /\ record \in RecordType
  <2>1. Len(request.verdicts) \in Nat
    BY <1>4 DEF RequestType
  <2>2. record = request.batch.records[n]
    BY DEF NextRecord
  <2> HIDE DEF record, request
  <2> QED  BY <1>1, <1>5, <2>1, <2>2
<1>7. key \in Sites \X Nat
  BY <1>5, <1>6 DEF EventKey, RecordType
<1> DEFINE verdict == Verdict(record, site, o)
           verdicts == Append(request.verdicts, verdict)
           new == [request EXCEPT !.verdicts = verdicts]
<1>8. /\ verdict \in {"accepted", "validation_failed", "site_mismatch", "internal"}
      /\ verdict = "accepted" => /\ RecordValid(record) /\ record.site = site
                                 /\ record.decodable /\ o.acked
  <2> HIDE DEF record, site
  <2> QED  BY DEF Verdict
<1>9. requests' = [requests EXCEPT ![r] = new]
  BY <1>2
<1> HIDE DEF verdict
<1>10. /\ verdicts \in Seq({"accepted", "validation_failed", "site_mismatch", "internal"})
       /\ DOMAIN verdicts = DOMAIN request.verdicts \cup {n}
       /\ \A i \in DOMAIN request.verdicts : verdicts[i] = request.verdicts[i]
       /\ verdicts[n] = verdict
  <2>1. request.verdicts \in Seq({"accepted", "validation_failed", "site_mismatch", "internal"})
    BY <1>4 DEF RequestType
  <2> HIDE DEF request
  <2> QED  BY <1>8, <2>1
<1> HIDE DEF verdicts
<1>11. /\ new.pc = "records" /\ new.batch = request.batch /\ new.contact_at = request.contact_at
       /\ new.last_event = request.last_event /\ new.verdicts = verdicts
       /\ new \in RequestType
  <2> HIDE DEF request
  <2> QED  BY <1>1, <1>4, <1>10 DEF RequestType
<1>12. HealthEvent(new) = HealthEvent(request)
  BY <1>11 DEF HealthEvent
<1>13. telemetry \subseteq telemetry' /\ telemetry' \subseteq Sites \X Nat
       /\ (verdict = "accepted" => key \in telemetry')
  <2> HIDE DEF key, record, site
  <2> QED  BY <1>1, <1>2, <1>3, <1>7, <1>8
<1> HIDE DEF new, n
<1>14. RequestInv(new, contacts', health_topic', telemetry')
  <2>1. \A i \in DOMAIN verdicts : verdicts[i] = "accepted" =>
          /\ request.batch.records[i].site = site
          /\ EventKey(site, request.batch.records[i].sequence) \in telemetry'
    <3> HIDE DEF request, record
    <3>1. CASE verdict = "accepted"
      BY <1>1, <1>6, <1>8, <1>10, <1>13 DEF RequestInv
    <3>2. CASE verdict # "accepted"
      BY <1>1, <1>10, <1>13, <3>2 DEF RequestInv
    <3> QED  BY <3>1, <3>2
  <2> HIDE DEF request, record
  <2> QED  BY <1>1, <1>11, <1>12, <2>1 DEF RequestInv
<1> HIDE DEF request, record, key
<1>15. requests' = [requests EXCEPT ![r] = new]
  BY <1>9
<1> QED  BY <1>1, <1>13, <1>14, <1>15, RequestMoves

LEMMA IngestNext ==
  clock \in Nat /\ IngestInv /\ [Next]_vars => IngestInv'
<1> SUFFICES ASSUME clock \in Nat, IngestInv, [Next]_vars PROVE IngestInv'
  OBVIOUS
<1>1. CASE Texting \/ Consuming \/ Tick \/ UNCHANGED vars
  <2>1. UNCHANGED ingest
    <3>1. CASE Texting
      BY <3>1 DEF Texting, SendHeartbeat, SendCritical, ReplaceStore, ProviderReceives,
                  ReceiveHeartbeat, ReceiveCritical
    <3>2. CASE Consuming
      BY <3>2 DEF Consuming, Store, StoreFails, AutoCommit, Restart
    <3> QED  BY <1>1, <3>1, <3>2 DEF Tick, vars
  <2> QED  BY <2>1, IngestFrame
<1>2. ASSUME NEW r \in Handlers, Respond(r)
      PROVE  IngestInv'
  <2>1. /\ requests' = [requests EXCEPT ![r] = HandlerIdle]
        /\ UNCHANGED <<contacts, health_topic, telemetry>>
    BY <1>2 DEF Respond, Answer
  <2>2. TopicInv(contacts', health_topic') /\ telemetry' \subseteq Sites \X Nat
    BY <2>1, IngestParts
  <2> QED  BY <2>1, <2>2, IdleRequest, RequestMoves
<1> QED
  BY <1>1, <1>2, ReceiveInv, RecordContactInv, HandleRecordInv DEF Next, Serving

-----------------------------------------------------------------------------
(* The site health consumer *)

\* What HealthIsNewest says of one site's row, of any observations of any topic.
Newest(s, row, seen, topic) ==
  LET of == {o \in seen : topic[o].site = s} IN
  /\ row = NoRow <=> of = {}
  /\ row # NoRow =>
       /\ \E o \in of : row = HealthRow(topic[o], row.growing)
       /\ \A o \in of : topic[o].contact_at <= row.contact_at
       /\ row.growing => \E o \in of : topic[o].contact_at < row.contact_at
                                       /\ topic[o].depth < row.depth

LEMMA NewestParts ==
  /\ HealthIsNewest <=> \A s \in Sites : Newest(s, site_health[s], observed, health_topic)
  /\ HealthIsNewest' <=> \A s \in Sites : Newest(s, site_health'[s], observed', health_topic')
<1>1. HealthIsNewest <=> \A s \in Sites : Newest(s, site_health[s], observed, health_topic)
  BY DEF HealthIsNewest, Newest
<1>2. HealthIsNewest' <=> \A s \in Sites : Newest(s, site_health'[s], observed', health_topic')
  BY DEF HealthIsNewest, Newest
<1> QED  BY <1>1, <1>2

\* The topic grows behind what was observed.
LEMMA NewestKept ==
  \A s, row, seen, topic, topic2 :
    /\ Newest(s, row, seen, topic)
    /\ \A o \in seen : topic2[o] = topic[o]
    => Newest(s, row, seen, topic2)
BY DEF Newest

LEMMA ConsumerFrame ==
  ASSUME ConsumerInv, UNCHANGED consumer, Len(health_topic) \in Nat, Len(health_topic') \in Nat,
         Len(health_topic) <= Len(health_topic'),
         \A o \in 1..Len(health_topic) : health_topic'[o] = health_topic[o]
  PROVE  ConsumerInv'
<1>1. ConsumerTypeOK'
  BY DEF ConsumerInv, ConsumerTypeOK, consumer
<1>2. \A s \in Sites : Newest(s, site_health[s], observed, health_topic)
  BY NewestParts DEF ConsumerInv
<1>3. observed \subseteq 1..Len(health_topic) /\ observed' = observed /\ site_health' = site_health
  BY DEF ConsumerInv, ConsumerTypeOK, consumer
<1>4. HealthIsNewest'
  BY <1>2, <1>3, NewestKept, NewestParts
<1> QED  BY <1>1, <1>4 DEF ConsumerInv

\* Rows of events, and of none, are told apart, and growing is what the upsert computes.
LEMMA RowOfEvent ==
  \A event \in HealthEventType, growing \in BOOLEAN :
    LET row == HealthRow(event, growing) IN
    /\ row # NoRow /\ row.contact_at = event.contact_at /\ row.depth = event.depth
    /\ row.growing = growing /\ row.last_event = event.last_event
    /\ row \in [gateway : DOMAIN Gateways \cup {NoToken}, contact_at : Nat \cup {NoTime},
                last_event : Int, depth : Nat, growing : BOOLEAN]
BY DEF HealthRow, NoRow, HealthEventType

\* The upsert keeps the newest contact, whatever is delivered again.
LEMMA UpsertedIsNewest ==
  ASSUME NEW topic \in Seq(HealthEventType), NEW seen \in SUBSET (DOMAIN topic),
         NEW p \in DOMAIN topic, NEW row, Newest(topic[p].site, row, seen, topic)
  PROVE  Newest(topic[p].site, Upserted(row, topic[p]),
                seen \cup {p}, topic)
<1> DEFINE event == topic[p]
           s == event.site
           of == {o \in seen : topic[o].site = s}
           all == {o \in seen \cup {p} : topic[o].site = s}
           new == Upserted(row, event)
<1>1. /\ \A o \in DOMAIN topic : topic[o] \in HealthEventType
      /\ of \subseteq DOMAIN topic /\ all = of \cup {p} /\ event \in HealthEventType
  OBVIOUS
<1>2. /\ row = NoRow <=> of = {}
      /\ row # NoRow =>
           /\ \E o \in of : row = HealthRow(topic[o], row.growing)
           /\ \A o \in of : topic[o].contact_at <= row.contact_at
           /\ row.growing => \E o \in of : topic[o].contact_at < row.contact_at
                                           /\ topic[o].depth < row.depth
  BY DEF Newest
<1> HIDE DEF of, all, new, event
<1>3. SUFFICES /\ new # NoRow
               /\ \E o \in all : new = HealthRow(topic[o], new.growing)
               /\ \A o \in all : topic[o].contact_at <= new.contact_at
               /\ new.growing => \E o \in all : topic[o].contact_at < new.contact_at
                                                /\ topic[o].depth < new.depth
  BY <1>1 DEF Newest, all, new, event
<1>4. CASE row = NoRow
  <2>1. new = HealthRow(event, FALSE) /\ of = {}
    BY <1>2, <1>4 DEF Upserted, new
  <2>2. new # NoRow /\ new.contact_at = event.contact_at /\ new = HealthRow(event, new.growing)
        /\ ~new.growing
    <3>1. FALSE \in BOOLEAN
      OBVIOUS
    <3>2. new # NoRow /\ new.contact_at = event.contact_at
      BY <1>1, <2>1, <3>1, RowOfEvent
    <3>3. new.growing = FALSE
      BY <2>1 DEF HealthRow
    <3> QED  BY <2>1, <3>2, <3>3
  <2>3. all = {p} /\ topic[p] = event /\ event.contact_at \in Nat
    BY <1>1, <2>1 DEF event, HealthEventType
  <2>4. \A o \in all : topic[o].contact_at <= new.contact_at
    BY <2>2, <2>3
  <2>5. \E o \in all : new = HealthRow(topic[o], new.growing)
    BY Zenon, <2>2, <2>3
  <2> QED  BY Zenon, <2>2, <2>4, <2>5
<1>5. CASE row # NoRow
  <2>1. PICK o \in of : row = HealthRow(topic[o], row.growing)
    BY <1>2, <1>5
  <2>2. row.contact_at = topic[o].contact_at /\ row.depth = topic[o].depth
    BY <2>1 DEF HealthRow
  <2>3. /\ \A i \in all : topic[i] \in HealthEventType
        /\ topic[o].contact_at \in Nat /\ topic[o].depth \in Nat
        /\ event.contact_at \in Nat /\ event.depth \in Nat /\ o \in all /\ p \in all
        /\ topic[p] = event /\ \A i \in of : topic[i].contact_at \in Nat
    BY <1>1, <2>1 DEF HealthEventType, event
  <2>4. CASE event.contact_at > row.contact_at
    <3>1. new = HealthRow(event, event.depth > row.depth)
      BY <1>5, <2>4 DEF Upserted, new
    <3> DEFINE growing == event.depth > row.depth
    <3>2. /\ new # NoRow /\ new.contact_at = event.contact_at /\ new.depth = event.depth
          /\ new = HealthRow(event, new.growing)
          /\ new.growing => event.depth > row.depth
      <4>1. growing \in BOOLEAN
        OBVIOUS
      <4>2. new = HealthRow(event, growing)
        BY <3>1
      <4>3. growing => event.depth > row.depth
        OBVIOUS
      <4> HIDE DEF growing
      <4>4. new.growing = growing
        BY <4>2 DEF HealthRow
      <4>5. new # NoRow /\ new.contact_at = event.contact_at /\ new.depth = event.depth
        BY <1>1, <4>1, <4>2, RowOfEvent
      <4> QED  BY <4>2, <4>3, <4>4, <4>5
    <3>3. \A i \in all : topic[i].contact_at <= new.contact_at
      BY <1>1, <1>2, <1>5, <2>2, <2>3, <2>4, <3>2
    <3>4. new.growing => topic[o].contact_at < new.contact_at /\ topic[o].depth < new.depth
      BY <2>2, <2>3, <2>4, <3>2
    <3> QED  BY <2>3, <3>1, <3>2, <3>3, <3>4
  <2>5. CASE ~(event.contact_at > row.contact_at)
    <3>1. new = row
      BY <1>5, <2>5 DEF Upserted, new
    <3> QED  BY <1>1, <1>2, <1>5, <2>2, <2>3, <2>5, <3>1
  <2> QED  BY <2>4, <2>5
<1> QED  BY <1>4, <1>5

LEMMA StoreInv ==
  ASSUME ConsumerInv, health_topic \in Seq(HealthEventType), Store
  PROVE  ConsumerInv'
<1> DEFINE event == health_topic[position]
           s == event.site
           RowType == [gateway : DOMAIN Gateways \cup {NoToken}, contact_at : Nat \cup {NoTime},
                       last_event : Int, depth : Nat, growing : BOOLEAN]
<1>1. /\ site_health' = [site_health EXCEPT ![s] = Upserted(@, event)]
      /\ position' = position + 1 /\ stored' = position + 1 /\ committed' = committed
      /\ observed' = observed \cup {position} /\ skipped' = skipped
      /\ health_topic' = health_topic /\ position <= Len(health_topic)
  BY DEF Store, ingest
<1>2. /\ position \in 1..(Len(health_topic) + 1) /\ stored \in 1..position /\ committed \in 1..stored
      /\ observed \subseteq 1..Len(health_topic) /\ skipped \subseteq 1..Len(health_topic)
      /\ site_health \in [Sites -> RowType]
      /\ \A x \in Sites : Newest(x, site_health[x], observed, health_topic)
  BY NewestParts DEF ConsumerInv, ConsumerTypeOK
<1>3. /\ position \in DOMAIN health_topic /\ event \in HealthEventType /\ s \in Sites
      /\ DOMAIN health_topic = 1..Len(health_topic) /\ Len(health_topic) \in Nat
  <2> HIDE DEF RowType, event, s
  <2>1. DOMAIN health_topic = 1..Len(health_topic) /\ Len(health_topic) \in Nat
    OBVIOUS
  <2>2. position \in DOMAIN health_topic
    BY <1>1, <1>2, <2>1
  <2>3. \A o \in DOMAIN health_topic : health_topic[o] \in HealthEventType
    OBVIOUS
  <2>4. event \in HealthEventType
    BY <2>2, <2>3 DEF event
  <2>5. event.site \in Sites
    BY <2>4 DEF HealthEventType
  <2> QED  BY <2>1, <2>2, <2>4, <2>5 DEF s
<1> HIDE DEF RowType
<1>4. Upserted(site_health[s], event) \in RowType
  <2> HIDE DEF event, s
  <2>1. site_health[s] \in RowType
    BY <1>2, <1>3
  <2>2. \A growing \in BOOLEAN : HealthRow(event, growing) \in RowType
    BY <1>3, RowOfEvent DEF RowType
  <2>3. (event.depth > site_health[s].depth) \in BOOLEAN /\ FALSE \in BOOLEAN
    OBVIOUS
  <2> QED  BY <2>1, <2>2, <2>3, Zenon DEF Upserted
<1>5. site_health' \in [Sites -> RowType]
  BY <1>1, <1>2, <1>3, <1>4
<1>6. ConsumerTypeOK'
  <2> HIDE DEF event, s
  <2>1. /\ position' \in 1..(Len(health_topic') + 1) /\ stored' \in 1..position'
        /\ committed' \in 1..stored'
    BY <1>1, <1>2, <1>3
  <2>2. observed' \subseteq 1..Len(health_topic') /\ skipped' \subseteq 1..Len(health_topic')
    BY <1>1, <1>2, <1>3
  <2> QED  BY <1>5, <2>1, <2>2 DEF ConsumerTypeOK, RowType
<1>7. ASSUME NEW x \in Sites
      PROVE  Newest(x, site_health'[x], observed', health_topic')
  <2>1. CASE x = s
    <3>1. Newest(s, Upserted(site_health[s], event), observed \cup {position}, health_topic)
      BY <1>2, <1>3, UpsertedIsNewest
    <3>2. site_health'[x] = Upserted(site_health[s], event)
      BY <1>1, <1>2, <1>3, <2>1
    <3> HIDE DEF event, s
    <3> QED  BY <1>1, <2>1, <3>1, <3>2
  <2>2. CASE x # s
    <3>1. {o \in observed' : health_topic'[o].site = x} = {o \in observed : health_topic[o].site = x}
      BY <1>1, <2>2
    <3>2. site_health'[x] = site_health[x] /\ health_topic' = health_topic
      BY <1>1, <1>2, <1>3, <2>2
    <3>3. Newest(x, site_health[x], observed, health_topic)
      BY <1>2
    <3> HIDE DEF event, s
    <3> QED  BY <3>1, <3>2, <3>3 DEF Newest
  <2> QED  BY <2>1, <2>2
<1>8. HealthIsNewest'
  BY <1>7, NewestParts
<1> QED  BY <1>6, <1>8 DEF ConsumerInv

LEMMA ConsumerNext ==
  ConsumerInv /\ IngestInv /\ [Next]_vars => ConsumerInv'
<1> SUFFICES ASSUME ConsumerInv, IngestInv, [Next]_vars PROVE ConsumerInv'
  OBVIOUS
<1>1. health_topic \in Seq(HealthEventType)
  BY DEF IngestInv, IngestTypeOK
<1>2. CASE Texting \/ Tick \/ UNCHANGED vars \/ \E r \in Handlers : \/ \E b \in Batches : Receive(r, b)
                                                                    \/ HandleRecord(r) \/ Respond(r)
  <2>1. UNCHANGED consumer /\ health_topic' = health_topic
    <3>1. CASE Texting
      BY <3>1 DEF Texting, SendHeartbeat, SendCritical, ReplaceStore, ProviderReceives,
                  ReceiveHeartbeat, ReceiveCritical, ingest
    <3>2. CASE \E r \in Handlers : (\E b \in Batches : Receive(r, b)) \/ HandleRecord(r) \/ Respond(r)
      BY <3>2 DEF Receive, HandleRecord, Respond
    <3> QED  BY <1>2, <3>1, <3>2 DEF Tick, vars, ingest
  <2>2. Len(health_topic) \in Nat
    BY <1>1
  <2> QED  BY <2>1, <2>2, ConsumerFrame
<1>3. ASSUME NEW r \in Handlers, RecordContact(r)
      PROVE  ConsumerInv'
  <2>1. UNCHANGED consumer
    BY <1>3 DEF RecordContact
  <2>2. health_topic' = health_topic \/ \E e : health_topic' = Append(health_topic, e)
    BY <1>3 DEF RecordContact
  <2>3. /\ Len(health_topic) \in Nat /\ Len(health_topic') \in Nat
        /\ Len(health_topic) <= Len(health_topic')
        /\ \A o \in 1..Len(health_topic) : health_topic'[o] = health_topic[o]
    BY <1>1, <2>2
  <2> QED  BY <2>1, <2>3, ConsumerFrame
<1>4. CASE StoreFails \/ AutoCommit \/ Restart
  <2>1. /\ UNCHANGED <<health_topic, observed, site_health>>
        /\ \/ /\ position <= Len(health_topic) /\ position' = position + 1
              /\ skipped' = skipped \cup {position} /\ UNCHANGED <<stored, committed>>
           \/ /\ committed' = stored /\ UNCHANGED <<position, stored, skipped>>
           \/ /\ position' = committed /\ stored' = committed /\ UNCHANGED <<committed, skipped>>
    BY <1>4 DEF StoreFails, AutoCommit, Restart, ingest
  <2>2. ConsumerTypeOK'
    <3>1. Len(health_topic) \in Nat
      BY <1>1
    <3>2. /\ position \in 1..(Len(health_topic) + 1) /\ stored \in 1..position
          /\ committed \in 1..stored
          /\ observed \subseteq 1..Len(health_topic) /\ skipped \subseteq 1..Len(health_topic)
      BY DEF ConsumerInv, ConsumerTypeOK
    <3>3. /\ position' \in 1..(Len(health_topic) + 1) /\ stored' \in 1..position'
          /\ committed' \in 1..stored'
          /\ observed' \subseteq 1..Len(health_topic) /\ skipped' \subseteq 1..Len(health_topic)
      <4> DEFINE n == Len(health_topic)
      <4>1. CASE position <= n /\ position' = position + 1
                 /\ skipped' = skipped \cup {position} /\ UNCHANGED <<stored, committed, observed>>
        <5>1. position \in 1..n
          <6> HIDE DEF n
          <6> QED  BY <3>1, <3>2, <4>1 DEF n
        <5> HIDE DEF n
        <5> QED  BY <3>1, <3>2, <4>1, <5>1 DEF n
      <4>2. CASE committed' = stored /\ UNCHANGED <<position, stored, skipped, observed>>
        BY <3>1, <3>2, <4>2
      <4>3. CASE position' = committed /\ stored' = committed
                 /\ UNCHANGED <<committed, skipped, observed>>
        BY <3>1, <3>2, <4>3
      <4> QED  BY Zenon, <2>1, <4>1, <4>2, <4>3
    <3>4. Len(health_topic') = Len(health_topic)
      BY <2>1
    <3> QED  BY <2>1, <3>3, <3>4 DEF ConsumerInv, ConsumerTypeOK
  <2>3. HealthIsNewest'
    BY <2>1, NewestParts DEF ConsumerInv
  <2> QED  BY <2>2, <2>3 DEF ConsumerInv
<1> QED  BY <1>1, <1>2, <1>3, <1>4, StoreInv DEF Next, Serving, Consuming

-----------------------------------------------------------------------------
(* The theorems *)

LEMMA InitInv == Init => IndInv
<1> SUFFICES ASSUME Init PROVE IndInv
  OBVIOUS
<1>1. SmsInv
  BY HealthAssumption DEF Init, SmsInv, SmsTypeOK, TextsInv, ReceivedInv
<1>2. IngestInv
  <2>1. /\ requests = [r \in Handlers |-> requests[r]]
        /\ \A r \in Handlers : RequestInv(requests[r], contacts, health_topic, telemetry)
    BY IdleRequest DEF Init
  <2>2. TopicInv(contacts, health_topic) /\ telemetry \subseteq Sites \X Nat
    BY DEF Init, TopicInv
  <2> QED  BY <2>1, <2>2, IngestParts
<1>3. ConsumerTypeOK
  <2>1. NoRow \in [gateway : DOMAIN Gateways \cup {NoToken}, contact_at : Nat \cup {NoTime},
                   last_event : Int, depth : Nat, growing : BOOLEAN]
    BY DEF NoRow
  <2> HIDE DEF NoRow
  <2> QED  BY <2>1 DEF Init, ConsumerTypeOK
<1>4. HealthIsNewest
  BY DEF Init, HealthIsNewest
<1> QED  BY <1>1, <1>2, <1>3, <1>4 DEF IndInv, ConsumerInv

\* The invariant holds of every site, gateway and handler, whatever is lost, delayed, delivered
\* again or out of order.
THEOREM Invariance == Spec => []IndInv
<1>1. IndInv => clock \in Nat
  BY DEF IndInv, SmsInv, SmsTypeOK
<1>2. IndInv /\ [Next]_vars => IndInv'
  BY <1>1, SmsNext, IngestNext, ConsumerNext DEF IndInv
<1> QED  BY <1>2, InitInv, PTL DEF Spec

\* The tables, the topic and the handlers keep the types of their columns.
THEOREM TypeCorrectness == Spec => []TypeOK
<1>1. IndInv => TypeOK
  BY DEF IndInv, SmsInv, IngestInv, ConsumerInv, TypeOK
<1> QED  BY <1>1, Invariance, PTL

\* What the edge agent is told of a batch is true.
THEOREM AnswersTheorem == Spec => []AnswersAreTrue
<1>1. IndInv => AnswersAreTrue
  BY DEF IndInv, IngestInv
<1> QED  BY <1>1, Invariance, PTL

\* A site's row is its newest contact the engine stored, and "growing" is an observation.
THEOREM NewestTheorem == Spec => []HealthIsNewest
<1>1. IndInv => HealthIsNewest
  BY DEF IndInv, ConsumerInv
<1> QED  BY <1>1, Invariance, PTL

\* Every contact below the committed offset was stored, or its store failed: a restart and the
\* commits, which also cover what failed (site_health.rs), pass over none.
THEOREM TriedTheorem == Spec => []ContactsTried
<1>1. Init => ReadWasTried
  BY DEF Init, ReadWasTried
<1>2. IndInv /\ ReadWasTried /\ [Next]_vars => ReadWasTried'
  <2> SUFFICES ASSUME IndInv, ReadWasTried, [Next]_vars PROVE ReadWasTried'
    OBVIOUS
  <2>1. position \in Nat /\ committed \in Nat /\ committed <= position
    BY DEF IndInv, ConsumerInv, ConsumerTypeOK, IngestInv, IngestTypeOK
  <2>2. CASE UNCHANGED consumer
    BY <2>2 DEF ReadWasTried, consumer
  <2>3. CASE Store
    BY <2>1, <2>3 DEF ReadWasTried, Store
  <2>4. CASE StoreFails
    BY <2>1, <2>4 DEF ReadWasTried, StoreFails
  <2>5. CASE AutoCommit
    BY <2>5 DEF ReadWasTried, AutoCommit
  <2>6. CASE Restart
    BY <2>1, <2>6 DEF ReadWasTried, Restart
  <2>7. [Texting \/ Serving \/ Tick]_vars => UNCHANGED consumer
    BY DEF Texting, Serving, Tick, SendHeartbeat, SendCritical, ReplaceStore, ProviderReceives,
           ReceiveHeartbeat, ReceiveCritical, Receive, RecordContact, HandleRecord, Respond, vars
  <2> QED  BY <2>2, <2>3, <2>4, <2>5, <2>6, <2>7 DEF Next, Consuming
<1>3. IndInv /\ ReadWasTried => ContactsTried
  BY DEF IndInv, ConsumerInv, ConsumerTypeOK, IngestInv, IngestTypeOK, ReadWasTried, ContactsTried
<1> QED  BY <1>1, <1>2, <1>3, Invariance, PTL DEF Spec

\* What the API has from texts, the gateways meant.
THEOREM MeaningTheorem == Spec => []TextsMeanWhatWasSent
<1>1. IndInv => TextsMeanWhatWasSent
  <2> SUFFICES ASSUME IndInv PROVE TextsMeanWhatWasSent
    OBVIOUS
  <2>1. ASSUME NEW row \in sms_heartbeats
        PROVE  \E m \in texts :
                 /\ IsHeartbeat(m.text) /\ row.key = HeartbeatKey(m.meant)
                 /\ row.interval = m.meant.interval
                 /\ row.sent_at <= m.meant.at /\ m.meant.at < row.sent_at + Second
    <3>1. PICK m \in texts : RowOf(row, m) /\ WrittenAsMeant(m)
      BY DEF IndInv, SmsInv, ReceivedInv, TextsInv
    <3>2. IsHeartbeat(m.text) /\ m.meant \in HeartbeatType
      BY <3>1, HeartbeatMeant DEF RowOf
    <3>3. m.meant.at \in Int
      BY <3>2 DEF HeartbeatType
    <3> QED  BY <3>1, <3>2, <3>3, RowIsTyped, WholeSeconds
  <2>2. ASSUME NEW handed \in handed_over
        PROVE  \E m \in texts :
                 /\ m.id = handed.id /\ IsCritical(m.text)
                 /\ handed.event = [m.meant EXCEPT !.at = handed.event.at,
                                                   !.temperature = handed.event.temperature]
                 /\ handed.event.at <= m.meant.at /\ m.meant.at < handed.event.at + Second
                 /\ IF m.meant.temperature = NoTemperature
                      THEN handed.event.temperature = NoTemperature
                      ELSE RoundsTo(m.meant.temperature, handed.event.temperature \div 10)
    <3>1. PICK m \in texts : EventOf(handed, m) /\ WrittenAsMeant(m)
      BY DEF IndInv, SmsInv, ReceivedInv, TextsInv
    <3> DEFINE event == handed.event
               at == (m.meant.at \div Second) * Second
    <3>2. /\ m.id = handed.id /\ IsCritical(m.text) /\ m.meant \in EventType
          /\ event = [m.meant EXCEPT !.at = at, !.temperature = event.temperature]
          /\ IF m.meant.temperature = NoTemperature THEN event.temperature = NoTemperature
             ELSE \E tenths \in Int : /\ event.temperature = 10 * tenths
                                      /\ RoundsTo(m.meant.temperature, tenths)
      BY <3>1, CriticalMeant DEF EventOf
    <3>3. m.meant.at \in Int
      BY <3>2 DEF EventType
    <3>4. at <= m.meant.at /\ m.meant.at < at + Second
      BY <3>3, WholeSeconds
    <3>5. m.meant.temperature # NoTemperature => RoundsTo(m.meant.temperature, event.temperature \div 10)
      <4>1. ASSUME NEW tenths \in Int PROVE (10 * tenths) \div 10 = tenths
        OBVIOUS
      <4> HIDE DEF event
      <4> QED  BY <3>2, <4>1
    <3>6. event.at = at
      <4> DEFINE t == event.temperature
                 c == [m.meant EXCEPT !.at = at]
      <4>1. event = [c EXCEPT !.temperature = t]
        BY <3>2
      <4>2. c.at = at /\ "at" \in DOMAIN c
        BY <3>2 DEF EventType
      <4> HIDE DEF c, t, at, event
      <4> QED  BY <4>1, <4>2
    <3> HIDE DEF event, at
    <3>7. event = [m.meant EXCEPT !.at = event.at, !.temperature = event.temperature]
      BY Zenon, <3>2, <3>6
    <3> QED  BY Zenon, <3>2, <3>4, <3>5, <3>6, <3>7 DEF event
  <2> QED  BY <2>1, <2>2 DEF TextsMeanWhatWasSent
<1> QED  BY <1>1, Invariance, PTL

\* A longer time since the contact is a later deadline.
LEMMA LaterDeadline ==
  ASSUME NEW h, h.interval \in Nat, NEW a \in Int, NEW b \in Int, a <= b
  PROVE  /\ ExpiresAt(h, a) \in Int /\ ExpiresAt(h, b) \in Int
         /\ ExpiresAt(h, a) <= ExpiresAt(h, b)
<1> DEFINE grace == (5 * h.interval) \div 2
<1>1. grace \in Int
  OBVIOUS
<1> HIDE DEF grace
<1> QED  BY <1>1 DEF ExpiresAt, grace

\* A row that keeps a site from being shown offline stands for a text whose 2.5 intervals run.
LEMMA FreshHeartbeat ==
  ASSUME NEW row, NEW m, WrittenAsMeant(m), RowOf(row, m), NEW now \in Int, row.expires_at > now
  PROVE  /\ IsHeartbeat(m.text) /\ m.meant.site = row.site /\ m.received # NoTime
         /\ now < ExpiresAt(m.meant, m.received)
         /\ now < ExpiresAt(m.meant, m.sent + Ahead(m))
<1> DEFINE h == ParsedHeartbeat(m.text)
           at == (m.meant.at \div Second) * Second
           left == m.sent + Ahead(m)
<1>1. IsHeartbeat(m.text) /\ m.received # NoTime
  BY DEF RowOf
<1>2. /\ m.meant \in HeartbeatType
      /\ h = [m.meant EXCEPT !.at = at]
  BY <1>1, HeartbeatMeant
<1>3. m.meant.at \in Int /\ m.meant.interval \in Nat /\ h.at = at
  BY <1>2 DEF HeartbeatType
<1>4. /\ m.sent \in Nat /\ m.received \in Nat /\ m.meant.at = m.sent + Skew[m.from]
      /\ Skew[m.from] \in Int
  BY <1>1, HealthAssumption DEF WrittenAsMeant
<1>5. at \in Int /\ at <= m.meant.at
  BY <1>3, WholeSeconds
<1>6. left \in Int /\ m.meant.at <= left
  BY <1>4 DEF Ahead
<1>7. /\ row.site = m.meant.site /\ row.contact_at = ContactAt(h, m.received)
      /\ row.expires_at = ExpiresAt(m.meant, row.contact_at)
  BY RowIsTyped
<1> HIDE DEF h, at, left
<1>8. /\ row.contact_at \in Int /\ row.contact_at <= m.received /\ row.contact_at <= left
  BY <1>3, <1>4, <1>5, <1>6, <1>7 DEF ContactAt
<1>9. /\ ExpiresAt(m.meant, row.contact_at) \in Int
      /\ ExpiresAt(m.meant, m.received) \in Int
      /\ ExpiresAt(m.meant, row.contact_at) <= ExpiresAt(m.meant, m.received)
  BY <1>3, <1>4, <1>8, LaterDeadline
<1>10. /\ ExpiresAt(m.meant, left) \in Int
       /\ ExpiresAt(m.meant, row.contact_at) <= ExpiresAt(m.meant, left)
  BY <1>3, <1>6, <1>8, LaterDeadline
<1>11. now < ExpiresAt(m.meant, m.received) /\ now < ExpiresAt(m.meant, left)
  BY <1>7, <1>9, <1>10
<1> QED  BY <1>1, <1>7, <1>11 DEF left

\* A fresh row stands for a request of that site, and for what its event said.
LEMMA FreshContact ==
  ASSUME IndInv, NEW s \in Sites, NEW now \in Int, HttpFresh(s, now)
  PROVE  \E o \in DOMAIN health_topic, c \in contacts :
           /\ c.site = s /\ c.at >= now - OfflineAfter
           /\ health_topic[o].site = s /\ health_topic[o].contact_at = c.at
           /\ health_topic[o].last_event = site_health[s].last_event
<1> DEFINE row == site_health[s]
<1>1. row # NoRow /\ row.contact_at >= now - OfflineAfter
  BY DEF HttpFresh
<1>2. Newest(s, row, observed, health_topic) /\ observed \subseteq 1..Len(health_topic)
  BY NewestParts DEF IndInv, ConsumerInv, ConsumerTypeOK
<1>3. PICK o \in observed : health_topic[o].site = s
                            /\ row = HealthRow(health_topic[o], row.growing)
  BY <1>1, <1>2 DEF Newest
<1>4. o \in DOMAIN health_topic
  BY <1>2, <1>3 DEF IndInv, IngestInv, IngestTypeOK
<1>5. PICK c \in contacts : c.site = health_topic[o].site /\ c.at = health_topic[o].contact_at
  BY <1>4 DEF IndInv, IngestInv, ContactsInv
<1> HIDE DEF row
<1>6. row.contact_at = health_topic[o].contact_at /\ row.last_event = health_topic[o].last_event
  <2> DEFINE event == health_topic[o]
             growing == row.growing
  <2>1. row = HealthRow(event, growing)
    BY <1>3
  <2> HIDE DEF event, growing
  <2> QED  BY <2>1 DEF HealthRow, event
<1> QED  BY <1>1, <1>3, <1>4, <1>5, <1>6 DEF row

\* However late sites are judged: live and not offline are never said without a reason.
THEOREM NoFalseLifeTheorem == Spec => []NoFalseLife
<1>1. IndInv => NoFalseLife
  <2> SUFFICES ASSUME IndInv, NEW s \in Sites, NEW now \in clock..Horizon
               PROVE  LET heard == {c \in contacts : c.site = s /\ c.at >= now - OfflineAfter} IN
                      /\ siteHealthStatus(s, now) = "live" =>
                           \E o \in DOMAIN health_topic, c \in heard :
                             /\ health_topic[o].site = s /\ health_topic[o].contact_at = c.at
                             /\ health_topic[o].last_event >= now - EventStaleAfter
                      /\ siteHealthStatus(s, now) # "offline" =>
                           \/ heard # {}
                           \/ \E m \in texts :
                                /\ IsHeartbeat(m.text) /\ m.meant.site = s /\ m.received # NoTime
                                /\ now < ExpiresAt(m.meant, m.received)
                                /\ now < ExpiresAt(m.meant, m.sent + Ahead(m))
    BY DEF NoFalseLife
  <2> DEFINE heard == {c \in contacts : c.site = s /\ c.at >= now - OfflineAfter}
  <2>1. now \in Int
    BY HealthAssumption, MessageAssumption DEF IndInv, SmsInv, SmsTypeOK, Horizon
  <2>2. ASSUME siteHealthStatus(s, now) = "live"
        PROVE  \E o \in DOMAIN health_topic, c \in heard :
                 /\ health_topic[o].site = s /\ health_topic[o].contact_at = c.at
                 /\ health_topic[o].last_event >= now - EventStaleAfter
    <3>1. HttpFresh(s, now) /\ ~EventStale(s, now)
      BY <2>2 DEF siteHealthStatus
    <3>2. site_health[s].last_event \in Int
      BY DEF IndInv, ConsumerInv, ConsumerTypeOK
    <3>3. EventStaleAfter \in Nat
      BY HealthAssumption
    <3>4. site_health[s].last_event >= now - EventStaleAfter
      BY <2>1, <3>1, <3>2, <3>3 DEF EventStale
    <3> QED  BY <2>1, <3>1, <3>4, FreshContact
  <2>3. ASSUME siteHealthStatus(s, now) # "offline"
        PROVE  \/ heard # {}
               \/ \E m \in texts :
                    /\ IsHeartbeat(m.text) /\ m.meant.site = s /\ m.received # NoTime
                    /\ now < ExpiresAt(m.meant, m.received)
                    /\ now < ExpiresAt(m.meant, m.sent + Ahead(m))
    <3>1. HttpFresh(s, now) \/ HeartbeatFresh(s, now)
      BY <2>3 DEF siteHealthStatus
    <3>2. CASE HttpFresh(s, now)
      BY <2>1, <3>2, FreshContact
    <3>3. CASE HeartbeatFresh(s, now)
      <4>1. PICK row \in sms_heartbeats : row.site = s /\ row.expires_at > now
        BY <3>3 DEF HeartbeatFresh, IsLatest, HeartbeatsOf
      <4>2. PICK m \in texts : RowOf(row, m) /\ WrittenAsMeant(m)
        BY DEF IndInv, SmsInv, ReceivedInv, TextsInv
      <4> QED  BY <2>1, <4>1, <4>2, FreshHeartbeat
    <3> QED  BY <3>1, <3>2, <3>3
  <2> QED  BY <2>2, <2>3
<1> QED  BY <1>1, Invariance, PTL
=============================================================================
