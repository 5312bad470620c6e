----------------------------- MODULE SmsMessage -----------------------------
(***************************************************************************)
(* The one-segment text both ends agree on: how the edge agent writes a     *)
(* critical event (fallback/message.go) or a liveness heartbeat             *)
(* (fallback/heartbeat.go), and how the API reads it (webhook/sms.go).      *)
(*                                                                          *)
(* A text is its title and its key=value fields.  A field holds a token or  *)
(* a number; an empty value, or one that is no number where a number        *)
(* belongs, is NoToken or NoNumber.                                         *)
(***************************************************************************)
EXTENDS Integers, Sequences, FiniteSetsExt

CONSTANTS
  Tokens,                \* site, asset and gateway ids, "site" among them
  PlainTokens,           \* those made of letters, digits, '-' and '_'
  TokenLength,           \* their length
  Room,                  \* what the ids may take of 160 septets, the rest being written
  Second,                \* clock ticks in a second
  MinHeartbeatInterval, MaxHeartbeatInterval

NoToken == ""   \* an empty value

ASSUME MessageAssumption ==
  /\ PlainTokens \subseteq Tokens /\ "site" \in PlainTokens /\ NoToken \notin PlainTokens
  /\ TokenLength \in [Tokens -> Nat] /\ Room \in Nat
  /\ Second \in Nat \ {0}
  /\ MinHeartbeatInterval \in Nat \ {0} /\ MaxHeartbeatInterval \in Nat

\* Code.Valid and ParseCriticalCode
Codes == {"BATTERY_OVERHEAT", "INVERTER_FAILURE", "TAMPER_DETECTED", "SITE_OUTAGE"}

NoNumber == -1000000
NoTemperature == NoNumber
ZeroTime == -1     \* the zero time.Time

Tag(key, token) == [key |-> key, token |-> token, number |-> NoNumber]
Number(key, number) == [key |-> key, token |-> NoToken, number |-> number]

Text(fields) == [title |-> "AMBAGRID", fields |-> fields]

\* gsmSeptets, as far as the ids decide it.
Septets(fields) ==
  MapThenSumSet(LAMBDA i : TokenLength[fields[i].token],
                {i \in DOMAIN fields : fields[i].token \in Tokens})

-----------------------------------------------------------------------------
(* Writing, on the edge *)

\* Temperatures are hundredths of a degree on the edge, tenths in a text.
RoundsTo(hundredths, tenths) == 10 * tenths - 5 <= hundredths /\ hundredths <= 10 * tenths + 5

Tenths(temperature) ==
  IF temperature = NoTemperature THEN {NoNumber}
  ELSE {d \in {temperature \div 10, temperature \div 10 + 1} : RoundsTo(temperature, d)}

\* [site, asset, sequence, code, temperature, at]; two texts where a temperature rounds both ways.
CriticalFields(event, tenths) ==
  <<Tag("v", "1"), Tag("site", event.site), Tag("asset", event.asset),
    Number("seq", event.sequence), Tag("code", event.code)>>
  \o (IF tenths # NoNumber THEN <<Number("temp", tenths)>> ELSE << >>)
  \o <<Number("ts", event.at \div Second)>>

\* Format returns a text, and no error.
Formattable(event, tenths) ==
  /\ event.code \in Codes
  /\ event.site \in PlainTokens /\ event.asset \in PlainTokens
  /\ event.sequence # 0 /\ event.at # ZeroTime
  /\ event.code = "BATTERY_OVERHEAT" <=> event.temperature # NoTemperature
  /\ event.code = "SITE_OUTAGE" <=> event.asset = "site"
  /\ Septets(CriticalFields(event, tenths)) <= Room

Format(event, tenths) == Text(CriticalFields(event, tenths))

\* [site, gateway, sequence, interval, at]
HeartbeatFields(heartbeat) ==
  <<Tag("v", "1"), Tag("kind", "HB"), Tag("site", heartbeat.site), Tag("gw", heartbeat.gateway),
    Number("seq", heartbeat.sequence), Number("int", heartbeat.interval \div Second),
    Number("ts", heartbeat.at \div Second)>>

\* FormatHeartbeat returns a text, and no error, when the ids may take that much room.
HeartbeatFits(heartbeat, room) ==
  /\ heartbeat.site \in PlainTokens /\ heartbeat.gateway \in PlainTokens
  /\ heartbeat.sequence # 0 /\ heartbeat.at # ZeroTime
  /\ heartbeat.interval \in MinHeartbeatInterval..MaxHeartbeatInterval
  /\ heartbeat.interval % Second = 0
  /\ Septets(HeartbeatFields(heartbeat)) <= room

HeartbeatFormattable(heartbeat) == HeartbeatFits(heartbeat, Room)

FormatHeartbeat(heartbeat) == Text(HeartbeatFields(heartbeat))

-----------------------------------------------------------------------------
(* Reading, in the API *)

Keys(text) == [i \in DOMAIN text.fields |-> text.fields[i].key]
HasKey(text, key) == \E i \in DOMAIN text.fields : text.fields[i].key = key
Value(text, key) == text.fields[CHOOSE i \in DOMAIN text.fields : text.fields[i].key = key]

\* splitSMSMessage
Splits(text) ==
  /\ text.title = "AMBAGRID" /\ Len(text.fields) >= 6 /\ Septets(text.fields) <= Room
  /\ \A f \in {text.fields[i] : i \in DOMAIN text.fields} :
       f.token # NoToken \/ f.number # NoNumber
  /\ \A i, j \in DOMAIN text.fields : Keys(text)[i] = Keys(text)[j] => i = j
  /\ HasKey(text, "v") /\ Value(text, "v").token = "1"

\* A positive ParseUint of seq and a positive ParseInt of ts.
Counted(text) == Value(text, "seq").number > 0 /\ Value(text, "ts").number > 0

HeartbeatKeys == <<"v", "kind", "site", "gw", "seq", "int", "ts">>
CriticalKeys(code) ==
  IF code = "BATTERY_OVERHEAT" THEN <<"v", "site", "asset", "seq", "code", "temp", "ts">>
                               ELSE <<"v", "site", "asset", "seq", "code", "ts">>

\* Parse takes the text for a heartbeat, and parseHeartbeat accepts it.
IsHeartbeat(text) ==
  /\ Splits(text) /\ HasKey(text, "kind")
  /\ Value(text, "kind").token = "HB" /\ Keys(text) = HeartbeatKeys
  /\ Counted(text)
  /\ Value(text, "int").number * Second \in MinHeartbeatInterval..MaxHeartbeatInterval
  /\ Value(text, "site").token \in PlainTokens /\ Value(text, "gw").token \in PlainTokens

MutParsedHeartbeat(text) ==
  [site |-> Value(text, "site").token, gateway |-> Value(text, "gw").token,
   sequence |-> Value(text, "seq").number, interval |-> Value(text, "int").number,
   at |-> Value(text, "ts").number * Second]

ParsedHeartbeat(text) ==
  [site |-> Value(text, "site").token, gateway |-> Value(text, "gw").token,
   sequence |-> Value(text, "seq").number, interval |-> Value(text, "int").number * Second,
   at |-> Value(text, "ts").number * Second]

\* Parse takes it for a critical event, and parseCriticalEvent accepts it.
IsCritical(text) ==
  /\ Splits(text) /\ ~HasKey(text, "kind")
  /\ HasKey(text, "code") /\ Value(text, "code").token \in Codes
  /\ Keys(text) = CriticalKeys(Value(text, "code").token)
  /\ Counted(text)
  /\ HasKey(text, "temp") => Value(text, "temp").number # NoNumber
  /\ Value(text, "site").token \in PlainTokens /\ Value(text, "asset").token \in PlainTokens
  /\ Value(text, "code").token = "SITE_OUTAGE" <=> Value(text, "asset").token = "site"

ParsedCritical(text) ==
  [site |-> Value(text, "site").token, asset |-> Value(text, "asset").token,
   sequence |-> Value(text, "seq").number, code |-> Value(text, "code").token,
   temperature |-> IF HasKey(text, "temp") THEN 10 * Value(text, "temp").number
                                           ELSE NoTemperature,
   at |-> Value(text, "ts").number * Second]
=============================================================================
