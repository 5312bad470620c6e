SPECIFICATION Spec
CONSTANTS
  h1 = h1
  h2 = h2
  h3 = h3
  Handlers = {h1, h2}
  References = {"r1", "r2", "r3"}
  Customers = {"ada", "bola"}
  Assigned = {"ada"}
  Amounts = {1, 3}
  Prices = {1}
  Currencies = {"NGN", "KES"}
  TariffCurrency = "NGN"
  Commands <- TwoTopUps
INVARIANTS OneReconnect
