CONSTANTS
  secret = secret
  number = number
  base = base
  topic = topic
  Sessions = {p1, p2}
  Fields <- MCFields
  Secrets = {secret}
  Numbers = {number}
  BaseTopic = base
  Topics = {topic}
  Profiles <- MCProfiles
  Values = {"", "key", "50%", "5", "9", "often", "home", "barn", "my barn", "odd key", "odd key 2", "odd key 3", "state"}
  Blank = ""
  Numerals = {"5", "9"}
  Spaced = {"my barn", "odd key", "odd key 2", "odd key 3"}
  Escaped <- MCEscaped
  Percent = {"50%"}
  Forms <- MCForms
  Shipped <- MCShipped
  MaxSaves = 2
  MaxUpgrades = 2
  MaxPowerCuts = 1
SPECIFICATION Spec
SYMMETRY SessionsAreAlike
CHECK_DEADLOCK FALSE
INVARIANTS TypeOK SavedIsKept RequiredSecretStays StartSeesWholeSettings SubscriptionsFollowSettings
