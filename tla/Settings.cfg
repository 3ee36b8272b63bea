SPECIFICATION Spec
CONSTANTS
  root = root
  middle = middle
  low = low
  device = device
  own = own
  stranger = stranger
  Environ <- Environments
  Text <- Texts
  Number <- Numbers
  Cut <- BeforeEquals
  TLSNetworks = {"tcp-tls"}
  Cert = {root, middle, low, device, own, stranger}
  Subject <- Subjects
  Issuer <- Issuers
  CA = {root, middle, low, stranger}
  Pool <- Pools
  Unset = Unset
INVARIANTS
  TypeOK
  SettingsAsGiven
  WaitsInSeconds
  TLSAsAsked
  AdmittedChain
