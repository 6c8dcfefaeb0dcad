SPECIFICATION DevicesSpec
CONSTANTS
\* DeviceKeys: two uploads of keys and one of a signature, a client that syncs and queries, two events, one stop.
  NoKeys = NoKeys
  Uploads = {u1, u2}
  Signs = {s1}
  Clients = {c1}
  MaxEvents = 2
  MaxStops = 1
\* Accounts: three requests, so that two may overlap with what a third left; two devices; one fault.
  AccountRequests = {1, 2, 3}
  Devices = {"d1", "d2"}
  FirstDevice = "d1"
  MaxAccountFaults = 1
\* CrossSigning: three requests; a first upload, and one that replaces a part of the keys; one fault.
  IdentityRequests = {2, 3, 4}
  Payloads = {{"master", "self_signing"}, {"self_signing"}}
  MaxIdentityFaults = 1
INVARIANTS
  SignaturesSurvive
  ChangesRecorded
  AccountSound
  IdentitySound
PROPERTY
  KnownNeverGoesBack
