CONSTANTS
  ann = ann
  bob = bob
  Nobody = Nobody
  Account = {ann, bob}
SPECIFICATION LoginSpec
INVARIANTS
  HomeOfSignedInUser
PROPERTY
  AttemptIsAnswered
