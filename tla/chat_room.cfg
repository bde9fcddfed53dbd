\* Three clients, two of them under one name; one may be killed.
CONSTANTS
  c1 = c1
  c2 = c2
  c3 = c3
  ann = ann
  eve = eve
  bob = bob
  Empty = Empty
  Client = {c1, c2, c3}
  Handle = {c1, c2, c3}
  Thread = {c1, c2, c3}
  Name = {Empty, ann, eve, bob}
  Typed <- TypedNames
  Order <- Positions
  MaxCalls <- CallsEach
  MaxKills = 1
SPECIFICATION Spec
INVARIANTS
  TypeOK
  ReturnMeansOffered
  SubscriptionStays
  OncePerMessage

  
CHECK_DEADLOCK FALSE
