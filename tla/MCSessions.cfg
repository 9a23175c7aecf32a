\* Two requests and a run of the enrolment tool; afterwards nothing more happens.
SPECIFICATION FairSpec
CONSTANTS
  ann = ann
  bob = bob
  eve = eve
  va = va
  vb = vb
  fa = fa
  pa = pa
  pb = pb
  r1 = r1
  r2 = r2
  c1 = c1
  None = None
  Users <- MCUsers
  Seeded <- MCSeeded
  Voices <- MCVoices
  Faces <- MCFaces
  Pins <- MCPins
  Requests <- MCRequests
  Commands <- MCCommands
  PinOf <- MCPinOf
  SameFace <- MCSameFace
  Similarity <- MCSimilarity
  Given <- MCGiven
  Threshold = 1
  MaxFaults = 2
INVARIANTS
  TypeOK
  SessionsProven
  SessionsAudited
  AnswersTrue
  EnrolmentsStand
PROPERTIES
  RequestsEnd
CHECK_DEADLOCK FALSE
