SPECIFICATION FairSpec
CONSTANTS
  Channel = {"ring", "texture", "events"}
  Session = {s1, s2}
  Slots = 4
  MaxFrames = 4
  MaxEvents = 4
CHECK_DEADLOCK FALSE
INVARIANTS
  OneOwner
  ReadSurvivesOnePublish
  EventsInOrder
PROPERTY
  SlotsComeBack
