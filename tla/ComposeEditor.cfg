SPECIFICATION Spec
CONSTANTS
  Boxes = {b1, b2}
  TemplateOnly = {b2}
  Texts = {t1, t2}
  None = None
  MaxDrafts = 2
  MaxRev = 3
  MaxEdits = 2
  MaxFaults = 2
INVARIANTS
  JobIsWhatWasShown
  OneJobPerDraft
  AttachmentsFitSender
PROPERTIES
  OverwritesOnlyWhatItSaw
  NothingAfterRevocation
CHECK_DEADLOCK FALSE
