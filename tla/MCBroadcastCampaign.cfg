CONSTANTS
  sale = sale
  news = news
  ann = ann
  bob = bob
  Campaigns <- MCBoth
  Users <- MCUsers
  Audience <- MCBothAudience
  BatchSize = 1
  MaxFloods = 1
  MaxFaults = 1
SPECIFICATION Spec
INVARIANTS
  DeliveredOnce
  CompletedIsOver
  CancelledForGood
PROPERTIES
  AnnouncementsKept
  CampaignEnds
