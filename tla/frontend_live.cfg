\* The manager's console: two campaigns, two operations in flight;
\* what becomes of what is in flight.
SPECIFICATION Spec
CONSTANTS
  Campaigns <- MCCampaigns
  Snapshots <- MCSnapshots
  Initial <- MCInitial
  Slots <- MCSlots
  MaxClicks = 1
  MaxFailures = 1
  MaxSessions = 2
  Forms <- MCForms
  EmptyForms <- MCNoRecipients
  NoRecipients <- MCNoRecipients
  FirstForm = "all"
  NoForm = "none"
PROPERTY Unlocks
PROPERTY RowsFollow
\* The manager may stop clicking.
CHECK_DEADLOCK FALSE
