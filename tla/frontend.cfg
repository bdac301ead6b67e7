\* The manager's console: two campaigns, two operations in flight.
SPECIFICATION Spec
CONSTANTS
  Campaigns <- MCCampaigns
  Snapshots <- MCSnapshots
  Initial <- MCInitial
  Slots <- MCSlots
  MaxClicks = 2
  MaxFailures = 1
  MaxSessions = 2
  Forms <- MCForms
  EmptyForms <- MCNoRecipients
  NoRecipients <- MCNoRecipients
  FirstForm = "all"
  NoForm = "none"
INVARIANT BusyTells
INVARIANT RowsOfSelected
INVARIANT BarsAddUp
INVARIANT EstimateIsCurrent
PROPERTY ShownNeverGoesBack
PROPERTY GoodSessionStays
\* The manager may stop clicking.
CHECK_DEADLOCK FALSE
