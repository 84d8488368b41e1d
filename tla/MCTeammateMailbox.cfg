CONSTANTS
  peer = peer
  lead = lead
  shutdown = shutdown
  permission = permission
  runner = runner
  poll = poll
  attach = attach
  print = print
  Nobody = Nobody
  Messages = {peer, shutdown, permission}
  Kind <- MCKind
  Consumers = {runner, poll, attach, print}
  Role <- MCRole
  Owners <- MCOwners
  MaxCrashes = 1
SPECIFICATION MailboxSpec
INVARIANTS TypeOK NothingSkipped TakenOnce
PROPERTIES InboxKept Taken
CHECK_DEADLOCK FALSE
