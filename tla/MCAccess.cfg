CONSTANTS
  ann = ann
  bob = bob
  adm = adm
  own = own
  crew = crew
  new = new
  manage = manage
  stats = stats
  Nothing = Nothing
  Users <- MCUsers
  Roles <- MCRoles
  BuiltIn <- MCBuiltIn
  Perms <- MCPerms
  Manage = manage
  Block = manage
  Readers <- MCReaders
  Visitors <- MCVisitors
  PanelPerms <- MCPanelPerms
  FirstRole <- MCFirstRole
  FirstPerms <- MCFirstPerms
  MaxReads = 1
  MaxEdits = 2
  MaxOutages = 1
SPECIFICATION Spec

  
  
PROPERTIES
  EventuallyFresh
