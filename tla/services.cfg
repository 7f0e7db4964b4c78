SPECIFICATION Spec
CONSTANTS
  house = house
  masters = masters
  steam = steam
  massage = massage
  transfer = transfer
  r1 = r1
  k1 = k1
  k2 = k2
  h1 = h1
  h2 = h2
  Services = {k1, k2}
  Stays = {r1}
  Handlers = {h1, h2}
  UnitGroups = {house}
  PoolGroups = {masters}
  Resources = {1, 2}
  Items = {steam, massage, transfer}
  Included = 1
  MaxBlocks = 1
  Entitlement = Entitlement
  None = None
  GroupOf <- MCGroupOf
  Seats <- MCSeats
  Capacity <- MCCapacity
  IdOf <- MCIdOf
  Requires <- MCRequires
  PerPerson <- MCPerPerson
  BySeats <- MCBySeats
  Slots <- Evenings
  Asks <- MCAsks
  Moves <- MCMoves
INVARIANTS NoOverbooking AllocationsFollowService CheckedOutOwesNothing DeskNeverDeadlocks
SYMMETRY Interchangeable
CHECK_DEADLOCK FALSE
