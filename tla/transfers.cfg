SPECIFICATION FairSpec
CONSTANTS
  Agents = {a1, a2}
  Movers = {a1}
  Machines = {local, m1}
  Local = local
  Nowhere = Nowhere
  Nobody = Nobody
  Items = {f1}
  MaxMoves = 2
INVARIANTS HasItsFiles RunsAtHome ReservationOwned
 
