SPECIFICATION SessionSpec
CONSTANTS
  Routes = {"home", "scrum", "admin"}
  Claims <- TwoClaims
  MaxAutoAttempts = 2
  MaxAsked = 2
  Nobody = Nobody
INVARIANTS TypeOK AutoLoginsBounded SignedOutStaysOut
PROPERTY SessionSettles
