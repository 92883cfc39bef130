-------------------------- MODULE EmpCargoCommands -------------------------
(***************************************************************************)
(* The commands that move goods and units between a sector, a ship and a   *)
(* land unit.  They hold copies of both sides while they ask for amounts   *)
(* and for the units to move.                                              *)
(***************************************************************************)
EXTENDS EmpUnitCommands

\* gift() of a plane, and of a land unit, with what is on it
GiftPlane == GiveAway("plane", Touch("nuke"))
GiftLand(v) == GiveAway(v, Others(<<"land", "land2">>) \o Touch("plane") \o Touch("nuke"))

\* still_ok_ship(), still_ok_land(): both copies stand
StillOkShip == Check("sect", Quit) \o Check("ship", Quit)
StillOkLand == Check("sect", Quit) \o Check("land", Quit)

LoadPlaneShip ==
    Call(Perhaps(Return) \o Ask \o StillOkShip
         \o Each("plane", Perhaps(Next) \o GiftPlane \o Put("plane")))

LoadLandShip ==
    Call(Perhaps(Return) \o Ask \o StillOkShip
         \o Each("land", Perhaps(Next) \o May(Go(Return)) \o GiftLand("land") \o Put("land")))

\* Taking the last civilians away abandons the sector: the player confirms.
LoadCommShip == Ask \o StillOkShip \o Perhaps(Quit) \o May(Confirm) \o StillOkShip

LoadPlaneLand ==
    Call(Perhaps(Return) \o Ask \o StillOkLand
         \o Each("plane", Perhaps(Next) \o GiftPlane \o Put("plane")))

LoadCommLand == Ask \o StillOkLand \o Perhaps(Quit)

LoadLandLand ==
    Call(Perhaps(Return) \o Ask \o StillOkLand
         \o Each("land2", Perhaps(Next) \o Unless("land2", "land", Next) \o May(Go(Leave))
                          \o GiftLand("land2") \o Put("land2")))

Load ==
    Ask \o Ask \o
    Each("ship", Perhaps(Next) \o Get("sect") \o Perhaps(Next)
                 \o Either(LoadPlaneShip, Either(LoadLandShip, LoadCommShip))
                 \o Put("sect") \o Put("ship"))

LoadUnit ==
    Ask \o Ask \o
    Each("land", Perhaps(Next) \o Get("sect") \o Perhaps(Next)
                 \o Either(LoadLandLand, Either(LoadPlaneLand, LoadCommLand))
                 \o Put("sect") \o Put("land"))

----------------------------------------------------------------------------
(* Tending: from ship to ship, and from a ship to the units on it.         *)

\* the tender and the unit on it still stand
StillTending == Check("ship", Quit) \o Check("land", Quit)

TendLand ==
    Each("land",
         Perhaps(Next) \o Ask \o StillTending
         \o Each("ship2", Perhaps(Next) \o Unless("ship2", "ship", Next)
                          \o Reget("ship2") \o Perhaps(Next)
                          \o GiftLand("land") \o Put("land") \o Put("ship2") \o Put("ship")
                          \o Go(Leave)))

TendCommodity ==
    Ask \o May(Go(Next)) \o Check("ship", Quit) \o Perhaps(Quit) \o Perhaps(Next)
    \o Ask \o Check("ship", Quit)
    \o Each("ship2", Perhaps(Next) \o Unless("ship2", "ship", Next)
                     \o Put("ship2") \o May(Go(Leave)))
    \o Put("ship")

Tend ==
    Ask \o Ask \o
    Each("ship", Perhaps(Next)
                 \o Either(Ask \o May(Go(Next)) \o Check("ship", Quit) \o TendLand,
                           TendCommodity))

TendUnits ==
    Ask \o Ask \o
    Each("ship",
         Perhaps(Next) \o Ask \o May(Go(Next)) \o Check("ship", Quit) \o Perhaps(Quit)
         \o Perhaps(Next) \o Ask \o Check("ship", Quit)
         \o Each("land", Perhaps(Next) \o Put("land") \o May(Go(Leave)))
         \o Put("ship"))

----------------------------------------------------------------------------
(* Loans.                                                                  *)

Offer == Ask \o Perhaps(Quit) \o Ask \o Ask \o Ask \o Perhaps(Quit)
         \o Blank("loan") \o Put("loan")

\* An expired offer is withdrawn when it is shown.
Consider ==
    Ask \o Get("loan") \o May(Put("loan") \o Go(Quit)) \o Perhaps(Quit)
    \o Ask \o Perhaps(Quit) \o Reget("loan") \o Perhaps(Quit) \o Put("loan")

Repay == Ask \o Get("loan") \o Perhaps(Quit) \o Ask \o Check("loan", Quit)
         \o Perhaps(Quit) \o Put("loan")

Collect == Ask \o Get("loan") \o Perhaps(Quit) \o Ask \o Check("loan", Quit)
           \o Get("sect") \o Perhaps(Quit) \o Put("sect") \o Put("loan")

Shark == Ask \o Get("loan") \o Perhaps(Quit) \o Put("loan")
=============================================================================
