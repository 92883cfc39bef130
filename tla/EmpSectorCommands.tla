------------------------ MODULE EmpSectorCommands -------------------------
(***************************************************************************)
(* The commands that change sectors one by one.                            *)
(***************************************************************************)
EXTENDS EmpFlow

\* bridgefall(): bridges around a sector fall, with what is on them
Bridgefall == Touch("sect") \o Touch("ship") \o Touch("land") \o Touch("plane") \o Touch("nuke")

Deliver ==
    Ask \o Ask \o
    Each("sect", Perhaps(Next) \o Ask \o May(Ask) \o Perhaps(Quit)
                 \o May(Check("sect", Next) \o Put("sect")))

Distribute ==
    Ask \o
    Each("sect", Perhaps(Next) \o May(Get("sect2")) \o Ask \o Perhaps(Next)
                 \o Check("sect", Next) \o Perhaps(Quit)
                 \o Get("sect3") \o Perhaps(Next) \o May(Put("sect")))

\* mutant: the sector is written as it was before the player answered
ThresholdUnchecked ==
    Ask \o Ask \o
    Each("sect", Perhaps(Next) \o Ask \o Perhaps(Next)
                 \o Perhaps(Quit) \o Perhaps(Next) \o Put("sect"))

Threshold ==
    Ask \o Ask \o
    Each("sect", Perhaps(Next) \o Ask \o Perhaps(Next) \o Check("sect", Quit)
                 \o Perhaps(Quit) \o Perhaps(Next) \o Put("sect"))

Designate ==
    Ask \o
    Each("sect", Perhaps(Next) \o AskOr(Leave) \o Check("sect", Next)
                 \o Perhaps(Leave) \o Perhaps(Next) \o Put("sect") \o May(Bridgefall))

Territory ==
    Ask \o
    Each("sect", Perhaps(Next) \o Ask \o Perhaps(Next) \o Perhaps(Quit)
                 \o Check("sect", Quit) \o Put("sect"))

Give ==
    Ask \o Ask \o
    Each("sect", Ask \o Perhaps(Quit) \o Check("sect", Quit) \o Put("sect"))

SetResource ==
    Ask \o Ask \o
    Each("sect", Ask \o Perhaps(Quit) \o Check("sect", Quit) \o Perhaps(Quit) \o Put("sect"))

SetSector ==
    Ask \o Ask \o
    Each("sect", Ask \o Perhaps(Quit) \o Check("sect", Quit) \o Perhaps(Quit) \o Put("sect"))

Improve ==
    Ask \o Ask \o
    Each("sect", Perhaps(Next) \o AskOr(Next) \o Perhaps(Next) \o Check("sect", Next)
                 \o Perhaps(Next) \o Perhaps(Leave) \o Put("sect"))

Antigovernment == Ask \o Each("sect", Perhaps(Next) \o Put("sect"))

Convert ==
    Ask \o Ask \o Each("sect", Perhaps(Next) \o Perhaps(Leave) \o Put("sect"))

Demobilize ==
    Ask \o Ask \o Ask \o Each("sect", Perhaps(Next) \o Perhaps(Leave) \o Put("sect"))

Enlist ==
    Ask \o Ask \o Perhaps(Quit)
    \o Each("sect", Perhaps(Next) \o Put("sect") \o Perhaps(Leave))

Grind == Ask \o Ask \o Ask \o Each("sect", Perhaps(Next) \o May(Put("sect")))

Shoot == Ask \o Ask \o Ask \o Each("sect", Perhaps(Next) \o Put("sect"))

Wipe == Ask \o Each("sect", Perhaps(Next) \o Put("sect"))

StartStopSector == Ask \o Ask \o Each("sect", Perhaps(Next) \o Put("sect"))

\* the neighbours of a sector that turned into land or sea learn of the coast
SetCoastal(v) == Others(<<v>>)

\* Both copies are given the other's number, and with it its age.
SwapSector ==
    Ask \o Get("sect") \o Ask \o Get("sect2") \o Confirm
    \o Check("sect", Quit) \o Check("sect2", Quit)
    \o Put("sect") \o SetCoastal("sect2") \o Put("sect2")
    \o Reget("sect") \o SetCoastal("sect") \o Put("sect")

\* Interrogates the six neighbours of a sector.
Spy ==
    Ask \o
    Each("sect", Perhaps(Next)
                 \o Each("land", Go(Next))
                 \o Each("sect2", Perhaps(Leave) \o Perhaps(Next))
                 \o May(Put("sect")))
=============================================================================
