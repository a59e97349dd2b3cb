-------------------------- MODULE MCUpgradeRanking --------------------------
(* UpgradeRanking for TLC: one slot of each role, a swap slot, and a few   *)
(* items that are good at one thing or another; a crossbow with two of the *)
(* words in its name and one with none (the Trarthan Cannon), a bow, a     *)
(* mace, which has none, and boots with a weapon's (the Wanderer Shoes).   *)
EXTENDS UpgradeRanking

MCConsidered == <<"Weapon", "Offhand", "Gloves", "Boots">>
MCResistances == {"fire", "cold"}

MCFits ==
  [Weapon |-> {"crossbow", "bow", "mace"}, Offhand |-> {"quiver", "shield"},
   Gloves |-> {"gloves"}, Boots |-> {"boots"}, Offhand2 |-> {"shield"}]

(* The defaults: dps, survivability and attributes 1.0, resists 1.5.       *)
MCWeight == [dps |-> 2, survival |-> 2, resists |-> 3, attributes |-> 2]

Item(class, words, price, def, life, fire, cold, attr, off) ==
  [class |-> class, words |-> words, price |-> price,
   stats |-> [def |-> def, life |-> life, res |-> [fire |-> fire, cold |-> cold],
              attr |-> attr, off |-> off]]

MCItems ==
  {Item("crossbow", {"crossbow", "bow"}, 1, 0, 0, 0, 0, 0, 20),
   Item("crossbow", {}, 1, 0, 0, 0, 0, 0, 80),
   Item("bow", {"bow"}, 1, 0, 0, 0, 0, 10, 80),
   Item("mace", {}, 2, 0, 0, 0, 20, 0, 0),
   Item("quiver", {"quiver"}, 1, 50, 43, 0, 0, 0, 20),
   Item("shield", {}, 1, 150, 50, 45, 40, 0, 0),
   Item("gloves", {}, 1, 50, 43, 0, 0, 10, 20),
   Item("gloves", {}, 1, 150, 150, 45, 0, 10, 0),
   Item("gloves", {}, 2, 150, 150, 45, 40, 40, 80),
   Item("gloves", {}, 1, 0, 0, 45, 40, 0, 20),
   Item("boots", {}, 1, 0, 0, 0, 0, 0, 0),
   Item("boots", {"wand"}, 1, 50, 0, 0, 20, 10, 0),
   Item("boots", {}, 1, 50, 50, 45, 40, 0, 0)}

MCGoalChoices == {{}, {"resists"}, {"dps", "survival"}}

MCBundled == {"life", "fire", "cold"}
MCOwnIDs == {{}, {"life"}, {"life", "fire"}}
=============================================================================
