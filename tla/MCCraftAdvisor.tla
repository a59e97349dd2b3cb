--------------------------- MODULE MCCraftAdvisor ---------------------------
(***************************************************************************)
(* CraftAdvisor for TLC: four affixes of each kind, so that a full kind    *)
(* still has one to gain; recognised and unrecognised wordings, one affix  *)
(* of two lines, one crafted, one fractured; jewellery, armour, and two    *)
(* weapons of another family than the player's, one of them by its class   *)
(* only.  The player, of unknown class, has a staff and, listed before it, *)
(* a weapon whose name tells nothing.                                      *)
(***************************************************************************)
EXTENDS CraftAdvisor

Wording(says, worth, tags) == [says |-> says, worth |-> worth, tags |-> tags]

Affix(id, kind, tier, lines) ==
  [id |-> id, kind |-> kind, tier |-> tier, lines |-> lines,
   source |-> CASE id = "mana" -> "crafted" [] id = "speed" -> "fractured" [] OTHER -> "explicit"]

MCPool ==
  {Affix("physical", "prefix", 1, <<Wording("prefix", "desirable", {"attack"})>>),
   Affix("spell", "prefix", 3, <<Wording("prefix", "filler", {"spell"})>>),
   Affix("spirit", "prefix", 2, <<Wording("unknown", "neutral", {})>>),
   Affix("hybrid", "prefix", 4, <<Wording("prefix", "neutral", {}), Wording("suffix", "neutral", {})>>),
   Affix("speed", "suffix", 2, <<Wording("suffix", "desirable", {"attack"})>>),
   Affix("cast", "suffix", 3, <<Wording("suffix", "filler", {"spell"})>>),
   Affix("mana", "suffix", 5, <<Wording("suffix", "filler", {})>>),
   Affix("rarity", "suffix", 1, <<Wording("unknown", "neutral", {})>>)}

Extra(source, says) == [source |-> source, text |-> Wording(says, "neutral", {"attack"})]

MCBases ==
  {[name |-> {}, class |-> {}, jewellery |-> TRUE, extra |-> <<Extra("implicit", "suffix")>>],
   [name |-> {"quarterstaff", "staff"}, class |-> {}, jewellery |-> FALSE,
    extra |-> <<Extra("enchant", "unknown")>>],
   [name |-> {}, class |-> {"crossbow", "bow"}, jewellery |-> FALSE, extra |-> <<>>],
   [name |-> {}, class |-> {}, jewellery |-> FALSE, extra |-> <<Extra("rune", "prefix")>>]}

MCEquipment ==
  <<[slot |-> "Offhand", name |-> {}], [slot |-> "Weapon2", name |-> {}],
    [slot |-> "Weapon", name |-> {"staff"}]>>
=============================================================================
