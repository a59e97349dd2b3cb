--------------------------- MODULE UpgradeRanking ---------------------------
(***************************************************************************)
(* What to upgrade, and what to search for: the scorer                     *)
(* (internal/analysis/scorer.go) and the trade query built from its        *)
(* reports (internal/trade) by the server and by the command "upgrades",   *)
(* over the gear of a character that changes as the player equips items.   *)
(*                                                                         *)
(* Items are reduced to the stats the scorer adds up: def is life, energy  *)
(* shield and a tenth of armour and evasion together, attr the three       *)
(* attributes, off the six offensive stats; and to their class in the      *)
(* game, the words the code looks for in the name of their base, and the   *)
(* price they are listed at.  Scores are counted in quarters and weights   *)
(* in halves: with the divisors of the items at hand (DivisorsAssumption)  *)
(* every quotient is exact.                                                *)
(***************************************************************************)
EXTENDS Integers, Sequences, FiniteSets, FiniteSetsExt

CONSTANTS Considered,   \* the slots looked at, a sequence in display order
          Resistances,  \* the elemental resistances
          Items,        \* what can be equipped
          Swaps,        \* the slots of the second weapon set
          Fits,         \* the classes of items a slot takes, by slot
          GoalChoices,  \* what "upgrades --goals" may be given
          Weight,       \* halves, by goal
          Bundled,      \* the stats with a trade id in the program
          OwnIDs,       \* those a user's file may have ids for
          BudgetMax,    \* the price cap, 0: none
          NoItem        \* an empty slot

Slots == {Considered[i] : i \in 1..Len(Considered)}
Worn == Slots \cup Swaps
AllGoals == {"dps", "survival", "resists", "attributes"}
Stat == [def : Nat, life : Nat, res : [Resistances -> Nat], attr : Nat, off : Nat]
Statless == [def |-> 0, life |-> 0, res |-> [r \in Resistances |-> 0], attr |-> 0, off |-> 0]

ASSUME SlotsAssumption ==
  Considered \in Seq(Slots) /\ IsFiniteSet(Swaps) /\ IsFiniteSet(Resistances)
ASSUME ItemsAssumption ==
  /\ NoItem \notin Items
  /\ \A it \in Items : it.stats \in Stat /\ it.stats.life <= it.stats.def
ASSUME GoalsAssumption ==
  /\ GoalChoices \subseteq SUBSET AllGoals
  /\ \A g \in AllGoals : Weight[g] \in Nat
ASSUME DivisorsAssumption ==
  \A it \in Items : /\ 200 % (it.stats.def + 50) = 0 /\ 60 % (it.stats.attr + 20) = 0
                    /\ 400 % (it.stats.off + 20) = 0

(* Armour and jewellery are of one class for a slot; hands take several.   *)
Hands == {"Weapon", "Offhand"}
AnyCategory == "any"

ASSUME FitsAssumption ==
  \A s \in Slots \ Hands :
    Fits[s] # {} /\ AnyCategory \notin Fits[s] /\ \A c, d \in Fits[s] : c = d

(* The words the code looks for in the name of a base, whatever its class; *)
(* a name that contains one of them may contain another one in it.         *)
WordsAsListed == <<"quiver", "bow", "crossbow", "wand">>  \* mutant
Words == <<"quiver", "crossbow", "bow", "quarterstaff", "wand", "sceptre", "staff">>
Named == {Words[i] : i \in DOMAIN Words}

ASSUME WordsAssumption ==
  \A it \in Items :
    /\ "crossbow" \in it.words => "bow" \in it.words
    /\ "quarterstaff" \in it.words => "staff" \in it.words

(* Most bases are called what they are: a bow is called a bow, and gloves  *)
(* have none of the words.  Some weapons are not, and the name of any base *)
(* may happen to contain a word (the "Trarthan Cannon" is a crossbow).     *)
WordsIn(class) ==
  CASE class = "crossbow" -> {"crossbow", "bow"}
    [] class = "quarterstaff" -> {"quarterstaff", "staff"}
    [] class \in Named \ {"crossbow", "quarterstaff"} -> {class}
    [] class \notin Named -> {}

Telling(it) == it.class \in Named /\ it.words = WordsIn(it.class)
Misleading(it) == it.words \notin {{}, WordsIn(it.class)}

VARIABLES gear,    \* the equipped item by slot (EquippedBySlot)
          program, \* which of the two programs asks
          goals,   \* what it is to score
          ownIDs   \* the stats in the user's file of trade ids

query == <<program, goals, ownIDs>>
vars == <<gear, query>>

Equipped(slot) == gear[slot] # NoItem
ItemStats(slot) == IF Equipped(slot) THEN gear[slot].stats ELSE Statless

(* The player starts naked and equips, swaps and removes items.  The       *)
(* server scores everything, the command what it is told to.               *)
Init ==
  /\ gear = [slot \in Worn |-> NoItem]
  /\ \/ program = "server" /\ goals = {}
     \/ program = "command" /\ goals \in GoalChoices
  /\ ownIDs \in OwnIDs

Equip(slot) ==
  /\ \E it \in {i \in Items : i.class \in Fits[slot]} \cup {NoItem} :
       it # gear[slot] /\ gear' = [gear EXCEPT ![slot] = it]
  /\ UNCHANGED query

Next == \E slot \in Worn : Equip(slot)

Spec == Init /\ [][Next]_vars

(* NewScorer: no goals are all goals.                                      *)
Goals == IF goals = {} THEN AllGoals ELSE goals

----------------------------------------------------------------------------
(* The character's resistances add up over all items, those of the second  *)
(* weapon set too; what is missing to the cap is a gap.                    *)
ResCap == 75

CharacterRes(r) == SumFunction([slot \in Worn |-> ItemStats(slot).res[r]])
ResGap(r) == IF CharacterRes(r) < ResCap THEN ResCap - CharacterRes(r) ELSE 0
TotalGap == SumFunction([r \in Resistances |-> ResGap(r)])

CanRollLife(slot) == slot \notin {"Weapon", "Offhand"}
CanRollRes(slot) == slot # "Weapon"
IsOffensive(slot) == slot \in {"Weapon", "Offhand", "Ring", "Ring2", "Amulet", "Gloves"}

(* The parts of a slot's score: what is low has the most headroom.         *)
Emptiness(slot) == IF Equipped(slot) THEN 0 ELSE 200

Survival(slot) ==
  IF "survival" \notin Goals THEN 0
  ELSE Weight["survival"] * (2 + 200 \div (ItemStats(slot).def + 50))

ResistsWithoutIt(slot) ==  \* mutant: the gaps the other items leave
  IF "resists" \notin Goals \/ ~CanRollRes(slot) THEN 0
  ELSE Weight["resists"] *
         SumFunction([r \in Resistances |-> ResGap(r) + ItemStats(slot).res[r]])
Resists(slot) ==
  IF "resists" \notin Goals \/ ~CanRollRes(slot) THEN 0 ELSE Weight["resists"] * TotalGap

Attributes(slot) ==
  IF "attributes" \notin Goals \/ ~CanRollRes(slot) THEN 0
  ELSE Weight["attributes"] * (2 + 60 \div (ItemStats(slot).attr + 20))

Offence(slot) ==
  IF "dps" \notin Goals \/ ~IsOffensive(slot) THEN 0
  ELSE Weight["dps"] * (10 + 400 \div (ItemStats(slot).off + 20))

Score(slot) ==
  Emptiness(slot) + Survival(slot) + Resists(slot) + Attributes(slot) + Offence(slot)

(* The reports are sorted by score; equal ones keep the display order.     *)
Position(slot) == CHOOSE i \in 1..Len(Considered) : Considered[i] = slot

Before(s, t) ==
  Score(s) > Score(t) \/ (Score(s) = Score(t) /\ Position(s) < Position(t))

----------------------------------------------------------------------------
(* What to look for on a slot: life in steps of ten above the item's, and  *)
(* up to 30 of every resistance that has a gap.                            *)
RoundDown(v, step) == (v \div step) * step
LifeWanted(slot) == RoundDown(ItemStats(slot).life + 10, 10)
ResWanted(r) == Min({ResGap(r), 30})

WantedRes(slot) ==
  {r \in Resistances : "resists" \in Goals /\ CanRollRes(slot) /\ ResGap(r) > 0}

Wants(slot) ==
  {[stat |-> r, min |-> ResWanted(r)] : r \in WantedRes(slot)}
  \cup IF "survival" \in Goals /\ CanRollLife(slot)
       THEN {[stat |-> "life", min |-> LifeWanted(slot)]} ELSE {}

(* The query: a filter for each want with a known id, and with two of them *)
(* or more it is enough to match two.  The server adds the user's ids to   *)
(* the bundled ones, the command has no others.                            *)
KnownIDs == IF program = "server" THEN Bundled \cup ownIDs ELSE ownIDs
Filters(slot) == {w \in Wants(slot) : w.stat \in KnownIDs}
AlwaysTwo(slot) == 2  \* mutant
Needed(slot) == Min({2, Cardinality(Filters(slot))})

(* The category: fixed for armour and jewellery, by the name of the        *)
(* equipped item's base for weapons, or none.  The first word counts, for  *)
(* a crossbow is a "bow" too.                                              *)
WeaponCategory(it) ==
  IF \E i \in DOMAIN Words : Words[i] \in it.words
  THEN Words[Min({i \in DOMAIN Words : Words[i] \in it.words})] ELSE AnyCategory

SlotCategory(slot) ==
  IF slot \in Hands THEN AnyCategory ELSE CHOOSE class \in Fits[slot] : TRUE

Category(slot) ==
  IF program = "server" /\ Equipped(slot) /\ WeaponCategory(gear[slot]) # AnyCategory
  THEN WeaponCategory(gear[slot]) ELSE SlotCategory(slot)

(* The trade site knows the classes of its items.                          *)
Value(it, stat) == IF stat = "life" THEN it.stats.life ELSE it.stats.res[stat]
Meets(it, w) == Value(it, w.stat) >= w.min
Affordable(it) == BudgetMax = 0 \/ it.price <= BudgetMax
Finds(slot, it) ==
  /\ Category(slot) \in {AnyCategory, it.class}
  /\ Affordable(it)
  /\ Cardinality({w \in Filters(slot) : Meets(it, w)}) >= Needed(slot)

----------------------------------------------------------------------------
(* An item that is at least as good as another in every stat.              *)
AtLeast(a, b) ==
  /\ a.def >= b.def /\ a.life >= b.life /\ a.attr >= b.attr /\ a.off >= b.off
  /\ \A r \in Resistances : a.res[r] >= b.res[r]

(* The next gear has nothing worse at this slot, and fills it if it was.   *)
NotWorse(slot) ==
  AtLeast(ItemStats(slot)', ItemStats(slot)) /\ (Equipped(slot) => Equipped(slot)')

(* Improving the item of a slot that gaps count for never moves the slot   *)
(* up in the ranking, though the resistances it adds lower the other       *)
(* slots' scores as well (Analyze, scorer.go:65-98: the gaps are those of  *)
(* the whole character).                                                   *)
NeverUpTheRanking ==
  [][\A s \in Slots :
       CanRollRes(s) /\ NotWorse(s) /\ (\A t \in Worn \ {s} : gear'[t] = gear[t])
         => \A t \in Slots : Before(t, s) => Before(t, s)']_vars

(* An item of the right kind that has everything the report wants, at a    *)
(* price within the budget, is found, whichever of the wanted stats has an *)
(* id (Build, query.go:85-137, and priceForReport, server.go:271-283);     *)
(* but not where the name of the worn item's base misleads: whatever the   *)
(* slot, a word in it is taken for the class (server.go:273).              *)
RightKind(slot, it) ==
  /\ it.class \in Fits[slot]
  /\ slot \in Hands /\ Equipped(slot) => it.class = gear[slot].class

PerfectIsFound ==
  \A s \in Slots : \A it \in Items :
    /\ RightKind(s, it) /\ Affordable(it) /\ (\A w \in Wants(s) : Meets(it, w))
    /\ Equipped(s) => ~Misleading(gear[s])
    => Finds(s, it)

(* What the server finds for a slot can replace what is there: it is of    *)
(* the slot's class, and for a bow, say, it is a bow ("match the equipped  *)
(* item's actual class", server.go:274).  The exceptions are empty hands,  *)
(* weapons whose names do not tell their class, maces and some crossbows   *)
(* say, and items whose names mislead.                                     *)
FindsItsKind ==
  \A s \in Slots : \A it \in Items :
    /\ program = "server" /\ Finds(s, it)
    /\ s \in Hands => Equipped(s) /\ Telling(gear[s])
    /\ Equipped(s) => ~Misleading(gear[s])
    => RightKind(s, it)

(* What the query for a slot finds is, in the stats it asks for, at least  *)
(* as good as what is worn there ("builds the "at least as good as         *)
(* equipped" query for a slot", server.go:268).                            *)
FindsAtLeastAsGood ==
  \A s \in Slots : \A it \in Items :
    program = "server" /\ Finds(s, it)
      => \A w \in Filters(s) : Value(it, w.stat) >= Value([stats |-> ItemStats(s)], w.stat)
=============================================================================
