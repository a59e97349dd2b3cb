---------------------------- MODULE CraftAdvisor ----------------------------
(***************************************************************************)
(* The crafting advisor (internal/craft): the rating of a pasted item      *)
(* (rate.go) and the plan towards a modifier (advise.go), as a player uses *)
(* them: paste an item, get steps, carry them out on the item in the game, *)
(* and ask again.  The player and the game are external.                   *)
(*                                                                         *)
(* Ratings are the integers of rate.go; the blend of its three parts is    *)
(* exact in hundredths.                                                    *)
(***************************************************************************)
EXTENDS CraftItem

CONSTANTS Equipment,  \* the character's items in the API's order: their slots and base names
          ClassFamily \* what its class says of the build, or "none"

VARIABLES item,  \* the item in the game
          plan,  \* the plan on the screen
          step   \* the step of it the player is at

vars == <<item, plan, step>>

----------------------------------------------------------------------------
(* The family a weapon belongs to, by the first of the words its name has; *)
(* a name is the set of those words in it, mace standing for all of melee. *)
FamilyWords ==
  <<[word |-> "crossbow", family |-> "attack"], [word |-> "bow", family |-> "attack"],
    [word |-> "quarterstaff", family |-> "attack"], [word |-> "wand", family |-> "caster"],
    [word |-> "sceptre", family |-> "minion"], [word |-> "staff", family |-> "caster"],
    [word |-> "mace", family |-> "attack"]>>

LowestOf(S) == CHOOSE n \in S : \A m \in S : n <= m

FamilyOf(name) ==
  LET found == {i \in DOMAIN FamilyWords : FamilyWords[i].word \in name} IN
  IF found = {} THEN "none" ELSE FamilyWords[LowestOf(found)].family

(* The build's family: the first weapon, of either set, whose name tells,  *)
(* else the class, else attack.                                            *)
Family ==
  LET weapons == SelectSeq(Equipment, LAMBDA it : it.slot \in {"Weapon", "Weapon2"}
                                                 /\ FamilyOf(it.name) # "none") IN
  IF weapons # <<>> THEN FamilyOf(Head(weapons).name)
  ELSE IF ClassFamily # "none" THEN ClassFamily ELSE "attack"

----------------------------------------------------------------------------
(* Rate.                                                                   *)
Affixes(it) == {i \in DOMAIN it.mods : OccupiesAffix(it.mods[i].source)}
Worth(it, w) == {i \in Affixes(it) : it.mods[i].text.worth = w}
HighTier(it) == {i \in Worth(it, "desirable") : it.mods[i].tier \in {1, 2}}
OpenSlots(it) == Open(it, "prefix") + Open(it, "suffix")

Clamp(n) == IF n < 0 THEN 0 ELSE IF n > 100 THEN 100 ELSE n

BaseScore(it) ==
  CASE it.level = 0 -> 60
    [] it.level >= 82 -> 100
    [] it.level = 81 -> 95
    [] it.level \in 75..80 -> 80
    [] it.level \in 68..74 -> 55
    [] it.level \in 1..67 -> 30

ModScore(it) ==
  LET filler == Cardinality(Worth(it, "filler"))
      desirable == Cardinality(Worth(it, "desirable")) + Cardinality(HighTier(it)) IN
  IF it.rarity # "Rare" THEN 82
  ELSE Clamp(50 + 12 * desirable - 11 * filler + 2 * Cardinality(Worth(it, "neutral"))
             - IF filler >= 3 THEN 15 ELSE 0)

HeadroomInverted(it) ==  \* mutant: what is easy to finish scores low
  Clamp(60 - 10 * OpenSlots(it) + 8 * Cardinality(Worth(it, "filler")))

(* How easy the item is to finish.                                         *)
Headroom(it) ==
  IF it.rarity # "Rare" THEN 80
  ELSE Clamp(40 + 10 * OpenSlots(it) - 8 * Cardinality(Worth(it, "filler"))
             + 8 * Cardinality(Worth(it, "desirable")))

Blend(it) == (30 * BaseScore(it) + 40 * ModScore(it) + 30 * Headroom(it) + 50) \div 100

(* Full of filler; a weapon of another family than the build's.            *)
Hopeless(it) ==
  it.rarity = "Rare" /\ OpenSlots(it) = 0 /\ Cardinality(Worth(it, "filler")) >= 2
WeaponFamily(it) ==
  IF FamilyOf(it.base.name) # "none" THEN FamilyOf(it.base.name) ELSE FamilyOf(it.base.class)
Foreign(it) == WeaponFamily(it) \notin {"none", Family}

Score(it) ==
  Clamp(LowestOf({Blend(it)} \cup (IF Hopeless(it) THEN {55} ELSE {})
                              \cup (IF Foreign(it) THEN {35} ELSE {})))

(* A corrupted or unique item gets no grade.                               *)
Ungraded(it) == it.corrupted \/ it.rarity = "Unique"

Verdict(it) ==
  CASE Ungraded(it) -> "none"
    [] ~Ungraded(it) /\ Score(it) >= 80 -> "craft"
    [] ~Ungraded(it) /\ Score(it) \in 65..79 -> "solid"
    [] ~Ungraded(it) /\ Score(it) \in 50..64 -> "marginal"
    [] ~Ungraded(it) /\ Score(it) < 50 -> "discard"

----------------------------------------------------------------------------
(* Advise.  A goal is the wording of a wanted modifier, or none, and the   *)
(* kind the user says it is, or "auto".                                    *)
NoText == [says |-> "unknown", worth |-> "neutral", tags |-> {}]

Goal == [text : {a.lines[1] : a \in Pool} \cup {NoText}, kind : Kind \cup {"auto"}]

KindOf(goal) == IF goal.kind = "auto" THEN goal.text.says ELSE goal.kind

HasTagOverlap(it, goal) ==
  \E i \in DOMAIN it.mods : it.mods[i].text.tags \cap goal.text.tags # {}

AnnulIfAny(it, kind) == IF Open(it, kind) < 3 THEN <<"annul">> ELSE <<>>  \* mutant
AnnulIfFull(it, kind) == IF Open(it, kind) = 0 THEN <<"annul">> ELSE <<>>

(* Catalysts bias a slam on jewellery but leave its kind open; elsewhere   *)
(* an omen forces the kind.                                                *)
Slam(it, goal) ==
  IF it.base.jewellery /\ HasTagOverlap(it, goal) THEN <<"catalyse">> ELSE <<"slam">>

StepsFor(it, goal) ==
  CASE it.corrupted -> <<>>
    [] ~it.corrupted /\ it.rarity = "Unique" -> <<"divine">>
    [] ~it.corrupted /\ it.rarity \in {"Normal", "Magic"} -> <<"upgrade", "fill">>
    [] ~it.corrupted /\ it.rarity = "Rare" ->
         IF goal.text = NoText \/ KindOf(goal) = "unknown" THEN <<>>
         ELSE AnnulIfFull(it, KindOf(goal)) \o Slam(it, goal) \o <<"essence", "divine">>

TargetKind(it, goal) ==
  IF it.corrupted \/ it.rarity # "Rare" \/ goal.text = NoText THEN "unknown" ELSE KindOf(goal)

Advise(it, goal) ==
  [craftable |-> ~it.corrupted /\ it.rarity # "Unique", kind |-> TargetKind(it, goal),
   steps |-> StepsFor(it, goal)]

----------------------------------------------------------------------------
(* The player and the game.                                                *)

(* What the code makes of the item's text.                                 *)
Read(form) == Parse(item, form)

(* What the program's own text tells: nothing is left out, and no line     *)
(* that lost its tag is worded like an affix.                              *)
Exportable ==
  /\ \A a \in item.affixes : a.source # "fractured"
  /\ \A i \in DOMAIN item.base.extra :
       item.base.extra[i].source = "rune" \/ item.base.extra[i].text.says = "unknown"

(* A text that says all there is to know of the affixes: each is one line, *)
(* and either annotated with its kind or worded so that it shows.          *)
Readable(form) ==
  /\ \A a \in item.affixes :
       /\ Len(a.lines) = 1
       /\ IF form = "annotated" THEN a.source = "explicit" ELSE a.lines[1].says = a.kind
  /\ form = "export" => Exportable

(* A plan on the screen, with the verdict on the same text; readable is    *)
(* history, of the text they were made for.                                *)
NoPlan == [craftable |-> FALSE, kind |-> "unknown", steps |-> <<>>, verdict |-> "none",
           readable |-> TRUE]
Over == step > Len(plan.steps)

Init == item \in GameItem /\ plan = NoPlan /\ step = 1

Ask ==
  /\ Over
  /\ \E form \in Forms : \E it \in {Read(form)}, goal \in Goal :
       LET advice == Advise(it, goal) IN
       plan' = [craftable |-> advice.craftable, kind |-> advice.kind, steps |-> advice.steps,
                verdict |-> Verdict(it), readable |-> Readable(form)]
  /\ step' = 1
  /\ UNCHANGED item

(* The game removes (but for fractured ones) or adds any affix of the kind *)
(* that an omen forces; a catalysed exalt, an upgrade and a fill force     *)
(* none.  What is added is an explicit affix.                              *)
Rolled == {a \in Pool \ item.affixes : a.source = "explicit"}
Addable(kinds) == {a \in Rolled : a.kind \in kinds /\ FreeSlots(item, a.kind) > 0}

Removable(kind) == {a \in Of(item.affixes, kind) : a.source # "fractured"}

Annul ==
  \E a \in Removable(plan.kind) : item' = [item EXCEPT !.affixes = @ \ {a}]
Add(kinds) ==
  \E a \in Addable(kinds) : item' = [item EXCEPT !.affixes = @ \cup {a}]
Upgrade ==
  \E a \in Rolled :
    item' = [item EXCEPT !.rarity = "Rare", !.affixes = @ \cup {a}]

(* The step the player is at.  The essence is an alternative to the slam.  *)
Follow ==
  /\ ~Over
  /\ CASE plan.steps[step] = "annul" -> Annul
       [] plan.steps[step] = "slam" -> Add({plan.kind})
       [] plan.steps[step] \in {"catalyse", "fill"} -> Add(Kind)
       [] plan.steps[step] = "upgrade" -> Upgrade
       [] plan.steps[step] \in {"essence", "divine"} -> UNCHANGED item
  /\ step' = step + 1
  /\ UNCHANGED plan

(* A Vaal Orb.                                                             *)
Corrupt ==
  /\ Over /\ ~item.corrupted
  /\ item' = [item EXCEPT !.corrupted = TRUE]
  /\ plan' = NoPlan /\ step' = 1

Next == Ask \/ Follow \/ Corrupt

Spec == Init /\ [][Next]_vars

----------------------------------------------------------------------------
(* The open slots the advisor counts on a readable text are those of the   *)
(* item, whatever implicit, rune and enchant lines stand among the affixes *)
(* (Parse and countAffixes, parse.go:106-230).                             *)
CountsAreTrue ==
  item.rarity = "Rare" =>
    \A form \in Forms : Readable(form) =>
      \A kind \in Kind : Open(Read(form), kind) = FreeSlots(item, kind)

(* The text the program writes of an item is read back like the game's own *)
(* text of it, also where both are misread ("one equipped item rendered as *)
(* standard PoE clipboard text", server.go:106), but for what it does not  *)
(* write: fractured affixes; the tags of implicit and enchant lines, which *)
(* enter the rating like affixes; and the class of the item, which tells a *)
(* weapon's family when its name does not (weaponFamily, rate.go:185-193,  *)
(* as for the "Trarthan Cannon", a crossbow).                              *)
ClassTells(base) == FamilyOf(base.name) = "none" /\ FamilyOf(base.class) # "none"

ExportReadsBack ==
  Exportable =>
    /\ \A kind \in Kind : Open(Read("export"), kind) = Open(Read("plain"), kind)
    /\ (\A i \in DOMAIN item.base.extra : item.base.extra[i].source = "rune")
       /\ ~ClassTells(item.base)
         => Score(Read("export")) = Score(Read("plain"))

(* Each step of a plan made for a readable text can be carried out when    *)
(* the player comes to it, whatever the game did at the steps before: the  *)
(* slam finds an open slot of its kind, the annulment a modifier, and      *)
(* nothing is annulled while a slot is open (Advise, advise.go:99-176).    *)
StepsPossible ==
  plan.readable /\ ~Over =>
    CASE plan.steps[step] = "annul" ->
           FreeSlots(item, plan.kind) = 0 /\ Removable(plan.kind) # {}
      [] plan.steps[step] = "slam" -> FreeSlots(item, plan.kind) > 0
      [] plan.steps[step] = "catalyse" -> \E kind \in Kind : FreeSlots(item, kind) > 0
      [] OTHER -> ~item.corrupted

(* Getting rid of filler never lowers the rating, although it is counted   *)
(* in three places and capped in two (Rate, rate.go:43-75).                *)
FillerNeverHelps ==
  [][item.rarity = "Rare" /\ item'.affixes # item.affixes /\ item'.affixes \subseteq item.affixes
     /\ (\A a \in item.affixes \ item'.affixes :
           \A i \in DOMAIN a.lines : a.lines[i].worth = "filler")
     => \A form \in Forms : Score(Parse(item, form)) <= Score(Parse(item', form))]_vars
=============================================================================
