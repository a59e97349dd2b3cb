----------------------------- MODULE CraftItem -----------------------------
(***************************************************************************)
(* How the crafting advisor reads an item: the pasted text of the game's   *)
(* clipboard, or the one the program itself writes of an equipped item     *)
(* (ItemText, internal/pob/build.go), parsed line by line                  *)
(* (internal/craft/parse.go), the guess of a modifier's kind from its      *)
(* wording (classify.go), and the open slots that are left.                *)
(*                                                                         *)
(* A line of text is abstracted to what the code finds in it: says is the  *)
(* kind classify guesses, worth what the knowledge base holds of it for    *)
(* the build (classifyDesirability), tags the families of words in it.     *)
(* The game, which is external, has items with real affixes and writes     *)
(* them down with or without annotations.                                  *)
(***************************************************************************)
EXTENDS Integers, Sequences, FiniteSets, SequencesExt

CONSTANTS Pool,   \* the affixes an item can have
          Bases,  \* the item bases, with their implicit and rune lines
          Levels  \* item levels

Kind == {"prefix", "suffix"}
Source == {"explicit", "implicit", "crafted", "enchant", "rune", "fractured", "desecrated"}

(* An affix spans one line or more; it can be a crafted or fractured one.  *)
ASSUME PoolAssumption ==
  /\ IsFiniteSet(Pool)
  /\ \A a \in Pool : /\ a.kind \in Kind /\ a.tier \in Nat
                     /\ a.lines \in Seq(Range(a.lines)) /\ Len(a.lines) > 0
                     /\ a.source \in {"explicit", "crafted", "fractured"}
                     /\ \A i \in DOMAIN a.lines :
                          /\ a.lines[i].says \in Kind \cup {"unknown"}
                          /\ a.lines[i].worth \in {"desirable", "neutral", "filler"}
ASSUME BasesAssumption ==
  \A b \in Bases : /\ b.extra \in Seq(Range(b.extra))
                   /\ \A i \in DOMAIN b.extra :
                        /\ b.extra[i].source \in {"implicit", "rune", "enchant"}
                        /\ b.extra[i].text.says \in Kind \cup {"unknown"}
ASSUME LevelsAssumption == Levels \subseteq Nat

Of(affixes, kind) == {a \in affixes : a.kind = kind}

(* What the game allows: three affixes of a kind on a rare item, one on a  *)
(* magic one, fractured at most one of them; the modifiers of a unique     *)
(* item are fixed.                                                         *)
SlotsOf(rarity) == CASE rarity = "Rare" -> 3 [] rarity = "Magic" -> 1 [] OTHER -> 0
FreeSlots(item, kind) == SlotsOf(item.rarity) - Cardinality(Of(item.affixes, kind))

GameItem ==
  {item \in [base : Bases, rarity : {"Normal", "Magic", "Rare", "Unique"}, level : Levels,
             corrupted : BOOLEAN, affixes : SUBSET Pool] :
     /\ \A kind \in Kind : FreeSlots(item, kind) >= 0
     /\ \A a, b \in item.affixes : a.source = "fractured" /\ b.source = "fractured" => a = b}

----------------------------------------------------------------------------
(* What the game writes: the base's own lines, the affixes, and whether    *)
(* the item is corrupted.  A line has a tag with its source, or, with      *)
(* advanced descriptions, an annotation before it.  The labels Prefix and  *)
(* Suffix are those of explicit affixes; the others tell the source only.  *)
Forms == {"plain", "annotated", "export"}

ModLine(source, text) == [type |-> "mod", source |-> source, text |-> text]
Annotation(source, kind, tier) ==
  [type |-> "annotation", source |-> source, kind |-> kind, tier |-> tier]

(* What ItemText writes of the item the API describes: it tags crafted and *)
(* rune lines, no others, and leaves the fractured ones out.               *)
Untagged(source) == "explicit"  \* mutant
ExportTag(source) == IF source \in {"crafted", "rune"} THEN source ELSE "explicit"

ExtraLines(extra, form) ==
  CASE form = "plain" -> <<ModLine(extra.source, extra.text)>>
    [] form = "annotated" ->
         <<Annotation(extra.source, "unknown", 0), ModLine(extra.source, extra.text)>>
    [] form = "export" -> <<ModLine(ExportTag(extra.source), extra.text)>>

AffixLines(affix, form) ==
  LET lines(tag) == [i \in DOMAIN affix.lines |-> ModLine(tag, affix.lines[i])] IN
  CASE form = "plain" -> lines(affix.source)
    [] form = "annotated" ->
         <<IF affix.source = "explicit" THEN Annotation("explicit", affix.kind, affix.tier)
           ELSE Annotation(affix.source, "unknown", affix.tier)>> \o lines(affix.source)
    [] form = "export" ->
         IF affix.source = "fractured" THEN <<>> ELSE lines(ExportTag(affix.source))

Text(item, form) ==
  FlattenSeq([i \in DOMAIN item.base.extra |-> ExtraLines(item.base.extra[i], form)])
    \o FoldSet(LAMBDA affix, rest : AffixLines(affix, form) \o rest, <<>>, item.affixes)
    \o IF item.corrupted THEN <<[type |-> "corrupted"]>> ELSE <<>>

----------------------------------------------------------------------------
(* Parse.  The text the program writes does not tell the item's class, and *)
(* with it whether the item is jewellery.                                  *)
BaseRead(base, form) ==
  IF form = "export"
  THEN [name |-> base.name, class |-> {}, jewellery |-> FALSE, extra |-> base.extra]
  ELSE base

NoPending == [type |-> "none"]

OccupiesAnything(source) == TRUE  \* mutant
OccupiesAffix(source) == source \in {"explicit", "crafted", "fractured", "desecrated"}

(* A mod line takes over the annotation that waits for it, or is           *)
(* classified by its wording.                                              *)
ModOf(line, pending, unique) ==
  IF pending.type = "annotation"
  THEN [source |-> pending.source, kind |-> pending.kind, tier |-> pending.tier,
        text |-> line.text]
  ELSE [source |-> line.source, tier |-> 0, text |-> line.text,
        kind |-> IF OccupiesAffix(line.source) /\ ~unique THEN line.text.says ELSE "unknown"]

ReadMod(it, line) ==
  [it EXCEPT !.pending = NoPending,
             !.mods = Append(@, ModOf(line, it.pending, it.rarity = "Unique"))]

ReadLine(it, line) ==
  CASE line.type = "corrupted" -> [it EXCEPT !.corrupted = TRUE]
    [] line.type = "annotation" -> [it EXCEPT !.annotated = TRUE, !.pending = line]
    [] line.type = "mod" -> ReadMod(it, line)

(* countAffixes: a mod of unknown kind counts for neither.                 *)
CountOf(it, kind) ==
  Cardinality({i \in DOMAIN it.mods : OccupiesAffix(it.mods[i].source) /\ it.mods[i].kind = kind})
Open(it, kind) ==
  IF it.rarity = "Unique" \/ CountOf(it, kind) > 3 THEN 0 ELSE 3 - CountOf(it, kind)

Parse(item, form) ==
  FoldLeft(ReadLine,
           [base |-> BaseRead(item.base, form), rarity |-> item.rarity, level |-> item.level,
            corrupted |-> FALSE, annotated |-> FALSE, pending |-> NoPending, mods |-> <<>>],
           Text(item, form))
=============================================================================
