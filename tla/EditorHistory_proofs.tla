------------------------- MODULE EditorHistory_proofs -------------------------
(***************************************************************************)
(* Theorems about the editors of DocumentUse: what is stored is what is    *)
(* shown, and undo and redo go between the same pages.                     *)
(***************************************************************************)
EXTENDS DocumentUse, SequenceTheorems, TLAPS

TextValues == Phrases \cup {NoText}

EditorRecords ==
    [made : BOOLEAN, shown : BOOLEAN, text : TextValues, typed : TextValues, color : Colors,
     x : 0 .. Right, stored : BOOLEAN]

EditorWorlds == [Editors -> EditorRecords]

PartialPlaces == UNION {[es -> Int] : es \in SUBSET Editors}

TextCommands      == [kind : {"text"}, editor : Editors, old : TextValues, new : TextValues \ {NoText}]
ColorCommands     == [kind : {"color"}, editor : Editors, new : Colors,
                      undoes : [editor : Editors, color : Colors]]
DragCommands      == [kind : {"drag"}, old : PartialPlaces, new : PartialPlaces]
TranslateCommands == [kind : {"translate"}, editors : SUBSET Editors, by : Int]
DeleteCommands    == [kind : {"delete"}, editors : SUBSET Editors]

EditorCommands == TextCommands \cup ColorCommands \cup DragCommands \cup TranslateCommands \cup DeleteCommands

\* The editors a command is about.
Mentions(c) ==
    CASE c.kind = "text"  -> {c.editor}
      [] c.kind = "color" -> {c.editor, c.undoes.editor}
      [] c.kind = "drag"  -> DOMAIN c.new \cup DOMAIN c.old
      [] c.kind \in {"translate", "delete"} -> c.editors

\* What a command does to one editor, and what its undoing does.
TextSet(r, t) ==
    IF t = NoText THEN [r EXCEPT !.text = t, !.shown = FALSE, !.stored = FALSE]
    ELSE [r EXCEPT !.text = t, !.typed = t, !.shown = TRUE, !.stored = IF r.shown THEN r.stored ELSE TRUE]

PlaceSet(r, x) == IF r.shown THEN [r EXCEPT !.x = Clamped(x)] ELSE r

Taken(r) == [r EXCEPT !.shown = FALSE, !.stored = FALSE]
Given(r) == IF r.shown THEN r ELSE [r EXCEPT !.shown = TRUE, !.stored = r.typed # NoText]

DidTo(r, c, e) ==
    IF c.kind = "text" THEN IF e = c.editor THEN TextSet(r, c.new) ELSE r
    ELSE IF c.kind = "color" THEN IF e = c.editor THEN [r EXCEPT !.color = c.new] ELSE r
    ELSE IF c.kind = "drag" THEN IF e \in DOMAIN c.new THEN PlaceSet(r, c.new[e]) ELSE r
    ELSE IF c.kind = "translate" THEN IF e \in c.editors THEN PlaceSet(r, r.x + c.by) ELSE r
    ELSE IF e \in c.editors THEN Taken(r) ELSE r

UndidTo(r, c, e) ==
    IF c.kind = "text" THEN IF e = c.editor THEN TextSet(r, c.old) ELSE r
    ELSE IF c.kind = "color" THEN IF e = c.undoes.editor THEN [r EXCEPT !.color = c.undoes.color] ELSE r
    ELSE IF c.kind = "drag" THEN IF e \in DOMAIN c.old THEN PlaceSet(r, c.old[e]) ELSE r
    ELSE IF c.kind = "translate" THEN IF e \in c.editors THEN PlaceSet(r, r.x - c.by) ELSE r
    ELSE IF e \in c.editors THEN Given(r) ELSE r

\* An editor that is not in edit mode: what is stored is what is shown; it is shown with
\* a text only; what was typed is its text, unless one of both has been taken away.
EditorOK(r, isPlain) ==
    /\ r.stored => r.shown /\ r.text = r.typed
    /\ r.shown => r.text # NoText
    /\ r.text # NoText /\ r.typed # NoText => r.text = r.typed
    /\ isPlain => /\ r.shown => r.stored
                  /\ r.text # NoText => r.typed # NoText

\* An editor is shown once it was made, and has no text before.
MadeOK(r) == ~r.made => ~r.shown /\ r.text = NoText

EditorsOK(w, isPlain, ed) ==
    /\ \A e \in Editors \ {ed} : EditorOK(w[e], isPlain)
    /\ \A e \in Editors : MadeOK(w[e])
    /\ ed # NoEditor => ed \in Editors /\ w[ed].shown

\* Commands are about editors that were made, and none is deleted before it has a text: a
\* deletion that could be undone now finds one.
IsDeletion(c, e) == c.kind = "delete" /\ e \in c.editors
IsText(c, e)     == c.kind = "text" /\ c.editor = e

CommandsOK(w, cs, p) ==
    /\ \A i \in 1 .. Len(cs) : \A e \in Mentions(cs[i]) : w[e].made
    /\ \A e \in Editors : w[e].text = NoText =>
         \A j \in 1 .. Len(cs) : IsDeletion(cs[j], e) => \E i \in p + 1 .. j - 1 : IsText(cs[i], e)
    /\ \A e \in Editors : \A i, j \in 1 .. Len(cs) :
         IsText(cs[i], e) /\ cs[i].old = NoText /\ IsDeletion(cs[j], e) => i < j

HistoryTypes(w, cs, p, isPlain) ==
    /\ w \in EditorWorlds /\ cs \in Seq(EditorCommands)
    /\ p \in 0 .. Len(cs) /\ p <= MaxSize /\ Len(cs) <= MaxSize
    /\ isPlain \in BOOLEAN

StorageOK(w, cs, p, isPlain, ed) ==
    HistoryTypes(w, cs, p, isPlain) /\ EditorsOK(w, isPlain, ed) /\ CommandsOK(w, cs, p)

\* h is a state of the command manager, as in the module (H).
IsHistory(h) ==
    h = [world |-> h.world, commands |-> h.commands, position |-> h.position, worlds |-> h.worlds,
         plain |-> h.plain]

StorageInv(h, ed) == IsHistory(h) /\ StorageOK(h.world, h.commands, h.position, h.plain, ed)

EditorsInv == StorageInv(H, editing)

------------------------------------------------------------------------------
(* What the operations do to one editor.                                    *)

LEMMA PlacesAre ==
  ASSUME NEW f \in PartialPlaces
  PROVE  DOMAIN f \subseteq Editors /\ \A e \in DOMAIN f : f[e] \in Int
<1>1. PICK es \in SUBSET Editors : f \in [es -> Int]
  BY DEF PartialPlaces
<1> QED BY <1>1

LEMMA ArePlaces ==
  ASSUME NEW es \in SUBSET Editors, NEW f \in [es -> Int]
  PROVE  f \in PartialPlaces
BY DEF PartialPlaces

LEMMA ClampedIs ==
  ASSUME NEW n \in Int
  PROVE  Clamped(n) \in 0 .. Right /\ (n \in 0 .. Right => Clamped(n) = n)
BY EditorAssumption DEF Clamped

LEMMA TextSetIs ==
  ASSUME NEW w \in EditorWorlds, NEW e \in Editors, NEW t, t # NoText
  PROVE  SetText(w, e, t) = [w EXCEPT ![e] = TextSet(w[e], t)]
<1>0. \A f \in Editors : w[f] \in EditorRecords
  BY DEF EditorWorlds
<1> DEFINE w1 == [w EXCEPT ![e].text = t, ![e].typed = t]
<1>2. w1[e] = [w[e] EXCEPT !.text = t, !.typed = t]
  BY DEF EditorWorlds
<1>3. w1[e].shown = w[e].shown /\ w1[e].typed = t /\ w1[e].stored = w[e].stored
  BY <1>0, <1>2 DEF EditorRecords
<1>4. SetText(w, e, t) = AddToLayer(w1, e)
  BY DEF SetText
<1>5. CASE w[e].shown
  <2>1. AddToLayer(w1, e) = w1
    BY <1>3, <1>5 DEF AddToLayer
  <2>2. TextSet(w[e], t) = w1[e]
    BY <1>0, <1>2, <1>5 DEF TextSet, EditorRecords
  <2>3. w1 = [w EXCEPT ![e] = w1[e]]
    BY <1>2 DEF EditorWorlds
  <2> QED BY <1>4, <2>1, <2>2, <2>3
<1>6. CASE ~w[e].shown
  <2>1. AddToLayer(w1, e) = [w1 EXCEPT ![e].shown = TRUE, ![e].stored = TRUE]
    BY <1>3, <1>6 DEF AddToLayer
  <2> QED BY <1>0, <1>2, <1>3, <1>4, <1>6, <2>1 DEF TextSet, EditorWorlds, EditorRecords
<1> QED BY <1>5, <1>6

LEMMA DoIs ==
  ASSUME NEW w \in EditorWorlds, NEW c \in EditorCommands
  PROVE  Do(w, c) = [e \in Editors |-> DidTo(w[e], c, e)]
<1>0. \A e \in Editors : w[e] \in EditorRecords
  BY DEF EditorWorlds
<1>1. CASE c \in TextCommands
  <2>1. c.kind = "text" /\ c.editor \in Editors /\ c.new # NoText
    BY <1>1 DEF TextCommands
  <2>2. Do(w, c) = SetText(w, c.editor, c.new)
    BY <2>1 DEF Do
  <2> DEFINE e == c.editor
             t == c.new
  <2>3. SetText(w, e, t) = [w EXCEPT ![e] = TextSet(w[e], t)]
    <3> HIDE DEF e, t
    <3> QED BY <2>1, TextSetIs DEF e, t
  <2>4. \A f \in Editors : DidTo(w[f], c, f) = IF f = e THEN TextSet(w[f], t) ELSE w[f]
    BY <2>1 DEF DidTo
  <2> QED BY <2>1, <2>2, <2>3, <2>4 DEF EditorWorlds
<1>2. CASE c \in ColorCommands
  <2>1. c.kind = "color" /\ c.editor \in Editors
    BY <1>2 DEF ColorCommands
  <2> QED BY <2>1 DEF Do, DidTo, EditorWorlds
<1>3. CASE c \in DragCommands
  <2>1. c.kind = "drag"
    BY <1>3 DEF DragCommands
  <2> QED BY <2>1 DEF Do, DidTo, MoveTo, PlaceSet
<1>4. CASE c \in TranslateCommands
  <2>1. c.kind = "translate"
    BY <1>4 DEF TranslateCommands
  <2> QED BY <2>1 DEF Do, DidTo, MoveBy, PlaceSet
<1>5. CASE c \in DeleteCommands
  <2>1. c.kind = "delete"
    BY <1>5 DEF DeleteCommands
  <2>2. \A e \in Editors : Removed(w, e)[e] = Taken(w[e])
    BY DEF Removed, Taken, EditorWorlds
  <2>3. Do(w, c) = [e \in Editors |-> IF e \in c.editors THEN Removed(w, e)[e] ELSE w[e]]
    BY <2>1 DEF Do, Each
  <2> QED BY <2>1, <2>2, <2>3 DEF DidTo
<1> QED BY <1>1, <1>2, <1>3, <1>4, <1>5 DEF EditorCommands

LEMMA UndoIs ==
  ASSUME NEW w \in EditorWorlds, NEW c \in EditorCommands
  PROVE  Undo(w, c) = [e \in Editors |-> UndidTo(w[e], c, e)]
<1>0. \A e \in Editors : w[e] \in EditorRecords
  BY DEF EditorWorlds
<1>1. CASE c \in TextCommands
  <2> DEFINE e == c.editor
             t == c.old
  <2>1. c.kind = "text" /\ e \in Editors /\ t \in TextValues
    BY <1>1 DEF TextCommands
  <2>2. Undo(w, c) = SetText(w, e, t)
    BY <2>1 DEF Undo
  <2>3. SetText(w, e, t) = [w EXCEPT ![e] = TextSet(w[e], t)]
    <3> HIDE DEF e, t
    <3>1. CASE t = NoText
      <4> DEFINE w1 == [w EXCEPT ![e].text = t]
      <4>1. w1[e] = [w[e] EXCEPT !.text = t]
        BY <2>1 DEF EditorWorlds
      <4>2. SetText(w, e, t) = [w1 EXCEPT ![e].shown = FALSE, ![e].stored = FALSE]
        BY <3>1 DEF SetText, Removed
      <4> QED BY <1>0, <2>1, <3>1, <4>1, <4>2 DEF TextSet, EditorWorlds, EditorRecords
    <3>2. CASE t # NoText
      BY <2>1, <3>2, TextSetIs
    <3> QED BY <3>1, <3>2
  <2>4. \A f \in Editors : UndidTo(w[f], c, f) = IF f = e THEN TextSet(w[f], t) ELSE w[f]
    BY <2>1 DEF UndidTo
  <2> QED BY <2>1, <2>2, <2>3, <2>4 DEF EditorWorlds
<1>2. CASE c \in ColorCommands
  <2>1. c.kind = "color" /\ c.undoes.editor \in Editors
    BY <1>2 DEF ColorCommands
  <2> QED BY <2>1 DEF Undo, UndidTo, EditorWorlds
<1>3. CASE c \in DragCommands
  <2>1. c.kind = "drag"
    BY <1>3 DEF DragCommands
  <2> QED BY <2>1 DEF Undo, UndidTo, MoveTo, PlaceSet
<1>4. CASE c \in TranslateCommands
  <2>1. c.kind = "translate" /\ c.by \in Int
    BY <1>4 DEF TranslateCommands
  <2>2. Undo(w, c) = [e \in Editors |-> IF e \in c.editors /\ w[e].shown
                                       THEN [w[e] EXCEPT !.x = Clamped(w[e].x + (-c.by))] ELSE w[e]]
    BY <1>0, <2>1 DEF Undo, MoveBy, EditorRecords
  <2>3. \A e \in Editors : w[e].x + (-c.by) = w[e].x - c.by
    BY <1>0, <2>1, EditorAssumption DEF EditorRecords
  <2> QED BY <2>1, <2>2, <2>3 DEF UndidTo, PlaceSet
<1>5. CASE c \in DeleteCommands
  <2>1. c.kind = "delete"
    BY <1>5 DEF DeleteCommands
  <2>2. \A e \in Editors : AddToLayer(w, e)[e] = Given(w[e])
    BY DEF AddToLayer, Given, EditorWorlds
  <2>3. Undo(w, c) = [e \in Editors |-> IF e \in c.editors THEN AddToLayer(w, e)[e] ELSE w[e]]
    BY <2>1 DEF Undo, Each
  <2> QED BY <2>1, <2>2, <2>3 DEF UndidTo
<1> QED BY <1>1, <1>2, <1>3, <1>4, <1>5 DEF EditorCommands

LEMMA CommandKinds ==
  ASSUME NEW c \in EditorCommands
  PROVE  /\ c.kind \in {"text", "color", "drag", "translate", "delete"}
         /\ c.kind = "text" => c \in TextCommands
         /\ c.kind = "color" => c \in ColorCommands
         /\ c.kind = "drag" => c \in DragCommands
         /\ c.kind = "translate" => c \in TranslateCommands
         /\ c.kind = "delete" => c \in DeleteCommands
BY DEF EditorCommands, TextCommands, ColorCommands, DragCommands, TranslateCommands, DeleteCommands

LEMMA PlaceSetIs ==
  ASSUME NEW r \in EditorRecords, NEW n \in Int
  PROVE  /\ PlaceSet(r, n) \in EditorRecords
         /\ PlaceSet(r, n) = [r EXCEPT !.x = PlaceSet(r, n).x]
BY ClampedIs DEF PlaceSet, EditorRecords

LEMMA SmallSets ==
  ASSUME NEW r \in EditorRecords, NEW t \in TextValues
  PROVE  TextSet(r, t) \in EditorRecords /\ Taken(r) \in EditorRecords /\ Given(r) \in EditorRecords
BY DEF TextSet, Taken, Given, EditorRecords

\* What of an editor is the same after a command, or its undoing.
LEMMA DidToIs ==
  ASSUME NEW r \in EditorRecords, NEW c \in EditorCommands, NEW e \in Editors
  PROVE  /\ DidTo(r, c, e) \in EditorRecords
         /\ DidTo(r, c, e).made = r.made
         /\ e \notin Mentions(c) => DidTo(r, c, e) = r
         /\ ~IsText(c, e) => DidTo(r, c, e).text = r.text /\ DidTo(r, c, e).typed = r.typed
         /\ ~IsText(c, e) /\ ~IsDeletion(c, e)
              => DidTo(r, c, e).shown = r.shown /\ DidTo(r, c, e).stored = r.stored
         /\ IsText(c, e) => DidTo(r, c, e) = TextSet(r, c.new)
         /\ IsDeletion(c, e) => DidTo(r, c, e) = Taken(r)
<1>1. CASE c.kind = "text"
  <2>1. c.new \in TextValues
    BY <1>1, CommandKinds DEF TextCommands
  <2>2. TextSet(r, c.new) \in EditorRecords /\ TextSet(r, c.new).made = r.made
    BY <2>1, SmallSets DEF TextSet, EditorRecords
  <2> QED BY <1>1, <2>2 DEF DidTo, Mentions, IsText, IsDeletion
<1>2. CASE c.kind = "color"
  <2>1. c.new \in Colors
    BY <1>2, CommandKinds DEF ColorCommands
  <2> QED BY <1>2, <2>1 DEF DidTo, Mentions, IsText, IsDeletion, EditorRecords
<1>3. CASE c.kind = "drag"
  <2>1. c.new \in PartialPlaces
    BY <1>3, CommandKinds DEF DragCommands
  <2>2. e \in DOMAIN c.new => c.new[e] \in Int
    BY <2>1, PlacesAre
  <2>3. CASE e \in DOMAIN c.new
    <3>1. DidTo(r, c, e) = PlaceSet(r, c.new[e])
      BY <1>3, <2>3 DEF DidTo
    <3> QED BY <1>3, <2>2, <2>3, <3>1, PlaceSetIs DEF Mentions, IsText, IsDeletion, EditorRecords
  <2>4. CASE e \notin DOMAIN c.new
    BY <1>3, <2>4 DEF DidTo, IsText, IsDeletion
  <2> QED BY <2>3, <2>4
<1>4. CASE c.kind = "translate"
  <2>1. c.by \in Int
    BY <1>4, CommandKinds DEF TranslateCommands
  <2>2. r.x + c.by \in Int
    BY <2>1, EditorAssumption DEF EditorRecords
  <2>3. CASE e \in c.editors
    <3>1. DidTo(r, c, e) = PlaceSet(r, r.x + c.by)
      BY <1>4, <2>3 DEF DidTo
    <3> QED BY <1>4, <2>2, <2>3, <3>1, PlaceSetIs DEF Mentions, IsText, IsDeletion, EditorRecords
  <2>4. CASE e \notin c.editors
    BY <1>4, <2>4 DEF DidTo, IsText, IsDeletion
  <2> QED BY <2>3, <2>4
<1>5. CASE c.kind = "delete"
  BY <1>5, SmallSets DEF DidTo, Mentions, IsText, IsDeletion, Taken, EditorRecords
<1> QED BY <1>1, <1>2, <1>3, <1>4, <1>5, CommandKinds

LEMMA UndidToIs ==
  ASSUME NEW r \in EditorRecords, NEW c \in EditorCommands, NEW e \in Editors
  PROVE  /\ UndidTo(r, c, e) \in EditorRecords
         /\ UndidTo(r, c, e).made = r.made
         /\ e \notin Mentions(c) => UndidTo(r, c, e) = r
         /\ ~IsText(c, e) => UndidTo(r, c, e).text = r.text /\ UndidTo(r, c, e).typed = r.typed
         /\ ~IsText(c, e) /\ ~IsDeletion(c, e)
              => UndidTo(r, c, e).shown = r.shown /\ UndidTo(r, c, e).stored = r.stored
         /\ IsText(c, e) => UndidTo(r, c, e) = TextSet(r, c.old)
         /\ IsDeletion(c, e) => UndidTo(r, c, e) = Given(r)
<1>1. CASE c.kind = "text"
  <2>1. c.old \in TextValues
    BY <1>1, CommandKinds DEF TextCommands
  <2>2. TextSet(r, c.old) \in EditorRecords /\ TextSet(r, c.old).made = r.made
    BY <2>1, SmallSets DEF TextSet, EditorRecords
  <2> QED BY <1>1, <2>2 DEF UndidTo, Mentions, IsText, IsDeletion
<1>2. CASE c.kind = "color"
  <2>1. c.undoes.color \in Colors
    BY <1>2, CommandKinds DEF ColorCommands
  <2> QED BY <1>2, <2>1 DEF UndidTo, Mentions, IsText, IsDeletion, EditorRecords
<1>3. CASE c.kind = "drag"
  <2>1. c.old \in PartialPlaces
    BY <1>3, CommandKinds DEF DragCommands
  <2>2. e \in DOMAIN c.old => c.old[e] \in Int
    BY <2>1, PlacesAre
  <2>3. CASE e \in DOMAIN c.old
    <3>1. UndidTo(r, c, e) = PlaceSet(r, c.old[e])
      BY <1>3, <2>3 DEF UndidTo
    <3> QED BY <1>3, <2>2, <2>3, <3>1, PlaceSetIs DEF Mentions, IsText, IsDeletion, EditorRecords
  <2>4. CASE e \notin DOMAIN c.old
    BY <1>3, <2>4 DEF UndidTo, IsText, IsDeletion
  <2> QED BY <2>3, <2>4
<1>4. CASE c.kind = "translate"
  <2>1. c.by \in Int
    BY <1>4, CommandKinds DEF TranslateCommands
  <2>2. r.x - c.by \in Int
    BY <2>1, EditorAssumption DEF EditorRecords
  <2>3. CASE e \in c.editors
    <3>1. UndidTo(r, c, e) = PlaceSet(r, r.x - c.by)
      BY <1>4, <2>3 DEF UndidTo
    <3> QED BY <1>4, <2>2, <2>3, <3>1, PlaceSetIs DEF Mentions, IsText, IsDeletion, EditorRecords
  <2>4. CASE e \notin c.editors
    BY <1>4, <2>4 DEF UndidTo, IsText, IsDeletion
  <2> QED BY <2>3, <2>4
<1>5. CASE c.kind = "delete"
  BY <1>5, SmallSets DEF UndidTo, Mentions, IsText, IsDeletion, Given, EditorRecords
<1> QED BY <1>1, <1>2, <1>3, <1>4, <1>5, CommandKinds

\* An editor stays as it should be.
LEMMA TextSetOK ==
  ASSUME NEW r \in EditorRecords, NEW t \in TextValues, NEW isPlain \in BOOLEAN, EditorOK(r, isPlain)
  PROVE  EditorOK(TextSet(r, t), isPlain)
BY DEF EditorOK, TextSet, EditorRecords

LEMMA DidToOK ==
  ASSUME NEW r \in EditorRecords, NEW c \in EditorCommands, NEW e \in Editors, NEW isPlain \in BOOLEAN,
         EditorOK(r, isPlain)
  PROVE  EditorOK(DidTo(r, c, e), isPlain)
<1>1. CASE IsText(c, e)
  <2>1. c.new \in TextValues
    BY <1>1, CommandKinds DEF IsText, TextCommands
  <2> QED BY <1>1, <2>1, DidToIs, TextSetOK
<1>2. CASE IsDeletion(c, e)
  <2>1. DidTo(r, c, e) = Taken(r)
    BY <1>2, DidToIs
  <2>2. EditorOK(Taken(r), isPlain)
    BY DEF Taken, EditorOK, EditorRecords
  <2> QED BY <2>1, <2>2
<1>3. CASE ~IsText(c, e) /\ ~IsDeletion(c, e)
  BY <1>3, DidToIs DEF EditorOK
<1> QED BY <1>1, <1>2, <1>3

LEMMA UndidToOK ==
  ASSUME NEW r \in EditorRecords, NEW c \in EditorCommands, NEW e \in Editors, NEW isPlain \in BOOLEAN,
         EditorOK(r, isPlain), IsDeletion(c, e) => r.text # NoText
  PROVE  EditorOK(UndidTo(r, c, e), isPlain)
<1>1. CASE IsText(c, e)
  <2>1. c.old \in TextValues
    BY <1>1, CommandKinds DEF IsText, TextCommands
  <2> QED BY <1>1, <2>1, UndidToIs, TextSetOK
<1>2. CASE IsDeletion(c, e)
  <2>1. UndidTo(r, c, e) = Given(r)
    BY <1>2, UndidToIs
  <2>2. EditorOK(Given(r), isPlain)
    BY <1>2 DEF Given, EditorOK, EditorRecords
  <2> QED BY <2>1, <2>2
<1>3. CASE ~IsText(c, e) /\ ~IsDeletion(c, e)
  BY <1>3, UndidToIs DEF EditorOK
<1> QED BY <1>1, <1>2, <1>3

------------------------------------------------------------------------------
(* The command manager.                                                     *)

\* What a world has left after some step: the editors made stay made, and one without a
\* text had none before.
LEMMA DoWorld ==
  ASSUME NEW w \in EditorWorlds, NEW c \in EditorCommands
  PROVE  /\ Do(w, c) \in EditorWorlds /\ Undo(w, c) \in EditorWorlds
         /\ \A e \in Editors : Do(w, c)[e] = DidTo(w[e], c, e) /\ Undo(w, c)[e] = UndidTo(w[e], c, e)
<1>1. \A e \in Editors : w[e] \in EditorRecords
  BY DEF EditorWorlds
<1>2. \A e \in Editors : DidTo(w[e], c, e) \in EditorRecords /\ UndidTo(w[e], c, e) \in EditorRecords
  BY <1>1, DidToIs, UndidToIs
<1> QED BY <1>2, DoIs, UndoIs DEF EditorWorlds

\* The commands after a new one: those kept, and the new one, or the last MaxSize of them.
Newer(cs, p, c) == IF p = MaxSize THEN Tail(Append(SubSeq(cs, 1, p), c)) ELSE Append(SubSeq(cs, 1, p), c)
After(p) == IF p = MaxSize THEN p ELSE p + 1

LEMMA NewerIs ==
  ASSUME NEW S, NEW cs \in Seq(S), NEW p \in 0 .. Len(cs), p <= MaxSize, NEW c \in S
  PROVE  /\ Newer(cs, p, c) \in Seq(S) /\ Len(Newer(cs, p, c)) = After(p)
         /\ After(p) \in Nat /\ After(p) <= MaxSize /\ After(p) >= 1
         /\ Newer(cs, p, c)[After(p)] = c
         /\ \A i \in 1 .. After(p) - 1 : /\ Newer(cs, p, c)[i] = cs[i + p + 1 - After(p)]
                                        /\ i + p + 1 - After(p) \in 1 .. p
<1> DEFINE k == SubSeq(cs, 1, p)
           s == Append(k, c)
<1>1. k \in Seq(S) /\ Len(k) = p /\ \A i \in 1 .. p : k[i] = cs[i]
  BY SubSeqProperties
<1>2. s \in Seq(S) /\ Len(s) = p + 1 /\ (\A i \in 1 .. p : s[i] = cs[i]) /\ s[p + 1] = c /\ s # <<>>
  <2> HIDE DEF k
  <2> QED BY <1>1, AppendProperties
<1> HIDE DEF s
<1>3. Tail(s) \in Seq(S) /\ Len(Tail(s)) = p /\ \A i \in 1 .. p : Tail(s)[i] = s[i + 1]
  BY <1>2, HeadTailProperties
<1>4. CASE p = MaxSize
  <2>1. Newer(cs, p, c) = Tail(s) /\ After(p) = p /\ p >= 1
    BY <1>4, EditorAssumption DEF Newer, After, s
  <2>2. \A i \in 1 .. p - 1 : Tail(s)[i] = cs[i + 1] /\ i + 1 \in 1 .. p
    BY <1>2, <1>3
  <2>3. Tail(s)[p] = c
    BY <1>2, <1>3, <2>1
  <2> QED BY <1>2, <1>3, <1>4, <2>1, <2>2, <2>3
<1>5. CASE p # MaxSize
  <2>1. Newer(cs, p, c) = s /\ After(p) = p + 1
    BY <1>5 DEF Newer, After, s
  <2> QED BY <1>2, <1>5, <2>1, EditorAssumption
<1> QED BY <1>4, <1>5

LEMMA MentionsAre ==
  ASSUME NEW c \in EditorCommands
  PROVE  Mentions(c) \subseteq Editors
<1>1. c.kind = "drag" => DOMAIN c.new \subseteq Editors /\ DOMAIN c.old \subseteq Editors
  BY CommandKinds, PlacesAre DEF DragCommands
<1>2. c.kind = "text" => c.editor \in Editors
  BY CommandKinds DEF TextCommands
<1>3. c.kind = "color" => c.editor \in Editors /\ c.undoes.editor \in Editors
  BY CommandKinds DEF ColorCommands
<1>4. c.kind \in {"translate", "delete"} => c.editors \subseteq Editors
  BY CommandKinds DEF TranslateCommands, DeleteCommands
<1> QED BY <1>1, <1>2, <1>3, <1>4, CommandKinds DEF Mentions

\* A new command about editors that were made: nothing can be redone, so that what was
\* deleted by the commands left has its text, or was deleted after it.
LEMMA NewerOK ==
  ASSUME NEW w0 \in EditorWorlds, NEW w \in EditorWorlds, NEW cs \in Seq(EditorCommands),
         NEW p \in 0 .. Len(cs), p <= MaxSize, NEW c \in EditorCommands, CommandsOK(w0, cs, p),
         \A e \in Editors : w0[e].made => w[e].made,
         \A e \in Mentions(c) : w[e].made,
         \A e \in Editors : w[e].text = NoText => w0[e].text = NoText,
         \A e \in Editors : IsDeletion(c, e) => w[e].text # NoText,
         \A e \in Editors : IsText(c, e) /\ c.old = NoText => w0[e].text = NoText
  PROVE  CommandsOK(w, Newer(cs, p, c), After(p))
<1> DEFINE n == Newer(cs, p, c)
           q == After(p)
<1>1. /\ Len(n) = q /\ q \in Nat /\ q >= 1 /\ n[q] = c
      /\ \A i \in 1 .. q - 1 : n[i] = cs[i + p + 1 - q] /\ i + p + 1 - q \in 1 .. p
  BY NewerIs
<1>2. \A e \in Editors, j \in 1 .. p : w0[e].text = NoText => ~IsDeletion(cs[j], e)
  <2> SUFFICES ASSUME NEW e \in Editors, NEW j \in 1 .. p, w0[e].text = NoText, IsDeletion(cs[j], e)
               PROVE  FALSE
    OBVIOUS
  <2>1. \E i \in p + 1 .. j - 1 : IsText(cs[i], e)
    BY DEF CommandsOK
  <2> QED BY <2>1
<1>3. \A i \in 1 .. q : i = q \/ i \in 1 .. q - 1
  BY <1>1
<1> HIDE DEF n, q
<1>4. \A i \in 1 .. Len(n) : \A e \in Mentions(n[i]) : w[e].made
  <2> SUFFICES ASSUME NEW i \in 1 .. Len(n), NEW e \in Mentions(n[i]) PROVE w[e].made
    OBVIOUS
  <2>1. CASE i = q
    BY <1>1, <2>1
  <2>2. CASE i \in 1 .. q - 1
    <3>1. PICK j \in 1 .. p : n[i] = cs[j]
      BY <1>1, <2>2
    <3>2. w0[e].made
      BY <3>1 DEF CommandsOK
    <3>3. e \in Editors
      BY <3>1, MentionsAre, ElementOfSeq
    <3> QED BY <3>2, <3>3
  <2> QED BY <1>1, <1>3, <2>1, <2>2
<1>5. ASSUME NEW e \in Editors, NEW j \in 1 .. Len(n), w[e].text = NoText PROVE ~IsDeletion(n[j], e)
  BY <1>1, <1>2, <1>3, <1>5
<1>6. ASSUME NEW e \in Editors, NEW i \in 1 .. Len(n), NEW j \in 1 .. Len(n),
             IsText(n[i], e), n[i].old = NoText, IsDeletion(n[j], e)
      PROVE  i < j
  <2>1. CASE j = q
    BY <1>1, <1>6, <2>1 DEF IsText, IsDeletion
  <2>2. CASE j \in 1 .. q - 1 /\ i = q
    BY <1>1, <1>2, <1>6, <2>2
  <2>3. CASE j \in 1 .. q - 1 /\ i \in 1 .. q - 1
    \* the order of the commands kept
    <3>1. /\ n[i] = cs[i + p + 1 - q] /\ n[j] = cs[j + p + 1 - q]
          /\ i + p + 1 - q \in 1 .. p /\ j + p + 1 - q \in 1 .. p
      BY <1>1, <2>3
    <3>2. i + p + 1 - q < j + p + 1 - q
      BY <1>6, <3>1 DEF CommandsOK
    <3> QED BY <1>1, <3>2
  <2> QED BY <1>1, <1>3, <2>1, <2>2, <2>3
<1>7. \A e \in Editors : w[e].text = NoText =>
         \A j \in 1 .. Len(n) : IsDeletion(n[j], e) => \E i \in q + 1 .. j - 1 : IsText(n[i], e)
  BY <1>5
<1>8. \A e \in Editors : \A i, j \in 1 .. Len(n) :
         IsText(n[i], e) /\ n[i].old = NoText /\ IsDeletion(n[j], e) => i < j
  BY <1>6
<1>9. CommandsOK(w, n, q)
  BY <1>4, <1>7, <1>8 DEF CommandsOK
<1> QED BY <1>9 DEF n, q

LEMMA NewCommandIs ==
  ASSUME NEW h, IsHistory(h), NEW c, NEW w, NEW n, n = NewCommand(h, c, w)
  PROVE  /\ IsHistory(n) /\ n.world = w /\ n.plain = h.plain
         /\ n.commands = Newer(h.commands, h.position, c) /\ n.position = After(h.position)
         /\ n.worlds = IF h.position = MaxSize THEN Tail(Append(SubSeq(h.worlds, 1, h.position + 1), Seen(w)))
                       ELSE Append(SubSeq(h.worlds, 1, h.position + 1), Seen(w))
<1> DEFINE cs == Newer(h.commands, h.position, c)
           q  == After(h.position)
           v  == Append(SubSeq(h.worlds, 1, h.position + 1), Seen(w))
           vs == IF h.position = MaxSize THEN Tail(v) ELSE v
<1>1. n = [h EXCEPT !.world = w, !.commands = cs, !.worlds = vs, !.position = q]
  BY DEF NewCommand, Kept, Newer, After
<1> HIDE DEF cs, q, vs
<1>2. n = [world |-> w, commands |-> cs, position |-> q, worlds |-> vs, plain |-> h.plain]
  BY <1>1 DEF IsHistory
<1> QED BY <1>2 DEF IsHistory, cs, q, vs

\* The command that takes the place of the last one, and the commands and the history then.
KeepingUndo(c, last) == [c EXCEPT !.undoes = last.undoes]
PutAt(s, i, z) == [s EXCEPT ![i] = z]

LEMMA OverwriteIs ==
  ASSUME NEW h, IsHistory(h), NEW c, NEW w, NEW n, n = Overwrite(h, c, w)
  PROVE  /\ IsHistory(n) /\ n.world = w /\ n.position = h.position
         /\ n.plain \in BOOLEAN
         /\ n.plain => h.plain /\ h.commands[h.position].editor = c.editor /\ h.position = Len(h.commands)
         /\ n.commands = PutAt(h.commands, h.position, KeepingUndo(c, h.commands[h.position]))
         /\ n.worlds = PutAt(h.worlds, h.position + 1, Seen(w))
<1> DEFINE isPlain == h.plain /\ h.commands[h.position].editor = c.editor /\ h.position = Len(h.commands)
           d  == [c EXCEPT !.undoes = h.commands[h.position].undoes]
           cs == [h.commands EXCEPT ![h.position] = d]
           vs == [h.worlds EXCEPT ![h.position + 1] = Seen(w)]
<1>1. n = [h EXCEPT !.world = w, !.commands = cs, !.worlds = vs, !.plain = isPlain]
  <2>1. n = [h EXCEPT !.world = w, !.commands[h.position] = d, !.worlds[h.position + 1] = Seen(w),
                      !.plain = isPlain]
    BY DEF Overwrite
  <2> HIDE DEF d, isPlain
  <2> QED BY <2>1 DEF IsHistory
<1>2. /\ isPlain \in BOOLEAN
      /\ isPlain => h.plain /\ h.commands[h.position].editor = c.editor /\ h.position = Len(h.commands)
  OBVIOUS
<1> HIDE DEF cs, vs, isPlain
<1>3. n = [world |-> w, commands |-> cs, position |-> h.position, worlds |-> vs, plain |-> isPlain]
  BY <1>1 DEF IsHistory
<1>4. /\ n.world = w /\ n.commands = cs /\ n.position = h.position /\ n.worlds = vs /\ n.plain = isPlain
      /\ IsHistory(n)
  BY <1>3 DEF IsHistory
<1>5. n.plain \in BOOLEAN
  BY <1>2, <1>4
<1>6. n.plain => h.plain /\ h.commands[h.position].editor = c.editor /\ h.position = Len(h.commands)
  BY <1>2, <1>4
<1> QED BY <1>4, <1>5, <1>6 DEF cs, vs, PutAt, KeepingUndo

LEMMA EditorOKWeaker ==
  ASSUME NEW r, NEW p, NEW q, EditorOK(r, p), q => p
  PROVE  EditorOK(r, q)
BY DEF EditorOK

\* An editor that is shown was made, and has a text, unless it is in edit mode.
LEMMA ShownAre ==
  ASSUME NEW w, NEW isPlain, NEW ed, EditorsOK(w, isPlain, ed), NEW e \in Editors, w[e].shown
  PROVE  w[e].made /\ (e # ed => w[e].text # NoText)
BY DEF EditorsOK, MadeOK, EditorOK

\* The last command is another now, when both are of a color.
LEMMA OverwriteOK ==
  ASSUME NEW w0 \in EditorWorlds, NEW w \in EditorWorlds, NEW cs \in Seq(EditorCommands),
         NEW p \in 1 .. Len(cs), NEW c \in ColorCommands, CommandsOK(w0, cs, p),
         cs[p].kind = "color",
         \A e \in Editors : w0[e].made = w[e].made /\ w[e].text = w0[e].text,
         \A e \in Mentions(c) : w[e].made,
         NEW d, d = KeepingUndo(c, cs[p]), NEW n, n = PutAt(cs, p, d)
  PROVE  /\ d \in ColorCommands /\ n \in Seq(EditorCommands) /\ Len(n) = Len(cs)
         /\ \A i \in 1 .. Len(cs) : n[i] = IF i = p THEN d ELSE cs[i]
         /\ CommandsOK(w, n, p)
<1>1. cs[p] \in ColorCommands
  BY CommandKinds, ElementOfSeq
<1>2. d \in ColorCommands /\ d.editor = c.editor /\ d.undoes = cs[p].undoes
  BY <1>1 DEF ColorCommands, KeepingUndo
<1>3. d \in EditorCommands
  BY <1>2 DEF EditorCommands
<1>4. /\ n \in Seq(EditorCommands) /\ Len(n) = Len(cs)
      /\ \A i \in 1 .. Len(cs) : n[i] = IF i = p THEN d ELSE cs[i]
  BY <1>3, ExceptSeq DEF PutAt
<1>5. d.kind = "color" /\ c.kind = "color"
  BY <1>2 DEF ColorCommands
<1>6. \A e \in Editors : \A i \in 1 .. Len(cs) :
        /\ IsText(n[i], e) <=> IsText(cs[i], e)
        /\ IsDeletion(n[i], e) <=> IsDeletion(cs[i], e)
        /\ IsText(n[i], e) => n[i].old = cs[i].old
  BY <1>4, <1>5 DEF IsText, IsDeletion
<1>7. \A e \in Mentions(d) : w[e].made
  <2>1. Mentions(d) \subseteq Mentions(c) \cup Mentions(cs[p])
    BY <1>2, <1>5 DEF Mentions
  <2>2. \A e \in Mentions(cs[p]) : w0[e].made
    BY DEF CommandsOK
  <2>3. Mentions(cs[p]) \subseteq Editors
    BY MentionsAre, ElementOfSeq
  <2> QED BY <2>1, <2>2, <2>3
<1>8. \A i \in 1 .. Len(n) : \A e \in Mentions(n[i]) : w[e].made
  <2> SUFFICES ASSUME NEW i \in 1 .. Len(cs), NEW e \in Mentions(n[i]) PROVE w[e].made
    BY <1>4
  <2>1. CASE i = p
    BY <1>4, <1>7, <2>1
  <2>2. CASE i # p
    <3>1. n[i] = cs[i] /\ Mentions(cs[i]) \subseteq Editors
      BY <1>4, <2>2, MentionsAre, ElementOfSeq
    <3> QED BY <3>1 DEF CommandsOK
  <2> QED BY <2>1, <2>2
<1>9. \A e \in Editors : w[e].text = NoText =>
         \A j \in 1 .. Len(n) : IsDeletion(n[j], e) => \E i \in p + 1 .. j - 1 : IsText(n[i], e)
  <2> SUFFICES ASSUME NEW e \in Editors, w[e].text = NoText, NEW j \in 1 .. Len(cs), IsDeletion(n[j], e)
               PROVE  \E i \in p + 1 .. j - 1 : IsText(n[i], e)
    BY <1>4
  <2>1. PICK i \in p + 1 .. j - 1 : IsText(cs[i], e)
    BY <1>6 DEF CommandsOK
  <2>2. i \in 1 .. Len(cs)
    OBVIOUS
  <2> QED BY <1>6, <2>1, <2>2
<1>10. \A e \in Editors : \A i, j \in 1 .. Len(n) :
         IsText(n[i], e) /\ n[i].old = NoText /\ IsDeletion(n[j], e) => i < j
  BY <1>4, <1>6 DEF CommandsOK
<1>11. CommandsOK(w, n, p)
  BY <1>8, <1>9, <1>10 DEF CommandsOK
<1> QED BY <1>2, <1>4, <1>11

\* The editors after a command that is not a text: as they should be.
LEMMA DoEditorsOK ==
  ASSUME NEW w \in EditorWorlds, NEW c \in EditorCommands, NEW isPlain \in BOOLEAN, NEW ed,
         EditorsOK(w, isPlain, ed),
         \A e \in Mentions(c) : w[e].made,
         \A e \in Editors : IsText(c, e) \/ IsDeletion(c, e) => e # ed
  PROVE  EditorsOK(Do(w, c), isPlain, ed)
<1>1. \A e \in Editors : w[e] \in EditorRecords /\ Do(w, c)[e] = DidTo(w[e], c, e)
  BY DoWorld DEF EditorWorlds
<1>2. \A e \in Editors \ {ed} : EditorOK(Do(w, c)[e], isPlain)
  BY <1>1, DidToOK DEF EditorsOK
<1>3. \A e \in Editors : MadeOK(Do(w, c)[e])
  BY <1>1, DidToIs DEF EditorsOK, MadeOK
<1>4. ed # NoEditor => ed \in Editors /\ Do(w, c)[ed].shown
  BY <1>1, DidToIs DEF EditorsOK
<1> QED BY <1>2, <1>3, <1>4 DEF EditorsOK

LEMMA StorageParts ==
  ASSUME NEW h, NEW ed, StorageInv(h, ed)
  PROVE  /\ IsHistory(h) /\ h.world \in EditorWorlds /\ h.commands \in Seq(EditorCommands)
         /\ h.position \in 0 .. Len(h.commands) /\ h.position <= MaxSize /\ h.plain \in BOOLEAN
      /\ Len(h.commands) <= MaxSize
         /\ Len(h.commands) <= MaxSize
         /\ EditorsOK(h.world, h.plain, ed) /\ CommandsOK(h.world, h.commands, h.position)
BY DEF StorageInv, StorageOK, HistoryTypes

\* add: the command is new, or takes the place of the last one.
LEMMA AddOK ==
  ASSUME NEW h, NEW ed, StorageInv(h, ed), NEW c \in EditorCommands, c.kind # "text",
         \A e \in Mentions(c) : h.world[e].made,
         \A e \in Editors : IsDeletion(c, e) => e # ed /\ h.world[e].shown,
         NEW w, w \in {Do(h.world, c), h.world},
         NEW n, n = IF Overwrites(h, c) THEN Overwrite(h, c, w) ELSE NewCommand(h, c, w)
  PROVE  StorageInv(n, ed) /\ n.world = w
<1> DEFINE w0 == h.world
<1>1. /\ IsHistory(h) /\ w0 \in EditorWorlds /\ h.commands \in Seq(EditorCommands)
      /\ h.position \in 0 .. Len(h.commands) /\ h.position <= MaxSize /\ h.plain \in BOOLEAN
      /\ Len(h.commands) <= MaxSize
      /\ EditorsOK(w0, h.plain, ed) /\ CommandsOK(w0, h.commands, h.position)
  BY StorageParts
<1>2. \A e \in Editors : ~IsText(c, e)
  BY DEF IsText
<1>3. \A e \in Mentions(c) : e \in Editors /\ w0[e].made
  BY <1>1, MentionsAre
<1>4. EditorsOK(Do(w0, c), h.plain, ed)
  BY <1>1, <1>2, <1>3, DoEditorsOK
<1>5. w \in EditorWorlds /\ EditorsOK(w, h.plain, ed)
  BY <1>1, <1>4, DoWorld
<1>6. \A e \in Editors : w0[e].made = w[e].made /\ w[e].text = w0[e].text
  <2> TAKE e \in Editors
  <2>1. w0[e] \in EditorRecords /\ Do(w0, c)[e] = DidTo(w0[e], c, e)
    BY <1>1, DoWorld DEF EditorWorlds
  <2> QED BY <1>2, <2>1, DidToIs
<1>7. \A e \in Editors : IsDeletion(c, e) => w[e].text # NoText
  BY <1>1, <1>6, ShownAre
<1> HIDE DEF w0
<1>8. CASE ~Overwrites(h, c)
  <2>1. /\ IsHistory(n) /\ n.world = w /\ n.plain = h.plain
        /\ n.commands = Newer(h.commands, h.position, c) /\ n.position = After(h.position)
    BY <1>1, <1>8, NewCommandIs
  <2>2. CommandsOK(w, n.commands, n.position)
    BY <1>1, <1>2, <1>3, <1>5, <1>6, <1>7, <2>1, NewerOK
  <2>3. n.commands \in Seq(EditorCommands) /\ n.position \in 0 .. Len(n.commands) /\ n.position <= MaxSize
        /\ Len(n.commands) <= MaxSize
    BY <1>1, <2>1, NewerIs
  <2> QED BY <1>1, <1>5, <2>1, <2>2, <2>3 DEF StorageInv, StorageOK, HistoryTypes
<1>9. CASE Overwrites(h, c)
  <2>1. c \in ColorCommands /\ h.position \in 1 .. Len(h.commands)
        /\ h.commands[h.position].kind = "color"
    BY <1>1, <1>9, CommandKinds DEF Overwrites
  <2>2. /\ IsHistory(n) /\ n.world = w /\ n.position = h.position /\ n.plain \in BOOLEAN
        /\ n.plain => h.plain
        /\ n.commands = PutAt(h.commands, h.position, KeepingUndo(c, h.commands[h.position]))
    <3>1. n = Overwrite(h, c, w)
      BY <1>9
    <3> QED BY <1>1, <3>1, OverwriteIs
  <2>3. /\ n.commands \in Seq(EditorCommands) /\ Len(n.commands) = Len(h.commands)
        /\ CommandsOK(w, n.commands, n.position)
    <3>1. \A e \in Mentions(c) : w[e].made
      BY <1>3, <1>6
    <3>2. CommandsOK(w0, h.commands, h.position) /\ w0 \in EditorWorlds
      BY <1>1
    <3>3. n.commands \in Seq(EditorCommands) /\ Len(n.commands) = Len(h.commands)
          /\ CommandsOK(w, n.commands, h.position)
      BY <1>1, <1>5, <1>6, <2>1, <2>2, <3>1, <3>2, OverwriteOK
    <3> QED BY <2>2, <3>3
  <2>4. EditorsOK(w, n.plain, ed)
    BY <1>5, <2>2, EditorOKWeaker DEF EditorsOK
  <2> QED BY <1>1, <1>5, <2>2, <2>3, <2>4 DEF StorageInv, StorageOK, HistoryTypes
<1> QED BY <1>8, <1>9

------------------------------------------------------------------------------
(* The editor in edit mode loses the focus.                                 *)

SavedText(r) == [r EXCEPT !.text = r.typed, !.stored = TRUE]

TextCommand(e, old, new) == [kind |-> "text", editor |-> e, old |-> old, new |-> new]

NewerWorlds(vs, p, v) ==
    IF p = MaxSize THEN Tail(Append(SubSeq(vs, 1, p + 1), v)) ELSE Append(SubSeq(vs, 1, p + 1), v)

LEMMA HIs ==
  /\ IsHistory(H) /\ H.world = world /\ H.commands = commands /\ H.position = position
  /\ H.worlds = worlds /\ H.plain = plain
BY DEF IsHistory, H

LEMMA CommittedIs ==
  ASSUME EditorsInv, editing # NoEditor, NEW n, n = Committed(H),
         NEW r, r = world[editing]
  PROVE  /\ IsHistory(n) /\ n.plain \in BOOLEAN
         /\ r.typed = NoText
              => /\ n.world = PutAt(world, editing, Taken(r)) /\ n.commands = commands
                 /\ n.position = position /\ n.worlds = worlds /\ (n.plain => plain /\ r.text = NoText)
         /\ r.typed # NoText
              => n.world = PutAt(world, editing, SavedText(r)) /\ n.plain = plain
         /\ r.typed # NoText /\ r.typed = r.text
              => n.commands = commands /\ n.position = position /\ n.worlds = worlds
         /\ r.typed # NoText /\ r.typed # r.text
              => /\ n.commands = Newer(commands, position, TextCommand(editing, r.text, r.typed))
                 /\ n.position = After(position)
                 /\ n.worlds = NewerWorlds(worlds, position, Seen(n.world))
<1> DEFINE e == editing
           stored == [world EXCEPT ![e].text = world[e].typed, ![e].stored = TRUE]
           c == TextCommand(e, r.text, r.typed)
<1>1. world \in EditorWorlds /\ e \in Editors /\ plain \in BOOLEAN /\ IsHistory(H)
  BY HIs, StorageParts DEF EditorsInv, EditorsOK
<1>2. r \in EditorRecords /\ r = world[e]
  BY <1>1 DEF EditorWorlds
<1>3. n = IF r.typed = NoText
          THEN [H EXCEPT !.world = Removed(@, e), !.plain = @ /\ r.text = NoText]
          ELSE IF r.typed = r.text THEN [H EXCEPT !.world = stored]
          ELSE Add([H EXCEPT !.world = stored], c, FALSE)
  BY HIs DEF Committed, TextCommand
<1>4. stored = PutAt(world, e, SavedText(r))
  BY <1>1, <1>2 DEF PutAt, SavedText, EditorWorlds, EditorRecords
<1>5. CASE r.typed = NoText
  <2>1. Removed(world, e) = PutAt(world, e, Taken(r))
    BY <1>1, <1>2 DEF Removed, Taken, PutAt, EditorWorlds, EditorRecords
  <2> DEFINE q == plain /\ r.text = NoText
  <2>2. q \in BOOLEAN /\ (q => plain /\ r.text = NoText)
    OBVIOUS
  <2>3. n = [H EXCEPT !.world = PutAt(world, e, Taken(r)), !.plain = q]
    BY <1>3, <1>5, <2>1, HIs
  <2> HIDE DEF q
  <2>4. n = [world |-> PutAt(world, e, Taken(r)), commands |-> commands, position |-> position,
             worlds |-> worlds, plain |-> q]
    BY <2>3 DEF H
  <2>5. /\ IsHistory(n) /\ n.plain = q /\ n.world = PutAt(world, e, Taken(r)) /\ n.commands = commands
        /\ n.position = position /\ n.worlds = worlds
    BY <2>4 DEF IsHistory
  <2>6. n.plain \in BOOLEAN /\ (n.plain => plain /\ r.text = NoText)
    BY <2>2, <2>5
  <2> QED BY <1>5, <2>5, <2>6
<1>6. CASE r.typed # NoText /\ r.typed = r.text
  <2>1. n = [H EXCEPT !.world = PutAt(world, e, SavedText(r))]
    BY <1>3, <1>4, <1>6
  <2>2. n = [world |-> PutAt(world, e, SavedText(r)), commands |-> commands, position |-> position,
             worlds |-> worlds, plain |-> plain]
    BY <2>1 DEF H
  <2> QED BY <1>1, <1>6, <2>2 DEF IsHistory
<1>7. CASE r.typed # NoText /\ r.typed # r.text
  <2> DEFINE h == [H EXCEPT !.world = PutAt(world, e, SavedText(r))]
  <2>1. n = Add(h, c, FALSE)
    BY <1>3, <1>4, <1>7
  <2>2. /\ IsHistory(h) /\ h.world = PutAt(world, e, SavedText(r)) /\ h.commands = commands
        /\ h.position = position /\ h.worlds = worlds /\ h.plain = plain
    BY DEF IsHistory, H
  <2> HIDE DEF h
  <2>3. c.kind = "text"
    BY DEF TextCommand
  <2>4. n = NewCommand(h, c, h.world)
    BY <2>1, <2>3 DEF Add, Overwrites
  <2> HIDE DEF c
  <2>5. /\ IsHistory(n) /\ n.world = h.world /\ n.plain = h.plain
        /\ n.commands = Newer(h.commands, h.position, c) /\ n.position = After(h.position)
        /\ n.worlds = NewerWorlds(h.worlds, h.position, Seen(h.world))
    BY <2>2, <2>4, NewCommandIs DEF NewerWorlds
  <2> QED BY <1>1, <1>7, <2>2, <2>5 DEF c
<1> QED BY <1>5, <1>6, <1>7

LEMMA SavedOK ==
  ASSUME NEW r \in EditorRecords, NEW isPlain \in BOOLEAN, r.shown, r.typed # NoText
  PROVE  SavedText(r) \in EditorRecords /\ EditorOK(SavedText(r), isPlain) /\ SavedText(r).text # NoText
         /\ SavedText(r).made = r.made /\ (MadeOK(r) => MadeOK(SavedText(r)))
BY DEF SavedText, EditorOK, EditorRecords, MadeOK

LEMMA TakenOK ==
  ASSUME NEW r \in EditorRecords, NEW isPlain \in BOOLEAN, r.typed = NoText, isPlain => r.text = NoText
  PROVE  Taken(r) \in EditorRecords /\ EditorOK(Taken(r), isPlain) /\ Taken(r).text = r.text
         /\ Taken(r).made = r.made /\ (MadeOK(r) => MadeOK(Taken(r)))
BY DEF Taken, EditorOK, EditorRecords, MadeOK

LEMMA PutIs ==
  ASSUME NEW w \in EditorWorlds, NEW e \in Editors, NEW r \in EditorRecords
  PROVE  /\ PutAt(w, e, r) \in EditorWorlds /\ PutAt(w, e, r)[e] = r
         /\ \A f \in Editors : f # e => PutAt(w, e, r)[f] = w[f]
BY DEF PutAt, EditorWorlds

\* The commands are the same ones, about editors that have a text or had none.
LEMMA SameCommands ==
  ASSUME NEW w0 \in EditorWorlds, NEW w \in EditorWorlds, NEW cs \in Seq(EditorCommands), NEW p,
         CommandsOK(w0, cs, p), \A e \in Editors : w0[e].made => w[e].made,
         \A e \in Editors : w[e].text = NoText => w0[e].text = NoText
  PROVE  CommandsOK(w, cs, p)
<1>1. \A i \in 1 .. Len(cs) : Mentions(cs[i]) \subseteq Editors
  BY MentionsAre, ElementOfSeq
<1> QED BY <1>1 DEF CommandsOK

\* All editors are as they should be, and nobody else has changed.
LEMMA CommittedOK ==
  ASSUME EditorsInv, NEW n, n = Committed(H)
  PROVE  /\ StorageInv(n, NoEditor) /\ (n.plain => plain)
         /\ \A e \in Editors : /\ n.world[e].made = world[e].made
                               /\ e # editing => n.world[e] = world[e]
<1>1. /\ world \in EditorWorlds /\ commands \in Seq(EditorCommands) /\ plain \in BOOLEAN
      /\ position \in 0 .. Len(commands) /\ position <= MaxSize /\ Len(commands) <= MaxSize
      /\ EditorsOK(world, plain, editing) /\ CommandsOK(world, commands, position)
  BY HIs, StorageParts DEF EditorsInv
<1>2. CASE editing = NoEditor
  <2>1. n = H
    BY <1>2 DEF Committed
  <2> QED BY <1>2, <2>1, HIs DEF EditorsInv
<1>3. CASE editing # NoEditor
  <2> DEFINE e == editing
             r == world[e]
             z == n.world[e]
  <2>1. e \in Editors /\ r \in EditorRecords /\ r.shown /\ MadeOK(r) /\ r.made
    BY <1>1, <1>3, ShownAre DEF EditorsOK, EditorWorlds
  <2>2. /\ IsHistory(n) /\ n.plain \in BOOLEAN
        /\ r.typed = NoText => /\ n.world = PutAt(world, e, Taken(r)) /\ n.commands = commands
                               /\ n.position = position /\ (n.plain => plain /\ r.text = NoText)
        /\ r.typed # NoText => n.world = PutAt(world, e, SavedText(r)) /\ n.plain = plain
        /\ r.typed # NoText /\ r.typed = r.text => n.commands = commands /\ n.position = position
        /\ r.typed # NoText /\ r.typed # r.text
              => /\ n.commands = Newer(commands, position, TextCommand(e, r.text, r.typed))
                 /\ n.position = After(position)
    BY <1>3, CommittedIs
  <2> HIDE DEF e, r
  <2>3. n.plain => plain
    BY <2>2
  <2>4. /\ n.world \in EditorWorlds /\ z \in EditorRecords /\ EditorOK(z, n.plain) /\ MadeOK(z)
        /\ z.made = r.made /\ (z.text = NoText => r.text = NoText)
        /\ \A f \in Editors : f # e => n.world[f] = world[f]
    <3>1. CASE r.typed = NoText
      <4>1. Taken(r) \in EditorRecords /\ EditorOK(Taken(r), n.plain) /\ Taken(r).text = r.text
            /\ Taken(r).made = r.made /\ MadeOK(Taken(r))
        BY <2>1, <2>2, <3>1, TakenOK
      <4>2. n.world = PutAt(world, e, Taken(r))
        BY <2>2, <3>1
      <4>3. /\ n.world \in EditorWorlds /\ z = Taken(r)
            /\ \A f \in Editors : f # e => n.world[f] = world[f]
        BY <1>1, <2>1, <4>1, <4>2, PutIs
      <4> HIDE DEF z
      <4> QED BY <4>1, <4>3
    <3>2. CASE r.typed # NoText
      <4>1. SavedText(r) \in EditorRecords /\ EditorOK(SavedText(r), n.plain) /\ SavedText(r).text # NoText
            /\ SavedText(r).made = r.made /\ MadeOK(SavedText(r))
        BY <2>1, <2>2, <3>2, SavedOK
      <4>2. n.world = PutAt(world, e, SavedText(r))
        BY <2>2, <3>2
      <4>3. /\ n.world \in EditorWorlds /\ z = SavedText(r)
            /\ \A f \in Editors : f # e => n.world[f] = world[f]
        BY <1>1, <2>1, <4>1, <4>2, PutIs
      <4> HIDE DEF z
      <4> QED BY <4>1, <4>3
    <3> QED BY <3>1, <3>2
  <2> HIDE DEF z
  <2>5. \A f \in Editors : n.world[f].made = world[f].made
    BY <2>1, <2>4 DEF r, z
  <2>6. \A f \in Editors : n.world[f].text = NoText => world[f].text = NoText
    BY <2>1, <2>4 DEF r, z
  <2>7. EditorsOK(n.world, n.plain, NoEditor)
    <3>1. \A f \in Editors : EditorOK(n.world[f], n.plain)
      <4> TAKE f \in Editors
      <4>1. CASE f = e
        BY <2>4, <4>1 DEF z
      <4>2. CASE f # e
        <5>1. EditorOK(world[f], plain)
          BY <1>1, <4>2 DEF EditorsOK, e
        <5> QED BY <2>3, <2>4, <4>2, <5>1, EditorOKWeaker
      <4> QED BY <4>1, <4>2
    <3>2. \A f \in Editors : MadeOK(n.world[f])
      BY <1>1, <2>4 DEF EditorsOK, z
    <3> QED BY <3>1, <3>2 DEF EditorsOK
  <2>8. /\ n.commands \in Seq(EditorCommands) /\ n.position \in 0 .. Len(n.commands) /\ n.position <= MaxSize
        /\ Len(n.commands) <= MaxSize /\ CommandsOK(n.world, n.commands, n.position)
    <3>1. CASE r.typed = NoText \/ r.typed = r.text
      <4>1. n.commands = commands /\ n.position = position
        BY <2>2, <3>1
      <4> QED BY <1>1, <2>4, <2>5, <2>6, <4>1, SameCommands
    <3>2. CASE r.typed # NoText /\ r.typed # r.text
      <4> DEFINE c == TextCommand(e, r.text, r.typed)
      <4>1. /\ c \in TextCommands /\ c.kind = "text" /\ c.editor = e /\ c.old = r.text
        BY <2>1, <3>2 DEF TextCommand, TextCommands, EditorRecords
      <4>2. n.commands = Newer(commands, position, c) /\ n.position = After(position)
        BY <2>2, <3>2
      <4> HIDE DEF c
      <4>3. c \in EditorCommands /\ Mentions(c) = {e}
        BY <4>1 DEF EditorCommands, Mentions
      <4>4. \A f \in Editors : ~IsDeletion(c, f)
        BY <4>1 DEF IsDeletion
      <4>5. \A f \in Editors : IsText(c, f) /\ c.old = NoText => world[f].text = NoText
        BY <4>1 DEF IsText, r
      <4>6. \A f \in Mentions(c) : n.world[f].made
        BY <2>1, <2>5, <4>3 DEF r
      <4>7. CommandsOK(n.world, n.commands, n.position)
        BY <1>1, <2>4, <2>5, <2>6, <4>2, <4>3, <4>4, <4>5, <4>6, NewerOK
      <4> QED BY <1>1, <4>2, <4>3, <4>7, NewerIs
    <3> QED BY <3>1, <3>2
  <2>9. StorageInv(n, NoEditor)
    BY <2>2, <2>4, <2>7, <2>8 DEF StorageInv, StorageOK, HistoryTypes
  <2> QED BY <2>3, <2>4, <2>5, <2>9 DEF e
<1> QED BY <1>2, <1>3

------------------------------------------------------------------------------
(* The steps.                                                               *)

LEMMA FieldsAre ==
  ASSUME NEW w, NEW cs, NEW p, NEW vs, NEW isPlain,
         NEW n, n = [world |-> w, commands |-> cs, position |-> p, worlds |-> vs, plain |-> isPlain]
  PROVE  /\ IsHistory(n) /\ n.world = w /\ n.commands = cs /\ n.position = p /\ n.worlds = vs
         /\ n.plain = isPlain
BY DEF IsHistory

LEMMA StoragePrimed ==
  ASSUME StorageOK(world', commands', position', plain', editing')
  PROVE  EditorsInv'
<1>1. H' = [world |-> world', commands |-> commands', position |-> position', worlds |-> worlds',
            plain |-> plain']
  BY DEF H
<1>2. IsHistory(H') /\ H'.world = world' /\ H'.commands = commands' /\ H'.position = position'
      /\ H'.plain = plain'
  BY <1>1, FieldsAre
<1>3. StorageInv(H', editing')
  BY <1>2 DEF StorageInv
<1> QED BY <1>3 DEF EditorsInv

\* An editor that was made stays so.
MadeStays == \A e \in Editors : world[e].made => world'[e].made

LEMMA ActsIs ==
  ASSUME NEW h, NEW ed, StorageInv(h, ed), Acts(h), editing' = ed,
         \A e \in Editors : world[e].made => h.world[e].made
  PROVE  EditorsInv' /\ MadeStays
<1>1. /\ IsHistory(h) /\ h.world \in EditorWorlds /\ h.commands \in Seq(EditorCommands)
      /\ h.position \in 0 .. Len(h.commands) /\ h.position <= MaxSize /\ h.plain \in BOOLEAN
      /\ Len(h.commands) <= MaxSize
      /\ EditorsOK(h.world, h.plain, ed) /\ CommandsOK(h.world, h.commands, h.position)
  BY StorageParts
<1>2. world' = h.world /\ commands' = h.commands /\ position' = h.position
  BY DEF Acts, Sets
<1>3. plain' = (h.plain /\ timer = NoTimer)
  BY DEF Acts
<1>4. plain' \in BOOLEAN
  BY <1>3
<1>5. plain' => h.plain
  BY <1>3
<1>6. EditorsOK(world', plain', editing')
  BY <1>1, <1>2, <1>5, EditorOKWeaker DEF EditorsOK
<1>7. StorageOK(world', commands', position', plain', editing')
  BY <1>1, <1>2, <1>4, <1>6 DEF StorageOK, HistoryTypes
<1> QED BY <1>2, <1>7, StoragePrimed DEF MadeStays

LEMMA EditorParts ==
  ASSUME EditorsInv
  PROVE  /\ world \in EditorWorlds /\ commands \in Seq(EditorCommands) /\ plain \in BOOLEAN
         /\ position \in 0 .. Len(commands) /\ position <= MaxSize /\ Len(commands) <= MaxSize
         /\ EditorsOK(world, plain, editing) /\ CommandsOK(world, commands, position)
         /\ StorageInv(H, editing) /\ IsHistory(H)
BY HIs, StorageParts DEF EditorsInv

\* A world with another editor in it, as commands leave it.
LEMMA PutOK ==
  ASSUME NEW h, NEW ed, StorageInv(h, ed), NEW e \in Editors, NEW r \in EditorRecords,
         MadeOK(r), h.world[e].made => r.made, r.text = h.world[e].text, r.shown, ed \in {e, NoEditor},
         NEW n, n = [h EXCEPT !.world = PutAt(h.world, e, r)]
  PROVE  StorageInv(n, e)
<1>1. /\ IsHistory(h) /\ h.world \in EditorWorlds /\ h.commands \in Seq(EditorCommands)
      /\ h.position \in 0 .. Len(h.commands) /\ h.position <= MaxSize /\ h.plain \in BOOLEAN
      /\ Len(h.commands) <= MaxSize
      /\ EditorsOK(h.world, h.plain, ed) /\ CommandsOK(h.world, h.commands, h.position)
  BY StorageParts
<1> DEFINE w == PutAt(h.world, e, r)
<1>2. w \in EditorWorlds /\ w[e] = r /\ \A f \in Editors : f # e => w[f] = h.world[f]
  BY <1>1, PutIs
<1> HIDE DEF w
<1>3. n = [world |-> w, commands |-> h.commands, position |-> h.position, worlds |-> h.worlds,
           plain |-> h.plain]
  BY <1>1 DEF w, IsHistory
<1>4. /\ IsHistory(n) /\ n.world = w /\ n.commands = h.commands /\ n.position = h.position
      /\ n.plain = h.plain
  BY ONLY <1>3, FieldsAre
<1>5. NoEditor \notin Editors
  BY EditorAssumption DEF NoEditor
<1>6. EditorsOK(w, h.plain, e)
  <2>1. \A f \in Editors \ {e} : EditorOK(w[f], h.plain)
    BY <1>1, <1>2, <1>5 DEF EditorsOK
  <2>2. \A f \in Editors : MadeOK(w[f])
    BY <1>1, <1>2 DEF EditorsOK
  <2> QED BY <1>2, <2>1, <2>2 DEF EditorsOK
<1>7. \A f \in Editors : (h.world[f].made => w[f].made) /\ (w[f].text = NoText => h.world[f].text = NoText)
  BY <1>2
<1>8. CommandsOK(w, h.commands, h.position)
  BY <1>1, <1>2, <1>7, SameCommands
<1> QED BY <1>1, <1>2, <1>4, <1>6, <1>8 DEF StorageInv, StorageOK, HistoryTypes

LEMMA CreateStorage ==
  ASSUME EditorsInv, NEW e \in Editors, NEW x \in 0 .. Right, Create(e, x)
  PROVE  EditorsInv' /\ MadeStays
<1> DEFINE h == Committed(H)
           r == [h.world[e] EXCEPT !.made = TRUE, !.shown = TRUE, !.x = x]
<1>1. StorageInv(h, NoEditor) /\ \A f \in Editors : h.world[f].made = world[f].made
  BY CommittedOK
<1>2. Acts([h EXCEPT !.world[e] = r]) /\ editing' = e
  BY DEF Create
<1> HIDE DEF h
<1>3. h.world \in EditorWorlds /\ IsHistory(h) /\ MadeOK(h.world[e]) /\ h.world[e] \in EditorRecords
  BY <1>1, StorageParts DEF EditorsOK, EditorWorlds
<1>4. r \in EditorRecords /\ r.text = h.world[e].text /\ r.shown /\ r.made /\ MadeOK(r)
  BY <1>3 DEF EditorRecords, MadeOK
<1> HIDE DEF r
<1> DEFINE n == [h EXCEPT !.world = PutAt(h.world, e, r)]
<1>5. n = [h EXCEPT !.world[e] = r]
  BY <1>3 DEF IsHistory, PutAt
<1>6. StorageInv(n, e)
  BY <1>1, <1>3, <1>4, PutOK
<1>7. \A f \in Editors : world[f].made => n.world[f].made
  BY <1>1, <1>3, <1>4, PutIs DEF IsHistory
<1> HIDE DEF n
<1>8. Acts(n)
  BY <1>2, <1>5
<1> QED BY <1>2, <1>6, <1>7, <1>8, ActsIs

LEMMA EditStorage ==
  ASSUME EditorsInv, NEW e \in Editors, Edit(e)
  PROVE  EditorsInv' /\ MadeStays
<1> DEFINE h == Committed(H)
<1>1. /\ StorageInv(h, NoEditor) /\ h.world[e] = world[e] /\ world[e].shown
      /\ \A f \in Editors : h.world[f].made = world[f].made
  BY CommittedOK DEF Edit
<1>2. Acts(h) /\ editing' = e
  BY DEF Edit
<1> HIDE DEF h
<1>3. StorageInv(h, e)
  <2>1. NoEditor \notin Editors
    BY EditorAssumption DEF NoEditor
  <2>2. EditorsOK(h.world, h.plain, e)
    BY <1>1, <2>1 DEF StorageInv, StorageOK, EditorsOK
  <2> QED BY <1>1, <2>2 DEF StorageInv, StorageOK
<1> QED BY <1>1, <1>2, <1>3, ActsIs

LEMMA CommitStorage == EditorsInv /\ Commit => EditorsInv' /\ MadeStays
<1> SUFFICES ASSUME EditorsInv, Commit PROVE EditorsInv' /\ MadeStays
  OBVIOUS
<1> DEFINE h == Committed(H)
<1>1. StorageInv(h, NoEditor) /\ \A f \in Editors : h.world[f].made = world[f].made
  BY CommittedOK
<1>2. Acts(h) /\ editing' = NoEditor
  BY DEF Commit
<1> HIDE DEF h
<1> QED BY <1>1, <1>2, ActsIs

LEMMA TypeStorage ==
  ASSUME EditorsInv, NEW t \in TextValues, Type(t)
  PROVE  EditorsInv' /\ MadeStays
<1> DEFINE e == editing
           r == [world[e] EXCEPT !.typed = t]
           n == [H EXCEPT !.world = PutAt(world, e, r)]
<1>1. e \in Editors /\ world[e].shown /\ MadeOK(world[e]) /\ world[e] \in EditorRecords
      /\ world \in EditorWorlds /\ StorageInv(H, e) /\ IsHistory(H)
  BY EditorParts DEF Type, EditorsOK, EditorWorlds
<1>2. Acts([H EXCEPT !.world = [world EXCEPT ![e].typed = t]]) /\ editing' = e
  BY DEF Type
<1>3. r \in EditorRecords /\ r.text = world[e].text /\ r.shown /\ r.made = world[e].made /\ MadeOK(r)
  BY <1>1 DEF EditorRecords, MadeOK
<1>4. [world EXCEPT ![e].typed = t] = PutAt(world, e, r)
  BY <1>1 DEF PutAt, EditorWorlds
<1>5. StorageInv(n, e)
  <2> HIDE DEF r
  <2>1. n = [H EXCEPT !.world = PutAt(H.world, e, r)]
    BY HIs
  <2> HIDE DEF n, e
  <2> QED BY <1>1, <1>3, <2>1, HIs, PutOK
<1>6. Acts(n)
  BY <1>2, <1>4
<1>7. \A f \in Editors : world[f].made => n.world[f].made
  <2> HIDE DEF r
  <2>1. n.world = PutAt(world, e, r)
    BY DEF H
  <2> QED BY <1>1, <1>3, <2>1, PutIs
<1> HIDE DEF n
<1> QED BY <1>2, <1>5, <1>6, <1>7, ActsIs

LEMMA MovedIs ==
  ASSUME NEW h, h = H, NEW w, NEW p, NEW n, n = [h EXCEPT !.world = w, !.position = p]
  PROVE  n = [world |-> w, commands |-> commands, position |-> p, worlds |-> worlds, plain |-> plain]
<1>1. /\ IsHistory(h) /\ h.commands = commands /\ h.worlds = worlds /\ h.plain = plain
  BY HIs
<1>2. n = [world |-> w, commands |-> h.commands, position |-> p, worlds |-> h.worlds, plain |-> h.plain]
  BY ONLY n = [h EXCEPT !.world = w, !.position = p], <1>1 DEF IsHistory
<1> QED BY <1>1, <1>2

LEMMA CommandsKeepMade ==
  ASSUME NEW w \in EditorWorlds, NEW c \in EditorCommands, NEW e \in Editors
  PROVE  Do(w, c)[e].made = w[e].made /\ Undo(w, c)[e].made = w[e].made
<1>1. w[e] \in EditorRecords /\ Do(w, c)[e] = DidTo(w[e], c, e) /\ Undo(w, c)[e] = UndidTo(w[e], c, e)
  BY DoWorld DEF EditorWorlds
<1>2. DidTo(w[e], c, e).made = w[e].made
  BY <1>1, DidToIs
<1>3. UndidTo(w[e], c, e).made = w[e].made
  BY <1>1, UndidToIs
<1> QED BY <1>1, <1>2, <1>3

\* add of a command that is carried out now, or was already.
LEMMA AddDone ==
  ASSUME NEW h, NEW ed, StorageInv(h, ed), NEW c \in EditorCommands, c.kind # "text",
         \A e \in Mentions(c) : h.world[e].made,
         \A e \in Editors : IsDeletion(c, e) => e # ed /\ h.world[e].shown
  PROVE  StorageInv(Add(h, c, TRUE), ed) /\ Add(h, c, TRUE).world = Do(h.world, c)
<1> DEFINE w == Do(h.world, c)
           n == Add(h, c, TRUE)
<1>1. n = IF Overwrites(h, c) THEN Overwrite(h, c, w) ELSE NewCommand(h, c, w)
  BY DEF Add
<1>2. w \in {Do(h.world, c), h.world}
  OBVIOUS
<1> HIDE DEF n, w
<1>3. StorageInv(n, ed) /\ n.world = w
  BY <1>1, <1>2, AddOK
<1> QED BY <1>3 DEF n, w

LEMMA AddSaid ==
  ASSUME NEW h, NEW ed, StorageInv(h, ed), NEW c \in EditorCommands, c.kind # "text",
         \A e \in Mentions(c) : h.world[e].made,
         \A e \in Editors : IsDeletion(c, e) => e # ed /\ h.world[e].shown
  PROVE  StorageInv(Add(h, c, FALSE), ed) /\ Add(h, c, FALSE).world = h.world
<1> DEFINE w == h.world
           n == Add(h, c, FALSE)
<1>1. n = IF Overwrites(h, c) THEN Overwrite(h, c, w) ELSE NewCommand(h, c, w)
  BY DEF Add
<1>2. w \in {Do(h.world, c), h.world}
  OBVIOUS
<1> HIDE DEF n, w
<1>3. StorageInv(n, ed) /\ n.world = w
  BY <1>1, <1>2, AddOK
<1> QED BY <1>3 DEF n, w

LEMMA SetColorStorage ==
  ASSUME EditorsInv, NEW e \in Editors, NEW color \in Colors, SetColor(e, color)
  PROVE  EditorsInv' /\ MadeStays
<1> DEFINE c == [kind |-> "color", editor |-> e, new |-> color,
                 undoes |-> [editor |-> e, color |-> world[e].color]]
           n == Add(H, c, TRUE)
<1>1. Acts(n) /\ editing' = editing /\ world[e].shown
  BY DEF SetColor
<1>2. c \in ColorCommands /\ c.kind = "color" /\ Mentions(c) = {e}
  BY EditorParts DEF ColorCommands, Mentions, EditorWorlds, EditorRecords
<1> HIDE DEF c
<1>3. /\ c \in EditorCommands /\ c.kind # "text" /\ StorageInv(H, editing)
      /\ \A f \in Mentions(c) : H.world[f].made
      /\ \A f \in Editors : IsDeletion(c, f) => f # editing /\ H.world[f].shown
  BY <1>1, <1>2, HIs, EditorParts, ShownAre DEF EditorCommands, IsDeletion
<1>4. StorageInv(n, editing) /\ n.world = Do(H.world, c)
  BY <1>3, AddDone
<1>5. \A f \in Editors : world[f].made => n.world[f].made
  <2> HIDE DEF n
  <2> QED BY <1>3, <1>4, HIs, EditorParts, CommandsKeepMade
<1> HIDE DEF n
<1> QED BY <1>1, <1>4, <1>5, ActsIs

LEMMA DragStorage ==
  ASSUME EditorsInv, NEW es \in SUBSET Editors, NEW by \in Int, Drag(es, by)
  PROVE  EditorsInv' /\ MadeStays
<1> DEFINE c == [kind |-> "drag", old |-> [e \in es |-> world[e].x], new |-> [e \in es |-> world[e].x + by]]
           n == Add(H, c, TRUE)
<1>1. Acts(n) /\ editing' = editing /\ editing = NoEditor /\ \A e \in es : world[e].shown
  BY DEF Drag, ShownEditors
<1>2. c \in DragCommands /\ c.kind = "drag" /\ Mentions(c) = es
  <2>1. \A e \in es : world[e].x \in Int /\ world[e].x + by \in Int
    BY EditorParts, EditorAssumption DEF EditorWorlds, EditorRecords
  <2>2. c.old \in [es -> Int] /\ c.new \in [es -> Int]
    BY <2>1
  <2>3. c.old \in PartialPlaces /\ c.new \in PartialPlaces
    BY <2>2, ArePlaces
  <2>4. c \in DragCommands
    <3> DEFINE O == c.old
               N == c.new
    <3>1. c = [kind |-> "drag", old |-> O, new |-> N] /\ O \in PartialPlaces /\ N \in PartialPlaces
      BY <2>3
    <3> HIDE DEF O, N, c
    <3> QED BY <3>1 DEF DragCommands
  <2> QED BY <2>4 DEF Mentions
<1> HIDE DEF c
<1>3. /\ c \in EditorCommands /\ c.kind # "text" /\ StorageInv(H, editing)
      /\ \A f \in Mentions(c) : H.world[f].made
      /\ \A f \in Editors : IsDeletion(c, f) => f # editing /\ H.world[f].shown
  BY <1>1, <1>2, HIs, EditorParts, ShownAre DEF EditorCommands, IsDeletion
<1>4. StorageInv(n, editing) /\ n.world = Do(H.world, c)
  BY <1>3, AddDone
<1>5. \A f \in Editors : world[f].made => n.world[f].made
  <2> HIDE DEF n
  <2> QED BY <1>3, <1>4, HIs, EditorParts, CommandsKeepMade
<1> HIDE DEF n
<1> QED BY <1>1, <1>4, <1>5, ActsIs

LEMMA DeleteStorage ==
  ASSUME EditorsInv, NEW es \in SUBSET Editors, Delete(es)
  PROVE  EditorsInv' /\ MadeStays
<1> DEFINE h == Committed(H)
           left == {e \in es : h.world[e].shown}
           c == [kind |-> "delete", editors |-> left]
           n == Add(h, c, TRUE)
<1>1. Acts(IF left = {} THEN h ELSE n) /\ editing' = NoEditor
  BY DEF Delete
<1>2. StorageInv(h, NoEditor) /\ \A f \in Editors : h.world[f].made = world[f].made
  BY CommittedOK
<1> HIDE DEF h
<1>3. CASE left = {}
  BY <1>1, <1>2, <1>3, ActsIs
<1>4. CASE left # {}
  <2>1. c \in DeleteCommands /\ c.kind = "delete" /\ Mentions(c) = left /\ left \subseteq Editors /\ c.editors = left
    BY DEF DeleteCommands, Mentions
  <2>2. \A f \in left : h.world[f].shown
    OBVIOUS
  <2> HIDE DEF c, left
  <2>3. NoEditor \notin Editors
    BY EditorAssumption DEF NoEditor
  <2>4. /\ c \in EditorCommands /\ c.kind # "text"
        /\ \A f \in Mentions(c) : h.world[f].made
        /\ \A f \in Editors : IsDeletion(c, f) => f # NoEditor /\ h.world[f].shown
    <3>1. EditorsOK(h.world, h.plain, NoEditor)
      BY <1>2, StorageParts
    <3>2. \A f \in left : h.world[f].made
      BY <2>1, <2>2, <3>1, ShownAre
    <3> QED BY <2>1, <2>2, <2>3, <3>2 DEF EditorCommands, IsDeletion
  <2>5. StorageInv(n, NoEditor) /\ n.world = Do(h.world, c)
    BY <1>2, <2>4, AddDone
  <2>6. Acts(n)
    BY <1>1, <1>4
  <2> HIDE DEF n
  <2>7. \A f \in Editors : world[f].made => n.world[f].made
    BY <1>2, <2>4, <2>5, StorageParts, CommandsKeepMade
  <2> QED BY <1>1, <2>5, <2>6, <2>7, ActsIs
<1> QED BY <1>3, <1>4

\* Undoing the command before position: a deletion finds a text.
LEMMA UndoStorage == EditorsInv /\ UndoLast => EditorsInv' /\ MadeStays
<1> SUFFICES ASSUME EditorsInv, UndoLast PROVE EditorsInv' /\ MadeStays
  OBVIOUS
<1> DEFINE c == commands[position]
           w == Undo(world, c)
           n == [H EXCEPT !.world = w, !.position = position - 1]
<1>1. Acts(n) /\ editing' = NoEditor /\ editing = NoEditor /\ position > 0
  BY HIs DEF UndoLast
<1>2. /\ world \in EditorWorlds /\ commands \in Seq(EditorCommands) /\ plain \in BOOLEAN
      /\ position \in 1 .. Len(commands) /\ Len(commands) <= MaxSize /\ NoEditor \notin Editors
      /\ EditorsOK(world, plain, NoEditor) /\ CommandsOK(world, commands, position)
  BY <1>1, EditorParts, EditorAssumption DEF NoEditor
<1>3. c \in EditorCommands
  BY <1>2, ElementOfSeq
<1> HIDE DEF c, w
<1>4. n = [world |-> w, commands |-> commands, position |-> position - 1, worlds |-> worlds, plain |-> plain]
  BY MovedIs
<1> HIDE DEF n
<1>5. /\ w \in EditorWorlds /\ \A e \in Editors : w[e] = UndidTo(world[e], c, e) /\ world[e] \in EditorRecords
  BY <1>2, <1>3, DoWorld DEF w, EditorWorlds
<1>6. \A e \in Editors : IsDeletion(c, e) => world[e].text # NoText
  <2> SUFFICES ASSUME NEW e \in Editors, IsDeletion(c, e), world[e].text = NoText PROVE FALSE
    OBVIOUS
  <2>1. \E i \in position + 1 .. position - 1 : IsText(commands[i], e)
    BY <1>2 DEF CommandsOK, c
  <2> QED BY <1>2, <2>1
<1>7. \A e \in Editors : e \in Mentions(c) => world[e].made
  BY <1>2 DEF CommandsOK, c
<1>8. \A e \in Editors : EditorOK(w[e], plain)
  BY <1>2, <1>3, <1>5, <1>6, UndidToOK DEF EditorsOK
<1>9. \A e \in Editors : MadeOK(w[e]) /\ w[e].made = world[e].made
  BY <1>2, <1>3, <1>5, <1>7, UndidToIs DEF EditorsOK, MadeOK
<1>10. EditorsOK(w, plain, NoEditor)
  BY <1>8, <1>9 DEF EditorsOK
<1>11. CommandsOK(w, commands, position - 1)
  <2>1. \A i \in 1 .. Len(commands) : Mentions(commands[i]) \subseteq Editors
    BY <1>2, MentionsAre, ElementOfSeq
  <2>2. \A i \in 1 .. Len(commands) : \A e \in Mentions(commands[i]) : w[e].made
    BY <1>2, <1>9, <2>1 DEF CommandsOK
  <2>3. ASSUME NEW e \in Editors, w[e].text = NoText, NEW j \in 1 .. Len(commands), IsDeletion(commands[j], e)
        PROVE  \E i \in position .. j - 1 : IsText(commands[i], e)
    <3>1. CASE IsText(c, e)
      <4>1. c.old \in TextValues /\ w[e] = TextSet(world[e], c.old)
        BY <1>3, <1>5, <3>1, UndidToIs, CommandKinds DEF TextCommands, IsText
      <4>2. c.old = NoText
        BY <1>5, <2>3, <4>1 DEF TextSet, EditorRecords
      <4>3. position < j
        BY <1>2, <2>3, <3>1, <4>2 DEF CommandsOK, c
      <4> QED BY <1>2, <3>1, <4>3 DEF c
    <3>2. CASE ~IsText(c, e)
      <4>1. world[e].text = NoText
        BY <1>3, <1>5, <2>3, <3>2, UndidToIs
      <4>2. PICK i \in position + 1 .. j - 1 : IsText(commands[i], e)
        BY <1>2, <2>3, <4>1 DEF CommandsOK
      <4> QED BY <1>2, <4>2
    <3> QED BY <3>1, <3>2
  <2>4. (position - 1) + 1 = position
    BY <1>2
  <2>5. \A e \in Editors : \A i, j \in 1 .. Len(commands) :
          IsText(commands[i], e) /\ commands[i].old = NoText /\ IsDeletion(commands[j], e) => i < j
    BY <1>2 DEF CommandsOK
  <2> QED BY <2>2, <2>3, <2>4, <2>5 DEF CommandsOK
<1>12. /\ IsHistory(n) /\ n.world = w /\ n.commands = commands /\ n.position = position - 1
       /\ n.plain = plain
  BY <1>4, FieldsAre
<1>13. position - 1 \in 0 .. Len(commands) /\ position - 1 <= MaxSize
  BY <1>2, EditorAssumption
<1>14. StorageInv(n, NoEditor)
  BY <1>2, <1>5, <1>10, <1>11, <1>12, <1>13 DEF StorageInv, StorageOK, HistoryTypes
<1> QED BY <1>1, <1>9, <1>12, <1>14, ActsIs

LEMMA RedoStorage == EditorsInv /\ RedoNext => EditorsInv' /\ MadeStays
<1> SUFFICES ASSUME EditorsInv, RedoNext PROVE EditorsInv' /\ MadeStays
  OBVIOUS
<1> DEFINE p == position + 1
           c == commands[p]
           w == Do(world, c)
           n == [H EXCEPT !.world = w, !.position = p]
<1>1. Acts(n) /\ editing' = NoEditor /\ editing = NoEditor /\ position < Len(commands)
  BY HIs DEF RedoNext
<1>2. /\ world \in EditorWorlds /\ commands \in Seq(EditorCommands) /\ plain \in BOOLEAN
      /\ position \in Nat /\ p \in 1 .. Len(commands) /\ Len(commands) <= MaxSize /\ NoEditor \notin Editors
      /\ EditorsOK(world, plain, NoEditor) /\ CommandsOK(world, commands, position)
  BY <1>1, EditorParts, EditorAssumption DEF NoEditor
<1>3. c \in EditorCommands
  BY <1>2, ElementOfSeq
<1> HIDE DEF c, w
<1>4. n = [world |-> w, commands |-> commands, position |-> p, worlds |-> worlds, plain |-> plain]
  BY MovedIs
<1> HIDE DEF n
<1>5. /\ w \in EditorWorlds /\ \A e \in Editors : w[e] = DidTo(world[e], c, e) /\ world[e] \in EditorRecords
  BY <1>2, <1>3, DoWorld DEF w, EditorWorlds
<1>6. \A e \in Editors : e \in Mentions(c) => world[e].made
  BY <1>2 DEF CommandsOK, c
<1>7. \A e \in Editors : w[e].made = world[e].made
  BY <1>3, <1>5, DidToIs
<1>8. \A e \in Editors : IsText(c, e) \/ IsDeletion(c, e) => e # NoEditor
  BY <1>2
<1>9. EditorsOK(w, plain, NoEditor)
  BY <1>2, <1>3, <1>7, <1>8, DoEditorsOK DEF w, CommandsOK, c
<1>10. CommandsOK(w, commands, p)
  <2>1. \A i \in 1 .. Len(commands) : Mentions(commands[i]) \subseteq Editors
    BY <1>2, MentionsAre, ElementOfSeq
  <2>2. \A i \in 1 .. Len(commands) : \A e \in Mentions(commands[i]) : w[e].made
    BY <1>2, <1>7, <2>1 DEF CommandsOK
  <2>3. ASSUME NEW e \in Editors, w[e].text = NoText, NEW j \in 1 .. Len(commands), IsDeletion(commands[j], e)
        PROVE  \E i \in p + 1 .. j - 1 : IsText(commands[i], e)
    <3>1. ~IsText(c, e)
      <4> SUFFICES ASSUME IsText(c, e) PROVE FALSE
        OBVIOUS
      <4>1. c.new \in TextValues /\ c.new # NoText /\ w[e] = TextSet(world[e], c.new)
        BY <1>3, <1>5, DidToIs, CommandKinds DEF TextCommands, IsText
      <4> QED BY <1>5, <2>3, <4>1 DEF TextSet, EditorRecords
    <3>2. world[e].text = NoText
      BY <1>3, <1>5, <2>3, <3>1, DidToIs
    <3>3. PICK i \in position + 1 .. j - 1 : IsText(commands[i], e)
      BY <1>2, <2>3, <3>2 DEF CommandsOK
    <3>4. i # p
      BY <3>1, <3>3 DEF c
    <3> QED BY <1>2, <3>3, <3>4
  <2>4. \A e \in Editors : \A i, j \in 1 .. Len(commands) :
          IsText(commands[i], e) /\ commands[i].old = NoText /\ IsDeletion(commands[j], e) => i < j
    BY <1>2 DEF CommandsOK
  <2> QED BY <2>2, <2>3, <2>4 DEF CommandsOK
<1>11. /\ IsHistory(n) /\ n.world = w /\ n.commands = commands /\ n.position = p /\ n.plain = plain
  BY <1>4, FieldsAre
<1> HIDE DEF p
<1>12. p \in 0 .. Len(commands) /\ p <= MaxSize
  <2>1. Len(commands) \in Nat
    BY <1>2
  <2> QED BY <1>2, <2>1, EditorAssumption
<1>13. StorageInv(n, NoEditor)
  BY <1>2, <1>5, <1>9, <1>10, <1>11, <1>12 DEF StorageInv, StorageOK, HistoryTypes
<1> QED BY <1>1, <1>7, <1>11, <1>13, ActsIs

\* While keys are pressed, and when their second is over.
LEMMA TranslateStorage ==
  ASSUME EditorsInv, NEW es \in SUBSET Editors, NEW by \in Int, Translate(es, by)
  PROVE  EditorsInv' /\ MadeStays
<1> DEFINE c == [kind |-> "translate", editors |-> es, by |-> by]
           w == Do(world, c)
           P == timer \in {NoTimer, es} /\ \A e \in es : world[e].x + by \in 0 .. Right
           n == [H EXCEPT !.world = w]
<1>1. /\ world' = MoveBy(world, es, by) /\ editing' = editing
      /\ \A e \in es : world[e].shown
      /\ commands' = commands /\ position' = position /\ worlds' = worlds
  BY DEF Translate, ShownEditors
<1>2. plain' = (plain /\ P)
  BY DEF Translate
<1>3. plain' \in BOOLEAN /\ (plain' => plain)
  <2> HIDE DEF P
  <2>1. plain' \in BOOLEAN
    BY <1>2
  <2>2. plain' => plain
    BY <1>2
  <2> QED BY <2>1, <2>2
<1>4. c \in TranslateCommands /\ c.kind = "translate" /\ Mentions(c) = es
  BY DEF TranslateCommands, Mentions
<1>5. world' = w
  BY <1>1 DEF Do
<1> HIDE DEF c, w, P
<1>6. c \in EditorCommands
  BY <1>4 DEF EditorCommands
<1>7. /\ world \in EditorWorlds /\ commands \in Seq(EditorCommands) /\ plain \in BOOLEAN
      /\ position \in 0 .. Len(commands) /\ position <= MaxSize /\ Len(commands) <= MaxSize
      /\ EditorsOK(world, plain, editing) /\ CommandsOK(world, commands, position)
  BY <1>1, EditorParts
<1>8. w \in EditorWorlds /\ \A e \in Editors : w[e] = DidTo(world[e], c, e) /\ world[e] \in EditorRecords
  BY <1>6, <1>7, DoWorld DEF w, EditorWorlds
<1>9. \A e \in Editors : ~IsText(c, e) /\ ~IsDeletion(c, e)
  BY <1>4 DEF IsText, IsDeletion
<1>10. \A e \in Editors : w[e].made = world[e].made /\ w[e].text = world[e].text
  BY <1>6, <1>8, <1>9, DidToIs
<1>11. EditorsOK(w, plain, editing)
  <2>1. \A e \in Mentions(c) : world[e].made
    BY <1>1, <1>4, <1>7, ShownAre
  <2> QED BY <1>6, <1>7, <1>9, <2>1, DoEditorsOK DEF w
<1>12. EditorsOK(world', plain', editing')
  BY <1>1, <1>3, <1>5, <1>11, EditorOKWeaker DEF EditorsOK
<1>13. CommandsOK(w, commands, position)
  BY <1>7, <1>8, <1>10, SameCommands
<1>14. StorageOK(world', commands', position', plain', editing')
  BY <1>1, <1>3, <1>5, <1>7, <1>8, <1>12, <1>13 DEF StorageOK, HistoryTypes
<1> QED BY <1>5, <1>10, <1>14, StoragePrimed DEF MadeStays

LEMMA GatherStorage ==
  ASSUME EditorsInv, timer \in SUBSET Editors, translation \in Int,
         \A e \in timer : world[e].made, Gather
  PROVE  EditorsInv' /\ MadeStays
<1> DEFINE c == [kind |-> "translate", editors |-> timer, by |-> translation]
           n == Add(H, c, FALSE)
<1>1. Sets(n) /\ editing' = editing /\ plain' = plain
  BY DEF Gather
<1>2. c \in TranslateCommands /\ c.kind = "translate" /\ Mentions(c) = timer
  BY DEF TranslateCommands, Mentions
<1> HIDE DEF c
<1>3. /\ c \in EditorCommands /\ c.kind # "text" /\ StorageInv(H, editing)
      /\ \A f \in Mentions(c) : H.world[f].made
      /\ \A f \in Editors : IsDeletion(c, f) => f # editing /\ H.world[f].shown
  BY <1>2, HIs, EditorParts DEF EditorCommands, IsDeletion
<1>4. StorageInv(n, editing) /\ n.world = world
  BY <1>3, HIs, AddSaid
<1>5. n = NewCommand(H, c, world)
  BY <1>2, HIs DEF Add, Overwrites
<1> HIDE DEF n
<1>6. n.plain = plain
  BY <1>5, HIs, NewCommandIs
<1>7. StorageOK(n.world, n.commands, n.position, n.plain, editing)
  BY <1>4 DEF StorageInv
<1>8. StorageOK(world', commands', position', plain', editing')
  BY <1>1, <1>6, <1>7 DEF Sets
<1> QED BY <1>1, <1>4, <1>8, StoragePrimed DEF Sets, MadeStays

------------------------------------------------------------------------------
(* The storage has what is shown.                                           *)

\* What waits for its second is about editors that were made.
TimerOK == timer \in SUBSET Editors /\ translation \in Int /\ \A e \in timer : world[e].made

LEMMA EditorInitStorage == EditorInit => EditorsInv /\ TimerOK
<1> SUFFICES ASSUME EditorInit PROVE EditorsInv /\ TimerOK
  OBVIOUS
<1> DEFINE r == [made |-> FALSE, shown |-> FALSE, text |-> NoText, typed |-> NoText,
                 color |-> CHOOSE c \in Colors : TRUE, x |-> 0, stored |-> FALSE]
<1>1. r \in EditorRecords
  <2>1. (CHOOSE c \in Colors : TRUE) \in Colors
    BY EditorAssumption
  <2> QED BY <2>1, EditorAssumption DEF EditorRecords, TextValues
<1>2. /\ EditorOK(r, TRUE) /\ MadeOK(r)
  BY DEF EditorOK, MadeOK
<1>3. world = [e \in Editors |-> r]
  BY DEF EditorInit
<1> HIDE DEF r
<1>4. \A e \in Editors : world[e] = r
  BY <1>3
<1>5. editing = NoEditor /\ commands = <<>> /\ position = 0 /\ plain = TRUE /\ timer = {} /\ translation = 0
  BY DEF EditorInit, NoTimer
<1>6. EditorsOK(world, plain, editing)
  BY <1>2, <1>4, <1>5 DEF EditorsOK
<1>7. commands \in Seq(EditorCommands) /\ Len(commands) = 0
  BY <1>5, EmptySeq
<1>8. CommandsOK(world, commands, position)
  BY <1>7 DEF CommandsOK
<1>9. world \in EditorWorlds
  BY <1>1, <1>3 DEF EditorWorlds
<1>10. StorageOK(world, commands, position, plain, editing)
  BY <1>5, <1>6, <1>7, <1>8, <1>9, EditorAssumption DEF StorageOK, HistoryTypes
<1>11. EditorsInv
  BY <1>10, HIs DEF EditorsInv, StorageInv
<1>12. TimerOK
  BY <1>5 DEF TimerOK
<1> QED BY <1>11, <1>12

LEMMA EditorNextStorage == EditorsInv /\ TimerOK /\ EditorNext => EditorsInv' /\ TimerOK'
<1> SUFFICES ASSUME EditorsInv, TimerOK, EditorNext PROVE EditorsInv' /\ TimerOK'
  OBVIOUS
<1>0. MadeStays /\ UNCHANGED <<timer, translation>> => TimerOK'
  BY DEF MadeStays, TimerOK
<1>1. CASE \E e \in Editors, x \in 0 .. Right : Create(e, x)
  BY <1>0, <1>1, CreateStorage DEF Create
<1>2. CASE \E e \in Editors : Edit(e)
  BY <1>0, <1>2, EditStorage DEF Edit
<1>3. CASE \E t \in TextValues : Type(t)
  BY <1>0, <1>3, TypeStorage DEF Type
<1>4. CASE Commit
  BY <1>0, <1>4, CommitStorage DEF Commit
<1>5. CASE \E e \in Editors, color \in Colors : SetColor(e, color)
  BY <1>0, <1>5, SetColorStorage DEF SetColor
<1>6. CASE \E es \in SUBSET Editors, by \in {-1, 1} : Drag(es, by)
  <2>1. PICK es \in SUBSET Editors, by \in {-1, 1} : Drag(es, by)
    BY <1>6
  <2>2. by \in Int
    OBVIOUS
  <2> QED BY <1>0, <2>1, <2>2, DragStorage DEF Drag
<1>7. CASE \E es \in SUBSET Editors, by \in {-1, 1} : Translate(es, by)
  <2>1. PICK es \in SUBSET Editors, by \in {-1, 1} : Translate(es, by)
    BY <1>7
  <2>2. by \in Int
    OBVIOUS
  <2>3. EditorsInv' /\ MadeStays
    BY <2>1, <2>2, TranslateStorage
  <2>4. timer' = es /\ translation' = translation + by /\ \A e \in es : world[e].shown
    BY <2>1 DEF Translate, ShownEditors
  <2>5. \A e \in es : world[e].made
    BY <2>4, EditorParts, ShownAre
  <2> QED BY <2>2, <2>3, <2>4, <2>5 DEF TimerOK, MadeStays
<1>8. CASE Gather
  <2>1. EditorsInv' /\ MadeStays
    BY <1>8, GatherStorage DEF TimerOK
  <2>2. timer' = {} /\ translation' = 0
    BY <1>8 DEF Gather, NoTimer
  <2> QED BY <2>1, <2>2 DEF TimerOK
<1>9. CASE \E es \in SUBSET Editors : Delete(es)
  BY <1>0, <1>9, DeleteStorage DEF Delete
<1>10. CASE UndoLast
  BY <1>0, <1>10, UndoStorage DEF UndoLast
<1>11. CASE RedoNext
  BY <1>0, <1>11, RedoStorage DEF RedoNext
<1> QED BY <1>1, <1>2, <1>3, <1>4, <1>5, <1>6, <1>7, <1>8, <1>9, <1>10, <1>11 DEF EditorNext, TextValues

LEMMA EditorsUnchanged == EditorsInv /\ TimerOK /\ UNCHANGED editorVars => EditorsInv' /\ TimerOK'
BY DEF EditorsInv, TimerOK, H, editorVars

\* While the part is the editors', they have their invariant.
UseEditorsInv == part = "editors" => EditorsInv /\ TimerOK

LEMMA UseEditorsInvariant == UseSpec => []UseEditorsInv
<1>1. UseInit => UseEditorsInv
  BY EditorInitStorage DEF UseInit, UseEditorsInv
<1>2. UseEditorsInv /\ [UseNext]_useVars => UseEditorsInv'
  <2> SUFFICES ASSUME UseEditorsInv, [UseNext]_useVars, part' = "editors" PROVE EditorsInv' /\ TimerOK'
    BY DEF UseEditorsInv
  <2>1. CASE UNCHANGED useVars
    BY <2>1, EditorsUnchanged DEF useVars, UseEditorsInv
  <2>2. CASE EditorsStep
    BY <2>2, EditorNextStorage DEF EditorsStep, UseEditorsInv
  <2>3. CASE DecodersStep \/ ParserStep \/ FunctionsStep \/ ViewsStep \/ DrawingStep \/ SavingStep
    BY <2>3 DEF DecodersStep, ParserStep, FunctionsStep, ViewsStep, DrawingStep, SavingStep
  <2> QED BY <2>1, <2>2, <2>3 DEF UseNext
<1> QED BY <1>1, <1>2, PTL DEF UseSpec

\* The storage that is saved has the editors that are shown, with the texts that are shown, but
\* for the one in edit mode (addToAnnotationStorage, removeEditor, AnnotationStorage).
THEOREM StorageIsShownAlways == UseSpec => []StorageIsShown
<1>1. UseEditorsInv => StorageIsShown
  <2> SUFFICES ASSUME EditorsInv PROVE SavedIsShown
    BY DEF UseEditorsInv, StorageIsShown
  <2>1. \A e \in Editors \ {editing} : world[e] \in EditorRecords /\ EditorOK(world[e], plain)
    BY EditorParts DEF EditorsOK, EditorWorlds
  <2> QED BY <2>1 DEF EditorOK, EditorRecords, SavedIsShown
<1> QED BY <1>1, UseEditorsInvariant, PTL

------------------------------------------------------------------------------
(* Undo and redo go between the same pages.                                 *)

LookRecords == [text : TextValues, color : Colors, x : Int, seen : BOOLEAN]
Looks == [Editors -> LookRecords]

\* How the editors look: one without a text is not seen.
LookOf(r) == [text |-> r.text, color |-> r.color, x |-> r.x,
              seen |-> IF r.shown /\ r.text # NoText THEN TRUE ELSE FALSE]
LooksOf(w) == [e \in Editors |-> LookOf(w[e])]

SightOf(l) == IF l.seen THEN <<l.text, l.color, l.x>> ELSE <<>>
SeenIn(l) == [e \in Editors |-> SightOf(l[e])]
Sights == {SeenIn(l) : l \in Looks}

\* What a command, and its undoing, do to that of one editor.
LookSet(l, t) == [text |-> t, color |-> l.color, x |-> l.x, seen |-> IF t # NoText THEN TRUE ELSE FALSE]
LookColored(l, k) == [text |-> l.text, color |-> k, x |-> l.x, seen |-> l.seen]
LookPlace(l, n) == IF l.seen THEN [l EXCEPT !.x = Clamped(n)] ELSE l

LookDid(l, c, e) ==
    IF c.kind = "text" THEN IF e = c.editor THEN LookSet(l, c.new) ELSE l
    ELSE IF c.kind = "color" THEN IF e = c.editor THEN LookColored(l, c.new) ELSE l
    ELSE IF c.kind = "drag" THEN IF e \in DOMAIN c.new THEN LookPlace(l, c.new[e]) ELSE l
    ELSE IF c.kind = "translate" THEN IF e \in c.editors THEN LookPlace(l, l.x + c.by) ELSE l
    ELSE IF e \in c.editors THEN [l EXCEPT !.seen = FALSE] ELSE l

LookUndid(l, c, e) ==
    IF c.kind = "text" THEN IF e = c.editor THEN LookSet(l, c.old) ELSE l
    ELSE IF c.kind = "color" THEN IF e = c.undoes.editor THEN LookColored(l, c.undoes.color) ELSE l
    ELSE IF c.kind = "drag" THEN IF e \in DOMAIN c.old THEN LookPlace(l, c.old[e]) ELSE l
    ELSE IF c.kind = "translate" THEN IF e \in c.editors THEN LookPlace(l, l.x - c.by) ELSE l
    ELSE IF e \in c.editors THEN [l EXCEPT !.seen = IF l.text # NoText THEN TRUE ELSE FALSE] ELSE l

\* The command leads from one look to the other, and its undoing back.
Joined(l, m, c) == \A e \in Editors : LookDid(l[e], c, e) = m[e] /\ LookUndid(m[e], c, e) = l[e]

UndoesItself(c) == c.kind = "color" => c.undoes.editor = c.editor

\* Who is to be seen after no number of commands: those that were not made yet, and the one
\* that was and never got a text.
Unseen(w) == {e \in Editors : ~w[e].made \/ (w[e].shown /\ w[e].text = NoText)}

\* ls are the looks after each number of commands: as they were seen, l the present one, each
\* joined with the next by the command between them.  Who is hidden was never seen.
Chain(ls, cs, vs, p, l, un) ==
    /\ ls \in Seq(Looks) /\ Len(ls) = Len(cs) + 1
    /\ vs \in Seq(Sights) /\ Len(vs) = Len(ls)
    /\ ls[p + 1] = l
    /\ \A i \in 1 .. Len(ls) : vs[i] = SeenIn(ls[i])
    /\ \A i \in 1 .. Len(ls) : \A e \in un : ~ls[i][e].seen
    /\ \A i \in 1 .. Len(cs) : Joined(ls[i], ls[i + 1], cs[i])
    /\ \A i \in 1 .. Len(cs) : UndoesItself(cs[i])

HasChain(h, l) == \E ls : Chain(ls, h.commands, h.worlds, h.position, l, Unseen(h.world))

PlainChain(h) == h.plain => HasChain(h, LooksOf(h.world))

\* A translation that waits for its second is no command yet; it does not move who is hidden.
BeforeTimer(w) == [e \in Editors |-> IF e \in timer /\ w[e].text # NoText THEN [LookOf(w[e]) EXCEPT !.x = @ - translation]
                                ELSE LookOf(w[e])]

HistoryInv ==
    /\ plain => HasChain(H, BeforeTimer(world))
    /\ plain /\ timer # NoTimer =>
           \A e \in timer : world[e].shown /\ world[e].x - translation \in 0 .. Right
    /\ timer = NoTimer => translation = 0

LEMMA LookIs ==
  ASSUME NEW w \in EditorWorlds
  PROVE  /\ LooksOf(w) \in Looks /\ \A e \in Editors : LooksOf(w)[e] = LookOf(w[e]) /\ w[e] \in EditorRecords
         /\ Seen(w) = SeenIn(LooksOf(w)) /\ Seen(w) \in Sights
<1>1. \A e \in Editors : w[e] \in EditorRecords
  BY DEF EditorWorlds
<1>2. \A e \in Editors : LookOf(w[e]) \in LookRecords
  BY <1>1, EditorAssumption DEF LookOf, LookRecords, EditorRecords
<1>3. LooksOf(w) \in Looks
  BY <1>2 DEF LooksOf, Looks
<1>4. \A e \in Editors : SightOf(LookOf(w[e])) = IF w[e].shown /\ w[e].text # NoText
                                                  THEN <<w[e].text, w[e].color, w[e].x>> ELSE <<>>
  BY DEF SightOf, LookOf
<1>5. Seen(w) = SeenIn(LooksOf(w))
  BY <1>4 DEF Seen, SeenIn, LooksOf
<1> QED BY <1>1, <1>3, <1>5 DEF LooksOf, Sights

LEMMA PlaceLook ==
  ASSUME NEW r \in EditorRecords, r.shown => r.text # NoText, NEW n
  PROVE  LookOf(PlaceSet(r, n)) = LookPlace(LookOf(r), n)
<1> DEFINE k == Clamped(n)
<1>1. PlaceSet(r, n) = IF r.shown THEN [r EXCEPT !.x = k] ELSE r
  BY DEF PlaceSet
<1>2. LookPlace(LookOf(r), n) = IF LookOf(r).seen THEN [LookOf(r) EXCEPT !.x = k] ELSE LookOf(r)
  BY DEF LookPlace
<1> HIDE DEF k
<1> QED BY <1>1, <1>2 DEF LookOf, EditorRecords

LEMMA TextSetLook ==
  ASSUME NEW r \in EditorRecords, NEW t
  PROVE  LookOf(TextSet(r, t)) = LookSet(LookOf(r), t)
<1>1. TextSet(r, t).text = t /\ TextSet(r, t).color = r.color /\ TextSet(r, t).x = r.x
  BY DEF TextSet, EditorRecords
<1>2. TextSet(r, t).shown <=> t # NoText
  BY DEF TextSet, EditorRecords
<1> QED BY <1>1, <1>2 DEF LookOf, LookSet

\* Looks do not tell more than the editors do.
LEMMA LookOfDid ==
  ASSUME NEW r \in EditorRecords, NEW c \in EditorCommands, NEW e \in Editors, r.shown => r.text # NoText
  PROVE  LookOf(DidTo(r, c, e)) = LookDid(LookOf(r), c, e)
<1>1. CASE c.kind = "text"
  <2>2. LookOf(TextSet(r, c.new)) = LookSet(LookOf(r), c.new)
    BY TextSetLook
  <2> QED BY <1>1, <2>2 DEF DidTo, LookDid
<1>2. CASE c.kind = "color"
  BY <1>2 DEF DidTo, LookDid, LookOf, LookColored, EditorRecords
<1>3. CASE c.kind = "drag"
  <2>1. ASSUME NEW n PROVE LookOf(PlaceSet(r, n)) = LookPlace(LookOf(r), n)
    BY PlaceLook
  <2> QED BY <1>3, <2>1 DEF DidTo, LookDid
<1>4. CASE c.kind = "translate"
  <2>1. LookOf(PlaceSet(r, r.x + c.by)) = LookPlace(LookOf(r), r.x + c.by)
    BY PlaceLook
  <2>2. LookOf(r).x = r.x
    BY DEF LookOf
  <2> QED BY <1>4, <2>1, <2>2 DEF DidTo, LookDid
<1>5. CASE c.kind = "delete"
  <2>1. LookOf(Taken(r)) = [LookOf(r) EXCEPT !.seen = FALSE]
    <3>1. /\ Taken(r).text = r.text /\ Taken(r).color = r.color /\ Taken(r).x = r.x
          /\ Taken(r).shown = FALSE
      BY DEF Taken, EditorRecords
    <3>2. LookOf(Taken(r)) = [text |-> r.text, color |-> r.color, x |-> r.x, seen |-> FALSE]
      BY <3>1 DEF LookOf
    <3> DEFINE b == FALSE
    <3> HIDE DEF b
    <3>3. [LookOf(r) EXCEPT !.seen = b] = [text |-> r.text, color |-> r.color, x |-> r.x, seen |-> b]
      BY DEF LookOf
    <3> QED BY <3>2, <3>3 DEF b
  <2> QED BY <1>5, <2>1 DEF DidTo, LookDid
<1> QED BY <1>1, <1>2, <1>3, <1>4, <1>5, CommandKinds

LEMMA LookOfUndid ==
  ASSUME NEW r \in EditorRecords, NEW c \in EditorCommands, NEW e \in Editors, r.shown => r.text # NoText
  PROVE  LookOf(UndidTo(r, c, e)) = LookUndid(LookOf(r), c, e)
<1>1. CASE c.kind = "text"
  <2>1. LookOf(TextSet(r, c.old)) = LookSet(LookOf(r), c.old)
    BY TextSetLook
  <2> QED BY <1>1, <2>1 DEF UndidTo, LookUndid
<1>2. CASE c.kind = "color"
  BY <1>2 DEF UndidTo, LookUndid, LookOf, LookColored, EditorRecords
<1>3. CASE c.kind = "drag"
  <2>1. ASSUME NEW n PROVE LookOf(PlaceSet(r, n)) = LookPlace(LookOf(r), n)
    BY PlaceLook
  <2> QED BY <1>3, <2>1 DEF UndidTo, LookUndid
<1>4. CASE c.kind = "translate"
  <2>1. LookOf(PlaceSet(r, r.x - c.by)) = LookPlace(LookOf(r), r.x - c.by)
    BY PlaceLook
  <2>2. LookOf(r).x = r.x
    BY DEF LookOf
  <2> QED BY <1>4, <2>1, <2>2 DEF UndidTo, LookUndid
<1>5. CASE c.kind = "delete"
  <2>1. LookOf(Given(r)) = [LookOf(r) EXCEPT !.seen = IF LookOf(r).text # NoText THEN TRUE ELSE FALSE]
    <3>1. Given(r).text = r.text /\ Given(r).color = r.color /\ Given(r).x = r.x
      BY DEF Given, EditorRecords
    <3>2. Given(r).shown
      BY DEF Given, EditorRecords
    <3> DEFINE b == IF r.text # NoText THEN TRUE ELSE FALSE
    <3>3. (IF Given(r).shown /\ Given(r).text # NoText THEN TRUE ELSE FALSE) = b
      BY <3>1, <3>2
    <3>4. LookOf(Given(r)) = [text |-> r.text, color |-> r.color, x |-> r.x, seen |-> b]
      BY <3>1, <3>3 DEF LookOf
    <3>5. LookOf(r).text = r.text
      BY DEF LookOf
    <3> HIDE DEF b
    <3>6. [LookOf(r) EXCEPT !.seen = b] = [text |-> r.text, color |-> r.color, x |-> r.x, seen |-> b]
      BY DEF LookOf
    <3> QED BY <3>4, <3>5, <3>6 DEF b
  <2> QED BY <1>5, <2>1 DEF UndidTo, LookUndid
<1> QED BY <1>1, <1>2, <1>3, <1>4, <1>5, CommandKinds

LEMMA LookNotMentioned ==
  ASSUME NEW l, NEW c \in EditorCommands, NEW e \in Editors, e \notin Mentions(c)
  PROVE  LookDid(l, c, e) = l /\ LookUndid(l, c, e) = l
<1>1. CASE c.kind = "text"
  BY <1>1 DEF Mentions, LookDid, LookUndid
<1>2. CASE c.kind = "color"
  BY <1>2 DEF Mentions, LookDid, LookUndid
<1>3. CASE c.kind = "drag"
  BY <1>3 DEF Mentions, LookDid, LookUndid
<1>4. CASE c.kind = "translate"
  BY <1>4 DEF Mentions, LookDid, LookUndid
<1>5. CASE c.kind = "delete"
  BY <1>5 DEF Mentions, LookDid, LookUndid
<1> QED BY <1>1, <1>2, <1>3, <1>4, <1>5, CommandKinds

\* Something more at the end of what there was after each number of commands.
LEMMA NewerWorldsIs ==
  ASSUME NEW S, NEW s \in Seq(S), NEW p \in Nat, p + 1 <= Len(s), p <= MaxSize, NEW v \in S,
         NEW n, n = NewerWorlds(s, p, v), NEW q, q = After(p)
  PROVE  /\ n \in Seq(S) /\ Len(n) = q + 1 /\ n[q + 1] = v
         /\ \A i \in 1 .. q : n[i] = s[i + p + 1 - q] /\ i + p + 1 - q \in 1 .. p + 1
<1> DEFINE k == SubSeq(s, 1, p + 1)
           t == Append(k, v)
<1>1. k \in Seq(S) /\ Len(k) = p + 1 /\ \A i \in 1 .. p + 1 : k[i] = s[i]
  BY SubSeqProperties
<1>2. /\ t \in Seq(S) /\ Len(t) = p + 2 /\ (\A i \in 1 .. p + 1 : t[i] = s[i]) /\ t[p + 2] = v /\ t # <<>>
  <2> HIDE DEF k
  <2> QED BY <1>1, AppendProperties
<1>3. n = IF p = MaxSize THEN Tail(t) ELSE t
  BY DEF NewerWorlds
<1> HIDE DEF t
<1>4. Tail(t) \in Seq(S) /\ Len(Tail(t)) = p + 1 /\ \A i \in 1 .. p + 1 : Tail(t)[i] = t[i + 1]
  BY <1>2, HeadTailProperties
<1>5. CASE p = MaxSize
  <2>1. n = Tail(t) /\ q = p
    BY <1>3, <1>5 DEF After
  <2>2. n \in Seq(S) /\ Len(n) = q + 1
    BY <1>4, <2>1
  <2>3. n[q + 1] = v
    BY <1>2, <1>4, <2>1
  <2>4. ASSUME NEW i \in 1 .. q PROVE n[i] = s[i + p + 1 - q] /\ i + p + 1 - q \in 1 .. p + 1
    <3>1. i + p + 1 - q = i + 1 /\ i \in 1 .. p + 1 /\ i + 1 \in 1 .. p + 1
      BY <2>1
    <3>2. n[i] = t[i + 1] /\ t[i + 1] = s[i + 1]
      BY <1>2, <1>4, <2>1, <3>1
    <3> QED BY <3>1, <3>2
  <2> QED BY <2>2, <2>3, <2>4
<1>6. CASE p # MaxSize
  <2>1. n = t /\ q = p + 1
    BY <1>3, <1>6 DEF After
  <2> QED BY <1>2, <2>1
<1> QED BY <1>5, <1>6

\* A new command.
LEMMA ChainNew ==
  ASSUME NEW ls, NEW cs \in Seq(EditorCommands), NEW vs, NEW p \in 0 .. Len(cs), p <= MaxSize,
         NEW l, NEW un, Chain(ls, cs, vs, p, l, un),
         NEW c \in EditorCommands, NEW m \in Looks, Joined(l, m, c), UndoesItself(c),
         \A e \in un : ~m[e].seen,
         NEW ns, ns = Newer(cs, p, c), NEW ws, ws = NewerWorlds(vs, p, SeenIn(m)),
         NEW q, q = After(p)
  PROVE  \E ms : Chain(ms, ns, ws, q, m, un)
<1> DEFINE ms == NewerWorlds(ls, p, m)
<1>1. /\ ls \in Seq(Looks) /\ Len(ls) = Len(cs) + 1 /\ vs \in Seq(Sights) /\ Len(vs) = Len(ls)
      /\ ls[p + 1] = l /\ Len(cs) \in Nat /\ p \in Nat /\ p + 1 <= Len(ls)
  BY DEF Chain
<1>2. /\ ns \in Seq(EditorCommands) /\ Len(ns) = q /\ q \in Nat /\ q >= 1 /\ q <= p + 1 /\ ns[q] = c
      /\ \A i \in 1 .. q - 1 : ns[i] = cs[i + p + 1 - q] /\ i + p + 1 - q \in 1 .. p
  <2>1. q <= p + 1
    BY <1>1, EditorAssumption DEF After
  <2> QED BY <2>1, NewerIs
<1>0. ms = NewerWorlds(ls, p, m)
  OBVIOUS
<1> HIDE DEF ms
<1>3. /\ ms \in Seq(Looks) /\ Len(ms) = q + 1 /\ ms[q + 1] = m
      /\ \A i \in 1 .. q : ms[i] = ls[i + p + 1 - q] /\ i + p + 1 - q \in 1 .. p + 1
  BY <1>0, <1>1, NewerWorldsIs
<1>4. SeenIn(m) \in Sights
  BY DEF Sights
<1>5. /\ ws \in Seq(Sights) /\ Len(ws) = q + 1 /\ ws[q + 1] = SeenIn(m)
      /\ \A i \in 1 .. q : ws[i] = vs[i + p + 1 - q] /\ i + p + 1 - q \in 1 .. p + 1
  BY <1>1, <1>4, NewerWorldsIs
<1>6. \A i \in 1 .. Len(ms) : i = q + 1 \/ i \in 1 .. q
  BY <1>2, <1>3
<1>7. \A i \in 1 .. Len(ms) : ws[i] = SeenIn(ms[i])
  <2> TAKE i \in 1 .. Len(ms)
  <2>1. CASE i = q + 1
    BY <1>3, <1>5, <2>1
  <2>2. CASE i \in 1 .. q
    <3> DEFINE j == i + p + 1 - q
    <3>1. ms[i] = ls[j] /\ ws[i] = vs[j] /\ j \in 1 .. Len(ls)
      BY <1>1, <1>3, <1>5, <2>2
    <3> HIDE DEF j
    <3> QED BY <3>1 DEF Chain
  <2> QED BY <1>6, <2>1, <2>2
<1>8. \A i \in 1 .. Len(ms) : \A e \in un : ~ms[i][e].seen
  <2> TAKE i \in 1 .. Len(ms)
  <2>1. CASE i = q + 1
    BY <1>3, <2>1
  <2>2. CASE i \in 1 .. q
    <3> DEFINE j == i + p + 1 - q
    <3>1. ms[i] = ls[j] /\ j \in 1 .. Len(ls)
      BY <1>1, <1>3, <2>2
    <3> HIDE DEF j
    <3> QED BY <3>1 DEF Chain
  <2> QED BY <1>6, <2>1, <2>2
<1>9. \A i \in 1 .. Len(ns) : Joined(ms[i], ms[i + 1], ns[i]) /\ UndoesItself(ns[i])
  <2> TAKE i \in 1 .. Len(ns)
  <2>1. CASE i = q
    <3>1. q + p + 1 - q = p + 1 /\ q \in 1 .. q
      BY <1>1, <1>2
    <3>2. ms[q] = l
      BY <1>1, <1>3, <3>1
    <3> QED BY <1>2, <1>3, <2>1, <3>2
  <2>2. CASE i \in 1 .. q - 1
    <3> DEFINE j == i + p + 1 - q
    <3>1. j \in 1 .. Len(cs) /\ ns[i] = cs[j] /\ i \in 1 .. q /\ i + 1 \in 1 .. q
      BY <1>1, <1>2, <2>2
    <3>2. (i + 1) + p + 1 - q = j + 1
      BY <1>1, <1>2, <2>2
    <3>3. ms[i] = ls[j] /\ ms[i + 1] = ls[j + 1]
      BY <1>3, <3>1, <3>2
    <3> HIDE DEF j
    <3> QED BY <3>1, <3>3 DEF Chain
  <2> QED BY <1>2, <2>1, <2>2
<1>10. Chain(ms, ns, ws, q, m, un)
  BY <1>2, <1>3, <1>5, <1>7, <1>8, <1>9 DEF Chain
<1> QED BY <1>10

\* There may be fewer who are hidden.
LEMMA ChainFewer ==
  ASSUME NEW ls, NEW cs, NEW vs, NEW p, NEW l, NEW un, Chain(ls, cs, vs, p, l, un),
         NEW ut \in SUBSET un
  PROVE  Chain(ls, cs, vs, p, l, ut)
BY DEF Chain

LEMMA HiddenFewer ==
  ASSUME NEW w, NEW v, \A e \in Editors : w[e].made => v[e].made,
         \A e \in Editors : v[e].shown /\ v[e].text = NoText => w[e].shown /\ w[e].text = NoText
  PROVE  Unseen(v) \in SUBSET Unseen(w)
BY DEF Unseen

\* The world may change in what is not looked at.
LEMMA SameChain ==
  ASSUME NEW h, NEW n, n.plain => h.plain, PlainChain(h),
         n.commands = h.commands, n.position = h.position, n.worlds = h.worlds,
         n.plain => LooksOf(n.world) = LooksOf(h.world),
         Unseen(n.world) \in SUBSET Unseen(h.world)
  PROVE  PlainChain(n)
<1> SUFFICES ASSUME n.plain PROVE HasChain(n, LooksOf(n.world))
  BY DEF PlainChain
<1> DEFINE l == LooksOf(h.world)
           un == Unseen(h.world)
           ut == Unseen(n.world)
<1>1. PICK ls : Chain(ls, h.commands, h.worlds, h.position, l, un)
  BY DEF PlainChain, HasChain
<1>2. ut \in SUBSET un /\ LooksOf(n.world) = l
  OBVIOUS
<1> HIDE DEF l, un, ut
<1>3. Chain(ls, n.commands, n.worlds, n.position, l, ut)
  BY <1>1, <1>2, ChainFewer
<1> QED BY <1>2, <1>3 DEF HasChain, ut

\* Who is hidden is not seen.
LEMMA HiddenUnseen ==
  ASSUME NEW w \in EditorWorlds, NEW isPlain, NEW ed, EditorsOK(w, isPlain, ed)
  PROVE  \A e \in Unseen(w) : ~LooksOf(w)[e].seen
<1> SUFFICES ASSUME NEW e \in Editors, ~w[e].made \/ w[e].text = NoText PROVE ~LooksOf(w)[e].seen
  BY DEF Unseen
<1>1. ~w[e].shown \/ w[e].text = NoText
  BY DEF EditorsOK, MadeOK
<1>2. LookOf(w[e]).seen = FALSE
  BY <1>1 DEF LookOf
<1> QED BY <1>2 DEF LooksOf

LEMMA CommittedChain ==
  ASSUME EditorsInv, PlainChain(H), NEW n, n = Committed(H)
  PROVE  PlainChain(n)
<1>1. CASE editing = NoEditor
  <2>1. n = H
    BY <1>1 DEF Committed
  <2> QED BY <2>1
<1>2. CASE editing # NoEditor
  <2> DEFINE e == editing
             r == world[e]
  <2>1. /\ world \in EditorWorlds /\ commands \in Seq(EditorCommands) /\ position \in 0 .. Len(commands)
        /\ position <= MaxSize /\ EditorsOK(world, plain, editing)
        /\ e \in Editors /\ r \in EditorRecords /\ r.shown
    BY <1>2, EditorParts DEF EditorsOK, EditorWorlds
  <2>2. /\ StorageInv(n, NoEditor) /\ (n.plain => plain)
        /\ \A f \in Editors : /\ n.world[f].made = world[f].made
                              /\ f # e => n.world[f] = world[f]
    BY CommittedOK
  <2>3. n.world \in EditorWorlds /\ EditorsOK(n.world, n.plain, NoEditor)
    BY <2>2, StorageParts
  <2>7. Unseen(n.world) \in SUBSET Unseen(world)
    <3>1. \A f \in Editors : n.world[f].shown => n.world[f].text # NoText
      BY <2>1, <2>3, EditorAssumption, ShownAre DEF NoEditor
    <3> QED BY <2>2, <3>1, HiddenFewer
  <2>4. /\ r.typed = NoText => /\ n.world = PutAt(world, e, Taken(r)) /\ n.commands = commands
                               /\ n.position = position /\ n.worlds = worlds
                               /\ (n.plain => plain /\ r.text = NoText)
        /\ r.typed # NoText => n.world = PutAt(world, e, SavedText(r)) /\ n.plain = plain
        /\ r.typed # NoText /\ r.typed = r.text
              => n.commands = commands /\ n.position = position /\ n.worlds = worlds
        /\ r.typed # NoText /\ r.typed # r.text
              => /\ n.commands = Newer(commands, position, TextCommand(e, r.text, r.typed))
                 /\ n.position = After(position)
                 /\ n.worlds = NewerWorlds(worlds, position, Seen(n.world))
    BY <1>2, CommittedIs
  <2> HIDE DEF e, r
  <2>5. CASE r.typed = NoText \/ r.typed = r.text
    <3>1. n.plain => LookOf(n.world[e]) = LookOf(r)
      <4>1. CASE r.typed = NoText
        <5> SUFFICES ASSUME n.plain PROVE LookOf(n.world[e]) = LookOf(r)
          OBVIOUS
        <5>1. r.text = NoText /\ Taken(r) \in EditorRecords
          BY <2>1, <2>4, <4>1, SmallSets DEF TextValues
        <5>2. n.world[e] = Taken(r)
          BY <2>1, <2>4, <4>1, <5>1, PutIs
        <5>3. Taken(r).text = r.text /\ Taken(r).color = r.color /\ Taken(r).x = r.x
          BY <2>1 DEF Taken, EditorRecords
        <5> QED BY <5>1, <5>2, <5>3 DEF LookOf
      <4>2. CASE r.typed # NoText /\ r.typed = r.text
        <5>1. SavedText(r) \in EditorRecords
          BY <2>1 DEF SavedText, EditorRecords
        <5>2. n.world[e] = SavedText(r)
          BY <2>1, <2>4, <4>2, <5>1, PutIs
        <5>3. SavedText(r).text = r.text /\ SavedText(r).color = r.color /\ SavedText(r).x = r.x /\ SavedText(r).shown = r.shown
          BY <2>1, <4>2 DEF SavedText, EditorRecords
        <5> QED BY <5>2, <5>3 DEF LookOf
      <4> QED BY <2>5, <4>1, <4>2
    <3>2. n.plain => LooksOf(n.world) = LooksOf(world)
      BY <2>2, <3>1 DEF LooksOf, r
    <3> HIDE DEF r, e
    <3>3. n.commands = H.commands /\ n.position = H.position /\ n.worlds = H.worlds /\ H.world = world
      BY <2>4, <2>5, HIs
    <3>4. n.plain => H.plain
      BY <2>2, HIs
    <3> QED BY <2>7, <3>2, <3>3, <3>4, SameChain
  <2>6. CASE r.typed # NoText /\ r.typed # r.text
    <3> DEFINE c == TextCommand(e, r.text, r.typed)
               l == LooksOf(world)
               m == LooksOf(n.world)
    <3>1. /\ c \in TextCommands /\ c.kind = "text" /\ c.editor = e /\ c.old = r.text /\ c.new = r.typed
      BY <2>1, <2>6 DEF TextCommand, TextCommands, EditorRecords
    <3>2. /\ n.commands = Newer(commands, position, c) /\ n.position = After(position)
          /\ n.worlds = NewerWorlds(worlds, position, Seen(n.world)) /\ n.plain = plain
      BY <2>4, <2>6
    <3>3. /\ l \in Looks /\ m \in Looks /\ Seen(n.world) = SeenIn(m)
          /\ \A f \in Editors : l[f] = LookOf(world[f]) /\ m[f] = LookOf(n.world[f])
      BY <2>1, <2>3, LookIs
    <3> HIDE DEF c
    <3>4. c \in EditorCommands /\ UndoesItself(c)
      BY <3>1 DEF EditorCommands, UndoesItself
    <3>5. n.world[e] = SavedText(r)
      <4>1. SavedText(r) \in EditorRecords
        BY <2>1 DEF SavedText, EditorRecords
      <4> QED BY <2>1, <2>4, <2>6, <4>1, PutIs
    <3>6. m[e] = LookSet(l[e], r.typed) /\ l[e] = LookSet(m[e], r.text)
      <4>1. /\ SavedText(r).text = r.typed /\ SavedText(r).color = r.color /\ SavedText(r).x = r.x /\ SavedText(r).shown
        BY <2>1 DEF SavedText, EditorRecords
      <4>2. m[e] = [text |-> r.typed, color |-> r.color, x |-> r.x, seen |-> TRUE]
        <5>1. (IF SavedText(r).shown /\ SavedText(r).text # NoText THEN TRUE ELSE FALSE) = TRUE
          BY <2>6, <4>1
        <5>2. LookOf(SavedText(r)) = [text |-> r.typed, color |-> r.color, x |-> r.x, seen |-> TRUE]
          BY <4>1, <5>1 DEF LookOf
        <5> HIDE DEF m
        <5> QED BY <2>1, <3>3, <3>5, <5>2
      <4>3. l[e] = [text |-> r.text, color |-> r.color, x |-> r.x,
                    seen |-> IF r.text # NoText THEN TRUE ELSE FALSE]
        BY <2>1, <3>3 DEF LookOf, r
      <4> HIDE DEF l, m
      <4>4. m[e] = LookSet(l[e], r.typed)
        BY <2>6, <4>2, <4>3 DEF LookSet
      <4>5. l[e] = LookSet(m[e], r.text)
        BY <4>2, <4>3 DEF LookSet
      <4> QED BY <4>4, <4>5
    <3>7. \A f \in Editors : f # e => l[f] = m[f]
      BY <2>2, <3>3
    <3> HIDE DEF l, m
    <3>8. Joined(l, m, c)
      BY <3>1, <3>6, <3>7 DEF Joined, LookDid, LookUndid
    <3>9. \A f \in Unseen(n.world) : ~m[f].seen
      BY <2>3, HiddenUnseen DEF m
    <3>11. ASSUME plain PROVE HasChain(n, m)
      <4> DEFINE ut == Unseen(n.world)
                 un == Unseen(world)
      <4>1. PICK ls : Chain(ls, commands, worlds, position, l, un)
        BY <3>11, HIs DEF PlainChain, HasChain, l
      <4>2. ut \in SUBSET un /\ \A f \in ut : ~m[f].seen
        BY <2>7, <3>9
      <4> HIDE DEF un, ut
      <4>3. Chain(ls, commands, worlds, position, l, ut)
        BY <4>1, <4>2, ChainFewer
      <4>4. \E ms : Chain(ms, n.commands, n.worlds, n.position, m, ut)
        BY <2>1, <3>2, <3>3, <3>4, <3>8, <4>2, <4>3, ChainNew
      <4> QED BY <4>4 DEF HasChain, ut
    <3> QED BY <3>2, <3>11 DEF PlainChain, m
  <2> QED BY <2>5, <2>6
<1> QED BY <1>1, <1>2

\* A color that takes the place of the last one, of the same editor.
LEMMA ChainOverwrite ==
  ASSUME NEW ls, NEW cs \in Seq(EditorCommands), NEW vs, NEW p \in 1 .. Len(cs), p = Len(cs),
         NEW l, NEW un, Chain(ls, cs, vs, p, l, un),
         NEW c \in ColorCommands, NEW m \in Looks, Joined(l, m, c), UndoesItself(c),
         cs[p].kind = "color", cs[p].editor = c.editor,
         \A e \in un : ~m[e].seen,
         NEW ns, ns = PutAt(cs, p, KeepingUndo(c, cs[p])), NEW ws, ws = PutAt(vs, p + 1, SeenIn(m))
  PROVE  \E ms : Chain(ms, ns, ws, p, m, un)
<1> DEFINE ms == PutAt(ls, p + 1, m)
           d  == KeepingUndo(c, cs[p])
           last == cs[p]
<1>1. /\ ls \in Seq(Looks) /\ Len(ls) = Len(cs) + 1 /\ vs \in Seq(Sights) /\ Len(vs) = Len(ls)
      /\ ls[p + 1] = l /\ Len(cs) \in Nat /\ p \in Nat /\ p + 1 \in 1 .. Len(ls) /\ p \in 1 .. Len(ls)
  BY DEF Chain
<1>2. last \in ColorCommands /\ UndoesItself(last)
  BY CommandKinds, ElementOfSeq DEF Chain
<1>3. /\ d \in ColorCommands /\ d.editor = c.editor /\ d.undoes = last.undoes /\ d.new = c.new
      /\ d.kind = "color" /\ c.kind = "color" /\ last.undoes.editor = c.editor
  BY <1>2 DEF ColorCommands, KeepingUndo, UndoesItself
<1>4. /\ ms \in Seq(Looks) /\ Len(ms) = Len(ls)
      /\ \A i \in 1 .. Len(ls) : ms[i] = IF i = p + 1 THEN m ELSE ls[i]
  BY <1>1, ExceptSeq DEF PutAt
<1>5. SeenIn(m) \in Sights
  BY DEF Sights
<1>6. /\ ws \in Seq(Sights) /\ Len(ws) = Len(ls)
      /\ \A i \in 1 .. Len(ls) : ws[i] = IF i = p + 1 THEN SeenIn(m) ELSE vs[i]
  BY <1>1, <1>5, ExceptSeq DEF PutAt
<1> HIDE DEF d
<1>7. d \in EditorCommands
  BY <1>3 DEF EditorCommands
<1>8. Len(ns) = Len(cs) /\ \A i \in 1 .. Len(cs) : ns[i] = IF i = p THEN d ELSE cs[i]
  BY <1>7, ExceptSeq DEF PutAt, d
<1> HIDE DEF ms, last
<1>9. \A i \in 1 .. Len(ms) : ws[i] = SeenIn(ms[i]) /\ \A e \in un : ~ms[i][e].seen
  <2> TAKE i \in 1 .. Len(ms)
  <2>1. CASE i = p + 1
    BY <1>1, <1>4, <1>6, <2>1
  <2>2. CASE i # p + 1
    BY <1>4, <1>6, <2>2 DEF Chain
  <2> QED BY <2>1, <2>2
<1>10. Joined(ls[p], m, d)
  <2> SUFFICES ASSUME NEW e \in Editors
               PROVE  LookDid(ls[p][e], d, e) = m[e] /\ LookUndid(m[e], d, e) = ls[p][e]
    BY DEF Joined
  <2> DEFINE a == ls[p][e]
             b == l[e]
             z == m[e]
  <2>1. a \in LookRecords /\ b \in LookRecords /\ z \in LookRecords
    BY <1>1, ElementOfSeq DEF Looks
  <2>2. LookDid(a, last, e) = b /\ LookUndid(b, last, e) = a
    BY <1>1 DEF Chain, Joined, last
  <2>3. LookDid(b, c, e) = z
    BY DEF Joined
  <2> HIDE DEF a, b, z
  <2>4. last.kind = "color" /\ last.editor = c.editor
    BY DEF last
  <2>5. CASE e = c.editor
    <3>1. b = LookColored(a, last.new) /\ a = LookColored(b, last.undoes.color)
          /\ z = LookColored(b, c.new)
      BY <1>3, <2>2, <2>3, <2>4, <2>5 DEF LookDid, LookUndid
    <3>2. LookDid(a, d, e) = LookColored(a, c.new)
          /\ LookUndid(z, d, e) = LookColored(z, last.undoes.color)
      BY <1>3, <2>5 DEF LookDid, LookUndid
    <3>3. z = LookColored(a, c.new) /\ a = LookColored(z, last.undoes.color)
      <4> DEFINE k == last.new
                 u == last.undoes.color
                 v == c.new
      <4>1. b = LookColored(a, k) /\ a = LookColored(b, u) /\ z = LookColored(b, v)
        BY <3>1
      <4> HIDE DEF k, u, v
      <4>2. b.text = a.text /\ b.x = a.x /\ b.seen = a.seen
        BY ONLY <4>1 DEF LookColored
      <4>3. z.text = b.text /\ z.x = b.x /\ z.seen = b.seen
        BY ONLY <4>1 DEF LookColored
      <4>4. LookColored(a, v) = LookColored(b, v) /\ LookColored(z, u) = LookColored(b, u)
        BY ONLY <4>2, <4>3 DEF LookColored
      <4> QED BY <4>1, <4>4 DEF u, v
    <3> QED BY <3>2, <3>3 DEF a, z
  <2>6. CASE e # c.editor
    <3>1. b = a /\ z = b
      BY <1>3, <2>2, <2>3, <2>4, <2>6 DEF LookDid
    <3>2. LookDid(a, d, e) = a /\ LookUndid(z, d, e) = z
      BY <1>3, <2>6 DEF LookDid, LookUndid
    <3> QED BY <3>1, <3>2 DEF a, z
  <2> QED BY <2>5, <2>6
<1>11. \A i \in 1 .. Len(ns) : Joined(ms[i], ms[i + 1], ns[i]) /\ UndoesItself(ns[i])
  <2> TAKE i \in 1 .. Len(ns)
  <2>1. CASE i = p
    <3>1. ms[p] = ls[p] /\ ms[p + 1] = m /\ ns[p] = d
      BY <1>1, <1>4, <1>8
    <3>2. UndoesItself(d)
      BY <1>3 DEF UndoesItself
    <3> QED BY <1>10, <2>1, <3>1, <3>2
  <2>2. CASE i # p
    <3>1. i \in 1 .. Len(cs) /\ i \in 1 .. Len(ls) /\ i + 1 \in 1 .. Len(ls) /\ i < p
      BY <1>1, <1>8, <2>2
    <3>2. ms[i] = ls[i] /\ ms[i + 1] = ls[i + 1] /\ ns[i] = cs[i]
      BY <1>1, <1>4, <1>8, <2>2, <3>1
    <3> QED BY <3>1, <3>2 DEF Chain
  <2> QED BY <2>1, <2>2
<1>12. ms[p + 1] = m
  BY <1>1, <1>4
<1>13. Chain(ms, ns, ws, p, m, un)
  BY <1>1, <1>4, <1>6, <1>8, <1>9, <1>11, <1>12 DEF Chain
<1> QED BY <1>13

\* add
LEMMA AddChain ==
  ASSUME NEW h, NEW ed, StorageInv(h, ed), NEW c \in EditorCommands, c.kind # "text",
         \A e \in Mentions(c) : h.world[e].made,
         \A e \in Editors : IsDeletion(c, e) => e # ed /\ h.world[e].shown,
         UndoesItself(c),
         NEW w, w \in {Do(h.world, c), h.world},
         NEW n, n = IF Overwrites(h, c) THEN Overwrite(h, c, w) ELSE NewCommand(h, c, w),
         NEW l, h.plain => HasChain(h, l), Joined(l, LooksOf(w), c)
  PROVE  PlainChain(n)
<1> DEFINE m == LooksOf(w)
<1>1. /\ IsHistory(h) /\ h.world \in EditorWorlds /\ h.commands \in Seq(EditorCommands)
      /\ h.position \in 0 .. Len(h.commands) /\ h.position <= MaxSize
  BY StorageParts
<1>2. StorageInv(n, ed) /\ n.world = w
  BY AddOK
<1>3. w \in EditorWorlds /\ EditorsOK(w, n.plain, ed)
  BY <1>2, StorageParts
<1>4. m \in Looks /\ Seen(w) = SeenIn(m) /\ \A f \in Unseen(w) : ~m[f].seen
  BY <1>3, LookIs, HiddenUnseen
<1>5. Unseen(w) \in SUBSET Unseen(h.world)
  <2>1. CASE w = h.world
    BY <2>1
  <2>2. CASE w = Do(h.world, c)
    <3>1. \A e \in Editors : h.world[e] \in EditorRecords /\ w[e] = DidTo(h.world[e], c, e)
      BY <1>1, <2>2, DoWorld DEF EditorWorlds
    <3>2. \A e \in Editors : w[e].made = h.world[e].made /\ w[e].text = h.world[e].text
      BY <3>1, DidToIs DEF IsText
    <3>3. \A e \in Editors : w[e].shown => h.world[e].shown
      BY <3>1, DidToIs DEF IsText
    <3> QED BY <3>2, <3>3, HiddenFewer
  <2> QED BY <2>1, <2>2
<1> HIDE DEF m
<1> DEFINE un == Unseen(h.world)
           ut == Unseen(w)
<1> SUFFICES ASSUME n.plain PROVE \E ms : Chain(ms, n.commands, n.worlds, n.position, m, ut)
  BY <1>2 DEF PlainChain, HasChain, m
<1>9. ASSUME h.plain PROVE \E ls : Chain(ls, h.commands, h.worlds, h.position, l, ut)
  <2>1. PICK ls : Chain(ls, h.commands, h.worlds, h.position, l, un)
    BY <1>9 DEF HasChain
  <2>2. ut \in SUBSET un
    BY <1>5
  <2> HIDE DEF un, ut
  <2> QED BY <2>1, <2>2, ChainFewer
<1>10. \A f \in ut : ~m[f].seen
  BY <1>4
<1> HIDE DEF un, ut
<1>6. Joined(l, m, c)
  BY DEF m
<1>7. CASE ~Overwrites(h, c)
  <2>1. n = NewCommand(h, c, w)
    BY <1>7
  <2>2. /\ n.plain = h.plain /\ n.commands = Newer(h.commands, h.position, c)
        /\ n.position = After(h.position) /\ n.worlds = NewerWorlds(h.worlds, h.position, SeenIn(m))
    BY <1>1, <1>4, <2>1, NewCommandIs DEF NewerWorlds
  <2>3. PICK ls : Chain(ls, h.commands, h.worlds, h.position, l, ut)
    BY <1>9, <2>2
  <2> QED BY <1>1, <1>4, <1>6, <1>10, <2>2, <2>3, ChainNew
<1>8. CASE Overwrites(h, c)
  <2>1. n = Overwrite(h, c, w)
    BY <1>8
  <2>2. /\ n.position = h.position
        /\ n.plain => h.plain /\ h.commands[h.position].editor = c.editor /\ h.position = Len(h.commands)
        /\ n.commands = PutAt(h.commands, h.position, KeepingUndo(c, h.commands[h.position]))
        /\ n.worlds = PutAt(h.worlds, h.position + 1, SeenIn(m))
    BY <1>1, <1>4, <2>1, OverwriteIs
  <2>3. PICK ls : Chain(ls, h.commands, h.worlds, h.position, l, ut)
    BY <1>9, <2>2
  <2>4. c \in ColorCommands /\ h.position \in 1 .. Len(h.commands) /\ h.commands[h.position].kind = "color"
    BY <1>1, <1>8, CommandKinds DEF Overwrites
  <2>5. h.commands[h.position].editor = c.editor /\ h.position = Len(h.commands)
    BY <2>2
  <2> QED BY <1>1, <1>4, <1>6, <1>10, <2>2, <2>3, <2>4, <2>5, ChainOverwrite
<1> QED BY <1>7, <1>8

\* Before the second of a translation begins, the present look is that of the chain.
LEMMA PlainChainNow ==
  ASSUME EditorsInv, HistoryInv, timer = NoTimer
  PROVE  PlainChain(H)
<1>1. BeforeTimer(world) = LooksOf(world)
  BY DEF BeforeTimer, LooksOf, NoTimer
<1> QED BY <1>1, HIs DEF HistoryInv, PlainChain

\* What is done then is plain as long as the chain is kept.
LEMMA ActsHistory ==
  ASSUME HistoryInv, NEW h, Acts(h), UNCHANGED <<timer, translation>>,
         timer = NoTimer => PlainChain(h)
  PROVE  HistoryInv'
<1>1. plain' = (h.plain /\ timer = NoTimer)
  BY DEF Acts
<1>2. (plain' => h.plain) /\ (plain' => timer = NoTimer)
  BY <1>1
<1>3. /\ world' = h.world /\ commands' = h.commands /\ position' = h.position /\ worlds' = h.worlds
      /\ timer' = timer /\ translation' = translation
  BY DEF Acts, Sets
<1>4. ASSUME plain' PROVE HasChain(H, BeforeTimer(world))'
  <2>1. HasChain(h, LooksOf(h.world)) /\ timer' = NoTimer
    BY <1>2, <1>3, <1>4 DEF PlainChain
  <2>2. BeforeTimer(world)' = LooksOf(h.world)
    BY <1>3, <2>1 DEF BeforeTimer, LooksOf, NoTimer
  <2>3. /\ H'.world = h.world /\ H'.commands = h.commands /\ H'.position = h.position
        /\ H'.worlds = h.worlds
    BY <1>3 DEF H
  <2> QED BY <2>1, <2>2, <2>3 DEF HasChain
<1>5. plain' => timer' = NoTimer
  BY <1>2, <1>3
<1>6. timer' = NoTimer => translation' = 0
  BY <1>3 DEF HistoryInv
<1> QED BY <1>4, <1>5, <1>6 DEF HistoryInv

LEMMA EditHistory ==
  ASSUME EditorsInv, HistoryInv, NEW e \in Editors, Edit(e)
  PROVE  HistoryInv'
<1> DEFINE h == Committed(H)
<1>1. Acts(h) /\ UNCHANGED <<timer, translation>>
  BY DEF Edit
<1>2. timer = NoTimer => PlainChain(h)
  BY PlainChainNow, CommittedChain
<1> HIDE DEF h
<1> QED BY <1>1, <1>2, ActsHistory

LEMMA CommitHistory == EditorsInv /\ HistoryInv /\ Commit => HistoryInv'
<1> SUFFICES ASSUME EditorsInv, HistoryInv, Commit PROVE HistoryInv'
  OBVIOUS
<1> DEFINE h == Committed(H)
<1>1. Acts(h) /\ UNCHANGED <<timer, translation>>
  BY DEF Commit
<1>2. timer = NoTimer => PlainChain(h)
  BY PlainChainNow, CommittedChain
<1> HIDE DEF h
<1> QED BY <1>1, <1>2, ActsHistory

LEMMA TypeHistory ==
  ASSUME EditorsInv, HistoryInv, NEW t \in TextValues, Type(t)
  PROVE  HistoryInv'
<1> DEFINE w == [world EXCEPT ![editing].typed = t]
           r == [world[editing] EXCEPT !.typed = t]
           n == [H EXCEPT !.world = w]
<1>1. Acts(n) /\ UNCHANGED <<timer, translation>> /\ editing # NoEditor
  BY DEF Type
<1>2. editing \in Editors /\ world \in EditorWorlds /\ world[editing] \in EditorRecords
  BY <1>1, EditorParts DEF EditorsOK, EditorWorlds
<1>3. w = PutAt(world, editing, r)
  BY <1>2 DEF PutAt, EditorWorlds
<1>4. /\ r \in EditorRecords /\ r.text = world[editing].text /\ r.color = world[editing].color
      /\ r.x = world[editing].x /\ r.shown = world[editing].shown /\ r.made = world[editing].made
  BY <1>2 DEF EditorRecords
<1> HIDE DEF w, r
<1>5. \A e \in Editors : /\ w[e].made = world[e].made /\ LookOf(w[e]) = LookOf(world[e])
                         /\ w[e].shown = world[e].shown /\ w[e].text = world[e].text
  <2> TAKE e \in Editors
  <2>1. CASE e # editing
    BY <1>2, <1>3, <1>4, <2>1, PutIs
  <2>2. CASE e = editing
    <3>1. w[e] = r
      BY <1>2, <1>3, <1>4, <2>2, PutIs
    <3> QED BY <1>4, <2>2, <3>1 DEF LookOf
  <2> QED BY <2>1, <2>2
<1>9. Unseen(w) \in SUBSET Unseen(world)
  BY <1>5, HiddenFewer
<1>6. LooksOf(w) = LooksOf(world)
  BY <1>5 DEF LooksOf
<1>7. /\ n.world = w /\ n.commands = commands /\ n.position = position /\ n.worlds = worlds
      /\ n.plain = plain
  BY DEF H
<1> HIDE DEF n
<1>8. timer = NoTimer => PlainChain(n)
  BY <1>6, <1>7, <1>9, HIs, PlainChainNow, SameChain
<1> QED BY <1>1, <1>8, ActsHistory

Moved(l, x) == [l EXCEPT !.x = x]
PlacedAt(k, e, x) == [k EXCEPT ![e] = Moved(k[e], x)]

LEMMA PlacedAtIs ==
  ASSUME NEW k \in Looks, NEW e \in Editors, NEW x \in Int
  PROVE  /\ PlacedAt(k, e, x) \in Looks /\ PlacedAt(k, e, x)[e] = Moved(k[e], x)
         /\ k[e] \in LookRecords
         /\ \A f \in Editors : f # e => PlacedAt(k, e, x)[f] = k[f]
         /\ ~k[e].seen => SeenIn(PlacedAt(k, e, x)) = SeenIn(k) /\ ~PlacedAt(k, e, x)[e].seen
<1> DEFINE r == Moved(k[e], x)
           m == PlacedAt(k, e, x)
<1>1. k[e] \in LookRecords
  BY DEF Looks
<1>2. r \in LookRecords /\ r.seen = k[e].seen
  BY <1>1 DEF LookRecords, Moved
<1> HIDE DEF r
<1>3. m \in Looks /\ m[e] = r /\ \A f \in Editors : f # e => m[f] = k[f]
  BY <1>2 DEF Looks, PlacedAt, r
<1> HIDE DEF m
<1>4. ASSUME ~k[e].seen PROVE SeenIn(m) = SeenIn(k) /\ ~m[e].seen
  <2>1. ~m[e].seen
    BY <1>2, <1>3, <1>4
  <2>2. SightOf(m[e]) = SightOf(k[e])
    BY <1>4, <2>1 DEF SightOf
  <2>3. \A f \in Editors : SightOf(m[f]) = SightOf(k[f])
    BY <1>3, <2>2
  <2> QED BY <2>1, <2>3 DEF SeenIn
<1> QED BY <1>1, <1>3, <1>4 DEF m, r

LEMMA FunctionIsSeq ==
  ASSUME NEW S, NEW n \in Nat, NEW f \in [1 .. n -> S]
  PROVE  f \in Seq(S) /\ Len(f) = n
BY SeqDef

\* Where an editor is that is not seen makes no difference to a command.
LEMMA UnseenPlace ==
  ASSUME NEW l \in LookRecords, ~l.seen, NEW c \in EditorCommands, NEW e \in Editors, NEW x \in Int
  PROVE  /\ LookDid(Moved(l, x), c, e) = Moved(LookDid(l, c, e), x)
         /\ LookUndid(Moved(l, x), c, e) = Moved(LookUndid(l, c, e), x)
<1> DEFINE b == l.seen
           m == Moved(l, x)
<1>1. /\ l = [text |-> l.text, color |-> l.color, x |-> l.x, seen |-> b]
      /\ m = [text |-> l.text, color |-> l.color, x |-> x, seen |-> b]
      /\ m.text = l.text /\ m.color = l.color /\ m.seen = b /\ l.seen = b /\ ~b
  BY DEF LookRecords, Moved
<1> HIDE DEF b, m
<1>2. \A n : LookPlace(l, n) = l /\ LookPlace(m, n) = m
  BY <1>1 DEF LookPlace
<1>3. Moved(l, x) = m
  BY DEF m
<1>4. CASE c.kind = "text"
  <2>1. \A t : LookSet(m, t) = Moved(LookSet(l, t), x)
    <3> TAKE t
    <3> DEFINE d == IF t # NoText THEN TRUE ELSE FALSE
    <3>1. /\ LookSet(l, t) = [text |-> t, color |-> l.color, x |-> l.x, seen |-> d]
          /\ LookSet(m, t) = [text |-> t, color |-> l.color, x |-> x, seen |-> d]
      BY <1>1 DEF LookSet
    <3> HIDE DEF d
    <3> QED BY <3>1 DEF Moved
  <2> QED BY <1>3, <1>4, <2>1 DEF LookDid, LookUndid
<1>5. CASE c.kind = "color"
  <2>1. \A k : LookColored(m, k) = Moved(LookColored(l, k), x)
    BY <1>1 DEF LookColored, Moved
  <2> QED BY <1>3, <1>5, <2>1 DEF LookDid, LookUndid
<1>6. CASE c.kind = "drag"
  BY <1>2, <1>3, <1>6 DEF LookDid, LookUndid
<1>7. CASE c.kind = "translate"
  BY <1>2, <1>3, <1>7 DEF LookDid, LookUndid
<1>8. CASE c.kind = "delete"
  <2> DEFINE no == FALSE
             d == IF l.text # NoText THEN TRUE ELSE FALSE
  <2>1. (IF m.text # NoText THEN TRUE ELSE FALSE) = d
    BY <1>1
  <2> HIDE DEF no, d
  <2>2. \A v : [m EXCEPT !.seen = v] = Moved([l EXCEPT !.seen = v], x)
    <3> TAKE v
    <3>1. [l EXCEPT !.seen = v] = [text |-> l.text, color |-> l.color, x |-> l.x, seen |-> v]
      BY <1>1
    <3>2. [m EXCEPT !.seen = v] = [text |-> l.text, color |-> l.color, x |-> x, seen |-> v]
      BY <1>1
    <3> QED BY <3>1, <3>2 DEF Moved
  <2>3. LookDid(m, c, e) = IF e \in c.editors THEN [m EXCEPT !.seen = no] ELSE m
    BY <1>8 DEF LookDid, no
  <2>4. LookDid(l, c, e) = IF e \in c.editors THEN [l EXCEPT !.seen = no] ELSE l
    BY <1>8 DEF LookDid, no
  <2>5. LookUndid(m, c, e) = IF e \in c.editors THEN [m EXCEPT !.seen = d] ELSE m
    BY <1>8, <2>1 DEF LookUndid
  <2>6. LookUndid(l, c, e) = IF e \in c.editors THEN [l EXCEPT !.seen = d] ELSE l
    BY <1>8 DEF LookUndid, d
  <2>7. LookDid(m, c, e) = Moved(LookDid(l, c, e), x)
    BY <1>3, <2>2, <2>3, <2>4
  <2>8. LookUndid(m, c, e) = Moved(LookUndid(l, c, e), x)
    BY <1>3, <2>2, <2>5, <2>6
  <2> QED BY <1>3, <2>7, <2>8
<1> QED BY <1>4, <1>5, <1>6, <1>7, <1>8, CommandKinds

\* Who was never seen may as well have been in another place.
LEMMA ChainPut ==
  ASSUME NEW ls, NEW cs \in Seq(EditorCommands), NEW vs, NEW p \in 0 .. Len(cs),
         NEW l, NEW un \in SUBSET Editors, Chain(ls, cs, vs, p, l, un),
         NEW e \in un, NEW x \in Int
  PROVE  \E ms : Chain(ms, cs, vs, p, PlacedAt(l, e, x), un)
<1> DEFINE ms == [i \in 1 .. Len(ls) |-> PlacedAt(ls[i], e, x)]
<1>1. /\ ls \in Seq(Looks) /\ Len(ls) = Len(cs) + 1 /\ vs \in Seq(Sights) /\ Len(vs) = Len(ls)
      /\ ls[p + 1] = l /\ Len(cs) \in Nat /\ Len(ls) \in Nat /\ p + 1 \in 1 .. Len(ls)
  BY DEF Chain
<1>2. \A i \in 1 .. Len(ls) : ls[i] \in Looks /\ ~ls[i][e].seen
  BY <1>1, ElementOfSeq DEF Chain
<1>3. \A i \in 1 .. Len(ls) : ms[i] = PlacedAt(ls[i], e, x)
  OBVIOUS
<1>4. \A i \in 1 .. Len(ls) :
         /\ ms[i] \in Looks /\ ms[i][e] = Moved(ls[i][e], x)
         /\ \A f \in Editors : f # e => ms[i][f] = ls[i][f]
         /\ SeenIn(ms[i]) = SeenIn(ls[i]) /\ ~ms[i][e].seen
  <2> TAKE i \in 1 .. Len(ls)
  <2> DEFINE k == ls[i]
             m == ms[i]
  <2>1. k \in Looks /\ ~k[e].seen /\ m = PlacedAt(k, e, x) /\ e \in Editors
    BY <1>2, <1>3
  <2> HIDE DEF k, m
  <2>2. /\ m \in Looks /\ m[e] = Moved(k[e], x)
        /\ \A f \in Editors : f # e => m[f] = k[f]
        /\ SeenIn(m) = SeenIn(k) /\ ~m[e].seen
    BY <2>1, PlacedAtIs
  <2> QED BY <2>2 DEF k, m
<1>5. ms \in Seq(Looks) /\ Len(ms) = Len(ls)
  <2>1. ms \in [1 .. Len(ls) -> Looks]
    BY <1>4
  <2> HIDE DEF ms
  <2> QED BY <1>1, <2>1, FunctionIsSeq
<1> HIDE DEF ms
<1>6. \A i \in 1 .. Len(ms) : vs[i] = SeenIn(ms[i])
  BY <1>4, <1>5 DEF Chain
<1>7. \A i \in 1 .. Len(ms) : \A f \in un : ~ms[i][f].seen
  BY <1>4, <1>5 DEF Chain
<1>8. \A i \in 1 .. Len(cs) : Joined(ms[i], ms[i + 1], cs[i])
  <2> SUFFICES ASSUME NEW i \in 1 .. Len(cs), NEW f \in Editors
               PROVE  /\ LookDid(ms[i][f], cs[i], f) = ms[i + 1][f]
                      /\ LookUndid(ms[i + 1][f], cs[i], f) = ms[i][f]
    BY DEF Joined
  <2>1. i \in 1 .. Len(ls) /\ i + 1 \in 1 .. Len(ls) /\ cs[i] \in EditorCommands
    BY <1>1, ElementOfSeq
  <2>2. LookDid(ls[i][f], cs[i], f) = ls[i + 1][f] /\ LookUndid(ls[i + 1][f], cs[i], f) = ls[i][f]
    BY DEF Chain, Joined
  <2>3. CASE f # e
    BY <1>4, <2>1, <2>2, <2>3
  <2>4. CASE f = e
    <3> DEFINE a == ls[i][e]
               b == ls[i + 1][e]
               c == cs[i]
    <3>1. a \in LookRecords /\ b \in LookRecords /\ ~a.seen /\ ~b.seen
      BY <1>2, <2>1 DEF Looks
    <3>2. ms[i][e] = Moved(a, x) /\ ms[i + 1][e] = Moved(b, x)
      BY <1>4, <2>1
    <3>3. LookDid(a, c, e) = b /\ LookUndid(b, c, e) = a /\ c \in EditorCommands
      BY <2>1, <2>2, <2>4
    <3> HIDE DEF a, b, c
    <3>4. LookDid(Moved(a, x), c, e) = Moved(b, x)
      BY <3>1, <3>3, UnseenPlace
    <3>5. LookUndid(Moved(b, x), c, e) = Moved(a, x)
      BY <3>1, <3>3, UnseenPlace
    <3> QED BY <2>4, <3>2, <3>4, <3>5 DEF c
  <2> QED BY <2>3, <2>4
<1>9. ms[p + 1] = PlacedAt(l, e, x)
  BY <1>1, <1>3
<1>10. Chain(ms, cs, vs, p, PlacedAt(l, e, x), un)
  BY <1>1, <1>5, <1>6, <1>7, <1>8, <1>9 DEF Chain
<1> QED BY <1>10

LEMMA CreateHistory ==
  ASSUME EditorsInv, HistoryInv, NEW e \in Editors, NEW x \in 0 .. Right, Create(e, x)
  PROVE  HistoryInv'
<1> DEFINE h == Committed(H)
           r == [h.world[e] EXCEPT !.made = TRUE, !.shown = TRUE, !.x = x]
           w == PutAt(h.world, e, r)
           n == [h EXCEPT !.world[e] = r]
<1>1. Acts(n) /\ UNCHANGED <<timer, translation>> /\ ~world[e].made
  BY DEF Create
<1>2. /\ StorageInv(h, NoEditor) /\ h.world[e].made = world[e].made
      /\ timer = NoTimer => PlainChain(h)
  BY PlainChainNow, CommittedChain, CommittedOK
<1> HIDE DEF h
<1>3. /\ h.world \in EditorWorlds /\ h.commands \in Seq(EditorCommands)
      /\ h.position \in 0 .. Len(h.commands) /\ IsHistory(h)
      /\ EditorsOK(h.world, h.plain, NoEditor) /\ CommandsOK(h.world, h.commands, h.position)
  BY <1>2, StorageParts
<1>4. h.world[e] \in EditorRecords /\ ~h.world[e].made /\ h.world[e].text = NoText
  BY <1>1, <1>2, <1>3 DEF EditorWorlds, EditorsOK, MadeOK
<1>5. /\ r \in EditorRecords /\ r.text = NoText /\ r.color = h.world[e].color /\ r.x = x
      /\ r.made /\ r.shown
  BY <1>4 DEF EditorRecords
<1>6. n = [h EXCEPT !.world = w]
  BY <1>3 DEF IsHistory, PutAt
<1> HIDE DEF r
<1>7. w \in EditorWorlds /\ w[e] = r /\ \A f \in Editors : f # e => w[f] = h.world[f]
  BY <1>3, <1>5, PutIs
<1>8. LookOf(w[e]) = Moved(LookOf(h.world[e]), x)
  <2> DEFINE b == FALSE
  <2>1. (IF r.shown /\ r.text # NoText THEN TRUE ELSE FALSE) = b
        /\ (IF h.world[e].shown /\ h.world[e].text # NoText THEN TRUE ELSE FALSE) = b
    BY <1>4, <1>5
  <2> HIDE DEF b
  <2>2. LookOf(r) = [text |-> NoText, color |-> h.world[e].color, x |-> x, seen |-> b]
    BY <1>5, <2>1 DEF LookOf
  <2>3. LookOf(h.world[e]) = [text |-> NoText, color |-> h.world[e].color, x |-> h.world[e].x, seen |-> b]
    BY <1>4, <2>1 DEF LookOf
  <2>4. Moved(LookOf(h.world[e]), x) = LookOf(r)
    BY <2>2, <2>3 DEF Moved
  <2> QED BY <1>7, <2>4
<1>9. LooksOf(w) = PlacedAt(LooksOf(h.world), e, x)
  <2> DEFINE k == LooksOf(h.world)
             m == LooksOf(w)
  <2>1. /\ k \in Looks /\ m \in Looks
        /\ \A f \in Editors : k[f] = LookOf(h.world[f]) /\ m[f] = LookOf(w[f])
    BY <1>3, <1>7, LookIs
  <2> HIDE DEF k, m
  <2>2. x \in Int
    BY EditorAssumption
  <2>3. m[e] = PlacedAt(k, e, x)[e]
    BY <1>8, <2>1, <2>2, PlacedAtIs
  <2>4. ASSUME NEW f \in Editors, f # e PROVE m[f] = PlacedAt(k, e, x)[f]
    <3>1. w[f] = h.world[f]
      BY <1>7, <2>4
    <3>2. LookOf(w[f]) = LookOf(h.world[f])
      BY <3>1
    <3>3. m[f] = k[f]
      BY <2>1, <3>2
    <3>4. k \in Looks
      BY <2>1
    <3>5. \A g \in Editors : g # e => PlacedAt(k, e, x)[g] = k[g]
      BY ONLY <2>2, <3>4, PlacedAtIs
    <3>6. PlacedAt(k, e, x)[f] = k[f]
      BY <2>4, <3>5
    <3> QED BY <3>3, <3>6
  <2>5. PlacedAt(k, e, x) \in Looks
    BY <2>1, <2>2, PlacedAtIs
  <2>6. m = PlacedAt(k, e, x)
    BY <2>1, <2>3, <2>4, <2>5 DEF Looks
  <2> QED BY <2>6 DEF k, m
<1>10. Unseen(w) = Unseen(h.world)
  BY <1>4, <1>5, <1>7 DEF Unseen
<1> HIDE DEF w
<1>11. /\ n.world = w /\ n.commands = h.commands /\ n.position = h.position
       /\ n.worlds = h.worlds /\ n.plain = h.plain
  <2>1. n = [world |-> w, commands |-> h.commands, position |-> h.position, worlds |-> h.worlds,
             plain |-> h.plain]
    BY <1>3, <1>6 DEF IsHistory
  <2> HIDE DEF n
  <2> QED BY ONLY <2>1, FieldsAre
<1> HIDE DEF n
<1>12. timer = NoTimer => PlainChain(n)
  <2> SUFFICES ASSUME timer = NoTimer, h.plain
               PROVE  \E ms : Chain(ms, h.commands, h.worlds, h.position, LooksOf(w), Unseen(w))
    BY <1>11 DEF PlainChain, HasChain
  <2>1. PICK ls : Chain(ls, h.commands, h.worlds, h.position, LooksOf(h.world), Unseen(h.world))
    BY <1>2 DEF PlainChain, HasChain
  <2>2. e \in Unseen(h.world) /\ Unseen(h.world) \in SUBSET Editors
    BY <1>4 DEF Unseen
  <2>4. x \in Int
    BY EditorAssumption
  <2> DEFINE l  == LooksOf(h.world)
             un == Unseen(h.world)
             m  == PlacedAt(l, e, x)
  <2>5. LooksOf(w) = m /\ Unseen(w) = un
    BY <1>9, <1>10
  <2>6. /\ Chain(ls, h.commands, h.worlds, h.position, l, un) /\ un \in SUBSET Editors /\ e \in un
    BY <2>1, <2>2
  <2> HIDE DEF l, un
  <2>7. \E ms : Chain(ms, h.commands, h.worlds, h.position, m, un)
    BY <1>3, <2>4, <2>6, ChainPut
  <2> HIDE DEF m
  <2> QED BY <2>5, <2>7
<1> QED BY <1>1, <1>12, ActsHistory

\* The look of a command's world, when the editors it is about have a text.
LEMMA LookOfDo ==
  ASSUME NEW w \in EditorWorlds, NEW c \in EditorCommands, NEW e \in Editors,
         w[e].shown => w[e].text # NoText
  PROVE  /\ LooksOf(Do(w, c))[e] = LookDid(LooksOf(w)[e], c, e)
         /\ LooksOf(Undo(w, c))[e] = LookUndid(LooksOf(w)[e], c, e)
<1>1. /\ w[e] \in EditorRecords /\ Do(w, c)[e] = DidTo(w[e], c, e) /\ Undo(w, c)[e] = UndidTo(w[e], c, e)
  BY DoWorld DEF EditorWorlds
<1>2. LookOf(Do(w, c)[e]) = LookDid(LookOf(w[e]), c, e)
  BY <1>1, LookOfDid
<1>3. LookOf(Undo(w, c)[e]) = LookUndid(LookOf(w[e]), c, e)
  BY <1>1, LookOfUndid
<1> QED BY <1>2, <1>3 DEF LooksOf

\* No editor is in edit mode: each one that is shown is seen.
LEMMA ShownIsSeen ==
  ASSUME NEW w \in EditorWorlds, NEW isPlain, EditorsOK(w, isPlain, NoEditor), NEW e \in Editors
  PROVE  /\ w[e].shown => w[e].text # NoText
         /\ w[e].shown => LooksOf(w)[e].seen /\ LooksOf(w)[e].text # NoText
<1>1. w[e].shown => w[e].text # NoText
  BY EditorAssumption DEF EditorsOK, EditorOK, NoEditor
<1>2. LooksOf(w)[e] = LookOf(w[e])
  BY DEF LooksOf
<1>3. w[e].shown => LookOf(w[e]).seen /\ LookOf(w[e]).text # NoText
  BY <1>1 DEF LookOf
<1> QED BY <1>1, <1>2, <1>3

\* What is undone or redone shows no editor without a text.
LEMMA ShownAfter ==
  ASSUME EditorsInv', NEW n, Acts(n), editing = NoEditor, editing' = editing
  PROVE  \A e \in Editors : n.world[e].shown => n.world[e].text # NoText
<1>1. EditorsOK(world', plain', NoEditor)
  BY StorageParts DEF EditorsInv, H, StorageInv, StorageOK
<1>2. world' = n.world
  BY DEF Acts, Sets
<1> QED BY <1>1, <1>2, EditorAssumption, ShownAre DEF NoEditor

LEMMA UndoHistory == EditorsInv /\ HistoryInv /\ UndoLast => HistoryInv'
<1> SUFFICES ASSUME EditorsInv, HistoryInv, UndoLast PROVE HistoryInv'
  OBVIOUS
<1> DEFINE c == commands[position]
           w == Undo(world, c)
           p == position - 1
           n == [H EXCEPT !.world = w, !.position = p]
<1>1. Acts(n) /\ UNCHANGED <<timer, translation>> /\ editing = NoEditor /\ position > 0
  BY HIs DEF UndoLast
<1>2. /\ world \in EditorWorlds /\ commands \in Seq(EditorCommands)
      /\ position \in 1 .. Len(commands) /\ EditorsOK(world, plain, NoEditor)
  BY <1>1, EditorParts
<1>3. c \in EditorCommands
  BY <1>2, ElementOfSeq
<1> HIDE DEF c, w, p
<1>4. n = [world |-> w, commands |-> commands, position |-> p, worlds |-> worlds, plain |-> plain]
  BY MovedIs
<1> HIDE DEF n
<1>5. /\ n.world = w /\ n.commands = commands /\ n.position = p /\ n.worlds = worlds /\ n.plain = plain
  BY <1>4, FieldsAre
<1>7. \A e \in Editors : n.world[e].shown => n.world[e].text # NoText
  BY <1>1, UndoStorage, ShownAfter DEF UndoLast
<1>6. timer = NoTimer => PlainChain(n)
  <2> SUFFICES ASSUME timer = NoTimer, plain
               PROVE  \E ls : Chain(ls, commands, worlds, p, LooksOf(w), Unseen(w))
    BY <1>5 DEF PlainChain, HasChain
  <2>1. PICK ls : Chain(ls, commands, worlds, position, LooksOf(world), Unseen(world))
    BY PlainChainNow, HIs DEF PlainChain, HasChain
  <2>2. \A e \in Editors : LooksOf(w)[e] = LookUndid(LooksOf(world)[e], c, e)
    BY <1>2, <1>3, LookOfDo, ShownIsSeen DEF w
  <2>3. \A e \in Editors : LookUndid(LooksOf(world)[e], c, e) = ls[position][e]
    <3>1. ls[position + 1] = LooksOf(world) /\ Joined(ls[position], ls[position + 1], c)
      BY <1>2, <2>1 DEF Chain, c
    <3> QED BY <3>1 DEF Joined
  <2>4. ls[position] \in Looks /\ LooksOf(w) \in Looks
    <3>1. ls \in Seq(Looks) /\ position \in 1 .. Len(ls)
      BY <1>2, <2>1 DEF Chain
    <3>2. w \in EditorWorlds
      BY <1>2, <1>3, DoWorld DEF w
    <3> QED BY <3>1, <3>2, ElementOfSeq, LookIs
  <2>5. ls[position] = LooksOf(w)
    BY <2>2, <2>3, <2>4 DEF Looks
  <2>6. p + 1 = position
    BY <1>2 DEF p
  <2>7. Unseen(w) \in SUBSET Unseen(world)
    <3>1. \A e \in Editors : w[e].made = world[e].made
      BY <1>2, <1>3, CommandsKeepMade DEF w
    <3> QED BY <1>5, <1>7, <3>1, HiddenFewer
  <2>8. Chain(ls, commands, worlds, p, LooksOf(w), Unseen(world))
    BY <2>1, <2>5, <2>6 DEF Chain
  <2>9. Chain(ls, commands, worlds, p, LooksOf(w), Unseen(w))
    BY <2>7, <2>8, ChainFewer
  <2> QED BY <2>9
<1> QED BY <1>1, <1>6, ActsHistory

LEMMA RedoHistory == EditorsInv /\ HistoryInv /\ RedoNext => HistoryInv'
<1> SUFFICES ASSUME EditorsInv, HistoryInv, RedoNext PROVE HistoryInv'
  OBVIOUS
<1> DEFINE p == position + 1
           c == commands[p]
           w == Do(world, c)
           n == [H EXCEPT !.world = w, !.position = p]
<1>1. Acts(n) /\ UNCHANGED <<timer, translation>> /\ editing = NoEditor /\ position < Len(commands)
  BY HIs DEF RedoNext
<1>2. /\ world \in EditorWorlds /\ commands \in Seq(EditorCommands)
      /\ position \in Nat /\ p \in 1 .. Len(commands) /\ EditorsOK(world, plain, NoEditor)
  BY <1>1, EditorParts
<1>3. c \in EditorCommands
  BY <1>2, ElementOfSeq
<1>4. p = position + 1
  OBVIOUS
<1> HIDE DEF c, w, p
<1>5. n = [world |-> w, commands |-> commands, position |-> p, worlds |-> worlds, plain |-> plain]
  BY MovedIs
<1> HIDE DEF n
<1>6. /\ n.world = w /\ n.commands = commands /\ n.position = p /\ n.worlds = worlds /\ n.plain = plain
  BY <1>5, FieldsAre
<1>8. \A e \in Editors : n.world[e].shown => n.world[e].text # NoText
  BY <1>1, RedoStorage, ShownAfter DEF RedoNext
<1>7. timer = NoTimer => PlainChain(n)
  <2> SUFFICES ASSUME timer = NoTimer, plain
               PROVE  \E ls : Chain(ls, commands, worlds, p, LooksOf(w), Unseen(w))
    BY <1>6 DEF PlainChain, HasChain
  <2>1. PICK ls : Chain(ls, commands, worlds, position, LooksOf(world), Unseen(world))
    BY PlainChainNow, HIs DEF PlainChain, HasChain
  <2>2. \A e \in Editors : LooksOf(w)[e] = LookDid(LooksOf(world)[e], c, e)
    BY <1>2, <1>3, LookOfDo, ShownIsSeen DEF w
  <2>3. \A e \in Editors : LookDid(LooksOf(world)[e], c, e) = ls[p + 1][e]
    <3>1. ls[p] = LooksOf(world) /\ Joined(ls[p], ls[p + 1], c)
      BY <1>2, <1>4, <2>1 DEF Chain, c
    <3> QED BY <3>1 DEF Joined
  <2>4. ls[p + 1] \in Looks /\ LooksOf(w) \in Looks
    <3>1. ls \in Seq(Looks) /\ p + 1 \in 1 .. Len(ls)
      BY <1>2, <2>1 DEF Chain
    <3>2. w \in EditorWorlds
      BY <1>2, <1>3, DoWorld DEF w
    <3> QED BY <3>1, <3>2, ElementOfSeq, LookIs
  <2>5. ls[p + 1] = LooksOf(w)
    BY <2>2, <2>3, <2>4 DEF Looks
  <2>6. Unseen(w) \in SUBSET Unseen(world)
    <3>1. \A e \in Editors : w[e].made = world[e].made
      BY <1>2, <1>3, CommandsKeepMade DEF w
    <3> QED BY <1>6, <1>8, <3>1, HiddenFewer
  <2>7. Chain(ls, commands, worlds, p, LooksOf(w), Unseen(world))
    BY <2>1, <2>5 DEF Chain
  <2>8. Chain(ls, commands, worlds, p, LooksOf(w), Unseen(w))
    BY <2>6, <2>7, ChainFewer
  <2> QED BY <2>8
<1> QED BY <1>1, <1>7, ActsHistory

LEMMA AddChainDone ==
  ASSUME NEW h, NEW ed, StorageInv(h, ed), NEW c \in EditorCommands, c.kind # "text",
         \A e \in Mentions(c) : h.world[e].made,
         \A e \in Editors : IsDeletion(c, e) => e # ed /\ h.world[e].shown,
         UndoesItself(c), PlainChain(h), Joined(LooksOf(h.world), LooksOf(Do(h.world, c)), c)
  PROVE  PlainChain(Add(h, c, TRUE))
<1> DEFINE w == Do(h.world, c)
           l == LooksOf(h.world)
           n == Add(h, c, TRUE)
<1>1. n = IF Overwrites(h, c) THEN Overwrite(h, c, w) ELSE NewCommand(h, c, w)
  BY DEF Add
<1>2. w \in {Do(h.world, c), h.world}
  OBVIOUS
<1>3. (h.plain => HasChain(h, l)) /\ Joined(l, LooksOf(w), c)
  BY DEF PlainChain
<1> HIDE DEF n, w, l
<1>4. PlainChain(n)
  BY <1>1, <1>2, <1>3, AddChain
<1> QED BY <1>4 DEF n

\* A command joins the looks when its undoing takes back what it did to each editor.
LEMMA JoinedDone ==
  ASSUME NEW w \in EditorWorlds, NEW c \in EditorCommands,
         \A e \in Editors : w[e].shown => w[e].text # NoText,
         \A e \in Editors : LookUndid(LookDid(LooksOf(w)[e], c, e), c, e) = LooksOf(w)[e]
  PROVE  Joined(LooksOf(w), LooksOf(Do(w, c)), c)
<1> SUFFICES ASSUME NEW e \in Editors
             PROVE  /\ LookDid(LooksOf(w)[e], c, e) = LooksOf(Do(w, c))[e]
                    /\ LookUndid(LooksOf(Do(w, c))[e], c, e) = LooksOf(w)[e]
  BY DEF Joined
<1>1. LooksOf(Do(w, c))[e] = LookDid(LooksOf(w)[e], c, e)
  BY LookOfDo
<1> QED BY <1>1

LEMMA SetColorHistory ==
  ASSUME EditorsInv, HistoryInv, NEW e \in Editors, NEW color \in Colors, SetColor(e, color)
  PROVE  HistoryInv'
<1> DEFINE old == world[e].color
           c == [kind |-> "color", editor |-> e, new |-> color,
                 undoes |-> [editor |-> e, color |-> old]]
           n == Add(H, c, TRUE)
           w == Do(world, c)
<1>1. Acts(n) /\ UNCHANGED <<timer, translation>> /\ world[e].shown
  BY DEF SetColor
<1>2. /\ c \in ColorCommands /\ c.kind = "color" /\ Mentions(c) = {e}
      /\ c.editor = e /\ c.new = color /\ c.undoes.editor = e /\ c.undoes.color = old
  BY EditorParts DEF ColorCommands, Mentions, EditorWorlds, EditorRecords
<1>0. world \in EditorWorlds /\ world[e] \in EditorRecords /\ old = world[e].color
  BY EditorParts DEF EditorWorlds
<1> HIDE DEF c, n, old
<1>3. /\ c \in EditorCommands /\ c.kind # "text" /\ StorageInv(H, editing) /\ UndoesItself(c)
      /\ \A f \in Mentions(c) : H.world[f].made
      /\ \A f \in Editors : IsDeletion(c, f) => f # editing /\ H.world[f].shown
  BY <1>1, <1>2, HIs, EditorParts, ShownAre DEF EditorCommands, IsDeletion, UndoesItself
<1>4. w[e] = [world[e] EXCEPT !.color = color] /\ \A f \in Editors : f # e => w[f] = world[f]
  BY <1>0, <1>2 DEF Do, EditorWorlds
<1> HIDE DEF w
<1> DEFINE l == LooksOf(world)
           m == LooksOf(w)
<1>5. \A f \in Editors : l[f] = LookOf(world[f]) /\ m[f] = LookOf(w[f])
  BY DEF LooksOf
<1>6. /\ w[e].text = world[e].text /\ w[e].color = color /\ w[e].x = world[e].x
      /\ w[e].shown = world[e].shown
  BY <1>0, <1>4 DEF EditorRecords
<1>7. m[e] = LookColored(l[e], color) /\ l[e] = LookColored(m[e], old)
  <2> DEFINE b == IF world[e].shown /\ world[e].text # NoText THEN TRUE ELSE FALSE
  <2>1. (IF w[e].shown /\ w[e].text # NoText THEN TRUE ELSE FALSE) = b
    BY <1>6
  <2>2. l[e] = [text |-> world[e].text, color |-> old, x |-> world[e].x, seen |-> b]
    BY <1>0, <1>5 DEF LookOf
  <2> HIDE DEF b, l, m
  <2>3. m[e] = [text |-> world[e].text, color |-> color, x |-> world[e].x, seen |-> b]
    BY <1>5, <1>6, <2>1 DEF LookOf
  <2> QED BY <2>2, <2>3 DEF LookColored
<1>8. ASSUME NEW f \in Editors, f # e PROVE m[f] = l[f]
  <2>1. w[f] = world[f]
    BY <1>4, <1>8
  <2> HIDE DEF l, m
  <2>2. LookOf(w[f]) = LookOf(world[f])
    BY <2>1
  <2> QED BY <1>5, <2>2
<1> HIDE DEF l, m
<1>9. Joined(l, m, c)
  <2> SUFFICES ASSUME NEW f \in Editors PROVE LookDid(l[f], c, f) = m[f] /\ LookUndid(m[f], c, f) = l[f]
    BY DEF Joined
  <2>1. CASE f = e
    BY <1>2, <1>7, <2>1 DEF LookDid, LookUndid
  <2>2. CASE f # e
    BY <1>2, <1>8, <2>2 DEF LookDid, LookUndid
  <2> QED BY <2>1, <2>2
<1>10. Joined(LooksOf(H.world), LooksOf(Do(H.world, c)), c)
  BY <1>9, HIs DEF l, m, w
<1>11. timer = NoTimer => PlainChain(n)
  BY <1>3, <1>10, PlainChainNow, AddChainDone DEF n
<1> QED BY <1>1, <1>11, ActsHistory

LEMMA DragHistory ==
  ASSUME EditorsInv, HistoryInv, NEW es \in SUBSET Editors, NEW by \in Int, Drag(es, by)
  PROVE  HistoryInv'
<1> DEFINE O == [e \in es |-> world[e].x]
           N == [e \in es |-> world[e].x + by]
           c == [kind |-> "drag", old |-> O, new |-> N]
           n == Add(H, c, TRUE)
<1>1. Acts(n) /\ UNCHANGED <<timer, translation>> /\ editing = NoEditor /\ \A e \in es : world[e].shown
  BY DEF Drag, ShownEditors
<1>0. /\ world \in EditorWorlds /\ EditorsOK(world, plain, NoEditor)
      /\ \A e \in Editors : world[e] \in EditorRecords
  BY <1>1, EditorParts DEF EditorWorlds
<1>2. \A e \in es : world[e].x \in 0 .. Right /\ world[e].x \in Int /\ world[e].x + by \in Int
  BY <1>0, EditorAssumption DEF EditorRecords
<1>3. c \in DragCommands /\ c.kind = "drag" /\ c.old = O /\ c.new = N /\ Mentions(c) = es
  <2>1. O \in PartialPlaces /\ N \in PartialPlaces /\ DOMAIN O = es /\ DOMAIN N = es
    BY <1>2, ArePlaces
  <2> HIDE DEF O, N
  <2> QED BY <2>1 DEF DragCommands, Mentions
<1>4. DOMAIN O = es /\ DOMAIN N = es /\ \A e \in es : O[e] = world[e].x /\ N[e] = world[e].x + by
  OBVIOUS
<1> HIDE DEF c, n, O, N
<1>5. /\ c \in EditorCommands /\ c.kind # "text" /\ StorageInv(H, editing) /\ UndoesItself(c)
      /\ \A f \in Mentions(c) : H.world[f].made
      /\ \A f \in Editors : IsDeletion(c, f) => f # editing /\ H.world[f].shown
  BY <1>1, <1>3, HIs, EditorParts, ShownAre DEF EditorCommands, IsDeletion, UndoesItself
<1>6. \A f \in Editors : world[f].shown => world[f].text # NoText
  BY <1>0, ShownIsSeen
<1>7. ASSUME NEW f \in Editors
      PROVE  LookUndid(LookDid(LooksOf(world)[f], c, f), c, f) = LooksOf(world)[f]
  <2> DEFINE l == LooksOf(world)[f]
             x == world[f].x
             u == Clamped(x + by)
             v == Clamped(x)
             b == [l EXCEPT !.x = u]
  <2>1. l = LookOf(world[f]) /\ l.x = x /\ l \in LookRecords
    BY <1>0, LookIs DEF LookOf, Looks, LooksOf
  <2>2. CASE f \notin es
    BY <1>3, <1>5, <2>2, LookNotMentioned
  <2>3. CASE f \in es
    <3>1. l.seen
      BY <1>0, <1>1, <2>3, ShownIsSeen
    <3>2. v = x
      BY <1>2, <2>3, ClampedIs
    <3>3. LookDid(l, c, f) = b
      <4>1. LookDid(l, c, f) = LookPlace(l, N[f])
        BY <1>3, <1>4, <2>3 DEF LookDid
      <4>2. LookPlace(l, N[f]) = [l EXCEPT !.x = Clamped(N[f])]
        BY <3>1 DEF LookPlace
      <4> QED BY <1>4, <2>3, <4>1, <4>2
    <3>4. LookUndid(b, c, f) = LookPlace(b, x)
      BY <1>3, <1>4, <2>3 DEF LookUndid
    <3> HIDE DEF l, x, u
    <3>5. b \in [text : TextValues, color : Colors, x : {u}, seen : BOOLEAN] /\ b.seen
      BY <2>1, <3>1 DEF LookRecords
    <3>6. LookPlace(b, x) = [b EXCEPT !.x = v]
      BY <3>5 DEF LookPlace
    <3>7. [b EXCEPT !.x = x] = l
      BY <2>1 DEF LookRecords
    <3> HIDE DEF b, v
    <3>8. LookPlace(b, x) = l
      BY <3>2, <3>6, <3>7
    <3> QED BY <3>3, <3>4, <3>8 DEF l
  <2> QED BY <2>2, <2>3
<1>8. Joined(LooksOf(H.world), LooksOf(Do(H.world, c)), c)
  BY <1>0, <1>5, <1>6, <1>7, HIs, JoinedDone
<1>9. timer = NoTimer => PlainChain(n)
  BY <1>5, <1>8, PlainChainNow, AddChainDone DEF n
<1> QED BY <1>1, <1>9, ActsHistory

LEMMA DeleteHistory ==
  ASSUME EditorsInv, HistoryInv, NEW es \in SUBSET Editors, Delete(es)
  PROVE  HistoryInv'
<1> DEFINE h == Committed(H)
           left == {e \in es : h.world[e].shown}
           c == [kind |-> "delete", editors |-> left]
           n == Add(h, c, TRUE)
<1>1. Acts(IF left = {} THEN h ELSE n) /\ UNCHANGED <<timer, translation>>
  BY DEF Delete
<1>2. StorageInv(h, NoEditor) /\ (timer = NoTimer => PlainChain(h))
  BY PlainChainNow, CommittedChain, CommittedOK
<1> HIDE DEF h
<1>3. h.world \in EditorWorlds /\ EditorsOK(h.world, h.plain, NoEditor)
  BY <1>2, StorageParts
<1>4. CASE left = {}
  BY <1>1, <1>2, <1>4, ActsHistory
<1>5. CASE left # {}
  <2>1. /\ c \in DeleteCommands /\ c.kind = "delete" /\ Mentions(c) = left
        /\ left \subseteq Editors /\ c.editors = left
    BY DEF DeleteCommands, Mentions
  <2>2. \A f \in left : h.world[f].shown
    OBVIOUS
  <2> HIDE DEF c, left
  <2>3. NoEditor \notin Editors
    BY EditorAssumption DEF NoEditor
  <2>4. /\ c \in EditorCommands /\ c.kind # "text" /\ UndoesItself(c)
        /\ \A f \in Mentions(c) : h.world[f].made
        /\ \A f \in Editors : IsDeletion(c, f) => f # NoEditor /\ h.world[f].shown
    <3>1. \A f \in left : h.world[f].made
      BY <1>3, <2>1, <2>2, ShownAre
    <3> QED BY <2>1, <2>2, <2>3, <3>1 DEF EditorCommands, IsDeletion, UndoesItself
  <2>5. \A f \in Editors : h.world[f].shown => h.world[f].text # NoText
    BY <1>3, ShownIsSeen
  <2>6. ASSUME NEW f \in Editors
        PROVE  LookUndid(LookDid(LooksOf(h.world)[f], c, f), c, f) = LooksOf(h.world)[f]
    <3> DEFINE l == LooksOf(h.world)[f]
               t == TRUE
               o == FALSE
               b == [l EXCEPT !.seen = o]
    <3>1. CASE f \notin left
      BY <2>1, <2>4, <3>1, LookNotMentioned
    <3>2. CASE f \in left
      <4>1. l.seen /\ l.text # NoText /\ l \in LookRecords
        BY <1>3, <2>2, <3>2, ShownIsSeen, LookIs DEF Looks
      <4>2. LookDid(l, c, f) = b
        BY <2>1, <3>2 DEF LookDid
      <4> HIDE DEF l
      <4>3. LookUndid(b, c, f) = [b EXCEPT !.seen = IF b.text # NoText THEN TRUE ELSE FALSE]
        BY <2>1, <3>2 DEF LookUndid
      <4>4. l.seen = t
        BY <4>1 DEF LookRecords
      <4> HIDE DEF t, o
      <4>5. b.text = l.text
        BY <4>1 DEF LookRecords
      <4>6. (IF b.text # NoText THEN TRUE ELSE FALSE) = t
        BY <4>1, <4>5 DEF t
      <4>7. [b EXCEPT !.seen = t] = l
        BY <4>1, <4>4 DEF LookRecords
      <4> HIDE DEF b
      <4>8. LookUndid(b, c, f) = l
        BY <4>3, <4>6, <4>7
      <4> QED BY <4>2, <4>8 DEF l
    <3> QED BY <3>1, <3>2
  <2>7. Joined(LooksOf(h.world), LooksOf(Do(h.world, c)), c)
    BY <1>3, <2>4, <2>5, <2>6, JoinedDone
  <2>8. Acts(n)
    BY <1>1, <1>5
  <2>9. timer = NoTimer => PlainChain(n)
    BY <1>2, <2>4, <2>7, AddChainDone
  <2> HIDE DEF n
  <2> QED BY <1>1, <2>8, <2>9, ActsHistory
<1> QED BY <1>4, <1>5

\* A key moves the editors and the translation that waits: what was before is the same.
LEMMA TranslateHistory ==
  ASSUME EditorsInv, TimerOK, HistoryInv, NEW es \in SUBSET Editors, NEW by \in Int, Translate(es, by)
  PROVE  HistoryInv'
<1> DEFINE P == timer \in {NoTimer, es} /\ \A e \in es : world[e].x + by \in 0 .. Right
<1>1. /\ world' = MoveBy(world, es, by) /\ editing' = editing
      /\ \A e \in es : world[e].shown
      /\ commands' = commands /\ position' = position /\ worlds' = worlds
      /\ timer' = es /\ translation' = translation + by /\ es # {}
  BY DEF Translate, ShownEditors
<1>2. plain' = (plain /\ P)
  BY DEF Translate
<1>3. (plain' => plain) /\ (plain' => P)
  <2> HIDE DEF P
  <2> QED BY <1>2
<1>4. /\ world \in EditorWorlds /\ \A e \in Editors : world[e] \in EditorRecords
      /\ translation \in Int /\ (timer = NoTimer => translation = 0)
      /\ \A e \in Editors : world[e].x \in Int
  BY EditorParts, EditorAssumption DEF EditorWorlds, EditorRecords, TimerOK, HistoryInv
<1>5. \A e \in Editors : world'[e] = IF e \in es THEN [world[e] EXCEPT !.x = Clamped(@ + by)] ELSE world[e]
  BY <1>1 DEF MoveBy
<1>6. Unseen(world') \in SUBSET Unseen(world)
  <2>1. \A e \in Editors : /\ world'[e].made = world[e].made /\ world'[e].shown = world[e].shown
                           /\ world'[e].text = world[e].text
    <3> TAKE e \in Editors
    <3> DEFINE u == Clamped(world[e].x + by)
    <3>1. world'[e] = [world[e] EXCEPT !.x = u] \/ world'[e] = world[e]
      BY <1>5
    <3> HIDE DEF u
    <3> QED BY <1>4, <3>1 DEF EditorRecords
  <2> QED BY <2>1, HiddenFewer
<1> SUFFICES ASSUME plain'
             PROVE  /\ HasChain(H, BeforeTimer(world))'
                    /\ \A e \in es : world'[e].shown /\ world'[e].x - translation' \in 0 .. Right
  BY <1>1 DEF HistoryInv, NoTimer
<1>7. plain /\ P
  BY <1>3
<1>8. ASSUME NEW e \in es
      PROVE  /\ world'[e].text = world[e].text /\ world'[e].color = world[e].color
             /\ world'[e].shown = world[e].shown /\ world'[e].x = world[e].x + by
             /\ world'[e].x - translation' = world[e].x - translation
  <2> DEFINE x == world[e].x
             u == Clamped(x + by)
  <2>1. world'[e] = [world[e] EXCEPT !.x = u] /\ world[e] \in EditorRecords
    BY <1>4, <1>5
  <2>2. x \in Int /\ u = x + by
    BY <1>4, <1>7, ClampedIs
  <2> HIDE DEF x, u
  <2>3. /\ world'[e].text = world[e].text /\ world'[e].color = world[e].color
        /\ world'[e].shown = world[e].shown /\ world'[e].x = u
    BY <2>1 DEF EditorRecords
  <2>4. u - translation' = x - translation
    BY <1>1, <1>4, <2>2
  <2> QED BY <2>2, <2>3, <2>4 DEF x
<1>9. ASSUME NEW e \in Editors, e \in es => world[e].text # NoText
      PROVE  BeforeTimer(world)'[e] = BeforeTimer(world)[e]
  <2>1. CASE e \in es
    <3> DEFINE r == world[e]
               s == world'[e]
               b == IF r.shown /\ r.text # NoText THEN TRUE ELSE FALSE
               y == r.x - translation
               z == s.x - translation'
    <3>1. BeforeTimer(world)'[e] = [LookOf(s) EXCEPT !.x = LookOf(s).x - translation']
      BY <1>1, <1>8, <1>9, <2>1 DEF BeforeTimer, LookOf
    <3>2. BeforeTimer(world)[e] = IF timer = es THEN [LookOf(r) EXCEPT !.x = LookOf(r).x - translation] ELSE LookOf(r)
      BY <1>1, <1>7, <1>9, <2>1 DEF BeforeTimer, LookOf, NoTimer
    <3>3. y = r.x \/ timer = es
      BY <1>4, <1>7, <2>1
    <3>4. (IF s.shown /\ s.text # NoText THEN TRUE ELSE FALSE) = b
      BY <1>8, <2>1
    <3>5. LookOf(r) = [text |-> r.text, color |-> r.color, x |-> r.x, seen |-> b]
      BY DEF LookOf
    <3>6. s.text = r.text /\ s.color = r.color /\ z = y
      BY <1>8, <2>1
    <3> HIDE DEF b
    <3>7. LookOf(s) = [text |-> r.text, color |-> r.color, x |-> s.x, seen |-> b]
      BY <3>4, <3>6 DEF LookOf
    <3>8. LookOf(s).x = s.x /\ LookOf(r).x = r.x
      BY DEF LookOf
    <3>9. BeforeTimer(world)'[e] = [LookOf(s) EXCEPT !.x = z]
      BY <3>1, <3>8
    <3>10. BeforeTimer(world)[e] = IF timer = es THEN [LookOf(r) EXCEPT !.x = y] ELSE LookOf(r)
      BY <3>2, <3>8
    <3> HIDE DEF r, s, y, z
    <3>11. BeforeTimer(world)'[e] = [text |-> r.text, color |-> r.color, x |-> y, seen |-> b]
      BY <3>6, <3>7, <3>9
    <3>12. CASE timer = es
      BY <3>5, <3>10, <3>11, <3>12
    <3>13. CASE timer # es
      BY <3>3, <3>5, <3>10, <3>11, <3>13
    <3> QED BY <3>12, <3>13
  <2>2. CASE e \notin es
    <3>1. BeforeTimer(world)'[e] = LookOf(world'[e]) /\ BeforeTimer(world)[e] = LookOf(world[e])
      BY <1>1, <1>7, <2>2 DEF BeforeTimer, NoTimer
    <3>2. world'[e] = world[e]
      BY <1>5, <2>2
    <3>3. LookOf(world'[e]) = LookOf(world[e])
      BY <3>2
    <3> QED BY <3>1, <3>3
  <2> QED BY <2>1, <2>2
<1> DEFINE k == BeforeTimer(world)
<1>10. ASSUME NEW e \in es, world[e].text = NoText
       PROVE  /\ e \in Unseen(world) /\ e = editing
              /\ BeforeTimer(world)'[e] = Moved(k[e], world'[e].x)
  <2>1. world[e].shown /\ e \in Editors
    BY <1>1
  <2>2. e = editing
    BY <1>10, <2>1, EditorParts DEF EditorsOK, EditorOK
  <2>3. k[e] = LookOf(world[e]) /\ BeforeTimer(world)'[e] = LookOf(world'[e])
    BY <1>8, <1>10, <2>1 DEF BeforeTimer
  <2> DEFINE r == world[e]
             s == world'[e]
             b == IF r.shown /\ r.text # NoText THEN TRUE ELSE FALSE
  <2>4. (IF s.shown /\ s.text # NoText THEN TRUE ELSE FALSE) = b /\ s.text = r.text /\ s.color = r.color
    BY <1>8
  <2>5. LookOf(r) = [text |-> r.text, color |-> r.color, x |-> r.x, seen |-> b]
    BY DEF LookOf
  <2>6. LookOf(s) = [text |-> r.text, color |-> r.color, x |-> s.x, seen |-> b]
    BY <2>4 DEF LookOf
  <2> HIDE DEF r, s, b
  <2>7. LookOf(s) = Moved(LookOf(r), s.x)
    BY <2>5, <2>6 DEF Moved
  <2> QED BY <1>10, <2>1, <2>2, <2>3, <2>7 DEF Unseen, r, s
<1>11. HasChain(H, BeforeTimer(world))'
  <2> DEFINE un == Unseen(world)
             ut == Unseen(world')
             l  == BeforeTimer(world)'
  <2>1. PICK ls : Chain(ls, commands, worlds, position, k, un)
    BY <1>7, HIs DEF HistoryInv, HasChain
  <2>2. /\ H'.commands = commands /\ H'.worlds = worlds /\ H'.position = position /\ H'.world = world'
    BY <1>1 DEF H
  <2>3. ut \in SUBSET un /\ un \in SUBSET Editors
    BY <1>6 DEF Unseen
  <2>4. l = [e \in Editors |-> l[e]] /\ k = [e \in Editors |-> k[e]]
    BY DEF BeforeTimer
  <2>5. \E ms : Chain(ms, commands, worlds, position, l, un)
    <3>1. CASE \E e \in es : world[e].text = NoText
      <4>1. PICK e \in es : world[e].text = NoText
        BY <3>1
      <4> DEFINE x == world'[e].x
                 m == PlacedAt(k, e, x)
      <4>2. e \in un /\ e = editing /\ l[e] = Moved(k[e], x)
        BY <1>10, <4>1
      <4>3. x \in Int
        BY <1>4, <1>8
      <4>4. \A f \in Editors : f # e => l[f] = k[f]
        BY <1>9, <1>10, <4>2
      <4> HIDE DEF l, k, un, x
      <4>5. l = m
        BY <2>3, <2>4, <4>2, <4>4 DEF PlacedAt
      <4> HIDE DEF m
      <4>6. commands \in Seq(EditorCommands) /\ position \in 0 .. Len(commands)
        BY EditorParts
      <4>7. \E ms : Chain(ms, commands, worlds, position, PlacedAt(k, e, x), un)
        BY <2>1, <2>3, <4>2, <4>3, <4>6, ChainPut
      <4> QED BY <4>5, <4>7 DEF m
    <3>2. CASE \A e \in es : world[e].text # NoText
      <4>1. \A f \in Editors : l[f] = k[f]
        BY <1>9, <3>2
      <4> HIDE DEF l, k
      <4>2. l = k
        BY <2>4, <4>1
      <4> QED BY <2>1, <4>2
    <3> QED BY <3>1, <3>2
  <2>6. PICK ms : Chain(ms, commands, worlds, position, l, un)
    BY <2>5
  <2> HIDE DEF l, k, un, ut
  <2>7. Chain(ms, commands, worlds, position, l, ut)
    BY <2>3, <2>6, ChainFewer
  <2> QED BY <2>2, <2>7 DEF HasChain, l, ut
<1>12. ASSUME NEW e \in es PROVE world'[e].shown /\ world'[e].x - translation' \in 0 .. Right
  <2>1. world[e].shown /\ world'[e].x - translation' = world[e].x - translation
    BY <1>1, <1>8
  <2>2. world[e].x - translation \in 0 .. Right
    <3>1. CASE timer = es
      BY <1>1, <1>7, <3>1 DEF HistoryInv, NoTimer
    <3>2. CASE timer = NoTimer
      BY <1>4, <3>2, EditorAssumption DEF EditorRecords
    <3> QED BY <1>7, <3>1, <3>2
  <2> QED BY <1>8, <2>1, <2>2
<1> QED BY <1>11, <1>12

\* The second is over: what was gathered joins what was before with what is now.
LEMMA GatherHistory == EditorsInv /\ TimerOK /\ HistoryInv /\ Gather => HistoryInv'
<1> SUFFICES ASSUME EditorsInv, TimerOK, HistoryInv, Gather PROVE HistoryInv'
  OBVIOUS
<1> DEFINE c == [kind |-> "translate", editors |-> timer, by |-> translation]
           n == Add(H, c, FALSE)
           l == BeforeTimer(world)
           m == LooksOf(world)
<1>1. Sets(n) /\ plain' = plain /\ timer' = NoTimer /\ translation' = 0 /\ timer # NoTimer
  BY DEF Gather
<1>2. /\ c \in TranslateCommands /\ c.kind = "translate" /\ Mentions(c) = timer
      /\ c.editors = timer /\ c.by = translation
  BY DEF TranslateCommands, Mentions, TimerOK
<1>3. n = IF Overwrites(H, c) THEN Overwrite(H, c, world) ELSE NewCommand(H, c, world)
  BY HIs DEF Add
<1> HIDE DEF c, n
<1>4. /\ c \in EditorCommands /\ c.kind # "text" /\ StorageInv(H, editing) /\ UndoesItself(c)
      /\ \A f \in Mentions(c) : H.world[f].made
      /\ \A f \in Editors : IsDeletion(c, f) => f # editing /\ H.world[f].shown
  BY <1>2, HIs, EditorParts DEF EditorCommands, IsDeletion, UndoesItself, TimerOK
<1>0. n.plain = plain /\ n.world = world
  <2>1. n = NewCommand(H, c, world)
    BY <1>2, <1>3, HIs DEF Overwrites
  <2> QED BY <2>1, HIs, NewCommandIs
<1> SUFFICES ASSUME plain PROVE HasChain(H, BeforeTimer(world))'
  BY <1>1 DEF HistoryInv
<1>5. /\ world \in EditorWorlds /\ EditorsOK(world, plain, editing) /\ translation \in Int
      /\ \A e \in Editors : world[e] \in EditorRecords
  BY EditorParts DEF EditorWorlds, TimerOK
<1>6. ASSUME NEW e \in Editors
      PROVE  LookDid(l[e], c, e) = m[e] /\ LookUndid(m[e], c, e) = l[e]
  <2>1. m[e] = LookOf(world[e]) /\ m[e] \in LookRecords /\ m[e].x = world[e].x
    BY <1>5, LookIs DEF LookOf, Looks
  <2>2. CASE e \notin timer
    <3>1. l[e] = m[e]
      BY <2>1, <2>2 DEF BeforeTimer
    <3> HIDE DEF l, m
    <3> QED BY <1>2, <1>4, <2>2, <3>1, LookNotMentioned
  <2>4. CASE e \in timer /\ world[e].text = NoText
    <3>1. l[e] = m[e]
      BY <2>1, <2>4 DEF BeforeTimer
    <3>2. ~m[e].seen
      BY <2>1, <2>4 DEF LookOf
    <3> HIDE DEF l, m
    <3>3. \A u : LookPlace(m[e], u) = m[e]
      BY <3>2 DEF LookPlace
    <3>4. LookDid(m[e], c, e) = m[e] /\ LookUndid(m[e], c, e) = m[e]
      BY <1>2, <2>4, <3>3 DEF LookDid, LookUndid
    <3> QED BY <3>1, <3>4
  <2>3. CASE e \in timer /\ world[e].text # NoText
    <3> DEFINE r == m[e]
               b == l[e]
               x == world[e].x
               y == x - translation
               u == Clamped(y + translation)
               v == Clamped(x - translation)
    <3>1. world[e].shown /\ y \in 0 .. Right /\ x \in 0 .. Right
      BY <1>1, <1>5, <2>3 DEF HistoryInv, EditorRecords
    <3>2. r.seen
      BY <2>1, <2>3, <3>1 DEF LookOf
    <3>3. x \in Int /\ y \in Int /\ y + translation = x
      BY <1>5, <3>1, EditorAssumption
    <3>4. u = x /\ v = y
      BY <3>1, <3>3, ClampedIs
    <3>5. b = [r EXCEPT !.x = y]
      BY <2>1, <2>3 DEF BeforeTimer
    <3> HIDE DEF l, m, x, y, r, b
    <3>6. r \in LookRecords /\ r.x = x
      BY <2>1 DEF r, x
    <3>7. b \in LookRecords /\ b.x = y /\ b.seen
      BY <3>2, <3>3, <3>5, <3>6 DEF LookRecords
    <3>8. LookDid(b, c, e) = LookPlace(b, y + translation)
      BY <1>2, <2>3, <3>7 DEF LookDid
    <3>9. LookUndid(r, c, e) = LookPlace(r, x - translation)
      BY <1>2, <2>3, <3>6 DEF LookUndid
    <3>10. LookPlace(b, y + translation) = [b EXCEPT !.x = u]
      BY <3>7 DEF LookPlace
    <3>11. LookPlace(r, x - translation) = [r EXCEPT !.x = v]
      BY <3>2 DEF LookPlace
    <3> HIDE DEF u, v
    <3>12. [b EXCEPT !.x = x] = r
      BY <3>5, <3>6 DEF LookRecords
    <3>13. LookDid(b, c, e) = r
      BY <3>4, <3>8, <3>10, <3>12
    <3>14. LookUndid(r, c, e) = b
      BY <3>4, <3>5, <3>9, <3>11
    <3> QED BY <3>13, <3>14 DEF r, b
  <2> QED BY <2>2, <2>3, <2>4
<1> HIDE DEF l
<1>7. Joined(l, LooksOf(world), c)
  BY <1>6 DEF Joined
<1>8. H.plain => HasChain(H, l)
  BY DEF HistoryInv, l
<1>9. world \in {Do(H.world, c), H.world}
  BY HIs
<1>10. PlainChain(n)
  BY <1>3, <1>4, <1>7, <1>8, <1>9, AddChain
<1>12. n.plain /\ n.world = world
  BY <1>0
<1>13. HasChain(n, LooksOf(world))
  BY <1>10, <1>12 DEF PlainChain
<1>14. /\ H'.commands = n.commands /\ H'.worlds = n.worlds /\ H'.position = n.position
       /\ H'.world = n.world /\ world' = world
  BY <1>1, <1>12 DEF H, Sets
<1>15. BeforeTimer(world)' = LooksOf(world)
  BY <1>1, <1>14 DEF BeforeTimer, LooksOf, NoTimer
<1> QED BY <1>13, <1>14, <1>15 DEF HasChain

LEMMA EditorInitHistory == EditorInit => HistoryInv
<1> SUFFICES ASSUME EditorInit PROVE HistoryInv
  OBVIOUS
<1>1. /\ editing = NoEditor /\ commands = <<>> /\ position = 0 /\ plain = TRUE /\ timer = {}
      /\ translation = 0 /\ worlds = <<Seen(world)>> /\ \A e \in Editors : ~world[e].shown
  BY DEF EditorInit, NoTimer
<1>2. world \in EditorWorlds
  BY EditorInitStorage, EditorParts
<1> DEFINE l == LooksOf(world)
           s == Seen(world)
           ls == <<l>>
           un == Unseen(world)
<1>3. l \in Looks /\ s = SeenIn(l) /\ s \in Sights /\ \A e \in Editors : l[e] = LookOf(world[e])
  BY <1>2, LookIs
<1>4. \A e \in un : ~l[e].seen
  <2> SUFFICES ASSUME NEW e \in Editors PROVE ~l[e].seen
    BY DEF Unseen
  <2>1. LookOf(world[e]).seen = FALSE
    BY <1>1 DEF LookOf
  <2> QED BY <1>3, <2>1
<1>5. BeforeTimer(world) = l
  BY <1>1 DEF BeforeTimer, LooksOf
<1> HIDE DEF l, s, un
<1>6. ls \in Seq(Looks) /\ Len(ls) = 1 /\ ls[1] = l /\ <<s>> \in Seq(Sights) /\ Len(<<s>>) = 1 /\ <<s>>[1] = s
  BY <1>3
<1>7. worlds = <<s>> /\ Len(commands) = 0
  BY <1>1 DEF s
<1> HIDE DEF ls
<1>8. Chain(ls, commands, worlds, position, l, un)
  BY <1>1, <1>3, <1>4, <1>6, <1>7 DEF Chain
<1>9. HasChain(H, BeforeTimer(world))
  BY <1>5, <1>8, HIs DEF HasChain, un
<1> QED BY <1>1, <1>9 DEF HistoryInv, NoTimer

LEMMA EditorNextHistory == EditorsInv /\ TimerOK /\ HistoryInv /\ EditorNext => HistoryInv'
<1> SUFFICES ASSUME EditorsInv, TimerOK, HistoryInv, EditorNext PROVE HistoryInv'
  OBVIOUS
<1>1. CASE \E e \in Editors, x \in 0 .. Right : Create(e, x)
  BY <1>1, CreateHistory
<1>2. CASE \E e \in Editors : Edit(e)
  BY <1>2, EditHistory
<1>3. CASE \E t \in TextValues : Type(t)
  BY <1>3, TypeHistory
<1>4. CASE Commit
  BY <1>4, CommitHistory
<1>5. CASE \E e \in Editors, color \in Colors : SetColor(e, color)
  BY <1>5, SetColorHistory
<1>6. CASE \E es \in SUBSET Editors, by \in {-1, 1} : Drag(es, by)
  <2>1. PICK es \in SUBSET Editors, by \in {-1, 1} : Drag(es, by)
    BY <1>6
  <2>2. by \in Int
    OBVIOUS
  <2> QED BY <2>1, <2>2, DragHistory
<1>7. CASE \E es \in SUBSET Editors, by \in {-1, 1} : Translate(es, by)
  <2>1. PICK es \in SUBSET Editors, by \in {-1, 1} : Translate(es, by)
    BY <1>7
  <2>2. by \in Int
    OBVIOUS
  <2> QED BY <2>1, <2>2, TranslateHistory
<1>8. CASE Gather
  BY <1>8, GatherHistory
<1>9. CASE \E es \in SUBSET Editors : Delete(es)
  BY <1>9, DeleteHistory
<1>10. CASE UndoLast
  BY <1>10, UndoHistory
<1>11. CASE RedoNext
  BY <1>11, RedoHistory
<1> QED BY <1>1, <1>2, <1>3, <1>4, <1>5, <1>6, <1>7, <1>8, <1>9, <1>10, <1>11 DEF EditorNext, TextValues

LEMMA HistoryUnchanged == HistoryInv /\ UNCHANGED editorVars => HistoryInv'
<1> SUFFICES ASSUME HistoryInv, UNCHANGED editorVars PROVE HistoryInv'
  OBVIOUS
<1>1. /\ world' = world /\ commands' = commands /\ worlds' = worlds /\ position' = position
      /\ plain' = plain /\ timer' = timer /\ translation' = translation /\ editing' = editing
  BY DEF editorVars
<1>2. BeforeTimer(world)' = BeforeTimer(world) /\ H' = H
  BY <1>1 DEF BeforeTimer, H
<1>3. HasChain(H, BeforeTimer(world))' <=> HasChain(H, BeforeTimer(world))
  BY <1>1, <1>2 DEF HasChain
<1> QED BY <1>1, <1>3 DEF HistoryInv

\* While the part is the editors', they have this invariant also.
UseHistoryInv == part = "editors" => HistoryInv

LEMMA UseHistoryInvariant == UseSpec => []UseHistoryInv
<1>1. UseInit => UseHistoryInv
  BY EditorInitHistory DEF UseInit, UseHistoryInv
<1>2. UseEditorsInv /\ UseHistoryInv /\ [UseNext]_useVars => UseHistoryInv'
  <2> SUFFICES ASSUME UseEditorsInv, UseHistoryInv, [UseNext]_useVars, part' = "editors" PROVE HistoryInv'
    BY DEF UseHistoryInv
  <2>1. CASE UNCHANGED useVars
    BY <2>1, HistoryUnchanged DEF useVars, UseHistoryInv
  <2>2. CASE EditorsStep
    BY <2>2, EditorNextHistory DEF EditorsStep, UseEditorsInv, UseHistoryInv
  <2>3. CASE DecodersStep \/ ParserStep \/ FunctionsStep \/ ViewsStep \/ DrawingStep \/ SavingStep
    BY <2>3 DEF DecodersStep, ParserStep, FunctionsStep, ViewsStep, DrawingStep, SavingStep
  <2> QED BY <2>1, <2>2, <2>3 DEF UseNext
<1> QED BY <1>1, <1>2, UseEditorsInvariant, PTL DEF UseSpec

\* Undo and redo go back and forth between the same pages (CommandManager.add, undo, redo): what is
\* seen after so many commands is what was seen when so many had been given, while what was done is
\* plain and no translation waits.
THEOREM UndoneIsAsBeforeAlways == UseSpec => []UndoneIsAsBefore
<1>1. UseEditorsInv /\ UseHistoryInv => UndoneIsAsBefore
  <2> SUFFICES ASSUME EditorsInv, HistoryInv, plain, timer = NoTimer PROVE Seen(world) = worlds[position + 1]
    BY DEF UseEditorsInv, UseHistoryInv, UndoneIsAsBefore, UndoGoesBack
  <2>1. PICK ls : Chain(ls, commands, worlds, position, LooksOf(world), Unseen(world))
    BY PlainChainNow, HIs DEF PlainChain, HasChain
  <2>2. position + 1 \in 1 .. Len(ls)
    BY <2>1, EditorParts DEF Chain
  <2>3. worlds[position + 1] = SeenIn(LooksOf(world))
    BY <2>1, <2>2 DEF Chain
  <2>4. Seen(world) = SeenIn(LooksOf(world))
    BY EditorParts, LookIs
  <2> QED BY <2>3, <2>4
<1> QED BY <1>1, UseEditorsInvariant, UseHistoryInvariant, PTL
==============================================================================
