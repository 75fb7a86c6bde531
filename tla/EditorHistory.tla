---------------------------- MODULE EditorHistory ----------------------------
(***************************************************************************)
(* Undo and redo of the annotation editors: CommandManager and the         *)
(* commands that AnnotationEditorUIManager (seren-viewer/src/display/      *)
(* editor/tools.ts) and FreeTextEditor (freetext.ts) give it, over free    *)
(* text editors in the layer of one page and the AnnotationStorage that is *)
(* saved.                                                                  *)
(*                                                                         *)
(* A position is one number, a text a model value; translations with the   *)
(* keyboard are gathered for a second before they become a command.  The   *)
(* keyboard and the mouse do not undo or drag while a text is edited       *)
(* (isEditorHandlingKeyboard, _isDraggable), and translate only while it is *)
(* empty (arrowChecker of FreeTextEditor).                                 *)
(***************************************************************************)
EXTENDS Integers, Sequences, FiniteSets

CONSTANTS
    Editors, Phrases, Colors,
    Right,          \* the last position inside the page
    MaxSize,        \* maxSize of CommandManager: 128
    MaxActs         \* bound: what the user does

ASSUME EditorAssumption ==
    /\ Right \in Nat /\ MaxSize \in Nat \ {0} /\ MaxActs \in Nat
    /\ Colors # {} /\ "none" \notin Editors     \* NoEditor

VARIABLES
    world,          \* the editors: made, shown (in #allEditors and the layer), text (#content),
                    \* typed (of editorDiv), color, x, and stored (in the AnnotationStorage)
    editing,        \* the editor in edit mode, #activeEditor, or NoEditor
    commands,       \* #commands
    position,       \* #position + 1
    translation,    \* #translation
    timer,          \* the editors of #translationTimeoutId, or NoTimer
    worlds,         \* history: what was to be seen after each number of commands
    plain,          \* history: none of the things of Plain was done yet
    acts            \* what the user did

editorVars == <<world, editing, commands, position, translation, timer, worlds, plain, acts>>

NoEditor    == "none"
NoText  == "no text"
NoTimer == {}

Clamped(x) == IF x < 0 THEN 0 ELSE IF x > Right THEN Right ELSE x

\* An editor is to be seen with its text, its color and its place.
Seen(w) == [e \in Editors |-> IF w[e].shown /\ w[e].text # NoText
                              THEN <<w[e].text, w[e].color, w[e].x>> ELSE <<>>]

------------------------------------------------------------------------------
(* What commands do to the editors.                                         *)

\* Mutant of Removed: the storage keeps it.
RemovedButStored(w, e) == [w EXCEPT ![e].shown = FALSE]

\* editor.remove(), removeEditor
Removed(w, e) == [w EXCEPT ![e].shown = FALSE, ![e].stored = FALSE]

\* layer.add and addToAnnotationStorage, unless it is there
AddToLayer(w, e) ==
    IF w[e].shown THEN w
    ELSE [w EXCEPT ![e].shown = TRUE, ![e].stored = w[e].typed # NoText]

SetText(w, e, text) ==
    IF text = NoText THEN Removed([w EXCEPT ![e].text = text], e)
    ELSE AddToLayer([w EXCEPT ![e].text = text, ![e].typed = text], e)

MoveBy(w, es, by) ==
    [e \in Editors |-> IF e \in es /\ w[e].shown THEN [w[e] EXCEPT !.x = Clamped(@ + by)] ELSE w[e]]

MoveTo(w, places) ==
    [e \in Editors |-> IF e \in DOMAIN places /\ w[e].shown
                       THEN [w[e] EXCEPT !.x = Clamped(places[e])] ELSE w[e]]

Each(w, es, Op(_, _)) == [e \in Editors |-> IF e \in es THEN Op(w, e)[e] ELSE w[e]]

Do(w, c) ==
    CASE c.kind = "text"      -> SetText(w, c.editor, c.new)
      [] c.kind = "color"     -> [w EXCEPT ![c.editor].color = c.new]
      [] c.kind = "drag"      -> MoveTo(w, c.new)
      [] c.kind = "translate" -> MoveBy(w, c.editors, c.by)
      [] c.kind = "delete"    -> Each(w, c.editors, Removed)

Undo(w, c) ==
    CASE c.kind = "text"      -> SetText(w, c.editor, c.old)
      [] c.kind = "color"     -> [w EXCEPT ![c.undoes.editor].color = c.undoes.color]
      [] c.kind = "drag"      -> MoveTo(w, c.old)
      [] c.kind = "translate" -> MoveBy(w, c.editors, -c.by)
      [] c.kind = "delete"    -> Each(w, c.editors, AddToLayer)

------------------------------------------------------------------------------
(* CommandManager.  h is its state, with the editors and the history.       *)

H == [world |-> world, commands |-> commands, position |-> position, worlds |-> worlds,
      plain |-> plain]

Overwrites(h, c) == c.kind = "color" /\ h.position > 0 /\ h.commands[h.position].kind = "color"

\* keepUndo: what is undone is what the command before it would have undone.
Overwrite(h, c, w) ==
    LET last == h.commands[h.position]
    IN  [h EXCEPT !.world = w,
                  !.commands[h.position] = [c EXCEPT !.undoes = last.undoes],
                  !.worlds[h.position + 1] = Seen(w),
                  !.plain = @ /\ last.editor = c.editor /\ h.position = Len(h.commands)]

\* Mutant of Kept: what was undone can be redone after a new command.
KeptForRedo(h) == h.commands

Kept(h) == SubSeq(h.commands, 1, h.position)

NewCommand(h, c, w) ==
    LET full == h.position = MaxSize
        s    == Append(Kept(h), c)
        v    == Append(SubSeq(h.worlds, 1, h.position + 1), Seen(w))
    IN  [h EXCEPT !.world = w, !.commands = IF full THEN Tail(s) ELSE s,
                  !.worlds = IF full THEN Tail(v) ELSE v,
                  !.position = IF full THEN @ ELSE @ + 1]

\* add
Add(h, c, mustExec) ==
    LET w == IF mustExec THEN Do(h.world, c) ELSE h.world
    IN  IF Overwrites(h, c) THEN Overwrite(h, c, w) ELSE NewCommand(h, c, w)

------------------------------------------------------------------------------
(* The user.                                                                *)

EditorInit ==
    /\ world = [e \in Editors |-> [made |-> FALSE, shown |-> FALSE, text |-> NoText, typed |-> NoText,
                                   color |-> CHOOSE c \in Colors : TRUE, x |-> 0, stored |-> FALSE]]
    /\ editing = NoEditor /\ commands = <<>> /\ position = 0
    /\ translation = 0 /\ timer = NoTimer
    /\ worlds = <<Seen(world)>> /\ plain = TRUE /\ acts = 0

ShownEditors == {e \in Editors : world[e].shown}

Sets(h) ==
    /\ world' = h.world /\ commands' = h.commands /\ position' = h.position
    /\ worlds' = h.worlds

\* What is done while a translation waits for its second is not plain.
Acts(h) ==
    /\ acts < MaxActs /\ acts' = acts + 1
    /\ Sets(h)
    /\ plain' = (h.plain /\ timer = NoTimer)

\* commit or remove the editor in edit mode (commitOrRemove): a text that is empty
\* removes the editor, without a command.
Committed(h) ==
    IF editing = NoEditor THEN h
    ELSE LET e == editing
             new == h.world[e].typed
             old == h.world[e].text
             stored == [h.world EXCEPT ![e].text = new, ![e].stored = TRUE]
         IN  IF new = NoText
             THEN [h EXCEPT !.world = Removed(@, e), !.plain = @ /\ old = NoText]
             ELSE IF new = old THEN [h EXCEPT !.world = stored]
             ELSE Add([h EXCEPT !.world = stored],
                      [kind |-> "text", editor |-> e, old |-> old, new |-> new], FALSE)

\* createAndAddNewEditor: the one in edit mode loses the focus.
Create(e, x) ==
    /\ ~world[e].made
    /\ LET h == Committed(H)
       IN  Acts([h EXCEPT !.world[e] = [@ EXCEPT !.made = TRUE, !.shown = TRUE, !.x = x]])
    /\ editing' = e
    /\ UNCHANGED <<translation, timer>>

\* enterInEditMode
Edit(e) ==
    /\ world[e].shown /\ editing # e
    /\ Acts(Committed(H))
    /\ editing' = e
    /\ UNCHANGED <<translation, timer>>

Type(text) ==
    /\ editing # NoEditor /\ world[editing].typed # text
    /\ Acts([H EXCEPT !.world = [world EXCEPT ![editing].typed = text]])
    /\ UNCHANGED <<editing, translation, timer>>

\* focusout, escape
Commit ==
    /\ editing # NoEditor
    /\ Acts(Committed(H))
    /\ editing' = NoEditor
    /\ UNCHANGED <<translation, timer>>

\* updateParams of the selected editor
SetColor(e, color) ==
    /\ world[e].shown /\ world[e].color # color
    /\ Acts(Add(H, [kind |-> "color", editor |-> e, new |-> color,
                    undoes |-> [editor |-> e, color |-> world[e].color]], TRUE))
    /\ UNCHANGED <<editing, translation, timer>>

\* setUpDragSession, dragSelectedEditors, endDragSession
Drag(es, by) ==
    /\ editing = NoEditor /\ es # {} /\ es \subseteq ShownEditors
    /\ Acts(Add(H, [kind |-> "drag", old |-> [e \in es |-> world[e].x],
                    new |-> [e \in es |-> world[e].x + by]], TRUE))
    /\ UNCHANGED <<editing, translation, timer>>

\* translateSelectedEditors; _translateEmpty does not commit the editor in edit mode.
Translate(es, by) ==
    /\ acts < MaxActs /\ acts' = acts + 1
    /\ editing # NoEditor => world[editing].typed = NoText
    /\ es # {} /\ es \subseteq ShownEditors
    /\ world' = MoveBy(world, es, by)
    /\ translation' = translation + by
    /\ timer' = es
    /\ plain' = (plain /\ timer \in {NoTimer, es}
                       /\ \A e \in es : world[e].x + by \in 0 .. Right)
    /\ UNCHANGED <<editing, commands, position, worlds>>

\* The second is over.
Gather ==
    /\ timer # NoTimer
    /\ Sets(Add(H, [kind |-> "translate", editors |-> timer, by |-> translation], FALSE))
    /\ translation' = 0 /\ timer' = NoTimer
    /\ UNCHANGED <<editing, plain, acts>>

\* delete
Delete(es) ==
    /\ es # {} /\ es \subseteq ShownEditors
    /\ LET h    == Committed(H)
           left == {e \in es : h.world[e].shown}
       IN  Acts(IF left = {} THEN h ELSE Add(h, [kind |-> "delete", editors |-> left], TRUE))
    /\ editing' = NoEditor
    /\ UNCHANGED <<translation, timer>>

UndoLast ==
    /\ editing = NoEditor /\ position > 0
    /\ Acts([H EXCEPT !.world = Undo(world, commands[position]), !.position = @ - 1])
    /\ UNCHANGED <<editing, translation, timer>>

RedoNext ==
    /\ editing = NoEditor /\ position < Len(commands)
    /\ Acts([H EXCEPT !.world = Do(world, commands[position + 1]), !.position = @ + 1])
    /\ UNCHANGED <<editing, translation, timer>>

EditorNext ==
    \/ \E e \in Editors : (\E x \in 0 .. Right : Create(e, x)) \/ Edit(e)
    \/ \E text \in Phrases \cup {NoText} : Type(text)
    \/ Commit
    \/ \E e \in Editors, color \in Colors : SetColor(e, color)
    \/ \E es \in SUBSET Editors, by \in {-1, 1} : Drag(es, by) \/ Translate(es, by)
    \/ Gather
    \/ \E es \in SUBSET Editors : Delete(es)
    \/ UndoLast \/ RedoNext

EditorSpec == EditorInit /\ [][EditorNext]_editorVars

------------------------------------------------------------------------------

\* Undo and redo go back and forth between the same pages: after so many commands the
\* page is what it was when so many had been given, unless an editor was cleared, a
\* translation stopped at an edge or was still waiting when something else was done,
\* or a color was given to another editor after a color, or after an undo.
UndoGoesBack == plain /\ timer = NoTimer => Seen(world) = worlds[position + 1]

\* What is saved is what is shown: editors come and go by commands, and the storage has
\* just those that are there with a text, and that text, but for the one in edit mode.
SavedIsShown ==
    \A e \in Editors \ {editing} :
        /\ world[e].stored => world[e].shown /\ world[e].text = world[e].typed
        /\ plain => (world[e].stored <=> world[e].shown)
==============================================================================
