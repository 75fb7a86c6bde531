------------------------------ MODULE DocumentUse ------------------------------
(***************************************************************************)
(* What is done with a document that can be read: its streams are decoded, *)
(* its objects, contents and functions parsed, its pages viewed and drawn, *)
(* its annotations edited and saved.  The seven parts share values, and no *)
(* state, so that a behaviour is one of one of them: part says of which.   *)
(***************************************************************************)
EXTENDS Decoders, ContentParser, PageViews, EditorHistory, Saving, PostScriptFunction, PageDrawing

VARIABLE part   \* "decoders", "parser", "functions", "views", "drawing", "editors" or "saving"

useVars == <<part, decoderVars, parserVars, functionVars, viewVars, drawingVars, editorVars, savingVars>>

DecodersIdle ==
    /\ coded = 0 /\ inPos = 0 /\ buffer = 0 /\ bufferLength = 0 /\ eof = 0 /\ pos = 0
    /\ filterState = 0 /\ wanted = 0 /\ answer = 0

ParserIdle ==
    /\ text = 0 /\ lex = 0 /\ stack = 0 /\ imageCache = 0 /\ read = 0 /\ out = 0 /\ ended = 0

ViewsIdle == opened = 0 /\ manager = 0 /\ view = 0 /\ task = 0 /\ waiting = 0

EditorsIdle ==
    /\ world = 0 /\ editing = 0 /\ commands = 0 /\ position = 0 /\ translation = 0 /\ timer = 0
    /\ worlds = 0 /\ plain = 0 /\ acts = 0

SavingIdle == document = 0 /\ newTemporaryRef = 0 /\ annots = 0 /\ saves = 0

FunctionsIdle == func = 0 /\ args = 0 /\ given = 0 /\ parser = 0 /\ compiler = 0 /\ evaluator = 0

DrawingIdle ==
    /\ drawing = 0 /\ added = 0 /\ queue = 0 /\ operatorList = 0 /\ gfx = 0 /\ executed = 0
    /\ rendering = 0 /\ meant = 0

UseInit ==
    /\ part \in {"decoders", "parser", "functions", "views", "drawing", "editors", "saving"}
    /\ IF part = "decoders"  THEN DecodersInit ELSE DecodersIdle
    /\ IF part = "parser"    THEN ParserInit   ELSE ParserIdle
    /\ IF part = "functions" THEN FunctionInit ELSE FunctionsIdle
    /\ IF part = "views"     THEN ViewsInit    ELSE ViewsIdle
    /\ IF part = "drawing"   THEN DrawingInit  ELSE DrawingIdle
    /\ IF part = "editors"   THEN EditorInit   ELSE EditorsIdle
    /\ IF part = "saving"    THEN SavingInit   ELSE SavingIdle

\* A step of one part leaves the others alone.
DecodersStep ==
    /\ part = "decoders" /\ DecodersNext
    /\ UNCHANGED <<part, parserVars, functionVars, viewVars, drawingVars, editorVars, savingVars>>
ParserStep ==
    /\ part = "parser" /\ ParserNext
    /\ UNCHANGED <<part, decoderVars, functionVars, viewVars, drawingVars, editorVars, savingVars>>
FunctionsStep ==
    /\ part = "functions" /\ FunctionNext
    /\ UNCHANGED <<part, decoderVars, parserVars, viewVars, drawingVars, editorVars, savingVars>>
ViewsStep ==
    /\ part = "views" /\ ViewsNext
    /\ UNCHANGED <<part, decoderVars, parserVars, functionVars, drawingVars, editorVars, savingVars>>
DrawingStep ==
    /\ part = "drawing" /\ DrawingNext
    /\ UNCHANGED <<part, decoderVars, parserVars, functionVars, viewVars, editorVars, savingVars>>
EditorsStep ==
    /\ part = "editors" /\ EditorNext
    /\ UNCHANGED <<part, decoderVars, parserVars, functionVars, viewVars, drawingVars, savingVars>>
SavingStep ==
    /\ part = "saving" /\ SavingNext
    /\ UNCHANGED <<part, decoderVars, parserVars, functionVars, viewVars, drawingVars, editorVars>>

UseNext ==
    \/ DecodersStep \/ ParserStep \/ FunctionsStep \/ ViewsStep \/ DrawingStep \/ EditorsStep
    \/ SavingStep

UseSpec == UseInit /\ [][UseNext]_useVars

------------------------------------------------------------------------------

\* What is decoded is what was encoded (Decoders).
StreamsDecode == part = "decoders" => DecodedIsContent

\* What is parsed is what was written (ContentParser).
ContentParses == part = "parser" => ParsedIsWritten

\* Given the code of its text, a function gives what the text means; what is compiled is
\* what is interpreted, and the jumps of what is parsed are right (PostScriptFunction).
RightCodeComputes ==
    part = "functions" => RightCodeMeans /\ CompiledIsInterpreted /\ JumpsAreRight

\* A view has one render task, and a finished one shows its page (PageViews).
ViewsRenderOnce == part = "views" => OneRenderPerView
ViewsFinish     == part = "views" => FinishedIsDrawn

\* The views shown are those of one document (PageViews).
ViewsAgree == part = "views" => ViewsOfOneDocument

\* A page shows what its content means, and its canvas is given back (PageDrawing).
PagesDrawn      == part = "drawing" => DrawnAsWritten
CanvasGivenBack == part = "drawing" => ContextGivenBack

\* Undo and redo go between the same pages (EditorHistory).
UndoneIsAsBefore == part = "editors" => UndoGoesBack

\* The storage has what is shown (EditorHistory).
StorageIsShown == part = "editors" => SavedIsShown

\* The file that is saved has what was asked (Saving).
FileIsAsAsked == part = "saving" => SavedIsReadBack
==============================================================================
