-------------------------------- MODULE Saving --------------------------------
(***************************************************************************)
(* Saving a document with new annotations: the SaveDocument handler        *)
(* (seren-worker/src/worker.ts), Page.saveNewAnnotations (document.ts),    *)
(* AnnotationFactory.saveNewAnnotations (annotation.ts), the temporary     *)
(* references of XRef (xref.ts) and the incremental update of writer.ts;   *)
(* and what a reader makes of the file.                                    *)
(*                                                                         *)
(* The pages of a save are written at the same time, and a step ends where *)
(* the code awaits.  An object of the file has the length 1, and the file  *)
(* before the update has the length 0.  The fields of forms are left out.  *)
(***************************************************************************)
EXTENDS Integers, Sequences, FiniteSets, SequencesExt, FiniteSetsExt, Functions

CONSTANTS
    Pages,          \* page numbers; the page p is the object p
    Old,            \* the annotation that each page has, an object
    Catalog,        \* the number of the catalog
    Entries,        \* entries.length: the first free number
    Bitmaps,        \* bitmapId of stamps
    Masked,         \* those with a soft mask
    Documents,      \* records: stream (the reference table is a stream), tree (the
                    \* document has a structure tree)
    Requests,       \* what may be saved by the first, second... save: records of notes,
                    \* which give each page a sequence of annotations, and tagged (they
                    \* have accessibility data)
    Concurrent      \* a save may begin while another runs

ASSUME SavingAssumption ==
    /\ Pages \cup {Catalog} \cup {Old[p] : p \in Pages} \subseteq 1 .. Entries - 1
    /\ Masked \subseteq Bitmaps
    /\ Concurrent \in BOOLEAN

VARIABLES
    document,       \* in Documents
    newTemporaryRef,\* _newTemporaryRefNum, or NoRef
    annots,         \* Annots of each pageDict
    saves           \* the saves: what was asked, their state, tasks, images and file

savingVars == <<document, newTemporaryRef, annots, saves>>

NoRef == -1
Saves == DOMAIN Requests

\* An annotation is asked for by what it shows: id, bitmap or NoBitmap, whether it is a
\* free text, the object it edits or NoRef, and whether it is to be deleted.
NoBitmap == "none"
Undeleted(notes) == {i \in DOMAIN notes : ~notes[i].deleted}

NewTask(p, notes) ==
    [at |-> "notes", next |-> 1, array |-> SelectSeq(<<Old[p]>>, LAMBDA r :
        ~\E i \in DOMAIN notes : notes[i].deleted /\ notes[i].ref = r),
     saved |-> <<>>, refs |-> [i \in DOMAIN notes |-> NoRef],
     images |-> [i \in DOMAIN notes |-> NoRef], font |-> NoRef, writing |-> <<>>,
     done |-> {}, out |-> <<>>]

NewSave == [at |-> "new", request |-> [notes |-> <<>>, tagged |-> FALSE], tasks |-> <<>>,
            images |-> [b \in Bitmaps |-> [ref |-> NoRef, stream |-> "unread",
                                            smask |-> "unread", mask |-> NoRef]],
            newRef |-> NoRef, out |-> <<>>, file |-> <<>>]

SavingInit ==
    /\ document \in Documents
    /\ newTemporaryRef = NoRef
    /\ annots = [p \in Pages |-> <<Old[p]>>]
    /\ saves = [s \in Saves |-> NewSave]

------------------------------------------------------------------------------
(* A save and its pages.                                                    *)

\* getNewTemporaryRef: the next number, and the one after the taken ones.
NextRef == IF newTemporaryRef = NoRef THEN Entries ELSE newTemporaryRef
Takes(n) == newTemporaryRef' = IF n = 0 THEN newTemporaryRef ELSE NextRef + n

Start(s, request) ==
    /\ saves[s].at = "new"
    /\ \A t \in 1 .. s - 1 : saves[t].at = "saved" \/ (Concurrent /\ saves[t].at # "new")
    /\ saves' = [saves EXCEPT ![s].at = "pages", ![s].request = request,
                    ![s].tasks = [p \in DOMAIN request.notes |-> NewTask(p, request.notes[p])]]
    /\ UNCHANGED <<document, newTemporaryRef, annots>>

Task(s, p)  == saves[s].tasks[p]
Notes(s, p) == saves[s].request.notes[p]
Written(ref, value) == [ref |-> ref, value |-> value]

\* The calls of createNew...Annotation begin: the annotation gets its number, and a
\* stamp the image that is there.
Begun(s, p, task, ref) ==
    LET note == Notes(s, p)[task.next]
    IN  [task EXCEPT !.next = @ + 1, !.at = "notes",
                     !.refs[task.next] = IF note.ref = NoRef THEN ref ELSE note.ref,
                     !.images[task.next] = IF note.bitmap = NoBitmap THEN NoRef
                                           ELSE saves[s].images[note.bitmap].ref]

\* Nothing is awaited: the annotation is begun, with a number if it is a new one.
BeginNote(s, p, task) ==
    /\ saves' = [saves EXCEPT ![s].tasks[p] = Begun(s, p, task, NextRef)]
    /\ Takes(IF Notes(s, p)[task.next].ref = NoRef THEN 1 ELSE 0)

\* An object gets its number, and the page waits at the given place until it is written.
Writing(task, place, value) ==
    [task EXCEPT !.at = place, !.writing = Written(NextRef, value)]
\* It is written: one of the dependencies.
Depends(task, object) == [task EXCEPT !.out = Append(@, object), !.writing = <<>>]

\* A stream is read once; what is read of it afterwards is empty.
Full(stream) == stream = "unread"

\* imageRef is set, and the bytes of imageStream are read.
ImageOf(image)     == [image EXCEPT !.ref = NextRef, !.stream = "read"]
ImageValue(b, image) == [kind |-> "image", of |-> b, full |-> Full(image.stream)]

\* The loop of saveNewAnnotations goes on to the next await.
NextNote(s, p) ==
    LET task  == Task(s, p)
        note  == Notes(s, p)[task.next]
        b     == note.bitmap
        image == saves[s].images[b]
        stamp == b # NoBitmap /\ image.stream # "null"
    IN  /\ saves[s].at = "pages" /\ task.at = "notes" /\ task.next <= Len(Notes(s, p))
        /\ \/ /\ note.deleted
              /\ saves' = [saves EXCEPT ![s].tasks[p].next = @ + 1] /\ Takes(0)
           \/ /\ ~note.deleted /\ note.freetext /\ task.font = NoRef
              /\ saves' = [saves EXCEPT ![s].tasks[p] =
                     [Writing(task, "font", [kind |-> "font"]) EXCEPT !.font = NextRef]]
              /\ Takes(1)
           \/ /\ ~note.deleted /\ stamp /\ b \in Masked
              /\ saves' = [saves EXCEPT ![s].images[b].smask = "read",
                     ![s].tasks[p] = Writing(task, "mask",
                         [kind |-> "mask", of |-> b, full |-> Full(image.smask)])]
              /\ Takes(1)
           \/ /\ ~note.deleted /\ stamp /\ b \notin Masked
              /\ saves' = [saves EXCEPT ![s].images[b] = ImageOf(@),
                     ![s].tasks[p] = Writing(task, "image", ImageValue(b, image))]
              /\ Takes(1)
           \/ /\ ~note.deleted /\ ~stamp /\ (note.freetext => task.font # NoRef)
              /\ BeginNote(s, p, task)
        /\ UNCHANGED <<document, annots>>

\* The font of the free texts of the page is written.
FontWritten(s, p) ==
    /\ saves[s].at = "pages" /\ Task(s, p).at = "font"
    /\ BeginNote(s, p, Depends(Task(s, p), Task(s, p).writing))
    /\ UNCHANGED <<document, annots>>

\* The soft mask is written; the dictionary of the image names it, also when another
\* page has written the image meanwhile.
MaskWritten(s, p) ==
    LET task  == Task(s, p)
        b     == Notes(s, p)[task.next].bitmap
        image == saves[s].images[b]
    IN  /\ saves[s].at = "pages" /\ task.at = "mask"
        /\ saves' = [saves EXCEPT
               ![s].images[b] = [ImageOf(@) EXCEPT !.mask = task.writing.ref],
               ![s].tasks[p] = Writing(Depends(task, task.writing), "image", ImageValue(b, image))]
        /\ Takes(1)
        /\ UNCHANGED <<document, annots>>

\* The image is written, with the mask that its dictionary names by now.
ImageWritten(s, p) ==
    LET task   == Task(s, p)
        note   == Notes(s, p)[task.next]
        image  == saves[s].images[note.bitmap]
        object == Written(task.writing.ref, [mask |-> image.mask] @@ task.writing.value)
    IN  /\ saves[s].at = "pages" /\ task.at = "image"
        /\ saves' = [saves EXCEPT ![s].images[note.bitmap].stream = "null",
                                  ![s].tasks[p] = Begun(s, p, Depends(task, object), NextRef)]
        /\ Takes(IF note.ref = NoRef THEN 1 ELSE 0)
        /\ UNCHANGED <<document, annots>>

\* The appearance gets its number; it and the annotation are written.
AppearanceMade(s, p, i) ==
    LET task == Task(s, p)
        ref  == task.refs[i]
    IN  /\ saves[s].at = "pages" /\ task.at \in {"notes", "font", "mask", "image"}
        /\ i \in Undeleted(Notes(s, p)) /\ i < task.next /\ i \notin task.done
        /\ saves' = [saves EXCEPT
               ![s].tasks[p].done = @ \cup {i},
               ![s].tasks[p].out = @ \o
                   <<Written(NextRef, [kind |-> "appearance", of |-> Notes(s, p)[i].id,
                                       image |-> task.images[i],
                                       font |-> IF Notes(s, p)[i].freetext THEN task.font ELSE NoRef]),
                     Written(ref, [kind |-> "note", of |-> Notes(s, p)[i].id, ap |-> NextRef])>>]
        /\ Takes(1)
        /\ UNCHANGED <<document, annots>>

\* Mutant of Listed: the edited annotations are listed again.
ListedAgain(s, p) ==
    LET task == Task(s, p)
    IN  task.array \o SelectSeq(task.refs, LAMBDA r : r # NoRef)

\* The annotations that are not there yet are listed.
Listed(s, p) ==
    LET task == Task(s, p)
    IN  task.array \o SelectSeq(task.refs, LAMBDA r :
            r # NoRef /\ ~\E i \in DOMAIN Notes(s, p) : Notes(s, p)[i].ref = r)

\* All are made: Annots of the page is replaced for as long as it is written,
SetAnnots(s, p) ==
    LET task == Task(s, p)
    IN  /\ saves[s].at = "pages" /\ task.at = "notes"
        /\ task.next > Len(Notes(s, p)) /\ task.done = Undeleted(Notes(s, p))
        /\ annots' = [annots EXCEPT ![p] = Listed(s, p)]
        /\ saves' = [saves EXCEPT ![s].tasks[p].at = "set", ![s].tasks[p].saved = annots[p]]
        /\ UNCHANGED <<document, newTemporaryRef>>

\* and is written at some moment in that time,
WritePage(s, p) ==
    /\ saves[s].at = "pages" /\ Task(s, p).at = "set"
    /\ saves' = [saves EXCEPT ![s].tasks[p].at = "written",
            ![s].tasks[p].out = Append(@, Written(p, [kind |-> "page", of |-> annots[p]]))]
    /\ UNCHANGED <<document, newTemporaryRef, annots>>

\* and put back.  The deleted ones are free objects.
PutBack(s, p) ==
    /\ saves[s].at = "pages" /\ Task(s, p).at = "written"
    /\ annots' = [annots EXCEPT ![p] = Task(s, p).saved]
    /\ saves' = [saves EXCEPT ![s].tasks[p].at = "saved",
            ![s].tasks[p].out = @ \o
                LET deleted == SelectSeq(Notes(s, p), LAMBDA n : n.deleted)
                IN  [i \in DOMAIN deleted |-> Written(deleted[i].ref, [kind |-> "free"])]]
    /\ UNCHANGED <<document, newTemporaryRef>>

------------------------------------------------------------------------------
(* The structure tree and the file.                                         *)

\* canUpdateStructTree
Updatable(s) == document.tree /\ saves[s].request.tagged

\* updateStructureTree, or createStructureTree: that one has the objects of the pages
\* a second time, because promises and newAnnotationPromises are one array.
TreeWritten(s) ==
    /\ saves[s].at = "pages" /\ \A p \in DOMAIN saves[s].tasks : Task(s, p).at = "saved"
    /\ LET pages == FlattenSeq([i \in 1 .. Cardinality(DOMAIN saves[s].tasks) |->
                        Task(s, SetToSortSeq(DOMAIN saves[s].tasks, <)[i]).out])
           tree  == [kind |-> "tree"]
       IN  /\ saves' = [saves EXCEPT ![s].at = "tree", ![s].out =
                   IF pages = <<>> THEN <<>>
                   ELSE IF Updatable(s) THEN Append(pages, Written(NextRef, tree))
                   ELSE pages \o pages \o
                        <<Written(Catalog, [kind |-> "catalog", of |-> NextRef]),
                          Written(NextRef, tree), Written(NextRef + 1, tree)>>]
           /\ Takes(IF pages = <<>> THEN 0 ELSE IF Updatable(s) THEN 1 ELSE 2)
    /\ UNCHANGED <<document, annots>>

\* The new table gets its number; in a stream it is an object itself.
Assemble(s) ==
    /\ saves[s].at = "tree" /\ saves[s].out # <<>>
    /\ saves' = [saves EXCEPT ![s].at = "assembled", ![s].newRef = NextRef,
            ![s].out = IF document.stream THEN Append(@, Written(NextRef, [kind |-> "table"])) ELSE @]
    /\ Takes(1)
    /\ UNCHANGED <<document, annots>>

------------------------------------------------------------------------------
(* incrementalUpdate, and what is read from the file.                       *)

\* The objects in the order of their numbers; the sort is stable.
Sorted(out) ==
    LET place == [i \in DOMAIN out |-> Cardinality({j \in DOMAIN out :
                     out[j].ref < out[i].ref \/ (out[j].ref = out[i].ref /\ j <= i)})]
    IN  [k \in DOMAIN out |-> out[CHOOSE i \in DOMAIN out : place[i] = k]]

\* Mutant of Starts: only the first object begins a section.
StartsOnce(objects) == {1}

\* getIndexes: where sections begin; each has the objects up to the next.
Starts(objects) ==
    {i \in DOMAIN objects : i = 1 \/ objects[i].ref # objects[i - 1].ref + 1}
Indexes(objects) ==
    LET starts == SelectSeq([i \in DOMAIN objects |-> i], LAMBDA i : i \in Starts(objects))
    IN  [k \in DOMAIN starts |->
            [from |-> objects[starts[k]].ref,
             count |-> (IF k = Len(starts) THEN Len(objects) + 1 ELSE starts[k + 1]) - starts[k]]]

IsFree(o)  == o.value.kind = "free"
Body(objects) == SelectSeq(objects, LAMBDA o : ~IsFree(o))

\* The entry of an object: the bytes before it, or free.  The table itself is last.
EntryOf(objects, i) ==
    [free |-> IsFree(objects[i]), offset |-> Len(Body(SubSeq(objects, 1, i - 1)))]

\* getXRefTable: a header stands before the first object, after those of the headers
\* before it, that has the number with which the next section begins.  At these
\* objects, or never (0), the headers are.
Headers(objects) ==
    LET ix == Indexes(objects)
        at[k \in 0 .. Len(ix)] ==
            IF k = 0 THEN 0
            ELSE LET last == at[k - 1]
                     here == {i \in DOMAIN objects : i > last /\ objects[i].ref = ix[k].from}
                 IN  IF here = {} \/ (k > 1 /\ last = 0) THEN 0 ELSE Min(here)
    IN  [k \in DOMAIN ix |-> at[k]]

\* readXRefTable: a section has as many entries as its header says, and then comes the
\* next header, or the trailer.
Readable(objects) ==
    LET ix      == Indexes(objects)
        headers == Headers(objects)
        NextHeader(k) == IF k = Len(ix) \/ headers[k + 1] = 0 THEN Len(objects) + 1 ELSE headers[k + 1]
    IN  \A k \in DOMAIN ix : headers[k] # 0 => headers[k] + ix[k].count = NextHeader(k)

\* The numbers of the entries: those of the sections, one after the other.  In the
\* stream of getXRefStreamTable the entries have no headers between them.
Numbers(objects) ==
    FlattenSeq([k \in DOMAIN Indexes(objects) |->
        [j \in 1 .. Indexes(objects)[k].count |-> Indexes(objects)[k].from + j - 1]])

\* What the file has under a number: the object at the place that the first entry with
\* that number names, if it is the one; what was there before, where there is no entry.
Nothing     == [kind |-> "nothing"]
Before(num) == [kind |-> "old", of |-> num]
ReadBack(s) ==
    LET objects == Sorted(saves[s].out)
        numbers == Numbers(objects)
        body    == Body(objects)
        At(num) == IF num \notin ToSet(numbers) THEN Before(num)
                   ELSE LET entry == EntryOf(objects, Min({i \in DOMAIN numbers : numbers[i] = num}))
                            o     == body[entry.offset + 1]
                        IN  IF entry.free THEN [kind |-> "free"]
                            ELSE IF o.ref = num THEN o.value ELSE Nothing
        read    == document.stream \/ Readable(objects)
    IN  [num \in 1 .. saves[s].newRef |-> IF read THEN At(num) ELSE Nothing]

\* The file is there, and resetNewTemporaryRef; a save without changes gives the bytes
\* as they are.
Saved(s) ==
    /\ \/ saves[s].at = "assembled" /\ newTemporaryRef' = NoRef
          /\ saves' = [saves EXCEPT ![s].at = "saved", ![s].file = ReadBack(s)]
       \/ saves[s].at = "tree" /\ saves[s].out = <<>> /\ UNCHANGED newTemporaryRef
          /\ saves' = [saves EXCEPT ![s].at = "saved"]
    /\ UNCHANGED <<document, annots>>

------------------------------------------------------------------------------

SavingNext ==
    \E s \in Saves :
        \/ \E request \in Requests[s] : Start(s, request)
        \/ \E p \in DOMAIN saves[s].tasks :
               \/ NextNote(s, p) \/ FontWritten(s, p) \/ MaskWritten(s, p) \/ ImageWritten(s, p)
               \/ \E i \in DOMAIN Notes(s, p) : AppearanceMade(s, p, i)
               \/ SetAnnots(s, p) \/ WritePage(s, p) \/ PutBack(s, p)
        \/ TreeWritten(s) \/ Assemble(s) \/ Saved(s)

SavingSpec == SavingInit /\ [][SavingNext]_savingVars

------------------------------------------------------------------------------

\* Stamps of one bitmap on several pages: each page writes the image as long as no other
\* has written it, and all but one find its stream empty.
SharedBitmap(s, b) == \E p, q \in DOMAIN saves[s].tasks :
    p # q /\ \A r \in {p, q} : \E i \in DOMAIN Notes(s, r) : Notes(s, r)[i].bitmap = b

\* A file that is saved holds what was asked: each page lists its old annotations without
\* the deleted ones, and the new ones, each once; each of them is the annotation asked
\* for, with its appearance, a free text has the font, and a stamp has its image and that
\* the soft mask; what was edited is replaced, what was deleted is free.  This is not so
\* of a file with a reference table whose structure tree is not updated, which has each
\* object twice (PagesAreReadable), nor of the image of a shared bitmap.
SavedIsReadBack ==
    \A s \in Saves : saves[s].file # <<>> /\ (document.stream \/ Updatable(s)) =>
        LET file == saves[s].file
        IN  \A p \in DOMAIN saves[s].tasks :
            LET notes  == Notes(s, p)
                listed == file[p].of
                new    == {i \in Undeleted(notes) : notes[i].ref = NoRef}
                ShowsImage(num, b) ==
                    LET image == file[num]
                    IN  /\ image.kind = "image" /\ image.of = b /\ image.full
                        /\ b \in Masked =>
                               file[image.mask] = [kind |-> "mask", of |-> b, full |-> TRUE]
                Shows(num, note) ==
                    /\ file[num].kind = "note" /\ file[num].of = note.id
                    /\ LET ap == file[file[num].ap]
                       IN  /\ ap.kind = "appearance" /\ ap.of = note.id
                           /\ note.freetext => file[ap.font] = [kind |-> "font"]
                           /\ note.bitmap # NoBitmap /\ ~SharedBitmap(s, note.bitmap) =>
                                  ShowsImage(ap.image, note.bitmap)
            IN  /\ file[p].kind = "page"
                /\ IsInjective(listed)
                /\ Len(listed) = Cardinality(new)
                       + (IF \E i \in DOMAIN notes : notes[i].deleted /\ notes[i].ref = Old[p] THEN 0 ELSE 1)
                /\ \A i \in new : \E num \in ToSet(listed) : Shows(num, notes[i])
                /\ \A i \in DOMAIN notes \ new :
                       IF notes[i].deleted THEN file[notes[i].ref].kind = "free"
                       ELSE Shows(notes[i].ref, notes[i])

\* Each page can be read from what is saved, by its tables, without scanning it for objects.
PagesAreReadable ==
    \A s \in Saves : saves[s].file # <<>> =>
        \A p \in DOMAIN saves[s].tasks : saves[s].file[p].kind = "page"

\* A structure tree is made only for a document that has none: "No structTreeRoot exists,
\* so we need to create one."
TreeIsKept ==
    \A s \in Saves : saves[s].file # <<>> /\ document.tree =>
        saves[s].file[Catalog] = Before(Catalog)

\* What is saved is the document, "the full data of the saved document": its pages can be
\* read, and its structure tree is there.
SavedIsTheDocument == PagesAreReadable /\ TreeIsKept
==============================================================================
