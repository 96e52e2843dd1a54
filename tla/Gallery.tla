------------------------------- MODULE Gallery -------------------------------
(***************************************************************************)
(* The images of listings: rows of listing_images in the database and the  *)
(* files of MEDIA_DIR (api/v1/catalog.py, media/local.py).  No transaction *)
(* spans the two, so the order of their changes decides what a failure     *)
(* between them leaves behind.                                             *)
(*                                                                         *)
(* upload_image is an async handler with no await after the body is read:  *)
(* the event loop runs one upload at a time.  The other handlers run in    *)
(* threads, overlap with it and with each other, and lock nothing between  *)
(* what they read and their commit.                                        *)
(***************************************************************************)
EXTENDS Naturals, FiniteSets, FiniteSetsExt

CONSTANTS
    Listings,
    Ids,        \* images; the generated storage_key of an upload is named like its image
    Slots,      \* bounds the requests under way, the upload aside
    MaxSort,    \* the largest sort_order that the column holds
    None

VARIABLES
    image,      \* listing_images
    file,       \* the keys that have a file
    upload,     \* the upload under way
    task,       \* the other requests under way
    spoiled,    \* files whose request failed before it was through with them
    borrowed    \* the keys that a reference was registered with, too

vars == <<image, file, upload, task, spoiled, borrowed>>

Sorts == 0..MaxSort

\* An upload is stored under a key of its own; a reference is registered with any key it is given.
\* None is a key that no upload has.
Row == [listing : Listings, sort : Sorts, primary : BOOLEAN, key : Ids \cup {None}]

ASSUME GalleryAssumption == MaxSort \in Nat /\ None \notin Ids \cup Nat \cup BOOLEAN \cup Row

\* What a request knows and means to write; None is nothing.
Work(Stages) ==
    [at : Stages, id : Ids \cup {None}, key : Ids \cup {None}, listing : Listings \cup {None},
     sort : 0..(MaxSort + 1) \cup {None}, primary : BOOLEAN \cup {None}]

Idle == [at |-> "idle", id |-> None, key |-> None, listing |-> None, sort |-> None, primary |-> None]

GalleryTypeOK ==
    /\ image \in [Ids -> Row \cup {None}]
    /\ file \subseteq Ids
    /\ upload \in Work({"idle", "count", "save", "insert", "undo"})
    /\ task \in [Slots -> Work({"idle", "add", "edit", "remove", "unlink"})]
    /\ spoiled \subseteq Ids
    /\ borrowed \subseteq Ids

Init ==
    /\ image = [x \in Ids |-> None]
    /\ file = {}
    /\ upload = Idle
    /\ task = [s \in Slots |-> Idle]
    /\ spoiled = {}
    /\ borrowed = {}

-----------------------------------------------------------------------------
RowsOf(l) == {x \in Ids : image[x] # None /\ image[x].listing = l}

\* max(sort_order) + 1, which nothing keeps below the limit of the column.
NextSort(l) == IF RowsOf(l) = {} THEN 0 ELSE Max({image[x].sort : x \in RowsOf(l)}) + 1

\* Seeded bug: a column that takes any number.
FitsAny(n) == TRUE

Fits(n) == n \in Sorts

\* uq_listing_images_listing_sort_order and uq_listing_images_one_primary.
Unique(rows) ==
    \A x, y \in Ids :
        x # y /\ rows[x] # None /\ rows[y] # None /\ rows[x].listing = rows[y].listing
            => rows[x].sort # rows[y].sort /\ ~(rows[x].primary /\ rows[y].primary)

\* The keys that the API shows (ImageOut).
Shown == {image[x].key : x \in {y \in Ids : image[y] # None}}

\* A new uuid: nobody has it, nor had it.
Fresh == {x \in Ids : /\ image[x] = None /\ upload.id # x
                      /\ x \notin file \cup spoiled \cup borrowed \cup Shown
                      /\ \A s \in Slots : x \notin {task[s].id, task[s].key}}

Inserted(x, w, key) ==
    [image EXCEPT ![x] = [listing |-> w.listing, sort |-> w.sort, primary |-> w.primary, key |-> key]]

-----------------------------------------------------------------------------
(* POST /listings/{id}/images/upload                                       *)

UploadReadsOrder(l) ==
    /\ upload.at = "idle"
    /\ upload' = [at |-> "count", id |-> None, key |-> None, listing |-> l, sort |-> NextSort(l), primary |-> None]
    /\ UNCHANGED <<image, file, task, spoiled, borrowed>>

UploadCounts ==
    /\ upload.at = "count"
    /\ upload' = [upload EXCEPT !.at = "save", !.primary = (RowsOf(upload.listing) = {})]
    /\ UNCHANGED <<image, file, task, spoiled, borrowed>>

\* save_bytes: the file is there before the row.
UploadSaves ==
    /\ upload.at = "save"
    /\ \E x \in Fresh :
          /\ file' = file \cup {x}
          /\ upload' = [upload EXCEPT !.at = "insert", !.id = x]
    /\ UNCHANGED <<image, task, spoiled, borrowed>>

UploadCommits ==
    /\ upload.at = "insert"
    /\ Fits(upload.sort)
    /\ LET new == Inserted(upload.id, upload, upload.id)
       IN /\ Unique(new)
          /\ image' = new
    /\ upload' = Idle
    /\ UNCHANGED <<file, task, spoiled, borrowed>>

\* IntegrityError: roll back, then take the file away again.
UploadConflicts ==
    /\ upload.at = "insert"
    /\ Fits(upload.sort)
    /\ ~Unique(Inserted(upload.id, upload, upload.id))
    /\ upload' = [upload EXCEPT !.at = "undo"]
    /\ UNCHANGED <<image, file, task, spoiled, borrowed>>

\* Seeded bug: the refused upload leaves its file.
UploadLeaves ==
    /\ upload.at = "undo"
    /\ upload' = Idle
    /\ UNCHANGED <<image, file, task, spoiled, borrowed>>

UploadUndoes ==
    /\ upload.at = "undo"
    /\ file' = file \ {upload.id}
    /\ upload' = Idle
    /\ UNCHANGED <<image, task, spoiled, borrowed>>

\* Any other error of the commit (a number out of range, a lost connection) passes the handler by,
\* and so does one of the removal.
UploadFails ==
    /\ upload.at \in {"insert", "undo"}
    /\ upload' = Idle
    /\ spoiled' = spoiled \cup {upload.id}
    /\ UNCHANGED <<image, file, task, borrowed>>

\* An error of the write: what was written so far stays.
UploadBreaks ==
    /\ upload.at = "save"
    /\ \E x \in Fresh : file' = file \cup {x} /\ spoiled' = spoiled \cup {x}
    /\ upload' = Idle
    /\ UNCHANGED <<image, task, borrowed>>

-----------------------------------------------------------------------------
(* The other requests.  An error rolls the transaction back (Fails).       *)

\* POST /listings/{id}/images registers a reference, with the key of another image if the caller
\* says so.
AddReads(s, l, sort, primary, key) ==
    /\ task[s].at = "idle"
    /\ key \in Shown \cup {None}
    /\ primary => \A x \in RowsOf(l) : ~image[x].primary
    /\ task' = [task EXCEPT ![s] = [at |-> "add", id |-> None, key |-> key, listing |-> l, primary |-> primary,
                                    sort |-> IF sort = None THEN NextSort(l) ELSE sort]]
    /\ UNCHANGED <<image, file, upload, spoiled, borrowed>>

AddCommits(s) ==
    /\ task[s].at = "add"
    /\ Fits(task[s].sort)
    /\ \E x \in Fresh :
          LET new == Inserted(x, task[s], task[s].key)
          IN /\ Unique(new)
             /\ image' = new
    /\ task' = [task EXCEPT ![s] = Idle]
    /\ borrowed' = borrowed \cup ({task[s].key} \ {None})
    /\ UNCHANGED <<file, upload, spoiled>>

\* PATCH /listings/{id}/images/{id}: only the columns that differ from the copy are written.
EditReads(s, x, sort, primary) ==
    /\ task[s].at = "idle"
    /\ image[x] # None
    /\ sort # None =>
          \A y \in RowsOf(image[x].listing) \ {x} : image[y].sort # sort
    /\ task' = [task EXCEPT ![s] =
                  [at |-> "edit", id |-> x, key |-> None, listing |-> image[x].listing,
                   sort |-> IF sort = image[x].sort THEN None ELSE sort,
                   primary |-> IF primary = image[x].primary THEN None ELSE primary]]
    /\ UNCHANGED <<image, file, upload, spoiled, borrowed>>

\* A new primary image demotes the old one in the same transaction.
Edited(w) ==
    [y \in Ids |->
        IF y = w.id
        THEN [image[y] EXCEPT !.sort = IF w.sort = None THEN @ ELSE w.sort,
                              !.primary = IF w.primary = None THEN @ ELSE w.primary]
        ELSE IF w.primary = TRUE /\ y \in RowsOf(w.listing) THEN [image[y] EXCEPT !.primary = FALSE]
        ELSE image[y]]

EditCommits(s) ==
    /\ task[s].at = "edit"
    /\ image[task[s].id] # None
    /\ task[s].sort # None => Fits(task[s].sort)
    /\ Unique(Edited(task[s]))
    /\ image' = Edited(task[s])
    /\ task' = [task EXCEPT ![s] = Idle]
    /\ UNCHANGED <<file, upload, spoiled, borrowed>>

\* DELETE /listings/{id}/images/{id}
RemoveReads(s, x) ==
    /\ task[s].at = "idle"
    /\ image[x] # None
    /\ task' = [task EXCEPT ![s] = [at |-> "remove", id |-> x, key |-> image[x].key, listing |-> None,
                                    sort |-> None, primary |-> None]]
    /\ UNCHANGED <<image, file, upload, spoiled, borrowed>>

\* Seeded bug: the file goes before the row.
RemoveFileFirst(s) ==
    /\ task[s].at = "remove"
    /\ file' = file \ {task[s].key}
    /\ task' = [task EXCEPT ![s].at = "unlink"]
    /\ UNCHANGED <<image, upload, spoiled, borrowed>>

\* Somebody else may have removed the row already: the rest is the same.
RemoveCommits(s) ==
    /\ task[s].at = "remove"
    /\ image' = [image EXCEPT ![task[s].id] = None]
    /\ task' = [task EXCEPT ![s].at = "unlink"]
    /\ UNCHANGED <<file, upload, spoiled, borrowed>>

\* delete(storage_key): whichever upload has the key; a file that is gone is skipped.
Unlink(s) ==
    /\ task[s].at = "unlink"
    /\ file' = file \ {task[s].key}
    /\ task' = [task EXCEPT ![s] = Idle]
    /\ UNCHANGED <<image, upload, spoiled, borrowed>>

\* The file cannot be removed.
UnlinkFails(s) ==
    /\ task[s].at = "unlink"
    /\ task[s].key \in file
    /\ spoiled' = spoiled \cup {task[s].key}
    /\ task' = [task EXCEPT ![s] = Idle]
    /\ UNCHANGED <<image, file, upload, borrowed>>

\* A unique index, a row that is gone, a number out of range, a lost connection.
Fails(s) ==
    /\ task[s].at \in {"add", "edit", "remove"}
    /\ task' = [task EXCEPT ![s] = Idle]
    /\ UNCHANGED <<image, file, upload, spoiled, borrowed>>

\* The API process stops anywhere and starts again: the requests are gone, rows and files stay.
Restart ==
    /\ spoiled' = spoiled \cup {x \in file : \/ upload.id = x
                                            \/ \E s \in Slots : task[s].at = "unlink" /\ task[s].key = x}
    /\ upload' = Idle
    /\ task' = [s \in Slots |-> Idle]
    /\ UNCHANGED <<image, file, borrowed>>

Upload ==
    \/ \E l \in Listings : UploadReadsOrder(l)
    \/ UploadCounts \/ UploadSaves \/ UploadCommits \/ UploadConflicts \/ UploadUndoes
    \/ UploadFails \/ UploadBreaks

Request(s) ==
    \/ \E l \in Listings, sort \in Sorts \cup {None}, primary \in BOOLEAN, key \in Ids \cup {None} :
          AddReads(s, l, sort, primary, key)
    \/ \E x \in Ids, sort \in Sorts \cup {None}, primary \in BOOLEAN \cup {None} :
          EditReads(s, x, sort, primary)
    \/ \E x \in Ids : RemoveReads(s, x)
    \/ AddCommits(s) \/ EditCommits(s) \/ RemoveCommits(s)
    \/ Unlink(s) \/ UnlinkFails(s) \/ Fails(s)

Next == Upload \/ (\E s \in Slots : Request(s)) \/ Restart

Spec == Init /\ [][Next]_vars

-----------------------------------------------------------------------------
\* An uploaded image that a listing shows has its file, wherever a request or the process stops,
\* as long as no reference was ever registered with its key: nothing but the removal of such a
\* reference takes a file away from under a row.
PictureOnDisk ==
    \A x \in Ids \ borrowed : image[x] # None /\ image[x].key = x => x \in file

\* A file without a row is on its way to its row or to its removal, or a failure left it there:
\* requests that run to their end, whatever they overlap with, leave none.
LeftOnlyByFailure ==
    \A x \in file :
        \/ image[x] # None
        \/ x \in spoiled
        \/ upload.id = x
        \/ \E s \in Slots : task[s].at = "unlink" /\ task[s].key = x

=============================================================================
