---------------------------- MODULE GalleryProofs ----------------------------
(***************************************************************************)
(* No listing shows an uploaded image whose file was taken away, unless a  *)
(* reference was registered with its key, for any number of images,        *)
(* listings and overlapping requests, and wherever the process stops.  The *)
(* file of an upload has no row, and nobody its key, until its row is      *)
(* committed; a row without a borrowed key stands for a file of its own or *)
(* for none, and the file goes only when the row is gone for good: an      *)
(* identifier is never given out twice.                                    *)
(***************************************************************************)
EXTENDS Gallery, WellFoundedInduction, TLAPS

Holding == {"insert", "undo"}

\* The file of the upload is there, its row is not, and nobody else knows the image or its key.
UploadHolds ==
    upload.at \in Holding =>
        /\ upload.id \in file
        /\ image[upload.id] = None
        /\ \A s \in Slots : task[s].id # upload.id /\ task[s].key # upload.id
        /\ \A x \in Ids : image[x] # None => image[x].key # upload.id

\* Whoever is about to remove a file has seen to it that the row is gone.
UnlinksDead ==
    \A s \in Slots : task[s].at = "unlink" => image[task[s].id] = None

\* A row, and whoever removes it, has the key of its own image or of no upload, or one that a
\* reference was registered with.
OwnOrBorrowed ==
    /\ \A x \in Ids : image[x] # None => image[x].key \in {None, x} \cup borrowed
    /\ \A s \in Slots :
          task[s].at \in {"remove", "unlink"} => task[s].key \in {None, task[s].id} \cup borrowed

\* Where an image has a file, its row and whoever removes the row have its key.
OwnFile ==
    /\ \A x \in file : image[x] # None => image[x].key = x
    /\ \A s \in Slots : task[s].at = "remove" /\ task[s].id \in file => task[s].key = task[s].id

\* What a request knows by the time it has come so far.
Filled ==
    /\ upload.at # "idle" => upload.listing \in Listings
    /\ upload.at \in {"save", "insert", "undo"} => upload.primary \in BOOLEAN
    /\ IF upload.at \in Holding THEN upload.id \in Ids ELSE upload.id = None
    /\ \A s \in Slots :
          /\ task[s].at \in {"edit", "remove", "unlink"} => task[s].id \in Ids
          /\ task[s].at = "add" => task[s].listing \in Listings /\ task[s].primary \in BOOLEAN

\* The inductive invariant.
FilesInv ==
    /\ GalleryTypeOK
    /\ Filled
    /\ PictureOnDisk
    /\ UploadHolds
    /\ UnlinksDead
    /\ OwnOrBorrowed
    /\ OwnFile

-----------------------------------------------------------------------------
\* None is neither an image, nor a number, nor a row.
LEMMA NoneIsNothing == /\ MaxSort \in Nat /\ None \notin Ids /\ None \notin Nat
                       /\ None \notin BOOLEAN /\ None \notin Row
  BY GalleryAssumption

\* A set of numbers up to a bound has a largest one: its distances to the bound have a smallest.
LEMMA LargestExists ==
  ASSUME NEW B \in Nat, NEW S, S \subseteq 0..B, S # {}
  PROVE \E m \in S : \A n \in S : m >= n
PROOF
  <1> DEFINE R == OpToRel(<, Nat)
             T == {d \in Nat : B - d \in S}
  <1>1. IsWellFoundedOn(R, Nat)
    BY NatLessThanWellFounded
  <1>2. T \subseteq Nat /\ T # {}
    <2>1. PICK n \in S : n \in 0..B OBVIOUS
    <2>2. B - n \in Nat /\ B - (B - n) = n BY <2>1
    <2>3. B - n \in T BY <2>2
    <2>4. QED BY <2>3
  <1>3. \E d \in T : \A e \in T : ~(<<e, d>> \in R)
    <2> HIDE DEF R, T
    <2> QED BY <1>1, <1>2, WFMin
  <1>4. PICK d \in T : \A e \in T : ~(<<e, d>> \in R)
    BY <1>3
  <1>5. \A e \in T : ~(e < d)
    BY <1>4 DEF OpToRel
  <1>6. \A n \in S : B - d >= n
    <2> TAKE n \in S
    <2>1. n \in 0..B OBVIOUS
    <2>2. B - n \in Nat /\ B - (B - n) = n BY <2>1
    <2>3. B - n \in T BY <2>2
    <2>4. ~(B - n < d) BY <2>3, <1>5
    <2>5. QED BY <2>1, <2>2, <2>4
  <1>7. QED BY <1>6

\* The next free number of a listing is at most one beyond the last.
LEMMA NextSortType ==
  ASSUME GalleryTypeOK, NEW l \in Listings
  PROVE NextSort(l) \in 0..(MaxSort + 1)
PROOF
  <1> DEFINE S == {image[x].sort : x \in RowsOf(l)}
  <1>1. S \subseteq 0..MaxSort
    BY NoneIsNothing DEF RowsOf, GalleryTypeOK, Row, Sorts
  <1>2. CASE RowsOf(l) = {}
    BY <1>2, NoneIsNothing DEF NextSort
  <1>3. CASE RowsOf(l) # {}
    <2>1. S # {} BY <1>3
    <2>2. \E m \in S : \A n \in S : m >= n
      BY <2>1, <1>1, NoneIsNothing, LargestExists
    <2>3. Max(S) \in S
      BY <2>2 DEF Max
    <2>4. QED
      BY <2>3, <1>1, <1>3, NoneIsNothing DEF NextSort
  <1>4. QED BY <1>2, <1>3

-----------------------------------------------------------------------------
(* Types.                                                                  *)

Uploads == Work({"idle", "count", "save", "insert", "undo"})
Tasks == Work({"idle", "add", "edit", "remove", "unlink"})

LEMMA IdleType == Idle \in Uploads /\ Idle \in Tasks
  BY DEF Idle, Uploads, Tasks, Work

\* What is inserted is a row.
LEMMA InsertedType ==
  ASSUME GalleryTypeOK, NEW x \in Ids, NEW w, NEW d \in Ids \cup {None},
         w.listing \in Listings, w.sort \in Sorts, w.primary \in BOOLEAN
  PROVE /\ Inserted(x, w, d) \in [Ids -> Row \cup {None}]
        /\ Inserted(x, w, d)[x] \in Row
        /\ Inserted(x, w, d)[x].key = d
        /\ \A y \in Ids \ {x} : Inserted(x, w, d)[y] = image[y]
  BY DEF Inserted, GalleryTypeOK, Row

\* An edit leaves a row a row, with the same key, and makes none.
LEMMA EditedType ==
  ASSUME GalleryTypeOK, NEW w \in Tasks, w.id \in Ids, image[w.id] # None,
         w.sort # None => Fits(w.sort)
  PROVE /\ Edited(w) \in [Ids -> Row \cup {None}]
        /\ \A y \in Ids : image[y] = None => Edited(w)[y] = None
        /\ \A y \in Ids : image[y] # None =>
              Edited(w)[y] \in Row /\ Edited(w)[y].key = image[y].key
PROOF
  <1>1. ASSUME NEW y \in Ids, image[y] # None
        PROVE Edited(w)[y] \in Row /\ Edited(w)[y].key = image[y].key
    <2>1. image[y] \in Row
      BY <1>1 DEF GalleryTypeOK
    <2>2. CASE y = w.id
      <3>1. w.primary \in BOOLEAN \cup {None}
        BY DEF Tasks, Work
      <3>2. /\ Edited(w)[y] = [image[y] EXCEPT !.sort = IF w.sort = None THEN @ ELSE w.sort,
                                  !.primary = IF w.primary = None THEN @ ELSE w.primary]
        BY <2>2 DEF Edited
      <3>3. (IF w.sort = None THEN image[y].sort ELSE w.sort) \in Sorts
        BY <2>1 DEF Fits, Row
      <3>4. (IF w.primary = None THEN image[y].primary ELSE w.primary) \in BOOLEAN
        BY <2>1, <3>1 DEF Row
      <3>5. QED BY <2>1, <3>2, <3>3, <3>4 DEF Row
    <2>3. CASE y # w.id /\ w.primary = TRUE /\ y \in RowsOf(w.listing)
      <3>1. Edited(w)[y] = [image[y] EXCEPT !.primary = FALSE]
        BY <2>3 DEF Edited
      <3>2. QED BY <2>1, <3>1 DEF Row
    <2>4. CASE y # w.id /\ ~(w.primary = TRUE /\ y \in RowsOf(w.listing))
      BY <2>1, <2>4 DEF Edited
    <2>5. QED BY <2>2, <2>3, <2>4
  <1>2. ASSUME NEW y \in Ids, image[y] = None PROVE Edited(w)[y] = None
    BY <1>2 DEF Edited, RowsOf
  <1>3. Edited(w) = [y \in Ids |-> Edited(w)[y]]
    BY DEF Edited
  <1>4. QED BY <1>1, <1>2, <1>3

-----------------------------------------------------------------------------
(* The requests one by one.                                                *)

LEMMA InitOK == Init => FilesInv
  BY IdleType DEF Init, FilesInv, GalleryTypeOK, Filled, Holding, PictureOnDisk, UploadHolds,
                  UnlinksDead, OwnOrBorrowed, OwnFile, Uploads, Tasks, Idle

\* A new image and its key are unknown to everyone.
LEMMA FreshUnknown ==
  ASSUME NEW x \in Fresh
  PROVE /\ x \in Ids /\ image[x] = None /\ x \notin file /\ upload.id # x
        /\ \A s \in Slots : task[s].id # x /\ task[s].key # x
        /\ \A y \in Ids : image[y] # None => image[y].key # x
PROOF
  <1>1. x \notin Shown /\ x \in Ids /\ image[x] = None /\ x \notin file /\ upload.id # x
    BY DEF Fresh
  <1>2. \A s \in Slots : task[s].id # x /\ task[s].key # x
    BY DEF Fresh
  <1>3. \A y \in Ids : image[y] # None => image[y].key \in Shown
    BY DEF Shown
  <1>4. QED BY <1>1, <1>2, <1>3

LEMMA UploadReadsOrderStep ==
  ASSUME FilesInv, NEW l \in Listings, UploadReadsOrder(l)
  PROVE FilesInv'
PROOF
  <1>1. NextSort(l) \in 0..(MaxSort + 1)
    BY NextSortType DEF FilesInv
  <1>2. upload' \in Uploads
    BY <1>1 DEF UploadReadsOrder, Uploads, Work
  <1>3. GalleryTypeOK'
    BY <1>2 DEF UploadReadsOrder, FilesInv, GalleryTypeOK, Uploads
  <1>4. QED
    BY <1>3 DEF UploadReadsOrder, FilesInv, Filled, Holding, PictureOnDisk, UploadHolds, UnlinksDead,
           OwnOrBorrowed, OwnFile

LEMMA UploadCountsStep ==
  ASSUME FilesInv, UploadCounts
  PROVE FilesInv'
PROOF
  <1>1. upload \in Uploads
    BY DEF FilesInv, GalleryTypeOK, Uploads
  <1>2. (RowsOf(upload.listing) = {}) \in BOOLEAN
    OBVIOUS
  <1>3. /\ upload' \in Uploads /\ upload'.at = "save" /\ upload'.listing = upload.listing
        /\ upload'.primary \in BOOLEAN
    BY <1>1, <1>2 DEF UploadCounts, Uploads, Work
  <1>4. GalleryTypeOK'
    BY <1>3 DEF UploadCounts, FilesInv, GalleryTypeOK, Uploads
  <1>5. QED
    BY <1>3, <1>4 DEF UploadCounts, FilesInv, Filled, Holding, PictureOnDisk, UploadHolds, UnlinksDead,
           OwnOrBorrowed, OwnFile

LEMMA UploadSavesStep ==
  ASSUME FilesInv, UploadSaves
  PROVE FilesInv'
PROOF
  <1>1. PICK x \in Fresh : file' = file \cup {x} /\ upload' = [upload EXCEPT !.at = "insert", !.id = x]
    BY DEF UploadSaves
  <1>2. /\ x \in Ids /\ image[x] = None
        /\ \A s \in Slots : task[s].id # x /\ task[s].key # x
        /\ \A y \in Ids : image[y] # None => image[y].key # x
    BY FreshUnknown
  <1>3. upload \in Uploads
    BY DEF FilesInv, GalleryTypeOK, Uploads
  <1>4. /\ upload' \in Uploads /\ upload'.at = "insert" /\ upload'.id = x
        /\ upload'.listing = upload.listing /\ upload'.primary = upload.primary
    BY <1>1, <1>2, <1>3 DEF Uploads, Work
  <1>5. GalleryTypeOK'
    BY <1>1, <1>2, <1>4 DEF UploadSaves, FilesInv, GalleryTypeOK, Uploads
  <1>6. Filled' /\ UploadHolds'
    BY <1>1, <1>2, <1>4 DEF UploadSaves, FilesInv, Filled, Holding, UploadHolds
  <1>7. PictureOnDisk' /\ UnlinksDead' /\ OwnOrBorrowed'
    BY <1>1 DEF UploadSaves, FilesInv, PictureOnDisk, UnlinksDead, OwnOrBorrowed
  <1>8. OwnFile'
    BY <1>1, <1>2 DEF UploadSaves, FilesInv, OwnFile
  <1>9. QED BY <1>5, <1>6, <1>7, <1>8 DEF FilesInv

LEMMA UploadBreaksStep ==
  ASSUME FilesInv, UploadBreaks
  PROVE FilesInv'
PROOF
  <1>1. PICK x \in Fresh : file' = file \cup {x} /\ spoiled' = spoiled \cup {x}
    BY DEF UploadBreaks
  <1>2. x \in Ids /\ image[x] = None /\ \A s \in Slots : task[s].id # x
    BY FreshUnknown
  <1>3. upload' = Idle /\ UNCHANGED <<image, task, borrowed>>
    BY DEF UploadBreaks
  <1>4. GalleryTypeOK'
    BY <1>1, <1>2, <1>3, IdleType DEF FilesInv, GalleryTypeOK, Uploads
  <1>5. Filled' /\ UploadHolds'
    BY <1>3 DEF FilesInv, Filled, Holding, UploadHolds, Idle
  <1>6. PictureOnDisk' /\ UnlinksDead' /\ OwnOrBorrowed'
    BY <1>1, <1>3 DEF FilesInv, PictureOnDisk, UnlinksDead, OwnOrBorrowed
  <1>7. OwnFile'
    BY <1>1, <1>2, <1>3 DEF FilesInv, OwnFile
  <1>8. QED BY <1>4, <1>5, <1>6, <1>7 DEF FilesInv

LEMMA UploadCommitsStep ==
  ASSUME FilesInv, UploadCommits
  PROVE FilesInv'
PROOF
  <1> DEFINE x == upload.id
  <1>1. /\ x \in Ids /\ x \in file /\ image[x] = None /\ \A s \in Slots : task[s].id # x
        /\ upload.listing \in Listings /\ upload.primary \in BOOLEAN /\ upload.sort \in Sorts
    BY DEF UploadCommits, FilesInv, Filled, Holding, UploadHolds, Fits
  <1>2. /\ image' \in [Ids -> Row \cup {None}]
        /\ image'[x].key = x
        /\ \A y \in Ids \ {x} : image'[y] = image[y]
    <2>1. image' = Inserted(x, upload, x)
      BY DEF UploadCommits
    <2>2. GalleryTypeOK
      BY DEF FilesInv
    <2>3. /\ Inserted(x, upload, x) \in [Ids -> Row \cup {None}]
          /\ Inserted(x, upload, x)[x].key = x
          /\ \A y \in Ids \ {x} : Inserted(x, upload, x)[y] = image[y]
      BY <1>1, <2>2, InsertedType
    <2>4. QED BY <2>1, <2>3
  <1>3. upload' = Idle /\ UNCHANGED <<file, task, spoiled, borrowed>>
    BY DEF UploadCommits
  <1> HIDE DEF x
  <1>4. GalleryTypeOK'
    BY <1>2, <1>3, IdleType DEF FilesInv, GalleryTypeOK, Uploads
  <1>5. PictureOnDisk'
    BY <1>1, <1>2, <1>3 DEF FilesInv, PictureOnDisk
  <1>6. UnlinksDead'
    BY <1>1, <1>2, <1>3 DEF FilesInv, UnlinksDead, Filled
  <1>7. OwnOrBorrowed' /\ OwnFile'
    BY <1>1, <1>2, <1>3 DEF FilesInv, GalleryTypeOK, OwnOrBorrowed, OwnFile
  <1>8. Filled' /\ UploadHolds'
    BY <1>3 DEF FilesInv, Filled, Holding, UploadHolds, Idle
  <1>9. QED BY <1>4, <1>5, <1>6, <1>7, <1>8 DEF FilesInv

\* The three other ends of an upload that has its file.
LEMMA UploadEndsStep ==
  ASSUME FilesInv, UploadConflicts \/ UploadUndoes \/ UploadFails
  PROVE FilesInv'
PROOF
  <1>1. upload \in Uploads
    BY DEF FilesInv, GalleryTypeOK, Uploads
  <1>2. CASE UploadConflicts
    <2>1. /\ upload' \in Uploads /\ upload'.at = "undo" /\ upload'.id = upload.id
          /\ upload'.listing = upload.listing /\ upload'.primary = upload.primary
      BY <1>1, <1>2 DEF UploadConflicts, Uploads, Work
    <2>2. upload.at = "insert" /\ UNCHANGED <<image, file, task, spoiled, borrowed>>
      BY <1>2 DEF UploadConflicts
    <2>3. GalleryTypeOK'
      BY <2>1, <2>2 DEF FilesInv, GalleryTypeOK, Uploads
    <2>4. Filled' /\ UploadHolds'
      BY <2>1, <2>2 DEF FilesInv, Filled, Holding, UploadHolds
    <2>5. QED
      BY <2>2, <2>3, <2>4 DEF FilesInv, PictureOnDisk, UnlinksDead, OwnOrBorrowed, OwnFile
  <1>3. CASE UploadUndoes
    <2>1. image[upload.id] = None
      BY <1>3 DEF UploadUndoes, FilesInv, UploadHolds, Holding
    <2>2. /\ upload' = Idle /\ file' = file \ {upload.id}
          /\ UNCHANGED <<image, task, spoiled, borrowed>>
      BY <1>3 DEF UploadUndoes
    <2>3. PictureOnDisk' /\ OwnFile'
      BY <2>1, <2>2 DEF FilesInv, PictureOnDisk, OwnFile
    <2>4. GalleryTypeOK'
      BY <2>2, IdleType DEF FilesInv, GalleryTypeOK, Uploads
    <2>5. QED
      BY <2>2, <2>3, <2>4 DEF FilesInv, Filled, Holding, UploadHolds, UnlinksDead, OwnOrBorrowed, Idle
  <1>4. CASE UploadFails
    <2>1. upload.id \in Ids
      BY <1>4 DEF UploadFails, FilesInv, Filled, Holding
    <2>2. /\ upload' = Idle /\ spoiled' = spoiled \cup {upload.id}
          /\ UNCHANGED <<image, file, task, borrowed>>
      BY <1>4 DEF UploadFails
    <2>3. GalleryTypeOK'
      BY <2>1, <2>2, IdleType DEF FilesInv, GalleryTypeOK, Uploads
    <2>4. QED
      BY <2>2, <2>3 DEF FilesInv, Filled, Holding, PictureOnDisk, UploadHolds, UnlinksDead,
                        OwnOrBorrowed, OwnFile, Idle
  <1>5. QED BY <1>2, <1>3, <1>4

\* A request that starts: it knows an image that has a row, with its key, or a key that a row has.
LEMMA ReadsStep ==
  ASSUME FilesInv, NEW s \in Slots, NEW w \in Tasks,
         w.at \in {"add", "edit", "remove"},
         w.at = "add" => w.id = None /\ w.listing \in Listings /\ w.primary \in BOOLEAN,
         w.at # "add" => w.id \in Ids /\ image[w.id] # None,
         w.at = "remove" => w.key = image[w.id].key,
         w.key \in Shown \cup {None},
         task' = [task EXCEPT ![s] = w],
         UNCHANGED <<image, file, upload, spoiled, borrowed>>
  PROVE FilesInv'
PROOF
  <1>1. GalleryTypeOK'
    BY DEF FilesInv, GalleryTypeOK, Tasks
  <1>2. \A t \in Slots : task'[t] = IF t = s THEN w ELSE task[t]
    BY DEF FilesInv, GalleryTypeOK
  <1>3. Filled'
    BY <1>2 DEF FilesInv, Filled
  <1>4. UploadHolds'
    <2> SUFFICES ASSUME upload.at \in Holding PROVE UploadHolds'
      BY DEF UploadHolds
    <2>1. /\ upload.id \in Ids /\ upload.id \in file /\ image[upload.id] = None
          /\ \A t \in Slots : task[t].id # upload.id /\ task[t].key # upload.id
          /\ \A x \in Ids : image[x] # None => image[x].key # upload.id
      BY DEF FilesInv, UploadHolds, Filled
    <2>2. upload.id \notin Shown
      BY <2>1 DEF Shown
    <2>3. w.id # upload.id /\ w.key # upload.id
      BY <2>1, <2>2, NoneIsNothing
    <2>4. QED BY <1>2, <2>1, <2>3 DEF UploadHolds
  <1>5. PictureOnDisk' /\ UnlinksDead'
    BY <1>2 DEF FilesInv, PictureOnDisk, UnlinksDead
  <1>6. OwnOrBorrowed' /\ OwnFile'
    <2>1. w.at = "remove" => w.key \in {None, w.id} \cup borrowed
      BY DEF FilesInv, OwnOrBorrowed
    <2>2. w.at = "remove" /\ w.id \in file => w.key = w.id
      BY DEF FilesInv, OwnFile
    <2>3. w.at # "unlink"
      OBVIOUS
    <2>4. QED BY <1>2, <2>1, <2>2, <2>3 DEF FilesInv, OwnOrBorrowed, OwnFile
  <1>7. QED BY <1>1, <1>3, <1>4, <1>5, <1>6 DEF FilesInv

LEMMA AddReadsStep ==
  ASSUME FilesInv, NEW s \in Slots, NEW l \in Listings, NEW sort \in Sorts \cup {None},
         NEW primary \in BOOLEAN, NEW key \in Ids \cup {None}, AddReads(s, l, sort, primary, key)
  PROVE FilesInv'
PROOF
  <1> DEFINE n == IF sort = None THEN NextSort(l) ELSE sort
             w == [at |-> "add", id |-> None, key |-> key, listing |-> l, primary |-> primary, sort |-> n]
  <1>1. n \in 0..(MaxSort + 1)
    BY NextSortType, NoneIsNothing DEF FilesInv, Sorts
  <1>2. w \in Tasks
    BY <1>1 DEF Tasks, Work
  <1>3. task' = [task EXCEPT ![s] = w] /\ UNCHANGED <<image, file, upload, spoiled, borrowed>>
    BY DEF AddReads
  <1>4. /\ w.at = "add" /\ w.id = None /\ w.listing \in Listings /\ w.primary \in BOOLEAN
        /\ w.key \in Shown \cup {None}
    BY DEF AddReads
  <1> HIDE DEF w
  <1>5. QED BY <1>2, <1>3, <1>4, ReadsStep

LEMMA EditReadsStep ==
  ASSUME FilesInv, NEW s \in Slots, NEW x \in Ids, NEW sort \in Sorts \cup {None},
         NEW primary \in BOOLEAN \cup {None}, EditReads(s, x, sort, primary)
  PROVE FilesInv'
PROOF
  <1> DEFINE n == IF sort = image[x].sort THEN None ELSE sort
             q == IF primary = image[x].primary THEN None ELSE primary
             w == [at |-> "edit", id |-> x, key |-> None, listing |-> image[x].listing, sort |-> n, primary |-> q]
  <1>1. image[x] # None /\ image[x] \in Row
    BY DEF EditReads, FilesInv, GalleryTypeOK
  <1>2. n \in 0..(MaxSort + 1) \cup {None} /\ q \in BOOLEAN \cup {None} /\ image[x].listing \in Listings
    BY <1>1, NoneIsNothing DEF Sorts, Row
  <1>3. task' = [task EXCEPT ![s] = w] /\ UNCHANGED <<image, file, upload, spoiled, borrowed>>
    BY DEF EditReads
  <1> HIDE DEF n, q
  <1>4. w \in Tasks
    BY <1>2 DEF Tasks, Work
  <1>5. w.at = "edit" /\ w.id \in Ids /\ image[w.id] # None /\ w.key = None
    BY <1>1
  <1> HIDE DEF w
  <1>6. QED BY <1>3, <1>4, <1>5, ReadsStep

LEMMA RemoveReadsStep ==
  ASSUME FilesInv, NEW s \in Slots, NEW x \in Ids, RemoveReads(s, x)
  PROVE FilesInv'
PROOF
  <1> DEFINE w == [at |-> "remove", id |-> x, key |-> image[x].key, listing |-> None, sort |-> None,
                   primary |-> None]
  <1>1. /\ task' = [task EXCEPT ![s] = w] /\ UNCHANGED <<image, file, upload, spoiled, borrowed>>
        /\ image[x] # None
    BY DEF RemoveReads
  <1>2. image[x].key \in Ids \cup {None} /\ image[x].key \in Shown
    BY <1>1 DEF FilesInv, GalleryTypeOK, Row, Shown
  <1>3. w \in Tasks /\ w.at = "remove" /\ w.id = x /\ w.key = image[x].key
    BY <1>2 DEF Tasks, Work
  <1> HIDE DEF w
  <1>4. QED BY <1>1, <1>2, <1>3, ReadsStep

\* A slot becomes idle and the upload goes on.
LEMMA IdleStep ==
  ASSUME FilesInv, NEW s \in Slots, task' = [task EXCEPT ![s] = Idle],
         UNCHANGED upload, borrowed \subseteq borrowed', file' \subseteq file
  PROVE /\ task' \in [Slots -> Tasks]
        /\ \A t \in Slots : task'[t] = IF t = s THEN Idle ELSE task[t]
        /\ Filled'
        /\ upload.at \in Holding =>
              \A t \in Slots : task'[t].id # upload.id /\ task'[t].key # upload.id
        /\ \A t \in Slots :
              /\ task'[t].at \in {"remove", "unlink"} => task'[t].key \in {None, task'[t].id} \cup borrowed'
              /\ task'[t].at = "remove" /\ task'[t].id \in file' => task'[t].key = task'[t].id
PROOF
  <1>1. /\ task' \in [Slots -> Tasks]
        /\ \A t \in Slots : task'[t] = IF t = s THEN Idle ELSE task[t]
    BY IdleType DEF FilesInv, GalleryTypeOK, Tasks
  <1>2. Idle.at = "idle" /\ Idle.id = None /\ Idle.key = None
    BY DEF Idle
  <1>3. Filled'
    BY <1>1, <1>2 DEF FilesInv, Filled
  <1>4. ASSUME upload.at \in Holding, NEW t \in Slots
        PROVE task'[t].id # upload.id /\ task'[t].key # upload.id
    BY <1>1, <1>2, <1>4, NoneIsNothing DEF FilesInv, UploadHolds, Filled
  <1>5. ASSUME NEW t \in Slots
        PROVE /\ task'[t].at \in {"remove", "unlink"} => task'[t].key \in {None, task'[t].id} \cup borrowed'
              /\ task'[t].at = "remove" /\ task'[t].id \in file' => task'[t].key = task'[t].id
    BY <1>1, <1>2 DEF FilesInv, OwnOrBorrowed, OwnFile
  <1>6. QED BY <1>1, <1>3, <1>4, <1>5

LEMMA AddCommitsStep ==
  ASSUME FilesInv, NEW s \in Slots, AddCommits(s)
  PROVE FilesInv'
PROOF
  <1> DEFINE k == task[s].key
  <1>1. PICK x \in Fresh : image' = Inserted(x, task[s], k)
    BY DEF AddCommits
  <1>2. /\ x \in Ids /\ image[x] = None /\ x \notin file /\ upload.id # x
        /\ \A t \in Slots : task[t].id # x
    BY FreshUnknown
  <1>3. /\ task[s].listing \in Listings /\ task[s].primary \in BOOLEAN /\ task[s].sort \in Sorts
        /\ k \in Ids \cup {None}
    BY DEF AddCommits, FilesInv, Filled, Fits, GalleryTypeOK, Work
  <1>4. GalleryTypeOK
    BY DEF FilesInv
  <1>5. /\ image' \in [Ids -> Row \cup {None}]
        /\ image'[x].key = k
        /\ \A y \in Ids \ {x} : image'[y] = image[y]
    <2>1. /\ Inserted(x, task[s], k) \in [Ids -> Row \cup {None}]
          /\ Inserted(x, task[s], k)[x].key = k
          /\ \A y \in Ids \ {x} : Inserted(x, task[s], k)[y] = image[y]
      BY <1>2, <1>3, <1>4, InsertedType
    <2>2. QED BY <1>1, <2>1
  <1>6. /\ task' = [task EXCEPT ![s] = Idle] /\ UNCHANGED <<file, upload, spoiled>>
        /\ borrowed' = borrowed \cup ({k} \ {None})
    BY DEF AddCommits
  <1>7. upload.at \in Holding => k # upload.id
    BY DEF FilesInv, UploadHolds
  <1> HIDE DEF k
  <1>8. GalleryTypeOK'
    BY <1>3, <1>5, <1>6, IdleStep DEF FilesInv, GalleryTypeOK, Tasks
  <1>9. PictureOnDisk'
    <2> SUFFICES ASSUME NEW y \in Ids \ borrowed', image'[y] # None, image'[y].key = y
                 PROVE y \in file
      BY <1>6 DEF PictureOnDisk
    <2>1. y \notin borrowed BY <1>6
    <2>2. y # x
      BY <1>3, <1>5, <1>6, NoneIsNothing
    <2>3. QED BY <1>5, <2>1, <2>2 DEF FilesInv, PictureOnDisk
  <1>10. UploadHolds' /\ Filled'
    BY <1>2, <1>5, <1>6, <1>7, IdleStep DEF FilesInv, UploadHolds, Filled
  <1>11. UnlinksDead'
    BY <1>2, <1>5, <1>6, IdleStep DEF FilesInv, UnlinksDead, Filled, Idle
  <1>12. OwnOrBorrowed' /\ OwnFile'
    <2>1. \A y \in Ids : image'[y] # None => image'[y].key \in {None, y} \cup borrowed'
      BY <1>5, <1>6 DEF FilesInv, OwnOrBorrowed
    <2>2. \A y \in file : image'[y] # None => image'[y].key = y
      BY <1>2, <1>5 DEF FilesInv, GalleryTypeOK, OwnFile
    <2>3. \A t \in Slots :
              /\ task'[t].at \in {"remove", "unlink"} => task'[t].key \in {None, task'[t].id} \cup borrowed'
              /\ task'[t].at = "remove" /\ task'[t].id \in file => task'[t].key = task'[t].id
      BY <1>6, IdleStep
    <2>4. QED BY <1>6, <2>1, <2>2, <2>3 DEF OwnOrBorrowed, OwnFile
  <1>13. QED BY <1>8, <1>9, <1>10, <1>11, <1>12 DEF FilesInv

LEMMA EditCommitsStep ==
  ASSUME FilesInv, NEW s \in Slots, EditCommits(s)
  PROVE FilesInv'
PROOF
  <1>1. task[s] \in Tasks /\ task[s].id \in Ids /\ GalleryTypeOK
    BY DEF EditCommits, FilesInv, Filled, GalleryTypeOK, Tasks
  <1>2. /\ image[task[s].id] # None /\ (task[s].sort # None => Fits(task[s].sort))
        /\ image' = Edited(task[s])
    BY DEF EditCommits
  <1>3. /\ image' \in [Ids -> Row \cup {None}]
        /\ \A y \in Ids : image[y] = None => image'[y] = None
        /\ \A y \in Ids : image[y] # None => image'[y].key = image[y].key
    BY <1>1, <1>2, EditedType, Zenon
  <1>4. task' = [task EXCEPT ![s] = Idle] /\ UNCHANGED <<file, upload, spoiled, borrowed>>
    BY DEF EditCommits
  <1>5. GalleryTypeOK'
    BY <1>3, <1>4, IdleStep DEF FilesInv, GalleryTypeOK, Tasks
  <1>6. PictureOnDisk'
    BY <1>3, <1>4 DEF FilesInv, PictureOnDisk
  <1>7. UploadHolds' /\ Filled'
    BY <1>3, <1>4, IdleStep DEF FilesInv, UploadHolds, Filled
  <1>8. UnlinksDead'
    BY <1>3, <1>4, IdleStep DEF FilesInv, UnlinksDead, Filled, Idle
  <1>9. OwnOrBorrowed' /\ OwnFile'
    BY <1>3, <1>4, IdleStep DEF FilesInv, GalleryTypeOK, OwnOrBorrowed, OwnFile
  <1>10. QED BY <1>5, <1>6, <1>7, <1>8, <1>9 DEF FilesInv

LEMMA RemoveCommitsStep ==
  ASSUME FilesInv, NEW s \in Slots, RemoveCommits(s)
  PROVE FilesInv'
PROOF
  <1> DEFINE w == [task[s] EXCEPT !.at = "unlink"]
  <1>1. task[s] \in Tasks /\ task[s].id \in Ids /\ task[s].at = "remove"
    BY DEF RemoveCommits, FilesInv, Filled, GalleryTypeOK, Tasks
  <1>2. w \in Tasks /\ w.at = "unlink" /\ w.id = task[s].id /\ w.key = task[s].key
    BY <1>1 DEF Tasks, Work
  <1>3. \A t \in Slots : task'[t] = IF t = s THEN w ELSE task[t]
    BY DEF RemoveCommits, FilesInv, GalleryTypeOK
  <1>4. task' \in [Slots -> Tasks]
    BY <1>2 DEF RemoveCommits, FilesInv, GalleryTypeOK, Tasks
  <1>5. /\ image' \in [Ids -> Row \cup {None}]
        /\ \A y \in Ids : image'[y] = IF y = task[s].id THEN None ELSE image[y]
    BY <1>1 DEF RemoveCommits, FilesInv, GalleryTypeOK
  <1>6. UNCHANGED <<file, upload, spoiled, borrowed>>
    BY DEF RemoveCommits
  <1> HIDE DEF w
  <1>7. GalleryTypeOK'
    BY <1>4, <1>5, <1>6 DEF FilesInv, GalleryTypeOK, Tasks
  <1>8. PictureOnDisk'
    BY <1>5, <1>6 DEF FilesInv, PictureOnDisk
  <1>9. Filled'
    BY <1>1, <1>2, <1>3, <1>6 DEF FilesInv, Filled
  <1>10. UploadHolds'
    BY <1>2, <1>3, <1>5, <1>6 DEF FilesInv, UploadHolds, Filled
  <1>11. UnlinksDead'
    BY <1>1, <1>2, <1>3, <1>5 DEF FilesInv, UnlinksDead, Filled
  <1>12. OwnOrBorrowed' /\ OwnFile'
    BY <1>1, <1>2, <1>3, <1>5, <1>6 DEF FilesInv, GalleryTypeOK, OwnOrBorrowed, OwnFile
  <1>13. QED BY <1>7, <1>8, <1>9, <1>10, <1>11, <1>12 DEF FilesInv

LEMMA UnlinkStep ==
  ASSUME FilesInv, NEW s \in Slots, Unlink(s)
  PROVE FilesInv'
PROOF
  <1> DEFINE k == task[s].key
  <1>1. /\ task' = [task EXCEPT ![s] = Idle] /\ UNCHANGED <<image, upload, spoiled, borrowed>>
        /\ file' = file \ {k}
    BY DEF Unlink
  <1>2. image[task[s].id] = None /\ k \in {None, task[s].id} \cup borrowed
    BY DEF Unlink, FilesInv, UnlinksDead, OwnOrBorrowed
  <1>3. upload.at \in Holding => k # upload.id
    BY DEF FilesInv, UploadHolds
  <1> HIDE DEF k
  <1>4. GalleryTypeOK'
    BY <1>1, IdleStep DEF FilesInv, GalleryTypeOK, Tasks
  <1>5. PictureOnDisk'
    <2> SUFFICES ASSUME NEW y \in Ids \ borrowed, image[y] # None, image[y].key = y
                 PROVE y \in file /\ y # k
      BY <1>1 DEF PictureOnDisk
    <2>1. y # k
      BY <1>2, NoneIsNothing
    <2>2. QED BY <2>1 DEF FilesInv, PictureOnDisk
  <1>6. UploadHolds' /\ Filled'
    BY <1>1, <1>3, IdleStep DEF FilesInv, UploadHolds
  <1>7. UnlinksDead'
    BY <1>1, IdleStep DEF FilesInv, UnlinksDead, Idle
  <1>8. OwnOrBorrowed' /\ OwnFile'
    BY <1>1, IdleStep DEF FilesInv, OwnOrBorrowed, OwnFile
  <1>9. QED BY <1>4, <1>5, <1>6, <1>7, <1>8 DEF FilesInv

\* A request that fails.
LEMMA FailsStep ==
  ASSUME FilesInv, NEW s \in Slots, Fails(s) \/ UnlinkFails(s)
  PROVE FilesInv'
PROOF
  <1>1. /\ task' = [task EXCEPT ![s] = Idle] /\ UNCHANGED <<image, file, upload, borrowed>>
        /\ spoiled' = spoiled \/ (spoiled' = spoiled \cup {task[s].key} /\ task[s].key \in file)
    BY DEF Fails, UnlinkFails
  <1>2. spoiled' \subseteq Ids
    BY <1>1 DEF FilesInv, GalleryTypeOK
  <1>3. GalleryTypeOK'
    BY <1>1, <1>2, IdleStep DEF FilesInv, GalleryTypeOK, Tasks
  <1>4. PictureOnDisk' /\ UploadHolds' /\ Filled' /\ UnlinksDead'
    BY <1>1, IdleStep DEF FilesInv, PictureOnDisk, UploadHolds, UnlinksDead, Idle
  <1>5. OwnOrBorrowed' /\ OwnFile'
    BY <1>1, IdleStep DEF FilesInv, OwnOrBorrowed, OwnFile
  <1>6. QED BY <1>3, <1>4, <1>5 DEF FilesInv

LEMMA RestartStep ==
  ASSUME FilesInv, Restart
  PROVE FilesInv'
PROOF
  <1>1. GalleryTypeOK'
    BY IdleType DEF Restart, FilesInv, GalleryTypeOK, Uploads, Tasks
  <1>2. /\ upload' = Idle /\ UNCHANGED <<image, file, borrowed>>
        /\ \A s \in Slots : task'[s] = Idle
    BY DEF Restart
  <1>3. Filled' /\ PictureOnDisk' /\ UploadHolds' /\ UnlinksDead' /\ OwnOrBorrowed' /\ OwnFile'
    BY <1>2 DEF FilesInv, Filled, Holding, PictureOnDisk, UploadHolds, UnlinksDead, OwnOrBorrowed,
                OwnFile, Idle
  <1>4. QED BY <1>1, <1>3 DEF FilesInv

LEMMA RequestStep ==
  ASSUME FilesInv, NEW s \in Slots, Request(s)
  PROVE FilesInv'
  BY AddReadsStep, EditReadsStep, RemoveReadsStep, AddCommitsStep, EditCommitsStep, RemoveCommitsStep,
     UnlinkStep, FailsStep, Zenon DEF Request

LEMMA UploadStep ==
  ASSUME FilesInv, Upload
  PROVE FilesInv'
  BY UploadReadsOrderStep, UploadCountsStep, UploadSavesStep, UploadBreaksStep, UploadCommitsStep,
     UploadEndsStep, Zenon
     DEF Upload

-----------------------------------------------------------------------------
\* The rows of listing_images, the files of MEDIA_DIR and the image handlers of catalog.py under
\* way agree, whatever storage_key a reference is registered with: the inductive invariant.
THEOREM FilesCorrect == Spec => []FilesInv
PROOF
  <1>1. ASSUME FilesInv, [Next]_vars PROVE FilesInv'
    <2>1. CASE Next
      BY <1>1, <2>1, UploadStep, RequestStep, RestartStep, Zenon DEF Next
    <2>2. CASE UNCHANGED vars
      BY <1>1, <2>2 DEF vars, FilesInv, GalleryTypeOK, Filled, PictureOnDisk, UploadHolds, UnlinksDead,
                           OwnOrBorrowed, OwnFile
    <2>3. QED BY <1>1, <2>1, <2>2
  <1>2. QED BY <1>1, InitOK, PTL DEF Spec

\* Rows, files and what the image handlers of catalog.py have read are well typed.
THEOREM TypeCorrect == Spec => []GalleryTypeOK
PROOF
  <1>1. FilesInv => GalleryTypeOK BY DEF FilesInv
  <1>2. QED BY <1>1, FilesCorrect, PTL

\* An uploaded image that has a row has its file, wherever upload_image, remove_image or the
\* process stops, unless add_image was ever given its key: the file is written before the row
\* and unlinked after it, and remove_image unlinks no key that is not borrowed but its own.
THEOREM PictureCorrect == Spec => []PictureOnDisk
PROOF
  <1>1. FilesInv => PictureOnDisk BY DEF FilesInv
  <1>2. QED BY <1>1, FilesCorrect, PTL

-----------------------------------------------------------------------------
(* Files without a row.                                                    *)

LEMMA UploadLeavesNothing ==
  ASSUME FilesInv, LeftOnlyByFailure, Upload
  PROVE LeftOnlyByFailure'
PROOF
  <1>1. upload.at \notin Holding => \A x \in file : upload.id # x
    BY NoneIsNothing DEF FilesInv, Filled, GalleryTypeOK
  <1>2. CASE (\E l \in Listings : UploadReadsOrder(l)) \/ UploadCounts \/ UploadConflicts
    <2>1. UNCHANGED <<image, file, task, spoiled>>
      BY <1>2 DEF UploadReadsOrder, UploadCounts, UploadConflicts
    <2>2. upload' = upload \/ upload'.id = upload.id
      <3>1. CASE \E l \in Listings : UploadReadsOrder(l)
        BY <3>1 DEF UploadReadsOrder, FilesInv, Filled, Holding
      <3>2. CASE UploadCounts
        BY <3>2 DEF UploadCounts, FilesInv, GalleryTypeOK, Work
      <3>3. CASE UploadConflicts
        BY <3>3 DEF UploadConflicts, FilesInv, GalleryTypeOK, Work
      <3>4. QED BY <1>2, <3>1, <3>2, <3>3
    <2>3. QED BY <2>1, <2>2 DEF LeftOnlyByFailure
  <1>3. CASE UploadSaves
    <2>1. PICK x \in Fresh : file' = file \cup {x} /\ upload' = [upload EXCEPT !.at = "insert", !.id = x]
      BY <1>3 DEF UploadSaves
    <2>2. upload'.id = x
      BY <2>1 DEF FilesInv, GalleryTypeOK, Work
    <2>3. \A y \in file : upload.id # y
      BY <1>1, <1>3 DEF UploadSaves, Holding
    <2>4. QED BY <1>3, <2>1, <2>2, <2>3 DEF UploadSaves, LeftOnlyByFailure
  <1>4. CASE UploadCommits
    <2> DEFINE x == upload.id
    <2>1. /\ x \in Ids /\ upload.listing \in Listings /\ upload.primary \in BOOLEAN /\ upload.sort \in Sorts
      BY <1>4 DEF UploadCommits, FilesInv, Filled, Holding, Fits
    <2>2. image' = Inserted(x, upload, x) /\ GalleryTypeOK
      BY <1>4 DEF UploadCommits, FilesInv
    <2>3. Inserted(x, upload, x)[x] \in Row /\ \A y \in Ids \ {x} : Inserted(x, upload, x)[y] = image[y]
      BY <2>1, <2>2, InsertedType
    <2>4. image'[x] # None /\ \A y \in Ids \ {x} : image'[y] = image[y]
      BY <2>2, <2>3, NoneIsNothing
    <2>5. UNCHANGED <<file, task, spoiled, borrowed>> /\ file \subseteq Ids
      BY <1>4 DEF UploadCommits, FilesInv, GalleryTypeOK
    <2>6. QED BY <2>4, <2>5 DEF LeftOnlyByFailure
  <1>5. CASE UploadUndoes
    BY <1>5 DEF UploadUndoes, LeftOnlyByFailure
  <1>6. CASE UploadFails
    BY <1>6 DEF UploadFails, LeftOnlyByFailure
  <1>7. CASE UploadBreaks
    <2>1. \A y \in file : upload.id # y
      BY <1>1, <1>7 DEF UploadBreaks, Holding
    <2>2. QED BY <1>7, <2>1 DEF UploadBreaks, LeftOnlyByFailure
  <1>8. QED BY <1>2, <1>3, <1>4, <1>5, <1>6, <1>7 DEF Upload

\* A request that is not at its last step leaves the files to those who have them.
LEMMA OthersStillHold ==
  ASSUME FilesInv, LeftOnlyByFailure, NEW s \in Slots, task[s].at # "unlink",
         \A t \in Slots \ {s} : task'[t] = task[t],
         \A x \in Ids : image[x] # None => image'[x] # None,
         UNCHANGED <<file, upload, spoiled>>
  PROVE LeftOnlyByFailure'
PROOF
  <1> SUFFICES ASSUME NEW x \in file
               PROVE \/ image'[x] # None
                     \/ x \in spoiled
                     \/ upload.id = x
                     \/ \E t \in Slots : task'[t].at = "unlink" /\ task'[t].key = x
    BY DEF LeftOnlyByFailure
  <1>1. x \in Ids
    BY DEF FilesInv, GalleryTypeOK
  <1>2. CASE \E t \in Slots : task[t].at = "unlink" /\ task[t].key = x
    <2>1. PICK t \in Slots : task[t].at = "unlink" /\ task[t].key = x BY <1>2
    <2>2. task'[t] = task[t] BY <2>1
    <2>3. QED BY <2>1, <2>2
  <1>3. QED BY <1>1, <1>2 DEF LeftOnlyByFailure

LEMMA RequestLeavesNothing ==
  ASSUME FilesInv, LeftOnlyByFailure, NEW s \in Slots, Request(s)
  PROVE LeftOnlyByFailure'
PROOF
  <1>1. GalleryTypeOK
    BY DEF FilesInv
  <1>2. CASE \/ \E l \in Listings, sort \in Sorts \cup {None}, primary \in BOOLEAN, key \in Ids \cup {None} :
                   AddReads(s, l, sort, primary, key)
             \/ \E x \in Ids, sort \in Sorts \cup {None}, primary \in BOOLEAN \cup {None} :
                   EditReads(s, x, sort, primary)
             \/ \E x \in Ids : RemoveReads(s, x)
             \/ Fails(s)
    <2>1. /\ task[s].at # "unlink" /\ UNCHANGED <<image, file, upload, spoiled>>
          /\ \A t \in Slots \ {s} : task'[t] = task[t]
      BY <1>1, <1>2 DEF AddReads, EditReads, RemoveReads, Fails, GalleryTypeOK
    <2>2. QED BY <2>1, OthersStillHold
  <1>3. CASE AddCommits(s)
    <2> DEFINE k == task[s].key
    <2>1. PICK x \in Fresh : image' = Inserted(x, task[s], k)
      BY <1>3 DEF AddCommits
    <2>2. /\ task[s].listing \in Listings /\ task[s].primary \in BOOLEAN /\ task[s].sort \in Sorts
          /\ k \in Ids \cup {None} /\ x \in Ids
      BY <1>3, FreshUnknown DEF AddCommits, FilesInv, Filled, Fits, GalleryTypeOK, Work
    <2>3. Inserted(x, task[s], k)[x] \in Row /\ \A y \in Ids \ {x} : Inserted(x, task[s], k)[y] = image[y]
      BY <1>1, <2>2, InsertedType
    <2>4. \A y \in Ids : image[y] # None => image'[y] # None
      BY <2>1, <2>3, NoneIsNothing
    <2>5. /\ task[s].at # "unlink" /\ UNCHANGED <<file, upload, spoiled>>
          /\ \A t \in Slots \ {s} : task'[t] = task[t]
      BY <1>1, <1>3 DEF AddCommits, GalleryTypeOK
    <2>6. QED BY <2>4, <2>5, OthersStillHold
  <1>4. CASE EditCommits(s)
    <2>1. /\ task[s] \in Tasks /\ task[s].id \in Ids /\ image[task[s].id] # None
          /\ (task[s].sort # None => Fits(task[s].sort)) /\ image' = Edited(task[s])
      BY <1>1, <1>4 DEF EditCommits, FilesInv, Filled, GalleryTypeOK, Tasks
    <2>2. \A y \in Ids : image[y] # None => image'[y] \in Row
      BY <1>1, <2>1, EditedType, Zenon
    <2>3. \A y \in Ids : image[y] # None => image'[y] # None
      BY <2>2, NoneIsNothing
    <2>4. /\ task[s].at # "unlink" /\ UNCHANGED <<file, upload, spoiled>>
          /\ \A t \in Slots \ {s} : task'[t] = task[t]
      BY <1>1, <1>4 DEF EditCommits, GalleryTypeOK
    <2>5. QED BY <2>3, <2>4, OthersStillHold
  <1>5. CASE RemoveCommits(s)
    <2>1. /\ task[s].at = "remove" /\ UNCHANGED <<file, upload, spoiled>>
          /\ \A t \in Slots \ {s} : task'[t] = task[t]
          /\ task'[s].at = "unlink" /\ task'[s].key = task[s].key
          /\ task[s].id \in file => task[s].key = task[s].id
      BY <1>1, <1>5 DEF RemoveCommits, FilesInv, GalleryTypeOK, OwnFile, Work
    <2>2. \A y \in Ids : image'[y] = IF y = task[s].id THEN None ELSE image[y]
      BY <1>1, <1>5 DEF RemoveCommits, GalleryTypeOK
    <2> SUFFICES ASSUME NEW x \in file
                 PROVE \/ image'[x] # None
                       \/ x \in spoiled
                       \/ upload.id = x
                       \/ \E t \in Slots : task'[t].at = "unlink" /\ task'[t].key = x
      BY <2>1 DEF LeftOnlyByFailure
    <2>3. CASE x = task[s].id
      BY <2>1, <2>3
    <2>4. CASE x # task[s].id /\ \E t \in Slots : task[t].at = "unlink" /\ task[t].key = x
      <3>1. PICK t \in Slots : task[t].at = "unlink" /\ task[t].key = x BY <2>4
      <3>2. task'[t] = task[t] BY <2>1, <3>1
      <3>3. QED BY <3>1, <3>2
    <2>5. QED BY <1>1, <2>2, <2>3, <2>4 DEF LeftOnlyByFailure, GalleryTypeOK
  <1>6. CASE Unlink(s)
    <2>1. /\ file' = file \ {task[s].key} /\ UNCHANGED <<image, upload, spoiled>>
          /\ \A t \in Slots \ {s} : task'[t] = task[t]
      BY <1>1, <1>6 DEF Unlink, GalleryTypeOK
    <2> SUFFICES ASSUME NEW x \in file, x # task[s].key
                 PROVE \/ image[x] # None
                       \/ x \in spoiled
                       \/ upload.id = x
                       \/ \E t \in Slots : task'[t].at = "unlink" /\ task'[t].key = x
      BY <2>1 DEF LeftOnlyByFailure
    <2>2. CASE \E t \in Slots : task[t].at = "unlink" /\ task[t].key = x
      <3>1. PICK t \in Slots : task[t].at = "unlink" /\ task[t].key = x BY <2>2
      <3>2. task'[t] = task[t] BY <2>1, <3>1
      <3>3. QED BY <3>1, <3>2
    <2>3. QED BY <2>2 DEF LeftOnlyByFailure
  <1>7. CASE UnlinkFails(s)
    <2>1. /\ spoiled' = spoiled \cup {task[s].key} /\ UNCHANGED <<image, file, upload>>
          /\ \A t \in Slots \ {s} : task'[t] = task[t]
      BY <1>1, <1>7 DEF UnlinkFails, GalleryTypeOK
    <2> SUFFICES ASSUME NEW x \in file, x \notin spoiled, x # task[s].key
                 PROVE \/ image[x] # None
                       \/ upload.id = x
                       \/ \E t \in Slots : task'[t].at = "unlink" /\ task'[t].key = x
      BY <2>1 DEF LeftOnlyByFailure
    <2>2. CASE \E t \in Slots : task[t].at = "unlink" /\ task[t].key = x
      <3>1. PICK t \in Slots : task[t].at = "unlink" /\ task[t].key = x BY <2>2
      <3>2. task'[t] = task[t] BY <2>1, <3>1
      <3>3. QED BY <3>1, <3>2
    <2>3. QED BY <2>2 DEF LeftOnlyByFailure
  <1>8. QED BY <1>2, <1>3, <1>4, <1>5, <1>6, <1>7, Zenon DEF Request

\* A file without a row is on its way to its row (upload_image) or to its removal
\* (remove_image), or a failure or restart between the two left it.
THEOREM LeftoversCorrect == Spec => []LeftOnlyByFailure
PROOF
  <1>1. Init => LeftOnlyByFailure
    BY DEF Init, LeftOnlyByFailure
  <1>2. ASSUME FilesInv, LeftOnlyByFailure, [Next]_vars PROVE LeftOnlyByFailure'
    <2>1. CASE Restart
      BY <1>2, <2>1 DEF Restart, LeftOnlyByFailure
    <2>2. CASE UNCHANGED vars
      BY <1>2, <2>2 DEF vars, LeftOnlyByFailure
    <2>3. CASE Upload \/ \E s \in Slots : Request(s)
      BY <1>2, <2>3, UploadLeavesNothing, RequestLeavesNothing, Zenon
    <2>4. QED BY <1>2, <2>1, <2>2, <2>3 DEF Next
  <1>3. QED BY <1>1, <1>2, FilesCorrect, PTL DEF Spec

=============================================================================
