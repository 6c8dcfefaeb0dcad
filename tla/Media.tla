------------------------------- MODULE Media -------------------------------
(***************************************************************************)
(* A media file: its content in R2 and its row in D1 (api/media.ts), which *)
(* uploads write and downloads read one after the other, a thumbnail that  *)
(* is made once and kept, and its deletion (api/admin.ts).                 *)
(*                                                                         *)
(* One media id; ids are never used again.  A content, with its type, is   *)
(* named for the request that uploaded it, and is an image; 0 is none, and *)
(* the type of a placeholder.  A request is the list of the steps it has   *)
(* still to make.  Other servers download in the same way                  *)
(* (api/federation.ts).  Previews of URLs, sizes and file names are left   *)
(* out.                                                                    *)
(***************************************************************************)
EXTENDS Naturals, Sequences, FiniteSets

CONSTANTS
  Requests,    \* positive numbers, in the order they arrive
  MaxFaults    \* bound: requests that end half-way

VARIABLES
  object,      \* the content in R2
  empty,       \* contents of no bytes
  row,         \* media: no row, or its type and whether content_length is above 0
  thumb,       \* the content whose thumbnail is in R2
  req,
  answered,    \* the content (not empty) of the upload answered first (history)
  gone,        \* a deletion was answered (history)
  given,       \* contents and types that downloads gave, with nothing overlapping (history)
  met,         \* two requests that write overlapped, or a filling was stopped (history)
  faults

mediaVars == <<object, empty, row, thumb, req, answered, gone, given, met, faults>>

NoRow == [there |-> FALSE, type |-> 0, full |-> FALSE]

Idle == [op |-> "none", todo |-> <<>>, seen |-> 0, alone |-> TRUE]
Done(r) == [Idle EXCEPT !.op = r.op]

Writers == {"upload", "fill", "delete"}

Upload == <<"putObject", "insertRow">>
Filling == <<"checkRow", "putObject", "updateRow">>

(* The rows of thumbnails, by which a thumbnail would be found, are never written: it stays. *)
Deletion == <<"dropObject", "dropRow">>

(* Of a whole user, or of everything: of the objects whose rows are found. *)
Purge == <<"selectRow", "dropObject", "dropRow">>

Download == <<"getObject", "getRow">>
FederationDownload == Download
Thumbnail == <<"getType", "getThumb", "getOriginal", "resize", "putThumb">>
FederationThumbnail == <<"getType", "getThumb", "getOriginal">>      \* made by no one but the server's own clients

-----------------------------------------------------------------------------
Begun(q) == req[q].op # "none"
IsOpen(q) == req[q].todo # <<>>

(* Whether anything that writes is under way, for a request that opens. *)
Overlaps(op, others) ==
  \E p \in others : req[p].op \in Writers /\ op \in Writers

Open(q, op, plan) ==
  LET others == {p \in Requests : IsOpen(p)} IN
  /\ ~Begun(q) /\ \A p \in Requests : p < q => Begun(p)
  /\ req' = [p \in Requests |->
       IF p = q THEN [Idle EXCEPT !.op = op, !.todo = plan, !.alone = \A o \in others : req[o].op \notin Writers]
       ELSE IF p \in others THEN [req[p] EXCEPT !.alone = @ /\ op \notin Writers]
       ELSE req[p]]
  /\ met' = (met \/ Overlaps(op, others))
  /\ UNCHANGED <<object, row, thumb, answered, gone, given, faults>>

(* POST upload, of either API: a file of a new id. *)
OpenUpload(q) ==
  /\ \A p \in Requests : ~Begun(p)
  /\ \E none \in BOOLEAN : empty' = IF none THEN empty \cup {q} ELSE empty
  /\ Open(q, "upload", Upload)

(* POST create: a placeholder, to which PUT upload then gives a content. *)
OpenCreate(q) ==
  /\ \A p \in Requests : ~Begun(p)
  /\ Open(q, "create", <<"insertPlaceholder">>) /\ UNCHANGED empty

(* The id is told when its row is there. *)
Known == row.there \/ gone

OpenFill(q) ==
  /\ Known
  /\ \E none \in BOOLEAN : empty' = IF none THEN empty \cup {q} ELSE empty
  /\ Open(q, "fill", Filling)

OpenDelete(q) ==
  Known /\ \E plan \in {Deletion, Purge} : Open(q, "delete", plan) /\ UNCHANGED empty

OpenRead(q) ==
  /\ Known
  /\ \E plan \in {Download, FederationDownload, Thumbnail, FederationThumbnail} :
       Open(q, "read", plan) /\ UNCHANGED empty

-----------------------------------------------------------------------------
At(q, step) == IsOpen(q) /\ Head(req[q].todo) = step
Goes(q, r) == req' = [req EXCEPT ![q] = IF r.todo = <<>> THEN Done(r) ELSE r]
Ran(q) == Goes(q, [req[q] EXCEPT !.todo = Tail(@)])
Ends(q) == req' = [req EXCEPT ![q] = Done(@)]
UnlessNone(q, found) == IF found THEN Ran(q) ELSE Ends(q)
Keeps == UNCHANGED <<empty, met, faults>>

InsertPlaceholder(q) ==
  /\ At(q, "insertPlaceholder") /\ Ran(q)
  /\ row' = [there |-> TRUE, type |-> 0, full |-> FALSE]
  /\ Keeps /\ UNCHANGED <<object, thumb, answered, gone, given>>

(* Faulty variant: what was uploaded may be uploaded again. *)
CheckRowThere(q) ==
  /\ At(q, "checkRow") /\ UnlessNone(q, row.there)
  /\ Keeps /\ UNCHANGED <<object, row, thumb, answered, gone, given>>

(* A placeholder takes a content when it has none: a length of 0 is none. *)
CheckRow(q) ==
  /\ At(q, "checkRow") /\ UnlessNone(q, row.there /\ ~row.full)
  /\ Keeps /\ UNCHANGED <<object, row, thumb, answered, gone, given>>

PutObject(q) ==
  /\ At(q, "putObject") /\ Ran(q)
  /\ object' = q
  /\ Keeps /\ UNCHANGED <<row, thumb, answered, gone, given>>

Answered(q) == answered' = IF answered = 0 /\ q \notin empty THEN q ELSE answered
RowFor(q) == [there |-> TRUE, type |-> q, full |-> q \notin empty]

InsertRow(q) ==
  /\ At(q, "insertRow") /\ Ran(q)
  /\ row' = RowFor(q) /\ Answered(q)
  /\ Keeps /\ UNCHANGED <<object, thumb, gone, given>>

UpdateRow(q) ==
  /\ At(q, "updateRow") /\ Ran(q)
  /\ row' = IF row.there THEN RowFor(q) ELSE row
  /\ Answered(q)
  /\ Keeps /\ UNCHANGED <<object, thumb, gone, given>>

(* The ids of a user's files; a file without a row is not found. *)
SelectRow(q) ==
  /\ At(q, "selectRow")
  /\ Goes(q, [req[q] EXCEPT !.todo = IF row.there THEN Tail(@) ELSE Tail(Tail(@))])
  /\ Keeps /\ UNCHANGED <<object, row, thumb, answered, gone, given>>

DropObject(q) ==
  /\ At(q, "dropObject") /\ Ran(q)
  /\ object' = 0
  /\ Keeps /\ UNCHANGED <<row, thumb, answered, gone, given>>

DropRow(q) ==
  /\ At(q, "dropRow") /\ Ran(q)
  /\ row' = NoRow /\ gone' = TRUE
  /\ Keeps /\ UNCHANGED <<object, thumb, answered, given>>

GetObject(q) ==
  /\ At(q, "getObject")
  /\ IF object = 0 THEN Ends(q) ELSE Goes(q, [req[q] EXCEPT !.todo = Tail(@), !.seen = object])
  /\ Keeps /\ UNCHANGED <<object, row, thumb, answered, gone, given>>

Gives(q, content, type) == given' = IF req[q].alone THEN given \cup {<<content, type>>} ELSE given

(* Without a row, the type is one that fits anything. *)
GetRow(q) ==
  /\ At(q, "getRow") /\ Ran(q)
  /\ Gives(q, req[q].seen, row.type)
  /\ Keeps /\ UNCHANGED <<object, row, thumb, answered, gone>>

(* A thumbnail needs the row, and is made of an image only. *)
GetType(q) ==
  /\ At(q, "getType")
  /\ IF row.there THEN Goes(q, [req[q] EXCEPT !.todo = Tail(@), !.seen = row.type]) ELSE Ends(q)
  /\ Keeps /\ UNCHANGED <<object, row, thumb, answered, gone, given>>

GetThumb(q) ==
  /\ At(q, "getThumb") /\ UnlessNone(q, thumb = 0)
  /\ IF thumb # 0 THEN Gives(q, thumb, thumb) ELSE UNCHANGED given
  /\ Keeps /\ UNCHANGED <<object, row, thumb, answered, gone>>

GetOriginal(q) ==
  /\ At(q, "getOriginal") /\ UnlessNone(q, object # 0 /\ req[q].seen # 0)
  /\ Keeps /\ UNCHANGED <<object, row, thumb, answered, gone, given>>

(* The resizing downloads the file, and may fail: the original is the answer then. *)
Resize(q) ==
  /\ At(q, "resize")
  /\ \/ Ends(q)
     \/ object \notin {0} \cup empty /\ Goes(q, [req[q] EXCEPT !.todo = Tail(@), !.seen = object])
  /\ Keeps /\ UNCHANGED <<object, row, thumb, answered, gone, given>>

PutThumb(q) ==
  /\ At(q, "putThumb") /\ Ran(q)
  /\ thumb' = req[q].seen
  /\ Gives(q, req[q].seen, req[q].seen)
  /\ Keeps /\ UNCHANGED <<object, row, answered, gone>>

(* A statement fails or the Worker stops. *)
Stop(q) ==
  /\ IsOpen(q) /\ faults < MaxFaults
  /\ Ends(q) /\ faults' = faults + 1 /\ met' = (met \/ req[q].op = "fill")
  /\ UNCHANGED <<object, empty, row, thumb, answered, gone, given>>

MediaInit ==
  /\ object = 0 /\ empty = {} /\ row = NoRow /\ thumb = 0
  /\ req = [q \in Requests |-> Idle]
  /\ answered = 0 /\ gone = FALSE /\ given = {} /\ met = FALSE /\ faults = 0

MediaNext ==
  \E q \in Requests :
    \/ OpenUpload(q) \/ OpenCreate(q) \/ OpenFill(q) \/ OpenDelete(q) \/ OpenRead(q) \/ Stop(q)
    \/ InsertPlaceholder(q) \/ CheckRow(q) \/ PutObject(q) \/ InsertRow(q) \/ UpdateRow(q)
    \/ SelectRow(q) \/ DropObject(q) \/ DropRow(q)
    \/ GetObject(q) \/ GetRow(q) \/ GetType(q) \/ GetThumb(q) \/ GetOriginal(q) \/ Resize(q) \/ PutThumb(q)

MediaSpec == MediaInit /\ [][MediaNext]_mediaVars

-----------------------------------------------------------------------------
(* Properties *)

Deleting == gone \/ \E q \in Requests : req[q].op = "delete"

(* A content that was uploaded, with at least a byte, stays what the id stands for, with its type, until it is
   deleted: it is overwritten only by an upload that overlapped, or one that was stopped. *)
ContentKept ==
  answered # 0 /\ ~met /\ ~Deleting => object = answered /\ row.type = answered

(* A deleted file is not there, in R2 or in D1, unless an upload overlapped the deletion
   or was stopped. *)
DeletedStaysAway == gone /\ ~met => object = 0 /\ row = NoRow

(* A download that nothing overlapped gives a content with its own type, and one thumbnail is that of every download:
   clients keep both for ever. *)
DownloadsAgree ==
  ~met => \A g, h \in given : g[2] = g[1] /\ (h[1] = g[1] \/ {g[1], h[1]} \cap empty # {})

MediaSound == ContentKept /\ DeletedStaysAway /\ DownloadsAgree
=============================================================================
