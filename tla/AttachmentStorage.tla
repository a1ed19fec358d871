------------------------- MODULE AttachmentStorage -------------------------
(***************************************************************************)
(* The attachments of one owner, a user or a guest network:                *)
(* cmd/api/attachments.go, guest_attachments.go, the storage of generated  *)
(* files (user_file_generation.go, guest_generation.go), and their rows in *)
(* internal/store.                                                         *)
(*                                                                         *)
(* An attachment is a file on disk and a row that names it.  An upload is  *)
(* admitted by the counter of its hour (WindowCounter), measured against   *)
(* what the rows say is stored, written to disk and only then entered; a   *)
(* deletion, and for guests the cleanup of old rows that lists and uploads *)
(* begin with, mark rows and then remove files.  Which of its own          *)
(* attachments a device of a network may see is left out, and so are calls *)
(* that read only (downloads, images put into a chat).                     *)
(***************************************************************************)
EXTENDS Naturals, FiniteSets, Functions

CONSTANTS
  File,        \* ids of attachments, never used again
  Handler,     \* handlers of the owner, each with one call at a time
  MaxFiles, MaxBytes,  \* the policy: what may be stored; 0 is unlimited
  MaxSize,     \* the policy: the size of a file
  Retention,   \* the policy for guests, in ticks; 0 for users
  MaxAge,      \* bound on the clock
  MaxUnsure,   \* bound: INSERTs that are carried out but reported as failed
  Nothing

ASSUME StorageAssumption ==
  /\ IsFiniteSet(File) /\ IsFiniteSet(Handler) /\ Handler # {}
  /\ MaxFiles \in Nat /\ MaxBytes \in Nat /\ MaxSize \in Nat \ {0}
  /\ Retention \in Nat /\ MaxAge \in Nat /\ MaxUnsure \in Nat
  /\ Nothing \notin File

VARIABLES
  age,                      \* the clock
  rowStatus, size, born, extract,  \* the rows; deleted ones say nothing more
  disk,                     \* the files
  step, goal,               \* per handler: where it is, in which call
  saw,                      \* the bytes it has measured
  item,                     \* the file it works on
  doomed,                   \* the files it has yet to remove
  toExpand,                 \* the attachments it has yet to expand
  leaked,                   \* history: files whose handler died, or could not remove them
  unsure                    \* history: rows whose INSERT was reported as failed

rowVars == <<rowStatus, size, born, extract>>
callVars == <<step, goal, saw, item, doomed, toExpand>>
storageVars == <<age, rowVars, disk, callVars, leaked, unsure>>

Goals == {"upload", "other"}
Steps == {"idle", "removing", "measuring", "creating", "copying",
          "inserting", "discarding", "expanding", "extracted", "unreadable"}

StorageTypeOK ==
  /\ age \in Nat
  /\ rowStatus \in [File -> {"none", "live", "deleted"}]
  /\ size \in [File -> Nat] /\ born \in [File -> Nat]
  /\ extract \in [File -> {"stored", "ready", "failed"}]
  /\ disk \subseteq File /\ leaked \subseteq File /\ unsure \subseteq File
  /\ step \in [Handler -> Steps] /\ goal \in [Handler -> Goals]
  /\ saw \in [Handler -> Nat]
  /\ item \in [Handler -> File \cup {Nothing}]
  /\ doomed \in [Handler -> SUBSET File] /\ toExpand \in [Handler -> SUBSET File]

StorageInit ==
  /\ age = 0
  /\ rowStatus = [f \in File |-> "none"] /\ size = [f \in File |-> 0]
  /\ born = [f \in File |-> 0] /\ extract = [f \in File |-> "stored"]
  /\ disk = {} /\ leaked = {} /\ unsure = {}
  /\ step = [h \in Handler |-> "idle"] /\ goal = [h \in Handler |-> "other"]
  /\ saw = [h \in Handler |-> 0]
  /\ item = [h \in Handler |-> Nothing]
  /\ doomed = [h \in Handler |-> {}] /\ toExpand = [h \in Handler |-> {}]

-----------------------------------------------------------------------------
(* The rows.                                                               *)

LiveFiles == {f \in File : rowStatus[f] = "live"}
LiveBytes == SumFunctionOnSet(size, LiveFiles)

Delete(fs) ==
  /\ rowStatus' = [f \in File |-> IF f \in fs THEN "deleted" ELSE rowStatus[f]]
  /\ size' = [f \in File |-> IF f \in fs THEN 0 ELSE size[f]]
  /\ born' = [f \in File |-> IF f \in fs THEN 0 ELSE born[f]]
  /\ extract' = [f \in File |-> IF f \in fs THEN "stored" ELSE extract[f]]

At(h, s) == step' = [step EXCEPT ![h] = s]

\* The handler answers.
Done(h) ==
  /\ At(h, "idle")
  /\ item' = [item EXCEPT ![h] = Nothing]
  /\ doomed' = [doomed EXCEPT ![h] = {}]
  /\ toExpand' = [toExpand EXCEPT ![h] = {}]
  /\ saw' = [saw EXCEPT ![h] = 0]
  /\ goal' = [goal EXCEPT ![h] = "other"]

-----------------------------------------------------------------------------
(* Uploads.                                                                *)

\* cleanupExpiredGuestAttachments: old rows are marked in one statement.  A
\* user's call has no cleanup, nor has a guest's whose policy keeps files.
BeginCall(h, g) ==
  LET old == {f \in LiveFiles : Retention > 0 /\ born[f] + Retention < age} IN
  /\ step[h] = "idle" /\ (g = "upload" \/ old # {})
  /\ goal' = [goal EXCEPT ![h] = g]
  /\ Delete(old)
  /\ doomed' = [doomed EXCEPT ![h] = old]
  /\ At(h, IF old # {} THEN "removing" ELSE "measuring")
  /\ UNCHANGED <<age, disk, saw, item, toExpand, leaked, unsure>>

\* Removal, one file after another; its errors are dropped.
RemoveFile(h) ==
  /\ step[h] = "removing"
  /\ \E f \in doomed[h] :
       /\ \/ disk' = disk \ {f} /\ UNCHANGED leaked
          \/ leaked' = leaked \cup {f} /\ UNCHANGED disk
       /\ IF doomed[h] # {f}
          THEN /\ doomed' = [doomed EXCEPT ![h] = @ \ {f}]
               /\ UNCHANGED <<step, goal, saw, item, toExpand>>
          ELSE IF goal[h] = "upload"
          THEN At(h, "measuring") /\ doomed' = [doomed EXCEPT ![h] = {}] /\ UNCHANGED <<goal, saw, item, toExpand>>
          ELSE Done(h)
  /\ UNCHANGED <<age, rowVars, unsure>>

Full(files, bytes) ==
  \/ MaxFiles > 0 /\ files >= MaxFiles
  \/ MaxBytes > 0 /\ bytes >= MaxBytes

\* AttachmentUsage: the rows of every device.  A generated file is measured as
\* it is about to be stored.
MeasureStorage(h) ==
  /\ step[h] \in {"idle", "measuring"}
  /\ IF Full(Cardinality(LiveFiles), LiveBytes) THEN Done(h)
     ELSE /\ saw' = [saw EXCEPT ![h] = LiveBytes]
          /\ At(h, "creating")
          /\ UNCHANGED <<goal, item, doomed, toExpand>>
  /\ UNCHANGED <<age, rowVars, disk, leaked, unsure>>

Fits(h, n) == n <= MaxSize /\ (MaxBytes > 0 => saw[h] + n <= MaxBytes)

\* Under a fresh id.  An upload is written next; os.WriteFile of a generated file
\* may leave part of it behind.
CreateFile(h) ==
  /\ step[h] = "creating"
  /\ \/ Done(h) /\ UNCHANGED <<disk, size, leaked>>   \* too large, or the disk fails
     \/ \E f \in File, n \in 1..MaxSize :
          /\ f \notin disk \cup leaked /\ rowStatus[f] = "none" /\ \A o \in Handler : item[o] # f
          /\ Fits(h, n)
          /\ disk' = disk \cup {f}
          /\ size' = [size EXCEPT ![f] = n]
          /\ \/ /\ At(h, IF goal[h] = "upload" THEN "copying" ELSE "inserting")
                /\ item' = [item EXCEPT ![h] = f]
                /\ UNCHANGED <<goal, saw, doomed, toExpand, leaked>>
             \/ /\ goal[h] # "upload"
                /\ leaked' = leaked \cup {f}
                /\ Done(h)
  /\ UNCHANGED <<age, rowStatus, born, extract, unsure>>

\* The content may turn out too long, or its client gone.
CopyContent(h) ==
  /\ step[h] = "copying"
  /\ At(h, "inserting") \/ At(h, "discarding")
  /\ UNCHANGED <<age, rowVars, disk, goal, saw, item, doomed, toExpand, leaked, unsure>>

\* The row; an error may hide that it was written.
InsertRow(h) ==
  LET f == item[h]
      enter(x) == /\ rowStatus' = [rowStatus EXCEPT ![f] = "live"]
                  /\ born' = [born EXCEPT ![f] = age]
                  /\ extract' = [extract EXCEPT ![f] = x] IN
  /\ step[h] = "inserting"
  /\ \/ \E x \in {"stored", "ready"} : enter(x) /\ Done(h) /\ UNCHANGED unsure
     \/ /\ At(h, "discarding") /\ UNCHANGED <<goal, saw, item, doomed, toExpand>>
        /\ \/ UNCHANGED <<rowStatus, born, extract, unsure>>
           \/ Cardinality(unsure) < MaxUnsure /\ enter("stored") /\ unsure' = unsure \cup {f}
  /\ UNCHANGED <<age, size, disk, leaked>>

Discard(h) ==
  /\ step[h] = "discarding"
  /\ \/ disk' = disk \ {item[h]} /\ UNCHANGED leaked
     \/ leaked' = leaked \cup {item[h]} /\ UNCHANGED disk
  /\ Done(h)
  /\ UNCHANGED <<age, rowVars, unsure>>

-----------------------------------------------------------------------------
(* Deletion and chat.                                                      *)

RemoveFirst(h) ==   \* mutant: the file goes before its row
  /\ step[h] = "idle"
  /\ \E f \in LiveFiles :
       /\ disk' = disk \ {f}
       /\ At(h, "discarding")
       /\ item' = [item EXCEPT ![h] = f]
  /\ UNCHANGED <<age, rowVars, goal, saw, doomed, toExpand, leaked, unsure>>

DeleteAttachment(h) ==
  /\ step[h] = "idle"
  /\ \E f \in LiveFiles :
       /\ Delete({f})
       /\ At(h, "removing")
       /\ doomed' = [doomed EXCEPT ![h] = {f}]
  /\ UNCHANGED <<age, disk, goal, saw, item, toExpand, leaked, unsure>>

\* expandChatAttachments reads the rows once.  Of a document without text it
\* knows that it has to read the file.
ReadAttachments(h) ==
  /\ step[h] = "idle"
  /\ \E fs \in SUBSET {f \in LiveFiles : extract[f] = "stored"} :
       /\ fs # {}
       /\ At(h, "expanding")
       /\ toExpand' = [toExpand EXCEPT ![h] = fs]
  /\ UNCHANGED <<age, rowVars, disk, goal, saw, item, doomed, leaked, unsure>>

\* extractAttachmentContent, whose outcome is for the row.
ExtractLate(h) ==
  /\ step[h] = "expanding"
  /\ \E f \in toExpand[h] :
       /\ toExpand' = [toExpand EXCEPT ![h] = @ \ {f}]
       /\ item' = [item EXCEPT ![h] = f]
       /\ At(h, IF f \in disk THEN "extracted" ELSE "unreadable")
  /\ UNCHANGED <<age, rowVars, disk, goal, saw, doomed, leaked, unsure>>

\* UpdateAttachmentExtraction, WHERE deleted_at IS NULL.  The last one ends the call.
UpdateExtraction(h) ==
  LET f == item[h]
      x == IF step[h] = "extracted" THEN "ready" ELSE "failed" IN
  /\ step[h] \in {"extracted", "unreadable"}
  /\ extract' = IF rowStatus[f] = "live" THEN [extract EXCEPT ![f] = x] ELSE extract
  /\ IF toExpand[h] = {} THEN Done(h)
     ELSE /\ At(h, "expanding")
          /\ item' = [item EXCEPT ![h] = Nothing]
          /\ UNCHANGED <<goal, saw, doomed, toExpand>>
  /\ UNCHANGED <<age, rowStatus, size, born, disk, leaked, unsure>>

-----------------------------------------------------------------------------

\* The process dies with everything its handlers had in hand.
StorageCrash ==
  /\ \E h \in Handler : step[h] # "idle"
  /\ leaked' = leaked \cup
       {f \in File : \E h \in Handler :
          \/ f \in doomed[h]
          \/ f \in disk /\ f = item[h] /\ (rowStatus[f] = "none" \/ step[h] = "discarding")}
  /\ step' = [h \in Handler |-> "idle"] /\ item' = [h \in Handler |-> Nothing]
  /\ doomed' = [h \in Handler |-> {}] /\ toExpand' = [h \in Handler |-> {}]
  /\ saw' = [h \in Handler |-> 0] /\ goal' = [h \in Handler |-> "other"]
  /\ UNCHANGED <<age, rowVars, disk, unsure>>

GrowOlder ==
  /\ age < MaxAge /\ age' = age + 1
  /\ UNCHANGED <<rowVars, disk, callVars, leaked, unsure>>

StorageNext ==
  \/ \E h \in Handler :
       \/ \E g \in Goals : BeginCall(h, g)
       \/ RemoveFile(h)
       \/ MeasureStorage(h) \/ CreateFile(h) \/ CopyContent(h) \/ InsertRow(h) \/ Discard(h)
       \/ DeleteAttachment(h) \/ ReadAttachments(h) \/ ExtractLate(h) \/ UpdateExtraction(h)
  \/ StorageCrash \/ GrowOlder

StorageSpec == StorageInit /\ [][StorageNext]_storageVars

-----------------------------------------------------------------------------
(* Properties.                                                             *)

\* attachments.go: whatever is deleted, cleaned up or lost in a crash, a row that
\* can be listed has its content, unless its INSERT was reported as failed.
RowHasContent == \A f \in LiveFiles : f \in disk \/ f \in unsure

InHand(f) == \E h \in Handler : f = item[h] \/ f \in doomed[h]

\* Nothing stays on disk that no row names and no handler is about to remove,
\* but for crashes and removals that failed.
NothingLeaks == \A f \in disk : rowStatus[f] = "live" \/ InHand(f) \/ f \in leaked

\* uploadAttachment measures before it writes and enters the row afterwards: the
\* policy is exceeded by no more than one file of each other handler.
OvershootBounded ==
  /\ MaxFiles > 0 => Cardinality(LiveFiles) <= MaxFiles + Cardinality(Handler) - 1
  /\ MaxBytes > 0 => LiveBytes <= MaxBytes + MaxSize * (Cardinality(Handler) - 1)

\* A deletion under a chat does not mark a row that can be listed as unreadable.
ExtractionIsTrue == \A f \in LiveFiles : extract[f] = "failed" => f \in unsure

\* Rows, files, the policy and what a chat has noted of a document stay together,
\* however uploads, deletions, cleanups, chats and crashes interleave.
AttachmentsHold == RowHasContent /\ NothingLeaks /\ OvershootBounded /\ ExtractionIsTrue

=============================================================================
