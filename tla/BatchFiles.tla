------------------------------ MODULE BatchFiles ------------------------------
(***************************************************************************)
(* The images of a batch job: the request is expanded into items, the      *)
(* provider's answer is fetched into the job's directory and indexed line  *)
(* by line, and owners download single images or an archive while others   *)
(* remove the outputs.  Money, polling and the choice of the provider are  *)
(* BatchImages' subject.                                                   *)
(*                                                                         *)
(* A custom id is a sequence: the words of the request, then the numbers   *)
(* with which an item that asks for several images is repeated.            *)
(***************************************************************************)
EXTENDS Naturals, FiniteSets, FiniteSetsExt, Sequences, SequencesExt, Functions

CONSTANTS
  Downloaders,       \* handlers of item_content and download_zip
  Removers,          \* handlers, or the scheduler, that delete outputs
  AutoNames,         \* custom ids of items that have none, by position
  Safe,              \* [words of an id -> what a file name keeps of them]
  Dotted,            \* words with two dots in a row
  MaxOutputImages,   \* 200
  IndexRetries,      \* errors after which a job fails (5)
  FileStarts         \* requests, answers and bounds to start with

ASSUME BatchFilesAssumption ==
  /\ Dotted \subseteq DOMAIN Safe
  /\ MaxOutputImages \in Nat /\ IndexRetries \in Nat \ {0}

VARIABLES
  batch,         \* the job's row
  itemRows,      \* its items' rows, by id
  remote,        \* what the provider holds: objects of lines; "told" is all it has ever answered
  disk,          \* the job's directory
  archives,      \* the pieces written of each archive file; a name refers to one of them
  indexer,       \* index_job
  downloads,     \* [Downloaders -> a handler]
  removals,      \* [Removers -> a handler]
  fileBudget     \* bounds

fileVars == <<batch, itemRows, remote, disk, archives, indexer, downloads, removals, fileBudget>>

RequestedItems == UNION {UNION {Range(items) : items \in g.requests} : g \in FileStarts}
LineKinds == {"image", "error", "nothing"}
ExtraLines == {"none", "foreign", "malformed", "duplicate"}
FileBudgets ==
  [requests : SUBSET Seq(RequestedItems), verdicts : SUBSET LineKinds, extras : SUBSET ExtraLines,
   several : BOOLEAN, single : BOOLEAN, downloads : Nat, removals : Nat, faults : Nat, cancels : Nat,
   drops : Nat, edits : Nat, restarts : Nat]

(* An id has a first word, which keeps its dots in a file name and gets    *)
(* none; "foreign" stands for one that no request has.                     *)
IsId(id) == Len(id) \in Nat \ {0} /\ id = [k \in 1 .. Len(id) |-> id[k]] /\ id[1] \in DOMAIN Safe
ASSUME FileAssumption ==
  /\ AutoNames \in Seq(DOMAIN Safe) /\ "foreign" \notin DOMAIN Safe
  /\ \A w \in DOMAIN Safe, b \in Dotted : Safe[w] = Safe[b] => w \in Dotted
  /\ \A g \in FileStarts :
       g \in FileBudgets /\ \A items \in g.requests : Len(items) <= Len(AutoNames)
  /\ \A item \in RequestedItems : item.outputs \in Nat /\ (item.id = <<>> \/ IsId(item.id))

Unfinished == {"created", "queued", "indexing", "settling"}
BatchStatus == Unfinished \cup {"none", "completed", "failed", "cancelled", "output_deleted"}
Archive == <<>>     \* what a download asks for that is not a custom id

NoBatch == [status |-> "none", retries |-> 0, success |-> 0, failed |-> 0, hidden |-> FALSE, expired |-> FALSE,
            downloaded |-> FALSE, removing |-> FALSE]
EmptyDisk == [there |-> FALSE, result |-> {}, fetched |-> <<>>, images |-> [f \in {} |-> 0], part |-> 0, zip |-> 0]
NotIndexing == [pc |-> "idle", at |-> 0, found |-> <<>>]
NoDownload == [pc |-> "idle", want |-> Archive, entries |-> <<>>, at |-> 0, inode |-> 0, length |-> 0, got |-> <<>>,
               left |-> FALSE, answer |-> "none", crossed |-> FALSE]

FileInit ==
  /\ batch = NoBatch /\ itemRows = <<>> /\ disk = EmptyDisk /\ archives = <<>> /\ indexer = NotIndexing
  /\ remote = [objects |-> <<>>, told |-> <<>>]
  /\ downloads = [q \in Downloaders |-> NoDownload]
  /\ removals = [x \in Removers |-> "idle"]
  /\ \E g \in FileStarts : fileBudget = g

Spend(which) == fileBudget[which] > 0 /\ fileBudget' = [fileBudget EXCEPT ![which] = @ - 1]
IfFault(happens) == IF happens THEN Spend("faults") ELSE UNCHANGED fileBudget
-----------------------------------------------------------------------------
(* The request (normalize_submit): an item without an id is named by its   *)
(* position, one that asks for several images is repeated under numbered   *)
(* ids, and ids must differ in the end.  Reference images, the model and   *)
(* the metadata are left out.                                              *)
OutputCount(item) == IF item.outputs = 0 THEN 1 ELSE item.outputs
Expand(item, position) ==
  LET id == IF item.id = <<>> THEN <<AutoNames[position]>> ELSE item.id
      Named(name) == [id |-> name, prompt |-> item.prompt]
  IN  IF OutputCount(item) = 1 THEN <<Named(id)>>
      ELSE [k \in 1 .. OutputCount(item) |-> Named(Append(id, k))]
Expanded(items) == FlattenSeq([i \in DOMAIN items |-> Expand(items[i], i)])

DifferentIds(rows) == IsInjective([i \in DOMAIN rows |-> rows[i].id])
NormalizeSubmit(items) ==
  /\ items # <<>>
  /\ \A i \in DOMAIN items : items[i].prompt # "" /\ OutputCount(items[i]) \in 1 .. 4
  /\ DifferentIds(Expanded(items))
  /\ Len(Expanded(items)) <= MaxOutputImages

(* submit_job stores the job and its items in one transaction.             *)
SubmitBatch ==
  /\ batch.status = "none"
  /\ \E items \in fileBudget.requests :
       /\ NormalizeSubmit(items)
       /\ itemRows' = [i \in DOMAIN Expanded(items) |->
                         [id |-> Expanded(items)[i].id, prompt |-> Expanded(items)[i].prompt,
                          status |-> "pending", file |-> <<>>]]
  /\ batch' = [NoBatch EXCEPT !.status = "created"]
  /\ UNCHANGED <<remote, disk, archives, indexer, downloads, removals, fileBudget>>

CountRows(rows, status) == Cardinality({i \in DOMAIN rows : rows[i].status = status})

(* finish_without_charge: items that have no verdict get the job's, and    *)
(* the job counts what its items say.                                      *)
FinishRows(b, status) ==
  LET rows == [i \in DOMAIN itemRows |->
                 IF itemRows[i].status = "pending" THEN [itemRows[i] EXCEPT !.status = status] ELSE itemRows[i]]
  IN  /\ itemRows' = rows
      /\ batch' = [b EXCEPT !.status = status, !.success = CountRows(rows, "success"),
                            !.failed = CountRows(rows, "failed")]

(* The request's items are sent to the provider, line by line under their  *)
(* ids, or the submission fails.                                           *)
SendBatch ==
  /\ batch.status = "created"
  /\ \/ batch' = [batch EXCEPT !.status = "queued"] /\ UNCHANGED <<itemRows, fileBudget>>
     \/ Spend("faults") /\ FinishRows(batch, "failed")
  /\ UNCHANGED <<remote, disk, archives, indexer, downloads, removals>>

(* The provider: for every item an image, an error or nothing, in an order *)
(* of its own and perhaps with a line of no use, in one object or several. *)
Line(id, kind, prompt) == [id |-> id, kind |-> kind, prompt |-> prompt]
AnswerLines(verdicts, extra) ==
  LET Told(i) == IF verdicts[i] = "nothing" THEN <<>> ELSE <<Line(itemRows[i].id, verdicts[i], itemRows[i].prompt)>>
      lines == Reverse(FlattenSeq([i \in DOMAIN itemRows |-> Told(i)]))
  IN  lines \o (CASE extra = "none" -> <<>>
                  [] extra = "foreign" -> <<Line(<<"foreign">>, "image", "p9")>>
                  [] extra = "malformed" -> <<Line(itemRows[1].id, "malformed", "p9")>>
                  [] extra = "duplicate" -> IF lines = <<>> THEN <<>> ELSE <<lines[1]>>)

ProviderAnswers ==
  /\ batch.status = "queued"
  /\ \E verdicts \in [DOMAIN itemRows -> fileBudget.verdicts], extra \in fileBudget.extras :
       LET lines == AnswerLines(verdicts, extra)
       IN  remote' = [told |-> lines,
                      objects |-> IF fileBudget.several THEN [i \in DOMAIN lines |-> <<lines[i]>>] ELSE <<lines>>]
  /\ batch' = [batch EXCEPT !.status = "indexing"]
  /\ UNCHANGED <<itemRows, disk, archives, indexer, downloads, removals, fileBudget>>

(* cancel_job, whose call to the provider has succeeded.                   *)
CancelBatch ==
  /\ Spend("cancels")
  /\ batch.status \in Unfinished
  /\ FinishRows(batch, "cancelled")
  /\ UNCHANGED <<remote, disk, archives, indexer, downloads, removals>>
-----------------------------------------------------------------------------
(* index_job.  A result that was fetched is kept, and not fetched again.   *)
IndexStart ==
  /\ indexer.pc = "idle" /\ batch.status = "indexing"
  /\ disk' = [disk EXCEPT !.there = TRUE, !.fetched = IF disk.result = {} THEN <<>> ELSE @]
  /\ indexer' = [NotIndexing EXCEPT !.pc = IF disk.result = {} THEN "fetch" ELSE "lines", !.at = 1]
  /\ UNCHANGED <<batch, itemRows, remote, archives, downloads, removals, fileBudget>>

(* record_process_error: the job is tried again, or has failed too often.  *)
IndexError ==
  /\ indexer' = NotIndexing
  /\ IF batch.status \notin Unfinished THEN UNCHANGED <<batch, itemRows>>
     ELSE LET b == [batch EXCEPT !.retries = @ + 1]
          IN  IF b.retries < IndexRetries THEN batch' = b /\ UNCHANGED itemRows ELSE FinishRows(b, "failed")

(* Gemini's result is one file, Vertex' are objects listed by name: they   *)
(* go one after another into a temporary file, which gets its name when    *)
(* all have arrived; a part that fails is fetched anew.                    *)
FetchPart ==
  /\ indexer.pc = "fetch" /\ indexer.at <= Len(remote.objects)
  /\ disk' = [disk EXCEPT !.fetched = @ \o remote.objects[indexer.at]]
  /\ indexer' = [indexer EXCEPT !.at = @ + 1]
  /\ UNCHANGED <<batch, itemRows, remote, archives, downloads, removals, fileBudget>>
FetchWhole ==
  /\ indexer.pc = "fetch" /\ indexer.at > Len(remote.objects) /\ remote.objects # <<>>
  /\ disk' = [disk EXCEPT !.result = {disk.fetched}, !.fetched = <<>>]
  /\ indexer' = [indexer EXCEPT !.pc = "lines", !.at = 1]
  /\ UNCHANGED <<batch, itemRows, remote, archives, downloads, removals, fileBudget>>
ResultFails ==
  /\ indexer.pc = "fetch"
  /\ IfFault(remote.objects # <<>>) /\ IndexError
  /\ UNCHANGED <<remote, disk, archives, downloads, removals>>

(* The file name keeps the safe characters of an id, and a hash of it.     *)
OutputFilename(id) == <<Safe[id[1]], id>>

Lines == CHOOSE lines \in disk.result : TRUE
SeenIds == {indexer.found[i].id : i \in DOMAIN indexer.found}
Expects(id) == \E i \in DOMAIN itemRows : itemRows[i].id = id

(* index_result_file: a line for an item that is not the job's is skipped; *)
(* a second line for an item, or one that cannot be read, is an error.     *)
IndexLine ==
  /\ indexer.pc = "lines" /\ indexer.at <= Len(Lines)
  /\ LET line == Lines[indexer.at]
         file == OutputFilename(line.id)
         Found(f) == [indexer EXCEPT !.at = @ + 1, !.found = Append(@, [id |-> line.id, file |-> f])]
     IN  CASE ~Expects(line.id) -> /\ indexer' = [indexer EXCEPT !.at = @ + 1]
                                   /\ UNCHANGED <<batch, itemRows, disk>>
           [] Expects(line.id) /\ (line.id \in SeenIds \/ line.kind = "malformed") -> IndexError /\ UNCHANGED disk
           [] Expects(line.id) /\ line.id \notin SeenIds /\ line.kind = "image" ->
                /\ disk' = [disk EXCEPT !.images = [f \in DOMAIN @ \cup {file} |->
                                                      IF f = file THEN line.prompt ELSE @[f]]]
                /\ indexer' = Found(file) /\ UNCHANGED <<batch, itemRows>>
           [] OTHER -> indexer' = Found(<<>>) /\ UNCHANGED <<batch, itemRows, disk>>
  /\ UNCHANGED <<remote, archives, downloads, removals, fileBudget>>

(* The verdicts are stored in one transaction, whose guard on the job's    *)
(* status does not cover its items.                                        *)
Verdict(row) ==
  LET files == {indexer.found[i].file : i \in {j \in DOMAIN indexer.found : indexer.found[j].id = row.id}} \ {<<>>}
  IN  IF files = {} THEN [row EXCEPT !.status = "failed", !.file = <<>>]
      ELSE [row EXCEPT !.status = "success", !.file = CHOOSE f \in files : TRUE]
IndexCommit ==
  /\ indexer.pc = "lines" /\ indexer.at > Len(Lines)
  /\ itemRows' = [i \in DOMAIN itemRows |-> Verdict(itemRows[i])]
  /\ batch' = IF batch.status # "indexing" THEN batch
              ELSE [batch EXCEPT !.status = "settling", !.success = CountRows(itemRows', "success"),
                                 !.failed = CountRows(itemRows', "failed")]
  /\ indexer' = NotIndexing
  /\ UNCHANGED <<remote, disk, archives, downloads, removals, fileBudget>>

(* settle_job; the owner is charged in BatchImages.                        *)
SettleBatch ==
  /\ indexer.pc = "idle" /\ batch.status = "settling"
  /\ batch' = [batch EXCEPT !.status = "completed"]
  /\ UNCHANGED <<itemRows, remote, disk, archives, indexer, downloads, removals, fileBudget>>
-----------------------------------------------------------------------------
(* Downloads.  The job is read, then the item or items, then files.        *)
Set(q, d) == downloads' = [downloads EXCEPT ![q] = d]
Ended(d, answer) == [NoDownload EXCEPT !.pc = "done", !.want = d.want, !.got = d.got, !.answer = answer,
                                       !.crossed = d.crossed, !.entries = d.entries]
GoesTo(q, pc) == Set(q, [downloads[q] EXCEPT !.pc = pc])
Building == {q \in Downloaders : downloads[q].pc \in {"write", "rename"}}

DownloadStart(q) ==
  /\ Spend("downloads")
  /\ downloads[q].pc \in {"idle", "done"}
  /\ batch.status = "completed" /\ ~batch.hidden
  /\ \E w \in {itemRows[i].id : i \in DOMAIN itemRows} \cup {Archive} :
       /\ w = Archive => batch.success > 0
       /\ w = Archive \/ fileBudget.single
       /\ Set(q, [NoDownload EXCEPT !.pc = IF w = Archive THEN "items" ELSE "row", !.want = w])
  /\ UNCHANGED <<batch, itemRows, remote, disk, archives, indexer, removals>>

(* validate_stored_filename refuses a name with two dots in a row.         *)
Stored(file) == file[1] \notin {Safe[b] : b \in Dotted}
SucceededFiles ==
  FlattenSeq([i \in DOMAIN itemRows |-> IF itemRows[i].status = "success" THEN <<itemRows[i].file>> ELSE <<>>])

(* item_content: the first image of an item that has succeeded.            *)
DownloadRow(q) ==
  /\ downloads[q].pc = "row"
  /\ \E i \in DOMAIN itemRows :
       LET row == itemRows[i]
           d == downloads[q]
       IN  /\ row.id = d.want
           /\ CASE row.status # "success" -> Set(q, Ended(d, "refused")) /\ UNCHANGED batch
                [] row.status = "success" /\ ~Stored(row.file) -> Set(q, Ended(d, "failed")) /\ UNCHANGED batch
                [] OTHER -> /\ batch' = [batch EXCEPT !.downloaded = TRUE]
                            /\ Set(q, [d EXCEPT !.pc = "stat", !.entries = <<row.file>>])
  /\ UNCHANGED <<itemRows, remote, disk, archives, indexer, removals, fileBudget>>

(* download_zip: the files of all items that have succeeded.               *)
DownloadItems(q) ==
  /\ downloads[q].pc = "items"
  /\ LET d == [downloads[q] EXCEPT !.entries = SucceededFiles]
     IN  IF \E i \in DOMAIN d.entries : ~Stored(d.entries[i]) THEN Set(q, Ended(d, "failed"))
         ELSE Set(q, [d EXCEPT !.pc = "create"])
  /\ UNCHANGED <<batch, itemRows, remote, disk, archives, indexer, removals, fileBudget>>

(* write_store_zip, in a task of its own.  Every build writes to the same  *)
(* temporary name: File::create empties a file another build has open, and *)
(* both go on where each has come to.  A piece is an entry; the last one   *)
(* is the manifest with the archive's directory.                           *)
Crossed(q) == [p \in Downloaders |->
                 [downloads[p] EXCEPT !.crossed = @ \/ Building \ {q} # {}]]
Temporary == IF disk.part = 0 THEN Len(archives) + 1 ELSE disk.part
ArchiveCreate(q) ==
  /\ downloads[q].pc = "create"
  /\ IF ~disk.there THEN Set(q, Ended(downloads[q], "failed")) /\ UNCHANGED <<disk, archives>>
     ELSE /\ disk' = [disk EXCEPT !.part = Temporary]
          /\ archives' = IF disk.part = 0 THEN Append(archives, {}) ELSE [archives EXCEPT ![disk.part] = {}]
          /\ downloads' = [Crossed(q) EXCEPT ![q].pc = "write", ![q].at = 1, ![q].inode = Temporary]
  /\ UNCHANGED <<batch, itemRows, remote, indexer, removals, fileBudget>>

Pieces(d) == 1 .. Len(d.entries) + 1
ArchiveWrite(q) ==
  /\ downloads[q].pc = "write"
  /\ LET d == downloads[q]
     IN  IF d.at <= Len(d.entries) /\ d.entries[d.at] \notin DOMAIN disk.images
         THEN Set(q, Ended(d, "failed")) /\ UNCHANGED archives
         ELSE /\ archives' = [archives EXCEPT ![d.inode] = @ \cup {d.at}]
              /\ Set(q, [d EXCEPT !.at = @ + 1, !.pc = IF d.at = Len(d.entries) + 1 THEN "rename" ELSE "write"])
  /\ UNCHANGED <<batch, itemRows, remote, disk, indexer, removals, fileBudget>>

(* The temporary name, whatever file it refers to by now, becomes the      *)
(* archive's; nobody waits for it when the client has gone.                *)
ArchiveRename(q) ==
  /\ downloads[q].pc = "rename"
  /\ LET d == downloads[q]
     IN  IF disk.part = 0 THEN Set(q, Ended(d, "failed")) /\ UNCHANGED disk
         ELSE /\ disk' = [disk EXCEPT !.zip = disk.part, !.part = 0]
              /\ IF d.left THEN Set(q, Ended(d, "left")) ELSE GoesTo(q, "stat")
  /\ UNCHANGED <<batch, itemRows, remote, archives, indexer, removals, fileBudget>>

(* stream_file announces the length of the file, then opens it by name.    *)
FileLength(pieces) == IF pieces = {} THEN 0 ELSE Max(pieces)
Missing(d) == IF d.want = Archive THEN disk.zip = 0 ELSE d.entries[1] \notin DOMAIN disk.images
DownloadStat(q) ==
  /\ downloads[q].pc = "stat"
  /\ batch' = [batch EXCEPT !.downloaded = TRUE]
  /\ LET d == downloads[q]
     IN  IF Missing(d) THEN Set(q, Ended(d, "gone"))
         ELSE Set(q, [d EXCEPT !.pc = "open", !.length = IF d.want = Archive THEN FileLength(archives[disk.zip]) ELSE 1])
  /\ UNCHANGED <<itemRows, remote, disk, archives, indexer, removals, fileBudget>>

DownloadOpen(q) ==
  /\ downloads[q].pc = "open"
  /\ LET d == downloads[q]
     IN  CASE Missing(d) -> Set(q, Ended(d, "failed"))
           [] ~Missing(d) /\ d.want = Archive -> Set(q, [d EXCEPT !.pc = "send", !.inode = disk.zip])
           [] OTHER -> Set(q, Ended([d EXCEPT !.got = <<disk.images[d.entries[1]]>>], "sent"))
  /\ UNCHANGED <<batch, itemRows, remote, disk, archives, indexer, removals, fileBudget>>

(* The body ends with the announced length, or breaks off where the file   *)
(* ends before.                                                            *)
DownloadRead(q) ==
  /\ downloads[q].pc = "send"
  /\ LET d == downloads[q]
         next == Len(d.got) + 1
     IN  CASE next > d.length -> Set(q, Ended(d, "sent"))
           [] next <= d.length /\ next > FileLength(archives[d.inode]) -> Set(q, Ended(d, "cut"))
           [] OTHER -> Set(q, [d EXCEPT !.got = Append(@, next \in archives[d.inode])])
  /\ UNCHANGED <<batch, itemRows, remote, disk, archives, indexer, removals, fileBudget>>

(* The client leaves: its handler is dropped, but not the task that builds.*)
DownloadLeave(q) ==
  /\ Spend("drops")
  /\ downloads[q].pc \notin {"idle", "done"} /\ ~downloads[q].left
  /\ IF downloads[q].pc \in {"create", "write", "rename"} THEN Set(q, [downloads[q] EXCEPT !.left = TRUE])
     ELSE Set(q, Ended(downloads[q], "left"))
  /\ UNCHANGED <<batch, itemRows, remote, disk, archives, indexer, removals>>
-----------------------------------------------------------------------------
(* delete_outputs_internal, for the owner or, when the outputs have        *)
(* expired, for the scheduler.                                             *)
Turn(x, pc) == removals' = [removals EXCEPT ![x] = pc]

RemovalStart(x) ==
  /\ Spend("removals")
  /\ removals[x] = "idle"
  /\ batch.status = "completed" /\ (~batch.hidden \/ batch.expired)
  /\ Turn(x, "remote")
  /\ UNCHANGED <<batch, itemRows, remote, disk, archives, indexer, downloads>>

(* The provider's objects; a failure leaves those that are not yet deleted.*)
RemoveRemote(x) ==
  /\ removals[x] = "remote"
  /\ \E n \in 0 .. Len(remote.objects) :
       /\ remote' = [remote EXCEPT !.objects = SubSeq(@, n + 1, Len(@))]
       /\ IfFault(n < Len(remote.objects))
       /\ Turn(x, IF n = Len(remote.objects) THEN "files" ELSE "idle")
  /\ UNCHANGED <<batch, itemRows, disk, archives, indexer, downloads>>

(* remove_dir_all: the entries, then the directory, if nothing was added.  *)
RemoveFiles(x) ==
  /\ removals[x] = "files"
  /\ disk' = [EmptyDisk EXCEPT !.there = disk.there]
  /\ batch' = [batch EXCEPT !.removing = TRUE]
  /\ Turn(x, "directory")
  /\ UNCHANGED <<itemRows, remote, archives, indexer, downloads, fileBudget>>
RemoveDirectory(x) ==
  /\ removals[x] = "directory"
  /\ IF disk.there /\ disk # [EmptyDisk EXCEPT !.there = TRUE] THEN Turn(x, "idle") /\ UNCHANGED disk
     ELSE Turn(x, "mark") /\ disk' = [disk EXCEPT !.there = FALSE]
  /\ UNCHANGED <<batch, itemRows, remote, archives, indexer, downloads, fileBudget>>
MarkRemoved(x) ==
  /\ removals[x] = "mark"
  /\ batch' = IF batch.status = "completed" THEN [batch EXCEPT !.status = "output_deleted"] ELSE batch
  /\ Turn(x, "idle")
  /\ UNCHANGED <<itemRows, remote, disk, archives, indexer, downloads, fileBudget>>

(* delete_record hides the job from its owner.                             *)
HideRecord ==
  /\ Spend("edits")
  /\ batch.status \in BatchStatus \ (Unfinished \cup {"none"})
  /\ batch' = [batch EXCEPT !.hidden = TRUE]
  /\ UNCHANGED <<itemRows, remote, disk, archives, indexer, downloads, removals>>
OutputsExpire ==
  /\ batch.status = "completed" /\ ~batch.expired
  /\ Spend("edits")
  /\ batch' = [batch EXCEPT !.expired = TRUE]
  /\ UNCHANGED <<itemRows, remote, disk, archives, indexer, downloads, removals>>

FilesRestart ==
  /\ Spend("restarts")
  /\ indexer' = NotIndexing
  /\ downloads' = [q \in Downloaders |-> NoDownload]
  /\ removals' = [x \in Removers |-> "idle"]
  /\ UNCHANGED <<batch, itemRows, remote, disk, archives>>

FileNext ==
  \/ SubmitBatch \/ SendBatch \/ ProviderAnswers \/ CancelBatch
  \/ IndexStart \/ FetchPart \/ FetchWhole \/ ResultFails \/ IndexLine \/ IndexCommit \/ SettleBatch
  \/ \E q \in Downloaders :
       \/ DownloadStart(q) \/ DownloadRow(q) \/ DownloadItems(q)
       \/ ArchiveCreate(q) \/ ArchiveWrite(q) \/ ArchiveRename(q)
       \/ DownloadStat(q) \/ DownloadOpen(q) \/ DownloadRead(q) \/ DownloadLeave(q)
  \/ \E x \in Removers :
       RemovalStart(x) \/ RemoveRemote(x) \/ RemoveFiles(x) \/ RemoveDirectory(x) \/ MarkRemoved(x)
  \/ HideRecord \/ OutputsExpire \/ FilesRestart

FileSpec == FileInit /\ [][FileNext]_fileVars
-----------------------------------------------------------------------------
(* The job and its rows are of their types, and ids differ.                *)
FileTypeOK ==
  /\ batch.status \in BatchStatus
  /\ DifferentIds(itemRows)
  /\ \A i \in DOMAIN itemRows : itemRows[i].status \in {"pending", "success", "failed", "cancelled"}
  /\ \A q \in Downloaders : downloads[q].answer \in {"none", "sent", "cut", "gone", "failed", "refused", "left"}

(* A job that is charged counts what its items say, and an item has        *)
(* succeeded if and only if the provider answered it with an image         *)
(* (index_job), whatever was cancelled, retried or fetched twice.          *)
RowsMatchAnswer ==
  batch.status \in {"settling", "completed", "output_deleted"} =>
    /\ \A i \in DOMAIN itemRows :
         itemRows[i].status = IF \E j \in DOMAIN remote.told : /\ remote.told[j].id = itemRows[i].id
                                                               /\ remote.told[j].kind = "image"
                              THEN "success" ELSE "failed"
    /\ batch.success = CountRows(itemRows, "success") /\ batch.failed = CountRows(itemRows, "failed")

(* Until somebody removes them, the file of every item that has succeeded  *)
(* is in the directory and holds the image of its own prompt               *)
(* (index_result_file, output_filename).                                   *)
FilesAreTheirOwn ==
  batch.status = "completed" /\ ~batch.removing =>
    \A i \in DOMAIN itemRows :
      itemRows[i].status = "success" =>
        itemRows[i].file \in DOMAIN disk.images /\ disk.images[itemRows[i].file] = itemRows[i].prompt

(* A download that ended as announced has brought the item's image, or the *)
(* whole archive unless two builds of it overlapped (write_store_zip,      *)
(* stream_file).                                                           *)
DownloadsWhole ==
  \A q \in Downloaders :
    LET d == downloads[q]
    IN  d.answer = "sent" =>
          IF d.want = Archive THEN d.crossed \/ d.got = [k \in Pieces(d) |-> TRUE]
          ELSE \E i \in DOMAIN itemRows : itemRows[i].id = d.want /\ d.got = <<itemRows[i].prompt>>

(* A download of a completed job fails only if its outputs were being      *)
(* removed, if builds overlapped, or if an id has two dots in a row, which *)
(* submission allows and validate_stored_filename does not.                *)
ServedUnlessRaced ==
  \A q \in Downloaders :
    downloads[q].answer \in {"failed", "gone", "cut"} =>
      \/ batch.removing \/ downloads[q].crossed
      \/ \E i \in DOMAIN itemRows : itemRows[i].id[1] \in Dotted

(* Outputs that are reported as deleted are gone, here and at the          *)
(* provider, and no build that was under way has brought the directory     *)
(* back (delete_outputs_internal).                                         *)
DeletedIsGone == batch.status = "output_deleted" => ~disk.there /\ remote.objects = <<>>

FilesSafe ==
  /\ FileTypeOK /\ RowsMatchAnswer /\ FilesAreTheirOwn /\ DownloadsWhole /\ ServedUnlessRaced /\ DeletedIsGone
===============================================================================
