------------------------------- MODULE Upload -------------------------------
(***************************************************************************)
(* A record with attachments on its way into the store: the edit form and  *)
(* its script (templates/*/form.html, static/app.js), the commands of the  *)
(* command-line client that send a form (src/cli/src/main.rs), the parser  *)
(* of the form with its limits, parse_record_form (src/routes.rs), and the *)
(* download of what was stored.                                            *)
(*                                                                         *)
(* Numbers of bytes are small; a file arrives in chunks of one byte.  What *)
(* fails while the rows are written, and the cleaning up after a refusal,  *)
(* is in module Bin.  tokio's File writes in the background: the error of  *)
(* a write is reported by the next one, and sync_all reports none.         *)
(***************************************************************************)
EXTENDS Integers, Sequences, SequencesExt

CONSTANTS File,             \* files a user may choose
          Bytes,            \* File -> size
          ContentBytes,     \* sizes of the text
          MAX_ATTACHMENTS_PER_RECORD, \* 20 in the code
          AttachmentLimits, \* values of MAX_ATTACHMENT_BYTES
          MAX_REQUEST_BYTES,
          MAX_CONTENT_BYTES,
          Overhead,         \* bytes a multipart part costs besides its data
          MaxParts,         \* bound: parts of a form no script has made
          MaxSaves,         \* bound: forms sent
          NoFile

ASSUME UploadAssumption ==
    /\ Bytes \in [File -> Nat] /\ ContentBytes \subseteq Nat
    /\ MAX_ATTACHMENTS_PER_RECORD \in Nat \ {0} /\ AttachmentLimits \subseteq Nat
    /\ {MAX_REQUEST_BYTES, MAX_CONTENT_BYTES, MaxParts, MaxSaves} \subseteq Nat
    /\ Overhead \in Nat \ {0} /\ NoFile \notin File

VARIABLES
    maxAttachment, \* MAX_ATTACHMENT_BYTES of the process
    form,          \* the edit form of a browser
    sent,          \* the request the server handles, and how it ended
    rec,           \* a record: its text and the attachments last added
    saves          \* bound

formVars == <<maxAttachment, form, sent, rec, saves>>

\* pending is what the page lists, input what the browser would send.
NewForm == [pending |-> <<>>, input |-> <<>>, dialog |-> FALSE]
NoRequest == [pc |-> "idle", via |-> "web", parts |-> <<>>, declared |-> 0,
              read |-> 0, count |-> 0, file |-> NoFile, size |-> 0, kept |-> 0,
              bad |-> FALSE, content |-> 0, uploads |-> <<>>,
              shown |-> <<>>, dialog |-> FALSE, why |-> "none"]

-----------------------------------------------------------------------------
(* The script of the form.  A file input that is given an empty value       *)
(* forgets its files; files given to it fire no event.                      *)

\* Mutant: the list takes every file that is not too large.
AcceptedAll(pending, f) ==
    IF maxAttachment = 0 \/ Bytes[f] <= maxAttachment
    THEN Append(pending, f) ELSE pending

\* addFiles, for each of the files: it skips what is too large and stops when
\* the list is full; without a limit in the page it skips nothing.
Accepted(pending, f) ==
    IF \/ Len(pending) >= MAX_ATTACHMENTS_PER_RECORD
       \/ maxAttachment # 0 /\ Bytes[f] > maxAttachment
    THEN pending ELSE Append(pending, f)

\* Mutant: the dropped files are listed and not given to the input.
DropUnsynced(f) ==
    /\ form' = [form EXCEPT !.pending = Accepted(@, f), !.dialog = FALSE]
    /\ UNCHANGED <<maxAttachment, sent, rec, saves>>

\* addFiles(dataTransfer.files), which ends in syncInputFiles.
Drop(f) ==
    LET all == Accepted(form.pending, f) IN
    /\ form' = [pending |-> all, input |-> all, dialog |-> FALSE]
    /\ UNCHANGED <<maxAttachment, sent, rec, saves>>

\* The change event of the input: addFiles(input.files), then value = "".
Choose(f) ==
    /\ form' = [pending |-> Accepted(form.pending, f), input |-> <<>>,
                dialog |-> TRUE]
    /\ UNCHANGED <<maxAttachment, sent, rec, saves>>

-----------------------------------------------------------------------------
(* Requests. *)

TextPart(n) == [name |-> "content", len |-> n, file |-> NoFile]
FilePart(f) == [name |-> "files", len |-> Bytes[f], file |-> f]
\* What a browser sends for an input without files, and a part with no name.
EmptyPart(n) == [name |-> "files", len |-> n, file |-> NoFile]
OtherPart(n) == [name |-> "other", len |-> n, file |-> NoFile]

FileParts(list) == [i \in DOMAIN list |-> FilePart(list[i])]
BodySize(parts) == FoldLeft(LAMBDA n, p : n + p.len + Overhead, 0, parts)

\* The script and the client declare the length of what they send.
Send(via, parts) ==
    /\ sent.pc = "idle" /\ saves < MaxSaves
    /\ saves' = saves + 1
    /\ sent' = [NoRequest EXCEPT !.pc = "arrived", !.via = via, !.parts = parts,
                  !.declared = IF via = "api" THEN 0 ELSE BodySize(parts),
                  !.shown = IF via = "web" THEN form.pending ELSE <<>>,
                  !.dialog = via = "web" /\ form.dialog]
    /\ UNCHANGED <<maxAttachment, form, rec>>

Multipart(n, files) == <<TextPart(n)>> \o files

\* Save in the edit form.
Submit ==
    \E n \in ContentBytes :
      Send("web", Multipart(n, IF form.input = <<>> THEN <<EmptyPart(0)>>
                                                    ELSE FileParts(form.input)))

\* `aardbin-cli paste`, with the text and any files, in one attempt: the form
\* cannot be cloned, so send_with_retry never retries it.
Paste ==
    \E n \in ContentBytes : \E list \in BoundedSeq(File, MAX_ATTACHMENTS_PER_RECORD + 1) :
      Send("cli", Multipart(n, FileParts(list)))

\* `aardbin-cli upload`: a new record with the text of the one it was given,
\* and the one file.
CmdUpload(f) == Send("cli", Multipart(rec.content, <<FilePart(f)>>))

\* Another client of POST /api/records: any parts, with no length declared.
Post ==
    \E parts \in BoundedSeq({TextPart(n) : n \in ContentBytes}
                         \union {FilePart(f) : f \in File}
                         \union {EmptyPart(1), OtherPart(2)}, MaxParts) :
      Send("api", parts)

-----------------------------------------------------------------------------
(* parse_record_form. *)

Part == Head(sent.parts)
Step(r) == sent' = r /\ UNCHANGED <<maxAttachment, form, rec, saves>>
Refuse(why) == Step([NoRequest EXCEPT !.pc = "refused", !.why = why,
                       !.via = sent.via, !.dialog = sent.dialog])
\* The whole body is under the HTTP body limit, which ends the stream with an
\* error before total_bytes can reach the same number.
Over(n) == sent.read + n > MAX_REQUEST_BYTES

CheckLength ==
    /\ sent.pc = "arrived"
    /\ IF sent.declared > MAX_REQUEST_BYTES THEN Refuse("length")
       ELSE Step([sent EXCEPT !.pc = "fields"])

\* next_field fails on a body that is over the limit; it, or chunk, fails on
\* one that is broken off, whoever sent it.
FieldError ==
    \/ sent.pc = "fields" /\ Over(0) /\ Refuse("length")
    \/ sent.pc \in {"fields", "chunks"} /\ Refuse("broken")

AtField(name) ==
    sent.pc = "fields" /\ ~Over(0) /\ sent.parts # <<>> /\ Part.name = name
PastPart == [sent EXCEPT !.parts = Tail(@), !.read = @ + Part.len + Overhead]

\* Mutant: the text is as long as the request lets it be.
AnyText ==
    /\ AtField("content")
    /\ IF Over(Part.len + Overhead) THEN Refuse("length")
       ELSE Step([PastPart EXCEPT !.content = Part.len])

\* "title" goes the same way, with no limit of its own: it is cut.
TextField ==
    /\ AtField("content")
    /\ IF Over(Part.len + Overhead) THEN Refuse("length")
       ELSE IF Part.len > MAX_CONTENT_BYTES THEN Refuse("content")
       ELSE Step([PastPart EXCEPT !.content = Part.len])

\* A field of another name is drained; a files part with no file name is
\* left to next_field.  Neither looks at a limit.
OtherField ==
    /\ AtField("other") \/ (AtField("files") /\ Part.file = NoFile)
    /\ Step(PastPart)

\* Mutant: one file fewer.
FileFieldStrict ==
    /\ AtField("files") /\ Part.file # NoFile
    /\ IF sent.count + 1 >= MAX_ATTACHMENTS_PER_RECORD THEN Refuse("count")
       ELSE Step([sent EXCEPT !.pc = "chunks", !.count = @ + 1,
                    !.file = Part.file, !.size = 0, !.kept = 0, !.bad = FALSE])

\* A file: the count, then begin_upload.
FileField ==
    /\ AtField("files") /\ Part.file # NoFile
    /\ IF sent.count + 1 > MAX_ATTACHMENTS_PER_RECORD THEN Refuse("count")
       ELSE \/ Step([sent EXCEPT !.pc = "chunks", !.count = @ + 1,
                       !.file = Part.file, !.size = 0, !.kept = 0, !.bad = FALSE])
            \/ Refuse("disk")

MoreChunks == sent.pc = "chunks" /\ sent.size < Bytes[sent.file]

\* Mutant: the outcome of write_all is dropped.
ChunkUnchecked ==
    /\ MoreChunks
    /\ IF Over(sent.size + 1) THEN Refuse("length")
       ELSE IF sent.size + 1 > maxAttachment THEN Refuse("size")
       ELSE \E ok \in BOOLEAN :
              Step([sent EXCEPT !.size = @ + 1, !.bad = ~ok,
                      !.kept = IF ok /\ ~sent.bad THEN @ + 1 ELSE @])

\* A chunk is counted, checked and handed to the file, which reports what
\* became of the chunk before it.
Chunk ==
    /\ MoreChunks
    /\ IF Over(sent.size + 1) THEN Refuse("length")
       ELSE IF sent.size + 1 > maxAttachment THEN Refuse("size")
       ELSE IF sent.bad THEN Refuse("disk")
       ELSE \E ok \in BOOLEAN :
              Step([sent EXCEPT !.size = @ + 1, !.bad = ~ok,
                      !.kept = IF ok THEN @ + 1 ELSE @])

\* finalize_upload; the length it returns is not looked at.
Finalize ==
    /\ sent.pc = "chunks" /\ sent.size = Bytes[sent.file]
    /\ \/ Step([PastPart EXCEPT !.pc = "fields", !.file = NoFile,
                  !.size = 0, !.kept = 0, !.bad = FALSE,
                  !.uploads = Append(@, [file |-> sent.file, size |-> sent.size,
                                         kept |-> sent.kept])])
       \/ Refuse("disk")

\* The end of the form, and the rows: an edit adds to those of the record.
SaveForm ==
    /\ sent.pc = "fields" /\ ~Over(0) /\ sent.parts = <<>>
    /\ sent' = [NoRequest EXCEPT !.pc = "saved", !.via = sent.via,
                  !.content = sent.content, !.uploads = sent.uploads,
                  !.shown = sent.shown, !.dialog = sent.dialog,
                  !.read = sent.read]
    /\ rec' = [content |-> sent.content, rows |-> sent.uploads]
    /\ UNCHANGED <<maxAttachment, form, saves>>

\* Mutant: no length is announced.
DownloadUnmeasured ==
    /\ sent.pc = "idle"
    /\ \E i \in DOMAIN rec.rows :
         LET a == rec.rows[i] IN
         Step([NoRequest EXCEPT !.pc = "downloaded", !.file = a.file,
                 !.kept = a.kept])

\* The file is streamed under the Content-Length of its row: one that is
\* shorter ends in an error at the client.
Download ==
    /\ sent.pc = "idle"
    /\ \E i \in DOMAIN rec.rows :
         LET a == rec.rows[i] IN
         Step([NoRequest EXCEPT
                 !.pc = IF a.kept = a.size THEN "downloaded" ELSE "refused",
                 !.why = IF a.kept = a.size THEN "none" ELSE "short",
                 !.via = "download", !.file = a.file, !.kept = a.kept])

\* Saved: HX-Redirect takes the browser off the form.  Refused: a toast, and
\* the form stays as it is.
Answered ==
    /\ sent.pc \in {"saved", "refused", "downloaded"}
    /\ sent' = NoRequest
    /\ form' = IF sent.pc = "saved" /\ sent.via = "web" THEN NewForm ELSE form
    /\ UNCHANGED <<maxAttachment, rec, saves>>

FormInit ==
    /\ maxAttachment \in AttachmentLimits
    /\ form = NewForm
    /\ sent = NoRequest
    /\ rec = [content |-> 0, rows |-> <<>>]
    /\ saves = 0

\* Several files dropped or chosen at once leave what one after the other do.
Script == \E f \in File : Drop(f) \/ Choose(f)
Client == Submit \/ Paste \/ Post \/ \E f \in File : CmdUpload(f)
Parse ==
    \/ CheckLength \/ FieldError \/ TextField \/ OtherField \/ FileField
    \/ Chunk \/ Finalize \/ SaveForm

FormNext == Script \/ Client \/ Parse \/ Answered \/ Download

FormSpec == FormInit /\ [][FormNext]_formVars

-----------------------------------------------------------------------------
\* Variables have their types, and what the parser holds it has counted.
FormTypeOK ==
    /\ maxAttachment \in AttachmentLimits
    /\ form.pending \in Seq(File) /\ form.input \in Seq(File)
    /\ Len(form.pending) <= MAX_ATTACHMENTS_PER_RECORD
    /\ sent.pc \in {"idle", "arrived", "fields", "chunks", "refused",
                   "saved", "downloaded"}
    /\ sent.pc = "chunks" => sent.kept <= sent.size
    /\ sent.pc = "fields" => sent.count = Len(sent.uploads)
    /\ sent.pc = "chunks" => sent.count = Len(sent.uploads) + 1
    /\ saves \in 0..MaxSaves

Stored == [i \in DOMAIN sent.uploads |-> sent.uploads[i].file]

\* The page lists, and the server stores, "the source of truth": a save of the
\* form stores the files the page listed, however they were chosen and however
\* often it was refused before; but only if the last choice was a drop.  A
\* choice in the dialog empties the input it was made in.
SavesWhatWasDropped ==
    sent.pc = "saved" /\ sent.via = "web" =>
      Stored = IF sent.dialog THEN <<>> ELSE sent.shown

\* AC-06, uploading works: a save of the form stores the files that the page
\* lists.  The property of a run that TLC refutes.
SavesWhatIsShown ==
    sent.pc = "saved" /\ sent.via = "web" => Stored = sent.shown

\* The script and the server agree on the limits: what the script let into the
\* list, the server refuses for no file's size and not for the number of files,
\* but for a limit of zero, which is no limit to the script.
ScriptAgrees ==
    sent.pc = "refused" /\ sent.via = "web" /\ sent.why \in {"count", "size"} =>
      maxAttachment = 0

\* SPEC 17.2: whatever the parts and their order, what one save stores is
\* within every limit.  The number of files is limited in a request only: a
\* record may come to have more.
StoredWithinLimits ==
    sent.pc = "saved" =>
      /\ sent.read <= MAX_REQUEST_BYTES
      /\ sent.content <= MAX_CONTENT_BYTES
      /\ Len(sent.uploads) <= MAX_ATTACHMENTS_PER_RECORD
      /\ \A i \in DOMAIN sent.uploads : sent.uploads[i].size <= maxAttachment

\* A stored file may lack its last chunk and nothing else: a write that fails
\* is noticed by the next one, and the last one's is never noticed.
ShortByLastWrite ==
    \A i \in DOMAIN rec.rows :
      LET a == rec.rows[i] IN
      a.size = Bytes[a.file] /\ a.kept \in {a.size, a.size - 1}

\* AC-05, downloaded bytes = uploaded bytes: a download that does not fail has
\* every byte of the file, although stored files may be short.
DownloadIsUpload ==
    sent.pc = "downloaded" => sent.kept = Bytes[sent.file]
=============================================================================
