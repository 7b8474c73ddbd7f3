---------------------------- MODULE UploadProofs ----------------------------
(***************************************************************************)
(* Proofs about Upload: what the limits of the form and of the parser      *)
(* amount to, for any files, limits and forms.                             *)
(*                                                                         *)
(* UploadInv is inductive.  Types and Counted follow a request through the *)
(* parser; Kept holds of what is stored because Counted held of what was   *)
(* about to be; Listed says what the script let into the form, FromScript  *)
(* what is left of that in a request the form has become.                  *)
(***************************************************************************)
EXTENDS Upload, TLAPS

Parts == [name : {"content", "files", "other"}, len : Nat, file : File \union {NoFile}]
Rows == [file : File \union {NoFile}, size : Nat, kept : Int]
Requests ==
    [pc : {"idle", "arrived", "fields", "chunks", "refused", "saved", "downloaded"},
     via : {"web", "cli", "api", "download"}, parts : Seq(Parts),
     declared : {0} \union {BodySize(p) : p \in Seq(Parts)},
     read : Nat, count : Nat, file : File \union {NoFile}, size : Nat,
     kept : Int, bad : BOOLEAN, content : Nat, uploads : Seq(Rows),
     shown : Seq(File), dialog : BOOLEAN,
     why : {"none", "length", "broken", "content", "count", "disk", "size", "short"}]

Types ==
    /\ maxAttachment \in AttachmentLimits
    /\ form \in [pending : Seq(File), input : Seq(File), dialog : BOOLEAN]
    /\ sent \in Requests
    /\ rec \in [content : Nat, rows : Seq(Rows)]
    /\ saves \in 0..MaxSaves

\* A file that is stored: measured, within its limit, short by a chunk at most.
Sound(a) ==
    /\ a.size = Bytes[a.file] /\ a.size <= maxAttachment
    /\ a.kept \in {a.size, a.size - 1}

\* What the parser has counted and checked.
Counted ==
    /\ sent.pc = "arrived" => sent.count = 0 /\ sent.uploads = <<>>
    /\ sent.pc = "fields" => sent.count = Len(sent.uploads)
    /\ sent.pc = "chunks" =>
         /\ sent.count = Len(sent.uploads) + 1 /\ sent.parts # <<>>
         /\ sent.file \in File
         /\ sent.size <= maxAttachment
         /\ sent.kept = IF sent.bad THEN sent.size - 1 ELSE sent.size
    /\ sent.count <= MAX_ATTACHMENTS_PER_RECORD
    /\ Len(sent.uploads) <= MAX_ATTACHMENTS_PER_RECORD
    /\ sent.content <= MAX_CONTENT_BYTES
    /\ \A i \in DOMAIN sent.uploads : Sound(sent.uploads[i])
    /\ sent.pc = "saved" => sent.read <= MAX_REQUEST_BYTES
    /\ DownloadIsUpload

Kept == \A i \in DOMAIN rec.rows : Sound(rec.rows[i])

Small(f) == maxAttachment = 0 \/ Bytes[f] <= maxAttachment

\* What the script has let into the form.
Listed ==
    /\ Len(form.pending) <= MAX_ATTACHMENTS_PER_RECORD
    /\ Len(form.input) <= MAX_ATTACHMENTS_PER_RECORD
    /\ \A i \in DOMAIN form.pending : Small(form.pending[i])
    /\ \A i \in DOMAIN form.input : Small(form.input[i])

\* What is left of a form the browser sent: so few files, and all small.
FromScript ==
    sent.via = "web" /\ sent.pc \in {"arrived", "fields", "chunks"} =>
      /\ sent.count + Len(sent.parts) <= MAX_ATTACHMENTS_PER_RECORD + 1
      /\ sent.pc # "chunks" /\ sent.parts # <<>> /\ Part.file # NoFile =>
           sent.count + Len(sent.parts) <= MAX_ATTACHMENTS_PER_RECORD
      /\ \A i \in DOMAIN sent.parts :
           sent.parts[i].file # NoFile => Small(sent.parts[i].file)
      /\ sent.pc = "chunks" => Small(sent.file)

UploadInv == Types /\ Counted /\ Kept /\ Listed /\ FromScript /\ ScriptAgrees

USE UploadAssumption

LEMMA NoneIsRequest ==
    /\ NoRequest \in Requests /\ NoRequest.pc = "idle" /\ NoRequest.read = 0
    /\ NoRequest.count = 0 /\ NoRequest.uploads = <<>> /\ NoRequest.content = 0
  BY DEF NoRequest, Requests

LEMMA UploadStart == FormInit => UploadInv
  BY DEF FormInit, UploadInv, Types, Counted, Kept, Listed, FromScript,
     ScriptAgrees, NewForm, NoRequest, Requests, Parts, Rows, DownloadIsUpload

\* The script.
LEMMA AcceptedFits ==
    ASSUME UploadInv, NEW f \in File
    PROVE  LET all == Accepted(form.pending, f) IN
           /\ all \in Seq(File) /\ Len(all) <= MAX_ATTACHMENTS_PER_RECORD
           /\ \A i \in DOMAIN all : Small(all[i])
<1> DEFINE all == Accepted(form.pending, f)
           max == MAX_ATTACHMENTS_PER_RECORD
<1>1. /\ form.pending \in Seq(File) /\ Len(form.pending) <= max
      /\ \A i \in DOMAIN form.pending : Small(form.pending[i])
      /\ maxAttachment \in Nat /\ Bytes[f] \in Nat
  BY DEF UploadInv, Types, Listed
<1>2. CASE all = form.pending
  BY <1>1, <1>2
<1>3. CASE all # form.pending
  <2>1. /\ all = Append(form.pending, f)
        /\ ~(Len(form.pending) >= max) /\ ~(maxAttachment # 0 /\ Bytes[f] > maxAttachment)
    BY <1>3 DEF Accepted
  <2>2. Small(f)
    BY <1>1, <2>1 DEF Small
  <2>3. all \in Seq(File) /\ Len(all) = Len(form.pending) + 1
    BY <1>1, <2>1
  <2>4. ASSUME NEW i \in DOMAIN all PROVE Small(all[i])
    BY <1>1, <2>1, <2>2, <2>3
  <2> QED
    BY <1>1, <2>1, <2>3, <2>4
<1> QED
  BY <1>2, <1>3

LEMMA ScriptStep == ASSUME UploadInv, Script PROVE UploadInv'
<1> PICK f \in File : Drop(f) \/ Choose(f)
  BY DEF Script
<1>1. UNCHANGED <<maxAttachment, sent, rec, saves>>
  BY DEF Drop, Choose
<1>2. /\ form' \in [pending : Seq(File), input : Seq(File), dialog : BOOLEAN]
      /\ Listed'
  <2> DEFINE all == Accepted(form.pending, f)
  <2>1. /\ all \in Seq(File) /\ Len(all) <= MAX_ATTACHMENTS_PER_RECORD
        /\ \A i \in DOMAIN all : Small(all[i])
    BY AcceptedFits
  <2> DEFINE none == << >>
  <2>0. none \in Seq(File) /\ Len(none) = 0
    OBVIOUS
  <2>2. PICK chosen \in {all, none}, d \in BOOLEAN :
               form' = [pending |-> all, input |-> chosen, dialog |-> d]
    BY Zenon DEF Drop, Choose
  <2> HIDE DEF all, none
  <2>3. form'.pending = all /\ form'.input = chosen
    BY <2>2
  <2>4. chosen \in Seq(File) /\ chosen \in {all, none}
    BY <2>0, <2>1, <2>2
  <2>5. form' \in [pending : Seq(File), input : Seq(File), dialog : BOOLEAN]
    BY <2>1, <2>2, <2>4, Zenon
  <2> QED
    BY <1>1, <2>0, <2>1, <2>3, <2>4, <2>5 DEF Listed, Small
<1>3. Types' /\ ScriptAgrees'
  BY <1>1, <1>2 DEF UploadInv, Types, ScriptAgrees
<1>4. Counted' /\ Kept' /\ FromScript'
  BY <1>1 DEF UploadInv, Counted, Kept, FromScript, Sound, Small, Part, DownloadIsUpload
<1> QED
  BY <1>2, <1>3, <1>4 DEF UploadInv

\* Requests.
LEMMA Sends ==
    ASSUME UploadInv, NEW via \in {"web", "cli", "api"}, NEW parts \in Seq(Parts),
           Send(via, parts),
           via = "web" =>
             /\ Len(parts) <= MAX_ATTACHMENTS_PER_RECORD + 1
             /\ parts[1].file = NoFile
             /\ \A i \in DOMAIN parts : parts[i].file # NoFile => Small(parts[i].file)
    PROVE  UploadInv'
<1>1. /\ sent' \in Requests
      /\ sent'.pc = "arrived" /\ sent'.via = via /\ sent'.parts = parts
      /\ sent'.count = 0 /\ sent'.uploads = <<>> /\ sent'.content = 0
  <2> DEFINE shown == IF via = "web" THEN form.pending ELSE <<>>
             dialog == via = "web" /\ form.dialog
             declared == IF via = "api" THEN 0 ELSE BodySize(parts)
  <2>1. /\ shown \in Seq(File) /\ dialog \in BOOLEAN
        /\ declared \in {0} \union {BodySize(p) : p \in Seq(Parts)}
    BY DEF UploadInv, Types
  <2>2. sent' = [NoRequest EXCEPT !.pc = "arrived", !.via = via, !.parts = parts,
                   !.declared = declared, !.shown = shown, !.dialog = dialog]
    BY DEF Send
  <2> HIDE DEF shown, dialog, declared
  <2>3. NoRequest \in Requests /\ NoRequest.count = 0 /\ NoRequest.uploads = <<>>
        /\ NoRequest.content = 0
    BY NoneIsRequest
  <2> QED
    BY <2>1, <2>2, <2>3 DEF Requests
<1>2. UNCHANGED <<maxAttachment, form, rec>> /\ saves' \in 0..MaxSaves
  BY DEF Send, UploadInv, Types
<1>3. Types' /\ Counted' /\ ScriptAgrees'
  BY <1>1, <1>2 DEF UploadInv, Types, Counted, ScriptAgrees, DownloadIsUpload
<1>4. Kept' /\ Listed'
  BY <1>2 DEF UploadInv, Kept, Listed, Sound, Small
<1>5. FromScript'
  BY <1>1, <1>2 DEF FromScript, Part, Small
<1> QED
  BY <1>3, <1>4, <1>5 DEF UploadInv

LEMMA PartTypes ==
    /\ \A n \in Nat : /\ TextPart(n) \in Parts /\ EmptyPart(n) \in Parts
                      /\ OtherPart(n) \in Parts
                      /\ TextPart(n).file = NoFile /\ EmptyPart(n).file = NoFile
    /\ \A f \in File : FilePart(f) \in Parts /\ FilePart(f).file = f
  BY DEF TextPart, EmptyPart, OtherPart, FilePart, Parts

LEMMA FileParted ==
    ASSUME NEW list \in Seq(File)
    PROVE  /\ FileParts(list) \in Seq(Parts) /\ Len(FileParts(list)) = Len(list)
           /\ \A i \in DOMAIN list : FileParts(list)[i].file = list[i]
  BY PartTypes DEF FileParts

LEMMA Multiparts ==
    ASSUME NEW n \in Nat, NEW files \in Seq(Parts)
    PROVE  /\ Multipart(n, files) \in Seq(Parts)
           /\ Len(Multipart(n, files)) = Len(files) + 1
           /\ Multipart(n, files)[1] = TextPart(n)
           /\ \A i \in DOMAIN Multipart(n, files) :
                i = 1 \/ /\ i - 1 \in DOMAIN files
                         /\ Multipart(n, files)[i] = files[i - 1]
<1>1. <<TextPart(n)>> \in Seq(Parts) /\ Len(<<TextPart(n)>>) = 1
      /\ <<TextPart(n)>>[1] = TextPart(n)
  BY PartTypes
<1> QED
  BY <1>1 DEF Multipart

LEMMA ClientStep == ASSUME UploadInv, Client PROVE UploadInv'
<1>1. CASE Submit
  <2> PICK n \in ContentBytes :
        Send("web", Multipart(n, IF form.input = <<>> THEN <<EmptyPart(0)>>
                                                      ELSE FileParts(form.input)))
    BY <1>1 DEF Submit
  <2> DEFINE files == IF form.input = <<>> THEN <<EmptyPart(0)>>
                                           ELSE FileParts(form.input)
  <2>1. n \in Nat /\ form.input \in Seq(File)
    BY DEF UploadInv, Types
  <2>2. /\ files \in Seq(Parts) /\ Len(files) <= MAX_ATTACHMENTS_PER_RECORD
        /\ \A i \in DOMAIN files : files[i].file # NoFile => Small(files[i].file)
    <3>1. CASE form.input = <<>>
      <4>1. files = <<EmptyPart(0)>>
        BY <3>1
      <4>2. EmptyPart(0) \in Parts /\ EmptyPart(0).file = NoFile
        BY PartTypes
      <4> HIDE DEF files
      <4> QED
        BY <4>1, <4>2
    <3>2. CASE form.input # <<>>
      <4>1. files = FileParts(form.input)
        BY <3>2
      <4> HIDE DEF files
      <4>2. /\ files \in Seq(Parts) /\ Len(files) = Len(form.input)
            /\ \A i \in DOMAIN form.input : files[i].file = form.input[i]
        BY <2>1, <4>1, FileParted
      <4>3. DOMAIN files = DOMAIN form.input
        BY <2>1, <4>2
      <4> QED
        BY <4>2, <4>3 DEF UploadInv, Listed
    <3> QED
      BY <3>1, <3>2
  <2> DEFINE parts == Multipart(n, files)
  <2>3. Send("web", parts)
    OBVIOUS
  <2> HIDE DEF files
  <2>4. /\ parts \in Seq(Parts) /\ Len(parts) = Len(files) + 1
        /\ parts[1] = TextPart(n)
        /\ \A i \in DOMAIN parts : i = 1 \/ /\ i - 1 \in DOMAIN files
                                            /\ parts[i] = files[i - 1]
    BY <2>1, <2>2, Multiparts
  <2> HIDE DEF parts
  <2>5. /\ Len(parts) <= MAX_ATTACHMENTS_PER_RECORD + 1
        /\ parts[1].file = NoFile
    BY <2>1, <2>2, <2>4, PartTypes
  <2>6. ASSUME NEW i \in DOMAIN parts, parts[i].file # NoFile
        PROVE  Small(parts[i].file)
    BY <2>2, <2>4, <2>5, <2>6
  <2> QED
    BY <2>3, <2>4, <2>5, <2>6, Sends
<1>2. CASE Paste
  <2> PICK n \in ContentBytes, list \in BoundedSeq(File, MAX_ATTACHMENTS_PER_RECORD + 1) :
        Send("cli", Multipart(n, FileParts(list)))
    BY <1>2 DEF Paste
  <2>1. list \in Seq(File) /\ n \in Nat
    <3>1. PICK k \in 0..(MAX_ATTACHMENTS_PER_RECORD + 1) : list \in [1..k -> File]
      BY DEF BoundedSeq, SeqOf
    <3> QED
      BY <3>1
  <2>2. Multipart(n, FileParts(list)) \in Seq(Parts)
    BY <2>1, FileParted, Multiparts
  <2> QED
    BY <2>2, Sends
<1>3. ASSUME NEW f \in File, CmdUpload(f) PROVE UploadInv'
  <2>1. rec.content \in Nat /\ <<FilePart(f)>> \in Seq(Parts)
    BY PartTypes DEF UploadInv, Types
  <2>2. Multipart(rec.content, <<FilePart(f)>>) \in Seq(Parts)
    BY <2>1, Multiparts
  <2> QED
    BY <1>3, <2>2, Sends DEF CmdUpload
<1>4. CASE Post
  <2> DEFINE kinds == {TextPart(n) : n \in ContentBytes}
                        \union {FilePart(f) : f \in File}
                        \union {EmptyPart(1), OtherPart(2)}
  <2>1. PICK parts \in BoundedSeq(kinds, MaxParts) : Send("api", parts)
    BY <1>4 DEF Post
  <2>2. kinds \subseteq Parts
    BY PartTypes
  <2> HIDE DEF kinds
  <2>3. PICK k \in 0..MaxParts : parts \in [1..k -> kinds]
    BY DEF BoundedSeq, SeqOf
  <2>4. parts \in Seq(Parts)
    BY <2>2, <2>3
  <2> QED
    BY <2>1, <2>4, Sends
<1> QED
  BY <1>1, <1>2, <1>3, <1>4 DEF Client

\* What FileField and Chunk make of a request.
LEMMA Written ==
    ASSUME NEW r \in Requests, NEW c \in Nat, NEW f \in File \union {NoFile},
           NEW s \in Nat, NEW k \in Int, NEW b \in BOOLEAN
    PROVE  /\ [r EXCEPT !.pc = "chunks", !.count = c, !.file = f, !.size = s,
                 !.kept = k, !.bad = b] \in Requests
           /\ [r EXCEPT !.size = s, !.bad = b, !.kept = k] \in Requests
  BY Zenon DEF Requests

\* The parser.  A step that leaves the record alone is about the request only.
LEMMA Requesting ==
    ASSUME UploadInv, UNCHANGED <<maxAttachment, form, rec, saves>>,
           sent' \in Requests, Counted', FromScript', ScriptAgrees'
    PROVE  UploadInv'
<1>1. Types' /\ Kept' /\ Listed'
  BY DEF UploadInv, Types, Kept, Listed, Sound, Small
<1> QED
  BY <1>1 DEF UploadInv

LEMMA Refuses ==
    ASSUME UploadInv,
           NEW why \in {"length", "broken", "content", "count", "disk", "size"},
           Refuse(why),
           sent.via = "web" /\ why \in {"count", "size"} => maxAttachment = 0
    PROVE  UploadInv'
<1>1. sent \in Requests
  BY DEF UploadInv, Types
<1>2. /\ sent' = [NoRequest EXCEPT !.pc = "refused", !.why = why,
                    !.via = sent.via, !.dialog = sent.dialog]
      /\ UNCHANGED <<maxAttachment, form, rec, saves>>
  BY DEF Refuse, Step
<1>3. /\ sent' \in Requests /\ sent'.pc = "refused" /\ sent'.why = why
      /\ sent'.via = sent.via /\ sent'.count = 0 /\ sent'.uploads = <<>>
      /\ sent'.content = 0
  BY <1>1, <1>2, NoneIsRequest DEF Requests
<1>4. Counted' /\ FromScript' /\ ScriptAgrees'
  BY <1>2, <1>3 DEF Counted, FromScript, ScriptAgrees, DownloadIsUpload
<1> QED
  BY <1>2, <1>3, <1>4, Requesting

LEMMA LengthStep == ASSUME UploadInv, CheckLength \/ FieldError PROVE UploadInv'
<1>1. CASE Refuse("length") \/ Refuse("broken")
  BY <1>1, Refuses
<1>2. CASE sent.pc = "arrived" /\ Step([sent EXCEPT !.pc = "fields"])
  <2>1. sent \in Requests
    BY DEF UploadInv, Types
  <2>2. /\ sent' = [sent EXCEPT !.pc = "fields"]
        /\ UNCHANGED <<maxAttachment, form, rec, saves>>
    BY <1>2 DEF Step
  <2>3. /\ sent' \in Requests /\ sent'.pc = "fields" /\ sent'.via = sent.via
        /\ sent'.count = sent.count /\ sent'.uploads = sent.uploads
        /\ sent'.content = sent.content /\ sent'.parts = sent.parts
    BY <2>1, <2>2 DEF Requests
  <2>4. Counted'
    BY <1>2, <2>2, <2>3 DEF UploadInv, Counted, Sound, DownloadIsUpload
  <2>5. FromScript' /\ ScriptAgrees'
    BY <1>2, <2>2, <2>3 DEF UploadInv, FromScript, ScriptAgrees, Part, Small
  <2> QED
    BY <2>2, <2>3, <2>4, <2>5, Requesting
<1> QED
  BY <1>1, <1>2 DEF CheckLength, FieldError

\* A part is left behind: the request and what FromScript says of it.
LEMMA PassesPart ==
    ASSUME UploadInv, sent.parts # <<>>
    PROVE  /\ PastPart \in Requests /\ Part \in Parts
           /\ PastPart = [sent EXCEPT !.parts = Tail(sent.parts),
                            !.read = sent.read + Part.len + Overhead]
           /\ PastPart.parts = Tail(sent.parts)
           /\ Len(Tail(sent.parts)) = Len(sent.parts) - 1
           /\ \A i \in DOMAIN Tail(sent.parts) : Tail(sent.parts)[i] = sent.parts[i + 1]
<1>1. sent \in Requests /\ sent.parts \in Seq(Parts)
  BY DEF UploadInv, Types, Requests
<1>2. Part \in Parts
  BY <1>1 DEF Part
<1>3. /\ Tail(sent.parts) \in Seq(Parts)
      /\ Len(Tail(sent.parts)) = Len(sent.parts) - 1
      /\ \A i \in DOMAIN Tail(sent.parts) : Tail(sent.parts)[i] = sent.parts[i + 1]
  BY <1>1
<1>4. sent.read + Part.len + Overhead \in Nat
  <2>1. sent.read \in Nat
    BY <1>1 DEF Requests
  <2>2. Part.len \in Nat
    BY <1>2 DEF Parts
  <2> QED
    BY <2>1, <2>2
<1>5. PastPart = [sent EXCEPT !.parts = Tail(sent.parts),
                     !.read = sent.read + Part.len + Overhead]
  BY DEF PastPart
<1>6. PastPart \in Requests /\ PastPart.parts = Tail(sent.parts)
  BY <1>1, <1>3, <1>4, <1>5 DEF Requests
<1> QED
  BY <1>2, <1>3, <1>5, <1>6

LEMMA PastScript ==
    ASSUME UploadInv, sent.pc \in {"fields", "chunks"}, sent.parts # <<>>,
           sent'.via = sent.via, sent'.pc = "fields", sent'.count = sent.count,
           sent'.parts = Tail(sent.parts), maxAttachment' = maxAttachment
    PROVE  FromScript'
<1>1. /\ sent.parts \in Seq(Parts) /\ sent.count \in Nat
      /\ Len(Tail(sent.parts)) = Len(sent.parts) - 1
      /\ \A i \in DOMAIN Tail(sent.parts) : Tail(sent.parts)[i] = sent.parts[i + 1]
  BY PassesPart DEF UploadInv, Types, Requests
<1>2. DOMAIN Tail(sent.parts) = 1..(Len(sent.parts) - 1)
      /\ DOMAIN sent.parts = 1..Len(sent.parts)
  BY <1>1
<1> SUFFICES ASSUME sent.via = "web"
             PROVE  /\ sent'.count + Len(sent'.parts) <= MAX_ATTACHMENTS_PER_RECORD
                    /\ \A i \in DOMAIN sent'.parts :
                         sent'.parts[i].file # NoFile => Small(sent'.parts[i].file)
  BY <1>1 DEF FromScript, Small
<1>3. /\ sent.count + Len(sent.parts) <= MAX_ATTACHMENTS_PER_RECORD + 1
      /\ \A i \in DOMAIN sent.parts :
           sent.parts[i].file # NoFile => Small(sent.parts[i].file)
  BY DEF UploadInv, FromScript
<1>4. sent'.count + Len(sent'.parts) <= MAX_ATTACHMENTS_PER_RECORD
  BY <1>1, <1>2, <1>3
<1>5. ASSUME NEW i \in DOMAIN sent'.parts, sent'.parts[i].file # NoFile
      PROVE  Small(sent'.parts[i].file)
  <2>1. sent'.parts[i] = sent.parts[i + 1] /\ i + 1 \in DOMAIN sent.parts
    BY <1>1, <1>2, <1>5
  <2> QED
    BY <1>3, <1>5, <2>1
<1> QED
  BY <1>4, <1>5

LEMMA TextStep == ASSUME UploadInv, TextField \/ OtherField PROVE UploadInv'
<1>1. CASE Refuse("length") \/ Refuse("content")
  BY <1>1, Refuses
<1>2. ASSUME sent.pc = "fields", sent.parts # <<>>, NEW n \in Nat,
             n <= MAX_CONTENT_BYTES, Step([PastPart EXCEPT !.content = n])
      PROVE  UploadInv'
  <2>1. /\ sent' = [PastPart EXCEPT !.content = n]
        /\ UNCHANGED <<maxAttachment, form, rec, saves>>
    BY <1>2 DEF Step
  <2>2. /\ PastPart \in Requests /\ sent \in Requests
        /\ PastPart = [sent EXCEPT !.parts = Tail(sent.parts),
                         !.read = sent.read + Part.len + Overhead]
    BY <1>2, PassesPart DEF UploadInv, Types
  <2>3. /\ PastPart.pc = "fields" /\ PastPart.via = sent.via
        /\ PastPart.count = sent.count /\ PastPart.uploads = sent.uploads
    BY <1>2, <2>2 DEF Requests
  <2>4. /\ sent' \in Requests /\ sent'.pc = "fields" /\ sent'.via = sent.via
        /\ sent'.count = sent.count /\ sent'.uploads = sent.uploads
        /\ sent'.content = n /\ sent'.parts = Tail(sent.parts)
    BY <1>2, <2>1, <2>2, <2>3, PassesPart DEF Requests
  <2>5. Counted' /\ ScriptAgrees'
    BY <1>2, <2>1, <2>4 DEF UploadInv, Counted, Sound, DownloadIsUpload, ScriptAgrees
  <2>6. FromScript'
    BY <1>2, <2>1, <2>4, PastScript
  <2> QED
    BY <2>1, <2>4, <2>5, <2>6, Requesting
<1>3. CASE TextField /\ ~(Refuse("length") \/ Refuse("content"))
  <2>1. /\ sent.pc = "fields" /\ sent.parts # <<>>
        /\ ~(Part.len > MAX_CONTENT_BYTES)
        /\ Step([PastPart EXCEPT !.content = Part.len])
    BY <1>3 DEF TextField, AtField
  <2>2. Part.len \in Nat
    BY <2>1, PassesPart DEF Parts
  <2> QED
    BY <1>2, <2>1, <2>2
<1>4. CASE OtherField
  <2>1. sent.pc = "fields" /\ sent.parts # <<>> /\ Step(PastPart)
    BY <1>4 DEF OtherField, AtField
  <2>2. PastPart.content = sent.content /\ PastPart \in Requests
    BY <2>1, PassesPart DEF UploadInv, Types, Requests
  <2>3. PastPart = [PastPart EXCEPT !.content = sent.content]
    BY <2>2 DEF Requests
  <2>4. sent.content \in Nat /\ sent.content <= MAX_CONTENT_BYTES
    BY DEF UploadInv, Types, Requests, Counted
  <2> QED
    BY <1>2, <2>1, <2>3, <2>4
<1> QED
  BY <1>1, <1>3, <1>4

LEMMA FileStep == ASSUME UploadInv, FileField PROVE UploadInv'
<1>1. /\ sent \in Requests /\ sent.pc = "fields" /\ sent.parts # <<>>
      /\ Part.file # NoFile /\ Part.file \in File
  BY PassesPart DEF FileField, AtField, UploadInv, Types, Parts
<1>2. CASE Refuse("disk")
  BY <1>2, Refuses
<1>3. CASE sent.count + 1 > MAX_ATTACHMENTS_PER_RECORD /\ Refuse("count")
  <2>1. Len(sent.parts) >= 1 /\ sent.count \in Nat
    BY <1>1 DEF Requests
  <2>2. sent.via # "web"
    BY <1>1, <1>3, <2>1 DEF UploadInv, FromScript
  <2> QED
    BY <1>3, <2>2, Refuses
<1>4. CASE /\ ~(sent.count + 1 > MAX_ATTACHMENTS_PER_RECORD)
           /\ Step([sent EXCEPT !.pc = "chunks", !.count = @ + 1,
                      !.file = Part.file, !.size = 0, !.kept = 0, !.bad = FALSE])
  <2>1. /\ sent' = [sent EXCEPT !.pc = "chunks", !.count = @ + 1,
                      !.file = Part.file, !.size = 0, !.kept = 0, !.bad = FALSE]
        /\ UNCHANGED <<maxAttachment, form, rec, saves>>
    BY <1>4 DEF Step
  <2> DEFINE n == sent.count + 1
             f == Part.file
  <2>2. n \in Nat /\ f \in File
    BY <1>1 DEF Requests
  <2>3. PICK none \in BOOLEAN : none = FALSE /\
          sent' = [sent EXCEPT !.pc = "chunks", !.count = n,
                      !.file = f, !.size = 0, !.kept = 0, !.bad = none]
    BY <2>1
  <2> HIDE DEF n, f
  <2>4. /\ sent' \in Requests /\ sent'.pc = "chunks" /\ sent'.via = sent.via
        /\ sent'.count = n /\ sent'.uploads = sent.uploads
        /\ sent'.content = sent.content /\ sent'.parts = sent.parts
        /\ sent'.file = f /\ sent'.size = 0 /\ sent'.kept = 0
        /\ sent'.bad = none
    <3>1. /\ sent'.pc = "chunks" /\ sent'.via = sent.via
          /\ sent'.count = n /\ sent'.uploads = sent.uploads
          /\ sent'.content = sent.content /\ sent'.parts = sent.parts
          /\ sent'.file = f /\ sent'.size = 0 /\ sent'.kept = 0
      BY <1>1, <2>2, <2>3 DEF Requests
    <3>2. sent'.bad = none
      BY <1>1, <2>2, <2>3 DEF Requests
    <3>3. 0 \in Nat /\ 0 \in Int /\ f \in File \union {NoFile}
      BY <2>2
    <3>4. sent' \in Requests
      BY <1>1, <2>2, <2>3, <3>3, Written, Zenon
    <3> QED
      BY <3>1, <3>2, <3>4
  <2>5. n = sent.count + 1 /\ f = Part.file
    BY DEF n, f
  <2>6. sent.count \in Nat /\ maxAttachment \in Nat /\ sent.parts \in Seq(Parts)
    BY <1>1 DEF UploadInv, Types, Requests
  <2>7. Counted' /\ ScriptAgrees'
    BY <1>1, <1>4, <2>1, <2>4, <2>5, <2>6
       DEF UploadInv, Counted, Sound, DownloadIsUpload, ScriptAgrees
  <2>8. FromScript'
    <3> SUFFICES ASSUME sent.via = "web"
                 PROVE  /\ n + Len(sent.parts) <= MAX_ATTACHMENTS_PER_RECORD + 1
                        /\ \A i \in DOMAIN sent.parts :
                             sent.parts[i].file # NoFile => Small(sent.parts[i].file)
                        /\ Small(f)
      BY <2>1, <2>4 DEF FromScript, Small
    <3>1. /\ sent.count + Len(sent.parts) <= MAX_ATTACHMENTS_PER_RECORD
          /\ \A i \in DOMAIN sent.parts :
               sent.parts[i].file # NoFile => Small(sent.parts[i].file)
      BY <1>1 DEF UploadInv, FromScript
    <3>2. Len(sent.parts) \in Nat \ {0} /\ Part = sent.parts[1]
      BY <1>1, <2>6 DEF Part
    <3>3. Small(f)
      BY <1>1, <2>5, <2>6, <3>1, <3>2
    <3> QED
      BY <2>5, <2>6, <3>1, <3>2, <3>3
  <2> QED
    BY <2>1, <2>4, <2>7, <2>8, Requesting
<1> QED
  BY <1>2, <1>3, <1>4 DEF FileField

LEMMA ChunkStep == ASSUME UploadInv, Chunk PROVE UploadInv'
<1>1. /\ sent \in Requests /\ sent.pc = "chunks" /\ sent.size < Bytes[sent.file]
      /\ sent.size \in Nat /\ sent.kept \in Int /\ sent.bad \in BOOLEAN
  BY DEF Chunk, MoreChunks, UploadInv, Types, Requests
<1>2. CASE Refuse("length") \/ Refuse("disk")
  BY <1>2, Refuses
<1>3. CASE sent.size + 1 > maxAttachment /\ Refuse("size")
  <2>1. maxAttachment \in Nat
    BY DEF UploadInv, Types
  <2>2. ASSUME sent.via = "web" PROVE maxAttachment = 0
    <3>1. Small(sent.file)
      BY <1>1, <2>2 DEF UploadInv, FromScript
    <3>2. Bytes[sent.file] \in Nat
      BY <1>1 DEF UploadInv, Counted
    <3> QED
      BY <1>1, <1>3, <2>1, <3>1, <3>2 DEF Small
  <2> QED
    BY <1>3, <2>2, Refuses
<1>4. ASSUME NEW ok \in BOOLEAN, ~sent.bad, ~(sent.size + 1 > maxAttachment),
             Step([sent EXCEPT !.size = @ + 1, !.bad = ~ok,
                     !.kept = IF ok THEN @ + 1 ELSE @])
      PROVE  UploadInv'
  <2> DEFINE s == sent.size + 1
             k == IF ok THEN sent.kept + 1 ELSE sent.kept
  <2>1. s \in Nat /\ k \in Int
    BY <1>1
  <2>2. PICK b \in BOOLEAN : /\ b = ~ok
                             /\ sent' = [sent EXCEPT !.size = s, !.bad = b, !.kept = k]
    BY <1>4, Zenon DEF Step
  <2>3. UNCHANGED <<maxAttachment, form, rec, saves>>
    BY <1>4 DEF Step
  <2>4. sent.kept = sent.size
    BY <1>1, <1>4 DEF UploadInv, Counted
  <2>5. s <= maxAttachment /\ k = IF b THEN s - 1 ELSE s
    <3>1. s <= maxAttachment
      BY <1>1, <1>4 DEF UploadInv, Types
    <3>2. k = IF ok THEN s ELSE s - 1
      BY <1>1, <2>4
    <3>3. b = ~ok
      BY <2>2
    <3> HIDE DEF s, k
    <3> QED
      BY <3>1, <3>2, <3>3, Zenon
  <2> HIDE DEF s, k
  <2>6. sent' \in Requests
    BY <1>1, <2>1, <2>2, Written
  <2>7. /\ sent'.pc = "chunks" /\ sent'.via = sent.via
        /\ sent'.count = sent.count /\ sent'.uploads = sent.uploads
        /\ sent'.content = sent.content /\ sent'.parts = sent.parts
        /\ sent'.file = sent.file /\ sent'.size = s /\ sent'.kept = k
    BY <1>1, <2>1, <2>2 DEF Requests
  <2>8. sent'.bad = b
    BY <1>1, <2>2 DEF Requests
  <2>9. Counted'
    BY <1>1, <2>3, <2>5, <2>7, <2>8 DEF UploadInv, Counted, Sound, DownloadIsUpload
  <2>10. FromScript' /\ ScriptAgrees'
    BY <1>1, <2>3, <2>7 DEF UploadInv, FromScript, ScriptAgrees, Small
  <2> QED
    BY <2>3, <2>6, <2>9, <2>10, Requesting
<1> QED
  BY <1>1, <1>2, <1>3, <1>4 DEF Chunk

\* What Finalize makes of a request.
LEMMA Finished ==
    ASSUME NEW r \in Requests, NEW uploads \in Seq(Rows), NEW s \in Nat,
           NEW k \in Int, NEW b \in BOOLEAN, NEW f \in File \union {NoFile}
    PROVE  [r EXCEPT !.pc = "fields", !.file = f, !.size = s, !.kept = k,
              !.bad = b, !.uploads = uploads] \in Requests
  BY Zenon DEF Requests

LEMMA FinalizeStep == ASSUME UploadInv, Finalize PROVE UploadInv'
<1>1. /\ sent \in Requests /\ sent.pc = "chunks" /\ sent.size = Bytes[sent.file]
      /\ sent.parts # <<>> /\ sent.uploads \in Seq(Rows)
  BY DEF Finalize, UploadInv, Types, Requests, Counted
<1>2. CASE Refuse("disk")
  BY <1>2, Refuses
<1>3. CASE ~Refuse("disk")
  <2> DEFINE a == [file |-> sent.file, size |-> sent.size, kept |-> sent.kept]
             all == Append(sent.uploads, a)
  <2>1. /\ sent' = [PastPart EXCEPT !.pc = "fields", !.file = NoFile,
                      !.size = 0, !.kept = 0, !.bad = FALSE,
                      !.uploads = Append(PastPart.uploads, a)]
        /\ UNCHANGED <<maxAttachment, form, rec, saves>>
    BY <1>3 DEF Finalize, Step
  <2>2. /\ PastPart \in Requests /\ PastPart.via = sent.via
        /\ PastPart.count = sent.count /\ PastPart.uploads = sent.uploads
        /\ PastPart.content = sent.content
        /\ PastPart.parts = Tail(sent.parts)
    BY <1>1, PassesPart DEF Requests
  <2>3. a \in Rows /\ Sound(a)
    BY <1>1 DEF Requests, Rows, Sound, UploadInv, Counted
  <2> HIDE DEF a
  <2>4. /\ all \in Seq(Rows) /\ Len(all) = Len(sent.uploads) + 1
        /\ \A i \in DOMAIN all : \/ i \in DOMAIN sent.uploads /\ all[i] = sent.uploads[i]
                                 \/ all[i] = a
    BY <1>1, <2>3
  <2>5. sent' = [PastPart EXCEPT !.pc = "fields", !.file = NoFile, !.size = 0,
                   !.kept = 0, !.bad = FALSE, !.uploads = all]
    BY <2>1, <2>2
  <2> HIDE DEF all
  <2>6. sent' \in Requests
    <3>1. 0 \in Nat /\ 0 \in Int /\ NoFile \in File \union {NoFile} /\ FALSE \in BOOLEAN
      OBVIOUS
    <3> QED
      BY <2>2, <2>4, <2>5, <3>1, Finished, Zenon
  <2>7. /\ sent'.pc = "fields" /\ sent'.via = sent.via
        /\ sent'.count = sent.count /\ sent'.uploads = all
        /\ sent'.content = sent.content /\ sent'.parts = Tail(sent.parts)
    BY <2>2, <2>5 DEF Requests
  <2>8. \A i \in DOMAIN sent'.uploads : Sound(sent'.uploads[i])
    BY <2>3, <2>4, <2>7 DEF UploadInv, Counted
  <2>9. Counted'
    BY <1>1, <2>1, <2>4, <2>7, <2>8 DEF UploadInv, Counted, Sound, DownloadIsUpload
  <2>10. FromScript' /\ ScriptAgrees'
    BY <1>1, <2>1, <2>7, PastScript DEF ScriptAgrees
  <2> QED
    BY <2>1, <2>6, <2>9, <2>10, Requesting
<1> QED
  BY <1>2, <1>3

LEMMA SaveStep == ASSUME UploadInv, SaveForm PROVE UploadInv'
<1>1. /\ sent \in Requests /\ sent.pc = "fields" /\ sent.uploads \in Seq(Rows)
      /\ sent.read <= MAX_REQUEST_BYTES /\ sent.content \in Nat
  BY DEF SaveForm, Over, UploadInv, Types, Requests
<1>2. /\ sent' = [NoRequest EXCEPT !.pc = "saved", !.via = sent.via,
                    !.content = sent.content, !.uploads = sent.uploads,
                    !.shown = sent.shown, !.dialog = sent.dialog,
                    !.read = sent.read]
      /\ rec' = [content |-> sent.content, rows |-> sent.uploads]
      /\ UNCHANGED <<maxAttachment, form, saves>>
  BY DEF SaveForm
<1>3. /\ sent' \in Requests /\ sent'.pc = "saved" /\ sent'.via = sent.via
      /\ sent'.content = sent.content /\ sent'.uploads = sent.uploads
      /\ sent'.count = 0 /\ sent'.read = sent.read
  BY <1>1, <1>2, NoneIsRequest DEF Requests
<1>4. rec' \in [content : Nat, rows : Seq(Rows)] /\ rec'.rows = sent.uploads
  BY <1>1, <1>2
<1>5. Types'
  BY <1>2, <1>3, <1>4 DEF UploadInv, Types
<1>6. Counted' /\ Kept'
  BY <1>1, <1>2, <1>3, <1>4 DEF UploadInv, Counted, Kept, Sound, DownloadIsUpload
<1>7. Listed' /\ FromScript' /\ ScriptAgrees'
  BY <1>2, <1>3 DEF UploadInv, Listed, FromScript, ScriptAgrees, Small
<1> QED
  BY <1>5, <1>6, <1>7 DEF UploadInv

LEMMA DownloadStep == ASSUME UploadInv, Download PROVE UploadInv'
<1>1. PICK i \in DOMAIN rec.rows :
        Step([NoRequest EXCEPT
                !.pc = IF rec.rows[i].kept = rec.rows[i].size
                       THEN "downloaded" ELSE "refused",
                !.why = IF rec.rows[i].kept = rec.rows[i].size
                        THEN "none" ELSE "short",
                !.via = "download", !.file = rec.rows[i].file,
                !.kept = rec.rows[i].kept])
  BY DEF Download
<1> DEFINE a == rec.rows[i]
           pc == IF a.kept = a.size THEN "downloaded" ELSE "refused"
           why == IF a.kept = a.size THEN "none" ELSE "short"
<1>2. /\ a \in Rows /\ Sound(a) /\ rec.rows \in Seq(Rows)
  <2>1. rec.rows \in Seq(Rows)
    BY DEF UploadInv, Types
  <2> QED
    BY <2>1 DEF UploadInv, Kept
<1>3. a.file \in File \union {NoFile} /\ a.kept \in Int
  BY <1>2 DEF Rows
<1>4. /\ sent' = [NoRequest EXCEPT !.pc = pc, !.why = why, !.via = "download",
                    !.file = a.file, !.kept = a.kept]
      /\ UNCHANGED <<maxAttachment, form, rec, saves>>
  BY <1>1 DEF Step
<1>5. /\ pc \in {"downloaded", "refused"} /\ why \in {"none", "short"}
      /\ pc = "downloaded" => a.kept = Bytes[a.file]
  BY <1>2 DEF Sound
<1> HIDE DEF a, pc, why
<1>6. /\ sent' \in Requests /\ sent'.pc = pc /\ sent'.why = why
      /\ sent'.via = "download" /\ sent'.file = a.file /\ sent'.kept = a.kept
      /\ sent'.count = 0 /\ sent'.uploads = <<>> /\ sent'.content = 0
  BY <1>3, <1>4, <1>5, NoneIsRequest DEF Requests
<1>7. Counted' /\ FromScript' /\ ScriptAgrees'
  BY <1>4, <1>5, <1>6 DEF Counted, FromScript, ScriptAgrees, DownloadIsUpload
<1> QED
  BY <1>4, <1>6, <1>7, Requesting

LEMMA AnsweredStep == ASSUME UploadInv, Answered PROVE UploadInv'
<1>1. /\ sent' = NoRequest /\ UNCHANGED <<maxAttachment, rec, saves>>
      /\ form' \in {form, NewForm}
  BY DEF Answered
<1>2. NoRequest \in Requests /\ NoRequest.pc = "idle" /\ NoRequest.count = 0
      /\ NoRequest.uploads = <<>> /\ NoRequest.content = 0
  BY NoneIsRequest
<1>3. NewForm \in [pending : Seq(File), input : Seq(File), dialog : BOOLEAN]
      /\ NewForm.pending = <<>> /\ NewForm.input = <<>>
  BY DEF NewForm
<1>4. Types'
  BY <1>1, <1>2, <1>3 DEF UploadInv, Types
<1>5. Listed'
  BY <1>1, <1>3 DEF UploadInv, Listed, Small
<1>6. Counted' /\ Kept'
  BY <1>1, <1>2 DEF UploadInv, Counted, Kept, Sound, DownloadIsUpload
<1>7. FromScript' /\ ScriptAgrees'
  BY <1>1, <1>2 DEF FromScript, ScriptAgrees
<1> QED
  BY <1>4, <1>5, <1>6, <1>7 DEF UploadInv

LEMMA UploadStep == ASSUME UploadInv, [FormNext]_formVars PROVE UploadInv'
<1>1. CASE UNCHANGED formVars
  BY <1>1 DEF formVars, UploadInv, Types, Counted, Kept, Listed, FromScript,
     ScriptAgrees, Sound, Small, Part, DownloadIsUpload
<1>2. CASE Parse
  BY <1>2, LengthStep, TextStep, FileStep, ChunkStep, FinalizeStep, SaveStep
     DEF Parse
<1> QED
  BY <1>1, <1>2, ScriptStep, ClientStep, DownloadStep, AnsweredStep DEF FormNext

\* The inductive invariant of forms, requests and what is stored of them.
THEOREM UploadAlways == FormSpec => []UploadInv
<1> QED
  BY UploadStart, UploadStep, PTL DEF FormSpec

\* Type correctness, and that the parser holds as many uploads as it counted.
THEOREM FormTypes == FormSpec => []FormTypeOK
<1>1. ASSUME UploadInv PROVE FormTypeOK
  <2>1. /\ maxAttachment \in AttachmentLimits /\ saves \in 0..MaxSaves
        /\ form.pending \in Seq(File) /\ form.input \in Seq(File)
        /\ Len(form.pending) <= MAX_ATTACHMENTS_PER_RECORD
    BY <1>1 DEF UploadInv, Types, Listed
  <2>2. /\ sent.pc \in {"idle", "arrived", "fields", "chunks", "refused",
                        "saved", "downloaded"}
        /\ sent.size \in Nat /\ sent.bad \in BOOLEAN
    BY <1>1 DEF UploadInv, Types, Requests
  <2>3. sent.pc = "chunks" => sent.kept <= sent.size
    BY <1>1, <2>2 DEF UploadInv, Counted
  <2>4. /\ sent.pc = "fields" => sent.count = Len(sent.uploads)
        /\ sent.pc = "chunks" => sent.count = Len(sent.uploads) + 1
    BY <1>1 DEF UploadInv, Counted
  <2> QED
    BY <2>1, <2>2, <2>3, <2>4 DEF FormTypeOK
<1> QED
  BY <1>1, UploadAlways, PTL

\* Whatever parts are sent in whatever order, parse_record_form stores nothing
\* beyond a limit of the request.
THEOREM LimitsHold == FormSpec => []StoredWithinLimits
<1>1. UploadInv => StoredWithinLimits
  BY DEF UploadInv, Counted, Sound, StoredWithinLimits
<1> QED
  BY <1>1, UploadAlways, PTL

\* The failing writes of tokio's File cost a stored file one chunk, its last.
THEOREM OneChunkShort == FormSpec => []ShortByLastWrite
<1>1. UploadInv => ShortByLastWrite
  BY DEF UploadInv, Kept, Sound, ShortByLastWrite
<1> QED
  BY <1>1, UploadAlways, PTL

\* A download that succeeds delivers the uploaded bytes.
THEOREM DownloadsWhole == FormSpec => []DownloadIsUpload
<1>1. UploadInv => DownloadIsUpload
  BY DEF UploadInv, Counted
<1> QED
  BY <1>1, UploadAlways, PTL

\* The limits of static/app.js keep a form below those of the server.
THEOREM ScriptKeepsLimits == FormSpec => []ScriptAgrees
<1>1. UploadInv => ScriptAgrees
  BY DEF UploadInv
<1> QED
  BY <1>1, UploadAlways, PTL

-----------------------------------------------------------------------------
(* A saved form stores what was dropped on the page, file by file.          *)

\* Of the files that are due the first are uploaded, in order; of the parts
\* that are left, "Before" have no file and the others are the rest of the due.
Before(parts, ups, due) == Len(parts) + Len(ups) - Len(due)
Lines(parts, ups, due) ==
    /\ Before(parts, ups, due) \in Nat /\ Len(ups) <= Len(due)
    /\ \A i \in 1..Len(ups) : ups[i].file = due[i]
    /\ \A i \in 1..Len(parts) :
         /\ parts[i].file = IF i <= Before(parts, ups, due) THEN NoFile
                            ELSE due[i - Before(parts, ups, due) + Len(ups)]
         /\ parts[i].file # NoFile => parts[i].name = "files"

\* The numbers of what is left and what is uploaded, and the first part.
LEMMA LinesHead ==
    ASSUME NEW parts \in Seq(Parts), NEW ups \in Seq(Rows), NEW due \in Seq(File),
           Lines(parts, ups, due), parts # <<>>
    PROVE  /\ Len(parts) \in Nat \ {0} /\ Len(ups) \in Nat /\ Len(due) \in Nat
           /\ Head(parts) = parts[1]
           /\ Before(parts, ups, due) = 0 =>
                /\ Len(ups) + 1 <= Len(due)
                /\ Head(parts).file = due[Len(ups) + 1] /\ Head(parts).file \in File
           /\ Before(parts, ups, due) # 0 => Head(parts).file = NoFile
           /\ Head(parts).file # NoFile => Head(parts).name = "files"
<1>. DEFINE b == Before(parts, ups, due)
<1>1. /\ Len(parts) \in Nat \ {0} /\ Len(ups) \in Nat /\ Len(due) \in Nat
      /\ Head(parts) = parts[1]
  OBVIOUS
<1>2. b = Len(parts) + Len(ups) - Len(due)  BY DEF Before
<1>3. /\ b \in Nat
      /\ parts[1].file = IF 1 <= b THEN NoFile ELSE due[1 - b + Len(ups)]
      /\ parts[1].file # NoFile => parts[1].name = "files"
  BY <1>1 DEF Lines
<1>4. b = 0 => Len(ups) + 1 <= Len(due)
  BY <1>1, <1>2
<1>. HIDE DEF b
<1>5. b = 0 => parts[1].file = due[Len(ups) + 1]
  <2>1. b = 0 => 1 - b + Len(ups) = Len(ups) + 1 /\ ~(1 <= b)  BY <1>1
  <2>. QED  BY <1>3, <2>1
<1>6. b = 0 => due[Len(ups) + 1] \in File
  BY <1>1, <1>4
<1>7. b # 0 => parts[1].file = NoFile
  BY <1>3
<1>. QED  BY <1>1, <1>3, <1>4, <1>5, <1>6, <1>7 DEF b

\* A part without a file is passed.
LEMMA LinesText ==
    ASSUME NEW parts \in Seq(Parts), NEW ups \in Seq(Rows), NEW due \in Seq(File),
           Lines(parts, ups, due), parts # <<>>, Head(parts).file = NoFile
    PROVE  Lines(Tail(parts), ups, due)
<1>. DEFINE b == Before(parts, ups, due)
            rest == Tail(parts)
            c == Before(rest, ups, due)
<1>1. /\ Len(parts) \in Nat \ {0} /\ Len(ups) \in Nat /\ Len(due) \in Nat
      /\ b # 0 /\ b \in Nat
  BY LinesHead DEF Lines
<1>2. /\ rest \in Seq(Parts) /\ Len(rest) = Len(parts) - 1
      /\ \A i \in 1..Len(rest) : rest[i] = parts[i + 1]
  OBVIOUS
<1>3. c = b - 1  BY <1>1, <1>2 DEF Before
<1>4. \A i \in 1..Len(parts) :
         /\ parts[i].file = IF i <= b THEN NoFile ELSE due[i - b + Len(ups)]
         /\ parts[i].file # NoFile => parts[i].name = "files"
  BY DEF Lines
<1>. HIDE DEF b, c, rest
<1>5. ASSUME NEW i \in 1..Len(rest)
      PROVE  /\ rest[i].file = IF i <= c THEN NoFile ELSE due[i - c + Len(ups)]
             /\ rest[i].file # NoFile => rest[i].name = "files"
  <2>1. i + 1 \in 1..Len(parts) /\ rest[i] = parts[i + 1]
    <3>1. rest[i] = parts[i + 1]  BY <1>2
    <3>2. i \in Nat /\ 1 <= i /\ i <= Len(parts) - 1
      BY <1>1, <1>2
    <3>. QED  BY <1>1, <3>1, <3>2
  <2>2. (i + 1 <= b <=> i <= c) /\ (i + 1) - b + Len(ups) = i - c + Len(ups)
    BY <1>1, <1>3
  <2>. QED  BY <1>4, <2>1, <2>2
<1>6. c \in Nat  BY <1>1, <1>3
<1>. QED  BY <1>5, <1>6 DEF Lines, c, rest

\* A file is uploaded: it is the next of those that are due.
LEMMA LinesFile ==
    ASSUME NEW parts \in Seq(Parts), NEW ups \in Seq(Rows), NEW due \in Seq(File),
           Lines(parts, ups, due), parts # <<>>, Before(parts, ups, due) = 0,
           NEW a \in Rows, a.file = due[Len(ups) + 1]
    PROVE  Lines(Tail(parts), Append(ups, a), due)
<1>. DEFINE b == Before(parts, ups, due)
            rest == Tail(parts)
            more == Append(ups, a)
            c == Before(rest, more, due)
<1>1. /\ Len(parts) \in Nat \ {0} /\ Len(ups) \in Nat /\ Len(due) \in Nat
      /\ b = 0 /\ Len(ups) + 1 <= Len(due)
  BY LinesHead
<1>2. /\ rest \in Seq(Parts) /\ Len(rest) = Len(parts) - 1
      /\ \A i \in 1..Len(rest) : rest[i] = parts[i + 1]
  OBVIOUS
<1>3. /\ Len(more) = Len(ups) + 1 /\ more[Len(ups) + 1] = a
      /\ \A i \in 1..Len(ups) : more[i] = ups[i]
  OBVIOUS
<1>4. c = 0  BY <1>1, <1>2, <1>3 DEF Before
<1>5. /\ \A i \in 1..Len(ups) : ups[i].file = due[i]
      /\ \A i \in 1..Len(parts) :
           /\ parts[i].file = IF i <= b THEN NoFile ELSE due[i - b + Len(ups)]
           /\ parts[i].file # NoFile => parts[i].name = "files"
  BY DEF Lines
<1>. HIDE DEF b, c, rest, more
<1>6. ASSUME NEW i \in 1..Len(rest)
      PROVE  /\ rest[i].file = IF i <= c THEN NoFile ELSE due[i - c + Len(more)]
             /\ rest[i].file # NoFile => rest[i].name = "files"
  <2>1. i + 1 \in 1..Len(parts) /\ rest[i] = parts[i + 1]
    <3>1. rest[i] = parts[i + 1]  BY <1>2
    <3>2. i \in Nat /\ 1 <= i /\ i <= Len(parts) - 1
      BY <1>1, <1>2
    <3>. QED  BY <1>1, <3>1, <3>2
  <2>2. /\ ~(i + 1 <= b) /\ ~(i <= c)
        /\ (i + 1) - b + Len(ups) = i - c + Len(more)
    BY <1>1, <1>3, <1>4
  <2>. QED  BY <1>5, <2>1, <2>2
<1>7. ASSUME NEW i \in 1..Len(more) PROVE more[i].file = due[i]
  <2>1. i \in 1..Len(ups) \/ i = Len(ups) + 1  BY <1>1, <1>3
  <2>. QED  BY <1>3, <1>5, <2>1
<1>8. Len(more) <= Len(due)  BY <1>1, <1>3
<1>9. c \in Nat  BY <1>4
<1>. QED  BY <1>6, <1>7, <1>8, <1>9 DEF Lines, c, rest, more

\* At the end of the form everything that was due is uploaded.
LEMMA LinesEnd ==
    ASSUME NEW ups \in Seq(Rows), NEW due \in Seq(File), Lines(<<>>, ups, due)
    PROVE  [i \in DOMAIN ups |-> ups[i].file] = due
<1>1. Len(ups) \in Nat /\ Len(due) \in Nat  OBVIOUS
<1>2. Len(ups) = Len(due)
  BY <1>1 DEF Lines, Before
<1>3. DOMAIN ups = 1..Len(ups) /\ DOMAIN due = 1..Len(due)  OBVIOUS
<1>4. \A i \in 1..Len(ups) : ups[i].file = due[i]  BY DEF Lines
<1>. QED  BY <1>2, <1>3, <1>4

\* The files a request of the browser is to store.
Due == IF sent.dialog THEN <<>> ELSE sent.shown

\* The input has what the page lists, unless it was emptied by a choice.
Synced == form.input = IF form.dialog THEN <<>> ELSE form.pending

\* What the browser sent goes through the parser in the order of the page.
InOrder ==
    sent.via = "web" /\ sent.pc \in {"arrived", "fields", "chunks"} =>
      /\ Lines(sent.parts, sent.uploads, Due)
      /\ sent.pc = "chunks" =>
           /\ Before(sent.parts, sent.uploads, Due) = 0
           /\ sent.file = Due[Len(sent.uploads) + 1]

DropInv == UploadInv /\ Synced /\ InOrder /\ SavesWhatWasDropped

LEMMA DueTypes ==
    ASSUME UploadInv
    PROVE  /\ sent \in Requests /\ sent.parts \in Seq(Parts)
           /\ sent.uploads \in Seq(Rows) /\ Due \in Seq(File)
  BY DEF UploadInv, Types, Requests, Due

\* A request that is over, or was not made by the form, owes nothing to it.
LEMMA OwesNothing ==
    ASSUME sent'.pc \in {"idle", "refused", "downloaded"} \/ sent'.via # "web"
    PROVE  InOrder' /\ SavesWhatWasDropped'
  BY DEF InOrder, SavesWhatWasDropped

\* Another step of the parser leaves alone what the form has asked for.
SameForm ==
    /\ sent'.via = sent.via /\ sent'.shown = sent.shown
    /\ sent'.dialog = sent.dialog

LEMMA SameDue == ASSUME SameForm PROVE Due' = Due
  BY DEF SameForm, Due

\* A step that reads no part (CheckLength, Chunk) or passes one without a file.
LEMMA ReadsOn ==
    ASSUME DropInv, SameForm, sent'.uploads = sent.uploads,
           sent.pc \in {"arrived", "fields", "chunks"},
           sent'.pc \in {"fields", "chunks"},
           sent'.pc = "chunks" => sent.pc = "chunks" /\ sent'.file = sent.file,
           \/ sent'.parts = sent.parts
           \/ /\ sent'.parts = Tail(sent.parts) /\ sent'.pc = "fields"
              /\ sent.parts # <<>> /\ Part.file = NoFile
    PROVE  InOrder' /\ SavesWhatWasDropped'
<1>1. Due' = Due  BY SameDue
<1>. SUFFICES ASSUME sent.via = "web" PROVE InOrder'
  BY DEF InOrder, SavesWhatWasDropped, SameForm
<1>2. Lines(sent.parts, sent.uploads, Due)  BY DEF DropInv, InOrder
<1>3. Lines(sent'.parts, sent.uploads, Due)
  BY <1>2, DueTypes, LinesText DEF DropInv, Part
<1>4. CASE sent'.pc = "fields"
  BY <1>1, <1>3, <1>4 DEF InOrder
<1>5. CASE sent'.pc = "chunks"
  BY <1>1, <1>3, <1>5 DEF InOrder, DropInv
<1>. QED  BY <1>4, <1>5

\* A form, when it is sent: its text, and what the input holds.
LEMMA FormLines ==
    ASSUME NEW n \in Nat, NEW list \in Seq(File)
    PROVE  Lines(Multipart(n, IF list = <<>> THEN <<EmptyPart(0)>>
                                             ELSE FileParts(list)), <<>>, list)
<1>1. CASE list = <<>>
  <2>1. /\ <<EmptyPart(0)>> \in Seq(Parts) /\ Len(<<EmptyPart(0)>>) = 1
        /\ <<EmptyPart(0)>>[1] = EmptyPart(0)
    BY PartTypes
  <2>. DEFINE parts == Multipart(n, <<EmptyPart(0)>>)
  <2>. HIDE DEF parts
  <2>5. /\ parts \in Seq(Parts) /\ Len(parts) = 1 + 1
        /\ parts[1] = TextPart(n)
        /\ \A i \in DOMAIN parts : i = 1 \/ parts[i] = <<EmptyPart(0)>>[i - 1]
    BY <2>1, Multiparts DEF parts
  <2>6. parts[2] = EmptyPart(0)
    <3>1. 2 \in DOMAIN parts  BY <2>5
    <3>. QED  BY <2>1, <2>5, <3>1
  <2>2. /\ Len(parts) = 2 /\ parts[1].file = NoFile /\ parts[2].file = NoFile
    BY <2>5, <2>6, PartTypes
  <2>3. Before(parts, <<>>, list) = 2  BY <1>1, <2>2 DEF Before
  <2>4. Lines(parts, <<>>, list)  BY <1>1, <2>2, <2>3 DEF Lines
  <2>. QED  BY <1>1, <2>4 DEF parts
<1>2. CASE list # <<>>
  <2>. DEFINE files == FileParts(list)
              parts == Multipart(n, files)
  <2>1. /\ files \in Seq(Parts) /\ Len(files) = Len(list)
        /\ \A i \in 1..Len(list) : files[i].file = list[i]
        /\ \A i \in 1..Len(list) : files[i].name = "files"
    BY FileParted DEF FileParts, FilePart
  <2>. HIDE DEF files
  <2>. HIDE DEF parts
  <2>6. /\ parts \in Seq(Parts) /\ Len(parts) = Len(list) + 1
        /\ parts[1] = TextPart(n)
        /\ \A i \in DOMAIN parts : i = 1 \/ parts[i] = files[i - 1]
    BY <2>1, Multiparts DEF parts
  <2>7. DOMAIN parts = 1..Len(parts)  BY <2>6
  <2>2. /\ parts \in Seq(Parts) /\ Len(parts) = Len(list) + 1
        /\ parts[1].file = NoFile
        /\ \A i \in 2..Len(parts) : parts[i] = files[i - 1]
    <3>1. parts[1].file = NoFile  BY <2>6, PartTypes
    <3>2. ASSUME NEW i \in 2..Len(parts) PROVE parts[i] = files[i - 1]
      <4>1. i \in 1..Len(parts) /\ i # 1  OBVIOUS
      <4>. QED  BY <2>6, <2>7, <4>1
    <3>. QED  BY <2>6, <3>1, <3>2
  <2>3. Before(parts, <<>>, list) = 1  BY <2>2 DEF Before
  <2>4. ASSUME NEW i \in 1..Len(parts)
        PROVE  /\ parts[i].file = IF i <= 1 THEN NoFile ELSE list[i - 1 + 0]
               /\ parts[i].file # NoFile => parts[i].name = "files"
    <3>1. CASE i = 1  BY <2>2, <3>1
    <3>2. CASE i # 1
      <4>1. i \in 2..Len(parts) /\ i - 1 \in 1..Len(list) /\ i - 1 + 0 = i - 1
        BY <2>2, <3>2
      <4>. QED  BY <2>1, <2>2, <4>1
    <3>. QED  BY <3>1, <3>2
  <2>5. Lines(parts, <<>>, list)
    BY <2>3, <2>4 DEF Lines
  <2>. QED  BY <1>2, <2>5 DEF parts, files
<1>. QED  BY <1>1, <1>2

\* The form is sent with what its input holds, in the order of the page.
LEMMA ClientDrops ==
    ASSUME DropInv, Client
    PROVE  Synced' /\ InOrder' /\ SavesWhatWasDropped'
<1>1. Synced'
  BY DEF Client, Submit, Paste, CmdUpload, Post, Send, DropInv, Synced
<1>2. ASSUME NEW via \in {"cli", "api"}, NEW parts, Send(via, parts)
      PROVE  InOrder' /\ SavesWhatWasDropped'
  <2>1. sent'.via = via
    BY <1>2 DEF Send, NoRequest
  <2>. QED  BY <2>1, OwesNothing
<1>3. CASE Submit
  <2>1. PICK n \in ContentBytes :
          Send("web", Multipart(n, IF form.input = <<>> THEN <<EmptyPart(0)>>
                                                        ELSE FileParts(form.input)))
    BY <1>3 DEF Submit
  <2>. DEFINE parts == Multipart(n, IF form.input = <<>> THEN <<EmptyPart(0)>>
                                                        ELSE FileParts(form.input))
  <2>2. Lines(parts, <<>>, form.input)
    BY FormLines DEF DropInv, UploadInv, Types
  <2>3. Send("web", parts)  BY <2>1
  <2>. HIDE DEF parts
  <2>4. /\ sent'.via = "web" /\ sent'.pc = "arrived" /\ sent'.parts = parts
        /\ sent'.uploads = <<>> /\ sent'.shown = form.pending
        /\ sent'.dialog = form.dialog
    <3>. DEFINE d == BodySize(parts)
                b == form.dialog
    <3>1. /\ sent' = [NoRequest EXCEPT !.pc = "arrived", !.via = "web",
                        !.parts = parts, !.declared = d, !.shown = form.pending,
                        !.dialog = "web" = "web" /\ b]
      BY <2>3, Zenon DEF Send
    <3>2. b \in BOOLEAN  BY DEF DropInv, UploadInv, Types
    <3>3. ("web" = "web" /\ b) = b  BY <3>2
    <3>4. sent' = [NoRequest EXCEPT !.pc = "arrived", !.via = "web",
                     !.parts = parts, !.declared = d, !.shown = form.pending,
                     !.dialog = b]
      BY <3>1, <3>3, Zenon
    <3>. HIDE DEF d, b
    <3>5. sent'.dialog = b
      BY <3>4, Zenon DEF NoRequest
    <3>6. /\ sent'.via = "web" /\ sent'.pc = "arrived" /\ sent'.parts = parts
          /\ sent'.uploads = <<>> /\ sent'.shown = form.pending
      BY <3>4 DEF NoRequest
    <3>. QED  BY <3>5, <3>6 DEF b
  <2>5. Due' = form.input  BY <2>4 DEF Due, DropInv, Synced
  <2>6. Lines(sent'.parts, sent'.uploads, Due')
    BY <2>2, <2>4, <2>5, Zenon
  <2>7. sent'.pc # "chunks" /\ sent'.pc # "saved"  BY <2>4
  <2>8. InOrder'  BY <2>6, <2>7 DEF InOrder
  <2>9. SavesWhatWasDropped'  BY <2>7 DEF SavesWhatWasDropped
  <2>. QED  BY <1>1, <2>8, <2>9
<1>4. CASE Paste \/ Post \/ \E f \in File : CmdUpload(f)
  <2>1. CASE Paste
    <3>1. PICK parts : Send("cli", parts)  BY <2>1 DEF Paste
    <3>. QED  BY <1>1, <1>2, <3>1
  <2>2. CASE Post
    <3>1. PICK parts : Send("api", parts)  BY <2>2 DEF Post
    <3>. QED  BY <1>1, <1>2, <3>1
  <2>3. ASSUME NEW f \in File, CmdUpload(f)
        PROVE  InOrder' /\ SavesWhatWasDropped'
    <3>1. PICK parts : Send("cli", parts)  BY <2>3 DEF CmdUpload
    <3>. QED  BY <1>1, <1>2, <3>1
  <2>. QED  BY <1>1, <1>4, <2>1, <2>2, <2>3
<1>. QED  BY <1>1, <1>3, <1>4 DEF Client

\* The script keeps the input and the list together.
LEMMA ScriptDrops ==
    ASSUME DropInv, Script
    PROVE  Synced' /\ InOrder' /\ SavesWhatWasDropped'
<1>1. sent' = sent /\ Due' = Due  BY DEF Script, Drop, Choose, Due
<1>2. Synced'  BY DEF Script, Drop, Choose, Synced
<1>. QED
  BY <1>1, <1>2 DEF DropInv, InOrder, SavesWhatWasDropped, Stored

\* A request that is refused owes nothing.
LEMMA RefusedDrops ==
    ASSUME NEW why, Refuse(why)
    PROVE  InOrder' /\ SavesWhatWasDropped'
<1>1. sent'.pc = "refused"  BY DEF Refuse, Step, NoRequest
<1>. QED  BY <1>1, OwesNothing

\* The parser, step by step: what it passes has no file, what it takes is next.
LEMMA ReadDrops ==
    ASSUME DropInv, CheckLength \/ FieldError \/ TextField \/ OtherField
    PROVE  InOrder' /\ SavesWhatWasDropped'
<1>0. sent \in Requests  BY DueTypes DEF DropInv
<1>1. CASE \E why \in {"length", "broken", "content"} : Refuse(why)
  BY <1>1, RefusedDrops
<1>2. CASE CheckLength /\ Step([sent EXCEPT !.pc = "fields"])
  <2>1. sent.pc = "arrived" /\ sent' = [sent EXCEPT !.pc = "fields"]
    BY <1>2 DEF CheckLength, Step
  <2>2. /\ SameForm /\ sent'.uploads = sent.uploads /\ sent'.pc = "fields"
        /\ sent'.parts = sent.parts
    BY <1>0, <2>1 DEF Requests, SameForm
  <2>. QED  BY <2>1, <2>2, ReadsOn
<1>3. ASSUME sent.pc = "fields", sent.parts # <<>>, Part.file = NoFile,
             \/ Step(PastPart)
             \/ Step([PastPart EXCEPT !.content = Part.len])
      PROVE  InOrder' /\ SavesWhatWasDropped'
  <2>1. /\ PastPart \in Requests
        /\ PastPart = [sent EXCEPT !.parts = Tail(sent.parts),
                         !.read = sent.read + Part.len + Overhead]
        /\ PastPart.parts = Tail(sent.parts)
    BY <1>3, PassesPart DEF DropInv
  <2>2. /\ PastPart.via = sent.via /\ PastPart.shown = sent.shown
        /\ PastPart.dialog = sent.dialog /\ PastPart.uploads = sent.uploads
        /\ PastPart.pc = "fields"
    <3>1. PastPart.dialog = sent.dialog  BY <1>0, <2>1, Zenon DEF Requests
    <3>. QED  BY <1>0, <1>3, <2>1, <3>1 DEF Requests
  <2>3. sent' = PastPart \/ sent' = [PastPart EXCEPT !.content = Part.len]
    BY <1>3 DEF Step
  <2>4. /\ sent'.via = sent.via /\ sent'.shown = sent.shown
        /\ sent'.uploads = sent.uploads /\ sent'.pc = "fields"
        /\ sent'.parts = Tail(sent.parts)
    BY <2>1, <2>2, <2>3 DEF Requests
  <2>5. sent'.dialog = sent.dialog
    BY <2>1, <2>2, <2>3, Zenon DEF Requests
  <2>. QED  BY <1>3, <2>4, <2>5, ReadsOn DEF SameForm
<1>4. ASSUME sent.pc = "fields", sent.parts # <<>>, Part.name # "files",
             sent.via = "web"
      PROVE  Part.file = NoFile
  <2>1. Lines(sent.parts, sent.uploads, Due)  BY <1>4 DEF DropInv, InOrder
  <2>. QED  BY <1>4, <2>1, DueTypes, LinesHead DEF DropInv, Part
<1>5. ASSUME sent.via # "web", \/ Step(PastPart)
                               \/ Step([PastPart EXCEPT !.content = Part.len])
      PROVE  InOrder' /\ SavesWhatWasDropped'
  <2>1. sent'.via = sent.via
    BY <1>0, <1>5 DEF Step, PastPart, Requests
  <2>. QED  BY <1>5, <2>1, OwesNothing
<1>6. CASE TextField \/ OtherField
  <2>1. CASE TextField
    <3>1. /\ sent.pc = "fields" /\ sent.parts # <<>> /\ Part.name = "content"
          /\ \/ Step([PastPart EXCEPT !.content = Part.len])
             \/ \E why \in {"length", "broken", "content"} : Refuse(why)
      BY <2>1 DEF TextField, AtField
    <3>. QED  BY <1>1, <1>3, <1>4, <1>5, <3>1
  <2>2. CASE OtherField
    <3>1. /\ sent.pc = "fields" /\ sent.parts # <<>> /\ Step(PastPart)
          /\ Part.name # "files" \/ Part.file = NoFile
      BY <2>2 DEF OtherField, AtField
    <3>. QED  BY <1>3, <1>4, <1>5, <3>1
  <2>. QED  BY <1>6, <2>1, <2>2
<1>7. CASE CheckLength \/ FieldError
  BY <1>1, <1>2, <1>7 DEF CheckLength, FieldError
<1>. QED  BY <1>6, <1>7

\* A file is taken when it is the next that is due, and read to its end.
LEMMA FileDrops ==
    ASSUME DropInv, FileField \/ Chunk
    PROVE  InOrder' /\ SavesWhatWasDropped'
<1>0. sent \in Requests  BY DueTypes DEF DropInv
<1>1. CASE \E why \in {"length", "count", "size", "disk"} : Refuse(why)
  BY <1>1, RefusedDrops
<1>2. CASE FileField /\ ~\E why \in {"length", "count", "size", "disk"} : Refuse(why)
  <2>1. /\ sent.pc = "fields" /\ sent.parts # <<>> /\ Part.file # NoFile
        /\ sent' = [sent EXCEPT !.pc = "chunks", !.count = @ + 1,
                      !.file = Part.file, !.size = 0, !.kept = 0, !.bad = FALSE]
    BY <1>2 DEF FileField, AtField, Step
  <2>. DEFINE n == sent.count + 1
              f == Part.file
  <2>2. /\ sent'.via = sent.via /\ sent'.shown = sent.shown
        /\ sent'.uploads = sent.uploads /\ sent'.pc = "chunks"
        /\ sent'.parts = sent.parts /\ sent'.file = f
        /\ sent'.dialog = sent.dialog
    <3>1. PICK none : none = FALSE /\
            sent' = [sent EXCEPT !.pc = "chunks", !.count = n, !.file = f,
                       !.size = 0, !.kept = 0, !.bad = none]
      BY <2>1
    <3>. HIDE DEF n, f
    <3>2. sent'.dialog = sent.dialog  BY <1>0, <3>1, Zenon DEF Requests
    <3>. QED  BY <1>0, <3>1, <3>2 DEF Requests
  <2>3. SameForm  BY <2>2 DEF SameForm
  <2>. SUFFICES ASSUME sent.via = "web" PROVE InOrder'
    BY <2>2 DEF InOrder, SavesWhatWasDropped
  <2>4. Lines(sent.parts, sent.uploads, Due)  BY <2>1 DEF DropInv, InOrder
  <2>5. /\ Before(sent.parts, sent.uploads, Due) = 0
        /\ f = Due[Len(sent.uploads) + 1]
    BY <2>1, <2>4, DueTypes, LinesHead DEF DropInv, Part
  <2>. HIDE DEF f, n
  <2>. QED  BY <2>2, <2>3, <2>4, <2>5, SameDue DEF InOrder
<1>3. CASE Chunk /\ ~\E why \in {"length", "count", "size", "disk"} : Refuse(why)
  <2>1. sent.pc = "chunks"  BY <1>3 DEF Chunk, MoreChunks
  <2>2. PICK ok \in BOOLEAN :
          sent' = [sent EXCEPT !.size = @ + 1, !.bad = ~ok,
                     !.kept = IF ok THEN @ + 1 ELSE @]
    BY <1>3 DEF Chunk, Step
  <2>. DEFINE s == sent.size + 1
              k == IF ok THEN sent.kept + 1 ELSE sent.kept
  <2>3. PICK b : sent' = [sent EXCEPT !.size = s, !.bad = b, !.kept = k]
    BY <2>2, Zenon
  <2>. HIDE DEF s, k
  <2>4. sent'.dialog = sent.dialog  BY <1>0, <2>3, Zenon DEF Requests
  <2>5. /\ sent'.via = sent.via /\ sent'.shown = sent.shown
        /\ sent'.uploads = sent.uploads /\ sent'.pc = "chunks"
        /\ sent'.parts = sent.parts /\ sent'.file = sent.file
    BY <1>0, <2>1, <2>3 DEF Requests
  <2>. QED  BY <2>1, <2>4, <2>5, ReadsOn DEF SameForm
<1>. QED  BY <1>1, <1>2, <1>3

\* A file that is finished is the next upload.
LEMMA FinalizeDrops ==
    ASSUME DropInv, Finalize
    PROVE  InOrder' /\ SavesWhatWasDropped'
<1>0. /\ sent \in Requests /\ sent.pc = "chunks" /\ sent.parts # <<>>
      /\ sent.file \in File
  BY DueTypes DEF DropInv, UploadInv, Counted, Finalize
<1>1. CASE Refuse("disk")  BY <1>1, RefusedDrops
<1>2. CASE ~Refuse("disk")
  <2>. DEFINE a == [file |-> sent.file, size |-> sent.size, kept |-> sent.kept]
  <2>1. sent' = [PastPart EXCEPT !.pc = "fields", !.file = NoFile,
                   !.size = 0, !.kept = 0, !.bad = FALSE,
                   !.uploads = Append(PastPart.uploads, a)]
    BY <1>2 DEF Finalize, Step
  <2>2. a \in Rows /\ a.file = sent.file
    BY <1>0 DEF Requests, Rows
  <2>. HIDE DEF a
  <2>3. /\ PastPart \in Requests
        /\ PastPart = [sent EXCEPT !.parts = Tail(sent.parts),
                         !.read = sent.read + Part.len + Overhead]
        /\ PastPart.parts = Tail(sent.parts)
    BY <1>0, PassesPart DEF DropInv
  <2>4. /\ PastPart.via = sent.via /\ PastPart.shown = sent.shown
        /\ PastPart.dialog = sent.dialog /\ PastPart.uploads = sent.uploads
    <3>1. PastPart.dialog = sent.dialog  BY <1>0, <2>3, Zenon DEF Requests
    <3>. QED  BY <1>0, <2>3, <3>1 DEF Requests
  <2>5. PICK none : sent' = [PastPart EXCEPT !.pc = "fields", !.file = NoFile,
                               !.size = 0, !.kept = 0, !.bad = none,
                               !.uploads = Append(PastPart.uploads, a)]
    BY <2>1
  <2>6. sent'.dialog = sent.dialog  BY <2>3, <2>4, <2>5, Zenon DEF Requests
  <2>7. /\ sent'.via = sent.via /\ sent'.shown = sent.shown
        /\ sent'.uploads = Append(sent.uploads, a) /\ sent'.pc = "fields"
        /\ sent'.parts = Tail(sent.parts)
    BY <2>3, <2>4, <2>5 DEF Requests
  <2>. SUFFICES ASSUME sent.via = "web" PROVE InOrder'
    BY <2>7 DEF InOrder, SavesWhatWasDropped
  <2>8. /\ Lines(sent.parts, sent.uploads, Due)
        /\ Before(sent.parts, sent.uploads, Due) = 0
        /\ sent.file = Due[Len(sent.uploads) + 1]
    BY <1>0 DEF DropInv, InOrder
  <2>9. Lines(Tail(sent.parts), Append(sent.uploads, a), Due)
    BY <1>0, <2>2, <2>8, DueTypes, LinesFile DEF DropInv
  <2>10. Due' = Due  BY <2>6, <2>7, SameDue DEF SameForm
  <2>. QED  BY <2>7, <2>9, <2>10 DEF InOrder
<1>. QED  BY <1>1, <1>2

\* The form is at its end: all of it is uploaded.
LEMMA SaveDrops ==
    ASSUME DropInv, SaveForm
    PROVE  InOrder' /\ SavesWhatWasDropped'
<1>0. sent \in Requests /\ sent.pc = "fields" /\ sent.parts = <<>>
  BY DueTypes DEF DropInv, SaveForm
<1>1. sent' = [NoRequest EXCEPT !.pc = "saved", !.via = sent.via,
                 !.content = sent.content, !.uploads = sent.uploads,
                 !.shown = sent.shown, !.dialog = sent.dialog,
                 !.read = sent.read]
  BY DEF SaveForm
<1>2. sent'.dialog = sent.dialog  BY <1>1, Zenon DEF NoRequest
<1>3. /\ sent'.pc = "saved" /\ sent'.via = sent.via
      /\ sent'.shown = sent.shown /\ sent'.uploads = sent.uploads
  BY <1>1 DEF NoRequest
<1>4. InOrder'  BY <1>3 DEF InOrder
<1>5. ASSUME sent.via = "web" PROVE Stored' = Due
  <2>1. Lines(<<>>, sent.uploads, Due)  BY <1>0, <1>5 DEF DropInv, InOrder
  <2>2. [i \in DOMAIN sent.uploads |-> sent.uploads[i].file] = Due
    BY <2>1, DueTypes, LinesEnd DEF DropInv
  <2>. QED  BY <1>3, <2>2 DEF Stored
<1>6. SavesWhatWasDropped'
  BY <1>2, <1>3, <1>5 DEF SavesWhatWasDropped, Due
<1>. QED  BY <1>4, <1>6

\* The inductive invariant behind it, at the start and in every step.
LEMMA DropStart == FormInit => DropInv
  BY UploadStart
     DEF FormInit, DropInv, Synced, InOrder, SavesWhatWasDropped, NewForm,
         NoRequest

LEMMA DropStep == ASSUME DropInv, [FormNext]_formVars PROVE DropInv'
<1>1. UploadInv'  BY UploadStep DEF DropInv
<1>2. CASE Script \/ Client
  BY <1>1, <1>2, ScriptDrops, ClientDrops DEF DropInv
<1>3. CASE Parse
  <2>1. form' = form
    BY <1>3 DEF Parse, CheckLength, FieldError, TextField, OtherField,
                FileField, Chunk, Finalize, SaveForm, Refuse, Step
  <2>2. Synced'  BY <2>1 DEF DropInv, Synced
  <2>. QED
    BY <1>1, <1>3, <2>2, ReadDrops, FileDrops, FinalizeDrops, SaveDrops
       DEF Parse, DropInv
<1>4. CASE Answered
  <2>1. sent'.pc = "idle"  BY <1>4 DEF Answered, NoRequest
  <2>2. Synced'  BY <1>4 DEF Answered, DropInv, Synced, NewForm
  <2>. QED  BY <1>1, <2>1, <2>2, OwesNothing DEF DropInv
<1>5. CASE Download
  <2>1. sent'.via = "download"  BY <1>5 DEF Download, Step, NoRequest
  <2>2. Synced'  BY <1>5 DEF Download, Step, DropInv, Synced
  <2>. QED  BY <1>1, <2>1, <2>2, OwesNothing DEF DropInv
<1>6. CASE UNCHANGED formVars
  <2>1. sent' = sent /\ form' = form  BY <1>6 DEF formVars
  <2>. QED
    BY <1>1, <2>1 DEF DropInv, Synced, InOrder, Due, SavesWhatWasDropped, Stored
<1>. QED  BY <1>2, <1>3, <1>4, <1>5, <1>6 DEF FormNext

\* A saved form stores the files its page listed, in their order, for any files
\* and limits and after any refusals; and none if the last were chosen in the
\* dialog (static/app.js empties the input it reads them from).
THEOREM DroppedAreSaved == FormSpec => []SavesWhatWasDropped
<1>1. DropInv /\ [FormNext]_formVars => DropInv'  BY DropStep
<1>2. DropInv => SavesWhatWasDropped  BY DEF DropInv
<1>. QED  BY <1>1, <1>2, DropStart, PTL DEF FormSpec
=============================================================================
