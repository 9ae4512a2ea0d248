------------------------------- MODULE MediaReply -------------------------------
(***************************************************************************)
(* GET /scan/:id/media: an upload is sent as it is stored, whole or the    *)
(* part a Range header asks for (streamScanMedia, getScanMediaForUser,     *)
(* parseBytesRange), as a player seeks or a download is continued.         *)
(*                                                                         *)
(* The reply says how many bytes follow before the first one is read, so   *)
(* what it says has to agree with what the storage then sends.  Bytes are  *)
(* numbered from 0.  Numbers in a header are whole; JavaScript's Number    *)
(* takes others as well, 1.5 or 0x10, which are left out.                  *)
(***************************************************************************)
EXTENDS Integers

CONSTANT MaxPreview  \* MAX_MEDIA_PREVIEW_BYTES, 25 MB

ASSUME MediaReplyAssumption == MaxPreview \in Nat

Bad == -1   \* what Number makes no number of, or a negative one
Absent == -2  \* nothing behind the dash
Value == Nat \union {Bad}

\* "none": no header, another unit, or nothing with a dash in it; "suffix": bytes=-last;
\* "from": bytes=first-last, the last one perhaps absent.  Of several ranges the first counts.
Header == [form : {"none", "suffix", "from"}, first : Value, last : Value \union {Absent}]

Full == [kind |-> "full", first |-> 0, last |-> 0]
Unsatisfiable == [Full EXCEPT !.kind = "unsatisfiable"]
Partial(first, last) == [kind |-> "partial", first |-> first, last |-> last]

\* bytes=-last, the last bytes of size; "-" alone asks for none.
SuffixRange(last, size) ==
  IF last < 1 THEN Unsatisfiable
  ELSE IF last >= size THEN Full ELSE Partial(size - last, size - 1)

\* The end asked for, or the file's.
LastByte(last, size) == IF last = Absent \/ last >= size THEN size - 1 ELSE last

FromRange(first, last, size) ==
  IF first = Bad \/ last = Bad \/ first > LastByte(last, size) THEN Unsatisfiable
  ELSE Partial(first, LastByte(last, size))

ParseBytesRange(h, size) ==
  IF h.form = "none" \/ size = 0 THEN Full
  ELSE IF h.form = "suffix" THEN SuffixRange(h.last, size) ELSE FromRange(h.first, h.last, size)

-----------------------------------------------------------------------------
\* A row: whether it is the user's and holds an upload, and file_size_bytes, 0 without one.
\* An object: whether it is there, and its size.
MediaRow == [mine : BOOLEAN, upload : BOOLEAN, size : Nat]
Object == [exists : BOOLEAN, size : Nat]

Status(code) == [status |-> code, first |-> 0, last |-> 0, total |-> 0]

\* The size of the object, and of the row for an object that has none.
TotalSize(row, object) == IF object.size # 0 THEN object.size ELSE row.size

Served(parsed, total) ==
  CASE parsed.kind = "full" -> [status |-> 200, first |-> 0, last |-> total - 1, total |-> total]
    [] parsed.kind = "partial" ->
         [status |-> 206, first |-> parsed.first, last |-> parsed.last, total |-> total]
    [] OTHER -> [Status(416) EXCEPT !.total = total]

\* getScanMediaForUser; an object that goes away before it is read breaks the stream off.
GetScanMedia(row, object, h) ==
  IF ~row.mine \/ ~row.upload THEN Status(404)
  ELSE IF row.size > MaxPreview THEN Status(413)
  ELSE IF ~object.exists THEN Status(404)
  ELSE IF object.size > MaxPreview THEN Status(413)
  ELSE IF TotalSize(row, object) = 0 THEN Status(500)
  ELSE Served(ParseBytesRange(h, TotalSize(row, object)), TotalSize(row, object))

\* A download as a file is for those who have paid once; the preview is not.
StreamScanMedia(row, object, h, download, paid) ==
  IF download /\ ~paid THEN Status(403) ELSE GetScanMedia(row, object, h)

HasBody(reply) == reply.status \in {200, 206}

\* Content-Length
ContentLength(reply) == reply.last - reply.first + 1

\* What getDownloadStream reads: the range given, or everything, and never what is not there.
Streamed(reply, object) ==
  {b \in 0..object.size - 1 : reply.status = 200 \/ b \in reply.first..reply.last}

-----------------------------------------------------------------------------
(* The reference: what a header asks of a file, by RFC 9110 *)

AskedFor(h, size) ==
  {b \in 0..size - 1 :
     CASE h.form = "none" -> TRUE
       [] h.form = "suffix" -> b >= size - h.last
       [] OTHER -> h.first <= b /\ (h.last = Absent \/ b <= h.last)}

WellFormed(h) ==
  CASE h.form = "none" -> TRUE
    [] h.form = "suffix" -> h.last \in Nat
    [] OTHER -> h.first \in Nat /\ h.last # Bad

\* What is sent is what was asked for, no byte more or less, and the reply's length is that of
\* what is sent.  An object without bytes is the exception: the row's size is promised for it.
\* A well-formed header is refused with 416 only if the file has none of the bytes asked for.
AnswersHeader(row, object, h) ==
  LET reply == GetScanMedia(row, object, h) IN
  object.size # 0 =>
    /\ HasBody(reply) =>
         /\ reply.first \in 0..reply.last /\ reply.last < object.size
         /\ Streamed(reply, object) = reply.first..reply.last
         /\ WellFormed(h) => Streamed(reply, object) = AskedFor(h, object.size)
    /\ reply.status = 416 /\ WellFormed(h) => AskedFor(h, object.size) = {}

=============================================================================
