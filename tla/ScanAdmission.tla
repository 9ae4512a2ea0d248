----------------------------- MODULE ScanAdmission -----------------------------
(***************************************************************************)
(* What may be submitted.  Four tables say which media the program takes:  *)
(* the page of a new scan (its file picker and its text), the filter of    *)
(* the upload, the list of the providers, and the providers' adapters in   *)
(* the worker.  This module has the four and the page's form; ScanVerdict  *)
(* goes on with the row of a submission that was stored.                   *)
(*                                                                         *)
(* A file has the type the browser declares, <<family, format>>, its       *)
(* extension and its size in megabytes.                                    *)
(***************************************************************************)
EXTENDS Integers, Sequences, FiniteSets, SequencesExt

CONSTANTS
  Files,  \* the files a user may have
  Drops   \* what may be dropped on the page at once, sequences of files

VARIABLE form  \* the page of a new scan, as its user sees it

-----------------------------------------------------------------------------
(* The API: the filter of the upload, and the providers' list *)

Images == {"image"} \X {"jpeg", "jpg", "png", "gif", "webp", "heic", "heif"}
Audios == {"audio"} \X {"mpeg", "wav", "x-wav", "webm", "mp4", "aac", "ogg", "flac", "alac"}
Allowed == Images \union Audios \union {<<"video", "mp4">>, <<"video", "quicktime">>}
MaxUpload == 20

\* normalizeMimeFromFilename
ByExtension ==
  [heif |-> <<"image", "heif">>, heic |-> <<"image", "heic">>, mp3 |-> <<"audio", "mpeg">>,
   wav |-> <<"audio", "wav">>, m4a |-> <<"audio", "mp4">>, aac |-> <<"audio", "aac">>,
   ogg |-> <<"audio", "ogg">>, flac |-> <<"audio", "flac">>, alac |-> <<"audio", "alac">>,
   jpg |-> <<"image", "jpeg">>, jpeg |-> <<"image", "jpeg">>, png |-> <<"image", "png">>,
   gif |-> <<"image", "gif">>, webp |-> <<"image", "webp">>, mp4 |-> <<"video", "mp4">>,
   mov |-> <<"video", "quicktime">>]

\* Two names of one format.
Plain(type) ==
  CASE type = <<"image", "jpg">> -> <<"image", "jpeg">>
    [] type = <<"audio", "x-wav">> -> <<"audio", "wav">>
    [] OTHER -> type

\* Browsers derive the type from the extension.
ASSUME FilesAssumption ==
  /\ \A f \in Files : f.type \in Allowed /\ f.ext \in DOMAIN ByExtension
                        => Plain(f.type) = Plain(ByExtension[f.ext])
  /\ Drops \subseteq Seq(Files) /\ \A f \in Files : f.mb \in Nat

\* The type a row is stored with: the extension counts only if the declared one is refused.
TypedAsDeclared(file) == file.type
Typed(file) ==
  IF file.type \notin Allowed /\ file.ext \in DOMAIN ByExtension THEN ByExtension[file.ext] ELSE file.type

Providers == {"reality_defender", "hive"}

\* The enabled providers by sortOrder.
Enabled == <<"reality_defender", "hive">>

Members(chosen) == {chosen[k] : k \in DOMAIN chosen}

\* resolveProviderIdsForScan: every provider asked for takes the kind of media.
Supports(p, kind) == kind # "url" /\ (p = "hive" => kind # "audio")
Resolved(chosen, kind) == \A p \in Members(chosen) : Supports(p, kind)

\* The answer to a submission: the route's upload filter, then the plan, which ScanAttempts
\* and TeamPlans are about, then the providers.
Answers(file, chosen) ==
  CASE Typed(file) \notin Allowed -> {"type"}
    [] Typed(file) \in Allowed /\ file.mb > MaxUpload -> {"size"}
    [] OTHER -> {"plan", IF Resolved(chosen, Typed(file)[1]) THEN "stored" ELSE "providers"}

AnswersOfUrl(chosen) == {"plan", "url", IF Resolved(chosen, "url") THEN "stored" ELSE "providers"}

-----------------------------------------------------------------------------
(* The worker: what the adapters take *)

\* assertSupportedInput and the size limits of Reality Defender
RdTakes(media) ==
  /\ media.type \in Images \union Audios
  /\ media.mb <= (IF media.type[1] = "image" THEN 5 ELSE 3)

HiveTypes ==
  ({"image"} \X {"jpeg", "png", "webp", "gif"}) \union ({"video"} \X {"mp4", "webm", "m4v"})
  \union ({"audio"} \X {"mpeg", "mp4", "wav"})
HiveTakes(media) == Plain(media.type) \in HiveTypes

Takes(p, media) == IF p = "hive" THEN HiveTakes(media) ELSE RdTakes(media)

-----------------------------------------------------------------------------
(* The page *)

\* out: the providers the user has taken out of the selection since the page was opened;
\* answer: what the submission of the last step came to.
Opened == [open |-> TRUE, tab |-> "upload", files |-> <<>>, url |-> FALSE, chosen |-> <<>>,
           out |-> {}, answer |-> "none"]
Left == [Opened EXCEPT !.open = FALSE]

Edits(new) == form.open /\ form' = [new EXCEPT !.answer = "none"]

\* GET /scan/providers has come: whoever has chosen nothing yet has chosen all.  The
\* filter keeps the others' choices, which came from the same list.
ProvidersArrive == Edits([form EXCEPT !.chosen = IF @ = <<>> THEN Enabled ELSE @])

\* A click on a provider; the last one stays.
Toggle(p) ==
  /\ form.chosen # <<>>
  /\ \/ p \notin Members(form.chosen) /\ Edits([form EXCEPT !.chosen = Append(@, p)])
     \/ \E i \in DOMAIN form.chosen :
          /\ form.chosen[i] = p /\ Len(form.chosen) > 1
          /\ Edits([form EXCEPT !.chosen = RemoveAt(@, i), !.out = @ \union {p}])

\* onDrop: what the picker refuses is dropped without a word, and what was there before
\* too; the rest stays in its order.
Accepted(files) == {k \in DOMAIN files : files[k].type[1] \in {"image", "video", "audio"}}
Drop(files) ==
  \E at \in [1..Cardinality(Accepted(files)) -> Accepted(files)] :
    /\ \A j, k \in DOMAIN at : j < k => at[j] < at[k]
    /\ Edits([form EXCEPT !.files = [k \in DOMAIN at |-> files[at[k]]]])

RemoveFile(i) == Edits([form EXCEPT !.files = RemoveAt(@, i)])

ShowTab(tab) == Edits([form EXCEPT !.tab = tab])
TypeUrl == Edits([form EXCEPT !.url = TRUE])

CanStart ==
  /\ form.open /\ form.chosen # <<>>
  /\ IF form.tab = "upload" THEN form.files # <<>> ELSE form.url

\* startScan submits the first file only, and after a refusal leaves the form as it was.
Submit(answer) ==
  /\ CanStart
  /\ answer \in (IF form.tab = "upload" THEN Answers(Head(form.files), form.chosen) ELSE AnswersOfUrl(form.chosen))
  /\ form' = [(IF answer = "stored" THEN Left ELSE form) EXCEPT !.answer = answer]

\* The user leaves the page and comes back to an empty one.
Reopen == Edits(Opened)

Edit ==
  \/ ProvidersArrive \/ TypeUrl \/ Reopen
  \/ \E p \in Providers : Toggle(p)
  \/ \E drop \in Drops : Drop(drop)
  \/ \E i \in DOMAIN form.files : RemoveFile(i)
  \/ \E tab \in {"upload", "url"} : ShowTab(tab)

FormOK ==
  /\ form.open \in BOOLEAN /\ form.tab \in {"upload", "url"} /\ form.url \in BOOLEAN
  /\ \A k \in DOMAIN form.files : form.files[k] \in Files
  /\ Members(form.chosen) \subseteq Providers /\ Cardinality(Members(form.chosen)) = Len(form.chosen)
  /\ form.out \subseteq Providers
  /\ form.answer \in {"none", "type", "size", "plan", "providers", "url", "stored"}

-----------------------------------------------------------------------------
\* What the page of a new scan names: "JPG, PNG, WebP", "MP4, MOV", "WAV, MP3", up to 2 GB.
Named == {"jpg", "jpeg", "png", "webp", "mp4", "mov", "wav", "mp3"}

\* The media of a file, as the row keeps it.
Media(file) == [type |-> Typed(file), mb |-> file.mb]

\* A submission of a file the page names is refused, or can never come to a verdict, only
\* for its plan, its size, as audio of which Hive is asked, or as a video of which Reality
\* Defender is asked or that is a MOV.  The last two fail after they were stored.
Unserved(file) == form'.answer # "stored" \/ \E p \in Members(form.chosen) : ~Takes(p, Media(file))
UnservedExplained ==
  [][CanStart /\ form'.answer # "none" /\ form.tab = "upload" =>
       LET file == Head(form.files)
           asked == Members(form.chosen)
       IN file.ext \in Named /\ Unserved(file) =>
            \/ form'.answer = "plan"
            \/ file.mb > 20
            \/ "hive" \in asked /\ file.ext \in {"wav", "mp3"}
            \/ file.ext = "mov"
            \/ /\ "reality_defender" \in asked
               /\ file.ext = "mp4" \/ file.mb > (IF file.ext \in {"wav", "mp3"} THEN 3 ELSE 5)]_form

\* The first provider asked gives the row its verdict, and the page does not show the order:
\* it is Hive, of both, only if the user has taken Reality Defender out and put it back.
OrderExplained ==
  [][CanStart /\ form'.answer = "stored" /\ Members(form.chosen) = Providers /\ form.chosen[1] = "hive"
       => "reality_defender" \in form.out]_form

\* A submission that cannot come to a verdict, or comes to that of an order nobody sees, is
\* one of the cases above: the tables of the page, the filter, the list of providers and
\* the adapters disagree in these and in no others.
SubmissionExplained == UnservedExplained /\ OrderExplained

=============================================================================
