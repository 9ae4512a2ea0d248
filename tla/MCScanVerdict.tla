----------------------------- MODULE MCScanVerdict -----------------------------
(* The instance of ScanVerdict for TLC: answers on both sides of every threshold. *)
EXTENDS ScanVerdict, TLC

RD == "reality_defender"

File(ext, family, format, mb) == [ext |-> ext, type |-> <<family, format>>, mb |-> mb]
MCFiles == {
  File("jpg", "image", "jpeg", 1), File("png", "image", "png", 10), File("webp", "image", "webp", 30),
  File("heic", "image", "heic", 1), File("mov", "video", "quicktime", 10), File("mp4", "video", "mp4", 10),
  File("mp3", "audio", "mp3", 1), File("wav", "audio", "wav", 4),
  File("pdf", "application", "pdf", 1)}
\* One file, or a document and a picture.
MCDrops == {<<f>> : f \in MCFiles}
  \union {<<File("pdf", "application", "pdf", 1), File("jpg", "image", "jpeg", 1), File("mp3", "audio", "mp3", 1)>>}

Rd(label, final, ensemble) == [vendor |-> RD, label |-> label, final |-> final, ensemble |-> ensemble]
MCRdAnswers == {
  Rd("MANIPULATED", 90, 76), Rd("MANIPULATED", 80, Missing), Rd("AUTHENTIC", 4, 8),
  Rd("SUSPICIOUS", Missing, Missing),
  [vendor |-> "generic", label |-> "AUTHENTIC", final |-> 97, ensemble |-> Missing]}

Frame(ai, notAi, deepfake) == [ai |-> ai, notAi |-> notAi, deepfake |-> deepfake]
Hive(ai, confidence, frames) == [ai |-> ai, confidence |-> confidence, frames |-> frames]
MCHiveAnswers == {
  Hive("open", Missing, <<Frame(98, 2, Missing)>>), Hive("open", Missing, <<Frame(3, 97, Missing)>>),
  Hive("open", Missing, <<Frame(99, 1, Missing), Frame(2, 98, Missing)>>),
  Hive("no", 90, <<Frame(Missing, 60, 95)>>), Hive("yes", 95, <<>>)}

Symmetry == Permutations(Runs)

=============================================================================
