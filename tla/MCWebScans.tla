------------------------------ MODULE MCWebScans ------------------------------
(* Instance of WebScans for TLC, and of the API's answers to a request for media. *)
EXTENDS WebScans, MediaReply

MCWords == {"a"}

\* Files of up to six bytes, one more than a preview may have; what WebScansProofs proves of all.
MCValue == -1..6
MCHeader == [form : {"none", "suffix", "from"}, first : MCValue, last : MCValue \union {Absent}]

ASSUME RepliesAnswerHeaders ==
  \A r \in [mine : {TRUE}, upload : BOOLEAN, size : 0..6], o \in [exists : BOOLEAN, size : 0..6] :
    \A h \in MCHeader : AnswersHeader(r, o, h)
=============================================================================
