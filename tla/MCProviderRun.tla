---------------------------- MODULE MCProviderRun ----------------------------
(* Instances of ProviderTabs for TLC: the two providers of scanProviders.js in *)
(* their sort order, reality_defender being the one that is polled, and cases  *)
(* that between them take every refusal and every flow of requests.            *)
EXTENDS ProviderTabs

CONSTANTS reality_defender, hive

MCSelected == <<reality_defender, hive>>
MCPollers == {reality_defender}

Both == {reality_defender, hive}

Usual == [vendor |-> "reality_defender", configured |-> Both, multipart |-> FALSE, urls |-> TRUE,
          probe |-> TRUE, source |-> "upload", takes |-> Both, size |-> "fits"]
Generic == [Usual EXCEPT !.vendor = "generic"]
Multipart == [Generic EXCEPT !.multipart = TRUE, !.probe = FALSE]

MCCases ==
  {Usual, [Usual EXCEPT !.size = "large"], [Usual EXCEPT !.takes = {hive}],
   [Usual EXCEPT !.configured = {hive}], [Usual EXCEPT !.vendor = "unknown"],
   [Generic EXCEPT !.source = "url"], [Generic EXCEPT !.source = "url", !.urls = FALSE],
   [Generic EXCEPT !.source = "legacy"],
   Multipart, [Multipart EXCEPT !.source = "url"], [Multipart EXCEPT !.source = "legacy"],
   [Multipart EXCEPT !.size = "empty"]}

=============================================================================
