----------------------------- MODULE MCEvidence -----------------------------
(* Triage extracts from two sources, the second one a capture whose parser   *)
(* may fail, and a third that holds nothing; the logs show one thing twice.  *)
EXTENDS EvidenceRecord

CONSTANTS ioc, pcap, empty, auth, addr, flow, dns, login

CallsOfTriage == <<ioc, pcap, empty>>
CallsOfLogs   == <<auth>>

Extracted ==
  [c \in {ioc, pcap, empty, auth} |->
     CASE c = ioc   -> <<addr>>
       [] c = pcap  -> <<flow, dns, flow>>
       [] c = empty -> <<>>
       [] c = auth  -> <<login, login>>]
=============================================================================
