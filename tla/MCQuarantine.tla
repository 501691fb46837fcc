---------------------------- MODULE MCQuarantine ----------------------------
(* Two investigations with a URL for a target, two submissions out of three: a log
   uploaded or fetched, the same the target answers with, and an executable that is
   declared a log. *)
EXTENDS Quarantine, TLC

CONSTANTS i1, i2, r1, r2, log, exe

MCHeader ==
    log :> [magic |-> "none", text |-> TRUE, words |-> {"auth"}, size |-> "fits"]
    @@ exe :> [magic |-> "binary_file", text |-> FALSE, words |-> {}, size |-> "fits"]

Sends(via, content, name, declared) ==
    [via |-> via, content |-> content, name |-> name, declared |-> declared]
MCSubmissions == {
    Sends("file", log, "log", "unknown"), Sends("url", log, "bin", "url_response"),
    Sends("file", exe, "log", "linux_auth_log") }

MCTarget ==
    [i \in Investigations |-> [url |-> TRUE, log |-> FALSE, answer |-> log, value |-> None]]

Symmetry == Permutations(Requests) \union Permutations(Investigations)
=============================================================================
