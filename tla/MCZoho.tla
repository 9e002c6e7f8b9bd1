------------------------------- MODULE MCZoho -------------------------------
(***************************************************************************)
(* The crawl, the Zoho tokens and the Graph tokens share no state: a       *)
(* behaviour of this model is one of one of them.  The crawl meets the     *)
(* tokens only as a listing that may fail.                                 *)
(*                                                                         *)
(* A root with a folder, which holds a file, and another file, in pages of *)
(* one item; two Zoho tasks and two Graph tasks.                           *)
(***************************************************************************)
EXTENDS ZohoCrawl, AccessTokens

VARIABLE part   \* the part that runs: "crawl", "zoho" or "graph"

MCChildren == [d \in {"root", "sub"} |-> IF d = "root" THEN <<"sub", "f1">> ELSE <<"f2">>]

\* A host of the zone, the US data center, and a bare domain.
MCHosts == {<<"com", "zohocdn", "files">>, <<"com", "zoho", "download">>, <<"com", "zohocdn">>}

vars == <<part, crawlVars, tokenVars>>

Init == part \in {"crawl", "zoho", "graph"} /\ CrawlInit /\ TokenInit

Next ==
    /\ UNCHANGED part
    /\ \/ part = "crawl" /\ CrawlNext /\ UNCHANGED tokenVars
       \/ \E t \in TokenTasks : part = ConnectorOf(t) /\ TokenNext(t) /\ UNCHANGED crawlVars

\* main's loop polls for ever and awaits every call.
Spec == Init /\ [][Next]_vars
        /\ WF_vars(part = "crawl" /\ CrawlDaemon /\ UNCHANGED <<part, tokenVars>>)
=============================================================================
