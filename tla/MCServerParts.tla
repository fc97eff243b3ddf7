--------------------------- MODULE MCServerParts ----------------------------
(***************************************************************************)
(* Two parts of the server of chapter 15, each on its own: the thread pool *)
(* and the parser of requests.  Neither reads what the other keeps, so     *)
(* that one is at rest while the other, named by part, is looked at.       *)
(***************************************************************************)
EXTENDS ThreadPool, MCHttpParser

VARIABLE part

PartsInit ==
    /\ part \in {"pool", "parser"} /\ Init /\ ParserInit
    /\ part = "pool" => chapter = 15 /\ message = CHOOSE m \in messages : TRUE

PartsNext ==
    /\ \/ part = "pool" /\ Next /\ UNCHANGED parserVars
       \/ part = "parser" /\ ParserNext /\ UNCHANGED vars
    /\ UNCHANGED part

\* The threads are scheduled as in FairSpec.
PartsSpec ==
    /\ PartsInit /\ [][PartsNext]_<<vars, parserVars, part>>
    /\ \A p \in Producer : WF_vars(part = "pool" /\ append(p))
    /\ \A w \in Worker : WF_vars(part = "pool" /\ run(w))

=============================================================================
