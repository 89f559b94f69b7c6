-------------------------------- MODULE Proxy --------------------------------
(***************************************************************************)
(* The GitHub proxy of the HTTP API (server/github.go), every call of      *)
(* which goes through the transport of an App credential. One request      *)
(* collects a list page by page while GitHub's list changes; the other     *)
(* callers make single calls (GetUser, GetOrg, GetRepo, GetRateLimit, and  *)
(* those of the collector and the health loop).                            *)
(***************************************************************************)
EXTENDS AppTransport, SequencesExt

CONSTANTS
    Lister,       \* the caller that collects a list
    PerPage,      \* items on a page, 100 in the code
    StartLength,  \* bound: items at the start of a listing
    MaxChanges    \* bound: changes of the list during a listing

ASSUME ListerAssumption == Lister \in Callers /\ PerPage \in Nat \ {0}
ASSUME BoundsAssumption == StartLength \in Nat /\ MaxChanges \in Nat

VARIABLES
    hpc,       \* "none", "paging", "done", "failed"
    kind,      \* which of the three handlers
    items,     \* GitHub's list now
    all,       \* what the handler has collected
    page,      \* opts.Page
    \* history of the listing
    kept,      \* items that have been in the list all the time
    inserted,  \* number of insertions
    deleted    \* number of deletions

listVars == <<hpc, kind, items, all, page, kept, inserted, deleted>>
proxyVars == <<transportVars, listVars>>

ListInit ==
    /\ hpc = "none" /\ kind = "runs"
    /\ items = <<>> /\ all = <<>> /\ page = 1
    /\ kept = {} /\ inserted = 0 /\ deleted = 0

-----------------------------------------------------------------------------

(* A handler starts: the list holds n items, numbered in its order. *)
StartList(handler) ==
    /\ hpc \in {"none", "done", "failed"}
    /\ Call(Lister)
    /\ hpc' = "paging" /\ kind' = handler
    /\ \E n \in 0..StartLength : items' = [i \in 1..n |-> i]
    /\ kept' = ToSet(items')
    /\ all' = <<>> /\ page' = 1 /\ inserted' = 0 /\ deleted' = 0

ListBranches == StartList("branches")
ListWorkflows == StartList("workflows")
ListWorkflowRuns == StartList("runs")

PageOf(s, p) == SubSeq(s, (p - 1) * PerPage + 1, IF p * PerPage < Len(s) THEN p * PerPage ELSE Len(s))
NextPage(s, p) == IF p * PerPage < Len(s) THEN p + 1 ELSE 0

OnlyThisPage == PageOf(items, page)   \* mutant: the list is assigned, not appended to
Collected == all \o PageOf(items, page)

(* The request for a page arrives and is answered; the loop asks for the next *)
(* page or ends with what it has. *)
PageArrives ==
    /\ hpc = "paging"
    /\ left[Lister] > 0
    /\ all' = Collected
    /\ IF NextPage(items, page) = 0
         THEN Arrive(Lister, "idle") /\ hpc' = "done" /\ UNCHANGED page
         ELSE Arrive(Lister, "lock") /\ page' = NextPage(items, page) /\ UNCHANGED hpc
    /\ UNCHANGED <<kind, items, kept, inserted, deleted>>

(* Any error ends the handler: nothing of what it has collected is shown. *)
ListFails ==
    /\ hpc = "paging"
    /\ Reject(Lister) \/ ExchangeFails(Lister) \/ Arrive(Lister, "idle")
    /\ hpc' = "failed" /\ all' = <<>>
    /\ UNCHANGED <<kind, items, page, kept, inserted, deleted>>

-----------------------------------------------------------------------------
(* Somebody changes the list during a listing. *)

Changing == hpc = "paging" /\ inserted + deleted < MaxChanges

(* Runs are listed newest first, workflows as they were created, branches by name. *)
Places ==
    CASE kind = "runs" -> {1}
      [] kind = "workflows" -> {Len(items) + 1}
      [] kind = "branches" -> 1..(Len(items) + 1)

ItemAppears ==
    /\ Changing
    /\ \E at \in Places : items' = InsertAt(items, at, StartLength + inserted + 1)
    /\ inserted' = inserted + 1
    /\ UNCHANGED <<transportVars, hpc, kind, all, page, kept, deleted>>

ItemDisappears ==
    /\ Changing
    /\ \E at \in DOMAIN items :
          /\ items' = RemoveAt(items, at)
          /\ kept' = kept \ {items[at]}
    /\ deleted' = deleted + 1
    /\ UNCHANGED <<transportVars, hpc, kind, all, page, inserted>>

-----------------------------------------------------------------------------

SingleCall(c) ==
    /\ c # Lister
    /\ Call(c)
    /\ UNCHANGED listVars

SingleCallEnds(c) ==
    /\ c # Lister
    /\ Reject(c) \/ ExchangeFails(c) \/ Arrive(c, "idle")
    /\ UNCHANGED listVars

ProxyInit == TransportInit /\ ListInit

ProxyNext ==
    \/ ListBranches \/ ListWorkflows \/ ListWorkflowRuns
    \/ PageArrives \/ ListFails
    \/ ItemAppears \/ ItemDisappears
    \/ \E c \in Callers :
          \/ SingleCall(c)
          \/ SingleCallEnds(c)
          \/ Token(c) /\ UNCHANGED listVars
    \/ Tick /\ UNCHANGED listVars

ProxySpec == ProxyInit /\ [][ProxyNext]_proxyVars

-----------------------------------------------------------------------------

(* github.go:173: a list that was put together from pages of a changing list *)
(* misses no more of the items that were there all the time than have been *)
(* deleted meanwhile, and repeats no more than have been inserted. *)
ListsWhatStayed ==
    hpc = "done" =>
        /\ Cardinality(kept \ ToSet(all)) <= deleted
        /\ Len(all) - Cardinality(ToSet(all)) <= inserted
=============================================================================
