------------------------------ MODULE PartyStore ------------------------------
(***************************************************************************)
(* The two stores the DJEN worker and the backoffice share, and the way    *)
(* they key the same party.                                                *)
(*                                                                         *)
(* Memgraph holds the public graph: Person and Organization nodes named    *)
(* after a case party, Politician nodes, and DEFENDANT_IN edges to the     *)
(* proceedings.  Postgres holds what was seen (djen_party_snapshot), what  *)
(* a human has to decide (pending_review), what was asked to be removed    *)
(* (removal_request) and what must not come back (purge_tombstone).        *)
(* No transaction spans two statements, let alone the two stores, so every *)
(* statement is an action of its own in DjenWorker and Backoffice.         *)
(*                                                                         *)
(* A party reaches the system as a roster entry: a raw name and a side of  *)
(* the case.  Four foldings of that name decide what happens to it, and    *)
(* they do not agree; a constant function stands for each of them.         *)
(***************************************************************************)
EXTENDS Naturals, FiniteSets

CONSTANTS
  Case,        \* tracked cases; each has its LegalProceeding
  Entry,       \* roster entries (raw nome, polo) DJEN can publish
  Name,        \* names after stripEOutros; nameSlug makes one node of each
  Politician,  \* normalized politician names; the index keeps one id of each
  TombKey,     \* subject keys of purge_tombstone
  ReviewId,    \* rows of pending_review that can be filed (bound)
  ReqId        \* removal requests that can be made (bound)

CONSTANTS
  PartyName,   \* [Entry -> Name]        stripEOutros(nome)
  RosterKey,   \* [Entry -> key]         partyKey(nome, polo)
  Passive,     \* SUBSET Entry           polo "P"
  Verbatim,    \* SUBSET Entry           nome carries no "E OUTROS" marker
  Company,     \* SUBSET Name            isCompanyName
  NormalName,  \* [Name -> Politician]   normalizeName
  NameKey,     \* [Name -> TombKey]      TombstoneKeyName
  Mentions     \* [Name -> SUBSET Name]  names whose payload ILIKE %name%

ASSUME StoreAssumption ==
  /\ Case # {} /\ Entry # {} /\ Name # {} /\ ReviewId # {} /\ ReqId # {}
  /\ Name \cap Politician = {}
  /\ PartyName \in [Entry -> Name]
  /\ Passive \subseteq Entry
  /\ Verbatim \subseteq Entry
  /\ Company \subseteq Name
  /\ NormalName \in [Name -> Politician]
  /\ NameKey \in [Name -> TombKey]
  /\ Mentions \in [Name -> SUBSET Name]
  /\ \A n \in Name : n \in Mentions[n]

VARIABLES
  published,   \* what DJEN has published of each case so far
  nodes,       \* Person / Organization nodes present in the graph
  politicians, \* Politician nodes, by the normalized name that indexes them
  edges,       \* DEFENDANT_IN edge of each subject in each case
  snapshot,    \* djen_party_snapshot: entry stored for each case
  reviews,     \* pending_review
  requests,    \* removal_request
  tombstones,  \* purge_tombstone
  audited      \* requests whose node deletion reached audit_log

\* History variables: no action reads them.
VARIABLES
  purged,      \* names whose node a purge has deleted
  exposed      \* names a tombstone came too late for (see PurgeTombstone)

history  == <<purged, exposed>>
graph    == <<nodes, politicians, edges>>
postgres == <<snapshot, reviews, requests, tombstones, audited>>
store    == <<published, nodes, politicians, edges, snapshot, reviews, requests,
              tombstones, audited, purged, exposed>>

-------------------------------------------------------------------------------
(* Graph.                                                                  *)

Subject == Name \cup Politician

\* "cited" is what DJEN writes, "confirmed" what approving a match writes; the
\* operator's form records one of the outcomes of DefendantOutcome ("acquitted"
\* stands for the three others that need no evidence).
HumanOutcome == {"convicted", "acquitted", "cited"}
Outcome      == HumanOutcome \cup {"confirmed"}

\* by: outcome_source = 'human'; evidence: outcome_evidence_url is not empty.
Edge   == [outcome : Outcome \cup {"none"}, by : BOOLEAN, evidence : BOOLEAN]
NoEdge == [outcome |-> "none", by |-> FALSE, evidence |-> FALSE]

HasEdge(s, c) == edges[s][c].outcome # "none"

\* MERGE (n)-[r:DEFENDANT_IN]->(lp) SET r.outcome = o: the properties a human
\* put on an existing edge stay on it.
MergeEdge(s, c, o) == [edges EXCEPT ![s][c].outcome = o]

\* DETACH DELETE of a node.
DetachDelete(n) ==
  /\ nodes' = nodes \ {n}
  /\ edges' = [edges EXCEPT ![n] = [c \in Case |-> NoEdge]]

-------------------------------------------------------------------------------
(* Postgres.                                                               *)

ReviewKind == {"party_match", "unknown_cnpj"}

\* A row never filed, or deleted, has kind "none".
Review == [kind : ReviewKind \cup {"none"}, used : BOOLEAN,
           name : Name, case : Case, status : {"pending", "approved", "rejected"}]

AnyName == CHOOSE n \in Name : TRUE
AnyCase == CHOOSE c \in Case : TRUE

FreshRow == [kind |-> "none", used |-> FALSE, name |-> AnyName, case |-> AnyCase,
             status |-> "pending"]

Filed(r) == reviews[r].kind # "none"

\* CreatePendingReview: INSERT with a new uuid.
CreatePendingReview(kind, n, c) ==
  \E r \in ReviewId :
    /\ ~reviews[r].used
    /\ reviews' = [reviews EXCEPT ![r] =
                     [kind |-> kind, used |-> TRUE, name |-> n, case |-> c,
                      status |-> "pending"]]

\* UPDATE pending_review SET status = s WHERE id = r: no row, no error, and no
\* condition on the status it had.
UpdatePendingReviewStatus(r, s) ==
  reviews' = IF Filed(r) THEN [reviews EXCEPT ![r].status = s] ELSE reviews

HasPartyMatchReview(p, c) ==
  \E r \in ReviewId : /\ reviews[r].kind = "party_match"
                      /\ NormalName[reviews[r].name] = p
                      /\ reviews[r].case = c

SnapshotKeys(c) == {RosterKey[e] : e \in snapshot[c]}

\* INSERT ... ON CONFLICT (case_number, party_key) DO NOTHING
InsertDjenSnapshotParty(c, e) ==
  snapshot' = IF RosterKey[e] \in SnapshotKeys(c) THEN snapshot
              ELSE [snapshot EXCEPT ![c] = @ \cup {e}]

IsSubjectPurged(n) == NameKey[n] \in tombstones

\* A request not made yet has status "none".  "purged" and "manual" are status
\* 'resolved' with the resolution note of either action.
Request == [target : Subject, status : {"none", "pending", "purged", "manual", "rejected"}]

AnySubject == CHOOSE s \in Subject : TRUE
NoRequest == [target |-> AnySubject, status |-> "none"]

StoreTypeOK ==
  /\ published \in [Case -> SUBSET Entry]
  /\ nodes \subseteq Name
  /\ politicians \subseteq Politician
  /\ edges \in [Subject -> [Case -> Edge]]
  /\ snapshot \in [Case -> SUBSET Entry]
  /\ reviews \in [ReviewId -> Review]
  /\ requests \in [ReqId -> Request]
  /\ tombstones \subseteq TombKey
  /\ audited \subseteq ReqId
  /\ purged \subseteq Name
  /\ exposed \subseteq Name

StoreInit ==
  /\ published = [c \in Case |-> {}]
  /\ nodes = {}
  /\ politicians = {}
  /\ edges = [s \in Subject |-> [c \in Case |-> NoEdge]]
  /\ snapshot = [c \in Case |-> {}]
  /\ reviews = [r \in ReviewId |-> FreshRow]
  /\ requests = [q \in ReqId |-> NoRequest]
  /\ tombstones = {}
  /\ audited = {}
  /\ purged = {}
  /\ exposed = {}
===============================================================================
